----------------------------- MODULE PlansProperties -----------------------------
(* What must hold of an organization and the limits of its plan.           *)
EXTENDS Plans

Fits(S, now, limit) == Cardinality(S) <= limit \/ S \subseteq now

\* As long as no save was decided by what had changed meanwhile, nothing grows
\* past the plan, neither by creating nor by switching back on, and a plan is
\* only changed to one that holds what there is (the Ensure...CreationAllowed
\* use cases, UpdateOrganizationSubscription).  A refused business that is
\* approved after all is the exception of BusinessesWithinPlan.
GrowsWithinPlan ==
  [][overlapped' = {} /\ subscription' # None =>
       LET limit   == PlanLimits[subscription'.plan]
           changed == subscription # None /\ subscription'.plan # subscription.plan
           kept(S) == IF changed THEN {} ELSE S
       IN  /\ readmitted' \/ Fits(Usage'.businesses, kept(Usage.businesses), limit.businesses)
           /\ Fits(ActiveQueues', kept(ActiveQueues), limit.queues)
           /\ \A k \in DOMAIN queues :
                Fits(Usage'.windows[k], kept(Usage.windows[k]), limit.windows)]_vars

\* The limit on businesses, whatever the order of calls that wait for each
\* other (PLAN_LIMITS, EnsureBusinessCreationAllowedUseCase).
BusinessesWithinPlan ==
  overlapped = {} /\ subscription # None =>
    Cardinality(Usage.businesses) <= PlanLimits[subscription.plan].businesses

\* Once a cancellation has answered, the business is back to what the basic plan
\* allows, also after attempts that failed half way; if the account was activated
\* in between, no cancellation may be unfinished
\* (CancelOrganizationSubscriptionAndEnforceLimitsUseCase,
\* EnforceQueueLimitsForOrganizationUseCase).
EnforcementRestores ==
  /\ overlapped = {} /\ subscription # None /\ subscription.status = "cancelled"
  /\ \E r \in Requests : At(r, "cancel", "done")
  /\ \/ \A r \in Requests : ~At(r, "activate", "done")
     \/ \A r \in Requests : req[r].op = "cancel" => req[r].pc = "done"
  => /\ Cardinality(ActiveQueues) <= PlanLimits["basic"].queues
     /\ \A k \in ActiveQueues : Cardinality(ActiveWindows(k)) <= PlanLimits["basic"].windows

\* An approved business keeps a queue that is active, which every way in relies
\* on, unless the queues changed between a request's read and its save
\* (ToggleQueueUseCase, EnforceQueueLimitsForOrganizationUseCase).
KeepsActiveQueue ==
  businesses[Seed] # None /\ businesses[Seed].status = "approved" /\ "queues" \notin overlapped
  => ActiveQueues # {}

\* What has been paid for ends by a cancellation only: a trial that runs out
\* under an active subscription changes nothing
\* (ResolveEffectiveSubscriptionStatusUseCase).
ActivationStands ==
  [][subscription # None /\ subscription.status = "active" /\ subscription'.status # "active" =>
       \/ "subscription" \in overlapped'
       \/ \E r \in Requests : At(r, "cancel", "save") /\ req'[r].pc = "list"]_vars

\* All the businesses an owner registers belong to one organization, also when
\* the first two are registered at once (CreateOrganizationForOwnerUseCase).
OneOrganization ==
  \A b, c \in Ids : businesses[b] # None /\ businesses[c] # None
                      => businesses[b].organization = businesses[c].organization
=============================================================================
