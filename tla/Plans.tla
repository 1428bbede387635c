---------------------------------- MODULE Plans ----------------------------------
(***************************************************************************)
(* The organization of one owner, its subscription, and the limits of its  *)
(* plan on businesses, queues and windows.  Of the businesses only that of *)
(* Seed has its queues here.  As in Businesses, a request is used once, a  *)
(* save writes what was read, and what a request creates is named after it.*)
(***************************************************************************)
EXTENDS Naturals, Sequences, FiniteSets

CONSTANTS
  Requests, Seed, None,
  Ops,         \* the use cases the instance runs
  PlanLimits   \* the plan grid

PlanNames == {"basic", "pro", "premium"}
Limited   == {"businesses", "queues", "windows"}

ASSUME PlansAssumption ==
  /\ {Seed, None} \cap Requests = {} /\ Seed # None
  /\ PlanLimits \in [PlanNames -> [Limited -> Nat \ {0}]]
  /\ \A p \in PlanNames, t \in Limited : PlanLimits["basic"][t] <= PlanLimits[p][t]

VARIABLES
  organization,  \* table organizations: the owner's, or None
  subscription,  \* table subscriptions: its row, or None
  trialOver,     \* the trial's last day has passed
  businesses,    \* table businesses: status and organization of each, or None
  queues,        \* the queues of Seed and their windows, oldest first, and who is active
  req,           \* the requests
  overlapped,    \* history: what changed between a request's read and its save
  readmitted     \* history: a rejected business was approved

vars == <<organization, subscription, trialOver, businesses, queues, req, overlapped, readmitted>>

Ids         == Requests \cup {Seed}
Ended       == {"cancelled", "expired"}
QueueOps    == {"createQueue", "toggleQueue"}
WindowOps   == {"createWindow", "toggleWindow"}

OrganizationRow == [id : Ids, status : {"pending", "approved", "rejected"}, name : Ids]
SubscriptionRow == [status : {"pending", "trial", "active"} \cup Ended, plan : PlanNames]
BusinessRow     == [status : {"pending", "approved", "rejected"}, organization : Ids]

\* So that a table can be asked whether it holds a row.
ASSUME NoneIsNoRow == None \notin OrganizationRow \cup SubscriptionRow \cup BusinessRow

\* What counts against a plan: a rejected business does not, nor a queue or a
\* window that is not active.
ActiveQueues     == {k \in DOMAIN queues : queues[k].active}
ActiveWindows(k) == {w \in DOMAIN queues[k].windows : queues[k].windows[w]}

Usage == [businesses |-> {b \in Ids : businesses[b] # None /\ businesses[b].status # "rejected"},
          queues     |-> ActiveQueues,
          windows    |-> [k \in DOMAIN queues |-> ActiveWindows(k)]]

Unused == [op |-> None, pc |-> "unused",
           on |-> None,          \* the organization or the business it is about
           queue |-> 0,          \* the queue and the window it is about
           window |-> 0,
           active |-> TRUE,      \* what they become
           row |-> None,         \* the row it read
           write |-> None,       \* the row it will save
           seen |-> <<>>,        \* the usage it read
           keep |-> {},          \* queues whose windows are still to be looked at
           drop |-> {}]          \* queues, or windows, still to be deactivated

Pcs == {"unused", "found", "count", "plan", "lapse", "look", "list", "drop", "windows", "trim",
        "queues", "sizes", "change", "save", "first", "done", "failed"}

TypeOK ==
  /\ organization \in OrganizationRow \cup {None}
  /\ subscription \in SubscriptionRow \cup {None}
  /\ trialOver \in BOOLEAN /\ readmitted \in BOOLEAN
  /\ businesses \in [Ids -> BusinessRow \cup {None}]
  /\ queues \in Seq([active : BOOLEAN, windows : Seq(BOOLEAN)])
  /\ overlapped \subseteq Limited \cup {"subscription"}
  /\ \A r \in Requests :
       LET q == req[r] IN
       /\ DOMAIN q = DOMAIN Unused
       /\ q.op \in Ops \cup {None} /\ q.pc \in Pcs /\ q.on \in Ids \cup {None}
       /\ q.row \in OrganizationRow \cup SubscriptionRow \cup {None}
       /\ q.write \in OrganizationRow \cup SubscriptionRow \cup {None}
       /\ q.queue \in 0..Len(queues) /\ q.active \in BOOLEAN
       /\ DOMAIN q.seen \subseteq Limited
       /\ q.keep \subseteq DOMAIN queues /\ q.drop \subseteq Nat

Queue(active, n)  == [active |-> active, windows |-> [w \in 1..n |-> TRUE]]
SeedBusiness(s)   == [b \in Ids |-> IF b = Seed THEN [status |-> s, organization |-> Seed] ELSE None]

\* Nobody registered yet; a registration before its review or after a refusal;
\* or a business at work on a paid plan or a trial.  Two queues come from two
\* approvals at once, one of them perhaps switched off since.
Init ==
  /\ trialOver = FALSE /\ overlapped = {} /\ readmitted = FALSE
  /\ req = [r \in Requests |-> Unused]
  /\ \/ /\ organization = None /\ subscription = None
        /\ businesses = [b \in Ids |-> None] /\ queues = <<>>
     \/ /\ organization \in [id : {Seed}, status : {"pending", "approved"}, name : {Seed}]
        /\ subscription = [status |-> "pending", plan |-> "basic"]
        /\ \E s \in {"pending", "rejected"} : businesses = SeedBusiness(s)
        /\ queues = <<>>
     \/ /\ organization = [id |-> Seed, status |-> "approved", name |-> Seed]
        /\ businesses = SeedBusiness("approved")
        /\ \/ /\ subscription = [status |-> "trial", plan |-> "basic"]
              /\ queues = <<Queue(TRUE, 1)>>
           \/ /\ subscription \in [status : {"trial", "active"}, plan : {"pro"}]
              /\ queues \in {<<Queue(TRUE, 2)>>, <<Queue(TRUE, 2), Queue(FALSE, 1)>>}
           \/ /\ subscription = [status |-> "active", plan |-> "premium"]
              /\ queues = <<Queue(TRUE, 1), Queue(TRUE, 2)>>

-----------------------------------------------------------------------------
(* Steps of a request.                                                     *)

At(r, op, pc) == req[r].op = op /\ req[r].pc = pc
Become(r, q)  == req' = [req EXCEPT ![r] = q]
End(r, pc)    == Become(r, [Unused EXCEPT !.op = req[r].op, !.pc = pc])
Start(r, op, pc, q) ==
  /\ op \in Ops /\ req[r] = Unused
  /\ Become(r, [q EXCEPT !.op = op, !.pc = pc])

See(tables) == [t \in tables |-> Usage[t]]

\* A save notes whether what the request decided by still stands.
Notes(q) ==
  overlapped' = overlapped \cup {t \in DOMAIN q.seen : q.seen[t] # Usage[t]}
                           \cup (IF q.row \in {None, subscription} THEN {} ELSE {"subscription"})

account == <<organization, subscription, trialOver>>
history == <<overlapped, readmitted>>

-----------------------------------------------------------------------------
(* The subscription as it is read and as the team changes it.              *)

\* Mutant: a trial counts as over even when it has been paid for.
LapsedAny(row) == row.status \in {"trial", "active"} /\ trialOver

\* Nothing runs on a clock: whoever reads the subscription closes the trial.
Lapsed(row) == row.status = "trial" /\ trialOver

TrialEnds ==
  /\ subscription # None /\ subscription.status # "pending" /\ ~trialOver
  /\ trialOver' = TRUE
  /\ UNCHANGED <<organization, subscription, businesses, queues, req, history>>

\* Mutant: the second door, switching something back on, is not guarded.
HasRoomToAdd(q, limit) ==
  /\ q.op = "register"     => Cardinality(q.seen.businesses) < limit.businesses
  /\ q.op = "createQueue"  => Cardinality(q.seen.queues) < limit.queues
  /\ q.op = "createWindow" => Cardinality(q.seen.windows[q.queue]) < limit.windows

HasRoom(q, limit) ==
  /\ q.op = "register"   => Cardinality(q.seen.businesses) < limit.businesses
  /\ q.op \in QueueOps   => Cardinality(q.seen.queues \ {q.queue}) < limit.queues
  /\ q.op \in WindowOps  => Cardinality(q.seen.windows[q.queue] \ {q.window}) < limit.windows

\* A request that needs the plan, once it has it: without one, whoever wanted a
\* queue or a window first switches off what exceeds the basic plan.
Decide(r, row) ==
  LET q == req[r] IN
  \/ q.op = "readPlan" /\ End(r, "done")
  \/ /\ q.op # "readPlan" /\ row.status \notin Ended
     /\ IF HasRoom(q, PlanLimits[row.plan])
        THEN Become(r, [q EXCEPT !.pc = IF q.op = "approve" THEN "look" ELSE "save", !.row = row])
        ELSE End(r, "failed")
  \/ /\ q.op # "readPlan" /\ row.status \in Ended
     /\ IF q.op \in QueueOps \cup WindowOps THEN Become(r, [q EXCEPT !.pc = "list"])
                                            ELSE End(r, "failed")

ReadPlan(r) ==
  /\ req[r].pc = "plan"
  /\ IF Lapsed(subscription)
     THEN Become(r, [req[r] EXCEPT !.pc = "lapse", !.row = subscription])
     ELSE Decide(r, subscription)
  /\ UNCHANGED <<account, businesses, queues, history>>

BeginReadPlan(r) ==
  /\ subscription # None /\ Lapsed(subscription)
  /\ Start(r, "readPlan", "lapse", [Unused EXCEPT !.row = subscription])
  /\ UNCHANGED <<account, businesses, queues, history>>

SaveLapse(r) ==
  LET row == [req[r].row EXCEPT !.status = "expired"]
  IN  /\ req[r].pc = "lapse"
      /\ subscription' = row
      /\ Notes(req[r]) /\ Decide(r, row)
      /\ UNCHANGED <<organization, trialOver, businesses, queues, readmitted>>

Edit(r, op, new) ==
  /\ Start(r, op, "save", [Unused EXCEPT !.row = subscription, !.write = new])
  /\ UNCHANGED <<account, businesses, queues, history>>

BeginActivate(r) ==
  /\ subscription # None /\ subscription.status # "active"
  /\ Edit(r, "activate", [subscription EXCEPT !.status = "active"])

BeginCancel(r) ==
  /\ subscription # None /\ subscription.status \notin Ended
  /\ Edit(r, "cancel", [subscription EXCEPT !.status = "cancelled"])

\* Cancelled before, and perhaps not enforced: the second half once more.
BeginCancelAgain(r) ==
  /\ subscription # None /\ subscription.status = "cancelled"
  /\ Start(r, "cancel", "list", Unused)
  /\ UNCHANGED <<account, businesses, queues, history>>

\* The usage is counted first, table by table, the subscription read after it.
BeginChangePlan(r, plan) ==
  /\ subscription # None
  /\ Start(r, "changePlan", "queues",
           [Unused EXCEPT !.seen = See({"businesses"}), !.write = [subscription EXCEPT !.plan = plan]])
  /\ UNCHANGED <<account, businesses, queues, history>>

CountQueues(r) ==
  /\ At(r, "changePlan", "queues")
  /\ Become(r, [req[r] EXCEPT !.pc = "sizes",
                              !.seen = [businesses |-> req[r].seen.businesses, queues |-> ActiveQueues,
                                        windows |-> [k \in DOMAIN queues |-> {}]]])
  /\ UNCHANGED <<account, businesses, queues, history>>

\* Only the windows of the queues that were listed.
CountWindows(r) ==
  /\ At(r, "changePlan", "sizes")
  /\ Become(r, [req[r] EXCEPT !.pc = "change",
                              !.seen.windows = [k \in DOMAIN @ |-> ActiveWindows(k)]])
  /\ UNCHANGED <<account, businesses, queues, history>>

CheckUsage(r) ==
  LET q     == req[r]
      limit == PlanLimits[q.write.plan]
      fits  == /\ Cardinality(q.seen.businesses) <= limit.businesses
               /\ Cardinality(q.seen.queues) <= limit.queues
               /\ \A k \in DOMAIN q.seen.windows : Cardinality(q.seen.windows[k]) <= limit.windows
  IN  /\ At(r, "changePlan", "change")
      /\ IF fits THEN Become(r, [q EXCEPT !.pc = "save", !.row = subscription,
                                          !.write = [subscription EXCEPT !.plan = q.write.plan]])
                 ELSE End(r, "failed")
      /\ UNCHANGED <<account, businesses, queues, history>>

SaveSubscription(r) ==
  LET q == req[r] IN
  /\ q.pc = "save" /\ q.op \in {"activate", "cancel", "changePlan"}
  /\ subscription' = q.write
  /\ Notes(q)
  /\ IF q.op = "cancel" THEN Become(r, [Unused EXCEPT !.op = "cancel", !.pc = "list"]) ELSE End(r, "done")
  /\ UNCHANGED <<organization, trialOver, businesses, queues, readmitted>>

-----------------------------------------------------------------------------
(* EnforceQueueLimitsForOrganizationUseCase, always to the basic plan.     *)

\* Mutant: one more than the limit stays.
BeyondNext(S, n) == {x \in S : Cardinality({y \in S : y < x}) > n}

\* All but the n oldest.
Beyond(S, n) == {x \in S : Cardinality({y \in S : y < x}) >= n}

Least(S) == CHOOSE x \in S : \A y \in S : x <= y

\* A cancellation ends well, the refusal of a queue or a window as one.
Finish(r) == End(r, IF req[r].op = "cancel" THEN "done" ELSE "failed")

ListQueues(r) ==
  LET drop == Beyond(ActiveQueues, PlanLimits["basic"].queues)
  IN  /\ req[r].pc = "list"
      /\ Become(r, [Unused EXCEPT !.op = req[r].op, !.pc = IF drop = {} THEN "windows" ELSE "drop",
                                  !.keep = ActiveQueues \ drop, !.drop = drop,
                                  !.seen = See({"queues"})])
      /\ UNCHANGED <<account, businesses, queues, history>>

\* One by one, from the rows that were listed.
DropQueue(r) ==
  LET q == req[r]
      k == Least(q.drop)
  IN  /\ q.pc = "drop"
      /\ queues' = [queues EXCEPT ![k].active = FALSE]
      /\ Become(r, [q EXCEPT !.drop = @ \ {k}, !.pc = IF q.drop = {k} THEN "windows" ELSE "drop",
                             !.seen.queues = ActiveQueues \ {k}])
      /\ Notes(q)
      /\ UNCHANGED <<account, businesses, readmitted>>

\* Only the windows of the queues that stay.
ListWindows(r) ==
  LET q    == req[r]
      k    == Least(q.keep)
      drop == Beyond(ActiveWindows(k), PlanLimits["basic"].windows)
  IN  /\ q.pc = "windows"
      /\ \/ q.keep = {} /\ Finish(r)
         \/ /\ q.keep # {}
            /\ Become(r, [q EXCEPT !.pc = IF drop = {} THEN "windows" ELSE "trim", !.queue = k,
                                   !.keep = @ \ {k}, !.drop = drop, !.seen = See({"windows"})])
      /\ UNCHANGED <<account, businesses, queues, history>>

TrimWindow(r) ==
  LET q == req[r]
      w == Least(q.drop)
  IN  /\ q.pc = "trim"
      /\ queues' = [queues EXCEPT ![q.queue].windows[w] = FALSE]
      /\ Become(r, [q EXCEPT !.drop = @ \ {w}, !.pc = IF q.drop = {w} THEN "windows" ELSE "trim",
                             !.seen.windows[q.queue] = ActiveWindows(q.queue) \ {w}])
      /\ Notes(q)
      /\ UNCHANGED <<account, businesses, readmitted>>

-----------------------------------------------------------------------------
(* The owner's queues and windows.                                         *)

BeginCreateQueue(r) ==
  /\ businesses[Seed] # None /\ businesses[Seed].status = "approved"
  /\ Start(r, "createQueue", "plan", [Unused EXCEPT !.seen = See({"queues"})])
  /\ UNCHANGED <<account, businesses, queues, history>>

BeginToggleQueue(r, k) ==
  /\ Start(r, "toggleQueue", "count", [Unused EXCEPT !.queue = k, !.active = ~queues[k].active])
  /\ UNCHANGED <<account, businesses, queues, history>>

BeginCreateWindow(r, k) ==
  /\ Start(r, "createWindow", "plan", [Unused EXCEPT !.queue = k, !.seen = See({"windows"})])
  /\ UNCHANGED <<account, businesses, queues, history>>

\* Nobody is being attended at a window that is switched off (module TurnQueue).
BeginToggleWindow(r, k, w) ==
  LET active == ~queues[k].windows[w]
  IN  /\ Start(r, "toggleWindow", IF active THEN "count" ELSE "save",
               [Unused EXCEPT !.queue = k, !.window = w, !.active = active])
      /\ UNCHANGED <<account, businesses, queues, history>>

\* Mutant: the last queue may be switched off.
AnotherIsActiveOrNot(q) == TRUE

AnotherIsActive(q) == ActiveQueues \ {q.queue} # {}

\* The siblings: to keep one active, or to ask the plan for room.
CountUsage(r) ==
  LET q == req[r]
      saw(pc, tables) == Become(r, [q EXCEPT !.pc = pc, !.seen = See(tables)])
  IN  /\ q.pc = "count"
      /\ \/ q.op = "register" /\ saw("plan", {"businesses"})
         \/ q.op = "toggleWindow" /\ saw("plan", {"windows"})
         \/ q.op = "toggleQueue" /\ q.active /\ saw("plan", {"queues"})
         \/ /\ q.op = "toggleQueue" /\ ~q.active
            /\ IF AnotherIsActive(q) THEN saw("save", {"queues"}) ELSE End(r, "failed")
      /\ UNCHANGED <<account, businesses, queues, history>>

\* A new queue, and in a second call its first window, for which no limit is
\* asked as the queue has none; or a new window.
SaveNew(r) ==
  LET q == req[r] IN
  /\ \/ /\ At(r, "createQueue", "save")
        /\ queues' = Append(queues, Queue(TRUE, 0))
        /\ Become(r, [q EXCEPT !.pc = "first", !.queue = Len(queues) + 1, !.row = None,
                               !.seen = [windows |-> Append(Usage.windows, {})]])
     \/ /\ At(r, "createQueue", "first") \/ At(r, "createWindow", "save")
        /\ queues' = [queues EXCEPT ![q.queue].windows = Append(@, TRUE)]
        /\ End(r, "done")
  /\ Notes(q)
  /\ UNCHANGED <<account, businesses, readmitted>>

SaveToggle(r) ==
  LET q == req[r] IN
  /\ \/ At(r, "toggleQueue", "save") /\ queues' = [queues EXCEPT ![q.queue].active = q.active]
     \/ At(r, "toggleWindow", "save") /\ queues' = [queues EXCEPT ![q.queue].windows[q.window] = q.active]
  /\ Notes(q) /\ End(r, "done")
  /\ UNCHANGED <<account, businesses, readmitted>>

-----------------------------------------------------------------------------
(* Businesses and their organization.                                      *)

\* Mutant: an owner may administer several organizations.
AdminFitsAlways == TRUE

\* The partial unique index on the administrators' memberships.
AdminFits == organization = None

\* Mutant: the status as the database spells it.
NewSubscriptionRaw == [status |-> "PENDING", plan |-> "basic"]
NewSubscription    == [status |-> "pending", plan |-> "basic"]

BeginRegister(r) ==
  /\ IF organization = None
     THEN Start(r, "register", "found", Unused)
     ELSE Start(r, "register", "count", [Unused EXCEPT !.on = organization.id])
  /\ UNCHANGED <<account, businesses, queues, history>>

\* One transaction; whoever comes second uses the organization of the first.
CreateOrganization(r) ==
  /\ At(r, "register", "found")
  /\ \/ /\ AdminFits
        /\ organization' = [id |-> r, status |-> "pending", name |-> r]
        /\ subscription' = NewSubscription
     \/ ~AdminFits /\ UNCHANGED <<organization, subscription>>
  /\ Become(r, [req[r] EXCEPT !.pc = "count", !.on = organization'.id])
  /\ UNCHANGED <<trialOver, businesses, queues, history>>

SaveBusiness(r) ==
  /\ At(r, "register", "save")
  /\ businesses' = [businesses EXCEPT ![r] = [status |-> "pending", organization |-> req[r].on]]
  /\ Notes(req[r]) /\ End(r, "done")
  /\ UNCHANGED <<account, queues, readmitted>>

\* How reviews of one business interleave is in the module Businesses.
BeginReject(r, b) ==
  /\ businesses[b] # None /\ businesses[b].status = "pending"
  /\ Start(r, "reject", "save", [Unused EXCEPT !.on = b])
  /\ UNCHANGED <<account, businesses, queues, history>>

SaveRejection(r) ==
  /\ At(r, "reject", "save")
  /\ businesses' = [businesses EXCEPT ![req[r].on].status = "rejected"]
  /\ End(r, "done")
  /\ UNCHANGED <<account, queues, history>>

BeginApprove(r, b) ==
  /\ businesses[b] # None /\ businesses[b].status \in {"pending", "rejected"}
  /\ organization.status = "approved"
  /\ Start(r, "approve", "plan", [Unused EXCEPT !.on = b])
  /\ UNCHANGED <<account, businesses, queues, history>>

\* The business may have a queue already, from an earlier approval.
FindQueue(r) ==
  /\ At(r, "approve", "look")
  /\ Become(r, [req[r] EXCEPT !.pc = "save", !.seen = See({"queues"})])
  /\ UNCHANGED <<account, businesses, queues, history>>

\* The trial starts and the first queue opens; the limit is not looked at again.
CommitApproval(r) ==
  LET q      == req[r]
      starts == q.row.status = "pending"
  IN  /\ At(r, "approve", "save")
      /\ businesses' = [businesses EXCEPT ![q.on].status = "approved"]
      /\ subscription' = IF starts THEN [q.row EXCEPT !.status = "trial"] ELSE subscription
      /\ trialOver' = (trialOver /\ ~starts)
      /\ queues' = IF q.on = Seed /\ q.seen.queues = {} THEN Append(queues, Queue(TRUE, 1)) ELSE queues
      /\ readmitted' = (readmitted \/ businesses[q.on].status = "rejected")
      /\ Notes(q) /\ End(r, "done")
      /\ UNCHANGED organization

\* ApproveOrganization, RejectOrganization, UpdateOrganization: the whole row.
BeginOrganization(r, op) ==
  /\ organization # None
  /\ op = "approveOrganization" => organization.status # "approved"
  /\ op = "rejectOrganization"  => organization.status = "pending"
  /\ Start(r, op, "save", [Unused EXCEPT !.write =
       [organization EXCEPT !.status = CASE op = "approveOrganization" -> "approved"
                                         [] op = "rejectOrganization"  -> "rejected"
                                         [] OTHER -> @,
                            !.name = IF op = "updateOrganization" THEN r ELSE @]])
  /\ UNCHANGED <<account, businesses, queues, history>>

SaveOrganization(r) ==
  /\ req[r].pc = "save"
  /\ req[r].op \in {"approveOrganization", "rejectOrganization", "updateOrganization"}
  /\ organization' = req[r].write
  /\ End(r, "done")
  /\ UNCHANGED <<subscription, trialOver, businesses, queues, history>>

\* The database fails or the process stops.
Abort(r) ==
  /\ req[r].pc \notin {"unused", "done", "failed"}
  /\ End(r, "failed")
  /\ UNCHANGED <<account, businesses, queues, history>>

Bill(r)    == \/ BeginReadPlan(r) \/ ReadPlan(r) \/ SaveLapse(r)
              \/ BeginActivate(r) \/ BeginCancel(r) \/ BeginCancelAgain(r)
              \/ \E plan \in PlanNames : BeginChangePlan(r, plan)
              \/ CountQueues(r) \/ CountWindows(r) \/ CheckUsage(r) \/ SaveSubscription(r)

Enforce(r) == ListQueues(r) \/ DropQueue(r) \/ ListWindows(r) \/ TrimWindow(r)

Arrange(r) == \/ BeginCreateQueue(r)
              \/ \E k \in DOMAIN queues :
                   \/ BeginToggleQueue(r, k) \/ BeginCreateWindow(r, k)
                   \/ \E w \in DOMAIN queues[k].windows : BeginToggleWindow(r, k, w)
              \/ CountUsage(r) \/ SaveNew(r) \/ SaveToggle(r)

Enrol(r)   == \/ BeginRegister(r) \/ CreateOrganization(r) \/ SaveBusiness(r)
              \/ \E b \in Ids : BeginReject(r, b) \/ BeginApprove(r, b)
              \/ SaveRejection(r) \/ FindQueue(r) \/ CommitApproval(r)
              \/ \E op \in {"approveOrganization", "rejectOrganization", "updateOrganization"} :
                   BeginOrganization(r, op)
              \/ SaveOrganization(r)

Next == \/ TrialEnds
        \/ \E r \in Requests : Bill(r) \/ Enforce(r) \/ Arrange(r) \/ Enrol(r) \/ Abort(r)

Spec == Init /\ [][Next]_vars
=============================================================================
