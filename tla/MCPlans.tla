--------------------------------- MODULE MCPlans ---------------------------------
(* Small instances of an organization and its plan for TLC.                *)
EXTENDS PlansProperties, TLC

Interchangeable == Permutations(Requests)

AllOps == {"readPlan", "activate", "cancel", "changePlan", "createQueue", "toggleQueue", "createWindow",
           "toggleWindow", "register", "reject", "approve", "approveOrganization", "rejectOrganization",
           "updateOrganization"}

EnrolOps == {"register", "reject", "approve"}

\* PLAN_LIMITS with 2 for the windows of pro (10) and of premium (20) and 2 for
\* the businesses of premium (3).
SmallLimits ==
  [basic   |-> [businesses |-> 1, queues |-> 1, windows |-> 1],
   pro     |-> [businesses |-> 1, queues |-> 1, windows |-> 2],
   premium |-> [businesses |-> 2, queues |-> 1, windows |-> 2]]
=============================================================================
