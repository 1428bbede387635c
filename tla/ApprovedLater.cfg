SPECIFICATION Spec
CONSTANTS
  Seed = seed
  None = none
  Requests = {r1, r2, r3}
  Ops <- EnrolOps
  PlanLimits <- SmallLimits
INVARIANTS
  BusinessesWithinPlan
CHECK_DEADLOCK FALSE
