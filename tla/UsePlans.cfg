SPECIFICATION Spec
CONSTANTS
  Seed = seed
  None = none
  Requests = {r1, r2, r3}
  Ops <- AllOps
  PlanLimits <- SmallLimits
SYMMETRY Interchangeable
INVARIANTS
  TypeOK
  EnforcementRestores
  KeepsActiveQueue
  OneOrganization
PROPERTIES
  GrowsWithinPlan
  ActivationStands
CHECK_DEADLOCK FALSE
