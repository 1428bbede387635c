SPECIFICATION Spec
CONSTANTS
  Seed = seed
  None = none
  Requests = {r1, r2}
  Users = {owner, u1}
  Owner = owner
  Ops <- CompleteOps
  MaxCancelAttempts = 3
INVARIANTS
  CompletedStays
CHECK_DEADLOCK FALSE
