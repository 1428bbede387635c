SPECIFICATION Spec
CONSTANTS
  Seed = seed
  None = none
  Requests = {r1, r2, r3}
  Devices = {d1}
  Ops <- AllOps
  Store = "redis"
  LockTtl = 1
  WindowTtl = 2
  ClientMax = 2
  AccountMax = 3
  Grace = 0
  Cooldown = 1
  ResetTtl = 1
  VerifyTtl = 2
  SlidingTtl = 2
  AbsoluteTtl = 3
  MaxNow = 3
SYMMETRY Interchangeable
INVARIANTS
  TypeOK
  RedeemedOnce
  AbsoluteAge
  BlockedOnlyRaced
  OldPasswordOnlyRaced
  FailedRegistrationLeavesNothing
PROPERTIES
  RevokedIsFinal
  StrikeKeepsLock
CHECK_DEADLOCK FALSE
