SPECIFICATION PanelSpec
CONSTANTS
  Seed = seed
  None = none
  Requests = {r1, r2, r3}
  Users = {owner, u1}
  Owner = owner
  Candidate = u1
  Ops <- AllOps
  JobOps <- AllJobs
  MaxCancelAttempts = 2
SYMMETRY Interchangeable
INVARIANTS
  TypeOK
  StaffTypeOK
  SuspensionAllOrNothing
  SuspendedTurnsRaced
  ReportedOnlyIfSuspended
  ApprovalComplete
  HoursOfOneRequest
  InvitationSettledOnce
  OneActiveCode
PROPERTIES
  LeavesSuspensionByReactivating
  VerdictIsFinal
CHECK_DEADLOCK FALSE
