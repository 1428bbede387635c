SPECIFICATION Spec
CONSTANTS
  q1 = q1
  v1 = v1
  v2 = v2
  None = None
  TurnIds = {t1, t2, t3}
  Queues = {q1}
  Windows = {}
  Customers = {c1}
  Workers = {w1, w2}
  WindowQueue <- OneQueue
  OpenAtStart = {}
  Ops <- JoinOps
  Etas = {1}
  MaxGuests = 1
  MaxActiveWindows = 1
  MaxNow = 1
  MaxDay = 1
  MaxStamp = 3
SYMMETRY Interchangeable
INVARIANTS
  TypeOK
  OneTurnPerCustomer
  NumbersDense
  PositionIsCallOrder
  GuestOvershootBounded
PROPERTIES
  NoEarlyCall
CHECK_DEADLOCK FALSE
