SPECIFICATION Spec
CONSTANTS
  q1 = q1
  v1 = v1
  v2 = v2
  None = None
  TurnIds = {t1, t2}
  Queues = {q1}
  Windows = {v1, v2}
  Customers = {c1}
  Workers = {w1, w2}
  WindowQueue <- OneQueue
  OpenAtStart = {}
  Ops <- ConfigureOps
  Etas = {}
  MaxGuests = 1
  MaxActiveWindows = 2
  MaxNow = 0
  MaxDay = 0
  MaxStamp = 3
SYMMETRY Interchangeable
INVARIANTS
  NoDanglingWindow
PROPERTIES
  ImplementsLifecycle
CHECK_DEADLOCK FALSE
