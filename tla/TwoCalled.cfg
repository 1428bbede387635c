SPECIFICATION Spec
CONSTANTS
  q1 = q1
  v1 = v1
  v2 = v2
  None = None
  TurnIds = {t1, t2}
  Queues = {q1}
  Windows = {}
  Customers = {c1}
  Workers = {w1, w2}
  WindowQueue <- OneQueue
  OpenAtStart = {}
  Ops = {"manual", "call"}
  Etas = {}
  MaxGuests = 1
  MaxActiveWindows = 1
  MaxNow = 0
  MaxDay = 0
  MaxStamp = 1
INVARIANTS
  OneCalledPerQueue
CHECK_DEADLOCK FALSE
