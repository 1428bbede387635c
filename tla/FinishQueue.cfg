SPECIFICATION FairSpec
CONSTANTS
  q1 = q1
  v1 = v1
  v2 = v2
  None = None
  TurnIds = {t1, t2}
  Queues = {q1}
  Windows = {v1}
  Customers = {c1}
  Workers = {w1, w2}
  WindowQueue <- OneQueue
  OpenAtStart = {v1}
  Ops <- FinishOps
  Etas = {}
  MaxGuests = 1
  MaxActiveWindows = 1
  MaxNow = 0
  MaxDay = 0
  MaxStamp = 1
PROPERTIES
  RequestsFinish
CHECK_DEADLOCK FALSE
