SPECIFICATION FairSpec
CONSTANTS
  k1 = k1
  k2 = k2
  c1 = c1
  w1 = w1
  w2 = w2
  e1 = e1
  e2 = e2
  Conns = {c1}
  Keys = {k1, k2}
  ConnOf <- OneConn
  EventIds = {e1, e2}
  KeyOf <- KeyPerEvent
  MaxAttempts = 2
  Replays = {}
  Workers = {w1}
  NoWorker = NoWorker
  NoEvent = NoEvent
  NoKey = NoKey
  Reqs = {q1, q2}
  Limit = 1
  Disturbances = {"badRequest"}
INVARIANTS
  IssueReflectsLastAttempt
  DeliveryIsRecorded
PROPERTY AckedSettles
CHECK_DEADLOCK FALSE
