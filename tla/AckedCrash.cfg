SPECIFICATION FairSpec
CONSTANTS
  k1 = k1
  k2 = k2
  c1 = c1
  w1 = w1
  w2 = w2
  e1 = e1
  e2 = e2
  Conns = {c1}
  Keys = {k1}
  ConnOf <- OneConn
  EventIds = {e1}
  KeyOf <- SameKey
  MaxAttempts = 1
  Replays = {}
  Workers = {w1}
  NoWorker = NoWorker
  NoEvent = NoEvent
  NoKey = NoKey
  Reqs = {q1}
  Limit = 1
  Disturbances = {"apiCrash"}
PROPERTY AckedSettles
CHECK_DEADLOCK FALSE
