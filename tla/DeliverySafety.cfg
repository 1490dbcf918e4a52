SPECIFICATION FairSpec
CONSTANTS
  k1 = k1
  k2 = k2
  c1 = c1
  w1 = w1
  w2 = w2
  e1 = e1
  e2 = e2
  Conns = {c1}
  Keys = {k1}
  ConnOf <- OneConn
  EventIds = {e1}
  KeyOf <- SameKey
  MaxAttempts = 2
  Replays = {r1}
  Workers = {w1}
  NoWorker = NoWorker
  NoEvent = NoEvent
  NoKey = NoKey
  Reqs = {q1}
  Limit = 1
  Disturbances = {"dbError", "activityLost", "badRequest", "purge", "patch"}
INVARIANTS
  TypeOK
  RunOutcome
  ResolvedWasAccepted
  IssueShowsRealFailure
  DeliveryRowTrue
PROPERTIES ImplementsInbox RunsTerminate
CHECK_DEADLOCK FALSE
