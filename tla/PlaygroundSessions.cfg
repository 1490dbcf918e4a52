SPECIFICATION FairSpec
CONSTANTS
  Sessions = {s1, s2, s3}
  Visitors = {v1, v2}
  Collector = gc
  MaxSessions = 1
  NoSession = NoSession
  MaxSlips = 2
  Burst = 1
  Cost = 3
  Gain = 2
INVARIANTS SessionBound LazyBucketExact
PROPERTY LimitRestored
CHECK_DEADLOCK FALSE
