SPECIFICATION Spec
CONSTANTS
  Streams = {s1, s2}
  Publishers = {p1}
  IPs = {ip1}
  IpOf <- OneAddress
  MaxStreams = 2
  ChanCap = 2
  MaxDestLog = 3
  MaxPublished = 4
INVARIANTS InOrder MissedOnlyWhenFull NothingLeaks
CHECK_DEADLOCK FALSE
