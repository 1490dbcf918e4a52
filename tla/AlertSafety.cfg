SPECIFICATION HSpec
CONSTANTS
  Rules = {a1}
  Thresholds = {0, 1}
  Clients = {p1}
  MaxAlertRules = 1
  Nobody = Nobody
  Workers = {w1, w2}
  RuleTypes = {"DELIVERY_SUCCESS", "UNRESOLVED_TIME"}
  Levels = {0, 2}
  NoSamples = NoSamples
  MaxFaults = 1
  Disturbances = {"dbError", "sendFails"}
SYMMETRY WorkersAlike
INVARIANTS
  OneEvaluator
  LatchWasSent
  OncePerBreach
  LockHasOwner
PROPERTY
  ImplementsAlarm
CHECK_DEADLOCK FALSE
