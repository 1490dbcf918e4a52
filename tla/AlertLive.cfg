SPECIFICATION FairSpec
CONSTANTS
  Rules = {a1}
  Thresholds = {0}
  Clients = {p1}
  MaxAlertRules = 1
  Nobody = Nobody
  Workers = {w1, w2}
  RuleTypes = {"UNRESOLVED_TIME"}
  Levels = {0, 1}
  NoSamples = NoSamples
  MaxFaults = 1
  Disturbances = {"sendFails", "lockLost"}
PROPERTY BreachNotified
CHECK_DEADLOCK FALSE
