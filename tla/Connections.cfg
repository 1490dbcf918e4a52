SPECIFICATION Spec
CONSTANTS
  None = None
  Requests = {q1}
  Patchers = {p1, p2}
  Patches <- SomePatches
  Simulators = {s1, s2}
  Providers = {"github", "easypost", "internal", "generic_hmac"}
  Counts = {2}
  Created = Created
  TTL = 1
  MaxHandlers = 3
  MaxLoad = 1
INVARIANTS
  StaleOnlyByRace
  StaleExpires
  LostOnlyByOverlap
  SimulatedArrives
  StrandedTypeReported
SYMMETRY Symmetry
CHECK_DEADLOCK FALSE
