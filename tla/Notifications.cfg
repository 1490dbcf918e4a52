SPECIFICATION Spec
CONSTANTS
  Logins = {l1}
  SessionTTL = 2
  Savers = {h1, h2, h3}
  Asked <- SomeAsked
  Blank = Blank
  EnvValue = EnvValue
  Env <- SomeEnv
  Creators = {c1}
  Rules <- SomeRules
  Workers = {w1}
INVARIANTS
  TypeOK
  SecretLostOnlyByOverlap
  AppliesOnNextAlert
  UnsetOnlyWithdrawn
  TextAsMeant
PROPERTIES
  LetInOnlyLoggedIn
SYMMETRY Symmetry
CHECK_DEADLOCK FALSE
