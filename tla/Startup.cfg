SPECIFICATION FairSpec
CONSTANTS
  operator = operator
  default = default
  Api = api
  Workers = {w1, w2}
  Emails = {operator, default}
  EmailOf <- ComposeEmail
  Pinned = {api}
  Pin = pin
  Legacy = {e1, e2}
  MaxFailures = 3
INVARIANTS PayloadOpens ServesReady PasswordKnown
PROPERTY AllServe
CHECK_DEADLOCK FALSE
