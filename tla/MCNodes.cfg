SPECIFICATION FairSpec
CONSTANTS
  a = a
  b = b
  s1 = s1
  s2 = s2
  s3 = s3
  Ids = {a, b}
  Sockets = {s1, s2, s3}
  Callers = {c1, c2}
  IdsOf <- MCIdsOf
  Gated = {c1}
  Cap = 1
  MaxNodes = 1
  None = None
INVARIANTS TypeOK GoneIsKnown
PROPERTY CallsEnd
CHECK_DEADLOCK FALSE
