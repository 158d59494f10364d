CONSTANTS
  Caller = {p1, p2}
  Conn = {c1, c2}
  Own = c1
  MaxReq = 3
  Faults = {"timeout", "torn", "reset"}
  None = None

SPECIFICATION FairSpec

INVARIANTS
  PairedWithoutTimeouts
  FreeIsClean

PROPERTIES
  AtMostOnce
  InvokeReturns

\* Every caller may be done once MaxReq calls have been made.
CHECK_DEADLOCK FALSE
