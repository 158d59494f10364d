CONSTANTS
  Caller = {p1, p2}
  Conn = {c1}
  Own = c1
  MaxReq = 2
  Faults = {"timeout"}
  None = None

SPECIFICATION Spec

INVARIANT ReplyMatchesRequest

CHECK_DEADLOCK FALSE
