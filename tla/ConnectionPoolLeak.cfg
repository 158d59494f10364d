CONSTANTS
  Addr = {a1}
  Lease = {l1, l2, l3}
  MaxConn = 2
  MaxIdle = 1

SPECIFICATION Spec

INVARIANT InUseIsExact
