CONSTANTS
  Addr = {a1}
  Lease = {l1, l2, l3, l4}
  MaxConn = 3
  MaxIdle = 2

SPECIFICATION FairSpec

INVARIANTS
  TypeOK
  SlotsCoverBusy
  InUseIsExactWithoutFaults

PROPERTIES
  ImplementsSocketLimit
  ExhaustionEnds
  DropClosesAll
