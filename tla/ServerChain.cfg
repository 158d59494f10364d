CONSTANTS
  Call = {c1, c2}
  Chains <- EveryOrder
  MaxActive = 1
  MaxExecute = 1
  MaxDropped = 1
  Registration = {r1, r2}

SPECIFICATION FairSpec

INVARIANTS
  TypeOK
  WithinLimits
  PermitsAddUp
  InFlightIsExact
  ActiveIsExactWithoutErrors
  UnregistersAllItCan

PROPERTIES
  FallsSilent
  ShutdownReturns
