CONSTANTS
  Task = {p1, p2}
  FailureThreshold = 2
  SuccessThreshold = 2
  MaxProbes = 2

SPECIFICATION FairBreakerSpec

INVARIANTS
  ClosedBelowThreshold
  HalfOpenHasRoom

PROPERTIES
  OpenIsProbed
  HalfOpenResolves
