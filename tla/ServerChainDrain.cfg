CONSTANTS
  Call = {c1, c2}
  Chains <- OnlyShutdown
  MaxActive = 1
  MaxExecute = 1
  MaxDropped = 1
  Registration = {r1}

SPECIFICATION Spec

INVARIANT DrainedWhenCompleted
