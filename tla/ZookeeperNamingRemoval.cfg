CONSTANTS
  Provider = {p1}
  Sub = {s1}
  Casts <- OneSub

SPECIFICATION Spec

INVARIANTS
  RemovalsFollow

CHECK_DEADLOCK FALSE
