CONSTANTS
  Provider = {p1, p2}
  Sub = {s1, s2}
  Casts <- OneOrTwoSubs

SPECIFICATION FairSpec

INVARIANTS
  LoopAgrees
  IdleIsCurrent

PROPERTIES
  Follows

CHECK_DEADLOCK FALSE
