\* Three requests over two counters; a counter may be lost, but not inside a Bump.
SPECIFICATION Spec
CONSTANTS
  Counter = {t1, t2}
  Request = {q1, q2, q3}
  LossInBump = FALSE
  MaxTags = 2
  MaxDraws = 4
  MaxLosses = 1
SYMMETRY Symm
INVARIANTS ReadSeesBump ReadsRealGenerations CountersExpire
PROPERTY KeepsContract
CHECK_DEADLOCK FALSE
