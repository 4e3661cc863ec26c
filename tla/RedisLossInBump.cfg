\* The counter may also be lost between the SETNX and the INCR of a Bump.
SPECIFICATION Spec
CONSTANTS
  Counter = {t1}
  Request = {q1, q2, q3}
  LossInBump = TRUE
  MaxTags = 2
  MaxDraws = 6
  MaxLosses = 2
SYMMETRY Symm
PROPERTY KeepsContract
CHECK_DEADLOCK FALSE
