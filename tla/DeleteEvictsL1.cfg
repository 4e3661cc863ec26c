\* A Delete whose context is already done.
SPECIFICATION Spec
CONSTANTS
  Replica = {r1, r2}
  L2 = L2
  Proc = {p1, p2}
  Scale = 2
  Scenarios <- Cancelled
SYMMETRY Symm
INVARIANTS DeleteEvictsL1
CHECK_DEADLOCK FALSE
