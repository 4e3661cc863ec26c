\* One replica: a race of four operations, two owners, and what fails.
SPECIFICATION Spec
CONSTANTS
  k1 = k1
  k2 = k2
  k3 = k3
  t1 = t1
  t2 = t2
  pk1 = pk1
  L2 = L2
  Replica = {r1}
  Key = {k1, k2, k3}
  PK <- OnePK
  GenKey = {t1, t2}
  TagsOf <- OwnerTag
  NoGen <- NoGeneration
  MaxCachedGens = 1
  Proc = {p1, p2, p3}
  Scenarios <- OneReplica
SYMMETRY Symm
INVARIANTS TypeOK ReadAfterInvalidate NoCrossOwner
CHECK_DEADLOCK FALSE
