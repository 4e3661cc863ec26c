\* Two replicas and a Bus, over a shared store or each on its own L1, and one
\* entry or counter lost.
SPECIFICATION Spec
CONSTANTS
  k1 = k1
  k2 = k2
  k3 = k3
  t1 = t1
  t2 = t2
  pk1 = pk1
  L2 = L2
  Replica = {r1, r2}
  Key = {k1, k2, k3}
  PK <- OnePK
  GenKey = {t1, t2}
  TagsOf <- OwnerTag
  NoGen <- NoGeneration
  MaxCachedGens = 1
  Proc = {p1, p2, p3}
  Scenarios <- TwoReplicas
SYMMETRY Symm
INVARIANTS ReadAfterInvalidate
CHECK_DEADLOCK FALSE
