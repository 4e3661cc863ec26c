\* One key, a longer TTL and clock, against the bound the requirements state.
SPECIFICATION Spec
CONSTANTS
  GenKey = {a}
  NoGen = NoGen
  MaxCachedGens = 1
  Gen = {g1, g2, g3}
  Reader = {r1, r2}
  TTL = 2
  ReadLatency = 1
  MaxNow = 5
  MaxDrops = 1
  MaxClears = 1
SYMMETRY Symm
INVARIANTS StalenessWithinTTL
CHECK_DEADLOCK FALSE
