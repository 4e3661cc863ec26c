\* Two keys and a copy that holds one, so that both overflow paths are taken, and
\* a clock with a TTL of one tick and a read that may take one.
SPECIFICATION Spec
CONSTANTS
  GenKey = {a, b}
  NoGen = NoGen
  MaxCachedGens = 1
  Gen = {g1, g2}
  Reader = {r1, r2}
  TTL = 1
  ReadLatency = 1
  MaxNow = 3
  MaxDrops = 2
  MaxClears = 2
SYMMETRY Symm
INVARIANTS TypeOK NoRetiredGeneration Bounded StalenessBounded
PROPERTY DropSparesOthers
CHECK_DEADLOCK FALSE
