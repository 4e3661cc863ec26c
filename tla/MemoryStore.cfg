\* Two goroutines, two keys and two counters in a store of two entries and three
\* bytes: replacing, evicting for count and for bytes, and a value that never
\* fits, with counters that push each other out.
SPECIFICATION Spec
CONSTANTS
  Key = {k1, k2}
  Counter = {t1, t2}
  Proc = {p1, p2}
  Sizes = {1, 2, 4}
  CounterSize = 1
  TTLs = {2}
  GenTTL = 2
  MaxEntries = 2
  MaxBytes = 3
  MaxOps = 4
  MaxNow = 2
SYMMETRY Symm
INVARIANTS TypeOK WithinLimits LeastRecentFirst NeverServesReplaced ReportedOnce
PROPERTIES KeepsContract BumpRetires
CHECK_DEADLOCK FALSE
