\* Two callers of one key and three loads: a flight, its replacement and the
\* one a wrong forget would let in.  No symmetry: one property is liveness.
SPECIFICATION FairSpec
CONSTANTS
  Key = {k1}
  Caller = {p1, p2}
  None = None
  MaxCalls = 3
INVARIANTS TypeOK SingleLoad TimeoutIsGenuine WaitingCounts
PROPERTY CallersReturn
CHECK_DEADLOCK FALSE
