\* Two replicas and a Bus over two levels or one, with every kind of failure,
\* jitter, per-entry and negative TTLs.
SPECIFICATION Spec
CONSTANTS
  Replica = {r1, r2}
  L2 = L2
  Proc = {p1, p2}
  Scale = 2
  Scenarios <- All
SYMMETRY Symm
INVARIANTS TypeOK ServedWithinTTL L1WithinL2 StaleWithin DeleteIsSeen MissedEvent
CHECK_DEADLOCK FALSE
