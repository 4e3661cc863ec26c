----------------------------- MODULE MCPlainCache ------------------------------
(* PlainCache on small instances: one key, two replicas.                   *)
EXTENDS PlainCache, TLC

(* A Delete races reads and their loads; the L1 TTL is half the TTL.       *)
Deletes == [level |-> "both", ttl |-> 2, l1TTL |-> 1, negTTL |-> 0,
            jitter |-> {2}, loadTimeout |-> 1, asked |-> {2}, absent |-> {},
            ops |-> {"read", "Delete"}, faults |-> {},
            maxOps |-> 3, maxVersion |-> 1, maxLoads |-> 2, maxTime |-> 3]

(* One level: each replica on its own L1, or all on the shared store.      *)
OneLevel == {[Deletes EXCEPT !.level = "L1"],
             [Deletes EXCEPT !.level = "L2", !.maxOps = 2]}

(* Every kind of failure.                                                  *)
Faulty == [Deletes EXCEPT !.maxOps = 2, !.maxLoads = 1,
             !.faults = FaultName]

(* Jitter that halves a TTL, per-entry TTLs, and absences remembered for   *)
(* less long than values.                                                  *)
Expiries == [Deletes EXCEPT !.ttl = 3, !.l1TTL = 2, !.negTTL = 1,
               !.jitter = {1, 2}, !.asked = {1, 3}, !.absent = {1},
               !.ops = {"read", "Set"}, !.maxOps = 2]

(* The caller's context may be done.                                       *)
Cancelled == {[Deletes EXCEPT !.faults = {"cancel"}, !.maxOps = 2]}

All == {Deletes, Faulty, Expiries} \cup OneLevel

Symm == Permutations(Proc) \cup Permutations(Replica)
==============================================================================
