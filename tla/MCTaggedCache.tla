---------------------------- MODULE MCTaggedCache -----------------------------
(* TaggedCache on small instances: keys under one physical key whose owner *)
(* is named only in the tag, one with both tags, and the scenarios of each *)
(* run.                                                                    *)
EXTENDS TaggedCache, TLC

CONSTANTS k1, k2, k3, t1, t2, pk1

OnePK == [k \in Key |-> pk1]
OwnerTag == [k \in Key |-> CASE k = k1 -> <<t1>> [] k = k2 -> <<t2>>
                             [] k = k3 -> <<t1, t2>>]

Plain == [level |-> "both", keys |-> {k1},
          ops |-> {"GetOrLoad", "InvalidateTag"}, faults |-> {},
          maxOps |-> 3, maxVersion |-> 1, maxLoads |-> 2, maxEvictions |-> 0]

(* Four operations: enough for an entry to be stored, a read to be caught  *)
(* between epoch and put by an invalidation, and another to follow it.     *)
Race == [Plain EXCEPT !.maxOps = 4, !.maxLoads = 3]

(* A key of two tags, one of them invalidated after the other.             *)
TwoTags == [Plain EXCEPT !.keys = {k3}]

(* Two owners, over every operation that stores or serves a value.         *)
Owners == [Plain EXCEPT !.keys = {k1, k2}, !.faults = {"fetch"},
             !.ops = {"GetOrLoad", "Get", "Set", "Delete"},
             !.maxVersion = 0]

(* What fails in each configuration.                                       *)
Faulty == {[Plain EXCEPT !.faults = {"l1", "fetch", "set", "bump"}],
           [Plain EXCEPT !.level = "L1", !.faults = FaultName],
           [Plain EXCEPT !.level = "L2", !.faults = FaultName]}

OneReplica == {Race, Owners, TwoTags} \cup Faulty
TwoReplicas == {[Plain EXCEPT !.maxEvictions = 1],
                [Plain EXCEPT !.level = "L1", !.maxEvictions = 1]}
FailOpen == {[Plain EXCEPT !.faults = {"fetch"}]}

Symm == Permutations(Proc) \cup Permutations(Replica)
==============================================================================
