------------------------------- MODULE TagStore -------------------------------
(***************************************************************************)
(* What a Cache relies on its authoritative store for (tagstore.go, and    *)
(* the conformance suite in cisterntest): generation counters that never   *)
(* take a value twice.                                                     *)
(*                                                                         *)
(* A counter is missing or holds a generation.  Reading creates what is    *)
(* missing; Bump leaves its counters at generations they never held; and   *)
(* at any moment a counter may be lost, to expiry or to eviction.  A store *)
(* implements this specification when each of its steps, seen through its  *)
(* counters, is one of these.                                              *)
(***************************************************************************)
EXTENDS Generations

CONSTANT Counter   \* keys of generation counters

VARIABLES ctr,     \* the generation of each counter, or NoGeneration
          used     \* every generation each counter has held

vars == <<ctr, used>>

Init ==
    /\ ctr = [t \in Counter |-> NoGeneration]
    /\ used = [t \in Counter |-> {}]

Record == used' = [t \in Counter |-> used[t] \cup ({ctr'[t]} \ {NoGeneration})]

(* Unchanged, or lost.                                                     *)
KeptOrLost(t) == ctr'[t] \in {ctr[t], NoGeneration}

(* At a generation it never held.                                          *)
Fresh(t) == ctr'[t] # NoGeneration /\ ctr'[t] \notin used[t]

(* GetTagged, and any step that is not a Bump: a counter that is missing,  *)
(* or that the step itself pushed out, may take a generation.              *)
Read ==
    /\ DOMAIN ctr' = Counter
    /\ \A t \in Counter : KeptOrLost(t) \/ Fresh(t)
    /\ Record

(* Bump: none of its counters keeps its generation.                        *)
Bump(ts) ==
    /\ DOMAIN ctr' = Counter
    /\ \A t \in ts : Fresh(t) \/ ctr'[t] = NoGeneration
    /\ \A o \in Counter \ ts : KeptOrLost(o)
    /\ Record

Next == Read \/ \E ts \in SUBSET Counter : Bump(ts)

Spec == Init /\ [][Next]_vars
==============================================================================
