----------------------------- MODULE Generations ------------------------------
(***************************************************************************)
(* Generations of tag counters, as NewGeneration draws them and a store    *)
(* advances them.                                                          *)
(*                                                                         *)
(* The code draws 62 random bits and adds one at each Bump.  A generation  *)
(* is modelled as the draw it descends from and the increments since: no   *)
(* two draws, and nothing reached from them, meet.  That is the one        *)
(* probabilistic assumption of the code (tagstore.go), made exact.         *)
(***************************************************************************)
EXTENDS Integers

Generation == Nat \X Nat

(* A counter a store does not hold; no generation that is drawn equals it. *)
NoGeneration == <<0, 0>>

(* Faults: every draw gives the same value; a draw of all 64 bits is read  *)
(* as a signed number.                                                     *)
FixedGeneration(n) == <<1, 0>>
SignedGeneration(n) == <<0 - n, 0>>

(* NewGeneration: the n-th draw.                                           *)
NewGeneration(n) == <<n, 0>>

(* One more than g.  Redis counts from nothing when there is no counter.   *)
Advance(g) == <<g[1], g[2] + 1>>
==============================================================================
