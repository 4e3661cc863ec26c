------------------------------ MODULE MCGenCache ------------------------------
(* GenCache on a small instance.  Keys, generations and reads are model    *)
(* values that nothing orders.                                             *)
EXTENDS GenCache, TLC

Symm == Permutations(GenKey) \cup Permutations(Gen) \cup Permutations(Reader)
==============================================================================
