---------------------------- MODULE MCMemoryStore -----------------------------
(* MemoryStore on a small instance.                                        *)
EXTENDS MemoryStore, TLC

Symm == Permutations(Proc) \cup Permutations(Key) \cup Permutations(Counter)
==============================================================================
