--------------------------- MODULE MCRedisTagStore ----------------------------
(* RedisTagStore on a small instance.                                      *)
EXTENDS RedisTagStore, TLC

Symm == Permutations(Request) \cup Permutations(Counter)
==============================================================================
