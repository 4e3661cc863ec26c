----------------------------- MODULE GenCacheOps -----------------------------
(***************************************************************************)
(* The local copy of tag generations a two-level Cache keeps, genCache of  *)
(* gencache.go, as a value and the operations on it.  Every operation of   *)
(* the code holds genCache.mu throughout, so each is one atomic function.  *)
(*                                                                         *)
(* A copy is a record of                                                   *)
(*   m      : what is cached for each generation key, Missing if nothing;  *)
(*   drops  : how many times each key was dropped since the counters were  *)
(*            last reset (a key absent from the Go map reads as 0, and a   *)
(*            key in the map always holds at least 1);                     *)
(*   clears : how many times the counters were reset.                      *)
(* Both maps are total functions here: Held and Counted are their domains. *)
(***************************************************************************)
EXTENDS Naturals, FiniteSets

CONSTANTS GenKey,         \* keys of generation counters
          NoGen,          \* the generation of a missing entry
          MaxCachedGens   \* maxCachedGens, the bound on both maps

Missing == [gen |-> NoGen, expires |-> 0]

ZeroDrops == [k \in GenKey |-> 0]

newGenCache ==
    [m |-> [k \in GenKey |-> Missing], drops |-> ZeroDrops, clears |-> 0]

Held(g) == {k \in GenKey : g.m[k] # Missing}

Counted(g) == {k \in GenKey : g.drops[k] > 0}

(* Fault: the snapshot is not of the keys the read is about.               *)
EpochAll(g, ks) == [clears |-> g.clears, drops |-> g.drops]

(* The snapshot a read takes before it fetches the generations of ks.      *)
epoch(g, ks) == [clears |-> g.clears, drops |-> [k \in ks |-> g.drops[k]]]

(* Fault: the expiry of a cached generation is not checked.                *)
FreshIgnoringExpiry(g, ks, now) == \A k \in ks : g.m[k] # Missing

(* get answers only when every key is cached and none has expired.         *)
Fresh(g, ks, now) ==
    \A k \in ks : g.m[k] # Missing /\ now < g.m[k].expires

(* Nothing in ks was dropped, nor the counters reset, since the snapshot.  *)
Undisturbed(g, ks, since) ==
    /\ g.clears = since.clears
    /\ \A k \in ks : g.drops[k] = since.drops[k]

clear(g) ==
    [m |-> [k \in GenKey |-> Missing], drops |-> ZeroDrops,
     clears |-> g.clears + 1]

PutFull(g, ks) ==
    \/ Cardinality(Held(g)) + Cardinality(ks) > MaxCachedGens
    \/ Cardinality(Counted(g)) > MaxCachedGens

StoreGens(g, ks, gens, expires) ==
    [m |-> [k \in GenKey |->
              IF k \in ks THEN [gen |-> gens[k], expires |-> expires]
                          ELSE g.m[k]],
     drops |-> g.drops, clears |-> g.clears]

(* Fault: what was fetched is stored whatever happened since the epoch.    *)
PutUnchecked(g, ks, gens, since, expires) ==
    StoreGens(IF PutFull(g, ks) THEN clear(g) ELSE g, ks, gens, expires)

(* put: what a read fetched is kept only if nothing disturbed it since its *)
(* epoch; a full copy is emptied first.                                    *)
put(g, ks, gens, since, expires) ==
    IF ~Undisturbed(g, ks, since)
      THEN g
      ELSE StoreGens(IF PutFull(g, ks) THEN clear(g) ELSE g, ks, gens, expires)

Count(g, k) ==
    [m |-> [g.m EXCEPT ![k] = Missing],
     drops |-> [g.drops EXCEPT ![k] = @ + 1], clears |-> g.clears]

(* Faults of drop: the counters are never bounded; reaching the bound      *)
(* resets them without counting a clear; it empties the whole copy.        *)
DropUnbounded(g, k) == Count(g, k)

DropFull(g, k) ==
    g.drops[k] = 0 /\ Cardinality(Counted(g)) >= MaxCachedGens

DropUncounted(g, k) ==
    Count(IF DropFull(g, k) THEN [g EXCEPT !.drops = ZeroDrops] ELSE g, k)

DropWipes(g, k) == Count(IF DropFull(g, k) THEN clear(g) ELSE g, k)

Reset(g) == [m |-> g.m, drops |-> ZeroDrops, clears |-> g.clears + 1]

(* drop forgets the generation of k and counts the drop; at the bound the  *)
(* counters, and only they, are reset, which counts as a clear.            *)
drop(g, k) == Count(IF DropFull(g, k) THEN Reset(g) ELSE g, k)
==============================================================================
