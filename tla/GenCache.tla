------------------------------- MODULE GenCache -------------------------------
(***************************************************************************)
(* One replica's genCache (gencache.go) as the reads and invalidations of  *)
(* that replica use it (readTagged and InvalidateTag of tags.go, onEvent   *)
(* of events.go).                                                          *)
(*                                                                         *)
(* A read takes an epoch, fetches the generations from the authority (the  *)
(* TagStore) and puts them; the three are separate critical sections, and  *)
(* anything may happen between them.  The authority's counters advance     *)
(* whenever they like: another replica invalidates a tag, or the counter   *)
(* expires and is drawn again.  Either way the counter takes a generation  *)
(* it never held before, which is the TagStore contract (tagstore.go).     *)
(* A drop happens when this replica learns of an invalidation, as its own  *)
(* InvalidateTag returns from Bump or when a Bus event is delivered; from  *)
(* then on every generation the counter held before is retired: nothing    *)
(* this replica does may bring it back.                                    *)
(***************************************************************************)
EXTENDS GenCacheOps

CONSTANTS Gen,          \* generations a counter can take
          Reader,       \* concurrent reads of the replica
          TTL,          \* genCache.ttl: the L1 TTL
          ReadLatency,  \* longest time from a fetch to its put
          MaxNow,       \* bound: the last instant explored
          MaxDrops,     \* bound: drops counted between two resets, per key
          MaxClears     \* bound: resets of the counters

ASSUME GenAssumption == NoGen \notin Gen

ASSUME BoundAssumption ==
    /\ MaxCachedGens \in Nat \ {0}
    /\ TTL \in Nat \ {0}
    /\ ReadLatency \in Nat
    /\ IsFiniteSet(GenKey)

VARIABLES
    gc,         \* the replica's copy of generations
    now,        \* the clock
    counter,    \* the authority's generation of each key
    used,       \* ghost: every generation each counter has held
    retired,    \* ghost: generations this replica was told are gone
    ended,      \* ghost: when a counter left a generation
    pc,         \* what each read does next
    keys,       \* the generation keys it reads
    since,      \* the epoch it took
    gens,       \* the generations it fetched
    fetchedAt   \* ghost: when it fetched them

readVars == <<pc, keys, since, gens, fetchedAt>>
authVars == <<counter, used, ended>>
vars == <<gc, now, counter, used, retired, ended,
          pc, keys, since, gens, fetchedAt>>

(* A read's keys fit the copy: envelope.MaxTags is far below maxCachedGens. *)
KeySets == {ks \in SUBSET GenKey : Cardinality(ks) <= MaxCachedGens}

NoEpoch == epoch(newGenCache, {})
NoGens == [k \in {} |-> NoGen]

Init ==
    /\ gc = newGenCache
    /\ now = 0
    /\ counter \in [GenKey -> Gen]
    /\ used = [k \in GenKey |-> {counter[k]}]
    /\ retired = [k \in GenKey |-> {}]
    /\ ended = [k \in GenKey |-> [g \in Gen |-> 0]]
    /\ pc = [r \in Reader |-> "idle"]
    /\ keys = [r \in Reader |-> {}]
    /\ since = [r \in Reader |-> NoEpoch]
    /\ gens = [r \in Reader |-> NoGens]
    /\ fetchedAt = [r \in Reader |-> 0]

(* readTagged did not find its answer in L1 and takes the epoch.           *)
Begin(r) ==
    /\ pc[r] = "idle"
    /\ \E ks \in KeySets :
         /\ keys' = [keys EXCEPT ![r] = ks]
         /\ since' = [since EXCEPT ![r] = epoch(gc, ks)]
    /\ pc' = [pc EXCEPT ![r] = "fetch"]
    /\ UNCHANGED <<gc, now, counter, used, retired, ended, gens, fetchedAt>>

(* GetTagged answers with the counters' generations at one instant.        *)
Fetch(r) ==
    /\ pc[r] = "fetch"
    /\ gens' = [gens EXCEPT ![r] = [k \in keys[r] |-> counter[k]]]
    /\ fetchedAt' = [fetchedAt EXCEPT ![r] = now]
    /\ pc' = [pc EXCEPT ![r] = "put"]
    /\ UNCHANGED <<gc, now, counter, used, retired, ended, keys, since>>

(* The read is over and its frame is gone.                                 *)
Return(r) ==
    /\ pc' = [pc EXCEPT ![r] = "idle"]
    /\ keys' = [keys EXCEPT ![r] = {}]
    /\ since' = [since EXCEPT ![r] = NoEpoch]
    /\ gens' = [gens EXCEPT ![r] = NoGens]
    /\ fetchedAt' = [fetchedAt EXCEPT ![r] = 0]

(* GetTagged fails or the caller gives up: nothing is put.                 *)
Abandon(r) ==
    /\ pc[r] = "fetch"
    /\ Return(r)
    /\ UNCHANGED <<gc, now, counter, used, retired, ended>>

Store(r) ==
    /\ pc[r] = "put"
    /\ gc.clears < MaxClears
    /\ gc' = put(gc, keys[r], gens[r], since[r], now + TTL)
    /\ Return(r)
    /\ UNCHANGED <<now, counter, used, retired, ended>>

(* The authority's counter moves to a generation it never held.            *)
Advance(k) ==
    /\ \E g \in Gen \ used[k] :
         /\ counter' = [counter EXCEPT ![k] = g]
         /\ used' = [used EXCEPT ![k] = @ \cup {g}]
    /\ ended' = [ended EXCEPT ![k][counter[k]] = now]
    /\ UNCHANGED <<gc, now, retired, pc, keys, since, gens, fetchedAt>>

(* The replica learns that k was invalidated.                              *)
Drop(k) ==
    /\ gc.drops[k] < MaxDrops
    /\ gc.clears < MaxClears
    /\ gc' = drop(gc, k)
    /\ retired' = [retired EXCEPT ![k] = used[k] \ {counter[k]}]
    /\ UNCHANGED <<now, counter, used, ended, pc, keys, since, gens, fetchedAt>>

(* Time passes, but no read holds what it fetched longer than ReadLatency. *)
Tick ==
    /\ now < MaxNow
    /\ \A r \in Reader : pc[r] = "put" => now < fetchedAt[r] + ReadLatency
    /\ now' = now + 1
    /\ UNCHANGED <<gc, counter, used, retired, ended,
                   pc, keys, since, gens, fetchedAt>>

Next ==
    \/ \E r \in Reader : Begin(r) \/ Fetch(r) \/ Abandon(r) \/ Store(r)
    \/ \E k \in GenKey : Advance(k) \/ Drop(k)
    \/ Tick

Spec == Init /\ [][Next]_vars

-----------------------------------------------------------------------------
(* Types.  In Go every field below is given its type by the compiler; what *)
(* is left is that a read's epoch and its generations are those of exactly *)
(* the keys it reads (genEpoch.drops and gens are slices parallel to keys).*)
CachedGen == [gen : Gen, expires : Nat] \cup {Missing}

GenCacheType ==
    [m : [GenKey -> CachedGen],
     drops : [GenKey -> Nat], clears : Nat]

ReadType(r) ==
    /\ Cardinality(keys[r]) <= MaxCachedGens
    /\ since[r] \in [clears : Nat, drops : [keys[r] -> Nat]]
    /\ pc[r] = "put" => gens[r] \in [keys[r] -> Gen]

TypeOK ==
    /\ gc \in GenCacheType
    /\ now \in Nat
    /\ counter \in [GenKey -> Gen]
    /\ used \in [GenKey -> SUBSET Gen]
    /\ retired \in [GenKey -> SUBSET Gen]
    /\ ended \in [GenKey -> [Gen -> Nat]]
    /\ pc \in [Reader -> {"idle", "fetch", "put"}]
    /\ keys \in [Reader -> SUBSET GenKey]
    /\ DOMAIN since = Reader
    /\ DOMAIN gens = Reader
    /\ fetchedAt \in [Reader -> Nat]
    /\ \A r \in Reader : ReadType(r)

(* The local copy never holds a generation this replica was told is gone:  *)
(* a read that fetched before an invalidation and puts after it (#113),    *)
(* whatever resets of the drop counters come between (#135, #145), does    *)
(* not restore what the invalidation retired.                              *)
NoRetiredGeneration == \A k \in GenKey : gc.m[k].gen \notin retired[k]

(* Both maps stay within maxCachedGens, whatever tags reads and (untrusted)*)
(* Bus events name (gencache.go drop, #135).                               *)
Bounded ==
    /\ Cardinality(Held(gc)) <= MaxCachedGens
    /\ Cardinality(Counted(gc)) <= MaxCachedGens

(* RNF-11 as the code achieves it: with no event delivered at all, the     *)
(* copy vouches for a generation the authority left for less than the TTL  *)
(* plus the time a read took from its fetch to its put.                    *)
StalenessBounded ==
    \A k \in GenKey :
      Fresh(gc, {k}, now) /\ gc.m[k].gen # counter[k]
        => now < ended[k][gc.m[k].gen] + ReadLatency + TTL

(* gencache.go drop (#145): an invalidation, of whatever tag, takes from   *)
(* the copy no generation but that tag's own; a flood of drops cannot      *)
(* evict the generations real reads put there.                             *)
DropSparesOthers ==
    [][\A k \in GenKey :
         (\E j \in GenKey \ {k} : Drop(j)) => gc'.m[k] = gc.m[k]]_vars

(* RNF-11 as REQUIREMENTS.md states it: staleness is at most the L1        *)
(* TTL, with no allowance for the time between fetch and put.              *)
StalenessWithinTTL ==
    \A k \in GenKey :
      Fresh(gc, {k}, now) /\ gc.m[k].gen # counter[k]
        => now < ended[k][gc.m[k].gen] + TTL
==============================================================================
