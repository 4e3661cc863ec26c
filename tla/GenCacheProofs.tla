---------------------------- MODULE GenCacheProofs ----------------------------
(***************************************************************************)
(* Proofs about GenCache: its types, that a retired generation never comes *)
(* back, the bound on staleness and the bound on memory, for every set of  *)
(* keys, generations and reads and every value of the bounds.              *)
(***************************************************************************)
EXTENDS GenCache, FiniteSetTheorems, TLAPS

-----------------------------------------------------------------------------
(* What drop does to each field of the copy: only the generation of the    *)
(* dropped key goes, and either the clears advance or that key's count does.*)
LEMMA DropFacts ==
    ASSUME NEW g \in GenCacheType, NEW k \in GenKey
    PROVE  /\ drop(g, k) \in GenCacheType
           /\ drop(g, k).m = [g.m EXCEPT ![k] = Missing]
           /\ \/ /\ drop(g, k).clears = g.clears + 1
                 /\ drop(g, k).drops = [ZeroDrops EXCEPT ![k] = 1]
              \/ /\ drop(g, k).clears = g.clears
                 /\ drop(g, k).drops = [g.drops EXCEPT ![k] = @ + 1]
                 /\ ~DropFull(g, k)
<1>1. Missing \in CachedGen
  BY DEF CachedGen
<1>2. ZeroDrops \in [GenKey -> Nat]
  BY DEF ZeroDrops
<1>3. /\ Reset(g) \in GenCacheType
      /\ Reset(g).m = g.m
      /\ Reset(g).drops = ZeroDrops
      /\ Reset(g).clears = g.clears + 1
  BY <1>2 DEF Reset, GenCacheType
<1>4. ASSUME NEW f \in GenCacheType
      PROVE  /\ Count(f, k) \in GenCacheType
             /\ Count(f, k).m = [f.m EXCEPT ![k] = Missing]
             /\ Count(f, k).clears = f.clears
             /\ Count(f, k).drops = [f.drops EXCEPT ![k] = @ + 1]
  BY <1>1 DEF Count, GenCacheType
<1>5. CASE DropFull(g, k)
  <2>1. drop(g, k) = Count(Reset(g), k)
    BY <1>5 DEF drop
  <2>2. [ZeroDrops EXCEPT ![k] = @ + 1] = [ZeroDrops EXCEPT ![k] = 1]
    BY DEF ZeroDrops
  <2> QED
    BY <2>1, <2>2, <1>3, <1>4
<1>6. CASE ~DropFull(g, k)
  <2>1. drop(g, k) = Count(g, k)
    BY <1>6 DEF drop
  <2> QED
    BY <2>1, <1>4, <1>6
<1> QED
  BY <1>5, <1>6

(* What put does: nothing, unless nothing disturbed the read; otherwise    *)
(* each key of the read holds what was fetched, every other key holds what *)
(* it held or nothing, and the drop counters are kept or a clear counted.  *)
LEMMA PutFacts ==
    ASSUME NEW g \in GenCacheType, NEW ks \in SUBSET GenKey,
           NEW gs \in [ks -> Gen], NEW e, NEW x \in Nat
    PROVE  /\ put(g, ks, gs, e, x) \in GenCacheType
           /\ \/ put(g, ks, gs, e, x) = g
              \/ /\ Undisturbed(g, ks, e)
                 /\ \A j \in ks : put(g, ks, gs, e, x).m[j]
                                    = [gen |-> gs[j], expires |-> x]
                 /\ \/ /\ PutFull(g, ks)
                       /\ put(g, ks, gs, e, x).clears = g.clears + 1
                       /\ put(g, ks, gs, e, x).drops = ZeroDrops
                       /\ \A j \in GenKey \ ks :
                            put(g, ks, gs, e, x).m[j] = Missing
                    \/ /\ ~PutFull(g, ks)
                       /\ put(g, ks, gs, e, x).clears = g.clears
                       /\ put(g, ks, gs, e, x).drops = g.drops
                       /\ \A j \in GenKey \ ks :
                            put(g, ks, gs, e, x).m[j] = g.m[j]
<1>1. CASE ~Undisturbed(g, ks, e)
  BY <1>1 DEF put
<1>2. CASE Undisturbed(g, ks, e)
  <2>1. Missing \in CachedGen
    BY DEF CachedGen
  <2>2. /\ clear(g) \in GenCacheType
        /\ clear(g).m = [j \in GenKey |-> Missing]
        /\ clear(g).drops = ZeroDrops
        /\ clear(g).clears = g.clears + 1
    BY <2>1 DEF clear, GenCacheType, ZeroDrops
  <2>3. ASSUME NEW f \in GenCacheType
        PROVE  /\ StoreGens(f, ks, gs, x) \in GenCacheType
               /\ StoreGens(f, ks, gs, x).drops = f.drops
               /\ StoreGens(f, ks, gs, x).clears = f.clears
               /\ \A j \in ks : StoreGens(f, ks, gs, x).m[j]
                                  = [gen |-> gs[j], expires |-> x]
               /\ \A j \in GenKey \ ks :
                    StoreGens(f, ks, gs, x).m[j] = f.m[j]
    <3> DEFINE n == [j \in GenKey |->
                 IF j \in ks THEN [gen |-> gs[j], expires |-> x] ELSE f.m[j]]
    <3>1. n \in [GenKey -> CachedGen]
      BY DEF GenCacheType, CachedGen
    <3>2. StoreGens(f, ks, gs, x) = [m |-> n, drops |-> f.drops,
                                     clears |-> f.clears]
      BY DEF StoreGens
    <3> HIDE DEF n
    <3>3. /\ StoreGens(f, ks, gs, x) \in GenCacheType
          /\ StoreGens(f, ks, gs, x).m = n
          /\ StoreGens(f, ks, gs, x).drops = f.drops
          /\ StoreGens(f, ks, gs, x).clears = f.clears
      BY <3>1, <3>2 DEF GenCacheType
    <3> QED
      BY <3>3 DEF n
  <2>4. CASE PutFull(g, ks)
    <3>1. put(g, ks, gs, e, x) = StoreGens(clear(g), ks, gs, x)
      BY <1>2, <2>4 DEF put
    <3> QED
      BY <3>1, <2>2, <2>3, <2>4, <1>2
  <2>5. CASE ~PutFull(g, ks)
    <3>1. put(g, ks, gs, e, x) = StoreGens(g, ks, gs, x)
      BY <1>2, <2>5 DEF put
    <3> QED
      BY <3>1, <2>3, <2>5, <1>2
  <2> QED
    BY <2>4, <2>5
<1> QED
  BY <1>1, <1>2

-----------------------------------------------------------------------------
(* A frame that has returned is well typed.                                *)
LEMMA ReturnType ==
    ASSUME TypeOK, NEW r \in Reader, Return(r)
    PROVE  /\ pc' \in [Reader -> {"idle", "fetch", "put"}]
           /\ keys' \in [Reader -> SUBSET GenKey]
           /\ DOMAIN since' = Reader
           /\ DOMAIN gens' = Reader
           /\ fetchedAt' \in [Reader -> Nat]
           /\ \A q \in Reader : ReadType(q)'
<1>1. NoEpoch \in [clears : Nat, drops : [{} -> Nat]]
  BY DEF NoEpoch, epoch, newGenCache
<1>2. Cardinality({}) = 0
  BY FS_EmptySet
<1> QED
  BY <1>1, <1>2, BoundAssumption DEF Return, TypeOK, ReadType

(* The initial state is well typed.                                        *)
LEMMA InitType == Init => TypeOK
<1> SUFFICES ASSUME Init PROVE TypeOK
  OBVIOUS
<1>1. gc \in GenCacheType
  BY DEF Init, newGenCache, CachedGen, ZeroDrops, GenCacheType
<1>2. NoEpoch \in [clears : Nat, drops : [{} -> Nat]]
  BY DEF NoEpoch, epoch, newGenCache
<1>3. Cardinality({}) = 0
  BY FS_EmptySet
<1>4. \A r \in Reader : ReadType(r)
  BY <1>2, <1>3, BoundAssumption DEF Init, ReadType
<1> QED
  BY <1>1, <1>4 DEF Init, TypeOK

(* Every step keeps the types.                                             *)
LEMMA StepType == TypeOK /\ [Next]_vars => TypeOK'
<1> SUFFICES ASSUME TypeOK, [Next]_vars PROVE TypeOK'
  OBVIOUS
<1>1. ASSUME NEW r \in Reader, Begin(r) PROVE TypeOK'
  <2>1. PICK ks \in KeySets :
             /\ keys' = [keys EXCEPT ![r] = ks]
             /\ since' = [since EXCEPT ![r] = epoch(gc, ks)]
    BY <1>1 DEF Begin
  <2>2. epoch(gc, ks) \in [clears : Nat, drops : [ks -> Nat]]
    BY DEF TypeOK, GenCacheType, epoch, KeySets
  <2>3. ASSUME NEW q \in Reader PROVE ReadType(q)'
    BY <1>1, <2>1, <2>2 DEF Begin, TypeOK, ReadType, KeySets
  <2> QED
    BY <1>1, <2>1, <2>3 DEF Begin, TypeOK, KeySets
<1>2. ASSUME NEW r \in Reader, Fetch(r) PROVE TypeOK'
  <2>1. ASSUME NEW q \in Reader PROVE ReadType(q)'
    BY <1>2 DEF Fetch, TypeOK, ReadType
  <2> QED
    BY <1>2, <2>1 DEF Fetch, TypeOK
<1>3. ASSUME NEW r \in Reader, Abandon(r) PROVE TypeOK'
  BY <1>3, ReturnType DEF Abandon, TypeOK
<1>4. ASSUME NEW r \in Reader, Store(r) PROVE TypeOK'
  <2>1. now + TTL \in Nat
    BY BoundAssumption DEF TypeOK
  <2>2. gc' \in GenCacheType
    BY <1>4, <2>1, PutFacts DEF Store, TypeOK, ReadType
  <2> QED
    BY <1>4, <2>2, ReturnType DEF Store, TypeOK
<1>5. ASSUME NEW k \in GenKey, Advance(k) PROVE TypeOK'
  <2>1. ASSUME NEW q \in Reader PROVE ReadType(q)'
    BY <1>5 DEF Advance, TypeOK, ReadType
  <2> QED
    BY <1>5, <2>1 DEF Advance, TypeOK
<1>6. ASSUME NEW k \in GenKey, Drop(k) PROVE TypeOK'
  <2>1. gc' \in GenCacheType
    BY <1>6, DropFacts DEF Drop, TypeOK
  <2>2. ASSUME NEW q \in Reader PROVE ReadType(q)'
    BY <1>6 DEF Drop, TypeOK, ReadType
  <2> QED
    BY <1>6, <2>1, <2>2 DEF Drop, TypeOK
<1>7. ASSUME Tick PROVE TypeOK'
  BY <1>7 DEF Tick, TypeOK, ReadType
<1>8. ASSUME UNCHANGED vars PROVE TypeOK'
  BY <1>8 DEF vars, TypeOK, ReadType
<1> QED
  BY <1>1, <1>2, <1>3, <1>4, <1>5, <1>6, <1>7, <1>8 DEF Next

(* Type correctness: every reachable copy, epoch and fetched slice has its *)
(* type, and an epoch always covers exactly the keys of its read.          *)
THEOREM TypeCorrect == Spec => []TypeOK
  BY InitType, StepType, PTL DEF Spec

-----------------------------------------------------------------------------
(* A counter's own generation is never retired, so what a read fetches is  *)
(* not retired at that instant.                                            *)
CounterLive ==
    \A k \in GenKey : counter[k] \in used[k] /\ counter[k] \notin retired[k]
                      /\ retired[k] \subseteq used[k]

(* An epoch is never ahead of the copy: fewer clears, or as many and no    *)
(* more drops of any key of the read.                                      *)
EpochsBehind ==
    \A r \in Reader : pc[r] # "idle" =>
      /\ since[r].clears <= gc.clears
      /\ since[r].clears = gc.clears
           => \A k \in keys[r] : since[r].drops[k] <= gc.drops[k]

(* If a read's epoch still matches the copy on a key, the generation it    *)
(* fetched for that key is not retired: dropping the key would have moved  *)
(* its count, and resetting the counts would have moved the clears.        *)
FetchedLive ==
    \A r \in Reader : pc[r] = "put" /\ since[r].clears = gc.clears =>
      \A k \in keys[r] :
        since[r].drops[k] = gc.drops[k] => gens[r][k] \notin retired[k]

(* The inductive invariant behind NoRetiredGeneration.                     *)
RetireInv ==
    /\ TypeOK
    /\ CounterLive
    /\ EpochsBehind
    /\ FetchedLive
    /\ NoRetiredGeneration

(* Every step of the replica and of the authority keeps RetireInv.         *)
LEMMA StepRetire == RetireInv /\ [Next]_vars => RetireInv'
<1> SUFFICES ASSUME RetireInv, [Next]_vars PROVE RetireInv'
  OBVIOUS
<1> USE DEF RetireInv
<1>0. TypeOK'
  BY StepType
<1>1. ASSUME NEW r \in Reader, Begin(r) PROVE RetireInv'
  <2>1. PICK ks \in KeySets :
             /\ keys' = [keys EXCEPT ![r] = ks]
             /\ since' = [since EXCEPT ![r] = epoch(gc, ks)]
    BY <1>1 DEF Begin
  <2>2. EpochsBehind'
    BY <1>1, <2>1 DEF Begin, EpochsBehind, epoch, KeySets, TypeOK,
                      GenCacheType
  <2>3. FetchedLive'
    BY <1>1, <2>1 DEF Begin, FetchedLive, TypeOK
  <2> QED
    BY <1>0, <1>1, <2>2, <2>3 DEF Begin, CounterLive, NoRetiredGeneration
<1>2. ASSUME NEW r \in Reader, Fetch(r) PROVE RetireInv'
  <2>1. EpochsBehind'
    BY <1>2 DEF Fetch, EpochsBehind, TypeOK
  <2>2. FetchedLive'
    BY <1>2 DEF Fetch, FetchedLive, CounterLive, TypeOK
  <2> QED
    BY <1>0, <1>2, <2>1, <2>2 DEF Fetch, CounterLive, NoRetiredGeneration
<1>3. ASSUME NEW r \in Reader, Abandon(r) PROVE RetireInv'
  <2>1. EpochsBehind'
    BY <1>3 DEF Abandon, Return, EpochsBehind, TypeOK
  <2>2. FetchedLive'
    BY <1>3 DEF Abandon, Return, FetchedLive, TypeOK
  <2> QED
    BY <1>0, <1>3, <2>1, <2>2 DEF Abandon, CounterLive, NoRetiredGeneration
<1>4. ASSUME NEW r \in Reader, Store(r) PROVE RetireInv'
  <2> DEFINE n == put(gc, keys[r], gens[r], since[r], now + TTL)
  <2>1. /\ gc \in GenCacheType
        /\ keys[r] \in SUBSET GenKey
        /\ gens[r] \in [keys[r] -> Gen]
        /\ now + TTL \in Nat
        /\ gc' = n
    BY <1>4, BoundAssumption DEF Store, TypeOK, ReadType
  <2>2. \/ gc' = gc
        \/ /\ Undisturbed(gc, keys[r], since[r])
           /\ \A j \in keys[r] :
                gc'.m[j] = [gen |-> gens[r][j], expires |-> now + TTL]
           /\ \/ /\ gc'.clears = gc.clears + 1
                 /\ \A j \in GenKey \ keys[r] : gc'.m[j] = Missing
              \/ /\ gc'.clears = gc.clears
                 /\ gc'.drops = gc.drops
                 /\ \A j \in GenKey \ keys[r] : gc'.m[j] = gc.m[j]
    BY <2>1, PutFacts
  <2>3. EpochsBehind'
    <3> SUFFICES ASSUME NEW q \in Reader, pc'[q] # "idle"
                 PROVE  /\ since'[q].clears <= gc'.clears
                        /\ since'[q].clears = gc'.clears
                             => \A k \in keys'[q] :
                                  since'[q].drops[k] <= gc'.drops[k]
      BY DEF EpochsBehind
    <3>1. /\ pc[q] # "idle" /\ keys'[q] = keys[q] /\ since'[q] = since[q]
      BY <1>4 DEF Store, Return, TypeOK
    <3>2. since[q].clears \in Nat /\ gc.clears \in Nat
      BY DEF TypeOK, ReadType, GenCacheType
    <3> QED
      BY <2>2, <3>1, <3>2 DEF EpochsBehind
  <2>4. FetchedLive'
    <3> SUFFICES ASSUME NEW q \in Reader, pc'[q] = "put",
                        since'[q].clears = gc'.clears,
                        NEW k \in keys'[q], since'[q].drops[k] = gc'.drops[k]
                 PROVE  gens'[q][k] \notin retired'[k]
      BY DEF FetchedLive
    <3>1. /\ pc[q] = "put" /\ keys'[q] = keys[q] /\ since'[q] = since[q]
          /\ gens'[q] = gens[q] /\ retired' = retired
      BY <1>4 DEF Store, Return, TypeOK
    <3>2. since[q].clears \in Nat /\ gc.clears \in Nat
      BY DEF TypeOK, ReadType, GenCacheType
    <3>3. since[q].clears <= gc.clears
      BY <3>1 DEF EpochsBehind
    <3> QED
      BY <2>2, <3>1, <3>2, <3>3 DEF FetchedLive
  <2>5. NoRetiredGeneration'
    <3> SUFFICES ASSUME NEW k \in GenKey
                 PROVE  gc'.m[k].gen \notin retired[k]
      BY <1>4 DEF NoRetiredGeneration, Store
    <3>1. CASE gc'.m[k] = gc.m[k]
      BY <3>1 DEF NoRetiredGeneration
    <3>2. CASE gc'.m[k] = Missing
      BY <3>2, GenAssumption DEF Missing, TypeOK
    <3>3. CASE /\ Undisturbed(gc, keys[r], since[r])
               /\ k \in keys[r]
               /\ gc'.m[k] = [gen |-> gens[r][k], expires |-> now + TTL]
      BY <3>3, <1>4 DEF Store, FetchedLive, Undisturbed
    <3> QED
      BY <2>2, <3>1, <3>2, <3>3
  <2> QED
    BY <1>0, <1>4, <2>3, <2>4, <2>5 DEF Store, CounterLive
<1>5. ASSUME NEW k \in GenKey, Advance(k) PROVE RetireInv'
  <2>1. CounterLive'
    BY <1>5 DEF Advance, CounterLive, TypeOK
  <2> QED
    BY <1>0, <1>5, <2>1 DEF Advance, EpochsBehind, FetchedLive,
                            NoRetiredGeneration
<1>6. ASSUME NEW k \in GenKey, Drop(k) PROVE RetireInv'
  <2>1. /\ gc'.m = [gc.m EXCEPT ![k] = Missing]
        /\ \/ gc'.clears = gc.clears + 1
           \/ /\ gc'.clears = gc.clears
              /\ gc'.drops = [gc.drops EXCEPT ![k] = @ + 1]
    BY <1>6, DropFacts DEF Drop, TypeOK
  <2>2. /\ gc.m \in [GenKey -> CachedGen]
        /\ gc.drops \in [GenKey -> Nat]
        /\ gc.clears \in Nat
    BY DEF TypeOK, GenCacheType
  <2>3. EpochsBehind'
    <3> SUFFICES ASSUME NEW q \in Reader, pc[q] # "idle"
                 PROVE  /\ since[q].clears <= gc'.clears
                        /\ since[q].clears = gc'.clears
                             => \A j \in keys[q] :
                                  since[q].drops[j] <= gc'.drops[j]
      BY <1>6 DEF EpochsBehind, Drop
    <3>1. /\ since[q].clears \in Nat
          /\ keys[q] \subseteq GenKey
          /\ \A j \in keys[q] : since[q].drops[j] \in Nat
      BY DEF TypeOK, ReadType
    <3> QED
      BY <2>1, <2>2, <3>1 DEF EpochsBehind
  <2>4. FetchedLive'
    <3> SUFFICES ASSUME NEW q \in Reader, pc[q] = "put",
                        since[q].clears = gc'.clears,
                        NEW j \in keys[q], since[q].drops[j] = gc'.drops[j]
                 PROVE  gens[q][j] \notin retired'[j]
      BY <1>6 DEF FetchedLive, Drop
    <3>1. /\ since[q].clears \in Nat
          /\ j \in GenKey
          /\ since[q].drops[j] \in Nat
      BY DEF TypeOK, ReadType
    <3>2. /\ since[q].clears <= gc.clears
          /\ since[q].clears = gc.clears => since[q].drops[j] <= gc.drops[j]
      BY DEF EpochsBehind
    <3>3. /\ gc'.clears = gc.clears
          /\ gc'.drops = [gc.drops EXCEPT ![k] = @ + 1]
      BY <2>1, <2>2, <3>1, <3>2
    <3>4. j # k
      BY <2>2, <3>1, <3>2, <3>3
    <3>5. retired'[j] = retired[j]
      BY <1>6, <3>1, <3>4 DEF Drop, TypeOK
    <3> QED
      BY <2>2, <3>1, <3>3, <3>4, <3>5 DEF FetchedLive
  <2>5. NoRetiredGeneration'
    <3> SUFFICES ASSUME NEW j \in GenKey
                 PROVE  gc'.m[j].gen \notin retired'[j]
      BY DEF NoRetiredGeneration
    <3>1. CASE j = k
      <4>1. gc'.m[j] = Missing
        BY <2>1, <2>2, <3>1
      <4>2. retired'[j] \subseteq Gen
        BY <1>0 DEF TypeOK
      <4> QED
        BY <4>1, <4>2, GenAssumption DEF Missing
    <3>2. CASE j # k
      <4>1. gc'.m[j] = gc.m[j] /\ retired'[j] = retired[j]
        BY <1>6, <2>1, <2>2, <3>2 DEF Drop, TypeOK
      <4> QED
        BY <4>1 DEF NoRetiredGeneration
    <3> QED
      BY <3>1, <3>2
  <2>6. CounterLive'
    BY <1>6 DEF Drop, CounterLive, TypeOK
  <2> QED
    BY <1>0, <2>3, <2>4, <2>5, <2>6
<1>7. ASSUME Tick PROVE RetireInv'
  BY <1>0, <1>7 DEF Tick, CounterLive, EpochsBehind, FetchedLive,
                    NoRetiredGeneration
<1>8. ASSUME UNCHANGED vars PROVE RetireInv'
  BY <1>0, <1>8 DEF vars, CounterLive, EpochsBehind, FetchedLive,
                    NoRetiredGeneration
<1> QED
  BY <1>1, <1>2, <1>3, <1>4, <1>5, <1>6, <1>7, <1>8 DEF Next

(* A generation this replica was told is gone never comes back into its    *)
(* copy, however reads, drops, counter resets and clears interleave (#113).*)
THEOREM RetiredStaysGone == Spec => []NoRetiredGeneration
<1>1. Init => RetireInv
  <2> SUFFICES ASSUME Init PROVE RetireInv
    OBVIOUS
  <2>1. TypeOK
    BY InitType
  <2>2. NoRetiredGeneration
    BY DEF Init, NoRetiredGeneration
  <2>3. EpochsBehind /\ FetchedLive /\ CounterLive
    BY DEF Init, EpochsBehind, FetchedLive, CounterLive
  <2> QED
    BY <2>1, <2>2, <2>3 DEF RetireInv
<1>2. RetireInv => NoRetiredGeneration
  BY DEF RetireInv
<1> QED
  BY <1>1, <1>2, StepRetire, PTL DEF Spec

-----------------------------------------------------------------------------
(* A cached generation outlives the present by at most TTL, and one the    *)
(* authority has left outlives that moment by at most ReadLatency + TTL.   *)
CopyExpires ==
    \A k \in GenKey : gc.m[k] # Missing =>
      /\ gc.m[k].expires <= now + TTL
      /\ gc.m[k].gen # counter[k]
           => gc.m[k].expires <= ended[k][gc.m[k].gen] + ReadLatency + TTL

(* A fetched generation the authority has left was left after the fetch,   *)
(* and the fetch is at most ReadLatency old.                               *)
FetchRecent ==
    \A r \in Reader : pc[r] = "put" =>
      /\ fetchedAt[r] <= now
      /\ now <= fetchedAt[r] + ReadLatency
      /\ \A k \in keys[r] :
           gens[r][k] # counter[k] => fetchedAt[r] <= ended[k][gens[r][k]]

(* The inductive invariant behind StalenessBounded.                        *)
StaleInv == TypeOK /\ CopyExpires /\ FetchRecent

(* Every step keeps StaleInv: an advance stamps the generation it leaves   *)
(* with the present, which bounds what is cached and what is in flight.    *)
LEMMA StepStale == StaleInv /\ [Next]_vars => StaleInv'
<1> SUFFICES ASSUME StaleInv, [Next]_vars PROVE StaleInv'
  OBVIOUS
<1> USE DEF StaleInv
<1>0. TypeOK'
  BY StepType
<1>t. /\ now \in Nat /\ TTL \in Nat /\ ReadLatency \in Nat
      /\ \A k \in GenKey : gc.m[k].expires \in Nat
      /\ \A r \in Reader : fetchedAt[r] \in Nat
      /\ \A k \in GenKey : \A g \in Gen : ended[k][g] \in Nat
  BY BoundAssumption DEF TypeOK, GenCacheType, CachedGen, Missing
<1>1. ASSUME NEW r \in Reader, Begin(r) PROVE StaleInv'
  BY <1>0, <1>1 DEF Begin, CopyExpires, FetchRecent, TypeOK
<1>2. ASSUME NEW r \in Reader, Fetch(r) PROVE StaleInv'
  BY <1>0, <1>2, <1>t DEF Fetch, CopyExpires, FetchRecent, TypeOK
<1>3. ASSUME NEW r \in Reader, Abandon(r) PROVE StaleInv'
  BY <1>0, <1>3 DEF Abandon, Return, CopyExpires, FetchRecent, TypeOK
<1>4. ASSUME NEW r \in Reader, Store(r) PROVE StaleInv'
  <2>1. /\ gc \in GenCacheType
        /\ keys[r] \in SUBSET GenKey
        /\ gens[r] \in [keys[r] -> Gen]
        /\ now + TTL \in Nat
        /\ gc' = put(gc, keys[r], gens[r], since[r], now + TTL)
        /\ pc[r] = "put" /\ now' = now /\ counter' = counter /\ ended' = ended
    BY <1>4, <1>t DEF Store, TypeOK, ReadType
  <2>2. \A k \in GenKey :
          \/ gc'.m[k] = gc.m[k]
          \/ gc'.m[k] = Missing
          \/ /\ k \in keys[r]
             /\ gc'.m[k] = [gen |-> gens[r][k], expires |-> now + TTL]
    BY <2>1, PutFacts
  <2>3. CopyExpires'
    <3> SUFFICES ASSUME NEW k \in GenKey, gc'.m[k] # Missing
                 PROVE  /\ gc'.m[k].expires <= now + TTL
                        /\ gc'.m[k].gen # counter[k]
                             => gc'.m[k].expires
                                  <= ended[k][gc'.m[k].gen] + ReadLatency + TTL
      BY <2>1 DEF CopyExpires
    <3>1. CASE gc'.m[k] = gc.m[k]
      BY <3>1 DEF CopyExpires
    <3>2. CASE /\ k \in keys[r]
               /\ gc'.m[k] = [gen |-> gens[r][k], expires |-> now + TTL]
      <4>1. /\ now <= fetchedAt[r] + ReadLatency
            /\ gens[r][k] # counter[k]
                 => fetchedAt[r] <= ended[k][gens[r][k]]
        BY <2>1, <3>2 DEF FetchRecent
      <4>2. ended[k][gens[r][k]] \in Nat /\ fetchedAt[r] \in Nat
        BY <1>t, <2>1, <3>2
      <4>3. gc'.m[k].expires = now + TTL /\ gc'.m[k].gen = gens[r][k]
        BY <3>2
      <4> QED
        BY <1>t, <4>1, <4>2, <4>3
    <3> QED
      BY <2>2, <3>1, <3>2
  <2>4. FetchRecent'
    BY <1>4 DEF Store, Return, FetchRecent, TypeOK
  <2> QED
    BY <1>0, <2>3, <2>4
<1>5. ASSUME NEW k \in GenKey, Advance(k) PROVE StaleInv'
  <2>1. /\ gc' = gc /\ now' = now /\ pc' = pc /\ keys' = keys /\ gens' = gens
        /\ fetchedAt' = fetchedAt
        /\ counter[k] \in Gen
        /\ ended'[k][counter[k]] = now
        /\ \A g \in Gen \ {counter[k]} : ended'[k][g] = ended[k][g]
        /\ \A j \in GenKey \ {k} :
             ended'[j] = ended[j] /\ counter'[j] = counter[j]
    BY <1>5 DEF Advance, TypeOK
  <2>2. ASSUME NEW j \in GenKey, gc.m[j] # Missing
        PROVE  /\ gc.m[j].expires <= now + TTL
               /\ gc.m[j].gen # counter'[j]
                    => gc.m[j].expires
                         <= ended'[j][gc.m[j].gen] + ReadLatency + TTL
    <3>1. gc.m[j].expires <= now + TTL
      BY <2>2 DEF CopyExpires
    <3>2. CASE gc.m[j].gen = counter[j] /\ j = k
      BY <1>t, <2>1, <3>1, <3>2
    <3>3. CASE gc.m[j].gen # counter[j] /\ gc.m[j].gen \in Gen
      <4>1. ended'[j][gc.m[j].gen] = ended[j][gc.m[j].gen]
        BY <2>1, <3>3
      <4> QED
        BY <2>2, <3>1, <3>3, <4>1 DEF CopyExpires
    <3>4. CASE gc.m[j].gen = counter[j] /\ j # k
      BY <2>1, <3>1, <3>4
    <3>5. gc.m[j].gen \in Gen
      BY <2>2 DEF TypeOK, GenCacheType, CachedGen
    <3> QED
      BY <3>2, <3>3, <3>4, <3>5
  <2>3. CopyExpires'
    BY <2>1, <2>2 DEF CopyExpires
  <2>4. FetchRecent'
    <3> SUFFICES ASSUME NEW r \in Reader, pc[r] = "put", NEW j \in keys[r],
                        gens[r][j] # counter'[j]
                 PROVE  fetchedAt[r] <= ended'[j][gens[r][j]]
      BY <2>1 DEF FetchRecent
    <3>1. j \in GenKey /\ gens[r][j] \in Gen
      BY DEF TypeOK, ReadType
    <3>2. CASE gens[r][j] = counter[j]
      BY <2>1, <3>1, <3>2 DEF FetchRecent
    <3>3. CASE gens[r][j] # counter[j]
      <4>1. ended'[j][gens[r][j]] = ended[j][gens[r][j]]
        BY <2>1, <3>1, <3>3
      <4> QED
        BY <3>3, <4>1 DEF FetchRecent
    <3> QED
      BY <3>2, <3>3
  <2> QED
    BY <1>0, <2>3, <2>4
<1>6. ASSUME NEW k \in GenKey, Drop(k) PROVE StaleInv'
  <2>1. gc'.m = [gc.m EXCEPT ![k] = Missing]
    BY <1>6, DropFacts DEF Drop, TypeOK
  <2>2. gc.m \in [GenKey -> CachedGen]
    BY DEF TypeOK, GenCacheType
  <2>3. CopyExpires'
    BY <1>6, <2>1, <2>2 DEF Drop, CopyExpires
  <2> QED
    BY <1>0, <1>6, <2>3 DEF Drop, FetchRecent
<1>7. ASSUME Tick PROVE StaleInv'
  <2>1. now' = now + 1 /\ UNCHANGED <<gc, counter, ended, pc, keys, gens, fetchedAt>>
    BY <1>7 DEF Tick
  <2>2. CopyExpires'
    <3> SUFFICES ASSUME NEW k \in GenKey, gc.m[k] # Missing
                 PROVE  gc.m[k].expires <= now' + TTL
      BY <2>1 DEF CopyExpires
    <3> QED
      BY <1>t, <2>1 DEF CopyExpires
  <2>3. FetchRecent'
    BY <1>7, <1>t, <2>1 DEF Tick, FetchRecent
  <2> QED
    BY <1>0, <2>2, <2>3
<1>8. ASSUME UNCHANGED vars PROVE StaleInv'
  BY <1>0, <1>8 DEF vars, CopyExpires, FetchRecent
<1> QED
  BY <1>1, <1>2, <1>3, <1>4, <1>5, <1>6, <1>7, <1>8 DEF Next

(* With no event delivered at all, the copy vouches for a generation the   *)
(* authority left for less than ReadLatency + TTL after it left it         *)
(* (RNF-11, with the allowance the code needs).                            *)
THEOREM StalenessIsBounded == Spec => []StalenessBounded
<1>1. Init => StaleInv
  <2> SUFFICES ASSUME Init PROVE StaleInv
    OBVIOUS
  <2>1. CopyExpires
    BY DEF Init, CopyExpires, newGenCache
  <2>2. FetchRecent
    BY DEF Init, FetchRecent
  <2> QED
    BY <2>1, <2>2, InitType DEF StaleInv
<1>2. StaleInv => StalenessBounded
  <2> SUFFICES ASSUME StaleInv, NEW k \in GenKey, Fresh(gc, {k}, now),
                      gc.m[k].gen # counter[k]
               PROVE  now < ended[k][gc.m[k].gen] + ReadLatency + TTL
    BY DEF StalenessBounded
  <2>1. gc.m[k] # Missing /\ now < gc.m[k].expires
    BY DEF Fresh
  <2>2. gc.m[k].expires <= ended[k][gc.m[k].gen] + ReadLatency + TTL
    BY <2>1 DEF StaleInv, CopyExpires
  <2>3. gc.m[k].gen \in Gen
    BY <2>1 DEF StaleInv, TypeOK, GenCacheType, CachedGen
  <2>4. /\ now \in Nat /\ gc.m[k].expires \in Nat
        /\ ended[k][gc.m[k].gen] + ReadLatency + TTL \in Nat
    BY <2>3, BoundAssumption
       DEF StaleInv, TypeOK, GenCacheType, CachedGen, Missing
  <2> QED
    BY <2>1, <2>2, <2>4
<1> QED
  BY <1>1, <1>2, StepStale, PTL DEF Spec

-----------------------------------------------------------------------------
(* Neither operation takes a copy that fits past maxCachedGens.            *)
Fits(g) ==
    /\ Cardinality(Held(g)) <= MaxCachedGens
    /\ Cardinality(Counted(g)) <= MaxCachedGens

(* Generation keys are finitely many, so sets of them can be counted.      *)
LEMMA SubsetsFinite ==
    ASSUME NEW S \in SUBSET GenKey
    PROVE  IsFiniteSet(S) /\ Cardinality(S) \in Nat
  BY BoundAssumption, FS_Subset, FS_CardinalityType

(* drop keeps both maps within the bound: a key not counted yet is counted *)
(* only below it, or after the counters are reset.                         *)
LEMMA DropFits ==
    ASSUME NEW g \in GenCacheType, NEW k \in GenKey, Fits(g)
    PROVE  Fits(drop(g, k))
<1> DEFINE d == drop(g, k)
<1>0. /\ g.m \in [GenKey -> CachedGen] /\ g.drops \in [GenKey -> Nat]
      /\ MaxCachedGens \in Nat \ {0}
      /\ d.m = [g.m EXCEPT ![k] = Missing]
      /\ \/ d.drops = [ZeroDrops EXCEPT ![k] = 1]
         \/ d.drops = [g.drops EXCEPT ![k] = @ + 1] /\ ~DropFull(g, k)
  BY DropFacts, BoundAssumption DEF GenCacheType
<1> HIDE DEF d
<1>1. Held(d) \in SUBSET Held(g)
  BY <1>0 DEF Held
<1>2. /\ IsFiniteSet(Held(g)) /\ Cardinality(Held(g)) \in Nat
      /\ IsFiniteSet(Counted(g)) /\ Cardinality(Counted(g)) \in Nat
      /\ Cardinality(Held(d)) \in Nat
  BY SubsetsFinite DEF Held, Counted
<1>3. Cardinality(Held(d)) <= Cardinality(Held(g))
  BY <1>1, <1>2, FS_Subset
<1>4. CASE d.drops = [ZeroDrops EXCEPT ![k] = 1]
  <2>1. Counted(d) = {k}
    BY <1>4 DEF Counted, ZeroDrops
  <2>2. Cardinality(Counted(d)) = 1
    BY <2>1, FS_Singleton
  <2> QED
    BY <1>0, <1>2, <1>3, <2>2 DEF Fits, d
<1>5. CASE d.drops = [g.drops EXCEPT ![k] = @ + 1] /\ ~DropFull(g, k)
  <2>1. Counted(d) = Counted(g) \cup {k}
    BY <1>0, <1>5 DEF Counted
  <2>2. Cardinality(Counted(d)) =
          IF k \in Counted(g) THEN Cardinality(Counted(g))
                              ELSE Cardinality(Counted(g)) + 1
    BY <1>2, <2>1, FS_AddElement
  <2>3. k \notin Counted(g) => Cardinality(Counted(g)) < MaxCachedGens
    BY <1>0, <1>2, <1>5 DEF DropFull, Counted
  <2> QED
    BY <1>0, <1>2, <1>3, <2>2, <2>3 DEF Fits, d
<1> QED
  BY <1>0, <1>4, <1>5

(* put keeps both maps within the bound, by emptying a copy that the keys  *)
(* of the read would overflow.                                             *)
LEMMA PutFits ==
    ASSUME NEW g \in GenCacheType, NEW ks \in SUBSET GenKey,
           NEW gs \in [ks -> Gen], NEW e, NEW x \in Nat,
           Cardinality(ks) <= MaxCachedGens, Fits(g)
    PROVE  Fits(put(g, ks, gs, e, x))
<1> DEFINE p == put(g, ks, gs, e, x)
<1>0. MaxCachedGens \in Nat \ {0}
  BY BoundAssumption
<1>1. /\ IsFiniteSet(Held(g)) /\ Cardinality(Held(g)) \in Nat
      /\ IsFiniteSet(ks) /\ Cardinality(ks) \in Nat
      /\ Held(p) \in SUBSET GenKey /\ Cardinality(Held(p)) \in Nat
  BY SubsetsFinite DEF Held
<1>2. CASE p = g
  BY <1>2
<1>3. CASE /\ PutFull(g, ks) /\ p.drops = ZeroDrops
           /\ \A j \in GenKey \ ks : p.m[j] = Missing
  <2>1. Held(p) \in SUBSET ks
    BY <1>3 DEF Held
  <2>2. Cardinality(Held(p)) <= Cardinality(ks)
    BY <1>1, <2>1, FS_Subset
  <2>3. Counted(p) = {}
    BY <1>3 DEF Counted, ZeroDrops
  <2>4. Cardinality(Counted(p)) = 0
    BY <2>3, FS_EmptySet
  <2> HIDE DEF p
  <2> QED
    BY <1>0, <1>1, <2>2, <2>4 DEF Fits, p
<1>4. CASE /\ ~PutFull(g, ks) /\ p.drops = g.drops
           /\ \A j \in GenKey \ ks : p.m[j] = g.m[j]
  <2>1. Held(p) \in SUBSET (Held(g) \cup ks)
    BY <1>4 DEF Held
  <2>2. /\ IsFiniteSet(Held(g) \cup ks)
        /\ Cardinality(Held(g) \cup ks) =
             Cardinality(Held(g)) + Cardinality(ks)
               - Cardinality(Held(g) \cap ks)
    BY <1>1, FS_Union
  <2>3. Cardinality(Held(g) \cap ks) \in Nat
    BY SubsetsFinite
  <2>4. Cardinality(Held(p)) <= Cardinality(Held(g) \cup ks)
    BY <2>1, <2>2, FS_Subset
  <2>5. Cardinality(Held(g)) + Cardinality(ks) <= MaxCachedGens
    BY <1>0, <1>1, <1>4 DEF PutFull
  <2>6. Counted(p) = Counted(g)
    BY <1>4 DEF Counted
  <2> HIDE DEF p
  <2> QED
    BY <1>0, <1>1, <2>2, <2>3, <2>4, <2>5, <2>6 DEF Fits, p
<1> QED
  BY <1>2, <1>3, <1>4, PutFacts

(* Whatever tags reads and Bus events name, neither the generations held   *)
(* nor the drop counters ever exceed maxCachedGens (#135).                 *)
THEOREM CopyIsBounded == Spec => []Bounded
<1> DEFINE Inv == TypeOK /\ Fits(gc)
<1>1. Init => Inv
  <2> SUFFICES ASSUME Init PROVE Fits(gc)
    BY InitType
  <2>1. Held(gc) = {} /\ Counted(gc) = {}
    BY DEF Init, newGenCache, Held, Counted, ZeroDrops
  <2> QED
    BY <2>1, FS_EmptySet, BoundAssumption DEF Fits
<1>2. Inv /\ [Next]_vars => Inv'
  <2> SUFFICES ASSUME Inv, [Next]_vars PROVE Fits(gc')
    BY StepType DEF Fits, Held, Counted
  <2>1. ASSUME NEW r \in Reader, Store(r) PROVE Fits(gc')
    <3>1. /\ gc \in GenCacheType
          /\ keys[r] \in SUBSET GenKey
          /\ Cardinality(keys[r]) <= MaxCachedGens
          /\ gens[r] \in [keys[r] -> Gen]
          /\ now + TTL \in Nat
          /\ gc' = put(gc, keys[r], gens[r], since[r], now + TTL)
      BY <2>1, BoundAssumption DEF Store, TypeOK, ReadType
    <3> QED
      BY <3>1, PutFits
  <2>2. ASSUME NEW k \in GenKey, Drop(k) PROVE Fits(gc')
    BY <2>2, DropFits DEF Drop, TypeOK
  <2>3. CASE gc' = gc
    BY <2>3
  <2> QED
    BY <2>1, <2>2, <2>3
       DEF Next, vars, Begin, Fetch, Abandon, Advance, Tick
<1>3. Inv => Bounded
  BY DEF Fits, Bounded
<1> QED
  BY <1>1, <1>2, <1>3, PTL DEF Spec

(* A drop takes no other key's generation (#145).                          *)
THEOREM DropsSpareOthers == Spec => DropSparesOthers
<1>1. ASSUME TypeOK, [Next]_vars
      PROVE  [\A k \in GenKey :
                (\E j \in GenKey \ {k} : Drop(j)) => gc'.m[k] = gc.m[k]]_vars
  <2> SUFFICES ASSUME NEW k \in GenKey, NEW j \in GenKey \ {k}, Drop(j)
               PROVE  gc'.m[k] = gc.m[k]
    OBVIOUS
  <2>1. gc' = drop(gc, j) /\ gc \in GenCacheType
    BY <1>1 DEF Drop, TypeOK
  <2>2. gc'.m = [gc.m EXCEPT ![j] = Missing]
    BY <2>1, DropFacts
  <2>3. gc.m \in [GenKey -> CachedGen]
    BY <2>1 DEF GenCacheType
  <2> QED
    BY <2>2, <2>3
<1> QED
  BY <1>1, TypeCorrect, PTL DEF Spec, DropSparesOthers
==============================================================================
