-------------------------- MODULE TaggedCacheProofs --------------------------
(***************************************************************************)
(* Proofs about TaggedCache, for every number of replicas, goroutines,     *)
(* keys, tags, operations, loads, writes and losses, and every fault: what *)
(* a read answers is of the key asked for (NoCrossOwner), and as new as    *)
(* the last invalidation its replica was told of (ReadAfterInvalidate).    *)
(*                                                                         *)
(* The argument follows generations back to where they came from.  A       *)
(* history h knows of every generation a counter ever held which counter   *)
(* it was and what the source was when it took it.  No generation is taken *)
(* twice, so a generation names its tag, and the generations of an entry   *)
(* name its key.  An entry was loaded after its generations were read, and *)
(* is therefore as new as the source was when they were taken; a counter   *)
(* holds a generation no older than its last bump.                         *)
(***************************************************************************)
EXTENDS TaggedCache, TLAPS

-----------------------------------------------------------------------------
(* The invariant.                                                          *)

(* g was the generation of t.                                              *)
Minted(h, t, g) == g \in DOMAIN h /\ h[g].tag = t

(* gens are generations of the tags of k.                                  *)
GensFor(h, k, gens) ==
    /\ Len(gens) = Len(TagsOf[k])
    /\ \A i \in DOMAIN TagsOf[k] : Minted(h, TagsOf[k][i], gens[i])

(* Version v of k is as new as each of gens.                               *)
Reaches(h, k, gens, v) ==
    \A i \in DOMAIN TagsOf[k] : h[gens[i]].src[k] <= v

(* An entry has generations of the tags of its key, and was loaded after   *)
(* they were read.                                                         *)
EntryOK(h, e) ==
    e # NoEntry => /\ e.key \in Key
                   /\ GensFor(h, e.key, e.gens)
                   /\ e.set \/ Reaches(h, e.key, e.gens, e.ver)

EntryAt(h, pk, e) == EntryOK(h, e) /\ (e # NoEntry => PK[e.key] = pk)

(* Generations descend from draws made, and know a source that was.        *)
HistoryOK(h) ==
    \A g \in DOMAIN h :
      /\ g \in Generation /\ g[1] \in 1..draws
      /\ \A k \in Key : h[g].src[k] \in Nat /\ h[g].src[k] <= src[k]

(* A counter holds the last generation of its draw, which is its own, and  *)
(* took it no earlier than its last bump.                                  *)
CounterOK(h, s, t) ==
    ctr[s][t] # NoGen =>
      /\ ctr[s][t] \in DOMAIN h
      /\ \A g \in DOMAIN h :
           g[1] = ctr[s][t][1] =>
             h[g].store = s /\ h[g].tag = t /\ g[2] <= ctr[s][t][2]
      /\ \A k \in Key : bumped[s][t][k] <= h[ctr[s][t]].src[k]

CountersOK(h) == \A s \in Stores, t \in GenKey : CounterOK(h, s, t)

(* Nothing is promised that the authority has not been bumped for.         *)
FloorsOK ==
    \A t \in GenKey, k \in Key :
      /\ \A s \in Stores : bumped[s][t][k] <= src[k]
      /\ \A r \in Replica : floor[r][t][k] <= bumped[Auth(r)][t][k]

(* What a replica's copy vouches for was taken no earlier than the last    *)
(* bump the replica was told of.                                           *)
CopiesOK(h) ==
    \A r \in Replica, t \in GenKey :
      LET e == gc[r].m[t] IN
      e # Missing => /\ HasGens
                     /\ Minted(h, t, e.gen)
                     /\ \A k \in Key : floor[r][t][k] <= h[e.gen].src[k]

StoresOK(h) == \A s \in Stores, pk \in PKey : EntryAt(h, pk, val[s][pk])

(* An epoch is not ahead of the copy it was taken of.                      *)
Behind(since, g, ks) ==
    /\ since.clears <= g.clears
    /\ since.clears = g.clears => \A t \in ks : since.drops[t] <= g.drops[t]

Matches(since, g, t) ==
    since.clears = g.clears /\ since.drops[t] = g.drops[t]

Reading == {"l1get", "compare", "epoch", "fetch", "decide", "backfill",
            "flight", "wait"}
BeforeFetch == {"l1get", "compare", "epoch", "fetch"}

(* The parts of a frame's key, by what it is doing.                        *)
KeyOK(q) ==
    /\ q.pc # "idle" => q.rep \in Replica
    /\ q.pc \in Reading \cup {"setgens", "setL2", "setL1", "delL1", "delL2"}
         => q.key \in Key
    /\ q.pc \in {"bump", "drop"} => q.key \in GenKey
    /\ q.pc = "publish" => IF q.op = "InvalidateTag" THEN q.key \in GenKey
                                                     ELSE q.key \in Key
    /\ q.pc \in {"bump", "drop"} => q.op = "InvalidateTag"
    /\ q.pc \in {"delL1", "delL2"} => q.op = "Delete"
    /\ q.pc \in {"l1get", "compare", "epoch", "backfill"} => HasGens
    /\ q.pc \in {"fetch", "decide"} /\ HasGens
         => Tags(q.key) \subseteq DOMAIN q.since.drops
    /\ q.pc = "decide" => Len(q.gens) = Len(TagsOf[q.key])
    /\ q.pc = "wait" => q.load \in Load

LoadKeyOK(l) ==
    l.stage \notin {"unborn", "gone"} => l.rep \in Replica /\ l.key \in Key

(* What a read has to reach: no more than its replica was told of, until   *)
(* it has generations, and no more than those afterwards.                  *)
MinOK(h, q) ==
    /\ q.pc \in Reading =>
         \A t \in GenKey : IF t \in Tags(q.key) THEN q.min[t] <= src[q.key]
                                                 ELSE q.min[t] = 0
    /\ q.pc \in BeforeFetch =>
         /\ ~q.blind /\ q.gens = Unread
         /\ \A t \in Tags(q.key) : q.min[t] <= floor[q.rep][t][q.key]
    /\ q.pc \in {"decide", "backfill"} => ~q.blind
    /\ q.pc \in {"decide", "backfill", "flight"} =>
         IF q.blind
           THEN q.gens = Unread
           ELSE /\ GensFor(h, q.key, q.gens)
                /\ \A i \in DOMAIN TagsOf[q.key] :
                     q.min[TagsOf[q.key][i]] <= h[q.gens[i]].src[q.key]

(* The entries a frame holds.                                              *)
HoldsOK(h, q) ==
    /\ q.pc \in Reading => EntryAt(h, PK[q.key], q.local)
    /\ q.pc \in {"decide", "backfill"} => EntryAt(h, PK[q.key], q.hit)
    /\ q.pc = "backfill" => q.hit # NoEntry /\ q.hit.gens = q.gens
    /\ q.pc = "setgens" => q.res.key = q.key /\ q.res.set
    /\ q.pc \in {"setL2", "setL1"} => EntryAt(h, PK[q.key], q.res)

(* While the copy still matches a read's epoch, the replica was told of no *)
(* bump since, and what the read fetched is as new as those before.        *)
SinceOK(h, q) ==
    HasGens /\ q.pc \in {"fetch", "decide"} =>
      /\ Behind(q.since, gc[q.rep], Tags(q.key))
      /\ q.pc = "decide" =>
           \A i \in DOMAIN TagsOf[q.key] :
             LET t == TagsOf[q.key][i] IN
             Matches(q.since, gc[q.rep], t) =>
               \A k \in Key : floor[q.rep][t][k] <= h[q.gens[i]].src[k]

(* A load that is waited for is of the key asked for, and as new.          *)
WaitOK(q) ==
    q.pc = "wait" =>
      LET l == load[q.load] IN
      /\ l.stage # "unborn"
      /\ l.stage # "gone" => l.key = q.key
      /\ l.res # NoEntry =>
           /\ l.res.key = q.key
           /\ q.blind \/ \A t \in Tags(q.key) : q.min[t] <= l.res.ver

FrameOK(h, q) == MinOK(h, q) /\ HoldsOK(h, q) /\ SinceOK(h, q) /\ WaitOK(q)

(* A load is of the key and generations its flight key tells, and so is    *)
(* what it found.                                                          *)
LoadOK(h, l) ==
    /\ l.stage = "unborn" => l = NoLoad
    /\ l.stage = "load" => l.res = NoEntry
    /\ l.stage \in {"writeL2", "writeL1"} => l.gens # Unread /\ l.res # NoEntry
    /\ l.stage \notin {"unborn", "gone"} =>
         /\ l.fk = flightKey(l.key, l.gens)
         /\ l.gens = Unread \/ GensFor(h, l.key, l.gens)
         /\ l.res # NoEntry =>
              /\ l.res.key = l.key /\ l.res.gens = l.gens /\ ~l.res.set
              /\ l.gens = Unread \/ EntryOK(h, l.res)

AnswersOK == \A a \in answers : a.own /\ (a.blind \/ a.recent)

(* The types, and the keys of the frames and loads.                        *)
TypeInv == /\ TypeOK
           /\ \A p \in Proc : KeyOK(proc[p])
           /\ \A c \in Load : LoadKeyOK(load[c])

Inv(h) ==
    /\ HistoryOK(h) /\ CountersOK(h) /\ FloorsOK /\ CopiesOK(h) /\ StoresOK(h)
    /\ \A p \in Proc : FrameOK(h, proc[p])
    /\ \A c \in Load : LoadOK(h, load[c])
    /\ AnswersOK

(* What every step does, and what a frame that did not move relies on: the *)
(* history, the source and the floors grow, a copy's epochs move with its  *)
(* floors, and a load becomes what its callers expect.                     *)
Extends(h, h2) == \A g \in DOMAIN h : g \in DOMAIN h2 /\ h2[g] = h[g]

CopyGrows(g, g2) ==
    /\ g.clears <= g2.clears
    /\ g.clears = g2.clears => \A t \in GenKey : g.drops[t] <= g2.drops[t]

Dropped(g, g2, t) == g.clears < g2.clears \/ g.drops[t] < g2.drops[t]

LoadGrows(l, l2, source) ==
    l.stage # "unborn" =>
      /\ l2.stage # "unborn"
      /\ l2.stage # "gone" => l.stage # "gone" /\ l2.key = l.key
      /\ \/ l2.res = l.res
         \/ /\ l.stage # "gone"
            /\ l2.res.key = l.key /\ l2.res.ver = source[l.key]

SourceGrows == \A k \in Key : src[k] <= src'[k]

FloorsGrow == \A r \in Replica, t \in GenKey, k \in Key :
                floor[r][t][k] <= floor'[r][t][k]

CopiesGrow ==
    \A r \in Replica :
      /\ CopyGrows(gc[r], gc'[r])
      /\ HasGens => \A t \in GenKey :
            floor'[r][t] = floor[r][t] \/ Dropped(gc[r], gc'[r], t)

LoadsGrow == \A c \in Load : LoadGrows(load[c], load'[c], src)

Grows(h, h2) == Extends(h, h2) /\ SourceGrows /\ FloorsGrow /\ CopiesGrow
                  /\ LoadsGrow

-----------------------------------------------------------------------------
(* Types.                                                                  *)

(* A frame of the shape frames have.                                       *)
Framed(q) == KeyOK(q) /\ \E ts \in SUBSET GenKey : q \in FrameType(ts)

FramesTyped == /\ proc = [p \in Proc |-> proc[p]]
               /\ \A p \in Proc : Framed(proc[p])

StoresTyped == /\ val \in [Stores -> [PKey -> EntryType]]
               /\ ctr \in [Stores -> [GenKey -> Generation]]
               /\ draws \in Nat
               /\ lost \in 0..scenario.maxEvictions

LoadsTyped == /\ load \in [Load -> LoadType]
              /\ \A c \in Load : LoadKeyOK(load[c])

BusTyped == bus \in [Replica -> SUBSET ([kind : {"tag"}, name : GenKey]
                                     \cup [kind : {"key"}, name : PKey])]

AnswersTyped ==
    answers \subseteq [own : BOOLEAN, blind : BOOLEAN, recent : BOOLEAN]

GhostsTyped == /\ bumped \in [Stores -> [GenKey -> [Key -> Version]]]
               /\ floor \in [Replica -> [GenKey -> [Key -> Version]]]

(* The parts of TypeInv, as the steps change them.                         *)
LEMMA TypeParts ==
  TypeInv <=> /\ scenario \in Scenarios
              /\ src \in [Key -> Version]
              /\ StoresTyped
              /\ begun \in 0..scenario.maxOps
              /\ gc \in [Replica -> CopyType]
              /\ LoadsTyped
              /\ BusTyped
              /\ FramesTyped
              /\ AnswersTyped
              /\ GhostsTyped
  BY DEF TypeInv, TypeOK, StoresTyped, LoadsTyped, BusTyped, FramesTyped,
         Framed, AnswersTyped, GhostsTyped

(* Types are of the scenario, which no step changes.                       *)
LEMMA SameTypes ==
  ASSUME scenario' = scenario
  PROVE  /\ Version' = Version /\ EntryType' = EntryType /\ Load' = Load
         /\ LoadType' = LoadType
         /\ \A ts : FrameType(ts)' = FrameType(ts)
         /\ \A q : KeyOK(q)' = KeyOK(q)
         /\ \A q : Framed(q)' = Framed(q)
  <1>1. Version' = Version /\ Load' = Load
    BY DEF Version, Load
  <1>2. EntryType' = EntryType
    BY <1>1 DEF EntryType
  <1>3. LoadType' = LoadType
    BY <1>2 DEF LoadType
  <1>4. \A ts : FrameType(ts)' = FrameType(ts)
    BY <1>1, <1>2 DEF FrameType
  <1>5. \A q : KeyOK(q)' = KeyOK(q)
    BY DEF KeyOK, HasGens, Load
  <1>6. \A q : Framed(q)' = Framed(q)
    BY <1>4, <1>5 DEF Framed
  <1> QED  BY <1>1, <1>2, <1>3, <1>4, <1>5, <1>6

(* They hold after a step when it kept them or left their variables alone. *)
LEMMA NextParts ==
  ASSUME TypeInv, scenario' = scenario,
         src' = src \/ src' \in [Key -> Version],
         UNCHANGED storeVars \/ StoresTyped',
         begun' = begun \/ begun' \in 0..scenario.maxOps,
         gc' = gc \/ gc' \in [Replica -> CopyType],
         load' = load \/ LoadsTyped',
         bus' = bus \/ BusTyped',
         proc' = proc \/ FramesTyped',
         answers' = answers \/ AnswersTyped',
         UNCHANGED ghosts \/ GhostsTyped'
  PROVE  TypeInv'
  <1> USE SameTypes, TypeParts
  <1>1. (src \in [Key -> Version])'
    OBVIOUS
  <1>2. StoresTyped'
    BY DEF StoresTyped, storeVars
  <1>3. (begun \in 0..scenario.maxOps)'
    OBVIOUS
  <1>4. (gc \in [Replica -> CopyType])' /\ LoadsTyped'
    BY DEF CopyType, LoadsTyped
  <1>5. BusTyped' /\ AnswersTyped'
    BY DEF BusTyped, AnswersTyped
  <1>6. FramesTyped'
    BY DEF FramesTyped
  <1>7. GhostsTyped'
    BY DEF GhostsTyped, ghosts
  <1> QED
    BY <1>1, <1>2, <1>3, <1>4, <1>5, <1>6, <1>7
       DEF TypeInv, TypeOK, StoresTyped, LoadsTyped, BusTyped, FramesTyped,
           Framed, AnswersTyped, GhostsTyped

(* The scenario is one of those New may be given.                          *)
LEMMA ScenarioFields ==
  ASSUME scenario \in Scenarios
  PROVE  /\ scenario.level \in {"both", "L1", "L2"}
         /\ scenario.keys \subseteq Key
         /\ scenario.maxOps \in Nat /\ scenario.maxVersion \in Nat
         /\ scenario.maxLoads \in Nat /\ scenario.maxEvictions \in Nat
  <1>1. scenario \in ScenarioType
    BY TaggedAssumption DEF TaggedAssumption
  <1> QED  BY <1>1 DEF ScenarioType

(* What a fresh record holds.                                              *)
LEMMA Constants ==
  ASSUME scenario \in Scenarios
  PROVE  /\ NoEntry \in EntryType
         /\ newGenCache \in CopyType
         /\ Unread \in Seq(Generation) /\ <<>> \in Seq(Generation)
         /\ NoLoad \in LoadType
         /\ NoMin \in [GenKey -> Version]
         /\ \A ts \in SUBSET GenKey : \A g \in CopyType :
              epoch(g, ts) \in [clears : Nat, drops : [ts -> Nat]]
         /\ NoEpoch \in [clears : Nat, drops : [{} -> Nat]]
         /\ Framed(Idle)
  <1>1. 0 \in Version
    BY ScenarioFields DEF Version
  <1>2. NoGen \in Generation
    BY TaggedAssumption DEF TaggedAssumption, NoGeneration, Generation
  <1>3. NoEntry \in EntryType
    BY <1>1 DEF NoEntry, EntryType
  <1>4. newGenCache \in CopyType
    BY <1>2 DEF newGenCache, CopyType, Missing, ZeroDrops
  <1>5. Unread \in Seq(Generation) /\ <<>> \in Seq(Generation)
    BY <1>2 DEF Unread
  <1>6. NoMin \in [GenKey -> Version]
    BY <1>1 DEF NoMin
  <1>7. ASSUME NEW ts \in SUBSET GenKey, NEW g \in CopyType
        PROVE  epoch(g, ts) \in [clears : Nat, drops : [ts -> Nat]]
    BY DEF epoch, CopyType
  <1>8. NoEpoch \in [clears : Nat, drops : [{} -> Nat]]
    BY <1>4, <1>7 DEF NoEpoch
  <1>9. NoLoad \in LoadType
    BY <1>3, <1>5 DEF NoLoad, LoadType, FlightKeyType
  <1>10. Idle \in FrameType({})
    BY <1>3, <1>5, <1>6, <1>8 DEF Idle, FrameType
  <1>11. KeyOK(Idle)
    BY DEF KeyOK, Idle, Reading
  <1> QED  BY <1>3, <1>4, <1>5, <1>6, <1>7, <1>8, <1>9, <1>10, <1>11 DEF Framed

LEMMA InitTyped == Init => TypeInv
  <1> SUFFICES ASSUME Init PROVE TypeInv
    OBVIOUS
  <1> USE DEF Init
  <1>1. scenario \in Scenarios /\ 0 \in Version
    BY ScenarioFields DEF Version
  <1>2. StoresTyped
    BY <1>1, Constants, ScenarioFields, TaggedAssumption
       DEF StoresTyped, TaggedAssumption, NoGeneration, Generation
  <1>3. FramesTyped
    BY <1>1, Constants DEF FramesTyped
  <1>4. GhostsTyped
    BY <1>1 DEF GhostsTyped
  <1>5. begun \in 0..scenario.maxOps /\ src \in [Key -> Version]
    BY <1>1, ScenarioFields
  <1>6. gc \in [Replica -> CopyType] /\ LoadsTyped
    BY <1>1, Constants DEF LoadsTyped, LoadKeyOK, NoLoad
  <1>7. BusTyped /\ AnswersTyped
    BY DEF BusTyped, AnswersTyped
  <1> QED  BY <1>1, <1>2, <1>3, <1>4, <1>5, <1>6, <1>7, TypeParts

LEMMA MoveTyped ==
  ASSUME FramesTyped, scenario' = scenario, NEW p \in Proc, NEW f, Framed(f),
         proc' = [proc EXCEPT ![p] = f]
  PROVE  FramesTyped'
  <1>1. proc' = [q \in Proc |-> proc'[q]]
    BY DEF FramesTyped
  <1>2. \A q \in Proc : Framed(proc'[q])
    BY DEF FramesTyped
  <1> QED  BY <1>1, <1>2, SameTypes DEF FramesTyped

LEMMA ReturnTyped ==
  ASSUME TypeInv, scenario' = scenario, NEW p \in Proc, NEW e \in EntryType,
         proc[p].blind \in BOOLEAN, Return(p, e)
  PROVE  FramesTyped' /\ AnswersTyped'
  <1>1. FramesTyped'
    BY TypeParts, Constants, MoveTyped DEF Return
  <1>2. e.set \in BOOLEAN
    BY DEF EntryType
  <1> DEFINE recent == e.set \/ \A t \in GenKey : e.ver >= proc[p].min[t]
  <1>3. recent \in BOOLEAN
    BY <1>2
  <1>4. AnswersTyped'
    <2> DEFINE a == [own |-> e.key = proc[p].key, blind |-> proc[p].blind,
                     recent |-> recent]
    <2>1. a \in [own : BOOLEAN, blind : BOOLEAN, recent : BOOLEAN]
      <3> HIDE DEF recent
      <3> QED  BY <1>3
    <2>2. answers' = answers \/ answers' = answers \cup {a}
      BY DEF Return
    <2> QED  BY <2>1, <2>2, TypeParts DEF AnswersTyped
  <1> QED  BY <1>1, <1>4

(* What a frame is made of.                                                *)
LEMMA FrameFields ==
  ASSUME TypeInv, NEW p \in Proc
  PROVE  LET q == proc[p] IN
         /\ KeyOK(q)
         /\ \E ts \in SUBSET GenKey : q \in FrameType(ts)
         /\ q.blind \in BOOLEAN /\ q.gens \in Seq(Generation)
         /\ q.local \in EntryType /\ q.hit \in EntryType /\ q.res \in EntryType
         /\ q.rep \in Replica \cup {"none"}
         /\ q.load \in Load \cup {0} /\ q.min \in [GenKey -> Version]
  <1>1. Framed(proc[p])
    BY TypeParts DEF FramesTyped
  <1> QED  BY <1>1 DEF Framed, FrameType

LEMMA BeginTyped ==
  ASSUME TypeInv, scenario' = scenario, NEW p \in Proc, NEW op \in OpName,
         NEW r \in Replica, NEW x, NEW pc, NEW e \in EntryType,
         NEW min \in [GenKey -> Version],
         \/ op \in {"Get", "GetOrLoad"} /\ x \in Key
              /\ pc = IF HasGens THEN "l1get" ELSE "fetch"
         \/ op = "Set" /\ x \in Key /\ pc = "setgens"
         \/ op = "Delete" /\ x \in Key /\ pc \in {"delL1", "delL2"}
         \/ op = "InvalidateTag" /\ x \in GenKey /\ pc = "bump",
         Begin(p, op, r, x, pc, e, min)
  PROVE  TypeInv'
  <1> DEFINE f == [Idle EXCEPT !.op = op, !.pc = pc, !.rep = r, !.key = x,
                               !.res = e, !.min = min]
  <1>1. PICK ts \in SUBSET GenKey : Idle \in FrameType(ts)
    BY TypeParts, Constants DEF Framed
  <1>2. f \in FrameType(ts)
    <2>1. pc \in {"l1get", "fetch", "setgens", "delL1", "delL2", "bump"}
      OBVIOUS
    <2>2. x \in Key \cup GenKey \cup {"none"}
      OBVIOUS
    <2> QED  BY <1>1, <2>1, <2>2 DEF FrameType
  <1>3. KeyOK(f)
    BY DEF KeyOK, Idle, Reading
  <1>4. FramesTyped'
    BY <1>2, <1>3, TypeParts, MoveTyped DEF Framed, Begin, Move
  <1>5. begun' \in 0..scenario.maxOps
    BY TypeParts, ScenarioFields DEF Begin
  <1> QED
    BY <1>4, <1>5, NextParts DEF Begin, Move, storeVars, ghosts

-----------------------------------------------------------------------------
(* What the operations on stores and copies return is typed.               *)

LEMMA SeqOf ==
  ASSUME NEW S, NEW n \in Nat, NEW f \in [1..n -> S]
  PROVE  f \in Seq(S) /\ Len(f) = n /\ DOMAIN f = 1..n
  OBVIOUS

LEMMA TagsOfSeq ==
  ASSUME NEW k \in Key
  PROVE  /\ TagsOf[k] \in Seq(GenKey) /\ Len(TagsOf[k]) \in Nat
         /\ DOMAIN TagsOf[k] = 1..Len(TagsOf[k])
         /\ Tags(k) \in SUBSET GenKey
         /\ \A i \in DOMAIN TagsOf[k] : TagsOf[k][i] \in Tags(k)
  BY TaggedAssumption DEF TaggedAssumption, Tags

LEMMA KeyInPKey == \A k \in Key : PK[k] \in PKey
  BY DEF PKey

LEMMA CountersTyped ==
  ASSUME TypeInv, scenario' = scenario, NEW s \in Stores, NEW k \in Key,
         Counters(s, TagsOf[k]), val' = val, lost' = lost
  PROVE  /\ StoresTyped'
         /\ GensOf(s, TagsOf[k]) \in Seq(Generation)
         /\ Len(GensOf(s, TagsOf[k])) = Len(TagsOf[k])
  <1> DEFINE ts == TagsOf[k]
  <1> USE TagsOfSeq, TypeParts DEF StoresTyped
  <1>1. ASSUME NEW t \in GenKey
        PROVE  Created(s, ts)[t] \in Generation
    <2>1. CASE \E i \in Missed(s, ts) : ts[i] = t
      <3>1. (CHOOSE i \in DOMAIN ts : ts[i] = t) \in 1..Len(ts)
        BY <2>1 DEF Missed
      <3> QED  BY <2>1, <3>1 DEF Created, NewGeneration, Generation
    <2>2. CASE ~\E i \in Missed(s, ts) : ts[i] = t
      BY <2>2 DEF Created
    <2> QED  BY <2>1, <2>2
  <1>2. Created(s, ts) \in [GenKey -> Generation]
    BY <1>1 DEF Created
  <1>3. GensOf(s, ts) \in Seq(Generation) /\ Len(GensOf(s, ts)) = Len(ts)
    <2>1. GensOf(s, ts) \in [1..Len(ts) -> Generation]
      BY <1>2 DEF GensOf
    <2>2. Len(ts) \in Nat
      OBVIOUS
    <2> HIDE DEF ts
    <2> QED  BY ONLY <2>1, <2>2, SeqOf
  <1>4. StoresTyped'
    BY <1>2, SameTypes DEF Counters
  <1> QED  BY <1>3, <1>4

LEMMA BumpTyped ==
  ASSUME TypeInv, scenario' = scenario, NEW s \in Stores, NEW t \in GenKey,
         BumpCounter(s, t), val' = val, lost' = lost
  PROVE  /\ StoresTyped'
         /\ bumped' \in [Stores -> [GenKey -> [Key -> Version]]]
  <1> USE TypeParts DEF StoresTyped, GhostsTyped
  <1>1. ctr'[s][t] \in Generation
    BY DEF BumpCounter, Advance, NewGeneration, Generation
  <1>2. StoresTyped'
    BY <1>1, SameTypes DEF BumpCounter
  <1> QED  BY <1>2 DEF BumpCounter

LEMMA DropTyped ==
  ASSUME NEW g \in CopyType, NEW t \in GenKey, NoGen \in Generation
  PROVE  drop(g, t) \in CopyType
  <1>1. Reset(g) \in CopyType
    BY DEF Reset, CopyType, ZeroDrops
  <1>2. ASSUME NEW c \in CopyType
        PROVE  Count(c, t) \in CopyType
    BY DEF Count, CopyType, Missing
  <1> QED  BY <1>1, <1>2 DEF drop

LEMMA PutTyped ==
  ASSUME NEW g \in CopyType, NEW ts \in SUBSET GenKey, NEW since,
         NEW gens, \A t \in ts : gens[t] \in Generation,
         NoGen \in Generation
  PROVE  put(g, ts, gens, since, 1) \in CopyType
  <1>1. clear(g) \in CopyType
    BY DEF clear, CopyType, ZeroDrops, Missing
  <1>2. ASSUME NEW c \in CopyType
        PROVE  StoreGens(c, ts, gens, 1) \in CopyType
    BY DEF StoreGens, CopyType
  <1> QED  BY <1>1, <1>2 DEF put

(* GensByKey looks a tag's generation up.                                  *)
LEMMA GensByKeyOf ==
  ASSUME NEW k \in Key, NEW gens, NEW t \in Tags(k)
  PROVE  \E i \in DOMAIN TagsOf[k] :
           TagsOf[k][i] = t /\ GensByKey(TagsOf[k], gens)[t] = gens[i]
  <1> DEFINE i == CHOOSE i \in DOMAIN TagsOf[k] : TagsOf[k][i] = t
  <1>1. i \in DOMAIN TagsOf[k] /\ TagsOf[k][i] = t
    BY DEF Tags
  <1>2. GensByKey(TagsOf[k], gens)[t] = gens[i]
    BY DEF GensByKey, Tags
  <1> QED  BY <1>1, <1>2

(* Storing an entry, or none.                                              *)
LEMMA StoreTyped ==
  ASSUME TypeInv, scenario' = scenario, NEW s \in Stores, NEW pk \in PKey,
         NEW e \in EntryType, Store(s, pk, e), UNCHANGED <<ctr, draws, lost>>
  PROVE  StoresTyped'
  <1>1. val' \in [Stores -> [PKey -> EntryType]]
    <2>1. val \in [Stores -> [PKey -> EntryType]]
      BY TypeParts DEF StoresTyped
    <2> QED  BY <2>1 DEF Store
  <1>2. EntryType' = EntryType
    BY SameTypes
  <1> QED  BY <1>1, <1>2, TypeParts DEF StoresTyped

(* A read's step leaves the frame it should.                               *)
LEMMA ReadTyped ==
  ASSUME TypeInv, scenario' = scenario, NEW p \in Proc, ReadStep(p)
  PROVE  TypeInv'
  <1> DEFINE q == proc[p]
  <1> USE FrameFields, TypeParts DEF At, storeVars, ghosts
  <1>c. NoEntry \in EntryType /\ NoGen \in Generation
    BY Constants, TaggedAssumption
       DEF TaggedAssumption, NoGeneration, Generation
  (* A step that only moves the frame, or returns.                         *)
  <1>m. ASSUME NEW f, Framed(f), Move(p, f),
               UNCHANGED <<src, storeVars, gc, load, bus, begun, ghosts>>
        PROVE  TypeInv'
    BY <1>m, MoveTyped, NextParts DEF Move
  <1>r. ASSUME NEW e \in EntryType, Return(p, e),
               UNCHANGED <<src, storeVars, gc, load, bus, begun, ghosts>>
        PROVE  TypeInv'
    BY <1>r, ReturnTyped, NextParts
  <1> PICK ts \in SUBSET GenKey : q \in FrameType(ts)
    OBVIOUS
  <1>1. CASE L1Get(p)
    <2>1. q.rep \in Replica /\ q.key \in Key /\ HasGens
      BY <1>1 DEF KeyOK, Reading, L1Get
    <2>2. val[q.rep][PK[q.key]] \in EntryType
      BY <2>1 DEF StoresTyped, Stores, PKey
    <2>3. ASSUME NEW e \in EntryType
          PROVE  Framed([q EXCEPT !.pc = "compare", !.local = e])
      <3>1. [q EXCEPT !.pc = "compare", !.local = e] \in FrameType(ts)
        BY DEF FrameType
      <3> QED  BY <3>1, <2>1 DEF Framed, KeyOK, FrameType
    <2>4. Framed([q EXCEPT !.pc = "compare"])
      <3>1. [q EXCEPT !.pc = "compare"] \in FrameType(ts)
        BY DEF FrameType
      <3>2. KeyOK([q EXCEPT !.pc = "compare"])
        BY <2>1 DEF KeyOK, FrameType
      <3> QED  BY <3>1, <3>2 DEF Framed
    <2> QED  BY <1>1, <1>m, <2>2, <2>3, <2>4 DEF L1Get
  <1>2. CASE Compare(p)
    <2>1. Framed([q EXCEPT !.pc = "epoch"])
      BY <1>2 DEF Framed, FrameType, KeyOK, Reading, Compare
    <2> QED  BY <1>2, <2>1, <1>m, <1>r DEF Compare
  <1>3. CASE Epoch(p)
    <2>1. q.rep \in Replica /\ q.key \in Key
      BY <1>3 DEF KeyOK, Reading, Epoch
    <2> DEFINE s == epoch(gc[q.rep], Tags(q.key))
    <2>2. s \in [clears : Nat, drops : [Tags(q.key) -> Nat]]
      BY <2>1, TagsOfSeq, Constants
    <2>3. DOMAIN s.drops = Tags(q.key) /\ Tags(q.key) \in SUBSET GenKey
      BY <2>2, <2>1, TagsOfSeq
    <2> HIDE DEF s
    <2> DEFINE f == [q EXCEPT !.pc = "fetch", !.since = s]
    <2>4. f \in FrameType(Tags(q.key))
      BY <2>2 DEF FrameType
    <2>5. KeyOK(f)
      BY <1>3, <2>1, <2>3 DEF KeyOK, Reading, Epoch, FrameType
    <2> QED  BY <1>3, <2>3, <2>4, <2>5, <1>m DEF Epoch, Framed, s
  <1>4. CASE Fetch(p)
    <2>1. q.rep \in Replica /\ q.key \in Key /\ Auth(q.rep) \in Stores
      BY <1>4 DEF KeyOK, Reading, Fetch, Auth, Stores
    <2>2. val[Auth(q.rep)][PK[q.key]] \in EntryType
      BY <2>1 DEF StoresTyped, PKey
    <2> DEFINE gs == GensOf(Auth(q.rep), TagsOf[q.key])
    <2>3. /\ StoresTyped' /\ gs \in Seq(Generation)
          /\ Len(gs) = Len(TagsOf[q.key])
      BY <1>4, <2>1, CountersTyped DEF Fetch
    <2>4. ASSUME NEW gens \in Seq(Generation), NEW e \in EntryType,
                 Len(gens) = Len(TagsOf[q.key])
          PROVE  Framed([q EXCEPT !.pc = "decide", !.gens = gens, !.hit = e])
      <3>1. [q EXCEPT !.pc = "decide", !.gens = gens, !.hit = e]
              \in FrameType(ts)
        BY DEF FrameType
      <3> QED  BY <1>4, <2>4, <3>1, <2>1 DEF Framed, KeyOK, FrameType, Fetch
    <2>5. FramesTyped'
      BY <1>4, <2>2, <2>3, <2>4, MoveTyped DEF Fetch, Move
    <2> QED  BY <1>4, <2>3, <2>5, NextParts DEF Fetch, Move
  <1>5. CASE FetchFails(p)
    <2>1. q.rep \in Replica /\ q.key \in Key
      BY <1>5 DEF KeyOK, Reading, FetchFails
    <2>2. Framed([q EXCEPT !.pc = "flight", !.blind = TRUE,
                           !.local = NoEntry, !.since = NoEpoch])
      <3>1. [q EXCEPT !.pc = "flight", !.blind = TRUE, !.local = NoEntry,
                      !.since = NoEpoch] \in FrameType({})
        BY Constants DEF FrameType
      <3> QED  BY <2>1, <3>1 DEF Framed, KeyOK, FrameType
    <2> QED  BY <1>5, <2>2, <1>m, <1>r, <1>c DEF FetchFails
  <1>6. CASE GivesUp(p)
    BY <1>6, <1>r, <1>c DEF GivesUp
  <1>7. CASE Decide(p)
    <2>1. q.rep \in Replica /\ q.key \in Key
      BY <1>7 DEF KeyOK, Reading, Decide
    <2>2. gc' \in [Replica -> CopyType]
      <3>1. ASSUME NEW t \in Tags(q.key)
            PROVE  GensByKey(TagsOf[q.key], q.gens)[t] \in Generation
        <4>1. DOMAIN q.gens = DOMAIN TagsOf[q.key]
          BY <1>7, <2>1, TagsOfSeq DEF KeyOK, Decide
        <4>2. \A i \in DOMAIN q.gens : q.gens[i] \in Generation
          OBVIOUS
        <4>3. PICK i \in DOMAIN TagsOf[q.key] :
                GensByKey(TagsOf[q.key], q.gens)[t] = q.gens[i]
          BY ONLY <2>1, t \in Tags(q.key), GensByKeyOf
        <4> QED  BY <4>1, <4>2, <4>3
      <3>2. put(gc[q.rep], Tags(q.key), GensByKey(TagsOf[q.key], q.gens),
                q.since, 1) \in CopyType
        BY <3>1, <1>c, <2>1, TagsOfSeq, PutTyped
      <3> QED  BY <1>7, <3>2, <2>1 DEF Decide
    <2>3. Framed([q EXCEPT !.pc = "flight", !.local = NoEntry,
                           !.hit = NoEntry, !.since = NoEpoch])
      <3>1. [q EXCEPT !.pc = "flight", !.local = NoEntry, !.hit = NoEntry,
                      !.since = NoEpoch] \in FrameType({})
        BY <1>c, Constants DEF FrameType
      <3> QED  BY <2>1, <3>1 DEF Framed, KeyOK, FrameType
    <2>4. HasGens => Framed([q EXCEPT !.pc = "backfill", !.local = NoEntry,
                                      !.since = NoEpoch])
      <3>1. [q EXCEPT !.pc = "backfill", !.local = NoEntry, !.since = NoEpoch]
              \in FrameType({})
        BY <1>c, Constants DEF FrameType
      <3> QED  BY <2>1, <3>1 DEF Framed, KeyOK, FrameType
    <2>5. FramesTyped' /\ (answers' = answers \/ AnswersTyped')
      <3>1. \A e \in EntryType : Return(p, e)
            => FramesTyped' /\ AnswersTyped'
        BY ReturnTyped
      <3>2. \A f : Framed(f) /\ Move(p, f)
            => FramesTyped' /\ answers' = answers
        BY MoveTyped DEF Move
      <3>3. CASE Current(q.local, q.gens)
        BY <1>7, <3>1, <3>3 DEF Decide
      <3>4. CASE ~Current(q.local, q.gens) /\ Current(q.hit, q.gens)
        BY <1>7, <2>4, <3>1, <3>2, <3>4 DEF Decide
      <3>5. CASE ~Current(q.local, q.gens) /\ ~Current(q.hit, q.gens)
        BY <1>7, <1>c, <2>3, <3>1, <3>2, <3>5 DEF Decide
      <3> QED  BY <3>3, <3>4, <3>5
    <2> QED  BY <1>7, <2>2, <2>5, NextParts DEF Decide
  <1>8. CASE Backfill(p)
    <2>1. StoresTyped'
      <3>1. q.rep \in Stores /\ q.key \in Key
        BY <1>8 DEF KeyOK, Reading, Backfill, Stores
      <3> QED  BY <1>8, <3>1, KeyInPKey, StoreTyped DEF Backfill
    <2>2. FramesTyped' /\ AnswersTyped'
      BY <1>8, ReturnTyped DEF Backfill
    <2> QED  BY <1>8, <2>1, <2>2, NextParts DEF Backfill
  <1>9. CASE Join(p)
    <2>1. ASSUME NEW c \in Load
          PROVE  Framed([q EXCEPT !.pc = "wait", !.load = c])
      <3>1. [q EXCEPT !.pc = "wait", !.load = c] \in FrameType(ts)
        BY DEF FrameType
      <3> QED  BY <1>9, <3>1 DEF Framed, KeyOK, FrameType, Reading, Join
    <2> QED  BY <1>9, <1>m, <2>1 DEF Join, Joinable
  <1>10. CASE Lead(p)
    <2>1. q.rep \in Replica /\ q.key \in Key
      BY <1>10 DEF KeyOK, Reading, Lead
    <2>2. ASSUME NEW c \in Load
          PROVE  Framed([q EXCEPT !.pc = "wait", !.load = c])
      <3>1. [q EXCEPT !.pc = "wait", !.load = c] \in FrameType(ts)
        BY DEF FrameType
      <3> QED  BY <2>1, <3>1 DEF Framed, KeyOK, FrameType
    <2>3. FramesTyped' /\ answers' = answers
      BY <1>10, <2>2, MoveTyped DEF Lead, Move
    <2>4. flightKey(q.key, q.gens) \in FlightKeyType
      BY <2>1, KeyInPKey, TagsOfSeq DEF flightKey, FlightKeyType
    <2>5. [NoLoad EXCEPT !.rep = q.rep, !.key = q.key,
             !.fk = flightKey(q.key, q.gens), !.gens = q.gens,
             !.stage = "load"] \in LoadType
      BY <2>1, <2>4, Constants DEF LoadType
    <2>6. LoadsTyped'
      BY <1>10, <2>1, <2>5, SameTypes DEF Lead, LoadsTyped, LoadKeyOK, NoLoad
    <2> QED  BY <1>10, <2>3, <2>6, NextParts DEF Lead
  <1>11. CASE Served(p)
    <2>1. \A c \in Load : load[c].res \in EntryType
      BY DEF LoadType, LoadsTyped
    <2>2. load[q.load].res \in EntryType
      BY <1>11, <2>1 DEF KeyOK, Served
    <2>3. \E e \in EntryType : Return(p, e)
      BY <1>11, <1>c, <2>2 DEF Served
    <2> QED  BY <1>11, <1>r, <2>3 DEF Served
  <1> QED  BY <1>1, <1>2, <1>3, <1>4, <1>5, <1>6, <1>7, <1>8, <1>9, <1>10,
              <1>11 DEF ReadStep

LEMMA WriteTyped ==
  ASSUME TypeInv, scenario' = scenario, NEW p \in Proc, WriteStep(p)
  PROVE  TypeInv'
  <1> DEFINE q == proc[p]
  <1> USE FrameFields DEF At
  <1>c. NoEntry \in EntryType /\ NoGen \in Generation
    BY TypeParts, Constants, TaggedAssumption
       DEF TaggedAssumption, NoGeneration, Generation
  <1>r. \A e \in EntryType : Return(p, e) => FramesTyped' /\ AnswersTyped'
    BY ReturnTyped
  <1>m. \A f : Framed(f) /\ Move(p, f) => FramesTyped' /\ answers' = answers
    BY TypeParts, MoveTyped DEF Move
  <1> PICK ts \in SUBSET GenKey : q \in FrameType(ts)
    OBVIOUS
  <1>pc. ASSUME NEW pc \in {"drop", "publish", "setL1", "delL2"},
                KeyOK([q EXCEPT !.pc = pc])
         PROVE  Framed([q EXCEPT !.pc = pc])
    <2>1. [q EXCEPT !.pc = pc] \in FrameType(ts)
      BY DEF FrameType
    <2> QED  BY <1>pc, <2>1 DEF Framed
  <1>1. CASE Bump(p)
    <2>1. q.rep \in Replica /\ q.key \in GenKey /\ Auth(q.rep) \in Stores
      BY <1>1 DEF KeyOK, Bump, Auth, Stores
    <2>2. KeyOK([q EXCEPT !.pc = "drop"])
      BY <1>1 DEF KeyOK, Bump, FrameType, Reading
    <2>3. FramesTyped' /\ answers' = answers
      BY <1>1, <2>2, <1>pc, <1>m DEF Bump
    <2>4. StoresTyped' /\ GhostsTyped'
      <3>1. CASE BumpCounter(Auth(q.rep), q.key)
        BY <1>1, <2>1, <3>1, BumpTyped, TypeParts, SameTypes
           DEF Bump, GhostsTyped
      <3>2. CASE UNCHANGED <<ctr, draws, bumped>>
        BY <1>1, <3>2, TypeParts, SameTypes DEF Bump, GhostsTyped, StoresTyped
      <3> QED  BY <1>1, <3>1, <3>2 DEF Bump
    <2> QED  BY <1>1, <2>3, <2>4, NextParts DEF Bump
  <1>2. CASE DropLocal(p)
    <2>1. q.rep \in Replica /\ q.key \in GenKey /\ Auth(q.rep) \in Stores
      BY <1>2 DEF KeyOK, DropLocal, Auth, Stores
    <2>2. KeyOK([q EXCEPT !.pc = "publish"])
      BY <1>2 DEF KeyOK, DropLocal, FrameType, Reading
    <2>3. FramesTyped' /\ answers' = answers
      BY <1>2, <2>2, <1>pc, <1>m DEF DropLocal
    <2>4. GhostsTyped'
      BY <1>2, <2>1, TypeParts, SameTypes DEF DropLocal, RaiseFloor, GhostsTyped
    <2>5. gc' \in [Replica -> CopyType]
      <3>1. drop(gc[q.rep], q.key) \in CopyType
        BY <1>c, <2>1, TypeParts, DropTyped
      <3> QED  BY <1>2, <3>1, TypeParts DEF DropLocal
    <2> QED  BY <1>2, <2>3, <2>4, <2>5, NextParts DEF DropLocal, storeVars
  <1>3. CASE Publish(p)
    <2>1. FramesTyped' /\ AnswersTyped'
      BY <1>3, <1>c, <1>r DEF Publish
    <2>2. BusTyped'
      <3> DEFINE e == IF q.op = "InvalidateTag"
                        THEN [kind |-> "tag", name |-> q.key]
                        ELSE [kind |-> "key", name |-> PK[q.key]]
      <3>1. e \in [kind : {"tag"}, name : GenKey]
                    \cup [kind : {"key"}, name : PKey]
        BY <1>3, KeyInPKey DEF Publish, KeyOK
      <3>2. bus' = bus \/ bus' = [r \in Replica |-> bus[r] \cup {e}]
        BY <1>3 DEF Publish
      <3> QED  BY <3>1, <3>2, TypeParts DEF BusTyped
    <2> QED  BY <1>3, <2>1, <2>2, NextParts DEF Publish
  <1>4. CASE SetGens(p)
    <2>1. q.rep \in Replica /\ q.key \in Key /\ Auth(q.rep) \in Stores
      BY <1>4 DEF KeyOK, SetGens, Auth, Stores
    <2>2. CASE Return(p, NoEntry) /\ UNCHANGED <<ctr, draws>>
      BY <1>4, <2>2, <1>c, <1>r, NextParts DEF SetGens, storeVars
    <2> DEFINE gs == GensOf(Auth(q.rep), TagsOf[q.key])
               pc == IF HasL2 THEN "setL2" ELSE "setL1"
               f == [q EXCEPT !.pc = pc, !.res.gens = gs]
    <2>3. CASE Counters(Auth(q.rep), TagsOf[q.key]) /\ Move(p, f)
      <3>1. StoresTyped' /\ gs \in Seq(Generation)
        BY <1>4, <2>1, <2>3, CountersTyped DEF SetGens
      <3> DEFINE e == [q.res EXCEPT !.gens = gs]
      <3>2. e \in EntryType
        <4> HIDE DEF gs
        <4> QED  BY <3>1 DEF EntryType
      <3>3. f = [q EXCEPT !.pc = pc, !.res = e]
        <4> HIDE DEF gs, pc
        <4> QED  BY DEF FrameType
      <3>4. f \in FrameType(ts) /\ KeyOK(f)
        <4>1. pc \in {"setL2", "setL1"}
          OBVIOUS
        <4>2. [q EXCEPT !.pc = pc, !.res = e] \in FrameType(ts)
          <5> HIDE DEF e, pc
          <5> QED  BY <3>2, <4>1 DEF FrameType
        <4>3. KeyOK([q EXCEPT !.pc = pc, !.res = e])
          <5> HIDE DEF e, pc
          <5> QED  BY <2>1, <4>1 DEF KeyOK, FrameType, Reading
        <4> QED  BY <3>3, <4>2, <4>3
      <3>5. FramesTyped' /\ answers' = answers
        BY <2>3, <3>4, <1>m DEF Framed
      <3> QED  BY <1>4, <3>1, <3>5, NextParts DEF SetGens
    <2> QED  BY <1>4, <2>2, <2>3 DEF SetGens
  <1>5. CASE SetL2(p)
    <2>1. q.rep \in Replica /\ q.key \in Key /\ L2 \in Stores
      BY <1>5 DEF KeyOK, SetL2, Stores
    <2>2. StoresTyped'
      BY <1>5, <2>1, StoreTyped, KeyInPKey DEF SetL2
    <2>3. KeyOK([q EXCEPT !.pc = "setL1"])
      BY <1>5, <2>1 DEF KeyOK, FrameType, Reading
    <2>4. FramesTyped' /\ (answers' = answers \/ AnswersTyped')
      BY <1>5, <2>3, <1>pc, <1>m, <1>r, <1>c DEF SetL2
    <2> QED  BY <1>5, <2>2, <2>4, NextParts DEF SetL2
  <1>6. CASE SetL1(p)
    <2>1. q.rep \in Stores /\ q.key \in Key
      BY <1>6 DEF KeyOK, SetL1, Stores
    <2>2. StoresTyped'
      BY <1>6, <2>1, StoreTyped, KeyInPKey DEF SetL1
    <2>3. FramesTyped' /\ AnswersTyped'
      BY <1>6, <1>r, <1>c DEF SetL1
    <2> QED  BY <1>6, <2>2, <2>3, NextParts DEF SetL1
  <1>7. CASE DeleteL1(p) \/ DeleteL2(p)
    <2>1. q.rep \in Stores /\ L2 \in Stores /\ q.key \in Key /\ q.op = "Delete"
      BY <1>7 DEF KeyOK, DeleteL1, DeleteL2, Stores
    <2>2. PICK s \in Stores, pc \in {"delL2", "publish"} : DeleteAt(p, s, pc)
      BY <1>7, <2>1 DEF DeleteL1, DeleteL2
    <2>3. KeyOK([q EXCEPT !.pc = pc])
      BY <1>7, <2>1 DEF KeyOK, FrameType, Reading, DeleteL1, DeleteL2
    <2>4. FramesTyped' /\ answers' = answers
      BY <2>2, <2>3, <1>pc, <1>m DEF DeleteAt
    <2>5. StoresTyped'
      BY <1>c, <2>1, <2>2, StoreTyped, KeyInPKey DEF DeleteAt
    <2> QED  BY <2>2, <2>4, <2>5, NextParts DEF DeleteAt
  <1> QED  BY <1>1, <1>2, <1>3, <1>4, <1>5, <1>6, <1>7 DEF WriteStep

LEMMA LoadTyped ==
  ASSUME TypeInv, scenario' = scenario, NEW c \in Load,
         LoadStep(c) \/ Deadline(c)
  PROVE  TypeInv'
  <1> DEFINE l == load[c]
  <1>1. l \in LoadType /\ LoadKeyOK(l) /\ load \in [Load -> LoadType]
    BY TypeParts DEF LoadsTyped
  <1>l. ASSUME NEW m \in LoadType, LoadKeyOK(m), load' = [load EXCEPT ![c] = m]
        PROVE  LoadsTyped'
    BY <1>l, TypeParts, SameTypes DEF LoadsTyped
  <1>st. ASSUME NEW st \in {"writeL2", "writeL1", "done"}, Stage(c, st),
                l.stage \notin {"unborn", "gone"}
         PROVE  LoadsTyped'
    <2>1. /\ [l EXCEPT !.stage = st] \in LoadType
          /\ LoadKeyOK([l EXCEPT !.stage = st])
      BY <1>1, <1>st DEF LoadType, LoadKeyOK
    <2> QED  BY <2>1, <1>l, <1>st, <1>1 DEF Stage
  <1>2. CASE RunLoader(c)
    <2>1. ASSUME NEW st \in {"writeL2", "writeL1", "done"},
                 load' = [load EXCEPT ![c].stage = st,
                            ![c].res = [key |-> l.key, ver |-> src[l.key],
                                        gens |-> l.gens, set |-> FALSE]]
          PROVE  LoadsTyped'
      <3> DEFINE e == [key |-> l.key, ver |-> src[l.key], gens |-> l.gens,
                       set |-> FALSE]
                 m == [l EXCEPT !.stage = st, !.res = e]
      <3>1. l.key \in Key
        BY <1>1, <1>2 DEF LoadKeyOK, RunLoader
      <3>2. e \in EntryType
        BY <1>1, <3>1, TypeParts DEF EntryType, LoadType
      <3>3. m \in LoadType
        <4> HIDE DEF e
        <4> QED  BY <1>1, <3>2 DEF LoadType
      <3>4. LoadKeyOK(m)
        BY <1>1, <1>2, <3>1 DEF LoadKeyOK, LoadType, RunLoader
      <3>5. load' = [load EXCEPT ![c] = m]
        BY <1>1, <2>1
      <3> QED  BY <3>3, <3>4, <3>5, <1>l
    <2>2. LoadsTyped'
      <3>1. AfterLoad(l.gens) \in {"writeL2", "writeL1", "done"}
        BY DEF AfterLoad
      <3> QED  BY <1>2, <1>st, <2>1, <3>1 DEF RunLoader
    <2> QED  BY <1>2, <2>2, NextParts DEF RunLoader, storeVars, ghosts
  <1>3. CASE WriteL2(c)
    <2>1. L2 \in Stores /\ l.key \in Key /\ l.res \in EntryType
      BY <1>1, <1>3 DEF Stores, LoadKeyOK, WriteL2, LoadType
    <2>2. StoresTyped'
      BY <1>3, <2>1, KeyInPKey, StoreTyped DEF WriteL2
    <2> QED  BY <1>3, <1>st, <2>2, NextParts DEF WriteL2, ghosts
  <1>4. CASE WriteL1(c)
    <2>1. l.rep \in Stores /\ l.key \in Key /\ l.res \in EntryType
      BY <1>1, <1>4 DEF Stores, LoadKeyOK, WriteL1, LoadType
    <2>2. StoresTyped'
      BY <1>4, <2>1, KeyInPKey, StoreTyped DEF WriteL1
    <2> QED  BY <1>4, <1>st, <2>2, NextParts DEF WriteL1, ghosts
  <1>5. CASE Forget(c)
    <2> DEFINE m == [NoLoad EXCEPT !.stage = "gone", !.res = l.res]
    <2>1. m \in LoadType
      BY <1>1, TypeParts, Constants DEF LoadType
    <2>2. LoadKeyOK(m)
      BY DEF LoadKeyOK, NoLoad
    <2> QED  BY <1>5, <1>l, <2>1, <2>2, NextParts DEF Forget, storeVars, ghosts
  <1>6. CASE Deadline(c)
    <2>1. /\ [l EXCEPT !.expired = TRUE] \in LoadType
          /\ LoadKeyOK([l EXCEPT !.expired = TRUE])
      BY <1>1 DEF LoadType, LoadKeyOK
    <2>2. LoadsTyped'
      BY <1>1, <1>6, <1>l, <2>1 DEF Deadline
    <2> QED  BY <1>6, <2>2, NextParts DEF Deadline
  <1> QED  BY <1>2, <1>3, <1>4, <1>5, <1>6 DEF LoadStep

LEMMA EventTyped ==
  ASSUME TypeInv, scenario' = scenario, NEW r \in Replica,
         \/ \E t \in GenKey : OnTagEvent(r, t)
         \/ \E pk \in PKey : OnKeyEvent(r, pk)
  PROVE  TypeInv'
  <1>c. NoEntry \in EntryType /\ NoGen \in Generation
    BY TypeParts, Constants, TaggedAssumption
       DEF TaggedAssumption, NoGeneration, Generation
  <1>s. r \in Stores /\ Auth(r) \in Stores
    BY DEF Stores, Auth
  <1>b. ASSUME NEW e, bus' = [bus EXCEPT ![r] = @ \ {e}]
        PROVE  BusTyped'
    <2>1. bus[r] \ {e} \subseteq bus[r]
      OBVIOUS
    <2>2. bus \in [Replica -> SUBSET ([kind : {"tag"}, name : GenKey]
                                    \cup [kind : {"key"}, name : PKey])]
      BY TypeParts DEF BusTyped
    <2> QED  BY <1>b, <2>1, <2>2 DEF BusTyped
  <1>1. ASSUME NEW t \in GenKey, OnTagEvent(r, t)
        PROVE  TypeInv'
    <2>1. BusTyped' /\ proc' = proc /\ answers' = answers
      BY <1>1, <1>b DEF OnTagEvent
    <2>2. CASE HasGens
      <3>0. /\ gc' = [gc EXCEPT ![r] = drop(@, t)]
            /\ floor' = [floor EXCEPT ![r][t] = bumped[Auth(r)][t]]
            /\ UNCHANGED <<src, storeVars, load, begun, bumped>>
        BY <1>1, <2>2 DEF OnTagEvent, RaiseFloor, storeVars, HasGens
      <3>1. gc' \in [Replica -> CopyType]
        <4>1. drop(gc[r], t) \in CopyType
          BY <1>c, TypeParts, DropTyped
        <4> QED  BY <3>0, <4>1, TypeParts
      <3>2. GhostsTyped'
        <4>1. bumped[Auth(r)][t] \in [Key -> Version]
          BY <1>s, TypeParts DEF GhostsTyped
        <4> QED  BY <3>0, <4>1, TypeParts, SameTypes DEF GhostsTyped
      <3> QED  BY <2>1, <3>0, <3>1, <3>2, NextParts
    <2>3. CASE ~HasGens /\ scenario.level = "L1"
      <3>1. StoresTyped' /\ GhostsTyped'
        <4>1. CASE BumpCounter(r, t) /\ floor' = [floor EXCEPT ![r][t] = src]
          <5>1. /\ StoresTyped'
                /\ bumped' \in [Stores -> [GenKey -> [Key -> Version]]]
            BY <1>1, <1>s, <4>1, BumpTyped DEF OnTagEvent
          <5>2. floor' \in [Replica -> [GenKey -> [Key -> Version]]]
            BY <4>1, TypeParts DEF GhostsTyped
          <5> QED  BY <5>1, <5>2, SameTypes DEF GhostsTyped
        <4>2. CASE UNCHANGED <<ctr, draws, ghosts>>
          BY <1>1, <4>2, TypeParts, SameTypes
             DEF OnTagEvent, StoresTyped, GhostsTyped, ghosts
        <4> QED  BY <1>1, <2>3, <4>1, <4>2 DEF OnTagEvent
      <3> QED  BY <1>1, <2>1, <2>3, <3>1, NextParts DEF OnTagEvent
    <2>4. CASE ~HasGens /\ scenario.level # "L1"
      BY <1>1, <2>1, <2>4, NextParts DEF OnTagEvent, storeVars
    <2> QED  BY <2>2, <2>3, <2>4
  <1>2. ASSUME NEW pk \in PKey, OnKeyEvent(r, pk)
        PROVE  TypeInv'
    <2>1. StoresTyped'
      <3>1. CASE HasL1
        BY <1>2, <1>c, <1>s, <3>1, StoreTyped DEF OnKeyEvent
      <3>2. CASE ~HasL1
        BY <1>2, <3>2, TypeParts, SameTypes DEF OnKeyEvent, StoresTyped
      <3> QED  BY <3>1, <3>2
    <2>2. BusTyped'
      BY <1>2, <1>b DEF OnKeyEvent
    <2> QED  BY <1>2, <2>1, <2>2, NextParts DEF OnKeyEvent
  <1> QED  BY <1>1, <1>2

LEMMA StepTyped == TypeInv /\ [Next]_vars => TypeInv'
  <1> SUFFICES ASSUME TypeInv, Step, scenario' = scenario
               PROVE  TypeInv'
    <2>1. CASE UNCHANGED vars
      BY <2>1, NextParts DEF vars, storeVars, ghosts
    <2> QED  BY <2>1 DEF Next
  <1>k. /\ scenario.keys \subseteq Key
        /\ scenario.maxVersion \in Nat /\ scenario.maxEvictions \in Nat
    BY TypeParts, ScenarioFields
  <1>n. NoEntry \in EntryType /\ NoMin \in [GenKey -> Version]
    BY TypeParts, Constants
  <1>g. NoGen \in Generation
    BY TaggedAssumption DEF TaggedAssumption, NoGeneration, Generation
  <1>1. ASSUME NEW k \in scenario.keys, Write(k)
        PROVE  TypeInv'
    <2>1. src' \in [Key -> Version]
      BY <1>1, <1>k, TypeParts DEF Write, Version
    <2> QED  BY <1>1, <2>1, NextParts DEF Write
  <1>2. ASSUME NEW s \in Stores, NEW pk \in PKey, EvictEntry(s, pk)
        PROVE  TypeInv'
    <2>1. StoresTyped'
      BY <1>2, <1>k, <1>n, TypeParts, SameTypes DEF EvictEntry, StoresTyped
    <2> QED  BY <1>2, <2>1, NextParts DEF EvictEntry
  <1>3. ASSUME NEW s \in Stores, NEW t \in GenKey, EvictCounter(s, t)
        PROVE  TypeInv'
    <2>1. StoresTyped'
      BY <1>3, <1>k, <1>g, TypeParts, SameTypes DEF EvictCounter, StoresTyped
    <2> QED  BY <1>3, <2>1, NextParts DEF EvictCounter
  <1>4. ASSUME NEW p \in Proc, NEW r \in Replica, NEW k \in scenario.keys,
               NEW op \in {"Get", "GetOrLoad"}, BeginRead(p, op, r, k)
        PROVE  TypeInv'
    <2> DEFINE m == [t \in GenKey |-> IF t \in Tags(k) THEN floor[r][t][k]
                                                       ELSE 0]
    <2>1. m \in [GenKey -> Version]
      BY <1>k, TypeParts DEF GhostsTyped, Version
    <2> HIDE DEF m
    <2> QED  BY <1>4, <1>k, <1>n, <2>1, BeginTyped DEF BeginRead, OpName, m
  <1>5. ASSUME NEW p \in Proc, NEW r \in Replica, NEW k \in scenario.keys,
               BeginSet(p, r, k)
        PROVE  TypeInv'
    <2> DEFINE e == [key |-> k, ver |-> src[k], gens |-> <<>>, set |-> TRUE]
    <2>1. e \in EntryType
      BY <1>k, TypeParts, Constants DEF EntryType
    <2> HIDE DEF e
    <2> QED  BY <1>5, <1>k, <1>n, <2>1, BeginTyped DEF BeginSet, OpName, e
  <1>6. ASSUME NEW p \in Proc, NEW r \in Replica, NEW k \in scenario.keys,
               BeginDelete(p, r, k)
        PROVE  TypeInv'
    BY <1>6, <1>k, <1>n, BeginTyped DEF BeginDelete, OpName
  <1>7. ASSUME NEW p \in Proc, NEW r \in Replica,
               NEW k \in scenario.keys, NEW t \in Tags(k),
               BeginInvalidate(p, r, t)
        PROVE  TypeInv'
    <2>1. t \in GenKey
      BY <1>k, TagsOfSeq
    <2> QED  BY <1>7, <1>n, <2>1, BeginTyped DEF BeginInvalidate, OpName
  <1>8. ASSUME NEW p \in Proc, ReadStep(p) \/ WriteStep(p)
        PROVE  TypeInv'
    BY <1>8, ReadTyped, WriteTyped
  <1>9. ASSUME NEW c \in Load, LoadStep(c) \/ Deadline(c)
        PROVE  TypeInv'
    BY <1>9, LoadTyped
  <1>10. ASSUME NEW r \in Replica,
                \/ \E t \in GenKey : OnTagEvent(r, t)
                \/ \E pk \in PKey : OnKeyEvent(r, pk)
         PROVE  TypeInv'
    BY <1>10, EventTyped
  <1> QED
    BY <1>1, <1>2, <1>3, <1>4, <1>5, <1>6, <1>7, <1>8, <1>9, <1>10 DEF Step

(* Types are kept: every value an operation, a load or an event carries    *)
(* through the Cache is one the code could put there.                      *)
THEOREM TypesHold == Spec => []TypeInv
  BY InitTyped, StepTyped, PTL DEF Spec

THEOREM TypeCorrect == Spec => []TypeOK
  BY TypesHold, PTL DEF TypeInv

-----------------------------------------------------------------------------
(* Generations name tags, and keys.                                        *)

LEMMA Versions ==
  ASSUME TypeInv
  PROVE  /\ Version \subseteq Nat
         /\ \A k \in Key : src[k] \in Nat
         /\ \A s \in Stores, t \in GenKey, k \in Key : bumped[s][t][k] \in Nat
         /\ \A r \in Replica, t \in GenKey, k \in Key : floor[r][t][k] \in Nat
         /\ \A e \in EntryType : e.ver \in Nat
  BY TypeParts DEF Version, GhostsTyped, EntryType

(* The tags of a key are told by its generations.                          *)
LEMMA SameKey ==
  ASSUME NEW h, NEW gens, NEW j \in Key, NEW k \in Key,
         GensFor(h, j, gens), GensFor(h, k, gens), PK[j] = PK[k]
  PROVE  j = k
  <1>1. Len(TagsOf[j]) = Len(TagsOf[k])
    BY DEF GensFor
  <1>2. \A i \in 1..Len(TagsOf[j]) : TagsOf[j][i] = TagsOf[k][i]
    BY <1>1, TagsOfSeq DEF GensFor, Minted
  <1>3. TagsOf[j] = TagsOf[k]
    BY <1>1, <1>2, TagsOfSeq
  <1> QED  BY <1>3, TaggedAssumption DEF TaggedAssumption

(* Generations that were read are not those of a read that failed.         *)
LEMMA NotUnread ==
  ASSUME TypeInv, NEW h, HistoryOK(h), NEW k \in Key, NEW gens,
         GensFor(h, k, gens)
  PROVE  gens # Unread
  <1>1. NoGen \notin DOMAIN h
    BY TypeParts, TaggedAssumption
       DEF HistoryOK, TaggedAssumption, NoGeneration, StoresTyped
  <1> SUFFICES ASSUME gens = Unread PROVE FALSE
    OBVIOUS
  <1>2. Len(gens) = 1 /\ gens[1] = NoGen
    BY DEF Unread
  <1>3. 1 \in DOMAIN TagsOf[k]
    BY <1>2, TagsOfSeq DEF GensFor
  <1> QED  BY <1>1, <1>2, <1>3 DEF GensFor, Minted

(* A flight is of one key, and of one reading of its generations.          *)
LEMMA SameFlight ==
  ASSUME TypeInv, NEW h, HistoryOK(h), NEW j \in Key, NEW k \in Key,
         NEW a, NEW b,
         a = Unread \/ GensFor(h, j, a), b = Unread \/ GensFor(h, k, b),
         flightKey(j, a) = flightKey(k, b)
  PROVE  j = k /\ a = b
  <1>1. CASE a = Unread /\ b = Unread
    <2>1. PK[j] = PK[k] /\ TagsOf[j] = TagsOf[k]
      BY <1>1 DEF flightKey
    <2> QED  BY <1>1, <2>1, TaggedAssumption DEF TaggedAssumption
  <1>2. CASE a # Unread /\ b # Unread
    <2>1. PK[j] = PK[k] /\ a = b
      BY <1>2 DEF flightKey
    <2> QED  BY <1>2, <2>1, SameKey
  <1>3. CASE (a = Unread) # (b = Unread)
    BY <1>3 DEF flightKey
  <1> QED  BY <1>1, <1>2, <1>3

(* What an entry with a read's generations is to that read.                *)
LEMMA Serves ==
  ASSUME TypeInv, NEW h, HistoryOK(h), NEW k \in Key, NEW gens, NEW min,
         GensFor(h, k, gens), NEW e \in EntryType, e # NoEntry,
         EntryAt(h, PK[k], e), e.gens = gens,
         \A i \in DOMAIN TagsOf[k] :
           min[TagsOf[k][i]] <= h[gens[i]].src[k],
         \A t \in GenKey : min[t] \in Nat
  PROVE  /\ e.key = k
         /\ e.set \/ \A t \in Tags(k) : min[t] <= e.ver
  <1>1. e.key = k
    BY SameKey DEF EntryAt, EntryOK
  <1>2. ASSUME ~e.set, NEW t \in Tags(k)
        PROVE  min[t] <= e.ver
    <2>1. PICK i \in DOMAIN TagsOf[k] : TagsOf[k][i] = t
      BY DEF Tags
    <2>2. h[gens[i]].src[k] <= e.ver
      BY <1>1, <1>2 DEF EntryAt, EntryOK, Reaches
    <2>3. h[gens[i]].src[k] \in Nat
      BY DEF HistoryOK, GensFor, Minted
    <2>4. min[t] \in Nat /\ e.ver \in Nat
      BY TagsOfSeq, Versions
    <2> QED  BY <2>1, <2>2, <2>3, <2>4
  <1> QED  BY <1>1, <1>2

(* A return of such an entry is as it should be.                           *)
LEMMA AnswerOK ==
  ASSUME TypeInv, AnswersOK, NEW p \in Proc, NEW e \in EntryType, Return(p, e),
         e = NoEntry \/
           /\ e.key = proc[p].key
           /\ \/ proc[p].blind \/ e.set
              \/ \A t \in GenKey : proc[p].min[t] <= e.ver
  PROVE  AnswersOK'
  <1>1. CASE e = NoEntry
    BY <1>1 DEF Return, AnswersOK
  <1>2. CASE e # NoEntry
    <2> DEFINE recent == e.set \/ \A t \in GenKey : e.ver >= proc[p].min[t]
    <2>1. \A t \in GenKey : proc[p].min[t] \in Nat /\ e.ver \in Nat
      BY FrameFields, Versions
    <2>2. proc[p].blind \/ recent
      BY <1>2, <2>1
    <2> DEFINE own == e.key = proc[p].key
               new == [own |-> own, blind |-> proc[p].blind, recent |-> recent]
    <2>3. answers' = answers \cup {new}
      BY <1>2 DEF Return
    <2>4. own
      BY <1>2
    <2>5. new.own /\ (new.blind \/ new.recent)
      <3> HIDE DEF own, recent
      <3> QED  BY <2>2, <2>4
    <2> HIDE DEF new
    <2> QED  BY <2>3, <2>5 DEF AnswersOK
  <1> QED  BY <1>1, <1>2

-----------------------------------------------------------------------------
(* What did not move stays as it should be.                                *)

LEMMA ExtendsKeeps ==
  ASSUME NEW h, NEW h2, Extends(h, h2)
  PROVE  /\ \A k \in Key : \A gens : GensFor(h, k, gens) =>
              /\ GensFor(h2, k, gens)
              /\ \A i \in DOMAIN TagsOf[k] : h2[gens[i]] = h[gens[i]]
         /\ \A e : EntryOK(h, e) => EntryOK(h2, e)
         /\ \A pk, e : EntryAt(h, pk, e) => EntryAt(h2, pk, e)
         /\ \A l : LoadKeyOK(l) /\ LoadOK(h, l) => LoadOK(h2, l)
  <1>1. ASSUME NEW k \in Key, NEW gens, GensFor(h, k, gens)
        PROVE  /\ GensFor(h2, k, gens)
               /\ \A i \in DOMAIN TagsOf[k] : h2[gens[i]] = h[gens[i]]
    BY <1>1 DEF GensFor, Minted, Extends
  <1>2. ASSUME NEW e, EntryOK(h, e)
        PROVE  EntryOK(h2, e)
    BY <1>1, <1>2 DEF EntryOK, Reaches
  <1>3. ASSUME NEW l, LoadKeyOK(l), LoadOK(h, l)
        PROVE  LoadOK(h2, l)
    BY <1>1, <1>2, <1>3 DEF LoadOK, LoadKeyOK
  <1> QED  BY <1>1, <1>2, <1>3 DEF EntryAt

LEMMA SinceStays ==
  ASSUME NEW g \in CopyType, NEW g2 \in CopyType, CopyGrows(g, g2),
         NEW ts \in SUBSET GenKey, NEW since,
         since.clears \in Nat, \A t \in ts : since.drops[t] \in Nat,
         Behind(since, g, ts)
  PROVE  /\ Behind(since, g2, ts)
         /\ \A t \in ts : Matches(since, g2, t) =>
              Matches(since, g, t) /\ ~Dropped(g, g2, t)
  <1>1. /\ g.clears \in Nat /\ g2.clears \in Nat
        /\ \A t \in GenKey : g.drops[t] \in Nat /\ g2.drops[t] \in Nat
    BY DEF CopyType
  <1>2. Behind(since, g2, ts)
    BY <1>1 DEF CopyGrows, Behind
  <1>3. ASSUME NEW t \in ts, Matches(since, g2, t)
        PROVE  Matches(since, g, t) /\ ~Dropped(g, g2, t)
    BY <1>1, <1>3 DEF CopyGrows, Behind, Matches, Dropped
  <1> QED  BY <1>2, <1>3

LEMMA FrameStays ==
  ASSUME TypeInv, TypeInv', scenario' = scenario,
         NEW h, NEW h2, Grows(h, h2), HistoryOK(h),
         NEW p \in Proc, proc'[p] = proc[p], FrameOK(h, proc[p])
  PROVE  FrameOK(h2, proc[p])'
  <1> DEFINE q == proc[p]
  <1>k. KeyOK(q) /\ \A t \in GenKey : q.min[t] \in Nat
    BY FrameFields, Versions
  <1>r. q.pc \in Reading => q.key \in Key /\ q.rep \in Replica
    BY <1>k DEF KeyOK, Reading
  <1>s. /\ \A k \in Key : src[k] \in Nat /\ src'[k] \in Nat
        /\ \A r \in Replica, t \in GenKey, k \in Key :
             floor[r][t][k] \in Nat /\ floor'[r][t][k] \in Nat
        /\ gc \in [Replica -> CopyType] /\ gc' \in [Replica -> CopyType]
    BY Versions, TypeParts DEF TypeInv, TypeOK, Version, CopyType
  <1>1. MinOK(h2, q)'
    <2>1. q.pc \in Reading =>
         \A t \in GenKey : IF t \in Tags(q.key) THEN q.min[t] <= src'[q.key]
                                                 ELSE q.min[t] = 0
      BY <1>k, <1>r, <1>s DEF FrameOK, MinOK, Grows, SourceGrows
    <2>2. q.pc \in BeforeFetch =>
         /\ ~q.blind /\ q.gens = Unread
         /\ \A t \in Tags(q.key) : q.min[t] <= floor'[q.rep][t][q.key]
      <3>1. q.pc \in BeforeFetch => Tags(q.key) \in SUBSET GenKey
        BY <1>r, TagsOfSeq DEF BeforeFetch, Reading
      <3> QED
        BY <1>k, <1>r, <1>s, <3>1
           DEF FrameOK, MinOK, Grows, FloorsGrow, BeforeFetch, Reading
    <2>3. q.pc \in {"decide", "backfill", "flight"} =>
         IF q.blind
           THEN q.gens = Unread
           ELSE /\ GensFor(h2, q.key, q.gens)
                /\ \A i \in DOMAIN TagsOf[q.key] :
                     q.min[TagsOf[q.key][i]] <= h2[q.gens[i]].src[q.key]
      BY <1>r, ExtendsKeeps DEF FrameOK, MinOK, Grows, Reading
    <2> QED  BY <2>1, <2>2, <2>3 DEF FrameOK, MinOK
  <1>2. HoldsOK(h2, q)'
    BY ExtendsKeeps DEF FrameOK, HoldsOK, Grows
  <1>3. SinceOK(h2, q)'
    <2> SUFFICES ASSUME HasGens, q.pc \in {"fetch", "decide"}
                 PROVE  SinceOK(h2, q)'
      BY DEF SinceOK, HasGens
    <2> DEFINE g == gc[q.rep]
               g2 == gc'[q.rep]
    <2>1. /\ q.key \in Key /\ q.rep \in Replica
          /\ Tags(q.key) \in SUBSET GenKey
          /\ Tags(q.key) \subseteq DOMAIN q.since.drops
      BY <1>k, <1>r, TagsOfSeq DEF KeyOK, Reading
    <2>2. q.since.clears \in Nat /\ \A t \in Tags(q.key) : q.since.drops[t] \in Nat
      BY <2>1, FrameFields DEF FrameType
    <2>3. Behind(q.since, g, Tags(q.key)) /\ CopyGrows(g, g2)
      BY <2>1 DEF FrameOK, SinceOK, Grows, CopiesGrow
    <2>4. /\ Behind(q.since, g2, Tags(q.key))
          /\ \A t \in Tags(q.key) : Matches(q.since, g2, t) =>
               Matches(q.since, g, t) /\ ~Dropped(g, g2, t)
      BY <1>s, <2>1, <2>2, <2>3, SinceStays
    <2>5. ASSUME q.pc = "decide", NEW i \in DOMAIN TagsOf[q.key],
                 Matches(q.since, g2, TagsOf[q.key][i]), NEW k \in Key
          PROVE  floor'[q.rep][TagsOf[q.key][i]][k] <= h2[q.gens[i]].src[k]
      <3> DEFINE t == TagsOf[q.key][i]
      <3>1. t \in Tags(q.key) /\ t \in GenKey
        BY <2>1, TagsOfSeq
      <3>2. Matches(q.since, g, t) /\ floor'[q.rep][t] = floor[q.rep][t]
        BY <2>1, <2>4, <2>5, <3>1 DEF Grows, CopiesGrow
      <3>3. h2[q.gens[i]] = h[q.gens[i]]
        <4>1. GensFor(h, q.key, q.gens)
          BY <2>5 DEF FrameOK, MinOK
        <4> QED  BY <2>1, <4>1, ExtendsKeeps DEF Grows
      <3>4. floor[q.rep][t][k] <= h[q.gens[i]].src[k]
        BY <2>5, <3>2 DEF FrameOK, SinceOK
      <3> QED  BY <3>2, <3>3, <3>4
    <2> QED  BY <2>4, <2>5 DEF SinceOK
  <1>4. WaitOK(q)'
    <2> SUFFICES ASSUME q.pc = "wait"
                 PROVE  WaitOK(q)'
      BY DEF WaitOK
    <2>1. q.load \in Load /\ q.key \in Key /\ Tags(q.key) \in SUBSET GenKey
      BY <1>k, <1>r, TagsOfSeq DEF KeyOK, Reading
    <2>2. LoadGrows(load[q.load], load'[q.load], src)
      BY <2>1 DEF Grows, LoadsGrow
    <2>3. \A t \in Tags(q.key) : q.min[t] <= src[q.key]
      BY <2>1 DEF FrameOK, MinOK, Reading
    <2> QED  BY <2>1, <2>2, <2>3 DEF FrameOK, WaitOK, LoadGrows
  <1> QED  BY <1>1, <1>2, <1>3, <1>4 DEF FrameOK

-----------------------------------------------------------------------------
(* The invariant after a step, from what the step changed.                 *)

LEMMA InvNext ==
  ASSUME TypeInv, TypeInv', scenario' = scenario, NEW h, NEW h2,
         Inv(h), Grows(h, h2),
         HistoryOK(h2)', CountersOK(h2)', FloorsOK', CopiesOK(h2)',
         AnswersOK', val' = val \/ StoresOK(h2)',
         \A p \in Proc : proc'[p] = proc[p] \/ FrameOK(h2, proc[p])',
         \A c \in Load : load'[c] = load[c] \/ LoadOK(h2, load[c])'
  PROVE  Inv(h2)'
  <1>1. StoresOK(h2)'
    BY ExtendsKeeps DEF Inv, StoresOK, Grows
  <1>2. \A p \in Proc : FrameOK(h2, proc[p])'
    BY FrameStays DEF Inv
  <1>3. ASSUME NEW c \in Load
        PROVE  LoadOK(h2, load[c])'
    <2>1. LoadKeyOK(load[c]) /\ LoadOK(h, load[c])
      BY DEF Inv, TypeInv
    <2>2. LoadOK(h2, load[c])
      BY <2>1, ExtendsKeeps DEF Grows
    <2> QED  BY <2>2 DEF LoadOK
  <1>4. Load' = Load
    BY SameTypes
  <1> QED  BY <1>1, <1>2, <1>3, <1>4 DEF Inv

(* A step that leaves generations and sources alone.                       *)
LEMMA QuietStep ==
  ASSUME TypeInv, TypeInv', scenario' = scenario, NEW h, Inv(h),
         UNCHANGED <<src, ctr, draws, gc, bumped, floor>>, LoadsGrow,
         AnswersOK', val' = val \/ StoresOK(h)',
         \A p \in Proc : proc'[p] = proc[p] \/ FrameOK(h, proc[p])',
         \A c \in Load : load'[c] = load[c] \/ LoadOK(h, load[c])'
  PROVE  Inv(h)'
  <1>1. SourceGrows /\ FloorsGrow
    BY Versions DEF SourceGrows, FloorsGrow
  <1>2. CopiesGrow
    BY TypeParts DEF CopiesGrow, CopyGrows, CopyType
  <1>3. Grows(h, h)
    BY <1>1, <1>2 DEF Grows, Extends
  <1>4. HistoryOK(h)' /\ CountersOK(h)' /\ FloorsOK' /\ CopiesOK(h)'
    <2>1. HistoryOK(h)' /\ CountersOK(h)'
      BY DEF Inv, HistoryOK, CountersOK, CounterOK
    <2>2. FloorsOK' /\ CopiesOK(h)'
      BY DEF Inv, FloorsOK, CopiesOK, Auth, HasL2, HasGens
    <2> QED  BY <2>1, <2>2
  <1> QED  BY <1>3, <1>4, InvNext

LEMMA LoadsStay == UNCHANGED load => LoadsGrow
  BY DEF LoadsGrow, LoadGrows

(* A process goes on to f, or returns.                                     *)
LEMMA MoveStep ==
  ASSUME TypeInv, TypeInv', scenario' = scenario, NEW h, Inv(h),
         NEW p \in Proc, NEW f, Move(p, f), FrameOK(h, proc[p])',
         UNCHANGED <<src, ctr, draws, gc, load, bumped, floor>>,
         val' = val \/ StoresOK(h)'
  PROVE  Inv(h)'
  <1>1. \A o \in Proc \ {p} : proc'[o] = proc[o]
    BY TypeParts DEF Move, FramesTyped
  <1>2. AnswersOK'
    BY DEF Move, AnswersOK, Inv
  <1> QED  BY <1>1, <1>2, QuietStep, LoadsStay

LEMMA IdleOK ==
  ASSUME NEW h, NEW p, proc'[p] = Idle
  PROVE  FrameOK(h, proc[p])'
  BY DEF FrameOK, MinOK, HoldsOK, SinceOK, WaitOK, Idle, Reading, BeforeFetch

LEMMA ReturnStep ==
  ASSUME TypeInv, TypeInv', scenario' = scenario, NEW h, Inv(h),
         NEW p \in Proc, NEW e \in EntryType, Return(p, e),
         e = NoEntry \/
           /\ e.key = proc[p].key
           /\ \/ proc[p].blind \/ e.set
              \/ \A t \in GenKey : proc[p].min[t] <= e.ver,
         UNCHANGED <<src, ctr, draws, gc, load, bumped, floor>>,
         val' = val \/ StoresOK(h)'
  PROVE  Inv(h)'
  <1>1. AnswersOK'
    BY AnswerOK DEF Inv
  <1>2. \A o \in Proc \ {p} : proc'[o] = proc[o]
    BY TypeParts DEF Return, FramesTyped
  <1>3. proc'[p] = Idle
    BY TypeParts DEF Return, FramesTyped
  <1> QED  BY <1>1, <1>2, <1>3, IdleOK, QuietStep, LoadsStay

(* A read's entry, with generations that reach what the read has to.       *)
LEMMA ServesRead ==
  ASSUME TypeInv, NEW h, Inv(h), NEW p \in Proc, proc[p].pc \in Reading,
         NEW gens, GensFor(h, proc[p].key, gens),
         \A i \in DOMAIN TagsOf[proc[p].key] :
           proc[p].min[TagsOf[proc[p].key][i]] <= h[gens[i]].src[proc[p].key],
         NEW e \in EntryType, EntryAt(h, PK[proc[p].key], e),
         e # NoEntry, e.gens = gens
  PROVE  /\ e.key = proc[p].key
         /\ e.set \/ \A t \in GenKey : proc[p].min[t] <= e.ver
  <1> DEFINE k == proc[p].key
             min == proc[p].min
  <1>1. k \in Key /\ Tags(k) \in SUBSET GenKey
    BY FrameFields, TagsOfSeq DEF KeyOK, Reading
  <1>2. FrameOK(h, proc[p])
    BY DEF Inv
  <1>3. \A t \in GenKey : min[t] \in Nat /\ (t \notin Tags(k) => min[t] = 0)
    BY <1>2, FrameFields, Versions DEF FrameOK, MinOK
  <1>4. HistoryOK(h)
    BY DEF Inv
  <1>5. e.key = k /\ (e.set \/ \A t \in Tags(k) : min[t] <= e.ver)
    <2> HIDE DEF k, min
    <2>1. /\ GensFor(h, k, gens) /\ EntryAt(h, PK[k], e)
          /\ \A i \in DOMAIN TagsOf[k] :
               min[TagsOf[k][i]] <= h[gens[i]].src[k]
      BY DEF k, min
    <2> QED  BY <1>1, <1>3, <1>4, <2>1, Serves
  <1>6. e.ver \in Nat
    BY Versions
  <1>7. e.set \/ \A t \in GenKey : min[t] <= e.ver
    <2>1. ASSUME ~e.set, NEW t \in GenKey
          PROVE  min[t] <= e.ver
      BY <1>3, <1>5, <1>6, <2>1
    <2> QED  BY <2>1
  <1> QED  BY <1>5, <1>7

(* A read returns such an entry.                                           *)
LEMMA ServeStep ==
  ASSUME TypeInv, TypeInv', scenario' = scenario, NEW h, Inv(h),
         NEW p \in Proc, proc[p].pc \in Reading, NEW gens,
         GensFor(h, proc[p].key, gens),
         \A i \in DOMAIN TagsOf[proc[p].key] :
           proc[p].min[TagsOf[proc[p].key][i]] <= h[gens[i]].src[proc[p].key],
         NEW e \in EntryType, EntryAt(h, PK[proc[p].key], e),
         e # NoEntry, e.gens = gens, Return(p, e),
         UNCHANGED <<src, ctr, draws, gc, load, bumped, floor>>,
         val' = val \/ StoresOK(h)'
  PROVE  Inv(h)'
  BY ServesRead, ReturnStep

(* A store takes an entry that may stand there, or none.                   *)
LEMMA StoreOK ==
  ASSUME TypeInv, scenario' = scenario, NEW h, Inv(h), NEW s \in Stores,
         NEW pk \in PKey, NEW e, EntryAt(h, pk, e), Store(s, pk, e)
  PROVE  StoresOK(h)'
  BY TypeParts DEF Store, Inv, StoresOK, StoresTyped

LEMMA NothingOK == \A h, pk : EntryAt(h, pk, NoEntry)
  BY DEF EntryAt, EntryOK

-----------------------------------------------------------------------------
(* Reads.                                                                  *)

LEMMA BeginKeeps ==
  ASSUME TypeInv, TypeInv', scenario' = scenario, NEW h, Inv(h),
         NEW p \in Proc, NEW r \in Replica, NEW k \in Key,
         \/ \E op \in {"Get", "GetOrLoad"} : BeginRead(p, op, r, k)
         \/ BeginSet(p, r, k) \/ BeginDelete(p, r, k)
         \/ \E t \in GenKey : BeginInvalidate(p, r, t)
  PROVE  Inv(h)'
  <1> USE DEF Begin, Move
  <1>m. ASSUME NEW f, Move(p, f), FrameOK(h, proc[p])',
               UNCHANGED <<src, storeVars, gc, load, bus, ghosts>>
        PROVE  Inv(h)'
    BY <1>m, MoveStep DEF storeVars, ghosts
  <1>p. proc \in [Proc -> {proc[o] : o \in Proc}]
    BY TypeParts DEF FramesTyped
  <1>1. ASSUME NEW op \in {"Get", "GetOrLoad"}, BeginRead(p, op, r, k)
        PROVE  Inv(h)'
    <2> DEFINE m == [t \in GenKey |-> IF t \in Tags(k) THEN floor[r][t][k]
                                                       ELSE 0]
               pc == IF HasGens THEN "l1get" ELSE "fetch"
               f == [Idle EXCEPT !.op = op, !.pc = pc, !.rep = r, !.key = k,
                                 !.res = NoEntry, !.min = m]
    <2>1. proc'[p] = f
      BY <1>1, <1>p DEF BeginRead
    <2>2. /\ pc \in {"l1get", "fetch"}
          /\ pc = "fetch" => ~HasGens
      OBVIOUS
    <2>3. MinOK(h, proc[p])'
      <3>1. \A t \in Tags(k) : m[t] <= src[k] /\ m[t] <= floor[r][t][k]
        <4>1. ASSUME NEW t \in Tags(k)
              PROVE  floor[r][t][k] <= src[k] /\ floor[r][t][k] \in Nat
          <5>1. t \in GenKey /\ Auth(r) \in Stores
            BY TagsOfSeq DEF Auth, Stores
          <5>2. /\ floor[r][t][k] <= bumped[Auth(r)][t][k]
                /\ bumped[Auth(r)][t][k] <= src[k]
            BY <5>1 DEF Inv, FloorsOK
          <5> QED  BY <5>1, <5>2, Versions
        <4> QED  BY <4>1, TagsOfSeq
      <3>2. \A t \in GenKey : t \notin Tags(k) => m[t] = 0
        OBVIOUS
      <3>3. src' = src /\ floor' = floor
        BY <1>1 DEF BeginRead, ghosts
      <3> HIDE DEF m, pc
      <3> QED
        BY <2>1, <2>2, <3>1, <3>2, <3>3 DEF MinOK, Idle, Reading, BeforeFetch
    <2>4. HoldsOK(h, proc[p])' /\ SinceOK(h, proc[p])' /\ WaitOK(proc[p])'
      <3> HIDE DEF m, pc
      <3>1. HasGens' = HasGens
        BY DEF HasGens
      <3> QED
        BY <2>1, <2>2, <3>1, NothingOK
           DEF HoldsOK, SinceOK, WaitOK, Idle, Reading
    <2> QED  BY <1>1, <1>m, <2>3, <2>4 DEF BeginRead, FrameOK
  <1>2. CASE BeginSet(p, r, k)
    <2>1. /\ proc'[p].pc = "setgens" /\ proc'[p].key = k
          /\ proc'[p].res.key = k /\ proc'[p].res.set
      BY <1>2, <1>p DEF BeginSet, Idle
    <2>2. FrameOK(h, proc[p])'
      BY <2>1 DEF FrameOK, MinOK, HoldsOK, SinceOK, WaitOK, Reading, BeforeFetch
    <2> QED  BY <1>2, <1>m, <2>2 DEF BeginSet
  <1>3. CASE BeginDelete(p, r, k) \/ \E t \in GenKey : BeginInvalidate(p, r, t)
    <2>1. proc'[p].pc \in {"delL1", "delL2", "bump"}
      BY <1>3, <1>p DEF BeginDelete, BeginInvalidate, Idle
    <2>2. FrameOK(h, proc[p])'
      BY <2>1 DEF FrameOK, MinOK, HoldsOK, SinceOK, WaitOK, Reading, BeforeFetch
    <2> QED  BY <1>3, <1>m, <2>2 DEF BeginDelete, BeginInvalidate
  <1> QED  BY <1>1, <1>2, <1>3

(* The steps of a read that only look.                                     *)
LEMMA LookKeeps ==
  ASSUME TypeInv, TypeInv', scenario' = scenario, NEW h, Inv(h),
         NEW p \in Proc,
         L1Get(p) \/ Compare(p) \/ Epoch(p) \/ FetchFails(p) \/ GivesUp(p)
           \/ Backfill(p)
  PROVE  Inv(h)'
  <1> DEFINE q == proc[p]
  <1> USE DEF At, storeVars, ghosts
  <1>q. PICK ts \in SUBSET GenKey : q \in FrameType(ts)
    BY FrameFields
  <1>p. /\ proc \in [Proc -> {proc[o] : o \in Proc}]
        /\ FrameOK(h, q)
    BY TypeParts DEF FramesTyped, Inv
  <1>k. KeyOK(q)
    BY FrameFields
  <1>s. HasGens' = HasGens
    BY DEF HasGens
  <1>e. NoEntry \in EntryType
    BY TypeParts, Constants
  <1>r. ASSUME Return(p, NoEntry),
               UNCHANGED <<src, storeVars, gc, load, ghosts>>
        PROVE  Inv(h)'
    BY <1>r, <1>e, ReturnStep
  <1>1. CASE L1Get(p)
    <2>1. /\ q.rep \in Replica /\ q.key \in Key
          /\ UNCHANGED <<src, floor, gc, load>>
      BY <1>1, <1>k DEF L1Get, KeyOK, Reading
    <2>2. PICK e : /\ EntryAt(h, PK[q.key], e)
                   /\ \/ Move(p, [q EXCEPT !.pc = "compare", !.local = e])
                      \/ Move(p, [q EXCEPT !.pc = "compare"]) /\ e = q.local
      <3>1. EntryAt(h, PK[q.key], val[q.rep][PK[q.key]])
        BY <2>1, KeyInPKey DEF Inv, StoresOK, Stores
      <3>2. EntryAt(h, PK[q.key], q.local)
        BY <1>1, <1>p DEF FrameOK, HoldsOK, L1Get, Reading
      <3> QED  BY <1>1, <3>1, <3>2 DEF L1Get
    <2>3. /\ proc'[p].pc = "compare" /\ proc'[p].local = e
          /\ proc'[p].key = q.key /\ proc'[p].rep = q.rep
          /\ proc'[p].min = q.min /\ proc'[p].blind = q.blind
          /\ proc'[p].gens = q.gens
      <3>1. CASE Move(p, [q EXCEPT !.pc = "compare", !.local = e])
        BY <1>p, <1>q, <3>1 DEF Move, FrameType
      <3>2. CASE Move(p, [q EXCEPT !.pc = "compare"]) /\ e = q.local
        BY <1>p, <1>q, <3>2 DEF Move, FrameType
      <3> QED  BY <2>2, <3>1, <3>2
    <2>4. FrameOK(h, proc[p])'
      <3>1. q.pc = "l1get"
        BY <1>1 DEF L1Get
      <3>2. MinOK(h, proc[p])'
        BY <1>p, <2>1, <2>3, <3>1 DEF FrameOK, MinOK, Reading, BeforeFetch
      <3> QED
        BY <2>2, <2>3, <3>2 DEF FrameOK, HoldsOK, SinceOK, WaitOK
    <2> QED  BY <1>1, <2>2, <2>4, MoveStep DEF L1Get
  <1>2. CASE Compare(p)
    <2>1. /\ q.rep \in Replica /\ q.key \in Key
          /\ UNCHANGED <<src, floor, gc, load>>
      BY <1>2, <1>k DEF Compare, KeyOK, Reading
    <2> DEFINE tags == TagsOf[q.key]
               gens == CachedGens(q.rep, tags)
    <2>2. CASE /\ q.local # NoEntry
               /\ Fresh(gc[q.rep], Tags(q.key), 0)
               /\ q.local.gens = gens
               /\ Return(p, q.local)
      <3>1. ASSUME NEW i \in DOMAIN tags
            PROVE  /\ Minted(h, tags[i], gens[i])
                   /\ \A k \in Key : floor[q.rep][tags[i]][k] <= h[gens[i]].src[k]
        <4>1. tags[i] \in GenKey /\ gens[i] = gc[q.rep].m[tags[i]].gen
          BY <2>1, TagsOfSeq DEF CachedGens
        <4>2. gc[q.rep].m[tags[i]] # Missing
          BY <2>1, <2>2, TagsOfSeq DEF Fresh
        <4> QED  BY <2>1, <4>1, <4>2 DEF Inv, CopiesOK
      <3>2. GensFor(h, q.key, gens)
        <4>1. Len(gens) = Len(tags)
          BY <2>1, TagsOfSeq DEF CachedGens
        <4> QED  BY <3>1, <4>1 DEF GensFor
      <3>3. ASSUME NEW i \in DOMAIN tags
            PROVE  q.min[tags[i]] <= h[gens[i]].src[q.key]
        <4>1. tags[i] \in Tags(q.key) /\ tags[i] \in GenKey
          BY <2>1, TagsOfSeq
        <4>2. q.min[tags[i]] <= floor[q.rep][tags[i]][q.key]
          BY <1>2, <1>p, <4>1 DEF Compare, FrameOK, MinOK, BeforeFetch
        <4>3. h[gens[i]].src[q.key] \in Nat
          BY <2>1, <3>1 DEF Minted, Inv, HistoryOK
        <4>4. /\ floor[q.rep][tags[i]][q.key] \in Nat /\ q.min[tags[i]] \in Nat
              /\ floor[q.rep][tags[i]][q.key] <= h[gens[i]].src[q.key]
          BY <2>1, <3>1, <4>1, Versions, FrameFields
        <4> HIDE DEF tags, gens
        <4> QED  BY <4>2, <4>3, <4>4
      <3>4. EntryAt(h, PK[q.key], q.local) /\ q.local \in EntryType
        BY <1>2, <1>p, FrameFields DEF Compare, FrameOK, HoldsOK, Reading
      <3>5. q.pc \in Reading
        BY <1>2 DEF Compare, Reading
      <3> HIDE DEF gens
      <3> QED
        BY <2>1, <2>2, <3>2, <3>3, <3>4, <3>5, <1>2, ServeStep DEF Compare
    <2>3. CASE Move(p, [q EXCEPT !.pc = "epoch"])
      <3>1. /\ proc'[p].pc = "epoch" /\ proc'[p].local = q.local
            /\ proc'[p].key = q.key /\ proc'[p].rep = q.rep
            /\ proc'[p].min = q.min /\ proc'[p].blind = q.blind
            /\ proc'[p].gens = q.gens
        BY <1>p, <1>q, <2>3 DEF Move, FrameType
      <3>2. q.pc = "compare"
        BY <1>2 DEF Compare
      <3>3. MinOK(h, proc[p])'
        BY <1>p, <2>1, <3>1, <3>2 DEF FrameOK, MinOK, Reading, BeforeFetch
      <3>4. FrameOK(h, proc[p])'
        BY <1>p, <3>1, <3>2, <3>3
           DEF FrameOK, HoldsOK, SinceOK, WaitOK, Reading
      <3> QED  BY <1>2, <2>3, <3>4, MoveStep DEF Compare
    <2> QED  BY <1>2, <2>2, <2>3 DEF Compare
  <1>3. CASE Epoch(p)
    <2>1. /\ q.rep \in Replica /\ q.key \in Key /\ q.pc = "epoch"
          /\ UNCHANGED <<src, floor, gc, load>>
      BY <1>3, <1>k DEF Epoch, KeyOK, Reading
    <2>2. /\ proc'[p].pc = "fetch" /\ proc'[p].local = q.local
          /\ proc'[p].key = q.key /\ proc'[p].rep = q.rep
          /\ proc'[p].min = q.min /\ proc'[p].blind = q.blind
          /\ proc'[p].gens = q.gens
          /\ proc'[p].since = epoch(gc[q.rep], Tags(q.key))
      BY <1>3, <1>p, <1>q DEF Epoch, Move, FrameType
    <2>3. MinOK(h, proc[p])'
      BY <1>p, <2>1, <2>2 DEF FrameOK, MinOK, Reading, BeforeFetch
    <2>4. SinceOK(h, proc[p])'
      <3>1. Tags(q.key) \in SUBSET GenKey /\ gc[q.rep] \in CopyType
        BY <2>1, TagsOfSeq, TypeParts
      <3>2. Behind(epoch(gc[q.rep], Tags(q.key)), gc[q.rep], Tags(q.key))
        BY <3>1 DEF Behind, epoch, CopyType
      <3> QED  BY <2>1, <2>2, <3>2 DEF SinceOK
    <2>5. FrameOK(h, proc[p])'
      BY <1>p, <2>1, <2>2, <2>3, <2>4
         DEF FrameOK, HoldsOK, WaitOK, Reading
    <2> QED  BY <1>3, <2>5, MoveStep DEF Epoch
  <1>4. CASE FetchFails(p)
    <2>1. CASE Return(p, NoEntry)
      BY <1>4, <1>r, <2>1 DEF FetchFails
    <2> DEFINE f == [q EXCEPT !.pc = "flight", !.blind = TRUE,
                              !.local = NoEntry, !.since = NoEpoch]
    <2>2. CASE Move(p, f)
      <3>1. /\ q.pc = "fetch" /\ UNCHANGED <<src, floor, gc, load>>
        BY <1>4 DEF FetchFails
      <3>2. /\ proc'[p].pc = "flight" /\ proc'[p].local = NoEntry
            /\ proc'[p].key = q.key /\ proc'[p].min = q.min
            /\ proc'[p].blind = TRUE /\ proc'[p].gens = q.gens
        BY <1>p, <1>q, <2>2 DEF Move, FrameType
      <3>3. MinOK(h, proc[p])'
        BY <1>p, <3>1, <3>2 DEF FrameOK, MinOK, Reading, BeforeFetch
      <3>4. FrameOK(h, proc[p])'
        BY <3>2, <3>3, NothingOK DEF FrameOK, HoldsOK, SinceOK, WaitOK
      <3> QED  BY <1>4, <2>2, <3>4, MoveStep DEF FetchFails
    <2> QED  BY <1>4, <2>1, <2>2 DEF FetchFails
  <1>5. CASE GivesUp(p)
    BY <1>5, <1>r DEF GivesUp
  <1>6. CASE Backfill(p)
    <2>1. /\ q.rep \in Stores /\ q.key \in Key /\ q.pc = "backfill"
      BY <1>6, <1>k DEF Backfill, KeyOK, Reading, Stores
    <2>2. EntryAt(h, PK[q.key], q.hit) /\ q.hit \in EntryType
      BY <1>p, <2>1, FrameFields DEF FrameOK, HoldsOK
    <2>3. StoresOK(h)'
      BY <1>6, <2>1, <2>2, KeyInPKey, StoreOK DEF Backfill
    <2>4. /\ GensFor(h, q.key, q.gens)
          /\ \A i \in DOMAIN TagsOf[q.key] :
               q.min[TagsOf[q.key][i]] <= h[q.gens[i]].src[q.key]
          /\ q.hit # NoEntry /\ q.hit.gens = q.gens /\ q.pc \in Reading
      BY <1>p, <2>1 DEF FrameOK, MinOK, HoldsOK, Reading
    <2> QED  BY <1>6, <2>2, <2>3, <2>4, ServeStep DEF Backfill
  <1> QED  BY <1>1, <1>2, <1>3, <1>4, <1>5, <1>6

(* The steps of a read that go through a coalesced load.                   *)
LEMMA FlightKeeps ==
  ASSUME TypeInv, TypeInv', scenario' = scenario, NEW h, Inv(h),
         NEW p \in Proc, Join(p) \/ Lead(p) \/ Served(p)
  PROVE  Inv(h)'
  <1> DEFINE q == proc[p]
  <1> USE DEF At, storeVars, ghosts
  <1>q. PICK ts \in SUBSET GenKey : q \in FrameType(ts)
    BY FrameFields
  <1>p. /\ proc \in [Proc -> {proc[o] : o \in Proc}]
        /\ FrameOK(h, q) /\ KeyOK(q) /\ HistoryOK(h)
        /\ \A c \in Load : /\ LoadOK(h, load[c]) /\ LoadKeyOK(load[c])
                           /\ load[c] \in LoadType
    BY TypeParts, FrameFields DEF FramesTyped, LoadsTyped, Inv
  <1>g. q.pc = "flight" => /\ q.key \in Key /\ q.rep \in Replica
                           /\ q.gens = Unread \/ GensFor(h, q.key, q.gens)
    BY <1>p DEF FrameOK, MinOK, KeyOK, Reading
  (* A frame that waits, for a load of its key with nothing older than it  *)
  (* may take.                                                             *)
  <1>w. ASSUME NEW c \in Load, q.pc = "flight", UNCHANGED src,
               Move(p, [q EXCEPT !.pc = "wait", !.load = c]),
               load'[c].stage # "unborn",
               load'[c].stage # "gone" => load'[c].key = q.key,
               load'[c].res # NoEntry =>
                 /\ load'[c].res.key = q.key
                 /\ q.blind \/ \A t \in Tags(q.key) :
                      q.min[t] <= load'[c].res.ver
        PROVE  FrameOK(h, proc[p])'
    <2>1. /\ proc'[p].pc = "wait" /\ proc'[p].load = c
          /\ proc'[p].local = q.local /\ proc'[p].blind = q.blind
          /\ proc'[p].key = q.key /\ proc'[p].min = q.min
      BY <1>w, <1>p, <1>q DEF Move, FrameType
    <2>2. MinOK(h, proc[p])' /\ HoldsOK(h, proc[p])'
      BY <1>w, <1>p, <2>1 DEF FrameOK, MinOK, HoldsOK, Reading, BeforeFetch
    <2>3. SinceOK(h, proc[p])' /\ WaitOK(proc[p])'
      BY <1>w, <2>1 DEF SinceOK, WaitOK
    <2> QED  BY <2>2, <2>3 DEF FrameOK
  <1>1. CASE Join(p)
    <2>1. PICK c \in Joinable(p) :
            Move(p, [q EXCEPT !.pc = "wait", !.load = c])
      BY <1>1 DEF Join
    <2> DEFINE l == load[c]
    <2>2. /\ c \in Load /\ l.fk = flightKey(q.key, q.gens)
          /\ l.stage \notin {"unborn", "gone"} /\ q.pc = "flight"
          /\ UNCHANGED <<src, load>>
      BY <1>1, <2>1 DEF Join, Joinable
    <2>3. /\ l.key \in Key /\ l.fk = flightKey(l.key, l.gens)
          /\ l.gens = Unread \/ GensFor(h, l.key, l.gens)
          /\ l.res # NoEntry =>
               /\ l.res.key = l.key /\ l.res.gens = l.gens /\ ~l.res.set
               /\ l.gens = Unread \/ EntryOK(h, l.res)
      BY <1>p, <2>2 DEF LoadOK, LoadKeyOK
    <2>4. l.key = q.key /\ l.gens = q.gens
      <3>1. /\ q.key \in Key /\ HistoryOK(h)
            /\ q.gens = Unread \/ GensFor(h, q.key, q.gens)
            /\ flightKey(l.key, l.gens) = flightKey(q.key, q.gens)
        BY <1>g, <1>p, <2>2, <2>3
      <3> HIDE DEF q, l
      <3> QED  BY <2>3, <3>1, SameFlight
    <2>5. ASSUME l.res # NoEntry, ~q.blind, NEW t \in Tags(q.key)
          PROVE  q.min[t] <= l.res.ver
      <3>1. PICK i \in DOMAIN TagsOf[q.key] : TagsOf[q.key][i] = t
        BY DEF Tags
      <3>2. /\ GensFor(h, q.key, q.gens)
            /\ q.min[t] <= h[q.gens[i]].src[q.key]
        BY <1>p, <2>2, <2>5, <3>1 DEF FrameOK, MinOK
      <3>3. l.gens # Unread
        BY <1>g, <1>p, <2>2, <2>4, <3>2, NotUnread
      <3>4. h[q.gens[i]].src[q.key] <= l.res.ver
        BY <2>3, <2>4, <2>5, <3>3 DEF EntryOK, Reaches
      <3>5. h[q.gens[i]].src[q.key] \in Nat
        BY <1>g, <1>p, <2>2, <3>2 DEF HistoryOK, GensFor, Minted
      <3>6. q.min[t] \in Nat /\ l.res.ver \in Nat
        <4>1. l.res \in EntryType
          BY <1>p, <2>2 DEF LoadType
        <4>2. t \in GenKey
          BY <1>g, <2>2, TagsOfSeq
        <4> QED  BY <4>1, <4>2, Versions, FrameFields
      <3> HIDE DEF q, l
      <3> QED  BY <3>2, <3>4, <3>5, <3>6
    <2>6. FrameOK(h, proc[p])'
      BY <1>w, <2>1, <2>2, <2>3, <2>4, <2>5
    <2> QED  BY <1>1, <2>1, <2>6, MoveStep DEF Join
  <1>2. CASE Lead(p)
    <2>1. PICK c \in Load :
            /\ load[c] = NoLoad
            /\ load' = [load EXCEPT ![c] = [NoLoad EXCEPT !.rep = q.rep,
                 !.key = q.key, !.fk = flightKey(q.key, q.gens),
                 !.gens = q.gens, !.stage = "load"]]
            /\ Move(p, [q EXCEPT !.pc = "wait", !.load = c])
      BY <1>2 DEF Lead
    <2>2. /\ load \in [Load -> LoadType] /\ q.pc = "flight"
          /\ UNCHANGED <<src, val, ctr, draws, gc, bumped, floor>>
      BY <1>2, TypeParts DEF LoadsTyped, Lead
    <2>3. /\ load'[c].stage = "load" /\ load'[c].key = q.key
          /\ load'[c].res = NoEntry /\ load'[c].gens = q.gens
          /\ load'[c].fk = flightKey(q.key, q.gens)
          /\ \A d \in Load \ {c} : load'[d] = load[d]
      BY <2>1, <2>2 DEF NoLoad
    <2>4. FrameOK(h, proc[p])'
      BY <1>w, <2>1, <2>2, <2>3
    <2>5. LoadOK(h, load[c])'
      BY <1>g, <2>2, <2>3 DEF LoadOK
    <2>6. LoadsGrow
      BY <2>1, <2>3 DEF LoadsGrow, LoadGrows, NoLoad
    <2>7. \A o \in Proc \ {p} : proc'[o] = proc[o]
      BY <1>p, <2>1 DEF Move
    <2>8. AnswersOK'
      BY <2>1 DEF Move, Inv, AnswersOK
    <2> QED  BY <2>2, <2>3, <2>4, <2>5, <2>6, <2>7, <2>8, QuietStep
  <1>3. CASE Served(p)
    <2> DEFINE l == load[q.load]
    <2>1. /\ q.pc = "wait" /\ q.load \in Load /\ q.key \in Key
      BY <1>3, <1>p DEF Served, KeyOK, Reading
    <2>2. l.res \in EntryType /\ NoEntry \in EntryType
      BY <1>p, <2>1, TypeParts, Constants DEF LoadType
    <2>3. CASE Return(p, NoEntry)
      BY <1>3, <2>2, <2>3, ReturnStep DEF Served
    <2>4. CASE Return(p, l.res) /\ l.res # NoEntry
      <3>1. /\ l.res.key = q.key
            /\ q.blind \/ \A t \in Tags(q.key) : q.min[t] <= l.res.ver
        BY <1>p, <2>1, <2>4 DEF FrameOK, WaitOK
      <3>2. \A t \in GenKey : t \notin Tags(q.key) => q.min[t] = 0
        BY <1>p, <2>1 DEF FrameOK, MinOK, Reading
      <3>3. l.res.ver \in Nat
        BY <2>2, Versions
      <3>4. q.blind \/ \A t \in GenKey : q.min[t] <= l.res.ver
        BY <3>1, <3>2, <3>3
      <3> QED  BY <1>3, <2>2, <2>4, <3>1, <3>4, ReturnStep DEF Served
    <2> QED  BY <1>3, <2>2, <2>3, <2>4 DEF Served
  <1> QED  BY <1>1, <1>2, <1>3

-----------------------------------------------------------------------------
(* Loads.                                                                  *)

(* A load moves on, and nothing else but what it stores.                   *)
LEMMA LoadMoves ==
  ASSUME TypeInv, TypeInv', scenario' = scenario, NEW h, Inv(h),
         NEW c \in Load, NEW m, load' = [load EXCEPT ![c] = m],
         LoadGrows(load[c], m, src), LoadOK(h, m),
         UNCHANGED <<src, ctr, draws, gc, bumped, floor, proc, answers>>,
         val' = val \/ StoresOK(h)'
  PROVE  Inv(h)'
  <1>1. /\ load'[c] = m
        /\ \A d \in Load \ {c} : load'[d] = load[d]
    BY TypeParts DEF LoadsTyped
  <1>2. LoadsGrow
    BY <1>1 DEF LoadsGrow, LoadGrows
  <1>3. LoadOK(h, load[c])'
    BY <1>1 DEF LoadOK
  <1>4. AnswersOK'
    BY DEF Inv, AnswersOK
  <1> QED  BY <1>1, <1>2, <1>3, <1>4, QuietStep

LEMMA LoadKeeps ==
  ASSUME TypeInv, TypeInv', scenario' = scenario, NEW h, Inv(h),
         NEW c \in Load, LoadStep(c) \/ Deadline(c)
  PROVE  Inv(h)'
  <1> DEFINE l == load[c]
  <1> USE DEF storeVars, ghosts
  <1>l. /\ l \in LoadType /\ LoadOK(h, l) /\ LoadKeyOK(l)
        /\ load \in [Load -> LoadType] /\ HistoryOK(h)
    BY TypeParts DEF LoadsTyped, Inv
  (* A load that goes on to write has something to write.                  *)
  <1>st. ASSUME NEW st \in {"writeL1", "done"}, Stage(c, st),
                l.stage \in {"load", "writeL2", "writeL1"},
                st = "writeL1" => l.stage = "writeL2",
                UNCHANGED <<src, ctr, draws, gc, bumped, floor, proc, answers>>,
                val' = val \/ StoresOK(h)'
         PROVE  Inv(h)'
    <2> DEFINE m == [l EXCEPT !.stage = st]
    <2>1. /\ m.stage = st /\ m.key = l.key /\ m.fk = l.fk /\ m.gens = l.gens
          /\ m.res = l.res
      BY <1>l DEF LoadType
    <2>2. load' = [load EXCEPT ![c] = m]
      BY <1>st DEF Stage
    <2> HIDE DEF m
    <2>3. LoadOK(h, m)
      BY <1>l, <1>st, <2>1 DEF LoadOK
    <2>4. LoadGrows(l, m, src)
      BY <1>st, <2>1 DEF LoadGrows
    <2> QED  BY <1>st, <2>2, <2>3, <2>4, LoadMoves
  <1>1. CASE RunLoader(c)
    <2>1. CASE Stage(c, "done")
      BY <1>1, <1>st, <2>1 DEF RunLoader
    <2> DEFINE e == [key |-> l.key, ver |-> src[l.key], gens |-> l.gens,
                     set |-> FALSE]
    <2>2. ASSUME NEW st \in {AfterLoad(l.gens), "done"},
                 load' = [load EXCEPT ![c].stage = st, ![c].res = e]
          PROVE  Inv(h)'
      <3> DEFINE m == [l EXCEPT !.stage = st, !.res = e]
      <3>1. /\ m.stage = st /\ m.key = l.key /\ m.fk = l.fk
            /\ m.gens = l.gens /\ m.res = e
        BY <1>l DEF LoadType
      <3>2. load' = [load EXCEPT ![c] = m]
        BY <1>l, <2>2
      <3>3. l.stage = "load" /\ l.key \in Key
        BY <1>1, <1>l DEF RunLoader, LoadKeyOK
      <3>4. st \in {"writeL2", "writeL1", "done"}
            /\ (st \in {"writeL2", "writeL1"} => l.gens # Unread)
        BY DEF AfterLoad
      <3>5. EntryOK(h, e) \/ l.gens = Unread
        <4>1. CASE GensFor(h, l.key, l.gens)
          BY <1>l, <3>3, <4>1 DEF EntryOK, HistoryOK, GensFor, Minted, Reaches
        <4> QED  BY <1>l, <3>3, <4>1 DEF LoadOK
      <3>6. e # NoEntry
        BY <3>3, TaggedAssumption DEF NoEntry, TaggedAssumption
      <3>7. e.key = l.key /\ e.ver = src[l.key] /\ e.gens = l.gens /\ ~e.set
        OBVIOUS
      <3> HIDE DEF m, e
      <3>8. LoadOK(h, m)
        BY <1>l, <3>1, <3>3, <3>4, <3>5, <3>6, <3>7 DEF LoadOK
      <3>9. LoadGrows(l, m, src)
        BY <3>1, <3>3, <3>4, <3>7 DEF LoadGrows
      <3> QED  BY <1>1, <3>2, <3>8, <3>9, LoadMoves DEF RunLoader
    <2> QED  BY <1>1, <2>1, <2>2 DEF RunLoader
  <1>2. CASE WriteL2(c) \/ WriteL1(c)
    <2>1. /\ l.key \in Key /\ l.rep \in Stores /\ L2 \in Stores
          /\ l.stage \in {"writeL2", "writeL1"}
      BY <1>2, <1>l DEF WriteL2, WriteL1, LoadKeyOK, Stores
    <2>2. EntryAt(h, PK[l.key], l.res)
      BY <1>l, <2>1 DEF LoadOK, EntryAt
    <2>3. StoresOK(h)'
      BY <1>2, <2>1, <2>2, KeyInPKey, StoreOK DEF WriteL2, WriteL1
    <2> QED  BY <1>2, <1>st, <2>3 DEF WriteL2, WriteL1
  <1>3. CASE Forget(c)
    <2> DEFINE m == [NoLoad EXCEPT !.stage = "gone", !.res = l.res]
    <2>1. m.stage = "gone" /\ m.res = l.res
      BY DEF NoLoad
    <2>2. load' = [load EXCEPT ![c] = m]
      BY <1>3 DEF Forget
    <2> HIDE DEF m
    <2>3. LoadOK(h, m) /\ LoadGrows(l, m, src)
      BY <2>1 DEF LoadOK, LoadGrows
    <2> QED  BY <1>3, <2>2, <2>3, LoadMoves DEF Forget
  <1>4. CASE Deadline(c)
    <2> DEFINE m == [l EXCEPT !.expired = TRUE]
    <2>1. /\ m.stage = l.stage /\ m.key = l.key /\ m.fk = l.fk
          /\ m.gens = l.gens /\ m.res = l.res /\ l.stage # "unborn"
      BY <1>4, <1>l DEF Deadline, LoadType
    <2>2. load' = [load EXCEPT ![c] = m]
      BY <1>4 DEF Deadline
    <2> HIDE DEF m
    <2>3. LoadOK(h, m) /\ LoadGrows(l, m, src)
      BY <1>l, <2>1 DEF LoadOK, LoadGrows
    <2> QED  BY <1>4, <2>2, <2>3, LoadMoves DEF Deadline
  <1> QED  BY <1>1, <1>2, <1>3, <1>4 DEF LoadStep

-----------------------------------------------------------------------------
(* Writes that only store, or publish.                                     *)

LEMMA WriteKeeps ==
  ASSUME TypeInv, TypeInv', scenario' = scenario, NEW h, Inv(h),
         NEW p \in Proc,
         Publish(p) \/ SetL2(p) \/ SetL1(p) \/ DeleteL1(p) \/ DeleteL2(p)
  PROVE  Inv(h)'
  <1> DEFINE q == proc[p]
  <1> USE DEF At, storeVars, ghosts
  <1>q. PICK ts \in SUBSET GenKey : q \in FrameType(ts)
    BY FrameFields
  <1>p. /\ proc \in [Proc -> {proc[o] : o \in Proc}]
        /\ FrameOK(h, q) /\ KeyOK(q)
    BY TypeParts, FrameFields DEF FramesTyped, Inv
  <1>e. NoEntry \in EntryType
    BY TypeParts, Constants
  <1>m. ASSUME NEW pc \in {"delL2", "publish"}, Move(p, [q EXCEPT !.pc = pc])
        PROVE  FrameOK(h, proc[p])'
    <2>1. proc'[p].pc = pc
      BY <1>m, <1>p, <1>q DEF Move, FrameType
    <2> QED
      BY <2>1 DEF FrameOK, MinOK, HoldsOK, SinceOK, WaitOK, Reading, BeforeFetch
  <1>1. CASE Publish(p)
    BY <1>1, <1>e, ReturnStep DEF Publish
  <1>2. CASE SetL2(p) \/ SetL1(p)
    <2>1. /\ q.rep \in Stores /\ L2 \in Stores /\ q.key \in Key
          /\ EntryAt(h, PK[q.key], q.res)
      BY <1>2, <1>p DEF SetL2, SetL1, KeyOK, Stores, FrameOK, HoldsOK
    <2>2. StoresOK(h)'
      BY <1>2, <2>1, KeyInPKey, StoreOK DEF SetL2, SetL1
    <2>3. CASE Return(p, NoEntry)
      BY <1>2, <1>e, <2>2, <2>3, ReturnStep DEF SetL2, SetL1
    <2>4. CASE Move(p, [q EXCEPT !.pc = "setL1"])
      <3>1. /\ proc'[p].pc = "setL1" /\ proc'[p].key = q.key
            /\ proc'[p].res = q.res
        BY <2>4, <1>p, <1>q DEF Move, FrameType
      <3>2. FrameOK(h, proc[p])'
        BY <2>1, <3>1
           DEF FrameOK, MinOK, HoldsOK, SinceOK, WaitOK, Reading, BeforeFetch
      <3> QED  BY <1>2, <2>2, <2>4, <3>2, MoveStep DEF SetL2, SetL1
    <2> QED  BY <1>2, <2>3, <2>4 DEF SetL2, SetL1
  <1>3. CASE DeleteL1(p) \/ DeleteL2(p)
    <2>1. q.rep \in Stores /\ L2 \in Stores /\ q.key \in Key
      BY <1>3, <1>p DEF DeleteL1, DeleteL2, KeyOK, Stores
    <2>2. PICK s \in Stores, pc \in {"delL2", "publish"} : DeleteAt(p, s, pc)
      BY <1>3, <2>1 DEF DeleteL1, DeleteL2
    <2>3. StoresOK(h)'
      BY <2>1, <2>2, KeyInPKey, NothingOK, StoreOK DEF DeleteAt
    <2> QED  BY <1>m, <2>2, <2>3, MoveStep DEF DeleteAt
  <1> QED  BY <1>1, <1>2, <1>3

-----------------------------------------------------------------------------
(* Steps that take generations.                                            *)

(* A generation nobody took, taken now, is added to the history.           *)
Taken(h, new) ==
    [g \in DOMAIN h \cup DOMAIN new |-> IF g \in DOMAIN h THEN h[g] ELSE new[g]]

(* GetTagged and Set: afterwards every tag of k has a generation, its own, *)
(* taken no earlier than its last bump.                                    *)
LEMMA CountersMint ==
  ASSUME TypeInv, scenario' = scenario, NEW h, Inv(h), NEW s \in Stores,
         NEW k \in Key, Counters(s, TagsOf[k]), UNCHANGED <<src, bumped>>
  PROVE  \E h2 :
           /\ Extends(h, h2) /\ HistoryOK(h2)' /\ CountersOK(h2)'
           /\ GensFor(h2, k, GensOf(s, TagsOf[k]))
           /\ \A i \in DOMAIN TagsOf[k], j \in Key :
                bumped[s][TagsOf[k][i]][j] <= h2[GensOf(s, TagsOf[k])[i]].src[j]
  <1> DEFINE ts == TagsOf[k]
             New == {ts[i] : i \in Missed(s, ts)}
             first(t) == CHOOSE i \in DOMAIN ts : ts[i] = t
             made(t) == <<draws + first(t), 0>>
             new == [g \in {made(t) : t \in New} |->
                       [store |-> s, tag |-> ts[g[1] - draws], src |-> src]]
  <1>t. /\ DOMAIN ts = 1..Len(ts) /\ Len(ts) \in Nat
        /\ \A i \in DOMAIN ts : ts[i] \in GenKey
        /\ draws \in Nat /\ ctr \in [Stores -> [GenKey -> Generation]]
    BY TagsOfSeq, TypeParts DEF StoresTyped
  <1>h. HistoryOK(h) /\ CountersOK(h) /\ FloorsOK
    BY DEF Inv
  <1>1. ASSUME NEW t \in New
        PROVE  /\ t \in GenKey /\ ctr[s][t] = NoGen
               /\ first(t) \in 1..Len(ts) /\ ts[first(t)] = t
               /\ Created(s, ts)[t] = made(t)
               /\ made(t) \in Generation /\ made(t) # NoGen
               /\ made(t)[1] = draws + first(t) /\ made(t)[2] = 0
               /\ made(t) \notin DOMAIN h
    <2>1. PICK i \in Missed(s, ts) : ts[i] = t
      OBVIOUS
    <2>2. i \in DOMAIN ts /\ ctr[s][t] = NoGen /\ t \in GenKey
      BY <1>t, <2>1 DEF Missed
    <2>3. first(t) \in 1..Len(ts) /\ ts[first(t)] = t
      BY <1>t, <2>1, <2>2
    <2>4. Created(s, ts)[t] = made(t)
      BY <2>1, <2>2 DEF Created, NewGeneration
    <2> HIDE DEF first
    <2>5. made(t) \in Generation /\ made(t) # NoGen
      BY <1>t, <2>3, TaggedAssumption
         DEF Generation, TaggedAssumption, NoGeneration
    <2>6. made(t)[1] > draws
      BY <1>t, <2>3
    <2>7. made(t) \notin DOMAIN h
      BY <1>t, <1>h, <2>6 DEF HistoryOK
    <2> QED  BY <2>2, <2>3, <2>4, <2>5, <2>7
  <1>2. ASSUME NEW t \in GenKey, t \notin New
        PROVE  Created(s, ts)[t] = ctr[s][t]
    BY <1>2 DEF Created
  <1>3. PICK h2 : h2 = Taken(h, new)
    OBVIOUS
  <1>4. Extends(h, h2)
    BY <1>3 DEF Extends, Taken
  <1> HIDE DEF first, New, made
  <1>5. ASSUME NEW t \in New
        PROVE  /\ made(t) \in DOMAIN h2 /\ h2[made(t)].store = s
               /\ h2[made(t)].tag = t /\ h2[made(t)].src = src
    <2>1. made(t)[1] - draws = first(t)
      <3>1. made(t)[1] = draws + first(t) /\ first(t) \in 1..Len(ts)
        BY <1>1
      <3> QED  BY <1>t, <3>1
    <2>2. made(t) \notin DOMAIN h /\ ts[first(t)] = t
      BY <1>1
    <2> QED  BY <1>3, <2>1, <2>2 DEF Taken
  <1>6. ASSUME NEW g \in DOMAIN h2, g \notin DOMAIN h
        PROVE  \E t \in New : g = made(t)
    BY <1>3, <1>6 DEF Taken
  <1>7. /\ draws' \in Nat /\ draws <= draws'
        /\ New # {} => draws' = draws + Len(ts)
    BY <1>t DEF Counters, New
  <1>8. HistoryOK(h2)'
    <2>1. ASSUME NEW g \in DOMAIN h
          PROVE  /\ g \in Generation /\ g[1] \in 1..draws'
                 /\ \A j \in Key : h2[g].src[j] \in Nat /\ h2[g].src[j] <= src[j]
      BY <1>4, <1>7, <1>h, <1>t DEF HistoryOK, Extends
    <2>2. ASSUME NEW t \in New
          PROVE  /\ made(t) \in Generation /\ made(t)[1] \in 1..draws'
                 /\ \A j \in Key : /\ h2[made(t)].src[j] \in Nat
                                   /\ h2[made(t)].src[j] <= src[j]
      <3>1. draws' = draws + Len(ts)
        BY <1>7, <2>2
      <3>2. made(t)[1] \in 1..draws'
        BY <1>1, <1>t, <3>1
      <3>3. h2[made(t)].src = src
        BY <1>5
      <3> QED  BY <1>1, <3>2, <3>3, Versions
    <2> QED  BY <1>6, <2>1, <2>2 DEF HistoryOK
  <1>9. ASSUME NEW s2 \in Stores, NEW t \in GenKey
        PROVE  ctr'[s2][t] = IF s2 = s /\ t \in New THEN made(t) ELSE ctr[s2][t]
    <2>1. ctr' = [ctr EXCEPT ![s] = Created(s, ts)]
      BY DEF Counters
    <2> QED  BY <1>1, <1>2, <1>t, <2>1
  <1>10. CountersOK(h2)'
    <2> SUFFICES ASSUME NEW s2 \in Stores, NEW t \in GenKey
                 PROVE  CounterOK(h2, s2, t)'
      BY DEF CountersOK, Stores
    <2>1. CASE s2 = s /\ t \in New
      <3>1. ctr'[s2][t] = made(t)
        BY <1>9, <2>1
      <3>2. ASSUME NEW g \in DOMAIN h2, g[1] = made(t)[1]
            PROVE  g = made(t)
        <4>1. g \notin DOMAIN h
          BY <1>1, <1>h, <1>t, <2>1, <3>2 DEF HistoryOK
        <4>2. PICK u \in New : g = made(u)
          BY <1>6, <4>1
        <4>3. first(u) = first(t)
          BY <1>1, <1>t, <2>1, <3>2, <4>2
        <4> QED  BY <1>1, <2>1, <4>2, <4>3
      <3>3. \A j \in Key : bumped[s][t][j] <= src[j]
        BY <1>h DEF FloorsOK
      <3>4. /\ made(t) \in DOMAIN h2 /\ h2[made(t)].store = s
            /\ h2[made(t)].tag = t /\ h2[made(t)].src = src
            /\ made(t)[2] = 0
        BY <1>1, <1>5, <2>1
      <3> QED  BY <2>1, <3>1, <3>2, <3>3, <3>4 DEF CounterOK
    <2>2. CASE ~(s2 = s /\ t \in New)
      <3>1. ctr'[s2][t] = ctr[s2][t] /\ CounterOK(h, s2, t)
        BY <1>9, <1>h, <2>2 DEF CountersOK
      <3>2. ASSUME ctr[s2][t] # NoGen, NEW g \in DOMAIN h2,
                   g[1] = ctr[s2][t][1]
            PROVE  g \in DOMAIN h
        <4>1. ctr[s2][t][1] <= draws /\ ctr[s2][t][1] \in Nat
          BY <1>h, <1>t, <3>1, <3>2 DEF CounterOK, HistoryOK
        <4>2. \A u \in New : made(u)[1] > draws
          BY <1>1, <1>t
        <4> QED  BY <1>6, <1>t, <3>2, <4>1, <4>2
      <3> QED  BY <1>4, <3>1, <3>2 DEF CounterOK, Extends
    <2> QED  BY <2>1, <2>2
  <1>11. ASSUME NEW i \in DOMAIN ts
         PROVE  /\ Minted(h2, ts[i], GensOf(s, ts)[i])
                /\ \A j \in Key :
                     bumped[s][ts[i]][j] <= h2[GensOf(s, ts)[i]].src[j]
    <2>1. /\ ts[i] \in GenKey /\ GensOf(s, ts)[i] = ctr'[s][ts[i]]
      BY <1>t DEF GensOf, Counters
    <2>2. ctr'[s][ts[i]] # NoGen
      <3>1. CASE ctr[s][ts[i]] = NoGen
        <4>1. ts[i] \in New
          BY <3>1 DEF New, Missed
        <4> QED  BY <1>1, <1>9, <2>1, <4>1
      <3>2. CASE ctr[s][ts[i]] # NoGen
        <4>1. ts[i] \notin New
          BY <1>1, <3>2
        <4> QED  BY <1>9, <2>1, <3>2, <4>1
      <3> QED  BY <3>1, <3>2
    <2>3. CounterOK(h2, s, ts[i])'
      BY <1>10, <2>1 DEF CountersOK, Stores
    <2> QED  BY <2>1, <2>2, <2>3 DEF CounterOK, Minted
  <1>12. Len(GensOf(s, ts)) = Len(ts)
    BY <1>t DEF GensOf
  <1> QED  BY <1>4, <1>8, <1>10, <1>11, <1>12 DEF GensFor

(* Bump: the generation taken is new, and as new as the source.            *)
LEMMA BumpMints ==
  ASSUME TypeInv, scenario' = scenario, NEW h, Inv(h), NEW s \in Stores,
         NEW t \in GenKey, BumpCounter(s, t), src' = src
  PROVE  \E h2 : Extends(h, h2) /\ HistoryOK(h2)' /\ CountersOK(h2)'
  <1> DEFINE from == IF ctr[s][t] = NoGen THEN NewGeneration(draws + 1)
                                          ELSE ctr[s][t]
             g2 == Advance(from)
             new == [g \in {g2} |-> [store |-> s, tag |-> t, src |-> src]]
  <1>t. /\ draws \in Nat /\ ctr \in [Stores -> [GenKey -> Generation]]
        /\ bumped \in [Stores -> [GenKey -> [Key -> Version]]]
    BY TypeParts DEF StoresTyped, GhostsTyped
  <1>h. HistoryOK(h) /\ CountersOK(h) /\ FloorsOK
    BY DEF Inv
  <1>1. /\ from \in Generation
        /\ g2 \in Generation /\ g2[1] = from[1] /\ g2[2] = from[2] + 1
    BY <1>t DEF NewGeneration, Generation, Advance
  <1>2. /\ draws' \in Nat /\ draws <= draws' /\ from[1] \in 1..draws'
    <2>1. CASE ctr[s][t] = NoGen
      BY <1>t, <2>1 DEF BumpCounter, NewGeneration
    <2>2. CASE ctr[s][t] # NoGen
      BY <1>t, <1>h, <2>2
         DEF BumpCounter, CountersOK, CounterOK, HistoryOK
    <2> QED  BY <2>1, <2>2
  <1>3. ASSUME NEW g \in DOMAIN h, g[1] = from[1]
        PROVE  /\ h[g].store = s /\ h[g].tag = t
               /\ ctr[s][t] # NoGen /\ g[2] <= from[2]
    <2>1. ctr[s][t] # NoGen
      BY <1>t, <1>h, <1>3 DEF HistoryOK, NewGeneration
    <2> QED  BY <1>h, <1>3, <2>1 DEF CountersOK, CounterOK
  <1>4. /\ ctr' = [ctr EXCEPT ![s][t] = g2]
        /\ bumped' = [bumped EXCEPT ![s][t] = src]
    BY <1>t DEF BumpCounter
  <1> HIDE DEF from, g2
  <1>5. g2 \notin DOMAIN h
    BY <1>1, <1>3 DEF Generation
  <1>6. PICK h2 : h2 = Taken(h, new)
    OBVIOUS
  <1>7. /\ Extends(h, h2) /\ g2 \in DOMAIN h2
        /\ h2[g2].store = s /\ h2[g2].tag = t /\ h2[g2].src = src
        /\ \A g \in DOMAIN h2 : g \in DOMAIN h \/ g = g2
    BY <1>5, <1>6 DEF Taken, Extends
  <1>8. HistoryOK(h2)'
    <2>1. ASSUME NEW g \in DOMAIN h
          PROVE  /\ g \in Generation /\ g[1] \in 1..draws'
                 /\ \A j \in Key : h2[g].src[j] \in Nat /\ h2[g].src[j] <= src[j]
      BY <1>2, <1>7, <1>h, <1>t DEF HistoryOK, Extends
    <2>2. /\ g2 \in Generation /\ g2[1] \in 1..draws'
          /\ \A j \in Key : h2[g2].src[j] \in Nat /\ h2[g2].src[j] <= src[j]
      BY <1>1, <1>2, <1>7, Versions
    <2> QED  BY <1>7, <2>1, <2>2 DEF HistoryOK
  <1>9. ASSUME NEW s2 \in Stores, NEW u \in GenKey
        PROVE  CounterOK(h2, s2, u)'
    <2>1. CASE s2 = s /\ u = t
      <3>1. ctr'[s][t] = g2 /\ bumped'[s][t] = src
        BY <1>4, <1>t
      <3>2. ASSUME NEW g \in DOMAIN h2, g[1] = g2[1]
            PROVE  h2[g].store = s /\ h2[g].tag = t /\ g[2] <= g2[2]
        <4>1. CASE g \in DOMAIN h
          <5>1. g[2] \in Nat /\ from[2] \in Nat
            BY <1>1, <1>h, <4>1 DEF HistoryOK, Generation
          <5> QED  BY <1>1, <1>3, <1>7, <3>2, <4>1, <5>1 DEF Extends
        <4>2. CASE g = g2
          BY <1>1, <1>7, <4>2 DEF Generation
        <4> QED  BY <1>7, <4>1, <4>2
      <3>3. \A j \in Key : src[j] <= h2[g2].src[j]
        BY <1>7, Versions
      <3> QED  BY <1>7, <2>1, <3>1, <3>2, <3>3 DEF CounterOK
    <2>2. CASE ~(s2 = s /\ u = t)
      <3>1. ctr'[s2][u] = ctr[s2][u] /\ bumped'[s2][u] = bumped[s2][u]
        BY <1>4, <1>t, <2>2
      <3>2. ASSUME ctr[s2][u] # NoGen
            PROVE  ctr[s2][u][1] # g2[1]
        <4>1. /\ ctr[s2][u] \in DOMAIN h
              /\ h[ctr[s2][u]].store = s2 /\ h[ctr[s2][u]].tag = u
          BY <1>h, <3>2 DEF CountersOK, CounterOK
        <4> QED  BY <1>1, <1>3, <2>2, <4>1
      <3>3. CounterOK(h, s2, u)
        BY <1>h DEF CountersOK
      <3> QED  BY <1>7, <3>1, <3>2, <3>3 DEF CounterOK, Extends
    <2> QED  BY <2>1, <2>2
  <1>10. CountersOK(h2)'
    BY <1>9 DEF CountersOK, Stores
  <1> QED  BY <1>7, <1>8, <1>10

LEMMA StillGrows ==
  ASSUME TypeInv, scenario' = scenario, NEW h, NEW h2, Extends(h, h2),
         UNCHANGED <<src, gc, load, floor>>
  PROVE  Grows(h, h2)
  <1>1. SourceGrows /\ FloorsGrow
    BY Versions DEF SourceGrows, FloorsGrow
  <1>2. CopiesGrow
    BY TypeParts DEF CopiesGrow, CopyGrows, CopyType
  <1> QED  BY <1>1, <1>2, LoadsStay DEF Grows

LEMMA CopiesStay ==
  ASSUME scenario' = scenario, NEW h, NEW h2, CopiesOK(h), Extends(h, h2),
         UNCHANGED <<gc, floor>>
  PROVE  CopiesOK(h2)'
  BY DEF CopiesOK, Extends, Minted, HasGens

LEMMA FetchKeeps ==
  ASSUME TypeInv, TypeInv', scenario' = scenario, NEW h, Inv(h),
         NEW p \in Proc, Fetch(p)
  PROVE  \E h2 : Inv(h2)'
  <1> DEFINE q == proc[p]
             s == Auth(q.rep)
             ts == TagsOf[q.key]
             gens == GensOf(s, ts)
  <1> USE DEF At, storeVars, ghosts
  <1>q. PICK us \in SUBSET GenKey : q \in FrameType(us)
    BY FrameFields
  <1>p. /\ proc \in [Proc -> {proc[o] : o \in Proc}]
        /\ FrameOK(h, q) /\ KeyOK(q) /\ q.pc = "fetch"
    BY TypeParts, FrameFields DEF FramesTyped, Inv, Fetch
  <1>k. /\ q.key \in Key /\ q.rep \in Replica /\ s \in Stores
        /\ Tags(q.key) \in SUBSET GenKey
    BY <1>p, TagsOfSeq DEF KeyOK, Reading, Auth, Stores
  <1>c. /\ Counters(s, ts)
        /\ Move(p, [q EXCEPT !.pc = "decide", !.gens = gens,
                             !.hit = val[s][PK[q.key]]])
        /\ UNCHANGED <<src, val, gc, load, floor, bumped>>
    BY DEF Fetch
  <1>1. PICK h2 :
          /\ Extends(h, h2) /\ HistoryOK(h2)' /\ CountersOK(h2)'
          /\ GensFor(h2, q.key, gens)
          /\ \A i \in DOMAIN ts, j \in Key :
               bumped[s][ts[i]][j] <= h2[gens[i]].src[j]
    BY <1>c, <1>k, CountersMint
  <1>2. Grows(h, h2)
    BY <1>1, <1>c, StillGrows
  <1>3. FloorsOK' /\ CopiesOK(h2)' /\ AnswersOK'
    <2>1. FloorsOK'
      BY <1>c DEF Inv, FloorsOK, Auth, HasL2
    <2>2. CopiesOK(h2)'
      BY <1>c, <1>1, CopiesStay DEF Inv
    <2> QED  BY <1>c, <2>1, <2>2 DEF Inv, Move, AnswersOK
  <1>4. \A o \in Proc \ {p} : proc'[o] = proc[o]
    BY <1>p, <1>c DEF Move
  <1>5. /\ proc'[p].pc = "decide" /\ proc'[p].gens = gens
        /\ proc'[p].hit = val[s][PK[q.key]]
        /\ proc'[p].local = q.local /\ proc'[p].since = q.since
        /\ proc'[p].key = q.key /\ proc'[p].rep = q.rep
        /\ proc'[p].min = q.min /\ proc'[p].blind = q.blind
    BY <1>p, <1>q, <1>c DEF Move, FrameType
  <1> HIDE DEF gens
  <1>6. ASSUME NEW i \in DOMAIN ts, NEW j \in Key
        PROVE  floor[q.rep][ts[i]][j] <= h2[gens[i]].src[j]
    <2>1. ts[i] \in Tags(q.key) /\ ts[i] \in GenKey
      BY <1>k, TagsOfSeq
    <2>2. floor[q.rep][ts[i]][j] <= bumped[s][ts[i]][j]
      BY <1>k, <2>1 DEF Inv, FloorsOK
    <2>3. bumped[s][ts[i]][j] <= h2[gens[i]].src[j]
      BY <1>1
    <2>4. h2[gens[i]].src[j] \in Nat
      BY <1>1 DEF HistoryOK, GensFor, Minted
    <2>5. floor[q.rep][ts[i]][j] \in Nat /\ bumped[s][ts[i]][j] \in Nat
      BY <1>k, <2>1, Versions
    <2> HIDE DEF s, ts
    <2> QED  BY <2>2, <2>3, <2>4, <2>5
  <1>7. ASSUME NEW i \in DOMAIN ts
        PROVE  q.min[ts[i]] <= h2[gens[i]].src[q.key]
    <2>1. ts[i] \in Tags(q.key) /\ ts[i] \in GenKey
      BY <1>k, TagsOfSeq
    <2>2. q.min[ts[i]] <= floor[q.rep][ts[i]][q.key]
      BY <1>p, <2>1 DEF FrameOK, MinOK, BeforeFetch
    <2>3. floor[q.rep][ts[i]][q.key] <= h2[gens[i]].src[q.key]
      BY <1>6, <1>k
    <2>4. h2[gens[i]].src[q.key] \in Nat
      BY <1>1, <1>k DEF HistoryOK, GensFor, Minted
    <2>5. floor[q.rep][ts[i]][q.key] \in Nat /\ q.min[ts[i]] \in Nat
      BY <1>k, <2>1, Versions, FrameFields
    <2> HIDE DEF ts
    <2> QED  BY <2>2, <2>3, <2>4, <2>5
  <1>8. MinOK(h2, proc[p])'
    <2>1. \A t \in GenKey : IF t \in Tags(q.key) THEN q.min[t] <= src'[q.key]
                                                 ELSE q.min[t] = 0
      BY <1>p, <1>c DEF FrameOK, MinOK, Reading
    <2>2. ~q.blind
      BY <1>p DEF FrameOK, MinOK, BeforeFetch
    <2> QED  BY <1>1, <1>5, <1>7, <2>1, <2>2 DEF MinOK, BeforeFetch
  <1>9. HoldsOK(h2, proc[p])'
    <2>1. EntryAt(h2, PK[q.key], q.local)
      BY <1>p, <1>1, ExtendsKeeps DEF FrameOK, HoldsOK, Reading
    <2>2. EntryAt(h2, PK[q.key], val[s][PK[q.key]])
      BY <1>1, <1>k, ExtendsKeeps, KeyInPKey DEF Inv, StoresOK
    <2> QED  BY <1>5, <2>1, <2>2 DEF HoldsOK
  <1>10. SinceOK(h2, proc[p])'
    BY <1>p, <1>c, <1>5, <1>6 DEF FrameOK, SinceOK, HasGens
  <1>11. FrameOK(h2, proc[p])'
    BY <1>5, <1>8, <1>9, <1>10 DEF FrameOK, WaitOK
  <1> QED  BY <1>c, <1>1, <1>2, <1>3, <1>4, <1>11, InvNext

LEMMA SetGensKeeps ==
  ASSUME TypeInv, TypeInv', scenario' = scenario, NEW h, Inv(h),
         NEW p \in Proc, SetGens(p)
  PROVE  \E h2 : Inv(h2)'
  <1> DEFINE q == proc[p]
             s == Auth(q.rep)
             ts == TagsOf[q.key]
             gens == GensOf(s, ts)
             pc == IF HasL2 THEN "setL2" ELSE "setL1"
  <1> USE DEF At, storeVars, ghosts
  <1>q. PICK us \in SUBSET GenKey : q \in FrameType(us)
    BY FrameFields
  <1>p. /\ proc \in [Proc -> {proc[o] : o \in Proc}]
        /\ FrameOK(h, q) /\ KeyOK(q) /\ q.pc = "setgens"
    BY TypeParts, FrameFields DEF FramesTyped, Inv, SetGens
  <1>k. /\ q.key \in Key /\ s \in Stores
    BY <1>p DEF KeyOK, Auth, Stores
  <1>1. CASE Return(p, NoEntry) /\ UNCHANGED <<ctr, draws>>
    <2>1. NoEntry \in EntryType
      BY TypeParts, Constants
    <2> QED  BY <1>1, <2>1, ReturnStep DEF SetGens
  <1>2. CASE /\ Counters(s, ts)
             /\ Move(p, [q EXCEPT !.pc = pc, !.res.gens = gens])
    <2>c. UNCHANGED <<src, val, gc, load, floor, bumped>>
      BY DEF SetGens
    <2>1. PICK h2 : /\ Extends(h, h2) /\ HistoryOK(h2)' /\ CountersOK(h2)'
                    /\ GensFor(h2, q.key, gens)
      BY <1>2, <1>k, <2>c, CountersMint
    <2>2. Grows(h, h2)
      BY <2>1, <2>c, StillGrows
    <2>3. FloorsOK' /\ CopiesOK(h2)' /\ AnswersOK'
      <3>1. FloorsOK'
        BY <2>c DEF Inv, FloorsOK, Auth, HasL2
      <3>2. CopiesOK(h2)'
        BY <2>c, <2>1, CopiesStay DEF Inv
      <3> QED  BY <1>2, <3>1, <3>2 DEF Inv, Move, AnswersOK
    <2>4. \A o \in Proc \ {p} : proc'[o] = proc[o]
      BY <1>p, <1>2 DEF Move
    <2>5. pc \in {"setL2", "setL1"}
      OBVIOUS
    <2> HIDE DEF gens, pc
    <2>6. /\ proc'[p].pc = pc /\ proc'[p].key = q.key
          /\ proc'[p].res.key = q.res.key /\ proc'[p].res.set = q.res.set
          /\ proc'[p].res.gens = gens
      BY <1>p, <1>q, <1>2 DEF Move, FrameType, EntryType
    <2>7. q.res.key = q.key /\ q.res.set
      BY <1>p DEF FrameOK, HoldsOK
    <2>8. EntryAt(h2, PK[q.key], proc[p].res)'
      BY <1>k, <2>1, <2>6, <2>7 DEF EntryAt, EntryOK
    <2>9. FrameOK(h2, proc[p])'
      BY <2>5, <2>6, <2>8
         DEF FrameOK, MinOK, HoldsOK, SinceOK, WaitOK, Reading, BeforeFetch
    <2> QED  BY <2>c, <2>1, <2>2, <2>3, <2>4, <2>9, InvNext
  <1> QED  BY <1>1, <1>2 DEF SetGens

-----------------------------------------------------------------------------
(* Steps that change copies of generations, or what a replica was told of. *)

LEMMA DropGrows ==
  ASSUME NEW g \in CopyType, NEW t \in GenKey
  PROVE  /\ CopyGrows(g, drop(g, t)) /\ Dropped(g, drop(g, t), t)
         /\ drop(g, t).m = [g.m EXCEPT ![t] = Missing]
  <1>1. CASE DropFull(g, t)
    BY <1>1 DEF drop, Count, Reset, ZeroDrops, CopyGrows, Dropped, CopyType
  <1>2. CASE ~DropFull(g, t)
    BY <1>2 DEF drop, Count, CopyGrows, Dropped, CopyType
  <1> QED  BY <1>1, <1>2

LEMMA PutGrows ==
  ASSUME NEW g \in CopyType, NEW ts \in SUBSET GenKey, NEW gens, NEW since,
         NEW expires
  PROVE  LET g2 == put(g, ts, gens, since, expires) IN
         /\ CopyGrows(g, g2)
         /\ \A t \in GenKey :
              \/ g2.m[t] \in {g.m[t], Missing}
              \/ t \in ts /\ Undisturbed(g, ts, since) /\ g2.m[t].gen = gens[t]
  <1> DEFINE c == IF PutFull(g, ts) THEN clear(g) ELSE g
  <1>1. /\ CopyGrows(g, c) /\ \A t \in GenKey : c.m[t] \in {g.m[t], Missing}
    BY DEF CopyGrows, clear, CopyType
  <1>2. /\ StoreGens(c, ts, gens, expires).clears = c.clears
        /\ StoreGens(c, ts, gens, expires).drops = c.drops
        /\ \A t \in GenKey : StoreGens(c, ts, gens, expires).m[t] =
             IF t \in ts THEN [gen |-> gens[t], expires |-> expires] ELSE c.m[t]
    BY DEF StoreGens
  <1>3. CopyGrows(g, g)
    BY DEF CopyGrows, CopyType
  <1> HIDE DEF c
  <1>4. CASE Undisturbed(g, ts, since)
    <2>1. put(g, ts, gens, since, expires) = StoreGens(c, ts, gens, expires)
      BY <1>4 DEF put, c
    <2> DEFINE g2 == StoreGens(c, ts, gens, expires)
    <2>2. CopyGrows(g, g2)
      <3> HIDE DEF g2
      <3>1. g2.clears = c.clears /\ g2.drops = c.drops
        BY <1>2 DEF g2
      <3> QED  BY <1>1, <3>1 DEF CopyGrows
    <2>3. ASSUME NEW t \in GenKey
          PROVE  \/ g2.m[t] \in {g.m[t], Missing}
                 \/ t \in ts /\ g2.m[t].gen = gens[t]
      <3>1. CASE t \in ts
        BY <3>1 DEF StoreGens
      <3>2. CASE t \notin ts
        BY <1>1, <3>2 DEF StoreGens
      <3> QED  BY <3>1, <3>2
    <2> HIDE DEF g2
    <2>4. put(g, ts, gens, since, expires) = g2
      BY <2>1 DEF g2
    <2> QED  BY <1>4, <2>2, <2>3, <2>4
  <1>5. CASE ~Undisturbed(g, ts, since)
    BY <1>3, <1>5 DEF put
  <1> QED  BY <1>4, <1>5

(* A read puts into the copy what is as new as its replica was told.       *)
LEMMA PutKeeps ==
  ASSUME TypeInv, scenario' = scenario, NEW h, Inv(h), NEW p \in Proc,
         At(p, "decide"),
         gc' = IF HasGens
                 THEN [gc EXCEPT ![proc[p].rep] =
                         put(@, Tags(proc[p].key),
                             GensByKey(TagsOf[proc[p].key], proc[p].gens),
                             proc[p].since, 1)]
                 ELSE gc,
         UNCHANGED floor
  PROVE  CopiesGrow /\ CopiesOK(h)'
  <1> DEFINE q == proc[p]
             k == q.key
             r == q.rep
             byKey == GensByKey(TagsOf[k], q.gens)
             g2 == put(gc[r], Tags(k), byKey, q.since, 1)
  <1>t. gc \in [Replica -> CopyType]
    BY TypeParts
  <1>k. r \in Replica /\ k \in Key /\ Tags(k) \in SUBSET GenKey
    BY FrameFields, TagsOfSeq DEF At, KeyOK, Reading
  <1>f. MinOK(h, q) /\ SinceOK(h, q)
    BY DEF Inv, FrameOK
  <1>g. ~q.blind /\ GensFor(h, k, q.gens)
    BY <1>f DEF MinOK, At
  <1>s. HasGens' = HasGens
    BY DEF HasGens
  <1>1. /\ CopyGrows(gc[r], g2)
        /\ \A t \in GenKey :
             \/ g2.m[t] \in {gc[r].m[t], Missing}
             \/ /\ t \in Tags(k) /\ Undisturbed(gc[r], Tags(k), q.since)
                /\ g2.m[t].gen = byKey[t]
    <2>1. gc[r] \in CopyType
      BY <1>k, <1>t
    <2> DEFINE c == gc[r]
               ks == Tags(k)
               one == 1
    <2> HIDE DEF byKey, r, k, q, c, ks, one
    <2>2. c \in CopyType /\ ks \in SUBSET GenKey
      BY <1>k, <2>1 DEF c, ks
    <2>3. LET g3 == put(c, ks, byKey, q.since, one) IN
          /\ CopyGrows(c, g3)
          /\ \A t \in GenKey :
               \/ g3.m[t] \in {c.m[t], Missing}
               \/ t \in ks /\ Undisturbed(c, ks, q.since) /\ g3.m[t].gen = byKey[t]
      BY ONLY <2>2, PutGrows
    <2> QED  BY <2>3 DEF c, ks, one
  <1>2. ASSUME HasGens
        PROVE  gc' = [gc EXCEPT ![r] = g2]
    BY <1>2
  <1> HIDE DEF g2
  <1>3. CopiesGrow
    <2> SUFFICES ASSUME NEW r2 \in Replica
                 PROVE  CopyGrows(gc[r2], gc'[r2])
      BY DEF CopiesGrow
    <2>1. CopyGrows(gc[r2], gc[r2])
      BY <1>t DEF CopyGrows, CopyType
    <2> QED  BY <1>1, <1>2, <1>t, <2>1
  <1>4. CopiesOK(h)'
    <2> SUFFICES ASSUME NEW r2 \in Replica, NEW t \in GenKey,
                        gc'[r2].m[t] # Missing
                 PROVE  /\ HasGens /\ Minted(h, t, gc'[r2].m[t].gen)
                        /\ \A j \in Key : floor[r2][t][j]
                                            <= h[gc'[r2].m[t].gen].src[j]
      BY <1>s DEF CopiesOK
    <2>1. CASE gc'[r2].m[t] = gc[r2].m[t]
      BY <2>1 DEF Inv, CopiesOK
    <2>2. CASE gc'[r2].m[t] # gc[r2].m[t]
      <3>1. HasGens /\ r2 = r /\ gc'[r2] = g2
        BY <1>2, <1>t, <2>2
      <3>2. t \in Tags(k) /\ Undisturbed(gc[r], Tags(k), q.since)
        BY <1>1, <2>2, <3>1
      <3>3. PICK i \in DOMAIN TagsOf[k] :
              TagsOf[k][i] = t /\ byKey[t] = q.gens[i]
        BY <1>k, <3>2, GensByKeyOf
      <3>4. gc'[r2].m[t].gen = q.gens[i]
        BY <1>1, <2>2, <3>1, <3>3
      <3>5. Minted(h, t, q.gens[i])
        BY <1>g, <3>3 DEF GensFor
      <3>6. Matches(q.since, gc[r], t)
        BY <3>2 DEF Undisturbed, Matches
      <3>7. \A j \in Key : floor[r][t][j] <= h[q.gens[i]].src[j]
        BY <1>f, <3>1, <3>3, <3>6 DEF SinceOK, At
      <3> QED  BY <3>1, <3>4, <3>5, <3>7
    <2> QED  BY <2>1, <2>2
  <1> QED  BY <1>3, <1>4

LEMMA DecideKeeps ==
  ASSUME TypeInv, TypeInv', scenario' = scenario, NEW h, Inv(h),
         NEW p \in Proc, Decide(p)
  PROVE  Inv(h)'
  <1> DEFINE q == proc[p]
  <1>a. At(p, "decide") /\ q.pc = "decide"
    BY DEF Decide, At
  <1>u. UNCHANGED <<src, val, ctr, draws, load, bumped, floor>>
    BY DEF Decide, storeVars, ghosts
  <1>t. PICK ts \in SUBSET GenKey : q \in FrameType(ts)
    BY FrameFields
  <1>p. proc \in [Proc -> {proc[o] : o \in Proc}]
    BY TypeParts DEF FramesTyped
  <1>k. q.key \in Key /\ q.rep \in Replica
    BY <1>a, FrameFields DEF KeyOK, Reading
  <1>f. FrameOK(h, q)
    BY DEF Inv
  <1>g. /\ ~q.blind /\ GensFor(h, q.key, q.gens)
        /\ \A i \in DOMAIN TagsOf[q.key] :
             q.min[TagsOf[q.key][i]] <= h[q.gens[i]].src[q.key]
        /\ EntryAt(h, PK[q.key], q.local) /\ EntryAt(h, PK[q.key], q.hit)
    BY <1>a, <1>f DEF FrameOK, MinOK, HoldsOK, Reading
  <1>1. CopiesGrow /\ CopiesOK(h)'
    BY <1>a, <1>u, PutKeeps DEF Decide
  <1>2. Grows(h, h)
    <2>1. SourceGrows /\ FloorsGrow
      BY <1>u, Versions DEF SourceGrows, FloorsGrow
    <2> QED  BY <1>1, <1>u, <2>1, LoadsStay DEF Grows, Extends
  <1>3. HistoryOK(h)' /\ CountersOK(h)' /\ FloorsOK'
    <2>1. HistoryOK(h)' /\ CountersOK(h)'
      BY <1>u DEF Inv, HistoryOK, CountersOK, CounterOK
    <2>2. FloorsOK'
      BY <1>u DEF Inv, FloorsOK, Auth, HasL2
    <2> QED  BY <2>1, <2>2
  <1>4. ASSUME AnswersOK', FrameOK(h, proc[p])',
               \A o \in Proc \ {p} : proc'[o] = proc[o]
        PROVE  Inv(h)'
    BY <1>1, <1>2, <1>3, <1>4, <1>u, InvNext
  <1>5. ASSUME NEW e \in EntryType, e = NoEntry \/ Current(e, q.gens),
               EntryAt(h, PK[q.key], e), Return(p, e)
        PROVE  Inv(h)'
    <2>1. AnswersOK'
      <3>1. CASE e = NoEntry
        BY <1>5, <3>1, AnswerOK DEF Inv
      <3>2. CASE e # NoEntry
        BY <1>5, <1>a, <1>g, <3>2, ServesRead, AnswerOK
           DEF Inv, Current, Reading
      <3> QED  BY <3>1, <3>2
    <2>2. proc'[p] = Idle /\ \A o \in Proc \ {p} : proc'[o] = proc[o]
      BY <1>5, <1>p DEF Return
    <2> QED  BY <1>4, <2>1, <2>2, IdleOK
  <1>6. ASSUME NEW f, Move(p, f), FrameOK(h, proc[p])'
        PROVE  Inv(h)'
    <2>1. AnswersOK' /\ \A o \in Proc \ {p} : proc'[o] = proc[o]
      BY <1>6, <1>p DEF Move, Inv, AnswersOK
    <2> QED  BY <1>4, <1>6, <2>1
  <1>7. NoEntry \in EntryType /\ q.local \in EntryType /\ q.hit \in EntryType
    BY TypeParts, Constants, FrameFields
  <1>8. CASE Current(q.local, q.gens) /\ Return(p, q.local)
    BY <1>5, <1>7, <1>8, <1>g
  <1>9. CASE Current(q.hit, q.gens) /\ Return(p, q.hit)
    BY <1>5, <1>7, <1>9, <1>g
  <1>10. CASE Return(p, NoEntry)
    BY <1>5, <1>7, <1>10, NothingOK
  <1>11. CASE /\ Current(q.hit, q.gens)
              /\ Move(p, [q EXCEPT !.pc = "backfill", !.local = NoEntry,
                                   !.since = NoEpoch])
    <2>1. /\ proc'[p].pc = "backfill" /\ proc'[p].key = q.key
          /\ proc'[p].local = NoEntry /\ proc'[p].hit = q.hit
          /\ proc'[p].gens = q.gens /\ proc'[p].min = q.min
          /\ proc'[p].blind = q.blind
      BY <1>11, <1>p, <1>t DEF Move, FrameType
    <2>2. MinOK(h, proc[p])'
      BY <1>a, <1>f, <1>g, <1>u, <2>1
         DEF FrameOK, MinOK, Reading, BeforeFetch
    <2>3. HoldsOK(h, proc[p])'
      BY <1>11, <1>g, <2>1, NothingOK DEF HoldsOK, Current, Reading
    <2>4. FrameOK(h, proc[p])'
      BY <2>1, <2>2, <2>3 DEF FrameOK, SinceOK, WaitOK
    <2> QED  BY <1>6, <1>11, <2>4
  <1>12. CASE Move(p, [q EXCEPT !.pc = "flight", !.local = NoEntry,
                                !.hit = NoEntry, !.since = NoEpoch])
    <2>1. /\ proc'[p].pc = "flight" /\ proc'[p].key = q.key
          /\ proc'[p].local = NoEntry
          /\ proc'[p].gens = q.gens /\ proc'[p].min = q.min
          /\ proc'[p].blind = q.blind
      BY <1>12, <1>p, <1>t DEF Move, FrameType
    <2>2. MinOK(h, proc[p])'
      BY <1>a, <1>f, <1>g, <1>u, <2>1
         DEF FrameOK, MinOK, Reading, BeforeFetch
    <2>3. FrameOK(h, proc[p])'
      BY <2>1, <2>2, NothingOK DEF FrameOK, HoldsOK, SinceOK, WaitOK
    <2> QED  BY <1>6, <1>12, <2>3
  <1> QED  BY <1>8, <1>9, <1>10, <1>11, <1>12 DEF Decide

(* A replica is told of the bumps of t: it no longer vouches for t.        *)
LEMMA ToldKeeps ==
  ASSUME TypeInv, TypeInv', scenario' = scenario, NEW h, Inv(h),
         NEW r \in Replica, NEW t \in GenKey, RaiseFloor(r, t),
         gc' = IF HasGens THEN [gc EXCEPT ![r] = drop(@, t)] ELSE gc,
         UNCHANGED <<src, ctr, draws, bumped, val, load>>,
         AnswersOK',
         \A p \in Proc : proc'[p] = proc[p] \/ FrameOK(h, proc[p])'
  PROVE  Inv(h)'
  <1>a. Auth(r) \in Stores /\ Auth(r)' = Auth(r)
    BY DEF Auth, Stores, HasL2
  <1>t. /\ floor \in [Replica -> [GenKey -> [Key -> Version]]]
        /\ gc \in [Replica -> CopyType]
    BY TypeParts DEF GhostsTyped
  <1>f. \A r2 \in Replica, t2 \in GenKey :
          floor'[r2][t2] = IF r2 = r /\ t2 = t THEN bumped[Auth(r)][t]
                                               ELSE floor[r2][t2]
    BY <1>t DEF RaiseFloor
  <1>1. SourceGrows /\ FloorsGrow
    <2>1. \A k \in Key : floor[r][t][k] <= bumped[Auth(r)][t][k]
      BY DEF Inv, FloorsOK
    <2> QED  BY <1>f, <2>1, Versions DEF SourceGrows, FloorsGrow
  <1>2. CopiesGrow
    <2> SUFFICES ASSUME NEW r2 \in Replica
                 PROVE  /\ CopyGrows(gc[r2], gc'[r2])
                        /\ HasGens => \A t2 \in GenKey :
                             \/ floor'[r2][t2] = floor[r2][t2]
                             \/ Dropped(gc[r2], gc'[r2], t2)
      BY DEF CopiesGrow
    <2>1. CASE r2 = r /\ HasGens
      <3>1. gc'[r] = drop(gc[r], t)
        BY <1>t, <2>1
      <3> QED  BY <1>f, <1>t, <2>1, <3>1, DropGrows
    <2>2. CASE ~(r2 = r /\ HasGens)
      <3>1. gc'[r2] = gc[r2]
        BY <1>t, <2>2
      <3>2. CopyGrows(gc[r2], gc[r2])
        BY <1>t DEF CopyGrows, CopyType
      <3> QED  BY <1>f, <2>2, <3>1, <3>2
    <2> QED  BY <2>1, <2>2
  <1>3. Grows(h, h)
    BY <1>1, <1>2, LoadsStay DEF Grows, Extends
  <1>4. HistoryOK(h)' /\ CountersOK(h)'
    BY DEF Inv, HistoryOK, CountersOK, CounterOK
  <1>5. FloorsOK'
    <2>1. \A r2 \in Replica : Auth(r2)' = Auth(r2)
      BY DEF Auth, HasL2
    <2>2. \A t2 \in GenKey, k \in Key :
            bumped[Auth(r)][t2][k] <= bumped[Auth(r)][t2][k]
      BY <1>a, Versions
    <2> QED  BY <1>f, <2>1, <2>2 DEF Inv, FloorsOK
  <1>6. CopiesOK(h)'
    <2> SUFFICES ASSUME NEW r2 \in Replica, NEW t2 \in GenKey,
                        gc'[r2].m[t2] # Missing
                 PROVE  /\ HasGens /\ Minted(h, t2, gc'[r2].m[t2].gen)
                        /\ \A k \in Key : floor'[r2][t2][k]
                                            <= h[gc'[r2].m[t2].gen].src[k]
      BY DEF CopiesOK, HasGens
    <2>1. CASE r2 = r /\ HasGens
      <3>1. gc'[r].m = [gc[r].m EXCEPT ![t] = Missing]
        BY <1>t, <2>1, DropGrows
      <3>2. gc[r].m \in [GenKey -> {gc[r].m[u] : u \in GenKey}]
        BY <1>t DEF CopyType
      <3>3. t2 # t /\ gc'[r].m[t2] = gc[r].m[t2]
        BY <2>1, <3>1, <3>2
      <3> QED  BY <1>f, <2>1, <3>3 DEF Inv, CopiesOK
    <2>2. CASE ~(r2 = r /\ HasGens)
      <3>1. gc'[r2] = gc[r2]
        BY <1>t, <2>2
      <3>2. HasGens /\ r2 # r
        BY <2>2, <3>1 DEF Inv, CopiesOK
      <3> QED  BY <1>f, <3>1, <3>2 DEF Inv, CopiesOK
    <2> QED  BY <2>1, <2>2
  <1> QED  BY <1>3, <1>4, <1>5, <1>6, InvNext

LEMMA DropLocalKeeps ==
  ASSUME TypeInv, TypeInv', scenario' = scenario, NEW h, Inv(h),
         NEW p \in Proc, DropLocal(p)
  PROVE  Inv(h)'
  <1> DEFINE q == proc[p]
  <1>1. /\ q.rep \in Replica /\ q.key \in GenKey
        /\ proc \in [Proc -> {proc[o] : o \in Proc}]
    BY FrameFields, TypeParts DEF KeyOK, DropLocal, At, FramesTyped
  <1>2. proc'[p].pc = "publish"
    BY <1>1, FrameFields DEF DropLocal, Move, FrameType
  <1>3. FrameOK(h, proc[p])'
    BY <1>2
       DEF FrameOK, MinOK, HoldsOK, SinceOK, WaitOK, Reading, BeforeFetch
  <1>4. \A o \in Proc \ {p} : proc'[o] = proc[o]
    BY <1>1 DEF DropLocal, Move
  <1>5. AnswersOK'
    BY DEF DropLocal, Move, Inv, AnswersOK
  <1> QED
    BY <1>1, <1>3, <1>4, <1>5, ToldKeeps DEF DropLocal, storeVars

(* A store's counter of t is bumped, and the replica that sees to it is    *)
(* told, or not.                                                           *)
LEMMA BumpKeeps ==
  ASSUME TypeInv, TypeInv', scenario' = scenario, NEW h, Inv(h),
         NEW r \in Replica, NEW t \in GenKey, BumpCounter(Auth(r), t),
         \/ floor' = floor
         \/ ~HasGens /\ floor' = [floor EXCEPT ![r][t] = src],
         UNCHANGED <<src, val, load, gc>>, AnswersOK',
         \A p \in Proc : proc'[p] = proc[p] \/ \A h2 : FrameOK(h2, proc[p])'
  PROVE  \E h2 : Inv(h2)'
  <1>a. /\ Auth(r) \in Stores
        /\ \A r2 \in Replica : Auth(r2) \in Stores /\ Auth(r2)' = Auth(r2)
    BY DEF Auth, Stores, HasL2
  <1>1. PICK h2 : Extends(h, h2) /\ HistoryOK(h2)' /\ CountersOK(h2)'
    BY <1>a, BumpMints
  <1>b. \A s \in Stores, t2 \in GenKey :
          bumped'[s][t2] = IF s = Auth(r) /\ t2 = t THEN src ELSE bumped[s][t2]
    BY <1>a, TypeParts DEF BumpCounter, GhostsTyped
  <1>f. \A r2 \in Replica, t2 \in GenKey :
          \/ floor'[r2][t2] = floor[r2][t2]
          \/ ~HasGens /\ r2 = r /\ t2 = t /\ floor'[r2][t2] = src
    BY TypeParts DEF GhostsTyped
  <1>s. \A r2 \in Replica, t2 \in GenKey, k \in Key : floor[r2][t2][k] <= src[k]
    <2> TAKE r2 \in Replica, t2 \in GenKey, k \in Key
    <2>1. /\ floor[r2][t2][k] <= bumped[Auth(r2)][t2][k]
          /\ bumped[Auth(r2)][t2][k] <= src[k]
      BY <1>a DEF Inv, FloorsOK
    <2> QED  BY <1>a, <2>1, Versions
  <1>2. SourceGrows /\ FloorsGrow
    BY <1>f, <1>s, Versions DEF SourceGrows, FloorsGrow
  <1>3. CopiesGrow
    BY <1>f, TypeParts DEF CopiesGrow, CopyGrows, CopyType
  <1>4. Grows(h, h2)
    BY <1>1, <1>2, <1>3, LoadsStay DEF Grows
  <1>5. FloorsOK'
    <2> SUFFICES ASSUME NEW t2 \in GenKey, NEW k \in Key
                 PROVE  /\ \A s \in Stores : bumped'[s][t2][k] <= src[k]
                        /\ \A r2 \in Replica :
                             floor'[r2][t2][k] <= bumped'[Auth(r2)][t2][k]
      BY <1>a DEF FloorsOK, Stores
    <2>1. \A s \in Stores : bumped'[s][t2][k] <= src[k]
      BY <1>b, Versions DEF Inv, FloorsOK
    <2>2. ASSUME NEW r2 \in Replica
          PROVE  floor'[r2][t2][k] <= bumped'[Auth(r2)][t2][k]
      BY <1>a, <1>b, <1>f, <1>s, Versions DEF Inv, FloorsOK
    <2> QED  BY <2>1, <2>2
  <1>6. CopiesOK(h2)'
    BY <1>1, <1>f DEF Inv, CopiesOK, HasGens, Extends, Minted
  <1> QED  BY <1>1, <1>4, <1>5, <1>6, InvNext

LEMMA BumpStepKeeps ==
  ASSUME TypeInv, TypeInv', scenario' = scenario, NEW h, Inv(h),
         NEW p \in Proc, Bump(p)
  PROVE  \E h2 : Inv(h2)'
  <1> DEFINE q == proc[p]
  <1>1. q.rep \in Replica /\ q.key \in GenKey
    BY FrameFields DEF KeyOK, Bump, At
  <1>2. /\ proc'[p].pc = "drop"
        /\ \A o \in Proc \ {p} : proc'[o] = proc[o]
    <2>1. proc \in [Proc -> {proc[o] : o \in Proc}]
      BY TypeParts DEF FramesTyped
    <2> QED  BY <2>1, FrameFields DEF Bump, Move, FrameType
  <1>3. ASSUME NEW h2
        PROVE  FrameOK(h2, proc[p])'
    BY <1>2 DEF FrameOK, MinOK, HoldsOK, SinceOK, WaitOK, Reading, BeforeFetch
  <1>4. AnswersOK'
    BY DEF Bump, Move, Inv, AnswersOK
  <1>5. CASE BumpCounter(Auth(q.rep), q.key)
    BY <1>1, <1>2, <1>3, <1>4, <1>5, BumpKeeps DEF Bump
  <1>6. CASE UNCHANGED <<ctr, draws, bumped>>
    <2>1. Inv(h)'
      BY <1>3, <1>6, MoveStep DEF Bump
    <2> QED  BY <2>1
  <1> QED  BY <1>5, <1>6 DEF Bump

-----------------------------------------------------------------------------
(* Events, and the environment.                                            *)

LEMMA EventKeeps ==
  ASSUME TypeInv, TypeInv', scenario' = scenario, NEW h, Inv(h),
         NEW r \in Replica,
         \/ \E t \in GenKey : OnTagEvent(r, t)
         \/ \E pk \in PKey : OnKeyEvent(r, pk)
  PROVE  \E h2 : Inv(h2)'
  <1>a. ASSUME UNCHANGED answers
        PROVE  AnswersOK'
    BY <1>a DEF Inv, AnswersOK
  <1>1. ASSUME NEW t \in GenKey, OnTagEvent(r, t)
        PROVE  \E h2 : Inv(h2)'
    <2>u. UNCHANGED <<proc, answers, src, val, load>>
      BY <1>1 DEF OnTagEvent
    <2>1. CASE HasGens
      <3>1. /\ gc' = [gc EXCEPT ![r] = drop(@, t)]
            /\ RaiseFloor(r, t) /\ UNCHANGED <<ctr, draws, bumped>>
        BY <1>1, <2>1 DEF OnTagEvent, HasGens
      <3>2. Inv(h)'
        BY <1>a, <2>1, <2>u, <3>1, ToldKeeps
      <3> QED  BY <3>2
    <2>2. CASE /\ ~HasGens /\ Auth(r) = r /\ gc' = gc
               /\ BumpCounter(r, t)
               /\ floor' = [floor EXCEPT ![r][t] = src]
      BY <1>a, <2>2, <2>u, BumpKeeps
    <2>3. CASE UNCHANGED <<gc, ctr, draws, bumped, floor>>
      <3>1. Inv(h)'
        BY <1>a, <2>3, <2>u, LoadsStay, QuietStep
      <3> QED  BY <3>1
    <2> QED
      BY <1>1, <2>1, <2>2, <2>3 DEF OnTagEvent, HasGens, Auth, HasL2, ghosts
  <1>2. ASSUME NEW pk \in PKey, OnKeyEvent(r, pk)
        PROVE  Inv(h)'
    <2>1. val' = val \/ StoresOK(h)'
      BY <1>2, StoreOK, NothingOK DEF OnKeyEvent, Stores
    <2> QED  BY <1>2, <1>a, <2>1, LoadsStay, QuietStep DEF OnKeyEvent, ghosts
  <1> QED  BY <1>1, <1>2

LEMMA EnvironmentKeeps ==
  ASSUME TypeInv, TypeInv', scenario' = scenario, NEW h, Inv(h),
         \/ \E k \in Key : Write(k)
         \/ \E s \in Stores : \/ \E pk \in PKey : EvictEntry(s, pk)
                              \/ \E t \in GenKey : EvictCounter(s, t)
  PROVE  Inv(h)'
  <1>a. ASSUME UNCHANGED answers
        PROVE  AnswersOK'
    BY <1>a DEF Inv, AnswersOK
  <1>c. UNCHANGED gc => \A r \in Replica : CopyGrows(gc[r], gc'[r])
    BY TypeParts DEF CopyGrows, CopyType
  <1>d. UNCHANGED <<gc, floor>> => CopiesGrow
    BY <1>c DEF CopiesGrow
  <1>1. ASSUME NEW k \in Key, Write(k)
        PROVE  Inv(h)'
    <2>u. UNCHANGED <<val, ctr, draws, gc, load, proc, answers, bumped, floor>>
      BY <1>1 DEF Write, storeVars, ghosts
    <2>1. \A j \in Key : /\ src[j] \in Nat /\ src'[j] \in Nat
                         /\ src[j] <= src'[j]
      BY <1>1, TypeParts, Versions DEF Write
    <2>2. SourceGrows /\ FloorsGrow
      BY <2>u, <2>1, Versions DEF SourceGrows, FloorsGrow
    <2>3. Grows(h, h)
      BY <1>d, <2>2, <2>u, LoadsStay DEF Grows, Extends
    <2>4. HistoryOK(h)'
      BY <2>1, <2>u DEF Inv, HistoryOK
    <2>5. CountersOK(h)' /\ CopiesOK(h)'
      BY <2>u DEF Inv, CountersOK, CounterOK, CopiesOK, HasGens
    <2>6. FloorsOK'
      <3>1. \A s \in Stores, t \in GenKey, j \in Key :
              bumped[s][t][j] \in Nat /\ bumped[s][t][j] <= src'[j]
        BY <2>1, Versions DEF Inv, FloorsOK
      <3> QED  BY <2>u, <3>1 DEF Inv, FloorsOK, Auth, HasL2
    <2> QED  BY <1>a, <2>u, <2>3, <2>4, <2>5, <2>6, InvNext
  <1>2. ASSUME NEW s \in Stores, NEW pk \in PKey, EvictEntry(s, pk)
        PROVE  Inv(h)'
    <2>1. Store(s, pk, NoEntry)
      BY <1>2 DEF EvictEntry, Store
    <2> QED
      BY <1>2, <1>a, <2>1, StoreOK, NothingOK, LoadsStay, QuietStep
         DEF EvictEntry, ghosts
  <1>3. ASSUME NEW s \in Stores, NEW t \in GenKey, EvictCounter(s, t)
        PROVE  Inv(h)'
    <2>u. UNCHANGED <<src, val, draws, gc, load, proc, answers, bumped, floor>>
      BY <1>3 DEF EvictCounter, ghosts
    <2>1. \A s2 \in Stores, t2 \in GenKey :
            ctr'[s2][t2] \in {NoGen, ctr[s2][t2]}
      BY <1>3, TypeParts DEF EvictCounter, StoresTyped
    <2>2. SourceGrows /\ FloorsGrow
      BY <2>u, Versions DEF SourceGrows, FloorsGrow
    <2>3. Grows(h, h)
      BY <1>d, <2>2, <2>u, LoadsStay DEF Grows, Extends
    <2>4. CountersOK(h)'
      BY <2>1, <2>u DEF Inv, CountersOK, CounterOK
    <2>5. HistoryOK(h)' /\ CopiesOK(h)' /\ FloorsOK'
      BY <2>u DEF Inv, HistoryOK, CopiesOK, FloorsOK, HasGens, Auth, HasL2
    <2> QED  BY <1>a, <2>u, <2>3, <2>4, <2>5, InvNext
  <1> QED  BY <1>1, <1>2, <1>3

-----------------------------------------------------------------------------
(* The theorems.                                                           *)

IInv == TypeInv /\ \E h : Inv(h)

LEMMA InitKeeps == Init => IInv
  <1> SUFFICES ASSUME Init PROVE \E h : Inv(h)
    BY InitTyped DEF IInv
  <1> DEFINE h == [g \in {} |-> g]
  <1>1. /\ \A s \in Stores, t \in GenKey : ctr[s][t] = NoGen
        /\ \A s \in Stores, pk \in PKey : val[s][pk] = NoEntry
        /\ \A r \in Replica, t \in GenKey : gc[r].m[t] = Missing
        /\ \A p \in Proc : proc[p] = Idle
        /\ \A c \in Load : load[c] = NoLoad
        /\ answers = {}
    BY DEF Init, newGenCache
  <1>2. HistoryOK(h) /\ CountersOK(h) /\ CopiesOK(h) /\ StoresOK(h) /\ AnswersOK
    BY <1>1, NothingOK
       DEF HistoryOK, CountersOK, CounterOK, CopiesOK, StoresOK, AnswersOK
  <1>3. FloorsOK
    <2>1. \A r \in Replica : Auth(r) \in Stores
      BY DEF Auth, Stores
    <2> QED  BY <2>1 DEF Init, FloorsOK, Stores
  <1>4. \A p \in Proc : FrameOK(h, proc[p])
    BY <1>1
       DEF FrameOK, MinOK, HoldsOK, SinceOK, WaitOK, Idle, Reading, BeforeFetch
  <1>5. \A c \in Load : LoadOK(h, load[c])
    <2>1. NoLoad.stage = "unborn"
      BY DEF NoLoad
    <2>2. LoadOK(h, NoLoad)
      BY <2>1 DEF LoadOK
    <2> QED  BY <1>1, <2>2
  <1> HIDE DEF h
  <1> QED  BY <1>2, <1>3, <1>4, <1>5 DEF Inv

LEMMA StepKeeps == IInv /\ [Next]_vars => IInv'
  <1> SUFFICES ASSUME TypeInv, TypeInv', NEW h, Inv(h), [Next]_vars
               PROVE  \E h2 : Inv(h2)'
    BY StepTyped DEF IInv
  <1>1. CASE UNCHANGED vars
    <2>1. AnswersOK'
      BY <1>1 DEF Inv, AnswersOK, vars
    <2>2. Inv(h)'
      BY <1>1, <2>1, LoadsStay, QuietStep DEF vars
    <2> QED  BY <2>2
  <1>2. CASE Next
    <2>s. Step /\ scenario' = scenario /\ scenario.keys \subseteq Key
      BY <1>2, TypeParts, ScenarioFields DEF Next
    <2>1. ASSUME \/ \E k \in scenario.keys : Write(k)
                 \/ \E s \in Stores : \/ \E pk \in PKey : EvictEntry(s, pk)
                                      \/ \E t \in GenKey : EvictCounter(s, t)
          PROVE  \E h2 : Inv(h2)'
      <3>1. Inv(h)'
        BY <2>s, <2>1, EnvironmentKeeps
      <3> QED  BY <3>1
    <2>2. ASSUME NEW p \in Proc, NEW r \in Replica, NEW k \in scenario.keys,
                 \/ \E op \in {"Get", "GetOrLoad"} : BeginRead(p, op, r, k)
                 \/ BeginSet(p, r, k) \/ BeginDelete(p, r, k)
                 \/ \E t \in Tags(k) : BeginInvalidate(p, r, t)
          PROVE  \E h2 : Inv(h2)'
      <3>1. k \in Key /\ \A t \in Tags(k) : t \in GenKey
        BY <2>s, TagsOfSeq
      <3>2. Inv(h)'
        BY <2>s, <2>2, <3>1, BeginKeeps
      <3> QED  BY <3>2
    <2>3. ASSUME NEW p \in Proc, ReadStep(p)
          PROVE  \E h2 : Inv(h2)'
      <3>1. CASE Fetch(p)
        BY <2>s, <3>1, FetchKeeps
      <3>2. CASE ~Fetch(p)
        <4>1. Inv(h)'
          BY <2>s, <2>3, <3>2, LookKeeps, DecideKeeps, FlightKeeps DEF ReadStep
        <4> QED  BY <4>1
      <3> QED  BY <3>1, <3>2
    <2>4. ASSUME NEW p \in Proc, WriteStep(p)
          PROVE  \E h2 : Inv(h2)'
      <3>1. CASE Bump(p) \/ SetGens(p)
        BY <2>s, <3>1, BumpStepKeeps, SetGensKeeps
      <3>2. CASE ~(Bump(p) \/ SetGens(p))
        <4>1. Inv(h)'
          BY <2>s, <2>4, <3>2, DropLocalKeeps, WriteKeeps DEF WriteStep
        <4> QED  BY <4>1
      <3> QED  BY <3>1, <3>2
    <2>5. ASSUME NEW c \in Load, LoadStep(c) \/ Deadline(c)
          PROVE  \E h2 : Inv(h2)'
      <3>1. Inv(h)'
        BY <2>s, <2>5, LoadKeeps
      <3> QED  BY <3>1
    <2>6. ASSUME NEW r \in Replica,
                 \/ \E t \in GenKey : OnTagEvent(r, t)
                 \/ \E pk \in PKey : OnKeyEvent(r, pk)
          PROVE  \E h2 : Inv(h2)'
      BY <2>s, <2>6, EventKeeps
    <2> QED  BY <2>s, <2>1, <2>2, <2>3, <2>4, <2>5, <2>6 DEF Step
  <1> QED  BY <1>1, <1>2

(* Generations, entries, copies, loads and frames stay what they say.      *)
THEOREM InvHolds == Spec => []IInv
  BY InitKeeps, StepKeeps, PTL DEF Spec

(* T-01: GetOrLoad and Get answer with a value of the key asked for, also  *)
(* when keys of different owners share a physical key and are told apart   *)
(* by their tags alone, from L1, L2 or a coalesced load, generations       *)
(* readable or not (#134).                                                 *)
THEOREM NeverCrossesOwners == Spec => []NoCrossOwner
  <1>1. IInv => NoCrossOwner
    BY DEF IInv, Inv, AnswersOK, NoCrossOwner
  <1> QED  BY <1>1, InvHolds, PTL

(* T-13, #112, #113: once InvalidateTag has dropped the tag on a replica,  *)
(* or its event was applied there, a read that begins answers with the     *)
(* source as it was at the bump, or newer, when it could read generations: *)
(* whatever loads, backfills, puts into the copy, evictions, lost events   *)
(* and failures were under way.                                            *)
THEOREM NeverStaleAfterInvalidate == Spec => []ReadAfterInvalidate
  <1>1. IInv => ReadAfterInvalidate
    BY DEF IInv, Inv, AnswersOK, ReadAfterInvalidate
  <1> QED  BY <1>1, InvHolds, PTL
==============================================================================
