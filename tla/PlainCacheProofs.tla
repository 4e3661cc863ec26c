--------------------------- MODULE PlainCacheProofs ---------------------------
(***************************************************************************)
(* Proofs about PlainCache, for every number of replicas, goroutines,      *)
(* loads and versions, every TTL, jitter and timeout, and with every       *)
(* fault: nothing is served past the TTL it was written with, what a load  *)
(* stored late is stale for no longer than its timeout and the longest     *)
(* TTL, and a Delete that no older value crossed is seen for ever where it *)
(* ran or was heard, and everywhere one L1 TTL later.                      *)
(*                                                                         *)
(* The first half follows each envelope from write() to the stores: what   *)
(* is said of it holds wherever it is kept or copied.  The second follows  *)
(* a version v that is free: no store that a replica reads, and nothing    *)
(* on its way there, has an older one; whatever is read or loaded after    *)
(* that is of v or newer.                                                  *)
(***************************************************************************)
EXTENDS PlainCache, TLAPS

-----------------------------------------------------------------------------
(* Types.                                                                  *)

LongestOf(s) == CHOOSE d \in s.asked : \A x \in s.asked : x <= d

EnvType(s) ==
    [ver : 0..s.maxVersion, at : 0..s.maxTime,
     expires : 0..(s.maxTime + LongestOf(s)),
     limit : 0..(s.maxTime + LongestOf(s)), bySet : BOOLEAN]

StoreType(s) == [env : EnvType(s), until : Nat, lag : Nat]

LoadType(s) ==
    [stage : {"unborn", "load", "loaded", "setL2", "setL1", "done", "gone"},
     rep : Replica \cup {"none"}, start : Nat, want : Nat,
     env : EnvType(s), ttl : Nat]

FrameType(s) ==
    [pc : {"idle", "failed", "l2get", "flight", "clamp", "fill", "write",
           "setL2", "setL1", "delL1", "delL2", "publish"},
     rep : Replica \cup {"none"}, ver : 0..s.maxVersion,
     env : EnvType(s), ttl : Nat, since : Nat, err : BOOLEAN]

-----------------------------------------------------------------------------
(* What write() makes of a value, at time t, the source being at v.        *)
Written(e, s, t, v) ==
    /\ e.at <= t /\ e.at < e.expires /\ e.expires <= e.limit
    /\ e.limit <= e.at + LongestOf(s) /\ e.ver <= v

(* A load stores a value before its timeout has passed, and it began       *)
(* before the source moved past that value.                                *)
Timely(e, s, v, ch) ==
    e.bySet \/ (e.ver < v => e.at < ch[e.ver] + s.loadTimeout)

Sound(e, s, t, v, ch) == Written(e, s, t, v) /\ Timely(e, s, v, ch)

(* A lifetime in L1, counted from when it was computed.                    *)
Fits(ttl, since, e, s, t) ==
    ttl \in 1..s.l1TTL /\ since <= t /\ since + ttl <= e.expires

EntryOK(x, s, t, v, ch, inL1) ==
    x # NoEntry =>
      /\ Sound(x.env, s, t, v, ch)
      /\ t < x.until /\ x.until <= x.env.expires + x.lag
      /\ inL1 => x.until <= t + s.l1TTL

LoadOK(l, s, t, v, ch) ==
    /\ l.stage = "unborn" => l = NoLoad
    /\ l.stage \in {"load", "loaded", "setL2", "setL1"} =>
         /\ l.start <= t /\ l.want \in s.asked /\ l.rep \in Replica
         /\ l.env.bySet = FALSE
    /\ l.stage \in {"loaded", "setL2", "setL1", "done"} => l.env.ver <= v
    /\ l.stage \in {"loaded", "setL2", "setL1"} =>
         (l.env.ver < v => l.start <= ch[l.env.ver])
    /\ l.stage \in {"setL2", "setL1"} =>
         Written(l.env, s, t, v) /\ Fits(l.ttl, l.env.at, l.env, s, t)
    /\ l.stage = "setL2" => s.level # "L1"
    /\ l.stage = "setL1" => s.level # "L2"

FrameOK(q, s, t, v, ch) ==
    /\ q.pc # "idle" => q.rep \in Replica
    /\ q.pc \in {"write", "setL2", "setL1", "delL1", "delL2", "publish"} =>
         q.ver <= v
    /\ q.pc = "write" => q.ttl \in s.asked
    /\ q.pc \in {"setL2", "setL1"} =>
         /\ Written(q.env, s, t, v) /\ q.env.bySet /\ q.env.ver = q.ver
         /\ Fits(q.ttl, q.env.at, q.env, s, t)
    /\ q.pc \in {"clamp", "fill"} => Sound(q.env, s, t, v, ch)
    /\ q.pc = "fill" => Fits(q.ttl, q.since, q.env, s, t)
    /\ q.pc \in {"setL2", "delL2"} => s.level # "L1"
    /\ q.pc \in {"setL1", "clamp", "fill", "delL1"} => s.level # "L2"

(* A level the cache was not given holds nothing.                          *)
LevelsOK ==
    /\ ~HasL1 => \A r \in Replica : store[r] = NoEntry
    /\ ~HasL2 => store[L2] = NoEntry /\ late = {}

ClockOK ==
    /\ scenario \in Scenarios
    /\ now \in 0..scenario.maxTime /\ src \in 0..scenario.maxVersion
    /\ changed \in [0..scenario.maxVersion -> Nat]

StoresOK ==
    /\ store \in [Stores -> StoreType(scenario)]
    /\ \A x \in Stores :
         EntryOK(store[x], scenario, now, src, changed, x \in Replica)

LateOK ==
    /\ late \subseteq EnvType(scenario)
    /\ \A e \in late : Sound(e, scenario, now, src, changed)

LoadsOK ==
    /\ load \in [1..scenario.maxLoads -> LoadType(scenario)]
    /\ \A c \in Load : LoadOK(load[c], scenario, now, src, changed)

ProcsOK ==
    /\ proc \in [Proc -> FrameType(scenario)]
    /\ \A p \in Proc : FrameOK(proc[p], scenario, now, src, changed)

RestOK ==
    /\ bus \in [Replica -> SUBSET [ver : 0..scenario.maxVersion]]
    /\ begun \in 0..scenario.maxOps /\ calm \subseteq Proc
    /\ floor \in [Replica -> 0..scenario.maxVersion]
    /\ cleanAt \in [0..scenario.maxVersion -> 0..(scenario.maxTime + 1)]

DataInv ==
    ClockOK /\ StoresOK /\ LateOK /\ LoadsOK /\ ProcsOK /\ RestOK /\ LevelsOK

-----------------------------------------------------------------------------
(* Versions that are free.                                                 *)

LoadOlder(l, v) ==
    l.stage \in {"loaded", "setL2", "setL1", "done"} /\ l.env.ver < v
SetOlder(q, v) == q.pc \in {"write", "setL2", "setL1"} /\ q.ver < v
CopyOlder(q, v) == q.pc \in {"clamp", "fill"} /\ q.env.ver < v

(* The entry x is none older than v.                                       *)
FreeOf(x, v) == x = NoEntry \/ v <= x.env.ver

(* Nothing older is in the shared store, or can reach it.                  *)
L2Free ==
    {v \in 0..scenario.maxVersion :
       /\ v <= src /\ FreeOf(store[L2], v)
       /\ \A e \in late : v <= e.ver
       /\ HasL2 => /\ \A c \in Load : ~LoadOlder(load[c], v)
                   /\ \A p \in Proc : ~SetOlder(proc[p], v)}

(* Nothing older can reach r's own copy, but from the shared store.        *)
FlightFree(r) ==
    {v \in 0..scenario.maxVersion :
       /\ \A c \in Load : load[c].rep = r => ~LoadOlder(load[c], v)
       /\ \A p \in Proc : proc[p].rep = r =>
            ~SetOlder(proc[p], v) /\ ~CopyOlder(proc[p], v)}

FloorOK ==
    \A r \in Replica :
      /\ floor[r] \in L2Free /\ floor[r] \in FlightFree(r)
      /\ FreeOf(store[r], floor[r])

BusOK == \A r \in Replica : \A e \in bus[r] : e.ver \in L2Free

(* What a Delete that nothing older crossed has deleted.                   *)
DeletesOK ==
    \A p \in calm :
      /\ proc[p].pc \in {"delL2", "publish"} /\ ~proc[p].err =>
           FreeOf(store[proc[p].rep], proc[p].ver)
      /\ proc[p].pc = "publish" /\ ~proc[p].err =>
           FreeOf(store[L2], proc[p].ver)

CleanOK ==
    \A v \in 0..scenario.maxVersion :
      /\ cleanAt[v] <= now \/ cleanAt[v] = scenario.maxTime + 1
      /\ cleanAt[v] <= now =>
           /\ v \in L2Free
           /\ \A r \in Replica :
                /\ v \in FlightFree(r)
                /\ \/ FreeOf(store[r], v)
                   \/ store[r].until <= cleanAt[v] + scenario.l1TTL

FreeInv == FloorOK /\ BusOK /\ DeletesOK /\ CleanOK

-----------------------------------------------------------------------------
(* TTLs.                                                                   *)

LEMMA ScenarioIs ==
  ASSUME NEW s \in Scenarios
  PROVE  /\ s \in ScenarioType
         /\ s.maxTime \in Nat /\ s.maxVersion \in Nat /\ s.loadTimeout \in Nat \ {0}
         /\ s.l1TTL \in Nat \ {0} /\ s.negTTL \in Nat
         /\ s.level \in {"both", "L1", "L2"} /\ s.jitter \subseteq 1..Scale
         /\ s.asked \subseteq Nat \ {0}
         /\ LongestOf(s) \in s.asked
         /\ \A x \in s.asked : x <= LongestOf(s)
         /\ s.negTTL <= LongestOf(s) /\ s.l1TTL <= LongestOf(s)
  <1>1. s \in ScenarioType
    BY PlainAssumption DEF PlainAssumption
  <1>2. /\ s.l1TTL \in 1..s.ttl /\ s.negTTL \in 0..s.ttl
        /\ s.loadTimeout > 0 /\ s.ttl \in s.asked /\ 0 \notin s.asked
        /\ \E d \in s.asked : \A x \in s.asked : x <= d
    BY PlainAssumption DEF PlainAssumption
  <1>3. LongestOf(s) \in s.asked /\ \A x \in s.asked : x <= LongestOf(s)
    BY <1>2 DEF LongestOf
  <1>4. /\ s.maxTime \in Nat /\ s.maxVersion \in Nat /\ s.loadTimeout \in Nat
        /\ s.ttl \in Nat /\ s.asked \subseteq Nat
        /\ s.level \in {"both", "L1", "L2"} /\ s.jitter \subseteq 1..Scale
    BY <1>1 DEF ScenarioType
  <1>5. s.ttl <= LongestOf(s) /\ LongestOf(s) \in Nat
    BY <1>2, <1>3, <1>4
  <1> QED  BY <1>1, <1>2, <1>3, <1>4, <1>5

LEMMA DivMonotone ==
  ASSUME NEW a \in Nat, NEW b \in Nat, a <= b, NEW m \in Nat, m > 0
  PROVE  a \div m <= b \div m /\ a \div m \in Nat
  <1> DEFINE x == a \div m
             y == b \div m
  <1>1. /\ x \in Nat /\ m * x <= a /\ y \in Nat /\ b < m * y + m
    OBVIOUS
  <1> HIDE DEF x, y
  <1>2. CASE x <= y
    BY <1>1, <1>2 DEF x, y
  <1>3. CASE x >= y + 1
    <2>1. m * x >= m * (y + 1)
      BY <1>1, <1>3
    <2>2. m * (y + 1) = m * y + m
      BY <1>1
    <2>3. m * x \in Nat /\ m * y \in Nat
      BY <1>1
    <2> QED  BY <1>1, <2>1, <2>2, <2>3
  <1> QED  BY <1>1, <1>2, <1>3

(* Jitter never lengthens a TTL, nor makes it nothing, nor turns a shorter *)
(* one into a longer.                                                      *)
LEMMA ScaledIs ==
  ASSUME NEW d \in Nat \ {0}, NEW n \in 1..Scale
  PROVE  /\ scaled(d, n) \in Nat /\ 1 <= scaled(d, n) /\ scaled(d, n) <= d
         /\ \A c \in Nat : c <= d => scaled(c, n) <= scaled(d, n)
  <1>0. Scale \in Nat /\ Scale > 0 /\ n \in Nat
    BY PlainAssumption DEF PlainAssumption
  <1>1. d * n <= d * Scale /\ d * n \in Nat
    BY <1>0
  <1>2. (d * n) \div Scale \in Nat /\ (d * n) \div Scale <= d
    BY <1>0, <1>1
  <1>3. \A c \in Nat : c <= d => (c * n) \div Scale <= (d * n) \div Scale
                                 /\ (c * n) \div Scale \in Nat
    <2> TAKE c \in Nat
    <2> HAVE c <= d
    <2>1. c * n <= d * n /\ c * n \in Nat
      BY <1>0
    <2>2. \A a, b, m \in Nat : a <= b /\ m > 0 => a \div m <= b \div m /\ a \div m \in Nat
      BY DivMonotone
    <2> QED  BY ONLY <1>0, <1>1, <2>1, <2>2, Zenon
  <1>4. \A x, y \in Nat : x <= y => Most(x, 1) <= Most(y, 1)
    BY DEF Most
  <1>5. \A c \in Nat : c <= d => scaled(c, n) <= scaled(d, n)
    BY ONLY <1>2, <1>3, <1>4, Zenon DEF scaled
  <1>6. \A x \in Nat : x <= d => Most(x, 1) \in Nat /\ 1 <= Most(x, 1) /\ Most(x, 1) <= d
    BY DEF Most
  <1>7. scaled(d, n) \in Nat /\ 1 <= scaled(d, n) /\ scaled(d, n) <= d
    BY ONLY <1>2, <1>6, Zenon DEF scaled
  <1> QED  BY <1>5, <1>7

(* write(): the envelope of a value that is ver, and how long L1 keeps it. *)
LEMMA EnvelopeIs ==
  ASSUME ClockOK, NEW ver \in 0..scenario.maxVersion, ver <= src,
         NEW want \in Nat \ {0}, want <= LongestOf(scenario),
         NEW n \in scenario.jitter, NEW bySet \in BOOLEAN
  PROVE  LET e == Envelope(ver, want, n, bySet) IN
         /\ e \in EnvType(scenario) /\ e.ver = ver /\ e.bySet = bySet
         /\ Written(e, scenario, now, src)
         /\ L1TTLOf(want, n) \in Nat
         /\ Fits(L1TTLOf(want, n), e.at, e, scenario, now)
  <1> DEFINE e == Envelope(ver, want, n, bySet)
             l1 == Least(want, scenario.l1TTL)
  <1>s. /\ scenario \in Scenarios /\ now \in 0..scenario.maxTime
        /\ scenario.maxTime \in Nat /\ scenario.l1TTL \in Nat \ {0}
        /\ n \in 1..Scale /\ LongestOf(scenario) \in Nat /\ now \in Nat
    BY ScenarioIs DEF ClockOK
  <1>1. /\ scaled(want, n) \in Nat /\ 1 <= scaled(want, n) /\ scaled(want, n) <= want
        /\ \A c \in Nat : c <= want => scaled(c, n) <= scaled(want, n)
    BY <1>s, ScaledIs
  <1>2. l1 \in Nat \ {0} /\ l1 <= want /\ l1 <= scenario.l1TTL
    BY <1>s DEF Least
  <1>3. /\ scaled(l1, n) \in Nat /\ 1 <= scaled(l1, n) /\ scaled(l1, n) <= l1
        /\ scaled(l1, n) <= scaled(want, n)
    BY <1>1, <1>2, <1>s, ScaledIs
  <1>4. L1TTLOf(want, n) = scaled(l1, n)
    BY DEF L1TTLOf
  <1>5. /\ e.ver = ver /\ e.at = now /\ e.expires = now + scaled(want, n)
        /\ e.limit = now + want /\ e.bySet = bySet
        /\ e \in [ver : {ver}, at : {now}, expires : {now + scaled(want, n)},
                  limit : {now + want}, bySet : {bySet}]
    BY DEF Envelope
  <1> HIDE DEF e, l1
  <1>6. /\ now + scaled(want, n) \in 0..(scenario.maxTime + LongestOf(scenario))
        /\ now + want \in 0..(scenario.maxTime + LongestOf(scenario))
    BY <1>1, <1>s
  <1>7. e \in EnvType(scenario)
    BY <1>5, <1>6, <1>s DEF EnvType
  <1>8. Written(e, scenario, now, src)
    BY <1>1, <1>5, <1>s DEF Written
  <1>9. Fits(scaled(l1, n), e.at, e, scenario, now)
    BY <1>1, <1>2, <1>3, <1>5, <1>s DEF Fits
  <1> QED  BY <1>3, <1>4, <1>5, <1>7, <1>8, <1>9 DEF e

-----------------------------------------------------------------------------
(* Parts of the state.                                                     *)

LEMMA StoresKeep ==
  ASSUME StoresOK, UNCHANGED <<scenario, now, src, changed>>,
         NEW x \in Stores, NEW e,
         \/ e = NoEntry
         \/ /\ e \in StoreType(scenario)
            /\ EntryOK(e, scenario, now, src, changed, x \in Replica),
         NoEntry \in StoreType(scenario),
         store' = [store EXCEPT ![x] = e]
  PROVE  StoresOK'
  <1>1. e \in StoreType(scenario) /\ EntryOK(e, scenario, now, src, changed, x \in Replica)
    BY DEF EntryOK
  <1>2. store \in [Stores -> StoreType(scenario)]
    BY DEF StoresOK
  <1>3. store' \in [Stores -> StoreType(scenario)]
    BY <1>1, <1>2
  <1>4. \A y \in Stores : EntryOK(store'[y], scenario, now, src, changed, y \in Replica)
    BY <1>1, <1>2 DEF StoresOK
  <1> QED  BY <1>3, <1>4 DEF StoresOK

LEMMA LoadsKeep ==
  ASSUME LoadsOK, UNCHANGED <<scenario, now, src, changed>>,
         NEW c \in Load, NEW l \in LoadType(scenario),
         LoadOK(l, scenario, now, src, changed),
         load' = [load EXCEPT ![c] = l]
  PROVE  LoadsOK'
  <1>1. load \in [Load -> LoadType(scenario)]
    BY DEF LoadsOK, Load
  <1>2. load' \in [Load -> LoadType(scenario)]
    BY <1>1
  <1>3. \A d \in Load : LoadOK(load'[d], scenario, now, src, changed)
    BY <1>1 DEF LoadsOK
  <1> QED  BY <1>2, <1>3 DEF LoadsOK, Load

LEMMA ProcsKeep ==
  ASSUME ProcsOK, UNCHANGED <<scenario, now, src, changed>>,
         NEW p \in Proc, NEW q \in FrameType(scenario),
         FrameOK(q, scenario, now, src, changed), Move(p, q)
  PROVE  ProcsOK'
  <1>1. proc \in [Proc -> FrameType(scenario)] /\ proc' = [proc EXCEPT ![p] = q]
    BY DEF ProcsOK, Move
  <1>2. proc' \in [Proc -> FrameType(scenario)]
    BY <1>1
  <1>3. \A o \in Proc : FrameOK(proc'[o], scenario, now, src, changed)
    BY <1>1 DEF ProcsOK
  <1> QED  BY <1>2, <1>3 DEF ProcsOK

(* What a step leaves alone stays as it was.                               *)
LEMMA SameParts ==
  ASSUME UNCHANGED <<scenario, now, src, changed>>, DataInv
  PROVE  /\ ClockOK'
         /\ UNCHANGED store => StoresOK'
         /\ UNCHANGED late => LateOK'
         /\ UNCHANGED load => LoadsOK'
         /\ UNCHANGED proc => ProcsOK'
         /\ UNCHANGED <<bus, floor, cleanAt>> /\ begun' = begun
              /\ calm' \subseteq calm => RestOK'
         /\ UNCHANGED <<store, late>> => LevelsOK'
  <1>1. ClockOK'
    BY DEF DataInv, ClockOK
  <1>2. UNCHANGED store => StoresOK'
    BY DEF DataInv, StoresOK
  <1>3. UNCHANGED late => LateOK'
    BY DEF DataInv, LateOK
  <1>4. UNCHANGED load => LoadsOK'
    BY DEF DataInv, LoadsOK, Load
  <1>5. UNCHANGED proc => ProcsOK'
    BY DEF DataInv, ProcsOK
  <1>6. UNCHANGED <<bus, floor, cleanAt>> /\ begun' = begun /\ calm' \subseteq calm => RestOK'
    BY DEF DataInv, RestOK
  <1>7. UNCHANGED <<store, late>> => LevelsOK'
    BY DEF DataInv, LevelsOK, HasL1, HasL2
  <1> QED  BY <1>1, <1>2, <1>3, <1>4, <1>5, <1>6, <1>7

LEMMA NothingIs ==
  ASSUME scenario \in Scenarios
  PROVE  /\ NoEnvelope \in EnvType(scenario) /\ NoEntry \in StoreType(scenario)
         /\ NoLoad \in LoadType(scenario) /\ Idle \in FrameType(scenario)
  <1>1. /\ scenario.maxTime \in Nat /\ scenario.maxVersion \in Nat
        /\ LongestOf(scenario) \in Nat
    BY ScenarioIs
  <1>2. NoEnvelope \in EnvType(scenario)
    BY <1>1 DEF NoEnvelope, EnvType
  <1>3. NoEntry \in StoreType(scenario)
    BY <1>2 DEF NoEntry, StoreType
  <1>4. NoLoad \in LoadType(scenario)
    BY <1>2 DEF NoLoad, LoadType
  <1>5. Idle \in FrameType(scenario)
    BY <1>1, <1>2 DEF Idle, FrameType
  <1> QED  BY <1>2, <1>3, <1>4, <1>5

(* A store holds what it is given for a lifetime that fits the envelope.   *)
LEMMA PutKeeps ==
  ASSUME DataInv, UNCHANGED <<scenario, now, src, changed>>,
         NEW x \in Stores, NEW e \in EnvType(scenario),
         NEW ttl \in Nat \ {0}, NEW since \in Nat,
         Sound(e, scenario, now, src, changed),
         since <= now, since + ttl <= e.expires,
         x \in Replica => ttl <= scenario.l1TTL /\ HasL1,
         x = L2 => HasL2,
         store' = [store EXCEPT ![x] = [env |-> e, until |-> now + ttl,
                                        lag |-> now - since]]
  PROVE  /\ StoresOK'
         /\ late' = late \/ HasL2 => LevelsOK'
  <1> DEFINE y == [env |-> e, until |-> now + ttl, lag |-> now - since]
  <1>s. scenario \in Scenarios /\ now \in Nat /\ scenario.l1TTL \in Nat
    BY ScenarioIs DEF DataInv, ClockOK
  <1>1. e.expires \in Nat
    BY <1>s, ScenarioIs DEF EnvType
  <1>2. y \in StoreType(scenario)
    BY <1>s DEF StoreType
  <1>3. EntryOK(y, scenario, now, src, changed, x \in Replica)
    BY <1>s, <1>1 DEF EntryOK
  <1> HIDE DEF y
  <1>4. StoresOK'
    <2>1. store' = [store EXCEPT ![x] = y]
      BY DEF y
    <2> QED  BY <2>1, <1>2, <1>3, <1>s, StoresKeep, NothingIs DEF DataInv
  <1>5. late' = late \/ HasL2 => LevelsOK'
    <2>1. store \in [Stores -> StoreType(scenario)] /\ store' = [store EXCEPT ![x] = y]
      BY DEF DataInv, StoresOK, y
    <2>2. LevelsOK /\ (HasL1' <=> HasL1) /\ (HasL2' <=> HasL2)
      BY DEF DataInv, HasL1, HasL2
    <2>3. x \in Replica \/ x = L2
      BY DEF Stores
    <2>4. Replica \subseteq Stores /\ L2 \in Stores /\ L2 \notin Replica
      BY PlainAssumption DEF PlainAssumption, Stores
    <2> QED  BY ONLY <2>1, <2>2, <2>3, <2>4, x \in Replica => HasL1, x = L2 => HasL2
             DEF LevelsOK
  <1> QED  BY <1>4, <1>5

(* And so for a SET to Redis, at once or later.                            *)
LEMMA PutL2Keeps ==
  ASSUME DataInv, UNCHANGED <<scenario, now, src, changed>>, HasL2,
         NEW e \in EnvType(scenario),
         Sound(e, scenario, now, src, changed),
         PutL2(TRUE, e)
  PROVE  StoresOK' /\ LateOK' /\ LevelsOK' /\ calm' \subseteq calm
  <1>s. /\ scenario \in Scenarios /\ now \in Nat /\ scenario.maxTime \in Nat
        /\ LongestOf(scenario) \in Nat
    BY ScenarioIs DEF DataInv, ClockOK
  <1>1. /\ e.expires \in Nat /\ e.at \in Nat /\ e.at < e.expires /\ e.at <= now
        /\ e.expires - e.at \in Nat \ {0} /\ e.at + (e.expires - e.at) <= e.expires
    BY <1>s DEF EnvType, Sound, Written
  <1>2. L2 \in Stores /\ L2 \notin Replica
    BY PlainAssumption DEF PlainAssumption, Stores
  <1>3. CASE Put(L2, e, e.expires - e.at, e.at)
    BY <1>1, <1>2, <1>3, PutKeeps, SameParts DEF Put
  <1>4. CASE NoPut
    BY <1>4, SameParts DEF NoPut
  <1>5. CASE late' = late \cup {e} /\ UNCHANGED <<store, calm>>
    <2>1. StoresOK'
      BY <1>5, SameParts
    <2>2. LateOK'
      BY <1>5 DEF DataInv, LateOK
    <2>3. LevelsOK'
      BY <1>5 DEF DataInv, LevelsOK, HasL1, HasL2
    <2> QED  BY <2>1, <2>2, <2>3, <1>5
  <1> QED  BY <1>3, <1>4, <1>5 DEF PutL2, PutIf

LEMMA PutL1Keeps ==
  ASSUME DataInv, UNCHANGED <<scenario, now, src, changed>>, HasL1,
         NEW x \in Replica, NEW e \in EnvType(scenario), NEW ttl, NEW since \in Nat,
         Sound(e, scenario, now, src, changed),
         Fits(ttl, since, e, scenario, now),
         PutIf(TRUE, x, e, ttl, since)
  PROVE  StoresOK' /\ LateOK' /\ LevelsOK' /\ calm' \subseteq calm
  <1>s. scenario \in Scenarios /\ scenario.l1TTL \in Nat
    BY ScenarioIs DEF DataInv, ClockOK
  <1>1. x \in Stores /\ x # L2
    BY PlainAssumption DEF PlainAssumption, Stores
  <1>2. /\ ttl \in Nat \ {0} /\ ttl <= scenario.l1TTL
        /\ since <= now /\ since + ttl <= e.expires
    BY <1>s DEF Fits
  <1>3. CASE Put(x, e, ttl, since)
    BY <1>1, <1>2, <1>3, PutKeeps, SameParts DEF Put
  <1>4. CASE NoPut
    BY <1>4, SameParts DEF NoPut
  <1> QED  BY <1>3, <1>4 DEF PutIf

-----------------------------------------------------------------------------
(* What is said of envelopes survives the clock and the source moving on.  *)
LEMMA LaterIs ==
  ASSUME ClockOK, NEW t \in Nat, now <= t,
         NEW v \in 0..scenario.maxVersion, src <= v,
         NEW ch \in [0..scenario.maxVersion -> Nat],
         \A x \in 0..scenario.maxVersion :
            (x < src => ch[x] = changed[x]) /\ (src <= x /\ x < v => now <= ch[x])
  PROVE  /\ \A e \in EnvType(scenario) :
              Sound(e, scenario, now, src, changed) => Sound(e, scenario, t, v, ch)
         /\ \A l \in LoadType(scenario) :
              LoadOK(l, scenario, now, src, changed) => LoadOK(l, scenario, t, v, ch)
         /\ \A q \in FrameType(scenario) :
              FrameOK(q, scenario, now, src, changed) => FrameOK(q, scenario, t, v, ch)
  <1>s. /\ scenario \in Scenarios /\ now \in Nat /\ src \in Nat /\ v \in Nat
        /\ scenario.maxVersion \in Nat /\ scenario.maxTime \in Nat
        /\ scenario.loadTimeout \in Nat \ {0} /\ LongestOf(scenario) \in Nat
        /\ scenario.l1TTL \in Nat
        /\ changed \in [0..scenario.maxVersion -> Nat]
    BY ScenarioIs DEF ClockOK
  <1>1. \A e \in EnvType(scenario) :
          Written(e, scenario, now, src) => Written(e, scenario, t, v)
    BY <1>s DEF EnvType, Written
  <1>2. \A e \in EnvType(scenario) :
          e.at <= now /\ Timely(e, scenario, src, changed) => Timely(e, scenario, v, ch)
    <2> TAKE e \in EnvType(scenario)
    <2> HAVE e.at <= now /\ Timely(e, scenario, src, changed)
    <2>1. e.ver \in 0..scenario.maxVersion /\ e.at \in Nat
      BY <1>s DEF EnvType
    <2>2. e.ver < src => ch[e.ver] = changed[e.ver]
      BY <2>1
    <2>3. src <= e.ver /\ e.ver < v => now <= ch[e.ver] /\ ch[e.ver] \in Nat
      BY <2>1
    <2> QED  BY <1>s, <2>1, <2>2, <2>3 DEF Timely
  <1>3. \A e \in EnvType(scenario) :
          Sound(e, scenario, now, src, changed) => Sound(e, scenario, t, v, ch)
    BY <1>1, <1>2 DEF Sound, Written
  <1>4. \A e, since, ttl : Fits(ttl, since, e, scenario, now) /\ since \in Nat
          => Fits(ttl, since, e, scenario, t)
    BY <1>s DEF Fits
  <1>5. \A l \in LoadType(scenario) :
          LoadOK(l, scenario, now, src, changed) => LoadOK(l, scenario, t, v, ch)
    <2> TAKE l \in LoadType(scenario)
    <2> HAVE LoadOK(l, scenario, now, src, changed)
    <2>1. /\ l.env \in EnvType(scenario) /\ l.start \in Nat
          /\ l.env.ver \in 0..scenario.maxVersion /\ l.env.at \in Nat
      BY <1>s DEF LoadType, EnvType
    <2>2. l.env.ver < src => ch[l.env.ver] = changed[l.env.ver]
      BY <2>1
    <2>3. src <= l.env.ver /\ l.env.ver < v => now <= ch[l.env.ver] /\ ch[l.env.ver] \in Nat
      BY <2>1
    <2>4. l.stage \in {"loaded", "setL2", "setL1"} =>
            (l.env.ver < v => l.start <= ch[l.env.ver])
      BY <1>s, <2>1, <2>2, <2>3 DEF LoadOK
    <2>5. l.stage \in {"load", "loaded", "setL2", "setL1"} => l.start <= t
      BY <1>s, <2>1 DEF LoadOK
    <2>6. l.stage \in {"loaded", "setL2", "setL1", "done"} => l.env.ver <= v
      BY <1>s, <2>1 DEF LoadOK
    <2>7. l.stage \in {"setL2", "setL1"} =>
            Written(l.env, scenario, t, v) /\ Fits(l.ttl, l.env.at, l.env, scenario, t)
      BY <1>1, <1>4, <2>1 DEF LoadOK
    <2> QED  BY <2>4, <2>5, <2>6, <2>7 DEF LoadOK
  <1>6. \A q \in FrameType(scenario) :
          FrameOK(q, scenario, now, src, changed) => FrameOK(q, scenario, t, v, ch)
    <2> TAKE q \in FrameType(scenario)
    <2> HAVE FrameOK(q, scenario, now, src, changed)
    <2>1. /\ q.env \in EnvType(scenario) /\ q.since \in Nat /\ q.env.at \in Nat
          /\ q.ver \in Nat
      BY <1>s DEF FrameType, EnvType
    <2>2. q.pc \in {"write", "setL2", "setL1", "delL1", "delL2", "publish"} => q.ver <= v
      BY <1>s, <2>1 DEF FrameOK
    <2>3. q.pc \in {"setL2", "setL1"} =>
            Written(q.env, scenario, t, v) /\ Fits(q.ttl, q.env.at, q.env, scenario, t)
      BY <1>1, <1>4, <2>1 DEF FrameOK
    <2>4. q.pc \in {"clamp", "fill"} => Sound(q.env, scenario, t, v, ch)
      BY <1>3, <2>1 DEF FrameOK
    <2>5. q.pc = "fill" => Fits(q.ttl, q.since, q.env, scenario, t)
      BY <1>4, <2>1 DEF FrameOK
    <2> QED  BY <2>2, <2>3, <2>4, <2>5 DEF FrameOK
  <1> QED  BY <1>3, <1>5, <1>6

LEMMA InitData == Init => DataInv
  <1> SUFFICES ASSUME Init PROVE DataInv
    OBVIOUS
  <1>s. /\ scenario \in Scenarios
        /\ scenario.maxVersion \in Nat /\ scenario.maxTime \in Nat
        /\ scenario.maxOps \in Nat
    BY ScenarioIs DEF Init, ScenarioType
  <1>1. ClockOK
    BY <1>s DEF Init, ClockOK, Never
  <1>2. StoresOK
    BY <1>s, NothingIs DEF Init, StoresOK, EntryOK
  <1>3. LateOK
    BY DEF Init, LateOK
  <1>4. LoadsOK
    BY <1>s, NothingIs DEF Init, LoadsOK, Load, LoadOK, NoLoad
  <1>5. ProcsOK
    BY <1>s, NothingIs DEF Init, ProcsOK, FrameOK, Idle
  <1>6. RestOK
    BY <1>s DEF Init, RestOK, Never
  <1>7. LevelsOK
    BY DEF Init, LevelsOK, Stores
  <1> QED  BY <1>1, <1>2, <1>3, <1>4, <1>5, <1>6, <1>7 DEF DataInv

LEMMA TickKeepsData ==
  ASSUME DataInv, Tick, UNCHANGED scenario
  PROVE  DataInv'
  <1>s. /\ scenario \in Scenarios /\ now \in Nat /\ scenario.maxTime \in Nat
        /\ scenario.l1TTL \in Nat /\ LongestOf(scenario) \in Nat
        /\ now' = now + 1 /\ now' \in 0..scenario.maxTime
        /\ src \in 0..scenario.maxVersion /\ scenario.maxVersion \in Nat
        /\ changed \in [0..scenario.maxVersion -> Nat]
    BY ScenarioIs DEF DataInv, ClockOK, Tick
  <1>l. /\ \A e \in EnvType(scenario) :
             Sound(e, scenario, now, src, changed) => Sound(e, scenario, now', src, changed)
        /\ \A l \in LoadType(scenario) :
             LoadOK(l, scenario, now, src, changed) => LoadOK(l, scenario, now', src, changed)
        /\ \A q \in FrameType(scenario) :
             FrameOK(q, scenario, now, src, changed) => FrameOK(q, scenario, now', src, changed)
    <2>1. ClockOK /\ now' \in Nat /\ now <= now' /\ src <= src
          /\ \A x \in 0..scenario.maxVersion : ~(src <= x /\ x < src)
      BY <1>s DEF DataInv
    <2> QED  BY ONLY <1>s, <2>1, LaterIs
  <1>u. UNCHANGED <<src, changed, late, load, bus, proc, begun, ghosts, scenario>>
    BY DEF Tick
  <1>1. ClockOK'
    BY <1>s, <1>u DEF DataInv, ClockOK
  <1>2. StoresOK'
    <2>1. store' = [x \in Stores |-> IF store[x].until <= now' THEN NoEntry ELSE store[x]]
      BY DEF Tick
    <2>2. ASSUME NEW x \in Stores
          PROVE  store'[x] \in StoreType(scenario)
                 /\ EntryOK(store'[x], scenario, now', src, changed, x \in Replica)
      <3>1. store[x] \in StoreType(scenario) /\ EntryOK(store[x], scenario, now, src, changed, x \in Replica)
        BY DEF DataInv, StoresOK
      <3>2. CASE store'[x] = NoEntry
        BY <3>2, <1>s, NothingIs DEF EntryOK
      <3>3. CASE store[x] # NoEntry /\ store'[x] = store[x] /\ ~(store[x].until <= now')
        <4>1. store[x].env \in EnvType(scenario) /\ store[x].until \in Nat
          BY <3>1 DEF StoreType
        <4> QED  BY <1>l, <1>s, <3>1, <3>3, <4>1 DEF EntryOK
      <3> QED  BY <2>1, <3>2, <3>3
    <2>3. store' \in [Stores -> StoreType(scenario)]
      BY <2>1, <2>2
    <2> QED  BY <1>u, <2>2, <2>3 DEF StoresOK
  <1>3. LateOK'
    BY <1>l, <1>u DEF DataInv, LateOK
  <1>4. LoadsOK'
    BY <1>l, <1>u DEF DataInv, LoadsOK, Load
  <1>5. ProcsOK'
    BY <1>l, <1>u DEF DataInv, ProcsOK
  <1>6. RestOK'
    BY <1>u DEF DataInv, RestOK, ghosts
  <1>7. LevelsOK'
    <2>1. Replica \subseteq Stores /\ L2 \in Stores
      BY DEF Stores
    <2> QED  BY <1>u, <2>1 DEF DataInv, LevelsOK, HasL1, HasL2, Tick
  <1> QED  BY <1>1, <1>2, <1>3, <1>4, <1>5, <1>6, <1>7 DEF DataInv

LEMMA WriteKeepsData ==
  ASSUME DataInv, Write, UNCHANGED scenario
  PROVE  DataInv'
  <1>s. /\ scenario \in Scenarios /\ now \in Nat /\ scenario.maxVersion \in Nat
        /\ src \in 0..scenario.maxVersion /\ src' = src + 1
        /\ src' \in 0..scenario.maxVersion
        /\ changed' = [changed EXCEPT ![src] = now]
        /\ changed \in [0..scenario.maxVersion -> Nat]
    BY ScenarioIs DEF DataInv, ClockOK, Write
  <1>c. /\ changed' \in [0..scenario.maxVersion -> Nat]
        /\ \A x \in 0..scenario.maxVersion :
             (x < src => changed'[x] = changed[x])
             /\ (src <= x /\ x < src' => now <= changed'[x])
    BY <1>s
  <1>l. /\ \A e \in EnvType(scenario) :
             Sound(e, scenario, now, src, changed) => Sound(e, scenario, now, src', changed')
        /\ \A l \in LoadType(scenario) :
             LoadOK(l, scenario, now, src, changed) => LoadOK(l, scenario, now, src', changed')
        /\ \A q \in FrameType(scenario) :
             FrameOK(q, scenario, now, src, changed) => FrameOK(q, scenario, now, src', changed')
    <2>1. ClockOK /\ now <= now /\ src <= src'
      BY <1>s DEF DataInv
    <2> QED  BY ONLY <1>s, <1>c, <2>1, LaterIs
  <1>u. UNCHANGED <<now, store, late, load, bus, proc, begun, ghosts, scenario>>
    BY DEF Write
  <1>1. ClockOK'
    BY <1>s, <1>c, <1>u DEF DataInv, ClockOK
  <1>2. StoresOK'
    <2>1. ASSUME NEW x \in Stores
          PROVE  EntryOK(store[x], scenario, now, src', changed', x \in Replica)
      <3>1. store[x].env \in EnvType(scenario)
        BY DEF DataInv, StoresOK, StoreType
      <3>2. EntryOK(store[x], scenario, now, src, changed, x \in Replica)
        BY DEF DataInv, StoresOK
      <3> QED  BY <1>l, <3>1, <3>2 DEF EntryOK
    <2> QED  BY <1>u, <2>1 DEF DataInv, StoresOK
  <1>3. LateOK'
    BY <1>l, <1>u DEF DataInv, LateOK
  <1>4. LoadsOK'
    BY <1>l, <1>u DEF DataInv, LoadsOK, Load
  <1>5. ProcsOK'
    BY <1>l, <1>u DEF DataInv, ProcsOK
  <1>6. RestOK'
    BY <1>u DEF DataInv, RestOK, ghosts
  <1>7. LevelsOK'
    BY <1>u DEF DataInv, LevelsOK, HasL1, HasL2
  <1> QED  BY <1>1, <1>2, <1>3, <1>4, <1>5, <1>6, <1>7 DEF DataInv

-----------------------------------------------------------------------------
(* Steps that change what a goroutine, or a load, is doing and no store.   *)
LEMMA MoveKeepsData ==
  ASSUME DataInv, UNCHANGED <<scenario, now, src, changed, store, late, load>>,
         NEW p \in Proc, NEW q \in FrameType(scenario),
         FrameOK(q, scenario, now, src, changed), Move(p, q), RestOK'
  PROVE  DataInv'
  <1>1. ProcsOK'
    BY ProcsKeep DEF DataInv
  <1>2. ClockOK' /\ StoresOK' /\ LateOK' /\ LoadsOK' /\ LevelsOK'
    BY SameParts
  <1> QED  BY <1>1, <1>2 DEF DataInv

LEMMA BeginKeepsData ==
  ASSUME DataInv, UNCHANGED scenario, NEW p \in Proc, NEW op,
         NEW q \in FrameType(scenario),
         FrameOK(q, scenario, now, src, changed), Begin(p, op, q),
         calm' \subseteq calm \cup {p},
         UNCHANGED <<now, src, changed, store, late, load, bus, floor, cleanAt>>
  PROVE  DataInv'
  <1>1. scenario \in Scenarios /\ scenario.maxOps \in Nat
    BY ScenarioIs DEF DataInv, ClockOK, ScenarioType
  <1>2. RestOK'
    BY <1>1 DEF DataInv, RestOK, Begin
  <1> QED  BY <1>2, MoveKeepsData DEF Begin

LEMMA StepKeepsData ==
  ASSUME DataInv, UNCHANGED scenario, NEW p \in Proc,
         NEW q \in FrameType(scenario),
         FrameOK(q, scenario, now, src, changed), Move(p, q),
         UNCHANGED <<now, src, changed, store, late, load, bus, begun, ghosts>>
  PROVE  DataInv'
  <1>1. RestOK'
    BY DEF DataInv, RestOK, ghosts
  <1> QED  BY <1>1, MoveKeepsData

LEMMA LoadStepKeepsData ==
  ASSUME DataInv, UNCHANGED scenario, NEW c \in Load,
         NEW l \in LoadType(scenario),
         LoadOK(l, scenario, now, src, changed), load' = [load EXCEPT ![c] = l],
         UNCHANGED <<now, src, changed, store, late, bus, proc, begun, ghosts>>
  PROVE  DataInv'
  <1>1. LoadsOK'
    BY LoadsKeep DEF DataInv
  <1>2. ClockOK' /\ StoresOK' /\ LateOK' /\ ProcsOK' /\ LevelsOK' /\ RestOK'
    BY SameParts DEF ghosts
  <1> QED  BY <1>1, <1>2 DEF DataInv

LEMMA FrameIs ==
  ASSUME DataInv, NEW p \in Proc
  PROVE  /\ proc[p] \in FrameType(scenario)
         /\ FrameOK(proc[p], scenario, now, src, changed)
         /\ Idle \in FrameType(scenario)
         /\ FrameOK(Idle, scenario, now, src, changed)
  <1>1. scenario \in Scenarios
    BY DEF DataInv, ClockOK
  <1>2. FrameOK(Idle, scenario, now, src, changed)
    BY DEF FrameOK, Idle
  <1> QED  BY <1>1, <1>2, NothingIs DEF DataInv, ProcsOK

LEMMA LoadIs ==
  ASSUME DataInv, NEW c \in Load
  PROVE  /\ load[c] \in LoadType(scenario)
         /\ LoadOK(load[c], scenario, now, src, changed)
         /\ NoLoad \in LoadType(scenario)
  <1>1. scenario \in Scenarios
    BY DEF DataInv, ClockOK
  <1> QED  BY <1>1, NothingIs DEF DataInv, LoadsOK, Load

LEMMA BeginsKeepData ==
  ASSUME DataInv, UNCHANGED scenario, NEW p \in Proc, NEW r \in Replica
  PROVE  /\ MissL1(p, r) => DataInv'
         /\ BeginDelete(p, r) => DataInv'
         /\ DeleteRefused(p, r) => DataInv'
         /\ \A want \in scenario.asked : BeginSet(p, r, want) => DataInv'
  <1>s. /\ scenario \in Scenarios /\ src \in 0..scenario.maxVersion
        /\ scenario.maxVersion \in Nat /\ scenario.asked \subseteq Nat
        /\ scenario.level \in {"both", "L1", "L2"}
        /\ Idle \in FrameType(scenario)
    BY ScenarioIs, NothingIs DEF DataInv, ClockOK
  <1>1. ASSUME MissL1(p, r)
        PROVE  DataInv'
    <2> DEFINE q == [Idle EXCEPT !.rep = r, !.pc = IF HasL2 THEN "l2get" ELSE "flight"]
    <2>0. q \in FrameType(scenario)
      BY <1>s DEF FrameType
    <2>1. q \in FrameType(scenario) /\ FrameOK(q, scenario, now, src, changed)
      <3>1. q.pc = (IF HasL2 THEN "l2get" ELSE "flight") /\ q.rep = r
        BY <1>s DEF FrameType
      <3> HIDE DEF q
      <3> QED  BY <1>s, <2>0, <3>1 DEF FrameOK
    <2>2. /\ Begin(p, "read", q) /\ calm' \subseteq calm \cup {p}
          /\ UNCHANGED <<now, src, changed, store, late, load, bus, floor, cleanAt>>
      BY <1>1 DEF MissL1
    <2> HIDE DEF q
    <2> QED  BY <2>1, <2>2, BeginKeepsData
  <1>2. ASSUME BeginDelete(p, r)
        PROVE  DataInv'
    <2> DEFINE q == [Idle EXCEPT !.rep = r, !.ver = src,
                       !.pc = IF HasL1 THEN "delL1" ELSE "delL2"]
    <2>0. q \in FrameType(scenario)
      BY <1>s DEF FrameType
    <2>1. q \in FrameType(scenario) /\ FrameOK(q, scenario, now, src, changed)
      <3>1. q.pc = (IF HasL1 THEN "delL1" ELSE "delL2") /\ q.rep = r /\ q.ver = src
        BY <1>s DEF FrameType
      <3> HIDE DEF q
      <3> QED  BY <1>s, <2>0, <3>1 DEF FrameOK, HasL1
    <2>2. /\ Begin(p, "Delete", q) /\ calm' \subseteq calm \cup {p}
          /\ UNCHANGED <<now, src, changed, store, late, load, bus, floor, cleanAt>>
      BY <1>2 DEF BeginDelete
    <2> HIDE DEF q
    <2> QED  BY <2>1, <2>2, BeginKeepsData
  <1>3. ASSUME DeleteRefused(p, r)
        PROVE  DataInv'
    <2> DEFINE q == [Idle EXCEPT !.pc = "failed", !.rep = r, !.ver = src]
    <2>0. q \in FrameType(scenario)
      BY <1>s DEF FrameType
    <2>1. q \in FrameType(scenario) /\ FrameOK(q, scenario, now, src, changed)
      <3>1. q.pc = "failed" /\ q.rep = r /\ q.ver = src
        BY <1>s DEF FrameType
      <3> HIDE DEF q
      <3> QED  BY <1>s, <2>0, <3>1 DEF FrameOK
    <2>2. /\ Begin(p, "Delete", q) /\ calm' \subseteq calm \cup {p}
          /\ UNCHANGED <<now, src, changed, store, late, load, bus, floor, cleanAt>>
      BY <1>3 DEF DeleteRefused
    <2> HIDE DEF q
    <2> QED  BY <2>1, <2>2, BeginKeepsData
  <1>4. ASSUME NEW want \in scenario.asked, BeginSet(p, r, want)
        PROVE  DataInv'
    <2> DEFINE q == [Idle EXCEPT !.pc = "write", !.rep = r, !.ver = src, !.ttl = want]
    <2>0. q \in FrameType(scenario)
      BY <1>s DEF FrameType
    <2>1. q \in FrameType(scenario) /\ FrameOK(q, scenario, now, src, changed)
      <3>1. q.pc = "write" /\ q.rep = r /\ q.ver = src /\ q.ttl = want
        BY <1>s DEF FrameType
      <3> HIDE DEF q
      <3> QED  BY <1>s, <2>0, <3>1 DEF FrameOK
    <2>2. /\ Begin(p, "Set", q) /\ calm' \subseteq calm \cup {p}
          /\ UNCHANGED <<now, src, changed, store, late, load, bus, floor, cleanAt>>
      BY <1>4 DEF BeginSet
    <2> HIDE DEF q
    <2> QED  BY <2>1, <2>2, BeginKeepsData
  <1> QED  BY <1>1, <1>2, <1>3, <1>4

(* Steps that store something.                                             *)
LEMMA PutStepKeepsData ==
  ASSUME DataInv, UNCHANGED scenario, NEW p \in Proc,
         NEW q \in FrameType(scenario),
         FrameOK(q, scenario, now, src, changed), Move(p, q),
         UNCHANGED <<now, src, changed, load, bus, begun, floor, cleanAt>>,
         StoresOK', LateOK', LevelsOK', calm' \subseteq calm
  PROVE  DataInv'
  <1>1. ProcsOK'
    BY ProcsKeep DEF DataInv
  <1>2. ClockOK' /\ LoadsOK' /\ RestOK'
    BY SameParts
  <1> QED  BY <1>1, <1>2 DEF DataInv

LEMMA LoadPutKeepsData ==
  ASSUME DataInv, UNCHANGED scenario, NEW c \in Load,
         NEW l \in LoadType(scenario),
         LoadOK(l, scenario, now, src, changed), load' = [load EXCEPT ![c] = l],
         UNCHANGED <<now, src, changed, bus, proc, begun, floor, cleanAt>>,
         StoresOK', LateOK', LevelsOK', calm' \subseteq calm
  PROVE  DataInv'
  <1>1. LoadsOK'
    BY LoadsKeep DEF DataInv
  <1>2. ClockOK' /\ ProcsOK' /\ RestOK'
    BY SameParts
  <1> QED  BY <1>1, <1>2 DEF DataInv

LEMMA ReadsKeepData ==
  ASSUME DataInv, UNCHANGED scenario, NEW p \in Proc
  PROVE  /\ L2Get(p) => DataInv'
         /\ ClampStep(p) => DataInv'
         /\ Backfill(p) => DataInv'
         /\ EndMiss(p) => DataInv'
  <1>s. /\ scenario \in Scenarios /\ now \in Nat /\ scenario.l1TTL \in Nat \ {0}
        /\ scenario.level \in {"both", "L1", "L2"}
        /\ scenario.maxTime \in Nat /\ LongestOf(scenario) \in Nat
    BY ScenarioIs DEF DataInv, ClockOK
  <1>f. /\ proc[p] \in FrameType(scenario)
        /\ FrameOK(proc[p], scenario, now, src, changed)
        /\ Idle \in FrameType(scenario) /\ FrameOK(Idle, scenario, now, src, changed)
    BY FrameIs
  <1>1. ASSUME L2Get(p)
        PROVE  DataInv'
    <2> DEFINE clamp == [proc[p] EXCEPT !.pc = "clamp", !.env = store[L2].env]
               flight == [proc[p] EXCEPT !.pc = "flight"]
    <2>1. /\ UNCHANGED <<now, src, changed, store, late, load, bus, begun, ghosts>>
          /\ proc[p].pc = "l2get"
          /\ \/ Move(p, clamp) /\ HasL1 /\ checked(store[L2])
             \/ Return(p)
             \/ Move(p, flight)
      BY <1>1 DEF L2Get, At
    <2>2. /\ store[L2].env \in EnvType(scenario)
          /\ store[L2] # NoEntry => Sound(store[L2].env, scenario, now, src, changed)
      <3>1. L2 \in Stores
        BY DEF Stores
      <3> QED  BY <3>1 DEF DataInv, StoresOK, StoreType, EntryOK
    <2>3. HasL1 /\ checked(store[L2]) =>
            clamp \in FrameType(scenario) /\ FrameOK(clamp, scenario, now, src, changed)
      <3>1. /\ clamp \in FrameType(scenario) /\ clamp.pc = "clamp"
            /\ clamp.rep = proc[p].rep /\ clamp.env = store[L2].env
        BY <1>f, <2>2 DEF FrameType
      <3>2. proc[p].rep \in Replica /\ (checked(store[L2]) => store[L2] # NoEntry)
        BY <1>f, <2>1 DEF FrameOK, checked
      <3>3. HasL1 => scenario.level # "L2"
        BY DEF HasL1
      <3> HIDE DEF clamp
      <3> QED  BY <2>2, <3>1, <3>2, <3>3 DEF FrameOK
    <2>4. flight \in FrameType(scenario) /\ FrameOK(flight, scenario, now, src, changed)
      <3>1. /\ flight \in FrameType(scenario) /\ flight.pc = "flight"
            /\ flight.rep = proc[p].rep
        BY <1>f DEF FrameType
      <3>2. proc[p].rep \in Replica
        BY <1>f, <2>1 DEF FrameOK
      <3> HIDE DEF flight
      <3> QED  BY <3>1, <3>2 DEF FrameOK
    <2> HIDE DEF clamp, flight
    <2> QED  BY <1>f, <2>1, <2>3, <2>4, StepKeepsData DEF Return
  <1>2. ASSUME ClampStep(p)
        PROVE  DataInv'
    <2> DEFINE fill == [proc[p] EXCEPT !.pc = "fill", !.ttl = Clamp(proc[p].env), !.since = now]
    <2>1. /\ UNCHANGED <<now, src, changed, store, late, load, bus, begun, ghosts>>
          /\ proc[p].pc = "clamp"
          /\ \/ Return(p)
             \/ Move(p, fill) /\ ~(Clamp(proc[p].env) <= 0)
      BY <1>2 DEF ClampStep, At
    <2>2. /\ proc[p].env \in EnvType(scenario) /\ proc[p].env.expires \in Nat
          /\ proc[p].rep \in Replica /\ scenario.level # "L2"
          /\ Sound(proc[p].env, scenario, now, src, changed)
      BY <1>f, <1>s, <2>1 DEF FrameType, EnvType, FrameOK
    <2>3. ~(Clamp(proc[p].env) <= 0) =>
            /\ Clamp(proc[p].env) \in Nat
            /\ Fits(Clamp(proc[p].env), now, proc[p].env, scenario, now)
      BY <1>s, <2>2 DEF Clamp, Least, Fits
    <2>4. ~(Clamp(proc[p].env) <= 0) =>
            fill \in FrameType(scenario) /\ FrameOK(fill, scenario, now, src, changed)
      <3> SUFFICES ASSUME ~(Clamp(proc[p].env) <= 0)
                   PROVE  fill \in FrameType(scenario) /\ FrameOK(fill, scenario, now, src, changed)
        OBVIOUS
      <3>1. /\ fill \in FrameType(scenario) /\ fill.pc = "fill"
            /\ fill.rep = proc[p].rep /\ fill.env = proc[p].env
            /\ fill.ttl = Clamp(proc[p].env) /\ fill.since = now
        BY <1>f, <1>s, <2>3 DEF FrameType
      <3> HIDE DEF fill
      <3> QED  BY <2>2, <2>3, <3>1 DEF FrameOK
    <2> HIDE DEF fill
    <2> QED  BY <1>f, <2>1, <2>4, StepKeepsData DEF Return
  <1>3. ASSUME Backfill(p)
        PROVE  DataInv'
    <2>1. /\ proc[p].pc = "fill" /\ Return(p)
          /\ PutIf(TRUE, proc[p].rep, proc[p].env, proc[p].ttl, proc[p].since)
          /\ UNCHANGED <<now, src, changed, load, bus, begun, floor, cleanAt>>
      BY <1>3 DEF Backfill, At
    <2>2. /\ proc[p].env \in EnvType(scenario) /\ proc[p].since \in Nat
          /\ proc[p].rep \in Replica /\ HasL1
          /\ Sound(proc[p].env, scenario, now, src, changed)
          /\ Fits(proc[p].ttl, proc[p].since, proc[p].env, scenario, now)
      BY <1>f, <1>s, <2>1 DEF FrameType, FrameOK, HasL1
    <2>3. StoresOK' /\ LateOK' /\ LevelsOK' /\ calm' \subseteq calm
      BY <2>1, <2>2, PutL1Keeps
    <2> QED  BY <1>f, <2>1, <2>3, PutStepKeepsData DEF Return
  <1>4. ASSUME EndMiss(p)
        PROVE  DataInv'
    BY <1>4, <1>f, StepKeepsData DEF EndMiss, Return
  <1> QED  BY <1>1, <1>2, <1>3, <1>4

LEMMA SetsKeepData ==
  ASSUME DataInv, UNCHANGED scenario, NEW p \in Proc
  PROVE  /\ SetWrite(p) => DataInv'
         /\ SetL2(p) => DataInv'
         /\ SetL1(p) => DataInv'
  <1>s. /\ scenario \in Scenarios /\ now \in Nat /\ scenario.level \in {"both", "L1", "L2"}
        /\ scenario.maxTime \in Nat /\ LongestOf(scenario) \in Nat
        /\ scenario.asked \subseteq Nat \ {0}
        /\ \A x \in scenario.asked : x <= LongestOf(scenario)
    BY ScenarioIs DEF DataInv, ClockOK
  <1>f. /\ proc[p] \in FrameType(scenario)
        /\ FrameOK(proc[p], scenario, now, src, changed)
        /\ Idle \in FrameType(scenario) /\ FrameOK(Idle, scenario, now, src, changed)
    BY FrameIs
  <1>1. ASSUME SetWrite(p)
        PROVE  DataInv'
    <2> PICK n \in scenario.jitter :
          Move(p, [proc[p] EXCEPT !.pc = FirstPut, !.ttl = L1TTLOf(proc[p].ttl, n),
                                  !.env = Envelope(proc[p].ver, proc[p].ttl, n, TRUE)])
      BY <1>1 DEF SetWrite
    <2> DEFINE e == Envelope(proc[p].ver, proc[p].ttl, n, TRUE)
               l1 == L1TTLOf(proc[p].ttl, n)
               q == [proc[p] EXCEPT !.pc = FirstPut, !.ttl = l1, !.env = e]
    <2>1. /\ UNCHANGED <<now, src, changed, store, late, load, bus, begun, ghosts>>
          /\ proc[p].pc = "write" /\ Move(p, q)
      BY <1>1 DEF SetWrite, At
    <2>2. /\ proc[p].rep \in Replica /\ proc[p].ver <= src
          /\ proc[p].ver \in 0..scenario.maxVersion
          /\ proc[p].ttl \in Nat \ {0} /\ proc[p].ttl <= LongestOf(scenario)
      BY <1>f, <1>s, <2>1 DEF FrameType, FrameOK
    <2>3. /\ e \in EnvType(scenario) /\ e.ver = proc[p].ver /\ e.bySet
          /\ Written(e, scenario, now, src)
          /\ l1 \in Nat /\ Fits(l1, e.at, e, scenario, now)
      BY <2>2, EnvelopeIs DEF DataInv
    <2> HIDE DEF e, l1
    <2>4. FirstPut = (IF HasL2 THEN "setL2" ELSE "setL1")
          /\ (HasL2 <=> scenario.level # "L1")
      BY <1>s DEF FirstPut, HasL2
    <2>5. /\ q \in FrameType(scenario)
          /\ q.pc = FirstPut /\ q.rep = proc[p].rep /\ q.ver = proc[p].ver
          /\ q.env = e /\ q.ttl = l1
      BY <1>f, <2>3, <2>4 DEF FrameType
    <2> HIDE DEF q
    <2>6. FrameOK(q, scenario, now, src, changed)
      BY <1>s, <2>2, <2>3, <2>4, <2>5 DEF FrameOK
    <2> QED  BY <2>1, <2>5, <2>6, StepKeepsData
  <1>2. ASSUME proc[p].pc \in {"setL2", "setL1"}
        PROVE  /\ proc[p].env \in EnvType(scenario) /\ proc[p].rep \in Replica
               /\ Sound(proc[p].env, scenario, now, src, changed)
               /\ Fits(proc[p].ttl, proc[p].env.at, proc[p].env, scenario, now)
               /\ proc[p].env.at \in Nat
               /\ proc[p].pc = "setL2" => HasL2
               /\ proc[p].pc = "setL1" => HasL1
    BY <1>2, <1>f, <1>s DEF FrameType, FrameOK, Sound, Timely, HasL1, HasL2, EnvType
  <1>3. ASSUME SetL2(p)
        PROVE  DataInv'
    <2> DEFINE q == [proc[p] EXCEPT !.pc = "setL1"]
    <2>1. /\ proc[p].pc = "setL2" /\ PutL2(TRUE, proc[p].env)
          /\ UNCHANGED <<now, src, changed, load, bus, begun, floor, cleanAt>>
          /\ (Move(p, q) /\ HasL1) \/ Return(p)
      BY <1>3 DEF SetL2, At
    <2>2. StoresOK' /\ LateOK' /\ LevelsOK' /\ calm' \subseteq calm
      BY <1>2, <2>1, PutL2Keeps
    <2>3. HasL1 => q \in FrameType(scenario) /\ FrameOK(q, scenario, now, src, changed)
      <3>1. /\ q \in FrameType(scenario) /\ q.pc = "setL1"
            /\ q.rep = proc[p].rep /\ q.ver = proc[p].ver
            /\ q.env = proc[p].env /\ q.ttl = proc[p].ttl
        BY <1>f DEF FrameType
      <3> HIDE DEF q
      <3>2. HasL1 => scenario.level # "L2"
        BY DEF HasL1
      <3> QED  BY <1>f, <2>1, <3>1, <3>2 DEF FrameOK
    <2> HIDE DEF q
    <2> QED  BY <1>f, <2>1, <2>2, <2>3, PutStepKeepsData DEF Return
  <1>4. ASSUME SetL1(p)
        PROVE  DataInv'
    <2>1. /\ proc[p].pc = "setL1" /\ Return(p)
          /\ PutIf(TRUE, proc[p].rep, proc[p].env, proc[p].ttl, proc[p].env.at)
          /\ UNCHANGED <<now, src, changed, load, bus, begun, floor, cleanAt>>
      BY <1>4 DEF SetL1, At
    <2>2. StoresOK' /\ LateOK' /\ LevelsOK' /\ calm' \subseteq calm
      BY <1>2, <2>1, PutL1Keeps
    <2> QED  BY <1>f, <2>1, <2>2, PutStepKeepsData DEF Return
  <1> QED  BY <1>1, <1>3, <1>4

LEMMA ClearKeeps ==
  ASSUME DataInv, UNCHANGED <<scenario, now, src, changed>>,
         NEW x \in Stores, UNCHANGED late,
         store' = [store EXCEPT ![x] = NoEntry] \/ store' = store
  PROVE  StoresOK' /\ LevelsOK'
  <1>1. scenario \in Scenarios
    BY DEF DataInv, ClockOK
  <1>2. StoresOK'
    BY <1>1, StoresKeep, SameParts, NothingIs DEF DataInv
  <1>3. LevelsOK'
    <2>1. store \in [Stores -> StoreType(scenario)]
      BY DEF DataInv, StoresOK
    <2>2. Replica \subseteq Stores /\ L2 \in Stores
      BY DEF Stores
    <2> QED  BY <2>1, <2>2 DEF DataInv, LevelsOK, HasL1, HasL2
  <1> QED  BY <1>2, <1>3

LEMMA DeletesKeepData ==
  ASSUME DataInv, UNCHANGED scenario, NEW p \in Proc
  PROVE  /\ DeleteL1(p) => DataInv'
         /\ DeleteL2(p) => DataInv'
  <1>f. /\ proc[p] \in FrameType(scenario)
        /\ FrameOK(proc[p], scenario, now, src, changed)
    BY FrameIs
  <1>s. scenario \in Scenarios /\ scenario.level \in {"both", "L1", "L2"}
    BY ScenarioIs DEF DataInv, ClockOK
  <1>1. ASSUME NEW x \in Stores, NEW next \in {"delL2", "publish"},
               next = "delL2" => HasL2,
               proc[p].pc \in {"delL1", "delL2"}, DeleteAt(p, x, next),
               UNCHANGED <<now, src, changed, late, load, bus, begun, ghosts>>
        PROVE  DataInv'
    <2> DEFINE q == [proc[p] EXCEPT !.pc = next]
               qe == [proc[p] EXCEPT !.pc = next, !.err = TRUE]
    <2>1. /\ store' = [store EXCEPT ![x] = NoEntry] \/ store' = store
          /\ Move(p, q) \/ Move(p, qe)
      BY <1>1 DEF DeleteAt
    <2>2. /\ q \in FrameType(scenario) /\ qe \in FrameType(scenario)
          /\ q.pc = next /\ q.rep = proc[p].rep /\ q.ver = proc[p].ver
          /\ qe.pc = next /\ qe.rep = proc[p].rep /\ qe.ver = proc[p].ver
      BY <1>1, <1>f DEF FrameType
    <2>3. proc[p].rep \in Replica /\ proc[p].ver <= src
      BY <1>1, <1>f DEF FrameOK
    <2> HIDE DEF q, qe
    <2>4. next = "delL2" => scenario.level # "L1"
      BY <1>1 DEF HasL2
    <2>5. FrameOK(q, scenario, now, src, changed) /\ FrameOK(qe, scenario, now, src, changed)
      BY <1>1, <2>2, <2>3, <2>4 DEF FrameOK
    <2>6. StoresOK' /\ LevelsOK'
      BY <1>1, <2>1, ClearKeeps
    <2>7. LateOK' /\ calm' \subseteq calm /\ UNCHANGED <<floor, cleanAt>>
      BY <1>1, SameParts DEF ghosts
    <2> QED  BY <1>1, <2>1, <2>2, <2>5, <2>6, <2>7, PutStepKeepsData
  <1>2. ASSUME DeleteL1(p)
        PROVE  DataInv'
    <2>1. /\ proc[p].pc = "delL1"
          /\ DeleteAt(p, proc[p].rep, IF HasL2 THEN "delL2" ELSE "publish")
          /\ UNCHANGED <<now, src, changed, late, load, bus, begun, ghosts>>
      BY <1>2 DEF DeleteL1, At
    <2>2. proc[p].rep \in Stores
      BY <1>f, <2>1 DEF FrameOK, Stores
    <2>3. CASE HasL2
      BY <1>1, <2>1, <2>2, <2>3
    <2>4. CASE ~HasL2
      BY <1>1, <2>1, <2>2, <2>4
    <2> QED  BY <2>3, <2>4
  <1>3. ASSUME DeleteL2(p)
        PROVE  DataInv'
    BY <1>1, <1>3 DEF DeleteL2, At, Stores
  <1> QED  BY <1>2, <1>3

LEMMA EventsKeepData ==
  ASSUME DataInv, UNCHANGED scenario
  PROVE  /\ \A p \in Proc : Publish(p) => DataInv'
         /\ \A r \in Replica : \A e \in bus[r] : OnKeyEvent(r, e) => DataInv'
         /\ \A e \in late : Land(e) => DataInv'
  <1>s. /\ scenario \in Scenarios /\ now \in 0..scenario.maxTime /\ now \in Nat
        /\ scenario.maxTime \in Nat /\ LongestOf(scenario) \in Nat
        /\ scenario.maxVersion \in Nat
    BY ScenarioIs DEF DataInv, ClockOK
  <1>t. /\ bus \in [Replica -> SUBSET [ver : 0..scenario.maxVersion]]
        /\ floor \in [Replica -> 0..scenario.maxVersion]
        /\ cleanAt \in [0..scenario.maxVersion -> 0..(scenario.maxTime + 1)]
        /\ calm \subseteq Proc /\ begun \in 0..scenario.maxOps
    BY DEF DataInv, RestOK
  <1>m. \A a, b \in 0..scenario.maxVersion : Most(a, b) \in 0..scenario.maxVersion
    BY DEF Most
  <1>1. ASSUME NEW p \in Proc, Publish(p)
        PROVE  DataInv'
    <2>1. /\ proc[p].pc = "publish"
          /\ UNCHANGED <<now, src, changed, store, late, load, begun>>
          /\ Fail(p) \/ (Return(p) /\ calm' = calm \ {p})
          /\ \/ UNCHANGED <<bus, floor, cleanAt>>
             \/ /\ \E v \in {proc[p].ver, 0} :
                     bus' = [r \in Replica |-> bus[r] \cup {[ver |-> v]}]
                /\ \/ floor' = floor
                   \/ floor' = [floor EXCEPT ![proc[p].rep] = Most(@, proc[p].ver)]
                /\ \/ cleanAt' = cleanAt
                   \/ cleanAt' = [v \in DOMAIN cleanAt |->
                                    IF v <= proc[p].ver THEN Least(cleanAt[v], now)
                                                        ELSE cleanAt[v]]
      BY <1>1, Zenon DEF Publish, At
    <2>2. /\ proc[p] \in FrameType(scenario)
          /\ FrameOK(proc[p], scenario, now, src, changed)
          /\ Idle \in FrameType(scenario) /\ FrameOK(Idle, scenario, now, src, changed)
      BY FrameIs
    <2>3. proc[p].ver \in 0..scenario.maxVersion /\ proc[p].rep \in Replica
      BY <2>1, <2>2 DEF FrameType, FrameOK
    <2>4. /\ bus' \in [Replica -> SUBSET [ver : 0..scenario.maxVersion]]
          /\ floor' \in [Replica -> 0..scenario.maxVersion]
          /\ cleanAt' \in [0..scenario.maxVersion -> 0..(scenario.maxTime + 1)]
      <3>1. bus' \in [Replica -> SUBSET [ver : 0..scenario.maxVersion]]
        <4>1. \/ bus' = bus
              \/ \E v \in {proc[p].ver, 0} :
                   bus' = [r \in Replica |-> bus[r] \cup {[ver |-> v]}]
          BY ONLY <2>1
        <4>2. \A v \in {proc[p].ver, 0} : [ver |-> v] \in [ver : 0..scenario.maxVersion]
          BY ONLY <1>s, <2>3
        <4> QED  BY ONLY <1>t, <4>1, <4>2
      <3>2. floor' \in [Replica -> 0..scenario.maxVersion]
        BY <1>t, <1>m, <2>1, <2>3
      <3>3. \A v \in 0..scenario.maxVersion : Least(cleanAt[v], now) \in 0..(scenario.maxTime + 1)
        <4>1. \A a \in 0..(scenario.maxTime + 1) : Least(a, now) \in 0..(scenario.maxTime + 1)
          BY <1>s DEF Least
        <4> QED  BY <1>t, <4>1
      <3>4. cleanAt' \in [0..scenario.maxVersion -> 0..(scenario.maxTime + 1)]
        BY <1>t, <2>1, <3>3
      <3> QED  BY <3>1, <3>2, <3>4
    <2>5. RestOK'
      BY <1>t, <2>1, <2>4 DEF RestOK, Fail
    <2> DEFINE q == [Idle EXCEPT !.pc = "failed", !.rep = proc[p].rep, !.ver = proc[p].ver]
    <2>6. q \in FrameType(scenario) /\ q.pc = "failed" /\ q.rep = proc[p].rep
      BY <2>2, <2>3 DEF FrameType
    <2>7. Move(p, q) \/ Move(p, Idle)
      BY <2>1 DEF Fail, Return
    <2> HIDE DEF q
    <2>8. FrameOK(q, scenario, now, src, changed)
      BY <2>3, <2>6 DEF FrameOK
    <2> QED  BY <2>1, <2>2, <2>5, <2>6, <2>7, <2>8, MoveKeepsData
  <1>2. ASSUME NEW r \in Replica, NEW e \in bus[r], OnKeyEvent(r, e)
        PROVE  DataInv'
    <2>1. /\ UNCHANGED <<now, src, changed, late, load, proc, begun, calm, cleanAt>>
          /\ bus' = [bus EXCEPT ![r] = @ \ {e}]
          /\ store' = [store EXCEPT ![r] = NoEntry] \/ store' = store
          /\ floor' = floor \/ floor' = [floor EXCEPT ![r] = Most(@, e.ver)]
      BY <1>2 DEF OnKeyEvent
    <2>2. e.ver \in 0..scenario.maxVersion
      BY <1>t
    <2>3. StoresOK' /\ LevelsOK'
      BY <2>1, ClearKeeps DEF Stores
    <2>4. floor' \in [Replica -> 0..scenario.maxVersion]
      BY <1>t, <1>m, <2>1, <2>2
    <2>5. bus' \in [Replica -> SUBSET [ver : 0..scenario.maxVersion]]
      BY <1>t, <2>1
    <2>6. RestOK'
      BY <1>t, <2>1, <2>4, <2>5 DEF RestOK
    <2>7. ClockOK' /\ LateOK' /\ LoadsOK' /\ ProcsOK'
      BY <2>1, SameParts
    <2> QED  BY <2>3, <2>6, <2>7 DEF DataInv
  <1>3. ASSUME NEW e \in late, Land(e)
        PROVE  DataInv'
    <2>1. /\ UNCHANGED <<now, src, changed, load, bus, proc, begun, floor, cleanAt>>
          /\ late' \subseteq late /\ calm' \subseteq calm
          /\ store' = [store EXCEPT ![L2] = [env |-> e, until |-> now + (e.expires - e.at),
                                             lag |-> now - e.at]]
      BY <1>3 DEF Land
    <2>2. /\ HasL2 /\ e \in EnvType(scenario) /\ Sound(e, scenario, now, src, changed)
      BY DEF DataInv, LateOK, LevelsOK
    <2>3. /\ e.at \in Nat /\ e.expires \in Nat /\ e.at < e.expires /\ e.at <= now
          /\ e.expires - e.at \in Nat \ {0} /\ e.at + (e.expires - e.at) <= e.expires
      BY <1>s, <2>2 DEF EnvType, Sound, Written
    <2>4. L2 \in Stores /\ L2 \notin Replica
      BY PlainAssumption DEF PlainAssumption, Stores
    <2>5. StoresOK' /\ LevelsOK'
      BY <2>1, <2>2, <2>3, <2>4, PutKeeps
    <2>6. LateOK'
      BY <2>1 DEF DataInv, LateOK
    <2>7. ClockOK' /\ LoadsOK' /\ ProcsOK' /\ RestOK'
      BY <2>1, SameParts
    <2> QED  BY <2>5, <2>6, <2>7 DEF DataInv
  <1> QED  BY <1>1, <1>2, <1>3

LEMMA LoadsKeepData ==
  ASSUME DataInv, UNCHANGED scenario, NEW c \in Load
  PROVE  LoadStep(c) => DataInv'
  <1>s. /\ scenario \in Scenarios /\ now \in Nat /\ scenario.level \in {"both", "L1", "L2"}
        /\ scenario.maxTime \in Nat /\ LongestOf(scenario) \in Nat
        /\ scenario.asked \subseteq Nat \ {0} /\ scenario.maxVersion \in Nat
        /\ \A x \in scenario.asked : x <= LongestOf(scenario)
        /\ scenario.negTTL \in Nat /\ scenario.negTTL <= LongestOf(scenario)
        /\ scenario.loadTimeout \in Nat
        /\ src \in 0..scenario.maxVersion /\ changed \in [0..scenario.maxVersion -> Nat]
    BY ScenarioIs DEF DataInv, ClockOK
  <1>f. /\ load[c] \in LoadType(scenario)
        /\ LoadOK(load[c], scenario, now, src, changed)
        /\ NoLoad \in LoadType(scenario)
        /\ load \in [Load -> LoadType(scenario)]
    BY LoadIs DEF DataInv, LoadsOK, Load
  <1>1. ASSUME ReadSource(c)
        PROVE  DataInv'
    <2> DEFINE l == [load[c] EXCEPT !.stage = "loaded", !.env.ver = src]
    <2>1. /\ UNCHANGED <<now, src, changed, store, late, bus, proc, begun, ghosts>>
          /\ load[c].stage = "load" /\ load' = [load EXCEPT ![c] = l]
      BY <1>1, <1>f DEF ReadSource
    <2>2. [load[c].env EXCEPT !.ver = src] \in EnvType(scenario)
          /\ [load[c].env EXCEPT !.ver = src].ver = src
          /\ [load[c].env EXCEPT !.ver = src].bySet = load[c].env.bySet
      BY <1>f, <1>s DEF LoadType, EnvType
    <2>3. /\ l \in LoadType(scenario) /\ l.stage = "loaded" /\ l.start = load[c].start
          /\ l.want = load[c].want /\ l.rep = load[c].rep
          /\ l.env.ver = src /\ l.env.bySet = load[c].env.bySet
      BY <1>f, <2>2 DEF LoadType
    <2> HIDE DEF l
    <2>4. LoadOK(l, scenario, now, src, changed)
      BY <1>s, <1>f, <2>1, <2>3 DEF LoadOK
    <2> QED  BY <2>1, <2>3, <2>4, LoadStepKeepsData
  <1>2. ASSUME LoaderReturns(c)
        PROVE  DataInv'
    <2> DEFINE want == IF load[c].env.ver \in scenario.absent THEN scenario.negTTL
                                                              ELSE load[c].want
    <2>1. /\ UNCHANGED <<now, src, changed, store, late, bus, proc, begun, ghosts>>
          /\ load[c].stage = "loaded"
      BY <1>2 DEF LoaderReturns
    <2>2. /\ load[c].env.ver \in 0..scenario.maxVersion /\ load[c].env.ver <= src
          /\ load[c].rep \in Replica /\ load[c].start <= now
          /\ load[c].env.ver < src => load[c].start <= changed[load[c].env.ver]
          /\ load[c].want \in scenario.asked
      BY <1>f, <1>s, <2>1 DEF LoadType, EnvType, LoadOK
    <2>3. want \in Nat /\ want <= LongestOf(scenario)
      BY <1>s, <2>2
    <2>4. CASE want = 0
      <3> DEFINE l == [load[c] EXCEPT !.stage = "done"]
      <3>1. load' = [load EXCEPT ![c] = l]
        BY <1>2, <2>4 DEF LoaderReturns
      <3>2. /\ l \in LoadType(scenario) /\ l.stage = "done" /\ l.env = load[c].env
        BY <1>f DEF LoadType
      <3> HIDE DEF l
      <3>3. LoadOK(l, scenario, now, src, changed)
        BY <2>2, <3>2 DEF LoadOK
      <3> QED  BY <2>1, <3>1, <3>2, <3>3, LoadStepKeepsData
    <2>5. ASSUME want # 0, NEW n \in scenario.jitter,
                 load' = [load EXCEPT ![c].stage = FirstPut,
                            ![c].env = Envelope(load[c].env.ver, want, n, FALSE),
                            ![c].ttl = L1TTLOf(want, n)]
          PROVE  DataInv'
      <3> DEFINE e == Envelope(load[c].env.ver, want, n, FALSE)
                 l1 == L1TTLOf(want, n)
                 l == [load[c] EXCEPT !.stage = FirstPut, !.env = e, !.ttl = l1]
      <3>1. load' = [load EXCEPT ![c] = l]
        BY <2>5, <1>f
      <3>2. want \in Nat \ {0}
        BY <2>3, <2>5
      <3> HIDE DEF want
      <3>3. /\ e \in EnvType(scenario) /\ e.ver = load[c].env.ver /\ e.bySet = FALSE
            /\ Written(e, scenario, now, src)
            /\ l1 \in Nat /\ Fits(l1, e.at, e, scenario, now)
        BY <2>2, <2>3, <3>2, EnvelopeIs DEF DataInv
      <3> HIDE DEF e, l1
      <3>4. FirstPut = (IF HasL2 THEN "setL2" ELSE "setL1")
            /\ (HasL2 <=> scenario.level # "L1")
        BY <1>s DEF FirstPut, HasL2
      <3>5. /\ l \in LoadType(scenario) /\ l.stage = FirstPut /\ l.env = e /\ l.ttl = l1
            /\ l.start = load[c].start /\ l.want = load[c].want /\ l.rep = load[c].rep
        BY <1>f, <3>3, <3>4 DEF LoadType
      <3> HIDE DEF l
      <3>6. LoadOK(l, scenario, now, src, changed)
        BY <1>s, <2>2, <3>3, <3>4, <3>5 DEF LoadOK
      <3> QED  BY <2>1, <3>1, <3>5, <3>6, LoadStepKeepsData
    <2> QED  BY <1>2, <2>4, <2>5 DEF LoaderReturns
  <1>3. ASSUME load[c].stage \in {"setL2", "setL1"}, Alive(c)
        PROVE  /\ Sound(load[c].env, scenario, now, src, changed)
    <2>0. load[c].env \in EnvType(scenario) /\ load[c].start \in Nat
      BY <1>f DEF LoadType
    <2>1. /\ load[c].env.at \in Nat /\ load[c].env.ver \in 0..scenario.maxVersion
          /\ load[c].start \in Nat
      BY <1>s, <2>0 DEF EnvType
    <2>2. /\ Written(load[c].env, scenario, now, src)
          /\ load[c].env.ver < src => load[c].start <= changed[load[c].env.ver]
      BY <1>3, <1>f DEF LoadOK
    <2>3. load[c].env.at <= now /\ now < load[c].start + scenario.loadTimeout
      BY <1>3, <2>2 DEF Written, Alive
    <2>4. changed[load[c].env.ver] \in Nat
      BY <1>s, <2>1
    <2>5. Timely(load[c].env, scenario, src, changed)
      BY <1>s, <2>1, <2>2, <2>3, <2>4 DEF Timely
    <2> QED  BY <2>2, <2>5 DEF Sound
  <1>4. ASSUME LoadSetL2(c)
        PROVE  DataInv'
    <2> DEFINE l == [load[c] EXCEPT !.stage = IF HasL1 THEN "setL1" ELSE "done"]
    <2>1. /\ load[c].stage = "setL2" /\ PutL2(Alive(c), load[c].env)
          /\ UNCHANGED <<now, src, changed, bus, proc, begun, floor, cleanAt>>
          /\ load' = [load EXCEPT ![c] = l]
      BY <1>4 DEF LoadSetL2
    <2>2. HasL2 /\ load[c].env \in EnvType(scenario)
      BY <1>f, <1>s, <2>1 DEF LoadType, LoadOK, HasL2
    <2>3. (Alive(c) /\ PutL2(TRUE, load[c].env)) \/ NoPut
      BY <2>1 DEF PutL2, PutIf
    <2>4. StoresOK' /\ LateOK' /\ LevelsOK' /\ calm' \subseteq calm
      <3>1. CASE Alive(c) /\ PutL2(TRUE, load[c].env)
        BY <1>3, <2>1, <2>2, <3>1, PutL2Keeps
      <3>2. CASE NoPut
        BY <2>1, <3>2, SameParts DEF NoPut
      <3> QED  BY <2>3, <3>1, <3>2
    <2>5. /\ l \in LoadType(scenario) /\ l.stage = (IF HasL1 THEN "setL1" ELSE "done")
          /\ l.env = load[c].env /\ l.ttl = load[c].ttl /\ l.start = load[c].start
          /\ l.want = load[c].want /\ l.rep = load[c].rep
      BY <1>f DEF LoadType
    <2> HIDE DEF l
    <2>6. HasL1 => scenario.level # "L2"
      BY DEF HasL1
    <2>7. LoadOK(l, scenario, now, src, changed)
      BY <1>f, <2>1, <2>5, <2>6 DEF LoadOK
    <2> QED  BY <2>1, <2>4, <2>5, <2>7, LoadPutKeepsData
  <1>5. ASSUME LoadSetL1(c)
        PROVE  DataInv'
    <2> DEFINE l == [load[c] EXCEPT !.stage = "done"]
    <2>1. /\ load[c].stage = "setL1"
          /\ PutIf(Alive(c), load[c].rep, load[c].env, load[c].ttl, load[c].env.at)
          /\ UNCHANGED <<now, src, changed, bus, proc, begun, floor, cleanAt>>
          /\ load' = [load EXCEPT ![c] = l]
      BY <1>5 DEF LoadSetL1
    <2>0. load[c].env \in EnvType(scenario)
      BY <1>f DEF LoadType
    <2>2. /\ HasL1 /\ load[c].env \in EnvType(scenario) /\ load[c].rep \in Replica
          /\ load[c].env.at \in Nat
          /\ Fits(load[c].ttl, load[c].env.at, load[c].env, scenario, now)
      <3>1. load[c].env.at \in Nat
        BY <1>s, <2>0 DEF EnvType
      <3>2. /\ scenario.level # "L2" /\ load[c].rep \in Replica
            /\ Fits(load[c].ttl, load[c].env.at, load[c].env, scenario, now)
        BY <1>f, <2>1 DEF LoadOK
      <3> QED  BY <1>s, <2>0, <3>1, <3>2 DEF HasL1
    <2>3. \/ Alive(c) /\ PutIf(TRUE, load[c].rep, load[c].env, load[c].ttl, load[c].env.at)
          \/ NoPut
      BY <2>1 DEF PutIf
    <2>4. StoresOK' /\ LateOK' /\ LevelsOK' /\ calm' \subseteq calm
      <3>1. CASE Alive(c) /\ PutIf(TRUE, load[c].rep, load[c].env, load[c].ttl, load[c].env.at)
        BY <1>3, <2>1, <2>2, <3>1, PutL1Keeps
      <3>2. CASE NoPut
        BY <2>1, <3>2, SameParts DEF NoPut
      <3> QED  BY <2>3, <3>1, <3>2
    <2>5. l \in LoadType(scenario) /\ l.stage = "done" /\ l.env = load[c].env
      BY <1>f DEF LoadType
    <2> HIDE DEF l
    <2>6. LoadOK(l, scenario, now, src, changed)
      BY <1>f, <2>1, <2>5 DEF LoadOK
    <2> QED  BY <2>1, <2>4, <2>5, <2>6, LoadPutKeepsData
  <1>6. ASSUME Forget(c)
        PROVE  DataInv'
    <2> DEFINE l == [NoLoad EXCEPT !.stage = "gone"]
    <2>1. l \in LoadType(scenario) /\ l.stage = "gone"
      BY <1>f DEF LoadType
    <2>2. LoadOK(l, scenario, now, src, changed)
      BY <2>1 DEF LoadOK
    <2> QED  BY <1>6, <2>1, <2>2, LoadStepKeepsData DEF Forget
  <1> QED  BY <1>1, <1>2, <1>4, <1>5, <1>6 DEF LoadStep

LEMMA LeadKeepsData ==
  ASSUME DataInv, UNCHANGED scenario, NEW p \in Proc, Lead(p)
  PROVE  DataInv'
  <1>s. scenario \in Scenarios /\ now \in Nat /\ scenario.asked \subseteq Nat \ {0}
    BY ScenarioIs DEF DataInv, ClockOK
  <1>1. PICK c \in Load, want \in scenario.asked :
          load' = [load EXCEPT ![c] = [NoLoad EXCEPT !.stage = "load",
                     !.rep = proc[p].rep, !.start = now, !.want = want]]
    BY DEF Lead
  <1>2. /\ proc[p].pc = "flight" /\ Return(p)
        /\ UNCHANGED <<now, src, changed, store, late, bus, begun, ghosts>>
    BY DEF Lead, At
  <1>f. /\ proc[p] \in FrameType(scenario)
        /\ FrameOK(proc[p], scenario, now, src, changed)
        /\ Idle \in FrameType(scenario) /\ FrameOK(Idle, scenario, now, src, changed)
        /\ NoLoad \in LoadType(scenario)
    BY FrameIs, LoadIs
  <1> DEFINE l == [NoLoad EXCEPT !.stage = "load", !.rep = proc[p].rep,
                                 !.start = now, !.want = want]
  <1>3. proc[p].rep \in Replica
    BY <1>2, <1>f DEF FrameOK
  <1>4. /\ l \in LoadType(scenario) /\ l.stage = "load" /\ l.rep = proc[p].rep
        /\ l.start = now /\ l.want = want /\ l.env = NoLoad.env
    BY <1>f, <1>s, <1>3 DEF LoadType
  <1>5. NoLoad.env.bySet = FALSE
    BY DEF NoLoad, NoEnvelope
  <1>6. load' = [load EXCEPT ![c] = l]
    BY <1>1
  <1> HIDE DEF l
  <1>7. LoadOK(l, scenario, now, src, changed)
    BY <1>s, <1>3, <1>4, <1>5 DEF LoadOK
  <1>8. LoadsOK'
    BY <1>2, <1>4, <1>6, <1>7, LoadsKeep DEF DataInv
  <1>9. ProcsOK'
    BY <1>2, <1>f, ProcsKeep DEF DataInv, Return
  <1>10. ClockOK' /\ StoresOK' /\ LateOK' /\ LevelsOK' /\ RestOK'
    BY <1>2, SameParts DEF ghosts
  <1> QED  BY <1>8, <1>9, <1>10 DEF DataInv

LEMMA NextKeepsData ==
  ASSUME DataInv, [Next]_vars
  PROVE  DataInv'
  <1>1. CASE UNCHANGED vars
    <2>1. UNCHANGED <<scenario, now, src, changed, store, late, load, bus, proc, begun,
                      calm, floor, cleanAt>>
      BY <1>1 DEF vars
    <2>2. ClockOK' /\ StoresOK' /\ LateOK' /\ LoadsOK' /\ ProcsOK' /\ RestOK' /\ LevelsOK'
      BY <2>1, SameParts
    <2> QED  BY <2>2 DEF DataInv
  <1>2. CASE Step /\ UNCHANGED scenario
    BY <1>2, TickKeepsData, WriteKeepsData, EventsKeepData, BeginsKeepData,
       ReadsKeepData, LeadKeepsData, SetsKeepData, DeletesKeepData, LoadsKeepData
       DEF Step, ReadStep, WriteStep
  <1> QED  BY <1>1, <1>2 DEF Next

LEMMA DataHolds == Spec => []DataInv
  <1>1. DataInv /\ [Next]_vars => DataInv'
    BY NextKeepsData
  <1> QED  BY InitData, <1>1, PTL DEF Spec

LEMMA LongestIs ==
  ASSUME scenario \in Scenarios
  PROVE  Longest = LongestOf(scenario) /\ EnvType(scenario) \subseteq EnvelopeType
  <1>1. Longest = LongestOf(scenario)
    BY DEF Longest, LongestOf
  <1>2. scenario.maxTime \in Nat /\ Longest \in Nat
    BY <1>1, ScenarioIs
  <1>3. ASSUME NEW e \in EnvType(scenario)
        PROVE  e \in EnvelopeType
    BY <1>1, <1>2 DEF EnvelopeType, EnvType
  <1> QED  BY <1>1, <1>3

(* Type correctness of the untagged cache's state: cache.go, events.go.    *)
THEOREM TypeCorrect == Spec => []TypeOK
  <1>1. DataInv => TypeOK
    <2> SUFFICES ASSUME DataInv PROVE TypeOK
      OBVIOUS
    <2>s. /\ scenario \in Scenarios /\ scenario.l1TTL \in Nat /\ LongestOf(scenario) \in Nat
          /\ scenario.l1TTL <= LongestOf(scenario)
      BY ScenarioIs DEF DataInv, ClockOK
    <2>1. \A x \in Stores : /\ store[x].env \in EnvelopeType
                            /\ store[x].until \in Nat /\ store[x].lag \in Nat
      BY <2>s, LongestIs DEF DataInv, StoresOK, StoreType
    <2>2. late \subseteq EnvelopeType
      BY <2>s, LongestIs DEF DataInv, LateOK
    <2>3. ASSUME NEW c \in Load
          PROVE  /\ load[c].stage \in {"unborn", "load", "loaded", "setL2", "setL1",
                                       "done", "gone"}
                 /\ load[c].env \in EnvelopeType
                 /\ load[c].stage = "setL1" => load[c].ttl \in 1..Longest
      <3>1. load[c] \in LoadType(scenario) /\ LoadOK(load[c], scenario, now, src, changed)
        BY LoadIs
      <3>2. load[c].stage = "setL1" => load[c].ttl \in 1..scenario.l1TTL
        BY <3>1 DEF LoadOK, Fits
      <3> QED  BY <2>s, <3>1, <3>2, LongestIs DEF LoadType
    <2>4. ASSUME NEW p \in Proc
          PROVE  /\ proc[p].env \in EnvelopeType
                 /\ proc[p].pc \in {"setL1", "fill"} => proc[p].ttl \in 1..Longest
      <3>1. proc[p] \in FrameType(scenario) /\ FrameOK(proc[p], scenario, now, src, changed)
        BY FrameIs
      <3>2. proc[p].pc \in {"setL1", "fill"} => proc[p].ttl \in 1..scenario.l1TTL
        BY <3>1 DEF FrameOK, Fits
      <3> QED  BY <2>s, <3>1, <3>2, LongestIs DEF FrameType
    <2>5. /\ scenario \in Scenarios
          /\ now \in 0..scenario.maxTime /\ src \in 0..scenario.maxVersion
          /\ bus \in [Replica -> SUBSET [ver : 0..scenario.maxVersion]]
          /\ begun \in 0..scenario.maxOps /\ calm \subseteq Proc
          /\ floor \in [Replica -> 0..scenario.maxVersion]
          /\ cleanAt \in [0..scenario.maxVersion -> 0..Never]
      BY DEF DataInv, ClockOK, RestOK, Never
    <2> QED  BY <2>1, <2>2, <2>3, <2>4, <2>5 DEF TypeOK
  <1> QED  BY <1>1, DataHolds, PTL

(* No replica is served an entry once the TTL write() gave it has passed,  *)
(* whatever jitter, backfills, slow Sets and delayed Redis commands did.   *)
THEOREM ServesWithinTTL == Spec => []ServedWithinTTL
  <1>1. DataInv => ServedWithinTTL
    <2> SUFFICES ASSUME DataInv, NEW x \in Stores, checked(store[x])
                 PROVE  now < store[x].env.limit
      BY DEF ServedWithinTTL
    <2>1. /\ now \in Nat /\ scenario \in Scenarios
          /\ scenario.maxTime \in Nat /\ LongestOf(scenario) \in Nat
      BY ScenarioIs DEF DataInv, ClockOK
    <2>2. store[x].env \in EnvType(scenario) /\ Written(store[x].env, scenario, now, src)
      BY DEF DataInv, StoresOK, StoreType, EntryOK, checked, Sound
    <2>3. store[x].env.expires \in Nat /\ store[x].env.limit \in Nat
      BY <2>1, <2>2 DEF EnvType
    <2> QED  BY <2>1, <2>2, <2>3 DEF Written, checked
  <1> QED  BY <1>1, DataHolds, PTL

(* An L1 entry outlives the envelope it holds by no more than the time the *)
(* Set that stored it took: ADR-0004, in backfills, loads and Sets.        *)
THEOREM L1EndsWithL2 == Spec => []L1WithinL2
  <1>1. DataInv => L1WithinL2
    BY DEF DataInv, StoresOK, EntryOK, L1WithinL2, Stores
  <1> QED  BY <1>1, DataHolds, PTL

(* A value a load stored is served for at most the load timeout and the    *)
(* longest TTL after the source moved past it: ADR-0011.                   *)
THEOREM StaleForAWhile == Spec => []StaleWithin
  <1>1. DataInv => StaleWithin
    <2> DEFINE e(x) == store[x].env
    <2> SUFFICES ASSUME DataInv, NEW x \in Stores, checked(store[x]),
                        e(x).ver < src, ~e(x).bySet
                 PROVE  now < changed[e(x).ver] + scenario.loadTimeout + Longest
      BY DEF StaleWithin
    <2>1. /\ now \in Nat /\ scenario \in Scenarios
          /\ scenario.maxTime \in Nat /\ LongestOf(scenario) \in Nat
          /\ scenario.loadTimeout \in Nat /\ scenario.maxVersion \in Nat
          /\ changed \in [0..scenario.maxVersion -> Nat]
      BY ScenarioIs DEF DataInv, ClockOK
    <2>2. e(x) \in EnvType(scenario) /\ Sound(e(x), scenario, now, src, changed)
      BY DEF DataInv, StoresOK, StoreType, EntryOK, checked
    <2>3. /\ e(x).expires \in Nat /\ e(x).limit \in Nat /\ e(x).at \in Nat
          /\ e(x).ver \in 0..scenario.maxVersion
      BY <2>1, <2>2 DEF EnvType
    <2>4. now < e(x).expires
      BY DEF checked
    <2> HIDE DEF e
    <2>5. changed[e(x).ver] \in Nat
      BY <2>1, <2>3
    <2>6. e(x).at < changed[e(x).ver] + scenario.loadTimeout
      BY <2>2 DEF Sound, Timely, e
    <2> QED  BY <2>1, <2>2, <2>3, <2>4, <2>5, <2>6, LongestIs DEF Sound, Written
  <1> QED  BY <1>1, DataHolds, PTL

-----------------------------------------------------------------------------
(* The second half: what a step does to versions that are free.            *)

ProcsStay ==
    \A o \in Proc : \A v \in L2Free :
      /\ SetOlder(proc'[o], v) => SetOlder(proc[o], v) /\ proc'[o].rep = proc[o].rep
      /\ CopyOlder(proc'[o], v) => CopyOlder(proc[o], v) /\ proc'[o].rep = proc[o].rep

LoadsStay ==
    \A d \in Load : \A v \in L2Free :
      LoadOlder(load'[d], v) => LoadOlder(load[d], v) /\ load'[d].rep = load[d].rep

StoresStay ==
    \A v \in L2Free :
      /\ FreeOf(store'[L2], v)
      /\ \A e \in late' : v <= e.ver
      /\ \A r \in Replica :
           v \in FlightFree(r) => FreeOf(store'[r], v) \/ store'[r] = store[r]

(* No older value enters the stores of a Delete that is still calm.        *)
CalmStay ==
    \A o \in calm' : \A x \in Stores :
      x \in {proc[o].rep, L2} /\ FreeOf(store[x], proc[o].ver)
        => FreeOf(store'[x], proc[o].ver)

DeletesStay ==
    \A o \in calm' : proc'[o].pc \in {"delL2", "publish"} =>
                       o \in calm /\ proc'[o] = proc[o]

LEMMA NumbersAre ==
  ASSUME DataInv
  PROVE  /\ scenario \in Scenarios /\ scenario.maxVersion \in Nat
         /\ scenario.maxTime \in Nat /\ scenario.l1TTL \in Nat
         /\ now \in 0..scenario.maxTime /\ src \in 0..scenario.maxVersion
         /\ \A x \in Stores : store[x].env.ver \in Nat /\ store[x].until \in Nat
         /\ \A e \in late : e.ver \in Nat
         /\ \A c \in Load : load[c].env.ver \in Nat
         /\ \A p \in Proc : proc[p].ver \in Nat /\ proc[p].env.ver \in Nat
         /\ L2Free \subseteq Nat
         /\ L2 \in Stores /\ L2 \notin Replica /\ Replica \subseteq Stores
  <1>1. /\ scenario \in Scenarios /\ scenario.maxVersion \in Nat
        /\ scenario.maxTime \in Nat /\ scenario.l1TTL \in Nat
        /\ now \in 0..scenario.maxTime /\ src \in 0..scenario.maxVersion
    BY ScenarioIs DEF DataInv, ClockOK
  <1>2. \A e \in EnvType(scenario) : e.ver \in Nat
    BY <1>1 DEF EnvType
  <1>3. \A x \in Stores : store[x].env.ver \in Nat /\ store[x].until \in Nat
    <2>1. \A x \in Stores : store[x].env \in EnvType(scenario) /\ store[x].until \in Nat
      BY DEF DataInv, StoresOK, StoreType
    <2> QED  BY <1>2, <2>1
  <1>4. \A e \in late : e.ver \in Nat
    BY <1>2 DEF DataInv, LateOK
  <1>5. \A c \in Load : load[c].env.ver \in Nat
    <2>1. \A c \in Load : load[c].env \in EnvType(scenario)
      BY DEF DataInv, LoadsOK, Load, LoadType
    <2> QED  BY <1>2, <2>1
  <1>6. \A p \in Proc : proc[p].ver \in Nat /\ proc[p].env.ver \in Nat
    <2>1. \A p \in Proc : /\ proc[p].env \in EnvType(scenario)
                          /\ proc[p].ver \in 0..scenario.maxVersion
      BY DEF DataInv, ProcsOK, FrameType
    <2> QED  BY <1>1, <1>2, <2>1
  <1>7. L2Free \subseteq Nat
    BY <1>1 DEF L2Free
  <1>8. L2 \in Stores /\ L2 \notin Replica /\ Replica \subseteq Stores
    BY PlainAssumption DEF PlainAssumption, Stores
  <1> QED  BY <1>1, <1>3, <1>4, <1>5, <1>6, <1>7, <1>8

(* What is free stays free.                                                *)
LEMMA FreeStays ==
  ASSUME DataInv, src <= src', src' \in Nat, UNCHANGED scenario,
         ProcsStay, LoadsStay, StoresStay
  PROVE  /\ \A v \in L2Free : v \in L2Free'
         /\ \A r \in Replica : \A v \in L2Free : v \in FlightFree(r) =>
              /\ v \in FlightFree(r)'
              /\ FreeOf(store'[r], v) \/ store'[r] = store[r]
  <1>s. src \in Nat /\ scenario.maxVersion \in Nat /\ Load' = Load /\ (HasL2' <=> HasL2)
    BY NumbersAre DEF Load, HasL2
  <1>1. ASSUME NEW v \in L2Free
        PROVE  v \in L2Free'
    <2>1. /\ v \in 0..scenario.maxVersion /\ v <= src
          /\ HasL2 => /\ \A c \in Load : ~LoadOlder(load[c], v)
                      /\ \A p \in Proc : ~SetOlder(proc[p], v)
      BY DEF L2Free
    <2>2. v <= src'
      BY <1>s, <2>1
    <2>3. HasL2 => /\ \A c \in Load : ~LoadOlder(load'[c], v)
                   /\ \A p \in Proc : ~SetOlder(proc'[p], v)
      BY <2>1 DEF LoadsStay, ProcsStay
    <2>4. FreeOf(store'[L2], v) /\ \A e \in late' : v <= e.ver
      BY DEF StoresStay
    <2> QED  BY <1>s, <2>1, <2>2, <2>3, <2>4 DEF L2Free
  <1>2. ASSUME NEW r \in Replica, NEW v \in L2Free, v \in FlightFree(r)
        PROVE  v \in FlightFree(r)'
    <2>1. /\ v \in 0..scenario.maxVersion
          /\ \A c \in Load : load[c].rep = r => ~LoadOlder(load[c], v)
          /\ \A p \in Proc : proc[p].rep = r =>
               ~SetOlder(proc[p], v) /\ ~CopyOlder(proc[p], v)
      BY <1>2 DEF FlightFree
    <2>2. \A c \in Load : load'[c].rep = r => ~LoadOlder(load'[c], v)
      BY <2>1 DEF LoadsStay
    <2>3. \A p \in Proc : proc'[p].rep = r =>
            ~SetOlder(proc'[p], v) /\ ~CopyOlder(proc'[p], v)
      BY <2>1 DEF ProcsStay
    <2> QED  BY <1>s, <2>1, <2>2, <2>3 DEF FlightFree
  <1>3. ASSUME NEW r \in Replica, NEW v \in L2Free, v \in FlightFree(r)
        PROVE  FreeOf(store'[r], v) \/ store'[r] = store[r]
    BY <1>3 DEF StoresStay
  <1> QED  BY <1>1, <1>2, <1>3

(* What the ghosts promise of a step that leaves them alone.               *)
GhostsKept == UNCHANGED <<bus, floor, cleanAt>>

LEMMA FreeKept ==
  ASSUME DataInv, FreeInv, src <= src', src' \in Nat, UNCHANGED scenario,
         ProcsStay, LoadsStay, StoresStay, GhostsKept,
         now' \in 0..scenario.maxTime, now <= now'
  PROVE  FloorOK' /\ BusOK' /\ CleanOK'
  <1>s. /\ scenario.maxTime \in Nat /\ scenario.maxVersion \in Nat /\ now \in Nat
        /\ cleanAt \in [0..scenario.maxVersion -> 0..(scenario.maxTime + 1)]
        /\ floor \in [Replica -> 0..scenario.maxVersion]
        /\ UNCHANGED <<bus, floor, cleanAt, scenario>>
    BY NumbersAre DEF DataInv, RestOK, GhostsKept
  <1>f. /\ \A v \in L2Free : v \in L2Free'
        /\ \A r \in Replica : \A v \in L2Free : v \in FlightFree(r) =>
             /\ v \in FlightFree(r)'
             /\ FreeOf(store'[r], v) \/ store'[r] = store[r]
    BY FreeStays
  <1>1. FloorOK'
    <2>1. ASSUME NEW r \in Replica
          PROVE  /\ floor[r] \in L2Free' /\ floor[r] \in FlightFree(r)'
                 /\ FreeOf(store'[r], floor[r])
      <3>1. /\ floor[r] \in L2Free /\ floor[r] \in FlightFree(r)
            /\ FreeOf(store[r], floor[r])
        BY DEF FreeInv, FloorOK
      <3>2. FreeOf(store'[r], floor[r]) \/ store'[r] = store[r]
        BY <1>f, <3>1
      <3>3. FreeOf(store'[r], floor[r])
        BY <3>1, <3>2
      <3> QED  BY <1>f, <3>1, <3>3
    <2> QED  BY <1>s, <2>1 DEF FloorOK
  <1>2. BusOK'
    BY <1>s, <1>f DEF FreeInv, BusOK
  <1>3. CleanOK'
    <2>1. ASSUME NEW v \in 0..scenario.maxVersion
          PROVE  /\ cleanAt[v] <= now' \/ cleanAt[v] = scenario.maxTime + 1
                 /\ cleanAt[v] <= now' =>
                      /\ v \in L2Free'
                      /\ \A r \in Replica :
                           /\ v \in FlightFree(r)'
                           /\ \/ FreeOf(store'[r], v)
                              \/ store'[r].until <= cleanAt[v] + scenario.l1TTL
      <3>1. CASE cleanAt[v] = scenario.maxTime + 1
        BY <1>s, <3>1
      <3>2. CASE cleanAt[v] <= now
        <4>1. /\ v \in L2Free
              /\ \A r \in Replica :
                   /\ v \in FlightFree(r)
                   /\ FreeOf(store[r], v) \/ store[r].until <= cleanAt[v] + scenario.l1TTL
          BY <3>2 DEF FreeInv, CleanOK
        <4>2. cleanAt[v] <= now'
          BY <1>s, <3>2
        <4>3. ASSUME NEW r \in Replica
              PROVE  /\ v \in FlightFree(r)'
                     /\ \/ FreeOf(store'[r], v)
                        \/ store'[r].until <= cleanAt[v] + scenario.l1TTL
          <5>1. FreeOf(store'[r], v) \/ store'[r] = store[r]
            BY <1>f, <4>1
          <5>2. CASE store'[r] = store[r]
            BY <1>f, <4>1, <5>2
          <5> QED  BY <1>f, <4>1, <5>1, <5>2
        <4> QED  BY <1>f, <4>1, <4>2, <4>3
      <3> QED  BY <3>1, <3>2 DEF FreeInv, CleanOK
    <2> QED  BY <1>s, <2>1 DEF CleanOK
  <1> QED  BY <1>1, <1>2, <1>3

LEMMA DeletesKept ==
  ASSUME DataInv, FreeInv, CalmStay, DeletesStay
  PROVE  DeletesOK'
  <1>1. ASSUME NEW p \in calm'
        PROVE  /\ proc'[p].pc \in {"delL2", "publish"} /\ ~proc'[p].err =>
                    FreeOf(store'[proc'[p].rep], proc'[p].ver)
               /\ proc'[p].pc = "publish" /\ ~proc'[p].err =>
                    FreeOf(store'[L2], proc'[p].ver)
    <2>1. SUFFICES ASSUME proc'[p].pc \in {"delL2", "publish"}, ~proc'[p].err
                   PROVE  /\ FreeOf(store'[proc'[p].rep], proc'[p].ver)
                          /\ proc'[p].pc = "publish" => FreeOf(store'[L2], proc'[p].ver)
      OBVIOUS
    <2>2. p \in calm /\ proc'[p] = proc[p]
      BY <2>1 DEF DeletesStay
    <2>3. /\ FreeOf(store[proc[p].rep], proc[p].ver)
          /\ proc[p].pc = "publish" => FreeOf(store[L2], proc[p].ver)
      BY <2>1, <2>2 DEF FreeInv, DeletesOK
    <2>4. p \in Proc /\ proc[p].rep \in Stores /\ L2 \in Stores
      <3>1. p \in Proc
        BY <2>2 DEF DataInv, RestOK
      <3>2. proc[p].rep \in Replica
        BY <2>1, <2>2, <3>1, FrameIs DEF FrameOK
      <3> QED  BY <3>1, <3>2 DEF Stores
    <2>5. /\ FreeOf(store'[proc[p].rep], proc[p].ver)
          /\ proc[p].pc = "publish" => FreeOf(store'[L2], proc[p].ver)
      BY <2>3, <2>4 DEF CalmStay
    <2> QED  BY <2>2, <2>5
  <1> QED  BY <1>1 DEF DeletesOK

-----------------------------------------------------------------------------
(* The parts of a step: what it does to the stores, a goroutine, a load.   *)
LEMMA ClearedStays ==
  ASSUME DataInv, late' \subseteq late,
         \A x \in Stores : store'[x] = NoEntry \/ store'[x] = store[x]
  PROVE  StoresStay /\ CalmStay
  <1>1. \A x \in Stores : \A v : FreeOf(store[x], v) => FreeOf(store'[x], v)
    BY DEF FreeOf
  <1>2. L2 \in Stores /\ Replica \subseteq Stores
    BY DEF Stores
  <1>3. StoresStay
    <2>1. ASSUME NEW v \in L2Free
          PROVE  /\ FreeOf(store'[L2], v) /\ \A e \in late' : v <= e.ver
                 /\ \A r \in Replica : FreeOf(store'[r], v) \/ store'[r] = store[r]
      <3>1. FreeOf(store[L2], v) /\ \A e \in late : v <= e.ver
        BY DEF L2Free
      <3>2. \A r \in Replica : FreeOf(store'[r], v) \/ store'[r] = store[r]
        BY <1>2 DEF FreeOf
      <3> QED  BY <1>1, <1>2, <3>1, <3>2
    <2> QED  BY <2>1 DEF StoresStay
  <1>4. CalmStay
    BY <1>1 DEF CalmStay
  <1> QED  BY <1>3, <1>4

LEMMA PutStays ==
  ASSUME DataInv, NEW x \in Stores, NEW e, e.ver \in Nat, NEW until, NEW lag,
         store' = [store EXCEPT ![x] = [env |-> e, until |-> until, lag |-> lag]],
         calm' = calm \ Crossed(x, e.ver), late' \subseteq late,
         x = L2 => \A v \in L2Free : v <= e.ver,
         x \in Replica => \A v \in L2Free : v \in FlightFree(x) => v <= e.ver
  PROVE  StoresStay /\ CalmStay
  <1> DEFINE y == [env |-> e, until |-> until, lag |-> lag]
  <1>1. \A v : v <= e.ver => FreeOf(y, v)
    BY DEF FreeOf
  <1>2. /\ store'[x] = y
        /\ \A z \in Stores : z # x => store'[z] = store[z]
    BY DEF DataInv, StoresOK
  <1> HIDE DEF y
  <1>3. L2 \in Stores /\ L2 \notin Replica /\ Replica \subseteq Stores
    BY NumbersAre
  <1>4. StoresStay
    <2>1. ASSUME NEW v \in L2Free
          PROVE  /\ FreeOf(store'[L2], v) /\ \A f \in late' : v <= f.ver
                 /\ \A r \in Replica :
                      v \in FlightFree(r) => FreeOf(store'[r], v) \/ store'[r] = store[r]
      <3>1. FreeOf(store[L2], v) /\ \A f \in late : v <= f.ver
        BY DEF L2Free
      <3>2. FreeOf(store'[L2], v)
        BY <1>1, <1>2, <1>3, <3>1
      <3>3. ASSUME NEW r \in Replica, v \in FlightFree(r)
            PROVE  FreeOf(store'[r], v) \/ store'[r] = store[r]
        BY <1>1, <1>2, <1>3, <3>3
      <3> QED  BY <3>1, <3>2, <3>3
    <2> QED  BY <2>1 DEF StoresStay
  <1>5. CalmStay
    <2>1. ASSUME NEW o \in calm', NEW z \in Stores, z \in {proc[o].rep, L2},
                 FreeOf(store[z], proc[o].ver)
          PROVE  FreeOf(store'[z], proc[o].ver)
      <3>1. CASE z # x
        BY <1>2, <2>1, <3>1
      <3>2. CASE z = x
        <4>1. o \in calm /\ ~(e.ver < proc[o].ver)
          BY <2>1, <3>2 DEF Crossed
        <4>2. proc[o].ver \in Nat
          BY <4>1, NumbersAre DEF DataInv, RestOK
        <4>3. proc[o].ver <= e.ver
          BY <4>1, <4>2
        <4> QED  BY <1>1, <1>2, <3>2, <4>3
      <3> QED  BY <3>1, <3>2
    <2> QED  BY <2>1 DEF CalmStay
  <1> QED  BY <1>4, <1>5

LEMMA PutL2Stays ==
  ASSUME DataInv, NEW e, e.ver \in Nat, \A v \in L2Free : v <= e.ver,
         \/ Put(L2, e, e.expires - e.at, e.at)
         \/ NoPut
         \/ late' = late \cup {e} /\ UNCHANGED <<store, calm>>
  PROVE  StoresStay /\ CalmStay
  <1>1. L2 \in Stores /\ L2 \notin Replica
    BY NumbersAre
  <1>2. CASE Put(L2, e, e.expires - e.at, e.at)
    BY <1>1, <1>2, PutStays DEF Put
  <1>3. CASE NoPut
    BY <1>3, ClearedStays DEF NoPut
  <1>4. CASE late' = late \cup {e} /\ UNCHANGED <<store, calm>>
    <2>1. StoresStay
      BY <1>4 DEF StoresStay, L2Free
    <2>2. CalmStay
      BY <1>4 DEF CalmStay
    <2> QED  BY <2>1, <2>2
  <1> QED  BY <1>2, <1>3, <1>4

LEMMA MoveStays ==
  ASSUME DataInv, NEW p \in Proc, NEW q, Move(p, q),
         \A v \in L2Free :
           /\ SetOlder(q, v) => SetOlder(proc[p], v) /\ q.rep = proc[p].rep
           /\ CopyOlder(q, v) => CopyOlder(proc[p], v) /\ q.rep = proc[p].rep
  PROVE  ProcsStay
  <1>1. proc'[p] = q /\ \A o \in Proc : o # p => proc'[o] = proc[o]
    BY DEF DataInv, ProcsOK, Move
  <1> QED  BY <1>1 DEF ProcsStay

LEMMA LoadMoveStays ==
  ASSUME DataInv, NEW c \in Load, NEW l, load' = [load EXCEPT ![c] = l],
         \A v \in L2Free :
           LoadOlder(l, v) => LoadOlder(load[c], v) /\ l.rep = load[c].rep
  PROVE  LoadsStay
  <1>1. load'[c] = l /\ \A d \in Load : d # c => load'[d] = load[d]
    BY DEF DataInv, LoadsOK, Load
  <1> QED  BY <1>1 DEF LoadsStay

(* A goroutine that moves on, not into the rest of a Delete.               *)
LEMMA MoveKeepsDeletes ==
  ASSUME DataInv, NEW p \in Proc, NEW q, Move(p, q), calm' \subseteq calm \cup {p},
         q.pc \notin {"delL2", "publish"}
  PROVE  DeletesStay
  <1>1. proc'[p] = q /\ \A o \in Proc : o # p => proc'[o] = proc[o]
    BY DEF DataInv, ProcsOK, Move
  <1>2. calm \subseteq Proc
    BY DEF DataInv, RestOK
  <1> QED  BY <1>1, <1>2 DEF DeletesStay

LEMMA SameStays ==
  ASSUME DataInv
  PROVE  /\ UNCHANGED proc => ProcsStay
         /\ UNCHANGED proc /\ calm' \subseteq calm => DeletesStay
         /\ UNCHANGED load => LoadsStay
         /\ UNCHANGED <<store, late>> => StoresStay /\ CalmStay
  <1>1. UNCHANGED proc => ProcsStay
    BY DEF ProcsStay
  <1>2. UNCHANGED proc /\ calm' \subseteq calm => DeletesStay
    BY DEF DeletesStay
  <1>3. UNCHANGED load => LoadsStay
    BY DEF LoadsStay
  <1>4. UNCHANGED <<store, late>> => StoresStay /\ CalmStay
    BY ClearedStays
  <1> QED  BY <1>1, <1>2, <1>3, <1>4

(* A step of all of them.                                                  *)
LEMMA StaysFree ==
  ASSUME DataInv, FreeInv, src <= src', src' \in Nat, UNCHANGED scenario,
         ProcsStay, LoadsStay, StoresStay, CalmStay, DeletesStay, GhostsKept,
         now' \in 0..scenario.maxTime, now <= now'
  PROVE  FreeInv'
  BY FreeKept, DeletesKept DEF FreeInv

LEMMA StaysFreeNow ==
  ASSUME DataInv, FreeInv, UNCHANGED <<scenario, now, src>>,
         ProcsStay, LoadsStay, StoresStay, CalmStay, DeletesStay, GhostsKept
  PROVE  FreeInv'
  <1>1. src <= src' /\ src' \in Nat /\ now' \in 0..scenario.maxTime /\ now <= now'
    BY NumbersAre
  <1> QED  BY <1>1, StaysFree

-----------------------------------------------------------------------------
(* One step after another.                                                 *)

LEMMA EnvironmentKeepsFree ==
  ASSUME DataInv, FreeInv, UNCHANGED scenario
  PROVE  /\ Tick => FreeInv'
         /\ Write => FreeInv'
         /\ \A e \in late : Land(e) => FreeInv'
  <1>n. /\ now \in Nat /\ src \in Nat /\ scenario.maxTime \in Nat
        /\ src \in 0..scenario.maxVersion /\ scenario.maxVersion \in Nat
    BY NumbersAre
  <1>1. ASSUME Tick
        PROVE  FreeInv'
    <2>1. /\ now < scenario.maxTime /\ now' = now + 1
          /\ UNCHANGED <<src, changed, late, load, bus, proc, begun, calm, floor, cleanAt>>
          /\ \A x \in Stores : store'[x] = NoEntry \/ store'[x] = store[x]
      BY <1>1 DEF Tick, ghosts
    <2>2. /\ now' \in 0..scenario.maxTime /\ now <= now'
          /\ src <= src' /\ src' \in Nat
      BY <1>n, <2>1
    <2>3. StoresStay /\ CalmStay
      BY <2>1, ClearedStays
    <2>4. ProcsStay /\ LoadsStay /\ DeletesStay /\ GhostsKept
      BY <2>1, SameStays DEF GhostsKept
    <2> QED  BY <2>2, <2>3, <2>4, StaysFree
  <1>2. ASSUME Write
        PROVE  FreeInv'
    <2>1. /\ src' = src + 1
          /\ UNCHANGED <<now, store, late, load, bus, proc, begun, calm, floor, cleanAt>>
      BY <1>2 DEF Write, ghosts
    <2>2. /\ now' \in 0..scenario.maxTime /\ now <= now'
          /\ src <= src' /\ src' \in Nat
      BY <1>n, <2>1, NumbersAre
    <2>3. /\ StoresStay /\ CalmStay /\ ProcsStay /\ LoadsStay
          /\ DeletesStay /\ GhostsKept
      BY <2>1, SameStays DEF GhostsKept
    <2> QED  BY <2>2, <2>3, StaysFree
  <1>3. ASSUME NEW e \in late, Land(e)
        PROVE  FreeInv'
    <2>1. /\ UNCHANGED <<now, src, changed, load, bus, proc, begun, floor, cleanAt>>
          /\ late' \subseteq late /\ calm' = calm \ Crossed(L2, e.ver)
          /\ store' = [store EXCEPT ![L2] = [env |-> e, until |-> now + (e.expires - e.at),
                                             lag |-> now - e.at]]
      BY <1>3 DEF Land
    <2>2. /\ e.ver \in Nat /\ L2 \in Stores /\ L2 \notin Replica
          /\ \A v \in L2Free : v <= e.ver
      BY NumbersAre DEF L2Free
    <2>3. StoresStay /\ CalmStay
      BY <2>1, <2>2, PutStays
    <2>4. ProcsStay /\ LoadsStay /\ DeletesStay /\ GhostsKept
      BY <2>1, SameStays DEF GhostsKept
    <2> QED  BY <2>1, <2>3, <2>4, StaysFreeNow
  <1> QED  BY <1>1, <1>2, <1>3

(* A goroutine that moves on and stores nothing.                           *)
LEMMA MoveKeepsFree ==
  ASSUME DataInv, FreeInv, UNCHANGED scenario, NEW p \in Proc, NEW q, Move(p, q),
         UNCHANGED <<now, src, store, late, load, bus, floor, cleanAt>>,
         calm' \subseteq calm \cup {p}, q.pc \notin {"delL2", "publish"},
         \A v \in L2Free :
           /\ SetOlder(q, v) => SetOlder(proc[p], v) /\ q.rep = proc[p].rep
           /\ CopyOlder(q, v) => CopyOlder(proc[p], v) /\ q.rep = proc[p].rep
  PROVE  FreeInv'
  <1>1. ProcsStay
    BY MoveStays
  <1>2. DeletesStay
    BY MoveKeepsDeletes
  <1>3. LoadsStay /\ StoresStay /\ CalmStay /\ GhostsKept
    BY SameStays DEF GhostsKept
  <1> QED  BY <1>1, <1>2, <1>3, StaysFreeNow

LEMMA BeginsKeepFree ==
  ASSUME DataInv, FreeInv, UNCHANGED scenario, NEW p \in Proc, NEW r \in Replica
  PROVE  /\ MissL1(p, r) => FreeInv'
         /\ DeleteRefused(p, r) => FreeInv'
         /\ \A want \in scenario.asked : BeginSet(p, r, want) => FreeInv'
  <1>1. ASSUME MissL1(p, r)
        PROVE  FreeInv'
    <2> DEFINE q == [Idle EXCEPT !.rep = r, !.pc = IF HasL2 THEN "l2get" ELSE "flight"]
    <2>1. /\ Move(p, q) /\ calm' \subseteq calm \cup {p}
          /\ UNCHANGED <<now, src, store, late, load, bus, floor, cleanAt>>
      BY <1>1 DEF MissL1, Begin
    <2>2. q.pc \in {"l2get", "flight"}
      BY DEF Idle
    <2> HIDE DEF q
    <2>3. \A v : ~SetOlder(q, v) /\ ~CopyOlder(q, v)
      BY <2>2 DEF SetOlder, CopyOlder
    <2> QED  BY <2>1, <2>2, <2>3, MoveKeepsFree
  <1>2. ASSUME DeleteRefused(p, r)
        PROVE  FreeInv'
    <2> DEFINE q == [Idle EXCEPT !.pc = "failed", !.rep = r, !.ver = src]
    <2>1. /\ Move(p, q) /\ calm' \subseteq calm \cup {p}
          /\ UNCHANGED <<now, src, store, late, load, bus, floor, cleanAt>>
      BY <1>2 DEF DeleteRefused, Begin
    <2>2. q.pc = "failed"
      BY DEF Idle
    <2> HIDE DEF q
    <2>3. \A v : ~SetOlder(q, v) /\ ~CopyOlder(q, v)
      BY <2>2 DEF SetOlder, CopyOlder
    <2> QED  BY <2>1, <2>2, <2>3, MoveKeepsFree
  <1>3. ASSUME NEW want \in scenario.asked, BeginSet(p, r, want)
        PROVE  FreeInv'
    <2> DEFINE q == [Idle EXCEPT !.pc = "write", !.rep = r, !.ver = src, !.ttl = want]
    <2>1. /\ Move(p, q) /\ calm' \subseteq calm \cup {p}
          /\ UNCHANGED <<now, src, store, late, load, bus, floor, cleanAt>>
      BY <1>3 DEF BeginSet, Begin
    <2>2. q.pc = "write" /\ q.ver = src
      BY DEF Idle
    <2> HIDE DEF q
    <2>3. \A v \in L2Free : ~SetOlder(q, v) /\ ~CopyOlder(q, v)
      <3>1. src \in Nat /\ \A v \in L2Free : v \in Nat /\ v <= src
        BY NumbersAre DEF L2Free
      <3> QED  BY <2>2, <3>1 DEF SetOlder, CopyOlder
    <2> QED  BY <2>1, <2>2, <2>3, MoveKeepsFree
  <1> QED  BY <1>1, <1>2, <1>3

LEMMA IdleIsFree == Idle.pc = "idle" /\ \A v : ~SetOlder(Idle, v) /\ ~CopyOlder(Idle, v)
  BY DEF Idle, SetOlder, CopyOlder

(* A goroutine that stores something and moves on.                         *)
LEMMA PutStepKeepsFree ==
  ASSUME DataInv, FreeInv, UNCHANGED scenario, NEW p \in Proc, NEW q, Move(p, q),
         UNCHANGED <<now, src, load, bus, floor, cleanAt>>,
         StoresStay, CalmStay, calm' \subseteq calm,
         q.pc \notin {"delL2", "publish"},
         \A v \in L2Free :
           /\ SetOlder(q, v) => SetOlder(proc[p], v) /\ q.rep = proc[p].rep
           /\ CopyOlder(q, v) => CopyOlder(proc[p], v) /\ q.rep = proc[p].rep
  PROVE  FreeInv'
  <1>1. ProcsStay
    BY MoveStays
  <1>2. DeletesStay
    BY MoveKeepsDeletes
  <1>3. LoadsStay /\ GhostsKept
    BY SameStays DEF GhostsKept
  <1> QED  BY <1>1, <1>2, <1>3, StaysFreeNow

(* A load that moves on.                                                   *)
LEMMA LoadStepKeepsFree ==
  ASSUME DataInv, FreeInv, UNCHANGED scenario, NEW c \in Load, NEW l,
         load' = [load EXCEPT ![c] = l],
         UNCHANGED <<now, src, bus, proc, floor, cleanAt>>,
         StoresStay, CalmStay, calm' \subseteq calm,
         \A v \in L2Free :
           LoadOlder(l, v) => LoadOlder(load[c], v) /\ l.rep = load[c].rep
  PROVE  FreeInv'
  <1>1. LoadsStay
    BY LoadMoveStays
  <1>2. ProcsStay /\ DeletesStay /\ GhostsKept
    BY SameStays DEF GhostsKept
  <1> QED  BY <1>1, <1>2, StaysFreeNow

(* Into r's own copy comes nothing older.                                  *)
LEMMA PutL1Stays ==
  ASSUME DataInv, NEW r \in Replica, NEW e, e.ver \in Nat, NEW ttl, NEW since,
         \A v \in L2Free : v \in FlightFree(r) => v <= e.ver,
         Put(r, e, ttl, since) \/ NoPut
  PROVE  StoresStay /\ CalmStay /\ calm' \subseteq calm
  <1>1. r \in Stores /\ r # L2
    BY NumbersAre
  <1>2. CASE Put(r, e, ttl, since)
    BY <1>1, <1>2, PutStays DEF Put
  <1>3. CASE NoPut
    BY <1>3, ClearedStays DEF NoPut
  <1> QED  BY <1>2, <1>3

LEMMA ReadsKeepFree ==
  ASSUME DataInv, FreeInv, UNCHANGED scenario, NEW p \in Proc
  PROVE  /\ L2Get(p) => FreeInv'
         /\ ClampStep(p) => FreeInv'
         /\ Backfill(p) => FreeInv'
         /\ EndMiss(p) => FreeInv'
  <1>f. proc[p] \in FrameType(scenario) /\ FrameOK(proc[p], scenario, now, src, changed)
    BY FrameIs
  <1>1. ASSUME L2Get(p)
        PROVE  FreeInv'
    <2> DEFINE clamp == [proc[p] EXCEPT !.pc = "clamp", !.env = store[L2].env]
               flight == [proc[p] EXCEPT !.pc = "flight"]
    <2>1. /\ UNCHANGED <<now, src, store, late, load, bus, calm, floor, cleanAt>>
          /\ \/ Move(p, clamp) /\ checked(store[L2])
             \/ Move(p, Idle)
             \/ Move(p, flight)
      BY <1>1 DEF L2Get, ghosts, Return
    <2>2. clamp.pc = "clamp" /\ clamp.env = store[L2].env /\ flight.pc = "flight"
      BY <1>f DEF FrameType
    <2> HIDE DEF clamp, flight
    <2>3. checked(store[L2]) => \A v \in L2Free : ~SetOlder(clamp, v) /\ ~CopyOlder(clamp, v)
      <3>1. checked(store[L2]) => \A v \in L2Free : v <= store[L2].env.ver
        BY DEF checked, L2Free, FreeOf
      <3>2. store[L2].env.ver \in Nat /\ L2Free \subseteq Nat
        BY NumbersAre
      <3>3. checked(store[L2]) => \A v \in L2Free : ~(clamp.env.ver < v)
        BY <2>2, <3>1, <3>2
      <3> QED  BY <2>2, <3>3 DEF SetOlder, CopyOlder
    <2>4. \A v : ~SetOlder(flight, v) /\ ~CopyOlder(flight, v)
      BY <2>2 DEF SetOlder, CopyOlder
    <2>5. CASE Move(p, clamp) /\ checked(store[L2])
      BY <2>1, <2>2, <2>3, <2>5, MoveKeepsFree
    <2>6. CASE Move(p, Idle)
      BY <2>1, <2>6, IdleIsFree, MoveKeepsFree
    <2>7. CASE Move(p, flight)
      BY <2>1, <2>2, <2>4, <2>7, MoveKeepsFree
    <2> QED  BY <2>1, <2>5, <2>6, <2>7
  <1>2. ASSUME ClampStep(p)
        PROVE  FreeInv'
    <2> DEFINE fill == [proc[p] EXCEPT !.pc = "fill", !.ttl = Clamp(proc[p].env), !.since = now]
    <2>1. /\ UNCHANGED <<now, src, store, late, load, bus, calm, floor, cleanAt>>
          /\ proc[p].pc = "clamp"
          /\ Move(p, Idle) \/ Move(p, fill)
      BY <1>2 DEF ClampStep, At, ghosts, Return
    <2>2. fill.pc = "fill" /\ fill.rep = proc[p].rep /\ fill.env = proc[p].env
      BY <1>f DEF FrameType
    <2> HIDE DEF fill
    <2>3. \A v : /\ ~SetOlder(fill, v)
                 /\ CopyOlder(fill, v) => CopyOlder(proc[p], v) /\ fill.rep = proc[p].rep
      BY <2>1, <2>2 DEF SetOlder, CopyOlder
    <2>4. CASE Move(p, Idle)
      BY <2>1, <2>4, IdleIsFree, MoveKeepsFree
    <2>5. CASE Move(p, fill)
      BY <2>1, <2>2, <2>3, <2>5, MoveKeepsFree
    <2> QED  BY <2>1, <2>4, <2>5
  <1>3. ASSUME Backfill(p)
        PROVE  FreeInv'
    <2>1. /\ proc[p].pc = "fill" /\ Move(p, Idle)
          /\ Put(proc[p].rep, proc[p].env, proc[p].ttl, proc[p].since) \/ NoPut
          /\ UNCHANGED <<now, src, load, bus, floor, cleanAt>>
      BY <1>3 DEF Backfill, At, PutIf, Return
    <2>2. proc[p].rep \in Replica
      BY <1>f, <2>1 DEF FrameOK
    <2>3. /\ proc[p].env.ver \in Nat
          /\ \A v \in L2Free : v \in FlightFree(proc[p].rep) => v <= proc[p].env.ver
      <3>1. proc[p].env.ver \in Nat /\ L2Free \subseteq Nat
        BY NumbersAre
      <3>2. \A v \in L2Free : v \in FlightFree(proc[p].rep) => ~(proc[p].env.ver < v)
        BY <2>1 DEF FlightFree, CopyOlder
      <3> QED  BY <3>1, <3>2
    <2>4. StoresStay /\ CalmStay /\ calm' \subseteq calm
      BY <2>1, <2>2, <2>3, PutL1Stays
    <2> QED  BY <2>1, <2>4, IdleIsFree, PutStepKeepsFree
  <1>4. ASSUME EndMiss(p)
        PROVE  FreeInv'
    BY <1>4, IdleIsFree, MoveKeepsFree DEF EndMiss, Return, ghosts
  <1> QED  BY <1>1, <1>2, <1>3, <1>4

LEMMA SetsKeepFree ==
  ASSUME DataInv, FreeInv, UNCHANGED scenario, NEW p \in Proc
  PROVE  /\ SetWrite(p) => FreeInv'
         /\ SetL2(p) => FreeInv'
         /\ SetL1(p) => FreeInv'
  <1>f. proc[p] \in FrameType(scenario) /\ FrameOK(proc[p], scenario, now, src, changed)
    BY FrameIs
  <1>n. proc[p].ver \in Nat /\ proc[p].env.ver \in Nat /\ L2Free \subseteq Nat
    BY NumbersAre
  <1>1. ASSUME SetWrite(p)
        PROVE  FreeInv'
    <2> PICK n \in scenario.jitter :
          Move(p, [proc[p] EXCEPT !.pc = FirstPut, !.ttl = L1TTLOf(proc[p].ttl, n),
                                  !.env = Envelope(proc[p].ver, proc[p].ttl, n, TRUE)])
      BY <1>1 DEF SetWrite
    <2> DEFINE e == Envelope(proc[p].ver, proc[p].ttl, n, TRUE)
               l1 == L1TTLOf(proc[p].ttl, n)
               q == [proc[p] EXCEPT !.pc = FirstPut, !.ttl = l1, !.env = e]
    <2>1. /\ UNCHANGED <<now, src, store, late, load, bus, calm, floor, cleanAt>>
          /\ proc[p].pc = "write" /\ Move(p, q)
      BY <1>1 DEF SetWrite, At, ghosts
    <2> HIDE DEF e, l1
    <2>2. q.pc \in {"setL2", "setL1"} /\ q.rep = proc[p].rep /\ q.ver = proc[p].ver
      BY <1>f DEF FrameType, FirstPut
    <2> HIDE DEF q
    <2>3. \A v : /\ SetOlder(q, v) => SetOlder(proc[p], v) /\ q.rep = proc[p].rep
                 /\ ~CopyOlder(q, v)
      BY <2>1, <2>2 DEF SetOlder, CopyOlder
    <2> QED  BY <2>1, <2>2, <2>3, MoveKeepsFree
  <1>2. ASSUME SetL2(p)
        PROVE  FreeInv'
    <2> DEFINE q == [proc[p] EXCEPT !.pc = "setL1"]
    <2>1. /\ proc[p].pc = "setL2"
          /\ \/ Put(L2, proc[p].env, proc[p].env.expires - proc[p].env.at, proc[p].env.at)
             \/ NoPut
             \/ late' = late \cup {proc[p].env} /\ UNCHANGED <<store, calm>>
          /\ UNCHANGED <<now, src, load, bus, floor, cleanAt>>
          /\ Move(p, q) \/ Move(p, Idle)
      BY <1>2 DEF SetL2, At, PutL2, PutIf, Return
    <2>2. scenario.level \in {"both", "L1", "L2"} /\ scenario.level # "L1"
          /\ proc[p].env.ver = proc[p].ver
      BY <1>f, <2>1, ScenarioIs DEF FrameOK, DataInv, ClockOK
    <2>3. \A v \in L2Free : v <= proc[p].env.ver
      <3>1. \A v \in L2Free : ~(proc[p].ver < v)
        BY <2>1, <2>2 DEF L2Free, HasL2, SetOlder
      <3> QED  BY <1>n, <2>2, <3>1
    <2>4. StoresStay /\ CalmStay
      BY <1>n, <2>1, <2>3, PutL2Stays
    <2>5. calm' \subseteq calm
      BY <2>1 DEF Put, NoPut
    <2>6. q.pc = "setL1" /\ q.rep = proc[p].rep /\ q.ver = proc[p].ver
      BY <1>f DEF FrameType
    <2> HIDE DEF q
    <2>7. \A v : /\ SetOlder(q, v) => SetOlder(proc[p], v) /\ q.rep = proc[p].rep
                 /\ ~CopyOlder(q, v)
      BY <2>1, <2>6 DEF SetOlder, CopyOlder
    <2>8. CASE Move(p, q)
      BY <2>1, <2>4, <2>5, <2>6, <2>7, <2>8, PutStepKeepsFree
    <2>9. CASE Move(p, Idle)
      BY <2>1, <2>4, <2>5, <2>9, IdleIsFree, PutStepKeepsFree
    <2> QED  BY <2>1, <2>8, <2>9
  <1>3. ASSUME SetL1(p)
        PROVE  FreeInv'
    <2>1. /\ proc[p].pc = "setL1" /\ Move(p, Idle)
          /\ Put(proc[p].rep, proc[p].env, proc[p].ttl, proc[p].env.at) \/ NoPut
          /\ UNCHANGED <<now, src, load, bus, floor, cleanAt>>
      BY <1>3 DEF SetL1, At, PutIf, Return
    <2>2. proc[p].rep \in Replica /\ proc[p].env.ver = proc[p].ver
      BY <1>f, <2>1 DEF FrameOK
    <2>3. \A v \in L2Free : v \in FlightFree(proc[p].rep) => v <= proc[p].env.ver
      <3>1. \A v \in L2Free : v \in FlightFree(proc[p].rep) => ~(proc[p].ver < v)
        BY <2>1 DEF FlightFree, SetOlder
      <3> QED  BY <1>n, <2>2, <3>1
    <2>4. StoresStay /\ CalmStay /\ calm' \subseteq calm
      BY <1>n, <2>1, <2>2, <2>3, PutL1Stays
    <2> QED  BY <2>1, <2>4, IdleIsFree, PutStepKeepsFree
  <1> QED  BY <1>1, <1>2, <1>3

LEMMA LoadsKeepFree ==
  ASSUME DataInv, FreeInv, UNCHANGED scenario, NEW c \in Load
  PROVE  LoadStep(c) => FreeInv'
  <1>f. /\ load[c] \in LoadType(scenario)
        /\ LoadOK(load[c], scenario, now, src, changed)
    BY LoadIs
  <1>n. load[c].env.ver \in Nat /\ L2Free \subseteq Nat /\ src \in Nat
    BY NumbersAre
  <1>s. UNCHANGED <<store, late, calm>> =>
          StoresStay /\ CalmStay /\ calm' \subseteq calm
    BY SameStays
  <1>1. ASSUME ReadSource(c)
        PROVE  FreeInv'
    <2> DEFINE l == [load[c] EXCEPT !.stage = "loaded", !.env.ver = src]
    <2>1. /\ UNCHANGED <<now, src, store, late, bus, proc, calm, floor, cleanAt>>
          /\ load' = [load EXCEPT ![c] = l]
      BY <1>1 DEF ReadSource, ghosts, DataInv, LoadsOK, Load
    <2>2. l.env.ver = src
      <3>1. load[c].env \in EnvType(scenario)
        BY <1>f DEF LoadType
      <3>2. [load[c].env EXCEPT !.ver = src].ver = src
        BY <3>1 DEF EnvType
      <3> QED  BY <1>f, <3>2 DEF LoadType
    <2> HIDE DEF l
    <2>3. \A v \in L2Free : ~LoadOlder(l, v)
      BY <1>n, <2>2 DEF LoadOlder, L2Free
    <2> QED  BY <1>s, <2>1, <2>3, LoadStepKeepsFree
  <1>2. ASSUME LoaderReturns(c)
        PROVE  FreeInv'
    <2>1. /\ UNCHANGED <<now, src, store, late, bus, proc, calm, floor, cleanAt>>
          /\ load[c].stage = "loaded"
      BY <1>2 DEF LoaderReturns, ghosts
    <2>2. CASE load' = [load EXCEPT ![c].stage = "done"]
      <3> DEFINE l == [load[c] EXCEPT !.stage = "done"]
      <3>1. load' = [load EXCEPT ![c] = l]
        BY <2>2
      <3>2. l.stage = "done" /\ l.env = load[c].env /\ l.rep = load[c].rep
        BY <1>f DEF LoadType
      <3> HIDE DEF l
      <3>3. \A v : LoadOlder(l, v) => LoadOlder(load[c], v) /\ l.rep = load[c].rep
        BY <2>1, <3>2 DEF LoadOlder
      <3> QED  BY <1>s, <2>1, <3>1, <3>3, LoadStepKeepsFree
    <2>3. ASSUME NEW n \in scenario.jitter, NEW want,
                 load' = [load EXCEPT ![c].stage = FirstPut,
                            ![c].env = Envelope(load[c].env.ver, want, n, FALSE),
                            ![c].ttl = L1TTLOf(want, n)]
          PROVE  FreeInv'
      <3> DEFINE e == Envelope(load[c].env.ver, want, n, FALSE)
                 l1 == L1TTLOf(want, n)
                 l == [load[c] EXCEPT !.stage = FirstPut, !.env = e, !.ttl = l1]
      <3>1. load' = [load EXCEPT ![c] = l]
        BY <2>3 DEF DataInv, LoadsOK, Load
      <3>2. e.ver = load[c].env.ver
        BY DEF Envelope
      <3> HIDE DEF e, l1
      <3>3. l.env = e /\ l.rep = load[c].rep
        BY <1>f DEF LoadType
      <3> HIDE DEF l
      <3>4. \A v : LoadOlder(l, v) => LoadOlder(load[c], v) /\ l.rep = load[c].rep
        BY <2>1, <3>2, <3>3 DEF LoadOlder
      <3> QED  BY <1>s, <2>1, <3>1, <3>4, LoadStepKeepsFree
    <2> QED  BY <1>2, <2>2, <2>3 DEF LoaderReturns
  <1>3. ASSUME LoadSetL2(c)
        PROVE  FreeInv'
    <2> DEFINE l == [load[c] EXCEPT !.stage = IF HasL1 THEN "setL1" ELSE "done"]
    <2>1. /\ load[c].stage = "setL2" /\ load' = [load EXCEPT ![c] = l]
          /\ UNCHANGED <<now, src, bus, proc, floor, cleanAt>>
          /\ \/ Put(L2, load[c].env, load[c].env.expires - load[c].env.at, load[c].env.at)
             \/ NoPut
             \/ late' = late \cup {load[c].env} /\ UNCHANGED <<store, calm>>
      BY <1>3 DEF LoadSetL2, PutL2, PutIf
    <2>2. HasL2
      BY <1>f, <2>1, ScenarioIs DEF LoadOK, HasL2, DataInv, ClockOK
    <2>3. \A v \in L2Free : v <= load[c].env.ver
      <3>1. \A v \in L2Free : ~(load[c].env.ver < v)
        BY <2>1, <2>2 DEF L2Free, LoadOlder
      <3> QED  BY <1>n, <3>1
    <2>4. StoresStay /\ CalmStay
      BY <1>n, <2>1, <2>3, PutL2Stays
    <2>5. calm' \subseteq calm
      BY <2>1 DEF Put, NoPut
    <2>6. l.env = load[c].env /\ l.rep = load[c].rep
      BY <1>f DEF LoadType
    <2> HIDE DEF l
    <2>7. \A v : LoadOlder(l, v) => LoadOlder(load[c], v) /\ l.rep = load[c].rep
      BY <2>1, <2>6 DEF LoadOlder
    <2> QED  BY <2>1, <2>4, <2>5, <2>7, LoadStepKeepsFree
  <1>4. ASSUME LoadSetL1(c)
        PROVE  FreeInv'
    <2> DEFINE l == [load[c] EXCEPT !.stage = "done"]
    <2>1. /\ load[c].stage = "setL1" /\ load' = [load EXCEPT ![c] = l]
          /\ UNCHANGED <<now, src, bus, proc, floor, cleanAt>>
          /\ Put(load[c].rep, load[c].env, load[c].ttl, load[c].env.at) \/ NoPut
      BY <1>4 DEF LoadSetL1, PutIf
    <2>2. load[c].rep \in Replica
      BY <1>f, <2>1 DEF LoadOK
    <2>3. \A v \in L2Free : v \in FlightFree(load[c].rep) => v <= load[c].env.ver
      <3>1. \A v \in L2Free : v \in FlightFree(load[c].rep) => ~(load[c].env.ver < v)
        BY <2>1 DEF FlightFree, LoadOlder
      <3> QED  BY <1>n, <3>1
    <2>4. StoresStay /\ CalmStay /\ calm' \subseteq calm
      BY <1>n, <2>1, <2>2, <2>3, PutL1Stays
    <2>5. l.env = load[c].env /\ l.rep = load[c].rep
      BY <1>f DEF LoadType
    <2> HIDE DEF l
    <2>6. \A v : LoadOlder(l, v) => LoadOlder(load[c], v) /\ l.rep = load[c].rep
      BY <2>1, <2>5 DEF LoadOlder
    <2> QED  BY <2>1, <2>4, <2>6, LoadStepKeepsFree
  <1>5. ASSUME Forget(c)
        PROVE  FreeInv'
    <2> DEFINE l == [NoLoad EXCEPT !.stage = "gone"]
    <2>1. /\ load' = [load EXCEPT ![c] = l]
          /\ UNCHANGED <<now, src, store, late, bus, proc, calm, floor, cleanAt>>
      BY <1>5 DEF Forget, ghosts
    <2>2. l.stage = "gone"
      BY DEF NoLoad
    <2> HIDE DEF l
    <2>3. \A v : ~LoadOlder(l, v)
      BY <2>2 DEF LoadOlder
    <2> QED  BY <1>s, <2>1, <2>3, LoadStepKeepsFree
  <1> QED  BY <1>1, <1>2, <1>3, <1>4, <1>5 DEF LoadStep

LEMMA LeadKeepsFree ==
  ASSUME DataInv, FreeInv, UNCHANGED scenario, NEW p \in Proc, Lead(p)
  PROVE  FreeInv'
  <1>1. PICK c \in Load, want \in scenario.asked :
          load' = [load EXCEPT ![c] = [NoLoad EXCEPT !.stage = "load",
                     !.rep = proc[p].rep, !.start = now, !.want = want]]
    BY DEF Lead
  <1>2. Move(p, Idle) /\ UNCHANGED <<now, src, store, late, bus, calm, floor, cleanAt>>
    BY DEF Lead, Return, ghosts
  <1> DEFINE l == [NoLoad EXCEPT !.stage = "load", !.rep = proc[p].rep,
                                 !.start = now, !.want = want]
  <1>3. l.stage = "load"
    BY DEF NoLoad
  <1>4. load' = [load EXCEPT ![c] = l]
    BY <1>1
  <1> HIDE DEF l
  <1>5. \A v : ~LoadOlder(l, v)
    BY <1>3 DEF LoadOlder
  <1>6. LoadsStay
    BY <1>4, <1>5, LoadMoveStays
  <1>7. ProcsStay
    BY <1>2, IdleIsFree, MoveStays
  <1>8. DeletesStay
    BY <1>2, IdleIsFree, MoveKeepsDeletes
  <1>9. StoresStay /\ CalmStay /\ GhostsKept
    BY <1>2, SameStays DEF GhostsKept
  <1> QED  BY <1>2, <1>6, <1>7, <1>8, <1>9, StaysFreeNow

(* A Delete under way: what it has deleted is free of older values.        *)
LEMMA DeleteMoves ==
  ASSUME DataInv, FreeInv, UNCHANGED scenario, NEW p \in Proc, NEW q, Move(p, q),
         UNCHANGED <<now, src, late, load, bus, floor, cleanAt>>,
         calm' \subseteq calm \cup {p},
         \A x \in Stores : store'[x] = NoEntry \/ store'[x] = store[x],
         q.pc \in {"delL1", "delL2", "publish"},
         p \in calm' /\ ~q.err =>
           /\ q.pc \in {"delL2", "publish"} => FreeOf(store'[q.rep], q.ver)
           /\ q.pc = "publish" => FreeOf(store'[L2], q.ver)
  PROVE  FreeInv'
  <1>1. \A v : ~SetOlder(q, v) /\ ~CopyOlder(q, v)
    BY DEF SetOlder, CopyOlder
  <1>2. ProcsStay
    BY <1>1, MoveStays
  <1>3. StoresStay /\ LoadsStay /\ GhostsKept
    BY ClearedStays, SameStays DEF GhostsKept
  <1>4. FloorOK' /\ BusOK' /\ CleanOK'
    <2>1. src <= src' /\ src' \in Nat /\ now' \in 0..scenario.maxTime /\ now <= now'
      BY NumbersAre
    <2> QED  BY <1>2, <1>3, <2>1, FreeKept
  <1>5. DeletesOK'
    <2>1. proc'[p] = q /\ \A o \in Proc : o # p => proc'[o] = proc[o]
      BY DEF DataInv, ProcsOK, Move
    <2>2. ASSUME NEW o \in calm', o # p, proc'[o].pc \in {"delL2", "publish"}, ~proc'[o].err
          PROVE  /\ FreeOf(store'[proc'[o].rep], proc'[o].ver)
                 /\ proc'[o].pc = "publish" => FreeOf(store'[L2], proc'[o].ver)
      <3>1. o \in calm /\ o \in Proc /\ proc'[o] = proc[o]
        BY <2>1, <2>2 DEF DataInv, RestOK
      <3>2. /\ FreeOf(store[proc[o].rep], proc[o].ver)
            /\ proc[o].pc = "publish" => FreeOf(store[L2], proc[o].ver)
        BY <2>2, <3>1 DEF FreeInv, DeletesOK
      <3>3. proc[o].rep \in Stores /\ L2 \in Stores
        BY <2>2, <3>1, FrameIs DEF FrameOK, Stores
      <3> QED  BY <3>1, <3>2, <3>3 DEF FreeOf
    <2> QED  BY <2>1, <2>2 DEF DeletesOK
  <1> QED  BY <1>4, <1>5 DEF FreeInv

LEMMA DeletesKeepFree ==
  ASSUME DataInv, FreeInv, UNCHANGED scenario, NEW p \in Proc
  PROVE  /\ \A r \in Replica : BeginDelete(p, r) => FreeInv'
         /\ DeleteL1(p) => FreeInv'
         /\ DeleteL2(p) => FreeInv'
  <1>f. proc[p] \in FrameType(scenario) /\ FrameOK(proc[p], scenario, now, src, changed)
    BY FrameIs
  <1>t. /\ store \in [Stores -> StoreType(scenario)]
        /\ L2 \in Stores /\ L2 \notin Replica /\ Replica \subseteq Stores
    BY NumbersAre DEF DataInv, StoresOK
  <1>e. \A v : FreeOf(NoEntry, v)
    BY DEF FreeOf
  <1>1. ASSUME NEW r \in Replica, BeginDelete(p, r)
        PROVE  FreeInv'
    <2> DEFINE q == [Idle EXCEPT !.rep = r, !.ver = src,
                       !.pc = IF HasL1 THEN "delL1" ELSE "delL2"]
    <2>1. /\ Move(p, q) /\ calm' \subseteq calm \cup {p}
          /\ UNCHANGED <<now, src, store, late, load, bus, floor, cleanAt>>
      BY <1>1 DEF BeginDelete, Begin
    <2>2. q.pc = (IF HasL1 THEN "delL1" ELSE "delL2") /\ q.rep = r
      BY DEF Idle
    <2> HIDE DEF q
    <2>3. ~HasL1 => store[r] = NoEntry
      BY DEF DataInv, LevelsOK
    <2>4. /\ q.pc \in {"delL2", "publish"} => FreeOf(store'[q.rep], q.ver)
          /\ q.pc # "publish" /\ q.pc \in {"delL1", "delL2", "publish"}
      BY <1>e, <2>1, <2>2, <2>3
    <2> QED  BY <2>1, <2>4, DeleteMoves
  <1>2. ASSUME DeleteL1(p)
        PROVE  FreeInv'
    <2> DEFINE r == proc[p].rep
               next == IF HasL2 THEN "delL2" ELSE "publish"
               q == [proc[p] EXCEPT !.pc = next]
               qe == [proc[p] EXCEPT !.pc = next, !.err = TRUE]
    <2>1. /\ proc[p].pc = "delL1"
          /\ UNCHANGED <<now, src, late, load, bus, calm, floor, cleanAt>>
          /\ \/ store' = [store EXCEPT ![r] = NoEntry] /\ Move(p, q)
             \/ store' = store /\ Move(p, qe)
      BY <1>2 DEF DeleteL1, At, DeleteAt, ghosts
    <2>2. r \in Replica
      BY <1>f, <2>1 DEF FrameOK
    <2>3. /\ q.pc = next /\ q.rep = r /\ qe.pc = next /\ qe.err
          /\ next \in {"delL1", "delL2", "publish"}
          /\ next = "publish" => ~HasL2
      BY <1>f DEF FrameType
    <2> HIDE DEF r, q, qe, next
    <2>4. ~HasL2 => store[L2] = NoEntry
      BY DEF DataInv, LevelsOK
    <2>5. CASE store' = [store EXCEPT ![r] = NoEntry] /\ Move(p, q)
      <3>1. /\ store'[r] = NoEntry
            /\ \A x \in Stores : store'[x] = NoEntry \/ store'[x] = store[x]
        BY <1>t, <2>2, <2>5
      <3>2. /\ FreeOf(store'[q.rep], q.ver)
            /\ q.pc = "publish" => FreeOf(store'[L2], q.ver)
        BY <1>e, <1>t, <2>3, <2>4, <3>1
      <3> QED  BY <2>1, <2>3, <2>5, <3>1, <3>2, DeleteMoves
    <2>6. CASE store' = store /\ Move(p, qe)
      BY <2>1, <2>3, <2>6, DeleteMoves
    <2> QED  BY <2>1, <2>5, <2>6
  <1>3. ASSUME DeleteL2(p)
        PROVE  FreeInv'
    <2> DEFINE q == [proc[p] EXCEPT !.pc = "publish"]
               qe == [proc[p] EXCEPT !.pc = "publish", !.err = TRUE]
    <2>1. /\ proc[p].pc = "delL2"
          /\ UNCHANGED <<now, src, late, load, bus, calm, floor, cleanAt>>
          /\ \/ store' = [store EXCEPT ![L2] = NoEntry] /\ Move(p, q)
             \/ store' = store /\ Move(p, qe)
      BY <1>3 DEF DeleteL2, At, DeleteAt, ghosts
    <2>2. proc[p].rep \in Replica
      BY <1>f, <2>1 DEF FrameOK
    <2>3. /\ q.pc = "publish" /\ q.rep = proc[p].rep /\ q.ver = proc[p].ver
          /\ q.err = proc[p].err /\ qe.pc = "publish" /\ qe.err
      BY <1>f DEF FrameType
    <2> HIDE DEF q, qe
    <2>4. p \in calm /\ ~proc[p].err => FreeOf(store[proc[p].rep], proc[p].ver)
      BY <2>1 DEF FreeInv, DeletesOK
    <2>5. CASE store' = [store EXCEPT ![L2] = NoEntry] /\ Move(p, q)
      <3>1. /\ store'[L2] = NoEntry /\ store'[proc[p].rep] = store[proc[p].rep]
            /\ \A x \in Stores : store'[x] = NoEntry \/ store'[x] = store[x]
        BY <1>t, <2>2, <2>5
      <3>2. p \in calm' /\ ~q.err =>
              FreeOf(store'[q.rep], q.ver) /\ FreeOf(store'[L2], q.ver)
        BY <1>e, <2>1, <2>3, <2>4, <3>1
      <3> QED  BY <2>1, <2>3, <2>5, <3>1, <3>2, DeleteMoves
    <2>6. CASE store' = store /\ Move(p, qe)
      BY <2>1, <2>3, <2>6, DeleteMoves
    <2> QED  BY <2>1, <2>5, <2>6
  <1> QED  BY <1>1, <1>2, <1>3

(* An older version is as free.                                            *)
LEMMA FreeBelow ==
  ASSUME DataInv, NEW w \in L2Free, NEW v \in Nat, v <= w
  PROVE  /\ v \in L2Free
         /\ \A r \in Replica : w \in FlightFree(r) => v \in FlightFree(r)
  <1>n. /\ scenario.maxVersion \in Nat /\ src \in Nat /\ w \in 0..scenario.maxVersion
        /\ store[L2].env.ver \in Nat
        /\ \A e \in late : e.ver \in Nat
        /\ \A c \in Load : load[c].env.ver \in Nat
        /\ \A p \in Proc : proc[p].ver \in Nat /\ proc[p].env.ver \in Nat
    BY NumbersAre DEF L2Free
  <1>1. v \in 0..scenario.maxVersion /\ (w <= src => v <= src)
    BY <1>n
  <1>2. \A c \in Load : LoadOlder(load[c], v) => LoadOlder(load[c], w)
    BY <1>n DEF LoadOlder
  <1>3. \A p \in Proc : /\ SetOlder(proc[p], v) => SetOlder(proc[p], w)
                        /\ CopyOlder(proc[p], v) => CopyOlder(proc[p], w)
    BY <1>n DEF SetOlder, CopyOlder
  <1>4. FreeOf(store[L2], w) => FreeOf(store[L2], v)
    BY <1>n DEF FreeOf
  <1>5. \A e \in late : w <= e.ver => v <= e.ver
    BY <1>n
  <1>6. v \in L2Free
    BY <1>1, <1>2, <1>3, <1>4, <1>5 DEF L2Free
  <1>7. \A r \in Replica : w \in FlightFree(r) => v \in FlightFree(r)
    BY <1>1, <1>2, <1>3 DEF FlightFree
  <1> QED  BY <1>6, <1>7

LEMMA ZeroIsFree ==
  ASSUME DataInv
  PROVE  0 \in L2Free
  <1>n. /\ scenario.maxVersion \in Nat /\ src \in Nat
        /\ store[L2].env.ver \in Nat
        /\ \A e \in late : e.ver \in Nat
        /\ \A c \in Load : load[c].env.ver \in Nat
        /\ \A p \in Proc : proc[p].ver \in Nat
    BY NumbersAre
  <1>1. /\ \A c \in Load : ~LoadOlder(load[c], 0)
        /\ \A p \in Proc : ~SetOlder(proc[p], 0)
    BY <1>n DEF LoadOlder, SetOlder
  <1>2. 0 \in 0..scenario.maxVersion /\ 0 <= src /\ FreeOf(store[L2], 0)
        /\ \A e \in late : 0 <= e.ver
    BY <1>n DEF FreeOf
  <1> QED  BY <1>1, <1>2 DEF L2Free

(* What OldUnderWay looks for, it finds.                                   *)
LEMMA NoneUnderWay ==
  ASSUME DataInv, NEW r \in Replica, NEW v \in 0..scenario.maxVersion,
         ~OldUnderWay(r, v)
  PROVE  /\ v \in FlightFree(r)
         /\ \A e \in late : v <= e.ver
         /\ HasL2 => /\ \A c \in Load : ~LoadOlder(load[c], v)
                     /\ \A p \in Proc : ~SetOlder(proc[p], v)
  <1>1. \A c \in Load : load[c].rep = r \/ HasL2 => ~LoadOlder(load[c], v)
    BY DEF OldUnderWay, LoadOlder
  <1>2. \A p \in Proc : proc[p].rep = r \/ HasL2 => ~SetOlder(proc[p], v)
    BY DEF OldUnderWay, SetOlder
  <1>3. \A p \in Proc : proc[p].rep = r => ~CopyOlder(proc[p], v)
    BY DEF OldUnderWay, CopyOlder
  <1>4. \A e \in late : v <= e.ver
    <2>1. \A e \in late : ~(e.ver < v)
      BY DEF OldUnderWay
    <2>2. v \in Nat /\ \A e \in late : e.ver \in Nat
      BY NumbersAre
    <2> QED  BY <2>1, <2>2
  <1> QED  BY <1>1, <1>2, <1>3, <1>4 DEF FlightFree

(* A Delete that nothing older has crossed, and nothing older will.        *)
LEMMA CleanIsFree ==
  ASSUME DataInv, FreeInv, NEW p \in Proc, proc[p].pc = "publish", ~proc[p].err,
         p \in calm, NEW r \in Replica, ~OldUnderWay(r, proc[p].ver)
  PROVE  proc[p].ver \in L2Free /\ proc[p].ver \in FlightFree(r)
  <1>1. proc[p].ver \in 0..scenario.maxVersion /\ proc[p].ver <= src
    BY FrameIs DEF FrameType, FrameOK
  <1>2. FreeOf(store[L2], proc[p].ver)
    BY DEF FreeInv, DeletesOK
  <1> QED  BY <1>1, <1>2, NoneUnderWay DEF L2Free

LEMMA PublishKeepsFree ==
  ASSUME DataInv, FreeInv, UNCHANGED scenario, NEW p \in Proc, Publish(p)
  PROVE  FreeInv'
  <1> DEFINE q == proc[p]
             clean(r) == ~q.err /\ p \in calm /\ ~OldUnderWay(r, q.ver)
             ver == IF clean(q.rep) THEN q.ver ELSE 0
  <1>1. /\ q.pc = "publish"
        /\ UNCHANGED <<now, src, store, late, load>>
        /\ Fail(p) \/ (Return(p) /\ calm' = calm \ {p})
        /\ bus' = bus \/ bus' = [r \in Replica |-> bus[r] \cup {[ver |-> ver]}]
        /\ \/ floor' = floor
           \/ clean(q.rep) /\ floor' = [floor EXCEPT ![q.rep] = Most(@, q.ver)]
        /\ \/ cleanAt' = cleanAt
           \/ /\ \A r \in Replica : clean(r)
              /\ cleanAt' = [v \in DOMAIN cleanAt |->
                               IF v <= q.ver THEN Least(cleanAt[v], now)
                                             ELSE cleanAt[v]]
    BY Zenon DEF Publish, At
  <1>f. proc[p] \in FrameType(scenario) /\ FrameOK(proc[p], scenario, now, src, changed)
    BY FrameIs
  <1>r. q.rep \in Replica /\ q.ver \in 0..scenario.maxVersion /\ q.ver \in Nat
    BY <1>1, <1>f, NumbersAre DEF FrameType, FrameOK
  <1>n. /\ scenario.maxVersion \in Nat /\ scenario.maxTime \in Nat
        /\ scenario.l1TTL \in Nat /\ now \in Nat
        /\ cleanAt \in [0..scenario.maxVersion -> 0..(scenario.maxTime + 1)]
        /\ floor \in [Replica -> 0..scenario.maxVersion]
        /\ bus \in [Replica -> SUBSET [ver : 0..scenario.maxVersion]]
        /\ UNCHANGED <<now, store, scenario>>
    BY <1>1, NumbersAre DEF DataInv, RestOK
  <1>c. \A r \in Replica : clean(r) => q.ver \in L2Free /\ q.ver \in FlightFree(r)
    BY <1>1, CleanIsFree
  <1>d. clean(q.rep) => FreeOf(store[q.rep], q.ver)
    BY <1>1 DEF FreeInv, DeletesOK
  <1>p. ProcsStay /\ DeletesStay
    <2> DEFINE fail == [Idle EXCEPT !.pc = "failed", !.rep = proc[p].rep, !.ver = proc[p].ver]
    <2>1. /\ Move(p, Idle) \/ Move(p, fail)
          /\ calm' \subseteq calm \cup {p}
      BY <1>1 DEF Fail, Return
    <2>2. fail.pc = "failed"
      BY DEF Idle
    <2> HIDE DEF fail
    <2>3. \A v : ~SetOlder(fail, v) /\ ~CopyOlder(fail, v)
      BY <2>2 DEF SetOlder, CopyOlder
    <2>4. CASE Move(p, Idle)
      BY <2>1, <2>4, IdleIsFree, MoveStays, MoveKeepsDeletes
    <2>5. CASE Move(p, fail)
      BY <2>1, <2>2, <2>3, <2>5, MoveStays, MoveKeepsDeletes
    <2> QED  BY <2>1, <2>4, <2>5
  <1>s. StoresStay /\ CalmStay /\ LoadsStay
    BY <1>1, SameStays
  <1>k. /\ \A v \in L2Free : v \in L2Free'
        /\ \A r \in Replica : \A v \in L2Free : v \in FlightFree(r) => v \in FlightFree(r)'
    <2>1. src <= src' /\ src' \in Nat
      BY <1>1, NumbersAre
    <2> QED  BY <2>1, <1>p, <1>s, FreeStays
  <1> HIDE DEF clean
  <1>2. DeletesOK'
    BY <1>p, <1>s, DeletesKept
  <1>3. BusOK'
    <2>1. ver \in L2Free
      BY <1>c, <1>r, ZeroIsFree
    <2> HIDE DEF ver
    <2>2. ASSUME NEW r \in Replica, NEW e \in bus'[r]
          PROVE  e.ver \in L2Free'
      <3>1. e \in bus[r] \/ e = [ver |-> ver]
        BY <1>1, <1>n
      <3>2. e.ver \in L2Free
        BY <2>1, <3>1 DEF FreeInv, BusOK
      <3> QED  BY <1>k, <3>2
    <2> QED  BY <2>2 DEF BusOK
  <1>4. FloorOK'
    <2>1. ASSUME NEW r \in Replica
          PROVE  /\ floor'[r] \in L2Free /\ floor'[r] \in FlightFree(r)
                 /\ FreeOf(store[r], floor'[r])
      <3>1. floor'[r] = floor[r] \/ (clean(r) /\ r = q.rep /\ floor'[r] = q.ver)
        <4>1. CASE floor' = floor
          BY <4>1
        <4>2. CASE clean(q.rep) /\ floor' = [floor EXCEPT ![q.rep] = Most(@, q.ver)]
          BY <1>n, <1>r, <4>2 DEF Most
        <4> QED  BY <1>1, <4>1, <4>2
      <3>2. /\ floor[r] \in L2Free /\ floor[r] \in FlightFree(r)
            /\ FreeOf(store[r], floor[r])
        BY DEF FreeInv, FloorOK
      <3> QED  BY <1>c, <1>d, <3>1, <3>2
    <2> QED  BY <1>k, <1>n, <2>1 DEF FloorOK
  <1>5. CleanOK'
    <2>1. ASSUME NEW v \in 0..scenario.maxVersion
          PROVE  /\ cleanAt'[v] <= now \/ cleanAt'[v] = scenario.maxTime + 1
                 /\ cleanAt'[v] <= now =>
                      /\ v \in L2Free
                      /\ \A r \in Replica :
                           /\ v \in FlightFree(r)
                           /\ \/ FreeOf(store[r], v)
                              \/ store[r].until <= cleanAt'[v] + scenario.l1TTL
      <3>1. \/ cleanAt'[v] = cleanAt[v]
            \/ /\ cleanAt'[v] = now /\ v <= q.ver
               /\ \A r \in Replica : clean(r)
        <4>1. CASE cleanAt' = cleanAt
          BY <4>1
        <4>2. CASE /\ \A r \in Replica : clean(r)
                   /\ cleanAt' = [w \in DOMAIN cleanAt |->
                                    IF w <= q.ver THEN Least(cleanAt[w], now)
                                                  ELSE cleanAt[w]]
          <5>1. cleanAt'[v] = IF v <= q.ver THEN Least(cleanAt[v], now) ELSE cleanAt[v]
            BY <1>n, <4>2
          <5> QED  BY <4>2, <5>1 DEF Least
        <4> QED  BY <1>1, <4>1, <4>2
      <3>2. CASE cleanAt'[v] = cleanAt[v]
        BY <3>2 DEF FreeInv, CleanOK
      <3>3. CASE cleanAt'[v] = now /\ v <= q.ver /\ \A r \in Replica : clean(r)
        <4>1. v \in L2Free /\ \A r \in Replica : v \in FlightFree(r)
          BY <1>c, <1>n, <1>r, <3>3, FreeBelow
        <4>2. ASSUME NEW r \in Replica
              PROVE  FreeOf(store[r], v) \/ store[r].until <= now + scenario.l1TTL
          BY DEF DataInv, StoresOK, EntryOK, FreeOf, Stores
        <4> QED  BY <1>n, <3>3, <4>1, <4>2
      <3> QED  BY <3>1, <3>2, <3>3
    <2> QED  BY <1>k, <1>n, <2>1 DEF CleanOK
  <1> QED  BY <1>2, <1>3, <1>4, <1>5 DEF FreeInv

LEMMA EventKeepsFree ==
  ASSUME DataInv, FreeInv, UNCHANGED scenario,
         NEW r \in Replica, NEW e \in bus[r], OnKeyEvent(r, e)
  PROVE  FreeInv'
  <1>1. /\ UNCHANGED <<now, src, changed, late, load, proc, begun, calm, cleanAt>>
        /\ bus' = [bus EXCEPT ![r] = @ \ {e}]
        /\ \/ /\ store' = IF HasL1 THEN [store EXCEPT ![r] = NoEntry] ELSE store
              /\ floor' = IF OldUnderWay(r, e.ver) THEN floor
                          ELSE [floor EXCEPT ![r] = Most(@, e.ver)]
           \/ UNCHANGED <<store, floor>>
    BY DEF OnKeyEvent
  <1>n. /\ scenario.maxVersion \in Nat /\ scenario.maxTime \in Nat /\ now \in Nat
        /\ floor \in [Replica -> 0..scenario.maxVersion]
        /\ bus \in [Replica -> SUBSET [ver : 0..scenario.maxVersion]]
        /\ e.ver \in 0..scenario.maxVersion
        /\ store \in [Stores -> StoreType(scenario)]
        /\ Replica \subseteq Stores /\ UNCHANGED <<now, cleanAt, scenario>>
        /\ src <= src' /\ src' \in Nat
    BY <1>1, NumbersAre DEF DataInv, RestOK, StoresOK
  <1>2. \A x \in Stores : store'[x] = NoEntry \/ store'[x] = store[x]
    BY <1>1, <1>n
  <1>3. StoresStay /\ CalmStay /\ ProcsStay /\ LoadsStay /\ DeletesStay
    BY <1>1, <1>2, ClearedStays, SameStays
  <1>4. /\ \A v \in L2Free : v \in L2Free'
        /\ \A x \in Replica : \A v \in L2Free : v \in FlightFree(x) => v \in FlightFree(x)'
    BY <1>3, <1>n, FreeStays
  <1>5. DeletesOK'
    BY <1>3, DeletesKept
  <1>6. BusOK'
    <2>1. \A x \in Replica : bus'[x] \subseteq bus[x]
      BY <1>1, <1>n
    <2> QED  BY <1>4, <2>1 DEF FreeInv, BusOK
  <1>7. FloorOK'
    <2>1. ASSUME NEW x \in Replica
          PROVE  /\ floor'[x] \in L2Free /\ floor'[x] \in FlightFree(x)
                 /\ FreeOf(store'[x], floor'[x])
      <3>1. /\ floor[x] \in L2Free /\ floor[x] \in FlightFree(x)
            /\ FreeOf(store[x], floor[x])
        BY DEF FreeInv, FloorOK
      <3>2. \/ floor'[x] = floor[x]
            \/ /\ x = r /\ floor'[x] = e.ver /\ ~OldUnderWay(r, e.ver)
               /\ store'[r] = NoEntry
        <4>1. CASE floor' = floor
          BY <4>1
        <4>2. CASE /\ ~OldUnderWay(r, e.ver)
                   /\ store' = IF HasL1 THEN [store EXCEPT ![r] = NoEntry] ELSE store
                   /\ floor' = [floor EXCEPT ![r] = Most(@, e.ver)]
          <5>1. store'[r] = NoEntry
            BY <1>n, <4>2 DEF DataInv, LevelsOK
          <5>2. floor'[x] = floor[x] \/ (x = r /\ floor'[x] = e.ver)
            BY <1>n, <4>2 DEF Most
          <5> QED  BY <4>2, <5>1, <5>2
        <4> QED  BY <1>1, <4>1, <4>2
      <3>3. CASE floor'[x] = floor[x]
        <4>1. store'[x] = NoEntry \/ store'[x] = store[x]
          BY <1>2, <1>n
        <4> QED  BY <3>1, <3>3, <4>1 DEF FreeOf
      <3>4. CASE /\ x = r /\ floor'[x] = e.ver /\ ~OldUnderWay(r, e.ver)
                 /\ store'[r] = NoEntry
        <4>1. e.ver \in L2Free
          BY DEF FreeInv, BusOK
        <4>2. e.ver \in FlightFree(r)
          BY <1>n, <3>4, NoneUnderWay
        <4> QED  BY <3>4, <4>1, <4>2 DEF FreeOf
      <3> QED  BY <3>2, <3>3, <3>4
    <2> QED  BY <1>4, <2>1 DEF FloorOK
  <1>8. CleanOK'
    <2>1. ASSUME NEW v \in 0..scenario.maxVersion, cleanAt[v] <= now
          PROVE  /\ v \in L2Free
                 /\ \A x \in Replica :
                      /\ v \in FlightFree(x)
                      /\ \/ FreeOf(store'[x], v)
                         \/ store'[x].until <= cleanAt[v] + scenario.l1TTL
      <3>1. /\ v \in L2Free
            /\ \A x \in Replica :
                 /\ v \in FlightFree(x)
                 /\ FreeOf(store[x], v) \/ store[x].until <= cleanAt[v] + scenario.l1TTL
        BY <2>1 DEF FreeInv, CleanOK
      <3>2. \A x \in Replica : store'[x] = NoEntry \/ store'[x] = store[x]
        BY <1>2, <1>n
      <3> QED  BY <3>1, <3>2 DEF FreeOf
    <2>2. \A v \in 0..scenario.maxVersion : cleanAt[v] <= now \/ cleanAt[v] = scenario.maxTime + 1
      BY DEF FreeInv, CleanOK
    <2> QED  BY <1>4, <1>n, <2>1, <2>2 DEF CleanOK
  <1> QED  BY <1>5, <1>6, <1>7, <1>8 DEF FreeInv

LEMMA InitFree == Init => FreeInv
  <1> SUFFICES ASSUME Init PROVE FreeInv
    OBVIOUS
  <1>1. DataInv
    BY InitData
  <1>n. /\ scenario.maxVersion \in Nat /\ scenario.maxTime \in Nat
        /\ L2 \in Stores /\ Replica \subseteq Stores
    BY <1>1, NumbersAre
  <1>2. 0 \in L2Free
    BY <1>1, ZeroIsFree
  <1>3. \A r \in Replica : 0 \in FlightFree(r) /\ store[r] = NoEntry
    <2>1. /\ \A c \in Load : load[c].stage = "unborn"
          /\ \A p \in Proc : proc[p].pc = "idle"
      BY DEF Init, NoLoad, Idle
    <2>2. 0 \in 0..scenario.maxVersion
      BY <1>n
    <2> QED  BY <1>n, <2>1, <2>2 DEF Init, FlightFree, LoadOlder, SetOlder, CopyOlder
  <1>4. FloorOK
    BY <1>2, <1>3 DEF Init, FloorOK, FreeOf
  <1>5. BusOK /\ DeletesOK
    BY DEF Init, BusOK, DeletesOK
  <1>6. CleanOK
    BY <1>n DEF Init, CleanOK, Never
  <1> QED  BY <1>4, <1>5, <1>6 DEF FreeInv

LEMMA NextKeepsFree ==
  ASSUME DataInv, FreeInv, [Next]_vars
  PROVE  FreeInv'
  <1>1. CASE UNCHANGED vars
    <2>1. UNCHANGED <<scenario, now, src, store, late, load, bus, proc, calm, floor, cleanAt>>
      BY <1>1 DEF vars
    <2>2. /\ StoresStay /\ CalmStay /\ ProcsStay /\ LoadsStay /\ DeletesStay
          /\ GhostsKept
      BY <2>1, SameStays DEF GhostsKept
    <2> QED  BY <2>1, <2>2, StaysFreeNow
  <1>2. CASE Step /\ UNCHANGED scenario
    BY <1>2, EnvironmentKeepsFree, BeginsKeepFree, ReadsKeepFree, LeadKeepsFree,
       SetsKeepFree, DeletesKeepFree, PublishKeepsFree, LoadsKeepFree, EventKeepsFree
       DEF Step, ReadStep, WriteStep
  <1> QED  BY <1>1, <1>2 DEF Next

LEMMA FreeHolds == Spec => [](DataInv /\ FreeInv)
  <1>1. DataInv /\ FreeInv /\ [Next]_vars => (DataInv /\ FreeInv)'
    BY NextKeepsData, NextKeepsFree
  <1> QED  BY InitData, InitFree, <1>1, PTL DEF Spec

-----------------------------------------------------------------------------
(* What a read may be served of a version that is free.                    *)
LEMMA ServesFree ==
  ASSUME DataInv, NEW r \in Replica, NEW v \in L2Free, v \in FlightFree(r),
         FreeOf(store[r], v), NEW w \in Servable(r)
  PROVE  w >= v
  <1>n. /\ v \in Nat /\ r \in Stores /\ L2 \in Stores
        /\ \A x \in Stores : store[x].env.ver \in Nat
        /\ \A c \in Load : load[c].env.ver \in Nat
    BY NumbersAre
  <1>1. \/ \E x \in {r, L2} : checked(store[x]) /\ w = store[x].env.ver
        \/ \E c \in Joinable(r) : load[c].stage # "load" /\ w = load[c].env.ver
    BY DEF Servable
  <1>2. ASSUME NEW x \in {r, L2}, checked(store[x]), w = store[x].env.ver
        PROVE  w >= v
    <2>1. FreeOf(store[x], v)
      BY DEF L2Free
    <2> QED  BY <1>n, <1>2, <2>1 DEF checked, FreeOf
  <1>3. ASSUME NEW c \in Joinable(r), load[c].stage # "load", w = load[c].env.ver
        PROVE  w >= v
    <2>1. c \in Load /\ load[c].rep = r /\ load[c].stage # "gone"
      BY DEF Joinable
    <2>2. ~LoadOlder(load[c], v)
      BY <2>1 DEF FlightFree
    <2>3. load[c].stage # "unborn"
      <3>1. load[c].stage = "unborn" => load[c].rep = "none"
        <4>1. load[c].stage = "unborn" => load[c] = NoLoad
          BY <2>1, LoadIs DEF LoadOK
        <4>2. NoLoad.rep = "none"
          BY DEF NoLoad
        <4> QED  BY <4>1, <4>2
      <3> QED  BY <2>1, <3>1, PlainAssumption DEF PlainAssumption
    <2>4. load[c].stage \in {"unborn", "load", "loaded", "setL2", "setL1", "done", "gone"}
      BY <2>1, LoadIs DEF LoadType
    <2>5. ~(load[c].env.ver < v)
      BY <1>3, <2>1, <2>2, <2>3, <2>4 DEF LoadOlder
    <2> QED  BY <1>n, <1>3, <2>1, <2>5
  <1> QED  BY <1>1, <1>2, <1>3

(* Once a Delete has returned nil, or its event was applied, and nothing   *)
(* older was under way, no read on that replica is ever served a value     *)
(* older than the source was when it began: Delete of cache.go, onEvent of *)
(* events.go.                                                              *)
THEOREM DeletesAreSeen == Spec => []DeleteIsSeen
  <1>1. DataInv /\ FreeInv => DeleteIsSeen
    BY ServesFree DEF FreeInv, FloorOK, DeleteIsSeen
  <1> QED  BY <1>1, FreeHolds, PTL

(* When the event of such a Delete reaches no one, every replica stops     *)
(* serving what it removed one L1 TTL later: RNF-11.                       *)
THEOREM MissedForAWhile == Spec => []MissedEvent
  <1>1. DataInv /\ FreeInv => MissedEvent
    <2> SUFFICES ASSUME DataInv, FreeInv, NEW v \in DOMAIN cleanAt,
                        now >= cleanAt[v] + scenario.l1TTL,
                        NEW r \in Replica, NEW w \in Servable(r)
                 PROVE  w >= v
      BY DEF MissedEvent
    <2>n. /\ v \in 0..scenario.maxVersion /\ cleanAt[v] \in Nat /\ now \in Nat
          /\ scenario.l1TTL \in Nat /\ r \in Stores /\ store[r].until \in Nat
      <3>1. /\ scenario.maxTime \in Nat /\ now \in Nat /\ scenario.l1TTL \in Nat
            /\ r \in Stores /\ store[r].until \in Nat
        BY NumbersAre
      <3>2. cleanAt \in [0..scenario.maxVersion -> 0..(scenario.maxTime + 1)]
        BY DEF DataInv, RestOK
      <3> QED  BY <3>1, <3>2
    <2>1. cleanAt[v] <= now
      BY <2>n
    <2>2. /\ v \in L2Free /\ v \in FlightFree(r)
          /\ FreeOf(store[r], v) \/ store[r].until <= cleanAt[v] + scenario.l1TTL
      BY <2>n, <2>1 DEF FreeInv, CleanOK
    <2>3. store[r] # NoEntry => now < store[r].until
      BY <2>n DEF DataInv, StoresOK, EntryOK
    <2>4. FreeOf(store[r], v)
      BY <2>n, <2>2, <2>3 DEF FreeOf
    <2> QED  BY <2>2, <2>4, ServesFree
  <1> QED  BY <1>1, FreeHolds, PTL
==============================================================================
