----------------------------- MODULE TaggedCache ------------------------------
(***************************************************************************)
(* A tagged Cache on every replica of a deployment: GetOrLoad, Get, Set,   *)
(* Delete and InvalidateTag of cache.go and tags.go, the Bus events of     *)
(* events.go, the local copy of generations (GenCacheOps), the coalesced   *)
(* loads (Singleflight, reduced here to what a load's callers can tell)    *)
(* and the stores behind them.                                             *)
(*                                                                         *)
(* Every store operation, every critical section and every Bus delivery is *)
(* an action of its own, so that the operations of different processes and *)
(* replicas interleave as the code lets them.                              *)
(*                                                                         *)
(* Data is abstracted to what the properties tell apart.  A value is the   *)
(* consumer key it was loaded for and the version the source held then; an *)
(* absence the loader reports is one more version of the source, cached as *)
(* a value is.  An entry that does not decode is like one never found.     *)
(* Expiry is eviction at any moment; the clock and RNF-11 are the business *)
(* of GenCache.                                                            *)
(***************************************************************************)
EXTENDS GenCacheOps, Generations, Sequences

CONSTANTS
    Replica,       \* instances of the service, each with its own L1
    L2,            \* the name of the shared store
    Key,           \* consumer keys
    PK,            \* the physical key of each
    TagsOf,        \* slot.genKeys of each: a sequence of generation keys
    Proc,          \* goroutines
    Scenarios      \* what is explored: see ScenarioType

OpName == {"Get", "GetOrLoad", "Set", "Delete", "InvalidateTag"}
FaultName == {"l1", "fetch", "set", "bump", "publish", "loader", "timeout",
              "cancel", "large"}

(* A scenario is the stores New was given, the same on every replica; what *)
(* the goroutines do, to which keys; which external operations may fail;   *)
(* and how many operations, versions of a key, loads and losses of an      *)
(* entry or a counter it has: the bounds of the exploration.               *)
ScenarioType ==
    [level : {"both", "L1", "L2"}, keys : SUBSET Key, ops : SUBSET OpName,
     faults : SUBSET FaultName, maxOps : Nat, maxVersion : Nat,
     maxLoads : Nat, maxEvictions : Nat]

(* A key is what its physical key and its tags say: an owner may be named  *)
(* in either (T-01).                                                       *)
ASSUME TaggedAssumption ==
    /\ Scenarios \subseteq ScenarioType
    /\ L2 \notin Replica
    /\ TagsOf \in [Key -> Seq(GenKey)]
    /\ \A j, k \in Key : PK[j] = PK[k] /\ TagsOf[j] = TagsOf[k] => j = k
    /\ "none" \notin Key
    /\ NoGen = NoGeneration

Stores == Replica \cup {L2}
PKey == {PK[k] : k \in Key}

Tags(k) == {TagsOf[k][i] : i \in DOMAIN TagsOf[k]}

(* set tells a value a caller gave to Set from one that was loaded.        *)
NoEntry == [key |-> "none", ver |-> 0, gens |-> <<>>, set |-> FALSE]
Unread == <<NoGen>>        \* gens == nil
NoEpoch == epoch(newGenCache, {})
NoMin == [t \in GenKey |-> 0]

Idle == [op |-> "none", pc |-> "idle", rep |-> "none", key |-> "none",
         local |-> NoEntry, since |-> NoEpoch, gens |-> Unread,
         hit |-> NoEntry, load |-> 0, res |-> NoEntry, min |-> NoMin,
         blind |-> FALSE]

NoLoad == [rep |-> "none", key |-> "none", fk |-> <<>>, gens |-> Unread,
           stage |-> "unborn", expired |-> FALSE, res |-> NoEntry]

VARIABLES
    scenario, \* the one explored, chosen once
    src,      \* the source of truth: the version of each key
    val,      \* the entry under each physical key, in every store
    ctr,      \* the generation counters of every store, NoGen when missing
    draws,    \* generations drawn so far
    lost,     \* entries and counters evicted so far
    gc,       \* each replica's copy of generations
    load,     \* loads, coalesced by flight key
    bus,      \* events published and not yet delivered, per replica
    proc,     \* what each goroutine is doing
    answers,  \* ghost: how what was answered compares with what was due
    begun,    \* operations begun
    bumped,   \* ghost: the source when a store last bumped each tag
    floor     \* ghost: the same, of the last bump a replica was told of

storeVars == <<val, ctr, draws, lost>>
ghosts == <<bumped, floor>>
vars == <<scenario, src, val, ctr, draws, lost, gc, load, bus, proc, answers,
          begun, bumped, floor>>

Faults == scenario.faults
Load == 1..scenario.maxLoads

HasL1 == scenario.level \in {"both", "L1"}
HasL2 == scenario.level \in {"both", "L2"}

(* New: the local copy exists when generations live a round trip away.     *)
HasGens == scenario.level = "both"

(* tagging: the authoritative level for tags.                              *)
Auth(r) == IF HasL2 THEN L2 ELSE r

Init ==
    /\ scenario \in Scenarios
    /\ src = [k \in Key |-> 0]
    /\ val = [s \in Stores |-> [pk \in PKey |-> NoEntry]]
    /\ ctr = [s \in Stores |-> [t \in GenKey |-> NoGen]]
    /\ draws = 0
    /\ lost = 0
    /\ gc = [r \in Replica |-> newGenCache]
    /\ load = [c \in Load |-> NoLoad]
    /\ bus = [r \in Replica |-> {}]
    /\ proc = [p \in Proc |-> Idle]
    /\ answers = {}
    /\ begun = 0
    /\ bumped = [s \in Stores |-> [t \in GenKey |-> [k \in Key |-> 0]]]
    /\ floor = [r \in Replica |-> [t \in GenKey |-> [k \in Key |-> 0]]]

-----------------------------------------------------------------------------
(* The consumer and the environment.                                       *)

(* The source of truth changes; the consumer invalidates afterwards.       *)
Write(k) ==
    /\ src[k] < scenario.maxVersion
    /\ src' = [src EXCEPT ![k] = @ + 1]
    /\ UNCHANGED <<proc, answers>>
    /\ UNCHANGED <<storeVars, gc, load, bus, begun, ghosts>>

EvictEntry(s, pk) ==
    /\ val[s][pk] # NoEntry /\ lost < scenario.maxEvictions
    /\ val' = [val EXCEPT ![s][pk] = NoEntry]
    /\ lost' = lost + 1
    /\ UNCHANGED <<proc, answers>>
    /\ UNCHANGED <<src, ctr, draws, gc, load, bus, begun, ghosts>>

EvictCounter(s, t) ==
    /\ ctr[s][t] # NoGen /\ lost < scenario.maxEvictions
    /\ ctr' = [ctr EXCEPT ![s][t] = NoGen]
    /\ lost' = lost + 1
    /\ UNCHANGED <<proc, answers>>
    /\ UNCHANGED <<src, val, draws, gc, load, bus, begun, ghosts>>

-----------------------------------------------------------------------------
(* TagStore counters.                                                      *)

(* GetTagged creates the missing counters of a sequence of tags.           *)
Missed(s, ts) == {i \in DOMAIN ts : ctr[s][ts[i]] = NoGen}

Created(s, ts) ==
    [t \in GenKey |->
       IF \E i \in Missed(s, ts) : ts[i] = t
         THEN NewGeneration(draws + (CHOOSE i \in DOMAIN ts : ts[i] = t))
         ELSE ctr[s][t]]

(* GetTagged: afterwards every counter exists; gens are read from them.    *)
Counters(s, ts) ==
    /\ ctr' = [ctr EXCEPT ![s] = Created(s, ts)]
    /\ draws' = IF Missed(s, ts) = {} THEN draws ELSE draws + Len(ts)

GensOf(s, ts) == [i \in DOMAIN ts |-> Created(s, ts)[ts[i]]]

(* Bump: the counter advances, a missing one from a fresh draw.            *)
BumpCounter(s, t) ==
    /\ ctr' = [ctr EXCEPT ![s][t] =
                 Advance(IF @ = NoGen THEN NewGeneration(draws + 1) ELSE @)]
    /\ draws' = IF ctr[s][t] = NoGen THEN draws + 1 ELSE draws
    /\ bumped' = [bumped EXCEPT ![s][t] = src]

-----------------------------------------------------------------------------
(* Processes.                                                              *)
Move(p, frame) ==
    /\ proc' = [proc EXCEPT ![p] = frame]
    /\ answers' = answers

At(p, pc) == proc[p].pc = pc

(* The operation returns e, or no value, and its frame is gone.  Of a      *)
(* value it is noted whether it is of the key asked for, found without     *)
(* generations, and as new as the read had to be; a value given to Set is  *)
(* as new as its caller made it.                                           *)
Return(p, e) ==
    LET q == proc[p]
        recent == e.set \/ \A t \in GenKey : e.ver >= q.min[t]
    IN
    /\ proc' = [proc EXCEPT ![p] = Idle]
    /\ answers' = IF e = NoEntry
                    THEN answers
                    ELSE answers \cup {[own |-> e.key = q.key, blind |-> q.blind,
                                        recent |-> recent]}

Begin(p, op, r, x, pc, e, min) ==
    /\ op \in scenario.ops
    /\ At(p, "idle")
    /\ begun < scenario.maxOps
    /\ begun' = begun + 1
    /\ Move(p, [Idle EXCEPT !.op = op, !.pc = pc, !.rep = r, !.key = x,
                            !.res = e, !.min = min])
    /\ UNCHANGED <<src, storeVars, gc, load, bus, ghosts>>

BeginRead(p, op, r, k) ==
    Begin(p, op, r, k, IF HasGens THEN "l1get" ELSE "fetch", NoEntry,
          [t \in GenKey |-> IF t \in Tags(k) THEN floor[r][t][k] ELSE 0])

(* readTagged: the entry in L1, if L1 answers.                             *)
L1Get(p) ==
    LET q == proc[p] IN
    /\ At(p, "l1get")
    /\ \/ Move(p, [q EXCEPT !.pc = "compare",
                            !.local = val[q.rep][PK[q.key]]])
       \/ "l1" \in Faults /\ Move(p, [q EXCEPT !.pc = "compare"])
    /\ UNCHANGED <<src, storeVars, gc, load, bus, begun, ghosts>>

CachedGens(r, ts) == [i \in DOMAIN ts |-> gc[r].m[ts[i]].gen]

(* readTagged: an L1 hit whose generations the local copy confirms.        *)
Compare(p) ==
    LET q == proc[p] IN
    /\ At(p, "compare")
    /\ IF /\ q.local # NoEntry
          /\ Fresh(gc[q.rep], Tags(q.key), 0)
          /\ q.local.gens = CachedGens(q.rep, TagsOf[q.key])
         THEN Return(p, q.local)
         ELSE Move(p, [q EXCEPT !.pc = "epoch"])
    /\ UNCHANGED <<src, storeVars, gc, load, bus, begun, ghosts>>

Epoch(p) ==
    LET q == proc[p] IN
    /\ At(p, "epoch")
    /\ Move(p, [q EXCEPT !.pc = "fetch",
                         !.since = epoch(gc[q.rep], Tags(q.key))])
    /\ UNCHANGED <<src, storeVars, gc, load, bus, begun, ghosts>>

(* GetTagged: the authority's entry and generations, at one instant.       *)
Fetch(p) ==
    LET q == proc[p]
        s == Auth(q.rep)
        ts == TagsOf[q.key]
    IN
    /\ At(p, "fetch")
    /\ Counters(s, ts)
    /\ Move(p, [q EXCEPT !.pc = "decide", !.gens = GensOf(s, ts),
                         !.hit = val[s][PK[q.key]]])
    /\ UNCHANGED <<src, val, lost, gc, load, bus, begun, ghosts>>

(* GetTagged fails: a miss with no generations.                            *)
FetchFails(p) ==
    LET q == proc[p] IN
    /\ At(p, "fetch") /\ "fetch" \in Faults
    /\ IF q.op = "Get"
         THEN Return(p, NoEntry)
         ELSE Move(p, [q EXCEPT !.pc = "flight", !.blind = TRUE,
                                !.local = NoEntry, !.since = NoEpoch])
    /\ UNCHANGED <<src, storeVars, gc, load, bus, begun, ghosts>>

(* The caller's context is found done after the L1 read or GetTagged:      *)
(* what was fetched is not used.                                           *)
GivesUp(p) ==
    /\ "cancel" \in Faults
    /\ At(p, "compare") \/ At(p, "fetch") \/ At(p, "decide")
    /\ Return(p, NoEntry)
    /\ UNCHANGED <<src, storeVars, gc, load, bus, begun, ghosts>>

GensByKey(ts, gens) ==
    [t \in {ts[i] : i \in DOMAIN ts} |->
       gens[CHOOSE i \in DOMAIN ts : ts[i] = t]]

(* An entry is usable when it recorded its tags' current generations.      *)
Current(e, gens) == e # NoEntry /\ e.gens = gens

(* The fetched generations are put into the copy, and decide what is used: *)
(* the entry found in L1, the one found at the authority, or neither.      *)
Decide(p) ==
    LET q == proc[p]
        ts == TagsOf[q.key]
    IN
    /\ At(p, "decide")
    /\ gc' = IF HasGens
               THEN [gc EXCEPT ![q.rep] = put(@, Tags(q.key),
                       GensByKey(ts, q.gens), q.since, 1)]
               ELSE gc
    /\ CASE Current(q.local, q.gens) -> Return(p, q.local)
         [] ~Current(q.local, q.gens) /\ Current(q.hit, q.gens) ->
              IF HasGens
                THEN Move(p, [q EXCEPT !.pc = "backfill", !.local = NoEntry,
                                       !.since = NoEpoch])
                ELSE Return(p, q.hit)
         [] OTHER -> IF q.op = "Get"
                       THEN Return(p, NoEntry)
                       ELSE Move(p, [q EXCEPT !.pc = "flight",
                                       !.local = NoEntry, !.hit = NoEntry,
                                       !.since = NoEpoch])
    /\ UNCHANGED <<src, storeVars, load, bus, begun, ghosts>>

(* Storing e under pk at s works or, if it may, fails.                     *)
Store(s, pk, e) ==
    \/ val' = [val EXCEPT ![s][pk] = e]
    \/ "set" \in Faults /\ val' = val

Backfill(p) ==
    LET q == proc[p] IN
    /\ At(p, "backfill")
    /\ Store(q.rep, PK[q.key], q.hit)
    /\ Return(p, q.hit)
    /\ UNCHANGED <<src, ctr, draws, lost, gc, load, bus, begun, ghosts>>

-----------------------------------------------------------------------------
(* GetOrLoad after a miss: the coalesced load.                             *)

(* Faults: loads are coalesced by physical key alone (#112); callers whose *)
(* generations could not be read share one flight (#134).                  *)
FlightKeyOfPK(k, gens) == <<PK[k]>>
FlightKeyNoTags(k, gens) ==
    IF gens = Unread THEN <<PK[k]>> ELSE <<PK[k], gens>>

flightKey(k, gens) ==
    IF gens = Unread THEN <<PK[k], "?", TagsOf[k]>> ELSE <<PK[k], gens>>

(* The flights of the replica this caller may join: not forgotten yet, and *)
(* not timed out.                                                          *)
Joinable(p) ==
    {c \in Load : /\ load[c].rep = proc[p].rep
                  /\ load[c].fk = flightKey(proc[p].key, proc[p].gens)
                  /\ load[c].stage \notin {"unborn", "gone"}
                  /\ ~load[c].expired}

Join(p) ==
    /\ At(p, "flight")
    /\ \E c \in Joinable(p) : Move(p, [proc[p] EXCEPT !.pc = "wait", !.load = c])
    /\ UNCHANGED <<src, storeVars, gc, load, bus, begun, ghosts>>

Lead(p) ==
    LET q == proc[p] IN
    /\ At(p, "flight")
    /\ Joinable(p) = {}
    /\ \E c \in Load :
         /\ load[c] = NoLoad
         /\ \A d \in Load : load[d] = NoLoad => c <= d
         /\ load' = [load EXCEPT ![c] = [NoLoad EXCEPT !.rep = q.rep,
              !.key = q.key, !.fk = flightKey(q.key, q.gens),
              !.gens = q.gens, !.stage = "load"]]
         /\ Move(p, [q EXCEPT !.pc = "wait", !.load = c])
    /\ UNCHANGED <<src, storeVars, gc, bus, begun, ghosts>>

Stage(c, st) == load' = [load EXCEPT ![c].stage = st]

AfterLoad(gens) ==
    CASE gens = Unread -> "done"          \* not cacheable
      [] gens # Unread /\ HasL2 -> "writeL2"
      [] OTHER -> "writeL1"

(* The loader reads the source and returns the value, which may be too     *)
(* large to cache, or an error.                                            *)
RunLoader(c) ==
    LET l == load[c] IN
    /\ l.stage = "load"
    /\ \/ \E st \in {AfterLoad(l.gens)} \cup
                     (IF "large" \in Faults THEN {"done"} ELSE {}) :
            load' = [load EXCEPT ![c].stage = st,
                       ![c].res = [key |-> l.key, ver |-> src[l.key],
                                   gens |-> l.gens, set |-> FALSE]]
       \/ "loader" \in Faults /\ Stage(c, "done")
    /\ UNCHANGED <<proc, answers>>
    /\ UNCHANGED <<src, storeVars, gc, bus, begun, ghosts>>

(* Fault: the entry records the generations of the moment it is written.   *)
WriteL2Rereads(c) ==
    /\ load[c].stage = "writeL2"
    /\ Store(L2, PK[load[c].key],
             [load[c].res EXCEPT !.gens = GensOf(L2, TagsOf[load[c].key])])
    /\ Stage(c, IF HasL1 THEN "writeL1" ELSE "done")
    /\ UNCHANGED <<proc, answers>>
    /\ UNCHANGED <<src, ctr, draws, lost, gc, bus, begun, ghosts>>

(* populate: L2 first, then L1; a failure is swallowed.                    *)
WriteL2(c) ==
    /\ load[c].stage = "writeL2"
    /\ Store(L2, PK[load[c].key], load[c].res)
    /\ Stage(c, IF HasL1 THEN "writeL1" ELSE "done")
    /\ UNCHANGED <<proc, answers>>
    /\ UNCHANGED <<src, ctr, draws, lost, gc, bus, begun, ghosts>>

WriteL1(c) ==
    /\ load[c].stage = "writeL1"
    /\ Store(load[c].rep, PK[load[c].key], load[c].res)
    /\ Stage(c, "done")
    /\ UNCHANGED <<proc, answers>>
    /\ UNCHANGED <<src, ctr, draws, lost, gc, bus, begun, ghosts>>

(* Nobody finds the flight any more; those who wait on it have its result. *)
Forget(c) ==
    /\ load[c].stage = "done"
    /\ load' = [load EXCEPT ![c] = [NoLoad EXCEPT !.stage = "gone",
                                      !.res = load[c].res]]
    /\ UNCHANGED <<proc, answers>>
    /\ UNCHANGED <<src, storeVars, gc, bus, begun, ghosts>>

Deadline(c) ==
    /\ "timeout" \in Faults
    /\ load[c].stage \notin {"unborn", "done", "gone"}
    /\ ~load[c].expired
    /\ load' = [load EXCEPT ![c].expired = TRUE]
    /\ UNCHANGED <<proc, answers>>
    /\ UNCHANGED <<src, storeVars, gc, bus, begun, ghosts>>

(* The caller leaves Do: with the result, preferred to a timeout when both *)
(* are there, or without when the load timed out or its context is done.   *)
Served(p) ==
    /\ At(p, "wait")
    /\ LET l == load[proc[p].load] IN
         \/ l.stage \in {"done", "gone"} /\ Return(p, l.res)
         \/ l.stage \notin {"done", "gone"} /\ l.expired /\ Return(p, NoEntry)
         \/ "cancel" \in Faults /\ Return(p, NoEntry)
    /\ UNCHANGED <<src, storeVars, gc, load, bus, begun, ghosts>>

-----------------------------------------------------------------------------
(* InvalidateTag: bump the authority, drop the local copy, publish.        *)
BeginInvalidate(p, r, t) ==
    Begin(p, "InvalidateTag", r, t, "bump", NoEntry, NoMin)

Bump(p) ==
    LET q == proc[p] IN
    /\ At(p, "bump")
    /\ \/ BumpCounter(Auth(q.rep), q.key)
       \/ "bump" \in Faults /\ UNCHANGED <<ctr, draws, bumped>>
    /\ Move(p, [q EXCEPT !.pc = "drop"])
    /\ UNCHANGED <<src, val, lost, gc, load, bus, begun, floor>>

(* From here on the replica knows of every bump of t so far.               *)
RaiseFloor(r, t) == floor' = [floor EXCEPT ![r][t] = bumped[Auth(r)][t]]

DropLocal(p) ==
    LET q == proc[p] IN
    /\ At(p, "drop")
    /\ gc' = IF HasGens THEN [gc EXCEPT ![q.rep] = drop(@, q.key)] ELSE gc
    /\ RaiseFloor(q.rep, q.key)
    /\ Move(p, [q EXCEPT !.pc = "publish"])
    /\ UNCHANGED <<src, storeVars, load, bus, begun, bumped>>

(* publish, for a tag or, after Delete, a physical key; best effort.       *)
Publish(p) ==
    LET q == proc[p]
        e == IF q.op = "InvalidateTag" THEN [kind |-> "tag", name |-> q.key]
                                       ELSE [kind |-> "key", name |-> PK[q.key]]
    IN
    /\ At(p, "publish")
    /\ \/ bus' = [r \in Replica |-> bus[r] \cup {e}]
       \/ "publish" \in Faults /\ bus' = bus
    /\ Return(p, NoEntry)
    /\ UNCHANGED <<src, storeVars, gc, load, begun, ghosts>>

(* onEvent.  An event no one delivers is lost.                             *)
OnTagEvent(r, t) ==
    LET e == [kind |-> "tag", name |-> t] IN
    /\ e \in bus[r]
    /\ bus' = [bus EXCEPT ![r] = @ \ {e}]
    /\ CASE HasGens ->
              /\ gc' = [gc EXCEPT ![r] = drop(@, t)]
              /\ RaiseFloor(r, t)
              /\ UNCHANGED <<ctr, draws, bumped>>
         [] scenario.level = "L1" ->
              /\ gc' = gc
              /\ \/ /\ BumpCounter(r, t)
                    /\ floor' = [floor EXCEPT ![r][t] = src]
                 \/ "bump" \in Faults /\ UNCHANGED <<ctr, draws, ghosts>>
         [] OTHER -> UNCHANGED <<gc, ctr, draws, ghosts>>
    /\ UNCHANGED <<proc, answers>>
    /\ UNCHANGED <<src, val, lost, load, begun>>

OnKeyEvent(r, pk) ==
    LET e == [kind |-> "key", name |-> pk] IN
    /\ e \in bus[r]
    /\ bus' = [bus EXCEPT ![r] = @ \ {e}]
    /\ IF HasL1 THEN Store(r, pk, NoEntry) ELSE val' = val
    /\ UNCHANGED <<proc, answers>>
    /\ UNCHANGED <<src, ctr, draws, lost, gc, load, begun, ghosts>>

-----------------------------------------------------------------------------
(* Set: the caller's value, with the generations read now, L2 first.       *)
BeginSet(p, r, k) ==
    Begin(p, "Set", r, k, "setgens",
          [key |-> k, ver |-> src[k], gens |-> <<>>, set |-> TRUE], NoMin)

SetGens(p) ==
    LET q == proc[p]
        s == Auth(q.rep)
        ts == TagsOf[q.key]
    IN
    /\ At(p, "setgens")
    /\ \/ /\ Counters(s, ts)
          /\ Move(p, [q EXCEPT !.pc = IF HasL2 THEN "setL2" ELSE "setL1",
                               !.res.gens = GensOf(s, ts)])
       \/ "fetch" \in Faults /\ Return(p, NoEntry) /\ UNCHANGED <<ctr, draws>>
    /\ UNCHANGED <<src, val, lost, gc, load, bus, begun, ghosts>>

SetL2(p) ==
    LET q == proc[p] IN
    /\ At(p, "setL2")
    /\ Store(L2, PK[q.key], q.res)
    /\ IF HasL1 THEN Move(p, [q EXCEPT !.pc = "setL1"]) ELSE Return(p, NoEntry)
    /\ UNCHANGED <<src, ctr, draws, lost, gc, load, bus, begun, ghosts>>

SetL1(p) ==
    LET q == proc[p] IN
    /\ At(p, "setL1")
    /\ Store(q.rep, PK[q.key], q.res)
    /\ Return(p, NoEntry)
    /\ UNCHANGED <<src, ctr, draws, lost, gc, load, bus, begun, ghosts>>

(* Delete: L1, then L2, then the event.                                    *)
BeginDelete(p, r, k) ==
    Begin(p, "Delete", r, k, IF HasL1 THEN "delL1" ELSE "delL2", NoEntry,
          NoMin)

DeleteAt(p, s, next) ==
    LET pk == PK[proc[p].key] IN
    /\ Store(s, pk, NoEntry)
    /\ Move(p, [proc[p] EXCEPT !.pc = next])
    /\ UNCHANGED <<src, ctr, draws, lost, gc, load, bus, begun, ghosts>>

DeleteL1(p) ==
    At(p, "delL1")
      /\ DeleteAt(p, proc[p].rep, IF HasL2 THEN "delL2" ELSE "publish")

DeleteL2(p) == At(p, "delL2") /\ DeleteAt(p, L2, "publish")

-----------------------------------------------------------------------------
ReadStep(p) == L1Get(p) \/ Compare(p) \/ Epoch(p) \/ Fetch(p) \/ FetchFails(p)
                 \/ GivesUp(p) \/ Decide(p) \/ Backfill(p)
                 \/ Join(p) \/ Lead(p) \/ Served(p)

WriteStep(p) == Bump(p) \/ DropLocal(p) \/ Publish(p) \/ SetGens(p)
                  \/ SetL2(p) \/ SetL1(p) \/ DeleteL1(p) \/ DeleteL2(p)

LoadStep(c) == RunLoader(c) \/ WriteL2(c) \/ WriteL1(c) \/ Forget(c)

Step ==
    \/ \E k \in scenario.keys : Write(k)
    \/ \E s \in Stores : \/ \E pk \in PKey : EvictEntry(s, pk)
                         \/ \E t \in GenKey : EvictCounter(s, t)
    \/ \E p \in Proc, r \in Replica :
         \/ \E k \in scenario.keys :
              \/ \E op \in {"Get", "GetOrLoad"} : BeginRead(p, op, r, k)
              \/ BeginSet(p, r, k) \/ BeginDelete(p, r, k)
         \/ \E t \in UNION {Tags(k) : k \in scenario.keys} :
              BeginInvalidate(p, r, t)
    \/ \E p \in Proc : ReadStep(p) \/ WriteStep(p)
    \/ \E c \in Load : LoadStep(c) \/ Deadline(c)
    \/ \E r \in Replica : \/ \E t \in GenKey : OnTagEvent(r, t)
                          \/ \E pk \in PKey : OnKeyEvent(r, pk)

Next == Step /\ UNCHANGED scenario

Spec == Init /\ [][Next]_vars

-----------------------------------------------------------------------------
Version == 0..scenario.maxVersion

EntryType == [key : Key \cup {"none"}, ver : Version,
              gens : Seq(Generation), set : BOOLEAN]

CopyType == [m : [GenKey -> [gen : Generation, expires : {0, 1}]],
             drops : [GenKey -> Nat], clears : Nat]

FlightKeyType == {<<>>} \cup (PKey \X Seq(Generation))
                   \cup (PKey \X {"?"} \X Seq(GenKey))

LoadType ==
    [rep : Replica \cup {"none"}, key : Key \cup {"none"},
     fk : FlightKeyType, gens : Seq(Generation), res : EntryType,
     stage : {"unborn", "load", "writeL2", "writeL1", "done", "gone"},
     expired : BOOLEAN]

(* A frame whose epoch, if it has one, is of the tags ts.                  *)
FrameType(ts) ==
    [op : OpName \cup {"none"},
     pc : {"idle", "l1get", "compare", "epoch", "fetch", "decide", "backfill",
           "flight", "wait", "bump", "drop", "publish", "setgens", "setL2",
           "setL1", "delL1", "delL2"},
     rep : Replica \cup {"none"}, key : Key \cup GenKey \cup {"none"},
     local : EntryType, hit : EntryType, res : EntryType,
     since : [clears : Nat, drops : [ts -> Nat]], gens : Seq(Generation),
     load : Load \cup {0}, min : [GenKey -> Version], blind : BOOLEAN]

TypeOK ==
    /\ scenario \in Scenarios
    /\ src \in [Key -> Version]
    /\ val \in [Stores -> [PKey -> EntryType]]
    /\ ctr \in [Stores -> [GenKey -> Generation]]
    /\ draws \in Nat
    /\ lost \in 0..scenario.maxEvictions
    /\ begun \in 0..scenario.maxOps
    /\ gc \in [Replica -> CopyType]
    /\ load \in [Load -> LoadType]
    /\ bus \in [Replica -> SUBSET ([kind : {"tag"}, name : GenKey]
                                     \cup [kind : {"key"}, name : PKey])]
    /\ proc = [p \in Proc |-> proc[p]]
    /\ \A p \in Proc : \E ts \in SUBSET GenKey : proc[p] \in FrameType(ts)
    /\ answers \subseteq [own : BOOLEAN, blind : BOOLEAN, recent : BOOLEAN]
    /\ bumped \in [Stores -> [GenKey -> [Key -> Version]]]
    /\ floor \in [Replica -> [GenKey -> [Key -> Version]]]

(* T-13, #112 and #113: a read that begins on a replica once InvalidateTag *)
(* has dropped the tag there (it has returned, or its event has been       *)
(* applied) answers with the source as it was when the tag was bumped, or  *)
(* newer, whatever loads, backfills and copies were under way.  A read     *)
(* that could not read its generations is left out: see FailOpenToo.       *)
ReadAfterInvalidate ==
    \A a \in answers : ~a.blind => a.recent

(* T-01: two keys that share a physical key but not their tags (an owner   *)
(* named only in the tag) are never served each other's value, from a      *)
(* store or from a coalesced load, readable generations or not (#134).     *)
NoCrossOwner ==
    \A a \in answers : a.own

(* docs/THREAT-MODEL.md T-13: a read issued after InvalidateTag returns    *)
(* never joins a load that began before it.  Without the exception above.  *)
FailOpenToo ==
    \A a \in answers : a.recent
==============================================================================
