------------------------------ MODULE PlainCache ------------------------------
(***************************************************************************)
(* An untagged Cache on every replica of a deployment, in time: GetOrLoad, *)
(* Get, Set and Delete of cache.go, the key events of events.go, entries   *)
(* that expire, per-entry and negative TTLs, jitter, loads with a timeout, *)
(* and Redis commands that run after their client gave up.                 *)
(*                                                                         *)
(* One key: physical keys share nothing but room in a store.  A value is   *)
(* the version the source held when it was read.  Every store operation,   *)
(* the loader's read of the source and its return, and every delivery are  *)
(* actions of their own; the clock ticks between any two of them.          *)
(*                                                                         *)
(* A call is modelled for what it does to what others can read.  A read    *)
(* that hits L1 changes nothing and is not an action, and neither is a     *)
(* caller's wait for a load: the load goes on without it (Singleflight).   *)
(***************************************************************************)
EXTENDS Integers, FiniteSets

CONSTANTS
    Replica,      \* instances of the service, each with its own L1
    L2,           \* the name of the shared store
    Proc,         \* goroutines
    Scale,        \* jitter shortens a TTL to n/Scale of it
    Scenarios     \* what is explored: see ScenarioType

FaultName == {"get", "set", "late", "del", "publish", "cancel"}

(* A scenario is what New was given (negTTL is 0 without WithNegativeTTL,  *)
(* jitter the draws n it allows), the TTLs callers ask for, the versions   *)
(* the loader reports as ErrNotFound, what the goroutines do and what may  *)
(* fail; and, as bounds, how many operations, versions and loads there are *)
(* and when time ends.                                                     *)
ScenarioType ==
    [level : {"both", "L1", "L2"}, ttl : Nat, l1TTL : Nat, negTTL : Nat,
     jitter : SUBSET (1..Scale), loadTimeout : Nat, asked : SUBSET Nat,
     absent : SUBSET Nat, ops : SUBSET {"read", "Set", "Delete"},
     faults : SUBSET FaultName, maxOps : Nat, maxVersion : Nat,
     maxLoads : Nat, maxTime : Nat]

(* validate: an L1 TTL no longer than the TTL, and so for a negative TTL;  *)
(* entryOptions: a positive TTL.  Of the TTLs asked for one is the longest.*)
ASSUME PlainAssumption ==
    /\ L2 \notin Replica /\ "none" \notin Replica /\ Scale \in Nat \ {0}
    /\ Scenarios \subseteq ScenarioType
    /\ \A s \in Scenarios :
         /\ s.l1TTL \in 1..s.ttl /\ s.negTTL \in 0..s.ttl
         /\ s.loadTimeout > 0 /\ s.ttl \in s.asked /\ 0 \notin s.asked
         /\ \E d \in s.asked : \A x \in s.asked : x <= d

Stores == Replica \cup {L2}

(* An envelope: the version stored, when write() made it, its logical      *)
(* expiry, when the TTL it was given for would end (a ghost: neither       *)
(* jitter nor rounding may extend it), and whether a Set stored it.        *)
NoEnvelope == [ver |-> 0, at |-> 0, expires |-> 0, limit |-> 0,
               bySet |-> FALSE]

(* An entry is an envelope, held until its physical expiry; lag is a ghost *)
(* for the time its Set took.                                              *)
NoEntry == [env |-> NoEnvelope, until |-> 0, lag |-> 0]

Idle == [pc |-> "idle", rep |-> "none", ver |-> 0, env |-> NoEnvelope,
         ttl |-> 0, since |-> 0, err |-> FALSE]

NoLoad == [stage |-> "unborn", rep |-> "none", start |-> 0, want |-> 0,
           env |-> NoEnvelope, ttl |-> 0]

VARIABLES
    scenario,  \* the one explored, chosen once
    now,       \* the clock
    src,       \* the version of the source
    changed,   \* ghost: when the source moved past each version
    store,     \* the entry in each store
    late,      \* Redis SETs whose client gave up, not run yet
    load,      \* loads
    bus,       \* key events published and not yet delivered, per replica:
               \* the ghost version they promise is the oldest left
    proc,      \* what each goroutine is doing
    begun,     \* operations begun
    calm,      \* ghost: those whose Delete no older value has crossed
    floor,     \* ghost: the oldest version a replica may still serve
    cleanAt    \* ghost: when a Delete first left no value before a version

ghosts == <<calm, floor, cleanAt>>
vars == <<scenario, now, src, changed, store, late, load, bus, proc, begun,
          calm, floor, cleanAt>>

Faults == scenario.faults
Load == 1..scenario.maxLoads
HasL1 == scenario.level \in {"both", "L1"}
HasL2 == scenario.level \in {"both", "L2"}
Never == scenario.maxTime + 1

Least(a, b) == IF a < b THEN a ELSE b
Most(a, b) == IF a > b THEN a ELSE b

Init ==
    /\ scenario \in Scenarios
    /\ now = 0 /\ src = 0
    /\ changed = [v \in 0..scenario.maxVersion |-> Never]
    /\ store = [s \in Stores |-> NoEntry]
    /\ late = {}
    /\ load = [c \in Load |-> NoLoad]
    /\ bus = [r \in Replica |-> {}]
    /\ proc = [p \in Proc |-> Idle]
    /\ begun = 0
    /\ calm = {}
    /\ floor = [r \in Replica |-> 0]
    /\ cleanAt = [v \in 0..scenario.maxVersion |-> Never]

-----------------------------------------------------------------------------
(* The environment.                                                        *)

(* Time passes; a store drops what it held until now.                      *)
Tick ==
    /\ now < scenario.maxTime
    /\ now' = now + 1
    /\ store' = [s \in Stores |->
                   IF store[s].until <= now' THEN NoEntry ELSE store[s]]
    /\ UNCHANGED <<src, changed, late, load, bus, proc, begun, ghosts>>

(* The source of truth changes; the consumer deletes the key afterwards.   *)
Write ==
    /\ src < scenario.maxVersion
    /\ src' = src + 1
    /\ changed' = [changed EXCEPT ![src] = now]
    /\ UNCHANGED <<now, store, late, load, bus, proc, begun, ghosts>>

-----------------------------------------------------------------------------
(* write, its TTLs and its store operations.                               *)

(* Faults: no floor of one; the L1 TTL not capped; not scaled.             *)
ScaledUnfloored(d, n) == (d * n) \div Scale
L1TTLOfUncapped(want, n) == Most((want * n) \div Scale, 1)
L1TTLOfUnscaled(want, n) == Least(want, scenario.l1TTL)

scaled(d, n) == Most((d * n) \div Scale, 1)
L1TTLOf(want, n) == scaled(Least(want, scenario.l1TTL), n)

(* write: the envelope, its logical expiry the longest TTL used.           *)
Envelope(ver, want, n, bySet) ==
    [ver |-> ver, at |-> now, expires |-> now + scaled(want, n),
     limit |-> now + want, bySet |-> bySet]

(* The Deletes an older value stored at s crosses.                         *)
Crossed(s, ver) ==
    {p \in calm : s \in {proc[p].rep, L2} /\ ver < proc[p].ver}

(* A store holds e for ttl, a duration computed at since.                  *)
Put(s, e, ttl, since) ==
    /\ store' = [store EXCEPT ![s] = [env |-> e, until |-> now + ttl,
                                      lag |-> now - since]]
    /\ calm' = calm \ Crossed(s, e.ver)
    /\ late' = late

NoPut == UNCHANGED <<store, calm, late>>

(* Fault: a Set whose context is done is not refused.                      *)
PutIfAnyway(alive, s, e, ttl, since) == Put(s, e, ttl, since)

(* A Set is refused when its context is done, and may fail.                *)
PutIf(alive, s, e, ttl, since) ==
    \/ alive /\ Put(s, e, ttl, since)
    \/ (~alive \/ "set" \in Faults) /\ NoPut

(* To Redis, it may also time out and be run later.                        *)
PutL2(alive, e) ==
    \/ PutIf(alive, L2, e, e.expires - e.at, e.at)
    \/ /\ alive /\ "late" \in Faults
       /\ late' = late \cup {e}
       /\ UNCHANGED <<store, calm>>

(* Redis runs a SET whose client gave up on it.                            *)
Land(e) ==
    /\ e \in late
    /\ store' = [store EXCEPT ![L2] =
                   [env |-> e, until |-> now + (e.expires - e.at),
                    lag |-> now - e.at]]
    /\ calm' = calm \ Crossed(L2, e.ver)
    /\ late' = late \ {e}
    /\ UNCHANGED <<now, src, changed, load, bus, proc, begun, floor, cleanAt>>

-----------------------------------------------------------------------------
(* Processes.                                                              *)
At(p, pc) == proc[p].pc = pc

Move(p, frame) == proc' = [proc EXCEPT ![p] = frame]
Return(p) == Move(p, Idle)

Begin(p, op, frame) ==
    /\ op \in scenario.ops
    /\ proc[p].pc \in {"idle", "failed"}
    /\ begun < scenario.maxOps
    /\ begun' = begun + 1
    /\ Move(p, frame)

(* Fault: an entry is usable for as long as the store holds it.            *)
CheckedAnyway(e) == e # NoEntry

(* checked: an entry is usable until its logical expiry.                   *)
checked(e) == e # NoEntry /\ now < e.env.expires

(* readPlain: L1 errs, or holds nothing usable.                            *)
MissL1(p, r) ==
    /\ ~HasL1 \/ ~checked(store[r]) \/ "get" \in Faults
    /\ Begin(p, "read", [Idle EXCEPT !.rep = r,
               !.pc = IF HasL2 THEN "l2get" ELSE "flight"])
    /\ calm' = calm \ {p}
    /\ UNCHANGED <<now, src, changed, store, late, load, bus, floor, cleanAt>>

L2Get(p) ==
    LET q == proc[p] IN
    /\ At(p, "l2get")
    /\ \/ /\ checked(store[L2])
          /\ IF HasL1 THEN Move(p, [q EXCEPT !.pc = "clamp",
                                       !.env = store[L2].env])
                      ELSE Return(p)
       \/ /\ ~checked(store[L2]) \/ "get" \in Faults
          /\ Move(p, [q EXCEPT !.pc = "flight"])
    /\ UNCHANGED <<now, src, changed, store, late, load, bus, begun, ghosts>>

(* Fault: the copy is held for a whole L1 TTL.                             *)
ClampNot(e) == scenario.l1TTL

(* backfill: the copy lives for the L1 TTL, and never beyond the entry.    *)
Clamp(e) == Least(scenario.l1TTL, e.expires - now)

ClampStep(p) ==
    LET q == proc[p] IN
    /\ At(p, "clamp")
    /\ IF Clamp(q.env) <= 0
         THEN Return(p)
         ELSE Move(p, [q EXCEPT !.pc = "fill", !.ttl = Clamp(q.env),
                                !.since = now])
    /\ UNCHANGED <<now, src, changed, store, late, load, bus, begun, ghosts>>

Backfill(p) ==
    LET q == proc[p] IN
    /\ At(p, "fill")
    /\ PutIf(TRUE, q.rep, q.env, q.ttl, q.since)
    /\ Return(p)
    /\ UNCHANGED <<now, src, changed, load, bus, begun, floor, cleanAt>>

-----------------------------------------------------------------------------
(* GetOrLoad after a miss: the coalesced load.                             *)

Alive(c) == now < load[c].start + scenario.loadTimeout

Joinable(r) ==
    {c \in Load : load[c].rep = r /\ load[c].stage # "gone" /\ Alive(c)}

(* A Get ends at its miss.  A GetOrLoad joins the load under way, or leads *)
(* one of its own.                                                         *)
EndMiss(p) ==
    /\ At(p, "flight")
    /\ Return(p)
    /\ UNCHANGED <<now, src, changed, store, late, load, bus, begun, ghosts>>

Lead(p) ==
    /\ At(p, "flight")
    /\ Joinable(proc[p].rep) = {}
    /\ \E c \in Load, want \in scenario.asked :
         /\ load[c] = NoLoad
         /\ \A d \in Load : load[d] = NoLoad => c <= d
         /\ load' = [load EXCEPT ![c] = [NoLoad EXCEPT !.stage = "load",
              !.rep = proc[p].rep, !.start = now, !.want = want]]
    /\ Return(p)
    /\ UNCHANGED <<now, src, changed, store, late, bus, begun, ghosts>>

(* The loader reads the source, and returns what it read later on.         *)
ReadSource(c) ==
    /\ load[c].stage = "load"
    /\ load' = [load EXCEPT ![c].stage = "loaded", ![c].env.ver = src]
    /\ UNCHANGED <<now, src, changed, store, late, bus, proc, begun, ghosts>>

FirstPut == IF HasL2 THEN "setL2" ELSE "setL1"

(* The loader returns: a value is written, and so is an absence if it is   *)
(* remembered.                                                             *)
LoaderReturns(c) ==
    LET l == load[c]
        isAbsent == l.env.ver \in scenario.absent
        want == IF isAbsent THEN scenario.negTTL ELSE l.want
    IN
    /\ l.stage = "loaded"
    /\ IF want = 0
         THEN load' = [load EXCEPT ![c].stage = "done"]
         ELSE \E n \in scenario.jitter :
                load' = [load EXCEPT ![c].stage = FirstPut,
                           ![c].env = Envelope(l.env.ver, want, n, FALSE),
                           ![c].ttl = L1TTLOf(want, n)]
    /\ UNCHANGED <<now, src, changed, store, late, bus, proc, begun, ghosts>>

LoadSetL2(c) ==
    /\ load[c].stage = "setL2"
    /\ PutL2(Alive(c), load[c].env)
    /\ load' = [load EXCEPT ![c].stage = IF HasL1 THEN "setL1" ELSE "done"]
    /\ UNCHANGED <<now, src, changed, bus, proc, begun, floor, cleanAt>>

LoadSetL1(c) ==
    LET l == load[c] IN
    /\ l.stage = "setL1"
    /\ PutIf(Alive(c), l.rep, l.env, l.ttl, l.env.at)
    /\ load' = [load EXCEPT ![c].stage = "done"]
    /\ UNCHANGED <<now, src, changed, bus, proc, begun, floor, cleanAt>>

(* Its callers are told, and nobody joins it any more.                     *)
Forget(c) ==
    /\ load[c].stage = "done"
    /\ load' = [load EXCEPT ![c] = [NoLoad EXCEPT !.stage = "gone"]]
    /\ UNCHANGED <<now, src, changed, store, late, bus, proc, begun, ghosts>>

-----------------------------------------------------------------------------
(* Set: the caller's value, of the version the source has now.             *)
BeginSet(p, r, want) ==
    /\ Begin(p, "Set", [Idle EXCEPT !.pc = "write", !.rep = r, !.ver = src,
                          !.ttl = want])
    /\ calm' = calm \ {p}
    /\ UNCHANGED <<now, src, changed, store, late, load, bus, floor, cleanAt>>

SetWrite(p) ==
    LET q == proc[p] IN
    /\ At(p, "write")
    /\ \E n \in scenario.jitter :
         Move(p, [q EXCEPT !.pc = FirstPut, !.ttl = L1TTLOf(q.ttl, n),
                           !.env = Envelope(q.ver, q.ttl, n, TRUE)])
    /\ UNCHANGED <<now, src, changed, store, late, load, bus, begun, ghosts>>

SetL2(p) ==
    /\ At(p, "setL2")
    /\ PutL2(TRUE, proc[p].env)
    /\ IF HasL1 THEN Move(p, [proc[p] EXCEPT !.pc = "setL1"]) ELSE Return(p)
    /\ UNCHANGED <<now, src, changed, load, bus, begun, floor, cleanAt>>

SetL1(p) ==
    LET q == proc[p] IN
    /\ At(p, "setL1")
    /\ PutIf(TRUE, q.rep, q.env, q.ttl, q.env.at)
    /\ Return(p)
    /\ UNCHANGED <<now, src, changed, load, bus, begun, floor, cleanAt>>

-----------------------------------------------------------------------------
(* Delete: L1, then L2, then the event; the errors are joined.             *)
BeginDelete(p, r) ==
    /\ Begin(p, "Delete", [Idle EXCEPT !.rep = r, !.ver = src,
               !.pc = IF HasL1 THEN "delL1" ELSE "delL2"])
    /\ calm' = calm \cup {p}
    /\ UNCHANGED <<now, src, changed, store, late, load, bus, floor, cleanAt>>

(* Its context is done: Delete returns the error at once.                  *)
DeleteRefused(p, r) ==
    /\ "cancel" \in Faults
    /\ Begin(p, "Delete", [Idle EXCEPT !.pc = "failed", !.rep = r,
                             !.ver = src])
    /\ calm' = calm \cup {p}
    /\ UNCHANGED <<now, src, changed, store, late, load, bus, floor, cleanAt>>

(* Fault: the error of a level is not among those returned.                *)
DeleteAtUnreported(p, s, next) ==
    /\ \/ store' = [store EXCEPT ![s] = NoEntry]
       \/ "del" \in Faults /\ store' = store
    /\ Move(p, [proc[p] EXCEPT !.pc = next])

DeleteAt(p, s, next) ==
    \/ /\ store' = [store EXCEPT ![s] = NoEntry]
       /\ Move(p, [proc[p] EXCEPT !.pc = next])
    \/ /\ "del" \in Faults /\ store' = store
       /\ Move(p, [proc[p] EXCEPT !.pc = next, !.err = TRUE])

DeleteL1(p) ==
    /\ At(p, "delL1")
    /\ DeleteAt(p, proc[p].rep, IF HasL2 THEN "delL2" ELSE "publish")
    /\ UNCHANGED <<now, src, changed, late, load, bus, begun, ghosts>>

DeleteL2(p) ==
    /\ At(p, "delL2")
    /\ DeleteAt(p, L2, "publish")
    /\ UNCHANGED <<now, src, changed, late, load, bus, begun, ghosts>>

(* An older value is on its way into what a replica reads: from a load     *)
(* that has read the source (or that its callers may still join), a Set, a *)
(* backfill, or a SET that Redis has yet to run.                           *)
OldUnderWay(r, ver) ==
    \/ \E c \in Load :
         /\ load[c].stage \in {"loaded", "setL2", "setL1", "done"}
         /\ load[c].env.ver < ver /\ (load[c].rep = r \/ HasL2)
    \/ \E p \in Proc :
         LET q == proc[p] IN
         \/ /\ q.pc \in {"write", "setL2", "setL1"}
            /\ q.ver < ver /\ (q.rep = r \/ HasL2)
         \/ /\ q.pc \in {"clamp", "fill"}
            /\ q.env.ver < ver /\ q.rep = r
    \/ \E e \in late : e.ver < ver

(* Delete returns an error.                                                *)
Fail(p) ==
    /\ Move(p, [Idle EXCEPT !.pc = "failed", !.rep = proc[p].rep,
                           !.ver = proc[p].ver])
    /\ calm' = calm

(* Delete publishes and returns; nil, when nothing failed.  Ghosts: if no  *)
(* older value crossed it, what was in the stores before is gone, and the  *)
(* only older values left are those under way.                             *)
Publish(p) ==
    LET q == proc[p]
        clean(r) == ~q.err /\ p \in calm /\ ~OldUnderWay(r, q.ver)
        event == [ver |-> IF clean(q.rep) THEN q.ver ELSE 0]
    IN
    /\ At(p, "publish")
    /\ \/ /\ bus' = [r \in Replica |-> bus[r] \cup {event}]
          /\ floor' = IF clean(q.rep)
                         THEN [floor EXCEPT ![q.rep] = Most(@, q.ver)]
                         ELSE floor
          /\ cleanAt' = IF \A r \in Replica : clean(r)
                           THEN [v \in DOMAIN cleanAt |->
                                   IF v <= q.ver THEN Least(cleanAt[v], now)
                                                 ELSE cleanAt[v]]
                           ELSE cleanAt
          /\ IF q.err THEN Fail(p) ELSE Return(p) /\ calm' = calm \ {p}
       \/ "publish" \in Faults /\ Fail(p) /\ UNCHANGED <<bus, floor, cleanAt>>
    /\ UNCHANGED <<now, src, changed, store, late, load, begun>>

(* onEvent: the replica drops its copy.  An event no one delivers is lost. *)
OnKeyEvent(r, e) ==
    /\ e \in bus[r]
    /\ bus' = [bus EXCEPT ![r] = @ \ {e}]
    /\ \/ /\ store' = IF HasL1 THEN [store EXCEPT ![r] = NoEntry] ELSE store
          /\ floor' = IF OldUnderWay(r, e.ver) THEN floor
                      ELSE [floor EXCEPT ![r] = Most(@, e.ver)]
       \/ "del" \in Faults /\ UNCHANGED <<store, floor>>
    /\ UNCHANGED <<now, src, changed, late, load, proc, begun, calm, cleanAt>>

-----------------------------------------------------------------------------
ReadStep(p) == L2Get(p) \/ ClampStep(p) \/ Backfill(p) \/ EndMiss(p) \/ Lead(p)
WriteStep(p) == SetWrite(p) \/ SetL2(p) \/ SetL1(p) \/ DeleteL1(p)
                  \/ DeleteL2(p) \/ Publish(p)
LoadStep(c) == ReadSource(c) \/ LoaderReturns(c) \/ LoadSetL2(c)
                 \/ LoadSetL1(c) \/ Forget(c)

Step ==
    \/ Tick \/ Write
    \/ \E e \in late : Land(e)
    \/ \E p \in Proc, r \in Replica :
         \/ MissL1(p, r) \/ BeginDelete(p, r) \/ DeleteRefused(p, r)
         \/ \E want \in scenario.asked : BeginSet(p, r, want)
    \/ \E p \in Proc : ReadStep(p) \/ WriteStep(p)
    \/ \E c \in Load : LoadStep(c)
    \/ \E r \in Replica : \E e \in bus[r] : OnKeyEvent(r, e)

Next == Step /\ UNCHANGED scenario

Spec == Init /\ [][Next]_vars

-----------------------------------------------------------------------------
Longest == CHOOSE d \in scenario.asked : \A x \in scenario.asked : x <= d

EnvelopeType ==
    LET v == 0..scenario.maxVersion
        t == 0..(scenario.maxTime + Longest)
    IN [ver : v, at : t, expires : t, limit : t, bySet : BOOLEAN]

(* Types.  A TTL handed to a store is positive.                            *)
TypeOK ==
    /\ scenario \in Scenarios
    /\ now \in 0..scenario.maxTime /\ src \in 0..scenario.maxVersion
    /\ \A s \in Stores : /\ store[s].env \in EnvelopeType
                         /\ store[s].until \in Nat /\ store[s].lag \in Nat
    /\ late \subseteq EnvelopeType
    /\ \A c \in Load :
         /\ load[c].stage \in {"unborn", "load", "loaded", "setL2", "setL1",
                               "done", "gone"}
         /\ load[c].env \in EnvelopeType
         /\ load[c].stage = "setL1" => load[c].ttl \in 1..Longest
    /\ bus \in [Replica -> SUBSET [ver : 0..scenario.maxVersion]]
    /\ \A p \in Proc :
         /\ proc[p].env \in EnvelopeType
         /\ proc[p].pc \in {"setL1", "fill"} => proc[p].ttl \in 1..Longest
    /\ begun \in 0..scenario.maxOps /\ calm \subseteq Proc
    /\ floor \in [Replica -> 0..scenario.maxVersion]
    /\ cleanAt \in [0..scenario.maxVersion -> 0..Never]

(* WithTTL, TTL, WithNegativeTTL and WithJitter, which "never lengthens a  *)
(* TTL": however long the Sets of a write, a backfill or a delayed Redis   *)
(* command took, no replica is served an entry once the TTL it was written *)
(* with has passed since write() made it.                                  *)
ServedWithinTTL ==
    \A s \in Stores : checked(store[s]) => now < store[s].env.limit

(* ADR-0004, "an L1 entry never outlives the L2 entry it came from", under *)
(* jitter, per-entry and negative TTLs and in backfills: L1 holds an entry *)
(* past its logical expiry only for the time its Set took.                 *)
L1WithinL2 ==
    \A r \in Replica :
        store[r] # NoEntry =>
          store[r].until <= store[r].env.expires + store[r].lag

(* ADR-0011, "stale until the TTL": a value a load read may be stored      *)
(* after the Delete that should have removed it, but only a load that has  *)
(* not timed out stores one, so that none is served later than the load    *)
(* timeout and the longest TTL after the source moved past it.             *)
StaleWithin ==
    \A s \in Stores :
        LET e == store[s] IN
        checked(e) /\ e.env.ver < src /\ ~e.env.bySet
          => now < changed[e.env.ver] + scenario.loadTimeout + Longest

(* What a read that begins on r now may be served.                         *)
Servable(r) ==
    {store[s].env.ver : s \in {x \in {r, L2} : checked(store[x])}}
      \cup {load[c].env.ver : c \in {x \in Joinable(r) :
                                        load[x].stage # "load"}}

(* Delete, and the event of one: once it has returned nil, or its event    *)
(* was applied, the only values older than the source was when it began    *)
(* are those its ADR-0011 races had under way: when there were none, no    *)
(* read on the replica is ever served one again, whatever other replicas   *)
(* still hold.                                                             *)
DeleteIsSeen ==
    \A r \in Replica : \A v \in Servable(r) : v >= floor[r]

(* RNF-11: when no event reaches a replica, it serves what such a Delete   *)
(* removed for at most one L1 TTL more.                                    *)
MissedEvent ==
    \A v \in DOMAIN cleanAt :
        now >= cleanAt[v] + scenario.l1TTL
          => \A r \in Replica : \A w \in Servable(r) : w >= v

(* cache.go:327, "L1 is always evicted": when Delete has returned, even an *)
(* error, and no older value crossed it, L1 holds none.                     *)
DeleteEvictsL1 ==
    \A p \in Proc :
        At(p, "failed") /\ p \in calm /\ HasL1
          => LET e == store[proc[p].rep] IN
             ~(checked(e) /\ e.env.ver < proc[p].ver)
==============================================================================
