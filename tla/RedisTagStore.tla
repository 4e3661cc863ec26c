---------------------------- MODULE RedisTagStore -----------------------------
(***************************************************************************)
(* redisstore's TagStore: GetTagged and Bump as the pipelines of commands  *)
(* they send to Redis.                                                     *)
(*                                                                         *)
(* Redis runs one command at a time and a pipeline is not a transaction:   *)
(* the commands of other clients run between those of one pipeline, and a  *)
(* counter may expire or be evicted between any two.  A client that gives  *)
(* up may leave a pipeline that runs on, or one whose tail is never run.   *)
(* The value GetTagged reads with the counters comes from the same MGET    *)
(* and is left out: TaggedCache reads it in its Fetch.                     *)
(***************************************************************************)
EXTENDS Generations, Sequences

CONSTANTS Counter,     \* keys of generation counters
          Request,     \* calls of GetTagged and Bump, from any replica
          LossInBump,  \* a counter may be lost between a Bump's SETNX and INCR
          MaxTags,     \* bound: tags of one call
          MaxDraws,    \* bound: generations drawn, one for each tag of a call
          MaxLosses    \* bound: counters expired or evicted

ASSUME RedisAssumption ==
    /\ LossInBump \in BOOLEAN
    /\ MaxTags \in Nat

VARIABLES
    ctr,      \* Redis: each counter, NoGeneration when missing
    ttl,      \* Redis: it has a time to live
    todo,     \* the commands of each request not run yet
    req,      \* what the client knows of each request
    draws,    \* generations drawn so far
    losses,   \* counters lost so far
    used,     \* ghost: every generation each counter has held
    retired   \* ghost: generations a returned Bump has put an end to

redis == <<ctr, ttl, used>>
vars == <<ctr, ttl, todo, req, draws, losses, used, retired>>

Unsent == [op |-> "none", tags |-> <<>>, state |-> "unsent",
           gens |-> <<>>, before |-> [t \in Counter |-> {}],
           gone |-> [t \in Counter |-> {}]]

Init ==
    /\ ctr = [t \in Counter |-> NoGeneration]
    /\ ttl = [t \in Counter |-> FALSE]
    /\ todo = [r \in Request |-> <<>>]
    /\ req = [r \in Request |-> Unsent]
    /\ draws = 0
    /\ losses = 0
    /\ used = [t \in Counter |-> {}]
    /\ retired = [t \in Counter |-> {}]

-----------------------------------------------------------------------------
(* The two pipelines.  The n-th tag gets the n-th of the fresh draws.      *)
Command(cmd, t, gen) == [cmd |-> cmd, tag |-> t, gen |-> gen]

SetNXOf(ts, n) == Command("SETNX", ts[n], NewGeneration(draws + n))
IncrOf(ts, n) == Command("INCR", ts[n], NoGeneration)
PExpireOf(ts, n) == Command("PEXPIRE", ts[n], NoGeneration)

ReadPipeline(ts) ==
    [n \in DOMAIN ts |-> SetNXOf(ts, n)]
      \o <<Command("MGET", ts, NoGeneration)>>

(* Three commands for each tag.                                            *)
ThreeOf(ts, First(_, _), Second(_, _), Third(_, _)) ==
    [i \in 1..(3 * Len(ts)) |->
       LET n == (i + 2) \div 3 IN
       CASE i = 3 * n - 2 -> First(ts, n)
         [] i = 3 * n - 1 -> Second(ts, n)
         [] i = 3 * n -> Third(ts, n)]

(* Fault: the counter is advanced before it is sure to exist.              *)
BumpIncrFirst(ts) == ThreeOf(ts, IncrOf, SetNXOf, PExpireOf)

BumpPipeline(ts) == ThreeOf(ts, SetNXOf, IncrOf, PExpireOf)

(* The draws are made before the pipeline is sent; used and retired are    *)
(* what the properties compare the outcome with.                           *)
Send(r, op, ts, commands) ==
    /\ req[r].state = "unsent"
    /\ draws + Len(ts) <= MaxDraws
    /\ req' = [req EXCEPT ![r] = [Unsent EXCEPT !.op = op, !.tags = ts,
                 !.state = "sent", !.before = used, !.gone = retired]]
    /\ todo' = [todo EXCEPT ![r] = commands]
    /\ draws' = draws + Len(ts)
    /\ UNCHANGED <<redis, losses, retired>>

GetTagged(r, ts) == Send(r, "GetTagged", ts, ReadPipeline(ts))

Bump(r, ts) == Send(r, "Bump", ts, BumpPipeline(ts))

(* A call is over, and there is no more to tell of it than how it ended.   *)
Over(r, state) == req' = [req EXCEPT ![r] = [Unsent EXCEPT !.state = state]]

(* The Guard refuses, or no generation could be drawn: Redis is untouched. *)
Refuse(r) ==
    /\ req[r].state = "unsent"
    /\ Over(r, "failed")
    /\ UNCHANGED <<redis, todo, draws, losses, retired>>

-----------------------------------------------------------------------------
(* Redis runs the next command of a request.                               *)
IsNext(r, cmd) == todo[r] # <<>> /\ Head(todo[r]).cmd = cmd

Hold(t, gen) ==
    /\ ctr' = [ctr EXCEPT ![t] = gen]
    /\ used' = [used EXCEPT ![t] = @ \cup {gen}]

(* Fault: a counter is created without a time to live.                     *)
SetNXForever(r) ==
    LET c == Head(todo[r]) IN
    /\ IsNext(r, "SETNX")
    /\ IF ctr[c.tag] = NoGeneration THEN Hold(c.tag, c.gen) ELSE UNCHANGED <<ctr, used>>
    /\ todo' = [todo EXCEPT ![r] = Tail(@)]
    /\ UNCHANGED <<ttl, req, draws, losses, retired>>

(* SET NX creates a missing counter, with its time to live; an existing    *)
(* one keeps both.                                                         *)
SetNX(r) ==
    LET c == Head(todo[r]) IN
    /\ IsNext(r, "SETNX")
    /\ IF ctr[c.tag] = NoGeneration
         THEN Hold(c.tag, c.gen) /\ ttl' = [ttl EXCEPT ![c.tag] = TRUE]
         ELSE UNCHANGED <<ctr, used, ttl>>
    /\ todo' = [todo EXCEPT ![r] = Tail(@)]
    /\ UNCHANGED <<req, draws, losses, retired>>

(* INCR counts a missing counter from nothing, with no time to live.       *)
Incr(r) ==
    LET t == Head(todo[r]).tag IN
    /\ IsNext(r, "INCR")
    /\ Hold(t, Advance(ctr[t]))
    /\ todo' = [todo EXCEPT ![r] = Tail(@)]
    /\ UNCHANGED <<ttl, req, draws, losses, retired>>

PExpire(r) ==
    LET t == Head(todo[r]).tag IN
    /\ IsNext(r, "PEXPIRE")
    /\ ttl' = [ttl EXCEPT ![t] = ctr[t] # NoGeneration]
    /\ todo' = [todo EXCEPT ![r] = Tail(@)]
    /\ UNCHANGED <<ctr, used, req, draws, losses, retired>>

(* MGET reads every counter at one instant, the missing ones as nil, for a *)
(* client that still waits.                                                *)
MGet(r) ==
    LET ts == Head(todo[r]).tag IN
    /\ IsNext(r, "MGET")
    /\ req' = IF req[r].state = "sent"
                THEN [req EXCEPT ![r].gens = [n \in DOMAIN ts |-> ctr[ts[n]]]]
                ELSE req
    /\ todo' = [todo EXCEPT ![r] = Tail(@)]
    /\ UNCHANGED <<redis, draws, losses, retired>>

(* Between the two a Bump must find the counter its SETNX saw to.          *)
InBump(t) == \E r \in Request : IsNext(r, "INCR") /\ Head(todo[r]).tag = t

(* A counter expires, or is evicted (allkeys-lru).                         *)
Lose(t) ==
    /\ ctr[t] # NoGeneration
    /\ losses < MaxLosses
    /\ LossInBump \/ ~InBump(t)
    /\ ctr' = [ctr EXCEPT ![t] = NoGeneration]
    /\ ttl' = [ttl EXCEPT ![t] = FALSE]
    /\ losses' = losses + 1
    /\ UNCHANGED <<todo, req, draws, used, retired>>

(* The connection breaks: what is left of the pipeline is never run.       *)
Cut(r) ==
    /\ todo[r] # <<>>
    /\ todo' = [todo EXCEPT ![r] = <<>>]
    /\ Over(r, "failed")
    /\ UNCHANGED <<redis, draws, losses, retired>>

-----------------------------------------------------------------------------
(* The client.                                                             *)

(* Its timeout passes or its context is done; Redis may run the rest.      *)
GiveUp(r) ==
    /\ req[r].state = "sent"
    /\ Over(r, "failed")
    /\ UNCHANGED <<redis, todo, draws, losses, retired>>

(* Fault: a counter missing from MGET is read as a generation.             *)
ReadZero(r) ==
    /\ req[r].op = "GetTagged" /\ req[r].state = "sent" /\ todo[r] = <<>>
    /\ req' = [req EXCEPT ![r].state = "ok"]
    /\ UNCHANGED <<redis, todo, draws, losses, retired>>

(* A counter that vanished between SETNX and MGET fails the read.          *)
ReadReturns(r) ==
    /\ req[r].op = "GetTagged" /\ req[r].state = "sent" /\ todo[r] = <<>>
    /\ IF \E n \in DOMAIN req[r].gens : req[r].gens[n] = NoGeneration
         THEN Over(r, "failed")
         ELSE req' = [req EXCEPT ![r].state = "ok"]
    /\ UNCHANGED <<redis, todo, draws, losses, retired>>

TagsOf(r) == {req[r].tags[n] : n \in DOMAIN req[r].tags}

(* Fault: the answer of Exec is not looked at.                             *)
BumpReturnsAnyway(r) ==
    /\ req[r].op = "Bump" /\ req[r].state = "sent"
    /\ Over(r, "ok")
    /\ retired' = [t \in Counter |-> retired[t] \cup
                     (IF t \in TagsOf(r) THEN req[r].before[t] ELSE {})]
    /\ UNCHANGED <<redis, todo, draws, losses>>

(* Every generation the counters had held when Bump was called is over.    *)
BumpReturns(r) ==
    /\ req[r].op = "Bump" /\ req[r].state = "sent" /\ todo[r] = <<>>
    /\ Over(r, "ok")
    /\ retired' = [t \in Counter |-> retired[t] \cup
                     (IF t \in TagsOf(r) THEN req[r].before[t] ELSE {})]
    /\ UNCHANGED <<redis, todo, draws, losses>>

-----------------------------------------------------------------------------
TagLists == {ts \in UNION {[1..n -> Counter] : n \in 1..MaxTags} :
               \A i, j \in DOMAIN ts : i # j => ts[i] # ts[j]}

Server(r) == SetNX(r) \/ Incr(r) \/ PExpire(r) \/ MGet(r) \/ Cut(r)

Client(r) == GiveUp(r) \/ Refuse(r) \/ ReadReturns(r) \/ BumpReturns(r)

Next ==
    \/ \E r \in Request :
         \/ \E ts \in TagLists : GetTagged(r, ts) \/ Bump(r, ts)
         \/ Server(r)
         \/ Client(r)
    \/ \E t \in Counter : Lose(t)

Spec == Init /\ [][Next]_vars

-----------------------------------------------------------------------------
(* The counters of Redis keep the TagStore contract: no counter ever takes *)
(* a generation it has held, whatever pipelines interleave, are cut short  *)
(* or run on after their client gave up (tagstore.go: Bump advances each   *)
(* counter "to a value it has never held").                                *)
Contract == INSTANCE TagStore

KeepsContract == Contract!Spec

(* Bump's comment, "concurrent bumps from many replicas all count": once a *)
(* Bump has returned nil no read sent afterwards is given a generation     *)
(* the counter held before that Bump was called.                           *)
ReadSeesBump ==
    \A r \in Request : req[r].op = "GetTagged" /\ req[r].state = "ok" =>
      \A n \in DOMAIN req[r].tags :
        req[r].gens[n] \notin req[r].gone[req[r].tags[n]]

(* A read that succeeds was given a generation of every tag, one that its  *)
(* counter really held, however its pipeline was interleaved.              *)
ReadsRealGenerations ==
    \A r \in Request : req[r].op = "GetTagged" /\ req[r].state = "ok" =>
      /\ DOMAIN req[r].gens = DOMAIN req[r].tags
      /\ \A n \in DOMAIN req[r].tags : req[r].gens[n] \in used[req[r].tags[n]]

(* tagstore.go: a counter is created "with genTTL".  A pipeline cut after  *)
(* any of its commands leaves no counter without a time to live, which     *)
(* would stay in Redis for ever.                                           *)
CountersExpire == \A t \in Counter : ctr[t] # NoGeneration => ttl[t]
==============================================================================
