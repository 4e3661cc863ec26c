---------------------------------- MODULE Bus ----------------------------------
(***************************************************************************)
(* The two implementations of bus.Bus: Local of bus/bus.go, in one         *)
(* process, and Bus of redisstore/bus.go, over Redis Pub/Sub.  Handlers    *)
(* subscribe, hear what is published, and are unsubscribed by several      *)
(* goroutines at once, as by concurrent calls of Cache.Close.              *)
(*                                                                         *)
(* Redis may become unreachable and come back; go-redis resubscribes, and  *)
(* its PubSub.Close may wait for a redial for as long as it likes.  Other  *)
(* programs may publish what is no event.                                  *)
(***************************************************************************)
EXTENDS EventCodec, FiniteSets

CONSTANTS
    Sub,         \* handlers that subscribe
    Closer,      \* goroutines that unsubscribe
    ClosesOf,    \* the handler each of them unsubscribes
    Event,       \* the events published, each once: identity |-> event
    Foreign,     \* messages other programs publish: identity |-> message
    Scenarios    \* what is explored: [medium, subs, closers, events, maxOutages]

ASSUME BusAssumption ==
    /\ \A s \in Scenarios :
         /\ s.medium \in {"local", "redis"} /\ s.subs \subseteq Sub
         /\ s.closers \subseteq Closer
         /\ s.events \subseteq DOMAIN Event /\ s.maxOutages \in Nat
         /\ \A c \in s.closers : ClosesOf[c] \in s.subs
    /\ ClosesOf \in [Closer -> Sub]
    /\ DOMAIN Event \cap DOMAIN Foreign = {}
    /\ \A e, f \in DOMAIN Event : Event[e] = Event[f] => e = f
    /\ \A e \in DOMAIN Event : \* a bus.Event
         Event[e] = [Namespace |-> Event[e].Namespace, Kind |-> Event[e].Kind,
                     Name |-> Event[e].Name]

EventId == DOMAIN Event

VARIABLES
    scenario,  \* the one explored, chosen once
    sub,       \* each handler: "new", "asking" (in Subscribe) or "on"
    once,      \* the sync.Once of its unsubscribe function
    closer,    \* each goroutine: "idle", "running", "blocked" or "returned"
    timedOut,  \* handlers whose unsubscribe gave up waiting
    heard,     \* the events each handler was called with
    published, \* what has been published
    due,       \* ghost: who must hear each event published
    gone,      \* ghost: who was unsubscribed when it was published
    \* Local
    next,      \* the next id
    subs,      \* the handler under each id
    id,        \* the id each handler was given
    todo,      \* the handlers the Publish of each event has yet to call
    \* Redis
    up,        \* Redis can be reached
    outages,   \* how often it could not be
    reg,       \* handlers whose subscription the server holds
    steady,    \* ghost: told so by Subscribe, and no outage since
    queue,     \* messages on their way to each handler
    ps,        \* each PubSub: "open", "closing" or "closed"
    loop       \* its goroutine: "off", "ready", "handling" or "ended"

localVars == <<next, subs, id, todo>>
redisVars == <<up, outages, reg, steady, queue, ps, loop>>
unsubVars == <<once, closer, timedOut>>
eventVars == <<published, due, gone>>
vars == <<scenario, sub, heard, unsubVars, eventVars, localVars, redisVars>>

Local == scenario.medium = "local"
Redis == scenario.medium = "redis"

Init ==
    /\ scenario \in Scenarios
    /\ sub = [s \in Sub |-> "new"]
    /\ once = [s \in Sub |-> "unused"]
    /\ closer = [c \in Closer |-> "idle"]
    /\ timedOut = {}
    /\ heard = [s \in Sub |-> {}]
    /\ published = {}
    /\ due = [e \in EventId |-> {}]
    /\ gone = [e \in EventId |-> {}]
    /\ next = 0
    /\ subs = << >>
    /\ id = [s \in Sub |-> 0]
    /\ todo = [e \in EventId |-> {}]
    /\ up \in {TRUE, Local} /\ outages = 0
    /\ reg = {} /\ steady = {}
    /\ queue = [s \in Sub |-> << >>]
    /\ ps = [s \in Sub |-> "open"]
    /\ loop = [s \in Sub |-> "off"]

(* Some call of the unsubscribe function of s has returned, and not by     *)
(* giving up.                                                              *)
Unsubscribed(s) ==
    /\ s \notin timedOut
    /\ \E c \in Closer : ClosesOf[c] = s /\ closer[c] = "returned"

(* What a Publish of e notes: it is due to those of listening whose        *)
(* unsubscribe function nobody has called.                                 *)
Note(e, listening) ==
    /\ e \in scenario.events \ published
    /\ published' = published \union {e}
    /\ due' = [due EXCEPT ![e] = {s \in listening : once[s] = "unused"}]
    /\ gone' = [gone EXCEPT ![e] = {s \in Sub : Unsubscribed(s)}]

Hear(s, e) == heard' = [heard EXCEPT ![s] = @ \union {e}]

-----------------------------------------------------------------------------
(* Local.                                                                  *)

AddLocal(s, i, n) ==
    /\ Local /\ s \in scenario.subs /\ sub[s] = "new"
    /\ sub' = [sub EXCEPT ![s] = "on"]
    /\ id' = [id EXCEPT ![s] = i] /\ next' = n
    /\ subs' = [j \in DOMAIN subs \union {i} |-> IF j = i THEN s ELSE subs[j]]
    /\ UNCHANGED <<scenario, heard, unsubVars, eventVars, todo, redisVars>>

(* Faults: the next id is not advanced; the id is the number of handlers.  *)
SubscribeLocalSameId(s) == AddLocal(s, next, next)
SubscribeLocalByCount(s) == AddLocal(s, Cardinality(DOMAIN subs), next + 1)

SubscribeLocal(s) == AddLocal(s, next, next + 1)

(* The handlers are copied under the read lock and called after it.  A     *)
(* context already done publishes nothing.                                 *)
PublishLocal(e) ==
    /\ Local
    /\ Note(e, {s \in Sub : sub[s] = "on"})
    /\ todo' = [todo EXCEPT ![e] = Range(subs)]
    /\ UNCHANGED <<scenario, sub, heard, unsubVars, next, subs, id, redisVars>>

CallHandler(e, s) ==
    /\ s \in todo[e]
    /\ Hear(s, Event[e])
    /\ todo' = [todo EXCEPT ![e] = @ \ {s}]
    /\ UNCHANGED <<scenario, sub, unsubVars, eventVars, next, subs, id, redisVars>>

-----------------------------------------------------------------------------
(* The unsubscribe functions.  sync.Once: the first call runs, and any     *)
(* other waits for it to finish.                                           *)

CallUnsubscribe(c, second) ==
    LET s == ClosesOf[c]
        first == once[s] = "unused" IN
    /\ c \in scenario.closers /\ closer[c] = "idle" /\ sub[s] = "on"
    /\ closer' = [closer EXCEPT ![c] = IF first THEN "running"
                                       ELSE IF once[s] = "running" THEN second
                                       ELSE "returned"]
    /\ once' = [once EXCEPT ![s] = IF first THEN "running" ELSE @]
    /\ ps' = [ps EXCEPT ![s] = IF Redis /\ first THEN "closing" ELSE @]
    /\ UNCHANGED <<scenario, sub, heard, timedOut, eventVars, localVars,
                   up, outages, reg, steady, queue, loop>>

(* Fault: a flag in place of sync.Once, so a second caller does not wait.  *)
BeginUnsubscribeByFlag(c) == CallUnsubscribe(c, "returned")

BeginUnsubscribe(c) == CallUnsubscribe(c, "blocked")

Finish(c) ==
    /\ closer[c] = "running"
    /\ closer' = [closer EXCEPT ![c] = "returned"]
    /\ once' = [once EXCEPT ![ClosesOf[c]] = "done"]

RemoveLocal(c) ==
    /\ Local /\ Finish(c)
    /\ subs' = Restrict(subs, DOMAIN subs \ {id[ClosesOf[c]]})
    /\ UNCHANGED <<scenario, sub, heard, timedOut, eventVars, next, id, todo,
                   redisVars>>

Unblock(c) ==
    /\ closer[c] = "blocked" /\ once[ClosesOf[c]] = "done"
    /\ closer' = [closer EXCEPT ![c] = "returned"]
    /\ UNCHANGED <<scenario, sub, heard, once, timedOut, eventVars, localVars,
                   redisVars>>

(* Redis: ps.Close has returned and the loop has ended, or the timer fires *)
(* first.                                                                  *)
Stopped(c) ==
    /\ Redis /\ loop[ClosesOf[c]] = "ended"
    /\ Finish(c)
    /\ UNCHANGED <<scenario, sub, heard, timedOut, eventVars, localVars, redisVars>>

(* Fault: unsubscribe only waits for ps.Close and the loop.                *)
TimerNeverFires(c) == closer[c] = "timer" /\ UNCHANGED vars

TimerFires(c) ==
    /\ Redis /\ Finish(c)
    /\ timedOut' = timedOut \union {ClosesOf[c]}
    /\ UNCHANGED <<scenario, sub, heard, eventVars, localVars, redisVars>>

-----------------------------------------------------------------------------
(* Redis, and go-redis on this side of it.  An outage breaks every         *)
(* connection: the server forgets the subscriptions, and what it had sent  *)
(* is lost unless it has already been read.                                *)

Outage ==
    /\ Redis /\ up /\ outages < scenario.maxOutages
    /\ up' = FALSE /\ outages' = outages + 1
    /\ reg' = {} /\ steady' = {}
    /\ \E lost \in SUBSET Sub :
         queue' = [s \in Sub |-> IF s \in lost THEN << >> ELSE queue[s]]
    /\ UNCHANGED <<scenario, sub, heard, unsubVars, eventVars, localVars, ps, loop>>

Recover ==
    /\ Redis /\ ~up /\ up' = TRUE
    /\ UNCHANGED <<scenario, sub, heard, unsubVars, eventVars, localVars,
                   outages, reg, steady, queue, ps, loop>>

(* SUBSCRIBE reaches the server: sent by Subscribe, or by go-redis once it *)
(* has redialled, even under a Close that waits for it.                    *)
Register(s) ==
    /\ Redis /\ up /\ sub[s] # "new" /\ ps[s] # "closed" /\ s \notin reg
    /\ reg' = reg \union {s}
    /\ UNCHANGED <<scenario, sub, heard, unsubVars, eventVars, localVars,
                   up, outages, steady, queue, ps, loop>>

(* ps.Close goes through.  What the channel had buffered is still read.    *)
PubSubCloses(s) ==
    /\ ps[s] = "closing" /\ ps' = [ps EXCEPT ![s] = "closed"]
    /\ reg' = reg \ {s} /\ steady' = steady \ {s}
    /\ \E kept \in Prefixes(queue[s]) : queue' = [queue EXCEPT ![s] = kept]
    /\ UNCHANGED <<scenario, sub, heard, unsubVars, eventVars, localVars,
                   up, outages, loop>>

-----------------------------------------------------------------------------
(* Subscribe over Redis: it waits, as long as its deadline lets it, for    *)
(* the confirmation, and starts the goroutine either way.                  *)

AskRedis(s) ==
    /\ Redis /\ s \in scenario.subs /\ sub[s] = "new"
    /\ sub' = [sub EXCEPT ![s] = "asking"]
    /\ UNCHANGED <<scenario, heard, unsubVars, eventVars, localVars, redisVars>>

StartLoop(s) ==
    /\ sub[s] = "asking" /\ sub' = [sub EXCEPT ![s] = "on"]
    /\ loop' = [loop EXCEPT ![s] = "ready"]
    /\ UNCHANGED <<scenario, heard, unsubVars, eventVars, localVars,
                   up, outages, queue>>

(* Faults: Subscribe does not wait for the confirmation; an unreachable    *)
(* Redis is an error, and the PubSub is closed.                            *)
ConfirmedUnasked(s) ==
    /\ StartLoop(s) /\ steady' = steady \union {s} /\ UNCHANGED <<reg, ps>>
NotConfirmedGivesUp(s) ==
    /\ StartLoop(s) /\ ps' = [ps EXCEPT ![s] = "closed"]
    /\ reg' = reg \ {s} /\ UNCHANGED steady

Confirmed(s) ==
    /\ s \in reg /\ StartLoop(s)
    /\ steady' = steady \union {s} /\ UNCHANGED <<reg, ps>>

NotConfirmed(s) == StartLoop(s) /\ UNCHANGED <<reg, steady, ps>>

(* PUBLISH, executed by the server for whoever is subscribed there.        *)
Send(m) == queue' = [s \in Sub |-> IF s \in reg THEN Append(queue[s], m)
                                               ELSE queue[s]]

PublishRedis(e) ==
    /\ Redis /\ up /\ Encode(Event[e]) # Refused
    /\ Note(e, steady) /\ Send(Encode(Event[e]))
    /\ UNCHANGED <<scenario, sub, heard, unsubVars, localVars,
                   up, outages, reg, steady, ps, loop>>

PublishForeign(f) ==
    /\ Redis /\ up /\ f \notin published
    /\ published' = published \union {f} /\ Send(Foreign[f])
    /\ UNCHANGED <<scenario, sub, heard, unsubVars, due, gone, localVars,
                   up, outages, reg, steady, ps, loop>>

(* The goroutine: it takes a message, passes over one that is no event,    *)
(* and is in the handler until that returns.                               *)
Take(s, afterMalformed) ==
    /\ loop[s] = "ready" /\ queue[s] # << >>
    /\ queue' = [queue EXCEPT ![s] = Tail(@)]
    /\ LET e == Decode(Head(queue[s])) IN
       IF e = Refused
         THEN loop' = [loop EXCEPT ![s] = afterMalformed] /\ UNCHANGED heard
         ELSE Hear(s, e) /\ loop' = [loop EXCEPT ![s] = "handling"]
    /\ UNCHANGED <<scenario, sub, unsubVars, eventVars, localVars,
                   up, outages, reg, steady, ps>>

(* Fault: the goroutine ends at a message that is no event.                *)
ReceiveOrEnd(s) == Take(s, "ended")

Receive(s) == Take(s, "ready")

HandlerReturns(s) ==
    /\ loop[s] = "handling" /\ loop' = [loop EXCEPT ![s] = "ready"]
    /\ UNCHANGED <<scenario, sub, heard, unsubVars, eventVars, localVars,
                   up, outages, reg, steady, queue, ps>>

LoopEnds(s) ==
    /\ loop[s] = "ready" /\ ps[s] = "closed" /\ queue[s] = << >>
    /\ loop' = [loop EXCEPT ![s] = "ended"]
    /\ UNCHANGED <<scenario, sub, heard, unsubVars, eventVars, localVars,
                   up, outages, reg, steady, queue, ps>>

-----------------------------------------------------------------------------
Goroutine(s) == Receive(s) \/ HandlerReturns(s) \/ LoopEnds(s)
Unsubscribe(c) == RemoveLocal(c) \/ Unblock(c) \/ Stopped(c) \/ TimerFires(c)

Next ==
    \/ \E s \in Sub :
         \/ SubscribeLocal(s) \/ AskRedis(s) \/ Confirmed(s) \/ NotConfirmed(s)
         \/ Register(s) \/ PubSubCloses(s) \/ Goroutine(s)
    \/ \E e \in EventId :
         \/ PublishLocal(e) \/ PublishRedis(e)
         \/ \E s \in Sub : CallHandler(e, s)
    \/ \E f \in DOMAIN Foreign : PublishForeign(f)
    \/ \E c \in Closer : BeginUnsubscribe(c) \/ Unsubscribe(c)
    \/ Outage \/ Recover

(* Goroutines run, handlers return (bus.Handler must not block for long),  *)
(* timers and deadlines fire, and go-redis resubscribes once it can.       *)
(* Nothing says that ps.Close returns.                                     *)
Fairness ==
    /\ \A s \in Sub :
         /\ WF_vars(Goroutine(s))
         /\ WF_vars(Confirmed(s) \/ NotConfirmed(s))
         /\ WF_vars(Register(s))
         /\ \A e \in EventId : WF_vars(CallHandler(e, s))
    /\ \A c \in Closer : WF_vars(Unsubscribe(c))

Spec == Init /\ [][Next]_vars /\ Fairness

-----------------------------------------------------------------------------
(* Everything has its type.  Local hands each id out once, holds handlers  *)
(* under ids already given (Local.Subscribe), and calls them with what was *)
(* published and nothing else; over Redis a handler hears well-formed      *)
(* events only, whatever other programs publish (RS-07), and the server    *)
(* knows no subscription of a PubSub that is closed.                       *)
TypeOK ==
    /\ scenario \in Scenarios
    /\ sub \in [Sub -> {"new", "asking", "on"}]
    /\ once \in [Sub -> {"unused", "running", "done"}]
    /\ closer \in [Closer -> {"idle", "running", "blocked", "returned"}]
    /\ timedOut \subseteq Sub
    /\ Redis => \A s \in Sub : \A e \in heard[s] : check(e)
    /\ Local => \A s \in Sub : heard[s] \subseteq {Event[e] : e \in published}
    /\ published \subseteq EventId \union (IF Redis THEN DOMAIN Foreign ELSE {})
    /\ due \in [EventId -> SUBSET Sub] /\ gone \in [EventId -> SUBSET Sub]
    /\ next \in Nat /\ id \in [Sub -> 0..next]
    /\ \A s, t \in Sub :
         Local /\ sub[s] = "on" /\ sub[t] = "on" /\ id[s] = id[t] => s = t
    /\ DOMAIN subs \subseteq 0..(next - 1) /\ Range(subs) \subseteq Sub
    /\ todo \in [EventId -> SUBSET Sub]
    /\ up \in BOOLEAN /\ outages \in 0..scenario.maxOutages
    /\ steady \subseteq Sub /\ reg \subseteq {s \in Sub : ps[s] # "closed"}
    /\ ps \in [Sub -> {"open", "closing", "closed"}]
    /\ loop \in [Sub -> {"off", "ready", "handling", "ended"}]

(* A handler is left alone once an unsubscribe function has returned,      *)
(* whichever of several concurrent callers it returned to (bus.Bus;        *)
(* redisstore/bus.go, #121).  Over Redis its goroutine has ended, unless   *)
(* unsubscribe gave up waiting for go-redis; Local may still be calling it *)
(* with what was published before, and with nothing else.                  *)
UnsubscribedIsSilent ==
    \A s \in Sub :
      /\ Redis /\ Unsubscribed(s) => loop[s] = "ended"
      /\ Local => \A e \in EventId : s \in gone[e] => Event[e] \notin heard[s]

(* A message this bus delivers: over Redis it must fit in what Decode      *)
(* accepts, which Encode does not see to.                                  *)
Carried(e) == Local \/ Decode(Encode(Event[e])) # Refused

(* What is due to a handler is not lost on its way: Local is still to call *)
(* the handler with it, whichever came and went before (Local.Subscribe);  *)
(* over Redis it is among the messages its goroutine has yet to read, as   *)
(* long as no outage took the subscription that was confirmed and nobody   *)
(* unsubscribed it (redisstore Bus.Subscribe).                             *)
DueIsOnItsWay ==
    \A s \in Sub : \A e \in EventId :
      s \in due[e] /\ Carried(e) =>
        \/ Event[e] \in heard[s]
        \/ Local /\ s \in todo[e]
        \/ Redis /\ (\/ s \notin steady \/ once[s] # "unused"
                     \/ Encode(Event[e]) \in Range(queue[s]))

(* What is published after Subscribe returned is heard, whatever precedes  *)
(* it: by every handler Local still has, however many came and went before *)
(* (Local.Subscribe), and over Redis by every one whose subscription was   *)
(* confirmed, unless an outage or its unsubscription comes first           *)
(* (redisstore Bus.Subscribe: a malformed message is dropped and the       *)
(* subscription goes on).                                                  *)
DueIsHeard ==
    \A s \in Sub : \A e \in EventId :
      (s \in due[e] /\ Carried(e))
        ~> (\/ Event[e] \in heard[s]
            \/ Redis /\ (s \notin steady \/ once[s] # "unused"))

(* Neither Subscribe nor any of several concurrent calls of an unsubscribe *)
(* function, hence of Cache.Close, waits for ever, even when Redis cannot  *)
(* be reached and ps.Close never returns (#117, #137).                     *)
CallsReturn ==
    /\ \A s \in Sub :
         sub[s] = "asking" ~> sub[s] = "on"
    /\ \A c \in Closer :
         closer[c] \in {"running", "blocked"}
           ~> (closer[c] = "returned")

(* A subscription made while Redis could not be reached starts delivering  *)
(* when it is back (bus.Bus.Subscribe, ADR-0006, #117).                    *)
StartsDelivering ==
    \A s \in Sub :
      (Redis /\ sub[s] = "on" /\ up)
        ~> (s \in reg \/ ~up \/ once[s] # "unused")
==============================================================================
