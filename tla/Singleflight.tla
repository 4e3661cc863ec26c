----------------------------- MODULE Singleflight -----------------------------
(***************************************************************************)
(* internal/singleflight: Group.Do, as GetOrLoad of cache.go calls it.     *)
(*                                                                         *)
(* A call is a load in flight, run by a goroutine of its own on a context  *)
(* detached from every caller.  Callers of one key wait on the same call;  *)
(* each leaves when the load is done, when its own context is, or when the *)
(* load's context is.  Group.mu guards the map and the waiting counts;     *)
(* every action below is one critical section, one channel operation or    *)
(* one step of the loader.                                                 *)
(***************************************************************************)
EXTENDS Naturals, FiniteSets

CONSTANTS Key,       \* flight keys
          Caller,    \* goroutines that call Do
          None,      \* no flight, no key
          MaxCalls   \* bound: loads started in a behaviour

ASSUME CallAssumption ==
    MaxCalls \in Nat /\ None \notin 1..MaxCalls /\ None \notin Key

CallId == 1..MaxCalls

(* A goroutine that runs a load: about to call fn or in it, fn returned or *)
(* panicked, done closed, key forgotten, context cancelled.                *)
Stages == {"unborn", "running", "returned", "closed", "forgotten", "ended"}

(* What fn leaves: a value or an error, which Do returns as they are, or a *)
(* panic, which result raises again in the caller.                         *)
Outcomes == {"result", "panic"}

VARIABLES
    calls,     \* Group.calls: the flight of each key
    started,   \* how many calls have been made
    keyOf,     \* the key each call is for
    stage,     \* where its goroutine is
    done,      \* call.done is closed
    expired,   \* call.expired is closed
    timedOut,  \* ghost: it was closed by the deadline
    outcome,   \* call.val, call.err or call.panic
    waiting,   \* call.waiting
    pc,        \* what each caller does next
    on,        \* the call it waits on
    got        \* what Do gave it

callVars == <<keyOf, stage, done, expired, timedOut, outcome>>
callerVars == <<pc, on, got>>
vars == <<calls, started, keyOf, stage, done, expired, timedOut, outcome,
          waiting, pc, on, got>>

Init ==
    /\ calls = [k \in Key |-> None]
    /\ started = 0
    /\ keyOf = [c \in CallId |-> None]
    /\ stage = [c \in CallId |-> "unborn"]
    /\ done = [c \in CallId |-> FALSE]
    /\ expired = [c \in CallId |-> FALSE]
    /\ timedOut = [c \in CallId |-> FALSE]
    /\ outcome = [c \in CallId |-> "none"]
    /\ waiting = [c \in CallId |-> 0]
    /\ pc = [p \in Caller |-> "idle"]
    /\ on = [p \in Caller |-> None]
    /\ got = [p \in Caller |-> "none"]

(* The caller has found its call and waits on it.                          *)
WaitOn(p, c) ==
    /\ waiting' = [waiting EXCEPT ![c] = @ + 1]
    /\ on' = [on EXCEPT ![p] = c]
    /\ got' = [got EXCEPT ![p] = "none"]
    /\ pc' = [pc EXCEPT ![p] = "waiting"]

(* The flight of k, unless its load has timed out.                         *)
Joinable(k) == /\ calls[k] # None
               /\ ~expired[calls[k]]

Join(p, k) ==
    /\ pc[p] \in {"idle", "returned"}
    /\ Joinable(k)
    /\ WaitOn(p, calls[k])
    /\ UNCHANGED <<calls, started, callVars>>

Start(p, k) ==
    /\ pc[p] \in {"idle", "returned"}
    /\ ~Joinable(k)
    /\ started < MaxCalls
    /\ LET c == started + 1 IN
         /\ started' = c
         /\ keyOf' = [keyOf EXCEPT ![c] = k]
         /\ calls' = [calls EXCEPT ![k] = c]
         /\ stage' = [stage EXCEPT ![c] = "running"]
         /\ WaitOn(p, c)
    /\ UNCHANGED <<done, expired, timedOut, outcome>>

-----------------------------------------------------------------------------
(* run: the load's goroutine, and the deferred steps after fn.             *)
MoveTo(c, from, to) ==
    /\ stage[c] = from
    /\ stage' = [stage EXCEPT ![c] = to]

(* fn returns or panics; it may as well never do so.                       *)
FnReturns(c) ==
    /\ MoveTo(c, "running", "returned")
    /\ \E o \in Outcomes : outcome' = [outcome EXCEPT ![c] = o]
    /\ UNCHANGED <<calls, started, keyOf, done, expired, timedOut, waiting,
                   callerVars>>

CloseDone(c) ==
    /\ MoveTo(c, "returned", "closed")
    /\ done' = [done EXCEPT ![c] = TRUE]
    /\ UNCHANGED <<calls, started, keyOf, expired, timedOut, outcome, waiting,
                   callerVars>>

(* Fault: the key is forgotten whichever flight it holds by now.           *)
ForgetAny(c) ==
    /\ MoveTo(c, "closed", "forgotten")
    /\ calls' = [calls EXCEPT ![keyOf[c]] = None]
    /\ UNCHANGED <<started, keyOf, done, expired, timedOut, outcome, waiting,
                   callerVars>>

forget(c) ==
    /\ MoveTo(c, "closed", "forgotten")
    /\ calls' = [calls EXCEPT ![keyOf[c]] = IF @ = c THEN None ELSE @]
    /\ UNCHANGED <<started, keyOf, done, expired, timedOut, outcome, waiting,
                   callerVars>>

(* Fault: the context is cancelled before done is closed.                  *)
CancelFirst(c) ==
    /\ stage[c] = "returned"
    /\ expired' = [expired EXCEPT ![c] = TRUE]
    /\ UNCHANGED <<calls, started, keyOf, stage, done, timedOut, outcome,
                   waiting, callerVars>>

Cancel(c) ==
    /\ MoveTo(c, "forgotten", "ended")
    /\ expired' = [expired EXCEPT ![c] = TRUE]
    /\ UNCHANGED <<calls, started, keyOf, done, timedOut, outcome, waiting,
                   callerVars>>

(* The load timeout passes.                                                *)
Deadline(c) ==
    /\ stage[c] \notin {"unborn", "ended"}
    /\ ~expired[c]
    /\ expired' = [expired EXCEPT ![c] = TRUE]
    /\ timedOut' = [timedOut EXCEPT ![c] = TRUE]
    /\ UNCHANGED <<calls, started, keyOf, stage, done, outcome, waiting,
                   callerVars>>

-----------------------------------------------------------------------------
(* The caller's select.                                                    *)
Receive(p, o) ==
    /\ got' = [got EXCEPT ![p] = o]
    /\ pc' = [pc EXCEPT ![p] = "leaving"]
    /\ UNCHANGED <<calls, started, callVars, waiting, on>>

SelectDone(p) ==
    /\ pc[p] = "waiting"
    /\ done[on[p]]
    /\ Receive(p, outcome[on[p]])

(* The caller's own context is done, which may happen at any moment.       *)
SelectCtx(p) ==
    /\ pc[p] = "waiting"
    /\ Receive(p, "cancelled")

(* Fault: the select has no case for the load's own timeout.               *)
SelectExpiredNever(p) == FALSE /\ UNCHANGED vars

SelectExpired(p) ==
    /\ pc[p] = "waiting"
    /\ expired[on[p]]
    /\ pc' = [pc EXCEPT ![p] = "expired"]
    /\ UNCHANGED <<calls, started, callVars, waiting, on, got>>

(* The inner select prefers a result that is already there.                *)
CheckDone(p) ==
    /\ pc[p] = "expired"
    /\ Receive(p, IF done[on[p]] THEN outcome[on[p]] ELSE "timeout")

(* Fault: only a caller that was given a result is uncounted.              *)
LeaveCounted(p) ==
    /\ pc[p] = "leaving"
    /\ waiting' = [waiting EXCEPT ![on[p]] =
                     IF got[p] \in Outcomes THEN @ - 1 ELSE @]
    /\ pc' = [pc EXCEPT ![p] = "returned"]
    /\ UNCHANGED <<calls, started, callVars, on, got>>

(* Fault: a caller is uncounted as it receives and again as it returns.    *)
LeaveTwice(p) ==
    /\ pc[p] = "leaving"
    /\ waiting' = [waiting EXCEPT ![on[p]] = @ - 2]
    /\ pc' = [pc EXCEPT ![p] = "returned"]
    /\ UNCHANGED <<calls, started, callVars, on, got>>

(* The deferred decrement; Do returns.                                     *)
Leave(p) ==
    /\ pc[p] = "leaving"
    /\ waiting' = [waiting EXCEPT ![on[p]] = @ - 1]
    /\ pc' = [pc EXCEPT ![p] = "returned"]
    /\ UNCHANGED <<calls, started, callVars, on, got>>

(* What a caller does without its context's help.                          *)
CallerStep(p) == SelectDone(p) \/ SelectExpired(p) \/ CheckDone(p) \/ Leave(p)

Next ==
    \/ \E p \in Caller, k \in Key : Join(p, k) \/ Start(p, k)
    \/ \E c \in CallId : FnReturns(c) \/ CloseDone(c) \/ forget(c)
                           \/ Cancel(c) \/ Deadline(c)
    \/ \E p \in Caller : SelectCtx(p)
    \/ \E p \in Caller : CallerStep(p)

(* A timer fires and a runnable goroutine runs; nothing makes a loader     *)
(* return or a caller give up.                                             *)
Fairness ==
    /\ \A c \in CallId : WF_vars(Deadline(c))
    /\ \A p \in Caller : WF_vars(CallerStep(p))

Spec == Init /\ [][Next]_vars

FairSpec == Spec /\ Fairness

-----------------------------------------------------------------------------
TypeOK ==
    /\ calls \in [Key -> CallId \cup {None}]
    /\ started \in 0..MaxCalls
    /\ keyOf \in [CallId -> Key \cup {None}]
    /\ stage \in [CallId -> Stages]
    /\ done \in [CallId -> BOOLEAN]
    /\ expired \in [CallId -> BOOLEAN]
    /\ timedOut \in [CallId -> BOOLEAN]
    /\ outcome \in [CallId -> Outcomes \cup {"none"}]
    /\ waiting \in [CallId -> Nat]
    /\ pc \in [Caller -> {"idle", "waiting", "expired", "leaving", "returned"}]
    /\ on \in [Caller -> CallId \cup {None}]
    /\ got \in [Caller -> Outcomes \cup {"none", "cancelled", "timeout"}]

Loading(c) == stage[c] \in {"running", "returned"}

(* RF-05 and Do's comment, "calling it at most once among concurrent       *)
(* callers of the same key": of two loads of one key under way at once,    *)
(* the older has timed out.  A load that outlives its timeout must not,    *)
(* when it returns at last, forget the flight that replaced it.            *)
SingleLoad ==
    \A c, d \in CallId :
      c < d /\ keyOf[c] = keyOf[d] /\ Loading(c) /\ Loading(d) => timedOut[c]

(* A caller is told of a timeout only when its load's deadline passed, not *)
(* because the load's context also ends when the load returns (the comment *)
(* in run: "a waiter woken by the cancellation always finds the result     *)
(* already in place").                                                     *)
TimeoutIsGenuine ==
    \A p \in Caller : got[p] = "timeout" => timedOut[on[p]]

(* call.waiting, which Waiting reports, counts exactly the callers between *)
(* the two lock sections of Do, whichever way each of them leaves.         *)
WaitingCounts ==
    \A c \in CallId :
      waiting[c] = Cardinality({p \in Caller :
                     pc[p] \in {"waiting", "expired", "leaving"} /\ on[p] = c})

(* ADR-0007: each caller returns, even when a loader hangs for ever and no *)
(* caller's own context is ever done.                                      *)
CallersReturn ==
    \A p \in Caller : pc[p] = "waiting" ~> pc[p] = "returned"
==============================================================================
