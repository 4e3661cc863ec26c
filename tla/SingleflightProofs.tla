-------------------------- MODULE SingleflightProofs --------------------------
(***************************************************************************)
(* Proofs about Singleflight, for every number of keys, callers and loads: *)
(* at most one load of a key that has not timed out is under way, and a    *)
(* caller is told of a timeout only when there was one.                    *)
(***************************************************************************)
EXTENDS Singleflight, FiniteSetTheorems, TLAPS

(* The types of the calls; the callers' state plays no part in SingleLoad. *)
Typed ==
    /\ calls \in [Key -> CallId \cup {None}]
    /\ started \in 0..MaxCalls
    /\ keyOf \in [CallId -> Key \cup {None}]
    /\ stage \in [CallId -> Stages]
    /\ done \in [CallId -> BOOLEAN]
    /\ expired \in [CallId -> BOOLEAN]
    /\ timedOut \in [CallId -> BOOLEAN]
    /\ outcome \in [CallId -> Outcomes \cup {"none"}]

(* Calls are made in order, each for a key.                                *)
Ordered ==
    \A c \in CallId :
      /\ stage[c] # "unborn" <=> c <= started
      /\ c <= started => keyOf[c] \in Key

(* A load's context ends before the goroutine's last step only by its      *)
(* deadline.                                                               *)
ExpiredMeansTimedOut ==
    \A c \in CallId : expired[c] /\ stage[c] # "ended" => timedOut[c]

(* A load that has not timed out is the flight of its key.                 *)
Registered ==
    \A c \in CallId :
      Loading(c) /\ ~timedOut[c] => calls[keyOf[c]] = c

(* A load that another one of its key has followed has timed out.          *)
Followed ==
    \A c, d \in CallId :
      c < d /\ d <= started /\ keyOf[c] = keyOf[d] /\ Loading(c) => timedOut[c]

(* The inductive invariant behind SingleLoad.                              *)
LoadInv == Typed /\ Ordered /\ ExpiredMeansTimedOut /\ Registered /\ Followed

(* Nothing has been started: LoadInv holds at first.                       *)
LEMMA InitLoad == Init => LoadInv
  BY CallAssumption
     DEF Init, LoadInv, Typed, Ordered, ExpiredMeansTimedOut, Registered,
         Followed, Loading, CallId, Stages, Outcomes

(* Every step keeps LoadInv: only Start makes a load, and it finds the key *)
(* free or its flight timed out; only the flight a key still holds is      *)
(* forgotten.                                                              *)
LEMMA StepLoad == LoadInv /\ [Next]_vars => LoadInv'
<1> SUFFICES ASSUME LoadInv, [Next]_vars PROVE LoadInv'
  OBVIOUS
<1> USE DEF LoadInv
<1>1. ASSUME NEW p \in Caller, NEW k \in Key, Join(p, k) PROVE LoadInv'
  <2>1. calls[k] \in CallId
    BY <1>1 DEF Join, Joinable, Typed
  <2> QED
    BY <1>1, <2>1 DEF Join, WaitOn, callVars, Typed, Ordered,
                      ExpiredMeansTimedOut, Registered, Followed, Loading
<1>2. ASSUME NEW p \in Caller, NEW k \in Key, Start(p, k) PROVE LoadInv'
  <2> DEFINE n == started + 1
  <2>1. /\ n \in CallId /\ started \in Nat /\ started' = n
        /\ keyOf' = [keyOf EXCEPT ![n] = k]
        /\ calls' = [calls EXCEPT ![k] = n]
        /\ stage' = [stage EXCEPT ![n] = "running"]
        /\ UNCHANGED <<done, expired, timedOut, outcome>>
    BY <1>2, CallAssumption DEF Start, Typed, CallId
  <2>2. Typed'
    BY <1>2, <2>1 DEF Start, WaitOn, Typed, Stages, CallId
  <2>3. Ordered'
    BY <2>1 DEF Ordered, Typed, CallId
  <2>4. ExpiredMeansTimedOut'
    <3>1. stage[n] = "unborn"
      BY <2>1 DEF Ordered, Typed
    <3> QED
      BY <2>1, <3>1 DEF ExpiredMeansTimedOut, Typed
  <2>5. ASSUME NEW c \in CallId, c # n, keyOf[c] = k, Loading(c)
        PROVE  timedOut[c]
    <3>1. SUFFICES ASSUME ~timedOut[c] PROVE FALSE
      BY DEF Typed
    <3>2. calls[k] = c
      BY <2>5, <3>1 DEF Registered
    <3>3. ~expired[c]
      BY <2>5, <3>1 DEF ExpiredMeansTimedOut, Loading
    <3> QED
      BY <1>2, <3>2, <3>3, CallAssumption DEF Start, Joinable, CallId
  <2>6. \A c \in CallId : c # n => (Loading(c)' <=> Loading(c))
                                   /\ keyOf'[c] = keyOf[c]
    BY <2>1 DEF Loading, Typed
  <2>7. Registered'
    <3> SUFFICES ASSUME NEW c \in CallId, Loading(c)', ~timedOut[c]
                 PROVE  calls'[keyOf'[c]] = c
      BY <2>1 DEF Registered
    <3>1. CASE c = n
      BY <2>1, <3>1 DEF Typed
    <3>2. CASE c # n
      <4>1. Loading(c) /\ keyOf'[c] = keyOf[c] /\ keyOf[c] # k
        BY <2>5, <2>6, <3>2
      <4>2. keyOf[c] \in Key
        BY <4>1 DEF Ordered, Loading
      <4> QED
        BY <2>1, <4>1, <4>2 DEF Registered, Typed
    <3> QED
      BY <3>1, <3>2
  <2>8. Followed'
    <3> SUFFICES ASSUME NEW c \in CallId, NEW d \in CallId, c < d, d <= n,
                        keyOf'[c] = keyOf'[d], Loading(c)'
                 PROVE  timedOut[c]
      BY <2>1 DEF Followed
    <3>0. c # n
      BY <2>1 DEF CallId
    <3>1. CASE d = n
      BY <2>1, <2>5, <2>6, <3>0, <3>1 DEF Typed
    <3>2. CASE d # n
      BY <2>1, <2>6, <3>0, <3>2 DEF Followed, CallId
    <3> QED
      BY <3>1, <3>2
  <2> QED
    BY <2>2, <2>3, <2>4, <2>7, <2>8
<1>3. ASSUME NEW c \in CallId, FnReturns(c) PROVE LoadInv'
  BY <1>3 DEF FnReturns, MoveTo, Typed, Ordered,
              ExpiredMeansTimedOut, Registered, Followed, Loading, Stages
<1>4. ASSUME NEW c \in CallId, CloseDone(c) PROVE LoadInv'
  BY <1>4 DEF CloseDone, MoveTo, Typed, Ordered,
              ExpiredMeansTimedOut, Registered, Followed, Loading, Stages
<1>5. ASSUME NEW c \in CallId, forget(c) PROVE LoadInv'
  <2>1. /\ stage[c] = "closed" /\ stage' = [stage EXCEPT ![c] = "forgotten"]
        /\ calls' = [calls EXCEPT ![keyOf[c]] = IF @ = c THEN None ELSE @]
        /\ UNCHANGED <<started, keyOf, done, expired, timedOut, outcome>>
    BY <1>5 DEF forget, MoveTo
  <2>2. keyOf[c] \in Key
    BY <2>1 DEF Ordered
  <2>3. Typed'
    BY <2>1, <2>2 DEF Typed, Stages
  <2>4. \A d \in CallId : Loading(d)' <=> Loading(d)
    BY <2>1 DEF Loading, Typed
  <2>5. Registered'
    <3> SUFFICES ASSUME NEW d \in CallId, Loading(d), ~timedOut[d]
                 PROVE  calls'[keyOf[d]] = d
      BY <2>1, <2>4 DEF Registered
    <3>1. calls[keyOf[d]] = d /\ d # c /\ keyOf[d] \in Key
      BY <2>1 DEF Registered, Loading, Ordered
    <3> QED
      BY <2>1, <2>2, <3>1 DEF Typed
  <2> QED
    BY <2>1, <2>3, <2>4, <2>5 DEF Ordered, ExpiredMeansTimedOut, Followed,
                                  Typed
<1>6. ASSUME NEW c \in CallId, Cancel(c) PROVE LoadInv'
  BY <1>6 DEF Cancel, MoveTo, Typed, Ordered,
              ExpiredMeansTimedOut, Registered, Followed, Loading, Stages
<1>7. ASSUME NEW c \in CallId, Deadline(c) PROVE LoadInv'
  BY <1>7 DEF Deadline, Typed, Ordered, ExpiredMeansTimedOut,
              Registered, Followed, Loading, Stages
<1>8. ASSUME NEW p \in Caller, SelectCtx(p) \/ CallerStep(p)
      PROVE  LoadInv'
  <2>1. UNCHANGED <<calls, started, keyOf, stage, done, expired, timedOut,
                    outcome>>
    BY <1>8 DEF SelectCtx, CallerStep, SelectDone,
                SelectExpired, CheckDone, Leave, Receive, callVars
  <2> QED
    BY <2>1 DEF Typed, Ordered, ExpiredMeansTimedOut, Registered,
                Followed, Loading
<1>9. ASSUME UNCHANGED vars PROVE LoadInv'
  BY <1>9 DEF vars, Typed, Ordered, ExpiredMeansTimedOut, Registered,
               Followed, Loading
<1> QED
  BY <1>1, <1>2, <1>3, <1>4, <1>5, <1>6, <1>7, <1>8, <1>9 DEF Next

(* Two loads of one key are under way at once only if the older has timed  *)
(* out (RF-05), for every number of callers and loads.                     *)
THEOREM AtMostOneLoad == Spec => []SingleLoad
<1>1. LoadInv => SingleLoad
  BY DEF LoadInv, Followed, SingleLoad, Ordered, Loading
<1> QED
  BY <1>1, InitLoad, StepLoad, PTL DEF Spec

-----------------------------------------------------------------------------
(* done is closed as soon as the goroutine is past it.                     *)
DoneByStage ==
    \A c \in CallId : stage[c] \in {"closed", "forgotten", "ended"} => done[c]

(* A caller in Do has a call to wait on; one past the select's expired     *)
(* case saw that call expire; one told of a timeout waited on a load whose *)
(* deadline passed.                                                        *)
CallerInv ==
    /\ pc \in [Caller -> {"idle", "waiting", "expired", "leaving", "returned"}]
    /\ DOMAIN on = Caller
    /\ DOMAIN got = Caller
    /\ \A p \in Caller :
         /\ pc[p] \in {"waiting", "expired"} => on[p] \in CallId
         /\ pc[p] = "expired" => expired[on[p]]
         /\ pc[p] = "waiting" => got[p] = "none"
         /\ got[p] = "timeout" => on[p] \in CallId /\ timedOut[on[p]]

(* The inductive invariant behind TimeoutIsGenuine.                        *)
TimeoutInv == LoadInv /\ DoneByStage /\ CallerInv

(* done is closed exactly from the stage that closes it on.                *)
LEMMA StepDone == LoadInv /\ DoneByStage /\ [Next]_vars => DoneByStage'
<1> SUFFICES ASSUME LoadInv, DoneByStage, [Next]_vars PROVE DoneByStage'
  OBVIOUS
<1> USE DEF LoadInv, Typed, DoneByStage
<1>1. ASSUME NEW p \in Caller, NEW k \in Key, Join(p, k) \/ Start(p, k)
      PROVE  DoneByStage'
  BY <1>1 DEF Join, Start, callVars
<1>2. ASSUME NEW c \in CallId,
             FnReturns(c) \/ CloseDone(c) \/ forget(c)
               \/ Cancel(c) \/ Deadline(c)
      PROVE  DoneByStage'
  BY <1>2 DEF FnReturns, CloseDone, forget, Cancel, Deadline, MoveTo
<1>3. ASSUME NEW p \in Caller, SelectCtx(p) \/ CallerStep(p)
      PROVE  DoneByStage'
  BY <1>3 DEF SelectCtx, CallerStep, SelectDone,
              SelectExpired, CheckDone, Leave, Receive, callVars
<1>4. ASSUME UNCHANGED vars PROVE DoneByStage'
  BY <1>4 DEF vars
<1> QED
  BY <1>1, <1>2, <1>3, <1>4 DEF Next

(* What a load leaves is never mistaken for a timeout.                     *)
LEMMA OutcomeIsNoTimeout ==
    ASSUME LoadInv, NEW c \in CallId
    PROVE  outcome[c] # "timeout"
  BY DEF LoadInv, Typed, Outcomes

(* Every step keeps what is known of a caller that waits, that woke on the *)
(* load's context, or that was told of a timeout.                          *)
LEMMA StepCaller == TimeoutInv /\ [Next]_vars => CallerInv'
<1> SUFFICES ASSUME TimeoutInv, [Next]_vars PROVE CallerInv'
  OBVIOUS
<1> USE DEF TimeoutInv, LoadInv
<1>1. ASSUME NEW p \in Caller, NEW k \in Key, Join(p, k) PROVE CallerInv'
  <2>1. calls[k] \in CallId
    BY <1>1 DEF Join, Joinable, Typed
  <2> QED
    BY <1>1, <2>1 DEF Join, WaitOn, callVars, CallerInv
<1>2. ASSUME NEW p \in Caller, NEW k \in Key, Start(p, k) PROVE CallerInv'
  <2>1. started + 1 \in CallId
    BY <1>2, CallAssumption DEF Start, Typed, CallId
  <2> QED
    BY <1>2, <2>1 DEF Start, WaitOn, CallerInv
<1>3. ASSUME NEW c \in CallId,
             FnReturns(c) \/ CloseDone(c) \/ forget(c)
               \/ Cancel(c) \/ Deadline(c)
      PROVE  CallerInv'
  <2>1. /\ UNCHANGED callerVars
        /\ \A d \in CallId : /\ expired[d] => expired'[d]
                             /\ timedOut[d] => timedOut'[d]
    BY <1>3 DEF FnReturns, CloseDone, forget, Cancel, Deadline, Typed
  <2> QED
    BY <2>1 DEF callerVars, CallerInv
<1>4. ASSUME NEW p \in Caller, SelectDone(p) \/ SelectCtx(p) PROVE CallerInv'
  BY <1>4, OutcomeIsNoTimeout DEF SelectDone, SelectCtx, Receive, callVars,
                                  CallerInv
<1>5. ASSUME NEW p \in Caller, SelectExpired(p) PROVE CallerInv'
  BY <1>5 DEF SelectExpired, callVars, CallerInv
<1>6. ASSUME NEW p \in Caller, CheckDone(p) PROVE CallerInv'
  <2>1. on[p] \in CallId /\ expired[on[p]]
    BY <1>6 DEF CheckDone, CallerInv
  <2>2. ~done[on[p]] => timedOut[on[p]]
    BY <2>1 DEF DoneByStage, ExpiredMeansTimedOut
  <2> QED
    BY <1>6, <2>1, <2>2, OutcomeIsNoTimeout
       DEF CheckDone, Receive, callVars, CallerInv
<1>7. ASSUME NEW p \in Caller, Leave(p) PROVE CallerInv'
  BY <1>7 DEF Leave, callVars, CallerInv
<1>8. ASSUME UNCHANGED vars PROVE CallerInv'
  BY <1>8 DEF vars, CallerInv
<1> QED
  BY <1>1, <1>2, <1>3, <1>4, <1>5, <1>6, <1>7, <1>8
     DEF Next, CallerStep

(* A caller is told its load timed out only when the load's deadline did   *)
(* pass; the cancellation that follows every load never looks like one.    *)
THEOREM TimeoutsAreGenuine == Spec => []TimeoutIsGenuine
<1>1. Init => TimeoutInv
  BY InitLoad DEF Init, TimeoutInv, DoneByStage, CallerInv
<1>2. TimeoutInv /\ [Next]_vars => TimeoutInv'
  BY StepLoad, StepDone, StepCaller DEF TimeoutInv
<1>3. TimeoutInv => TimeoutIsGenuine
  BY DEF TimeoutInv, CallerInv, TimeoutIsGenuine
<1> QED
  BY <1>1, <1>2, <1>3, PTL DEF Spec

-----------------------------------------------------------------------------
(* The callers between the two lock sections of Do.                        *)
Waiters(c) ==
    {p \in Caller : pc[p] \in {"waiting", "expired", "leaving"} /\ on[p] = c}

CallersTyped ==
    /\ pc \in [Caller -> {"idle", "waiting", "expired", "leaving", "returned"}]
    /\ on \in [Caller -> CallId \cup {None}]
    /\ got \in [Caller -> Outcomes \cup {"none", "cancelled", "timeout"}]
    /\ \A p \in Caller :
         pc[p] \in {"waiting", "expired", "leaving"} => on[p] \in CallId

Counted ==
    /\ waiting \in [CallId -> Nat]
    /\ \A c \in CallId : IsFiniteSet(Waiters(c))
                         /\ waiting[c] = Cardinality(Waiters(c))

(* The inductive invariant behind WaitingCounts.                           *)
CountInv == LoadInv /\ CallersTyped /\ Counted

(* Counting one call again, the others keeping their waiters.              *)
LEMMA Recount ==
    ASSUME Counted, NEW c \in CallId, IsFiniteSet(Waiters(c)'),
           waiting' = [waiting EXCEPT ![c] = Cardinality(Waiters(c)')],
           \A d \in CallId : d # c => Waiters(d)' = Waiters(d)
    PROVE  Counted'
<1>1. Cardinality(Waiters(c)') \in Nat
  BY FS_CardinalityType
<1>2. waiting' \in [CallId -> Nat]
  BY <1>1 DEF Counted
<1>3. ASSUME NEW d \in CallId
      PROVE  IsFiniteSet(Waiters(d)') /\ waiting'[d] = Cardinality(Waiters(d)')
  <2>1. CASE d = c
    BY <2>1 DEF Counted
  <2>2. CASE d # c
    <3>1. Waiters(d)' = Waiters(d) /\ waiting'[d] = waiting[d]
      BY <2>2 DEF Counted
    <3> QED
      BY <3>1 DEF Counted
  <2> QED
    BY <2>1, <2>2
<1> QED
  BY <1>2, <1>3 DEF Counted

(* One caller comes: only the call it waits on counts one more.            *)
LEMMA WaitOnCounts ==
    ASSUME CallersTyped, Counted, NEW p \in Caller, NEW c \in CallId,
           pc[p] \in {"idle", "returned"}, WaitOn(p, c)
    PROVE  CallersTyped' /\ Counted'
<1>1. CallersTyped'
  BY DEF CallersTyped, WaitOn
<1>2. /\ Waiters(c)' = Waiters(c) \cup {p} /\ p \notin Waiters(c)
      /\ \A d \in CallId : d # c => Waiters(d)' = Waiters(d)
  BY DEF CallersTyped, WaitOn, Waiters
<1>3. /\ IsFiniteSet(Waiters(c)')
      /\ Cardinality(Waiters(c)') = Cardinality(Waiters(c)) + 1
  BY <1>2, FS_AddElement DEF Counted
<1>4. waiting' = [waiting EXCEPT ![c] = Cardinality(Waiters(c)')]
  BY <1>3 DEF Counted, WaitOn
<1>5. Counted'
  BY <1>2, <1>3, <1>4, Recount
<1> QED
  BY <1>1, <1>5

(* Nothing else than arriving and leaving changes who waits on what.       *)
LEMMA SameWaiters ==
    ASSUME CountInv, CallersTyped', UNCHANGED waiting,
           \A p \in Caller : /\ on'[p] = on[p]
                             /\ (pc'[p] \in {"waiting", "expired", "leaving"}
                                   <=> pc[p] \in {"waiting", "expired", "leaving"})
    PROVE  Counted'
<1>1. \A c \in CallId : Waiters(c)' = Waiters(c)
  BY DEF Waiters
<1> QED
  BY <1>1 DEF CountInv, Counted

(* Every step keeps the counts; only arriving and leaving changes them.    *)
LEMMA StepCount == CountInv /\ [Next]_vars => CountInv'
<1> SUFFICES ASSUME CountInv, [Next]_vars PROVE CallersTyped' /\ Counted'
  BY StepLoad DEF CountInv
<1> USE DEF CountInv
<1>1. ASSUME NEW p \in Caller, NEW k \in Key, Join(p, k)
      PROVE  CallersTyped' /\ Counted'
  <2>1. calls[k] \in CallId
    BY <1>1 DEF Join, Joinable, LoadInv, Typed
  <2> QED
    BY <1>1, <2>1, WaitOnCounts DEF Join
<1>2. ASSUME NEW p \in Caller, NEW k \in Key, Start(p, k)
      PROVE  CallersTyped' /\ Counted'
  <2>1. started + 1 \in CallId
    BY <1>2, CallAssumption DEF Start, LoadInv, Typed, CallId
  <2> QED
    BY <1>2, <2>1, WaitOnCounts DEF Start
<1>3. ASSUME UNCHANGED <<callerVars, waiting>> PROVE CallersTyped' /\ Counted'
  BY <1>3, SameWaiters DEF CallersTyped, callerVars
<1>4. ASSUME NEW c \in CallId,
             FnReturns(c) \/ CloseDone(c) \/ forget(c)
               \/ Cancel(c) \/ Deadline(c)
      PROVE  CallersTyped' /\ Counted'
  BY <1>3, <1>4 DEF FnReturns, CloseDone, forget, Cancel, Deadline
<1>5. ASSUME NEW p \in Caller, pc[p] \in {"waiting", "expired"},
             NEW o \in Outcomes \cup {"none", "cancelled", "timeout"},
             Receive(p, o)
      PROVE  CallersTyped' /\ Counted'
  <2>1. CallersTyped'
    BY <1>5 DEF Receive, CallersTyped
  <2>2. \A q \in Caller : /\ on'[q] = on[q]
                          /\ (pc'[q] \in {"waiting", "expired", "leaving"}
                                <=> pc[q] \in {"waiting", "expired", "leaving"})
    BY <1>5 DEF Receive, CallersTyped
  <2> QED
    BY <1>5, <2>1, <2>2, SameWaiters DEF Receive
<1>6. ASSUME NEW p \in Caller, SelectDone(p) \/ SelectCtx(p) \/ CheckDone(p)
      PROVE  CallersTyped' /\ Counted'
  <2>1. pc[p] \in {"waiting", "expired"} => outcome[on[p]] \in Outcomes \cup {"none"}
    BY DEF CallersTyped, LoadInv, Typed
  <2> QED
    BY <1>5, <1>6, <2>1 DEF SelectDone, SelectCtx, CheckDone
<1>7. ASSUME NEW p \in Caller, SelectExpired(p)
      PROVE  CallersTyped' /\ Counted'
  <2>1. CallersTyped'
    BY <1>7 DEF SelectExpired, CallersTyped
  <2>2. \A q \in Caller : /\ on'[q] = on[q]
                          /\ (pc'[q] \in {"waiting", "expired", "leaving"}
                                <=> pc[q] \in {"waiting", "expired", "leaving"})
    BY <1>7 DEF SelectExpired, CallersTyped
  <2> QED
    BY <1>7, <2>1, <2>2, SameWaiters DEF SelectExpired
<1>8. ASSUME NEW p \in Caller, Leave(p) PROVE CallersTyped' /\ Counted'
  <2>1. CallersTyped'
    BY <1>8 DEF Leave, CallersTyped
  <2>2. PICK c \in CallId : c = on[p]
    BY <1>8 DEF Leave, CallersTyped
  <2>3. /\ p \in Waiters(c) /\ Waiters(c)' = Waiters(c) \ {p}
        /\ \A d \in CallId : d # c => Waiters(d)' = Waiters(d)
        /\ waiting' = [waiting EXCEPT ![c] = @ - 1]
    BY <1>8, <2>2 DEF Leave, CallersTyped, Waiters
  <2>4. /\ IsFiniteSet(Waiters(c)')
        /\ Cardinality(Waiters(c)') = Cardinality(Waiters(c)) - 1
    BY <2>3, FS_RemoveElement DEF Counted
  <2>5. waiting' = [waiting EXCEPT ![c] = Cardinality(Waiters(c)')]
    BY <2>3, <2>4 DEF Counted
  <2>6. Counted'
    BY <2>3, <2>4, <2>5, Recount
  <2> QED
    BY <2>1, <2>6
<1> QED
  BY <1>1, <1>2, <1>3, <1>4, <1>6, <1>7, <1>8 DEF Next, CallerStep, vars, callerVars

LEMMA CountHolds == Spec => []CountInv
<1>1. Init => CallersTyped /\ Counted
  <2> SUFFICES ASSUME Init PROVE CallersTyped /\ Counted
    OBVIOUS
  <2>1. CallersTyped
    BY DEF Init, CallersTyped
  <2>2. \A c \in CallId : Waiters(c) = {}
    BY DEF Init, Waiters
  <2> QED
    BY <2>1, <2>2, FS_EmptySet DEF Init, Counted
<1>2. Init => CountInv
  BY <1>1, InitLoad DEF CountInv
<1> QED
  BY <1>2, StepCount, PTL DEF Spec

(* Type correctness of Group's flights and of the callers in Do.           *)
THEOREM TypeCorrect == Spec => []TypeOK
<1>1. CountInv => TypeOK
  BY DEF CountInv, LoadInv, Typed, CallersTyped, Counted, TypeOK
<1> QED
  BY <1>1, CountHolds, PTL

(* call.waiting is the number of callers between Do's two lock sections,   *)
(* however many of them leave, and whichever way.                          *)
THEOREM WaitersAreCounted == Spec => []WaitingCounts
<1>1. CountInv => WaitingCounts
  BY DEF CountInv, Counted, Waiters, WaitingCounts
<1> QED
  BY <1>1, CountHolds, PTL
==============================================================================
