----------------------------- MODULE MemoryStore ------------------------------
(***************************************************************************)
(* memory.Store: the in-process LRU store, its limits on entries and bytes *)
(* and the generation counters it keeps among its entries.                 *)
(*                                                                         *)
(* Every method holds Store.mu for its whole effect, so each is one step;  *)
(* the eviction reports it queued are taken and delivered afterwards, in   *)
(* steps of their own.  The linked list and the map of the code are one    *)
(* sequence, most recently used first; count and size are kept beside it   *)
(* as the code keeps them, added to and subtracted from.                   *)
(***************************************************************************)
EXTENDS Generations, Sequences, SequencesExt

CONSTANTS Key,         \* keys of values
          Counter,     \* keys of generation counters
          Proc,        \* goroutines using the store
          Sizes,       \* sizes of values, key included
          CounterSize, \* size of a counter
          TTLs,        \* lifetimes of values
          GenTTL,      \* lifetime of a counter
          MaxEntries,
          MaxBytes,
          MaxOps,      \* bound: operations performed
          MaxNow       \* bound: the last instant explored

ASSUME LimitAssumption ==
    /\ MaxEntries \in Nat \ {0}
    /\ MaxBytes \in Nat \ {0}
    /\ Key \cap Counter = {}
    /\ Sizes \subseteq Nat /\ CounterSize \in Nat
    /\ TTLs \subseteq Nat \ {0} /\ GenTTL \in Nat \ {0}
    /\ MaxOps \in Nat /\ MaxNow \in Nat

VARIABLES
    store,     \* the Store under its lock
    now,       \* its clock
    pc,        \* "idle", or "report" with the deferred reportEvictions to run
    ops,       \* operations performed
    stamp,     \* ghost: when each key was last used, in operations
    latest,    \* ghost: the value last set under each key
    evictions, \* ghost: evictions so far
    reported,  \* ghost: evictions reported so far
    used       \* ghost: every generation each counter has held

vars == <<store, now, pc, ops, stamp, latest, evictions, reported, used>>

(* store is a record of the LRU order, the two totals, the queue of        *)
(* reports and, for the model, the draws of NewGeneration so far.          *)
New == [lru |-> <<>>, count |-> 0, size |-> 0, evicted |-> 0, draws |-> 0]

Names == Key \cup Counter

Place(s, k) == {i \in DOMAIN s.lru : s.lru[i].key = k}
Has(s, k) == Place(s, k) # {}
Index(s, k) == CHOOSE i \in Place(s, k) : TRUE
At(s, k) == s.lru[Index(s, k)]
Without(s, k) == RemoveAt(s.lru, Index(s, k))

(* The bytes of the entries of q.                                          *)
Total(q) ==
    LET upTo[i \in 0..Len(q)] == IF i = 0 THEN 0 ELSE upTo[i - 1] + q[i].size
    IN  upTo[Len(q)]

(* Fault: the bytes of a removed entry are not given back.                 *)
RemoveKeepsSize(s, k) ==
    [s EXCEPT !.lru = Without(s, k), !.count = @ - 1]

(* Fault: they are given back twice.                                       *)
RemoveTwice(s, k) ==
    [s EXCEPT !.lru = Without(s, k), !.count = @ - 1,
              !.size = @ - 2 * At(s, k).size]

remove(s, k) ==
    [s EXCEPT !.lru = Without(s, k), !.count = @ - 1,
              !.size = @ - At(s, k).size]

evict(s, k) == [remove(s, k) EXCEPT !.evicted = @ + 1]

(* Fault: a read does not move the entry to the front.                     *)
UseInPlace(s, k) == s

(* unlink and pushFront.                                                   *)
use(s, k) == [s EXCEPT !.lru = <<At(s, k)>> \o Without(s, k)]

Live(s, k) == Has(s, k) /\ now < At(s, k).expires

(* getLocked: an expired entry is evicted, a live one becomes the most     *)
(* recently used.                                                          *)
getLocked(s, k) ==
    CASE ~Has(s, k) -> s
      [] Live(s, k) -> use(s, k)
      [] OTHER -> evict(s, k)

(* The state after n evictions from the tail.                              *)
EvictTail(s, n) ==
    [s EXCEPT !.lru = SubSeq(@, 1, Len(@) - n), !.count = @ - n,
              !.size = @ - Total(SubSeq(s.lru, Len(s.lru) - n + 1, Len(s.lru))),
              !.evicted = @ + n]

Room(s, e) == s.count < MaxEntries /\ s.size + e.size <= MaxBytes

(* Fewest evictions from the least recently used end that make room.       *)
Evictions(s, e) ==
    CHOOSE n \in 0..Len(s.lru) :
      /\ Room(EvictTail(s, n), e)
      /\ \A m \in 0..(n - 1) : ~Room(EvictTail(s, m), e)

Push(s, e) ==
    [s EXCEPT !.lru = <<e>> \o @, !.count = @ + 1, !.size = @ + e.size]

(* Fault: a value that does not fit leaves the older one in place.         *)
SetKeepsOld(s, e) ==
    IF e.size > MaxBytes
      THEN s
      ELSE LET old == IF Has(s, e.key) THEN remove(s, e.key) ELSE s
           IN  Push(EvictTail(old, Evictions(old, e)), e)

(* setLocked: the old entry goes first; one too large is not stored.       *)
setLocked(s, e) ==
    LET old == IF Has(s, e.key) THEN remove(s, e.key) ELSE s
    IN  IF e.size > MaxBytes
          THEN old
          ELSE Push(EvictTail(old, Evictions(old, e)), e)

CounterEntry(t, g) ==
    [key |-> t, val |-> g, size |-> CounterSize, expires |-> now + GenTTL]

(* counterLocked: the counter is read, or drawn and stored.                *)
counterLocked(s, t) ==
    LET got == getLocked(s, t) IN
    IF Live(s, t)
      THEN got
      ELSE LET drawn == [got EXCEPT !.draws = @ + 1]
           IN  setLocked(drawn, CounterEntry(t, NewGeneration(drawn.draws)))

(* The generation counterLocked returns, whether or not it could be kept.  *)
CounterValue(s, t) ==
    IF Live(s, t) THEN At(s, t).val ELSE NewGeneration(s.draws + 1)

-----------------------------------------------------------------------------
Init ==
    /\ store = New
    /\ now = 0
    /\ pc = [p \in Proc |-> "idle"]
    /\ ops = 0
    /\ stamp = [k \in Names |-> 0]
    /\ latest = [k \in Key |-> 0]
    /\ evictions = 0
    /\ reported = 0
    /\ used = [t \in Counter |-> {}]

Held(s, t) == IF Live(s, t) THEN {At(s, t).val} ELSE {}

(* One method call: its effect on the store, the keys it used in order,    *)
(* and what the ghosts record of it.                                       *)
Call(p, s, names) ==
    /\ pc[p] = "idle"
    /\ ops < MaxOps
    /\ ops' = ops + 1
    /\ store' = s
    /\ stamp' = [k \in Names |->
                   IF \E i \in DOMAIN names : names[i] = k
                     THEN 4 * ops + (CHOOSE i \in DOMAIN names : names[i] = k)
                     ELSE stamp[k]]
    /\ evictions' = evictions + s.evicted - store.evicted
    /\ used' = [t \in Counter |-> used[t] \cup Held(s, t)]
    /\ UNCHANGED <<now, reported>>

Get(p, k) ==
    /\ Call(p, getLocked(store, k), IF Live(store, k) THEN <<k>> ELSE <<>>)
    /\ pc' = [pc EXCEPT ![p] = "report"]
    /\ UNCHANGED latest

Set(p, k, size, ttl) ==
    /\ Call(p, setLocked(store, [key |-> k, val |-> ops + 1, size |-> size,
                                 expires |-> now + ttl]), <<k>>)
    /\ latest' = [latest EXCEPT ![k] = ops + 1]
    /\ pc' = [pc EXCEPT ![p] = "report"]

Delete(p, k) ==
    /\ Call(p, IF Has(store, k) THEN remove(store, k) ELSE store, <<>>)
    /\ latest' = [latest EXCEPT ![k] = 0]
    /\ UNCHANGED pc

(* GetTagged: the value, then each counter in turn; one counter's creation *)
(* may evict the value or another counter.                                 *)
AfterTagged(s, k, ts) ==
    LET upTo[i \in 0..Len(ts)] ==
          IF i = 0 THEN getLocked(s, k) ELSE counterLocked(upTo[i - 1], ts[i])
    IN  upTo[Len(ts)]

GetTagged(p, k, ts) ==
    /\ Call(p, AfterTagged(store, k, ts),
            (IF Live(store, k) THEN <<k>> ELSE <<>>) \o ts)
    /\ pc' = [pc EXCEPT ![p] = "report"]
    /\ UNCHANGED latest

(* Fault: a counter that had to be drawn is not advanced further, and an   *)
(* existing one is written back as it was.                                 *)
AfterBumpStuck(s, t) ==
    setLocked(counterLocked(s, t), CounterEntry(t, CounterValue(s, t)))

(* Bump: each counter is found or drawn, and stored again one higher.      *)
AfterBump(s, t) ==
    setLocked(counterLocked(s, t), CounterEntry(t, Advance(CounterValue(s, t))))

AfterBumps(s, ts) ==
    LET upTo[i \in 0..Len(ts)] ==
          IF i = 0 THEN s ELSE AfterBump(upTo[i - 1], ts[i])
    IN  upTo[Len(ts)]

Bump(p, ts) ==
    /\ Call(p, AfterBumps(store, ts), ts)
    /\ pc' = [pc EXCEPT ![p] = "report"]
    /\ UNCHANGED latest

(* Fault: the queue is read under the lock but emptied after it.           *)
ReportTwice(p) ==
    /\ pc[p] = "report"
    /\ reported' = reported + store.evicted
    /\ store' = IF \E q \in Proc \ {p} : pc[q] = "report"
                  THEN store ELSE [store EXCEPT !.evicted = 0]
    /\ pc' = [pc EXCEPT ![p] = "idle"]
    /\ UNCHANGED <<now, ops, stamp, latest, evictions, used>>

(* reportEvictions takes the whole queue, its own reports or others'.      *)
Report(p) ==
    /\ pc[p] = "report"
    /\ reported' = reported + store.evicted
    /\ store' = [store EXCEPT !.evicted = 0]
    /\ pc' = [pc EXCEPT ![p] = "idle"]
    /\ UNCHANGED <<now, ops, stamp, latest, evictions, used>>

Tick ==
    /\ now < MaxNow
    /\ now' = now + 1
    /\ UNCHANGED <<store, pc, ops, stamp, latest, evictions, reported, used>>

TagLists == {ts \in UNION {[1..n -> Counter] : n \in 0..2} :
               \A i, j \in DOMAIN ts : i # j => ts[i] # ts[j]}

Next ==
    \/ \E p \in Proc, k \in Key :
         \/ Get(p, k) \/ Delete(p, k)
         \/ \E size \in Sizes, ttl \in TTLs : Set(p, k, size, ttl)
         \/ \E ts \in TagLists : GetTagged(p, k, ts)
    \/ \E p \in Proc : Report(p) \/ \E ts \in TagLists : Bump(p, ts)
    \/ Tick

Spec == Init /\ [][Next]_vars

-----------------------------------------------------------------------------
EntryType == [key : Key, val : Nat, size : Nat, expires : Nat]
               \cup [key : Counter, val : Generation, size : Nat, expires : Nat]

TypeOK ==
    /\ store.lru \in Seq(EntryType)
    /\ store.count \in Nat /\ store.size \in Nat
    /\ store.evicted \in Nat /\ store.draws \in Nat
    /\ now \in 0..MaxNow /\ ops \in 0..MaxOps
    /\ pc \in [Proc -> {"idle", "report"}]
    /\ stamp \in [Names -> Nat]
    /\ latest \in [Key -> Nat]
    /\ evictions \in Nat /\ reported \in Nat
    /\ \A t \in Counter : used[t] \subseteq Generation

(* RF-03, RS-05: the store never exceeds either limit, and the totals it   *)
(* decides by are those of what it holds, one entry per key, after any mix *)
(* of replacements, evictions, expiries and deletions.                     *)
WithinLimits ==
    /\ store.count <= MaxEntries
    /\ store.size <= MaxBytes
    /\ store.count = Len(store.lru)
    /\ store.size = Total(store.lru)
    /\ \A i, j \in DOMAIN store.lru :
         i # j => store.lru[i].key # store.lru[j].key

(* The order the store evicts in is the order of last use: the victim is   *)
(* always the entry unused for longest.                                    *)
LeastRecentFirst ==
    \A i, j \in DOMAIN store.lru :
      i < j => stamp[store.lru[i].key] > stamp[store.lru[j].key]

(* Set's comment: the store never keeps serving what the caller just       *)
(* replaced, even when the new value was too large to store.               *)
NeverServesReplaced ==
    \A k \in Key : Has(store, k) => At(store, k).val = latest[k]

(* ADR-0015: every eviction is reported once, whichever goroutine finds it *)
(* in the queue; when no report is owed the queue is empty.                *)
ReportedOnce ==
    /\ reported + store.evicted = evictions
    /\ (\A p \in Proc : pc[p] = "idle") => store.evicted = 0

(* The counters of the store keep the TagStore contract, counters evicted  *)
(* under memory pressure and expired ones included (T-14).                 *)
Contract == INSTANCE TagStore WITH
    ctr <- [t \in Counter |-> IF Live(store, t) THEN At(store, t).val
                                           ELSE NoGeneration]

KeepsContract == Contract!Spec

(* tagstore.go: Bump leaves each of its counters at a value it has never   *)
(* held, or the store has no room for it; none keeps the generation it     *)
(* had, even if another of them pushes it out in between.                  *)
BumpRetires ==
    [][\A p \in Proc, ts \in TagLists :
         Bump(p, ts) => Contract!Bump(ToSet(ts))]_vars
==============================================================================
