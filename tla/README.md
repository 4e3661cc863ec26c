# A TLA+ model of cistern

cistern is a Go library for cache-aside caching: an in-process level (L1), a
shared level (L2, Redis), coalesced loads, invalidation by tag with generation
counters, and a best-effort Bus that carries invalidations between replicas.
This directory models the parts in which order and time matter and the formats
they exchange, checks them with TLC on small instances and proves with TLAPS,
for every instance, almost every safety property that TLC checks.

Source paths below are relative to the repository root. `PROJECT.json` maps
every definition to the lines it stands for.

## 1. Inventory

| Part | State | Operations | Talks to |
|---|---|---|---|
| `genCache` (`gencache.go`) | generations with expiries, drop counters, a clear count | `epoch`, `get`, `put`, `drop`, `clear` | called by `readTagged`, `InvalidateTag`, `onEvent` |
| `singleflight.Group` | flight per key; per call: done, expired, result, waiting | `Do`, `run`, `forget`, `Waiting` | called by `GetOrLoad`, calls the loader |
| `Cache`, tagged (`cache.go`, `tags.go`) | none of its own beyond the three above | `GetOrLoad`, `Get`, `Set`, `Delete`, `InvalidateTag` | L1, L2, `genCache`, `singleflight`, Bus, loader |
| `Cache`, untagged (`cache.go`) | none of its own | the same but `InvalidateTag`, through `readPlain` | L1, L2, `singleflight`, Bus, loader |
| events (`events.go`) | subscription | `publish`, `onEvent`, `Close` | Bus, L1, `genCache`, TagStore |
| `TagStore` (`tagstore.go`) | contract: counters | `GetTagged`, `Bump`, `NewGeneration` | implemented by the two stores |
| `memory.Store` | LRU list, map, count, size, queue of eviction reports | `Get`, `Set`, `Delete`, `GetTagged`, `Bump` | eviction callback |
| `redisstore.Store` | keys in Redis | the same, as commands and pipelines through a Guard with a timeout | Redis |
| `bus.Local`, `redisstore.Bus` | subscribers | `Publish`, `Subscribe`, unsubscribe | `Cache.onEvent` |
| envelope, keys, bus codec | none | conversions, validation | the levels and the Bus |
| codec, options, hooks | none | conversion, configuration, observation | – |

What is hard to get right, and therefore what the properties are about:

* a read consists of up to five steps (L1, local generations, epoch, fetch, put)
  with invalidations between any two of them, and what it learnt early is used
  late: #113, #135, #145;
* a load outlives the read that began it, its callers and its own timeout, and
  writes into both levels at the end: #112, #134, ADR-0007, ADR-0011;
* counters disappear (expiry, LRU) and must not come back at a generation they
  held: T-14, ADR-0010;
* Redis pipelines are not transactions and may be cut;
* reads fail open and writes fail loud (ADR-0002), so every step of an operation
  may fail and the rest still happens;
* Bus events are late, out of order, or lost (ADR-0006), subscriptions begin
  while Redis is down (#117) and end while it is (#137), under concurrent
  `Close` calls (#121);
* without tags nothing marks a value as retired: a load that crosses a `Delete`
  stores what it read (ADR-0011), and only timeouts and TTLs, jittered, capped,
  given per entry and counted by two clocks, bound what is served.

`PROJECT.json` lists each hazard at its line with the properties that would catch
it going wrong.

What makes each part correct: the copy of generations never brings back what
its replica was told is gone, ages out and stays bounded; a key has one live
load, nobody waits for ever, nobody is told of a timeout that did not happen; a
read after an invalidation sees the invalidation; no owner is served another's
value; a store keeps its limits and its counters never repeat; nothing is served
past its TTL, nor after a `Delete` but for what the documents except; a
subscription delivers until it is ended and never afterwards; formats lose
nothing and are read one way only.

## 2. Modules

| Module | Models | Kind |
|---|---|---|
| `GenCacheOps` | the methods of `genCache` as functions on a record; each holds the mutex throughout, hence is atomic | operators |
| `GenCache` | one replica's `genCache`, the reads that take epochs, fetch and put, the authority's counters, drops and the clock | state machine |
| `Singleflight` | `Do`, `run` and `forget`; each critical section, channel operation and deferred step is an action | state machine |
| `TaggedCache` | the tagged `Cache` on every replica: stores, local copies (`GenCacheOps`), coalesced loads, Bus | composition |
| `PlainCache` | the untagged `Cache` on every replica, with a clock: reads, loads, `Set`, `Delete`, events, TTLs, jitter, stores that fail or run late | composition |
| `Bus` | `bus.Local` and `redisstore.Bus`: subscription, delivery, unsubscription, outages | state machine |
| `EventCodec` | physical keys and counter names as strings, the messages that carry events, and what `onEvent` does | operators |
| `Envelope` | the storage format, byte by byte | operators |
| `Generations` | `NewGeneration` and the increment of a counter | operators |
| `TagStore` | the contract: a counter never takes a generation twice, and `Bump` never keeps one | abstract specification |
| `MemoryStore` | `memory.Store`; its counters implement `TagStore` | state machine, refinement |
| `RedisTagStore` | `redisstore` `GetTagged` and `Bump`, command by command; implements `TagStore` as long as no counter is lost inside a `Bump` | state machine, refinement |
| `GenCacheProofs`, `SingleflightProofs`, `TaggedCacheProofs`, `PlainCacheProofs`, `MemoryStoreProofs`, `RedisTagStoreProofs`, `BusProofs` (with `EventCodec`), `EnvelopeProofs` | theorems and proofs | proofs |
| `MCGenCache`, `MCTaggedCache`, `MCPlainCache`, `MCBus`, `MCMemoryStore`, `MCRedisTagStore` | instances: symmetry sets, constant functions and scenarios | model checking |

Definitions commented "Fault:" are plausible bugs of the definition that follows
them; no specification uses them. Putting one in the place of the real
definition must break the property that `PROJECT.json` names under `mutants`.

### How state and actions correspond to the code

**GenCache.** `gc` is the `genCache`; `m` and `drops` are total functions in
which `Missing` and 0 stand for an absent map key. `Begin`, `Fetch` and `Store`
are lines 118-134 of `tags.go`, `Drop` is what `InvalidateTag` and `onEvent` do
to the copy, `Advance` is whatever makes the authority's counter take a new
generation. `used`, `retired`, `ended` and `fetchedAt` are history only.

**Singleflight.** One record per call, split into functions. `run`'s deferred
calls are three steps in their order (close `done`, forget, cancel). `Deadline`
is the context's timer and may fire at any time before the cancellation. A
loader may hang for ever, and a caller's own context may end at any moment
(`SelectCtx`).

**TaggedCache.** `proc[p].pc` is the line the goroutine is at. A read goes
`l1get` → `compare` → `epoch` → `fetch` → `decide` → (`backfill` | `flight` →
`wait`); an invalidation `bump` → `drop` → `publish`; `Set` reads generations,
then writes L2, then L1; `Delete` removes from L1, then L2, then publishes. A
load writes L2, then L1, on its own. The variable `scenario` is chosen once in
`Init` from the constant `Scenarios` and says which levels New was given (both,
L1 only, L2 only), what the goroutines do to which keys, the bounds, and what
may fail: reads of L1 (`l1`), `GetTagged` (`fetch`), writes and deletes (`set`),
`Bump` (`bump`), `Publish` (`publish`), the loader (`loader`), the load timeout (`timeout`), a
caller's context (`cancel`), a value over the size limit (`large`). Values are
(key, source version) pairs, and the ghost `answers` keeps how each answer
compared with what was due. What is due is counted tag by tag: `bumped` is the
source each store's counter of a tag was last bumped at, `floor` the same as far
as a replica was told of it, and a read keeps in `min` the floors it began with.
An entry remembers (`set`) whether a caller gave it to `Set`, which promises
nothing about the source. A remembered absence is a version like any other,
an entry that fails to decode is one not found, expiry is eviction at any
moment. An event that is never delivered is a lost one.

**PlainCache.** One key, since physical keys share nothing but room. A read that
hits L1 changes nothing and is no action; `MissL1` → `L2Get` → (`ClampStep` →
`Backfill` | `EndMiss` or `Lead`) is the rest of `readPlain` and what `GetOrLoad`
does after a miss, `EndMiss` also standing for a caller that joins a load. A
load reads the source (`ReadSource`), returns later (`LoaderReturns`: `write`
computes the envelope and draws the jitter) and sets L2, then L1, each refused
once its context is done (`PutIf`). `Set` does the same for a value its caller
took from the source, `Delete` deletes from L1, L2 and publishes, joining
errors (`err`). A store entry has the envelope, whose `expires` is the logical
expiry, and its own physical expiry `until`, counted from when the store ran
the `Set`; `Tick` lets time pass between any two steps. Jitter is a draw of
n/`Scale`, TTLs are whole ticks, one tick standing for the nanosecond of
`scaled`. Faults: `get`, `set`, `del`, `publish`, `late` (a SET that Redis runs after
its client gave up: `Land`), `cancel` (a `Delete` whose context is done). Ghosts:
`limit` of an envelope is when its TTL ends without jitter, `lag` the time a `Set`
took, `changed`, `calm`, `floor` and `cleanAt` what a `Delete` promised to whom.

**Bus.** A scenario is one of the two media. `Local`: `AddLocal`, `PublishLocal`
(the copy of the handlers under the read lock), `CallHandler` after it,
`RemoveLocal`. Redis: `AskRedis` … `Confirmed` or `NotConfirmed` is `Subscribe`
up to its start of the goroutine, `Receive`, `HandlerReturns` and `LoopEnds` are
the goroutine, `BeginUnsubscribe`, `Stopped`, `TimerFires` and `Unblock` the
`sync.Once` and the select inside. `Outage`, `Recover`, `Register` and
`PubSubCloses` are what go-redis and Redis may do, as `redisstore/bus.go` relies on
it: an outage ends the server's subscriptions and loses what was sent and not
read, resubscription happens once Redis is back, `PubSub.Close` may never
return, and what the channel had buffered is still read after it. go-redis drops
a message its channel (100 by default) has no room for within a minute; the
model's queues hold all of the two or three messages sent. `timedOut` and the
ghosts `due`, `gone`, `steady` only serve the properties.

**EventCodec, Envelope.** A text is the sequence of its bytes, with how many bytes
more JSON writes for it and whether it is valid UTF-8 and free of control
characters. Physical keys and counter names are concatenated as in `New` and
`keys.go`, and cut again in `eventKey`. SHA-256 is the constant `Sha`, a function to
64 hexadecimal digits that may send two keys to one digest. Kinds are numbers with
a name on the wire; `JSON` is `encoding/json`, which puts U+FFFD for what is no
UTF-8. `onEvent` says what a replica does to its local state, given the levels it was
built with. An envelope is a sequence of bytes and a 64-bit number its eight
bytes, most significant first.

**MemoryStore.** The linked list and the map are one sequence; `count` and `size`
are kept incrementally as in the code. The loop that evicts is the least number
of evictions after which the new entry fits. `GetTagged` and `Bump` take up to two
counters, each one `counterLocked` after the other; their loops are recursive
functions, so that they can be proved about. `Report` is the second critical
section of `reportEvictions`. `Set` draws its expiry and takes the lock in one
step.

**RedisTagStore.** `todo` is what Redis has not run yet of each pipeline.
`GiveUp` is the per-call timeout or the caller's context, after which Redis may
still run the rest; `Cut` a broken connection, after which it will not; `Refuse`
the Guard. A call names one tag or two, in either order.
go-redis's own retries are the client's configuration and are not
modelled (the repository's tests switch them off).

**Generations.** `NewGeneration` draws from 62 random bits and each `Bump` adds
one. A generation is modelled as the pair of its draw and the increments since;
draws are numbered, so that no two meet however often they are incremented. That
a random draw does not meet a value used before is the only probabilistic
assumption of the code, made exact.

## 3. Runs

| Run | Instance | Checks | Distinct states |
|---|---|---|---|
| `genCache` | 2 tags, copy of 1, 2 reads, 2 generations, TTL 1, latency 1, clock to 3 | `TypeOK`, `NoRetiredGeneration`, `Bounded`, `StalenessBounded`, `DropSparesOthers` | 4,340,000 |
| `genCacheTTL` | 1 tag, TTL 2, latency 1, clock to 5 | `StalenessWithinTTL` **fails** | – |
| `singleflight` | 1 key, 2 callers, 3 loads | `TypeOK`, `SingleLoad`, `TimeoutIsGenuine`, `WaitingCounts`, `CallersReturn` | 674,000 |
| `taggedOneReplica` | 1 replica; 4 operations on both levels; a key of two tags; 2 owners under one physical key over all operations but invalidation; 3 operations with failing reads, stores, bumps and L1 calls on both levels, and with every fault on L1 alone and on L2 alone | `TypeOK`, `ReadAfterInvalidate`, `NoCrossOwner` | 1,820,000 |
| `taggedReplicas` | 2 replicas with a Bus, both levels or L1 only, 3 operations, 1 loss | `ReadAfterInvalidate` | 1,710,000 |
| `taggedFailOpen` | 1 replica, `GetTagged` may fail | `FailOpenToo` **fails** | – |
| `plainCache` | 2 replicas with a Bus, 5 scenarios: 3 operations around a `Delete` on both levels and on L1 alone, 2 on L2 alone, 2 with every fault, 2 with jitter, per-entry and negative TTLs; clock to 3 | `TypeOK`, `ServedWithinTTL`, `L1WithinL2`, `StaleWithin`, `DeleteIsSeen`, `MissedEvent` | 2,760,000 |
| `deleteEvictsL1` | the same, 2 operations, contexts that are done | `DeleteEvictsL1` **fails** | – |
| `bus` | Local with 3 handlers, Redis with 1 handler, 2 events, 1 foreign message and 1 outage; 2 goroutines unsubscribe one handler | `TypeOK`, `UnsubscribedIsSilent`, `DueIsOnItsWay`, `DueIsHeard`, `CallsReturn`, `StartsDelivering` | 18,000 |
| `memoryStore` | 2 keys, 2 counters, 2 goroutines, 4 operations, 2 entries / 3 bytes | `TypeOK`, `WithinLimits`, `LeastRecentFirst`, `NeverServesReplaced`, `ReportedOnce`, `KeepsContract`, `BumpRetires` | 272,000 up to symmetry |
| `redisPipelines` | 3 requests, 2 counters, 4 draws (one request of two tags and two of one, or two of two), 1 loss | `ReadSeesBump`, `ReadsRealGenerations`, `CountersExpire`, `KeepsContract` | 2,780,000 |
| `redisLossInBump` | 3 requests, 1 counter, 2 losses, inside a `Bump` too | `KeepsContract` **fails** | – |

`CHECK_DEADLOCK FALSE` in every configuration: a bounded number of operations
ends, and a cache nobody calls rightly does nothing.

Bounds, and why they are enough for the cases they are meant for:

* `MaxCachedGens = 1` with two tags makes `put` overflow and `drop` reset after a
  single step each; `MaxDrops` and `MaxClears` allow a reset, a drop after it and
  another reset, which is what an epoch could be fooled by.
* Three loads of one key: a flight, the one that replaces it after its timeout,
  and the one a wrong `forget` would admit beside that.
* Four operations in the first scenario of `taggedOneReplica`: one to store an entry, one read to be caught
  between epoch and put, the invalidation, and the read that would be misled.
  The other tagged scenarios trade the fourth for replicas, losses or faults.
* `MaxVersion = 1`: one write to the source tells stale from current.
* Two entries and three bytes with sizes 1, 2 and 4: eviction for count, for
  bytes, of several entries at once, and a value that never fits.
* One loss in `taggedReplicas` and `redisPipelines`: the counter is drawn again
  and must not meet what it held before. `redisLossInBump` takes two, because
  there the second repeats what the first left behind.
* A clock to 3 with a TTL of 1: a generation is fetched, left by the authority,
  put one tick later and expires one tick after that.

* TTL 2, L1 TTL 1, load timeout 1 and a clock to 3 in `plainCache`: a load
  crosses a `Delete`, its value outlives the L1 TTL in L2 and expires before time
  ends; TTL 3, L1 TTL 2 and draws of 1/2 and 2/2 make the truncation and the
  floor of `scaled` bite. Two replicas: one deletes, the other misses the event.
* Three handlers on a Local bus: one leaves between two that stay, which is what
  an id chosen by counting would confuse. One outage: before the subscription is
  confirmed, between, or under the unsubscription.

Fairness is assumed in `singleflight` and `bus`. In `singleflight`: weak fairness of each load's timer
(`context.WithTimeout` fires) and of each waiting caller's next step (a goroutine
whose select is ready is scheduled). None is assumed of the loader, of `run`, or
of the caller's own context, so `CallersReturn` does not depend on a loader that
returns or a caller that gives up. In `bus`: weak fairness of the goroutine that
receives, whose handler returns (`bus.Handler` "must not block for long") and
which the scheduler runs; of `Subscribe`'s wait, which its deadline ends; of each
unsubscribing goroutine, whose timer fires; of a `Local.Publish` that has copied
its handlers; and of go-redis's resubscription while Redis can be reached. None
of `PubSub.Close`, of Redis coming back, or of anybody publishing. The invariants
do not depend on fairness.

### What does not hold

* **Fail-open reads may join a load from before an invalidation**
  (`taggedFailOpen`). `flightKey` has only the tags to go by when generations
  could not be read. `docs/THREAT-MODEL.md` T-13 states the guarantee without
  that exception; `ReadAfterInvalidate` is the guarantee with it.
* **Staleness after a lost event is the TTL plus the time between fetch and put**
  (`genCacheTTL`), not the TTL alone as RNF-11 says; `StalenessBounded` is the
  bound the code achieves.
* **A counter lost between SETNX and INCR restarts at 1** (`redisLossInBump`),
  which ADR-0010 rules out; two such losses repeat a generation.

* **A `Delete` whose context is done leaves L1 as it was** (`deleteEvictsL1`),
  where its comment and ADR-0002 say that L1 is always evicted; `InvalidateTag`
  returns as early. The caller is told by the error.

One more remark, which no run states: `MaxMessageBytes` "bounds an encoded event"
(`bus/bus.go:106`), but `Encode` does not look at it. JSON writes `<`, `>` and `&` as
six bytes each, so that the event of a tag or key that validates may be longer
than any receiver accepts; it is published without an error and dropped
everywhere. `DueIsHeard` and `DueIsOnItsWay` set such an event aside (`Carried`; the
event `wide` of `MCBus` is one) and so say nothing of it; the theorems below say
which are safe: at most 592 bytes more, hence 118 such characters.

## 4. Proofs

TLAPS checks the following for every value of the constants: any sets of tags,
readers, keys, callers, replicas, goroutines, handlers and events; any TTL,
latency, limit and number of operations. The assumptions are those the modules
state under `ASSUME`, which every run of the module evaluates, and where it is
said so the absence of losses inside a `Bump`.

### The copy of generations: `GenCacheProofs`

From `GenAssumption` (`NoGen` is no generation) and `BoundAssumption` (positive
bound and TTL, finitely many tags):

* `TypeCorrect`: `Spec => []TypeOK`. `TypeOK` is inductive; what is not plain typing
  in it is that an epoch covers exactly the keys of its read.
* `RetiredStaysGone`: `Spec => []NoRetiredGeneration`. Not inductive alone: a read
  in flight may hold a retired generation. `RetireInv` adds that a counter's own
  generation is never retired (`CounterLive`), that an epoch is never ahead of the
  copy (`EpochsBehind`), and the point of the design (`FetchedLive`): if an epoch
  still matches the copy on a key, what the read fetched for that key is not
  retired, because a drop moves the key's count and a reset moves the clears,
  which never go back.
* `StalenessIsBounded`: `Spec => []StalenessBounded`, by `StaleInv`: what is cached
  or in flight and no longer current was left no earlier than it was fetched.
* `CopyIsBounded`: `Spec => []Bounded`, with the library's facts about
  cardinalities.
* `DropsSpareOthers`: `Spec => DropSparesOthers`, an action property, from what
  `drop` does to each field.

`DropFacts` and `PutFacts` state once what the two operations do; every proof
about a step cites them.

### Coalesced loads: `SingleflightProofs`

From `CallAssumption`; the callers may be infinitely many:

* `AtMostOneLoad`: `Spec => []SingleLoad`. `LoadInv` adds that a load that has not
  timed out is the flight of its key (`Registered`), that a load followed by
  another of its key has timed out (`Followed`), that calls are numbered in order,
  and that a context ends before the goroutine's last step only by its deadline.
* `TimeoutsAreGenuine`: `Spec => []TimeoutIsGenuine`, adding that `done` is closed
  from that stage on and that a caller in the `expired` case saw its load expire.
* `WaitersAreCounted`: `Spec => []WaitingCounts`, and with it `TypeCorrect`.
  `CountInv` says of each call that the callers between the two critical sections
  of `Do` are a finite set of as many members as `waiting` says: `Recount` is what
  one caller more or less does to it.

### The tagged Cache: `TaggedCacheProofs`

From `TaggedAssumption`, of which the one that matters is that keys with one
physical key and one list of tags are one key: the owner of a value is told by
its tags (`docs/THREAT-MODEL.md`).

* `TypeCorrect`: `Spec => []TypeOK`, with what each frame is about (`KeyOK`).
* `NeverCrossesOwners`: `Spec => []NoCrossOwner`.
* `NeverStaleAfterInvalidate`: `Spec => []ReadAfterInvalidate`.

The invariant is `Inv(h)` for some history `h`, which knows of every generation a
counter ever held which store and tag it was of and what the source was when it
was taken; a step extends `h` (`Grows`) and must find a history that does. No
generation is taken twice (`HistoryOK`, `CounterOK`), so generations name their
tags and, by the assumption, an entry's list of them names its key: that is
`NoCrossOwner`. An entry that was loaded was loaded after its generations were
read, hence is as new as the source was when they were taken (`Reaches` in
`EntryOK`), and a counter, as well as what a replica's copy vouches for, was
taken no earlier than the last bump, as far as the replica was told (`CopiesOK`).
`SinceOK` is the epoch at work: while the copy matches it, what the read fetched
is as new as everything the replica was told of since, so that the `put` keeps
`CopiesOK`. `LoadOK` and `WaitOK` are coalescing: the flight key of a load tells
its key and its generations.

### The untagged Cache: `PlainCacheProofs`

From `PlainAssumption`: the configurations `New` accepts (an L1 TTL within the
TTL, a negative TTL within it, a positive load timeout) and finitely many TTLs.

* `ServesWithinTTL`, `L1EndsWithL2`, `StaleForAWhile` (and `TypeCorrect`): `DataInv`
  follows an envelope from `write` to the stores. `Sound` says when it was made,
  what its expiry may be after jitter, truncation and flooring, and how new what
  it carries was then; `Fits` what the TTL it is stored for leaves of it; every
  frame, load, store and late SET holds only such.
* `DeletesAreSeen`, `MissedForAWhile`: `FreeInv`. A version is free in L2 (`L2Free`)
  when neither L2 nor anything on its way there has an older one, and free on a
  replica (`FlightFree`) when none of its loads, `Set`s and backfills has. `FloorOK`
  says that what a `Delete` promised a replica is free there, `BusOK` that what
  events announce is free in L2, `DeletesOK` what a `Delete` under way that no older
  value crossed has done so far, and `CleanOK` that a replica its event missed has
  an older entry for one L1 TTL more at most.

### memory.Store: `MemoryStoreProofs`

From `LimitAssumption`: positive limits and lifetimes, as the code demands, and
counters stored under keys of their own.

* `StaysWithinLimits`: `Spec => []WithinLimits`, and `TypeCorrect`. `Sound` and `Fits`
  of the store, shown of each helper in turn (`RemoveFacts`, `UseFacts`,
  `EvictTailFacts`, `PushFacts`, `SetFacts`, `GetFacts`, `CounterFacts`, `BumpFacts`).
  That `setLocked`'s loop ends with room for the entry (`EvictionsFacts`) is because
  an empty store has room for every entry that was not refused.
* `EvictsLeastRecent`: `Spec => []LeastRecentFirst`. `Ordered` is kept by taking
  entries out anywhere (`ThinsFacts`) and putting one in front that is stamped
  last (`Tops`).
* `ServesTheLatest`: `Spec => []NeverServesReplaced`, by `LatestInv`.
* `EvictionsReportedOnce`: `Spec => []ReportedOnce`, which is inductive.
* `KeepsTheContract`: `Spec => KeepsContract`, a refinement, and `BumpsRetire`:
  `Spec => BumpRetires`, an action property. `Reached` is what a call may have made
  of the store by any point of its loop over the counters, and `Moved` its part
  about counters: each entry is an old one, one drawn in this call, or one above
  the live counter it replaces. `CounterInv` makes these fresh: a counter holds
  the last generation of its draw.

`Total` and the loops are recursive functions over sequences. Facts about them
are proved by `SetInduction`: a set of numbers that has 0 and with each number
the next has them all. It follows from `WFMin`, and unlike the induction theorems
that take an operator it can be instantiated.

### redisstore: `RedisTagStoreProofs`

* `ReadsHold`: `Spec => []ReadsRealGenerations`, whatever is lost or cut. `ReadInv`:
  a pipeline's MGET comes last, and a counter's history grows.
* `ReadsSeeBumps`, `CountersDoExpire` and the refinement `KeepsTheContract`
  (`Spec => KeepsContract`) assume `~LossInBump`: that no counter is lost between
  the SETNX and the INCR of one `Bump`. Without it the refinement is false, as
  `redisLossInBump` shows. `FreshInv`: a draw waits in the SETNX of one pipeline and
  has been no counter's until Redis runs it (`DrawsOK`), a counter holds the last
  generation of its draw (`LastOK`), an INCR that comes next finds its counter
  (`FindsCounter`), what is retired is held no more (`RetiredOK`), and what a
  request under way knows of both (`BumpOK`, `SeesOK`).

### The Bus and its messages: `BusProofs`

From `BusAssumption`:

* `Silent`: `Spec => []UnsubscribedIsSilent`. `BusInv` adds that an unsubscribe
  function is used only after `Subscribe` returned it and that one that has
  returned has run, or waited for the run (`OnceInv`); that a goroutine has ended
  when unsubscribe is done without giving up (`LoopInv`); that `Local` keeps each
  handler under the id it was given and none that is unsubscribed (`IdsInv`); and
  that nothing is heard before it is published, nor on its way to a handler that
  was gone by then (`HeardInv`).
* `BusTypeCorrect`: `Spec => []TypeOK`, with each id of `Local` given once and what
  handlers may be called with.
* `DueIsKept`: `Spec => []DueIsOnItsWay`, the safety half of `DueIsHeard`. Both follow
  from `WayInv`, inductive given `BusInv`: that `Local` has every handler nobody
  unsubscribed under its id, which no other has (`KeptInv`); that the server holds
  every subscription confirmed since the last outage, and that a PubSub is closed
  for a handler unsubscribed only (`ServerInv`); and that what is due was
  published, well-formed, and to handlers whose `Subscribe` had returned (`DueInv`).
  `WayReceive` uses `Strict` and that `Decode` gives back what `Encode` was given.

About `EventCodec`, from `ByteAssumption` (the printable ASCII the code writes is
among the bytes) and `ShaAssumption` (a digest is 64 hexadecimal digits; nothing is
assumed about collisions):

* `RoundTrip` and `Strict`: within the length limit `Decode` gives back what `Encode`
  was given, and accepts only well-formed events.
* `KeysNeverShare`, `CountersNeverShare`, `EntryIsNoCounter`: two physical keys are one
  string only in one namespace and for one key, or for two hashed keys of one
  digest; two counters only for one tag of one namespace; a key and a counter
  never. A key or tag may hold colons and anything else `validateKey` lets through.
  The argument is `ReadOff`: a namespace has no colon, so the first one after
  `cistern:v1:` ends it in both strings, and the part (`-` or `g`) and the rest then
  stand at the same places (`PrefixParts`, `FormParts`).
* `KeyInvalidationApplies`, `TagInvalidationApplies`: what `Delete` and `InvalidateTag`
  publish passes every check from `Encode` to `eventKey` and `genKey`, in every
  namespace, and makes a replica delete the very entry, or drop or bump the very
  counter, as its levels ask, if JSON writes at most `MaxExtra` bytes more for the
  text. `Cut` is `strings.CutPrefix` undoing the concatenation.

### The envelope: `EnvelopeProofs`

Without assumptions:

* `RoundTrip`: `Decode(Encode(e), max) = e` for every entry `check` accepts. `Layout`
  says where each part of an envelope lies, `Encoded` what `Encode` writes there.
* `Canonical`: `Encode(Decode(data, max)) = data` for all bytes `Decode` accepts, which
  its comment states and the repository fuzzes.

### Only model-checked

* Liveness: `CallersReturn`, `DueIsHeard`, `CallsReturn`, `StartsDelivering`. Fairness
  is about ENABLED, which is out of the prover's reach.
* The properties that the code does not have (section 3), which have
  counterexamples rather than proofs.

## 5. Not modelled

* Codecs (`encoding/json` or the consumer's own), hooks and `NoCache`: they change
  no state the cache keeps. `New` and the options appear as the assumptions on
  scenarios.
* The conformance suites of `cisterntest` and the examples: programs that use the
  library. What `RunTagStore` asks of a store is what `TagStore` states.
* Duplicated Bus messages: `onEvent` treats a second delivery as a further drop,
  or a further bump.
* A clock shared by tag counters and the entries that record them (`genTTL`):
  the tagged models let a counter disappear at any moment instead, after which
  a new draw retires its entries.
* The float64 of `scaled` (`cache.go:498`), which may round a TTL above 2^53 ns (some
  104 days) by a few nanoseconds: the models multiply exactly.
* In `counterLocked` of `memory.Store`, an error of `NewGeneration` (no randomness to
  be had) and a stored counter that is not eight bytes long, which only a program
  that writes entries under counter names could put there (`EntryIsNoCounter`).
* go-redis's own retries and its limited channel.

## 6. Plan

Done: all modules of section 2 and the proofs of section 4.

What could follow:

1. Liveness of reads and loads in `TaggedCache`, which composes what `Singleflight`
   shows of one key.
2. The refinement of `GenCache` by each replica's copy in `TaggedCache`.
