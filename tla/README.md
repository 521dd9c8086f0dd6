# go_memoize in TLA+

TLA+ models of the [go_memoize](../src/README.md) cache library, model-checked
with TLC and proved about with TLAPS. All source references are to `src/`.

    tlc -workers 2 -config engine_ttl.cfg MCEngine     # one run
    tlapm CacheEngineProofs.tla                        # one proof module

## 1. The system

`Cache[K,V]` (`cache.go`, `options.go`) sits between callers and a `Store[K,V]`.
`GetOrCompute` answers from the store when it can, otherwise it calls the user's
compute function, once per key however many callers miss at the same time, and
stores the result. Everything else in the repository is a store, a thin front end,
or a helper that keeps one value warm.

| component | state it keeps | operations | talks to |
|---|---|---|---|
| cache engine, `cache.go` | flight map under `flightMu`; in each call: its clock reading and the entry it found | `Get`, `Set`, `Delete`, `Clear`, `GetOrCompute`, the refresh goroutine | store, clock, metrics, compute |
| flights, `cache.go:10-24,117-178` | value, error, panic of one computation; a WaitGroup | `startFlight`, `waitForFlight`, `finishFlight`, `wait` | the engine's callers |
| stored entries, `stored.go` | value, freshUntil, staleUntil, noExpire | `state(now)` | |
| configuration, `options.go`, `direct_options.go` | options of a cache | `New`, `Stop`, `With*` | engine, clock |
| clock, `clock.go` | an atomic time, a ticker goroutine | `Now`, `Stop` | |
| memory store, `stores/memory/store.go` | index, arena, recency ring, byte and hit counters under one mutex | `Get`, `Peek`, `PeekFreshValue`, `Set`, `Delete`, `Clear`, `DeleteByTag` | engine |
| sharded, single store, `stores/memory/` | an array of memory stores; one atomic entry | the same | engine |
| chain store, `stores/chain` | tiers | reads fall through and backfill, writes go to all | stores |
| file store, `stores/local` | files, temp files | write temp, rename | file system |
| redis store, `adapters/redis` | a prefix | envelope, storage TTL, scan and delete | redis |
| direct memoizers, `memoize*.go`, `hashing.go`, `direct_store.go` | a map by 64-bit hash of the arguments | `Memoize0..7` | engine |
| loader, `loader/` | value, error, ready, stop channels | `Value`, `Stop`, reload goroutine | refresh loop |
| background values, `background/` | an atomic value | `Keep`, `Mirror` | stores, refresh loop |
| refresh loop, `internal/refreshloop` | a ticker | `Run` | loader, background values |
| metrics, `metrics/` | counters by key, latency ring | `RecordMetric`, `Stats`, `Reset` | engine |

The hard behaviour: concurrent callers of one key meet in the flight map while the
clock passes deadlines, stores drop or refuse entries and compute functions fail or
panic; a refresh goroutine writes behind a caller that has already returned; waiters
read a flight's outcome without a lock; the memory store moves elements between
slots of an arena that is indexed and linked at the same time. What makes each
component correct, and where it could go wrong, is the `hazards` list of
`PROJECT.json`; every hazard names the properties that cover it or says why none
does yet.

## 2. The modules

| module | models | source |
|---|---|---|
| `Freshness` | entries, `NewEntry`, fresh / stale / expired | `stored.go`, `cache.go:239-246` |
| `CacheEngine` | the engine: every operation, every step another goroutine can see | `cache.go` |
| `BypassedCache` | the same cache with `Bypass()` | `cache.go` |
| `SingleFlight` | abstract: what the flight map promises | `cache.go:10-24,117-160` |
| `EngineFlights` | the refinement mapping from the engine to `SingleFlight` | |
| `CacheEngineProofs` | the inductive invariant of the engine and what follows: coalescing, the double check, deadlines, metric events, `SingleFlight`, where answers come from; any clock; `Bypass` | |
| `CacheConfig` | the builder, the merging of options, the checks of `New` | `options.go`, `direct_options.go` |
| `ArgumentHash` | how argument lists become keys | `hashing.go` |
| `ConfiguredCache` | caches and memoized functions from `New` to `Stop`: `CacheConfig` composed with the engine and the clock | `options.go`, `clock.go`, `memoize*.go`, `direct_store.go` |
| `ConfiguredProofs` | what `New` makes of any list of Options; the engine of every cache it makes; memoized functions answer for their own arguments | |
| `StoreCalls` | concurrent calls on a store, shared by the stores below | `store.go`, `tagstore.go` |
| `StoreContract` | abstract: what callers rely on when they call a store | `store.go`, `tagstore.go` |
| `LocalStore` | files by system call; kills and power loss | `stores/local/store.go` |
| `RedisStore` | one server; late, repeated, unanswered commands; expiry | `adapters/redis/store.go` |
| `ShardedStore`, `SingleStore` | shards with divided limits; one atomic entry | `stores/memory/sharded.go`, `single.go` |
| `Stores` | the four stores, calls being made of one of them | `store.go`, `tagstore.go` |
| `StoresProofs` | each of the four stores, and `Stores`, implements `StoreContract`; expiry never precedes the deadline, files are whole, the shards keep the limits of the whole | |
| `LRUStore` | abstract: a bounded map that forgets the least recently used | `stores/memory/store.go` |
| `MemoryStore` | the memory store with its arena and ring | `stores/memory/store.go` |
| `MemoryProofs` | index, arena, ring and limits of the memory store agree, for any sizes; it implements `LRUStore` | |
| `ChainStore` | concurrent operations of a chain of tiers | `stores/chain/store.go` |
| `ChainProofs` | a write no `Get` overlaps is final in every tier | |
| `MetricsStore` | `RecordMetric`, `Stats`, `Reset` by locked section | `metrics/inmem.go` |
| `MetricsProofs` | no event is lost or doubled, statistics are current, the ring holds the latest | |
| `RefreshLoop` | the ticker loop, instantiated by the next two | `internal/refreshloop/refreshloop.go` |
| `Loader` | `Value`, `Stop` and the loader's two goroutines | `loader/loader.go` |
| `LoaderProofs` | values are loaded ones; nothing happens after `Stop` | |
| `Background` | `Keep` with write-through, a remote store, `Mirror` | `background/background.go` |
| `BackgroundProofs` | versions stay in order and never go back | |
| `MCEngine`, `MCConfigured`, `MCStores`, `MCMemory`, `MCChain`, `MCMetrics`, `MCLoader`, `MCBackground` | instances for TLC | |

How they fit together: `ConfiguredCache` instantiates `EngineFlights` (and with it
`CacheEngine`) with the settings `CacheConfig` computes. The engine and the chain
see a store as a map whose single operations are atomic and which may
drop an entry at any time; that the four stores called concurrently behave like this is
`StoreContract`, and that `memory.Store` does is `LRUStore`.

### CacheEngine

A member of `Calls` is one API call; it also names the flight the call creates (as
leader in `do`, or by spawning a refresh) and the value its compute function
returns. A call creates at most one flight, so the names never clash.

| variable | code |
|---|---|
| `clock`, `store`, `flights` | `c.clock.Now()`, the store's entries, `c.flights` |
| `pc`, `op`, `key`, `now`, `entry`, `joined`, `result` | where a call is and its locals: the first clock reading, the entry found, the flight it waits for, what it returned |
| `stage`, `leadNow`, `stamped`, `outcome` | where the flight created by the call is: the second clock reading, the entry `Set` built, `f.value`/`f.err`/`f.panicValue` |
| `events` | kinds of metric events emitted for the call |

| actions | code |
|---|---|
| `StartLookup`, `PeekFresh`, `WaitForFlight`, `PeekEntry` | `GetOrCompute` up to the switch, and `Get` |
| `Revalidate`, `Do`, `Wait` | critical sections of `flightMu`, `flight.wait` |
| `LeaderReadsClock`, `RecheckFresh`, `RecheckEntry` | the double check of a leader |
| `RefreshBegins` | the refresh goroutine starts |
| `ComputeSucceeds`, `ComputeFails`, `ComputePanics`, `FlightWrites`, `FlightWriteFails` | compute and `Cache.Set` inside a flight |
| `FinishFlight`, `ReleaseWaiters` | `finishFlight`, `finishPanickedFlight`: first the map, then `wg.Done` |
| `StartSet`, `SetWrites`, `DeleteEntry`, `ClearEntries`, `LookupFails`, `WriteFails`, `RemovalFails` | the other operations and store errors |
| `Tick`, `StoreDrops` | time passes; the store loses an entry (eviction, tags, expiry, another process) |

Abstractions. Values are named by the call that made them. Time is a natural number
that only moves forward; `0` is the zero `time.Time`. A context's cancellation shows
as an error of compute or of the store. One store operation is one step. `Clear` of
a sharded store takes several steps, but a partial one is a series of `StoreDrops`.

`BypassedCache` has its own initial states and next-state relation over the same
variables: `LacksStore` and `Refrains` answer at once, `Removes` is the engine's
`DeleteEntry`, `ClearEntries` and `RemovalFails`, `StartBypassed` and `BypassComputes`
are `GetOrCompute`.

### CacheConfig and ConfiguredCache

`Build` is one call of the builder, `Apply` one `Options` value taken over by `New`,
`Verdict` the checks in the order of the code, `TakesClock` the choice of the clock.
They are pure, and `ObeysLastSetting` is the reference they are checked against.
Metrics and the refresh timeout are left out: nothing here depends on them.

In `ConfiguredCache` the constants of the engine are values of the variable `made`:
`Engine(c, K)` is the engine with the settings of the cache `c` over the keys `K`. Initial
states choose the list of options (`MakesCache`) or a function to memoize
(`MakesWrapper`: `newDirectCache`, after which every `GetOrCompute` has the hash of its
arguments for a key). `EngineSteps` is the engine's own `Next`. Added to it are a ticker
clock that steps back with the wall clock (`ClockStepsBack`, `clock.go:20-34`) and `Stop`,
after which the engine goes on with a clock that stands still. Either happens at most
once in a behaviour, to a cache that owns its clock.

A hash in `ArgumentHash` is the record of what it was started from and of the numbers mixed in since:
equal hashes are those the code computes by the same steps. Collisions of FNV-1a
itself are thereby left out, and what remains is how `hashing.go` combines
arguments. A value is named by the call that computed it, so it stands for that
call's arguments.

### StoreCalls, StoreContract and the four stores

A member of `Calls` is one call of a store operation and names the entry it writes.
`seen[c][k]` is a history variable: what `k` held at some moment while `c` ran.
`StoreContract` says that a key changes to another entry only by a running `Set` of
that key and to none at any time, and that a call which succeeds has done what it
says at some moment between its beginning and its end (`Kept`). This is deliberately weak: entries
may vanish, and `Clear` empties every key at some moment, not all at one moment.
Two parameters name what a store does not give: `late`, a `Set` may take effect after
it has ended (redis only: an unanswered command may still be executed), and `spared`,
keys a `Clear` leaves without saying so (local only: it drops the errors of `Remove`).

- `LocalStore`: each system call is a step, a file is named by the `Set` that wrote it, and
  `whole` says which files have all their bytes. Any system call may fail;
  `ProcessDies` ends any set of running calls between two steps; `PowerFails` ends all of them and may take bytes
  from any file, as nothing is synced. Names that survive are taken to be as they were.
- `RedisStore`: the server executes one command at a time. A command is on the wire
  until it is executed; the client may send it again, may give up, and may die. `StorageTTL` is computed
  before sending, the expiry counts from execution. `Clear` follows what SCAN promises:
  a key that is there throughout is returned. Client and server share one wall clock.
- `ShardedStore`: a shard is a bounded map, as `MemoryStore` is one; the hash is
  any function `home`. `ShardCount`, `ShardCap` and `ShardBytes` are `NewSharded`'s division, for
  the limits it takes without a panic (`LegalLimits`). Clear and DeleteByTag visit one shard per step.
- `SingleStore`: one pointer, replaced under a mutex, loaded once by a reader.

`Stores` puts them together: a behaviour is that of one of them, chosen by the variable `backend`. It extends
`RedisStore` and has the other three as instances with call variables of their own, so that
`ImplementsContract` is about the redis store and `OthersKeepContract` about the other three.

### MetricsStore

Each section under the map's lock or an entry's lock is a step. A counter is the set of the
events it has counted (so a lost or a doubled one shows), the latency ring is the
array of the code, and `percentiles` gives the samples it is taken from. An entry is
named by the call that created it, since a `Reset` followed by a new event makes another one
for the same key while older calls still hold the first.

### MemoryStore

Each operation holds the mutex throughout, so it is one action. `s` is the store:
`index` (total, `emptyIndex` for no entry), `elements` (the arena), `head`, `len`,
`usedBytes`. The helpers (`LinkFront`, `UnlinkLRU`, `RemoveAt`, `RepointMoved`, ...)
map a store to a store and are composed like the calls in the code. The loops are
recursive functions of the number of turns, bounded by the capacity: each turn
removes an entry or advances the scan. An entry's cost is the size of its types
(`entryBytes`), the same for all entries of a store, so `EntryBytes` is a constant
and `enforceBytes` never finds work after an overwrite. `getHits` is kept modulo the
sample, the only thing read of it. `emptyIndex` is a number no slot has.
A miss, `Peek`, `Len` and `UsedBytes` change nothing and are no actions.

`LRUStore` has the order of use as a relation between keys instead of arena and ring. `Stay` says what an
eviction keeps: the latest used entries, so many that the new one fits and that it would not fit
beside one more. `Recency` and `Entries` are the refinement mapping: the walk along `prev` from the
head, and the index followed into the arena.

### ChainStore

The chain keeps no state of its own and takes no lock, so `tiers[i][k]` is all there
is, and each operation of a tier is one step of the call `c` at tier `at[c]`.
`GetMisses`, `GetHits` and `Backfills` are the two loops of `Get`, `WritesTier` is the
loop of `Set`, `Delete` and `Clear`, `TierFails` an error that ends any of them
(a write may have been done nevertheless; an error of a backfill is dropped).
`TierDrops` is a tier's own eviction. `over` and `before` are history variables: which
calls overlapped a call and which had returned when it began.

### RefreshLoop, Loader and Background

`RefreshLoop` is a module of actions without a specification: the goroutine between
`select`, a load and a hook, with a ticker that holds one tick. `Loader` instantiates
it once and adds what `run` does around it (`FirstLoad`, `CleansUp`, `Ends`), the
relay goroutine that turns the closed channel `stop` into a cancellation
(`RelayEnds`), and the calls of `Value` and `Stop`. The n-th successful load returns
`n`, so a value tells which load it came from.

`Background` instantiates the loop twice: `Keep` with `WriteThrough` in the writer's
process, `Mirror` of the same key in a reader's, a remote store between them that
fails and forgets. A load returns the source's version at that moment. There is one writer, as in
`docs/PRODUCTION.md:201`; two of them could publish in any order. `OnValue` is two
steps (`KeepStores`, `KeepPublishes`), since a reader may look in between.

## 3. The runs

| run | asks | instance |
|---|---|---|
| `engine_ttl` | coalescing under every mix of operations; implements `SingleFlight` | 3 calls of any operation, 1 key, TTL 1, `PeekFreshValue` store (early wait) that fails, panics |
| `engine_swr` | justified answers, double check, stale fallback, metrics, deadlines | 3 calls of `GetOrCompute`/`Delete`, 1 key, stale window, KeepStaleOnError, plain store that fails |
| `engine_follower_fresh` | violated: a follower's answer may have expired before its call | 3 calls, 1 key |
| `configured` | options, five caches and six memoized functions in use, Stop and the ticker; every call returns | all lists of up to three settings; 2 calls of `GetOrCompute`/`Get`/`Set`/`Clear`, panics, store faults, fairness |
| `direct_bool` | violated: a bool after another argument | 2 calls of `f(number, bool)` |
| `stores` | the contract, and each store's own promise | 3 calls, 2 keys, 1 fault, time up to 2, one copy of a command on the wire at a time |
| `memory_lru` | arena, index, ring, limits; implements `LRUStore` | 1-4 slots, 5 keys, limits of 0-3 entries or none, exact and sampled recency, tagged and plain values |
| `chain_quiet` | what a write guarantees when nothing races it; failing and evicting tiers | 3 calls of every kind, 1 key, 3 tiers, any mix of empty and filled tiers at the start |
| `chain_backfill` | violated: a backfill restores what a `Delete` removed | 2 calls, 2 tiers, no failures |
| `metrics` | nothing lost but to a `Reset`, current statistics, the ring | 4 calls, 2 metric keys, a ring of 2 |
| `loader` | answers, `Stop`, progress, no goroutine left behind | 2 readers, 2 stoppers, 2 successful loads, failures without bound, interval positive or not |
| `background` | order and progress of versions across two processes | 2 versions, 2 faults, intervals positive or not, cancellation at any time |

Bounds. `Calls`, `Keys` and `MaxClock` bound the engine. Three calls are a leader,
a follower, and one that comes between or after them; that is enough for a flight that
overlaps two others, and the proofs carry the safety results to any number of calls and keys.
With a TTL of 1 and a clock of 3 or 4 an entry is
written, goes stale, expires and is replaced within a run. In `configured` the clock of an
explicit cache runs until what was stored at the start has passed its stale window (`Horizon`); two
calls are a leader and a follower, or a refresh and its successor. Its strings end before, at and after
the four characters `hashString` takes at a time.

Three calls on a store are two that race and one that follows or interrupts. Two keys are
needed for `Clear`, for two shards and for the single store's replacement. One
fault is one failing system call, kill, power loss, unanswered command or dropped key; what
several do together is not shown. A copy of a command that is executed after its
call has ended can meet both other calls. Two shards with capacities 2 and 1, or one with 1, and byte limits of none,
1 (below the number of shards) and 5 (one entry per shard) are the cases of the division.
Four metric calls are two events, a `Reset` and a `Stats` in any order, or three latencies in a ring of two
and the `Stats` that reads them.

The memory store's state
space is complete for its sizes: there is no bound on the number of operations. Four slots give
a removed element, a moved one and two more neighbours, all distinct; five keys make
eviction necessary at every size. `Calls`, `Keys` and metric names are symmetric where no
liveness is checked: no definition tells them apart.
Three tiers give a chain a top, a middle and a bottom, and a backfill into two of
them; three calls give a write, a `Get` or write that overlaps it and one that follows. The loader's second
load shows replacement of a value, its second stopper the double close. Two versions
and two faults let a value be lost or delayed while the next one is on its way; the
faults are bounded because a source that always fails never catches up.

Fairness (`FairSpec`). In `ConfiguredCache`, `WF(CallStep(c))` and `WF(FlightStep(c))`: a goroutine that
can run is scheduled, store operations and compute functions return. No fairness is
asked of a caller that has not started, of the clock, of `Stop` or of the store's own removals.
A waiter is enabled only when its flight has landed, so that it returns is a
consequence, not an assumption. In `Loader` and `Background` the goroutines, loads and
tickers are weakly fair, and the end of a loop is strongly fair: `select` picks among
ready cases at random, so a cancellation that is ready on every turn is taken on some
turn, but not on any given one. No caller is made to begin, to give up, to stop or to
cancel. Deadlock is checked everywhere; the only states without another step are those
in which every call has returned and every flight has landed (`Quiescent`).

Main properties.
- `OneComputationPerKey`: at most one leader or refresh computes and stores per key.
- `LeaderNeverRecomputesFresh`: while a leader computes, no other flight's value in
  the store is fresh by the leader's clock; only an explicit `Set` can have raced it.
- `ServedValueIsJustified`: every answer is fresh at the call's own clock, within its
  stale window, just computed, shared by a flight of the same key, or a configured fallback.
- `KeepStaleHidesErrors`: with an entry in hand no caller sees an error.
- `FreshnessNeverMovesBack`: flights never replace an entry by an older one.
- `MetricsAddUp`: one lookup event per call (none for a call that waited before it
  read an entry), exactly one outcome per refresh.
- `ImplementsSingleFlight`: registration, landing and waiting are those of the abstract flight map.
- `EveryCallReturns`: calls return and the flights they created land, whatever the
  settings, whatever fails or panics, and also when the cache is stopped meanwhile.
- `ObeysSettings`: the last word on an option counts, however the settings are spread over
  several `Options`; the cache owns its clock exactly if it made it.
- `EngineStaysSound`, `ServedValueIsJustified` in `configured`: what `New` accepts meets
  the assumptions of the proofs, and the engine's invariants survive a clock that
  steps back or stands still.
- `BypassAlwaysComputes`: with bypass no caller gets a stored or shared value and nothing is stored.
- `ImplementsContract` for the redis store, `OthersKeepContract` for the local, sharded and single ones; `FilesAreWhole` (a file under a key's
  name is complete unless power was lost, and temp files outlive a `Set` only after a fault),
  `ExpiryFitsDeadline` (the server's expiry is never before the entry's deadline, and never missing
  when there is one), `TotalsWithinLimits` (shards keep the store's limits together).
- `NothingLost`, `StatsAreCurrent`, `RingHoldsLatest` for the metrics.
- `IndexMatchesArena`, `RingIsWhole`, `WithinLimits`, `ImplementsLRU` for the store.
- `QuietWriteIsFinal`: once a `Set`, `Delete` or `Clear` that no `Get` or `Set` of its key
  overlapped has returned, no tier shows anything older, whatever fails or is evicted.
- `AnswersAreValues`, `NothingAfterStop`, `StopEnds`, `KeepsLoading`, `NoGoroutineLeft`
  for the loader.
- `NeverGoesBack`, `CatchesUp`, `CancelEnds` for the pipeline from `Keep` to `Mirror`.
- `AnswersOwnArguments`: no call of a memoized function gets another argument list's value.

Definitions commented `Mutant:` are not part of any specification. Each is a plausible
bug in the operator that follows it; `PROJECT.json` lists which property of which run
notices when it takes that operator's place.

Findings (details in `PROJECT.json`).
1. `docs/API.md:122` promises a fresh cached value or a computed one. The leader's
   double check (`cache.go:316-327`) may end in a cached value; a call that starts
   after that value's deadline but before `finishFlight` joins the flight and returns it
   (`cache.go:294`).
2. `docs/API.md:314` says that `Delete` and `Clear` propagate to every tier of a chain.
   A `Get` that found the entry in a lower tier before the `Delete` puts it back
   into the upper one after it (`stores/chain/store.go:34`), where it stays.
3. `hashBool` returns a constant and forgets the running hash (`hashing.go:107`), so all
   arguments before a bool are ignored: `f(1, true)` and `f(2, true)` share an entry.

Seen while reading and left without a run: `Delete` and `Clear` return
`ErrMissingStore` under `Bypass()` (`cache.go:255,266`), which `docs/API.md:172` exempts;
a byte limit below the number of shards leaves some shards with the limit 0, which
means none (`stores/memory/sharded.go:51`; the last premise of `TotalsWithinLimits`);
`hashString` puts no separator between adjacent strings, so `("ab", "c")` and
`("a", "bc")` share a key; an argument of a named type matches no case of
`hashing.go`'s switch; `Value` waits for its caller's context on a loader that was
stopped before its first success (`loader/loader.go:118`).

## 4. The proofs

All theorems hold for every set of calls, keys and values of the options, those about the
engine under `EngineAssumption` and `FreshnessAssumption` (of the settings no more than
`New` lets through, which `NewMeets` proves), the others under `ChainAssumption`, `LoaderAssumption`,
`BackgroundAssumption`, `CallsAssumption` (of the stores' calls and of `ConfiguredCache`), `NoneAssumption`, `ListsAssumption`, `RedisAssumption`, `MetricsAssumption` and `MemoryAssumption`. TLC evaluates each assumption on the runs of its module.
`NoneAssumption` tells nil from every option, `ListsAssumption` says that lists of Options are made by the
builder. `Stores` assumes `LimitsAssumption`
(`LegalLimits`: capacity and shards are those `NewSharded` takes without a panic) and `NilAssumption` (`NilIsNoEntry`: nil is not
an entry's pointer); the theorems about one store, which use only that store's module, have them as hypotheses.

- `EngineInvariant`: `Spec => []EngineInv`. `OneComputationPerKey` is not inductive:
  it needs that a flight under way is the one registered for its key
  (`FlightMapExact`), which needs that a call with a flight is not about to
  create another and that waiters and leaders agree with their flights
  (`CallsMatchFlights`), and for the double check that what a flight writes carries
  its own call (`StampsCarryTheirCall`). One step per action for each conjunct;
  `OpenStep`, `CloseStep`, `RegisteredStep` treat the three ways a step can touch the flight map.
- `TypeCorrect`, `Coalescing`, `DoubleCheck` follow. `DoubleCheck` is the subtle one: a
  flight that writes is registered, so it cannot overlap the leader's recheck and computation.
- `DeadlinesStayOrdered`, `FlightsMoveForward`: `DeadlinesOrdered` adds that a
  flight about to write carries the latest deadline of its key. `StepShape` reduces
  all actions but two to quiet ones.
- `AnswersAreSourced`, and from it `AnswersAreJustified` (`ServedValueIsJustified`) and
  `StaleHidesErrors` (`KeepStaleHidesErrors`): the property looks at what a call returned and at
  the entry its value was stamped with, so `AnswersInv` follows values on their way. Every entry in the store or in a
  caller's hand is the one built for its value, under the key of the call that made it
  (`StoreKnown`, `EntriesKnown`); a flight that comes to another value than its own found it
  fresh by its leader's clock (`OutcomeKnown`). `AnsweringStep` leaves four ways to answer, and
  `Steady` keeps an answer justified afterwards: stamps, clock readings and outcomes never change
  once they are set. `Orderly` says what a call has at each of its places.
- `CountsKeepPace`, and from it `EventsAddUp` (`MetricsAddUp`): `LookupCounted` and `RefreshCounted`
  say at each place of a call, and of the refresh it spawned, what has been counted so far. That a
  place is reached with the right entry in hand is taken from the two invariants above.
- `AnyClockInvariant`, `AnyClockIsSound`: the invariants above except `DeadlinesOrdered` do not mention the clock (entries,
  callers and leaders keep the times they have read), so they survive `ClockTurns`, a step to any time. This is what
  `configured` asks of the engine (`ServedValueIsJustified`, `EngineStaysSound`): the clocks of `ConfiguredCache`, stopped or set back, do less.
- `ConfigInvariant`, and from it `ConfiguredIsJustified` (`ServedValueIsJustified`), `ConfiguredStaysSound`
  (`EngineStaysSound`), `ConfiguredBypass` (`BypassAlwaysComputes`): the properties of `configured`, for every list of Options.
  In `ConfiguredCache` the settings are a variable, and an instance with a variable for an argument has no theorems to cite.
  But `made` never changes, so a behaviour has one value of it: `Fits(made, DOMAIN store)` names that value by the constants
  of `ConfiguredProofs`, and `Fixed` is the engine with them. `Fits` excludes no behaviour: whatever the first state is, there are
  constants that fit it, and the theorems hold for all. Each action of the one engine is shown to be the other's
  (`StartsAgree` and what follows it), so the invariants of any clock carry over, through `Stop` and a clock set back.
- `LastSettingCounts` (`ObeysSettings`): `Opts`, `New` and `FlattenSeq` are folds, that is, a `CHOOSE` of a function which
  satisfies an equation. `FoldExists` and `FoldTurns` prove that there is one and what it is after each turn, without
  induction over an operator: the least turn at which it failed would have a predecessor (`Least`, `TurnByTurn`). Then
  `CacheSays` relates the cache after each turn to the settings so far: of two lists the last word is the second's, if it has one.
  `NewMeets`: every cache `New` makes meets the assumptions of the engine.
- `MemoizedAnswers` (`AnswersOwnArguments`): an answer is justified, so it was computed under the key of the call, and
  `ArgsInv` ties the key of a call to its arguments. What remains is that keys tell arguments apart: `KeysSeparate`, a hypothesis, for it is
  false of bools and adjacent strings (section 3). `MemoizedNumbersAnswer` discharges it for any number of numbers, at most the last
  argument being a string: the running hash of a fold has one word more for each.
- `BypassComputesItself`: the same for a cache with `Bypass`, under any clock and without an expiration policy.
- `RefinesSingleFlight`: `Spec => ImplementsSingleFlight`, which `engine_ttl` checks: initial states map to
  initial states, each action to a step or a stutter of `SingleFlight`.
- `ChainInvariant`, `QuietWritesAreFinal`, for any number of tiers, calls and keys. The
  write must be followed while it runs: `QuietSoFar` says what the tiers it has
  reached hold, `CallsMeet` that two calls overlap or one precedes the other, and
  `LaterGetsAgree` that a `Get` which began after the write carries nothing else in
  its hands, or its backfill would spoil what holds. `Disturbers` is the heart: whoever is
  active on the key of a quiet write is another removal or such a `Get`.
- `LoaderInvariant`, `ValueIsLoaded`, `StopIsFinal`: `LoaderInv` ties the places of the
  goroutine (`run`, `loop`) to each other and to the callers that have returned.
- `VersionsInOrder`, `ValuesNeverGoBack`: `BackgroundInv` orders the versions along the
  pipeline, including the ones in flight in either loop: a lost entry must not let an older
  one through, so what the mirror's loop has read is tied to both ends.

- `LocalInvariant`, `FilesStayWhole`, `LocalStoreKeepsContract`: `Spec => ImplementsContract` for
  `LocalStore`, the part of `OthersKeepContract` about that store, with any number of
  calls, failing system calls, kills and losses of power. `FilesInv` says that a file gets its name only when it is
  complete and its `Set` is over, hence that a file with a name does not change while anybody runs.
  `SeenBy` ties what a call holds (an open file, a listing) to the history the contract keeps:
  what a `Get` will answer its key has held, and a key not left in a `Clear`'s list was empty once.
- `SingleStoreKeepsContract`, `ShardedInvariant`, `ShardedStoreKeepsContract`: the other two parts of
  `OthersKeepContract`, for any number of calls, keys and shards and any hash. The pointer of the
  single store needs no invariant beyond types. A `Clear` of the shards holds no lock over all of them, so `VisitedWasSeen` says
  that each key of a shard it has left was once without what it removes, whatever was set there since.
- `ShardsKeepLimits` (`TotalsWithinLimits` of the sharded store): the parts that `NewSharded` deals out add
  up to the capacity (`SumOfParts`, `SumIsUnique`: the recursive sum is compared with an explicit one),
  and if no shard exceeds its part, the whole does not exceed the total (`PartsKeepTotal`), shard by shard:
  the first shard that broke the sum would have no predecessor (`Least`, `TurnByTurn`). `ShardsKeep` is the
  invariant: a `Set` leaves its shard within its part, every other step only removes.
- `RedisInvariant`, `ExpiryFits` (`ExpiryFitsDeadline`), `RedisStoreKeepsContract`: the TTL of a `Set`
  fits when it is sent, and late or repeated execution only makes the expiry later. `ReplyWasSeen` and
  `DeletedWasSeen` tie replies on their way and the pages of a SCAN to what the server held while the
  call ran, which is what the contract asks about.
- `StoresInvariant`, and from it `StoresKeepFilesWhole` (`FilesAreWhole`), `StoresKeepLimits` (`TotalsWithinLimits`) and
  `AllStoresKeepContract` (`OthersKeepContract`, with `ImplementsContract`): the properties of the run `stores`, about `Stores`. `backend` never
  changes and what one store does leaves the variables of the others alone, so `OthersInv` is the invariant of the
  store that is called, and each step is one of that store's. `Contents` and `Left` are what the called store has:
  `LocalPart`, `SinglePart` and `ShardedPart` show that a step of its own contract is a step of `OthersContract`.
- `RecordsAreKept`, and from it `NoEventIsLost` (`NothingLost`), `StatsAnswersAreCurrent`
  (`StatsAreCurrent`), `TheRingHoldsTheLatest` (`RingHoldsLatest`): an entry removed by a `Reset` never comes
  back (it is named by its creator, who creates once), so an entry in the map is the one its calls
  hold unless a `Reset` came between. `RingOf` says which samples an array of any size holds.
- `MemoryInvariant`, and from it `ArenaIsIndexed` (`IndexMatchesArena`), `TheRingIsWhole` (`RingIsWhole`),
  `LimitsHold` (`WithinLimits`): the links alone do not say that the ring is one, so
  `MemoryInv` says that some sequence `w` lists the slots in use, each once, in the order of `prev`. Each link
  operation turns it into another one: `LinkFront` puts a slot before it (`Prepend`), `UnlinkLRU`
  leaves one out (`Skip`), `RepointMoved` renames one (`Rename`); `RemoveAt` is the last two. The loops of
  `Set` and `DeleteByTag` are functions of the number of turns, and what holds after every turn is shown by a
  least counterexample (`Least`, `TurnByTurn`).
- `RefinesLRU`: `Spec => ImplementsLRU`. The keys of the slots in `w` are the order of use (`InOrder`), and
  there is only one such `w` (`WalkIsRing`), so the mapping computes it. `Forgot` says that a store is another one
  without some keys, in the same order; `RemoveAt` forgets one key, so the loop of `Set` forgets the oldest ones
  until the new entry fits (`RoomEvicts`) and the scan of `DeleteByTag` exactly the tagged ones (`TaggedForgotten`: what lies
  behind the scan has no tag, and what is moved into a hole lies ahead of it).

Only model-checked: liveness (`EveryCallReturns`, `StopEnds`, `KeepsLoading`, `NoGoroutineLeft`,
`CatchesUp`, `CancelEnds`), which is out of this prover's reach; and that keys tell arguments apart for the mixed
lists of arguments in `configured` (the tuples of one type each are proved).

## 5. Not modelled, and the plan

- Engine: contexts (a cancellation is an error of compute or of the store; followers ignore their own),
  `runtime.Goexit` in compute, a panic in a refresh
  goroutine (it ends the process), the latency and duration of events. A clock that
  steps back is in `ConfiguredCache` only; of the theorems, `DeadlinesStayOrdered`, `FlightsMoveForward`,
  `DoubleCheck` and `RefinesSingleFlight` are about one that advances.
- Interfaces, error values and serializers have no state. `OnError` and the other user callbacks
  do nothing that comes back into the library.
- Memoized functions: the arithmetic of FNV-1a and its collisions, and the panic on an
  argument of an unsupported type. Adjacent strings are left out of `configured`, as they
  share keys (section 3). The `Memoize0..7` variants differ in nothing but the number of arguments.
- Redis: the formatting of keys (a prefix that is a prefix of another one), more than one server,
  clocks of client and server that differ. With KeepStaleOnError nothing is left to fall back
  on once the server has dropped an entry at its storage TTL.
- Chain: a write of a tier that fails has landed or never will. For a redis tier that times
  out this is not so; `QuietWriteIsFinal` does not cover such a tier.
- Local: the order in which names and bytes reach the disk, beyond files that lose bytes.
- Background: two writers of one value (`Keep` without write-through
  is the model with the remote store ignored).
- Metrics: the hit rate, and which of the samples the three percentiles are.

Plan. Models to come: the chain over tiers whose failed writes land later; two writers of one
background value.
