----------------------------- MODULE CacheEngine -----------------------------
(***************************************************************************)
(* The cache engine (cache.go): Get, Set, Delete, Clear and GetOrCompute   *)
(* of one Cache, called from many goroutines over one store.               *)
(*                                                                         *)
(* Each member of Calls is one API call, made at most once.  A call creates*)
(* at most one flight: as the leader of a miss (Cache.do) or by spawning a *)
(* background refresh (Cache.refresh).  So the flight, the goroutine that  *)
(* runs it and the value its compute function returns are all named by the *)
(* call.  pc is where the caller is, stage where the flight it created is. *)
(* A step ends where another goroutine can see or disturb what it did:     *)
(* each clock reading that matters, each store operation and each critical *)
(* section of flightMu is a step of its own.  BypassedCache has the cache  *)
(* under Bypass.                                                           *)
(***************************************************************************)
EXTENDS Freshness, FiniteSets

CONSTANTS Calls,           \* API calls, also the flights and values they create
          Keys,
          Old,             \* the value the store may hold at the start
          None,            \* nil, absent, the zero value of V
          Ops,             \* the API operations callers use
          KeepStaleOnError, \* the KeepStaleOnError() option
          FreshValueStore, \* the store implements PeekFreshValue
          StoreFaults,     \* store operations may fail
          Panics,          \* compute functions may panic
          MaxClock         \* bound on the clock

AllOps == {"GetOrCompute", "Get", "Set", "Delete", "Clear"}

Values == Calls \cup {Old}

Errors == {"nil", "compute", "store", "panic"}
Results == [value : Values \cup {None}, err : Errors]

ASSUME EngineAssumption ==
    /\ None \notin Values /\ None \notin Keys /\ Old \notin Calls
    /\ None \notin Entries(Values) /\ None \notin Results
    /\ Ops \subseteq AllOps
    /\ {KeepStaleOnError, FreshValueStore, StoreFaults, Panics} \subseteq BOOLEAN
    /\ MaxClock \in Nat

VARIABLES
    clock,    \* Clock.Now()
    store,    \* store[k]: the entry under k, or None
    flights,  \* Cache.flights: the flight registered for k, or None
    pc, op, key,  \* where call c is, its operation and its key
    now,      \* clock reading at the start of the call
    entry,    \* the entry GetOrCompute found before deciding, or None
    joined,   \* the flight the call waits for, or None
    result,   \* what the call returned, or None
    stage,    \* where the flight created by c is
    leadNow,  \* the leader's second clock reading
    stamped,  \* the entry Cache.Set built for c's value, or None
    outcome,  \* value and err of the flight created by c, or None
    events    \* kinds of metric events emitted on behalf of call c

callVars   == <<pc, op, key, now, entry, joined, result>>
flightVars == <<stage, leadNow, stamped, outcome>>
vars == <<clock, store, flights, callVars, flightVars, events>>

CallPCs == {"new", "peek fresh", "wait for flight", "peek entry",
            "revalidate", "do", "waiting", "leading", "write", "returned"}
Stages  == {"none", "read clock", "recheck fresh", "recheck entry", "spawned",
            "computing", "write", "finish", "done", "landed"}

Kinds == {"hit", "miss", "stale hit", "set", "delete",
          "refresh start", "refresh success", "refresh error"}

\* Between registration in c.flights and the delete of finishFlight.
Registered == {"read clock", "recheck fresh", "recheck entry", "spawned",
               "computing", "write", "finish"}

OldEntry == NewEntry(Old, 1)

Init ==
    /\ clock = 1
    /\ store \in [Keys -> {OldEntry, None}]
    /\ flights = [k \in Keys |-> None]
    /\ pc = [c \in Calls |-> "new"]
    /\ op \in [Calls -> Ops]
    /\ key \in [Calls -> Keys]
    /\ now = [c \in Calls |-> 0]
    /\ entry = [c \in Calls |-> None]
    /\ joined = [c \in Calls |-> None]
    /\ result = [c \in Calls |-> None]
    /\ stage = [c \in Calls |-> "none"]
    /\ leadNow = [c \in Calls |-> 0]
    /\ stamped = [c \in Calls |-> None]
    /\ outcome = [c \in Calls |-> None]
    /\ events = [c \in Calls |-> {}]

------------------------------------------------------------------------------
(* Helpers *)

Return(c, v, err) ==
    /\ pc' = [pc EXCEPT ![c] = "returned"]
    /\ result' = [result EXCEPT ![c] = [value |-> v, err |-> err]]

Emit(c, kinds) == events' = [events EXCEPT ![c] = @ \cup kinds]

GoTo(c, to) == pc' = [pc EXCEPT ![c] = to]

Advance(c, to) == stage' = [stage EXCEPT ![c] = to]

Has(k) == store[k] # None

\* waitForFlight is used only when a flight's value is the only answer.
WaitsEarly == FreshValueStore /\ StaleTTL = 0 /\ ~KeepStaleOnError

\* Mutant: the fallback looks whether the entry is still in its stale window.
FallsBackWithinWindow(c, o) ==
    o.err \notin {"nil", "panic"} /\ entry[c] # None /\ KeepStaleOnError
    /\ ~IsExpired(entry[c], now[c])

\* The stale fallback of GetOrCompute: the flight failed, an entry was found.
FallsBack(c, o) ==
    /\ o.err \notin {"nil", "panic"}
    /\ entry[c] # None
    /\ KeepStaleOnError

\* The caller of a flight gets its outcome (cache.go:315,334-338).
ReturnOutcome(c, o) ==
    IF FallsBack(c, o)
    THEN Return(c, entry[c].value, "nil") /\ Emit(c, {"refresh error"})
    ELSE Return(c, o.value, o.err) /\ UNCHANGED events

------------------------------------------------------------------------------
(* Starting a call *)

\* Get and GetOrCompute read the clock once, before any store operation.
StartLookup(c) ==
    /\ pc[c] = "new" /\ op[c] \in {"Get", "GetOrCompute"}
    /\ now' = [now EXCEPT ![c] = clock]
    /\ GoTo(c, IF FreshValueStore THEN "peek fresh" ELSE "peek entry")
    /\ UNCHANGED <<clock, store, flights, op, key, entry, joined, result,
                   flightVars, events>>

\* Set builds the entry from its own clock reading, then writes it.
StartSet(c) ==
    /\ pc[c] = "new" /\ op[c] = "Set"
    /\ stamped' = [stamped EXCEPT ![c] = NewEntry(c, clock)]
    /\ GoTo(c, "write")
    /\ UNCHANGED <<clock, store, flights, op, key, now, entry, joined, result,
                   stage, leadNow, outcome, events>>

SetWrites(c) ==
    /\ pc[c] = "write"
    /\ store' = [store EXCEPT ![key[c]] = stamped[c]]
    /\ Return(c, None, "nil")
    /\ Emit(c, {"set"})
    /\ UNCHANGED <<clock, flights, op, key, now, entry, joined, flightVars>>

DeleteEntry(c) ==
    /\ pc[c] = "new" /\ op[c] = "Delete"
    /\ store' = [store EXCEPT ![key[c]] = None]
    /\ Return(c, None, "nil")
    /\ Emit(c, {"delete"})
    /\ UNCHANGED <<clock, flights, op, key, now, entry, joined, flightVars>>

ClearEntries(c) ==
    /\ pc[c] = "new" /\ op[c] = "Clear"
    /\ store' = [k \in Keys |-> None]
    /\ Return(c, None, "nil")
    /\ UNCHANGED <<clock, flights, op, key, now, entry, joined, flightVars,
                   events>>

------------------------------------------------------------------------------
(* Looking up an entry *)

Hit(c, v) == Return(c, v, "nil") /\ Emit(c, {"hit"})

\* Mutant: a store that hands out what it has, fresh or not.
PeekAnything(c) ==
    /\ pc[c] = "peek fresh"
    /\ IF Has(key[c]) THEN Hit(c, store[key[c]].value)
       ELSE GoTo(c, "peek entry") /\ UNCHANGED <<result, events>>
    /\ UNCHANGED <<clock, store, flights, op, key, now, entry, joined, flightVars>>

\* getFreshValue on a store that implements PeekFreshValue.
PeekFresh(c) ==
    /\ pc[c] = "peek fresh"
    /\ \/ /\ Has(key[c]) /\ IsFresh(store[key[c]], now[c])
          /\ Hit(c, store[key[c]].value)
       \/ /\ ~(Has(key[c]) /\ IsFresh(store[key[c]], now[c]))
          /\ GoTo(c, IF op[c] = "GetOrCompute" /\ WaitsEarly
                     THEN "wait for flight" ELSE "peek entry")
          /\ UNCHANGED <<result, events>>
    /\ UNCHANGED <<clock, store, flights, op, key, now, entry, joined, flightVars>>

\* waitForFlight: one look at the flight map, before the entry is read.
WaitForFlight(c) ==
    /\ pc[c] = "wait for flight"
    /\ joined' = [joined EXCEPT ![c] = flights[key[c]]]
    /\ GoTo(c, IF flights[key[c]] = None THEN "peek entry" ELSE "waiting")
    /\ UNCHANGED <<clock, store, flights, op, key, now, entry, result,
                   flightVars, events>>

\* getEntry, then the switch on the entry's state.  An entry the switch does
\* not serve stays in hand for the fallback.
PeekEntry(c) ==
    /\ pc[c] = "peek entry"
    /\ LET e == store[key[c]]
       IN  \/ /\ Has(key[c]) /\ IsFresh(e, now[c])
              /\ Hit(c, e.value)
              /\ UNCHANGED entry
           \/ /\ ~(Has(key[c]) /\ IsFresh(e, now[c])) /\ op[c] = "Get"
              /\ Return(c, None, "nil")
              /\ UNCHANGED <<entry, events>>
           \/ /\ Has(key[c]) /\ IsStale(e, now[c]) /\ op[c] = "GetOrCompute"
              /\ entry' = [entry EXCEPT ![c] = e]
              /\ GoTo(c, "revalidate")
              /\ Emit(c, {"stale hit"})
              /\ UNCHANGED result
           \/ /\ Has(key[c]) => IsExpired(e, now[c])
              /\ op[c] = "GetOrCompute"
              /\ entry' = [entry EXCEPT ![c] = e]
              /\ GoTo(c, "do")
              /\ Emit(c, {"miss"})
              /\ UNCHANGED result
    /\ UNCHANGED <<clock, store, flights, op, key, now, joined, flightVars>>

\* An error of the store before any flight is returned as it is.
LookupFails(c) ==
    /\ StoreFaults /\ pc[c] \in {"peek fresh", "peek entry"}
    /\ Return(c, None, "store")
    /\ UNCHANGED <<clock, store, flights, op, key, now, entry, joined,
                   flightVars, events>>

\* The same for the write of Set, and for Delete and Clear.
WriteFails(c) ==
    /\ StoreFaults /\ pc[c] = "write"
    /\ Return(c, None, "store")
    /\ UNCHANGED <<clock, store, flights, op, key, now, entry, joined,
                   flightVars, events>>

RemovalFails(c) ==
    /\ StoreFaults /\ pc[c] = "new" /\ op[c] \in {"Delete", "Clear"}
    /\ Return(c, None, "store")
    /\ UNCHANGED <<clock, store, flights, op, key, now, entry, joined,
                   flightVars, events>>

------------------------------------------------------------------------------
(* Joining or starting a flight: the critical sections of flightMu *)

\* refresh after a stale hit: the stale value is returned in every case, a
\* goroutine is spawned only if no flight is registered.
Revalidate(c) ==
    /\ pc[c] = "revalidate"
    /\ Return(c, entry[c].value, "nil")
    /\ \/ /\ flights[key[c]] = None
          /\ flights' = [flights EXCEPT ![key[c]] = c]
          /\ Advance(c, "spawned")
       \/ /\ flights[key[c]] # None
          /\ UNCHANGED <<flights, stage>>
    /\ UNCHANGED <<clock, store, op, key, now, entry, joined, leadNow, stamped,
                   outcome, events>>

\* Mutant: do registers its flight over whatever is registered.
DoUnchecked(c) ==
    /\ pc[c] = "do"
    /\ flights' = [flights EXCEPT ![key[c]] = c]
    /\ GoTo(c, "leading")
    /\ Advance(c, "read clock")
    /\ UNCHANGED <<clock, store, op, key, now, entry, joined, result, leadNow,
                   stamped, outcome, events>>

\* do: lead a new flight or wait for the registered one.
Do(c) ==
    /\ pc[c] = "do"
    /\ \/ /\ flights[key[c]] = None
          /\ flights' = [flights EXCEPT ![key[c]] = c]
          /\ GoTo(c, "leading")
          /\ Advance(c, "read clock")
          /\ UNCHANGED joined
       \/ /\ flights[key[c]] # None
          /\ joined' = [joined EXCEPT ![c] = flights[key[c]]]
          /\ GoTo(c, "waiting")
          /\ UNCHANGED <<flights, stage>>
    /\ UNCHANGED <<clock, store, op, key, now, entry, result, leadNow, stamped,
                   outcome, events>>

\* Mutant: the follower reads value and err as soon as they are assigned.
WaitForOutcome(c) ==
    /\ pc[c] = "waiting" /\ outcome[joined[c]] # None
    /\ ReturnOutcome(c, outcome[joined[c]])
    /\ UNCHANGED <<clock, store, flights, op, key, now, entry, joined, flightVars>>

\* flight.wait: a follower re-panics or returns what the flight came to.
Wait(c) ==
    /\ pc[c] = "waiting" /\ stage[joined[c]] = "landed"
    /\ ReturnOutcome(c, outcome[joined[c]])
    /\ UNCHANGED <<clock, store, flights, op, key, now, entry, joined, flightVars>>

------------------------------------------------------------------------------
(* Running a flight: the closure GetOrCompute gives to do, and the body of *)
(* the goroutine refresh spawns                                            *)

Finishing(c, v, err) ==
    /\ outcome' = [outcome EXCEPT ![c] = [value |-> v, err |-> err]]
    /\ Advance(c, "finish")

LeaderReadsClock(c) ==
    /\ stage[c] = "read clock"
    /\ leadNow' = [leadNow EXCEPT ![c] = clock]
    /\ Advance(c, IF FreshValueStore THEN "recheck fresh" ELSE "recheck entry")
    /\ UNCHANGED <<clock, store, flights, callVars, stamped, outcome, events>>

\* Mutants: no double check; one that serves an entry in any state; one that
\* counts a hit after the miss already counted.
NoRecheck(c, next) ==
    /\ Advance(c, "computing")
    /\ UNCHANGED <<clock, store, flights, callVars, leadNow, stamped, outcome, events>>

RecheckServesAny(c, next) ==
    /\ IF Has(key[c]) THEN Finishing(c, store[key[c]].value, "nil")
                      ELSE Advance(c, next) /\ UNCHANGED outcome
    /\ UNCHANGED <<clock, store, flights, callVars, leadNow, stamped, events>>

RecheckCountsHit(c, next) ==
    /\ IF Has(key[c]) /\ IsFresh(store[key[c]], leadNow[c])
       THEN Finishing(c, store[key[c]].value, "nil") /\ Emit(c, {"hit"})
       ELSE Advance(c, next) /\ UNCHANGED <<outcome, events>>
    /\ UNCHANGED <<clock, store, flights, callVars, leadNow, stamped>>

\* The double check under the flight: a value another flight or a Set stored
\* since the first look is served instead of computing again.
Recheck(c, next) ==
    /\ \/ /\ Has(key[c]) /\ IsFresh(store[key[c]], leadNow[c])
          /\ Finishing(c, store[key[c]].value, "nil")
       \/ /\ ~(Has(key[c]) /\ IsFresh(store[key[c]], leadNow[c]))
          /\ Advance(c, next)
          /\ UNCHANGED outcome
       \/ /\ StoreFaults
          /\ Finishing(c, None, "store")
    /\ UNCHANGED <<clock, store, flights, callVars, leadNow, stamped, events>>

RecheckFresh(c) == stage[c] = "recheck fresh" /\ Recheck(c, "recheck entry")
RecheckEntry(c) == stage[c] = "recheck entry" /\ Recheck(c, "computing")

RefreshBegins(c) ==
    /\ stage[c] = "spawned"
    /\ Advance(c, "computing")
    /\ Emit(c, {"refresh start"})
    /\ UNCHANGED <<clock, store, flights, callVars, leadNow, stamped, outcome>>

IsRefresh(c) == pc[c] = "returned"

IfRefresh(c, kind) == IF IsRefresh(c) THEN {kind} ELSE {}

\* Mutant: the flight leaves the map before its value is stored.
ReleasesBeforeWrite(c) ==
    /\ stage[c] = "computing"
    /\ stamped' = [stamped EXCEPT ![c] = NewEntry(c, clock)]
    /\ flights' = [flights EXCEPT ![key[c]] = None]
    /\ Advance(c, "write")
    /\ UNCHANGED <<clock, store, callVars, leadNow, outcome, events>>

\* compute returned a value; Cache.Set stamps it with the clock of that moment.
ComputeSucceeds(c) ==
    /\ stage[c] = "computing"
    /\ stamped' = [stamped EXCEPT ![c] = NewEntry(c, clock)]
    /\ Advance(c, "write")
    /\ UNCHANGED <<clock, store, flights, callVars, leadNow, outcome, events>>

ComputeFails(c) ==
    /\ stage[c] = "computing"
    /\ Finishing(c, None, "compute")
    /\ Emit(c, IfRefresh(c, "refresh error"))
    /\ UNCHANGED <<clock, store, flights, callVars, leadNow, stamped>>

\* Mutant: do recovers from no panic, the flight stays in the map unfinished.
PanicEscapes(c) ==
    /\ Panics /\ stage[c] = "computing" /\ ~IsRefresh(c)
    /\ Return(c, None, "panic")
    /\ Advance(c, "none")
    /\ UNCHANGED <<clock, store, flights, op, key, now, entry, joined, leadNow,
                   stamped, outcome, events>>

\* A panic in a refresh goroutine is recovered by nobody and ends the process.
ComputePanics(c) ==
    /\ Panics /\ stage[c] = "computing" /\ ~IsRefresh(c)
    /\ Finishing(c, None, "panic")
    /\ UNCHANGED <<clock, store, flights, callVars, leadNow, stamped, events>>

FlightWrites(c) ==
    /\ stage[c] = "write"
    /\ store' = [store EXCEPT ![key[c]] = stamped[c]]
    /\ Finishing(c, c, "nil")
    /\ Emit(c, {"set"} \cup IfRefresh(c, "refresh success"))
    /\ UNCHANGED <<clock, flights, callVars, leadNow, stamped>>

\* Mutant: refresh returns from a failed Set without an event.
RefreshFailsSilently(c) ==
    /\ StoreFaults /\ stage[c] = "write"
    /\ Finishing(c, c, "store")
    /\ UNCHANGED <<clock, store, flights, callVars, leadNow, stamped, events>>

\* The computed value travels with the error of Cache.Set.
FlightWriteFails(c) ==
    /\ StoreFaults /\ stage[c] = "write"
    /\ Finishing(c, c, "store")
    /\ Emit(c, IfRefresh(c, "refresh error"))
    /\ UNCHANGED <<clock, store, flights, callVars, leadNow, stamped>>

\* finishFlight and finishPanickedFlight: first the map, then the waiters.
FinishFlight(c) ==
    /\ stage[c] = "finish"
    /\ flights' = [flights EXCEPT ![key[c]] = None]
    /\ Advance(c, "done")
    /\ UNCHANGED <<clock, store, callVars, leadNow, stamped, outcome, events>>

ReleaseWaiters(c) ==
    /\ stage[c] = "done"
    /\ Advance(c, "landed")
    /\ IF pc[c] = "leading" THEN ReturnOutcome(c, outcome[c])
                            ELSE UNCHANGED <<pc, result, events>>
    /\ UNCHANGED <<clock, store, flights, op, key, now, entry, joined, leadNow,
                   stamped, outcome>>

------------------------------------------------------------------------------
(* The environment *)

Tick ==
    /\ clock < MaxClock
    /\ clock' = clock + 1
    /\ UNCHANGED <<store, flights, callVars, flightVars, events>>

\* Eviction, deletion by tag, a backend's own expiry, another process.
StoreDrops(k) ==
    /\ Has(k)
    /\ store' = [store EXCEPT ![k] = None]
    /\ UNCHANGED <<clock, flights, callVars, flightVars, events>>

\* Every call has returned and every flight has landed: nothing is left to do.
Quiescent ==
    /\ \A c \in Calls : pc[c] = "returned" /\ stage[c] \in {"none", "landed"}
    /\ UNCHANGED vars

StartCall(c) ==
    \/ StartLookup(c) \/ StartSet(c) \/ DeleteEntry(c) \/ ClearEntries(c)
    \/ RemovalFails(c)

CallStep(c) ==
    \/ SetWrites(c) \/ PeekFresh(c) \/ WaitForFlight(c) \/ PeekEntry(c)
    \/ LookupFails(c) \/ WriteFails(c) \/ Revalidate(c) \/ Do(c) \/ Wait(c)

FlightStep(c) ==
    \/ LeaderReadsClock(c) \/ RecheckFresh(c) \/ RecheckEntry(c)
    \/ RefreshBegins(c) \/ ComputeSucceeds(c) \/ ComputeFails(c)
    \/ ComputePanics(c) \/ FlightWrites(c) \/ FlightWriteFails(c)
    \/ FinishFlight(c) \/ ReleaseWaiters(c)

Next ==
    \/ \E c \in Calls : StartCall(c) \/ CallStep(c) \/ FlightStep(c)
    \/ Tick
    \/ \E k \in Keys : StoreDrops(k)
    \/ Quiescent

Spec == Init /\ [][Next]_vars

------------------------------------------------------------------------------
(* Correctness *)

SharedTypes ==
    /\ clock \in Nat \ {0}
    /\ store \in [Keys -> Entries(Values) \cup {None}]
    /\ flights \in [Keys -> Calls \cup {None}]
    /\ events \in [Calls -> SUBSET Kinds]

CallTypes ==
    /\ pc \in [Calls -> CallPCs]
    /\ op \in [Calls -> Ops] /\ key \in [Calls -> Keys]
    /\ now \in [Calls -> Nat]
    /\ entry \in [Calls -> Entries(Values) \cup {None}]
    /\ joined \in [Calls -> Calls \cup {None}]
    /\ result \in [Calls -> Results \cup {None}]

FlightTypes ==
    /\ stage \in [Calls -> Stages]
    /\ leadNow \in [Calls -> Nat]
    /\ stamped \in [Calls -> Entries(Values) \cup {None}]
    /\ outcome \in [Calls -> Results \cup {None}]

\* Every variable holds values of its type; the clock never shows the zero time,
\* which the entries use for "no deadline".
TypeOK == SharedTypes /\ CallTypes /\ FlightTypes

\* The flight map and the running flights agree: a flight is registered under
\* its key from startFlight until finishFlight deletes it.
FlightMapExact ==
    /\ \A k \in Keys : flights[k] # None =>
           key[flights[k]] = k /\ stage[flights[k]] \in Registered
    /\ \A c \in Calls : stage[c] \in Registered => flights[key[c]] = c

\* Callers and flights agree: only a leader or a caller that returned has a flight,
\* a leader is released with its flight, a waiter waits for a flight of its own
\* key (never one that does not exist), an outcome is there before it is read.
MatchesFlight(c) ==
    /\ stage[c] # "none" => pc[c] \in {"leading", "returned"}
    /\ pc[c] = "leading" => stage[c] \notin {"none", "spawned", "landed"}
    /\ pc[c] = "waiting" =>
          joined[c] \in Calls /\ key[joined[c]] = key[c] /\ stage[joined[c]] # "none"
    /\ pc[c] = "revalidate" => entry[c] # None
    /\ stage[c] \in {"finish", "done", "landed"} => outcome[c] # None

CallsMatchFlights == \A c \in Calls : MatchesFlight(c)

\* The entry built for a call's value carries that value, and only an explicit
\* Set writes from outside a flight.
StampsCarryTheirCall ==
    \A c \in Calls :
        /\ stamped[c] # None => stamped[c].value = c
        /\ pc[c] = "write" => op[c] = "Set"

\* Coalescing (cache.go:129-204): at most one leader or refresh goroutine per
\* key is computing or storing a value.
OneComputationPerKey ==
    \A c, d \in Calls :
        /\ stage[c] \in {"computing", "write"} /\ stage[d] \in {"computing", "write"}
        /\ key[c] = key[d]
        => c = d

SetByCaller(e) == e.value \in Calls /\ op[e.value] = "Set"

\* The double check of GetOrCompute (cache.go:316-327) suffices: while a leader
\* computes, no other flight has put a value in the store that is fresh by the
\* leader's clock.  Only an explicit Set can have.
RecomputeJustified(c) ==
    stage[c] \in {"computing", "write"} /\ pc[c] = "leading" /\ Has(key[c]) =>
        ~IsFresh(store[key[c]], leadNow[c]) \/ SetByCaller(store[key[c]])

LeaderNeverRecomputesFresh == \A c \in Calls : RecomputeJustified(c)

\* The inductive invariant of the engine.
EngineInv ==
    /\ TypeOK
    /\ FlightMapExact
    /\ CallsMatchFlights
    /\ StampsCarryTheirCall
    /\ LeaderNeverRecomputesFresh

EntryOf(v) == IF v = Old THEN OldEntry ELSE stamped[v]

FreshToLeader(f, e) == leadNow[f] # 0 /\ IsFresh(e, leadNow[f])

\* Where the answer v of call c may come from.
Justified(c, v) ==
    LET e == EntryOf(v) IN
    \/ op[c] = "Get" /\ IsFresh(e, now[c])
    \/ /\ op[c] = "GetOrCompute"
       /\ \/ v = c                                              \* computed
          \/ ~IsExpired(e, now[c])                               \* hit, stale hit
          \/ FreshToLeader(c, e)                                 \* double check
          \/ /\ joined[c] # None                                 \* coalesced
             /\ v = joined[c] \/ FreshToLeader(joined[c], e)
          \/ /\ KeepStaleOnError /\ entry[c] = e                 \* fallback
             /\ "refresh error" \in events[c]

\* Every value Get or GetOrCompute hands out was stored under the key asked for
\* and is fresh, within its stale window, just computed, shared by a flight, or
\* the configured fallback after an error.
ServedValueIsJustified ==
    \A c \in Calls :
        pc[c] = "returned" /\ result[c].err = "nil" /\ result[c].value # None =>
            /\ Justified(c, result[c].value)
            /\ result[c].value # Old => key[result[c].value] = key[c]

\* KeepStaleOnError (cache.go:334-337): a caller that found an entry, however
\* old, never sees an error, whether it led the flight or followed.
KeepStaleHidesErrors ==
    \A c \in Calls :
        KeepStaleOnError /\ pc[c] = "returned" /\ entry[c] # None =>
            result[c].err \in {"nil", "panic"}

Lookups == {"hit", "miss", "stale hit"}

\* Metrics: a lookup is counted once, except one that waited before reading an
\* entry or was refused by the store; a refresh that began ends in exactly one
\* of success and error.
MetricsAddUp ==
    \A c \in Calls : op[c] = "GetOrCompute" /\ pc[c] = "returned" =>
        /\ Cardinality(events[c] \cap Lookups) =
              IF \/ joined[c] # None /\ WaitsEarly /\ "miss" \notin events[c]
                 \/ result[c].err = "store" /\ stage[c] = "none" /\ joined[c] = None
              THEN 0 ELSE 1
        /\ "refresh start" \in events[c] /\ stage[c] = "landed" =>
              Cardinality(events[c] \cap {"refresh success", "refresh error"}) = 1

\* What keeps deadlines in order: an entry written by a flight (or found at the
\* start) ends no later than one stamped now, and no later than the one a running
\* flight of the key is about to write (cache.go:196-202,239-247).
ByFlight(k) == Has(k) /\ ~SetByCaller(store[k])

DeadlinesOrdered ==
    LET Latest == NewEntry(Old, clock).freshUntil IN
    /\ \A k \in Keys : ByFlight(k) => store[k].freshUntil <= Latest
    /\ \A c \in Calls : stage[c] = "write" =>
          /\ stamped[c] # None /\ stamped[c].freshUntil <= Latest
          /\ ByFlight(key[c]) => store[key[c]].freshUntil <= stamped[c].freshUntil

\* What a key holds never gets older by the work of flights: each writes before
\* it is unregistered, so a later flight's entry has the later deadline.  An
\* explicit Set takes part in no flight and is exempt.
FreshnessNeverMovesBack ==
    [][\A k \in Keys :
          /\ Has(k) /\ store'[k] # None
          /\ ~SetByCaller(store[k]) /\ ~SetByCaller(store'[k])
          => store'[k].freshUntil >= store[k].freshUntil]_vars

\* docs/API.md:122 says GetOrCompute "returns a fresh cached value or computes,
\* stores, and returns it".  The code breaks this for a follower of a leader that
\* found a value on its double check and was overtaken by the clock.
AnswerIsFreshOrComputed ==
    \A c \in Calls :
        /\ op[c] = "GetOrCompute" /\ pc[c] = "returned" /\ result[c].err = "nil"
        /\ StaleTTL = 0 /\ ~KeepStaleOnError
        => LET v == result[c].value IN
           v \in {c, joined[c]} \/ IsFresh(EntryOf(v), now[c]) \/ FreshToLeader(c, EntryOf(v))
==============================================================================
