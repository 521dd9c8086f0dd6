---------------------------- MODULE ConfiguredCache --------------------------
(***************************************************************************)
(* A cache from New to Stop: a caller hands over options, New refuses them *)
(* or makes a cache, and the engine runs with those settings and the clock *)
(* the cache ends up with.  The constants of the engine are here values of *)
(* a variable: Engine(c, K) is the engine of the cache c for the keys K.   *)
(*                                                                         *)
(* A memoized function (memoize.go, memoize_ctx.go: Memoize to Memoize7,   *)
(* MemoizeCtx to MemoizeCtx7 and their E variants) is a cache made by      *)
(* newDirectCache whose keys are the hashes of argument lists.  The        *)
(* function depends on its arguments only, so the value a call computes    *)
(* stands for the arguments of that call.                                  *)
(***************************************************************************)
EXTENDS CacheConfig, ArgumentHash, FiniteSets

CONSTANTS Calls, Keys, Old, Ops, StoreFaults, Panics,
          Lists,  \* the lists of Options, each as the settings it is built from
          Served, \* lists of Options whose caches are also called
          Memoized,  \* Options given to Memoize
          Functions  \* for each function: the argument lists it is called with

VARIABLES
    list,    \* the settings New was called with
    made,    \* the cache it returned, or its error
    ticker,  \* the clock of the cache: "runs", "stepped back" or "stopped"
    args,    \* args[x]: the arguments of call x, None for an explicit cache
    clock, store, flights, pc, op, key, now, entry, joined, result,
    stage, leadNow, stamped, outcome, events

engineVars == <<clock, store, flights, pc, op, key, now, entry, joined, result,
                stage, leadNow, stamped, outcome, events>>
vars == <<list, made, ticker, args, engineVars>>

\* Time runs until what was stored at the start has passed its stale window; it
\* adds nothing to what a memoized function does with its arguments.
Horizon(c, K) == IF K = Keys THEN 2 + c.ttl + c.staleTTL ELSE 1

\* The engine of the cache c over the keys K, without Bypass and with it.
Engine(c, K) == INSTANCE EngineFlights WITH
    Keys             <- K,
    TTL              <- c.ttl,
    StaleTTL         <- c.staleTTL,
    NoExpiration     <- c.noExpiration,
    KeepStaleOnError <- c.keepStaleOnError,
    MaxClock         <- Horizon(c, K),
    FreshValueStore  <- c.store = "fresh"

Bypassed(c, K) == INSTANCE BypassedCache WITH
    Keys             <- K,
    TTL              <- c.ttl,
    StaleTTL         <- c.staleTTL,
    NoExpiration     <- c.noExpiration,
    KeepStaleOnError <- c.keepStaleOnError,
    MaxClock         <- Horizon(c, K),
    FreshValueStore  <- c.store = "fresh",
    HasStore         <- c.store # None

\* Calls and values are told apart from each other and from nil; options are of
\* the types the builder takes, and what is memoized has Options of its own.
ASSUME CallsAssumption ==
    /\ None \notin Calls \cup {Old} \cup Keys /\ Old \notin Calls
    /\ \A f \in Functions : \A a \in f : KeyOf(a) # None
    /\ None \notin Engine(Empty, Keys)!Entries(Calls \cup {Old})
    /\ None \notin Engine(Empty, Keys)!Results
    /\ Ops \subseteq Engine(Empty, Keys)!AllOps
    /\ {StoreFaults, Panics} \subseteq BOOLEAN

ASSUME ListsAssumption ==
    /\ \A l \in Lists \cup Served \cup Memoized : IsListOfOptions(l)
    /\ << >> \notin Memoized

------------------------------------------------------------------------------

\* New, asked by its caller; its cache is called if it is one of Served.
MakesCache ==
    /\ list \in Lists \cup Served
    /\ made = New([i \in DOMAIN list |-> Opts(list[i])])
    /\ args = None
    /\ IF made.err # "nil" \/ list \notin Served
       THEN /\ Engine(Empty, Keys)!Init
            /\ op = [x \in Calls |-> CHOOSE o \in Ops : TRUE]
            /\ key = [x \in Calls |-> CHOOSE k \in Keys : TRUE]
            /\ store = [k \in Keys |-> None]
       ELSE \E c \in {made} :
               IF c.bypass THEN Bypassed(c, Keys)!BypassInit ELSE Engine(c, Keys)!Init

\* Memoize: the cache of the wrapper starts empty.
MakesWrapper ==
    /\ list \in Memoized /\ made = NewDirect(Opts(list[1]))
    /\ \E f \in Functions : args \in [Calls -> f]
    /\ key = [x \in Calls |-> KeyOf(args[x])]
    /\ op = [x \in Calls |-> "GetOrCompute"]
    /\ \E K \in {{KeyOf(args[x]) : x \in Calls}} :
          store = [k \in K |-> None] /\ \E c \in {made} : Engine(c, K)!Init

Init == ticker = "runs" /\ (MakesCache \/ MakesWrapper)

Serving == made.err = "nil" /\ list \in Served \cup Memoized

\* The ticker of a cache that was stopped shows the same time for ever.
EngineSteps ==
    /\ Serving
    /\ \E c \in {made}, K \in {DOMAIN store} :
          IF c.bypass THEN Bypassed(c, K)!BypassNext ELSE Engine(c, K)!Next
    /\ ticker = "stopped" => clock' = clock
    /\ UNCHANGED <<list, made, ticker, args>>

\* A clock of the cache's own, which only explicit caches let their callers stop.
\* Bound: one of the two following things happens to it, once.
OwnsClock == Serving /\ made.clockOwned /\ args = None /\ ticker = "runs"

\* The ticker stores wall clock milliseconds, which may step back.
ClockStepsBack ==
    /\ OwnsClock /\ clock > 1
    /\ clock' = clock - 1
    /\ ticker' = "stepped back"
    /\ UNCHANGED <<list, made, args, store, flights, pc, op, key, now, entry,
                   joined, result, stage, leadNow, stamped, outcome, events>>

\* Stop may be called at any time, with calls and flights under way.  It does
\* nothing to a clock that is not the cache's own.
Stop ==
    /\ OwnsClock
    /\ ticker' = "stopped"
    /\ UNCHANGED <<list, made, args, engineVars>>

NotServing == ~Serving /\ UNCHANGED vars

Next == EngineSteps \/ ClockStepsBack \/ Stop \/ NotServing

CallStep(x) ==
    /\ Serving /\ UNCHANGED <<list, made, ticker, args>>
    /\ \E c \in {made}, K \in {DOMAIN store} :
          IF c.bypass THEN Bypassed(c, K)!BypassComputes(x) ELSE Engine(c, K)!CallStep(x)

FlightStep(x) ==
    /\ Serving /\ UNCHANGED <<list, made, ticker, args>>
    /\ \E c \in {made}, K \in {DOMAIN store} : Engine(c, K)!FlightStep(x)

Spec == Init /\ [][Next]_vars

\* Goroutines are scheduled and compute functions return; callers, time and the
\* store's own removals are under no obligation.
FairSpec ==
    Spec /\ \A x \in Calls : WF_vars(CallStep(x)) /\ WF_vars(FlightStep(x))

------------------------------------------------------------------------------
(* Correctness *)

\* A list of Options comes to what its last settings say.
ObeysSettings == args = None => ObeysLastSetting(list)

\* Whatever New makes meets what the engine assumes of its constants, and every
\* value it hands out is justified, with the clock it has: one that steps back or,
\* after Stop, stands still (options.go:67-71).
ServedValueIsJustified ==
    /\ MeetsAssumptions(made)
    /\ Serving => \A c \in {made}, K \in {DOMAIN store} : Engine(c, K)!ServedValueIsJustified

\* The inductive invariant of the engine and the count of its metric events do
\* not depend on a clock that only advances.
EngineStaysSound ==
    Serving => \A c \in {made}, K \in {DOMAIN store} :
        Engine(c, K)!MetricsAddUp /\ (~c.bypass => Engine(c, K)!EngineInv)

\* Bypass (docs/API.md:160): always computes, never stores, never shares, with or
\* without a store.
BypassAlwaysComputes ==
    Serving /\ made.bypass =>
        \A c \in {made}, K \in {DOMAIN store} : Bypassed(c, K)!BypassAlwaysComputes

\* What a wrapper gives to its caller: the plain variants have no error to return
\* and answer with the zero value instead, the E variants pass both on.
Plain(x) == IF result[x].err = "nil" THEN result[x].value ELSE None

\* A memoized function answers with what the wrapped function returns for the
\* same arguments: memoize.go:41 calls Memoize2 "a memoized version of the
\* compute function with two keys".
AnswersOwnArguments ==
    args # None => \A x \in Calls :
        pc[x] = "returned" /\ Plain(x) \in Calls => args[Plain(x)] = args[x]

\* Every call that started returns and the flight it created lands, also one that
\* outlives its call, whatever the settings, whatever fails or panics, and also when
\* the cache is stopped under it.
EveryCallReturns ==
    \A x \in Calls : pc[x] # "new" ~> pc[x] = "returned" /\ stage[x] \in {"none", "landed"}
==============================================================================
