-------------------------------- MODULE Loader -------------------------------
(***************************************************************************)
(* loader.Loader (loader/loader.go): one goroutine loads a value at once   *)
(* and then on every tick; Value waits for the first success; Stop ends    *)
(* the goroutine and waits for it.  The n-th successful load returns n.    *)
(***************************************************************************)
EXTENDS Naturals

CONSTANTS Readers,   \* callers of Value, one call each
          Stoppers,  \* callers of Stop, one call each
          MaxLoads   \* bound on successful loads; the load function may fail for ever

ASSUME LoaderAssumption == MaxLoads \in Nat

Failed == 0
Results == 0..MaxLoads

VARIABLES
    positive,  \* the interval is positive
    loop, tick, loaded, cancelled,   \* refreshloop.Run and its context
    run,       \* where the loader's goroutine is, outside refreshloop.Run
    relay,     \* the goroutine that turns stop into a cancellation
    stop,      \* the channel stop is closed
    ready,     \* hasVal, and the channel ready is closed
    value, err,
    loads,     \* successful loads so far
    reader,    \* reader[c]: where a call of Value is
    got,       \* got[c]: what it returned
    stopper    \* stopper[s]: where a call of Stop is

Loop == INSTANCE RefreshLoop

loopVars == <<loop, tick, loaded, cancelled>>
valueVars == <<ready, value, err>>
callVars == <<reader, got, stopper>>
vars == <<positive, loopVars, run, relay, stop, valueVars, loads, callVars>>

Init ==
    /\ positive \in BOOLEAN
    /\ Loop!LoopInit /\ loaded = Failed /\ cancelled = FALSE
    /\ run = "load" /\ relay = "none" /\ stop = FALSE
    /\ ready = FALSE /\ value = 0 /\ err = "nil"
    /\ loads = 0
    /\ reader = [c \in Readers |-> "new"]
    /\ got = [c \in Readers |-> [value |-> 0, err |-> "nil"]]
    /\ stopper = [s \in Stoppers |-> "new"]

------------------------------------------------------------------------------
(* What a load does to the value *)

Store(v) == value' = v /\ err' = "nil" /\ ready' = TRUE

\* Mutant: every failure is remembered, not only those before the first success.
RemembersError == err' = "load" /\ UNCHANGED <<ready, value>>

\* A failure leaves the last value; it is remembered only before the first.
StoreError ==
    /\ err' = IF ready THEN err ELSE "load"
    /\ UNCHANGED <<ready, value>>

\* Mutant: the result of a load is stored whatever its error.
StoresAnything(r) == Store(r)

Outcome(r) == IF r = Failed THEN StoreError ELSE Store(r)

\* The load function succeeds with the next value or fails.
NextResult(r) ==
    \/ r = Failed /\ UNCHANGED loads
    \/ loads < MaxLoads /\ r = loads + 1 /\ loads' = r

------------------------------------------------------------------------------
(* The loader's goroutine *)

\* Mutant: the loader gives up when its first load fails.
GivesUp ==
    /\ run = "load"
    /\ \E r \in Results :
          /\ NextResult(r) /\ Outcome(r)
          /\ Loop!Run(positive /\ r # Failed)
    /\ run' = "loop" /\ relay' = "waiting"
    /\ UNCHANGED <<positive, stop, callVars>>

\* load with the background context, then the relay goroutine and the loop.
FirstLoad ==
    /\ run = "load"
    /\ \E r \in Results : NextResult(r) /\ Outcome(r)
    /\ Loop!Run(positive)
    /\ run' = "loop" /\ relay' = "waiting"
    /\ UNCHANGED <<positive, stop, callVars>>

LoopStep ==
    /\ Loop!TickerFires \/ Loop!Ends \/ Loop!LoadBegins
    /\ UNCHANGED <<positive, run, relay, stop, valueVars, loads, callVars>>

LoadReturns ==
    /\ \E r \in Results : Loop!LoadReturns(r) /\ NextResult(r)
    /\ UNCHANGED <<positive, run, relay, stop, valueVars, callVars>>

\* OnValue and OnError of the loop.
Hook ==
    /\ Loop!HookReturns
    /\ Outcome(loaded)
    /\ UNCHANGED <<positive, run, relay, stop, loads, callVars>>

\* The first deferred call closes done and cancels the context, ...
CleansUp ==
    /\ run = "loop" /\ loop = "ended"
    /\ run' = "ending" /\ cancelled' = TRUE
    /\ UNCHANGED <<positive, loop, tick, loaded, relay, stop, valueVars, loads,
                   callVars>>

\* ... the second closes stopped.
Ends ==
    /\ run = "ending"
    /\ run' = "stopped"
    /\ UNCHANGED <<positive, loopVars, relay, stop, valueVars, loads, callVars>>

\* Mutant: run returns without closing done.
NeverDone == FALSE

DoneClosed == run \in {"ending", "stopped"}

\* Mutant: the relay goroutine waits for stop but does not pass it on.
RelayForgets ==
    /\ relay = "waiting" /\ (stop \/ DoneClosed)
    /\ relay' = "gone"
    /\ UNCHANGED <<positive, loopVars, run, stop, valueVars, loads, callVars>>

RelayEnds ==
    /\ relay = "waiting"
    /\ \/ stop /\ cancelled' = TRUE
       \/ DoneClosed /\ UNCHANGED cancelled
    /\ relay' = "gone"
    /\ UNCHANGED <<positive, loop, tick, loaded, run, stop, valueVars, loads,
                   callVars>>

------------------------------------------------------------------------------
(* Value and Stop *)

ValueBegins(c) ==
    /\ reader[c] = "new"
    /\ reader' = [reader EXCEPT ![c] = "waiting"]
    /\ UNCHANGED <<positive, loopVars, run, relay, stop, valueVars, loads, got,
                   stopper>>

ValueReturns(c) ==
    /\ reader[c] = "waiting" /\ ready
    /\ reader' = [reader EXCEPT ![c] = "answered"]
    /\ got' = [got EXCEPT ![c] = [value |-> value, err |-> err]]
    /\ UNCHANGED <<positive, loopVars, run, relay, stop, valueVars, loads, stopper>>

\* The caller's context is cancelled at any time, or never.
ValueCancelled(c) ==
    /\ reader[c] = "waiting"
    /\ reader' = [reader EXCEPT ![c] = "cancelled"]
    /\ UNCHANGED <<positive, loopVars, run, relay, stop, valueVars, loads, got,
                   stopper>>

\* Mutant: Stop does not wait for the goroutine.
StopOnly(s) ==
    /\ stopper[s] = "new" /\ ~stop
    /\ stop' = TRUE
    /\ stopper' = [stopper EXCEPT ![s] = "returned"]
    /\ UNCHANGED <<positive, loopVars, run, relay, valueVars, loads, reader, got>>

StopBegins(s) ==
    /\ stopper[s] = "new" /\ ~stop
    /\ stop' = TRUE
    /\ stopper' = [stopper EXCEPT ![s] = "waiting"]
    /\ UNCHANGED <<positive, loopVars, run, relay, valueVars, loads, reader, got>>

\* Closing stop a second time panics in the caller of Stop.
StopPanics(s) ==
    /\ stopper[s] = "new" /\ stop
    /\ stopper' = [stopper EXCEPT ![s] = "panicked"]
    /\ UNCHANGED <<positive, loopVars, run, relay, stop, valueVars, loads, reader,
                   got>>

StopReturns(s) ==
    /\ stopper[s] = "waiting" /\ run = "stopped"
    /\ stopper' = [stopper EXCEPT ![s] = "returned"]
    /\ UNCHANGED <<positive, loopVars, run, relay, stop, valueVars, loads, reader,
                   got>>

------------------------------------------------------------------------------

\* Stopped, or never ticking: only callers could do something, and none is left.
Quiescent ==
    /\ run = "stopped"
    /\ \A c \in Readers : reader[c] \in {"answered", "cancelled"}
    /\ \A s \in Stoppers : stopper[s] \in {"returned", "panicked"}
    /\ UNCHANGED vars

Next ==
    \/ FirstLoad \/ LoopStep \/ LoadReturns \/ Hook \/ CleansUp \/ Ends \/ RelayEnds
    \/ \E c \in Readers : ValueBegins(c) \/ ValueReturns(c) \/ ValueCancelled(c)
    \/ \E s \in Stoppers : StopBegins(s) \/ StopPanics(s) \/ StopReturns(s)
    \/ Quiescent

Spec == Init /\ [][Next]_vars

\* Goroutines run, loads return, tickers tick.  Go's select chooses among ready
\* cases at random, so a cancellation that is ready again and again is taken:
\* strong fairness of the loop's end.  Callers begin and give up as they please.
FairSpec ==
    /\ Spec
    /\ WF_vars(FirstLoad \/ LoadReturns \/ Hook \/ CleansUp \/ Ends)
    /\ WF_vars(LoopStep /\ Loop!TickerFires)
    /\ WF_vars(LoopStep /\ Loop!LoadBegins)
    /\ SF_vars(LoopStep /\ Loop!Ends)
    /\ WF_vars(RelayEnds)
    /\ \A c \in Readers : WF_vars(ValueReturns(c))
    /\ \A s \in Stoppers : WF_vars(StopReturns(s))

------------------------------------------------------------------------------
(* Correctness *)

TypeOK ==
    /\ positive \in BOOLEAN /\ stop \in BOOLEAN /\ ready \in BOOLEAN
    /\ Loop!LoopTypes
    /\ run \in {"load", "loop", "ending", "stopped"}
    /\ relay \in {"none", "waiting", "gone"}
    /\ value \in Results /\ loads \in Results
    /\ err \in {"nil", "load"}
    /\ reader \in [Readers -> {"new", "waiting", "answered", "cancelled"}]
    /\ got \in [Readers -> [value : Results, err : {"nil", "load"}]]
    /\ stopper \in [Stoppers -> {"new", "waiting", "returned", "panicked"}]

\* The inductive invariant.
LoaderInv ==
    /\ TypeOK
    /\ loaded <= loads
    /\ ready => value \in 1..loads /\ err = "nil"
    /\ run = "load" <=> loop = "off"
    /\ DoneClosed => loop = "ended"
    /\ \A c \in Readers :
          reader[c] = "answered" => got[c].value \in 1..loads /\ got[c].err = "nil"
    /\ \A s \in Stoppers : stopper[s] = "returned" => run = "stopped"

\* A call of Value that does not fall to its own context returns a loaded value
\* and no error, however many loads failed before or since (loader.go:103-120).
AnswersAreValues ==
    \A c \in Readers :
        reader[c] = "answered" => got[c].value \in 1..loads /\ got[c].err = "nil"

\* Once Stop has returned, no load runs or begins and the value stays
\* (loader.go:131-134).
NothingAfterStop ==
    [][\A s \in Stoppers : stopper[s] = "returned" =>
          loop' = "ended" /\ UNCHANGED <<valueVars, loads>>]_vars

\* Stop returns, though the loop may see more ticks before the cancellation.
StopEnds == \A s \in Stoppers : stopper[s] = "waiting" ~> stopper[s] = "returned"

\* A loader that ticks and is not stopped keeps loading (CONTEXT.md:19): the
\* failure of one load, the first included, does not end it.
KeepsLoading ==
    run = "loop" /\ positive ~> loop = "loading" \/ stop

\* The relay goroutine ends with the loader, stopped or not.
NoGoroutineLeft == run = "stopped" ~> relay = "gone"
==============================================================================
