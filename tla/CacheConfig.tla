------------------------------ MODULE CacheConfig ----------------------------
(***************************************************************************)
(* From options to a cache: the builder Opts().With... (direct_options.go),*)
(* the merging of several Options by New, what New refuses, and which      *)
(* clock the cache ends up with (options.go).  Values the caches do not    *)
(* tell apart (metrics, the refresh timeout) are left out.                 *)
(***************************************************************************)
EXTENDS Integers, Sequences, SequencesExt

CONSTANTS None  \* nil, or an option that is not given

\* One call of the builder, such as Setting("WithTTL", 1).  A store is "plain", or
\* "fresh" if it implements PeekFreshValue, or "invalid": nil, or of another type.
Setting(with, to) == [with |-> with, to |-> to]

\* What the builder takes, by the types of its parameters.
Takes(with) ==
    CASE with = "WithStore" -> {"plain", "fresh", "invalid"}
      [] with = "WithClock" -> {"given", None}
      [] with \in {"WithTTL", "WithStaleTTL", "WithTickerClock"} -> Int
      [] with \in {"NoExpiration", "Bypass", "KeepStaleOnError"} -> {TRUE}
      [] OTHER -> {}

With(with) == [with : {with}, to : Takes(with)]

IsSetting(s) == s \in With(s.with)

IsSequence(s) == Len(s) \in Nat /\ s = [i \in 1..Len(s) |-> s[i]]

IsListOfOptions(list) ==
    /\ IsSequence(list)
    /\ \A i \in DOMAIN list :
          IsSequence(list[i]) /\ \A j \in DOMAIN list[i] : IsSetting(list[i][j])

\* nil is told apart from whatever an option may be.
ASSUME NoneAssumption ==
    /\ None \notin Int /\ None \notin {"plain", "fresh", "invalid", "given"}
    /\ \A with \in {"WithStore", "WithTTL", "WithStaleTTL", "NoExpiration", "Bypass",
                    "KeepStaleOnError", "WithClock", "WithTickerClock"} : None \notin With(with)

NoOptions ==
    [store |-> None, ttl |-> None, staleTTL |-> 0, noExpiration |-> FALSE,
     bypass |-> FALSE, keepStaleOnError |-> FALSE, clock |-> None,
     tickerInterval |-> 0]

\* WithClock(nil) and an interval that is not positive are ignored; of a clock and
\* an interval the later one stays.
Build(o, s) ==
    CASE s.with = "WithStore"        -> [o EXCEPT !.store = s.to]
      [] s.with = "WithTTL"          -> [o EXCEPT !.ttl = s.to]
      [] s.with = "WithStaleTTL"     -> [o EXCEPT !.staleTTL = s.to]
      [] s.with = "NoExpiration"     -> [o EXCEPT !.noExpiration = TRUE]
      [] s.with = "Bypass"           -> [o EXCEPT !.bypass = TRUE]
      [] s.with = "KeepStaleOnError" -> [o EXCEPT !.keepStaleOnError = TRUE]
      [] s.with = "WithClock" /\ s.to # None ->
            [o EXCEPT !.clock = s.to, !.tickerInterval = 0]
      [] s.with = "WithTickerClock" /\ s.to > 0 ->
            [o EXCEPT !.clock = None, !.tickerInterval = s.to]
      [] OTHER -> o

Opts(settings) == FoldLeft(Build, NoOptions, settings)

------------------------------------------------------------------------------

\* A Cache under construction.
Empty ==
    [store |-> None, ttlSet |-> FALSE, ttl |-> 0, staleTTL |-> 0,
     noExpiration |-> FALSE, bypass |-> FALSE, keepStaleOnError |-> FALSE,
     clock |-> None, clockOwned |-> FALSE, tickerInterval |-> 0, err |-> "nil"]

\* Mutant: a clock leaves the ticker interval of earlier Options in place.
KeepsInterval(c, o) ==
    IF o.clock # None THEN [c EXCEPT !.clock = o.clock, !.clockOwned = FALSE]
    ELSE IF o.tickerInterval > 0
    THEN [c EXCEPT !.clock = None, !.clockOwned = FALSE,
                   !.tickerInterval = o.tickerInterval]
    ELSE c

ApplyClock(c, o) ==
    IF o.clock # None
    THEN [c EXCEPT !.clock = o.clock, !.clockOwned = FALSE, !.tickerInterval = 0]
    ELSE IF o.tickerInterval > 0
    THEN [c EXCEPT !.clock = None, !.clockOwned = FALSE,
                   !.tickerInterval = o.tickerInterval]
    ELSE c

Given(option, other) == IF option # None THEN option ELSE other

\* applyOptions: what the Options do not set stays, flags are only ever raised,
\* and a stale TTL of 0 counts as not set.
Apply(c, o) ==
    IF c.err # "nil" THEN c
    ELSE IF o.store = "invalid" THEN [c EXCEPT !.err = "invalid store"]
    ELSE ApplyClock([c EXCEPT
            !.store = Given(o.store, @),
            !.ttlSet = @ \/ o.ttl # None,
            !.ttl = Given(o.ttl, @),
            !.staleTTL = IF o.staleTTL # 0 THEN o.staleTTL ELSE @,
            !.noExpiration = @ \/ o.noExpiration,
            !.bypass = @ \/ o.bypass,
            !.keepStaleOnError = @ \/ o.keepStaleOnError], o)

\* The checks of New, in their order.
Verdict(c) ==
    IF c.err # "nil" THEN c.err
    ELSE IF c.ttlSet /\ c.ttl <= 0 THEN "invalid ttl"
    ELSE IF c.staleTTL < 0 THEN "invalid stale ttl"
    ELSE IF c.ttl = 0 /\ ~c.noExpiration /\ ~c.bypass THEN "missing expiration policy"
    ELSE IF c.ttl = 0 /\ c.staleTTL > 0 THEN "invalid stale ttl"
    ELSE IF c.store = None /\ ~c.bypass THEN "missing store"
    ELSE "nil"

\* The clock of a cache is its own unless the last word was WithClock.
TakesClock(c) ==
    IF c.tickerInterval > 0 \/ c.clock = None
    THEN [c EXCEPT !.clock = "ticker", !.clockOwned = TRUE] ELSE c

New(opts) ==
    LET c == FoldLeft(Apply, Empty, opts)
    IN  IF Verdict(c) = "nil" THEN TakesClock(c) ELSE [Empty EXCEPT !.err = Verdict(c)]

\* The cache of a memoized function: without a store it gets one of its own.
NewDirect(o) == New(<<IF o.store = None THEN [o EXCEPT !.store = "fresh"] ELSE o>>)

------------------------------------------------------------------------------
(* Correctness *)

\* The last of the settings with P, or None.
LastOf(settings, P(_)) ==
    LET Is(i) == P(settings[i])
        last  == {i \in DOMAIN settings :
                    Is(i) /\ \A j \in DOMAIN settings : j > i => ~Is(j)}
    IN  IF last = {} THEN None ELSE settings[CHOOSE i \in last : TRUE]

\* What the settings say about an option if the last one counts.
Says(settings, with, otherwise) ==
    LET last == LastOf(settings, LAMBDA s : s.with = with)
    IN  IF last = None THEN otherwise ELSE last.to

EffectiveClock(s) ==
    \/ s.with = "WithClock" /\ s.to # None
    \/ s.with = "WithTickerClock" /\ s.to > 0

\* A cache obeys the last word on each option, whether its settings were chained
\* in one Options or spread over several (direct_options.go:89-132), and owns its
\* clock exactly if the last word on it was not WithClock: Stop must end its own
\* ticker and spare the caller's clock (options.go:53-59, docs/API.md:179).  Only
\* a stale TTL of 0 has no say once another Options has set one.
ObeysLastSetting(list) ==
    LET c == New([i \in DOMAIN list |-> Opts(list[i])])
        said == FlattenSeq(list)
        lastClock == LastOf(said, EffectiveClock)
    IN  c.err = "nil" =>
            /\ c.ttl = Says(said, "WithTTL", 0)
            /\ c.store = Says(said, "WithStore", None)
            /\ (\A i \in DOMAIN said : said[i] # Setting("WithStaleTTL", 0)) =>
                  c.staleTTL = Says(said, "WithStaleTTL", 0)
            /\ c.clockOwned = (lastClock = None \/ lastClock.with = "WithTickerClock")
            /\ c.clock = (IF c.clockOwned THEN "ticker" ELSE "given")

\* What the engine assumes of its settings (FreshnessAssumption), and New's other checks,
\* hold of every cache New makes (options.go:38-52).
MeetsAssumptions(c) ==
    c.err = "nil" =>
        /\ c.ttl \in Nat /\ c.staleTTL \in Nat
        /\ c.ttl = 0 => c.staleTTL = 0
        /\ ~c.bypass => c.store # None /\ (c.ttl > 0 \/ c.noExpiration)
==============================================================================
