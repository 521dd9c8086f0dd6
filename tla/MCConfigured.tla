----------------------------- MODULE MCConfigured ----------------------------
(* Model checking caches with many settings: the lists of Options are all   *)
(* of up to three settings in one to three Options, a few of them are       *)
(* served, and functions are memoized with NoExpiration.                    *)
EXTENDS ConfiguredCache

Settings ==
    {Setting("WithStore", s) : s \in {"plain", "fresh", "invalid"}}
    \cup {Setting("WithTTL", t) : t \in {-1, 0, 1, 2}}
    \cup {Setting("WithStaleTTL", t) : t \in {-1, 0, 1}}
    \cup {Setting("WithClock", c) : c \in {"given", None}}
    \cup {Setting("WithTickerClock", i) : i \in {0, 1}}
    \cup {Setting(o, TRUE) : o \in {"NoExpiration", "Bypass", "KeepStaleOnError"}}

TTLOf(t) == Setting("WithTTL", t)
StoreOf(s) == Setting("WithStore", s)

\* Two of the settings may be anything; the others make an accepted cache of many.
MCLists ==
    UNION {{<< <<a, StoreOf("plain")>>, <<b, TTLOf(1)>> >>, << <<a, b>>, <<d>> >>,
            << <<a>>, <<b>>, <<d, Setting("Bypass", TRUE)>> >>}
           : a \in Settings, b \in Settings, d \in Settings}

\* Served: a clock of its own; stale-while-revalidate and the fallback on the
\* caller's clock; no expiration with an early wait; bypass without a store and with one.
Owned     == << <<TTLOf(1), StoreOf("plain")>> >>
SWR       == << <<TTLOf(1), StoreOf("fresh"), Setting("WithStaleTTL", 1)>>,
                <<Setting("KeepStaleOnError", TRUE), Setting("WithClock", "given")>> >>
NoExpiry  == << <<Setting("NoExpiration", TRUE), StoreOf("fresh")>>,
                <<Setting("WithTickerClock", 1)>>, <<Setting("WithClock", "given")>> >>
Bypassing == << <<Setting("Bypass", TRUE)>> >>
BypassingStore == << <<Setting("Bypass", TRUE), StoreOf("plain")>> >>

MCServed == {Owned, SWR, NoExpiry, Bypassing, BypassingStore}

MCMemoized == {<< <<Setting("NoExpiration", TRUE)>> >>}

NoLists == {}

Text(s) == [type |-> "string", value |-> s]
Num(n)  == [type |-> "number", value |-> n]
Flag(b) == [type |-> "bool", value |-> b]

Flags == {Flag(b) : b \in BOOLEAN}
Nums  == {Num(n) : n \in 0..1}
\* up to six characters: none, some and all of them in the unrolled loop
Texts == {Text(s) : s \in {<< >>, <<1>>, <<1, 1, 1, 1>>, <<1, 1, 1, 1, 2>>,
                           <<1, 1, 1, 1, 1, 2>>}}

Short == {Text(s) : s \in {<< >>, <<1>>}}

\* f(), f(string), f(bool, number), f(number, number), f(number, string) and
\* f(string, number)
Separated ==
    {{<< >>}, {<<s>> : s \in Texts}, Flags \X Nums, Nums \X Nums, Nums \X Short,
     Short \X Nums}

\* f(number, bool)
FlagLast == {Nums \X Flags}
==============================================================================
