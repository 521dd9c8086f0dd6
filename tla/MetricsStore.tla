----------------------------- MODULE MetricsStore ----------------------------
(***************************************************************************)
(* metrics.InMemoryMetrics (metrics/inmem.go): RecordMetric, Stats and     *)
(* Reset, called from any goroutine.  A map under one lock leads to the    *)
(* entry of a metric key, whose counters and latencies have a lock of      *)
(* their own; each locked section is a step.  Each member of Calls is one  *)
(* call; an event is named by the call that records it, so a counter is    *)
(* the set of the events it has counted.                                   *)
(***************************************************************************)
EXTENDS Naturals, Sequences, FiniteSets

CONSTANTS Calls, Names, None,
          Events,    \* the events recorded: [op, kind, name, duration]
          RingSize   \* len(cacheEntry.latencies)

Kinds == {"hit", "miss", "stale hit", "set", "delete", "refresh start",
          "refresh success", "refresh error"}

\* The cacheEntry a call creates for a name.
EntryIds == Calls \X Names

\* What Stats reads of one entry.
Answers == [events : SUBSET Calls, latencies : SUBSET Nat]

ASSUME MetricsAssumption ==
    /\ Events \subseteq [op : {"RecordMetric"}, kind : Kinds, name : Names,
                         duration : Nat]
    /\ RingSize \in Nat \ {0}
    /\ None \notin EntryIds \cup Names /\ None \notin Answers

VARIABLES
    job,      \* job[c]: what c is called for
    pc,
    caches,   \* caches[n]: the entry of n, or None
    counted,  \* counted[e]: the events in the counters of e
    ring, latHead, latLen, \* ring[e]: latencies, a function on 0..RingSize-1
    at,       \* the name the call works on, or None
    got,      \* the entry it has looked up, or None
    todo,     \* names Stats has still to read
    out,      \* out[c][n]: what Stats has read of n, or None
    \* history:
    resets,   \* Resets done
    since,    \* value of resets when the entry was looked up, or Stats began
    before,   \* events recorded when Stats began
    added     \* added[e]: latencies in the order they came

entryVars == <<counted, ring, latHead, latLen, added>>
vars == <<job, pc, caches, entryVars, at, got, todo, out, resets, since, before>>

Init ==
    /\ job \in [Calls -> Events \cup [op : {"Stats", "Reset"}]]
    /\ pc = [c \in Calls |-> "new"]
    /\ caches = [n \in Names |-> None]
    /\ counted = [e \in EntryIds |-> {}]
    /\ ring = [e \in EntryIds |-> [i \in 0..(RingSize - 1) |-> 0]]
    /\ latHead = [e \in EntryIds |-> 0]
    /\ latLen = [e \in EntryIds |-> 0]
    /\ at = [c \in Calls |-> None]
    /\ got = [c \in Calls |-> None]
    /\ todo = [c \in Calls |-> {}]
    /\ out = [c \in Calls |-> [n \in Names |-> None]]
    /\ resets = 0
    /\ since = [c \in Calls |-> 0]
    /\ before = [c \in Calls |-> {}]
    /\ added = [e \in EntryIds |-> << >>]

Records(c) == job[c].op = "RecordMetric"
Ignored(c) == job[c].kind = "refresh start"

\* Events whose RecordMetric has returned.
Recorded == {c \in Calls : pc[c] = "done" /\ Records(c) /\ ~Ignored(c)}

GoTo(c, to) == pc' = [pc EXCEPT ![c] = to]

------------------------------------------------------------------------------
(* entry: the lookup shared by RecordMetric and Stats *)

Gets(c, e) ==
    /\ got' = [got EXCEPT ![c] = e]
    /\ since' = [since EXCEPT ![c] = IF Records(c) THEN resets ELSE @]
    /\ GoTo(c, "count")

\* Under the read lock; a name that is not there is created under the write lock.
LookUp(c, n) ==
    /\ at' = [at EXCEPT ![c] = n]
    /\ \/ caches[n] # None /\ Gets(c, caches[n])
       \/ caches[n] = None /\ GoTo(c, "create") /\ UNCHANGED <<got, since>>
    /\ UNCHANGED <<job, caches, entryVars, out, resets, before>>

\* Mutant: no second look under the write lock.
CreateOver(c) ==
    /\ pc[c] = "create"
    /\ caches' = [caches EXCEPT ![at[c]] = <<c, at[c]>>]
    /\ Gets(c, caches'[at[c]])
    /\ UNCHANGED <<job, entryVars, at, todo, out, resets, before>>

Create(c) ==
    /\ pc[c] = "create"
    /\ caches' = [caches EXCEPT ![at[c]] = IF @ = None THEN <<c, at[c]>> ELSE @]
    /\ Gets(c, caches'[at[c]])
    /\ UNCHANGED <<job, entryVars, at, todo, out, resets, before>>

------------------------------------------------------------------------------
(* RecordMetric *)

StartIgnored(c) ==
    /\ pc[c] = "new" /\ Records(c) /\ Ignored(c)
    /\ GoTo(c, "done")
    /\ UNCHANGED <<job, caches, entryVars, at, got, todo, out, resets, since, before>>

RecordLooksUp(c) ==
    /\ pc[c] = "new" /\ Records(c) /\ ~Ignored(c)
    /\ LookUp(c, job[c].name)
    /\ UNCHANGED todo

RecordCounts(c) ==
    /\ pc[c] = "count" /\ Records(c)
    /\ counted' = [counted EXCEPT ![got[c]] = @ \cup {c}]
    /\ GoTo(c, IF job[c].kind = "refresh success" THEN "add latency" ELSE "done")
    /\ UNCHANGED <<job, caches, ring, latHead, latLen, added, at, got, todo, out,
                   resets, since, before>>

\* Mutant: the length grows past the ring.
OneMore(e) == latLen[e] + 1

NextLen(e) == IF latLen[e] < RingSize THEN latLen[e] + 1 ELSE latLen[e]

AddLatency(c) ==
    /\ pc[c] = "add latency"
    /\ LET e == got[c] IN
       /\ ring' = [ring EXCEPT ![e][latHead[e]] = job[c].duration]
       /\ latHead' = [latHead EXCEPT ![e] = (@ + 1) % RingSize]
       /\ latLen' = [latLen EXCEPT ![e] = NextLen(e)]
       /\ added' = [added EXCEPT ![e] = Append(@, job[c].duration)]
    /\ GoTo(c, "done")
    /\ UNCHANGED <<job, caches, counted, at, got, todo, out, resets, since, before>>

------------------------------------------------------------------------------
(* Stats *)

ListNames(c) ==
    /\ pc[c] = "new" /\ job[c].op = "Stats"
    /\ todo' = [todo EXCEPT ![c] = {n \in Names : caches[n] # None}]
    /\ since' = [since EXCEPT ![c] = resets]
    /\ before' = [before EXCEPT ![c] = Recorded]
    /\ GoTo(c, "next name")
    /\ UNCHANGED <<job, caches, entryVars, at, got, out, resets>>

\* A name that a Reset has removed meanwhile is created again.
StatsLooksUp(c) ==
    /\ pc[c] = "next name"
    /\ \E n \in todo[c] :
          /\ LookUp(c, n)
          /\ todo' = [todo EXCEPT ![c] = @ \ {n}]

StatsCounts(c) ==
    /\ pc[c] = "count" /\ job[c].op = "Stats"
    /\ out' = [out EXCEPT ![c][at[c]] = [events |-> counted[got[c]], latencies |-> {}]]
    /\ GoTo(c, "percentiles")
    /\ UNCHANGED <<job, caches, entryVars, at, got, todo, resets, since, before>>

\* percentiles copies the samples; they are kept here in place of three of them.
StatsCopiesLatencies(c) ==
    /\ pc[c] = "percentiles"
    /\ out' = [out EXCEPT ![c][at[c]].latencies =
                 {ring[got[c]][i] : i \in 0..(latLen[got[c]] - 1)}]
    /\ GoTo(c, "next name")
    /\ UNCHANGED <<job, caches, entryVars, at, got, todo, resets, since, before>>

StatsReturns(c) ==
    /\ pc[c] = "next name" /\ todo[c] = {}
    /\ GoTo(c, "done")
    /\ UNCHANGED <<job, caches, entryVars, at, got, todo, out, resets, since, before>>

------------------------------------------------------------------------------

Reset(c) ==
    /\ pc[c] = "new" /\ job[c].op = "Reset"
    /\ caches' = [n \in Names |-> None]
    /\ resets' = resets + 1
    /\ GoTo(c, "done")
    /\ UNCHANGED <<job, entryVars, at, got, todo, out, since, before>>

Quiescent == (\A c \in Calls : pc[c] = "done") /\ UNCHANGED vars

Next ==
    \/ \E c \in Calls :
          \/ StartIgnored(c) \/ RecordLooksUp(c) \/ RecordCounts(c) \/ AddLatency(c)
          \/ Create(c)
          \/ ListNames(c) \/ StatsLooksUp(c) \/ StatsCounts(c)
          \/ StatsCopiesLatencies(c) \/ StatsReturns(c)
          \/ Reset(c)
    \/ Quiescent

Spec == Init /\ [][Next]_vars

------------------------------------------------------------------------------
(* Correctness *)

\* An event is lost only to a Reset: one that was recorded under an entry looked
\* up since the last Reset is in the entry Stats will read (inmem.go:79-93).
NothingLost ==
    \A c \in Recorded : since[c] = resets =>
        caches[job[c].name] # None /\ c \in counted[caches[job[c].name]]

\* What Stats answers, name by name: every event recorded before it began, none
\* of before the last Reset, none of another name (inmem.go:122-153).
StatsAreCurrent ==
    \A c, d \in Calls :
        pc[c] = "done" /\ job[c].op = "Stats" /\ Records(d) =>
            LET answer == out[c][job[d].name] IN
            /\ d \in before[c] /\ since[d] = since[c] /\ since[c] = resets =>
                  answer # None /\ d \in answer.events
            /\ answer # None /\ d \in before[c] /\ since[d] < since[c] =>
                  d \notin answer.events
            /\ \A n \in Names : out[c][n] # None /\ d \in out[c][n].events =>
                  n = job[d].name

\* The ring of an entry holds its latest latencies, as many as fit, and only those
\* of refreshes that were counted; what Stats reads of it is among them
\* (inmem.go:37-65).
RingHoldsLatest ==
    /\ \A e \in EntryIds :
          LET n == Len(added[e]) IN
          /\ latLen[e] = (IF n < RingSize THEN n ELSE RingSize)
          /\ \A i \in 1..latLen[e] :
                ring[e][(latHead[e] + RingSize - i) % RingSize] = added[e][n + 1 - i]
          /\ n <= Cardinality({c \in counted[e] : job[c].kind = "refresh success"})
    /\ \A c \in Calls, n \in Names : out[c][n] # None =>
          \A l \in out[c][n].latencies :
              \E d \in Calls : /\ Records(d) /\ job[d].kind = "refresh success"
                               /\ job[d].name = n /\ job[d].duration = l
==============================================================================
