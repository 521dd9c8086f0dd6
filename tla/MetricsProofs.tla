---------------------------- MODULE MetricsProofs ----------------------------
(***************************************************************************)
(* The in-memory metrics, for any number of calls, names and any length of *)
(* the ring.  An entry is known by the call that created it, so an entry   *)
(* that a Reset removed never comes back; the invariant says so by what    *)
(* the calls hold.                                                         *)
(***************************************************************************)
EXTENDS MetricsStore, FiniteSetTheorems, TLAPS

------------------------------------------------------------------------------
(* The invariant *)

CallTypes ==
    /\ job \in [Calls -> Events \cup [op : {"Stats", "Reset"}]]
    /\ pc \in [Calls -> {"new", "create", "count", "add latency", "next name",
                         "percentiles", "done"}]
    /\ at \in [Calls -> Names \cup {None}]
    /\ got \in [Calls -> EntryIds \cup {None}]
    /\ todo \in [Calls -> SUBSET Names]
    /\ out \in [Calls -> [Names -> Answers \cup {None}]]
    /\ since \in [Calls -> Nat]
    /\ before \in [Calls -> SUBSET Calls]
    /\ resets \in Nat

EntryTypes ==
    /\ caches \in [Names -> EntryIds \cup {None}]
    /\ counted \in [EntryIds -> SUBSET Calls]
    /\ ring \in [EntryIds -> [0..(RingSize - 1) -> Nat]]
    /\ latHead \in [EntryIds -> 0..(RingSize - 1)]
    /\ latLen \in [EntryIds -> 0..RingSize]
    /\ added \in [EntryIds -> Seq(Nat)]

\* RecordMetric c has looked its entry up.
Entered(c) ==
    Records(c) /\ ~Ignored(c) /\ pc[c] \in {"count", "add latency", "done"}

\* What the call has in hand at each place of its run.
InHand(c) ==
    /\ pc[c] \in {"create", "count", "percentiles"} =>
          at[c] \in Names /\ (Records(c) => ~Ignored(c) /\ at[c] = job[c].name)
    /\ pc[c] = "add latency" => Entered(c) /\ job[c].kind = "refresh success"
    /\ pc[c] \in {"next name", "percentiles"} => job[c].op = "Stats"
    /\ Entered(c) \/ pc[c] \in {"count", "percentiles"} =>
          got[c] \in EntryIds
    /\ Entered(c) => got[c][2] = job[c].name
    /\ pc[c] \in {"count", "percentiles"} => got[c][2] = at[c]
    /\ pc[c] = "percentiles" => out[c][at[c]] # None
    /\ pc[c] = "new" => todo[c] = {} /\ \A n \in Names : out[c][n] = None
    /\ since[c] <= resets

\* An entry nobody has created yet.
Unused(e) == (\A n \in Names : caches[n] # e) /\ (\A c \in Calls : got[c] # e)

\* A call creates an entry of a name once.
CreatesOnce(c) ==
    /\ pc[c] = "new" => \A n \in Names : Unused(<<c, n>>)
    /\ pc[c] = "create" => Unused(<<c, at[c]>>) /\ at[c] \notin todo[c]
    /\ \A n \in todo[c] : Unused(<<c, n>>)

Named == \A n \in Names : caches[n] # None => caches[n][2] = n

\* The entry looked up is the one in the map exactly until the next Reset.
Current(c) == Entered(c) => (caches[job[c].name] = got[c] <=> since[c] = resets)

\* An event is counted in the entry its call looked up.
Counts ==
    \A e \in EntryIds : \A c \in counted[e] :
        Entered(c) /\ got[c] = e /\ pc[c] # "count"

Counted == \A c \in Calls : Entered(c) /\ pc[c] # "count" => c \in counted[got[c]]

RecordsInv ==
    /\ CallTypes /\ EntryTypes
    /\ \A c \in Calls : InHand(c) /\ CreatesOnce(c) /\ Current(c)
    /\ Named /\ Counts /\ Counted

IsStats(c) == job[c].op = "Stats" /\ pc[c] # "new"

\* The entry a Stats reads is in the map unless a Reset came after it began, and
\* is none that a Reset removed before it began.
Reads(c) ==
    IsStats(c) /\ pc[c] \in {"count", "percentiles"} =>
        /\ since[c] = resets => caches[at[c]] = got[c]
        /\ \A d \in before[c] : since[d] < since[c] => got[d] # got[c]

\* What it has read, and what it has still to read.
HasRead(c) ==
    IsStats(c) =>
        /\ since[c] <= resets /\ before[c] \subseteq Recorded
        /\ \A d \in before[c] : since[d] = since[c] /\ since[c] = resets =>
              \/ job[d].name \in todo[c]
              \/ pc[c] \in {"create", "count"} /\ at[c] = job[d].name
              \/ /\ out[c][job[d].name] # None
                 /\ d \in out[c][job[d].name].events
        /\ \A n \in Names : out[c][n] # None =>
              \A d \in out[c][n].events :
                  /\ Records(d) /\ job[d].name = n
                  /\ ~(d \in before[c] /\ since[d] < since[c])
        /\ pc[c] = "done" => todo[c] = {}

StatsInv == \A c \in Calls : Reads(c) /\ HasRead(c)

Successes(e) == {c \in counted[e] : job[c].kind = "refresh success"}

\* Those whose latency is in the ring.
Sampled(e) == {c \in Successes(e) : pc[c] = "done"}

Back(h, i) == (h + RingSize - i) % RingSize

\* The ring of e, its head and length, and the latencies that came in so far.
RingOf(e) ==
    LET n == Len(added[e]) IN
    /\ latLen[e] = (IF n < RingSize THEN n ELSE RingSize)
    /\ latLen[e] < RingSize => latHead[e] = latLen[e]
    /\ \A i \in 1..latLen[e] : ring[e][Back(latHead[e], i)] = added[e][n + 1 - i]
    /\ IsFiniteSet(counted[e]) /\ n = Cardinality(Sampled(e))

IsSample(n, l) ==
    \E d \in Calls : /\ Records(d) /\ job[d].kind = "refresh success"
                     /\ job[d].name = n /\ job[d].duration = l

RingInv ==
    /\ \A e \in EntryIds : RingOf(e)
    /\ \A e \in EntryIds : \A i \in 0..(latLen[e] - 1) : IsSample(e[2], ring[e][i])
    /\ \A c \in Calls, n \in Names : out[c][n] # None =>
          \A l \in out[c][n].latencies : IsSample(n, l)

------------------------------------------------------------------------------
(* Types *)

LEMMA JobShape ==
    ASSUME CallTypes, NEW c \in Calls
    PROVE  /\ Records(c) => /\ job[c] \in Events /\ job[c].name \in Names
                            /\ job[c].duration \in Nat /\ job[c].op # "Stats"
           /\ job[c].op \in {"RecordMetric", "Stats", "Reset"}
BY MetricsAssumption DEF CallTypes, Records

LEMMA IdShape ==
    ASSUME NEW c \in Calls, NEW n \in Names
    PROVE  <<c, n>> \in EntryIds /\ <<c, n>>[2] = n /\ <<c, n>> # None
BY MetricsAssumption DEF EntryIds

\* Remainders as the head of the ring uses them.
LEMMA Small == \A x \in 0..(RingSize - 1) : x % RingSize = x
BY MetricsAssumption

LEMMA Large == \A x \in RingSize..(RingSize + RingSize - 1) : x % RingSize = x - RingSize
BY MetricsAssumption

LEMMA Remainders == \A x \in Nat : x % RingSize \in 0..(RingSize - 1)
BY MetricsAssumption

LEMMA TypesInit == Init => CallTypes /\ EntryTypes
BY MetricsAssumption DEF Init, CallTypes, EntryTypes, Answers

\* Every step leaves the calls other than its own alone.
Local(c) ==
    /\ job' = job
    /\ \A d \in Calls \ {c} :
          /\ pc'[d] = pc[d] /\ at'[d] = at[d] /\ got'[d] = got[d]
          /\ todo'[d] = todo[d] /\ out'[d] = out[d]
          /\ since'[d] = since[d] /\ before'[d] = before[d]

Moves(c) ==
    \/ StartIgnored(c) \/ RecordLooksUp(c) \/ RecordCounts(c) \/ AddLatency(c)
    \/ Create(c)
    \/ ListNames(c) \/ StatsLooksUp(c) \/ StatsCounts(c)
    \/ StatsCopiesLatencies(c) \/ StatsReturns(c)
    \/ Reset(c)

LEMMA IsLocal ==
    ASSUME CallTypes, NEW c \in Calls, Moves(c)
    PROVE  Local(c)
<1>0. /\ DOMAIN pc = Calls /\ DOMAIN at = Calls /\ DOMAIN got = Calls
      /\ DOMAIN todo = Calls /\ DOMAIN out = Calls /\ DOMAIN since = Calls
      /\ DOMAIN before = Calls
    BY DEF CallTypes
<1>1. CASE RecordLooksUp(c) \/ StatsLooksUp(c)
    BY ONLY <1>0, <1>1, c \in Calls
    DEF RecordLooksUp, StatsLooksUp, LookUp, Gets, GoTo, Local
<1>2. CASE Create(c)
    BY ONLY <1>0, <1>2, c \in Calls DEF Create, Gets, GoTo, Local
<1>3. CASE StartIgnored(c) \/ RecordCounts(c) \/ AddLatency(c)
    BY ONLY <1>0, <1>3, c \in Calls DEF StartIgnored, RecordCounts, AddLatency, GoTo, Local
<1>4. CASE ListNames(c) \/ StatsCounts(c)
    BY ONLY <1>0, <1>4, c \in Calls DEF ListNames, StatsCounts, GoTo, Local
<1>5. CASE StatsCopiesLatencies(c) \/ StatsReturns(c) \/ Reset(c)
    BY ONLY <1>0, <1>5, c \in Calls DEF StatsCopiesLatencies, StatsReturns, Reset, GoTo, Local
<1> QED
    BY <1>1, <1>2, <1>3, <1>4, <1>5 DEF Moves

\* What c is given by a lookup or by the creation of an entry.
LEMMA LookUpShape ==
    ASSUME CallTypes, EntryTypes, NEW c \in Calls, NEW n \in Names, LookUp(c, n)
    PROVE  /\ at'[c] = n
           /\ \/ /\ caches[n] \in EntryIds /\ got'[c] = caches[n] /\ pc'[c] = "count"
                 /\ since'[c] = IF Records(c) THEN resets ELSE since[c]
              \/ /\ caches[n] = None /\ pc'[c] = "create"
                 /\ UNCHANGED <<got, since>>
           /\ UNCHANGED <<job, caches, entryVars, out, resets, before>>
<1>0. /\ DOMAIN pc = Calls /\ DOMAIN at = Calls /\ DOMAIN got = Calls
      /\ DOMAIN since = Calls
    BY DEF CallTypes
<1>1. /\ at'[c] = n
      /\ UNCHANGED <<job, caches, entryVars, out, resets, before>>
    BY ONLY <1>0, LookUp(c, n), c \in Calls DEF LookUp
<1>2. caches[n] \in EntryIds \cup {None}
    BY DEF EntryTypes
<1>3. CASE caches[n] # None /\ Gets(c, caches[n])
    BY ONLY <1>0, <1>1, <1>2, <1>3, c \in Calls DEF Gets, GoTo
<1>4. CASE caches[n] = None /\ GoTo(c, "create") /\ UNCHANGED <<got, since>>
    BY ONLY <1>0, <1>1, <1>4, c \in Calls DEF GoTo
<1> QED
    BY ONLY <1>3, <1>4, LookUp(c, n) DEF LookUp

LEMMA CreateShape ==
    ASSUME CallTypes, EntryTypes, NEW c \in Calls, InHand(c), Create(c)
    PROVE  /\ pc[c] = "create" /\ pc'[c] = "count" /\ at[c] \in Names
           /\ got'[c] = caches'[at[c]] /\ got'[c] \in EntryIds
           /\ caches'[at[c]] = IF caches[at[c]] = None THEN <<c, at[c]>> ELSE caches[at[c]]
           /\ \A n \in Names \ {at[c]} : caches'[n] = caches[n]
           /\ since'[c] = IF Records(c) THEN resets ELSE since[c]
           /\ UNCHANGED <<job, entryVars, at, todo, out, resets, before>>
<1>1. pc[c] = "create" /\ at[c] \in Names
    BY DEF Create, InHand
<1>2. caches' = [caches EXCEPT ![at[c]] = IF @ = None THEN <<c, at[c]>> ELSE @]
    BY DEF Create
<1>3. /\ caches'[at[c]] = IF caches[at[c]] = None THEN <<c, at[c]>> ELSE caches[at[c]]
      /\ \A n \in Names \ {at[c]} : caches'[n] = caches[n]
    BY ONLY <1>1, <1>2, EntryTypes DEF EntryTypes
<1>4. caches'[at[c]] \in EntryIds
    BY ONLY <1>1, <1>3, EntryTypes, IdShape, c \in Calls DEF EntryTypes
<1>5. /\ got'[c] = caches'[at[c]] /\ pc'[c] = "count"
      /\ since'[c] = IF Records(c) THEN resets ELSE since[c]
      /\ UNCHANGED <<job, entryVars, at, todo, out, resets, before>>
    BY ONLY CallTypes, Create(c), c \in Calls DEF Create, Gets, GoTo, CallTypes
<1> QED
    BY ONLY <1>1, <1>3, <1>4, <1>5

\* What the other steps do, to the call and to the entry it holds.
LEMMA CountShape ==
    ASSUME CallTypes, EntryTypes, NEW c \in Calls, InHand(c), RecordCounts(c)
    PROVE  /\ pc[c] = "count" /\ Records(c) /\ got[c] \in EntryIds
           /\ pc'[c] = IF job[c].kind = "refresh success" THEN "add latency" ELSE "done"
           /\ counted'[got[c]] = counted[got[c]] \cup {c}
           /\ \A e \in EntryIds \ {got[c]} : counted'[e] = counted[e]
           /\ UNCHANGED <<job, caches, ring, latHead, latLen, added, at, got, todo,
                          out, resets, since, before>>
<1>1. pc[c] = "count" /\ Records(c) /\ got[c] \in EntryIds
    BY DEF RecordCounts, InHand
<1>2. DOMAIN counted = EntryIds /\ DOMAIN pc = Calls
    BY DEF CallTypes, EntryTypes
<1> QED
    BY ONLY <1>1, <1>2, RecordCounts(c), c \in Calls DEF RecordCounts, GoTo

LEMMA AddShape ==
    ASSUME CallTypes, EntryTypes, NEW c \in Calls, InHand(c), AddLatency(c)
    PROVE  /\ pc[c] = "add latency" /\ pc'[c] = "done" /\ Entered(c)
           /\ job[c].kind = "refresh success" /\ got[c] \in EntryIds
           /\ ring'[got[c]] = [ring[got[c]] EXCEPT ![latHead[got[c]]] = job[c].duration]
           /\ latHead'[got[c]] = (latHead[got[c]] + 1) % RingSize
           /\ latLen'[got[c]] = NextLen(got[c])
           /\ added'[got[c]] = Append(added[got[c]], job[c].duration)
           /\ \A e \in EntryIds \ {got[c]} :
                 /\ ring'[e] = ring[e] /\ latHead'[e] = latHead[e]
                 /\ latLen'[e] = latLen[e] /\ added'[e] = added[e]
           /\ UNCHANGED <<job, caches, counted, at, got, todo, out, resets, since,
                          before>>
<1>1. /\ pc[c] = "add latency" /\ Entered(c) /\ job[c].kind = "refresh success"
      /\ got[c] \in EntryIds
    BY DEF AddLatency, InHand
<1>2. /\ DOMAIN ring = EntryIds /\ DOMAIN latHead = EntryIds /\ DOMAIN latLen = EntryIds
      /\ DOMAIN added = EntryIds /\ DOMAIN pc = Calls
    BY DEF CallTypes, EntryTypes
<1> QED
    BY ONLY <1>1, <1>2, AddLatency(c), c \in Calls DEF AddLatency, GoTo

LEMMA ListShape ==
    ASSUME CallTypes, EntryTypes, NEW c \in Calls, ListNames(c)
    PROVE  /\ pc[c] = "new" /\ job[c].op = "Stats" /\ pc'[c] = "next name"
           /\ todo'[c] = {n \in Names : caches[n] # None}
           /\ since'[c] = resets /\ before'[c] = Recorded
           /\ UNCHANGED <<job, caches, entryVars, at, got, out, resets>>
<1>1. /\ DOMAIN pc = Calls /\ DOMAIN todo = Calls /\ DOMAIN since = Calls
      /\ DOMAIN before = Calls
    BY DEF CallTypes
<1> QED
    BY ONLY <1>1, ListNames(c), c \in Calls DEF ListNames, GoTo

LEMMA StatsLookShape ==
    ASSUME CallTypes, EntryTypes, NEW c \in Calls, StatsLooksUp(c)
    PROVE  \E n \in todo[c] : /\ pc[c] = "next name" /\ n \in Names
                              /\ LookUp(c, n) /\ todo'[c] = todo[c] \ {n}
<1>1. DOMAIN todo = Calls /\ todo[c] \subseteq Names
    BY DEF CallTypes
<1> QED
    BY ONLY <1>1, StatsLooksUp(c), c \in Calls DEF StatsLooksUp

LEMMA ReadShape ==
    ASSUME CallTypes, EntryTypes, NEW c \in Calls, InHand(c), StatsCounts(c)
    PROVE  /\ pc[c] = "count" /\ job[c].op = "Stats" /\ pc'[c] = "percentiles"
           /\ at[c] \in Names /\ got[c] \in EntryIds
           /\ out'[c][at[c]] = [events |-> counted[got[c]], latencies |-> {}]
           /\ \A n \in Names \ {at[c]} : out'[c][n] = out[c][n]
           /\ UNCHANGED <<job, caches, entryVars, at, got, todo, resets, since, before>>
<1>1. pc[c] = "count" /\ job[c].op = "Stats" /\ at[c] \in Names /\ got[c] \in EntryIds
    BY DEF StatsCounts, InHand
<1>2. /\ DOMAIN pc = Calls /\ DOMAIN out = Calls /\ DOMAIN out[c] = Names
    BY DEF CallTypes
<1> QED
    BY ONLY <1>1, <1>2, StatsCounts(c), c \in Calls DEF StatsCounts, GoTo

LEMMA CopyShape ==
    ASSUME CallTypes, EntryTypes, NEW c \in Calls, InHand(c), StatsCopiesLatencies(c)
    PROVE  /\ pc[c] = "percentiles" /\ job[c].op = "Stats" /\ pc'[c] = "next name"
           /\ at[c] \in Names /\ got[c] \in EntryIds /\ out[c][at[c]] \in Answers
           /\ out'[c][at[c]] \in Answers
           /\ out'[c][at[c]].events = out[c][at[c]].events
           /\ out'[c][at[c]].latencies = {ring[got[c]][i] : i \in 0..(latLen[got[c]] - 1)}
           /\ \A n \in Names \ {at[c]} : out'[c][n] = out[c][n]
           /\ UNCHANGED <<job, caches, entryVars, at, got, todo, resets, since, before>>
<1>1. /\ pc[c] = "percentiles" /\ job[c].op = "Stats" /\ at[c] \in Names
      /\ got[c] \in EntryIds /\ out[c][at[c]] # None
    BY DEF StatsCopiesLatencies, InHand
<1>2. out[c][at[c]] \in Answers
  <2>1. out[c] \in [Names -> Answers \cup {None}]
      BY DEF CallTypes
  <2> QED
      BY ONLY <1>1, <2>1
<1>3. /\ DOMAIN pc = Calls /\ DOMAIN out = Calls /\ DOMAIN out[c] = Names
    BY DEF CallTypes
<1> DEFINE L == {ring[got[c]][i] : i \in 0..(latLen[got[c]] - 1)}
<1>4. L \subseteq Nat
  <2>1. ring[got[c]] \in [0..(RingSize - 1) -> Nat] /\ latLen[got[c]] \in 0..RingSize
      BY <1>1 DEF EntryTypes
  <2> QED
      BY <2>1, MetricsAssumption
<1> HIDE DEF L
<1>5. [out[c][at[c]] EXCEPT !.latencies = L] \in Answers
    BY ONLY <1>2, <1>4 DEF Answers
<1>6. /\ [out[c][at[c]] EXCEPT !.latencies = L].events = out[c][at[c]].events
      /\ [out[c][at[c]] EXCEPT !.latencies = L].latencies = L
    BY ONLY <1>2 DEF Answers
<1>7. out' = [out EXCEPT ![c][at[c]].latencies = L]
    BY DEF StatsCopiesLatencies, L
<1>8. /\ out'[c][at[c]] = [out[c][at[c]] EXCEPT !.latencies = L]
      /\ \A n \in Names \ {at[c]} : out'[c][n] = out[c][n]
    BY ONLY <1>1, <1>3, <1>7, c \in Calls
<1>9. /\ pc'[c] = "next name"
      /\ UNCHANGED <<job, caches, entryVars, at, got, todo, resets, since, before>>
    BY <1>3 DEF StatsCopiesLatencies, GoTo
<1> QED
    BY <1>1, <1>2, <1>5, <1>6, <1>8, <1>9 DEF L

\* The steps that only come to an end.
LEMMA EndShape ==
    ASSUME CallTypes, NEW c \in Calls, StartIgnored(c) \/ StatsReturns(c) \/ Reset(c)
    PROVE  /\ pc'[c] = "done"
           /\ UNCHANGED <<job, entryVars, at, got, todo, out, since, before>>
           /\ \/ pc[c] = "new" /\ Records(c) /\ Ignored(c) /\ UNCHANGED <<caches, resets>>
              \/ pc[c] = "next name" /\ todo[c] = {} /\ UNCHANGED <<caches, resets>>
              \/ /\ pc[c] = "new" /\ job[c].op = "Reset" /\ resets' = resets + 1
                 /\ caches' = [n \in Names |-> None]
BY DEF CallTypes, StartIgnored, StatsReturns, Reset, GoTo

\* No step leaves the types.
LEMMA TypesStep ==
    ASSUME CallTypes, EntryTypes, NEW c \in Calls, InHand(c), Moves(c)
    PROVE  CallTypes' /\ EntryTypes'
<1>0. Local(c)
    BY IsLocal
<1>1. CASE RecordLooksUp(c) \/ StatsLooksUp(c)
  <2>1. PICK n \in Names : LookUp(c, n)
    <3>1. CASE StatsLooksUp(c)
        BY <3>1, StatsLookShape
    <3>2. CASE RecordLooksUp(c)
        BY <3>2, JobShape DEF RecordLooksUp
    <3> QED
        BY <1>1, <3>1, <3>2
  <2>2. /\ at' = [at EXCEPT ![c] = n] /\ UNCHANGED <<job, caches, entryVars, out, resets, before>>
        /\ \/ /\ caches[n] \in EntryIds /\ got' = [got EXCEPT ![c] = caches[n]]
              /\ pc' = [pc EXCEPT ![c] = "count"]
              /\ since' = [since EXCEPT ![c] = IF Records(c) THEN resets ELSE @]
           \/ pc' = [pc EXCEPT ![c] = "create"] /\ UNCHANGED <<got, since>>
    <3>1. caches[n] \in EntryIds \cup {None}
        BY DEF EntryTypes
    <3> QED
        BY ONLY <2>1, <3>1 DEF LookUp, Gets, GoTo
  <2>3. todo' \in [Calls -> SUBSET Names]
    <3>1. todo \in [Calls -> SUBSET Names]
        BY DEF CallTypes
    <3> QED
        BY ONLY <1>1, <3>1, c \in Calls DEF RecordLooksUp, StatsLooksUp
  <2>4. EntryTypes'
      BY <2>2 DEF EntryTypes, entryVars
  <2>5. /\ at' \in [Calls -> Names \cup {None}] /\ got' \in [Calls -> EntryIds \cup {None}]
        /\ pc' \in [Calls -> {"new", "create", "count", "add latency", "next name",
                              "percentiles", "done"}]
    <3>1. /\ at \in [Calls -> Names \cup {None}] /\ got \in [Calls -> EntryIds \cup {None}]
          /\ pc \in [Calls -> {"new", "create", "count", "add latency", "next name",
                               "percentiles", "done"}]
        BY DEF CallTypes
    <3> QED
        BY ONLY <2>1, <2>2, <3>1
  <2>6. since' \in [Calls -> Nat]
    <3>1. since \in [Calls -> Nat] /\ resets \in Nat
        BY DEF CallTypes
    <3> QED
        BY ONLY <2>2, <3>1
  <2> QED
      BY ONLY <2>2, <2>3, <2>4, <2>5, <2>6, CallTypes DEF CallTypes
<1>2. CASE Create(c)
  <2>1. /\ pc[c] = "create" /\ at[c] \in Names
        /\ caches' = [caches EXCEPT ![at[c]] = IF @ = None THEN <<c, at[c]>> ELSE @]
        /\ got' = [got EXCEPT ![c] = caches'[at[c]]]
        /\ pc' = [pc EXCEPT ![c] = "count"]
        /\ since' = [since EXCEPT ![c] = IF Records(c) THEN resets ELSE @]
        /\ UNCHANGED <<job, entryVars, at, todo, out, resets, before>>
      BY ONLY <1>2, InHand(c) DEF Create, Gets, GoTo, InHand
  <2>2. <<c, at[c]>> \in EntryIds
      BY <2>1, IdShape
  <2>3. caches' \in [Names -> EntryIds \cup {None}]
      BY ONLY <2>1, <2>2, EntryTypes DEF EntryTypes
  <2>4. caches'[at[c]] \in EntryIds \cup {None}
      BY ONLY <2>1, <2>3
  <2>5. EntryTypes'
      BY ONLY <2>1, <2>3, EntryTypes DEF EntryTypes, entryVars
  <2> QED
      BY ONLY <2>1, <2>4, <2>5, CallTypes, c \in Calls DEF CallTypes
<1>3. CASE RecordCounts(c)
  <2>1. got[c] \in EntryIds
      BY <1>3, CountShape
  <2>2. EntryTypes'
      BY ONLY <1>3, <2>1, EntryTypes, c \in Calls DEF RecordCounts, EntryTypes
  <2>3. CallTypes'
      BY ONLY <1>3, CallTypes, c \in Calls DEF RecordCounts, CallTypes, GoTo
  <2> QED
      BY <2>2, <2>3
<1>4. CASE AddLatency(c)
  <2>1. got[c] \in EntryIds /\ job[c].duration \in Nat
      BY <1>4, AddShape, JobShape DEF Entered
  <2>2. CallTypes'
      BY ONLY <1>4, CallTypes, c \in Calls DEF AddLatency, CallTypes, GoTo
  <2> DEFINE e == got[c]
  <2>3. /\ latHead[e] \in 0..(RingSize - 1) /\ latLen[e] \in 0..RingSize
        /\ ring[e] \in [0..(RingSize - 1) -> Nat] /\ added[e] \in Seq(Nat)
      BY <2>1 DEF EntryTypes
  <2>4. /\ [ring[e] EXCEPT ![latHead[e]] = job[c].duration] \in [0..(RingSize - 1) -> Nat]
        /\ Append(added[e], job[c].duration) \in Seq(Nat)
      BY ONLY <2>1, <2>3
  <2>5. (latHead[e] + 1) % RingSize \in 0..(RingSize - 1) /\ NextLen(e) \in 0..RingSize
    <3>1. latHead[e] + 1 \in Nat /\ RingSize \in Nat \ {0}
        BY ONLY <2>3, MetricsAssumption DEF MetricsAssumption
    <3>2. (latHead[e] + 1) % RingSize \in 0..(RingSize - 1)
        BY ONLY <3>1, Remainders
    <3>3. NextLen(e) \in 0..RingSize
        BY ONLY <2>3, <3>1 DEF NextLen
    <3> QED
        BY <3>2, <3>3
  <2>6. /\ ring' = [ring EXCEPT ![e] = [ring[e] EXCEPT ![latHead[e]] = job[c].duration]]
        /\ latHead' = [latHead EXCEPT ![e] = (latHead[e] + 1) % RingSize]
        /\ latLen' = [latLen EXCEPT ![e] = NextLen(e)]
        /\ added' = [added EXCEPT ![e] = Append(added[e], job[c].duration)]
        /\ UNCHANGED <<caches, counted>>
      BY ONLY <1>4, <2>1, EntryTypes DEF AddLatency, EntryTypes
  <2> HIDE DEF e
  <2>7. EntryTypes'
      BY ONLY <2>4, <2>5, <2>6, EntryTypes DEF EntryTypes
  <2> QED
      BY <2>2, <2>7
<1>5. CASE ListNames(c)
  <2>1. Recorded \subseteq Calls
      BY DEF Recorded
  <2>2. CallTypes'
      BY ONLY <1>5, <2>1, CallTypes, c \in Calls DEF ListNames, CallTypes, GoTo
  <2>3. EntryTypes'
      BY ONLY <1>5, EntryTypes DEF ListNames, EntryTypes, entryVars
  <2> QED
      BY <2>2, <2>3
<1>6. CASE StatsCounts(c) \/ StatsCopiesLatencies(c)
  <2>1. /\ at[c] \in Names /\ out'[c][at[c]] \in Answers
        /\ \A n \in Names \ {at[c]} : out'[c][n] = out[c][n]
    <3>1. CASE StatsCopiesLatencies(c)
        BY <3>1, CopyShape
    <3>2. CASE StatsCounts(c)
      <4>1. got[c] \in EntryIds
          BY <3>2, ReadShape
      <4>2. counted[got[c]] \subseteq Calls
          BY <4>1 DEF EntryTypes
      <4>3. [events |-> counted[got[c]], latencies |-> {}] \in Answers
          BY ONLY <4>2 DEF Answers
      <4> QED
          BY <3>2, <4>3, ReadShape
    <3> QED
        BY <1>6, <3>1, <3>2
  <2>2. out \in [Calls -> [Names -> Answers \cup {None}]]
      BY DEF CallTypes
  <2>3. /\ DOMAIN out' = Calls /\ DOMAIN out'[c] = Names
        /\ \A d \in Calls \ {c} : out'[d] = out[d]
      BY ONLY <1>6, <2>2, c \in Calls DEF StatsCounts, StatsCopiesLatencies
  <2>4. out' \in [Calls -> [Names -> Answers \cup {None}]]
    <3>1. out' = [d \in Calls |-> out'[d]] /\ out'[c] = [n \in Names |-> out'[c][n]]
        BY ONLY <1>6, <2>2, <2>3, c \in Calls DEF StatsCounts, StatsCopiesLatencies
    <3>2. \A n \in Names : out'[c][n] \in Answers \cup {None}
        BY ONLY <2>1, <2>2, c \in Calls
    <3>3. out'[c] \in [Names -> Answers \cup {None}]
        BY ONLY <3>1, <3>2
    <3>4. \A d \in Calls : out'[d] \in [Names -> Answers \cup {None}]
        BY ONLY <2>2, <2>3, <3>3, c \in Calls
    <3> QED
        BY ONLY <3>1, <3>4
  <2>5. EntryTypes'
      BY ONLY <1>6, EntryTypes DEF StatsCounts, StatsCopiesLatencies, EntryTypes, entryVars
  <2>6. /\ pc' \in [Calls -> {"new", "create", "count", "add latency", "next name",
                              "percentiles", "done"}]
        /\ UNCHANGED <<job, at, got, todo, resets, since, before>>
    <3>1. \/ pc' = [pc EXCEPT ![c] = "percentiles"]
          \/ pc' = [pc EXCEPT ![c] = "next name"]
        BY ONLY <1>6 DEF StatsCounts, StatsCopiesLatencies, GoTo
    <3>2. UNCHANGED <<job, at, got, todo, resets, since, before>>
        BY ONLY <1>6 DEF StatsCounts, StatsCopiesLatencies
    <3> QED
        BY ONLY <3>1, <3>2, CallTypes, c \in Calls DEF CallTypes
  <2> QED
      BY ONLY <2>4, <2>5, <2>6, CallTypes DEF CallTypes
<1>7. CASE StartIgnored(c) \/ StatsReturns(c) \/ Reset(c)
  <2>1. CallTypes'
    <3>1. /\ pc' = [pc EXCEPT ![c] = "done"]
          /\ UNCHANGED <<job, at, got, todo, out, since, before>>
          /\ resets' = resets \/ resets' = resets + 1
        BY ONLY <1>7 DEF StartIgnored, StatsReturns, Reset, GoTo
    <3>2. pc' \in [Calls -> {"new", "create", "count", "add latency", "next name",
                             "percentiles", "done"}]
        BY ONLY <3>1, CallTypes DEF CallTypes
    <3>3. resets' \in Nat
      <4>1. resets \in Nat
          BY DEF CallTypes
      <4> QED
          BY ONLY <3>1, <4>1
    <3> QED
        BY ONLY <3>1, <3>2, <3>3, CallTypes DEF CallTypes
  <2>2. EntryTypes'
      BY ONLY <1>7, EntryTypes
      DEF StartIgnored, StatsReturns, Reset, EntryTypes, entryVars
  <2> QED
      BY <2>1, <2>2
<1> QED
    BY <1>1, <1>2, <1>3, <1>4, <1>5, <1>6, <1>7 DEF Moves

------------------------------------------------------------------------------
(* Nothing is lost *)

LEMMA RecordsInit == Init => RecordsInv
<1> SUFFICES ASSUME Init PROVE RecordsInv
    OBVIOUS
<1>1. CallTypes /\ EntryTypes
    BY TypesInit
<1>2. /\ \A c \in Calls : /\ pc[c] = "new" /\ got[c] = None /\ todo[c] = {}
                          /\ since[c] = 0 /\ \A n \in Names : out[c][n] = None
      /\ \A n \in Names : caches[n] = None
      /\ \A e \in EntryIds : counted[e] = {} /\ e # None
      /\ resets = 0
    BY MetricsAssumption DEF Init
<1>3. \A c \in Calls : ~Entered(c)
    BY ONLY <1>2 DEF Entered
<1>4. \A c \in Calls : InHand(c) /\ Current(c)
  <2> TAKE c \in Calls
  <2>1. since[c] <= resets
      BY ONLY <1>2
  <2> QED
      BY ONLY <1>2, <1>3, <2>1 DEF InHand, Current
<1>5. \A c \in Calls : CreatesOnce(c)
    BY <1>2, IdShape DEF CreatesOnce, Unused
<1>6. Named /\ Counts /\ Counted
    BY ONLY <1>2, <1>3 DEF Named, Counts, Counted
<1> QED
    BY <1>1, <1>4, <1>5, <1>6 DEF RecordsInv

LEMMA Footprint ==
    ASSUME RecordsInv, NEW c \in Calls, Moves(c)
    PROVE  /\ resets <= resets' /\ pc'[c] # "new"
           /\ \A n \in Names : \/ caches'[n] \in {caches[n], None}
                               \/ /\ pc[c] = "create" /\ n = at[c] /\ caches[n] = None
                                  /\ caches'[n] = <<c, n>>
           /\ got'[c] = got[c] \/ \E n \in Names : got'[c] = caches'[n]
           /\ \A e \in EntryIds :
                 \/ counted'[e] = counted[e]
                 \/ /\ counted'[e] = counted[e] \cup {c}
                    /\ pc[c] = "count" /\ Records(c) /\ got[c] = e
<1>0. CallTypes /\ EntryTypes /\ InHand(c) /\ resets \in Nat
    BY DEF RecordsInv, CallTypes
<1>1. CASE RecordLooksUp(c) \/ StatsLooksUp(c)
  <2>1. PICK n \in Names : LookUp(c, n)
      BY <1>0, <1>1, StatsLookShape, JobShape DEF RecordLooksUp
  <2>2. /\ caches' = caches /\ resets' = resets /\ counted' = counted
        /\ pc'[c] \in {"count", "create"}
        /\ got'[c] = caches[n] \/ got'[c] = got[c]
      BY <1>0, <2>1, LookUpShape DEF entryVars
  <2> QED
      BY ONLY <1>0, <2>1, <2>2, LookUpShape, c \in Calls
<1>2. CASE Create(c)
  <2>1. /\ pc[c] = "create" /\ pc'[c] = "count" /\ at[c] \in Names
        /\ got'[c] = caches'[at[c]]
        /\ caches'[at[c]] = IF caches[at[c]] = None THEN <<c, at[c]>> ELSE caches[at[c]]
        /\ \A n \in Names \ {at[c]} : caches'[n] = caches[n]
        /\ UNCHANGED <<resets, counted>>
      BY <1>0, <1>2, CreateShape DEF entryVars
  <2> QED
      BY ONLY <1>0, <2>1
<1>3. CASE RecordCounts(c)
  <2>1. /\ UNCHANGED <<caches, resets, got>> /\ pc'[c] # "new"
        /\ pc[c] = "count" /\ Records(c)
        /\ counted'[got[c]] = counted[got[c]] \cup {c}
        /\ \A e \in EntryIds \ {got[c]} : counted'[e] = counted[e]
      BY <1>0, <1>3, CountShape
  <2> QED
      BY ONLY <1>0, <2>1
<1>4. CASE AddLatency(c)
  <2>1. UNCHANGED <<caches, resets, counted, got>> /\ pc'[c] # "new"
      BY <1>0, <1>4, AddShape DEF entryVars
  <2> QED
      BY ONLY <1>0, <2>1
<1>5. CASE ListNames(c)
  <2>1. UNCHANGED <<caches, resets, counted, got>> /\ pc'[c] # "new"
      BY <1>0, <1>5, ListShape DEF entryVars
  <2> QED
      BY ONLY <1>0, <2>1
<1>6. CASE StatsCounts(c)
  <2>1. UNCHANGED <<caches, resets, counted, got>> /\ pc'[c] # "new"
      BY <1>0, <1>6, ReadShape DEF entryVars
  <2> QED
      BY ONLY <1>0, <2>1
<1>7. CASE StatsCopiesLatencies(c)
  <2>1. UNCHANGED <<caches, resets, counted, got>> /\ pc'[c] # "new"
      BY <1>0, <1>7, CopyShape DEF entryVars
  <2> QED
      BY ONLY <1>0, <2>1
<1>8. CASE StartIgnored(c) \/ StatsReturns(c) \/ Reset(c)
  <2>1. UNCHANGED <<counted, got>> /\ pc'[c] # "new"
      BY <1>0, <1>8, EndShape DEF entryVars
  <2>2. \/ UNCHANGED <<caches, resets>>
        \/ caches' = [n \in Names |-> None] /\ resets' = resets + 1
      BY ONLY <1>8 DEF StartIgnored, StatsReturns, Reset
  <2> QED
      BY ONLY <1>0, <2>1, <2>2
<1> QED
    BY <1>1, <1>2, <1>3, <1>4, <1>5, <1>6, <1>7, <1>8 DEF Moves

\* Only the call that creates an entry uses a new one.
LEMMA UnusedKept ==
    ASSUME RecordsInv, NEW c \in Calls, Moves(c), NEW e \in EntryIds, Unused(e),
           ~(pc[c] = "create" /\ e = <<c, at[c]>>)
    PROVE  Unused(e)'
<1>0. e # None
    BY MetricsAssumption
<1>1. Local(c)
    BY IsLocal DEF RecordsInv
<1>2. \A n \in Names : caches'[n] # e
  <2>1. \A n \in Names : \/ caches'[n] \in {caches[n], None}
                          \/ /\ pc[c] = "create" /\ n = at[c] /\ caches[n] = None
                             /\ caches'[n] = <<c, n>>
      BY ONLY Footprint, RecordsInv, Moves(c), c \in Calls
  <2> QED
      BY ONLY <1>0, <2>1, Unused(e), ~(pc[c] = "create" /\ e = <<c, at[c]>>) DEF Unused
<1>3. got'[c] # e
    BY ONLY <1>2, Footprint, RecordsInv, c \in Calls, Moves(c), Unused(e) DEF Unused
<1> QED
    BY ONLY <1>1, <1>2, <1>3, Unused(e) DEF Unused, Local

\* The other calls keep what they hold.
LEMMA OthersHold ==
    ASSUME RecordsInv, NEW c \in Calls, Moves(c), NEW d \in Calls, d # c
    PROVE  /\ (InHand(d) /\ CreatesOnce(d) /\ Current(d))'
           /\ Entered(d)' = Entered(d)
<1>0. /\ InHand(d) /\ CreatesOnce(d) /\ Current(d) /\ CreatesOnce(c)
      /\ since[d] \in Nat /\ resets \in Nat /\ since[d] <= resets
      /\ job[d].name \in Names \/ ~Records(d)
      /\ todo[d] \subseteq Names
      /\ pc[d] = "create" => at[d] \in Names
    BY JobShape DEF RecordsInv, CallTypes, InHand
<1>1. Local(c)
    BY IsLocal DEF RecordsInv
<1>2. Entered(d)' = Entered(d)
    BY ONLY <1>1, d \in Calls, d # c DEF Local, Entered, Records, Ignored
<1>3. resets' \in Nat /\ resets <= resets'
    BY Footprint, TypesStep DEF RecordsInv, CallTypes
<1>4. InHand(d)'
  <2>1. /\ pc'[d] = pc[d] /\ at'[d] = at[d] /\ got'[d] = got[d] /\ todo'[d] = todo[d]
        /\ out'[d] = out[d] /\ since'[d] = since[d] /\ job' = job
      BY ONLY <1>1, d \in Calls, d # c DEF Local
  <2>2. since'[d] <= resets'
      BY ONLY <1>0, <1>3, <2>1
  <2>3. (Records(d) <=> Records(d)') /\ (Ignored(d) <=> Ignored(d)')
      BY ONLY <2>1 DEF Records, Ignored
  <2> QED
      BY ONLY <1>0, <1>2, <2>1, <2>2, <2>3 DEF InHand
<1>5. CreatesOnce(d)'
  <2>1. \A n \in Names : Unused(<<d, n>>) => Unused(<<d, n>>)'
      BY UnusedKept, IdShape
  <2> QED
      BY ONLY <1>0, <1>1, <2>1, d \in Calls, d # c DEF CreatesOnce, Local
<1>6. Current(d)'
  <2> SUFFICES ASSUME Entered(d)
               PROVE  caches'[job'[d].name] = got'[d] <=> since'[d] = resets'
    <3>1. Entered(d)' => Entered(d)
        BY ONLY <1>2
    <3> QED
        BY <3>1 DEF Current
  <2> DEFINE n == job[d].name
  <2>0. n \in Names /\ got[d] \in EntryIds /\ got[d] # None
      BY <1>0, MetricsAssumption DEF Entered, InHand
  <2>1. got'[d] = got[d] /\ since'[d] = since[d] /\ job' = job
      BY ONLY <1>1, d \in Calls, d # c DEF Local
  <2>2. caches[n] = got[d] <=> since[d] = resets
      BY ONLY <1>0, Entered(d) DEF Current
  <2>3. CASE Create(c)
    <3>1. resets' = resets
        BY <2>3, CreateShape DEF RecordsInv
    <3>2. \/ caches'[n] = caches[n]
          \/ caches[n] = None /\ caches'[n] = <<c, at[c]>> /\ pc[c] = "create"
      <4>1. /\ pc[c] = "create"
            /\ caches'[at[c]] = IF caches[at[c]] = None THEN <<c, at[c]>> ELSE caches[at[c]]
            /\ \A m \in Names \ {at[c]} : caches'[m] = caches[m]
          BY <2>3, CreateShape DEF RecordsInv
      <4> QED
          BY ONLY <2>0, <4>1
    <3>3. pc[c] = "create" => <<c, at[c]>> # got[d]
        BY ONLY <1>0, d \in Calls DEF CreatesOnce, Unused
    <3> QED
        BY ONLY <2>0, <2>1, <2>2, <3>1, <3>2, <3>3
  <2>4. CASE Reset(c)
    <3>1. resets' = resets + 1 /\ caches'[n] = None
        BY <2>0, <2>4 DEF Reset
    <3> QED
        BY ONLY <1>0, <2>0, <2>1, <3>1
  <2>5. CASE ~Create(c) /\ ~Reset(c)
    <3>1. UNCHANGED <<caches, resets>>
        BY ONLY <2>5, Moves(c)
        DEF Moves, StartIgnored, RecordLooksUp, RecordCounts, AddLatency, ListNames,
            StatsLooksUp, LookUp, StatsCounts, StatsCopiesLatencies, StatsReturns
    <3> QED
        BY ONLY <2>1, <2>2, <3>1
  <2> QED
      BY <2>3, <2>4, <2>5
<1> QED
    BY <1>2, <1>4, <1>5, <1>6

\* What the call itself holds after its step.
LEMMA SelfHolds ==
    ASSUME RecordsInv, NEW c \in Calls, Moves(c)
    PROVE  (InHand(c) /\ CreatesOnce(c) /\ Current(c))'
<1>0. /\ CallTypes /\ EntryTypes /\ Named
      /\ InHand(c) /\ CreatesOnce(c) /\ Current(c)
      /\ resets \in Nat /\ since[c] \in Nat /\ todo[c] \subseteq Names
    BY DEF RecordsInv, CallTypes
<1>1. /\ CallTypes' /\ EntryTypes'
      /\ job' = job /\ (Records(c) <=> Records(c)') /\ (Ignored(c) <=> Ignored(c)')
      /\ resets <= resets' /\ resets' \in Nat /\ pc'[c] # "new"
  <2>1. job' = job
      BY <1>0, IsLocal DEF Local
  <2>2. CallTypes' /\ EntryTypes' /\ resets' \in Nat
      BY <1>0, TypesStep DEF CallTypes
  <2>3. resets <= resets' /\ pc'[c] # "new"
      BY Footprint
  <2> QED
      BY ONLY <2>1, <2>2, <2>3 DEF Records, Ignored
<1>2. \A n \in Names : Unused(<<c, n>>) /\ ~(pc[c] = "create" /\ n = at[c]) => Unused(<<c, n>>)'
  <2> SUFFICES ASSUME NEW n \in Names, Unused(<<c, n>>), ~(pc[c] = "create" /\ n = at[c])
               PROVE  Unused(<<c, n>>)'
      OBVIOUS
  <2>1. <<c, n>> \in EntryIds /\ ~(pc[c] = "create" /\ <<c, n>> = <<c, at[c]>>)
      BY IdShape
  <2> QED
      BY <2>1, UnusedKept
<1>3. CASE RecordLooksUp(c)
  <2> DEFINE n == job[c].name
  <2>1. /\ pc[c] = "new" /\ Records(c) /\ ~Ignored(c) /\ n \in Names /\ LookUp(c, n)
        /\ todo' = todo
      BY <1>0, <1>3, JobShape DEF RecordLooksUp
  <2>2. todo'[c] = {} /\ at'[c] = n /\ caches' = caches /\ resets' = resets /\ job' = job
      BY <1>0, <2>1, LookUpShape DEF InHand
  <2>3. \A m \in Names : Unused(<<c, m>>)'
      BY ONLY <1>0, <1>2, <2>1 DEF CreatesOnce
  <2>4. CASE /\ caches[n] \in EntryIds /\ got'[c] = caches[n] /\ pc'[c] = "count"
             /\ since'[c] = resets
    <3>1. got'[c][2] = n /\ got'[c] \in EntryIds
        BY ONLY <1>0, <2>1, <2>4, MetricsAssumption DEF Named, MetricsAssumption
    <3>2. Entered(c)'
        BY ONLY <1>1, <2>1, <2>4 DEF Entered
    <3>3. InHand(c)'
        BY ONLY <1>0, <1>1, <2>1, <2>2, <2>4, <3>1, <3>2 DEF InHand
    <3>4. CreatesOnce(c)'
        BY ONLY <2>2, <2>4 DEF CreatesOnce
    <3> QED
        BY ONLY <2>2, <2>4, <3>3, <3>4 DEF Current
  <2>5. CASE pc'[c] = "create" /\ UNCHANGED <<got, since>>
    <3>1. ~Entered(c)'
        BY ONLY <2>5 DEF Entered
    <3>2. InHand(c)'
        BY ONLY <1>0, <1>1, <2>1, <2>2, <2>5, <3>1 DEF InHand
    <3>3. CreatesOnce(c)'
        BY ONLY <2>1, <2>2, <2>3, <2>5 DEF CreatesOnce
    <3> QED
        BY ONLY <3>1, <3>2, <3>3 DEF Current
  <2> QED
      BY <1>0, <2>1, <2>4, <2>5, LookUpShape
<1>4. CASE StatsLooksUp(c)
  <2>1. PICK n \in todo[c] : /\ pc[c] = "next name" /\ n \in Names /\ LookUp(c, n)
                             /\ todo'[c] = todo[c] \ {n}
      BY <1>0, <1>4, StatsLookShape
  <2>2. /\ at'[c] = n /\ caches' = caches /\ resets' = resets /\ ~Records(c)
        /\ \/ /\ caches[n] \in EntryIds /\ got'[c] = caches[n] /\ pc'[c] = "count"
              /\ since'[c] = since[c]
           \/ pc'[c] = "create" /\ UNCHANGED <<got, since>>
    <3>1. ~Records(c)
        BY ONLY <1>0, <2>1 DEF InHand, Records
    <3>2. at'[c] = n /\ caches' = caches /\ resets' = resets
        BY <1>0, <2>1, LookUpShape
    <3> QED
        BY <1>0, <2>1, <3>1, <3>2, LookUpShape
  <2>3. ~Entered(c)'
      BY ONLY <1>1, <2>2 DEF Entered
  <2>4. InHand(c)'
    <3>1. pc'[c] = "count" => got'[c] \in EntryIds /\ got'[c][2] = at'[c]
        BY ONLY <1>0, <2>1, <2>2, MetricsAssumption DEF Named, MetricsAssumption
    <3>2. since'[c] <= resets'
        BY ONLY <1>0, <2>2 DEF InHand
    <3>3. pc'[c] \in {"count", "create"} /\ at'[c] \in Names
        BY ONLY <2>1, <2>2
    <3> QED
        BY ONLY <1>1, <2>2, <2>3, <3>1, <3>2, <3>3 DEF InHand
  <2>5. CreatesOnce(c)'
    <3>1. \A m \in todo[c] : Unused(<<c, m>>)'
        BY ONLY <1>0, <1>2, <2>1 DEF CreatesOnce
    <3>2. pc'[c] # "new" /\ at'[c] \in todo[c] /\ at'[c] \notin todo'[c]
          /\ todo'[c] \subseteq todo[c]
        BY ONLY <2>1, <2>2, <1>1
    <3> QED
        BY ONLY <3>1, <3>2 DEF CreatesOnce
  <2> QED
      BY ONLY <2>3, <2>4, <2>5 DEF Current
<1>5. CASE Create(c)
  <2>1. /\ pc[c] = "create" /\ pc'[c] = "count" /\ at[c] \in Names
        /\ got'[c] = caches'[at[c]] /\ got'[c] \in EntryIds
        /\ caches'[at[c]] = IF caches[at[c]] = None THEN <<c, at[c]>> ELSE caches[at[c]]
        /\ since'[c] = IF Records(c) THEN resets ELSE since[c]
        /\ UNCHANGED <<job, at, todo, out, resets>>
      BY <1>0, <1>5, CreateShape
  <2>2. got'[c][2] = at[c]
      BY ONLY <1>0, <2>1, IdShape, c \in Calls DEF Named
  <2>3. since'[c] <= resets'
      BY ONLY <1>0, <2>1 DEF InHand
  <2>4. Records(c) => at[c] = job[c].name /\ ~Ignored(c)
      BY ONLY <1>0, <2>1 DEF InHand
  <2>5. InHand(c)'
      BY ONLY <1>1, <2>1, <2>2, <2>3, <2>4 DEF InHand, Entered
  <2>6. CreatesOnce(c)'
      BY ONLY <1>0, <1>2, <2>1 DEF CreatesOnce
  <2>7. Current(c)'
    <3>1. Entered(c)' => Records(c)
        BY ONLY <1>1 DEF Entered
    <3>2. Records(c) => caches'[job'[c].name] = got'[c] /\ since'[c] = resets'
        BY ONLY <1>1, <2>1, <2>4
    <3> QED
        BY ONLY <3>1, <3>2 DEF Current
  <2> QED
      BY <2>5, <2>6, <2>7
<1>6. CASE RecordCounts(c) \/ AddLatency(c)
  <2>1. /\ pc[c] \in {"count", "add latency"} /\ Entered(c)
        /\ pc'[c] \in {"add latency", "done"}
        /\ pc'[c] = "add latency" => job[c].kind = "refresh success"
        /\ UNCHANGED <<caches, at, got, todo, out, resets, since>>
    <3>1. CASE RecordCounts(c)
      <4>1. /\ pc[c] = "count" /\ Records(c)
            /\ pc'[c] = IF job[c].kind = "refresh success" THEN "add latency" ELSE "done"
            /\ UNCHANGED <<caches, at, got, todo, out, resets, since>>
          BY <1>0, <3>1, CountShape
      <4> QED
          BY ONLY <1>0, <4>1 DEF InHand, Entered
    <3>2. CASE AddLatency(c)
        BY <1>0, <3>2, AddShape
    <3> QED
        BY <1>6, <3>1, <3>2
  <2>2. Entered(c)'
      BY ONLY <1>1, <2>1 DEF Entered
  <2>3. InHand(c)'
      BY ONLY <1>0, <1>1, <2>1, <2>2 DEF InHand
  <2>4. CreatesOnce(c)'
      BY ONLY <1>0, <1>2, <2>1 DEF CreatesOnce
  <2> QED
      BY ONLY <1>0, <1>1, <2>1, <2>2, <2>3, <2>4 DEF Current
<1>7. CASE ListNames(c) \/ StatsCounts(c) \/ StatsCopiesLatencies(c)
  <2>1. /\ job[c].op = "Stats" /\ pc'[c] \in {"next name", "percentiles"}
        /\ UNCHANGED <<caches, at, got, resets>> /\ since'[c] \in {since[c], resets}
        /\ pc'[c] = "percentiles" =>
              pc[c] = "count" /\ out'[c][at[c]] # None
        /\ \/ pc[c] = "new" /\ todo'[c] \subseteq Names
           \/ pc[c] # "create" /\ todo'[c] = todo[c]
    <3>1. CASE ListNames(c)
        BY <1>0, <3>1, ListShape
    <3>2. CASE StatsCounts(c)
      <4>1. [events |-> counted[got[c]], latencies |-> {}] # None
        <5>1. got[c] \in EntryIds
            BY <1>0, <3>2, ReadShape
        <5>2. counted[got[c]] \subseteq Calls
            BY <1>0, <5>1 DEF EntryTypes
        <5> QED
            BY ONLY <5>2, MetricsAssumption DEF MetricsAssumption, Answers
      <4> QED
          BY <1>0, <3>2, <4>1, ReadShape
    <3>3. CASE StatsCopiesLatencies(c)
        BY <1>0, <3>3, CopyShape
    <3> QED
        BY <1>7, <3>1, <3>2, <3>3
  <2>2. ~Records(c) /\ ~Entered(c)'
      BY ONLY <1>1, <2>1 DEF Records, Entered
  <2>3. InHand(c)'
    <3>1. pc'[c] = "percentiles" =>
              /\ at'[c] \in Names /\ got'[c] \in EntryIds /\ got'[c][2] = at'[c]
              /\ out'[c][at'[c]] # None
        BY ONLY <1>0, <2>1 DEF InHand
    <3>2. since'[c] <= resets' /\ job'[c].op = "Stats"
        BY ONLY <1>0, <1>1, <2>1 DEF InHand
    <3> QED
        BY ONLY <1>1, <2>1, <2>2, <3>1, <3>2 DEF InHand
  <2>4. CreatesOnce(c)'
      BY ONLY <1>0, <1>2, <2>1 DEF CreatesOnce
  <2> QED
      BY ONLY <2>2, <2>3, <2>4 DEF Current
<1>8. CASE StartIgnored(c) \/ StatsReturns(c) \/ Reset(c)
  <2>1. /\ pc'[c] = "done" /\ UNCHANGED <<at, got, todo, out, since>>
        /\ \/ pc[c] = "new" /\ Records(c) /\ Ignored(c)
           \/ pc[c] = "next name"
           \/ pc[c] = "new" /\ job[c].op = "Reset"
      BY <1>0, <1>8, EndShape
  <2>2. ~Entered(c)'
      BY ONLY <1>0, <1>1, <2>1 DEF Entered, Records, InHand
  <2>3. InHand(c)'
    <3>1. since[c] <= resets
        BY ONLY <1>0 DEF InHand
    <3>2. since'[c] = since[c] /\ resets <= resets'
        BY ONLY <1>1, <2>1
    <3>3. since'[c] <= resets'
        BY ONLY <1>0, <1>1, <3>1, <3>2
    <3> QED
        BY ONLY <1>1, <2>1, <2>2, <3>3 DEF InHand
  <2>4. CreatesOnce(c)'
      BY ONLY <1>0, <1>2, <2>1 DEF CreatesOnce
  <2> QED
      BY ONLY <2>2, <2>3, <2>4 DEF Current
<1> QED
    BY <1>3, <1>4, <1>5, <1>6, <1>7, <1>8 DEF Moves

LEMMA RecordsStep ==
    ASSUME RecordsInv, [Next]_vars
    PROVE  RecordsInv'
<1>1. CASE UNCHANGED vars
  <2>1. /\ UNCHANGED <<job, pc, caches, counted, ring, latHead, latLen, added>>
        /\ UNCHANGED <<at, got, todo, out, resets, since, before>>
      BY <1>1 DEF vars, entryVars
  <2>2. CallTypes' /\ EntryTypes'
      BY ONLY <2>1, RecordsInv DEF RecordsInv, CallTypes, EntryTypes
  <2>3. /\ \A c \in Calls : Entered(c)' = Entered(c) /\ InHand(c)' = InHand(c)
                           /\ Current(c)' = Current(c)
      BY ONLY <2>1 DEF Entered, InHand, Records, Ignored, Current
  <2>4. \A c \in Calls : CreatesOnce(c)' = CreatesOnce(c)
      BY ONLY <2>1 DEF CreatesOnce, Unused
  <2>5. Named' /\ Counts' /\ Counted'
    <3>1. Named'
        BY ONLY <2>1, RecordsInv DEF RecordsInv, Named
    <3>2. Counts'
        BY ONLY <2>1, <2>2, <2>3, RecordsInv DEF RecordsInv, Counts, EntryTypes
    <3>3. Counted'
        BY ONLY <2>1, <2>3, RecordsInv DEF RecordsInv, Counted
    <3> QED
        BY <3>1, <3>2, <3>3
  <2> QED
      BY ONLY <2>2, <2>3, <2>4, <2>5, RecordsInv DEF RecordsInv
<1>2. ASSUME NEW c \in Calls, Moves(c)
      PROVE  RecordsInv'
  <2>1. CallTypes /\ EntryTypes /\ InHand(c) /\ Named /\ Counts /\ Counted
      BY DEF RecordsInv
  <2>2. CallTypes' /\ EntryTypes' /\ Local(c)
      BY <1>2, <2>1, TypesStep, IsLocal
  <2>3. \A d \in Calls : (InHand(d) /\ CreatesOnce(d) /\ Current(d))'
      BY <1>2, OthersHold, SelfHolds
  <2>4. Named'
    <3>1. \A n \in Names : \/ caches'[n] \in {caches[n], None} \/ caches'[n] = <<c, n>>
      <4>1. \A n \in Names : \/ caches'[n] \in {caches[n], None}
                             \/ /\ pc[c] = "create" /\ n = at[c] /\ caches[n] = None
                                /\ caches'[n] = <<c, n>>
          BY ONLY Footprint, RecordsInv, <1>2
      <4> QED
          BY ONLY <4>1
    <3> QED
        BY ONLY <2>1, <3>1 DEF Named
  <2>5. \A e \in EntryIds :
            \/ counted'[e] = counted[e]
            \/ /\ counted'[e] = counted[e] \cup {c}
               /\ pc[c] = "count" /\ Records(c) /\ got[c] = e
      BY ONLY Footprint, RecordsInv, <1>2
  <2>6. \A d \in Calls \ {c} : Entered(d)' = Entered(d) /\ got'[d] = got[d] /\ pc'[d] = pc[d]
      BY <1>2, <2>2, OthersHold DEF Local
  <2>7. Entered(c) =>
            /\ Entered(c)' /\ got'[c] = got[c] /\ pc'[c] # "count"
            /\ pc[c] = "count" => c \in counted'[got[c]]
    <3> SUFFICES ASSUME Entered(c)
                 PROVE  /\ Entered(c)' /\ got'[c] = got[c] /\ pc'[c] # "count"
                        /\ pc[c] = "count" => c \in counted'[got[c]]
        OBVIOUS
    <3>0. (Entered(c)' <=> Records(c) /\ ~Ignored(c)
                           /\ pc'[c] \in {"count", "add latency", "done"})
        BY ONLY <2>2 DEF Entered, Local, Records, Ignored
    <3>1. CASE RecordCounts(c)
        BY <2>1, <3>0, <3>1, CountShape DEF Entered
    <3>2. CASE AddLatency(c)
        BY <2>1, <3>0, <3>2, AddShape DEF Entered
    <3>3. RecordCounts(c) \/ AddLatency(c)
        BY ONLY <1>2, <2>1, Entered(c)
        DEF Moves, Entered, Records, InHand, StartIgnored, RecordLooksUp, Create, ListNames,
            StatsLooksUp, StatsCounts, StatsCopiesLatencies, StatsReturns, Reset
    <3> QED
        BY <3>1, <3>2, <3>3
  <2>8. pc[c] = "count" /\ Records(c) => Entered(c)
      BY ONLY <2>1 DEF InHand, Entered
  <2>9. Counts'
    <3> SUFFICES ASSUME NEW e \in EntryIds, NEW d \in counted'[e]
                 PROVE  Entered(d)' /\ got'[d] = e /\ pc'[d] # "count"
        BY DEF Counts
    <3>1. d \in Calls
        BY <2>2 DEF EntryTypes
    <3>2. CASE d \in counted[e]
        BY ONLY <2>1, <2>6, <2>7, <3>1, <3>2, e \in EntryIds DEF Counts
    <3>3. CASE d \notin counted[e]
      <4>1. d = c /\ pc[c] = "count" /\ Records(c) /\ got[c] = e
          BY ONLY <2>5, <3>3, d \in counted'[e], e \in EntryIds
      <4> QED
          BY ONLY <2>7, <2>8, <4>1
    <3> QED
        BY <3>2, <3>3
  <2>10. Counted'
    <3> SUFFICES ASSUME NEW d \in Calls, Entered(d)', pc'[d] # "count"
                 PROVE  d \in counted'[got'[d]]
        BY DEF Counted
    <3>1. CASE d # c
      <4>1. Entered(d) /\ got'[d] = got[d] /\ pc[d] # "count" /\ got[d] \in EntryIds
          BY <2>6, <3>1 DEF RecordsInv, InHand
      <4> QED
          BY ONLY <2>1, <2>5, <4>1, d \in Calls DEF Counted
    <3>2. CASE d = c /\ Entered(c)
      <4>1. got[c] \in EntryIds
          BY <3>2 DEF RecordsInv, InHand
      <4> QED
          BY ONLY <2>1, <2>5, <2>7, <3>2, <4>1, d \in Calls DEF Counted
    <3>3. CASE d = c /\ ~Entered(c)
      <4>1. /\ Records(c) /\ ~Ignored(c) /\ pc'[c] \in {"add latency", "done"}
          BY ONLY <2>2, <3>3, Entered(d)', pc'[d] # "count"
          DEF Entered, Local, Records, Ignored
      <4>2. pc[c] \in {"new", "create"}
          BY ONLY <1>2, <2>1, <3>3, <4>1
          DEF Moves, Entered, Records, InHand, StartIgnored, RecordLooksUp, Create,
              RecordCounts, AddLatency, ListNames,
              StatsLooksUp, StatsCounts, StatsCopiesLatencies, StatsReturns, Reset
      <4>3. RecordLooksUp(c) \/ Create(c)
          BY ONLY <1>2, <2>1, <4>1, <4>2
          DEF Moves, Records, InHand, StartIgnored, RecordCounts, AddLatency, ListNames,
              StatsLooksUp, StatsCounts, StatsCopiesLatencies, StatsReturns, Reset
      <4>4. CASE Create(c)
          BY <2>1, <4>1, <4>4, CreateShape
      <4>5. CASE RecordLooksUp(c)
        <5>1. job[c].name \in Names /\ LookUp(c, job[c].name)
            BY <2>1, <4>1, <4>5, JobShape DEF RecordLooksUp
        <5> QED
            BY <2>1, <4>1, <5>1, LookUpShape
      <4> QED
          BY <4>3, <4>4, <4>5
    <3> QED
        BY <3>1, <3>2, <3>3
  <2> QED
      BY ONLY <2>2, <2>3, <2>4, <2>9, <2>10 DEF RecordsInv
<1>3. [Next]_vars => UNCHANGED vars \/ \E c \in Calls : Moves(c)
    BY DEF Next, Quiescent, Moves
<1> QED
    BY <1>1, <1>2, <1>3

\* The inductive invariant of the events: an entry in the map is the one its calls
\* hold exactly until the next Reset, and holds what they have counted
\* (inmem.go:79-120).
THEOREM RecordsAreKept == Spec => []RecordsInv
<1>1. Init => RecordsInv
    BY RecordsInit
<1>2. RecordsInv /\ [Next]_vars => RecordsInv'
    BY RecordsStep
<1> QED
    BY <1>1, <1>2, PTL DEF Spec

\* An event recorded under an entry looked up since the last Reset is in the entry
\* Stats will read (inmem.go:79-93).
THEOREM NoEventIsLost == Spec => []NothingLost
<1>1. RecordsInv => NothingLost
  <2> SUFFICES ASSUME RecordsInv, NEW c \in Recorded, since[c] = resets
               PROVE  /\ caches[job[c].name] # None
                      /\ c \in counted[caches[job[c].name]]
      BY DEF NothingLost
  <2>1. c \in Calls /\ Entered(c) /\ pc[c] # "count"
      BY DEF Recorded, Entered
  <2>2. got[c] \in EntryIds /\ caches[job[c].name] = got[c] /\ c \in counted[got[c]]
      BY <2>1 DEF RecordsInv, InHand, Current, Counted
  <2> QED
      BY <2>2, MetricsAssumption
<1> QED
    BY <1>1, RecordsAreKept, PTL

------------------------------------------------------------------------------
(* Stats is current *)

\* A call that has returned moves no more.
LEMMA Returned ==
    ASSUME RecordsInv, NEW c \in Calls, Moves(c)
    PROVE  pc[c] # "done"
BY DEF Moves, RecordsInv, InHand, StartIgnored, RecordLooksUp, RecordCounts, AddLatency,
       Create, ListNames, StatsLooksUp, StatsCounts, StatsCopiesLatencies, StatsReturns,
       Reset

\* What was recorded stays so, under the entry and the count of Resets it has.
LEMMA RecordedStays ==
    ASSUME RecordsInv, NEW c \in Calls, Moves(c), NEW d \in Recorded
    PROVE  /\ d \in Calls /\ d # c /\ d \in Recorded' /\ Entered(d)
           /\ got'[d] = got[d] /\ since'[d] = since[d]
           /\ job[d].name \in Names /\ got[d] \in EntryIds /\ got[d][2] = job[d].name
           /\ d \in counted[got[d]] /\ since[d] \in Nat
           /\ caches[job[d].name] = got[d] <=> since[d] = resets
<1>1. d \in Calls /\ pc[d] = "done" /\ Entered(d) /\ Records(d)
    BY DEF Recorded, Entered
<1>2. d # c /\ Local(c)
    BY <1>1, Returned, IsLocal DEF RecordsInv
<1>3. d \in Recorded' /\ got'[d] = got[d] /\ since'[d] = since[d]
    BY ONLY <1>1, <1>2, d \in Recorded DEF Recorded, Local, Records, Ignored
<1>4. /\ job[d].name \in Names /\ since[d] \in Nat
    BY <1>1, JobShape DEF RecordsInv, CallTypes
<1>5. /\ got[d] \in EntryIds /\ got[d][2] = job[d].name
      /\ caches[job[d].name] = got[d] <=> since[d] = resets
      /\ d \in counted[got[d]]
    BY <1>1 DEF RecordsInv, InHand, Current, Counted
<1> QED
    BY <1>1, <1>2, <1>3, <1>4, <1>5

LEMMA OthersRead ==
    ASSUME RecordsInv, StatsInv, NEW m \in Calls, Moves(m), NEW c \in Calls, c # m
    PROVE  (Reads(c) /\ HasRead(c))'
<1>0. /\ Reads(c) /\ HasRead(c) /\ InHand(c) /\ Local(m)
      /\ resets \in Nat /\ since[c] \in Nat
      /\ resets' \in Nat /\ resets <= resets'
  <2>1. Reads(c) /\ HasRead(c) /\ InHand(c) /\ resets \in Nat /\ since[c] \in Nat
      BY DEF StatsInv, RecordsInv, CallTypes
  <2>2. resets' \in Nat /\ resets <= resets'
      BY TypesStep, Footprint DEF RecordsInv, CallTypes
  <2> QED
      BY <2>1, <2>2, IsLocal DEF RecordsInv
<1>1. /\ pc'[c] = pc[c] /\ at'[c] = at[c] /\ got'[c] = got[c] /\ todo'[c] = todo[c]
      /\ out'[c] = out[c] /\ since'[c] = since[c] /\ before'[c] = before[c]
      /\ job' = job /\ (IsStats(c) <=> IsStats(c)')
    BY ONLY <1>0, c \in Calls, c # m DEF Local, IsStats
<1> SUFFICES ASSUME IsStats(c) PROVE (Reads(c) /\ HasRead(c))'
    BY <1>1 DEF Reads, HasRead
<1>2. /\ since[c] <= resets /\ before[c] \subseteq Recorded
      /\ since[c] = resets' => since[c] = resets
    BY ONLY <1>0, IsStats(c) DEF HasRead
<1>3. \A d \in before[c] : /\ d \in Calls /\ d \in Recorded'
                           /\ got'[d] = got[d] /\ since'[d] = since[d]
    BY <1>2, RecordedStays
<1>4. Reads(c)'
  <2> SUFFICES ASSUME pc[c] \in {"count", "percentiles"}
               PROVE  /\ since[c] = resets' => caches'[at[c]] = got[c]
                      /\ \A d \in before[c] : since'[d] < since[c] => got'[d] # got[c]
      BY <1>1 DEF Reads
  <2>1. /\ since[c] = resets => caches[at[c]] = got[c]
        /\ \A d \in before[c] : since[d] < since[c] => got[d] # got[c]
        /\ got[c] \in EntryIds /\ at[c] \in Names
      BY ONLY <1>0, IsStats(c), pc[c] \in {"count", "percentiles"} DEF Reads, InHand
  <2>2. ASSUME since[c] = resets' PROVE caches'[at[c]] = got[c]
    <3>1. ~Reset(m)
        BY ONLY <1>0, <1>2, <2>2 DEF Reset
    <3>2. CASE Create(m)
      <4>1. caches[at[c]] = got[c] /\ got[c] # None
          BY <1>2, <2>1, <2>2, MetricsAssumption
      <4>2. \A n \in Names : caches[n] # None => caches'[n] = caches[n]
        <5>1. /\ at[m] \in Names
              /\ caches'[at[m]] = IF caches[at[m]] = None THEN <<m, at[m]>> ELSE caches[at[m]]
              /\ \A n \in Names \ {at[m]} : caches'[n] = caches[n]
            BY <3>2, CreateShape DEF RecordsInv
        <5> QED
            BY ONLY <5>1
      <4> QED
          BY ONLY <2>1, <4>1, <4>2
    <3>3. CASE ~Create(m)
      <4>1. caches' = caches
          BY ONLY <3>1, <3>3, Moves(m)
          DEF Moves, StartIgnored, RecordLooksUp, RecordCounts, AddLatency, ListNames,
              StatsLooksUp, LookUp, StatsCounts, StatsCopiesLatencies, StatsReturns
      <4> QED
          BY ONLY <1>2, <2>1, <2>2, <4>1
    <3> QED
        BY <3>2, <3>3
  <2> QED
      BY ONLY <1>3, <2>1, <2>2
<1>5. HasRead(c)'
  <2>1. \A d \in Calls : (Records(d) <=> Records(d)')
      BY ONLY <1>1 DEF Records
  <2>2. since'[c] <= resets' /\ before'[c] \subseteq Recorded'
      BY ONLY <1>0, <1>1, <1>2, <1>3
  <2>3. \A d \in before'[c] : since'[d] = since'[c] /\ since'[c] = resets' =>
              \/ job'[d].name \in todo'[c]
              \/ pc'[c] \in {"create", "count"} /\ at'[c] = job'[d].name
              \/ /\ out'[c][job'[d].name] # None
                 /\ d \in out'[c][job'[d].name].events
      BY ONLY <1>0, <1>1, <1>2, <1>3, IsStats(c) DEF HasRead
  <2>4. \A n \in Names : out'[c][n] # None =>
              \A d \in out'[c][n].events :
                  /\ Records(d)' /\ job'[d].name = n
                  /\ ~(d \in before'[c] /\ since'[d] < since'[c])
    <3> SUFFICES ASSUME NEW n \in Names, out'[c][n] # None, NEW d \in out'[c][n].events
                 PROVE  /\ Records(d)' /\ job'[d].name = n
                        /\ ~(d \in before'[c] /\ since'[d] < since'[c])
        OBVIOUS
    <3>1. /\ Records(d) /\ job[d].name = n /\ ~(d \in before[c] /\ since[d] < since[c])
        BY <1>0, <1>1 DEF HasRead
    <3> QED
        BY ONLY <1>1, <1>3, <3>1 DEF Records
  <2>5. pc'[c] = "done" => todo'[c] = {}
      BY ONLY <1>0, <1>1, IsStats(c) DEF HasRead
  <2> QED
      BY ONLY <2>2, <2>3, <2>4, <2>5 DEF HasRead
<1> QED
    BY <1>4, <1>5

\* The entry Stats is given is none that a Reset removed before it began.
LEMMA NotAnOldOne ==
    ASSUME RecordsInv, StatsInv, NEW c \in Calls, Moves(c), IsStats(c),
           NEW d \in before[c], since[d] < since[c], NEW n \in Names, caches[n] # None
    PROVE  got[d] # caches[n]
<1>1. /\ before[c] \subseteq Recorded /\ since[c] <= resets
      /\ since[c] \in Nat /\ resets \in Nat /\ caches[n][2] = n
    BY DEF StatsInv, HasRead, RecordsInv, CallTypes, Named
<1>2. /\ got[d][2] = job[d].name /\ since[d] \in Nat
      /\ caches[job[d].name] = got[d] <=> since[d] = resets
    BY <1>1, RecordedStays
<1>3. since[d] # resets
    BY ONLY <1>1, <1>2, since[d] < since[c]
<1> QED
    BY ONLY <1>1, <1>2, <1>3

LEMMA SelfReads ==
    ASSUME RecordsInv, StatsInv, NEW c \in Calls, Moves(c)
    PROVE  (Reads(c) /\ HasRead(c))'
<1>0. /\ CallTypes /\ EntryTypes /\ InHand(c) /\ Named
      /\ Reads(c) /\ HasRead(c) /\ resets \in Nat /\ since[c] \in Nat
    BY DEF StatsInv, RecordsInv, CallTypes
<1>1. job' = job /\ pc'[c] # "new"
    BY <1>0, IsLocal, Footprint DEF Local
<1>a. IsStats(c)' <=> job[c].op = "Stats"
    BY ONLY <1>1 DEF IsStats
<1>b. \A d \in Calls : (Records(d) <=> Records(d)')
    BY ONLY <1>1 DEF Records
<1>c. \A d \in Recorded : /\ d \in Calls /\ d \in Recorded'
                          /\ got'[d] = got[d] /\ since'[d] = since[d]
    BY RecordedStays
<1> SUFFICES ASSUME job[c].op = "Stats" PROVE (Reads(c) /\ HasRead(c))'
    BY <1>a DEF Reads, HasRead
<1>2. ~Records(c)
    BY DEF Records
<1>3. CASE ListNames(c)
  <2>1. /\ pc[c] = "new" /\ pc'[c] = "next name"
        /\ todo'[c] = {n \in Names : caches[n] # None}
        /\ since'[c] = resets /\ before'[c] = Recorded
        /\ UNCHANGED <<out, resets>>
      BY <1>0, <1>3, ListShape
  <2>2. Reads(c)'
      BY ONLY <2>1 DEF Reads
  <2>3. \A d \in Recorded : since[d] = resets => job[d].name \in todo'[c]
    <3>1. \A d \in Recorded : /\ job[d].name \in Names /\ got[d] \in EntryIds
                              /\ caches[job[d].name] = got[d] <=> since[d] = resets
        BY RecordedStays
    <3>2. \A e \in EntryIds : e # None
        BY MetricsAssumption
    <3> QED
        BY ONLY <2>1, <3>1, <3>2
  <2>4. \A n \in Names : out'[c][n] = None
      BY ONLY <1>0, <2>1 DEF InHand
  <2>5. since'[c] <= resets' /\ before'[c] \subseteq Recorded'
    <3>1. since'[c] <= resets'
      <4>1. since'[c] = resets /\ resets' = resets /\ resets \in Nat
          BY ONLY <1>0, <2>1
      <4> QED
          BY ONLY <4>1
    <3>2. before'[c] \subseteq Recorded'
        BY ONLY <1>c, <2>1
    <3> QED
        BY <3>1, <3>2
  <2> QED
      BY ONLY <1>1, <1>c, <2>1, <2>2, <2>3, <2>4, <2>5 DEF HasRead
<1>4. CASE ~ListNames(c)
  <2>1. IsStats(c) /\ UNCHANGED <<resets, before>> /\ since'[c] = since[c]
    <3>1. \/ StatsLooksUp(c) \/ StatsCounts(c) \/ StatsCopiesLatencies(c)
          \/ StatsReturns(c) \/ Create(c)
        BY ONLY <1>0, <1>2, <1>4, Moves(c), job[c].op = "Stats"
        DEF Moves, StartIgnored, RecordLooksUp, RecordCounts, AddLatency, InHand, Entered,
            Reset
    <3>2. pc[c] # "new" /\ UNCHANGED <<resets, before>>
        BY ONLY <3>1
        DEF StatsLooksUp, LookUp, StatsCounts, StatsCopiesLatencies, StatsReturns, Create
    <3>3. since'[c] = since[c]
      <4>1. DOMAIN since = Calls
          BY <1>0 DEF CallTypes
      <4> QED
          BY ONLY <1>2, <3>1, <4>1, c \in Calls
          DEF StatsLooksUp, LookUp, Gets, StatsCounts, StatsCopiesLatencies, StatsReturns,
              Create
    <3> QED
        BY <3>2, <3>3 DEF IsStats
  <2>2. /\ since[c] <= resets /\ before[c] \subseteq Recorded
        /\ \A d \in before[c] : since[d] = since[c] /\ since[c] = resets =>
              \/ job[d].name \in todo[c]
              \/ pc[c] \in {"create", "count"} /\ at[c] = job[d].name
              \/ /\ out[c][job[d].name] # None
                 /\ d \in out[c][job[d].name].events
        /\ \A n \in Names : out[c][n] # None =>
              \A d \in out[c][n].events :
                  /\ Records(d) /\ job[d].name = n
                  /\ ~(d \in before[c] /\ since[d] < since[c])
      BY ONLY <1>0, <2>1 DEF HasRead
  <2>3. /\ since'[c] <= resets' /\ before'[c] \subseteq Recorded'
        /\ before'[c] = before[c] /\ resets' = resets
        /\ \A d \in before[c] : got'[d] = got[d] /\ since'[d] = since[d]
      BY ONLY <2>1, <2>2, <1>c
  \* What is left to show of HasRead
  <2> DEFINE Kept == /\ \A d \in before[c] : since[d] = since[c] /\ since[c] = resets =>
                          \/ job[d].name \in todo'[c]
                          \/ pc'[c] \in {"create", "count"} /\ at'[c] = job[d].name
                          \/ /\ out'[c][job[d].name] # None
                             /\ d \in out'[c][job[d].name].events
                     /\ \A n \in Names : out'[c][n] # None =>
                          \A d \in out'[c][n].events :
                              /\ Records(d) /\ job[d].name = n
                              /\ ~(d \in before[c] /\ since[d] < since[c])
                     /\ pc'[c] = "done" => todo'[c] = {}
             Given == pc'[c] \in {"count", "percentiles"} =>
                          /\ since[c] = resets => caches'[at'[c]] = got'[c]
                          /\ \A d \in before[c] : since[d] < since[c] => got[d] # got'[c]
  <2>4. ASSUME Kept PROVE HasRead(c)'
    <3>1. \A n \in Names : out'[c][n] # None =>
              \A d \in out'[c][n].events :
                  /\ Records(d)' /\ job'[d].name = n
                  /\ ~(d \in before'[c] /\ since'[d] < since'[c])
      <4> SUFFICES ASSUME NEW n \in Names, out'[c][n] # None, NEW d \in out'[c][n].events
                   PROVE  /\ Records(d)' /\ job'[d].name = n
                          /\ ~(d \in before'[c] /\ since'[d] < since'[c])
          OBVIOUS
      <4>1. /\ Records(d) /\ job[d].name = n /\ ~(d \in before[c] /\ since[d] < since[c])
          BY <2>4
      <4> QED
          BY ONLY <1>1, <2>1, <2>3, <4>1 DEF Records
    <3>2. \A d \in before'[c] : since'[d] = since'[c] /\ since'[c] = resets' =>
              \/ job'[d].name \in todo'[c]
              \/ pc'[c] \in {"create", "count"} /\ at'[c] = job'[d].name
              \/ /\ out'[c][job'[d].name] # None
                 /\ d \in out'[c][job'[d].name].events
        BY ONLY <1>1, <2>1, <2>3, <2>4
    <3> QED
        BY ONLY <2>3, <2>4, <3>1, <3>2 DEF HasRead
  <2>5. ASSUME Given PROVE Reads(c)'
      BY ONLY <2>1, <2>3, <2>5 DEF Reads
  <2>6. CASE StatsLooksUp(c)
    <3>1. PICK n \in todo[c] : /\ pc[c] = "next name" /\ n \in Names /\ LookUp(c, n)
                               /\ todo'[c] = todo[c] \ {n}
        BY <1>0, <2>6, StatsLookShape
    <3>2. /\ at'[c] = n /\ caches' = caches /\ out' = out /\ pc'[c] \in {"count", "create"}
          /\ pc'[c] = "count" => caches[n] # None /\ got'[c] = caches[n]
      <4>1. /\ at'[c] = n /\ UNCHANGED <<caches, out>>
            /\ \/ caches[n] \in EntryIds /\ got'[c] = caches[n] /\ pc'[c] = "count"
               \/ pc'[c] = "create"
          BY <1>0, <3>1, LookUpShape
      <4>2. \A e \in EntryIds : e # None
          BY MetricsAssumption
      <4> QED
          BY ONLY <4>1, <4>2
    <3>3. Kept
        BY ONLY <2>2, <3>1, <3>2
    <3>4. Given
      <4>1. \A d \in before[c] : since[d] < since[c] /\ caches[n] # None => got[d] # caches[n]
          BY <2>1, <3>1, NotAnOldOne
      <4> QED
          BY ONLY <3>2, <4>1
    <3> QED
        BY <2>4, <2>5, <3>3, <3>4
  <2>7. CASE Create(c)
    <3>1. /\ pc[c] = "create" /\ pc'[c] = "count" /\ at[c] \in Names
          /\ got'[c] = caches'[at[c]]
          /\ caches'[at[c]] = IF caches[at[c]] = None THEN <<c, at[c]>> ELSE caches[at[c]]
          /\ UNCHANGED <<at, todo, out>>
        BY <1>0, <2>7, CreateShape
    <3>2. Kept
        BY ONLY <2>2, <3>1
    <3>3. ASSUME NEW d \in before[c], since[d] < since[c] PROVE got[d] # got'[c]
      <4>1. CASE caches[at[c]] = None
        <5>1. Unused(<<c, at[c]>>) /\ d \in Calls
            BY <1>c, <2>2, <3>1 DEF RecordsInv, CreatesOnce
        <5> QED
            BY ONLY <3>1, <4>1, <5>1 DEF Unused
      <4>2. CASE caches[at[c]] # None
          BY <2>1, <3>1, <3>3, <4>2, NotAnOldOne
      <4> QED
          BY <4>1, <4>2
    <3>4. Given
        BY ONLY <3>1, <3>3
    <3> QED
        BY <2>4, <2>5, <3>2, <3>4
  <2>8. CASE StatsCounts(c)
    <3>1. /\ pc[c] = "count" /\ pc'[c] = "percentiles" /\ at[c] \in Names
          /\ got[c] \in EntryIds /\ got[c][2] = at[c]
          /\ out'[c][at[c]] = [events |-> counted[got[c]], latencies |-> {}]
          /\ \A n \in Names \ {at[c]} : out'[c][n] = out[c][n]
          /\ UNCHANGED <<caches, at, got, todo>>
        BY <1>0, <2>8, ReadShape DEF InHand
    <3>2. /\ since[c] = resets => caches[at[c]] = got[c]
          /\ \A d \in before[c] : since[d] < since[c] => got[d] # got[c]
        BY ONLY <1>0, <2>1, <3>1 DEF Reads
    <3>3. Given
        BY ONLY <3>1, <3>2
    <3>4. out'[c][at[c]] # None /\ out'[c][at[c]].events = counted[got[c]]
      <4>1. counted[got[c]] \subseteq Calls
          BY <1>0, <3>1 DEF EntryTypes
      <4>2. [events |-> counted[got[c]], latencies |-> {}] # None
          BY ONLY <4>1, MetricsAssumption DEF MetricsAssumption, Answers
      <4> QED
          BY ONLY <3>1, <4>2
    <3>5. ASSUME NEW d \in counted[got[c]]
          PROVE  /\ Records(d) /\ job[d].name = at[c]
                 /\ ~(d \in before[c] /\ since[d] < since[c])
      <4>1. d \in Calls
          BY <1>0, <3>1 DEF EntryTypes
      <4>2. Entered(d) /\ got[d] = got[c] /\ got[d][2] = job[d].name
          BY <3>1, <4>1 DEF RecordsInv, Counts, InHand
      <4> QED
          BY ONLY <3>1, <3>2, <4>2 DEF Entered
    <3>6. ASSUME NEW d \in before[c], since[d] = since[c], since[c] = resets,
                 job[d].name = at[c]
          PROVE  d \in counted[got[c]]
      <4>1. d \in counted[got[d]] /\ caches[job[d].name] = got[d]
          BY <2>2, <3>6, RecordedStays
      <4> QED
          BY ONLY <3>2, <3>6, <4>1
    <3>7. Kept
      <4>1. ASSUME NEW d \in before[c], since[d] = since[c], since[c] = resets
            PROVE  \/ job[d].name \in todo'[c]
                   \/ /\ out'[c][job[d].name] # None
                      /\ d \in out'[c][job[d].name].events
        <5>1. CASE job[d].name = at[c]
            BY <3>4, <3>6, <4>1, <5>1
        <5>2. CASE job[d].name # at[c]
          <6>1. job[d].name \in Names
              BY <2>2, RecordedStays
          <6> QED
              BY ONLY <2>2, <3>1, <4>1, <5>2, <6>1
        <5> QED
            BY <5>1, <5>2
      <4>2. ASSUME NEW n \in Names, out'[c][n] # None, NEW d \in out'[c][n].events
            PROVE  /\ Records(d) /\ job[d].name = n
                   /\ ~(d \in before[c] /\ since[d] < since[c])
        <5>1. CASE n = at[c]
            BY <3>4, <3>5, <4>2, <5>1
        <5>2. CASE n # at[c]
          <6>1. out'[c][n] = out[c][n]
              BY <3>1, <5>2
          <6> QED
              BY ONLY <2>2, <4>2, <6>1
        <5> QED
            BY <5>1, <5>2
      <4>3. pc'[c] # "done"
          BY <3>1
      <4> QED
          BY <4>1, <4>2, <4>3
    <3> QED
        BY <2>4, <2>5, <3>3, <3>7
  <2>9. CASE StatsCopiesLatencies(c)
    <3>1. /\ pc[c] = "percentiles" /\ pc'[c] = "next name" /\ at[c] \in Names
          /\ out[c][at[c]] \in Answers /\ out'[c][at[c]] \in Answers
          /\ out'[c][at[c]].events = out[c][at[c]].events
          /\ \A n \in Names \ {at[c]} : out'[c][n] = out[c][n]
          /\ todo' = todo
        BY <1>0, <2>9, CopyShape
    <3>2. \A n \in Names : /\ out'[c][n] # None <=> out[c][n] # None
                           /\ out'[c][n].events = out[c][n].events
        BY ONLY <3>1, MetricsAssumption DEF MetricsAssumption
    <3>3. \A d \in before[c] : job[d].name \in Names
        BY <2>2, RecordedStays
    <3>4. Kept
        BY ONLY <2>2, <3>1, <3>2, <3>3
    <3>5. Given
        BY ONLY <3>1
    <3> QED
        BY <2>4, <2>5, <3>4, <3>5
  <2>10. CASE StatsReturns(c)
    <3>1. /\ pc[c] = "next name" /\ pc'[c] = "done" /\ todo[c] = {}
          /\ UNCHANGED <<todo, out>>
        BY <1>0, <2>10 DEF StatsReturns, GoTo, CallTypes
    <3>2. Kept
        BY ONLY <2>2, <3>1
    <3>3. Given
        BY ONLY <3>1
    <3> QED
        BY <2>4, <2>5, <3>2, <3>3
  <2> QED
      BY <1>0, <1>2, <1>4, <2>6, <2>7, <2>8, <2>9, <2>10
      DEF Moves, StartIgnored, RecordLooksUp, RecordCounts, AddLatency, InHand, Entered,
          Reset
<1> QED
    BY <1>3, <1>4

\* Stats answers what was recorded before it began and since the last Reset, and
\* nothing else (inmem.go:122-153).
THEOREM StatsAnswersAreCurrent == Spec => []StatsAreCurrent
<1>1. Init => StatsInv
  <2> SUFFICES ASSUME Init PROVE StatsInv
      OBVIOUS
  <2>1. \A c \in Calls : ~IsStats(c)
      BY DEF Init, IsStats
  <2> QED
      BY ONLY <2>1 DEF StatsInv, Reads, HasRead
<1>2. RecordsInv /\ StatsInv /\ [Next]_vars => StatsInv'
  <2> SUFFICES ASSUME RecordsInv, StatsInv, [Next]_vars PROVE StatsInv'
      OBVIOUS
  <2>1. CASE UNCHANGED vars
    <3>1. UNCHANGED <<job, pc, caches, at, got, todo, out, resets, since, before>>
        BY <2>1 DEF vars
    <3>2. \A c \in Calls : Reads(c)' = Reads(c) /\ HasRead(c)' = HasRead(c)
        BY ONLY <3>1 DEF Reads, HasRead, IsStats, Recorded, Records, Ignored
    <3> QED
        BY ONLY <3>2, StatsInv DEF StatsInv
  <2>2. ASSUME NEW m \in Calls, Moves(m) PROVE StatsInv'
    <3>1. \A c \in Calls : (Reads(c) /\ HasRead(c))'
        BY <2>2, OthersRead, SelfReads
    <3> QED
        BY ONLY <3>1 DEF StatsInv
  <2> QED
      BY <2>1, <2>2 DEF Next, Quiescent, Moves
<1>3. RecordsInv /\ StatsInv => StatsAreCurrent
  <2> SUFFICES ASSUME RecordsInv, StatsInv,
                      NEW c \in Calls, NEW d \in Calls,
                      pc[c] = "done", job[c].op = "Stats", Records(d)
               PROVE  LET answer == out[c][job[d].name] IN
                      /\ d \in before[c] /\ since[d] = since[c] /\ since[c] = resets =>
                            answer # None /\ d \in answer.events
                      /\ answer # None /\ d \in before[c] /\ since[d] < since[c] =>
                            d \notin answer.events
                      /\ \A n \in Names : out[c][n] # None /\ d \in out[c][n].events =>
                            n = job[d].name
      BY DEF StatsAreCurrent
  <2>1. HasRead(c) /\ IsStats(c) /\ job[d].name \in Names
      BY JobShape DEF StatsInv, RecordsInv, IsStats
  <2> QED
      BY ONLY <2>1, pc[c] = "done" DEF HasRead
<1> QED
    BY <1>1, <1>2, <1>3, RecordsAreKept, PTL DEF Spec

------------------------------------------------------------------------------
(* The ring of latencies *)

LEMMA BackIs ==
    ASSUME NEW h \in 0..(RingSize - 1), NEW i \in 1..RingSize
    PROVE  Back(h, i) = IF i <= h THEN h - i ELSE h + RingSize - i
<1>1. RingSize \in Nat \ {0}
    BY MetricsAssumption
<1> DEFINE x == h + RingSize - i
<1>2. CASE i <= h
  <2>1. x \in RingSize..(RingSize + RingSize - 1) /\ x - RingSize = h - i
      BY ONLY <1>1, <1>2, h \in 0..(RingSize - 1), i \in 1..RingSize
  <2> HIDE DEF x
  <2>2. x % RingSize = x - RingSize
      BY ONLY <2>1, Large
  <2> QED
      BY ONLY <1>2, <2>1, <2>2 DEF Back, x
<1>3. CASE ~(i <= h)
  <2>1. x \in 0..(RingSize - 1)
      BY ONLY <1>1, <1>3, h \in 0..(RingSize - 1), i \in 1..RingSize
  <2> HIDE DEF x
  <2>2. x % RingSize = x
      BY ONLY <2>1, Small
  <2> QED
      BY ONLY <1>3, <2>2 DEF Back, x
<1> QED
    BY <1>2, <1>3

LEMMA HeadIs ==
    ASSUME NEW h \in 0..(RingSize - 1)
    PROVE  (h + 1) % RingSize = IF h + 1 < RingSize THEN h + 1 ELSE 0
<1>1. RingSize \in Nat \ {0}
    BY MetricsAssumption
<1>2. CASE h + 1 < RingSize
  <2>1. h + 1 \in 0..(RingSize - 1)
      BY ONLY <1>1, <1>2, h \in 0..(RingSize - 1)
  <2> QED
      BY ONLY <1>2, <2>1, Small
<1>3. CASE ~(h + 1 < RingSize)
  <2>1. h + 1 = RingSize /\ RingSize \in RingSize..(RingSize + RingSize - 1)
      BY ONLY <1>1, <1>3, h \in 0..(RingSize - 1)
  <2>2. RingSize % RingSize = RingSize - RingSize
      BY ONLY <2>1, Large
  <2> QED
      BY ONLY <1>1, <1>3, <2>1, <2>2
<1> QED
    BY <1>2, <1>3

\* One place on, the new head has the old one behind it, and then what that had.
LEMMA BackSteps ==
    ASSUME NEW h \in 0..(RingSize - 1)
    PROVE  /\ Back((h + 1) % RingSize, 1) = h
           /\ \A i \in 2..RingSize : /\ Back((h + 1) % RingSize, i) = Back(h, i - 1)
                                     /\ Back(h, i - 1) # h
                                     /\ Back(h, i - 1) \in 0..(RingSize - 1)
<1>1. RingSize \in Nat \ {0}
    BY MetricsAssumption
<1> DEFINE g == IF h + 1 < RingSize THEN h + 1 ELSE 0
<1>2. (h + 1) % RingSize = g /\ g \in 0..(RingSize - 1)
    BY <1>1, HeadIs
<1>3. Back(g, 1) = IF 1 <= g THEN g - 1 ELSE g + RingSize - 1
    BY <1>1, <1>2, BackIs
<1>4. Back(g, 1) = h
    BY ONLY <1>1, <1>3, h \in 0..(RingSize - 1)
<1>5. ASSUME NEW i \in 2..RingSize
      PROVE  /\ Back(g, i) = Back(h, i - 1) /\ Back(h, i - 1) # h
             /\ Back(h, i - 1) \in 0..(RingSize - 1)
  <2>1. i \in 1..RingSize /\ i - 1 \in 1..RingSize
      BY <1>1
  <2>2. /\ Back(g, i) = IF i <= g THEN g - i ELSE g + RingSize - i
        /\ Back(h, i - 1) = IF i - 1 <= h THEN h - (i - 1) ELSE h + RingSize - (i - 1)
      BY <1>2, <2>1, BackIs
  <2> QED
      BY ONLY <1>1, <2>2, h \in 0..(RingSize - 1), i \in 2..RingSize
<1> QED
    BY ONLY <1>2, <1>4, <1>5

LEMMA RingInit == Init => RingInv
<1> SUFFICES ASSUME Init PROVE RingInv
    OBVIOUS
<1>1. /\ \A e \in EntryIds : /\ counted[e] = {} /\ added[e] = << >>
                             /\ latLen[e] = 0 /\ latHead[e] = 0
      /\ \A c \in Calls, n \in Names : out[c][n] = None
    BY DEF Init
<1>2. ASSUME NEW e \in EntryIds PROVE RingOf(e)
  <2>1. Sampled(e) = {} /\ Len(added[e]) = 0 /\ latLen[e] = 0 /\ latHead[e] = 0
    <3>1. Sampled(e) = {}
        BY ONLY <1>1, <1>2 DEF Sampled, Successes
    <3>2. added[e] = << >> /\ latLen[e] = 0 /\ latHead[e] = 0
        BY ONLY <1>1, <1>2
    <3>3. Len(<< >>) = 0
        OBVIOUS
    <3> QED
        BY ONLY <3>1, <3>2, <3>3
  <2>2. IsFiniteSet(counted[e]) /\ Cardinality(Sampled(e)) = 0
      BY <1>1, <2>1, FS_EmptySet
  <2>3. \A i \in 1..latLen[e] : FALSE
      BY ONLY <2>1
  <2>4. 0 < RingSize
      BY MetricsAssumption
  <2> QED
      BY ONLY <2>1, <2>2, <2>3, <2>4 DEF RingOf
<1>3. \A e \in EntryIds : \A i \in 0..(latLen[e] - 1) : FALSE
    BY ONLY <1>1
<1> QED
    BY ONLY <1>1, <1>2, <1>3 DEF RingInv

LEMMA Appended ==
    ASSUME NEW s \in Seq(Nat), NEW x \in Nat
    PROVE  /\ Len(Append(s, x)) = Len(s) + 1 /\ Append(s, x)[Len(s) + 1] = x
           /\ \A j \in 1..Len(s) : Append(s, x)[j] = s[j]
OBVIOUS

\* Adding a latency turns the ring by one.
LEMMA RingTurns ==
    ASSUME RecordsInv, RingInv, NEW c \in Calls, AddLatency(c),
           NEW e \in EntryIds, e = got[c]
    PROVE  RingOf(e)'
<1> DEFINE d == job[c].duration
           h == latHead[e]
           n == Len(added[e])
<1>0. CallTypes /\ EntryTypes /\ InHand(c) /\ Moves(c) /\ Local(c)
    BY IsLocal DEF RecordsInv, Moves
<1>1. /\ pc[c] = "add latency" /\ pc'[c] = "done" /\ Entered(c) /\ e \in EntryIds
      /\ job[c].kind = "refresh success"
      /\ ring'[e] = [ring[e] EXCEPT ![h] = d]
      /\ latHead'[e] = (h + 1) % RingSize
      /\ latLen'[e] = NextLen(e) /\ added'[e] = Append(added[e], d)
      /\ UNCHANGED <<job, counted, got>>
    BY <1>0, AddShape
<1>2. /\ RingSize \in Nat \ {0} /\ h \in 0..(RingSize - 1) /\ d \in Nat
      /\ latLen[e] \in 0..RingSize /\ added[e] \in Seq(Nat) /\ n \in Nat
      /\ ring[e] \in [0..(RingSize - 1) -> Nat]
  <2>1. /\ h \in 0..(RingSize - 1) /\ latLen[e] \in 0..RingSize /\ added[e] \in Seq(Nat)
        /\ ring[e] \in [0..(RingSize - 1) -> Nat]
      BY <1>0, <1>1 DEF EntryTypes
  <2>2. d \in Nat
      BY <1>0, <1>1, JobShape DEF Entered
  <2> QED
      BY <2>1, <2>2, MetricsAssumption
<1>3. RingOf(e)
    BY <1>1 DEF RingInv
<1>4. /\ latLen[e] = (IF n < RingSize THEN n ELSE RingSize)
      /\ latLen[e] < RingSize => h = latLen[e]
      /\ \A i \in 1..latLen[e] : ring[e][Back(h, i)] = added[e][n + 1 - i]
      /\ IsFiniteSet(counted[e]) /\ n = Cardinality(Sampled(e))
    BY ONLY <1>3 DEF RingOf
<1>5. /\ Len(added'[e]) = n + 1 /\ added'[e][n + 1] = d
      /\ \A j \in 1..n : added'[e][j] = added[e][j]
  <2>1. added'[e] = Append(added[e], d) /\ added[e] \in Seq(Nat) /\ d \in Nat
      BY <1>1, <1>2
  <2> HIDE DEF d
  <2> QED
      BY ONLY <2>1, Appended DEF n
<1>6. latLen'[e] = (IF n + 1 < RingSize THEN n + 1 ELSE RingSize)
  <2>1. latLen'[e] = NextLen(e)
      BY <1>1
  <2>2. /\ latLen[e] = (IF n < RingSize THEN n ELSE RingSize)
        /\ RingSize \in Nat \ {0} /\ n \in Nat
      BY <1>2, <1>4
  <2> QED
      BY ONLY <2>1, <2>2 DEF NextLen
<1>7. latLen'[e] < RingSize => latHead'[e] = latLen'[e]
  <2>1. latHead'[e] = IF h + 1 < RingSize THEN h + 1 ELSE 0
      BY <1>1, <1>2, HeadIs
  <2> QED
      BY ONLY <1>2, <1>4, <1>6, <2>1
<1>a. /\ Back(latHead'[e], 1) = h
      /\ \A i \in 2..RingSize : /\ Back(latHead'[e], i) = Back(h, i - 1)
                                /\ Back(h, i - 1) # h
                                /\ Back(h, i - 1) \in 0..(RingSize - 1)
  <2>1. latHead'[e] = (h + 1) % RingSize /\ h \in 0..(RingSize - 1)
      BY <1>1, <1>2
  <2>2. /\ Back((h + 1) % RingSize, 1) = h
        /\ \A i \in 2..RingSize : /\ Back((h + 1) % RingSize, i) = Back(h, i - 1)
                                  /\ Back(h, i - 1) # h
                                  /\ Back(h, i - 1) \in 0..(RingSize - 1)
      BY <2>1, BackSteps
  <2> HIDE DEF h
  <2> QED
      BY ONLY <2>1, <2>2, Zenon
<1>8. ASSUME NEW i \in 1..latLen'[e]
      PROVE  ring'[e][Back(latHead'[e], i)] = added'[e][n + 2 - i]
  <2>1. CASE i = 1
    <3>1. Back(latHead'[e], i) = h
        BY ONLY <1>a, <2>1
    <3>2. ring'[e][h] = d
        BY ONLY <1>1, <1>2
    <3>3. n + 2 - i = n + 1
        BY ONLY <1>2, <2>1
    <3> QED
        BY ONLY <1>5, <3>1, <3>2, <3>3
  <2>2. CASE i # 1
    <3>1. i \in 2..RingSize /\ i - 1 \in 1..latLen[e] /\ n + 2 - i \in 1..n
          /\ n + 1 - (i - 1) = n + 2 - i
      <4>1. /\ latLen[e] = (IF n < RingSize THEN n ELSE RingSize)
            /\ RingSize \in Nat \ {0} /\ n \in Nat
          BY <1>2, <1>4
      <4> HIDE DEF n
      <4> QED
          BY ONLY <4>1, <1>6, <2>2, i \in 1..latLen'[e]
    <3>2. /\ Back(latHead'[e], i) = Back(h, i - 1) /\ Back(h, i - 1) # h
          /\ Back(h, i - 1) \in 0..(RingSize - 1)
        BY ONLY <1>a, <3>1
    <3>3. ring'[e][Back(h, i - 1)] = ring[e][Back(h, i - 1)]
        BY ONLY <1>1, <1>2, <3>2
    <3>4. ring[e][Back(h, i - 1)] = added[e][n + 1 - (i - 1)]
        BY ONLY <1>4, <3>1
    <3> QED
        BY ONLY <1>5, <3>1, <3>2, <3>3, <3>4
  <2> QED
      BY <2>1, <2>2
<1>9. IsFiniteSet(counted'[e]) /\ n + 1 = Cardinality(Sampled(e)')
  <2>1. c \in counted[e] /\ c \notin Sampled(e) /\ counted[e] \subseteq Calls
      BY <1>0, <1>1 DEF RecordsInv, Counted, Sampled, EntryTypes
  <2>2. Sampled(e)' = Sampled(e) \cup {c}
      BY ONLY <1>0, <1>1, <2>1 DEF Sampled, Successes, Local
  <2>3. IsFiniteSet(Sampled(e))
      BY <1>4, FS_Subset DEF Sampled, Successes
  <2>4. Cardinality(Sampled(e) \cup {c}) = Cardinality(Sampled(e)) + 1
      BY <2>1, <2>3, FS_AddElement
  <2> QED
      BY ONLY <1>1, <1>4, <2>2, <2>4
<1> HIDE DEF h, n, d
<1>10. \A i \in 1..latLen'[e] :
           ring'[e][Back(latHead'[e], i)] = added'[e][Len(added'[e]) + 1 - i]
  <2>1. \A i \in 1..latLen'[e] : Len(added'[e]) + 1 - i = n + 2 - i
      BY ONLY <1>2, <1>5, <1>6
  <2> QED
      BY ONLY <1>8, <2>1
<1> QED
    BY ONLY <1>5, <1>6, <1>7, <1>9, <1>10 DEF RingOf

LEMMA RingStep ==
    ASSUME RecordsInv, RingInv, NEW c \in Calls, Moves(c)
    PROVE  RingInv'
<1>0. CallTypes /\ EntryTypes /\ InHand(c) /\ Local(c) /\ Counts
    BY IsLocal DEF RecordsInv
<1>1. job' = job
    BY ONLY <1>0 DEF Local
<1>2. ASSUME NEW e \in EntryIds, ~(AddLatency(c) /\ got[c] = e)
      PROVE  RingOf(e)' /\ latLen'[e] = latLen[e] /\ ring'[e] = ring[e]
  <2>1. /\ ring'[e] = ring[e] /\ latHead'[e] = latHead[e] /\ latLen'[e] = latLen[e]
        /\ added'[e] = added[e]
    <3>1. CASE AddLatency(c)
      <4>1. \A f \in EntryIds \ {got[c]} :
                /\ ring'[f] = ring[f] /\ latHead'[f] = latHead[f]
                /\ latLen'[f] = latLen[f] /\ added'[f] = added[f]
          BY <1>0, <3>1, AddShape
      <4> QED
          BY ONLY <1>2, <3>1, <4>1
    <3>2. CASE ~AddLatency(c)
        BY ONLY <3>2, Moves(c)
        DEF Moves, StartIgnored, RecordLooksUp, RecordCounts, Create, ListNames, entryVars,
            StatsLooksUp, LookUp, StatsCounts, StatsCopiesLatencies, StatsReturns, Reset
    <3> QED
        BY <3>1, <3>2
  <2>2. c \in counted[e] => ~(c \in Sampled(e)) /\ AddLatency(c) /\ got[c] = e
    <3> SUFFICES ASSUME c \in counted[e] PROVE AddLatency(c) /\ got[c] = e /\ pc[c] # "done"
        BY DEF Sampled
    <3>1. Entered(c) /\ got[c] = e /\ pc[c] # "count" /\ pc[c] # "done"
        BY <1>0, Returned DEF Counts
    <3>2. AddLatency(c)
        BY ONLY <3>1, <1>0, Moves(c)
        DEF Moves, StartIgnored, RecordLooksUp, RecordCounts, Create, ListNames, Entered,
            InHand, StatsLooksUp, StatsCounts, StatsCopiesLatencies, StatsReturns, Reset
    <3> QED
        BY <3>1, <3>2
  <2>3. c \notin counted[e]
      BY <1>2, <2>2
  <2>4. \/ counted'[e] = counted[e]
        \/ /\ counted'[e] = counted[e] \cup {c}
           /\ ~(c \in Successes(e)' /\ pc'[c] = "done")
    <3>1. CASE RecordCounts(c)
      <4>1. /\ pc'[c] = IF job[c].kind = "refresh success" THEN "add latency" ELSE "done"
            /\ counted'[got[c]] = counted[got[c]] \cup {c}
            /\ \A f \in EntryIds \ {got[c]} : counted'[f] = counted[f]
            /\ job' = job
          BY <1>0, <3>1, CountShape
      <4> QED
          BY ONLY <4>1, e \in EntryIds DEF Successes
    <3>2. CASE ~RecordCounts(c)
        BY ONLY <3>2, Moves(c)
        DEF Moves, StartIgnored, RecordLooksUp, AddLatency, Create, ListNames, entryVars,
            StatsLooksUp, LookUp, StatsCounts, StatsCopiesLatencies, StatsReturns, Reset
    <3> QED
        BY <3>1, <3>2
  <2>5. Sampled(e)' = Sampled(e)
    <3>1. counted[e] \subseteq Calls
        BY <1>0 DEF EntryTypes
    <3> QED
        BY ONLY <1>0, <2>3, <2>4, <3>1 DEF Sampled, Successes, Local
  <2>6. RingOf(e)
      BY DEF RingInv
  <2>7. IsFiniteSet(counted'[e])
    <3>1. IsFiniteSet(counted[e])
        BY ONLY <2>6 DEF RingOf
    <3>2. IsFiniteSet(counted[e] \cup {c})
        BY <3>1, FS_AddElement
    <3> QED
        BY ONLY <2>4, <3>1, <3>2
  <2> QED
      BY ONLY <2>1, <2>5, <2>6, <2>7 DEF RingOf
<1>3. ASSUME NEW e \in EntryIds
      PROVE  RingOf(e)'
    BY <1>2, RingTurns
<1>4. ASSUME NEW e \in EntryIds, NEW i \in 0..(latLen'[e] - 1)
      PROVE  IsSample(e[2], ring'[e][i])
  <2>1. CASE ~(AddLatency(c) /\ got[c] = e)
      BY <1>2, <2>1 DEF RingInv
  <2>2. CASE AddLatency(c) /\ got[c] = e
    <3>1. /\ Entered(c) /\ job[c].kind = "refresh success" /\ got[c] = e
          /\ ring'[e] = [ring[e] EXCEPT ![latHead[e]] = job[c].duration]
          /\ latLen'[e] = NextLen(e)
        BY <1>0, <2>2, AddShape
    <3>2. /\ latLen[e] \in 0..RingSize /\ RingSize \in Nat \ {0}
          /\ latHead[e] \in 0..(RingSize - 1)
          /\ ring[e] \in [0..(RingSize - 1) -> Nat]
        BY <1>0, MetricsAssumption DEF EntryTypes
    <3>3. latLen[e] < RingSize => latHead[e] = latLen[e]
      <4>1. RingOf(e)
          BY DEF RingInv
      <4> QED
          BY ONLY <4>1 DEF RingOf
    <3>4. i \in 0..(RingSize - 1) /\ (i = latHead[e] \/ i \in 0..(latLen[e] - 1))
      <4>1. latLen'[e] = NextLen(e)
          BY <3>1
      <4>2. latLen'[e] = IF latLen[e] < RingSize THEN latLen[e] + 1 ELSE latLen[e]
          BY ONLY <4>1 DEF NextLen
      <4> QED
          BY ONLY <3>2, <3>3, <4>2, i \in 0..(latLen'[e] - 1)
    <3>5. CASE i = latHead[e]
      <4>1. ring'[e][i] = job[c].duration
          BY ONLY <3>1, <3>2, <3>4, <3>5
      <4>2. Records(c) /\ job[c].name = e[2]
          BY ONLY <1>0, <3>1 DEF InHand, Entered
      <4> QED
          BY <3>1, <4>1, <4>2 DEF IsSample
    <3>6. CASE i # latHead[e]
      <4>1. ring'[e][i] = ring[e][i] /\ i \in 0..(latLen[e] - 1)
          BY ONLY <3>1, <3>2, <3>4, <3>6
      <4> QED
          BY <4>1 DEF RingInv
    <3> QED
        BY <3>5, <3>6
  <2> QED
      BY <2>1, <2>2
<1>5. ASSUME NEW d \in Calls, NEW n \in Names, out'[d][n] # None,
             NEW l \in out'[d][n].latencies
      PROVE  IsSample(n, l)
  <2>1. CASE out'[d][n] = out[d][n]
      BY <1>5, <2>1 DEF RingInv
  <2>2. CASE out'[d][n] # out[d][n]
    <3>1. d = c /\ (StatsCounts(c) \/ StatsCopiesLatencies(c))
      <4>1. d = c
          BY ONLY <1>0, <2>2, d \in Calls DEF Local
      <4>2. out' # out
          BY ONLY <2>2
      <4> QED
          BY ONLY <4>1, <4>2, Moves(c)
          DEF Moves, StartIgnored, RecordLooksUp, RecordCounts, AddLatency, Create,
              ListNames, StatsLooksUp, LookUp, StatsReturns, Reset
    <3>2. CASE StatsCounts(c)
      <4>1. /\ out'[c][at[c]] = [events |-> counted[got[c]], latencies |-> {}]
            /\ \A m \in Names \ {at[c]} : out'[c][m] = out[c][m]
          BY <1>0, <3>2, ReadShape
      <4>2. out'[d][n].latencies = {}
          BY ONLY <2>2, <3>1, <4>1, n \in Names
      <4> QED
          BY ONLY <4>2, l \in out'[d][n].latencies
    <3>3. CASE StatsCopiesLatencies(c)
      <4>1. /\ pc[c] = "percentiles" /\ got[c] \in EntryIds
            /\ out'[c][at[c]].latencies = {ring[got[c]][i] : i \in 0..(latLen[got[c]] - 1)}
            /\ \A m \in Names \ {at[c]} : out'[c][m] = out[c][m]
          BY <1>0, <3>3, CopyShape
      <4>2. n = at[c] /\ got[c][2] = at[c]
          BY ONLY <1>0, <2>2, <3>1, <4>1, n \in Names DEF InHand
      <4>3. PICK i \in 0..(latLen[got[c]] - 1) : l = ring[got[c]][i]
          BY ONLY <3>1, <4>1, <4>2, l \in out'[d][n].latencies
      <4> QED
          BY <4>1, <4>2, <4>3 DEF RingInv
    <3> QED
        BY <3>1, <3>2, <3>3
  <2> QED
      BY <2>1, <2>2
<1>6. (\A e \in EntryIds : \A i \in 0..(latLen[e] - 1) : IsSample(e[2], ring[e][i]))'
    BY ONLY <1>1, <1>4 DEF IsSample, Records
<1>7. (\A d \in Calls, n \in Names : out[d][n] # None =>
          \A l \in out[d][n].latencies : IsSample(n, l))'
  <2>1. \A n, l : IsSample(n, l)' <=> IsSample(n, l)
      BY ONLY <1>1 DEF IsSample, Records
  <2> QED
      BY ONLY <1>5, <2>1
<1> QED
    BY ONLY <1>3, <1>6, <1>7 DEF RingInv

\* The ring of an entry holds its latest latencies, and Stats reads no others
\* (inmem.go:37-65).
THEOREM TheRingHoldsTheLatest == Spec => []RingHoldsLatest
<1>1. Init => RingInv
    BY RingInit
<1>2. RecordsInv /\ RingInv /\ [Next]_vars => RingInv'
  <2> SUFFICES ASSUME RecordsInv, RingInv, [Next]_vars PROVE RingInv'
      OBVIOUS
  <2>1. CASE UNCHANGED vars
    <3>1. UNCHANGED <<job, pc, counted, ring, latHead, latLen, added, out>>
        BY <2>1 DEF vars, entryVars
    <3>2. /\ \A e \in EntryIds : RingOf(e)' = RingOf(e)
          /\ \A n, l : IsSample(n, l)' <=> IsSample(n, l)
        BY ONLY <3>1 DEF RingOf, Sampled, Successes, IsSample, Records
    <3> QED
        BY ONLY <3>1, <3>2, RingInv DEF RingInv
  <2>2. ASSUME NEW c \in Calls, Moves(c) PROVE RingInv'
      BY <2>2, RingStep
  <2> QED
      BY <2>1, <2>2 DEF Next, Quiescent, Moves
<1>3. RingInv => RingHoldsLatest
  <2> SUFFICES ASSUME RingInv PROVE RingHoldsLatest
      OBVIOUS
  <2>1. ASSUME NEW e \in EntryIds
        PROVE  LET n == Len(added[e]) IN
               /\ latLen[e] = (IF n < RingSize THEN n ELSE RingSize)
               /\ \A i \in 1..latLen[e] :
                     ring[e][(latHead[e] + RingSize - i) % RingSize] = added[e][n + 1 - i]
               /\ n <= Cardinality({c \in counted[e] : job[c].kind = "refresh success"})
    <3>1. RingOf(e)
        BY DEF RingInv
    <3>2. IsFiniteSet(Successes(e)) /\ Sampled(e) \subseteq Successes(e)
        BY <3>1, FS_Subset DEF RingOf, Successes, Sampled
    <3>3. Cardinality(Sampled(e)) <= Cardinality(Successes(e))
        BY <3>2, FS_Subset
    <3> QED
        BY ONLY <3>1, <3>3 DEF RingOf, Back, Successes
  <2>2. \A c \in Calls, n \in Names : out[c][n] # None =>
            \A l \in out[c][n].latencies :
                \E d \in Calls : /\ Records(d) /\ job[d].kind = "refresh success"
                                 /\ job[d].name = n /\ job[d].duration = l
      BY DEF RingInv, IsSample
  <2> QED
      BY <2>1, <2>2 DEF RingHoldsLatest
<1> QED
    BY <1>1, <1>2, <1>3, RecordsAreKept, PTL DEF Spec
=============================================================================
