-------------------------- MODULE ConfiguredProofs ---------------------------
(***************************************************************************)
(* Theorems about caches as New and Memoize make them.                     *)
(*                                                                         *)
(* First what New makes of a list of Options, whatever the list: it meets  *)
(* the assumptions of the engine, and it obeys the last setting of each    *)
(* option.  Opts and New fold lists.  FoldLeft takes the fold it evaluates *)
(* from those that satisfy an equation; that one exists is proved here for *)
(* any finite number of turns, by the least turn at which it would not,    *)
(* and with it what holds after each turn.                                 *)
(*                                                                         *)
(* Then the caches that serve.  In ConfiguredCache the settings of the     *)
(* engine are fields of a variable.  They never change once the cache is   *)
(* made, so they have some values, the constants below, and with these the *)
(* engine is the one CacheEngineProofs is about.  The hypothesis           *)
(* Fits(made, DOMAIN store), a predicate of the first state, names the     *)
(* values: as every first state has some, and the constants are any, the   *)
(* theorems leave no behaviour of Spec out.                                *)
(***************************************************************************)
EXTENDS ConfiguredCache, WellFoundedInduction, TLAPS

------------------------------------------------------------------------------
(* What New makes of a list of Options *)

\* A set of natural numbers has a least one.
LEMMA Least ==
    ASSUME NEW T, T \subseteq Nat, T # {}
    PROVE  \E n \in T : \A m \in T : n <= m
<1>1. PICK n \in T : \A m \in T : ~(<<m, n>> \in OpToRel(<, Nat))
    BY NatLessThanWellFounded, WFMin, Zenon
<1>2. \A m \in T : ~(m < n)
    BY <1>1 DEF OpToRel
<1> QED
    BY <1>2

\* What is done before the first turn, and in a turn if it was before, is done in all.
LEMMA TurnByTurn ==
    ASSUME NEW m \in Nat, NEW Done, 0 \in Done,
           \A n \in 1..m : n - 1 \in Done => n \in Done
    PROVE  \A n \in 0..m : n \in Done
<1> DEFINE T == {n \in Nat : n <= m /\ n \notin Done}
<1> SUFFICES ASSUME T # {} PROVE FALSE
    OBVIOUS
<1>1. PICK n \in T : \A k \in T : n <= k
    BY Least
<1>2. n # 0 /\ n \in 1..m /\ n - 1 \in Nat /\ n - 1 <= m
    BY <1>1
<1>3. n - 1 \in Done
    BY <1>1, <1>2
<1> QED
    BY <1>1, <1>2, <1>3

\* A fold takes the turns from the last one back: the initial segments of 1..n.
LEMMA Initials ==
    ASSUME NEW n \in Nat, NEW i \in 1..n
    PROVE  /\ 1..i \in SUBSET (1..n) /\ 1..i # {} /\ 1..(i - 1) \in SUBSET (1..n)
           /\ Max(1..i) = i /\ (1..i) \ {i} = 1..(i - 1)
<1>1. 1..i \in SUBSET (1..n) /\ i \in 1..i /\ (1..i) \ {i} = 1..(i - 1)
      /\ 1..(i - 1) \in SUBSET (1..n)
    OBVIOUS
<1>2. \A m \in 1..i : (\A y \in 1..i : m >= y) => m = i
    OBVIOUS
<1>3. Max(1..i) \in 1..i /\ \A y \in 1..i : Max(1..i) >= y
    BY <1>1 DEF Max
<1> QED
    BY <1>1, <1>2, <1>3

\* h folds, from the last turn to the first, what f makes of each turn.
Folds(h, n, base, f) ==
    h = [s \in SUBSET (1..n) |->
            IF s = {} THEN base ELSE f[<<h[s \ {Max(s)}], Max(s)>>]]

\* The largest of some turns, if the last one is among them.
LEMMA MaxWithLast ==
    ASSUME NEW n \in Nat \ {0}, NEW s \in SUBSET (1..n), n \in s
    PROVE  Max(s) = n
<1>1. \A m \in s : (\A y \in s : m >= y) => m = n
    OBVIOUS
<1>2. \A y \in s : n >= y
    OBVIOUS
<1>3. Max(s) \in s /\ \A y \in s : Max(s) >= y
    BY <1>2 DEF Max
<1> QED
    BY <1>1, <1>3

\* Turns that are not empty have a largest one.
LEMMA MaxIsMember ==
    ASSUME NEW n \in Nat, NEW s \in SUBSET (1..n), s # {}
    PROVE  Max(s) \in s
<1> DEFINE T == {m \in Nat : \E x \in s : m = n - x}
<1>1. T # {}
    <2>1. PICK x \in s : TRUE  OBVIOUS
    <2>2. n - x \in T  BY <2>1
    <2> QED  BY <2>2
<1>2. PICK m \in T : \A k \in T : m <= k
    BY <1>1, Least
<1>3. PICK x \in s : m = n - x
    BY <1>2
<1>4. ASSUME NEW y \in s PROVE x >= y
    <2>1. n - y \in T  OBVIOUS
    <2>2. m <= n - y  BY <1>2, <2>1
    <2>3. x \in 1..n /\ y \in 1..n  OBVIOUS
    <2> QED  BY ONLY n \in Nat, <1>3, <2>2, <2>3
<1> QED
    BY <1>3, <1>4 DEF Max

\* Such a fold exists: FoldLeft is defined as one that is chosen.
LEMMA FoldExists ==
    ASSUME NEW n \in Nat, NEW S, NEW base \in S, NEW f \in [S \X (1..n) -> S]
    PROVE  \E h \in [SUBSET (1..n) -> S] : Folds(h, n, base, f)
<1> DEFINE Done == {k \in Nat : k <= n /\ \E h \in [SUBSET (1..k) -> S] : Folds(h, k, base, f)}
<1>1. 0 \in Done
    <2> DEFINE h == [s \in SUBSET (1..0) |-> base]
    <2>1. \A s \in SUBSET (1..0) : s = {}
        OBVIOUS
    <2>2. h \in [SUBSET (1..0) -> S] /\ Folds(h, 0, base, f)
        BY <2>1 DEF Folds
    <2> QED
        BY <2>2
<1>2. ASSUME NEW k \in 1..n, k - 1 \in Done PROVE k \in Done
    <2>1. PICK h \in [SUBSET (1..(k - 1)) -> S] : Folds(h, k - 1, base, f)
        BY <1>2
    <2> DEFINE g == [s \in SUBSET (1..k) |-> IF k \in s THEN f[<<h[s \ {k}], k>>] ELSE h[s]]
    <2>2. ASSUME NEW s \in SUBSET (1..k)
          PROVE  s \ {k} \in SUBSET (1..(k - 1)) /\ (k \notin s => s \in SUBSET (1..(k - 1)))
        OBVIOUS
    <2>3. g \in [SUBSET (1..k) -> S]
        BY <2>2
    <2>4. ASSUME NEW s \in SUBSET (1..k)
          PROVE  g[s] = IF s = {} THEN base ELSE f[<<g[s \ {Max(s)}], Max(s)>>]
        <3>1. CASE k \in s
            <4>1. Max(s) = k
                BY <3>1, MaxWithLast
            <4>2. g[s \ {k}] = h[s \ {k}] /\ g[s] = f[<<h[s \ {k}], k>>]
                BY <2>2, <3>1
            <4> QED
                BY <3>1, <4>1, <4>2
        <3>2. CASE k \notin s
            <4>1. s \in SUBSET (1..(k - 1)) /\ g[s] = h[s]
                BY <2>2, <3>2
            <4>2. h[s] = IF s = {} THEN base ELSE f[<<h[s \ {Max(s)}], Max(s)>>]
                BY <2>1, <4>1 DEF Folds
            <4>3. g[s \ {Max(s)}] = h[s \ {Max(s)}]
                BY <3>2
            <4> QED
                BY <4>1, <4>2, <4>3
        <3> QED
            BY <3>1, <3>2
    <2>5. Folds(g, k, base, f)
        BY <2>3, <2>4 DEF Folds
    <2>6. k \in Nat /\ k <= n
        OBVIOUS
    <2> HIDE DEF g
    <2> QED
        BY <2>3, <2>5, <2>6
<1> HIDE DEF Done
<1>3. n \in Done
    BY <1>1, <1>2, TurnByTurn
<1> QED
    BY <1>3 DEF Done

\* The same of what f is defined for.
FoldsIn(S, h, n, base, f) ==
    /\ f \in [S \X (1..n) -> S]
    /\ h[{}] = base
    /\ \A s \in SUBSET (1..n) : s # {} /\ h[s \ {Max(s)}] \in S =>
           h[s] = f[<<h[s \ {Max(s)}], Max(s)>>]

\* The values of such a fold after each turn.
LEMMA FoldTurns ==
    ASSUME NEW n \in Nat, NEW S, NEW base \in S, NEW f, NEW h, FoldsIn(S, h, n, base, f)
    PROVE  \E g \in [0..n -> S] :
              g[0] = base /\ g[n] = h[1..n] /\ \A i \in 1..n : g[i] = f[<<g[i - 1], i>>]
<1> DEFINE g == [i \in 0..n |-> h[1..i]]
<1>1. g[0] = base
    <2>1. 1..0 = {} /\ 0 \in 0..n
        OBVIOUS
    <2> QED
        BY <2>1 DEF FoldsIn
<1>2. ASSUME NEW i \in 1..n, g[i - 1] \in S
      PROVE  g[i] = f[<<g[i - 1], i>>] /\ g[i] \in S
    <2>1. g[i] = h[1..i] /\ g[i - 1] = h[1..(i - 1)] /\ i \in 1..n
        OBVIOUS
    <2>2. h[(1..i) \ {Max(1..i)}] = g[i - 1] /\ Max(1..i) = i
        BY <2>1, Initials
    <2>3. /\ h[1..i] = f[<<h[(1..i) \ {Max(1..i)}], Max(1..i)>>]
          /\ f \in [S \X (1..n) -> S]
        BY <1>2, <2>2, Initials DEF FoldsIn
    <2> HIDE DEF g
    <2> QED
        BY <1>2, <2>1, <2>2, <2>3
<1>3. \A i \in 0..n : g[i] \in S
    <2> DEFINE Done == {i \in 0..n : g[i] \in S}
    <2>1. 0 \in Done
        BY <1>1
    <2>2. ASSUME NEW i \in 1..n, i - 1 \in Done PROVE i \in Done
        <3>1. g[i - 1] \in S /\ i \in 0..n
            BY <2>2
        <3> QED
            BY <1>2, <3>1
    <2> HIDE DEF Done
    <2>3. \A i \in 0..n : i \in Done
        BY <2>1, <2>2, TurnByTurn
    <2> QED
        BY <2>3 DEF Done
<1>4. g \in [0..n -> S]
    BY ONLY <1>3
<1>5. n \in 0..n /\ g[n] = h[1..n]
    OBVIOUS
<1>6. \A i \in 1..n : g[i] = f[<<g[i - 1], i>>]
    <2> TAKE i \in 1..n
    <2>1. i - 1 \in 0..n
        OBVIOUS
    <2> QED
        BY <1>2, <1>3, <2>1
<1> HIDE DEF g
<1> QED
    BY <1>1, <1>4, <1>5, <1>6

------------------------------------------------------------------------------
(* The builder *)

Options ==
    [store : {None, "plain", "fresh", "invalid"}, ttl : Int \cup {None}, staleTTL : Int,
     noExpiration : BOOLEAN, bypass : BOOLEAN, keepStaleOnError : BOOLEAN,
     clock : {None, "given"}, tickerInterval : Int]

\* What the builder makes of Options is Options (direct_options.go:24-87).
LEMMA BuildTypes ==
    ASSUME NEW o \in Options, NEW s, IsSetting(s)
    PROVE  Build(o, s) \in Options
<1>0. ASSUME NEW c \in {None, "given"}, NEW t \in Int
      PROVE  [o EXCEPT !.clock = c, !.tickerInterval = t] \in Options
    BY DEF Options
<1>1. s.with \in {"WithStore", "WithTTL", "WithStaleTTL", "NoExpiration", "Bypass",
                  "KeepStaleOnError", "WithClock", "WithTickerClock"}
    BY DEF IsSetting, With, Takes
<1>2. CASE s.with \in {"WithStore", "WithTTL", "WithStaleTTL", "NoExpiration", "Bypass",
                  "KeepStaleOnError"}
    BY <1>2 DEF IsSetting, With, Takes, Build, Options
<1>3. CASE s.with = "WithClock"
    <2>1. s.to \in {"given", None}
        BY <1>3 DEF IsSetting, With, Takes
    <2>2. Build(o, s) \in {o, [o EXCEPT !.clock = "given", !.tickerInterval = 0]}
        BY <1>3, <2>1 DEF Build
    <2>3. "given" \in {None, "given"} /\ 0 \in Int
        OBVIOUS
    <2> QED
        BY <1>0, <2>2, <2>3
<1>4. CASE s.with = "WithTickerClock"
    <2>1. s.to \in Int
        BY <1>4 DEF IsSetting, With, Takes
    <2>2. Build(o, s) \in {o, [o EXCEPT !.clock = None, !.tickerInterval = s.to]}
        BY <1>4 DEF Build
    <2> QED
        BY <1>0, <2>1, <2>2
<1> QED
    BY <1>1, <1>2, <1>3, <1>4

\* The Options of a list of settings, setting by setting.
LEMMA OptsSteps ==
    ASSUME NEW seq, IsSequence(seq), \A i \in 1..Len(seq) : IsSetting(seq[i])
    PROVE  \E g \in [0..Len(seq) -> Options] :
              /\ g[0] = NoOptions /\ Opts(seq) = g[Len(seq)]
              /\ \A i \in 1..Len(seq) : g[i] = Build(g[i - 1], seq[i])
<1> DEFINE n == Len(seq)
           f == [p \in Options \X (1..n) |-> Build(p[1], seq[p[2]])]
<1>0. n \in Nat /\ DOMAIN seq = 1..n
    BY DEF IsSequence
<1>1. NoOptions \in Options
    BY DEF NoOptions, Options
<1>2. f \in [Options \X (1..n) -> Options]
    BY BuildTypes
<1>3. \A o \in Options, i \in 1..n : f[<<o, i>>] = Build(o, seq[i])
    OBVIOUS
<1> HIDE DEF f
<1>4. PICK h \in [SUBSET (1..n) -> Options] : Folds(h, n, NoOptions, f)
    BY <1>0, <1>1, <1>2, FoldExists
<1> DEFINE Does(F) == F = [s \in SUBSET (1..n) |->
                IF s = {} THEN NoOptions ELSE Build(F[s \ {Max(s)}], seq[Max(s)])]
           H == CHOOSE F : Does(F)
<1>5. Does(h)
    <2>1. ASSUME NEW s \in SUBSET (1..n), s # {}
          PROVE  f[<<h[s \ {Max(s)}], Max(s)>>] = Build(h[s \ {Max(s)}], seq[Max(s)])
        BY <1>0, <1>3, <2>1, MaxIsMember
    <2> QED
        BY <1>4, <2>1 DEF Folds
<1>6. Opts(seq) = H[1..n] /\ Does(H)
    <2>1. Does(H)
        BY <1>5
    <2>2. Opts(seq) = H[1..n]
        BY <1>0 DEF Opts, FoldLeft, MapThenFoldSet
    <2> QED
        BY <2>1, <2>2
<1> HIDE DEF H
<1>7. H[{}] = NoOptions
    BY <1>6
<1>8. ASSUME NEW s \in SUBSET (1..n), s # {}, H[s \ {Max(s)}] \in Options
      PROVE  H[s] = f[<<H[s \ {Max(s)}], Max(s)>>]
    BY <1>0, <1>3, <1>6, <1>8, MaxIsMember
<1>9. FoldsIn(Options, H, n, NoOptions, f)
    BY <1>2, <1>7, <1>8 DEF FoldsIn
<1>10. PICK g \in [0..n -> Options] :
          g[0] = NoOptions /\ g[n] = H[1..n] /\ \A i \in 1..n : g[i] = f[<<g[i - 1], i>>]
    <2> HIDE DEF n, Does
    <2> QED
        BY <1>0, <1>1, <1>9, FoldTurns
<1>11. \A i \in 1..n : g[i] = Build(g[i - 1], seq[i])
    <2> TAKE i \in 1..n
    <2>1. g[i - 1] \in Options
        BY <1>0
    <2> QED
        BY <1>3, <1>10, <2>1
<1> QED
    BY <1>6, <1>10, <1>11

------------------------------------------------------------------------------
(* Merging *)

Caches ==
    {c \in [store : {None, "plain", "fresh"}, ttlSet : BOOLEAN, ttl : Int, staleTTL : Int,
             noExpiration : BOOLEAN, bypass : BOOLEAN, keepStaleOnError : BOOLEAN,
             clock : {None, "given"}, clockOwned : {FALSE}, tickerInterval : Int,
             err : {"nil", "invalid store"}] : ~c.ttlSet => c.ttl = 0}

\* The clock of Options, applied to a cache, leaves it a cache (direct_options.go:118-130).
LEMMA ClockTypes ==
    ASSUME NEW c \in Caches, NEW o \in Options
    PROVE  ApplyClock(c, o) \in Caches
<1>1. ASSUME NEW k \in {None, "given"}, NEW t \in Int
      PROVE  [c EXCEPT !.clock = k, !.clockOwned = FALSE, !.tickerInterval = t] \in Caches
    BY DEF Caches
<1>2. o.clock \in {None, "given"} /\ o.tickerInterval \in Int /\ 0 \in Int
    BY DEF Options
<1> QED
    BY <1>1, <1>2 DEF ApplyClock

Merged(c, o) ==
    [c EXCEPT
        !.store = Given(o.store, @),
        !.ttlSet = @ \/ o.ttl # None,
        !.ttl = Given(o.ttl, @),
        !.staleTTL = IF o.staleTTL # 0 THEN o.staleTTL ELSE @,
        !.noExpiration = @ \/ o.noExpiration,
        !.bypass = @ \/ o.bypass,
        !.keepStaleOnError = @ \/ o.keepStaleOnError]

\* applyOptions: an error stays, a bad store is one, and the rest is merged.
LEMMA ApplyIsMerge ==
    ASSUME NEW c, NEW o
    PROVE  Apply(c, o) = IF c.err # "nil" THEN c
                         ELSE IF o.store = "invalid" THEN [c EXCEPT !.err = "invalid store"]
                         ELSE ApplyClock(Merged(c, o), o)
BY DEF Apply, Merged

\* What merging makes of each field: what is given counts, what is not stays.
LEMMA MergedFields ==
    ASSUME NEW c \in Caches, NEW o \in Options, o.store # "invalid"
    PROVE  /\ Merged(c, o) \in Caches
           /\ Merged(c, o).store = Given(o.store, c.store)
           /\ Merged(c, o).ttl = Given(o.ttl, c.ttl)
           /\ Merged(c, o).staleTTL = IF o.staleTTL # 0 THEN o.staleTTL ELSE c.staleTTL
           /\ Merged(c, o).clock = c.clock
           /\ Merged(c, o).tickerInterval = c.tickerInterval
           /\ Merged(c, o).err = c.err
<1> DEFINE newStore == Given(o.store, c.store)
           ttlSet == c.ttlSet \/ o.ttl # None
           ttl == Given(o.ttl, c.ttl)
           staleTTL == IF o.staleTTL # 0 THEN o.staleTTL ELSE c.staleTTL
           noExpiration == c.noExpiration \/ o.noExpiration
           bypass == c.bypass \/ o.bypass
           keep == c.keepStaleOnError \/ o.keepStaleOnError
<1>1. /\ newStore \in {None, "plain", "fresh"} /\ ttlSet \in BOOLEAN /\ ttl \in Int
      /\ staleTTL \in Int /\ {noExpiration, bypass, keep} \subseteq BOOLEAN
      /\ ~ttlSet => ttl = 0
    BY DEF Caches, Options, Given
<1>2. Merged(c, o) = [c EXCEPT !.store = newStore, !.ttlSet = ttlSet, !.ttl = ttl,
                        !.staleTTL = staleTTL, !.noExpiration = noExpiration,
                        !.bypass = bypass, !.keepStaleOnError = keep]
    BY DEF Merged
<1> HIDE DEF newStore, ttlSet, ttl, staleTTL, noExpiration, bypass, keep
<1>3. Merged(c, o) \in Caches
    BY <1>1, <1>2 DEF Caches
<1>4. /\ Merged(c, o).store = newStore /\ Merged(c, o).ttl = ttl
      /\ Merged(c, o).staleTTL = staleTTL /\ Merged(c, o).clock = c.clock
      /\ Merged(c, o).tickerInterval = c.tickerInterval /\ Merged(c, o).err = c.err
    BY <1>2 DEF Caches
<1> QED
    BY <1>3, <1>4 DEF newStore, ttl, staleTTL

\* What applyOptions makes of a cache is a cache (direct_options.go:89-132).
LEMMA ApplyTypes ==
    ASSUME NEW c \in Caches, NEW o \in Options
    PROVE  Apply(c, o) \in Caches
<1>1. [c EXCEPT !.err = "invalid store"] \in Caches
    BY DEF Caches
<1>2. o.store # "invalid" => ApplyClock(Merged(c, o), o) \in Caches
    BY MergedFields, ClockTypes
<1> QED
    BY <1>1, <1>2, ApplyIsMerge

\* The cache New merges from a list of Options, Options by Options.
LEMMA NewSteps ==
    ASSUME NEW opts, IsSequence(opts), \A i \in 1..Len(opts) : opts[i] \in Options
    PROVE  \E g \in [0..Len(opts) -> Caches] :
              /\ g[0] = Empty /\ FoldLeft(Apply, Empty, opts) = g[Len(opts)]
              /\ \A i \in 1..Len(opts) : g[i] = Apply(g[i - 1], opts[i])
<1> DEFINE n == Len(opts)
           f == [p \in Caches \X (1..n) |-> Apply(p[1], opts[p[2]])]
<1>0. n \in Nat /\ DOMAIN opts = 1..n
    BY DEF IsSequence
<1>1. Empty \in Caches
    BY DEF Empty, Caches
<1>2. f \in [Caches \X (1..n) -> Caches]
    BY ApplyTypes
<1>3. \A c \in Caches, i \in 1..n : f[<<c, i>>] = Apply(c, opts[i])
    OBVIOUS
<1> HIDE DEF f
<1>4. PICK h \in [SUBSET (1..n) -> Caches] : Folds(h, n, Empty, f)
    BY <1>0, <1>1, <1>2, FoldExists
<1> DEFINE Does(F) == F = [s \in SUBSET (1..n) |->
                IF s = {} THEN Empty ELSE Apply(F[s \ {Max(s)}], opts[Max(s)])]
           H == CHOOSE F : Does(F)
<1>5. Does(h)
    <2>1. ASSUME NEW s \in SUBSET (1..n), s # {}
          PROVE  f[<<h[s \ {Max(s)}], Max(s)>>] = Apply(h[s \ {Max(s)}], opts[Max(s)])
        BY <1>0, <1>3, <2>1, MaxIsMember
    <2> QED
        BY <1>4, <2>1 DEF Folds
<1>6. FoldLeft(Apply, Empty, opts) = H[1..n] /\ Does(H)
    <2>1. Does(H)
        BY <1>5
    <2>2. FoldLeft(Apply, Empty, opts) = H[1..n]
        BY <1>0 DEF FoldLeft, MapThenFoldSet
    <2> QED
        BY <2>1, <2>2
<1> HIDE DEF H
<1>7. H[{}] = Empty
    BY <1>6
<1>8. ASSUME NEW s \in SUBSET (1..n), s # {}, H[s \ {Max(s)}] \in Caches
      PROVE  H[s] = f[<<H[s \ {Max(s)}], Max(s)>>]
    BY <1>0, <1>3, <1>6, <1>8, MaxIsMember
<1>9. FoldsIn(Caches, H, n, Empty, f)
    BY <1>2, <1>7, <1>8 DEF FoldsIn
<1>10. PICK g \in [0..n -> Caches] :
          g[0] = Empty /\ g[n] = H[1..n] /\ \A i \in 1..n : g[i] = f[<<g[i - 1], i>>]
    <2> HIDE DEF n, Does
    <2> QED
        BY <1>0, <1>1, <1>9, FoldTurns
<1>11. \A i \in 1..n : g[i] = Apply(g[i - 1], opts[i])
    <2> TAKE i \in 1..n
    <2>1. g[i - 1] \in Caches
        BY <1>0
    <2> QED
        BY <1>3, <1>10, <2>1
<1> QED
    BY <1>6, <1>10, <1>11

\* A cache that New returns, as the engine wants it.
WellMade(c) ==
    MeetsAssumptions(c) /\ {c.noExpiration, c.bypass, c.keepStaleOnError} \subseteq BOOLEAN

\* What passes the checks of New meets what the engine assumes of its settings.
LEMMA VerdictMeets ==
    ASSUME NEW c \in Caches
    PROVE  WellMade(IF Verdict(c) = "nil" THEN TakesClock(c)
                    ELSE [Empty EXCEPT !.err = Verdict(c)])
<1>1. CASE Verdict(c) = "nil"
    <2> DEFINE d == TakesClock(c)
    <2>1. /\ d.ttl = c.ttl /\ d.staleTTL = c.staleTTL /\ d.store = c.store
          /\ d.noExpiration = c.noExpiration /\ d.bypass = c.bypass
          /\ d.keepStaleOnError = c.keepStaleOnError
        BY DEF TakesClock, Caches
    <2>2. c.ttl \in Int /\ c.staleTTL \in Int /\ (~c.ttlSet => c.ttl = 0)
          /\ c.ttlSet \in BOOLEAN /\ {c.noExpiration, c.bypass, c.keepStaleOnError} \subseteq BOOLEAN
        BY DEF Caches
    <2>3. /\ ~(c.ttlSet /\ c.ttl <= 0) /\ ~(c.staleTTL < 0)
          /\ ~(c.ttl = 0 /\ ~c.noExpiration /\ ~c.bypass)
          /\ ~(c.ttl = 0 /\ c.staleTTL > 0) /\ ~(c.store = None /\ ~c.bypass)
        BY ONLY <1>1, c.err = "nil" \/ c.err # "nil" DEF Verdict
    <2>4. /\ c.ttl \in Nat /\ c.staleTTL \in Nat /\ (c.ttl = 0 => c.staleTTL = 0)
          /\ ~c.bypass => c.store # None /\ (c.ttl > 0 \/ c.noExpiration)
        BY ONLY <2>2, <2>3
    <2>5. WellMade(d)
        <3> HIDE DEF d
        <3> QED
            BY <2>1, <2>2, <2>4 DEF WellMade, MeetsAssumptions
    <2> QED
        BY <1>1, <2>5
<1>2. CASE Verdict(c) # "nil"
    BY <1>2 DEF WellMade, MeetsAssumptions, Empty
<1> QED
    BY <1>1, <1>2

\* Whatever list of Options New is given, the cache it returns meets those assumptions.
LEMMA NewMeets ==
    ASSUME NEW opts, IsSequence(opts), \A i \in 1..Len(opts) : opts[i] \in Options
    PROVE  WellMade(New(opts))
<1>1. FoldLeft(Apply, Empty, opts) \in Caches
    <2>1. Len(opts) \in 0..Len(opts)
        BY DEF IsSequence
    <2>2. PICK g \in [0..Len(opts) -> Caches] : FoldLeft(Apply, Empty, opts) = g[Len(opts)]
        BY NewSteps
    <2> QED
        BY <2>1, <2>2
<1> QED
    BY <1>1, VerdictMeets DEF New

------------------------------------------------------------------------------
(* Lists of Options, flattened *)

\* The builder makes Options of any settings.
LEMMA OptsTypes ==
    ASSUME NEW seq, IsSequence(seq), \A i \in 1..Len(seq) : IsSetting(seq[i])
    PROVE  Opts(seq) \in Options
<1>1. Len(seq) \in 0..Len(seq)
    BY DEF IsSequence
<1> QED
    BY <1>1, OptsSteps

\* So each list of settings becomes a list of Options.
LEMMA OptsOfList ==
    ASSUME NEW several, IsListOfOptions(several)
    PROVE  LET opts == [i \in DOMAIN several |-> Opts(several[i])]
           IN  /\ IsSequence(opts) /\ Len(opts) = Len(several)
               /\ \A i \in 1..Len(opts) : opts[i] \in Options /\ opts[i] = Opts(several[i])
<1> DEFINE opts == [i \in DOMAIN several |-> Opts(several[i])]
<1>1. DOMAIN several = 1..Len(several) /\ Len(several) \in Nat
    BY DEF IsListOfOptions, IsSequence
<1>2. opts = [i \in 1..Len(several) |-> opts[i]]
    BY <1>1
<1>3. Len(opts) = Len(several)
    BY <1>1
<1>4. \A i \in 1..Len(several) : Opts(several[i]) \in Options
    BY <1>1, OptsTypes DEF IsListOfOptions, IsSequence
<1> QED
    BY <1>1, <1>2, <1>3, <1>4 DEF IsSequence

\* Whatever the settings, the cache New makes of them meets the assumptions of the engine.
LEMMA ListMeets ==
    ASSUME NEW several, IsListOfOptions(several)
    PROVE  WellMade(New([i \in DOMAIN several |-> Opts(several[i])]))
BY OptsOfList, NewMeets

\* So does the one newDirectCache makes, with its own store (direct_options.go:147-152).
LEMMA DirectMeets ==
    ASSUME NEW o \in Options
    PROVE  WellMade(NewDirect(o))
<1> DEFINE d == IF o.store = None THEN [o EXCEPT !.store = "fresh"] ELSE o
<1>1. d \in Options
    BY DEF Options
<1> HIDE DEF d
<1>2. IsSequence(<<d>>) /\ \A i \in 1..Len(<<d>>) : <<d>>[i] \in Options
    BY <1>1 DEF IsSequence
<1>3. NewDirect(o) = New(<<d>>)
    BY DEF NewDirect, d
<1> QED
    BY <1>2, <1>3, NewMeets

AllSettings ==
    UNION {With(w) : w \in {"WithStore", "WithTTL", "WithStaleTTL", "NoExpiration",
                            "Bypass", "KeepStaleOnError", "WithClock", "WithTickerClock"}}

\* A setting is of the option it names.
LEMMA SettingsTyped ==
    ASSUME NEW s, IsSetting(s)
    PROVE  s \in AllSettings /\ \A w : s \in With(w) <=> s.with = w
<1>1. s \in With(s.with)
    BY DEF IsSetting, With
<1>2. s.with \in {"WithStore", "WithTTL", "WithStaleTTL", "NoExpiration", "Bypass",
                  "KeepStaleOnError", "WithClock", "WithTickerClock"}
    BY DEF IsSetting, With, Takes
<1> QED
    BY <1>1, <1>2 DEF AllSettings, With

\* Settings spread over several Options are those of one list after the other.
LEMMA FlattenTurns ==
    ASSUME NEW several, IsListOfOptions(several)
    PROVE  \E g \in [0..Len(several) -> Seq(AllSettings)] :
              /\ g[0] = << >> /\ FlattenSeq(several) = g[Len(several)]
              /\ \A i \in 1..Len(several) : several[i] \in Seq(AllSettings) /\ g[i] = g[i - 1] \o several[i]
<1> DEFINE n == Len(several)
           S == Seq(AllSettings)
           f == [p \in S \X (1..n) |-> p[1] \o several[p[2]]]
<1>0. n \in Nat /\ several = [i \in 1..n |-> several[i]] /\ DOMAIN several = 1..n
    BY DEF IsListOfOptions, IsSequence
<1>1. \A i \in 1..n : several[i] \in S
    <2> TAKE i \in 1..n
    <2>1. /\ Len(several[i]) \in Nat /\ several[i] = [j \in 1..Len(several[i]) |-> several[i][j]]
          /\ \A j \in 1..Len(several[i]) : several[i][j] \in AllSettings
        BY <1>0, SettingsTyped DEF IsListOfOptions, IsSequence
    <2> QED
        BY <2>1
<1>2. f \in [S \X (1..n) -> S] /\ << >> \in S
    BY <1>1
<1>3. \A s \in S, i \in 1..n : f[<<s, i>>] = s \o several[i]
    OBVIOUS
<1> HIDE DEF f
<1>4. PICK h \in [SUBSET (1..n) -> S] : Folds(h, n, << >>, f)
    BY <1>0, <1>2, FoldExists
<1>5. FoldsIn(S, h, n, << >>, f)
    BY <1>2, <1>4 DEF FoldsIn, Folds
<1>6. PICK g \in [0..n -> S] :
          g[0] = << >> /\ g[n] = h[1..n] /\ \A i \in 1..n : g[i] = f[<<g[i - 1], i>>]
    <2> HIDE DEF n, S
    <2>1. n \in Nat /\ << >> \in S
        BY <1>0, <1>2
    <2> QED
        BY ONLY <2>1, <1>5, FoldTurns
<1>7. \A i \in 1..n : g[i] = g[i - 1] \o several[i]
    <2> TAKE i \in 1..n
    <2>1. g[i - 1] \in S
        BY <1>0
    <2> QED
        BY <1>3, <1>6, <2>1
<1>8. \A i \in 1..n : i - 1 \in 0..n /\ i \in 0..n /\ (i # 1 => i - 1 \in 1..n)
    BY <1>0
<1>13. \A s \in S : << >> \o s = s
    OBVIOUS
<1> DEFINE Does(G) == G = [i \in 1..n |-> IF i = 1 THEN several[i] ELSE G[i - 1] \o several[i]]
           F == CHOOSE G : Does(G)
<1>14. FlattenSeq(several) = IF n = 0 THEN several ELSE F[n]
    BY DEF FlattenSeq
<1> HIDE DEF n, S
<1>15. ASSUME n >= 1 PROVE g[1] = several[1]
    <2>1. 1 \in 1..n /\ 1 - 1 = 0
        BY <1>0, <1>15
    <2>2. g[1] = g[0] \o several[1] /\ several[1] \in S
        BY <1>1, <1>7, <2>1
    <2> QED
        BY <1>6, <1>13, <2>2
<1>9. Does(F)
    <2>1. ASSUME NEW i \in 1..n
          PROVE  g[i] = IF i = 1 THEN several[i] ELSE [j \in 1..n |-> g[j]][i - 1] \o several[i]
        <3>1. CASE i = 1
            BY <1>0, <1>15, <3>1
        <3>2. CASE i # 1
            <4>1. [j \in 1..n |-> g[j]][i - 1] = g[i - 1]
                BY <1>8, <3>2
            <4> QED
                BY <1>7, <3>2, <4>1
        <3> QED
            BY <3>1, <3>2
    <2>2. Does([i \in 1..n |-> g[i]])
        BY <2>1
    <2> QED
        BY <2>2
<1> HIDE DEF F
<1>11. \A i \in 1..n : F[i] = g[i]
    <2> DEFINE Done == {i \in 0..n : i # 0 => F[i] = g[i]}
    <2>1. 0 \in Done
        BY <1>0
    <2>2. ASSUME NEW i \in 1..n, i - 1 \in Done PROVE i \in Done
        <3>1. F[i] = IF i = 1 THEN several[i] ELSE F[i - 1] \o several[i]
            BY <1>9
        <3>2. CASE i = 1
            BY <1>0, <1>8, <1>15, <3>1, <3>2
        <3>3. CASE i # 1
            <4>1. F[i - 1] = g[i - 1]
                BY <1>0, <2>2, <3>3
            <4> QED
                BY <1>7, <1>8, <3>1, <3>3, <4>1
        <3> QED
            BY <3>2, <3>3
    <2> HIDE DEF Done
    <2>3. \A i \in 0..n : i \in Done
        BY <1>0, <2>1, <2>2, TurnByTurn
    <2> QED
        BY <1>0, <2>3 DEF Done
<1>12. FlattenSeq(several) = g[n]
    <2>1. n = 0 => several = << >>
        BY <1>0
    <2> QED
        BY <1>0, <1>6, <1>14, <1>11, <2>1
<1> USE DEF n, S
<1> QED
    BY <1>1, <1>6, <1>7, <1>12

------------------------------------------------------------------------------
(* The last of the settings *)

\* x is the last of the first n settings t that is in S, or None.
LastIs(t, n, S, x) ==
    \/ x = None /\ \A i \in 1..n : t[i] \notin S
    \/ \E i \in 1..n : x = t[i] /\ t[i] \in S /\ \A j \in (i + 1)..n : t[j] \notin S

\* One more setting is the last one of S if it is in S.
LEMMA LastExtends ==
    ASSUME NEW t, NEW n \in Nat, NEW i \in 1..n, NEW S, NEW x, LastIs(t, i - 1, S, x)
    PROVE  LastIs(t, i, S, IF t[i] \in S THEN t[i] ELSE x)
<1>1. /\ i \in Nat /\ i \in 1..i /\ (i + 1)..i = {}
      /\ \A j \in 1..i : j = i \/ j \in 1..(i - 1)
      /\ \A k \in 1..(i - 1) : k \in 1..i /\ \A j \in (k + 1)..i : j = i \/ j \in (k + 1)..(i - 1)
    OBVIOUS
<1>2. CASE t[i] \in S
    BY <1>1, <1>2 DEF LastIs
<1>3. CASE t[i] \notin S
    BY <1>1, <1>3, Zenon DEF LastIs
<1> QED
    BY <1>2, <1>3

\* The settings of two lists and their places in the joint one.
LEMMA Concatenation ==
    ASSUME NEW T, NEW s \in Seq(T), NEW t \in Seq(T)
    PROVE  /\ s \o t \in Seq(T) /\ Len(s \o t) = Len(s) + Len(t)
           /\ Len(s) \in Nat /\ Len(t) \in Nat
           /\ \A i \in 1..Len(s) : i \in 1..Len(s \o t) /\ (s \o t)[i] = s[i]
           /\ \A i \in 1..Len(t) :
                 Len(s) + i \in 1..Len(s \o t) /\ (s \o t)[Len(s) + i] = t[i]
           /\ \A k \in 1..Len(s \o t) :
                 k \in 1..Len(s) \/ \E i \in 1..Len(t) : k = Len(s) + i
<1>1. /\ s \o t \in Seq(T) /\ Len(s \o t) = Len(s) + Len(t)
      /\ Len(s) \in Nat /\ Len(t) \in Nat
    OBVIOUS
<1>2. ASSUME NEW i \in 1..Len(s)
      PROVE  i \in 1..Len(s \o t) /\ (s \o t)[i] = s[i]
    OBVIOUS
<1>3. ASSUME NEW i \in 1..Len(t)
      PROVE  Len(s) + i \in 1..Len(s \o t) /\ (s \o t)[Len(s) + i] = t[i]
    OBVIOUS
<1>4. ASSUME NEW k \in 1..Len(s \o t), k \notin 1..Len(s)
      PROVE  \E i \in 1..Len(t) : k = Len(s) + i
    <2>1. k - Len(s) \in 1..Len(t) /\ k = Len(s) + (k - Len(s))
        BY <1>1, <1>4
    <2> QED
        BY <2>1
<1> QED
    BY <1>1, <1>2, <1>3, <1>4

\* The last setting of two lists is that of the second one, if there is any.
LEMMA LastOfBoth ==
    ASSUME NEW T, NEW s \in Seq(T), NEW t \in Seq(T), NEW S, None \notin S,
           NEW x, LastIs(s, Len(s), S, x), NEW y, LastIs(t, Len(t), S, y)
    PROVE  LastIs(s \o t, Len(s \o t), S, IF y # None THEN y ELSE x)
<1> DEFINE u == s \o t  m == Len(s)  n == Len(t)  l == Len(s \o t)
<1>1. /\ m \in Nat /\ n \in Nat /\ l = m + n
      /\ \A i \in 1..m : i \in 1..l /\ u[i] = s[i]
      /\ \A i \in 1..n : m + i \in 1..l /\ u[m + i] = t[i]
      /\ \A k \in 1..l : k \in 1..m \/ \E i \in 1..n : k = m + i
    BY Concatenation
<1> HIDE DEF u, m, n, l
<1>2. CASE y # None
    <2>1. PICK i \in 1..n : y = t[i] /\ t[i] \in S /\ \A j \in (i + 1)..n : t[j] \notin S
        BY <1>2 DEF LastIs, n
    <2>2. ASSUME NEW k \in (m + i + 1)..l PROVE u[k] \notin S
        <3>1. k \in 1..l /\ k \notin 1..m
            BY <1>1
        <3>2. PICK j \in 1..n : k = m + j
            BY <1>1, <3>1
        <3>3. j \in (i + 1)..n
            BY <1>1, <3>2
        <3> QED
            BY <1>1, <2>1, <3>2, <3>3
    <2> QED
        BY <1>1, <1>2, <2>1, <2>2 DEF LastIs, u, l
<1>3. CASE y = None
    <2>1. \A i \in 1..n : t[i] \notin S
        BY <1>3 DEF LastIs, n
    <2>2. CASE x = None /\ \A i \in 1..m : s[i] \notin S
        <3>1. \A k \in 1..l : u[k] \notin S
            BY <1>1, <2>1, <2>2
        <3> QED
            BY <1>3, <2>2, <3>1 DEF LastIs, u, l
    <2>3. CASE \E i \in 1..m : x = s[i] /\ s[i] \in S /\ \A j \in (i + 1)..m : s[j] \notin S
        <3>1. PICK i \in 1..m : x = s[i] /\ s[i] \in S /\ \A j \in (i + 1)..m : s[j] \notin S
            BY <2>3
        <3>2. ASSUME NEW k \in (i + 1)..l PROVE u[k] \notin S
            <4>1. k \in 1..l /\ (k \in 1..m => k \in (i + 1)..m)
                BY <1>1
            <4> QED
                BY <1>1, <2>1, <3>1, <4>1
        <3>3. i \in 1..l /\ u[i] = s[i]
            BY <1>1
        <3> QED
            BY <1>3, <3>1, <3>2, <3>3 DEF LastIs, u, l
    <2> QED
        BY <2>2, <2>3 DEF LastIs, m
<1> QED
    BY <1>2, <1>3

Names == {"WithStore", "WithTTL", "WithStaleTTL", "NoExpiration", "Bypass",
          "KeepStaleOnError", "WithClock", "WithTickerClock"}

\* A setting has a name, a value of its type, and is not nil.
LEMMA NamedSettings ==
    ASSUME NEW s \in AllSettings
    PROVE  /\ \A w : s \in With(w) <=> s.with = w
           /\ s.with \in Names /\ s # None /\ s.to \in Takes(s.with)
<1>1. PICK w \in Names : s \in With(w)
    BY DEF AllSettings, Names
<1>2. s.with = w /\ s.to \in Takes(w) /\ s = [with |-> w, to |-> s.to]
    BY <1>1 DEF With
<1>3. s # None
    BY <1>1, NoneAssumption DEF Names
<1>4. \A v : s \in With(v) <=> s.with = v
    <2> TAKE v
    <2>1. s \in With(v) => s.with = v
        BY DEF With
    <2> QED
        BY <1>1, <1>2, <2>1
<1> QED
    BY <1>1, <1>2, <1>3, <1>4

\* What settings say of an option is what the last one on it says.
LEMMA SaysLast ==
    ASSUME NEW t \in Seq(AllSettings), NEW w \in Names, NEW other,
           NEW x, LastIs(t, Len(t), With(w), x)
    PROVE  Says(t, w, other) = IF x = None THEN other ELSE x.to
<1> DEFINE n == Len(t)
           last == {i \in DOMAIN t : t[i].with = w /\ \A j \in DOMAIN t : j > i => ~(t[j].with = w)}
           found == IF last = {} THEN None ELSE t[CHOOSE i \in last : TRUE]
<1>1. n \in Nat /\ DOMAIN t = 1..n /\ \A i \in 1..n : t[i] \in AllSettings
    OBVIOUS
<1>2. Says(t, w, other) = IF found = None THEN other ELSE found.to
    BY DEF Says, LastOf
<1> HIDE DEF n
<1>3. \A i \in 1..n : (t[i] \in With(w) <=> t[i].with = w) /\ t[i] # None
    BY <1>1, NamedSettings
<1>4. CASE x = None /\ \A i \in 1..n : t[i] \notin With(w)
    <2>1. last = {}
        BY <1>1, <1>3, <1>4
    <2> QED
        BY <1>2, <1>4, <2>1
<1>5. CASE \E i \in 1..n : /\ x = t[i] /\ t[i] \in With(w)
                         /\ \A j \in (i + 1)..n : t[j] \notin With(w)
    <2>1. PICK i \in 1..n :
              x = t[i] /\ t[i] \in With(w) /\ \A j \in (i + 1)..n : t[j] \notin With(w)
        BY <1>5
    <2>2. i \in last
        BY <1>1, <1>3, <2>1
    <2>3. ASSUME NEW k \in last PROVE k = i
        <3>1. k \in 1..n /\ i \in 1..n /\ ~(i > k) /\ (k > i => k \in (i + 1)..n)
            BY <1>1, <1>3, <2>1, <2>2, <2>3
        <3>2. ~(k > i)
            BY <1>3, <2>1, <2>3, <3>1
        <3> QED
            BY <1>1, <3>1, <3>2
    <2> HIDE DEF last
    <2>4. found = t[i] /\ found # None
        BY <1>3, <2>2, <2>3
    <2> HIDE DEF found
    <2> QED
        BY <1>2, <2>1, <2>4
<1> QED
    BY <1>4, <1>5 DEF LastIs, n

\* The settings that give a cache its clock.
Effective == {s \in AllSettings : EffectiveClock(s)}

\* The last setting that gives a cache its clock.
LEMMA LastClockIs ==
    ASSUME NEW t \in Seq(AllSettings), NEW x, LastIs(t, Len(t), Effective, x)
    PROVE  LastOf(t, EffectiveClock) = x
<1> DEFINE n == Len(t)
           last == {i \in DOMAIN t : EffectiveClock(t[i])
                        /\ \A j \in DOMAIN t : j > i => ~EffectiveClock(t[j])}
           found == IF last = {} THEN None ELSE t[CHOOSE i \in last : TRUE]
<1>1. n \in Nat /\ DOMAIN t = 1..n /\ \A i \in 1..n : t[i] \in AllSettings
    OBVIOUS
<1>2. LastOf(t, EffectiveClock) = found
    BY DEF LastOf
<1> HIDE DEF n
<1>3. \A i \in 1..n : t[i] \in Effective <=> EffectiveClock(t[i])
    BY <1>1 DEF Effective
<1>4. CASE x = None /\ \A i \in 1..n : t[i] \notin Effective
    <2>1. last = {}
        BY <1>1, <1>3, <1>4
    <2> QED
        BY <1>2, <1>4, <2>1
<1>5. CASE \E i \in 1..n : /\ x = t[i] /\ t[i] \in Effective
                         /\ \A j \in (i + 1)..n : t[j] \notin Effective
    <2>1. PICK i \in 1..n :
              x = t[i] /\ t[i] \in Effective /\ \A j \in (i + 1)..n : t[j] \notin Effective
        BY <1>5
    <2>2. i \in last
        BY <1>1, <1>3, <2>1
    <2>3. ASSUME NEW k \in last PROVE k = i
        <3>1. k \in 1..n /\ i \in 1..n /\ ~(i > k) /\ (k > i => k \in (i + 1)..n)
            BY <1>1, <1>3, <2>1, <2>2, <2>3
        <3>2. ~(k > i)
            BY <1>3, <2>1, <2>3, <3>1
        <3> QED
            BY <1>1, <3>1, <3>2
    <2> HIDE DEF last
    <2>4. found = t[i]
        BY <2>2, <2>3
    <2> HIDE DEF found
    <2> QED
        BY <1>2, <2>1, <2>4
<1> QED
    BY <1>4, <1>5 DEF LastIs, n

\* The first n settings tell v of the option w: the last of them on it, or the other value.
Tells(t, n, w, other, v) ==
    \E x : LastIs(t, n, With(w), x) /\ v = IF x = None THEN other ELSE x.to

\* No settings tell nothing.
LEMMA TellsFirst ==
    ASSUME NEW t, NEW w, NEW other
    PROVE  Tells(t, 0, w, other, other) /\ LastIs(t, 0, Effective, None)
<1>1. 1..0 = {}
    OBVIOUS
<1> QED
    BY <1>1 DEF Tells, LastIs

\* One more setting tells its own value, if it is on the option.
LEMMA TellsMore ==
    ASSUME NEW t, NEW n \in Nat, NEW i \in 1..n, t[i] \in AllSettings, NEW w, NEW other, NEW v,
           Tells(t, i - 1, w, other, v)
    PROVE  Tells(t, i, w, other, IF t[i].with = w THEN t[i].to ELSE v)
<1>1. PICK x : LastIs(t, i - 1, With(w), x) /\ v = IF x = None THEN other ELSE x.to
    BY DEF Tells
<1>2. LastIs(t, i, With(w), IF t[i] \in With(w) THEN t[i] ELSE x)
    BY <1>1, LastExtends
<1>3. (t[i] \in With(w) <=> t[i].with = w) /\ t[i] # None
    BY NamedSettings
<1> QED
    BY <1>1, <1>2, <1>3 DEF Tells

\* Two lists tell what the second one tells, unless that is the value for nothing.
LEMMA TellsBoth ==
    ASSUME NEW s \in Seq(AllSettings), NEW t \in Seq(AllSettings), NEW w \in Names,
           NEW other, NEW nothing, \A i \in 1..Len(t) : t[i].with = w => t[i].to # nothing,
           NEW v, Tells(s, Len(s), w, other, v), NEW u, Tells(t, Len(t), w, nothing, u)
    PROVE  Tells(s \o t, Len(s \o t), w, other, IF u # nothing THEN u ELSE v)
<1>1. PICK x : LastIs(s, Len(s), With(w), x) /\ v = IF x = None THEN other ELSE x.to
    BY DEF Tells
<1>2. PICK y : LastIs(t, Len(t), With(w), y) /\ u = IF y = None THEN nothing ELSE y.to
    BY DEF Tells
<1>3. None \notin With(w)
    BY NoneAssumption DEF Names
<1>4. LastIs(s \o t, Len(s \o t), With(w), IF y # None THEN y ELSE x)
    BY <1>1, <1>2, <1>3, LastOfBoth
<1>5. y # None => y.to # nothing
    <2>1. \A i \in 1..Len(t) : t[i] \in AllSettings
        OBVIOUS
    <2> QED
        BY <1>2, <2>1, NamedSettings DEF LastIs
<1> QED
    BY <1>1, <1>2, <1>4, <1>5 DEF Tells

\* What settings tell of an option is what they say.
LEMMA TellsSays ==
    ASSUME NEW t \in Seq(AllSettings), NEW w \in Names, NEW other, NEW v,
           Tells(t, Len(t), w, other, v)
    PROVE  v = Says(t, w, other)
<1>1. PICK x : LastIs(t, Len(t), With(w), x) /\ v = IF x = None THEN other ELSE x.to
    BY DEF Tells
<1> QED
    BY <1>1, SaysLast

\* What the last effective setting x of the clock makes of the clock and the interval.
Clocked(x, chosen, interval) ==
    /\ x = None => chosen = None /\ interval = 0
    /\ x # None /\ x.with = "WithClock" => chosen = "given" /\ interval = 0
    /\ x # None /\ x.with = "WithTickerClock" => chosen = None /\ interval > 0

\* WithClock(nil) and an interval that is not positive give no clock.
LEMMA EffectiveSettings ==
    ASSUME NEW s \in AllSettings
    PROVE  /\ s \in Effective => s # None /\ s.with \in {"WithClock", "WithTickerClock"}
           /\ s.with = "WithClock" => s.to \in {"given", None} /\ (s \in Effective <=> s.to # None)
           /\ s.with = "WithTickerClock" => s.to \in Int /\ (s \in Effective <=> s.to > 0)
<1>1. s # None /\ s.to \in Takes(s.with)
    BY NamedSettings
<1> QED
    BY <1>1 DEF Effective, EffectiveClock, Takes

\* What a setting makes of each option (direct_options.go:24-87).
LEMMA BuildFields ==
    ASSUME NEW o \in Options, NEW s \in AllSettings
    PROVE  LET b == Build(o, s)
           IN  /\ b.store = IF s.with = "WithStore" THEN s.to ELSE o.store
               /\ b.ttl = IF s.with = "WithTTL" THEN s.to ELSE o.ttl
               /\ b.staleTTL = IF s.with = "WithStaleTTL" THEN s.to ELSE o.staleTTL
               /\ s \in Effective => Clocked(s, b.clock, b.tickerInterval)
               /\ s \notin Effective => b.clock = o.clock /\ b.tickerInterval = o.tickerInterval
<1> DEFINE b == Build(o, s)
<1>0. s.with \in Names /\ s # None
    BY NamedSettings
<1>1. CASE s.with \in Names \ {"WithClock", "WithTickerClock"}
    <2>1. s \notin Effective
        BY <1>1, EffectiveSettings
    <2>2. /\ b.store = IF s.with = "WithStore" THEN s.to ELSE o.store
          /\ b.ttl = IF s.with = "WithTTL" THEN s.to ELSE o.ttl
          /\ b.staleTTL = IF s.with = "WithStaleTTL" THEN s.to ELSE o.staleTTL
          /\ b.clock = o.clock /\ b.tickerInterval = o.tickerInterval
        BY <1>1 DEF Build, Options, Names
    <2> QED
        BY <2>1, <2>2
<1>2. CASE s.with = "WithClock"
    <2>1. s.to \in {"given", None} /\ (s \in Effective <=> s.to # None)
        BY <1>2, EffectiveSettings
    <2>2. b = IF s.to # None THEN [o EXCEPT !.clock = "given", !.tickerInterval = 0] ELSE o
        BY <1>2, <2>1 DEF Build
    <2> HIDE DEF b
    <2>3. /\ b.store = o.store /\ b.ttl = o.ttl /\ b.staleTTL = o.staleTTL
          /\ b.clock = IF s.to # None THEN "given" ELSE o.clock
          /\ b.tickerInterval = IF s.to # None THEN 0 ELSE o.tickerInterval
        BY <2>2 DEF Options
    <2> QED
        BY <1>0, <1>2, <2>1, <2>3 DEF b, Clocked
<1>3. CASE s.with = "WithTickerClock"
    <2>1. s.to \in Int /\ (s \in Effective <=> s.to > 0)
        BY <1>3, EffectiveSettings
    <2>2. b = IF s.to > 0 THEN [o EXCEPT !.clock = None, !.tickerInterval = s.to] ELSE o
        BY <1>3 DEF Build
    <2> HIDE DEF b
    <2>3. /\ b.store = o.store /\ b.ttl = o.ttl /\ b.staleTTL = o.staleTTL
          /\ b.clock = IF s.to > 0 THEN None ELSE o.clock
          /\ b.tickerInterval = IF s.to > 0 THEN s.to ELSE o.tickerInterval
        BY <2>2 DEF Options
    <2> QED
        BY <1>0, <1>3, <2>1, <2>3 DEF b, Clocked
<1> QED
    BY <1>0, <1>1, <1>2, <1>3

\* What Options say after n settings of the builder, and a cache after the settings of
\* the Options merged so far.
OptionsSay(t, n, o) ==
    /\ Tells(t, n, "WithStore", None, o.store)
    /\ Tells(t, n, "WithTTL", None, o.ttl)
    /\ Tells(t, n, "WithStaleTTL", 0, o.staleTTL)
    /\ \E x : LastIs(t, n, Effective, x) /\ Clocked(x, o.clock, o.tickerInterval)

CacheSays(t, c) ==
    /\ Tells(t, Len(t), "WithStore", None, c.store)
    /\ Tells(t, Len(t), "WithTTL", 0, c.ttl)
    /\ (\A i \in 1..Len(t) : t[i] # Setting("WithStaleTTL", 0)) =>
           Tells(t, Len(t), "WithStaleTTL", 0, c.staleTTL)
    /\ \E x : LastIs(t, Len(t), Effective, x) /\ Clocked(x, c.clock, c.tickerInterval)

\* Options say what their settings say: one setting more.
LEMMA BuildSays ==
    ASSUME NEW t, NEW n \in Nat, NEW i \in 1..n, t[i] \in AllSettings, NEW o \in Options,
           OptionsSay(t, i - 1, o)
    PROVE  OptionsSay(t, i, Build(o, t[i]))
<1> DEFINE b == Build(o, t[i])
<1>1. PICK x : LastIs(t, i - 1, Effective, x) /\ Clocked(x, o.clock, o.tickerInterval)
    BY DEF OptionsSay
<1>2. LastIs(t, i, Effective, IF t[i] \in Effective THEN t[i] ELSE x)
    BY <1>1, LastExtends
<1>3. /\ b.store = IF t[i].with = "WithStore" THEN t[i].to ELSE o.store
      /\ b.ttl = IF t[i].with = "WithTTL" THEN t[i].to ELSE o.ttl
      /\ b.staleTTL = IF t[i].with = "WithStaleTTL" THEN t[i].to ELSE o.staleTTL
      /\ t[i] \in Effective => Clocked(t[i], b.clock, b.tickerInterval)
      /\ t[i] \notin Effective => b.clock = o.clock /\ b.tickerInterval = o.tickerInterval
    BY BuildFields
<1> HIDE DEF b
<1>4. Clocked(IF t[i] \in Effective THEN t[i] ELSE x, b.clock, b.tickerInterval)
    BY <1>1, <1>3
<1>5. Tells(t, i, "WithStore", None, b.store)
    BY <1>3, TellsMore DEF OptionsSay
<1>6. Tells(t, i, "WithTTL", None, b.ttl)
    BY <1>3, TellsMore DEF OptionsSay
<1>7. Tells(t, i, "WithStaleTTL", 0, b.staleTTL)
    BY <1>3, TellsMore DEF OptionsSay
<1>8. OptionsSay(t, i, b)
    BY <1>2, <1>4, <1>5, <1>6, <1>7 DEF OptionsSay
<1> QED
    BY <1>8 DEF b

\* The Options made of a list of settings say, of each option, what the last of them says.
LEMMA OptsSay ==
    ASSUME NEW t \in Seq(AllSettings), \A i \in 1..Len(t) : IsSetting(t[i])
    PROVE  OptionsSay(t, Len(t), Opts(t))
<1> DEFINE n == Len(t)
<1>0. n \in Nat /\ IsSequence(t) /\ \A i \in 1..n : t[i] \in AllSettings
    BY DEF IsSequence
<1>1. PICK g \in [0..n -> Options] :
          g[0] = NoOptions /\ Opts(t) = g[n] /\ \A i \in 1..n : g[i] = Build(g[i - 1], t[i])
    BY <1>0, OptsSteps
<1> HIDE DEF n
<1> DEFINE Done == {i \in 0..n : OptionsSay(t, i, g[i])}
<1>2. 0 \in Done
    <2>1. OptionsSay(t, 0, NoOptions)
        BY TellsFirst DEF OptionsSay, NoOptions, Clocked
    <2> QED
        BY <1>0, <1>1, <2>1
<1>3. ASSUME NEW i \in 1..n, i - 1 \in Done PROVE i \in Done
    <2>1. i - 1 \in 0..n /\ i \in 0..n /\ g[i - 1] \in Options
        BY <1>0, <1>1
    <2>2. OptionsSay(t, i, Build(g[i - 1], t[i]))
        BY <1>0, <1>3, <2>1, BuildSays
    <2> QED
        BY <1>1, <2>1, <2>2
<1> HIDE DEF Done
<1>4. \A i \in 0..n : i \in Done
    BY <1>0, <1>2, <1>3, TurnByTurn
<1>5. n \in 0..n
    BY <1>0
<1> QED
    BY <1>1, <1>4, <1>5 DEF Done, n

\* What the clock of Options makes of the clock of a cache (direct_options.go:118-130).
LEMMA ClockFields ==
    ASSUME NEW c \in Caches, NEW o \in Options
    PROVE  LET d == ApplyClock(c, o)
           IN  /\ d.store = c.store /\ d.ttl = c.ttl /\ d.staleTTL = c.staleTTL /\ d.err = c.err
               /\ d.clock = IF o.clock # None THEN o.clock
                            ELSE IF o.tickerInterval > 0 THEN None ELSE c.clock
               /\ d.tickerInterval = IF o.clock # None THEN 0
                                     ELSE IF o.tickerInterval > 0 THEN o.tickerInterval
                                     ELSE c.tickerInterval
<1> DEFINE d == ApplyClock(c, o)
<1>1. CASE o.clock # None
    <2>1. d = [c EXCEPT !.clock = o.clock, !.clockOwned = FALSE, !.tickerInterval = 0]
        BY <1>1 DEF ApplyClock
    <2> HIDE DEF d
    <2>2. /\ d.store = c.store /\ d.ttl = c.ttl /\ d.staleTTL = c.staleTTL /\ d.err = c.err
          /\ d.clock = o.clock /\ d.tickerInterval = 0
        BY <2>1 DEF Caches
    <2> QED
        BY <1>1, <2>2 DEF d
<1>2. CASE o.clock = None /\ o.tickerInterval > 0
    <2>1. d = [c EXCEPT !.clock = None, !.clockOwned = FALSE, !.tickerInterval = o.tickerInterval]
        BY <1>2 DEF ApplyClock
    <2> HIDE DEF d
    <2>2. /\ d.store = c.store /\ d.ttl = c.ttl /\ d.staleTTL = c.staleTTL /\ d.err = c.err
          /\ d.clock = None /\ d.tickerInterval = o.tickerInterval
        BY <2>1 DEF Caches
    <2> QED
        BY <1>2, <2>2 DEF d
<1>3. CASE o.clock = None /\ ~(o.tickerInterval > 0)
    BY <1>3 DEF ApplyClock
<1> QED
    BY <1>1, <1>2, <1>3

\* Of two lists, the last effective setting gives the clock.
LEMMA ClockedBoth ==
    ASSUME NEW T, NEW s \in Seq(T), NEW t \in Seq(T), NEW c \in Caches, NEW o \in Options,
           NEW x, LastIs(s, Len(s), Effective, x), Clocked(x, c.clock, c.tickerInterval),
           NEW y, LastIs(t, Len(t), Effective, y), Clocked(y, o.clock, o.tickerInterval)
    PROVE  LET d == ApplyClock(c, o)
               z == IF y # None THEN y ELSE x
           IN  LastIs(s \o t, Len(s \o t), Effective, z) /\ Clocked(z, d.clock, d.tickerInterval)
<1>1. None \notin Effective
    BY EffectiveSettings DEF Effective
<1>2. LastIs(s \o t, Len(s \o t), Effective, IF y # None THEN y ELSE x)
    BY <1>1, LastOfBoth
<1>3. y # None => y.with \in {"WithClock", "WithTickerClock"}
    BY EffectiveSettings DEF LastIs, Effective
<1> DEFINE d == ApplyClock(c, o)
<1>4. /\ d.clock = IF o.clock # None THEN o.clock
                   ELSE IF o.tickerInterval > 0 THEN None ELSE c.clock
      /\ d.tickerInterval = IF o.clock # None THEN 0
                            ELSE IF o.tickerInterval > 0 THEN o.tickerInterval
                            ELSE c.tickerInterval
    BY ClockFields
<1> HIDE DEF d
<1>5. "given" # None
    BY NoneAssumption
<1> DEFINE Result == Clocked(IF y # None THEN y ELSE x, d.clock, d.tickerInterval)
<1>6. ASSUME y = None PROVE Result
    <2>1. d.clock = c.clock /\ d.tickerInterval = c.tickerInterval
        BY <1>4, <1>6 DEF Clocked
    <2> QED
        BY <1>6, <2>1
<1>7. ASSUME y # None, y.with = "WithClock" PROVE Result
    <2>1. d.clock = "given" /\ d.tickerInterval = 0
        BY <1>4, <1>5, <1>7 DEF Clocked
    <2> QED
        BY <1>7, <2>1 DEF Clocked
<1>8. ASSUME y # None, y.with = "WithTickerClock" PROVE Result
    <2>1. d.clock = None /\ d.tickerInterval > 0
        BY <1>4, <1>8 DEF Clocked
    <2> QED
        BY <1>8, <2>1 DEF Clocked
<1>9. Result
    BY <1>3, <1>6, <1>7, <1>8
<1> HIDE DEF Result
<1>10. LET e == d
           z == IF y # None THEN y ELSE x
       IN  LastIs(s \o t, Len(s \o t), Effective, z) /\ Clocked(z, e.clock, e.tickerInterval)
    BY <1>2, <1>9 DEF Result
<1> QED
    BY <1>10 DEF d

\* A cache says what all settings so far say: one Options more.
LEMMA ApplySays ==
    ASSUME NEW s \in Seq(AllSettings), NEW t \in Seq(AllSettings),
           NEW c \in Caches, c.err = "nil" => CacheSays(s, c),
           NEW o \in Options, OptionsSay(t, Len(t), o), Apply(c, o).err = "nil"
    PROVE  CacheSays(s \o t, Apply(c, o))
<1> DEFINE d == Apply(c, o)  m == Merged(c, o)  u == s \o t
<1>1. c.err = "nil"
    BY ApplyIsMerge
<1>2. o.store # "invalid"
    <2>1. SUFFICES ASSUME o.store = "invalid" PROVE FALSE
        OBVIOUS
    <2>2. d = [c EXCEPT !.err = "invalid store"]
        BY <1>1, <2>1, ApplyIsMerge
    <2> QED
        BY <2>2 DEF Caches
<1>3. d = ApplyClock(m, o)
    BY <1>1, <1>2, ApplyIsMerge
<1>4. /\ m \in Caches /\ m.store = Given(o.store, c.store) /\ m.ttl = Given(o.ttl, c.ttl)
      /\ m.staleTTL = IF o.staleTTL # 0 THEN o.staleTTL ELSE c.staleTTL
      /\ m.clock = c.clock /\ m.tickerInterval = c.tickerInterval
    BY <1>2, MergedFields
<1> HIDE DEF m
<1>5. d.store = m.store /\ d.ttl = m.ttl /\ d.staleTTL = m.staleTTL
    BY <1>3, <1>4, ClockFields
<1>6. \A i \in 1..Len(t) : t[i] \in AllSettings /\ t[i].to \in Takes(t[i].with)
    <2>1. \A i \in 1..Len(t) : t[i] \in AllSettings
        OBVIOUS
    <2> QED
        BY <2>1, NamedSettings
<1> HIDE DEF d
<1>7. Tells(u, Len(u), "WithStore", None, d.store)
    <2>1. \A i \in 1..Len(t) : t[i].with = "WithStore" => t[i].to # None
        BY <1>6, NoneAssumption DEF Takes
    <2>2. d.store = IF o.store # None THEN o.store ELSE c.store
        BY <1>4, <1>5 DEF Given
    <2> QED
        BY <1>1, <2>1, <2>2, TellsBoth DEF CacheSays, OptionsSay, Names
<1>8. Tells(u, Len(u), "WithTTL", 0, d.ttl)
    <2>1. \A i \in 1..Len(t) : t[i].with = "WithTTL" => t[i].to # None
        BY <1>6, NoneAssumption DEF Takes
    <2>2. d.ttl = IF o.ttl # None THEN o.ttl ELSE c.ttl
        BY <1>4, <1>5 DEF Given
    <2> QED
        BY <1>1, <2>1, <2>2, TellsBoth DEF CacheSays, OptionsSay, Names
<1>9. ASSUME \A i \in 1..Len(u) : u[i] # Setting("WithStaleTTL", 0)
      PROVE  Tells(u, Len(u), "WithStaleTTL", 0, d.staleTTL)
    <2>0. /\ \A i \in 1..Len(s) : i \in 1..Len(u) /\ u[i] = s[i]
          /\ \A i \in 1..Len(t) : Len(s) + i \in 1..Len(u) /\ u[Len(s) + i] = t[i]
        BY Concatenation
    <2>1. \A i \in 1..Len(s) : s[i] # Setting("WithStaleTTL", 0)
        BY <1>9, <2>0
    <2>2. \A i \in 1..Len(t) : t[i] # Setting("WithStaleTTL", 0)
        BY <1>9, <2>0
    <2>3. ASSUME NEW i \in 1..Len(t), t[i].with = "WithStaleTTL"
          PROVE  t[i].to # 0
        <3>1. t[i] = [with |-> "WithStaleTTL", to |-> t[i].to]
            BY <1>6, <2>3, NamedSettings DEF With
        <3> QED
            BY <2>2, <3>1 DEF Setting
    <2>4. Tells(s, Len(s), "WithStaleTTL", 0, c.staleTTL)
        BY <1>1, <2>1 DEF CacheSays
    <2> QED
        BY <1>4, <1>5, <2>3, <2>4, TellsBoth DEF OptionsSay, Names
<1>10. \E z : LastIs(u, Len(u), Effective, z) /\ Clocked(z, d.clock, d.tickerInterval)
    <2>1. PICK x : LastIs(s, Len(s), Effective, x) /\ Clocked(x, m.clock, m.tickerInterval)
        BY <1>1, <1>4 DEF CacheSays
    <2>2. PICK y : LastIs(t, Len(t), Effective, y) /\ Clocked(y, o.clock, o.tickerInterval)
        BY DEF OptionsSay
    <2> QED
        BY <1>3, <1>4, <2>1, <2>2, ClockedBoth
<1>11. CacheSays(u, d)
    BY <1>7, <1>8, <1>9, <1>10 DEF CacheSays
<1> QED
    BY <1>11 DEF d

\* The cache merged from several Options says what the last settings of all of them say.
LEMMA MergeSays ==
    ASSUME NEW several, IsListOfOptions(several)
    PROVE  LET c == FoldLeft(Apply, Empty, [i \in DOMAIN several |-> Opts(several[i])])
           IN  /\ c \in Caches /\ FlattenSeq(several) \in Seq(AllSettings)
               /\ c.err = "nil" => CacheSays(FlattenSeq(several), c)
<1> DEFINE opts == [i \in DOMAIN several |-> Opts(several[i])]  n == Len(several)
<1>1. /\ IsSequence(opts) /\ Len(opts) = n /\ n \in Nat
      /\ \A i \in 1..n : opts[i] \in Options /\ opts[i] = Opts(several[i])
    BY OptsOfList DEF IsListOfOptions, IsSequence
<1> HIDE DEF opts
<1>2. PICK g \in [0..n -> Caches] :
          /\ g[0] = Empty /\ FoldLeft(Apply, Empty, opts) = g[n]
          /\ \A i \in 1..n : g[i] = Apply(g[i - 1], opts[i])
    <2> HIDE DEF n
    <2>1. \E g \in [0..Len(opts) -> Caches] :
              /\ g[0] = Empty /\ FoldLeft(Apply, Empty, opts) = g[Len(opts)]
              /\ \A i \in 1..Len(opts) : g[i] = Apply(g[i - 1], opts[i])
        BY <1>1, NewSteps
    <2> QED
        BY <1>1, <2>1
<1>3. PICK s \in [0..n -> Seq(AllSettings)] :
          /\ s[0] = << >> /\ FlattenSeq(several) = s[n]
          /\ \A i \in 1..n : several[i] \in Seq(AllSettings) /\ s[i] = s[i - 1] \o several[i]
    BY FlattenTurns
<1>4. \A i \in 1..n : OptionsSay(several[i], Len(several[i]), opts[i])
    <2> TAKE i \in 1..n
    <2>1. \A j \in 1..Len(several[i]) : IsSetting(several[i][j])
        BY DEF IsListOfOptions, IsSequence
    <2> QED
        BY <1>1, <1>3, <2>1, OptsSay
<1> DEFINE Done == {i \in 0..n : g[i].err = "nil" => CacheSays(s[i], g[i])}
<1> HIDE DEF n
<1>5. 0 \in Done
    <2>1. CacheSays(<< >>, Empty)
        <3>1. Len(<< >>) = 0
            OBVIOUS
        <3> QED
            BY <3>1, TellsFirst DEF CacheSays, Empty, Clocked
    <2> QED
        BY <1>1, <1>2, <1>3, <2>1
<1>6. ASSUME NEW i \in 1..n, i - 1 \in Done PROVE i \in Done
    <2>1. i - 1 \in 0..n /\ i \in 0..n /\ g[i - 1] \in Caches /\ s[i - 1] \in Seq(AllSettings)
        BY <1>1, <1>2, <1>3
    <2>2. g[i - 1].err = "nil" => CacheSays(s[i - 1], g[i - 1])
        BY <1>6
    <2>3. Apply(g[i - 1], opts[i]).err = "nil" =>
            CacheSays(s[i - 1] \o several[i], Apply(g[i - 1], opts[i]))
        BY <1>1, <1>3, <1>4, <2>1, <2>2, ApplySays
    <2> QED
        BY <1>2, <1>3, <2>1, <2>3
<1> HIDE DEF Done
<1>7. \A i \in 0..n : i \in Done
    BY <1>1, <1>5, <1>6, TurnByTurn
<1>8. n \in 0..n
    BY <1>1
<1> QED
    BY <1>2, <1>3, <1>7, <1>8 DEF Done, opts

\* For every list of Options, New obeys the last setting of each option (options.go:27-61,
\* direct_options.go:89-132).
LEMMA Obeys ==
    ASSUME NEW several, IsListOfOptions(several)
    PROVE  ObeysLastSetting(several)
<1> DEFINE opts == [i \in DOMAIN several |-> Opts(several[i])]
           c == FoldLeft(Apply, Empty, opts)
           d == New(opts)
           said == FlattenSeq(several)
           lastClock == LastOf(said, EffectiveClock)
<1>1. c \in Caches /\ said \in Seq(AllSettings) /\ (c.err = "nil" => CacheSays(said, c))
    BY MergeSays
<1> HIDE DEF opts, c, said, lastClock
<1>2. d = IF Verdict(c) = "nil" THEN TakesClock(c) ELSE [Empty EXCEPT !.err = Verdict(c)]
    BY DEF New, c
<1> HIDE DEF d
<1> SUFFICES ASSUME d.err = "nil"
             PROVE  /\ d.ttl = Says(said, "WithTTL", 0)
                    /\ d.store = Says(said, "WithStore", None)
                    /\ (\A i \in DOMAIN said : said[i] # Setting("WithStaleTTL", 0)) =>
                          d.staleTTL = Says(said, "WithStaleTTL", 0)
                    /\ d.clockOwned = (lastClock = None \/ lastClock.with = "WithTickerClock")
                    /\ d.clock = (IF d.clockOwned THEN "ticker" ELSE "given")
    BY DEF ObeysLastSetting, opts, d, said, lastClock
<1>3. Verdict(c) = "nil"
    BY <1>2 DEF Empty
<1>4. c.err = "nil"
    BY <1>3 DEF Verdict
<1>5. CacheSays(said, c) /\ DOMAIN said = 1..Len(said)
    BY <1>1, <1>4
<1>6. /\ d.ttl = c.ttl /\ d.store = c.store /\ d.staleTTL = c.staleTTL
      /\ d.clockOwned = (c.tickerInterval > 0 \/ c.clock = None)
      /\ d.clock = IF c.tickerInterval > 0 \/ c.clock = None THEN "ticker" ELSE c.clock
    BY <1>1, <1>2, <1>3 DEF TakesClock, Caches
<1>7. c.ttl = Says(said, "WithTTL", 0) /\ c.store = Says(said, "WithStore", None)
    BY <1>1, <1>5, TellsSays DEF CacheSays, Names
<1>8. (\A i \in DOMAIN said : said[i] # Setting("WithStaleTTL", 0)) =>
          c.staleTTL = Says(said, "WithStaleTTL", 0)
    BY <1>1, <1>5, TellsSays DEF CacheSays, Names
<1>9. PICK x : LastIs(said, Len(said), Effective, x) /\ Clocked(x, c.clock, c.tickerInterval)
    BY <1>5 DEF CacheSays
<1>10. lastClock = x
    BY <1>1, <1>9, LastClockIs DEF lastClock
<1>11. x # None => x.with \in {"WithClock", "WithTickerClock"}
    BY <1>9, EffectiveSettings DEF LastIs, Effective
<1>12. c.clock \in {None, "given"} /\ "given" # None
    BY <1>1, NoneAssumption DEF Caches
<1>13. /\ d.clockOwned = (lastClock = None \/ lastClock.with = "WithTickerClock")
       /\ d.clock = (IF d.clockOwned THEN "ticker" ELSE "given")
    <2>1. CASE x = None
        BY <1>6, <1>9, <1>10, <2>1 DEF Clocked
    <2>2. CASE x # None /\ x.with = "WithClock"
        <3>1. c.clock = "given" /\ c.tickerInterval = 0
            BY <1>9, <2>2 DEF Clocked
        <3>2. ~(c.tickerInterval > 0 \/ c.clock = None)
            BY <1>12, <3>1
        <3>3. d.clockOwned = FALSE /\ d.clock = "given"
            BY <1>6, <3>1, <3>2
        <3> QED
            BY <1>10, <2>2, <3>3
    <2>3. CASE x # None /\ x.with = "WithTickerClock"
        BY <1>6, <1>9, <1>10, <2>3 DEF Clocked
    <2> QED
        BY <1>11, <2>1, <2>2, <2>3
<1> QED
    BY <1>6, <1>7, <1>8, <1>13

------------------------------------------------------------------------------
(* The caches that serve *)

CONSTANTS CacheKeys, TTL, StaleTTL, NoExpiration, KeepStaleOnError, MaxClock,
          FreshValueStore, HasStore

\* The engine and its proofs, with these constants as its settings.
Fixed == INSTANCE CacheEngineProofs WITH Keys <- CacheKeys

\* The constants are the settings of the cache o with the keys K.
Fits(o, K) ==
    /\ K = CacheKeys
    /\ o.ttl = TTL /\ o.staleTTL = StaleTTL
    /\ o.noExpiration = NoExpiration
    /\ o.keepStaleOnError = KeepStaleOnError
    /\ FreshValueStore = (o.store = "fresh")
    /\ HasStore = (o.store # None)
    /\ MaxClock = Horizon(o, K)

\* What New accepts meets the assumptions of the engine about its settings.
LEMMA AssumptionsMet ==
    ASSUME NEW o, NEW K, Fits(o, K), WellMade(o), o.err = "nil", None \notin K
    PROVE  Fixed!FreshnessAssumption /\ Fixed!EngineAssumption
<1>1. Fixed!FreshnessAssumption
    BY DEF Fixed!FreshnessAssumption, Fits, WellMade, MeetsAssumptions
<1>2. Fixed!EngineAssumption
    <2>1. MaxClock \in Nat
        BY DEF Fits, Horizon, WellMade, MeetsAssumptions
    <2>2. {KeepStaleOnError, FreshValueStore, StoreFaults, Panics} \subseteq BOOLEAN
        BY CallsAssumption DEF Fits, WellMade
    <2>3. None \notin Fixed!Values /\ None \notin CacheKeys /\ Old \notin Calls
        BY CallsAssumption DEF Fits, Fixed!Values
    <2>4. None \notin Fixed!Entries(Fixed!Values) /\ None \notin Fixed!Results
        BY CallsAssumption DEF Engine!Entries, Fixed!Entries, Fixed!Values, Fixed!Results,
           Engine!Results, Engine!Values, Fixed!Errors, Engine!Errors
    <2>5. Ops \subseteq Fixed!AllOps
        BY CallsAssumption DEF Fixed!AllOps, Engine!AllOps
    <2> QED
        BY <2>1, <2>2, <2>3, <2>4, <2>5 DEF Fixed!EngineAssumption
<1> QED
    BY <1>1, <1>2

------------------------------------------------------------------------------
(* The engine of a cache, step by step, is the engine with its settings as    *)
(* constants                                                                  *)

\* The first step of a call.
LEMMA StartsAgree ==
    ASSUME NEW o, NEW K, Fits(o, K), NEW c \in Calls, Engine(o, K)!StartCall(c)
    PROVE  Fixed!StartCall(c)
<1>1. Engine(o, K)!StartLookup(c) => Fixed!StartLookup(c)
    BY DEF Fits, Engine!flightVars, Engine!GoTo, Engine!StartLookup,
        Fixed!flightVars, Fixed!GoTo, Fixed!StartLookup
<1>2. Engine(o, K)!StartSet(c) => Fixed!StartSet(c)
    BY DEF Fits, Engine!ZeroTime, Engine!NewEntry, Engine!GoTo, Engine!StartSet,
        Fixed!ZeroTime, Fixed!NewEntry, Fixed!GoTo, Fixed!StartSet
<1>3. Engine(o, K)!DeleteEntry(c) => Fixed!DeleteEntry(c)
    BY DEF Fits, Engine!flightVars, Engine!Return, Engine!Emit, Engine!DeleteEntry,
        Fixed!flightVars, Fixed!Return, Fixed!Emit, Fixed!DeleteEntry
<1>4. Engine(o, K)!ClearEntries(c) => Fixed!ClearEntries(c)
    BY DEF Fits, Engine!flightVars, Engine!Return, Engine!ClearEntries,
        Fixed!flightVars, Fixed!Return, Fixed!ClearEntries
<1>5. Engine(o, K)!RemovalFails(c) => Fixed!RemovalFails(c)
    BY DEF Fits, Engine!flightVars, Engine!Return, Engine!RemovalFails,
        Fixed!flightVars, Fixed!Return, Fixed!RemovalFails
<1> QED
    BY <1>1, <1>2, <1>3, <1>4, <1>5 DEF Fixed!StartCall, Engine!StartCall

\* The later steps of a call.
LEMMA CallsAgree ==
    ASSUME NEW o, NEW K, Fits(o, K), NEW c \in Calls, Engine(o, K)!CallStep(c)
    PROVE  Fixed!CallStep(c)
<1>1. Engine(o, K)!SetWrites(c) => Fixed!SetWrites(c)
    BY DEF Fits, Engine!flightVars, Engine!Return, Engine!Emit, Engine!SetWrites,
        Fixed!flightVars, Fixed!Return, Fixed!Emit, Fixed!SetWrites
<1>2. Engine(o, K)!PeekFresh(c) => Fixed!PeekFresh(c)
    BY DEF Fits, Engine!IsFresh, Engine!flightVars, Engine!Return, Engine!Emit,
        Engine!GoTo, Engine!Has, Engine!WaitsEarly, Engine!Hit,
        Engine!PeekFresh, Fixed!IsFresh, Fixed!flightVars, Fixed!Return,
        Fixed!Emit, Fixed!GoTo, Fixed!Has, Fixed!WaitsEarly, Fixed!Hit,
        Fixed!PeekFresh
<1>3. Engine(o, K)!WaitForFlight(c) => Fixed!WaitForFlight(c)
    BY DEF Fits, Engine!flightVars, Engine!GoTo, Engine!WaitForFlight,
        Fixed!flightVars, Fixed!GoTo, Fixed!WaitForFlight
<1>4. Engine(o, K)!PeekEntry(c) => Fixed!PeekEntry(c)
    BY DEF Fits, Engine!ZeroTime, Engine!IsFresh, Engine!IsStale, Engine!IsExpired,
        Engine!flightVars, Engine!Return, Engine!Emit, Engine!GoTo, Engine!Has,
        Engine!Hit, Engine!PeekEntry, Fixed!ZeroTime, Fixed!IsFresh,
        Fixed!IsStale, Fixed!IsExpired, Fixed!flightVars, Fixed!Return,
        Fixed!Emit, Fixed!GoTo, Fixed!Has, Fixed!Hit, Fixed!PeekEntry
<1>5. Engine(o, K)!LookupFails(c) => Fixed!LookupFails(c)
    BY DEF Fits, Engine!flightVars, Engine!Return, Engine!LookupFails,
        Fixed!flightVars, Fixed!Return, Fixed!LookupFails
<1>6. Engine(o, K)!WriteFails(c) => Fixed!WriteFails(c)
    BY DEF Fits, Engine!flightVars, Engine!Return, Engine!WriteFails,
        Fixed!flightVars, Fixed!Return, Fixed!WriteFails
<1>7. Engine(o, K)!Revalidate(c) => Fixed!Revalidate(c)
    BY DEF Fits, Engine!Return, Engine!Advance, Engine!Revalidate, Fixed!Return,
        Fixed!Advance, Fixed!Revalidate
<1>8. Engine(o, K)!Do(c) => Fixed!Do(c)
    BY DEF Fits, Engine!GoTo, Engine!Advance, Engine!Do, Fixed!GoTo, Fixed!Advance,
        Fixed!Do
<1>9. Engine(o, K)!Wait(c) => Fixed!Wait(c)
    BY DEF Fits, Engine!flightVars, Engine!Return, Engine!Emit, Engine!FallsBack,
        Engine!ReturnOutcome, Engine!Wait, Fixed!flightVars, Fixed!Return,
        Fixed!Emit, Fixed!FallsBack, Fixed!ReturnOutcome, Fixed!Wait
<1> QED
    BY <1>1, <1>2, <1>3, <1>4, <1>5, <1>6, <1>7, <1>8, <1>9 DEF Fixed!CallStep, Engine!CallStep

\* The steps of a flight.
LEMMA FlightsAgree ==
    ASSUME NEW o, NEW K, Fits(o, K), NEW c \in Calls, Engine(o, K)!FlightStep(c)
    PROVE  Fixed!FlightStep(c)
<1>1. Engine(o, K)!LeaderReadsClock(c) => Fixed!LeaderReadsClock(c)
    BY DEF Fits, Engine!callVars, Engine!Advance, Engine!LeaderReadsClock,
        Fixed!callVars, Fixed!Advance, Fixed!LeaderReadsClock
<1>2. Engine(o, K)!RecheckFresh(c) => Fixed!RecheckFresh(c)
    BY DEF Fits, Engine!IsFresh, Engine!callVars, Engine!Advance, Engine!Has,
        Engine!Finishing, Engine!Recheck, Engine!RecheckFresh, Fixed!IsFresh,
        Fixed!callVars, Fixed!Advance, Fixed!Has, Fixed!Finishing,
        Fixed!Recheck, Fixed!RecheckFresh
<1>3. Engine(o, K)!RecheckEntry(c) => Fixed!RecheckEntry(c)
    BY DEF Fits, Engine!IsFresh, Engine!callVars, Engine!Advance, Engine!Has,
        Engine!Finishing, Engine!Recheck, Engine!RecheckEntry, Fixed!IsFresh,
        Fixed!callVars, Fixed!Advance, Fixed!Has, Fixed!Finishing,
        Fixed!Recheck, Fixed!RecheckEntry
<1>4. Engine(o, K)!RefreshBegins(c) => Fixed!RefreshBegins(c)
    BY DEF Fits, Engine!callVars, Engine!Emit, Engine!Advance, Engine!RefreshBegins,
        Fixed!callVars, Fixed!Emit, Fixed!Advance, Fixed!RefreshBegins
<1>5. Engine(o, K)!ComputeSucceeds(c) => Fixed!ComputeSucceeds(c)
    BY DEF Fits, Engine!ZeroTime, Engine!NewEntry, Engine!callVars, Engine!Advance,
        Engine!ComputeSucceeds, Fixed!ZeroTime, Fixed!NewEntry, Fixed!callVars,
        Fixed!Advance, Fixed!ComputeSucceeds
<1>6. Engine(o, K)!ComputeFails(c) => Fixed!ComputeFails(c)
    BY DEF Fits, Engine!callVars, Engine!Emit, Engine!Advance, Engine!Finishing,
        Engine!IsRefresh, Engine!IfRefresh, Engine!ComputeFails, Fixed!callVars,
        Fixed!Emit, Fixed!Advance, Fixed!Finishing, Fixed!IsRefresh,
        Fixed!IfRefresh, Fixed!ComputeFails
<1>7. Engine(o, K)!ComputePanics(c) => Fixed!ComputePanics(c)
    BY DEF Fits, Engine!callVars, Engine!Advance, Engine!Finishing,
        Engine!IsRefresh, Engine!ComputePanics, Fixed!callVars, Fixed!Advance,
        Fixed!Finishing, Fixed!IsRefresh, Fixed!ComputePanics
<1>8. Engine(o, K)!FlightWrites(c) => Fixed!FlightWrites(c)
    BY DEF Fits, Engine!callVars, Engine!Emit, Engine!Advance, Engine!Finishing,
        Engine!IsRefresh, Engine!IfRefresh, Engine!FlightWrites, Fixed!callVars,
        Fixed!Emit, Fixed!Advance, Fixed!Finishing, Fixed!IsRefresh,
        Fixed!IfRefresh, Fixed!FlightWrites
<1>9. Engine(o, K)!FlightWriteFails(c) => Fixed!FlightWriteFails(c)
    BY DEF Fits, Engine!callVars, Engine!Emit, Engine!Advance, Engine!Finishing,
        Engine!IsRefresh, Engine!IfRefresh, Engine!FlightWriteFails,
        Fixed!callVars, Fixed!Emit, Fixed!Advance, Fixed!Finishing,
        Fixed!IsRefresh, Fixed!IfRefresh, Fixed!FlightWriteFails
<1>10. Engine(o, K)!FinishFlight(c) => Fixed!FinishFlight(c)
    BY DEF Fits, Engine!callVars, Engine!Advance, Engine!FinishFlight,
        Fixed!callVars, Fixed!Advance, Fixed!FinishFlight
<1>11. Engine(o, K)!ReleaseWaiters(c) => Fixed!ReleaseWaiters(c)
    BY DEF Fits, Engine!Return, Engine!Emit, Engine!Advance, Engine!FallsBack,
        Engine!ReturnOutcome, Engine!ReleaseWaiters, Fixed!Return, Fixed!Emit,
        Fixed!Advance, Fixed!FallsBack, Fixed!ReturnOutcome,
        Fixed!ReleaseWaiters
<1> QED
    BY <1>1, <1>2, <1>3, <1>4, <1>5, <1>6, <1>7, <1>8, <1>9, <1>10, <1>11 DEF
       Fixed!FlightStep, Engine!FlightStep

\* The first step of a call of a cache with Bypass.
LEMMA BypassedStartsAgree ==
    ASSUME NEW o, NEW K, Fits(o, K), NEW c \in Calls, Bypassed(o, K)!BypassStarts(c)
    PROVE  Fixed!BypassStarts(c)
<1>1. Bypassed(o, K)!LacksStore(c) => Fixed!LacksStore(c)
    BY DEF Fits, Bypassed!flightVars, Bypassed!Return, Bypassed!AnswerAtOnce,
        Bypassed!LacksStore, Fixed!flightVars, Fixed!Return, Fixed!AnswerAtOnce,
        Fixed!LacksStore
<1>2. Bypassed(o, K)!Refrains(c) => Fixed!Refrains(c)
    BY DEF Fits, Bypassed!flightVars, Bypassed!Return, Bypassed!AnswerAtOnce,
        Bypassed!Refrains, Fixed!flightVars, Fixed!Return, Fixed!AnswerAtOnce,
        Fixed!Refrains
<1>3. Bypassed(o, K)!Removes(c) => Fixed!Removes(c)
    BY DEF Fits, Bypassed!flightVars, Bypassed!Return, Bypassed!Emit,
        Bypassed!DeleteEntry, Bypassed!ClearEntries, Bypassed!RemovalFails,
        Bypassed!Removes, Fixed!flightVars, Fixed!Return, Fixed!Emit,
        Fixed!DeleteEntry, Fixed!ClearEntries, Fixed!RemovalFails,
        Fixed!Removes
<1>4. Bypassed(o, K)!StartBypassed(c) => Fixed!StartBypassed(c)
    BY DEF Fits, Bypassed!flightVars, Bypassed!Emit, Bypassed!GoTo,
        Bypassed!StartBypassed, Fixed!flightVars, Fixed!Emit, Fixed!GoTo,
        Fixed!StartBypassed
<1> QED
    BY <1>1, <1>2, <1>3, <1>4 DEF Fixed!BypassStarts, Bypassed!BypassStarts

\* Its second step: the computation.
LEMMA BypassedComputesAgree ==
    ASSUME NEW o, NEW K, Fits(o, K), NEW c \in Calls, Bypassed(o, K)!BypassComputes(c)
    PROVE  Fixed!BypassComputes(c)
    BY DEF Fits, Bypassed!flightVars, Bypassed!Return, Bypassed!BypassComputes,
        Fixed!flightVars, Fixed!Return, Fixed!BypassComputes

\* Time, removals by the store, and the end of all calls.
LEMMA EnvironmentAgrees ==
    ASSUME NEW o, NEW K, Fits(o, K)
    PROVE  /\ Engine(o, K)!Tick \/ Bypassed(o, K)!Tick => Fixed!Tick
           /\ Engine(o, K)!Quiescent \/ Bypassed(o, K)!Quiescent => Fixed!Quiescent
           /\ \A k \in K : Engine(o, K)!StoreDrops(k) \/ Bypassed(o, K)!StoreDrops(k) =>
                  k \in CacheKeys /\ Fixed!StoreDrops(k)
BY DEF Fits, Engine!Tick, Fixed!Tick, Bypassed!Tick,
   Engine!Quiescent, Fixed!Quiescent, Bypassed!Quiescent,
   Engine!StoreDrops, Fixed!StoreDrops, Bypassed!StoreDrops,
   Engine!Has, Fixed!Has, Bypassed!Has, Engine!vars, Fixed!vars, Bypassed!vars,
   Engine!callVars, Fixed!callVars, Bypassed!callVars,
   Engine!flightVars, Fixed!flightVars, Bypassed!flightVars

\* So every step of the engine of a cache is one of the engine with its constants.
LEMMA NextAgrees ==
    ASSUME NEW o, NEW K, Fits(o, K)
    PROVE  /\ Engine(o, K)!Next => Fixed!Next
           /\ Bypassed(o, K)!BypassNext => Fixed!BypassNext
<1>1. ASSUME NEW c \in Calls,
             \/ Engine(o, K)!StartCall(c) \/ Engine(o, K)!CallStep(c)
             \/ Engine(o, K)!FlightStep(c)
      PROVE  Fixed!Next
    BY <1>1, StartsAgree, CallsAgree, FlightsAgree DEF Fixed!Next
<1>2. ASSUME NEW c \in Calls,
             Bypassed(o, K)!BypassStarts(c) \/ Bypassed(o, K)!BypassComputes(c)
      PROVE  Fixed!BypassNext
    BY <1>2, BypassedStartsAgree, BypassedComputesAgree DEF Fixed!BypassNext
<1>3. Engine(o, K)!Next => Fixed!Next
    BY <1>1, EnvironmentAgrees DEF Engine!Next, Fixed!Next
<1>4. Bypassed(o, K)!BypassNext => Fixed!BypassNext
    BY <1>2, EnvironmentAgrees DEF Bypassed!BypassNext, Fixed!BypassNext
<1> QED
    BY <1>3, <1>4

------------------------------------------------------------------------------
(* What the engine keeps, the configured cache keeps *)

\* Where an engine starts depends on its settings only in what the store holds.
LEMMA EngineInitAgrees ==
    ASSUME NEW o, NEW K, Engine(o, K)!Init \/ Bypassed(o, K)!Init,
           K = CacheKeys, Fits(o, K) \/ \A k \in K : store[k] = None
    PROVE  Fixed!Init
BY DEF Fits, Engine!Init, Bypassed!Init, Fixed!Init, Engine!OldEntry, Bypassed!OldEntry,
   Fixed!OldEntry, Engine!NewEntry, Bypassed!NewEntry, Fixed!NewEntry,
   Engine!ZeroTime, Bypassed!ZeroTime, Fixed!ZeroTime

\* A cache that serves starts where its engine does.
LEMMA InitAgrees ==
    ASSUME Init, Fits(made, DOMAIN store), Serving
    PROVE  /\ Fixed!Init /\ None \notin CacheKeys
           /\ made.bypass => Fixed!BypassInit
<1>1. ASSUME NEW o, NEW K, Engine(o, K)!Init \/ Bypassed(o, K)!Init
      PROVE  DOMAIN store = K
    BY <1>1 DEF Engine!Init, Bypassed!Init
<1>2. CASE MakesWrapper
    <2>1. PICK f \in Functions : args \in [Calls -> f]
        BY <1>2 DEF MakesWrapper
    <2> DEFINE K == {KeyOf(args[x]) : x \in Calls}
    <2>2. store = [k \in K |-> None] /\ \E c \in {made}, L \in {K} : Engine(c, L)!Init
        BY <1>2 DEF MakesWrapper
    <2>3. None \notin K
        BY <2>1, CallsAssumption
    <2> HIDE DEF K
    <2>4. Fixed!Init
        BY <1>1, <2>2, EngineInitAgrees DEF Fits
    <2>5. None \notin CacheKeys /\ \A k \in CacheKeys : store[k] = None
        BY <2>2, <2>3 DEF Fits
    <2> QED
        BY <2>4, <2>5 DEF Fixed!BypassInit, Fixed!Has
<1>3. CASE MakesCache
    <2>0. None \notin Keys
        BY CallsAssumption
    <2>1. CASE made.err # "nil" \/ list \notin Served
        <3>1. Engine(Empty, Keys)!Init /\ store = [k \in Keys |-> None]
            BY <1>3, <2>1 DEF MakesCache
        <3>2. Keys = CacheKeys
            BY <3>1 DEF Fits
        <3>3. Fixed!Init
            BY <3>1, <3>2, EngineInitAgrees
        <3> QED
            BY <2>0, <3>1, <3>2, <3>3 DEF Fixed!BypassInit, Fixed!Has
    <2>2. CASE ~(made.err # "nil" \/ list \notin Served) /\ made.bypass
        <3>1. PICK c \in {made} : Bypassed(c, Keys)!BypassInit
            BY <1>3, <2>2 DEF MakesCache
        <3>2. Bypassed(c, Keys)!Init /\ DOMAIN store = Keys
            BY <1>1, <3>1 DEF Bypassed!BypassInit
        <3>3. Fixed!Init
            BY <3>2, EngineInitAgrees DEF Fits
        <3>4. HasStore \/ \A k \in CacheKeys : ~Fixed!Has(k)
            BY <3>1, <3>2 DEF Bypassed!BypassInit, Bypassed!Has, Fixed!Has, Fits
        <3> QED
            BY <2>0, <3>2, <3>3, <3>4 DEF Fixed!BypassInit, Fits
    <2>3. CASE ~(made.err # "nil" \/ list \notin Served) /\ ~made.bypass
        <3>1. PICK c \in {made} : Engine(c, Keys)!Init
            BY <1>3, <2>3 DEF MakesCache
        <3> QED
            BY <1>1, <2>0, <2>3, <3>1, EngineInitAgrees DEF Fits
    <2> QED
        BY <2>1, <2>2, <2>3
<1> QED
    BY <1>2, <1>3 DEF Init

\* The invariant: a cache that serves is in a state its engine is proved to stay in.
ConfigInv ==
    /\ WellMade(made)
    /\ Serving =>
          /\ Fits(made, DOMAIN store) /\ None \notin CacheKeys
          /\ IF made.bypass THEN Fixed!BypassInv ELSE Fixed!SoundInv

\* The invariant holds once New has returned.
LEMMA ConfigInit == Init /\ Fits(made, DOMAIN store) /\ WellMade(made) => ConfigInv
<1> SUFFICES ASSUME Init, Fits(made, DOMAIN store), WellMade(made), Serving
             PROVE  /\ None \notin CacheKeys
                    /\ IF made.bypass THEN Fixed!BypassInv ELSE Fixed!SoundInv
    BY DEF ConfigInv
<1>1. None \notin CacheKeys /\ Fixed!Init /\ (made.bypass => Fixed!BypassInit)
    BY InitAgrees
<1>2. Fixed!FreshnessAssumption /\ Fixed!EngineAssumption
    BY <1>1, AssumptionsMet DEF Serving, Fits
<1> QED
    BY <1>1, <1>2, Fixed!BypassInitially, Fixed!SoundInit

\* A ticker that steps back is a clock that does as it likes.
LEMMA ClockAgrees ==
    ASSUME ClockStepsBack, clock \in Nat
    PROVE  Fixed!ClockTurns
<1>1. clock > 1 /\ clock' = clock - 1
    BY DEF ClockStepsBack
<1>2. clock' \in Nat \ {0}
    BY <1>1
<1> QED
    BY <1>2 DEF ClockStepsBack, Fixed!ClockTurns, Fixed!callVars, Fixed!flightVars

\* What leaves the engine alone is no step of it.
LEMMA StutterAgrees == UNCHANGED engineVars => UNCHANGED Fixed!vars
BY DEF engineVars, Fixed!vars, Fixed!callVars, Fixed!flightVars

\* The invariant is kept by calls, flights, time, a clock that steps back, and Stop.
LEMMA ConfigStep == ConfigInv /\ [Next]_vars => ConfigInv'
<1> SUFFICES ASSUME ConfigInv, [Next]_vars PROVE ConfigInv'
    OBVIOUS
<1>1. UNCHANGED <<list, made, args>>
    BY DEF Next, EngineSteps, ClockStepsBack, Stop, NotServing, vars
<1>2. WellMade(made)' /\ Serving' = Serving
    BY <1>1 DEF ConfigInv, WellMade, MeetsAssumptions, Serving
<1> SUFFICES ASSUME Serving
             PROVE  /\ Fits(made, DOMAIN store)'
                    /\ IF made.bypass THEN Fixed!BypassInv' ELSE Fixed!SoundInv'
    BY <1>1, <1>2 DEF ConfigInv
<1>3. Fits(made, DOMAIN store) /\ None \notin CacheKeys
    BY DEF ConfigInv
<1>4. Fixed!FreshnessAssumption /\ Fixed!EngineAssumption
    BY <1>3, AssumptionsMet DEF Serving, Fits, ConfigInv
<1>5. \/ UNCHANGED Fixed!vars
      \/ Fixed!ClockTurns
      \/ ~made.bypass /\ Fixed!Next
      \/ made.bypass /\ Fixed!BypassNext
    <2>1. CASE EngineSteps
        BY <1>3, <2>1, NextAgrees DEF EngineSteps
    <2>2. CASE ClockStepsBack
        <3>1. clock \in Nat
            BY DEF ConfigInv, Fixed!BypassInv, Fixed!SoundInv, Fixed!EngineInv, Fixed!TypeOK,
               Fixed!SharedTypes
        <3> QED
            BY <2>2, <3>1, ClockAgrees
    <2>3. CASE Stop \/ NotServing \/ UNCHANGED vars
        BY <2>3, StutterAgrees DEF Stop, NotServing, vars
    <2> QED
        BY <2>1, <2>2, <2>3 DEF Next
<1>6. CASE made.bypass
    <2>1. Fixed!BypassInv'
        BY <1>4, <1>5, <1>6, Fixed!BypassStep DEF ConfigInv
    <2>2. DOMAIN store' = CacheKeys
        BY <2>1 DEF Fixed!BypassInv
    <2> QED
        BY <1>1, <1>3, <1>6, <2>1, <2>2 DEF Fits, Horizon
<1>7. CASE ~made.bypass
    <2>1. Fixed!SoundInv'
        BY <1>4, <1>5, <1>7, Fixed!SoundStep DEF ConfigInv
    <2>2. DOMAIN store' = CacheKeys
        BY <2>1 DEF Fixed!SoundInv, Fixed!EngineInv, Fixed!TypeOK, Fixed!SharedTypes
    <2> QED
        BY <1>1, <1>3, <1>7, <2>1, <2>2 DEF Fits, Horizon
<1> QED
    BY <1>6, <1>7

\* The invariant of the engine is the same for the cache and the constants.
LEMMA InvariantAgrees ==
    ASSUME NEW o, NEW K, Fits(o, K), Fixed!EngineInv
    PROVE  Engine(o, K)!EngineInv
<1>1. Fixed!TypeOK => Engine(o, K)!TypeOK
    BY DEF Fits, Engine!Entries, Engine!AllOps, Engine!Values, Engine!Errors,
        Engine!Results, Engine!CallPCs, Engine!Stages, Engine!Kinds,
        Engine!SharedTypes, Engine!CallTypes, Engine!FlightTypes, Engine!TypeOK,
        Fixed!Entries, Fixed!AllOps, Fixed!Values, Fixed!Errors, Fixed!Results,
        Fixed!CallPCs, Fixed!Stages, Fixed!Kinds, Fixed!SharedTypes,
        Fixed!CallTypes, Fixed!FlightTypes, Fixed!TypeOK
<1>2. Fixed!FlightMapExact => Engine(o, K)!FlightMapExact
    BY DEF Fits, Engine!Registered, Engine!FlightMapExact, Fixed!Registered,
        Fixed!FlightMapExact
<1>3. Fixed!CallsMatchFlights => Engine(o, K)!CallsMatchFlights
    BY DEF Fits, Engine!MatchesFlight, Engine!CallsMatchFlights,
        Fixed!MatchesFlight, Fixed!CallsMatchFlights
<1>4. Fixed!StampsCarryTheirCall => Engine(o, K)!StampsCarryTheirCall
    BY DEF Fits, Engine!StampsCarryTheirCall, Fixed!StampsCarryTheirCall
<1>5. Fixed!LeaderNeverRecomputesFresh => Engine(o, K)!LeaderNeverRecomputesFresh
    BY DEF Fits, Engine!IsFresh, Engine!Has, Engine!SetByCaller,
        Engine!RecomputeJustified, Engine!LeaderNeverRecomputesFresh,
        Fixed!IsFresh, Fixed!Has, Fixed!SetByCaller, Fixed!RecomputeJustified,
        Fixed!LeaderNeverRecomputesFresh
<1> QED
    BY <1>1, <1>2, <1>3, <1>4, <1>5 DEF Fixed!EngineInv, Engine!EngineInv

\* So are its properties.
LEMMA PropertiesAgree ==
    ASSUME NEW o, NEW K, Fits(o, K)
    PROVE  /\ Fixed!ServedValueIsJustified => Engine(o, K)!ServedValueIsJustified
           /\ Fixed!MetricsAddUp => Engine(o, K)!MetricsAddUp
           /\ Fixed!BypassAlwaysComputes => Bypassed(o, K)!BypassAlwaysComputes
<1>1. Fixed!ServedValueIsJustified => Engine(o, K)!ServedValueIsJustified
    <2>1. ASSUME NEW e, NEW t
          PROVE  /\ Engine(o, K)!IsFresh(e, t) <=> Fixed!IsFresh(e, t)
                 /\ Engine(o, K)!IsExpired(e, t) <=> Fixed!IsExpired(e, t)
        BY DEF Engine!IsFresh, Fixed!IsFresh, Engine!IsExpired, Fixed!IsExpired,
           Engine!IsStale, Fixed!IsStale, Engine!ZeroTime, Fixed!ZeroTime
    <2>2. ASSUME NEW v PROVE Engine(o, K)!EntryOf(v) = Fixed!EntryOf(v)
        BY DEF Fits, Engine!EntryOf, Fixed!EntryOf, Engine!OldEntry, Fixed!OldEntry,
           Engine!NewEntry, Fixed!NewEntry, Engine!ZeroTime, Fixed!ZeroTime
    <2>3. ASSUME NEW f, NEW e
          PROVE  Engine(o, K)!FreshToLeader(f, e) <=> Fixed!FreshToLeader(f, e)
        BY <2>1 DEF Engine!FreshToLeader, Fixed!FreshToLeader
    <2>4. ASSUME NEW c, NEW v, Fixed!Justified(c, v)
          PROVE  Engine(o, K)!Justified(c, v)
        BY <2>1, <2>2, <2>3, <2>4 DEF Fits, Engine!Justified, Fixed!Justified
    <2> QED
        BY <2>4 DEF Engine!ServedValueIsJustified, Fixed!ServedValueIsJustified
<1>2. Fixed!MetricsAddUp => Engine(o, K)!MetricsAddUp
    <2>1. ASSUME NEW S PROVE Engine(o, K)!Cardinality(S) = Fixed!Cardinality(S)
        BY DEF Engine!Cardinality, Fixed!Cardinality
    <2> QED
        BY <2>1 DEF Fits, Engine!WaitsEarly, Engine!Lookups, Engine!MetricsAddUp,
           Fixed!WaitsEarly, Fixed!Lookups, Fixed!MetricsAddUp
<1>3. Fixed!BypassAlwaysComputes => Bypassed(o, K)!BypassAlwaysComputes
    BY DEF Fits, Bypassed!ZeroTime, Bypassed!NewEntry, Bypassed!OldEntry,
        Bypassed!BypassAlwaysComputes, Fixed!ZeroTime, Fixed!NewEntry,
        Fixed!OldEntry, Fixed!BypassAlwaysComputes
<1> QED
    BY <1>1, <1>2, <1>3

\* What the invariant says to callers.
LEMMA ConfigSays ==
    ConfigInv => ServedValueIsJustified /\ EngineStaysSound /\ BypassAlwaysComputes
<1> SUFFICES ASSUME ConfigInv
             PROVE  ServedValueIsJustified /\ EngineStaysSound /\ BypassAlwaysComputes
    OBVIOUS
<1>1. MeetsAssumptions(made)
    BY DEF ConfigInv, WellMade
<1> SUFFICES ASSUME Serving
             PROVE  ServedValueIsJustified /\ EngineStaysSound /\ BypassAlwaysComputes
    BY <1>1 DEF ServedValueIsJustified, EngineStaysSound, BypassAlwaysComputes
<1> DEFINE K == DOMAIN store
<1>2. Fits(made, K) /\ None \notin CacheKeys
    BY DEF ConfigInv
<1>3. Fixed!FreshnessAssumption /\ Fixed!EngineAssumption
    BY <1>2, AssumptionsMet DEF Serving, Fits, ConfigInv
<1>4. CASE made.bypass
    <2>1. Fixed!BypassAlwaysComputes /\ Fixed!ServedValueIsJustified /\ Fixed!MetricsAddUp
        BY <1>3, <1>4, Fixed!BypassAnswers DEF ConfigInv
    <2>2. \A c \in {made}, L \in {K} :
             /\ Bypassed(c, L)!BypassAlwaysComputes
             /\ Engine(c, L)!ServedValueIsJustified /\ Engine(c, L)!MetricsAddUp
        BY <1>2, <2>1, PropertiesAgree
    <2> QED
        BY <1>1, <1>4, <2>2 DEF ServedValueIsJustified, EngineStaysSound, BypassAlwaysComputes
<1>5. CASE ~made.bypass
    <2>1. Fixed!EngineInv /\ Fixed!ServedValueIsJustified /\ Fixed!MetricsAddUp
        BY <1>3, <1>5, Fixed!SoundAnswers DEF ConfigInv
    <2>2. \A c \in {made}, L \in {K} :
             /\ Engine(c, L)!EngineInv
             /\ Engine(c, L)!ServedValueIsJustified /\ Engine(c, L)!MetricsAddUp
        BY <1>2, <2>1, PropertiesAgree, InvariantAgrees
    <2> QED
        BY <1>1, <1>5, <2>2 DEF ServedValueIsJustified, EngineStaysSound, BypassAlwaysComputes
<1> QED
    BY <1>4, <1>5

------------------------------------------------------------------------------
(* The caches of callers and of memoized functions *)

\* Whatever New or Memoize makes of the options it is given meets the assumptions of the
\* engine and obeys the last setting of each option.
LEMMA MadeWell == Init => WellMade(made) /\ ObeysLastSetting(list)
<1> SUFFICES ASSUME Init PROVE WellMade(made) /\ ObeysLastSetting(list)
    OBVIOUS
<1>1. IsListOfOptions(list)
    BY ListsAssumption DEF Init, MakesCache, MakesWrapper
<1>2. ASSUME MakesCache PROVE WellMade(made)
    BY <1>1, <1>2, ListMeets DEF MakesCache
<1>3. ASSUME MakesWrapper PROVE WellMade(made)
    <2>1. list # << >> /\ made = NewDirect(Opts(list[1]))
        BY <1>3, ListsAssumption DEF MakesWrapper
    <2>2. 1 \in DOMAIN list
        BY <1>1, <2>1 DEF IsListOfOptions, IsSequence
    <2>3. Opts(list[1]) \in Options
        BY <1>1, <2>2, OptsTypes DEF IsListOfOptions, IsSequence
    <2> QED
        BY <2>1, <2>3, DirectMeets
<1> QED
    BY <1>1, <1>2, <1>3, Obeys DEF Init

\* A cache that serves, with whatever settings, stays in a state its engine is proved to
\* stay in, on a clock that may step back and that Stop may end (options.go:27-71).
THEOREM ConfigInvariant == Spec /\ Fits(made, DOMAIN store) => []ConfigInv
<1>1. Init /\ Fits(made, DOMAIN store) => ConfigInv
    BY MadeWell, ConfigInit
<1> QED
    BY <1>1, ConfigStep, PTL DEF Spec

\* Every value that a configured cache hands out is justified by the times its call has
\* read, and New makes no cache whose settings the engine could not work with
\* (options.go:27-71, cache.go:121-340).
THEOREM ConfiguredIsJustified == Spec /\ Fits(made, DOMAIN store) => []ServedValueIsJustified
BY ConfigInvariant, ConfigSays, PTL

\* The invariant of the engine and its count of metric events hold of every configured
\* cache, whatever its clock does (options.go:53-71).
THEOREM ConfiguredStaysSound == Spec /\ Fits(made, DOMAIN store) => []EngineStaysSound
BY ConfigInvariant, ConfigSays, PTL

\* A cache made with Bypass always computes, never stores and never shares, with a store
\* or without one (docs/API.md:160, cache.go:274-282).
THEOREM ConfiguredBypass == Spec /\ Fits(made, DOMAIN store) => []BypassAlwaysComputes
BY ConfigInvariant, ConfigSays, PTL

\* Of each option of a cache the last setting counts, for all lists of Options of any
\* number of settings (direct_options.go:24-132, options.go:53-59).
THEOREM LastSettingCounts == Spec => []ObeysSettings
<1>1. Init => ObeysLastSetting(list)
    BY MadeWell
<1>2. ObeysLastSetting(list) /\ [Next]_vars => ObeysLastSetting(list)'
    <2> SUFFICES ASSUME ObeysLastSetting(list), [Next]_vars PROVE ObeysLastSetting(list')
        OBVIOUS
    <2>1. list' = list
        BY DEF Next, EngineSteps, ClockStepsBack, Stop, NotServing, vars
    <2> QED
        BY <2>1
<1>3. ObeysLastSetting(list) => ObeysSettings
    BY DEF ObeysSettings
<1> QED
    BY <1>1, <1>2, <1>3, PTL DEF Spec

\* A function is never called with two lists of arguments that have one key.
KeysSeparate == \A f \in Functions : \A a, b \in f : KeyOf(a) = KeyOf(b) => a = b

\* Each call of a memoized function has the key of its arguments.
ArgsInv ==
    args # None =>
        /\ \E f \in Functions : args \in [Calls -> f]
        /\ key = [x \in Calls |-> KeyOf(args[x])]
        /\ ~Serving => \A x \in Calls : pc[x] = "new"

\* Memoize starts with the keys of the arguments.
LEMMA ArgsInit == Init => ArgsInv
<1> SUFFICES ASSUME Init, args # None PROVE ArgsInv
    BY DEF ArgsInv
<1>1. MakesWrapper
    BY DEF Init, MakesCache
<1>2. pc = [x \in Calls |-> "new"]
    BY <1>1 DEF MakesWrapper, Engine!Init
<1> QED
    BY <1>1, <1>2 DEF ArgsInv, MakesWrapper

\* Calls keep their arguments and their keys.
LEMMA ArgsStep == ConfigInv /\ ArgsInv /\ [Next]_vars => ArgsInv'
<1> SUFFICES ASSUME ConfigInv, ArgsInv, [Next]_vars, args' # None PROVE ArgsInv'
    BY DEF ArgsInv
<1>1. UNCHANGED <<list, made, args>> /\ Serving' = Serving
    BY DEF Next, EngineSteps, ClockStepsBack, Stop, NotServing, vars, Serving
<1>2. key' = key
    <2>1. CASE EngineSteps
        <3>1. Fits(made, DOMAIN store)
            BY <2>1 DEF ConfigInv, EngineSteps
        <3>2. Fixed!Next \/ Fixed!BypassNext
            BY <2>1, <3>1, NextAgrees DEF EngineSteps
        <3>3. Fixed!FreshnessAssumption /\ Fixed!EngineAssumption
            BY <2>1, AssumptionsMet DEF EngineSteps, Serving, Fits, ConfigInv
        <3> QED
            BY <3>2, <3>3, Fixed!KeysStay
    <2>2. CASE ClockStepsBack \/ Stop \/ NotServing \/ UNCHANGED vars
        BY <2>2 DEF ClockStepsBack, Stop, NotServing, vars, engineVars
    <2> QED
        BY <2>1, <2>2 DEF Next
<1>3. ~Serving => pc' = pc
    BY DEF Next, EngineSteps, ClockStepsBack, Stop, OwnsClock, NotServing, vars, engineVars
<1> QED
    BY <1>1, <1>2, <1>3 DEF ArgsInv

\* An answer of a flight with the key of the call is the value for its arguments.
LEMMA OwnArguments == ConfigInv /\ ArgsInv /\ KeysSeparate => AnswersOwnArguments
<1> SUFFICES ASSUME ConfigInv, ArgsInv, KeysSeparate, args # None,
                    NEW x \in Calls, pc[x] = "returned", Plain(x) \in Calls
             PROVE  args[Plain(x)] = args[x]
    BY DEF AnswersOwnArguments
<1>1. Serving
    BY DEF ArgsInv
<1>2. result[x].err = "nil" /\ Plain(x) = result[x].value /\ Plain(x) # None /\ Plain(x) # Old
    BY CallsAssumption DEF Plain
<1>3. Fits(made, DOMAIN store) /\ None \notin CacheKeys
    BY <1>1 DEF ConfigInv
<1>4. Fixed!FreshnessAssumption /\ Fixed!EngineAssumption
    BY <1>1, <1>3, AssumptionsMet DEF Serving, Fits, ConfigInv
<1>5. Fixed!ServedValueIsJustified
    BY <1>1, <1>4, Fixed!BypassAnswers, Fixed!SoundAnswers DEF ConfigInv
<1>6. key[Plain(x)] = key[x]
    BY <1>2, <1>5 DEF Fixed!ServedValueIsJustified
<1>7. PICK f \in Functions : args \in [Calls -> f]
    BY DEF ArgsInv
<1>8. KeyOf(args[Plain(x)]) = KeyOf(args[x])
    BY <1>6 DEF ArgsInv
<1> QED
    BY <1>7, <1>8 DEF KeysSeparate

\* A memoized function answers with what the wrapped function returns for the same
\* arguments, provided that their keys tell them apart (memoize.go:6-235).  Without that
\* it does not: hashBool and adjacent strings do not tell all arguments apart.
THEOREM MemoizedAnswers ==
    Spec /\ Fits(made, DOMAIN store) /\ KeysSeparate => []AnswersOwnArguments
<1>1. Init /\ Fits(made, DOMAIN store) => ConfigInv
    BY MadeWell, ConfigInit
<1>2. KeysSeparate => KeysSeparate'
    BY DEF KeysSeparate
<1> QED
    BY <1>1, <1>2, ConfigStep, ArgsInit, ArgsStep, OwnArguments, PTL DEF Spec

------------------------------------------------------------------------------
(* Keys that tell arguments apart *)

\* The hash h is the hash h0 with the first n numbers of s mixed in.
Mixed(h, h0, s, n) ==
    /\ h \in Hashes /\ h.from = h0.from
    /\ Len(h.mixed) = Len(h0.mixed) + n
    /\ \A i \in 1..Len(h0.mixed) : h.mixed[i] = h0.mixed[i]
    /\ \A i \in 1..n : h.mixed[Len(h0.mixed) + i] = s[i]

\* One number mixed in.
LEMMA MixOne ==
    ASSUME NEW h \in Hashes, NEW x \in Nat
    PROVE  Mix(h, x) \in Hashes /\ Mixed(Mix(h, x), h, <<x>>, 1)
<1> DEFINE m == h.mixed  l == Len(m)
<1>1. m \in Seq(Nat) /\ l \in Nat
    BY DEF Hashes
<1>2. Mix(h, x) = [h EXCEPT !.mixed = Append(m, x)]
    BY DEF Mix
<1>3. Mix(h, x) \in Hashes /\ Mix(h, x).from = h.from /\ Mix(h, x).mixed = Append(m, x)
    <2> HIDE DEF m
    <2>1. Append(m, x) \in Seq(Nat)
        BY <1>1
    <2> QED
        BY <1>2, <2>1 DEF Hashes
<1> HIDE DEF m
<1>4. /\ Len(Append(m, x)) = l + 1 /\ Append(m, x)[l + 1] = x
      /\ \A i \in 1..l : Append(m, x)[i] = m[i]
    BY <1>1
<1>5. \A i \in 1..1 : i = 1 /\ <<x>>[i] = x
    OBVIOUS
<1> QED
    BY <1>3, <1>4, <1>5 DEF Mixed, m

\* Numbers mixed in after others.
LEMMA MixedMore ==
    ASSUME NEW h0 \in Hashes, NEW h \in Hashes, NEW s, NEW n \in Nat, Mixed(h, h0, s, n),
           NEW g, NEW t, NEW k \in Nat, Mixed(g, h, t, k), NEW u,
           \A i \in 1..n : u[i] = s[i], \A i \in 1..k : u[n + i] = t[i]
    PROVE  Mixed(g, h0, u, n + k)
<1>0. Len(h0.mixed) \in Nat /\ Len(h.mixed) \in Nat
    BY DEF Hashes
<1> DEFINE l == Len(h0.mixed)
<1>1. /\ g \in Hashes /\ g.from = h0.from /\ Len(h.mixed) = l + n /\ Len(g.mixed) = l + n + k
      /\ \A i \in 1..(l + n) : g.mixed[i] = h.mixed[i]
      /\ \A i \in 1..k : g.mixed[l + n + i] = t[i]
      /\ \A i \in 1..l : h.mixed[i] = h0.mixed[i]
      /\ \A i \in 1..n : h.mixed[l + i] = s[i]
    BY DEF Mixed
<1> HIDE DEF l
<1>2. l \in Nat /\ Len(g.mixed) = l + (n + k)
    BY <1>0, <1>1 DEF l
<1>3. \A i \in 1..l : g.mixed[i] = h0.mixed[i]
    BY <1>1, <1>2
<1>4. ASSUME NEW i \in 1..(n + k) PROVE g.mixed[l + i] = u[i]
    <2>1. CASE i <= n
        <3>1. i \in 1..n /\ l + i \in 1..(l + n)
            BY <1>2, <2>1
        <3> QED
            BY <1>1, <3>1
    <2>2. CASE ~(i <= n)
        <3>1. i - n \in 1..k /\ l + i = l + n + (i - n) /\ n + (i - n) = i
            BY <1>2, <2>2
        <3> QED
            BY <1>1, <3>1
    <2> QED
        BY <2>1, <2>2
<1> QED
    BY <1>1, <1>2, <1>3, <1>4 DEF Mixed, l

\* All numbers of a sequence mixed in.
LEMMA MixAllMixes ==
    ASSUME NEW h0 \in Hashes, NEW s \in Seq(Nat)
    PROVE  Mixed(MixAll(h0, s), h0, s, Len(s))
<1> DEFINE n == Len(s)
           f == [p \in Hashes \X (1..n) |-> Mix(p[1], s[p[2]])]
<1>0. n \in Nat /\ DOMAIN s = 1..n /\ \A i \in 1..n : s[i] \in Nat
    OBVIOUS
<1>2. f \in [Hashes \X (1..n) -> Hashes]
    BY <1>0, MixOne
<1>3. \A h \in Hashes, i \in 1..n : f[<<h, i>>] = Mix(h, s[i])
    OBVIOUS
<1> HIDE DEF f
<1>4. PICK h \in [SUBSET (1..n) -> Hashes] : Folds(h, n, h0, f)
    BY <1>0, <1>2, FoldExists
<1> DEFINE Does(F) == F = [t \in SUBSET (1..n) |->
                IF t = {} THEN h0 ELSE Mix(F[t \ {Max(t)}], s[Max(t)])]
           H == CHOOSE F : Does(F)
<1>5. Does(h)
    <2>1. ASSUME NEW t \in SUBSET (1..n), t # {}
          PROVE  f[<<h[t \ {Max(t)}], Max(t)>>] = Mix(h[t \ {Max(t)}], s[Max(t)])
        BY <1>0, <1>3, <2>1, MaxIsMember
    <2> QED
        BY <1>4, <2>1 DEF Folds
<1>6. MixAll(h0, s) = H[1..n] /\ Does(H)
    <2>1. Does(H)
        BY <1>5
    <2>2. MixAll(h0, s) = H[1..n]
        BY <1>0 DEF MixAll, FoldLeft, MapThenFoldSet
    <2> QED
        BY <2>1, <2>2
<1> HIDE DEF H
<1>7. H[{}] = h0
    BY <1>6
<1>8. ASSUME NEW t \in SUBSET (1..n), t # {}, H[t \ {Max(t)}] \in Hashes
      PROVE  H[t] = f[<<H[t \ {Max(t)}], Max(t)>>]
    BY <1>0, <1>3, <1>6, <1>8, MaxIsMember
<1>9. FoldsIn(Hashes, H, n, h0, f)
    BY <1>2, <1>7, <1>8 DEF FoldsIn
<1> HIDE DEF n, Does
<1>10. PICK g \in [0..n -> Hashes] :
          g[0] = h0 /\ g[n] = H[1..n] /\ \A i \in 1..n : g[i] = f[<<g[i - 1], i>>]
    BY <1>0, <1>9, FoldTurns
<1> DEFINE Done == {i \in 0..n : Mixed(g[i], h0, s, i)}
<1>11. 0 \in Done
    <2>1. Len(h0.mixed) \in Nat
        BY DEF Hashes
    <2>2. Mixed(h0, h0, s, 0)
        BY <2>1 DEF Mixed
    <2> QED
        BY <1>0, <1>10, <2>2
<1>12. ASSUME NEW i \in 1..n, i - 1 \in Done PROVE i \in Done
    <2>1. i - 1 \in 0..n /\ i - 1 \in Nat /\ i \in 0..n /\ g[i - 1] \in Hashes /\ s[i] \in Nat
          /\ (i - 1) + 1 = i
        BY <1>0, <1>10
    <2>2. g[i] = Mix(g[i - 1], s[i])
        BY <1>3, <1>10, <2>1
    <2>3. Mixed(g[i], g[i - 1], <<s[i]>>, 1)
        BY <2>1, <2>2, MixOne
    <2>4. Mixed(g[i - 1], h0, s, i - 1)
        BY <1>12
    <2>5. \A j \in 1..1 : s[(i - 1) + j] = <<s[i]>>[j]
        BY <2>1
    <2>6. Mixed(g[i], h0, s, (i - 1) + 1)
        BY <2>1, <2>3, <2>4, <2>5, MixedMore
    <2> QED
        BY <2>1, <2>6
<1> HIDE DEF Done
<1>13. \A i \in 0..n : i \in Done
    BY <1>0, <1>11, <1>12, TurnByTurn
<1>14. n \in 0..n
    BY <1>0
<1> QED
    BY <1>6, <1>10, <1>13, <1>14 DEF Done, n

\* hashString mixes in all characters in their order: the unrolled loop and the rest.
LEMMA StringMixes ==
    ASSUME NEW h \in Hashes, NEW s \in Seq(Nat)
    PROVE  Mixed(hashString(h, s), h, s, Len(s))
<1> DEFINE n == Len(s)  body == (n \div 4) * 4
           t == SubSeq(s, 1, body)  u == SubSeq(s, body + 1, n)
           g == MixAll(h, t)
<1>1. n \in Nat /\ body \in Nat /\ body <= n
    <2>1. n \in Nat
        OBVIOUS
    <2> QED
        BY <2>1
<1> HIDE DEF body
<1>2. /\ t \in Seq(Nat) /\ Len(t) = body /\ \A i \in 1..body : t[i] = s[i]
      /\ u \in Seq(Nat) /\ Len(u) = n - body /\ \A i \in 1..(n - body) : u[i] = s[body + i]
    BY <1>1
<1> HIDE DEF n, t, u
<1>3. Mixed(g, h, t, body)
    BY <1>2, MixAllMixes
<1>4. g \in Hashes
    BY <1>3 DEF Mixed
<1>5. Mixed(MixAll(g, u), g, u, n - body)
    BY <1>2, <1>4, MixAllMixes
<1>8. n - body \in Nat
    BY <1>1
<1>6. Mixed(MixAll(g, u), h, s, body + (n - body))
    <2> DEFINE k == n - body  w == MixAll(g, u)
    <2>1. k \in Nat /\ Mixed(w, g, u, k) /\ \A i \in 1..k : s[body + i] = u[i]
        BY <1>2, <1>5, <1>8
    <2>2. \A i \in 1..body : s[i] = t[i]
        BY <1>2
    <2> HIDE DEF g, k, w
    <2>3. Mixed(w, h, s, body + k)
        BY <1>1, <1>3, <1>4, <2>1, <2>2, MixedMore
    <2> QED
        BY <2>3 DEF k, w
<1>7. body + (n - body) = n
    BY <1>1
<1> QED
    BY <1>6, <1>7 DEF hashString, n, body, t, u

\* An argument that is a number or a string, and what it mixes in.
Argument(a) == a \in [type : {"number"}, value : Nat] \cup [type : {"string"}, value : Seq(Nat)]
Words(a) == IF a.type = "number" THEN <<a.value>> ELSE a.value

\* What a number or a string mixes in.
LEMMA ArgumentMixes ==
    ASSUME NEW h \in Hashes, NEW a, Argument(a)
    PROVE  /\ Len(Words(a)) \in Nat /\ hash(h, a) \in Hashes
           /\ Mixed(hash(h, a), h, Words(a), Len(Words(a)))
<1>1. CASE a \in [type : {"number"}, value : Nat]
    <2>1. hash(h, a) = Mix(h, a.value) /\ Words(a) = <<a.value>> /\ a.value \in Nat
        BY <1>1 DEF hash, Words
    <2>2. Len(<<a.value>>) = 1
        OBVIOUS
    <2> QED
        BY <2>1, <2>2, MixOne
<1>2. CASE a \in [type : {"string"}, value : Seq(Nat)]
    <2>1. hash(h, a) = hashString(h, a.value) /\ Words(a) = a.value /\ a.value \in Seq(Nat)
        BY <1>2 DEF hash, Words
    <2>2. Len(a.value) \in Nat
        BY <2>1
    <2>3. Mixed(hashString(h, a.value), h, a.value, Len(a.value))
        BY <2>1, StringMixes
    <2> QED
        BY <2>1, <2>2, <2>3 DEF Mixed
<1> QED
    BY <1>1, <1>2 DEF Argument

\* hash1 to hash7, argument by argument.
LEMMA HashSteps ==
    ASSUME NEW a, IsSequence(a), \A i \in 1..Len(a) : Argument(a[i])
    PROVE  \E g \in [0..Len(a) -> Hashes] :
              /\ g[0] = offset64 /\ HashArguments(a) = g[Len(a)]
              /\ \A i \in 1..Len(a) : g[i] = hash(g[i - 1], a[i])
<1> DEFINE n == Len(a)
           f == [p \in Hashes \X (1..n) |-> hash(p[1], a[p[2]])]
<1>0. n \in Nat /\ DOMAIN a = 1..n
    BY DEF IsSequence
<1>1. offset64 \in Hashes
    <2>1. << >> \in Seq(Nat)
        OBVIOUS
    <2> QED
        BY <2>1 DEF offset64, Hashes
<1>2. f \in [Hashes \X (1..n) -> Hashes]
    BY ArgumentMixes
<1>3. \A h \in Hashes, i \in 1..n : f[<<h, i>>] = hash(h, a[i])
    OBVIOUS
<1> HIDE DEF f
<1>4. PICK h \in [SUBSET (1..n) -> Hashes] : Folds(h, n, offset64, f)
    BY <1>0, <1>1, <1>2, FoldExists
<1> DEFINE Does(F) == F = [t \in SUBSET (1..n) |->
                IF t = {} THEN offset64 ELSE hash(F[t \ {Max(t)}], a[Max(t)])]
           H == CHOOSE F : Does(F)
<1>5. Does(h)
    <2>1. ASSUME NEW t \in SUBSET (1..n), t # {}
          PROVE  f[<<h[t \ {Max(t)}], Max(t)>>] = hash(h[t \ {Max(t)}], a[Max(t)])
        BY <1>0, <1>3, <2>1, MaxIsMember
    <2> QED
        BY <1>4, <2>1 DEF Folds
<1>6. HashArguments(a) = H[1..n] /\ Does(H)
    <2>1. Does(H)
        BY <1>5
    <2>2. HashArguments(a) = H[1..n]
        BY <1>0 DEF HashArguments, FoldLeft, MapThenFoldSet
    <2> QED
        BY <2>1, <2>2
<1> HIDE DEF H
<1>7. H[{}] = offset64
    BY <1>6
<1>8. ASSUME NEW t \in SUBSET (1..n), t # {}, H[t \ {Max(t)}] \in Hashes
      PROVE  H[t] = f[<<H[t \ {Max(t)}], Max(t)>>]
    BY <1>0, <1>3, <1>6, <1>8, MaxIsMember
<1>9. FoldsIn(Hashes, H, n, offset64, f)
    BY <1>2, <1>7, <1>8 DEF FoldsIn
<1>10. PICK g \in [0..n -> Hashes] :
          g[0] = offset64 /\ g[n] = H[1..n] /\ \A i \in 1..n : g[i] = f[<<g[i - 1], i>>]
    <2> HIDE DEF n, Does
    <2> QED
        BY <1>0, <1>1, <1>9, FoldTurns
<1>11. \A i \in 1..n : g[i] = hash(g[i - 1], a[i])
    <2> TAKE i \in 1..n
    <2>1. g[i - 1] \in Hashes
        BY <1>0
    <2> QED
        BY <1>3, <1>10, <2>1
<1> QED
    BY <1>6, <1>10, <1>11

\* Lists of n arguments that are numbers, but for the last one, which may be a string.
NumbersThen(type, n) ==
    {a \in [1..n -> [type : {"number"}, value : Nat] \cup
                    [type : {"string"}, value : Seq(Nat)]] :
        /\ \A i \in 1..(n - 1) : a[i].type = "number"
        /\ n > 0 => a[n].type = type}

\* The numbers mixed in are those of the arguments, one after the other.
LEMMA HashSays ==
    ASSUME NEW n \in Nat \ {0}, NEW type \in {"number", "string"},
           NEW a \in NumbersThen(type, n)
    PROVE  LET k == KeyOf(a)
           IN  /\ k = HashArguments(a)
               /\ Len(k.mixed) = n - 1 + Len(Words(a[n])) /\ Len(Words(a[n])) \in Nat
               /\ \A i \in 1..(n - 1) : k.mixed[i] = a[i].value
               /\ \A i \in 1..Len(Words(a[n])) : k.mixed[n - 1 + i] = Words(a[n])[i]
<1>1. /\ DOMAIN a = 1..n /\ Len(a) = n /\ a = [i \in 1..n |-> a[i]] /\ n \in 1..n
      /\ \A i \in 1..n : Argument(a[i])
      /\ \A i \in 1..(n - 1) : i \in 1..n /\ a[i].type = "number"
    BY DEF NumbersThen, Argument
<1>2. PICK g \in [0..n -> Hashes] :
          /\ g[0] = offset64 /\ HashArguments(a) = g[n]
          /\ \A i \in 1..n : g[i] = hash(g[i - 1], a[i])
    BY <1>1, HashSteps DEF IsSequence
<1>3. KeyOf(a) = g[n]
    <2>1. a # << >>
        BY <1>1
    <2> QED
        BY <1>2, <2>1 DEF KeyOf
<1> DEFINE s == [i \in 1..(n - 1) |-> a[i].value]
           Done == {i \in 0..(n - 1) : Mixed(g[i], offset64, s, i)}
<1>0. Len(offset64.mixed) = 0 /\ offset64 \in Hashes
    <2>1. << >> \in Seq(Nat) /\ Len(<< >>) = 0
        OBVIOUS
    <2> QED
        BY <2>1 DEF offset64, Hashes
<1>4. 0 \in Done
    <2>1. Mixed(offset64, offset64, s, 0)
        BY <1>0 DEF Mixed
    <2> QED
        BY <1>2, <2>1
<1>5. ASSUME NEW i \in 1..(n - 1), i - 1 \in Done PROVE i \in Done
    <2>1. /\ i - 1 \in 0..n /\ i - 1 \in Nat /\ i \in 1..n /\ i \in 0..(n - 1) /\ (i - 1) + 1 = i
          /\ g[i - 1] \in Hashes
        BY <1>2
    <2>2. g[i] = hash(g[i - 1], a[i]) /\ Argument(a[i]) /\ Words(a[i]) = <<s[i]>>
        BY <1>1, <1>2, <2>1 DEF Words
    <2>3. Mixed(g[i], g[i - 1], <<s[i]>>, 1)
        <3>1. Len(<<s[i]>>) = 1
            OBVIOUS
        <3> QED
            BY <2>1, <2>2, <3>1, ArgumentMixes
    <2>4. Mixed(g[i - 1], offset64, s, i - 1)
        BY <1>5
    <2>5. \A j \in 1..1 : s[(i - 1) + j] = <<s[i]>>[j]
        BY <2>1
    <2> HIDE DEF s
    <2>6. Mixed(g[i], offset64, s, (i - 1) + 1)
        BY <1>0, <2>1, <2>3, <2>4, <2>5, MixedMore
    <2> QED
        BY <2>1, <2>6
<1> HIDE DEF Done
<1>6. Mixed(g[n - 1], offset64, s, n - 1) /\ g[n - 1] \in Hashes
    <2>1. n - 1 \in Nat /\ n - 1 \in 0..(n - 1) /\ n - 1 \in 0..n
        OBVIOUS
    <2>2. n - 1 \in Done
        BY <1>4, <1>5, <2>1, TurnByTurn
    <2> QED
        BY <1>2, <2>1, <2>2 DEF Done
<1>7. Mixed(g[n], g[n - 1], Words(a[n]), Len(Words(a[n]))) /\ Len(Words(a[n])) \in Nat
    BY <1>1, <1>2, <1>6, ArgumentMixes
<1>8. /\ Len(g[n - 1].mixed) = n - 1
      /\ \A i \in 1..(n - 1) : g[n - 1].mixed[i] = s[i]
    BY <1>0, <1>6 DEF Mixed
<1>9. /\ Len(g[n].mixed) = n - 1 + Len(Words(a[n]))
      /\ \A i \in 1..(n - 1) : g[n].mixed[i] = s[i]
      /\ \A i \in 1..Len(Words(a[n])) : g[n].mixed[n - 1 + i] = Words(a[n])[i]
    BY <1>7, <1>8 DEF Mixed
<1>10. \A i \in 1..(n - 1) : s[i] = a[i].value
    OBVIOUS
<1> HIDE DEF s
<1> QED
    BY <1>2, <1>3, <1>7, <1>9, <1>10

\* Such lists of arguments have different keys: numbers take one place each, and the
\* rest is the string.
LEMMA NumbersThenSeparate ==
    ASSUME NEW n \in Nat, NEW type \in {"number", "string"},
           NEW a \in NumbersThen(type, n), NEW b \in NumbersThen(type, n), KeyOf(a) = KeyOf(b)
    PROVE  a = b
<1>1. /\ a = [i \in 1..n |-> a[i]] /\ b = [i \in 1..n |-> b[i]]
    BY DEF NumbersThen
<1>2. CASE n = 0
    <2>1. 1..n = {}
        BY <1>2
    <2> QED
        BY <1>1, <2>1
<1>3. CASE n # 0
    <2>1. n \in Nat \ {0} /\ n \in 1..n
        BY <1>3
    <2> DEFINE k == KeyOf(a)  l == Len(Words(a[n]))  m == Len(Words(b[n]))
    <2>2. /\ Len(k.mixed) = n - 1 + l /\ l \in Nat
          /\ \A i \in 1..(n - 1) : k.mixed[i] = a[i].value
          /\ \A i \in 1..l : k.mixed[n - 1 + i] = Words(a[n])[i]
        BY <2>1, HashSays
    <2>3. /\ Len(k.mixed) = n - 1 + m /\ m \in Nat
          /\ \A i \in 1..(n - 1) : k.mixed[i] = b[i].value
          /\ \A i \in 1..m : k.mixed[n - 1 + i] = Words(b[n])[i]
        BY <2>1, HashSays
    <2> HIDE DEF k, l, m
    <2>4. l = m
        BY <2>1, <2>2, <2>3
    <2>5. /\ \A i \in 1..(n - 1) : i \in 1..n /\ a[i].value = b[i].value
          /\ \A i \in 1..l : Words(a[n])[i] = Words(b[n])[i]
        BY <2>2, <2>3, <2>4
    <2>6. ASSUME NEW i \in 1..(n - 1) PROVE a[i] = b[i]
        <3>1. /\ a[i] \in [type : {"number"}, value : Nat]
              /\ b[i] \in [type : {"number"}, value : Nat]
            BY <2>5 DEF NumbersThen
        <3> QED
            BY <2>5, <3>1
    <2>7. a[n] = b[n]
        <3>1. /\ a[n] \in [type : {"number"}, value : Nat] \cup [type : {"string"}, value : Seq(Nat)]
              /\ b[n] \in [type : {"number"}, value : Nat] \cup [type : {"string"}, value : Seq(Nat)]
              /\ a[n].type = type /\ b[n].type = type
            BY <2>1 DEF NumbersThen
        <3>2. CASE type = "number"
            <4>1. l = 1 /\ Words(a[n])[1] = a[n].value /\ Words(b[n])[1] = b[n].value
                BY <3>1, <3>2 DEF Words, l
            <4>2. a[n].value = b[n].value
                BY <2>5, <4>1
            <4>3. /\ a[n] \in [type : {"number"}, value : Nat]
                  /\ b[n] \in [type : {"number"}, value : Nat]
                BY <3>1, <3>2
            <4> QED
                BY <4>2, <4>3
        <3>3. CASE type = "string"
            <4>1. /\ a[n] \in [type : {"string"}, value : Seq(Nat)]
                  /\ b[n] \in [type : {"string"}, value : Seq(Nat)]
                BY <3>1, <3>3
            <4>2. Words(a[n]) = a[n].value /\ Words(b[n]) = b[n].value
                BY <4>1 DEF Words
            <4>3. a[n].value = b[n].value
                <5> DEFINE u == a[n].value  v == b[n].value
                <5>1. u \in Seq(Nat) /\ v \in Seq(Nat) /\ Len(u) = l /\ Len(v) = l
                    BY <2>4, <4>1, <4>2 DEF l, m
                <5>2. \A i \in 1..l : u[i] = v[i]
                    BY <2>5, <4>2
                <5> HIDE DEF u, v
                <5>3. u = v
                    BY <5>1, <5>2
                <5> QED
                    BY <5>3 DEF u, v
            <4>4. /\ a[n] = [type |-> "string", value |-> a[n].value]
                  /\ b[n] = [type |-> "string", value |-> b[n].value]
                BY ONLY <4>1
            <4> QED
                BY ONLY <4>3, <4>4
        <3> QED
            BY <3>2, <3>3
    <2>8. ASSUME NEW i \in 1..n PROVE a[i] = b[i]
        <3>1. i = n \/ i \in 1..(n - 1)
            OBVIOUS
        <3> QED
            BY <2>6, <2>7, <3>1
    <2> QED
        BY <1>1, <2>8
<1> QED
    BY <1>2, <1>3

\* Every function takes numbers, and at most as its last argument a string.
TellApart ==
    \A f \in Functions : \E n \in Nat, type \in {"number", "string"} :
        f \subseteq NumbersThen(type, n)

\* So a memoized function of any number of numbers, and one string after them, answers
\* with the value for its own arguments, for all arguments (hashing.go:15-127, memoize.go:6-235).
THEOREM MemoizedNumbersAnswer ==
    Spec /\ Fits(made, DOMAIN store) /\ TellApart => []AnswersOwnArguments
<1>1. TellApart => KeysSeparate
    BY NumbersThenSeparate DEF TellApart, KeysSeparate
<1> QED
    BY <1>1, MemoizedAnswers, PTL

==============================================================================
