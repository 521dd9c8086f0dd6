------------------------------ MODULE Freshness ------------------------------
(***************************************************************************)
(* Stored entries and the freshness rules of the cache engine (stored.go   *)
(* and the stamping done by Cache.Set).  Time is a natural number; 0 is    *)
(* the zero time.Time, which marks "no stale window".  Fields the engine   *)
(* never reads (CreatedAt, Version, Tags) are left out.                    *)
(***************************************************************************)
EXTENDS Naturals

CONSTANTS TTL,          \* WithTTL, 0 when not set
          StaleTTL,     \* WithStaleTTL, 0 when not set
          NoExpiration  \* the NoExpiration() option

\* What New's validation lets through, apart from Bypass (options.go:38-49).
ASSUME FreshnessAssumption ==
    /\ TTL \in Nat /\ StaleTTL \in Nat /\ NoExpiration \in BOOLEAN
    /\ TTL = 0 => StaleTTL = 0

ZeroTime == 0

Entries(Values) ==
    [value : Values, freshUntil : Nat, staleUntil : Nat, noExpire : BOOLEAN]

\* The envelope Cache.Set builds around a value at clock reading t.
NewEntry(v, t) ==
    [value      |-> v,
     freshUntil |-> IF NoExpiration THEN ZeroTime ELSE t + TTL,
     staleUntil |-> IF NoExpiration \/ StaleTTL = 0
                    THEN ZeroTime ELSE t + TTL + StaleTTL,
     noExpire   |-> NoExpiration]

\* The three states of an entry at time t, boundaries inclusive.
IsFresh(e, t)   == e.noExpire \/ t <= e.freshUntil
IsStale(e, t)   == ~IsFresh(e, t) /\ e.staleUntil # ZeroTime /\ t <= e.staleUntil
IsExpired(e, t) == ~IsFresh(e, t) /\ ~IsStale(e, t)
==============================================================================
