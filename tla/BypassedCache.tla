---------------------------- MODULE BypassedCache ----------------------------
(***************************************************************************)
(* A cache with the Bypass option (cache.go): Get and Set do nothing, every*)
(* GetOrCompute computes for itself.  Delete and Clear ask for a store     *)
(* only, which such a cache may lack.                                      *)
(***************************************************************************)
EXTENDS CacheEngine

CONSTANT HasStore  \* a store was configured

BypassInit == Init /\ (HasStore \/ \A k \in Keys : ~Has(k))

AnswerAtOnce(c, err) ==
    /\ pc[c] = "new"
    /\ Return(c, None, err)
    /\ UNCHANGED <<clock, store, flights, op, key, now, entry, joined, flightVars, events>>

\* ErrMissingStore
LacksStore(c) == op[c] \in {"Delete", "Clear"} /\ ~HasStore /\ AnswerAtOnce(c, "store")
Refrains(c) == op[c] \in {"Get", "Set"} /\ AnswerAtOnce(c, "nil")

Removes(c) == HasStore /\ (DeleteEntry(c) \/ ClearEntries(c) \/ RemovalFails(c))

\* Mutant: the bypass test comes after the look at the store.
BypassAfterPeek(c) ==
    /\ pc[c] = "new" /\ op[c] = "GetOrCompute"
    /\ IF Has(key[c]) THEN Hit(c, store[key[c]].value)
       ELSE GoTo(c, "bypass") /\ Emit(c, {"miss"}) /\ UNCHANGED result
    /\ UNCHANGED <<clock, store, flights, op, key, now, entry, joined, flightVars>>

StartBypassed(c) ==
    /\ pc[c] = "new" /\ op[c] = "GetOrCompute"
    /\ GoTo(c, "bypass")
    /\ Emit(c, {"miss"})
    /\ UNCHANGED <<clock, store, flights, op, key, now, entry, joined, result,
                   flightVars>>

BypassComputes(c) ==
    /\ pc[c] = "bypass"
    /\ \/ Return(c, c, "nil")
       \/ Return(c, None, "compute")
       \/ Panics /\ Return(c, None, "panic")
    /\ UNCHANGED <<clock, store, flights, op, key, now, entry, joined,
                   flightVars, events>>

BypassStarts(c) == LacksStore(c) \/ Refrains(c) \/ Removes(c) \/ StartBypassed(c)

BypassNext ==
    \/ \E c \in Calls : BypassStarts(c) \/ BypassComputes(c)
    \/ Tick
    \/ \E k \in Keys : StoreDrops(k)
    \/ Quiescent

\* Bypass (docs/API.md:160): always computes, never stores, never shares.
BypassAlwaysComputes ==
    /\ \A c \in Calls : op[c] = "GetOrCompute" /\ pc[c] = "returned" =>
          result[c].value = c \/ result[c].err \in {"compute", "panic"}
    /\ \A k \in Keys : store[k] \in {None, OldEntry} /\ flights[k] = None
==============================================================================
