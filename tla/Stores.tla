-------------------------------- MODULE Stores -------------------------------
(***************************************************************************)
(* The four stores and what is asked of a Store.  In each behaviour calls  *)
(* are made of one of them, `backend`.  The redis store has its own        *)
(* variables, which stay as they are when another store is called; the     *)
(* others share those of their calls, and what a store has to itself stays *)
(* None when another one is called.                                        *)
(***************************************************************************)
EXTENDS RedisStore

CONSTANTS Backends,   \* the stores of which calls are made
          Limits,     \* what NewSharded may be called with
          EntryBytes  \* entryBytes(key, value), the same for all entries

VARIABLES backend,
          state, does, about, got, saw,                  \* StoreCalls
          dir, temps, whole, opened, todo, spared, went, \* local
          limits, home,                                  \* sharded
          at,                                            \* sharded and local
          held                                           \* sharded and single

otherCalls == <<state, does, about, got, saw>>
localOnly == <<dir, temps, whole, opened, todo, spared, went>>
shardedOnly == <<limits, home>>
others == <<otherCalls, localOnly, shardedOnly, at, held>>
storesVars == <<vars, backend, others>>

Local == INSTANCE LocalStore WITH
    pc <- state, op <- does, key <- about, answer <- got, seen <- saw, faults <- went

Sharded == INSTANCE ShardedStore WITH
    pc <- state, op <- does, key <- about, answer <- got, seen <- saw

Single == INSTANCE SingleStore WITH
    pc <- state, op <- does, key <- about, answer <- got, seen <- saw

ASSUME LimitsAssumption == Sharded!LegalLimits

ASSUME NilAssumption == Single!NilIsNoEntry

RedisUnused == Init /\ db = [k \in Keys |-> None]
LocalUnused ==
    /\ dir = None /\ temps = None /\ whole = None /\ opened = None
    /\ todo = None /\ spared = None /\ went = None
ShardedUnused == limits = None /\ home = None

StoresInit ==
    /\ backend \in Backends
    /\ \/ /\ backend = "redis" /\ Init
          /\ Single!CallInit /\ LocalUnused /\ ShardedUnused /\ at = None /\ held = None
       \/ /\ backend = "local" /\ Local!Init
          /\ RedisUnused /\ ShardedUnused /\ held = None
       \/ /\ backend = "sharded" /\ Sharded!Init
          /\ RedisUnused /\ LocalUnused
       \/ /\ backend = "single" /\ Single!Init
          /\ RedisUnused /\ LocalUnused /\ ShardedUnused /\ at = None

StoresNext ==
    /\ UNCHANGED backend
    /\ \/ backend = "redis" /\ Next /\ UNCHANGED others
       \/ backend = "local" /\ Local!Next /\ UNCHANGED <<vars, shardedOnly, held>>
       \/ backend = "sharded" /\ Sharded!Next /\ UNCHANGED <<vars, localOnly>>
       \/ backend = "single" /\ Single!Next /\ UNCHANGED <<vars, localOnly, shardedOnly, at>>

StoresSpec == StoresInit /\ [][StoresNext]_storesVars

------------------------------------------------------------------------------
(* Correctness *)

\* What the store that is called holds, and what its Clears left.
Contents ==
    CASE backend = "local"   -> Local!Content
      [] backend = "sharded" -> held
      [] backend = "single"  -> Single!Content
      [] OTHER               -> [k \in Keys |-> None]

Left == IF backend = "local" THEN spared ELSE [c \in Calls |-> {}]

OthersContract == INSTANCE StoreContract WITH
    pc <- state, op <- does, key <- about, answer <- got, seen <- saw,
    content <- Contents, late <- FALSE, spared <- Left

\* The local, sharded and single stores are stores in the sense of store.go:5-10 for
\* callers that run concurrently, fail and die: whole entries of the right key, no
\* change without a Set or a removal, and success only for what was done.
OthersKeepContract == OthersContract!Spec

\* Files have one name and are complete before they get their final one
\* (stores/local/store.go:47-77).
FilesAreWhole == backend = "local" => Local!FilesAreWhole

\* The shards together keep the limits of the whole store
\* (stores/memory/sharded.go:21-56).
TotalsWithinLimits == backend = "sharded" => Sharded!TotalsWithinLimits
==============================================================================
