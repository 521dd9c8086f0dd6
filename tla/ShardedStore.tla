----------------------------- MODULE ShardedStore ----------------------------
(***************************************************************************)
(* memory.ShardedStore (stores/memory/sharded.go): keys are spread over    *)
(* independent stores by a hash, the limits are divided among them.  A     *)
(* shard is seen as a map that forgets other entries to make room for a    *)
(* new one; which ones it forgets is the matter of MemoryStore.  The       *)
(* operations of one key run under the mutex of its shard, Clear and       *)
(* DeleteByTag visit the shards one after the other.                       *)
(***************************************************************************)
EXTENDS StoreCalls, FiniteSetsExt

CONSTANTS Limits,     \* what NewSharded may be called with
          EntryBytes  \* entryBytes(key, value), the same for all entries

\* What NewSharded takes without a panic.
LegalLimits ==
    /\ Limits \subseteq [capacity : Nat \ {0}, maxBytes : Nat,
                         shards : {n \in Nat : \E i \in 0..n : n = 2^i}]
    /\ EntryBytes \in Nat \ {0}

VARIABLES
    limits, \* capacity, requested shards, byte limit (0 for none)
    home,   \* home[k]: the shard the hash sends k to
    held,   \* held[k]: the entry under k, or None
    at      \* the shard a Clear or DeleteByTag visits next

shardVars == <<limits, home, held, at>>
vars == <<callVars, shardVars>>

\* The requested number, halved until every shard can hold an entry.
ShardCount ==
    Max({n \in 1..limits.capacity :
            \E i \in 0..limits.shards : limits.shards = n * 2^i})

Shards == 0..(ShardCount - 1)

\* The part of a total that shard i gets: the remainder goes to the first ones.
Share(total, i) ==
    total \div ShardCount + (IF i < total % ShardCount THEN 1 ELSE 0)

\* Mutant: every shard's part is rounded up.
RoundedUp(i) == (limits.capacity + ShardCount - 1) \div ShardCount

ShardCap(i) == Share(limits.capacity, i)

\* 0 is no limit, also when a limit below the number of shards leaves 0 to one.
ShardBytes(i) == Share(limits.maxBytes, i)

\* The most entries shard i keeps; one is admitted whatever its size.
MostEntries(i) ==
    IF ShardBytes(i) = 0 \/ ShardBytes(i) \div EntryBytes >= ShardCap(i)
    THEN ShardCap(i)
    ELSE IF ShardBytes(i) < EntryBytes THEN 1 ELSE ShardBytes(i) \div EntryBytes

Held == {k \in Keys : held[k] # None}
HeldBy(i) == {k \in Held : home[k] = i}

ShardedInit ==
    /\ limits \in Limits
    /\ home \in [Keys -> Shards]
    /\ held \in [Keys -> {Old, None}] /\ IsFiniteSet(Held)
    /\ \A i \in Shards : Cardinality(HeldBy(i)) <= MostEntries(i)
    /\ at = [c \in Calls |-> 0]

Init == CallInit /\ ShardedInit

Begin(c) == Begins(c, TaggedOps) /\ UNCHANGED shardVars

\* Get, Peek and PeekFreshValue of the key's shard.
Get(c) ==
    /\ Doing(c, "Get")
    /\ Answers(c, held[key[c]])
    /\ UNCHANGED shardVars

\* Replacing an entry keeps the others; a new one lets only as many stay as fit
\* beside it.
Set(c) ==
    /\ Doing(c, "Set")
    /\ LET others == HeldBy(home[key[c]]) \ {key[c]}
           room == MostEntries(home[key[c]]) - 1
       IN  \E kept \in SUBSET others :
              /\ IF held[key[c]] # None \/ Cardinality(others) <= room
                 THEN kept = others ELSE Cardinality(kept) = room
              /\ held' = [k \in Keys |-> IF k = key[c] THEN c
                                         ELSE IF k \in others \ kept THEN None
                                         ELSE held[k]]
    /\ Answers(c, None)
    /\ UNCHANGED <<limits, home, at>>

Delete(c) ==
    /\ Doing(c, "Delete")
    /\ held' = [held EXCEPT ![key[c]] = None]
    /\ Answers(c, None)
    /\ UNCHANGED <<limits, home, at>>

\* What DeleteByTag removes of a shard.
TaggedIn(i) == {k \in HeldBy(i) : held[k] \in Tagged}

\* Clear empties one shard after the other, DeleteByTag removes from them.
VisitShard(c) ==
    /\ pc[c] = "running" /\ op[c] \in Sweeps
    /\ LET gone == IF op[c] = "Clear" THEN HeldBy(at[c]) ELSE TaggedIn(at[c])
       IN  held' = [k \in Keys |-> IF k \in gone THEN None ELSE held[k]]
    /\ IF at[c] + 1 \in Shards
       THEN at' = [at EXCEPT ![c] = @ + 1] /\ Goes(c)
       ELSE UNCHANGED at /\ Answers(c, None)
    /\ UNCHANGED <<limits, home>>

Quiescent == Over /\ NoneMoves /\ UNCHANGED shardVars

Next ==
    /\ \/ \E c \in Calls : Begin(c) \/ Get(c) \/ Set(c) \/ Delete(c) \/ VisitShard(c)
       \/ Quiescent
    /\ Watch(held')

Spec == Init /\ [][Next]_vars

------------------------------------------------------------------------------
(* Correctness *)

TypeOK ==
    /\ CallTypes
    /\ limits \in Limits
    /\ home \in [Keys -> Shards]
    /\ held \in [Keys -> Entries \cup {None}]
    /\ at \in [Calls -> Shards]

\* NewSharded takes the limits for the whole store (sharded.go:21-56): however they
\* divide, and however the hash spreads the keys, Len stays within the capacity
\* and UsedBytes within the byte limit, provided an entry fits into every share.
TotalsWithinLimits ==
    /\ TypeOK
    /\ \A i \in Shards : ShardCap(i) >= 1
    /\ MapThenSumSet(ShardCap, Shards) = limits.capacity
    /\ \A i \in Shards : Cardinality(HeldBy(i)) <= ShardCap(i)
    /\ Cardinality(Held) <= limits.capacity
    /\ limits.maxBytes # 0 /\ (\A i \in Shards : ShardBytes(i) >= EntryBytes) =>
          Cardinality(Held) * EntryBytes <= limits.maxBytes

Contract == INSTANCE StoreContract WITH
    content <- held, late <- FALSE, spared <- [c \in Calls |-> {}]

\* The shards are one store, though Clear and DeleteByTag visit them one after the
\* other (stores/memory/sharded.go:67-120).
ImplementsContract == Contract!Spec
==============================================================================
