----------------------------- MODULE ChainStore ------------------------------
(***************************************************************************)
(* chain.ChainStore (stores/chain/store.go): Get, Set, Delete and Clear    *)
(* over an ordered sequence of tiers, called concurrently.  The chain      *)
(* itself keeps no state and takes no lock; each operation of a tier is    *)
(* one step.  The entry a Set writes is named by the call that made it.    *)
(***************************************************************************)
EXTENDS Naturals

CONSTANTS Calls, Keys, None,
          Old,      \* an entry that may be in the tiers at the start
          N,        \* number of tiers
          Faults    \* operations of a tier may fail

ASSUME ChainAssumption ==
    /\ N \in Nat /\ N >= 2          \* New panics otherwise
    /\ None \notin Calls \cup {Old} /\ Old \notin Calls
    /\ Faults \in BOOLEAN

Tiers == 1..N
Entries == Calls \cup {Old}
Writes == {"Set", "Delete", "Clear"}

VARIABLES
    tiers,   \* tiers[i][k]: the entry tier i has under k, or None
    pc, op, key,
    at,      \* the tier call c turns to next
    found,   \* the tier Get found its entry in, and that entry
    answer,  \* what Get returned
    over,    \* over[c]: calls in progress at some moment of c (history)
    before   \* before[c]: calls that had returned when c started (history)

vars == <<tiers, pc, op, key, at, found, answer, over, before>>

Init ==
    \* the tiers outlive the chain: a lower one may hold what an upper one lost
    /\ tiers \in [Tiers -> [Keys -> {Old, None}]]
    /\ pc = [c \in Calls |-> "new"]
    /\ op \in [Calls -> Writes \cup {"Get"}]
    /\ key \in [Calls -> Keys]
    /\ at = [c \in Calls |-> 1]
    /\ found = [c \in Calls |-> [tier |-> 0, entry |-> None]]
    /\ answer = [c \in Calls |-> None]
    /\ over = [c \in Calls |-> {}]
    /\ before = [c \in Calls |-> {}]

------------------------------------------------------------------------------
(* Calls start and return *)

Returned == {c \in Calls : pc[c] \in {"ok", "error"}}
Active == {c \in Calls : pc[c] \in {"running", "backfill"}}

Start(c) ==
    /\ pc[c] = "new"
    /\ pc' = [pc EXCEPT ![c] = "running"]
    /\ over' = [d \in Calls |-> IF d = c THEN Active
                                ELSE IF d \in Active THEN over[d] \cup {c} ELSE over[d]]
    /\ before' = [before EXCEPT ![c] = Returned]
    /\ UNCHANGED <<tiers, op, key, at, found, answer>>

Return(c, how) == pc' = [pc EXCEPT ![c] = how]

\* Mutant: a loop one tier too short.
NextTierShort(c) ==
    IF at[c] < N - 1 THEN at' = [at EXCEPT ![c] = @ + 1] /\ UNCHANGED pc
                     ELSE Return(c, "ok") /\ UNCHANGED at

\* The loop over the tiers: on to the next one, or out after the last.
NextTier(c) ==
    IF at[c] < N THEN at' = [at EXCEPT ![c] = @ + 1] /\ UNCHANGED pc
                 ELSE Return(c, "ok") /\ UNCHANGED at

\* What a tier holds once the write of c has reached the tier at[c].
Written(c) ==
    [tiers EXCEPT ![at[c]] = CASE op[c] = "Set"    -> [@ EXCEPT ![key[c]] = c]
                               [] op[c] = "Delete" -> [@ EXCEPT ![key[c]] = None]
                               [] op[c] = "Clear"  -> [k \in Keys |-> None]
                               [] op[c] = "Get"    -> @]

\* An error of a tier ends Get, Set, Delete and Clear alike.  A write may have
\* been done although it is reported as failed.
TierFails(c) ==
    /\ Faults /\ pc[c] = "running"
    /\ Return(c, "error")
    /\ tiers' \in {tiers, Written(c)}
    /\ UNCHANGED <<op, key, at, found, answer, over, before>>

------------------------------------------------------------------------------
(* Get *)

Here(c) == tiers[at[c]][key[c]]

GetMisses(c) ==
    /\ pc[c] = "running" /\ op[c] = "Get" /\ Here(c) = None
    /\ NextTier(c)
    /\ UNCHANGED <<tiers, op, key, found, answer, over, before>>

\* A hit, whatever its freshness, ends the search.
GetHits(c) ==
    /\ pc[c] = "running" /\ op[c] = "Get" /\ Here(c) # None
    /\ IF at[c] = 1
       THEN /\ answer' = [answer EXCEPT ![c] = Here(c)]
            /\ Return(c, "ok")
            /\ UNCHANGED <<at, found>>
       ELSE /\ found' = [found EXCEPT ![c] = [tier |-> at[c], entry |-> Here(c)]]
            /\ at' = [at EXCEPT ![c] = 1]
            /\ pc' = [pc EXCEPT ![c] = "backfill"]
            /\ UNCHANGED answer
    /\ UNCHANGED <<tiers, op, key, over, before>>

\* The entry goes into the tiers above the one it was found in; an error there is dropped.
Backfills(c) ==
    /\ pc[c] = "backfill"
    /\ \/ tiers' = [tiers EXCEPT ![at[c]][key[c]] = found[c].entry]
       \/ Faults /\ UNCHANGED tiers
    /\ IF at[c] < found[c].tier - 1
       THEN at' = [at EXCEPT ![c] = @ + 1] /\ UNCHANGED <<pc, answer>>
       ELSE /\ answer' = [answer EXCEPT ![c] = found[c].entry]
            /\ Return(c, "ok")
            /\ UNCHANGED at
    /\ UNCHANGED <<op, key, found, over, before>>

------------------------------------------------------------------------------
(* Set, Delete, Clear *)

\* Mutant: a Delete that stops at the first tier that held the key.
DeletesFirst(c) ==
    /\ pc[c] = "running" /\ op[c] \in Writes
    /\ tiers' = Written(c)
    /\ IF op[c] = "Delete" /\ Here(c) # None
       THEN Return(c, "ok") /\ UNCHANGED at ELSE NextTier(c)
    /\ UNCHANGED <<op, key, found, answer, over, before>>

WritesTier(c) ==
    /\ pc[c] = "running" /\ op[c] \in Writes
    /\ tiers' = Written(c)
    /\ NextTier(c)
    /\ UNCHANGED <<op, key, found, answer, over, before>>

\* A tier evicts or expires an entry on its own.
TierDrops(i, k) ==
    /\ tiers[i][k] # None
    /\ tiers' = [tiers EXCEPT ![i][k] = None]
    /\ UNCHANGED <<pc, op, key, at, found, answer, over, before>>

Quiescent == Returned = Calls /\ UNCHANGED vars

Next ==
    \/ \E c \in Calls :
          \/ Start(c) \/ TierFails(c)
          \/ GetMisses(c) \/ GetHits(c) \/ Backfills(c)
          \/ WritesTier(c)
    \/ \E i \in Tiers, k \in Keys : TierDrops(i, k)
    \/ Quiescent

Spec == Init /\ [][Next]_vars

------------------------------------------------------------------------------
(* Correctness *)

TypeOK ==
    /\ tiers \in [Tiers -> [Keys -> Entries \cup {None}]]
    /\ pc \in [Calls -> {"new", "running", "backfill", "ok", "error"}]
    /\ op \in [Calls -> Writes \cup {"Get"}] /\ key \in [Calls -> Keys]
    /\ at \in [Calls -> Tiers]
    /\ found \in [Calls -> [tier : 0..N, entry : Entries \cup {None}]]
    /\ answer \in [Calls -> Entries \cup {None}]
    /\ over \in [Calls -> SUBSET Calls] /\ before \in [Calls -> SUBSET Calls]

\* The calls of kind o on the key of c that overlapped c, or began after it.
Overlapping(c, o) == {d \in over[c] : op[d] = o /\ key[d] = key[c]}
Following(c, o)   == {d \in Calls : c \in before[d] /\ op[d] = o /\ key[d] = key[c]}

\* No other Set of the key since c began, and no Get of it while c ran.  Deletes
\* and Clears may come at any time, and calls on other keys.
Quiet(c) ==
    /\ Overlapping(c, "Set") = {} /\ Following(c, "Set") = {}
    /\ Overlapping(c, "Get") = {}

\* What may be found under the key of c after c.
Left(c) == IF op[c] = "Set" THEN {c, None} ELSE {None}

\* The tiers the write of c has been through.
Reached(c) ==
    {i \in Tiers : \/ pc[c] = "ok"
                   \/ pc[c] = "running" /\ i < at[c]}

QuietSoFar ==
    \A c \in Calls :
        op[c] \in Writes /\ Quiet(c)
        => \A i \in Reached(c) : tiers[i][key[c]] \in Left(c)

LaterGetsAgree ==
    \A c, d \in Calls :
        /\ op[c] \in Writes /\ pc[c] = "ok" /\ Quiet(c)
        /\ op[d] = "Get" /\ key[d] = key[c] /\ c \in before[d]
        => found[d].entry \in Left(c) /\ answer[d] \in Left(c)

\* Two calls overlap, or one had returned when the other began.
CallsMeet ==
    /\ \A c, d \in Calls :
          /\ c # d /\ c \in Active \cup Returned /\ d \in Active
             => d \in over[c] \/ (c \in Returned /\ c \in before[d])
          /\ c \in before[d] => c \in Returned
    /\ \A c \in Calls :
          /\ pc[c] = "new" => at[c] = 1 /\ found[c].entry = None /\ answer[c] = None
          /\ pc[c] = "backfill" => op[c] = "Get"

\* The inductive invariant.
ChainInv == TypeOK /\ CallsMeet /\ QuietSoFar /\ LaterGetsAgree

\* After a Set, Delete or Clear that succeeded and that no Get or Set of its key
\* overlapped, no tier holds anything but its entry under the key until the next
\* Set, and later Gets answer with nothing else, whatever tiers drop, other calls
\* do, or fail to do, in between (store.go:25-68).
QuietWriteIsFinal ==
    \A c \in Calls :
        op[c] \in Writes /\ pc[c] = "ok" /\ Quiet(c)
        => /\ \A i \in Tiers : tiers[i][key[c]] \in Left(c)
           /\ \A d \in Following(c, "Get") : answer[d] \in Left(c)

\* docs/API.md:314 says that Set, Delete and Clear "propagate to every tier".  A
\* Get that read the lower tier before a Delete puts the entry back above.
DeletePropagates ==
    \A c \in Calls :
        /\ op[c] \in {"Delete", "Clear"} /\ pc[c] = "ok"
        /\ Overlapping(c, "Set") = {} /\ Following(c, "Set") = {}
        => \A i \in Tiers : tiers[i][key[c]] = None
==============================================================================
