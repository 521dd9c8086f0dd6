------------------------------ MODULE StoreCalls -----------------------------
(***************************************************************************)
(* Concurrent calls of the operations of a Store (store.go, tagstore.go),  *)
(* as every store below sees them.  Each member of Calls is one call, made *)
(* at most once; it also names the entry it writes if it is a Set.         *)
(***************************************************************************)
EXTENDS Naturals, FiniteSets

CONSTANTS Calls, Keys,
          Old,    \* an entry that may be stored at the start
          None,   \* no entry
          Tagged  \* the entries that carry the tag DeleteByTag is called with

ASSUME CallsAssumption ==
    /\ Old \notin Calls /\ None \notin Calls \cup {Old}
    /\ Keys \cap (Calls \cup {Old, None}) = {}
    /\ Tagged \subseteq Calls \cup {Old}

Entries == Calls \cup {Old}
StoreOps == {"Get", "Set", "Delete", "Clear"}
TaggedOps == StoreOps \cup {"DeleteByTag"}

VARIABLES
    pc,     \* "new", "running", or how the call ended
    op, key, \* what it does, and with which key; None before it begins
    answer, \* the entry Get returned, or None
    seen    \* seen[c][k]: what k held at some moment of c so far (history)

callVars == <<pc, op, key, answer, seen>>

CallInit ==
    /\ pc = [c \in Calls |-> "new"]
    /\ op = [c \in Calls |-> None] /\ key = [c \in Calls |-> None]
    /\ answer = [c \in Calls |-> None]
    /\ seen = [c \in Calls |-> [k \in Keys |-> {}]]

CallTypes ==
    /\ pc \in [Calls -> {"new", "running", "ok", "error", "dead"}]
    /\ op \in [Calls -> TaggedOps \cup {None}] /\ key \in [Calls -> Keys \cup {None}]
    /\ answer \in [Calls -> Entries \cup {None}]
    /\ seen \in [Calls -> [Keys -> SUBSET (Entries \cup {None})]]

------------------------------------------------------------------------------

Running == {c \in Calls : pc[c] = "running"}

Doing(c, o) == pc[c] = "running" /\ op[c] = o

\* Clear and DeleteByTag are not about one key.
Sweeps == {"Clear", "DeleteByTag"}

Begins(c, ops) ==
    /\ pc[c] = "new"
    /\ pc' = [pc EXCEPT ![c] = "running"]
    /\ \E o \in ops : \E k \in (IF o \in Sweeps THEN {None} ELSE Keys) :
          op' = [op EXCEPT ![c] = o] /\ key' = [key EXCEPT ![c] = k]
    /\ UNCHANGED answer

NoneMoves == UNCHANGED <<pc, op, key, answer>>

Goes(c) == NoneMoves

Answers(c, v) ==
    /\ pc' = [pc EXCEPT ![c] = "ok"]
    /\ answer' = [answer EXCEPT ![c] = v]
    /\ UNCHANGED <<op, key>>

Fails(c) ==
    /\ pc' = [pc EXCEPT ![c] = "error"]
    /\ UNCHANGED <<op, key, answer>>

\* The calls S belong to a process that is gone.
Die(S) ==
    /\ pc' = [c \in Calls |-> IF c \in S THEN "dead" ELSE pc[c]]
    /\ UNCHANGED <<op, key, answer>>

Over == \A c \in Calls : pc[c] \notin {"new", "running"}

\* The keys a call is about.
Touched(o, k) == IF o \in Sweeps THEN Keys ELSE {k}

\* What c has seen when the store holds v after this step.  Who has ended forgets.
Watched(c, v) ==
    [k \in Keys |-> IF k \in Touched(op'[c], key'[c]) THEN seen[c][k] \cup {v[k]} ELSE {}]

Watch(v) ==
    seen' = [c \in Calls |-> IF pc'[c] = "running" THEN Watched(c, v)
                             ELSE [k \in Keys |-> {}]]
==============================================================================
