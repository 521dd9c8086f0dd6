----------------------------- MODULE SingleStore -----------------------------
(***************************************************************************)
(* memory.SingleStore (stores/memory/single.go): one entry, whatever its   *)
(* key, behind an atomic pointer.  Writers replace the pointer under a     *)
(* mutex, readers load it once.                                            *)
(***************************************************************************)
EXTENDS StoreCalls

\* The pointer to an entry is not nil.
NilIsNoEntry == None \notin [key : Keys, entry : Entries]

VARIABLES held  \* [key, entry], or None

vars == <<callVars, held>>

SingleInit == held \in {None} \cup [key : Keys, entry : {Old}]

Init == CallInit /\ SingleInit

Load(k) == IF held # None /\ held.key = k THEN held.entry ELSE None

Content == [k \in Keys |-> Load(k)]

Begin(c) == Begins(c, TaggedOps) /\ UNCHANGED held

\* load, for Get and Peek, and PeekFreshValue: the pointer is loaded once.
Get(c) ==
    /\ Doing(c, "Get")
    /\ Answers(c, Load(key[c]))
    /\ UNCHANGED held

Set(c) ==
    /\ Doing(c, "Set")
    /\ held' = [key |-> key[c], entry |-> c]
    /\ Answers(c, None)

\* The conditions under which Delete, Clear and DeleteByTag empty the store.
Removes(c) ==
    \/ op[c] = "Delete" /\ held.key = key[c]
    \/ op[c] = "Clear"
    \/ op[c] = "DeleteByTag" /\ held.entry \in Tagged

Remove(c) ==
    /\ pc[c] = "running" /\ op[c] \in {"Delete", "Clear", "DeleteByTag"}
    /\ held' = IF held # None /\ Removes(c) THEN None ELSE held
    /\ Answers(c, None)

Quiescent == Over /\ NoneMoves /\ UNCHANGED held

Next ==
    /\ \/ \E c \in Calls : Begin(c) \/ Get(c) \/ Set(c) \/ Remove(c)
       \/ Quiescent
    /\ Watch(Content')

Spec == Init /\ [][Next]_vars

------------------------------------------------------------------------------
(* Correctness *)

Contract == INSTANCE StoreContract WITH
    content <- Content, late <- FALSE, spared <- [c \in Calls |-> {}]

\* One pointer is a store of all keys: a Set takes its place from whatever key had
\* it (stores/memory/single.go:30-106).
ImplementsContract == Contract!Spec
==============================================================================
