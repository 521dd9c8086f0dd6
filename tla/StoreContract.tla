----------------------------- MODULE StoreContract ---------------------------
(***************************************************************************)
(* What the engine, the chain and the background values rely on when they  *)
(* call a Store (store.go:5-10) from many goroutines and processes: every  *)
(* key holds one whole entry or none; it changes to none at any time, and  *)
(* to another entry only by a Set of that key; a call that succeeds did    *)
(* what it says at some moment between its beginning and its end.          *)
(***************************************************************************)
EXTENDS StoreCalls

VARIABLES content, \* content[k]: the entry stored under k, or None
          late,    \* a Set may take effect, again or at all, after it has ended
          spared   \* spared[c]: keys a Clear left without saying so

contractVars == <<callVars, content, late, spared>>

Init ==
    /\ CallInit
    /\ content \in [Keys -> {Old, None}]
    /\ late \in BOOLEAN
    /\ spared = [c \in Calls |-> {}]

\* The Sets that may write k now.
Writers(k) ==
    {c \in Calls : /\ op[c] = "Set" /\ key[c] = k
                   /\ pc[c] = "running" \/ (late /\ pc[c] # "new")}

ContentChanges ==
    /\ content' \in [Keys -> Entries \cup {None}]
    /\ \A k \in Keys : content'[k] \in {content[k], None} \cup Writers(k)

\* What a call promises by succeeding.
Kept(c) ==
    LET s == Watched(c, content') IN
    CASE op[c] = "Get"         -> answer'[c] \in s[key[c]]
      [] op[c] = "Set"         -> c \in s[key[c]]
      [] op[c] = "Delete"      -> None \in s[key[c]]
      [] op[c] = "Clear"       -> \A k \in Keys \ spared[c] : None \in s[k]
      [] op[c] = "DeleteByTag" -> \A k \in Keys : s[k] \cap Tagged # s[k]

CallMoves(c) ==
    \/ pc'[c] = pc[c] /\ answer'[c] = answer[c]
    \/ pc[c] = "new" /\ pc'[c] = "running" /\ answer'[c] = answer[c]
    \/ pc[c] = "running" /\ pc'[c] \in {"error", "dead"} /\ answer'[c] = answer[c]
    \/ pc[c] = "running" /\ pc'[c] = "ok" /\ Kept(c)

Next ==
    /\ ContentChanges
    /\ pc' \in [Calls -> {"new", "running", "ok", "error", "dead"}]
    /\ answer' \in [Calls -> Entries \cup {None}]
    /\ \A c \in Calls : CallMoves(c)
    /\ \A c \in Calls :
          IF pc[c] = "new" /\ pc'[c] = "running"
          THEN op'[c] \in TaggedOps /\ (op'[c] \in Sweeps \/ key'[c] \in Keys)
          ELSE op'[c] = op[c] /\ key'[c] = key[c]
    /\ \A c \in Calls : spared[c] \subseteq spared'[c]
    /\ UNCHANGED late
    /\ Watch(content')

Spec == Init /\ [][Next]_contractVars
==============================================================================
