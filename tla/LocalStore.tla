------------------------------ MODULE LocalStore -----------------------------
(***************************************************************************)
(* local.LocalFileStore (stores/local/store.go): one file per key in a     *)
(* directory that several processes may share; Set writes a temp file and  *)
(* renames it.  Each system call is a step.  A file is named by the Set    *)
(* that wrote it.  Processes are killed between any two steps, and after a *)
(* loss of power a file may be incomplete, since nothing is synced.        *)
(***************************************************************************)
EXTENDS StoreCalls, Sequences

CONSTANTS MaxFaults  \* bound on failing system calls, kills and power losses

VARIABLES
    dir,    \* dir[k]: the file under the name of k, or None
    temps,  \* temp files in the directory
    whole,  \* files whose bytes are all there
    at,     \* where c is in its operation
    opened, \* the file Get opened, or None
    todo,   \* names Clear has listed and not yet removed: keys and temp files
    spared, \* keys Clear could not remove, which it does not report
    faults  \* what has gone wrong: a system call, a kill, a loss of power

localVars == <<dir, temps, whole, at, opened, todo, spared, faults>>
vars == <<callVars, localVars>>

LocalInit ==
    /\ dir \in [Keys -> {Old, None}]
    /\ temps = {} /\ whole = {Old}
    /\ at = [c \in Calls |-> "begin"]
    /\ opened = [c \in Calls |-> None]
    /\ todo = [c \in Calls |-> {}]
    /\ spared = [c \in Calls |-> {}]
    /\ faults = << >>

Init == CallInit /\ LocalInit

\* A file that cannot be decoded is a miss.
Content == [k \in Keys |-> IF dir[k] \in whole THEN dir[k] ELSE None]

Fault(kind) == Len(faults) < MaxFaults /\ faults' = Append(faults, kind)

Happened(kind) == \E i \in DOMAIN faults : faults[i] = kind

GoTo(c, to) == at' = [at EXCEPT ![c] = to]

Begin(c) == Begins(c, StoreOps) /\ UNCHANGED localVars

\* Any system call that ends its operation with an error and changes nothing:
\* MkdirAll, CreateTemp, ReadFile, Remove of a Delete, ReadDir.
CallFails(c) ==
    /\ pc[c] = "running" /\ at[c] = "begin"
    /\ Fault("call") /\ Fails(c)
    /\ UNCHANGED <<dir, temps, whole, at, opened, todo, spared>>

------------------------------------------------------------------------------
(* Set *)

CreateTemp(c) ==
    /\ Doing(c, "Set") /\ at[c] = "begin"
    /\ temps' = temps \cup {c}
    /\ GoTo(c, "write") /\ Goes(c)
    /\ UNCHANGED <<dir, whole, opened, todo, spared, faults>>

\* Mutant: the file gets its name before it has its bytes.
RenamesFirst(c) ==
    /\ Doing(c, "Set") /\ at[c] = "write" /\ c \in temps
    /\ dir' = [dir EXCEPT ![key[c]] = c]
    /\ whole' = whole \cup {c}
    /\ GoTo(c, "close") /\ Goes(c)
    /\ UNCHANGED <<temps, opened, todo, spared, faults>>

WriteTemp(c) ==
    /\ Doing(c, "Set") /\ at[c] = "write"
    /\ whole' = whole \cup {c}
    /\ GoTo(c, "close") /\ Goes(c)
    /\ UNCHANGED <<dir, temps, opened, todo, spared, faults>>

CloseTemp(c) ==
    /\ Doing(c, "Set") /\ at[c] = "close"
    /\ GoTo(c, "rename") /\ Goes(c)
    /\ UNCHANGED <<dir, temps, whole, opened, todo, spared, faults>>

WriteOrCloseFails(c) ==
    /\ Doing(c, "Set") /\ at[c] \in {"write", "close"}
    /\ Fault("call")
    /\ GoTo(c, "discard") /\ Goes(c)
    /\ UNCHANGED <<dir, temps, whole, opened, todo, spared>>

\* The temp file is removed before the error is returned.
DiscardTemp(c) ==
    /\ Doing(c, "Set") /\ at[c] = "discard"
    /\ temps' = temps \ {c}
    /\ Fails(c)
    /\ UNCHANGED <<dir, whole, at, opened, todo, spared, faults>>

RenameTemp(c) ==
    /\ Doing(c, "Set") /\ at[c] = "rename" /\ c \in temps
    /\ dir' = [dir EXCEPT ![key[c]] = c]
    /\ temps' = temps \ {c}
    /\ Answers(c, None)
    /\ UNCHANGED <<whole, at, opened, todo, spared, faults>>

\* A Clear has removed the temp file, or the system call fails: then the temp
\* file stays.
RenameFails(c) ==
    /\ Doing(c, "Set") /\ at[c] = "rename"
    /\ \/ c \notin temps /\ UNCHANGED faults
       \/ Fault("call")
    /\ Fails(c)
    /\ UNCHANGED <<dir, temps, whole, at, opened, todo, spared>>

------------------------------------------------------------------------------
(* Get, Delete *)

\* ReadFile opens the file; it reads that file even if another takes its name.
OpenFile(c) ==
    /\ Doing(c, "Get") /\ at[c] = "begin"
    /\ \/ dir[key[c]] = None /\ Answers(c, None) /\ UNCHANGED <<at, opened>>
       \/ /\ dir[key[c]] # None
          /\ opened' = [opened EXCEPT ![c] = dir[key[c]]]
          /\ GoTo(c, "read") /\ Goes(c)
    /\ UNCHANGED <<dir, temps, whole, todo, spared, faults>>

ReadFile(c) ==
    /\ Doing(c, "Get") /\ at[c] = "read"
    /\ Answers(c, IF opened[c] \in whole THEN opened[c] ELSE None)
    /\ UNCHANGED localVars

DeleteFile(c) ==
    /\ Doing(c, "Delete") /\ at[c] = "begin"
    /\ dir' = [dir EXCEPT ![key[c]] = None]
    /\ Answers(c, None)
    /\ UNCHANGED <<temps, whole, at, opened, todo, spared, faults>>

------------------------------------------------------------------------------
(* Clear *)

\* ReadDir lists every file, temp files of Sets under way included.
ListDir(c) ==
    /\ Doing(c, "Clear") /\ at[c] = "begin"
    /\ todo' = [todo EXCEPT ![c] = {k \in Keys : dir[k] # None} \cup temps]
    /\ GoTo(c, "remove") /\ Goes(c)
    /\ UNCHANGED <<dir, temps, whole, opened, spared, faults>>

\* A name that is gone, or now belongs to another file, is removed all the same.
RemoveName(c) ==
    /\ Doing(c, "Clear")
    /\ \E n \in todo[c] :
          /\ todo' = [todo EXCEPT ![c] = @ \ {n}]
          /\ dir' = [k \in Keys |-> IF k = n THEN None ELSE dir[k]]
          /\ temps' = temps \ {n}
    /\ Goes(c)
    /\ UNCHANGED <<whole, at, opened, spared, faults>>

\* The error of Remove is dropped.
RemoveFails(c) ==
    /\ Doing(c, "Clear") /\ Fault("call")
    /\ \E n \in todo[c] :
          /\ todo' = [todo EXCEPT ![c] = @ \ {n}]
          /\ spared' = [spared EXCEPT ![c] = @ \cup ({n} \cap Keys)]
    /\ Goes(c)
    /\ UNCHANGED <<dir, temps, whole, at, opened>>

\* Mutant: Clear ends at the first name it cannot remove.
ClearLeavesRest(c) ==
    /\ Doing(c, "Clear") /\ at[c] = "remove"
    /\ Answers(c, None)
    /\ UNCHANGED localVars

ClearReturns(c) ==
    /\ Doing(c, "Clear") /\ at[c] = "remove" /\ todo[c] = {}
    /\ Answers(c, None)
    /\ UNCHANGED localVars

------------------------------------------------------------------------------
(* The environment *)

ProcessDies ==
    /\ Fault("kill")
    /\ \E S \in SUBSET Running : S # {} /\ Die(S)
    /\ UNCHANGED <<dir, temps, whole, at, opened, todo, spared>>

\* All processes are gone, and any file may have lost bytes.  The names are
\* taken to be as they were.
PowerFails ==
    /\ Fault("power")
    /\ Die(Running)
    /\ whole' \in SUBSET whole
    /\ UNCHANGED <<dir, temps, at, opened, todo, spared>>

Quiescent == Over /\ NoneMoves /\ UNCHANGED localVars

SetStep(c) ==
    \/ CreateTemp(c) \/ WriteTemp(c) \/ CloseTemp(c) \/ WriteOrCloseFails(c)
    \/ DiscardTemp(c) \/ RenameTemp(c) \/ RenameFails(c)

OtherStep(c) ==
    \/ Begin(c) \/ CallFails(c) \/ OpenFile(c) \/ ReadFile(c) \/ DeleteFile(c)
    \/ ListDir(c) \/ RemoveName(c) \/ RemoveFails(c) \/ ClearReturns(c)

Next ==
    /\ \/ \E c \in Calls : SetStep(c) \/ OtherStep(c)
       \/ ProcessDies \/ PowerFails
       \/ Quiescent
    /\ Watch(Content')

Spec == Init /\ [][Next]_vars

------------------------------------------------------------------------------
(* Correctness *)

TypeOK ==
    /\ CallTypes
    /\ dir \in [Keys -> Entries \cup {None}]
    /\ temps \subseteq Calls /\ whole \subseteq Entries
    /\ at \in [Calls -> {"begin", "write", "close", "rename", "discard", "read",
                         "remove"}]
    /\ opened \in [Calls -> Entries \cup {None}]
    /\ todo \in [Calls -> SUBSET (Keys \cup Calls)]
    /\ spared \in [Calls -> SUBSET Keys]
    /\ faults \in Seq({"call", "kill", "power"})

\* A file has one name: that of the key its Set was called with, or its temp
\* name while that Set has not succeeded.  A Set that succeeded leaves no temp file.
OneNamePerFile ==
    /\ \A k \in Keys : dir[k] \in Calls =>
          op[dir[k]] = "Set" /\ key[dir[k]] = k /\ pc[dir[k]] = "ok"
    /\ \A c \in temps : op[c] = "Set" /\ pc[c] \in {"running", "error", "dead"}

\* A file gets its name only when its bytes are there, whoever is killed or fails
\* on the way; only a loss of power takes some away again (store.go:55-77).
WholeUnlessPowerLost ==
    /\ ~Happened("power") => \A k \in Keys : dir[k] \in whole \cup {None}
    /\ faults = << >> => temps \subseteq Running

\* Both: what Set promises by writing a temp file first (store.go:55-77).
FilesAreWhole == TypeOK /\ OneNamePerFile /\ WholeUnlessPowerLost

Contract == INSTANCE StoreContract WITH content <- Content, late <- FALSE

\* The directory is a store: no process ever reads part of an entry or another
\* key's, whoever writes, clears, fails or is killed at the same time.
ImplementsContract == Contract!Spec
==============================================================================
