------------------------------ MODULE RedisStore -----------------------------
(***************************************************************************)
(* redisstore.Store (adapters/redis/store.go) over one Redis server.  The  *)
(* server and go-redis are external: the server runs one command at a time,*)
(* drops a key at its expiry, and may drop any key.  A command travels;    *)
(* the client may send it again, and an answer that does not come in time  *)
(* is an error although the command may still be executed, even later.     *)
(***************************************************************************)
EXTENDS StoreCalls

CONSTANTS Envelopes, \* the deadlines of entries: [freshUntil, staleUntil, noExpire]
          MaxTime,   \* bound on the wall clock
          MaxOnWire, \* bound on the copies of one command on the way
          MaxFaults  \* bound on failing calls and keys the server drops

ASSUME RedisAssumption ==
    /\ Envelopes \subseteq [freshUntil : Nat, staleUntil : Nat, noExpire : BOOLEAN]
    /\ MaxTime \in Nat \ {0} /\ MaxOnWire \in Nat /\ MaxFaults \in Nat
    /\ None \notin [envelope : Envelopes, ttl : Nat] \cup [entry : Entries \cup {None}]

VARIABLES
    time,     \* time.Now(), of clients and server alike
    db,       \* db[k]: the entry the server has under k, or None
    expires,  \* expires[k]: when the server drops it, 0 for never
    command,  \* what the Set c sent: its envelope and storage TTL, or None
    onWire,   \* copies of the command of c that are sent and not executed
    reply,    \* what the server has answered the running call c, or None
    returned, \* keys SCAN has returned to the Clear c
    deleting, \* those of them it has not deleted yet
    faults

redisVars == <<time, db, expires, command, onWire, reply, returned, deleting,
               faults>>
vars == <<callVars, redisVars>>

RedisInit ==
    /\ time = 1
    /\ db \in [Keys -> {Old, None}]
    /\ expires = [k \in Keys |-> 0]
    /\ command = [c \in Calls |-> None]
    /\ onWire = [c \in Calls |-> 0]
    /\ reply = [c \in Calls |-> None]
    /\ returned = [c \in Calls |-> {}]
    /\ deleting = [c \in Calls |-> {}]
    /\ faults = 0

Init == CallInit /\ RedisInit

Deadline(e) == IF e.staleUntil > e.freshUntil THEN e.staleUntil ELSE e.freshUntil

\* Mutant: an entry past its deadline is given no expiry.
TTLCutAtZero(e, now) ==
    IF e.noExpire \/ Deadline(e) <= now THEN 0 ELSE Deadline(e) - now

\* storageTTL: 0 is no expiry; what is already too late gets the shortest one.
StorageTTL(e, now) ==
    IF e.noExpire \/ Deadline(e) = 0 THEN 0
    ELSE IF Deadline(e) <= now THEN 1
    ELSE Deadline(e) - now

------------------------------------------------------------------------------
(* Get, Set and Delete: one command each *)

OneCommand(c) == op[c] \in {"Get", "Set", "Delete"}

Sends(c) ==
    /\ onWire[c] < MaxOnWire
    /\ onWire' = [onWire EXCEPT ![c] = @ + 1]

\* Set computes the TTL before it sends, from the wall clock of that moment.
Begin(c) ==
    /\ Begins(c, StoreOps)
    /\ IF op'[c] = "Clear" THEN UNCHANGED onWire ELSE Sends(c)
    /\ IF op'[c] = "Set"
       THEN \E e \in Envelopes :
               command' = [command EXCEPT ![c] =
                             [envelope |-> e, ttl |-> StorageTTL(e, time)]]
       ELSE UNCHANGED command
    /\ UNCHANGED <<time, db, expires, reply, returned, deleting, faults>>

\* The client lost a connection and sends the same command on another one.  A
\* Get that is sent again is the same as one executed later.
SendAgain(c) ==
    /\ pc[c] = "running" /\ op[c] \in {"Set", "Delete"}
    /\ Sends(c) /\ Goes(c)
    /\ UNCHANGED <<time, db, expires, command, reply, returned, deleting, faults>>

\* Nobody waits for the answer when the call has ended.
Executed(c, answered) ==
    /\ onWire[c] > 0
    /\ onWire' = [onWire EXCEPT ![c] = @ - 1]
    /\ reply' = [reply EXCEPT ![c] = IF pc[c] = "running" THEN answered ELSE None]

ServerGets(c) ==
    /\ op[c] = "Get" /\ Executed(c, [entry |-> db[key[c]]])
    /\ Goes(c)
    /\ UNCHANGED <<time, db, expires, command, returned, deleting, faults>>

\* The TTL counts from the moment the server executes the command.
ServerSets(c) ==
    /\ op[c] = "Set" /\ Executed(c, [entry |-> None])
    /\ db' = [db EXCEPT ![key[c]] = c]
    /\ expires' = [expires EXCEPT ![key[c]] =
                     IF command[c].ttl = 0 THEN 0 ELSE time + command[c].ttl]
    /\ Goes(c)
    /\ UNCHANGED <<time, command, returned, deleting, faults>>

Drops(k) ==
    /\ db' = [db EXCEPT ![k] = None]
    /\ expires' = [expires EXCEPT ![k] = 0]

ServerDeletes(c) ==
    /\ op[c] = "Delete" /\ Executed(c, [entry |-> None])
    /\ Drops(key[c])
    /\ Goes(c)
    /\ UNCHANGED <<time, command, returned, deleting, faults>>

\* What the client knows of calls that have ended is gone.
Forgets(S) ==
    /\ reply' = [c \in Calls |-> IF c \in S THEN None ELSE reply[c]]
    /\ returned' = [c \in Calls |-> IF c \in S THEN {} ELSE returned[c]]
    /\ deleting' = [c \in Calls |-> IF c \in S THEN {} ELSE deleting[c]]

\* redis.Nil is a miss, not an error.
ReplyArrives(c) ==
    /\ pc[c] = "running" /\ OneCommand(c) /\ reply[c] # None
    /\ Answers(c, reply[c].entry)
    /\ Forgets({c})
    /\ UNCHANGED <<time, db, expires, command, onWire, faults>>

------------------------------------------------------------------------------
(* Clear *)

\* A page of SCAN: keys under the prefix that the server holds now.
ScanPage(c) ==
    /\ Doing(c, "Clear") /\ deleting[c] = {}
    /\ \E page \in SUBSET {k \in Keys \ returned[c] : db[k] # None} :
          /\ page # {}
          /\ deleting' = [deleting EXCEPT ![c] = page]
          /\ returned' = [returned EXCEPT ![c] = @ \cup page]
    /\ Goes(c)
    /\ UNCHANGED <<time, db, expires, command, onWire, reply, faults>>

ClearDeletes(c) ==
    /\ Doing(c, "Clear")
    /\ \E k \in deleting[c] :
          /\ Drops(k)
          /\ deleting' = [deleting EXCEPT ![c] = @ \ {k}]
    /\ Goes(c)
    /\ UNCHANGED <<time, command, onWire, reply, returned, faults>>

\* What SCAN promises: a key that was there from its first page to its last is
\* among those it returned.
ScanOwes(c) == {k \in Keys \ returned[c] : None \notin seen[c][k]}

\* Mutant: Clear ends with the last page, its keys not deleted.
ClearKeepsLastPage(c) ==
    /\ Doing(c, "Clear") /\ ScanOwes(c) = {}
    /\ Answers(c, None)
    /\ Forgets({c})
    /\ UNCHANGED <<time, db, expires, command, onWire, faults>>

ClearReturns(c) ==
    /\ Doing(c, "Clear") /\ deleting[c] = {} /\ ScanOwes(c) = {}
    /\ Answers(c, None)
    /\ Forgets({c})
    /\ UNCHANGED <<time, db, expires, command, onWire, faults>>

------------------------------------------------------------------------------
(* Failures, the server and time *)

Fault == faults < MaxFaults /\ faults' = faults + 1

\* The serializer, the client, a timeout or, for Get, the bytes found; or nobody
\* is left to see it, since the process is gone.  A Clear leaves the rest undeleted.
CallFails(c) ==
    /\ pc[c] = "running" /\ Fault /\ Fails(c) /\ Forgets({c})
    /\ UNCHANGED <<time, db, expires, command, onWire>>

\* Memory limits, a restart, another program.
ServerDrops(k) ==
    /\ db[k] # None /\ Fault
    /\ Drops(k) /\ NoneMoves
    /\ UNCHANGED <<time, command, onWire, reply, returned, deleting>>

\* Time passes, and the server drops what has reached its expiry.
Tick ==
    /\ time < MaxTime
    /\ time' = time + 1
    /\ db' = [k \in Keys |-> IF expires[k] = time' THEN None ELSE db[k]]
    /\ expires' = [k \in Keys |-> IF expires[k] = time' THEN 0 ELSE expires[k]]
    /\ NoneMoves
    /\ UNCHANGED <<command, onWire, reply, returned, deleting, faults>>

Quiescent == Over /\ NoneMoves /\ UNCHANGED redisVars

CallStep(c) ==
    \/ Begin(c) \/ SendAgain(c) \/ ServerGets(c) \/ ServerSets(c)
    \/ ServerDeletes(c) \/ ReplyArrives(c) \/ ScanPage(c) \/ ClearDeletes(c)
    \/ ClearReturns(c) \/ CallFails(c)

Next ==
    /\ \/ \E c \in Calls : CallStep(c)
       \/ \E k \in Keys : ServerDrops(k)
       \/ Tick \/ Quiescent
    /\ Watch(db')

Spec == Init /\ [][Next]_vars

------------------------------------------------------------------------------
(* Correctness *)

TypeOK ==
    /\ CallTypes
    /\ time \in 1..MaxTime
    /\ db \in [Keys -> Entries \cup {None}] /\ expires \in [Keys -> Nat]
    /\ command \in [Calls -> [envelope : Envelopes, ttl : Nat] \cup {None}]
    /\ onWire \in [Calls -> 0..MaxOnWire]
    /\ reply \in [Calls -> [entry : Entries \cup {None}] \cup {None}]
    /\ returned \in [Calls -> SUBSET Keys] /\ deleting \in [Calls -> SUBSET Keys]
    /\ faults \in 0..MaxFaults

\* The expiry the server is given fits the entry's own deadlines (storageTTL,
\* store.go:161-177), however late or often the command arrives: the server never
\* drops an entry the engine would still serve, and keeps none for ever that has
\* a deadline.
ExpiryFitsDeadline ==
    \A k \in Keys : db[k] \in Calls =>
        LET e == command[db[k]].envelope IN
        IF e.noExpire \/ Deadline(e) = 0 THEN expires[k] = 0
                                         ELSE expires[k] >= Deadline(e)

Contract == INSTANCE StoreContract WITH
    content <- db, late <- TRUE, spared <- [c \in Calls |-> {}]

\* A Redis server that loses, delays and repeats commands is a store all the same,
\* but a Set may take effect after it has ended (adapters/redis/store.go:114-159).
ImplementsContract == Contract!Spec
==============================================================================
