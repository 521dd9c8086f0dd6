----------------------------- MODULE StoresProofs ----------------------------
(***************************************************************************)
(* Every store implements StoreContract, with any number of calls and keys *)
(* and, for the local and the redis store, of failures, kills and losses   *)
(* of power or of copies of a command on the way.  The redis store gives   *)
(* every entry an expiry that fits its deadlines, files are whole, and the *)
(* shards together keep the limits of the whole store.  First the redis    *)
(* store, whose definitions Stores extends; then the others; and in the    *)
(* end Stores, whose behaviours are those of each of them.                 *)
(***************************************************************************)
EXTENDS Stores, Sequences, FiniteSetTheorems, WellFoundedInduction, TLAPS

------------------------------------------------------------------------------
(* THE REDIS STORE *)


------------------------------------------------------------------------------
(* The invariant *)

\* What a call does is settled when it begins; the client forgets a call that has
\* ended, the network need not.
Keyed ==
    \A c \in Calls :
        /\ pc[c] = "new" => onWire[c] = 0 /\ command[c] = None
        /\ pc[c] = "running" =>
              op[c] \in StoreOps /\ (op[c] \in Sweeps \/ key[c] \in Keys)
        /\ pc[c] # "running" =>
              reply[c] = None /\ returned[c] = {} /\ deleting[c] = {}
        /\ pc[c] # "new" /\ op[c] = "Set" => command[c] # None /\ key[c] \in Keys

\* The TTL of a Set was right when it was sent; the later it is executed, the later
\* the expiry.
CommandFits(c) ==
    command[c] # None =>
        LET e == command[c].envelope IN
        IF e.noExpire \/ Deadline(e) = 0
        THEN command[c].ttl = 0
        ELSE command[c].ttl > 0 /\ time + command[c].ttl >= Deadline(e)

CommandsFit == \A c \in Calls : CommandFits(c)

\* An entry in the server is that of a Set of its key, and has the expiry its command
\* gave it.
Stored(k) ==
    db[k] \in Calls =>
        /\ pc[db[k]] # "new" /\ op[db[k]] = "Set" /\ key[db[k]] = k
        /\ command[db[k]] # None
        /\ LET e == command[db[k]].envelope IN
           IF e.noExpire \/ Deadline(e) = 0 THEN expires[k] = 0
                                            ELSE expires[k] >= Deadline(e)

AllStored == \A k \in Keys : Stored(k)

\* The server did what its answer says while the call was running.
ReplyWasSeen(c) ==
    pc[c] = "running" /\ reply[c] # None =>
        CASE op[c] = "Get"    -> reply[c].entry \in seen[c][key[c]]
          [] op[c] = "Set"    -> c \in seen[c][key[c]]
          [] op[c] = "Delete" -> None \in seen[c][key[c]]
          [] OTHER            -> FALSE

\* A key that SCAN returned and Clear has deleted was empty at that moment.
DeletedWasSeen(c) ==
    Doing(c, "Clear") => \A k \in returned[c] \ deleting[c] : None \in seen[c][k]

SeenBy(c) == ReplyWasSeen(c) /\ DeletedWasSeen(c)
AllSee == \A c \in Calls : SeenBy(c)

RedisInv ==
    /\ TypeOK
    /\ Keyed
    /\ CommandsFit
    /\ AllStored
    /\ AllSee
------------------------------------------------------------------------------
(* Types *)

\* storageTTL fits the deadline, from the moment it is computed on.
LEMMA TTLFits ==
    ASSUME NEW e \in Envelopes, NEW now \in Nat
    PROVE  /\ StorageTTL(e, now) \in Nat
           /\ IF e.noExpire \/ Deadline(e) = 0
              THEN StorageTTL(e, now) = 0
              ELSE StorageTTL(e, now) > 0 /\ now + StorageTTL(e, now) >= Deadline(e)
<1>1. Deadline(e) \in Nat
    BY RedisAssumption DEF Deadline
<1> QED
    BY <1>1 DEF StorageTTL

LEMMA CommandMade ==
    ASSUME NEW e \in Envelopes, NEW now \in Nat
    PROVE  /\ [envelope |-> e, ttl |-> StorageTTL(e, now)] \in [envelope : Envelopes, ttl : Nat]
           /\ [envelope |-> e, ttl |-> StorageTTL(e, now)] # None
<1>1. [envelope |-> e, ttl |-> StorageTTL(e, now)] \in [envelope : Envelopes, ttl : Nat]
    BY TTLFits
<1> QED
    BY <1>1, RedisAssumption

\* The copies of the command of c: one more sent, one executed.
LEMMA SendsType ==
    ASSUME TypeOK, NEW c \in Calls, Sends(c)
    PROVE  /\ onWire' \in [Calls -> 0..MaxOnWire]
           /\ \A d \in Calls \ {c} : onWire'[d] = onWire[d]
<1>1. onWire \in [Calls -> 0..MaxOnWire]
    BY DEF TypeOK
<1>2. onWire[c] + 1 \in 0..MaxOnWire
    <2>1. onWire[c] \in 0..MaxOnWire /\ onWire[c] < MaxOnWire
        BY <1>1 DEF Sends
    <2> QED
        BY ONLY <2>1, RedisAssumption
<1>3. onWire' = [onWire EXCEPT ![c] = onWire[c] + 1]
    BY DEF Sends
<1> QED
    BY ONLY <1>1, <1>2, <1>3

LEMMA ExecutedType ==
    ASSUME TypeOK, NEW c \in Calls, NEW answered, Executed(c, answered)
    PROVE  /\ onWire' \in [Calls -> 0..MaxOnWire] /\ onWire[c] > 0
           /\ \A d \in Calls : onWire'[d] > 0 => onWire[d] > 0
           /\ DOMAIN reply' = Calls
           /\ reply'[c] = IF pc[c] = "running" THEN answered ELSE None
           /\ \A d \in Calls \ {c} : reply'[d] = reply[d]
<1>1. onWire \in [Calls -> 0..MaxOnWire] /\ DOMAIN reply = Calls
    BY DEF TypeOK
<1>2. onWire' = [onWire EXCEPT ![c] = onWire[c] - 1] /\ onWire[c] > 0
    BY DEF Executed
<1>3. reply' = [reply EXCEPT ![c] = IF pc[c] = "running" THEN answered ELSE None]
    BY DEF Executed
<1>4. onWire[c] \in 0..MaxOnWire /\ onWire[c] - 1 \in 0..MaxOnWire
    BY ONLY <1>1, <1>2, RedisAssumption
<1>5. /\ onWire' \in [Calls -> 0..MaxOnWire]
      /\ \A d \in Calls \ {c} : onWire'[d] = onWire[d]
    BY ONLY <1>1, <1>2, <1>4
<1> QED
    BY ONLY <1>1, <1>2, <1>3, <1>5

\* TypeOK but for the history.
RedisTypes ==
    /\ pc \in [Calls -> {"new", "running", "ok", "error", "dead"}]
    /\ op \in [Calls -> TaggedOps \cup {None}] /\ key \in [Calls -> Keys \cup {None}]
    /\ answer \in [Calls -> Entries \cup {None}]
    /\ time \in 1..MaxTime
    /\ db \in [Keys -> Entries \cup {None}] /\ expires \in [Keys -> Nat]
    /\ command \in [Calls -> [envelope : Envelopes, ttl : Nat] \cup {None}]
    /\ onWire \in [Calls -> 0..MaxOnWire]
    /\ reply \in [Calls -> [entry : Entries \cup {None}] \cup {None}]
    /\ returned \in [Calls -> SUBSET Keys] /\ deleting \in [Calls -> SUBSET Keys]
    /\ faults \in 0..MaxFaults

LEMMA TypesStep ==
    ASSUME TypeOK, Keyed, Next
    PROVE  RedisTypes'
<1> USE DEF TypeOK, RedisTypes, CallTypes, redisVars, Entries
<1>1. ASSUME NEW c \in Calls, Begin(c) PROVE RedisTypes'
    <2>1. /\ pc' = [pc EXCEPT ![c] = "running"] /\ answer' = answer
          /\ op' \in [Calls -> TaggedOps \cup {None}]
          /\ key' \in [Calls -> Keys \cup {None}]
        BY <1>1 DEF Begin, Begins, StoreOps, TaggedOps
    <2>2. onWire' \in [Calls -> 0..MaxOnWire]
        BY <1>1, SendsType DEF Begin
    <2>3. command' \in [Calls -> [envelope : Envelopes, ttl : Nat] \cup {None}]
        <3>1. command \in [Calls -> [envelope : Envelopes, ttl : Nat] \cup {None}]
            OBVIOUS
        <3>2. time \in Nat
            BY RedisAssumption
        <3>3. \/ command' = command
              \/ \E e \in Envelopes :
                    command' = [command EXCEPT ![c] =
                                  [envelope |-> e, ttl |-> StorageTTL(e, time)]]
            BY <1>1 DEF Begin
        <3> QED
            BY ONLY <3>1, <3>2, <3>3, CommandMade
    <2>4. UNCHANGED <<time, db, expires, reply, returned, deleting, faults>>
        BY <1>1 DEF Begin
    <2> QED
        BY <2>1, <2>2, <2>3, <2>4
<1>2. ASSUME NEW c \in Calls, SendAgain(c) PROVE RedisTypes'
    BY <1>2, SendsType DEF SendAgain, Goes, NoneMoves
<1>3. ASSUME NEW c \in Calls, ServerGets(c) PROVE RedisTypes'
    <2>1. onWire' \in [Calls -> 0..MaxOnWire]
        BY <1>3, ExecutedType DEF ServerGets
    <2>2. reply' \in [Calls -> [entry : Entries \cup {None}] \cup {None}]
        BY <1>3 DEF ServerGets, Executed, Keyed, Sweeps
    <2> QED
        BY <1>3, <2>1, <2>2 DEF ServerGets, Goes, NoneMoves
<1>4. ASSUME NEW c \in Calls, ServerSets(c) PROVE RedisTypes'
    <2>1. onWire' \in [Calls -> 0..MaxOnWire]
        BY <1>4, ExecutedType DEF ServerSets
    <2>2. command[c] \in [envelope : Envelopes, ttl : Nat]
        BY <1>4 DEF ServerSets, Executed, Keyed
    <2>3. expires' \in [Keys -> Nat]
        <3>1. /\ expires' = [expires EXCEPT ![key[c]] =
                              IF command[c].ttl = 0 THEN 0 ELSE time + command[c].ttl]
              /\ expires \in [Keys -> Nat] /\ time \in Nat /\ command[c].ttl \in Nat
            BY <1>4, <2>2, RedisAssumption DEF ServerSets
        <3>2. (IF command[c].ttl = 0 THEN 0 ELSE time + command[c].ttl) \in Nat
            BY ONLY <3>1
        <3> QED
            BY ONLY <3>1, <3>2
    <2> QED
        BY <1>4, <2>1, <2>3 DEF ServerSets, Executed, Goes, NoneMoves
<1>5. ASSUME NEW c \in Calls, ServerDeletes(c) PROVE RedisTypes'
    <2>1. onWire' \in [Calls -> 0..MaxOnWire]
        BY <1>5, ExecutedType DEF ServerDeletes
    <2> QED
        BY <1>5, <2>1 DEF ServerDeletes, Executed, Drops, Goes, NoneMoves
<1>6. ASSUME NEW c \in Calls, ReplyArrives(c) PROVE RedisTypes'
    <2>1. reply[c].entry \in Entries \cup {None}
        BY <1>6 DEF ReplyArrives
    <2> QED
        BY <1>6, <2>1 DEF ReplyArrives, Answers, Forgets
<1>7. ASSUME NEW c \in Calls, ScanPage(c) PROVE RedisTypes'
    BY <1>7 DEF ScanPage, Goes, NoneMoves
<1>8. ASSUME NEW c \in Calls, ClearDeletes(c) PROVE RedisTypes'
    BY <1>8 DEF ClearDeletes, Drops, Goes, NoneMoves
<1>9. ASSUME NEW c \in Calls, ClearReturns(c) PROVE RedisTypes'
    BY <1>9 DEF ClearReturns, Answers, Forgets
<1>10. ASSUME NEW c \in Calls, CallFails(c) PROVE RedisTypes'
    BY <1>10, RedisAssumption DEF CallFails, Fault, Fails, Forgets
<1>11. ASSUME NEW k \in Keys, ServerDrops(k) PROVE RedisTypes'
    BY <1>11, RedisAssumption DEF ServerDrops, Fault, Drops, NoneMoves
<1>12. CASE Tick
    <2>1. time' \in 1..MaxTime
        BY <1>12, RedisAssumption DEF Tick
    <2> QED
        BY <1>12, <2>1 DEF Tick, NoneMoves
<1>13. CASE NoneMoves /\ UNCHANGED redisVars
    BY <1>13 DEF NoneMoves
<1> QED
    BY <1>1, <1>2, <1>3, <1>4, <1>5, <1>6, <1>7, <1>8, <1>9, <1>10, <1>11,
        <1>12, <1>13
    DEF Next, CallStep, Quiescent

LEMMA SeenType ==
    ASSUME TypeOK, db' \in [Keys -> Entries \cup {None}], Watch(db')
    PROVE  seen' \in [Calls -> [Keys -> SUBSET (Entries \cup {None})]]
<1>1. \A c \in Calls : Watched(c, db') \in [Keys -> SUBSET (Entries \cup {None})]
    BY DEF Watched, TypeOK, CallTypes
<1> QED
    BY <1>1 DEF Watch

LEMMA TypeStep ==
    ASSUME TypeOK, Keyed, [Next]_vars
    PROVE  TypeOK'
<1>1. CASE Next
    <2>1. RedisTypes'
        BY <1>1, TypesStep
    <2>2. seen' \in [Calls -> [Keys -> SUBSET (Entries \cup {None})]]
        BY <1>1, <2>1, SeenType DEF RedisTypes, Next
    <2> QED
        BY <2>1, <2>2 DEF RedisTypes, TypeOK, CallTypes
<1>2. CASE UNCHANGED vars
    BY <1>2 DEF vars, redisVars, callVars, TypeOK, CallTypes
<1> QED
    BY <1>1, <1>2

------------------------------------------------------------------------------
(* Calls and their commands *)

\* What a call does and what it has sent is settled when it has begun.
Settled ==
    \A d \in Calls : pc[d] # "new" =>
        pc'[d] # "new" /\ UNCHANGED <<op[d], key[d], command[d]>>

LEMMA SettledStep ==
    ASSUME TypeOK, Next
    PROVE  Settled
<1> USE DEF TypeOK, CallTypes, redisVars, Settled
<1>1. ASSUME NEW c \in Calls, Begin(c) PROVE Settled
    <2>1. DOMAIN command = Calls
        OBVIOUS
    <2>2. \A d \in Calls \ {c} : command'[d] = command[d]
        BY ONLY <1>1, <2>1 DEF Begin
    <2> QED
        BY <1>1, <2>2 DEF Begin, Begins
<1>2. ASSUME NEW c \in Calls, SendAgain(c) PROVE Settled
    BY <1>2 DEF SendAgain, Goes, NoneMoves
<1>3. ASSUME NEW c \in Calls, ServerGets(c) PROVE Settled
    BY <1>3 DEF ServerGets, Goes, NoneMoves
<1>4. ASSUME NEW c \in Calls, ServerSets(c) PROVE Settled
    BY <1>4 DEF ServerSets, Goes, NoneMoves
<1>5. ASSUME NEW c \in Calls, ServerDeletes(c) PROVE Settled
    BY <1>5 DEF ServerDeletes, Goes, NoneMoves
<1>6. ASSUME NEW c \in Calls, ReplyArrives(c) PROVE Settled
    BY <1>6 DEF ReplyArrives, Answers, Forgets
<1>7. ASSUME NEW c \in Calls, ScanPage(c) PROVE Settled
    BY <1>7 DEF ScanPage, Goes, NoneMoves
<1>8. ASSUME NEW c \in Calls, ClearDeletes(c) PROVE Settled
    BY <1>8 DEF ClearDeletes, Drops, Goes, NoneMoves
<1>9. ASSUME NEW c \in Calls, ClearReturns(c) PROVE Settled
    BY <1>9 DEF ClearReturns, Answers, Forgets
<1>10. ASSUME NEW c \in Calls, CallFails(c) PROVE Settled
    BY <1>10 DEF CallFails, Fault, Fails, Forgets
<1>11. ASSUME NEW k \in Keys, ServerDrops(k) PROVE Settled
    BY <1>11 DEF ServerDrops, Fault, Drops, NoneMoves
<1>12. CASE Tick
    BY <1>12 DEF Tick, NoneMoves
<1>13. CASE NoneMoves /\ UNCHANGED redisVars
    BY <1>13 DEF NoneMoves
<1> QED
    BY <1>1, <1>2, <1>3, <1>4, <1>5, <1>6, <1>7, <1>8, <1>9, <1>10, <1>11,
        <1>12, <1>13
    DEF Next, CallStep, Quiescent

LEMMA KeyedStep ==
    ASSUME TypeOK, Keyed, Next
    PROVE  Keyed'
<1> USE DEF TypeOK, CallTypes, redisVars, Keyed
<1>1. ASSUME NEW c \in Calls, Begin(c) PROVE Keyed'
    <2>1. /\ pc[c] = "new" /\ pc' = [pc EXCEPT ![c] = "running"]
          /\ op'[c] \in StoreOps /\ (op'[c] \in Sweeps \/ key'[c] \in Keys)
          /\ op'[c] = "Set" => key'[c] \in Keys
          /\ \A d \in Calls \ {c} : UNCHANGED <<op[d], key[d]>>
          /\ UNCHANGED <<reply, returned, deleting>>
        BY <1>1 DEF Begin, Begins, Sweeps
    <2>2. /\ DOMAIN command = Calls
          /\ \A d \in Calls \ {c} : onWire'[d] = onWire[d]
        BY <1>1, SendsType DEF Begin
    <2>3. time \in Nat
        BY RedisAssumption
    <2>4. /\ \A d \in Calls \ {c} : command'[d] = command[d]
          /\ op'[c] = "Set" => command'[c] # None
        BY ONLY <1>1, <2>2, <2>3, CommandMade DEF Begin
    <2> QED
        BY <2>1, <2>2, <2>4
<1>2. ASSUME NEW c \in Calls, SendAgain(c) PROVE Keyed'
    <2>1. /\ UNCHANGED <<pc, op, key, command, reply, returned, deleting>>
          /\ \A d \in Calls \ {c} : onWire'[d] = onWire[d]
        BY <1>2, SendsType DEF SendAgain, Goes, NoneMoves
    <2>2. /\ pc[c] = "running"
          /\ op[c] = "Set" => key[c] \in Keys /\ command[c] # None
        BY <1>2 DEF SendAgain, Sweeps
    <2> QED
        BY <2>1, <2>2
<1>3. ASSUME NEW c \in Calls, ServerGets(c) PROVE Keyed'
    <2> DEFINE a == [entry |-> db[key[c]]]
    <2>1. UNCHANGED <<pc, op, key, command, returned, deleting>> /\ Executed(c, a)
        BY <1>3 DEF ServerGets, Goes, NoneMoves
    <2> QED
        BY <2>1, ExecutedType
<1>4. ASSUME NEW c \in Calls, ServerSets(c) PROVE Keyed'
    BY <1>4 DEF ServerSets, Executed, Goes, NoneMoves
<1>5. ASSUME NEW c \in Calls, ServerDeletes(c) PROVE Keyed'
    BY <1>5 DEF ServerDeletes, Executed, Drops, Goes, NoneMoves
<1>6. ASSUME NEW c \in Calls, ReplyArrives(c) PROVE Keyed'
    BY <1>6 DEF ReplyArrives, Answers, Forgets
<1>7. ASSUME NEW c \in Calls, ScanPage(c) PROVE Keyed'
    BY <1>7 DEF ScanPage, Doing, Goes, NoneMoves
<1>8. ASSUME NEW c \in Calls, ClearDeletes(c) PROVE Keyed'
    BY <1>8 DEF ClearDeletes, Doing, Goes, NoneMoves
<1>9. ASSUME NEW c \in Calls, ClearReturns(c) PROVE Keyed'
    BY <1>9 DEF ClearReturns, Doing, Answers, Forgets
<1>10. ASSUME NEW c \in Calls, CallFails(c) PROVE Keyed'
    BY <1>10 DEF CallFails, Fault, Fails, Forgets
<1>11. ASSUME NEW k \in Keys, ServerDrops(k) PROVE Keyed'
    BY <1>11 DEF ServerDrops, Fault, Drops, NoneMoves
<1>12. CASE Tick
    BY <1>12 DEF Tick, NoneMoves
<1>13. CASE NoneMoves /\ UNCHANGED redisVars
    BY <1>13 DEF NoneMoves
<1> QED
    BY <1>1, <1>2, <1>3, <1>4, <1>5, <1>6, <1>7, <1>8, <1>9, <1>10, <1>11,
        <1>12, <1>13
    DEF Next, CallStep, Quiescent

------------------------------------------------------------------------------
(* Expiry *)

LEMMA CommandsStep ==
    ASSUME TypeOK, CommandsFit, Next
    PROVE  CommandsFit'
<1>1. time \in Nat /\ time' \in Nat /\ time' >= time
    <2>1. time \in 1..MaxTime
        BY DEF TypeOK
    <2>2. time' = time \/ time' = time + 1
        BY DEF Next, CallStep, Begin, SendAgain, ServerGets, ServerSets, ServerDeletes,
               ReplyArrives, ScanPage, ClearDeletes, ClearReturns, CallFails,
               ServerDrops, Tick, Quiescent, redisVars
    <2> QED
        BY ONLY <2>1, <2>2, RedisAssumption
<1>2. SUFFICES ASSUME NEW c \in Calls, command'[c] # None
               PROVE  CommandFits(c)'
    BY DEF CommandsFit, CommandFits
<1>3. CASE command'[c] = command[c]
    <2>1. command[c].envelope \in Envelopes /\ command[c].ttl \in Nat
        BY <1>2, <1>3 DEF TypeOK
    <2>2. Deadline(command[c].envelope) \in Nat
        BY <2>1, RedisAssumption DEF Deadline
    <2>3. CommandFits(c)
        BY DEF CommandsFit
    <2> QED
        BY ONLY <1>1, <1>2, <1>3, <2>1, <2>2, <2>3 DEF CommandFits
<1>4. CASE command'[c] # command[c]
    <2>1. PICK e \in Envelopes :
             command'[c] = [envelope |-> e, ttl |-> StorageTTL(e, time)] /\ time' = time
        <3>1. DOMAIN command = Calls
            BY DEF TypeOK
        <3>2. PICK d \in Calls : Begin(d)
            BY <1>4
            DEF Next, CallStep, SendAgain, ServerGets, ServerSets, ServerDeletes,
                ReplyArrives, ScanPage, ClearDeletes, ClearReturns, CallFails,
                ServerDrops, Tick, Quiescent, redisVars
        <3> QED
            BY ONLY <1>4, <3>1, <3>2 DEF Begin
    <2> QED
        BY ONLY <1>1, <2>1, TTLFits DEF CommandFits
<1> QED
    BY <1>3, <1>4

\* What a step does to the server: nothing; a Set; or some keys become empty.
Untouched == db' = db /\ expires' = expires

Sets(c) ==
    /\ op[c] = "Set" /\ pc[c] # "new" /\ key[c] \in Keys /\ command[c] # None
    /\ db' = [db EXCEPT ![key[c]] = c]
    /\ expires' = [expires EXCEPT ![key[c]] =
                     IF command[c].ttl = 0 THEN 0 ELSE time + command[c].ttl]

Empties ==
    \A k \in Keys : db'[k] = None \/ (db'[k] = db[k] /\ expires'[k] = expires[k])

ServerMoves == Untouched \/ (\E c \in Calls : Sets(c)) \/ Empties

LEMMA ServerStep ==
    ASSUME TypeOK, Keyed, Next
    PROVE  ServerMoves
<1> USE DEF TypeOK, redisVars, ServerMoves
<1>1. ASSUME NEW c \in Calls, Begin(c) PROVE ServerMoves
    BY <1>1 DEF Begin, Untouched
<1>2. ASSUME NEW c \in Calls, SendAgain(c) PROVE ServerMoves
    BY <1>2 DEF SendAgain, Untouched
<1>3. ASSUME NEW c \in Calls, ServerGets(c) PROVE ServerMoves
    BY <1>3 DEF ServerGets, Untouched
<1>4. ASSUME NEW c \in Calls, ServerSets(c) PROVE ServerMoves
    <2>1. onWire[c] > 0 /\ op[c] = "Set"
        BY <1>4 DEF ServerSets, Executed
    <2>2. pc[c] # "new"
        BY <2>1 DEF Keyed
    <2>3. key[c] \in Keys /\ command[c] # None
        BY <2>1, <2>2 DEF Keyed
    <2>4. Sets(c)
        BY <1>4, <2>1, <2>2, <2>3 DEF ServerSets, Sets
    <2> QED
        BY <2>4 DEF ServerMoves
<1>5. ASSUME NEW c \in Calls, ServerDeletes(c) PROVE ServerMoves
    BY <1>5 DEF ServerDeletes, Drops, Empties
<1>6. ASSUME NEW c \in Calls, ReplyArrives(c) PROVE ServerMoves
    BY <1>6 DEF ReplyArrives, Untouched
<1>7. ASSUME NEW c \in Calls, ScanPage(c) PROVE ServerMoves
    BY <1>7 DEF ScanPage, Untouched
<1>8. ASSUME NEW c \in Calls, ClearDeletes(c) PROVE ServerMoves
    BY <1>8 DEF ClearDeletes, Drops, Empties
<1>9. ASSUME NEW c \in Calls, ClearReturns(c) PROVE ServerMoves
    BY <1>9 DEF ClearReturns, Untouched
<1>10. ASSUME NEW c \in Calls, CallFails(c) PROVE ServerMoves
    BY <1>10 DEF CallFails, Untouched
<1>11. ASSUME NEW k \in Keys, ServerDrops(k) PROVE ServerMoves
    BY <1>11 DEF ServerDrops, Drops, Empties
<1>12. CASE Tick
    BY <1>12 DEF Tick, Empties
<1>13. CASE NoneMoves /\ UNCHANGED redisVars
    BY <1>13 DEF Untouched
<1> QED
    BY <1>1, <1>2, <1>3, <1>4, <1>5, <1>6, <1>7, <1>8, <1>9, <1>10, <1>11,
        <1>12, <1>13
    DEF Next, CallStep, Quiescent

LEMMA StoredStep ==
    ASSUME TypeOK, Keyed, CommandsFit, AllStored, Next
    PROVE  AllStored'
<1>1. ServerMoves /\ Settled
    BY ServerStep, SettledStep
<1>2. SUFFICES ASSUME NEW k \in Keys, db'[k] \in Calls
               PROVE  Stored(k)'
    BY DEF AllStored, Stored
<1>3. CASE db'[k] = db[k] /\ expires'[k] = expires[k]
    BY <1>1, <1>2, <1>3 DEF AllStored, Stored, Settled
<1>4. CASE \E c \in Calls : Sets(c) /\ k = key[c]
    <2>1. PICK c \in Calls : Sets(c) /\ k = key[c]
        BY <1>4
    <2>2. /\ db'[k] = c
          /\ expires'[k] = IF command[c].ttl = 0 THEN 0 ELSE time + command[c].ttl
        BY <2>1 DEF Sets, TypeOK
    <2>3. pc'[c] # "new" /\ op'[c] = "Set" /\ key'[c] = k /\ command'[c] = command[c]
        BY <1>1, <2>1 DEF Sets, Settled
    <2>4. CommandFits(c) /\ command[c] # None
        BY <2>1 DEF CommandsFit, Sets
    <2> DEFINE e == command[c].envelope
    <2>5. IF e.noExpire \/ Deadline(e) = 0 THEN expires'[k] = 0
                                           ELSE expires'[k] >= Deadline(e)
        <3>1. command[c].ttl \in Nat /\ time \in Nat
            BY <2>4, RedisAssumption DEF TypeOK
        <3> QED
            BY ONLY <2>2, <2>4, <3>1 DEF CommandFits
    <2> QED
        BY ONLY <2>2, <2>3, <2>4, <2>5 DEF Stored
<1>5. CASE db'[k] = None
    BY <1>2, <1>5, CallsAssumption
<1> QED
    <2>1. ASSUME NEW c \in Calls, Sets(c), k # key[c]
          PROVE  db'[k] = db[k] /\ expires'[k] = expires[k]
        BY <2>1 DEF Sets, TypeOK
    <2> QED
        BY <1>1, <1>3, <1>4, <1>5, <2>1 DEF ServerMoves, Untouched, Empties

------------------------------------------------------------------------------
(* What a call has seen *)

LEMMA SeenGrows ==
    ASSUME Next, NEW c \in Calls, pc'[c] = "running",
           op'[c] = op[c], key'[c] = key[c],
           NEW k \in Keys, op[c] \in Sweeps \/ k = key[c]
    PROVE  seen'[c][k] = seen[c][k] \cup {db'[k]}
BY DEF Next, Watch, Watched, Touched

\* A step that changes none of what d has in hand.
Calm(d) ==
    pc'[d] = "running" =>
        pc[d] = "running" /\ UNCHANGED <<op[d], key[d], reply[d], returned[d], deleting[d]>>

LEMMA CalmKeepsSeen ==
    ASSUME TypeOK, Keyed, Next, NEW d \in Calls, SeenBy(d), Calm(d)
    PROVE  SeenBy(d)'
<1>1. ASSUME pc'[d] = "running", reply'[d] # None PROVE ReplyWasSeen(d)'
    <2>1. /\ pc[d] = "running" /\ op'[d] = op[d] /\ key'[d] = key[d]
          /\ reply'[d] = reply[d] /\ ReplyWasSeen(d)
        BY <1>1 DEF Calm, SeenBy
    <2>2. op[d] \in {"Get", "Set", "Delete"} /\ key[d] \in Keys
        BY <1>1, <2>1 DEF ReplyWasSeen, Keyed, Sweeps
    <2>3. seen[d][key[d]] \subseteq seen'[d][key[d]]
        BY <1>1, <2>1, <2>2, SeenGrows
    <2> QED
        BY ONLY <1>1, <2>1, <2>2, <2>3 DEF ReplyWasSeen
<1>2. ASSUME Doing(d, "Clear")', NEW k \in returned'[d] \ deleting'[d]
      PROVE  None \in seen'[d][k]
    <2>1. /\ Doing(d, "Clear") /\ op'[d] = op[d] /\ key'[d] = key[d]
          /\ k \in returned[d] \ deleting[d]
        BY <1>2 DEF Doing, Calm
    <2>2. seen[d][k] \subseteq seen'[d][k]
        BY <1>2, <2>1, SeenGrows DEF Doing, Sweeps, TypeOK
    <2> QED
        BY <2>1, <2>2 DEF SeenBy, DeletedWasSeen
<1> QED
    BY <1>1, <1>2 DEF SeenBy, ReplyWasSeen, DeletedWasSeen

\* Who has no answer and has deleted nothing has nothing to remember.
Unseeing(c) == pc'[c] = "running" => reply'[c] = None /\ returned'[c] = {}

LEMMA UnseeingSees ==
    ASSUME NEW c \in Calls, Unseeing(c)
    PROVE  SeenBy(c)'
BY DEF Unseeing, SeenBy, ReplyWasSeen, DeletedWasSeen, Doing

Others(c) == \A d \in Calls \ {c} : Calm(d)

\* What the server answers to a call that is still running.
LEMMA AnswerWasSeen ==
    ASSUME TypeOK, Keyed, AllSee, Next, NEW c \in Calls, NEW answered,
           Executed(c, answered), NoneMoves, UNCHANGED <<returned, deleting>>,
           op[c] \in {"Get", "Set", "Delete"},
           key[c] \in Keys =>
               CASE op[c] = "Get"    -> answered.entry = db'[key[c]]
                 [] op[c] = "Set"    -> db'[key[c]] = c
                 [] op[c] = "Delete" -> db'[key[c]] = None
    PROVE  AllSee'
<1>1. /\ reply'[c] = IF pc[c] = "running" THEN answered ELSE None
      /\ \A d \in Calls \ {c} : reply'[d] = reply[d]
    BY ExecutedType
<1>2. UNCHANGED <<pc, op, key, returned, deleting>>
    BY DEF NoneMoves
<1>3. Others(c)
    BY ONLY <1>1, <1>2 DEF Others, Calm
<1>4. ASSUME pc[c] # "running" PROVE SeenBy(c)'
    BY <1>2, <1>4, UnseeingSees DEF Unseeing
<1>5. ASSUME pc[c] = "running" PROVE SeenBy(c)'
    <2>1. key[c] \in Keys
        BY <1>5 DEF Keyed, Sweeps
    <2>2. db'[key[c]] \in seen'[c][key[c]]
        BY <1>2, <1>5, <2>1, SeenGrows
    <2>3. ReplyWasSeen(c)'
        BY ONLY <1>1, <1>2, <1>5, <2>1, <2>2, op[c] \in {"Get", "Set", "Delete"},
                key[c] \in Keys =>
                    CASE op[c] = "Get"    -> answered.entry = db'[key[c]]
                      [] op[c] = "Set"    -> db'[key[c]] = c
                      [] op[c] = "Delete" -> db'[key[c]] = None
        DEF ReplyWasSeen
    <2>4. DeletedWasSeen(c)'
        BY <1>2 DEF DeletedWasSeen, Doing
    <2> QED
        BY <2>3, <2>4 DEF SeenBy
<1> QED
    BY <1>3, <1>4, <1>5, CalmKeepsSeen DEF Others, AllSee

LEMMA SeenStep ==
    ASSUME TypeOK, Keyed, AllSee, Next
    PROVE  AllSee'
<1> USE DEF TypeOK, CallTypes, redisVars, AllSee
<1>1. ASSUME NEW c \in Calls, Begin(c) PROVE AllSee'
    <2>1. Others(c)
        BY <1>1 DEF Begin, Begins, Others, Calm
    <2>2. Unseeing(c)
        BY <1>1 DEF Begin, Begins, Unseeing, Keyed
    <2> QED
        BY <2>1, <2>2, CalmKeepsSeen, UnseeingSees DEF Others
<1>2. ASSUME NEW c \in Calls, SendAgain(c) PROVE AllSee'
    <2>1. \A d \in Calls : Calm(d)
        BY <1>2 DEF SendAgain, Goes, NoneMoves, Calm
    <2> QED
        BY <2>1, CalmKeepsSeen
<1>3. ASSUME NEW c \in Calls, ServerGets(c) PROVE AllSee'
    <2>1. db' = db /\ [entry |-> db[key[c]]].entry = db[key[c]]
        BY <1>3 DEF ServerGets
    <2> QED
        BY <1>3, <2>1, AnswerWasSeen DEF ServerGets, Goes
<1>4. ASSUME NEW c \in Calls, ServerSets(c) PROVE AllSee'
    <2>1. key[c] \in Keys => db'[key[c]] = c
        BY <1>4 DEF ServerSets
    <2> QED
        BY <1>4, <2>1, AnswerWasSeen DEF ServerSets, Goes
<1>5. ASSUME NEW c \in Calls, ServerDeletes(c) PROVE AllSee'
    <2>1. key[c] \in Keys => db'[key[c]] = None
        BY <1>5 DEF ServerDeletes, Drops
    <2> QED
        BY <1>5, <2>1, AnswerWasSeen DEF ServerDeletes, Goes
<1>6. ASSUME NEW c \in Calls, ReplyArrives(c) PROVE AllSee'
    <2>1. \A d \in Calls : Calm(d)
        BY <1>6 DEF ReplyArrives, Answers, Forgets, Calm
    <2> QED
        BY <2>1, CalmKeepsSeen
<1>7. ASSUME NEW c \in Calls, ScanPage(c) PROVE AllSee'
    <2>1. /\ Others(c) /\ UNCHANGED <<pc, op, key, reply>> /\ Doing(c, "Clear")
          /\ returned'[c] \ deleting'[c] = returned[c] \ deleting[c]
        BY <1>7 DEF ScanPage, Doing, Goes, NoneMoves, Others, Calm
    <2>2. ASSUME NEW k \in returned[c] \ deleting[c] PROVE None \in seen'[c][k]
        BY <2>1, <2>2, SeenGrows DEF Doing, Sweeps, SeenBy, DeletedWasSeen
    <2>3. SeenBy(c)'
        BY <2>1, <2>2 DEF SeenBy, ReplyWasSeen, DeletedWasSeen, Doing
    <2> QED
        BY <2>1, <2>3, CalmKeepsSeen DEF Others
<1>8. ASSUME NEW c \in Calls, ClearDeletes(c) PROVE AllSee'
    <2>1. /\ Others(c) /\ UNCHANGED <<pc, op, key, reply, returned>> /\ Doing(c, "Clear")
        BY <1>8 DEF ClearDeletes, Doing, Goes, NoneMoves, Others, Calm
    <2>2. PICK k \in Keys : db'[k] = None /\ deleting'[c] = deleting[c] \ {k}
        BY <1>8 DEF ClearDeletes, Drops
    <2>3. ASSUME NEW j \in returned[c] \ deleting'[c] PROVE None \in seen'[c][j]
        <3>1. seen'[c][j] = seen[c][j] \cup {db'[j]}
            BY <2>1, SeenGrows DEF Doing, Sweeps
        <3> QED
            BY <2>1, <2>2, <2>3, <3>1 DEF SeenBy, DeletedWasSeen
    <2>4. SeenBy(c)'
        BY <2>1, <2>3 DEF SeenBy, ReplyWasSeen, DeletedWasSeen, Doing
    <2> QED
        BY <2>1, <2>4, CalmKeepsSeen DEF Others
<1>9. ASSUME NEW c \in Calls, ClearReturns(c) PROVE AllSee'
    <2>1. \A d \in Calls : Calm(d)
        BY <1>9 DEF ClearReturns, Answers, Forgets, Calm
    <2> QED
        BY <2>1, CalmKeepsSeen
<1>10. ASSUME NEW c \in Calls, CallFails(c) PROVE AllSee'
    <2>1. \A d \in Calls : Calm(d)
        BY <1>10 DEF CallFails, Fails, Forgets, Calm
    <2> QED
        BY <2>1, CalmKeepsSeen
<1>11. ASSUME NEW k \in Keys, ServerDrops(k) PROVE AllSee'
    <2>1. \A d \in Calls : Calm(d)
        BY <1>11 DEF ServerDrops, NoneMoves, Calm
    <2> QED
        BY <2>1, CalmKeepsSeen
<1>12. CASE Tick
    <2>1. \A d \in Calls : Calm(d)
        BY <1>12 DEF Tick, NoneMoves, Calm
    <2> QED
        BY <2>1, CalmKeepsSeen
<1>13. CASE NoneMoves /\ UNCHANGED redisVars
    <2>1. \A d \in Calls : Calm(d)
        BY <1>13 DEF NoneMoves, Calm
    <2> QED
        BY <2>1, CalmKeepsSeen
<1> QED
    BY <1>1, <1>2, <1>3, <1>4, <1>5, <1>6, <1>7, <1>8, <1>9, <1>10, <1>11,
        <1>12, <1>13
    DEF Next, CallStep, Quiescent

------------------------------------------------------------------------------
(* The contract *)

\* What the contract asks of one call.
MovesAsPromised(c) ==
    /\ Contract!CallMoves(c)
    /\ IF pc[c] = "new" /\ pc'[c] = "running"
       THEN op'[c] \in TaggedOps /\ (op'[c] \in Sweeps \/ key'[c] \in Keys)
       ELSE op'[c] = op[c] /\ key'[c] = key[c]

AllMove == \A c \in Calls : MovesAsPromised(c)

Idle(c) == UNCHANGED <<pc[c], op[c], key[c], answer[c]>>

LEMMA IdleMoves ==
    ASSUME NEW c \in Calls, Idle(c)
    PROVE  MovesAsPromised(c)
BY DEF Idle, MovesAsPromised, Contract!CallMoves

\* A call that succeeds, and no other moves.
LEMMA SuccessMoves ==
    ASSUME TypeOK, NEW c \in Calls, pc[c] = "running", NEW v, Answers(c, v),
           Contract!Kept(c)
    PROVE  AllMove
<1>1. MovesAsPromised(c)
    BY DEF TypeOK, CallTypes, Answers, MovesAsPromised, Contract!CallMoves
<1>2. \A d \in Calls \ {c} : Idle(d)
    BY DEF TypeOK, CallTypes, Answers, Idle
<1> QED
    BY <1>1, <1>2, IdleMoves DEF AllMove

LEMMA WatchedNow ==
    ASSUME NEW c \in Calls, UNCHANGED <<op, key>>, NEW k \in Keys,
           op[c] \in Sweeps \/ k = key[c]
    PROVE  Contract!Watched(c, db')[k] = seen[c][k] \cup {db'[k]}
BY DEF Contract!Watched, Contract!Touched, Contract!Sweeps, Sweeps

LEMMA CallsStep ==
    ASSUME TypeOK, Keyed, AllSee, Next
    PROVE  AllMove
<1> USE DEF TypeOK, CallTypes, redisVars, AllSee, AllMove
<1>1. ASSUME NEW c \in Calls, Begin(c) PROVE AllMove
    <2>1. /\ pc[c] = "new" /\ pc'[c] = "running" /\ answer' = answer
          /\ op'[c] \in TaggedOps /\ (op'[c] \in Sweeps \/ key'[c] \in Keys)
          /\ \A d \in Calls \ {c} : Idle(d)
        BY <1>1 DEF Begin, Begins, StoreOps, TaggedOps, Idle
    <2>2. MovesAsPromised(c)
        BY <2>1 DEF MovesAsPromised, Contract!CallMoves
    <2> QED
        BY <2>1, <2>2, IdleMoves
<1>2. ASSUME NEW c \in Calls, SendAgain(c) PROVE AllMove
    <2>1. \A d \in Calls : Idle(d)
        BY <1>2 DEF SendAgain, Goes, NoneMoves, Idle
    <2> QED
        BY <2>1, IdleMoves
<1>3. ASSUME NEW c \in Calls, ServerGets(c) PROVE AllMove
    <2>1. \A d \in Calls : Idle(d)
        BY <1>3 DEF ServerGets, Goes, NoneMoves, Idle
    <2> QED
        BY <2>1, IdleMoves
<1>4. ASSUME NEW c \in Calls, ServerSets(c) PROVE AllMove
    <2>1. \A d \in Calls : Idle(d)
        BY <1>4 DEF ServerSets, Goes, NoneMoves, Idle
    <2> QED
        BY <2>1, IdleMoves
<1>5. ASSUME NEW c \in Calls, ServerDeletes(c) PROVE AllMove
    <2>1. \A d \in Calls : Idle(d)
        BY <1>5 DEF ServerDeletes, Goes, NoneMoves, Idle
    <2> QED
        BY <2>1, IdleMoves
<1>6. ASSUME NEW c \in Calls, ReplyArrives(c) PROVE AllMove
    <2>1. /\ pc[c] = "running" /\ Answers(c, reply[c].entry) /\ reply[c] # None
          /\ UNCHANGED <<op, key>> /\ answer'[c] = reply[c].entry
        BY <1>6 DEF ReplyArrives, Answers
    <2>2. /\ op[c] \in {"Get", "Set", "Delete"} /\ key[c] \in Keys
          /\ ReplyWasSeen(c)
        BY <1>6 DEF ReplyArrives, OneCommand, Keyed, Sweeps, SeenBy
    <2>3. seen[c][key[c]] \subseteq Contract!Watched(c, db')[key[c]]
        BY <2>1, <2>2, WatchedNow
    <2>4. Contract!Kept(c)
        BY ONLY <2>1, <2>2, <2>3 DEF Contract!Kept, ReplyWasSeen
    <2> QED
        BY <2>1, <2>4, SuccessMoves
<1>7. ASSUME NEW c \in Calls, ScanPage(c) PROVE AllMove
    <2>1. \A d \in Calls : Idle(d)
        BY <1>7 DEF ScanPage, Goes, NoneMoves, Idle
    <2> QED
        BY <2>1, IdleMoves
<1>8. ASSUME NEW c \in Calls, ClearDeletes(c) PROVE AllMove
    <2>1. \A d \in Calls : Idle(d)
        BY <1>8 DEF ClearDeletes, Goes, NoneMoves, Idle
    <2> QED
        BY <2>1, IdleMoves
<1>9. ASSUME NEW c \in Calls, ClearReturns(c) PROVE AllMove
    <2>1. /\ Doing(c, "Clear") /\ Answers(c, None) /\ UNCHANGED <<op, key>>
        BY <1>9 DEF ClearReturns, Answers
    <2>2. \A k \in Keys : None \in seen[c][k]
        BY <1>9 DEF ClearReturns, ScanOwes, SeenBy, DeletedWasSeen
    <2>3. Contract!Kept(c)
        BY <2>1, <2>2, WatchedNow DEF Contract!Kept, Doing, Sweeps
    <2> QED
        BY <2>1, <2>3, SuccessMoves DEF Doing
<1>10. ASSUME NEW c \in Calls, CallFails(c) PROVE AllMove
    <2>1. pc[c] = "running" /\ Fails(c)
        BY <1>10 DEF CallFails
    <2> QED
        BY <2>1 DEF Fails, MovesAsPromised, Contract!CallMoves
<1>11. ASSUME NEW k \in Keys, ServerDrops(k) PROVE AllMove
    <2>1. \A d \in Calls : Idle(d)
        BY <1>11 DEF ServerDrops, NoneMoves, Idle
    <2> QED
        BY <2>1, IdleMoves
<1>12. CASE Tick
    <2>1. \A d \in Calls : Idle(d)
        BY <1>12 DEF Tick, NoneMoves, Idle
    <2> QED
        BY <2>1, IdleMoves
<1>13. CASE NoneMoves /\ UNCHANGED redisVars
    <2>1. \A d \in Calls : Idle(d)
        BY <1>13 DEF NoneMoves, Idle
    <2> QED
        BY <2>1, IdleMoves
<1> QED
    BY <1>1, <1>2, <1>3, <1>4, <1>5, <1>6, <1>7, <1>8, <1>9, <1>10, <1>11,
        <1>12, <1>13
    DEF Next, CallStep, Quiescent

LEMMA ContractStep ==
    ASSUME RedisInv, [Next]_vars
    PROVE  [Contract!Next]_(Contract!contractVars)
<1>1. CASE UNCHANGED vars
    BY <1>1 DEF vars, redisVars, callVars, Contract!contractVars, Contract!callVars
<1>2. CASE Next
    <2>1. TypeOK' /\ ServerMoves /\ AllMove
        BY <1>2, TypeStep, ServerStep, CallsStep DEF RedisInv
    <2>2. Contract!ContentChanges
        <3>1. db' \in [Keys -> Entries \cup {None}]
            BY <2>1 DEF TypeOK
        <3>2. \A k \in Keys : db'[k] \in {db[k], None} \cup Contract!Writers(k)
            BY <2>1
            DEF ServerMoves, Untouched, Sets, Empties, Contract!Writers, RedisInv, TypeOK
        <3> QED
            BY <3>1, <3>2 DEF Contract!ContentChanges, Contract!Entries, Entries
    <2>3. Contract!Watch(db')
        BY <1>2
        DEF Next, Watch, Contract!Watch, Watched, Contract!Watched, Touched,
            Contract!Touched, Sweeps, Contract!Sweeps
    <2> QED
        BY <2>1, <2>2, <2>3
        DEF Contract!Next, AllMove, MovesAsPromised, TypeOK, CallTypes,
            Contract!Entries, Entries, Contract!TaggedOps, Contract!StoreOps, TaggedOps,
            StoreOps, Contract!Sweeps, Sweeps
<1> QED
    BY <1>1, <1>2

------------------------------------------------------------------------------
(* The theorems *)

LEMMA InitHolds == Init => RedisInv
<1> SUFFICES ASSUME Init PROVE RedisInv
    OBVIOUS
<1>1. TypeOK
    BY RedisAssumption DEF Init, CallInit, RedisInit, TypeOK, CallTypes, Entries
<1>2. AllStored
    BY CallsAssumption DEF Init, RedisInit, AllStored, Stored
<1>3. Keyed /\ CommandsFit /\ AllSee
    BY DEF Init, CallInit, RedisInit, Keyed, CommandsFit, CommandFits, AllSee, SeenBy,
           ReplyWasSeen, DeletedWasSeen, Doing
<1> QED
    BY <1>1, <1>2, <1>3 DEF RedisInv

\* For any number of calls and keys, and however the network loses, delays and repeats
\* commands: the TTL of a Set was right when it was sent, the server did what it
\* answered while the call ran, and a Clear has seen every key empty that it deleted
\* (adapters/redis/store.go:62-177).
THEOREM RedisInvariant == Spec => []RedisInv
<1>1. RedisInv /\ [Next]_vars => RedisInv'
    <2> SUFFICES ASSUME RedisInv, [Next]_vars PROVE RedisInv'
        OBVIOUS
    <2>1. TypeOK'
        BY TypeStep DEF RedisInv
    <2>2. CASE Next
        BY <2>1, <2>2, KeyedStep, CommandsStep, StoredStep, SeenStep DEF RedisInv
    <2>3. CASE UNCHANGED vars
        <3>1. UNCHANGED <<time, db, expires, command, onWire, reply, returned, deleting,
                          pc, op, key, seen>>
            BY <2>3 DEF vars, redisVars, callVars
        <3> QED
            BY <2>1, <3>1
            DEF RedisInv, Keyed, CommandsFit, CommandFits, AllStored, Stored, AllSee,
                SeenBy, ReplyWasSeen, DeletedWasSeen, Doing
    <2> QED
        BY <2>2, <2>3
<1> QED
    BY <1>1, InitHolds, PTL DEF Spec

\* No expiry the server is given ends before the deadline of the entry it holds, and an
\* entry with a deadline never has none, however late or often its command arrives
\* (storageTTL, adapters/redis/store.go:161-177).
THEOREM ExpiryFits == Spec => []ExpiryFitsDeadline
<1>1. RedisInv => ExpiryFitsDeadline
    BY DEF RedisInv, AllStored, Stored, ExpiryFitsDeadline
<1> QED
    BY <1>1, RedisInvariant, PTL

\* The server and its clients are a store as callers of store.go:5-10 understand it,
\* except that a Set may take effect after it has ended: every step is a step or a
\* stutter of StoreContract (adapters/redis/store.go:62-159).
THEOREM RedisStoreKeepsContract == Spec => ImplementsContract
<1>1. Init => Contract!Init
    BY DEF Init, CallInit, RedisInit, Contract!Init, Contract!CallInit
<1>2. RedisInv /\ [Next]_vars => [Contract!Next]_(Contract!contractVars)
    BY ContractStep
<1> QED
    BY <1>1, <1>2, RedisInvariant, PTL
    DEF Spec, ImplementsContract, Contract!Spec

------------------------------------------------------------------------------
(* THE OTHER STORES *)


------------------------------------------------------------------------------
(* The local store: the invariant *)

\* A temp file has all its bytes before it is renamed.
Complete ==
    \A c \in Calls :
        Local!Doing(c, "Set") /\ at[c] \in {"close", "rename"} => c \in whole

\* What a Get will read from the file it opened, the key held when it opened it: a
\* file with a name never changes while anybody runs.
OpenedWasSeen(c) ==
    Local!Doing(c, "Get") /\ at[c] = "read" =>
        /\ opened[c] \in Local!Entries
        /\ opened[c] \in Calls => state[opened[c]] = "ok"
        /\ (IF opened[c] \in whole THEN opened[c] ELSE None) \in saw[c][about[c]]

\* A key that a Clear need not remove any more was empty at some moment.
RemovedWasSeen(c) ==
    Local!Doing(c, "Clear") /\ at[c] = "remove" =>
        \A k \in Keys \ (todo[c] \cup spared[c]) : None \in saw[c][k]

LocalSeenBy(c) == OpenedWasSeen(c) /\ RemovedWasSeen(c)
LocalAllSee == \A c \in Calls : LocalSeenBy(c)

\* What a call does is settled when it begins.
LocalKeyed ==
    \A c \in Calls :
        /\ state[c] = "new" => at[c] = "begin"
        /\ state[c] = "running" =>
              does[c] \in Local!StoreOps /\ (does[c] \in Local!Sweeps \/ about[c] \in Keys)

FilesInv == Local!OneNamePerFile /\ Local!WholeUnlessPowerLost /\ Complete

LocalInv ==
    /\ Local!TypeOK
    /\ LocalKeyed
    /\ FilesInv
    /\ LocalAllSee

------------------------------------------------------------------------------
(* Types *)

LEMMA FaultEffect ==
    ASSUME Local!TypeOK, NEW kind \in {"call", "kill", "power"}, Local!Fault(kind)
    PROVE  /\ went' \in Seq({"call", "kill", "power"}) /\ went' # << >>
           /\ ~Local!Happened("power")' => ~Local!Happened("power") /\ kind # "power"
<1>1. went \in Seq({"call", "kill", "power"}) /\ went' = Append(went, kind)
    BY DEF Local!TypeOK, Local!Fault
<1>2. went' \in Seq({"call", "kill", "power"}) /\ went' # << >>
    BY <1>1
<1>3. /\ DOMAIN went \subseteq DOMAIN went'
      /\ \A i \in DOMAIN went : went'[i] = went[i]
      /\ Len(went') \in DOMAIN went' /\ went'[Len(went')] = kind
    BY <1>1
<1> QED
    BY ONLY <1>2, <1>3 DEF Local!Happened

LEMMA NoFault ==
    ASSUME went' = went
    PROVE  Local!Happened("power")' <=> Local!Happened("power")
BY DEF Local!Happened

LEMMA LocalSeenType ==
    ASSUME Local!TypeOK, dir' \in [Keys -> Local!Entries \cup {None}],
           Local!Watch(Local!Content')
    PROVE  saw' \in [Calls -> [Keys -> SUBSET (Local!Entries \cup {None})]]
<1>1. \A k \in Keys : Local!Content'[k] \in Local!Entries \cup {None}
    BY DEF Local!Content
<1>2. \A c \in Calls :
        Local!Watched(c, Local!Content') \in [Keys -> SUBSET (Local!Entries \cup {None})]
    BY <1>1 DEF Local!Watched, Local!TypeOK, Local!CallTypes
<1> QED
    BY <1>2 DEF Local!Watch

\* TypeOK but for the history.
LocalTypes ==
    /\ state \in [Calls -> {"new", "running", "ok", "error", "dead"}]
    /\ does \in [Calls -> Local!TaggedOps \cup {None}] /\ about \in [Calls -> Keys \cup {None}]
    /\ got \in [Calls -> Local!Entries \cup {None}]
    /\ dir \in [Keys -> Local!Entries \cup {None}]
    /\ temps \subseteq Calls /\ whole \subseteq Local!Entries
    /\ at \in [Calls -> {"begin", "write", "close", "rename", "discard", "read",
                         "remove"}]
    /\ opened \in [Calls -> Local!Entries \cup {None}]
    /\ todo \in [Calls -> SUBSET (Keys \cup Calls)]
    /\ spared \in [Calls -> SUBSET Keys]
    /\ went \in Seq({"call", "kill", "power"})

LEMMA LocalTypesStep ==
    ASSUME Local!TypeOK, LocalKeyed, Local!Next
    PROVE  LocalTypes'
<1> USE DEF Local!TypeOK, LocalTypes, Local!CallTypes, Local!localVars, Local!Entries
<1>1. ASSUME NEW c \in Calls, Local!Begin(c) PROVE LocalTypes'
    BY <1>1 DEF Local!Begin, Local!Begins, Local!StoreOps, Local!TaggedOps
<1>2. ASSUME NEW c \in Calls, Local!CallFails(c) PROVE LocalTypes'
    BY <1>2, FaultEffect DEF Local!CallFails, Local!Fails
<1>3. ASSUME NEW c \in Calls, Local!CreateTemp(c) PROVE LocalTypes'
    BY <1>3 DEF Local!CreateTemp, Local!Doing, Local!GoTo, Local!Goes, Local!NoneMoves
<1>4. ASSUME NEW c \in Calls, Local!WriteTemp(c) PROVE LocalTypes'
    BY <1>4 DEF Local!WriteTemp, Local!Doing, Local!GoTo, Local!Goes, Local!NoneMoves
<1>5. ASSUME NEW c \in Calls, Local!CloseTemp(c) PROVE LocalTypes'
    BY <1>5 DEF Local!CloseTemp, Local!Doing, Local!GoTo, Local!Goes, Local!NoneMoves
<1>6. ASSUME NEW c \in Calls, Local!WriteOrCloseFails(c) PROVE LocalTypes'
    BY <1>6, FaultEffect DEF Local!WriteOrCloseFails, Local!Doing, Local!GoTo, Local!Goes,
       Local!NoneMoves
<1>7. ASSUME NEW c \in Calls, Local!DiscardTemp(c) PROVE LocalTypes'
    BY <1>7 DEF Local!DiscardTemp, Local!Doing, Local!Fails
<1>8. ASSUME NEW c \in Calls, Local!RenameTemp(c) PROVE LocalTypes'
    BY <1>8 DEF Local!RenameTemp, Local!Doing, Local!Answers
<1>9. ASSUME NEW c \in Calls, Local!RenameFails(c) PROVE LocalTypes'
    BY <1>9, FaultEffect DEF Local!RenameFails, Local!Doing, Local!Fails
<1>10. ASSUME NEW c \in Calls, Local!OpenFile(c) PROVE LocalTypes'
    <2>1. about[c] \in Keys
        BY <1>10 DEF Local!OpenFile, Local!Doing, LocalKeyed, Local!Sweeps
    <2>2. UNCHANGED <<does, about, dir, temps, whole, todo, spared, went>>
        BY <1>10 DEF Local!OpenFile, Local!Answers, Local!Goes, Local!NoneMoves
    <2>3. CASE dir[about[c]] = None /\ Local!Answers(c, None) /\ UNCHANGED <<at, opened>>
        BY <2>2, <2>3 DEF Local!Answers
    <2>4. CASE /\ opened' = [opened EXCEPT ![c] = dir[about[c]]]
               /\ Local!GoTo(c, "read") /\ Local!Goes(c)
        BY <2>1, <2>2, <2>4 DEF Local!GoTo, Local!Goes, Local!NoneMoves
    <2> QED
        BY <1>10, <2>3, <2>4 DEF Local!OpenFile
<1>11. ASSUME NEW c \in Calls, Local!ReadFile(c) PROVE LocalTypes'
    BY <1>11 DEF Local!ReadFile, Local!Doing, Local!Answers
<1>12. ASSUME NEW c \in Calls, Local!DeleteFile(c) PROVE LocalTypes'
    BY <1>12 DEF Local!DeleteFile, Local!Doing, Local!Answers
<1>13. ASSUME NEW c \in Calls, Local!ListDir(c) PROVE LocalTypes'
    BY <1>13 DEF Local!ListDir, Local!Doing, Local!GoTo, Local!Goes, Local!NoneMoves
<1>14. ASSUME NEW c \in Calls, Local!RemoveName(c) PROVE LocalTypes'
    BY <1>14 DEF Local!RemoveName, Local!Doing, Local!Goes, Local!NoneMoves
<1>15. ASSUME NEW c \in Calls, Local!RemoveFails(c) PROVE LocalTypes'
    BY <1>15, FaultEffect DEF Local!RemoveFails, Local!Doing, Local!Goes, Local!NoneMoves
<1>16. ASSUME NEW c \in Calls, Local!ClearReturns(c) PROVE LocalTypes'
    BY <1>16 DEF Local!ClearReturns, Local!Doing, Local!Answers
<1>17. CASE Local!ProcessDies
    BY <1>17, FaultEffect DEF Local!ProcessDies, Local!Die, Local!Running
<1>18. CASE Local!PowerFails
    BY <1>18, FaultEffect DEF Local!PowerFails, Local!Die, Local!Running
<1>19. CASE Local!NoneMoves /\ UNCHANGED Local!localVars
    BY <1>19 DEF Local!NoneMoves
<1> QED
    BY <1>1, <1>2, <1>3, <1>4, <1>5, <1>6, <1>7, <1>8, <1>9, <1>10, <1>11,
        <1>12, <1>13, <1>14, <1>15, <1>16, <1>17, <1>18, <1>19
    DEF Local!Next, Local!SetStep, Local!OtherStep, Local!Quiescent

LEMMA LocalTypeStep ==
    ASSUME Local!TypeOK, LocalKeyed, [Local!Next]_(Local!vars)
    PROVE  Local!TypeOK'
<1>1. CASE Local!Next
    <2>1. LocalTypes'
        BY <1>1, LocalTypesStep
    <2>2. Local!Watch(Local!Content')
        BY <1>1 DEF Local!Next
    <2>3. saw' \in [Calls -> [Keys -> SUBSET (Local!Entries \cup {None})]]
        BY <2>1, <2>2, LocalSeenType DEF LocalTypes
    <2> QED
        BY <2>1, <2>3 DEF LocalTypes, Local!TypeOK, Local!CallTypes
<1>2. CASE UNCHANGED Local!vars
    BY <1>2 DEF Local!vars, Local!localVars, Local!callVars, Local!TypeOK, Local!CallTypes
<1> QED
    BY <1>1, <1>2

------------------------------------------------------------------------------
(* Files *)

LEMMA FilesStep ==
    ASSUME Local!TypeOK, LocalKeyed, FilesInv, Local!Next
    PROVE  FilesInv'
<1> USE DEF Local!TypeOK, Local!CallTypes, Local!localVars, FilesInv, Local!OneNamePerFile,
            Local!WholeUnlessPowerLost, Complete, Local!Doing, Local!Running
<1> USE CallsAssumption DEF Local!Entries
<1>1. ASSUME NEW c \in Calls, Local!Begin(c) PROVE FilesInv'
    <2>1. /\ state[c] = "new" /\ at[c] = "begin" /\ state'[c] = "running"
          /\ UNCHANGED Local!localVars
          /\ \A d \in Calls \ {c} : UNCHANGED <<state[d], does[d], about[d]>>
        BY <1>1 DEF Local!Begin, Local!Begins, LocalKeyed
    <2>2. Local!OneNamePerFile'
        BY <2>1
    <2>3. Local!WholeUnlessPowerLost'
        BY <2>1, NoFault
    <2>4. Complete'
        BY <2>1
    <2> QED
        BY <2>2, <2>3, <2>4
<1>2. ASSUME NEW c \in Calls, Local!CallFails(c) PROVE FilesInv'
    BY <1>2, NoFault, FaultEffect DEF Local!CallFails, Local!Fails
<1>3. ASSUME NEW c \in Calls, Local!CreateTemp(c) PROVE FilesInv'
    BY <1>3, NoFault DEF Local!CreateTemp, Local!Doing, Local!GoTo, Local!Goes, Local!NoneMoves
<1>4. ASSUME NEW c \in Calls, Local!WriteTemp(c) PROVE FilesInv'
    BY <1>4, NoFault DEF Local!WriteTemp, Local!Doing, Local!GoTo, Local!Goes, Local!NoneMoves
<1>5. ASSUME NEW c \in Calls, Local!CloseTemp(c) PROVE FilesInv'
    BY <1>5, NoFault DEF Local!CloseTemp, Local!Doing, Local!GoTo, Local!Goes, Local!NoneMoves
<1>6. ASSUME NEW c \in Calls, Local!WriteOrCloseFails(c) PROVE FilesInv'
    BY <1>6, NoFault, FaultEffect
    DEF Local!WriteOrCloseFails, Local!Doing, Local!GoTo, Local!Goes, Local!NoneMoves
<1>7. ASSUME NEW c \in Calls, Local!DiscardTemp(c) PROVE FilesInv'
    BY <1>7, NoFault DEF Local!DiscardTemp, Local!Doing, Local!Fails
<1>8. ASSUME NEW c \in Calls, Local!RenameTemp(c) PROVE FilesInv'
    BY <1>8, NoFault DEF Local!RenameTemp, Local!Doing, Local!Answers
<1>9. ASSUME NEW c \in Calls, Local!RenameFails(c) PROVE FilesInv'
    BY <1>9, NoFault, FaultEffect DEF Local!RenameFails, Local!Doing, Local!Fails
<1>10. ASSUME NEW c \in Calls, Local!OpenFile(c) PROVE FilesInv'
    <2>1. /\ UNCHANGED <<does, about, dir, temps, whole, went>>
          /\ state[c] = "running" /\ state'[c] \in {"running", "ok"} /\ does[c] = "Get"
          /\ \A d \in Calls \ {c} : UNCHANGED <<state[d], at[d]>>
        BY <1>10 DEF Local!OpenFile, Local!Doing, Local!Answers, Local!GoTo, Local!Goes,
           Local!NoneMoves
    <2>2. Local!OneNamePerFile'
        BY <2>1
    <2>3. Local!WholeUnlessPowerLost'
        BY <2>1, NoFault
    <2>4. Complete'
        BY <2>1
    <2> QED
        BY <2>2, <2>3, <2>4
<1>11. ASSUME NEW c \in Calls, Local!ReadFile(c) PROVE FilesInv'
    BY <1>11, NoFault DEF Local!ReadFile, Local!Doing, Local!Answers
<1>12. ASSUME NEW c \in Calls, Local!DeleteFile(c) PROVE FilesInv'
    BY <1>12, NoFault DEF Local!DeleteFile, Local!Doing, Local!Answers
<1>13. ASSUME NEW c \in Calls, Local!ListDir(c) PROVE FilesInv'
    BY <1>13, NoFault DEF Local!ListDir, Local!Doing, Local!GoTo, Local!Goes, Local!NoneMoves
<1>14. ASSUME NEW c \in Calls, Local!RemoveName(c) PROVE FilesInv'
    BY <1>14, NoFault DEF Local!RemoveName, Local!Doing, Local!Goes, Local!NoneMoves
<1>15. ASSUME NEW c \in Calls, Local!RemoveFails(c) PROVE FilesInv'
    BY <1>15, NoFault, FaultEffect DEF Local!RemoveFails, Local!Doing, Local!Goes,
       Local!NoneMoves
<1>16. ASSUME NEW c \in Calls, Local!ClearReturns(c) PROVE FilesInv'
    BY <1>16, NoFault DEF Local!ClearReturns, Local!Doing, Local!Answers
<1>17. CASE Local!ProcessDies
    BY <1>17, NoFault, FaultEffect DEF Local!ProcessDies, Local!Die, Local!Running
<1>18. CASE Local!PowerFails
    BY <1>18, NoFault, FaultEffect DEF Local!PowerFails, Local!Die, Local!Running
<1>19. CASE Local!NoneMoves /\ UNCHANGED Local!localVars
    BY <1>19, NoFault DEF Local!NoneMoves
<1> QED
    BY <1>1, <1>2, <1>3, <1>4, <1>5, <1>6, <1>7, <1>8, <1>9, <1>10, <1>11,
        <1>12, <1>13, <1>14, <1>15, <1>16, <1>17, <1>18, <1>19
    DEF Local!Next, Local!SetStep, Local!OtherStep, Local!Quiescent

LEMMA LocalKeyedStep ==
    ASSUME Local!TypeOK, LocalKeyed, Local!Next
    PROVE  LocalKeyed'
<1> USE DEF Local!TypeOK, Local!CallTypes, Local!localVars, LocalKeyed
<1>1. ASSUME NEW c \in Calls, Local!Begin(c) PROVE LocalKeyed'
    BY <1>1 DEF Local!Begin, Local!Begins
<1>2. ASSUME NEW c \in Calls, Local!CallFails(c) PROVE LocalKeyed'
    BY <1>2 DEF Local!CallFails, Local!Fails
<1>3. ASSUME NEW c \in Calls, Local!CreateTemp(c) PROVE LocalKeyed'
    BY <1>3 DEF Local!CreateTemp, Local!Doing, Local!GoTo, Local!Goes, Local!NoneMoves
<1>4. ASSUME NEW c \in Calls, Local!WriteTemp(c) PROVE LocalKeyed'
    BY <1>4 DEF Local!WriteTemp, Local!Doing, Local!GoTo, Local!Goes, Local!NoneMoves
<1>5. ASSUME NEW c \in Calls, Local!CloseTemp(c) PROVE LocalKeyed'
    BY <1>5 DEF Local!CloseTemp, Local!Doing, Local!GoTo, Local!Goes, Local!NoneMoves
<1>6. ASSUME NEW c \in Calls, Local!WriteOrCloseFails(c) PROVE LocalKeyed'
    BY <1>6 DEF Local!WriteOrCloseFails, Local!Doing, Local!GoTo, Local!Goes, Local!NoneMoves
<1>7. ASSUME NEW c \in Calls, Local!DiscardTemp(c) PROVE LocalKeyed'
    BY <1>7 DEF Local!DiscardTemp, Local!Doing, Local!Fails
<1>8. ASSUME NEW c \in Calls, Local!RenameTemp(c) PROVE LocalKeyed'
    BY <1>8 DEF Local!RenameTemp, Local!Doing, Local!Answers
<1>9. ASSUME NEW c \in Calls, Local!RenameFails(c) PROVE LocalKeyed'
    BY <1>9 DEF Local!RenameFails, Local!Doing, Local!Fails
<1>10. ASSUME NEW c \in Calls, Local!OpenFile(c) PROVE LocalKeyed'
    BY <1>10 DEF Local!OpenFile, Local!Doing, Local!Answers, Local!GoTo, Local!Goes,
       Local!NoneMoves
<1>11. ASSUME NEW c \in Calls, Local!ReadFile(c) PROVE LocalKeyed'
    BY <1>11 DEF Local!ReadFile, Local!Doing, Local!Answers
<1>12. ASSUME NEW c \in Calls, Local!DeleteFile(c) PROVE LocalKeyed'
    BY <1>12 DEF Local!DeleteFile, Local!Doing, Local!Answers
<1>13. ASSUME NEW c \in Calls, Local!ListDir(c) PROVE LocalKeyed'
    BY <1>13 DEF Local!ListDir, Local!Doing, Local!GoTo, Local!Goes, Local!NoneMoves
<1>14. ASSUME NEW c \in Calls, Local!RemoveName(c) PROVE LocalKeyed'
    BY <1>14 DEF Local!RemoveName, Local!Doing, Local!Goes, Local!NoneMoves
<1>15. ASSUME NEW c \in Calls, Local!RemoveFails(c) PROVE LocalKeyed'
    BY <1>15 DEF Local!RemoveFails, Local!Doing, Local!Goes, Local!NoneMoves
<1>16. ASSUME NEW c \in Calls, Local!ClearReturns(c) PROVE LocalKeyed'
    BY <1>16 DEF Local!ClearReturns, Local!Doing, Local!Answers
<1>17. CASE Local!ProcessDies
    BY <1>17 DEF Local!ProcessDies, Local!Die, Local!Running
<1>18. CASE Local!PowerFails
    BY <1>18 DEF Local!PowerFails, Local!Die, Local!Running
<1>19. CASE Local!NoneMoves /\ UNCHANGED Local!localVars
    BY <1>19 DEF Local!NoneMoves
<1> QED
    BY <1>1, <1>2, <1>3, <1>4, <1>5, <1>6, <1>7, <1>8, <1>9, <1>10, <1>11,
        <1>12, <1>13, <1>14, <1>15, <1>16, <1>17, <1>18, <1>19
    DEF Local!Next, Local!SetStep, Local!OtherStep, Local!Quiescent

------------------------------------------------------------------------------
(* What a call has seen *)

LEMMA LocalSeenGrows ==
    ASSUME Local!TypeOK, Local!Next, NEW c \in Calls, state'[c] = "running",
           does'[c] = does[c], about'[c] = about[c],
           NEW k \in Keys, does[c] \in Local!Sweeps \/ k = about[c]
    PROVE  saw'[c][k] = saw[c][k] \cup {Local!Content'[k]}
BY DEF Local!Next, Local!Watch, Local!Watched, Local!Touched

\* A step that changes none of what d has in hand.
LocalCalm(d) ==
    /\ UNCHANGED <<does[d], about[d], at[d], opened[d], todo[d], spared[d]>>
    /\ state'[d] = "running" => state[d] = "running"

\* A step that leaves the files with a name as they are.
FilesKept ==
    /\ \A e \in Calls : state[e] = "ok" => state'[e] = "ok" /\ (e \in whole' <=> e \in whole)
    /\ Old \in whole' <=> Old \in whole

LEMMA LocalCalmKeepsSeen ==
    ASSUME Local!TypeOK, LocalKeyed, FilesInv, Local!Next, NEW d \in Calls,
           LocalSeenBy(d), LocalCalm(d),
           FilesKept
    PROVE  LocalSeenBy(d)'
<1>1. ASSUME Local!Doing(d, "Get")', at'[d] = "read" PROVE OpenedWasSeen(d)'
    <2>1. Local!Doing(d, "Get") /\ at[d] = "read" /\ opened'[d] = opened[d] /\ about'[d] = about[d]
          /\ about[d] \in Keys
        BY <1>1 DEF Local!Doing, LocalCalm, LocalKeyed, Local!Sweeps
    <2>2. saw[d][about[d]] \subseteq saw'[d][about[d]]
        BY <1>1, <2>1, LocalSeenGrows DEF Local!Doing
    <2> QED
        BY <1>1, <2>1, <2>2 DEF LocalSeenBy, OpenedWasSeen, Local!Entries, FilesKept
<1>2. ASSUME Local!Doing(d, "Clear")', at'[d] = "remove",
             NEW k \in Keys \ (todo'[d] \cup spared'[d])
      PROVE  None \in saw'[d][k]
    <2>1. Local!Doing(d, "Clear") /\ at[d] = "remove" /\ k \in Keys \ (todo[d] \cup spared[d])
        BY <1>2 DEF Local!Doing, LocalCalm
    <2>2. saw[d][k] \subseteq saw'[d][k]
        BY <1>2, <2>1, LocalSeenGrows DEF Local!Doing, LocalCalm, Local!Sweeps
    <2> QED
        BY <2>1, <2>2 DEF LocalSeenBy, RemovedWasSeen
<1> QED
    BY <1>1, <1>2 DEF LocalSeenBy, OpenedWasSeen, RemovedWasSeen

\* Whoever does not read or remove files has nothing to remember.
LocalUnseeing(c) ==
    state'[c] = "running" => does'[c] \notin {"Get", "Clear"} \/ at'[c] = "begin"

LEMMA LocalUnseeingSees ==
    ASSUME NEW c \in Calls, LocalUnseeing(c)
    PROVE  LocalSeenBy(c)'
BY DEF LocalUnseeing, LocalSeenBy, OpenedWasSeen, RemovedWasSeen, Local!Doing

LocalOthers(c) == \A d \in Calls \ {c} : LocalCalm(d)

LEMMA LocalSeenStep ==
    ASSUME Local!TypeOK, LocalKeyed, FilesInv, LocalAllSee, Local!Next
    PROVE  LocalAllSee'
<1> USE DEF Local!TypeOK, Local!CallTypes, Local!localVars, LocalAllSee
<1>1. ASSUME NEW c \in Calls, Local!Begin(c) PROVE LocalAllSee'
    <2>1. LocalOthers(c) /\ FilesKept
        BY <1>1, CallsAssumption DEF Local!Begin, Local!Begins, LocalOthers, LocalCalm,
           FilesKept
    <2>2. LocalUnseeing(c)
        BY <1>1 DEF Local!Begin, Local!Begins, LocalUnseeing, LocalKeyed
    <2> QED
        BY <2>1, <2>2, LocalCalmKeepsSeen, LocalUnseeingSees DEF LocalOthers
<1>2. ASSUME NEW c \in Calls, Local!CallFails(c) PROVE LocalAllSee'
    <2>1. LocalOthers(c) /\ FilesKept
        BY <1>2, CallsAssumption DEF Local!CallFails, Local!Fails, LocalOthers, LocalCalm,
           FilesKept
    <2>2. LocalUnseeing(c)
        BY <1>2 DEF Local!CallFails, Local!Fails, LocalUnseeing
    <2> QED
        BY <2>1, <2>2, LocalCalmKeepsSeen, LocalUnseeingSees DEF LocalOthers
<1>3. ASSUME NEW c \in Calls, Local!CreateTemp(c) PROVE LocalAllSee'
    <2>1. LocalOthers(c) /\ FilesKept
        BY <1>3, CallsAssumption
        DEF Local!CreateTemp, Local!Doing, Local!GoTo, Local!Goes, Local!NoneMoves,
           LocalOthers, LocalCalm,
            FilesKept
    <2>2. LocalUnseeing(c)
        BY <1>3 DEF Local!CreateTemp, Local!Doing, Local!GoTo, Local!Goes, Local!NoneMoves,
           LocalUnseeing
    <2> QED
        BY <2>1, <2>2, LocalCalmKeepsSeen, LocalUnseeingSees DEF LocalOthers
<1>4. ASSUME NEW c \in Calls, Local!WriteTemp(c) PROVE LocalAllSee'
    <2>1. LocalOthers(c) /\ FilesKept
        BY <1>4, CallsAssumption
        DEF Local!WriteTemp, Local!Doing, Local!GoTo, Local!Goes, Local!NoneMoves,
           LocalOthers, LocalCalm,
            FilesKept
    <2>2. LocalUnseeing(c)
        BY <1>4 DEF Local!WriteTemp, Local!Doing, Local!GoTo, Local!Goes, Local!NoneMoves,
           LocalUnseeing
    <2> QED
        BY <2>1, <2>2, LocalCalmKeepsSeen, LocalUnseeingSees DEF LocalOthers
<1>5. ASSUME NEW c \in Calls, Local!CloseTemp(c) PROVE LocalAllSee'
    <2>1. LocalOthers(c) /\ FilesKept
        BY <1>5, CallsAssumption
        DEF Local!CloseTemp, Local!Doing, Local!GoTo, Local!Goes, Local!NoneMoves,
           LocalOthers, LocalCalm,
            FilesKept
    <2>2. LocalUnseeing(c)
        BY <1>5 DEF Local!CloseTemp, Local!Doing, Local!GoTo, Local!Goes, Local!NoneMoves,
           LocalUnseeing
    <2> QED
        BY <2>1, <2>2, LocalCalmKeepsSeen, LocalUnseeingSees DEF LocalOthers
<1>6. ASSUME NEW c \in Calls, Local!WriteOrCloseFails(c) PROVE LocalAllSee'
    <2>1. LocalOthers(c) /\ FilesKept
        BY <1>6, CallsAssumption
        DEF Local!WriteOrCloseFails, Local!Doing, Local!GoTo, Local!Goes, Local!NoneMoves,
           LocalOthers,
            LocalCalm, FilesKept
    <2>2. LocalUnseeing(c)
        BY <1>6 DEF Local!WriteOrCloseFails, Local!Doing, Local!GoTo, Local!Goes,
           Local!NoneMoves, LocalUnseeing
    <2> QED
        BY <2>1, <2>2, LocalCalmKeepsSeen, LocalUnseeingSees DEF LocalOthers
<1>7. ASSUME NEW c \in Calls, Local!DiscardTemp(c) PROVE LocalAllSee'
    <2>1. LocalOthers(c) /\ FilesKept
        BY <1>7, CallsAssumption
        DEF Local!DiscardTemp, Local!Doing, Local!Fails, LocalOthers, LocalCalm, FilesKept
    <2>2. LocalUnseeing(c)
        BY <1>7 DEF Local!DiscardTemp, Local!Doing, Local!Fails, LocalUnseeing
    <2> QED
        BY <2>1, <2>2, LocalCalmKeepsSeen, LocalUnseeingSees DEF LocalOthers
<1>8. ASSUME NEW c \in Calls, Local!RenameTemp(c) PROVE LocalAllSee'
    <2>1. LocalOthers(c) /\ FilesKept
        BY <1>8, CallsAssumption
        DEF Local!RenameTemp, Local!Doing, Local!Answers, LocalOthers, LocalCalm, FilesKept
    <2>2. LocalUnseeing(c)
        BY <1>8 DEF Local!RenameTemp, Local!Doing, Local!Answers, LocalUnseeing
    <2> QED
        BY <2>1, <2>2, LocalCalmKeepsSeen, LocalUnseeingSees DEF LocalOthers
<1>9. ASSUME NEW c \in Calls, Local!RenameFails(c) PROVE LocalAllSee'
    <2>1. LocalOthers(c) /\ FilesKept
        BY <1>9, CallsAssumption
        DEF Local!RenameFails, Local!Doing, Local!Fails, LocalOthers, LocalCalm, FilesKept
    <2>2. LocalUnseeing(c)
        BY <1>9 DEF Local!RenameFails, Local!Doing, Local!Fails, LocalUnseeing
    <2> QED
        BY <2>1, <2>2, LocalCalmKeepsSeen, LocalUnseeingSees DEF LocalOthers
<1>10. ASSUME NEW c \in Calls, Local!OpenFile(c) PROVE LocalAllSee'
    <2>1. LocalOthers(c) /\ FilesKept /\ about[c] \in Keys /\ UNCHANGED <<does, about, dir, whole>>
        <3>1. UNCHANGED <<does, about, dir, whole, todo, spared>>
            BY <1>10 DEF Local!OpenFile, Local!Answers, Local!Goes, Local!NoneMoves
        <3>2. about[c] \in Keys
            BY <1>10 DEF Local!OpenFile, Local!Doing, LocalKeyed, Local!Sweeps
        <3>3. /\ state[c] = "running"
              /\ \A d \in Calls \ {c} : UNCHANGED <<state[d], at[d], opened[d]>>
            BY <1>10 DEF Local!OpenFile, Local!Doing, Local!Answers, Local!GoTo, Local!Goes,
               Local!NoneMoves
        <3> QED
            BY <3>1, <3>2, <3>3 DEF LocalOthers, LocalCalm, FilesKept
    <2>2. CASE Local!Answers(c, None)
        <3>1. LocalUnseeing(c)
            BY <2>2 DEF Local!Answers, LocalUnseeing
        <3> QED
            BY <2>1, <3>1, LocalCalmKeepsSeen, LocalUnseeingSees DEF LocalOthers
    <2>3. CASE /\ dir[about[c]] # None /\ opened' = [opened EXCEPT ![c] = dir[about[c]]]
               /\ Local!GoTo(c, "read") /\ Local!Goes(c)
        <3>1. /\ opened'[c] = dir[about[c]] /\ opened'[c] \in Local!Entries
              /\ opened'[c] \in Calls => state'[opened'[c]] = "ok"
            BY <2>1, <2>3 DEF FilesInv, Local!OneNamePerFile, Local!Goes, Local!NoneMoves
        <3>2. saw'[c][about[c]] = saw[c][about[c]] \cup {Local!Content'[about[c]]}
            BY <1>10, <2>1, <2>3, LocalSeenGrows DEF Local!OpenFile, Local!Doing,
               Local!Goes, Local!NoneMoves
        <3>3. Local!Content'[about[c]] = IF opened'[c] \in whole' THEN opened'[c] ELSE None
            BY <2>1, <3>1 DEF Local!Content
        <3>4. does'[c] = "Get" /\ about'[c] = about[c]
            BY <1>10, <2>1 DEF Local!OpenFile, Local!Doing
        <3>5. LocalSeenBy(c)'
            BY <3>1, <3>2, <3>3, <3>4
            DEF LocalSeenBy, OpenedWasSeen, RemovedWasSeen, Local!Doing
        <3> QED
            BY <2>1, <3>5, LocalCalmKeepsSeen DEF LocalOthers
    <2> QED
        BY <1>10, <2>2, <2>3 DEF Local!OpenFile
<1>11. ASSUME NEW c \in Calls, Local!ReadFile(c) PROVE LocalAllSee'
    <2>1. LocalOthers(c) /\ FilesKept
        BY <1>11, CallsAssumption
        DEF Local!ReadFile, Local!Doing, Local!Answers, LocalOthers, LocalCalm, FilesKept
    <2>2. LocalUnseeing(c)
        BY <1>11 DEF Local!ReadFile, Local!Doing, Local!Answers, LocalUnseeing
    <2> QED
        BY <2>1, <2>2, LocalCalmKeepsSeen, LocalUnseeingSees DEF LocalOthers
<1>12. ASSUME NEW c \in Calls, Local!DeleteFile(c) PROVE LocalAllSee'
    <2>1. LocalOthers(c) /\ FilesKept
        BY <1>12, CallsAssumption
        DEF Local!DeleteFile, Local!Doing, Local!Answers, LocalOthers, LocalCalm, FilesKept
    <2>2. LocalUnseeing(c)
        BY <1>12 DEF Local!DeleteFile, Local!Doing, Local!Answers, LocalUnseeing
    <2> QED
        BY <2>1, <2>2, LocalCalmKeepsSeen, LocalUnseeingSees DEF LocalOthers
<1>13. ASSUME NEW c \in Calls, Local!ListDir(c) PROVE LocalAllSee'
    <2>1. /\ LocalOthers(c) /\ FilesKept /\ does'[c] = "Clear" /\ does'[c] = does[c]
          /\ state[c] = "running" /\ state'[c] = "running" /\ about'[c] = about[c]
        BY <1>13, CallsAssumption
        DEF Local!ListDir, Local!Doing, Local!GoTo, Local!Goes, Local!NoneMoves,
           LocalOthers, LocalCalm,
            FilesKept
    <2>2. ASSUME NEW k \in Keys \ (todo'[c] \cup spared'[c]), at'[c] = "remove"
          PROVE  None \in saw'[c][k]
        <3>1. saw'[c][k] = saw[c][k] \cup {Local!Content'[k]}
            BY <2>1, LocalSeenGrows DEF Local!Sweeps
        <3>2. dir'[k] = None
            BY <1>13 DEF Local!ListDir
        <3>3. Local!Content'[k] = None
            BY <3>2 DEF Local!Content
        <3> QED
            BY <3>1, <3>3
    <2>3. LocalSeenBy(c)'
        BY <2>1, <2>2 DEF LocalSeenBy, OpenedWasSeen, RemovedWasSeen, Local!Doing
    <2> QED
        BY <2>1, <2>3, LocalCalmKeepsSeen DEF LocalOthers
<1>14. ASSUME NEW c \in Calls, Local!RemoveName(c) PROVE LocalAllSee'
    <2>1. /\ LocalOthers(c) /\ FilesKept /\ does'[c] = "Clear" /\ does'[c] = does[c]
          /\ state[c] = "running" /\ state'[c] = "running" /\ about'[c] = about[c]
        BY <1>14, CallsAssumption
        DEF Local!RemoveName, Local!Doing, Local!Goes, Local!NoneMoves, LocalOthers, LocalCalm,
            FilesKept
    <2>2. ASSUME NEW k \in Keys \ (todo'[c] \cup spared'[c]), at'[c] = "remove"
          PROVE  None \in saw'[c][k]
        <3>1. saw'[c][k] = saw[c][k] \cup {Local!Content'[k]}
            BY <2>1, LocalSeenGrows DEF Local!Sweeps
        <3>2. PICK n \in todo[c] : /\ todo' = [todo EXCEPT ![c] = @ \ {n}]
                                   /\ dir' = [j \in Keys |-> IF j = n THEN None ELSE dir[j]]
            BY <1>14 DEF Local!RemoveName
        <3>3. CASE k = n
            <4>1. Local!Content'[k] = None
                BY <3>2, <3>3 DEF Local!Content
            <4> QED
                BY <3>1, <4>1
        <3>4. CASE k # n
            <4>1. k \notin todo[c] \cup spared[c] /\ at[c] = "remove" /\ Local!Doing(c, "Clear")
                BY <1>14, <2>2, <3>2, <3>4 DEF Local!RemoveName
            <4> QED
                BY <3>1, <4>1 DEF LocalSeenBy, RemovedWasSeen
        <3> QED
            BY <3>3, <3>4
    <2>3. LocalSeenBy(c)'
        BY <2>1, <2>2 DEF LocalSeenBy, OpenedWasSeen, RemovedWasSeen, Local!Doing
    <2> QED
        BY <2>1, <2>3, LocalCalmKeepsSeen DEF LocalOthers
<1>15. ASSUME NEW c \in Calls, Local!RemoveFails(c) PROVE LocalAllSee'
    <2>1. /\ LocalOthers(c) /\ FilesKept /\ does'[c] = "Clear" /\ does'[c] = does[c]
          /\ state[c] = "running" /\ state'[c] = "running" /\ about'[c] = about[c]
        BY <1>15, CallsAssumption
        DEF Local!RemoveFails, Local!Doing, Local!Goes, Local!NoneMoves, LocalOthers, LocalCalm,
            FilesKept
    <2>2. ASSUME NEW k \in Keys \ (todo'[c] \cup spared'[c]), at'[c] = "remove"
          PROVE  None \in saw'[c][k]
        <3>1. saw'[c][k] = saw[c][k] \cup {Local!Content'[k]}
            BY <2>1, LocalSeenGrows DEF Local!Sweeps
        <3>2. k \notin todo[c] \cup spared[c] /\ at[c] = "remove" /\ Local!Doing(c, "Clear")
            BY <1>15, <2>2 DEF Local!RemoveFails
        <3> QED
            BY <3>1, <3>2 DEF LocalSeenBy, RemovedWasSeen
    <2>3. LocalSeenBy(c)'
        BY <2>1, <2>2 DEF LocalSeenBy, OpenedWasSeen, RemovedWasSeen, Local!Doing
    <2> QED
        BY <2>1, <2>3, LocalCalmKeepsSeen DEF LocalOthers
<1>16. ASSUME NEW c \in Calls, Local!ClearReturns(c) PROVE LocalAllSee'
    <2>1. LocalOthers(c) /\ FilesKept
        BY <1>16, CallsAssumption
        DEF Local!ClearReturns, Local!Doing, Local!Answers, LocalOthers, LocalCalm, FilesKept
    <2>2. LocalUnseeing(c)
        BY <1>16 DEF Local!ClearReturns, Local!Doing, Local!Answers, LocalUnseeing
    <2> QED
        BY <2>1, <2>2, LocalCalmKeepsSeen, LocalUnseeingSees DEF LocalOthers
<1>17. CASE Local!ProcessDies
    <2>1. FilesKept /\ \A d \in Calls : LocalCalm(d)
        BY <1>17 DEF Local!ProcessDies, Local!Die, Local!Running, FilesKept, LocalCalm
    <2> QED
        BY <2>1, LocalCalmKeepsSeen
<1>18. CASE Local!PowerFails
    <2>1. \A d \in Calls : state'[d] # "running"
        BY <1>18 DEF Local!PowerFails, Local!Die, Local!Running
    <2> QED
        BY <2>1, LocalUnseeingSees DEF LocalUnseeing
<1>19. CASE Local!NoneMoves /\ UNCHANGED Local!localVars
    BY <1>19, LocalCalmKeepsSeen DEF Local!NoneMoves, LocalCalm, FilesKept
<1> QED
    BY <1>1, <1>2, <1>3, <1>4, <1>5, <1>6, <1>7, <1>8, <1>9, <1>10, <1>11,
        <1>12, <1>13, <1>14, <1>15, <1>16, <1>17, <1>18, <1>19
    DEF Local!Next, Local!SetStep, Local!OtherStep, Local!Quiescent

------------------------------------------------------------------------------
(* The contract *)

\* What the contract asks of one call.
LocalMovesAsPromised(c) ==
    /\ Local!Contract!CallMoves(c)
    /\ IF state[c] = "new" /\ state'[c] = "running"
       THEN /\ does'[c] \in Local!TaggedOps
                      /\ (does'[c] \in Local!Sweeps \/ about'[c] \in Keys)
       ELSE does'[c] = does[c] /\ about'[c] = about[c]
    /\ spared[c] \subseteq spared'[c]

LocalAllMove == \A c \in Calls : LocalMovesAsPromised(c)

LocalIdle(c) == UNCHANGED <<state[c], does[c], about[c], got[c], spared[c]>>

OthersIdle(c) == \A d \in Calls \ {c} : LocalIdle(d)

LEMMA LocalIdleMoves ==
    ASSUME NEW c \in Calls, LocalIdle(c)
    PROVE  LocalMovesAsPromised(c)
BY DEF LocalIdle, LocalMovesAsPromised, Local!Contract!CallMoves

LEMMA FailureMoves ==
    ASSUME Local!TypeOK, NEW c \in Calls, state[c] = "running", Local!Fails(c), spared' = spared
    PROVE  LocalMovesAsPromised(c) /\ OthersIdle(c)
BY DEF Local!TypeOK, Local!CallTypes, Local!Fails, OthersIdle, LocalIdle,
   LocalMovesAsPromised, Local!Contract!CallMoves

LEMMA LocalSuccessMoves ==
    ASSUME Local!TypeOK, NEW c \in Calls, state[c] = "running", NEW v, Local!Answers(c, v),
           Local!Contract!Kept(c), spared' = spared
    PROVE  LocalMovesAsPromised(c) /\ OthersIdle(c)
BY DEF Local!TypeOK, Local!CallTypes, Local!Answers, OthersIdle, LocalIdle,
   LocalMovesAsPromised, Local!Contract!CallMoves

LEMMA LocalWatchedNow ==
    ASSUME NEW c \in Calls, UNCHANGED <<does, about>>, NEW k \in Keys,
           does[c] \in Local!Sweeps \/ k = about[c]
    PROVE  Local!Contract!Watched(c, Local!Content')[k] = saw[c][k] \cup {Local!Content'[k]}
BY DEF Local!Contract!Watched, Local!Contract!Touched, Local!Contract!Sweeps, Local!Sweeps

\* A key becomes empty at any time, and gets a new entry only from a Set of it.
ContentChanges ==
    \A k \in Keys :
        \/ Local!Content'[k] \in {Local!Content[k], None}
        \/ /\ Local!Content'[k] \in Calls /\ Local!Doing(Local!Content'[k], "Set")
           /\ about[Local!Content'[k]] = k

LEMMA SameContent ==
    ASSUME dir' = dir,
           \A k \in Keys : dir[k] \in whole' => dir[k] \in whole
    PROVE  ContentChanges
<1> SUFFICES ASSUME NEW k \in Keys PROVE Local!Content'[k] \in {Local!Content[k], None}
    BY DEF ContentChanges
<1>1. Local!Content'[k] = IF dir[k] \in whole' THEN dir[k] ELSE None
    BY DEF Local!Content
<1>2. Local!Content[k] = IF dir[k] \in whole THEN dir[k] ELSE None
    BY DEF Local!Content
<1> QED
    BY <1>1, <1>2

LEMMA ContentStep ==
    ASSUME Local!TypeOK, LocalKeyed, FilesInv, Local!Next
    PROVE  ContentChanges
<1> USE DEF Local!TypeOK, Local!localVars
<1>1. ASSUME NEW c \in Calls, Local!Begin(c) PROVE ContentChanges
    BY <1>1, SameContent DEF Local!Begin, Local!Begins
<1>2. ASSUME NEW c \in Calls, Local!CallFails(c) PROVE ContentChanges
    BY <1>2, SameContent DEF Local!CallFails, Local!Fails
<1>3. ASSUME NEW c \in Calls, Local!CreateTemp(c) PROVE ContentChanges
    BY <1>3, SameContent DEF Local!CreateTemp, Local!Doing, Local!GoTo, Local!Goes,
       Local!NoneMoves
<1>4. ASSUME NEW c \in Calls, Local!WriteTemp(c) PROVE ContentChanges
    BY <1>4, SameContent DEF Local!WriteTemp, Local!Doing, FilesInv, Local!OneNamePerFile
<1>5. ASSUME NEW c \in Calls, Local!CloseTemp(c) PROVE ContentChanges
    BY <1>5, SameContent DEF Local!CloseTemp, Local!Doing, Local!GoTo, Local!Goes,
       Local!NoneMoves
<1>6. ASSUME NEW c \in Calls, Local!WriteOrCloseFails(c) PROVE ContentChanges
    BY <1>6, SameContent DEF Local!WriteOrCloseFails, Local!Doing, Local!GoTo, Local!Goes,
       Local!NoneMoves
<1>7. ASSUME NEW c \in Calls, Local!DiscardTemp(c) PROVE ContentChanges
    BY <1>7, SameContent DEF Local!DiscardTemp, Local!Doing, Local!Fails
<1>8. ASSUME NEW c \in Calls, Local!RenameTemp(c) PROVE ContentChanges
    <2> SUFFICES ASSUME NEW k \in Keys, Local!Content'[k] \notin {Local!Content[k], None}
                 PROVE  Local!Content'[k] = c /\ about[c] = k
        BY <1>8 DEF ContentChanges, Local!RenameTemp, Local!Doing
    <2>1. /\ Local!Content'[k] = IF dir'[k] \in whole THEN dir'[k] ELSE None
          /\ Local!Content[k] = IF dir[k] \in whole THEN dir[k] ELSE None
          /\ dir' = [dir EXCEPT ![about[c]] = c]
        BY <1>8 DEF Local!RenameTemp, Local!Content
    <2> QED
        BY <2>1
<1>9. ASSUME NEW c \in Calls, Local!RenameFails(c) PROVE ContentChanges
    BY <1>9, SameContent DEF Local!RenameFails, Local!Doing, Local!Fails
<1>10. ASSUME NEW c \in Calls, Local!OpenFile(c) PROVE ContentChanges
    BY <1>10, SameContent DEF Local!OpenFile, Local!Doing, Local!Answers, Local!GoTo,
       Local!Goes, Local!NoneMoves
<1>11. ASSUME NEW c \in Calls, Local!ReadFile(c) PROVE ContentChanges
    BY <1>11, SameContent DEF Local!ReadFile, Local!Doing, Local!Answers
<1>12. ASSUME NEW c \in Calls, Local!DeleteFile(c) PROVE ContentChanges
    BY <1>12 DEF Local!DeleteFile, ContentChanges, Local!Content
<1>13. ASSUME NEW c \in Calls, Local!ListDir(c) PROVE ContentChanges
    BY <1>13, SameContent DEF Local!ListDir, Local!Doing, Local!GoTo, Local!Goes,
       Local!NoneMoves
<1>14. ASSUME NEW c \in Calls, Local!RemoveName(c) PROVE ContentChanges
    <2>1. whole' = whole /\ \A k \in Keys : dir'[k] \in {dir[k], None}
        BY <1>14 DEF Local!RemoveName
    <2> QED
        BY <2>1 DEF ContentChanges, Local!Content
<1>15. ASSUME NEW c \in Calls, Local!RemoveFails(c) PROVE ContentChanges
    BY <1>15, SameContent DEF Local!RemoveFails, Local!Doing, Local!Goes, Local!NoneMoves
<1>16. ASSUME NEW c \in Calls, Local!ClearReturns(c) PROVE ContentChanges
    BY <1>16, SameContent DEF Local!ClearReturns, Local!Doing, Local!Answers
<1>17. CASE Local!ProcessDies
    BY <1>17, SameContent DEF Local!ProcessDies, Local!Die, Local!Running
<1>18. CASE Local!PowerFails
    BY <1>18, SameContent DEF Local!PowerFails
<1>19. CASE Local!NoneMoves /\ UNCHANGED Local!localVars
    BY <1>19, SameContent DEF Local!NoneMoves
<1> QED
    BY <1>1, <1>2, <1>3, <1>4, <1>5, <1>6, <1>7, <1>8, <1>9, <1>10, <1>11,
        <1>12, <1>13, <1>14, <1>15, <1>16, <1>17, <1>18, <1>19
    DEF Local!Next, Local!SetStep, Local!OtherStep, Local!Quiescent

LEMMA LocalCallsStep ==
    ASSUME Local!TypeOK, LocalKeyed, FilesInv, LocalAllSee, Local!Next
    PROVE  LocalAllMove
<1> USE DEF Local!TypeOK, Local!CallTypes, Local!localVars, LocalAllSee, LocalAllMove
<1>1. ASSUME NEW c \in Calls, Local!Begin(c) PROVE LocalAllMove
    <2>1. /\ state[c] = "new" /\ state'[c] = "running" /\ got' = got /\ spared' = spared
          /\ does'[c] \in Local!TaggedOps /\ (does'[c] \in Local!Sweeps \/ about'[c] \in Keys)
          /\ \A d \in Calls \ {c} : LocalIdle(d)
        BY <1>1 DEF Local!Begin, Local!Begins, Local!StoreOps, Local!TaggedOps, LocalIdle
    <2>2. LocalMovesAsPromised(c)
        BY <2>1 DEF LocalMovesAsPromised, Local!Contract!CallMoves
    <2> QED
        BY <2>1, <2>2, LocalIdleMoves
<1>2. ASSUME NEW c \in Calls, Local!CallFails(c) PROVE LocalAllMove
    <2>1. state[c] = "running" /\ Local!Fails(c) /\ spared' = spared
        BY <1>2 DEF Local!CallFails, Local!Doing
    <2> QED
        BY <2>1, FailureMoves, LocalIdleMoves DEF OthersIdle
<1>3. ASSUME NEW c \in Calls, Local!CreateTemp(c) PROVE LocalAllMove
    <2>1. \A d \in Calls : LocalIdle(d)
        BY <1>3 DEF Local!CreateTemp, Local!Goes, Local!NoneMoves, LocalIdle
    <2> QED
        BY <2>1, LocalIdleMoves
<1>4. ASSUME NEW c \in Calls, Local!WriteTemp(c) PROVE LocalAllMove
    <2>1. \A d \in Calls : LocalIdle(d)
        BY <1>4 DEF Local!WriteTemp, Local!Goes, Local!NoneMoves, LocalIdle
    <2> QED
        BY <2>1, LocalIdleMoves
<1>5. ASSUME NEW c \in Calls, Local!CloseTemp(c) PROVE LocalAllMove
    <2>1. \A d \in Calls : LocalIdle(d)
        BY <1>5 DEF Local!CloseTemp, Local!Goes, Local!NoneMoves, LocalIdle
    <2> QED
        BY <2>1, LocalIdleMoves
<1>6. ASSUME NEW c \in Calls, Local!WriteOrCloseFails(c) PROVE LocalAllMove
    <2>1. \A d \in Calls : LocalIdle(d)
        BY <1>6 DEF Local!WriteOrCloseFails, Local!Goes, Local!NoneMoves, LocalIdle
    <2> QED
        BY <2>1, LocalIdleMoves
<1>7. ASSUME NEW c \in Calls, Local!DiscardTemp(c) PROVE LocalAllMove
    <2>1. state[c] = "running" /\ Local!Fails(c) /\ spared' = spared
        BY <1>7 DEF Local!DiscardTemp, Local!Doing
    <2> QED
        BY <2>1, FailureMoves, LocalIdleMoves DEF OthersIdle
<1>8. ASSUME NEW c \in Calls, Local!RenameTemp(c) PROVE LocalAllMove
    <2>1. /\ state[c] = "running" /\ Local!Answers(c, None)
          /\ UNCHANGED <<does, about, spared>>
        BY <1>8 DEF Local!RenameTemp, Local!Doing, Local!Answers
    <2>2. Local!Contract!Kept(c)
        <3>1. does[c] = "Set" /\ about[c] \in Keys /\ c \in whole
            BY <1>8 DEF Local!RenameTemp, Local!Doing, LocalKeyed, Local!Sweeps, FilesInv,
               Complete
        <3>2. Local!Content'[about[c]] = c
            BY <1>8, <3>1 DEF Local!RenameTemp, Local!Content
        <3> QED
            BY <2>1, <3>1, <3>2, LocalWatchedNow DEF Local!Contract!Kept
    <2> QED
        BY <2>1, <2>2, LocalSuccessMoves, LocalIdleMoves DEF OthersIdle
<1>9. ASSUME NEW c \in Calls, Local!RenameFails(c) PROVE LocalAllMove
    <2>1. state[c] = "running" /\ Local!Fails(c) /\ spared' = spared
        BY <1>9 DEF Local!RenameFails, Local!Doing
    <2> QED
        BY <2>1, FailureMoves, LocalIdleMoves DEF OthersIdle
<1>10. ASSUME NEW c \in Calls, Local!OpenFile(c) PROVE LocalAllMove
    <2>1. CASE Local!Goes(c)
        <3>1. \A d \in Calls : LocalIdle(d)
            BY <1>10, <2>1 DEF Local!OpenFile, Local!Goes, Local!NoneMoves, LocalIdle
        <3> QED
            BY <3>1, LocalIdleMoves
    <2>2. CASE dir[about[c]] = None /\ Local!Answers(c, None)
        <3>1. /\ does[c] = "Get" /\ about[c] \in Keys /\ got'[c] = None
              /\ state[c] = "running" /\ UNCHANGED <<does, about, spared, dir>>
            BY <1>10, <2>2 DEF Local!OpenFile, Local!Doing, LocalKeyed, Local!Sweeps,
               Local!Answers
        <3>2. Local!Content'[about[c]] = None
            BY <2>2, <3>1 DEF Local!Content
        <3>3. Local!Contract!Kept(c)
            BY <3>1, <3>2, LocalWatchedNow DEF Local!Contract!Kept
        <3> QED
            BY <2>2, <3>1, <3>3, LocalSuccessMoves, LocalIdleMoves DEF OthersIdle
    <2> QED
        BY <1>10, <2>1, <2>2 DEF Local!OpenFile
<1>11. ASSUME NEW c \in Calls, Local!ReadFile(c) PROVE LocalAllMove
    <2>1. /\ state[c] = "running" 
          /\ Local!Answers(c, IF opened[c] \in whole THEN opened[c] ELSE None)
          /\ UNCHANGED <<does, about, spared>>
        BY <1>11 DEF Local!ReadFile, Local!Doing, Local!Answers
    <2>2. Local!Contract!Kept(c)
        <3>1. does[c] = "Get" /\ about[c] \in Keys /\ got'[c] \in saw[c][about[c]]
            BY <1>11
            DEF Local!ReadFile, Local!Doing, LocalKeyed, Local!Sweeps, LocalSeenBy,
                OpenedWasSeen, Local!Answers
        <3> QED
            BY <2>1, <3>1, LocalWatchedNow DEF Local!Contract!Kept
    <2> QED
        BY <2>1, <2>2, LocalSuccessMoves, LocalIdleMoves DEF OthersIdle
<1>12. ASSUME NEW c \in Calls, Local!DeleteFile(c) PROVE LocalAllMove
    <2>1. /\ state[c] = "running" /\ Local!Answers(c, None)
          /\ UNCHANGED <<does, about, spared>>
        BY <1>12 DEF Local!DeleteFile, Local!Doing, Local!Answers
    <2>2. Local!Contract!Kept(c)
        <3>1. does[c] = "Delete" /\ about[c] \in Keys
            BY <1>12 DEF Local!DeleteFile, Local!Doing, LocalKeyed, Local!Sweeps
        <3>2. Local!Content'[about[c]] = None
            BY <1>12, <3>1 DEF Local!DeleteFile, Local!Content
        <3> QED
            BY <2>1, <3>1, <3>2, LocalWatchedNow DEF Local!Contract!Kept
    <2> QED
        BY <2>1, <2>2, LocalSuccessMoves, LocalIdleMoves DEF OthersIdle
<1>13. ASSUME NEW c \in Calls, Local!ListDir(c) PROVE LocalAllMove
    <2>1. \A d \in Calls : LocalIdle(d)
        BY <1>13 DEF Local!ListDir, Local!Goes, Local!NoneMoves, LocalIdle
    <2> QED
        BY <2>1, LocalIdleMoves
<1>14. ASSUME NEW c \in Calls, Local!RemoveName(c) PROVE LocalAllMove
    <2>1. \A d \in Calls : LocalIdle(d)
        BY <1>14 DEF Local!RemoveName, Local!Goes, Local!NoneMoves, LocalIdle
    <2> QED
        BY <2>1, LocalIdleMoves
<1>15. ASSUME NEW c \in Calls, Local!RemoveFails(c) PROVE LocalAllMove
    <2>1. /\ UNCHANGED <<state, does, about, got>>
          /\ \A d \in Calls : spared[d] \subseteq spared'[d]
        BY <1>15 DEF Local!RemoveFails, Local!Goes, Local!NoneMoves
    <2> QED
        BY <2>1 DEF LocalMovesAsPromised, Local!Contract!CallMoves
<1>16. ASSUME NEW c \in Calls, Local!ClearReturns(c) PROVE LocalAllMove
    <2>1. /\ state[c] = "running" /\ Local!Answers(c, None)
          /\ UNCHANGED <<does, about, spared>>
        BY <1>16 DEF Local!ClearReturns, Local!Doing, Local!Answers
    <2>2. Local!Contract!Kept(c)
        <3>1. does[c] = "Clear" /\ \A k \in Keys \ spared[c] : None \in saw[c][k]
            BY <1>16 DEF Local!ClearReturns, Local!Doing, LocalSeenBy, RemovedWasSeen
        <3> QED
            BY <2>1, <3>1, LocalWatchedNow DEF Local!Contract!Kept, Local!Sweeps
    <2> QED
        BY <2>1, <2>2, LocalSuccessMoves, LocalIdleMoves DEF OthersIdle
<1>17. CASE Local!ProcessDies
    BY <1>17 DEF Local!ProcessDies, Local!Die, Local!Running, LocalMovesAsPromised,
       Local!Contract!CallMoves
<1>18. CASE Local!PowerFails
    BY <1>18 DEF Local!PowerFails, Local!Die, Local!Running, LocalMovesAsPromised,
       Local!Contract!CallMoves
<1>19. CASE Local!NoneMoves /\ UNCHANGED Local!localVars
    BY <1>19, LocalIdleMoves DEF Local!NoneMoves, LocalIdle
<1> QED
    BY <1>1, <1>2, <1>3, <1>4, <1>5, <1>6, <1>7, <1>8, <1>9, <1>10, <1>11,
        <1>12, <1>13, <1>14, <1>15, <1>16, <1>17, <1>18, <1>19
    DEF Local!Next, Local!SetStep, Local!OtherStep, Local!Quiescent

LEMMA LocalContractStep ==
    ASSUME LocalInv, [Local!Next]_(Local!vars)
    PROVE  [Local!Contract!Next]_(Local!Contract!contractVars)
<1>1. CASE UNCHANGED Local!vars
    BY <1>1
    DEF Local!vars, Local!localVars, Local!callVars, Local!Content, Local!Contract!contractVars,
        Local!Contract!callVars
<1>2. CASE Local!Next
    <2>1. Local!TypeOK' /\ ContentChanges /\ LocalAllMove
        BY <1>2, LocalTypeStep, ContentStep, LocalCallsStep DEF LocalInv
    <2>2. Local!Contract!ContentChanges
        <3>1. Local!Content' \in [Keys -> Local!Entries \cup {None}]
            BY <2>1 DEF Local!TypeOK, Local!Content
        <3> QED
            BY <2>1, <3>1
            DEF ContentChanges, Local!Contract!ContentChanges, Local!Contract!Writers,
                Local!Contract!Entries, Local!Entries, Local!Doing
    <2>3. Local!Contract!Watch(Local!Content')
        BY <1>2
        DEF Local!Next, Local!Watch, Local!Contract!Watch, Local!Watched,
           Local!Contract!Watched, Local!Touched,
            Local!Contract!Touched, Local!Sweeps, Local!Contract!Sweeps
    <2> QED
        BY <2>1, <2>2, <2>3
        DEF Local!Contract!Next, LocalAllMove, LocalMovesAsPromised, Local!TypeOK,
           Local!CallTypes,
            Local!Contract!Entries, Local!Entries, Local!Contract!TaggedOps,
               Local!Contract!StoreOps, Local!TaggedOps, Local!StoreOps,
            Local!Contract!Sweeps, Local!Sweeps
<1> QED
    BY <1>1, <1>2

------------------------------------------------------------------------------
(* The theorems *)

LEMMA LocalInitHolds == Local!Init => LocalInv
<1> SUFFICES ASSUME Local!Init PROVE LocalInv
    OBVIOUS
<1>1. Local!TypeOK
    BY DEF Local!Init, Local!CallInit, Local!LocalInit, Local!TypeOK, Local!CallTypes,
       Local!Entries
<1>2. FilesInv
    <2>1. \A k \in Keys : dir[k] \in {Old, None}
        BY DEF Local!Init, Local!LocalInit
    <2>2. temps = {} /\ Old \in whole /\ \A c \in Calls : state[c] = "new"
        BY DEF Local!Init, Local!CallInit, Local!LocalInit
    <2> QED
        BY <2>1, <2>2, CallsAssumption
        DEF FilesInv, Local!OneNamePerFile, Local!WholeUnlessPowerLost, Complete, Local!Doing
<1>3. LocalKeyed /\ LocalAllSee
    BY DEF Local!Init, Local!CallInit, Local!LocalInit, LocalKeyed, LocalAllSee,
       LocalSeenBy, OpenedWasSeen,
           RemovedWasSeen, Local!Doing
<1> QED
    BY <1>1, <1>2, <1>3 DEF LocalInv

LEMMA LocalStep ==
    ASSUME LocalInv, [Local!Next]_(Local!vars)
    PROVE  LocalInv'
<1>1. Local!TypeOK'
    BY LocalTypeStep DEF LocalInv
<1>2. CASE Local!Next
    BY <1>1, <1>2, LocalKeyedStep, FilesStep, LocalSeenStep DEF LocalInv
<1>3. CASE UNCHANGED Local!vars
    BY <1>3, <1>1, NoFault
    DEF Local!vars, Local!localVars, Local!callVars, LocalInv, LocalKeyed, FilesInv,
        Local!OneNamePerFile, Local!WholeUnlessPowerLost, Complete, LocalAllSee,
        LocalSeenBy, OpenedWasSeen, RemovedWasSeen, Local!Doing, Local!Running
<1> QED
    BY <1>2, <1>3

\* For any number of processes, calls and keys, and whatever fails, is killed or
\* loses power: no file gets its name before its bytes, an open file does not
\* change, a Clear forgets no key it has listed (stores/local/store.go:39-102).
THEOREM LocalInvariant == Local!Spec => []LocalInv
BY LocalStep, LocalInitHolds, PTL DEF Local!Spec

\* A file has one name, of the key its Set was called with; it is complete when it
\* gets it, and stays so unless power is lost (stores/local/store.go:55-77).
THEOREM FilesStayWhole == Local!Spec => []Local!FilesAreWhole
<1>1. LocalInv => Local!FilesAreWhole
    BY DEF LocalInv, FilesInv, Local!FilesAreWhole
<1> QED
    BY <1>1, LocalInvariant, PTL

\* The directory is a store as callers of store.go:5-10 understand it: every step
\* of every system call is a step or a stutter of StoreContract.
THEOREM LocalStoreKeepsContract == Local!Spec => Local!ImplementsContract
<1>1. Local!Init => Local!Contract!Init
    BY DEF Local!Init, Local!CallInit, Local!LocalInit, Local!Content, Local!Contract!Init,
       Local!Contract!CallInit
<1>2. LocalInv /\ [Local!Next]_(Local!vars) =>
        [Local!Contract!Next]_(Local!Contract!contractVars)
    BY LocalContractStep
<1> QED
    BY <1>1, <1>2, LocalInvariant, PTL
    DEF Local!Spec, Local!ImplementsContract, Local!Contract!Spec

------------------------------------------------------------------------------
(* Calls of the stores in memory, which neither fail nor die *)

\* What a call does is settled when it begins.
CallsSettled ==
    \A c \in Calls : state[c] = "running" =>
        does[c] \in Local!TaggedOps /\ (does[c] \in Local!Sweeps \/ about[c] \in Keys)

\* CallTypes but for the history.
CallShapes ==
    /\ state \in [Calls -> {"new", "running", "ok", "error", "dead"}]
    /\ does \in [Calls -> Local!TaggedOps \cup {None}] /\ about \in [Calls -> Keys \cup {None}]
    /\ got \in [Calls -> Local!Entries \cup {None}]

Rests(c) == UNCHANGED <<state[c], does[c], about[c], got[c]>>

Starts(c) ==
    /\ state[c] = "new" /\ state'[c] = "running" /\ got'[c] = got[c]
    /\ does'[c] \in Local!TaggedOps /\ (does'[c] \in Local!Sweeps \/ about'[c] \in Keys)

Succeeds(c, v) ==
    /\ state[c] = "running" /\ state'[c] = "ok" /\ got'[c] = v
    /\ does'[c] = does[c] /\ about'[c] = about[c]

OthersRest(c) == \A d \in Calls \ {c} : Rests(d)

LEMMA CallsBegin ==
    ASSUME CallShapes, CallsSettled, NEW c \in Calls, Local!Begins(c, Local!TaggedOps)
    PROVE  CallShapes' /\ CallsSettled' /\ Starts(c) /\ OthersRest(c)
<1>1. PICK o \in Local!TaggedOps, k \in (IF does'[c] \in Local!Sweeps THEN {None} ELSE Keys) :
          /\ state[c] = "new" /\ state' = [state EXCEPT ![c] = "running"]
          /\ does' = [does EXCEPT ![c] = o] /\ about' = [about EXCEPT ![c] = k]
          /\ UNCHANGED got
    BY DEF Local!Begins, CallShapes
<1>2. CallShapes' /\ Starts(c) /\ OthersRest(c)
    BY <1>1 DEF CallShapes, Starts, OthersRest, Rests
<1> QED
    BY <1>2 DEF CallsSettled, Starts, OthersRest, Rests

LEMMA CallsAnswer ==
    ASSUME CallShapes, CallsSettled, NEW c \in Calls, state[c] = "running",
           NEW v \in Local!Entries \cup {None}, Local!Answers(c, v)
    PROVE  CallShapes' /\ CallsSettled' /\ Succeeds(c, v) /\ OthersRest(c)
<1>1. CallShapes' /\ Succeeds(c, v) /\ OthersRest(c)
    BY DEF Local!Answers, CallShapes, Succeeds, OthersRest, Rests
<1> QED
    BY <1>1 DEF CallsSettled, Succeeds, OthersRest, Rests

LEMMA CallsRest ==
    ASSUME CallShapes, CallsSettled, Local!NoneMoves
    PROVE  CallShapes' /\ CallsSettled' /\ \A c \in Calls : Rests(c)
BY DEF Local!NoneMoves, CallShapes, CallsSettled, Rests

\* v stands for what the store holds after the step.
LEMMA HistoryType ==
    ASSUME Local!CallTypes, NEW v \in [Keys -> Local!Entries \cup {None}], Local!Watch(v)
    PROVE  saw' \in [Calls -> [Keys -> SUBSET (Local!Entries \cup {None})]]
<1>1. \A c \in Calls : Local!Watched(c, v) \in [Keys -> SUBSET (Local!Entries \cup {None})]
    BY DEF Local!Watched, Local!CallTypes
<1> QED
    BY <1>1 DEF Local!Watch

LEMMA HistoryGrows ==
    ASSUME NEW v, NEW c \in Calls, does'[c] = does[c], about'[c] = about[c],
           NEW k \in Keys, does[c] \in Local!Sweeps \/ k = about[c]
    PROVE  /\ Local!Watched(c, v)[k] = saw[c][k] \cup {v[k]}
           /\ Local!Watch(v) /\ state'[c] = "running" => saw'[c][k] = saw[c][k] \cup {v[k]}
BY DEF Local!Watch, Local!Watched, Local!Touched

------------------------------------------------------------------------------
(* The single store *)

SingleTypes == Local!CallTypes /\ held \in [key : Keys, entry : Local!Entries] \cup {None}

SingleInv == SingleTypes /\ CallsSettled

\* Every call does what the contract lets it do.
SingleCalls ==
    \A c \in Calls : \/ Rests(c) \/ Starts(c)
                     \/ Succeeds(c, got'[c]) /\ Single!Contract!Kept(c)

LEMMA LoadType ==
    ASSUME SingleTypes, NEW k \in Keys
    PROVE  Single!Content[k] \in Local!Entries \cup {None}
BY DEF SingleTypes, Single!Load, Single!Content

LEMMA SingleStep ==
    ASSUME CallsAssumption, Single!NilIsNoEntry, SingleInv, Single!Next
    PROVE  SingleInv' /\ SingleCalls /\ Single!Contract!ContentChanges
<1> DEFINE HeldType == held' \in [key : Keys, entry : Local!Entries] \cup {None}
           Good == /\ CallShapes' /\ CallsSettled' /\ HeldType
                   /\ SingleCalls /\ Single!Contract!ContentChanges
<1>0. /\ CallShapes /\ CallsSettled /\ held \in [key : Keys, entry : Local!Entries] \cup {None}
      /\ Local!Watch(Single!Content')
  BY DEF SingleInv, SingleTypes, CallShapes, Local!CallTypes, Single!Next, Single!Watch,
      Local!Watch,
     Single!Watched, Local!Watched, Single!Touched, Local!Touched, Single!Sweeps, Local!Sweeps
<1>a. ASSUME held' = held PROVE HeldType /\ Single!Contract!ContentChanges
  <2>1. UNCHANGED Single!Content  BY <1>a DEF Single!Content, Single!Load
  <2>2. Single!Content \in [Keys -> Local!Entries \cup {None}]
      BY <1>0, LoadType DEF SingleInv, Single!Content
  <2> QED
      BY <1>0, <1>a, <2>1, <2>2 DEF Single!Contract!ContentChanges,
          Single!Contract!Entries, Local!Entries
<1>1. ASSUME NEW c \in Calls, Single!Begin(c) PROVE Good
  <2>1. Local!Begins(c, Local!TaggedOps) /\ held' = held
    BY <1>1 DEF Single!Begin, Single!Begins, Local!Begins, Single!TaggedOps, Local!TaggedOps,
        Single!StoreOps, Local!StoreOps, Single!Sweeps, Local!Sweeps
  <2> QED BY <1>0, <1>a, <2>1, CallsBegin DEF SingleCalls, OthersRest
<1>2. ASSUME NEW c \in Calls, Single!Get(c) PROVE Good
  <2>1. /\ state[c] = "running" /\ does[c] = "Get" /\ about[c] \in Keys
        /\ Local!Answers(c, Single!Content[about[c]]) /\ held' = held
    BY <1>0, <1>2 DEF Single!Get, Single!Doing, Single!Answers, Local!Answers, CallsSettled,
        Local!Sweeps, Single!Content
  <2>2. Single!Content[about[c]] \in Local!Entries \cup {None}
    BY <2>1, LoadType DEF SingleInv
  <2>3. CallShapes' /\ CallsSettled' /\ Succeeds(c, Single!Content[about[c]]) /\ OthersRest(c)
    BY <1>0, <2>1, <2>2, CallsAnswer
  <2>4. Single!Content' = Single!Content  BY <2>1 DEF Single!Content, Single!Load
  <2>5. Single!Contract!Kept(c)
     BY <2>1, <2>3, <2>4 DEF Single!Contract!Kept, Single!Contract!Watched,
         Single!Contract!Touched, Succeeds, Single!Contract!Sweeps
  <2> QED BY <1>0, <1>a, <2>1, <2>3, <2>5 DEF SingleCalls, OthersRest, Succeeds
<1>3. ASSUME NEW c \in Calls, Single!Set(c) PROVE Good
  <2>1. /\ state[c] = "running" /\ does[c] = "Set" /\ about[c] \in Keys
        /\ Local!Answers(c, None) /\ held' = [key |-> about[c], entry |-> c]
    BY <1>0, <1>3 DEF Single!Set, Single!Doing, Single!Answers, Local!Answers, CallsSettled,
        Local!Sweeps, Single!Content
  <2>3. CallShapes' /\ CallsSettled' /\ Succeeds(c, None) /\ OthersRest(c)
    BY <1>0, <2>1, CallsAnswer
  <2>6. HeldType /\ held' # None
      BY <2>1 DEF Local!Entries, Single!Entries, Single!NilIsNoEntry
  <2>4. \A k \in Keys : Single!Content'[k] = IF k = about[c] THEN c ELSE None
    BY <2>1, <2>6 DEF Single!Content, Single!Load
  <2>5. Single!Contract!Kept(c)
     BY <2>1, <2>3, <2>4 DEF Single!Contract!Kept, Single!Contract!Watched,
         Single!Contract!Touched, Succeeds, Single!Contract!Sweeps
  <2>7. Single!Contract!ContentChanges
    <3>1. Single!Content' \in [Keys -> Single!Contract!Entries \cup {None}]
       BY <2>4 DEF Single!Content, Single!Contract!Entries
    <3> QED
        BY <2>1, <2>4, <3>1 DEF Single!Contract!ContentChanges, Single!Contract!Writers
  <2> QED BY <1>0, <2>1, <2>3, <2>5, <2>6, <2>7 DEF SingleCalls, OthersRest, Succeeds
<1>4. ASSUME NEW c \in Calls, Single!Remove(c) PROVE Good
  <2>1. /\ state[c] = "running" /\ does[c] \in {"Delete", "Clear", "DeleteByTag"}
        /\ does[c] = "Delete" => about[c] \in Keys
        /\ Local!Answers(c, None)
        /\ held' = IF held # None /\ Single!Removes(c) THEN None ELSE held
    BY <1>0, <1>4 DEF Single!Remove, Single!Answers, Local!Answers, CallsSettled, Local!Sweeps
  <2>3. CallShapes' /\ CallsSettled' /\ Succeeds(c, None) /\ OthersRest(c)
    BY <1>0, <2>1, CallsAnswer
  <2>6. HeldType BY <1>0, <2>1
  <2>7. Single!Contract!ContentChanges
    <3>0. \A k \in Keys : Single!Content[k] \in Local!Entries \cup {None}
        BY LoadType DEF SingleInv
    <3>1. \A k \in Keys : Single!Content'[k] \in {Single!Content[k], None}
       BY <2>1 DEF Single!Content, Single!Load
    <3>2. Single!Content' \in [Keys -> Single!Contract!Entries \cup {None}]
       BY <3>0, <3>1 DEF Single!Content, Single!Contract!Entries, Local!Entries
    <3> QED  BY <3>1, <3>2 DEF Single!Contract!ContentChanges
  <2>8. ASSUME NEW k \in Keys, does[c] \in Local!Sweeps \/ k = about[c]
        PROVE  \/ Single!Content'[k] = None
               \/ does[c] = "DeleteByTag" /\ Single!Content'[k] \notin Tagged
    BY <2>1, <2>8 DEF Single!Content, Single!Load, Single!Removes, Local!Sweeps
  <2>5. Single!Contract!Kept(c)
     <3>1. \A k \in Keys : does[c] \in Local!Sweeps \/ k = about[c] =>
             Single!Contract!Watched(c, Single!Content')[k] =
                 saw[c][k] \cup {Single!Content'[k]}
        BY <2>3 DEF Single!Contract!Watched, Single!Contract!Touched,
            Single!Contract!Sweeps, Local!Sweeps, Succeeds
     <3>2. None \notin Tagged  BY CallsAssumption DEF CallsAssumption
     <3>3. CASE does[c] = "Delete"
        BY <2>1, <2>8, <3>1, <3>3 DEF Single!Contract!Kept, Local!Sweeps
     <3>4. CASE does[c] = "Clear"
        BY <2>8, <3>1, <3>4 DEF Single!Contract!Kept, Local!Sweeps
     <3>5. CASE does[c] = "DeleteByTag"
        BY <2>8, <3>1, <3>2, <3>5 DEF Single!Contract!Kept, Local!Sweeps
     <3> QED  BY <2>1, <3>3, <3>4, <3>5
  <2> QED BY <1>0, <2>1, <2>3, <2>5, <2>6, <2>7 DEF SingleCalls, OthersRest, Succeeds
<1>5. ASSUME Single!Quiescent PROVE Good
  <2>1. Local!NoneMoves /\ held' = held
      BY <1>5 DEF Single!Quiescent, Single!NoneMoves, Local!NoneMoves
  <2>2. CallShapes' /\ CallsSettled' /\ \A c \in Calls : Rests(c)  BY <1>0, <2>1, CallsRest
  <2>3. HeldType /\ Single!Contract!ContentChanges  BY <1>a, <2>1
  <2>4. SingleCalls  BY <2>2 DEF SingleCalls
  <2> QED BY <2>2, <2>3, <2>4
<1>6. Good
  <2>1. \/ \E c \in Calls :
               Single!Begin(c) \/ Single!Get(c) \/ Single!Set(c) \/ Single!Remove(c)
        \/ Single!Quiescent
    BY DEF Single!Next
  <2> HIDE DEF Good
  <2> QED BY <1>1, <1>2, <1>3, <1>4, <1>5, <2>1
<1>7. SingleTypes'
  <2>1. Single!Content' \in [Keys -> Local!Entries \cup {None}]
    BY <1>6 DEF Single!Contract!ContentChanges, Single!Contract!Entries, Local!Entries
  <2>2. saw' \in [Calls -> [Keys -> SUBSET (Local!Entries \cup {None})]]
    BY <1>0, <2>1, HistoryType DEF SingleInv, SingleTypes
  <2> QED BY <1>6, <2>2 DEF SingleTypes, Local!CallTypes, CallShapes
<1> QED BY <1>6, <1>7 DEF SingleInv

LEMMA SingleContractStep ==
    ASSUME CallsAssumption, Single!NilIsNoEntry, SingleInv,
           [Single!Next]_(Single!vars)
    PROVE  SingleInv' /\ [Single!Contract!Next]_(Single!Contract!contractVars)
<1>1. CASE UNCHANGED Single!vars
  BY <1>1 DEF Single!vars, Single!callVars, SingleInv, SingleTypes, Local!CallTypes,
     CallsSettled,
     Single!Content, Single!Load, Single!Contract!contractVars, Single!Contract!callVars
<1>2. CASE Single!Next
  <2>1. SingleInv' /\ SingleCalls /\ Single!Contract!ContentChanges
    BY <1>2, SingleStep
  <2>2. Single!Contract!Watch(Single!Content')
    BY <1>2 DEF Single!Next, Single!Watch, Single!Contract!Watch, Single!Watched,
        Single!Contract!Watched, Single!Touched,
            Single!Contract!Touched, Single!Sweeps, Single!Contract!Sweeps
  <2>3. ASSUME NEW c \in Calls
        PROVE /\ Single!Contract!CallMoves(c)
              /\ IF state[c] = "new" /\ state'[c] = "running"
                 THEN /\ does'[c] \in Local!TaggedOps
                      /\ (does'[c] \in Local!Sweeps \/ about'[c] \in Keys)
                 ELSE does'[c] = does[c] /\ about'[c] = about[c]
    BY <2>1 DEF SingleCalls, Rests, Starts, Succeeds, Single!Contract!CallMoves
  <2>4. /\ state' \in [Calls -> {"new", "running", "ok", "error", "dead"}]
        /\ got' \in [Calls -> Single!Contract!Entries \cup {None}]
    BY <2>1 DEF SingleInv, SingleTypes, Local!CallTypes, Single!Contract!Entries, Local!Entries
  <2> QED
    BY <2>1, <2>2, <2>3, <2>4 DEF Single!Contract!Next, Single!Contract!TaggedOps,
        Local!TaggedOps, Single!Contract!StoreOps, Local!StoreOps,
       Single!Contract!Sweeps, Local!Sweeps
<1> QED  BY <1>1, <1>2

LEMMA SingleInitHolds ==
    ASSUME Single!Init
    PROVE  SingleInv /\ Single!Contract!Init
<1>1. Local!CallInit /\ held \in {None} \cup [key : Keys, entry : {Old}]
    BY DEF Single!Init, Single!CallInit, Local!CallInit, Single!SingleInit
<1>2. SingleInv
    BY <1>1 DEF Local!CallInit, SingleInv, SingleTypes, Local!CallTypes, CallsSettled,
       Local!Entries
<1>3. Single!Content \in [Keys -> {Old, None}]
    BY <1>1 DEF Single!Content, Single!Load
<1> QED
      BY <1>1, <1>2, <1>3 DEF Local!CallInit, Single!Contract!Init, Single!Contract!CallInit

\* One pointer is a store of all keys: a Get answers with what its own key held, and
\* a removal that returned has removed (stores/memory/single.go:30-106).
THEOREM SingleStoreKeepsContract ==
    Single!NilIsNoEntry /\ Single!Spec => Single!ImplementsContract
<1>1. Single!Init => SingleInv /\ Single!Contract!Init
  BY SingleInitHolds
<1>2. Single!NilIsNoEntry /\ SingleInv /\ [Single!Next]_(Single!vars) =>
        SingleInv' /\ [Single!Contract!Next]_(Single!Contract!contractVars)
  BY CallsAssumption, SingleContractStep
<1>3. Single!NilIsNoEntry => Single!NilIsNoEntry'
  BY DEF Single!NilIsNoEntry
<1> QED
  BY <1>1, <1>2, <1>3, PTL DEF Single!Spec, Single!ImplementsContract,
      Single!Contract!Spec

------------------------------------------------------------------------------
(* The sharded store *)

\* What a Clear or DeleteByTag has to say of the keys of a shard it has visited.
VisitedWasSeen(c) ==
    state[c] = "running" /\ does[c] \in Local!Sweeps =>
        \A k \in Keys : home[k] < at[c] =>
            IF does[c] = "Clear" THEN None \in saw[c][k]
                               ELSE \E v \in saw[c][k] : v \notin Tagged

VisitsStart == \A c \in Calls : state[c] = "new" => at[c] = 0

\* ShardedStore's TypeOK but for the history.
ShardedShapes ==
    /\ CallShapes
    /\ limits \in Limits
    /\ home \in [Keys -> Sharded!Shards]
    /\ held \in [Keys -> Local!Entries \cup {None}]
    /\ at \in [Calls -> Sharded!Shards]

ShardedInv ==
    /\ Sharded!TypeOK
    /\ CallsSettled
    /\ VisitsStart
    /\ \A c \in Calls : VisitedWasSeen(c)

ShardedCalls ==
    \A c \in Calls : \/ Rests(c) \/ Starts(c)
                     \/ Succeeds(c, got'[c]) /\ Sharded!Contract!Kept(c)

LEMMA Least ==
    ASSUME NEW T, T \subseteq Nat, T # {}
    PROVE  \E n \in T : \A m \in T : n <= m
<1>1. PICK n \in T : \A m \in T : ~(<<m, n>> \in OpToRel(<, Nat))
    BY NatLessThanWellFounded, WFMin, Zenon
<1>2. \A m \in T : ~(m < n)
    BY <1>1 DEF OpToRel
<1> QED
    BY <1>2

\* What holds before the first turn and after every other one: Done is the set of
\* the turns after which it does.
LEMMA TurnByTurn ==
    ASSUME NEW m \in Nat, NEW Done, 0 \in Done,
           \A n \in 1..m : n - 1 \in Done => n \in Done
    PROVE  \A n \in 0..m : n \in Done
<1> DEFINE T == {n \in Nat : n <= m /\ n \notin Done}
<1> SUFFICES ASSUME T # {} PROVE FALSE
    OBVIOUS
<1>1. PICK n \in T : \A k \in T : n <= k
    BY Least
<1>2. n # 0 /\ n \in 1..m /\ n - 1 \in Nat /\ n - 1 <= m
    BY <1>1
<1>3. n - 1 \in Done
    BY <1>1, <1>2
<1> QED
    BY <1>1, <1>2, <1>3

LEMMA Greatest ==
    ASSUME NEW b \in Nat, NEW S, S \subseteq 1..b, S # {}
    PROVE  \E x \in S : \A y \in S : x >= y
<1> DEFINE T == {n \in Nat : \E x \in S : n = b - x}
<1>1. T # {}
    <2>1. PICK x \in S : TRUE  OBVIOUS
    <2>2. b - x \in T  BY <2>1
    <2> QED  BY <2>2
<1>2. PICK n \in T : \A m \in T : n <= m
    BY <1>1, Least
<1>3. PICK x \in S : n = b - x
    BY <1>2
<1>4. ASSUME NEW y \in S PROVE x >= y
    <2>1. b - y \in T  OBVIOUS
    <2>2. n <= b - y  BY <1>2, <2>1
    <2>3. x \in 1..b /\ y \in 1..b  OBVIOUS
    <2> QED  BY ONLY b \in Nat, <1>3, <2>2, <2>3
<1> QED
    BY <1>3, <1>4

LEMMA SomeShards ==
    ASSUME Sharded!LegalLimits, limits \in Limits
    PROVE  Sharded!ShardCount \in 1..limits.capacity
<1> DEFINE S == {n \in 1..limits.capacity :
                    \E i \in 0..limits.shards : limits.shards = n * 2^i}
<1>1. /\ limits.capacity \in Nat \ {0} /\ limits.shards \in Nat
      /\ \E i \in 0..limits.shards : limits.shards = 2^i
    BY DEF Sharded!LegalLimits
<1>2. PICK i \in 0..limits.shards : limits.shards = 2^i
    BY <1>1
<1>3. limits.shards = 1 * limits.shards  BY <1>1
<1>4. limits.shards = 1 * 2^i  BY <1>2, <1>3
<1>5. 1 \in S  BY <1>1, <1>4
<1>6. \E x \in S : \A y \in S : x >= y  BY <1>1, <1>5, Greatest
<1> HIDE DEF S
<1>7. Sharded!Max(S) \in S  BY <1>6 DEF Sharded!Max
<1> QED  BY <1>7 DEF S, Sharded!ShardCount

LEMMA VisitedStays ==
    ASSUME Local!CallTypes, NEW d \in Calls, VisitedWasSeen(d), Rests(d),
           UNCHANGED <<home, at[d]>>, NEW v, Local!Watch(v)
    PROVE  VisitedWasSeen(d)'
<1> SUFFICES ASSUME state'[d] = "running", does'[d] \in Local!Sweeps, NEW k \in Keys,
                    home[k] < at[d]
             PROVE  IF does'[d] = "Clear" THEN None \in saw'[d][k]
                               ELSE \E w \in saw'[d][k] : w \notin Tagged
    BY DEF VisitedWasSeen
<1>1. saw'[d][k] = saw[d][k] \cup {v[k]}
    BY HistoryGrows DEF Rests
<1> QED
    BY <1>1 DEF VisitedWasSeen, Rests

LEMMA ShardedStep ==
    ASSUME CallsAssumption, Sharded!LegalLimits, ShardedInv, Sharded!Next
    PROVE  ShardedInv' /\ ShardedCalls /\ Sharded!Contract!ContentChanges
<1> DEFINE Good == /\ ShardedShapes' /\ CallsSettled' /\ VisitsStart'
                   /\ \A c \in Calls : VisitedWasSeen(c)'
                   /\ ShardedCalls /\ Sharded!Contract!ContentChanges
<1>0. ShardedShapes /\ CallsSettled /\ VisitsStart /\ CallShapes /\ Local!CallTypes
      /\ Local!Watch(held')
      /\ \A c \in Calls : VisitedWasSeen(c)
  BY DEF ShardedInv, ShardedShapes, Sharded!TypeOK, CallShapes, Local!CallTypes,
     Sharded!CallTypes, Sharded!TaggedOps, Local!TaggedOps, Sharded!StoreOps, Local!StoreOps,
     Sharded!Entries, Local!Entries, Sharded!Next, Sharded!Watch, Local!Watch,
     Sharded!Watched, Local!Watched, Sharded!Touched, Local!Touched, Sharded!Sweeps,
        Local!Sweeps
<1>a. ASSUME UNCHANGED <<limits, home, held>> PROVE Sharded!Contract!ContentChanges
  BY <1>0, <1>a DEF Sharded!Contract!ContentChanges, Sharded!Contract!Entries,
      Local!Entries, ShardedShapes
<1>b. ASSUME UNCHANGED <<limits, home>> PROVE Sharded!Shards' = Sharded!Shards
  BY <1>b DEF Sharded!Shards, Sharded!ShardCount
<1>c. ASSUME NEW c \in Calls, OthersRest(c), UNCHANGED home,
             \A d \in Calls \ {c} : at'[d] = at[d]
      PROVE \A d \in Calls \ {c} : VisitedWasSeen(d)'
  BY <1>0, <1>c, VisitedStays DEF OthersRest
<1>1. ASSUME NEW c \in Calls, Sharded!Begin(c) PROVE Good
  <2>1. Local!Begins(c, Local!TaggedOps) /\ UNCHANGED <<limits, home, held, at>>
    BY <1>1 DEF Sharded!Begin, Sharded!shardVars, Sharded!Begins, Local!Begins,
        Sharded!TaggedOps, Local!TaggedOps, Sharded!StoreOps, Local!StoreOps, Sharded!Sweeps,
        Local!Sweeps
  <2>2. CallShapes' /\ CallsSettled' /\ Starts(c) /\ OthersRest(c)  BY <1>0, <2>1, CallsBegin
  <2>3. at[c] = 0  BY <1>0, <2>2 DEF Starts, VisitsStart
  <2>4. VisitedWasSeen(c)'
    <3>1. \A k \in Keys : ~(home[k] < 0)  BY <1>0 DEF ShardedShapes, Sharded!Shards
    <3> QED  BY <2>1, <2>3, <3>1 DEF VisitedWasSeen
  <2>5. VisitsStart'  BY <1>0, <2>1, <2>2 DEF VisitsStart, OthersRest, Rests, Starts
  <2>6. ShardedShapes'  BY <1>0, <1>b, <2>1, <2>2 DEF ShardedShapes
  <2>7. \A d \in Calls : VisitedWasSeen(d)'  BY <1>c, <2>1, <2>2, <2>4
  <2>8. ShardedCalls  BY <2>2 DEF ShardedCalls, OthersRest
  <2> QED BY <1>a, <2>1, <2>2, <2>5, <2>6, <2>7, <2>8
<1>2. ASSUME NEW c \in Calls, NEW v \in Local!Entries \cup {None}, state[c] = "running",
             Local!Answers(c, v), UNCHANGED <<limits, home>>,
             \A d \in Calls \ {c} : at'[d] = at[d],
             at' \in [Calls -> Sharded!Shards],
             Sharded!Contract!ContentChanges, Sharded!Contract!Kept(c)
      PROVE Good
  <2>1. CallShapes' /\ CallsSettled' /\ Succeeds(c, v) /\ OthersRest(c)
      BY <1>0, <1>2, CallsAnswer
  <2>2. VisitedWasSeen(c)'  BY <2>1 DEF VisitedWasSeen, Succeeds
  <2>3. \A d \in Calls : VisitedWasSeen(d)'  BY <1>2, <1>c, <2>1, <2>2
  <2>4. VisitsStart'  BY <1>0, <1>2, <2>1 DEF VisitsStart, OthersRest, Rests, Succeeds
  <2>5. held' \in [Keys -> Local!Entries \cup {None}]
      BY <1>2 DEF Sharded!Contract!ContentChanges, Sharded!Contract!Entries, Local!Entries
  <2>6. ShardedShapes'  BY <1>0, <1>2, <1>b, <2>1, <2>5 DEF ShardedShapes
  <2>7. ShardedCalls  BY <1>2, <2>1 DEF ShardedCalls, OthersRest, Succeeds
  <2> QED  BY <1>2, <2>1, <2>3, <2>4, <2>6, <2>7
<1>d. ASSUME NEW c \in Calls, NEW v, Local!Answers(c, v),
             NEW k \in Keys, does[c] \in Local!Sweeps \/ k = about[c]
      PROVE  /\ Sharded!Contract!Watched(c, held')[k] = saw[c][k] \cup {held'[k]}
             /\ got'[c] = v
  BY <1>0, <1>d DEF Sharded!Contract!Watched, Sharded!Contract!Touched,
      Sharded!Contract!Sweeps, Local!Sweeps, Local!Answers, CallShapes
<1>3. ASSUME NEW c \in Calls, Sharded!Get(c) PROVE Good
  <2>1. /\ state[c] = "running" /\ does[c] = "Get" /\ about[c] \in Keys
        /\ Local!Answers(c, held[about[c]]) /\ UNCHANGED <<limits, home, held, at>>
    BY <1>0, <1>3 DEF Sharded!Get, Sharded!Doing, Sharded!Answers, Local!Answers, CallsSettled,
        Local!Sweeps, Sharded!shardVars
  <2>2. held[about[c]] \in Local!Entries \cup {None} /\ at \in [Calls -> Sharded!Shards]
    BY <1>0, <2>1 DEF ShardedShapes
  <2>3. Sharded!Contract!Kept(c)
    <3>1. /\ Sharded!Contract!Watched(c, held')[about[c]] =
                 saw[c][about[c]] \cup {held'[about[c]]}
          /\ does[c] = "Get" => got'[c] = held[about[c]]
      BY <1>d, <2>1
    <3> QED  BY <2>1, <3>1 DEF Sharded!Contract!Kept
  <2> HIDE DEF Good
  <2> QED BY <1>a, <1>2, <2>1, <2>2, <2>3
<1>4. ASSUME NEW c \in Calls, Sharded!Set(c) PROVE Good
  <2>1. /\ state[c] = "running" /\ does[c] = "Set" /\ about[c] \in Keys
        /\ Local!Answers(c, None) /\ UNCHANGED <<limits, home, at>>
    BY <1>0, <1>4 DEF Sharded!Set, Sharded!Doing, Sharded!Answers, Local!Answers, CallsSettled,
        Local!Sweeps
  <2>2. PICK gone : held' = [k \in Keys |-> IF k = about[c] THEN c
                                            ELSE IF k \in gone THEN None ELSE held[k]]
    BY <1>4 DEF Sharded!Set
  <2>3. Sharded!Contract!ContentChanges
    BY <1>0, <2>1, <2>2 DEF Sharded!Contract!ContentChanges,
        Sharded!Contract!Entries, Local!Entries, Sharded!Contract!Writers, ShardedShapes
  <2>4. Sharded!Contract!Kept(c)
    <3>1. /\ Sharded!Contract!Watched(c, held')[about[c]] =
                 saw[c][about[c]] \cup {held'[about[c]]}
          /\ does[c] = "Get" => got'[c] = held[about[c]]
      BY <1>d, <2>1
    <3> QED  BY <2>1, <2>2, <3>1 DEF Sharded!Contract!Kept
  <2>5. at \in [Calls -> Sharded!Shards]  BY <1>0 DEF ShardedShapes
  <2> HIDE DEF Good
  <2> QED BY <1>2, <2>1, <2>3, <2>4, <2>5
<1>5. ASSUME NEW c \in Calls, Sharded!Delete(c) PROVE Good
  <2>1. /\ state[c] = "running" /\ does[c] = "Delete" /\ about[c] \in Keys
        /\ Local!Answers(c, None) /\ UNCHANGED <<limits, home, at>>
        /\ held' = [held EXCEPT ![about[c]] = None]
    BY <1>0, <1>5 DEF Sharded!Delete, Sharded!Doing, Sharded!Answers, Local!Answers,
        CallsSettled, Local!Sweeps
  <2>3. Sharded!Contract!ContentChanges
    BY <1>0, <2>1 DEF Sharded!Contract!ContentChanges, Sharded!Contract!Entries,
        Local!Entries, ShardedShapes
  <2>2. held'[about[c]] = None
     BY <1>0, <2>1 DEF ShardedShapes
  <2>4. Sharded!Contract!Kept(c)
    <3>1. /\ Sharded!Contract!Watched(c, held')[about[c]] =
                 saw[c][about[c]] \cup {held'[about[c]]}
          /\ does[c] = "Get" => got'[c] = held[about[c]]
      BY <1>d, <2>1
    <3> QED  BY <2>1, <2>2, <3>1 DEF Sharded!Contract!Kept
  <2>5. at \in [Calls -> Sharded!Shards]  BY <1>0 DEF ShardedShapes
  <2> HIDE DEF Good
  <2> QED BY <1>2, <2>1, <2>3, <2>4, <2>5
<1>6. ASSUME NEW c \in Calls, Sharded!VisitShard(c) PROVE Good
  <2>1. /\ state[c] = "running" /\ does[c] \in Local!Sweeps /\ UNCHANGED <<limits, home>>
    BY <1>6 DEF Sharded!VisitShard, Sharded!Sweeps, Local!Sweeps
  <2>2. PICK gone : /\ gone = IF does[c] = "Clear" THEN Sharded!HeldBy(at[c])
                                                 ELSE Sharded!TaggedIn(at[c])
                    /\ held' = [k \in Keys |-> IF k \in gone THEN None ELSE held[k]]
    BY <1>6 DEF Sharded!VisitShard
  <2>3. Sharded!Contract!ContentChanges
    BY <1>0, <2>2 DEF Sharded!Contract!ContentChanges, Sharded!Contract!Entries,
        Local!Entries, ShardedShapes
  <2>4. ASSUME NEW k \in Keys, home[k] = at[c]
        PROVE  IF does[c] = "Clear" THEN held'[k] = None ELSE held'[k] \notin Tagged
    <3>1. None \notin Tagged  BY CallsAssumption DEF CallsAssumption
    <3> QED  BY <2>2, <2>4, <3>1 DEF Sharded!HeldBy, Sharded!Held, Sharded!TaggedIn
  <2>5. ASSUME NEW k \in Keys, home[k] < at[c] \/ home[k] = at[c],
               NEW s, s = saw[c][k] \cup {held'[k]}
        PROVE  IF does[c] = "Clear" THEN None \in s ELSE \E w \in s : w \notin Tagged
    BY <1>0, <2>1, <2>4, <2>5 DEF VisitedWasSeen
  <2>6. CASE at[c] + 1 \in Sharded!Shards
    <3>1. at' = [at EXCEPT ![c] = @ + 1] /\ Local!NoneMoves
      BY <1>6, <2>6 DEF Sharded!VisitShard, Sharded!Goes, Sharded!NoneMoves, Local!NoneMoves
    <3>2. CallShapes' /\ CallsSettled' /\ \A d \in Calls : Rests(d)
      BY <1>0, <3>1, CallsRest
    <3>3. VisitedWasSeen(c)'
      <4> SUFFICES ASSUME NEW k \in Keys, home[k] < at[c] + 1
                   PROVE  IF does[c] = "Clear" THEN None \in saw'[c][k]
                               ELSE \E w \in saw'[c][k] : w \notin Tagged
        BY <1>0, <2>1, <3>1, <3>2 DEF VisitedWasSeen, Rests, ShardedShapes
      <4>1. saw'[c][k] = saw[c][k] \cup {held'[k]}
        BY <1>0, <2>1, <3>2, HistoryGrows DEF Rests
      <4>2. home[k] < at[c] \/ home[k] = at[c]
        <5>1. home[k] \in Int /\ at[c] \in Int
            BY <1>0 DEF ShardedShapes, Sharded!Shards
        <5> QED  BY <5>1
      <4> QED  BY <2>5, <4>1, <4>2
    <3>4. VisitsStart'  BY <1>0, <2>1, <3>1, <3>2 DEF VisitsStart, Rests
    <3>5. ShardedShapes'
      <4>1. at' \in [Calls -> Sharded!Shards]  BY <1>0, <2>6, <3>1 DEF ShardedShapes
      <4>2. held' \in [Keys -> Local!Entries \cup {None}]
          BY <2>3 DEF Sharded!Contract!ContentChanges, Sharded!Contract!Entries, Local!Entries
      <4> QED  BY <1>0, <1>b, <2>1, <3>2, <4>1, <4>2 DEF ShardedShapes
    <3>6. \A d \in Calls : VisitedWasSeen(d)'
      <4>1. OthersRest(c) /\ UNCHANGED home /\ \A d \in Calls \ {c} : at'[d] = at[d]
        BY <1>0, <2>1, <3>1, <3>2 DEF OthersRest, ShardedShapes
      <4> QED  BY <1>c, <3>3, <4>1
    <3>7. ShardedCalls  BY <3>2 DEF ShardedCalls
    <3> QED  BY <2>3, <3>2, <3>4, <3>5, <3>6, <3>7
  <2>7. CASE at[c] + 1 \notin Sharded!Shards
    <3>1. at' = at /\ Local!Answers(c, None)
      BY <1>6, <2>7 DEF Sharded!VisitShard, Sharded!Answers, Local!Answers
    <3>2. ASSUME NEW k \in Keys PROVE home[k] < at[c] \/ home[k] = at[c]
      <4>1. home[k] \in Sharded!Shards /\ at[c] \in Sharded!Shards
          BY <1>0 DEF ShardedShapes
      <4>2. Sharded!ShardCount \in Int
          BY <1>0, SomeShards DEF ShardedShapes, Sharded!LegalLimits
      <4> QED  BY <2>7, <4>1, <4>2 DEF Sharded!Shards
    <3>3. ASSUME NEW k \in Keys
          PROVE  LET s == Sharded!Contract!Watched(c, held')[k] IN
                 IF does[c] = "Clear" THEN None \in s ELSE \E w \in s : w \notin Tagged
      BY <1>d, <2>1, <2>5, <3>1, <3>2
    <3>4. Sharded!Contract!Kept(c)
      BY <2>1, <3>3 DEF Sharded!Contract!Kept, Local!Sweeps
    <3>5. at \in [Calls -> Sharded!Shards]  BY <1>0 DEF ShardedShapes
    <3> HIDE DEF Good
    <3> QED  BY <1>2, <2>1, <2>3, <3>1, <3>4, <3>5
  <2> QED  BY <2>6, <2>7
<1>7. ASSUME Sharded!Quiescent PROVE Good
  <2>1. Local!NoneMoves /\ UNCHANGED <<limits, home, held, at>>
    BY <1>7 DEF Sharded!Quiescent, Sharded!NoneMoves, Local!NoneMoves, Sharded!shardVars
  <2>2. CallShapes' /\ CallsSettled' /\ \A c \in Calls : Rests(c)  BY <1>0, <2>1, CallsRest
  <2>3. ShardedShapes' /\ VisitsStart' /\ ShardedCalls
    BY <1>0, <1>b, <2>1, <2>2 DEF ShardedShapes, VisitsStart, ShardedCalls, Rests
  <2>4. \A d \in Calls : VisitedWasSeen(d)'  BY <1>0, <2>1, <2>2, VisitedStays
  <2> QED BY <1>a, <2>1, <2>2, <2>3, <2>4
<1>8. Good
  <2>1. \/ \E c \in Calls : \/ Sharded!Begin(c) \/ Sharded!Get(c) \/ Sharded!Set(c)
                           \/ Sharded!Delete(c) \/ Sharded!VisitShard(c)
        \/ Sharded!Quiescent
    BY DEF Sharded!Next
  <2> HIDE DEF Good
  <2> QED BY <1>1, <1>3, <1>4, <1>5, <1>6, <1>7, <2>1
<1>9. Sharded!TypeOK'
  <2>1. held' \in [Keys -> Local!Entries \cup {None}]
    BY <1>8 DEF ShardedShapes
  <2>2. saw' \in [Calls -> [Keys -> SUBSET (Local!Entries \cup {None})]]
    BY <1>0, <2>1, HistoryType
  <2> QED
      BY <1>8, <2>2 DEF ShardedShapes, Sharded!TypeOK, CallShapes, Sharded!CallTypes,
     Sharded!TaggedOps, Local!TaggedOps, Sharded!StoreOps, Local!StoreOps, Sharded!Entries,
        Local!Entries
<1> QED BY <1>8, <1>9 DEF ShardedInv

LEMMA ShardedContractStep ==
    ASSUME CallsAssumption, Sharded!LegalLimits, ShardedInv, [Sharded!Next]_(Sharded!vars)
    PROVE  ShardedInv' /\ [Sharded!Contract!Next]_(Sharded!Contract!contractVars)
<1>1. CASE UNCHANGED Sharded!vars
  <2>1. UNCHANGED <<state, does, about, got, saw, limits, home, held, at>>
    BY <1>1 DEF Sharded!vars, Sharded!callVars, Sharded!shardVars
  <2>5. Sharded!Shards' = Sharded!Shards
    BY <2>1 DEF Sharded!Shards, Sharded!ShardCount
  <2>6. Sharded!TypeOK  BY DEF ShardedInv
  <2>7. Sharded!CallTypes'
    BY <2>1, <2>6 DEF Sharded!TypeOK, Sharded!CallTypes
  <2>2. Sharded!TypeOK'
    BY <2>1, <2>5, <2>6, <2>7 DEF Sharded!TypeOK
  <2>3. CallsSettled' /\ VisitsStart' /\ \A c \in Calls : VisitedWasSeen(c)'
    BY <2>1 DEF ShardedInv, CallsSettled, VisitsStart, VisitedWasSeen
  <2>4. UNCHANGED Sharded!Contract!contractVars
    BY <2>1 DEF Sharded!Contract!contractVars, Sharded!Contract!callVars
  <2> QED
    BY <2>2, <2>3, <2>4 DEF ShardedInv
<1>2. CASE Sharded!Next
  <2>1. ShardedInv' /\ ShardedCalls /\ Sharded!Contract!ContentChanges
    BY <1>2, ShardedStep
  <2>2. Sharded!Contract!Watch(held')
    BY <1>2 DEF Sharded!Next, Sharded!Watch, Sharded!Contract!Watch, Sharded!Watched,
        Sharded!Contract!Watched, Sharded!Touched,
            Sharded!Contract!Touched, Sharded!Sweeps, Sharded!Contract!Sweeps
  <2>3. ASSUME NEW c \in Calls
        PROVE /\ Sharded!Contract!CallMoves(c)
              /\ IF state[c] = "new" /\ state'[c] = "running"
                 THEN /\ does'[c] \in Local!TaggedOps
                      /\ (does'[c] \in Local!Sweeps \/ about'[c] \in Keys)
                 ELSE does'[c] = does[c] /\ about'[c] = about[c]
    BY <2>1 DEF ShardedCalls, Rests, Starts, Succeeds, Sharded!Contract!CallMoves
  <2>4. /\ state' \in [Calls -> {"new", "running", "ok", "error", "dead"}]
        /\ got' \in [Calls -> Sharded!Contract!Entries \cup {None}]
    BY <2>1 DEF ShardedInv, Sharded!TypeOK, Sharded!CallTypes,
        Sharded!Contract!Entries, Sharded!Entries
  <2> QED
    BY <2>1, <2>2, <2>3, <2>4 DEF Sharded!Contract!Next, Sharded!Contract!TaggedOps,
        Local!TaggedOps, Sharded!Contract!StoreOps, Local!StoreOps,
       Sharded!Contract!Sweeps, Local!Sweeps
<1> QED  BY <1>1, <1>2

LEMMA ShardedInitHolds ==
    ASSUME Sharded!LegalLimits, Sharded!Init
    PROVE  ShardedInv
<1>1. /\ Local!CallInit /\ limits \in Limits
        /\ home \in [Keys -> Sharded!Shards] /\ held \in [Keys -> {Old, None}]
        /\ at = [c \in Calls |-> 0]
    BY DEF Sharded!Init, Sharded!CallInit, Local!CallInit, Sharded!ShardedInit
<1>2. 0 \in Sharded!Shards
    BY <1>1, SomeShards DEF Sharded!Shards, Sharded!LegalLimits
<1>3. Sharded!TypeOK
    BY <1>1, <1>2 DEF Local!CallInit, Sharded!TypeOK, Sharded!CallTypes, Sharded!Entries
<1> QED  BY <1>1, <1>3 DEF ShardedInv, Local!CallInit, CallsSettled, VisitsStart, VisitedWasSeen

\* A Clear or DeleteByTag on its way through the shards has seen every key of the
\* shards behind it without what it removes (stores/memory/sharded.go:86-120).
THEOREM ShardedInvariant ==
    Sharded!LegalLimits /\ Sharded!Spec => []ShardedInv
<1>1. Sharded!LegalLimits /\ Sharded!Init => ShardedInv
  BY ShardedInitHolds
<1>2. Sharded!LegalLimits /\ ShardedInv /\ [Sharded!Next]_(Sharded!vars) => ShardedInv'
  BY CallsAssumption, ShardedContractStep
<1>3. Sharded!LegalLimits => Sharded!LegalLimits'
  BY DEF Sharded!LegalLimits
<1> QED
  BY <1>1, <1>2, <1>3, PTL DEF Sharded!Spec

\* The shards are one store for callers of store.go:5-10 and tagstore.go, whatever
\* the other calls do to a shard before or after it is visited.
THEOREM ShardedStoreKeepsContract ==
    Sharded!LegalLimits /\ Sharded!Spec => Sharded!ImplementsContract
<1>1. Sharded!Init => Sharded!Contract!Init
  BY DEF Sharded!Init, Sharded!CallInit, Sharded!ShardedInit, Sharded!Contract!Init,
      Sharded!Contract!CallInit
<1>2. Sharded!LegalLimits /\ ShardedInv /\ [Sharded!Next]_(Sharded!vars) =>
        [Sharded!Contract!Next]_(Sharded!Contract!contractVars)
  BY CallsAssumption, ShardedContractStep
<1>3. Sharded!LegalLimits => Sharded!LegalLimits'
  BY DEF Sharded!LegalLimits
<1> QED
  BY <1>1, <1>2, <1>3, ShardedInvariant, PTL DEF Sharded!Spec,
      Sharded!ImplementsContract, Sharded!Contract!Spec

------------------------------------------------------------------------------
(* The limits of the sharded store *)

\* ShardedStore counts with the same operator as the theorems on finite sets.
LEMMA SameCount ==
    /\ \A S : Sharded!Cardinality(S) = Cardinality(S)
    /\ \A S : Sharded!IsFiniteSet(S) = IsFiniteSet(S)
BY DEF Sharded!Cardinality, Cardinality, Sharded!IsFiniteSet, IsFiniteSet

LEMMA Division ==
    ASSUME NEW a \in Nat, NEW b \in Nat \ {0}
    PROVE  /\ a \div b \in Nat /\ a % b \in 0..(b - 1)
           /\ a = (b * (a \div b)) + (a % b)
           /\ a >= b => a \div b >= 1
           /\ \A c \in Nat : c <= a \div b => c * b <= a
OBVIOUS

LEMMA Distributes ==
    ASSUME NEW a \in Nat, NEW b \in Nat, NEW w \in Nat
    PROVE  (a + b) * w = a * w + b * w
OBVIOUS

\* The part of total that the i-th of n gets.
Part(total, n, i) == total \div n + (IF i < total % n THEN 1 ELSE 0)

\* If no shard has more than its part, the whole has no more than the total.  w is
\* what one element weighs.
LEMMA PartsKeepTotal ==
    ASSUME NEW total \in Nat, NEW n \in Nat \ {0}, NEW w \in Nat,
           NEW S, IsFiniteSet(S), NEW f, \A x \in S : f[x] \in 0..(n - 1),
           \A i \in 0..(n - 1) : Cardinality({x \in S : f[x] = i}) * w <= Part(total, n, i)
    PROVE  Cardinality(S) * w <= total
<1> DEFINE q == total \div n
           r == total % n
           Below(m) == {x \in S : f[x] < m}
           At(m) == {x \in S : f[x] = m}
           Bound(m) == (m * q) + (IF m < r THEN m ELSE r)
           Done == {m \in 0..n : Cardinality(Below(m)) * w <= Bound(m)}
<1>1. q \in Nat /\ r \in 0..(n - 1) /\ total = (n * q) + r
    BY Division
<1>2. 0 \in Done
    <2>1. Below(0) = {}  OBVIOUS
    <2>2. Cardinality(Below(0)) = 0  BY <2>1, FS_EmptySet
    <2>3. Bound(0) = 0  BY <1>1
    <2> HIDE DEF Below, Bound
    <2> QED  BY <2>2, <2>3
<1>3. ASSUME NEW m \in 1..n, m - 1 \in Done PROVE m \in Done
    <2> DEFINE a == Cardinality(Below(m - 1))
               b == Cardinality(At(m - 1))
    <2>1. Below(m) = Below(m - 1) \cup At(m - 1) /\ Below(m - 1) \cap At(m - 1) = {}
        OBVIOUS
    <2>2. IsFiniteSet(Below(m - 1)) /\ IsFiniteSet(At(m - 1))
        BY FS_Subset
    <2>3. a \in Nat /\ b \in Nat
        BY <2>2, FS_CardinalityType
    <2> HIDE DEF Below, At
    <2>4. Cardinality(Below(m)) = a + b
        <3>1. Cardinality(Below(m)) = a + b - Cardinality(Below(m - 1) \cap At(m - 1))
            BY <2>1, <2>2, FS_Union
        <3>2. Cardinality(Below(m - 1) \cap At(m - 1)) = 0
            BY <2>1, FS_EmptySet
        <3> HIDE DEF a, b
        <3> QED  BY <2>3, <3>1, <3>2
    <2>5. a * w <= Bound(m - 1)
        BY <1>3
    <2>6. b * w <= q + (IF m - 1 < r THEN 1 ELSE 0)
        BY DEF At, Part
    <2>7. Bound(m) = Bound(m - 1) + q + (IF m - 1 < r THEN 1 ELSE 0)
        <3>1. (m - 1) \in Nat /\ m = (m - 1) + 1  OBVIOUS
        <3>2. ((m - 1) + 1) * q = ((m - 1) * q) + (1 * q)
            BY ONLY <1>1, <3>1, Distributes
        <3>3. m * q = ((m - 1) * q) + q  BY <1>1, <3>1, <3>2
        <3>4. (m - 1) * q \in Nat  BY <1>1, <3>1
        <3> HIDE DEF q, r
        <3> QED  BY <1>1, <3>3, <3>4
    <2>8. (a + b) * w = (a * w) + (b * w)
        BY <2>3, Distributes
    <2>9. a * w \in Nat /\ b * w \in Nat  BY <2>3
    <2>10. Bound(m - 1) \in Nat
        <3>1. (m - 1) * q \in Nat  BY <1>1
        <3> QED  BY <1>1, <3>1
    <2> HIDE DEF a, b, q, r, Bound
    <2>11. (a + b) * w <= Bound(m)
        BY <1>1, <2>5, <2>6, <2>7, <2>8, <2>9, <2>10
    <2> QED  BY <2>4, <2>11
<1>4. n \in Done
    <2> HIDE DEF Done
    <2>1. \A m \in 0..n : m \in Done  BY <1>2, <1>3, TurnByTurn
    <2> QED  BY <2>1
<1>5. Below(n) = S
    OBVIOUS
<1>6. Bound(n) = total
    BY <1>1
<1> HIDE DEF Below, Bound
<1> QED
    BY <1>4, <1>5, <1>6

\* A function that adds up the parts of the members of every subset of S.
Sums(S, h) ==
    h = [s \in SUBSET S |->
            IF s = {} THEN 0
            ELSE Sharded!ShardCap(CHOOSE x \in s : TRUE) + h[s \ {CHOOSE x \in s : TRUE}]]

LEMMA SumOfParts ==
    ASSUME NEW S, NEW g, Sums(S, g)
    PROVE  \E h : Sums(S, h) /\ Sharded!MapThenSumSet(Sharded!ShardCap, S) = h[S]
<1> DEFINE H ==
        CHOOSE h : h = [s \in SUBSET S |->
            IF s = {} THEN 0
            ELSE LET x == CHOOSE x \in s : TRUE IN Sharded!ShardCap(x) + h[s \ {x}]]
<1>1. Sums(S, H)
    BY DEF Sums
<1>2. Sharded!MapThenSumSet(Sharded!ShardCap, S) = H[S]
    BY DEF Sharded!MapThenSumSet, Sharded!MapThenFoldSet
<1> QED
    BY <1>1, <1>2

LEMMA SumIsUnique ==
    ASSUME NEW S, IsFiniteSet(S), NEW g, Sums(S, g), NEW h, Sums(S, h)
    PROVE  g = h
<1> DEFINE T == {n \in Nat : \E s \in SUBSET S : Cardinality(s) = n /\ g[s] # h[s]}
<1>1. ASSUME NEW s \in SUBSET S PROVE IsFiniteSet(s) /\ Cardinality(s) \in Nat
    BY FS_Subset, FS_CardinalityType
<1>2. SUFFICES ASSUME T # {} PROVE FALSE
    <2>1. \A s \in SUBSET S : g[s] = h[s]  BY <1>1, <1>2
    <2> QED  BY <2>1 DEF Sums
<1>3. PICK n \in T : \A m \in T : n <= m
    BY <1>2, Least
<1>4. PICK s \in SUBSET S : Cardinality(s) = n /\ g[s] # h[s]
    BY <1>3
<1> DEFINE x == CHOOSE x \in s : TRUE
<1>5. s # {}  BY <1>4 DEF Sums
<1>6. x \in s  BY <1>5
<1>7. s \ {x} \in SUBSET S /\ Cardinality(s \ {x}) \in Nat /\ Cardinality(s \ {x}) = n - 1
    <2> HIDE DEF x
    <2>1. s \ {x} \in SUBSET S /\ IsFiniteSet(s)  BY <1>1
    <2>2. Cardinality(s \ {x}) = Cardinality(s) - 1  BY <1>6, <2>1, FS_RemoveElement
    <2> QED  BY <1>1, <1>4, <2>1, <2>2
<1>8. g[s \ {x}] = h[s \ {x}]
    BY <1>3, <1>7
<1>9. g[s] = Sharded!ShardCap(x) + g[s \ {x}] /\ h[s] = Sharded!ShardCap(x) + h[s \ {x}]
    BY <1>5 DEF Sums
<1> QED
    BY <1>4, <1>8, <1>9

\* The parts of the capacity add up to it.
LEMMA PartsAddUp ==
    ASSUME Sharded!LegalLimits, limits \in Limits
    PROVE  Sharded!MapThenSumSet(Sharded!ShardCap, Sharded!Shards) = limits.capacity
<1> DEFINE n == Sharded!ShardCount
           q == limits.capacity \div n
           r == limits.capacity % n
           S == 0..(n - 1)
           First == 0..(r - 1)
           g == [s \in SUBSET S |-> (Cardinality(s) * q) + Cardinality(s \cap First)]
<1>1. n \in Nat \ {0} /\ limits.capacity \in Nat
    BY SomeShards DEF Sharded!LegalLimits
<1>2. q \in Nat /\ r \in 0..(n - 1) /\ limits.capacity = (n * q) + r
    BY <1>1, Division
<1>3. IsFiniteSet(S) /\ Cardinality(S) = n
    BY <1>1, FS_Interval
<1>4. ASSUME NEW x \in S PROVE Sharded!ShardCap(x) = q + (IF x \in First THEN 1 ELSE 0)
    BY <1>1, <1>2 DEF Sharded!ShardCap, Sharded!Share
<1>5. Sums(S, g)
    <2> SUFFICES ASSUME NEW s \in SUBSET S
                 PROVE  g[s] = IF s = {} THEN 0
                               ELSE Sharded!ShardCap(CHOOSE x \in s : TRUE) +
                                    g[s \ {CHOOSE x \in s : TRUE}]
        BY DEF Sums
    <2>1. CASE s = {}
        <3>1. Cardinality(s) = 0 /\ Cardinality(s \cap First) = 0  BY <2>1, FS_EmptySet
        <3> QED  BY <1>2, <2>1, <3>1
    <2>2. CASE s # {}
        <3> DEFINE x == CHOOSE x \in s : TRUE
                   t == s \ {x}
        <3>1. x \in s /\ x \in S  BY <2>2
        <3> HIDE DEF x
        <3>2. /\ IsFiniteSet(s) /\ IsFiniteSet(s \cap First)
              /\ IsFiniteSet(t) /\ IsFiniteSet(t \cap First)
            BY <1>3, FS_Subset
        <3>3. /\ Cardinality(s) \in Nat /\ Cardinality(t) \in Nat
              /\ Cardinality(s \cap First) \in Nat /\ Cardinality(t \cap First) \in Nat
            BY <3>2, FS_CardinalityType
        <3>4. Cardinality(t) = Cardinality(s) - 1
            BY <3>1, <3>2, FS_RemoveElement
        <3>5. Cardinality(t \cap First) =
                  Cardinality(s \cap First) - (IF x \in First THEN 1 ELSE 0)
            <4>1. t \cap First = (s \cap First) \ {x}  OBVIOUS
            <4> HIDE DEF t, First
            <4>2. Cardinality((s \cap First) \ {x}) =
                    IF x \in s \cap First THEN Cardinality(s \cap First) - 1
                                          ELSE Cardinality(s \cap First)
                BY <3>2, FS_RemoveElement
            <4> QED  BY <3>1, <3>3, <4>1, <4>2
        <3>6. Cardinality(s) * q = (Cardinality(t) * q) + q
            <4>1. (Cardinality(t) + 1) * q = (Cardinality(t) * q) + (1 * q)
                BY ONLY <1>2, <3>3, Distributes
            <4>2. Cardinality(s) = Cardinality(t) + 1  BY <3>3, <3>4
            <4> QED  BY <1>2, <4>1, <4>2
        <3>7. Cardinality(t) * q \in Nat  BY <1>2, <3>3
        <3>8. g[s] = (Cardinality(s) * q) + Cardinality(s \cap First)  OBVIOUS
        <3>9. t \in SUBSET S /\ g[t] = (Cardinality(t) * q) + Cardinality(t \cap First)  OBVIOUS
        <3>10. Sharded!ShardCap(x) = q + (IF x \in First THEN 1 ELSE 0)  BY <1>4, <3>1
        <3> HIDE DEF t, g, q, First
        <3>11. g[s] = Sharded!ShardCap(x) + g[t]
            BY <1>2, <3>3, <3>5, <3>6, <3>7, <3>8, <3>9, <3>10
        <3> QED  BY <2>2, <3>11 DEF x, t
    <2> QED  BY <2>1, <2>2
<1>6. PICK h : Sums(S, h) /\ Sharded!MapThenSumSet(Sharded!ShardCap, S) = h[S]
    BY <1>5, SumOfParts
<1>7. g = h
    BY <1>3, <1>5, <1>6, SumIsUnique
<1>8. g[S] = (n * q) + r
    <2>1. S \cap First = First  BY <1>1, <1>2
    <2>2. Cardinality(First) = r  BY <1>2, FS_Interval
    <2> QED  BY <1>3, <2>1, <2>2
<1> QED
    BY <1>2, <1>6, <1>7, <1>8 DEF Sharded!Shards

LEMMA RoomInShard ==
    ASSUME Sharded!LegalLimits, limits \in Limits, NEW i \in Sharded!Shards
    PROVE  /\ Sharded!ShardCap(i) \in Nat /\ Sharded!ShardBytes(i) \in Nat
           /\ Sharded!MostEntries(i) \in 1..Sharded!ShardCap(i)
           /\ Sharded!ShardBytes(i) >= EntryBytes =>
                 Sharded!MostEntries(i) * EntryBytes <= Sharded!ShardBytes(i)
<1> DEFINE n == Sharded!ShardCount
           c == Sharded!ShardCap(i)
           b == Sharded!ShardBytes(i)
<1>1. /\ n \in Nat \ {0} /\ n <= limits.capacity
      /\ limits.capacity \in Nat /\ limits.maxBytes \in Nat /\ EntryBytes \in Nat \ {0}
    BY SomeShards DEF Sharded!LegalLimits
<1>2. c \in Nat /\ c >= 1
    <2>1. limits.capacity \div n \in Nat /\ limits.capacity \div n >= 1
        BY <1>1, Division
    <2> QED  BY <2>1 DEF Sharded!ShardCap, Sharded!Share
<1>3. b \in Nat
    <2>1. limits.maxBytes \div n \in Nat
        BY <1>1, Division
    <2> QED  BY <2>1 DEF Sharded!ShardBytes, Sharded!Share
<1>4. /\ b \div EntryBytes \in Nat
      /\ b >= EntryBytes => b \div EntryBytes >= 1
      /\ \A k \in Nat : k <= b \div EntryBytes => k * EntryBytes <= b
    BY <1>1, <1>3, Division
<1> HIDE DEF b, c
<1>5. Sharded!MostEntries(i) =
        IF b = 0 \/ b \div EntryBytes >= c THEN c
        ELSE IF b < EntryBytes THEN 1 ELSE b \div EntryBytes
    BY DEF Sharded!MostEntries, b, c
<1>6. Sharded!MostEntries(i) \in 1..c
    BY <1>1, <1>2, <1>3, <1>4, <1>5
<1>7. b >= EntryBytes => Sharded!MostEntries(i) <= b \div EntryBytes
    BY <1>1, <1>2, <1>3, <1>4, <1>5
<1> QED
    BY <1>2, <1>3, <1>4, <1>6, <1>7 DEF b, c

\* No shard holds more than it may.
ShardsKeep ==
    /\ IsFiniteSet(Sharded!Held)
    /\ \A i \in Sharded!Shards :
          Cardinality(Sharded!HeldBy(i)) <= Sharded!MostEntries(i)

LEMMA FewerAreKept ==
    ASSUME ShardsKeep, UNCHANGED <<limits, home>>,
           \A k \in Keys : held'[k] # None => held[k] # None,
           ShardedInv, Sharded!LegalLimits
    PROVE  ShardsKeep'
<1>1. IsFiniteSet(Sharded!Held)' /\ \A i : Sharded!HeldBy(i)' \subseteq Sharded!HeldBy(i)
    <2>1. Sharded!Held' \subseteq Sharded!Held  BY DEF Sharded!Held
    <2> QED  BY <2>1, FS_Subset DEF ShardsKeep, Sharded!HeldBy, Sharded!Held
<1>2. Sharded!Shards' = Sharded!Shards /\ limits \in Limits
    BY DEF Sharded!Shards, Sharded!ShardCount, ShardedInv, Sharded!TypeOK
<1>3. ASSUME NEW i \in Sharded!Shards
      PROVE  /\ Sharded!MostEntries(i)' = Sharded!MostEntries(i)
             /\ Cardinality(Sharded!HeldBy(i)') <= Sharded!MostEntries(i)
    <2>1. Sharded!MostEntries(i)' = Sharded!MostEntries(i)
        BY DEF Sharded!MostEntries, Sharded!ShardBytes, Sharded!ShardCap,
            Sharded!Share, Sharded!ShardCount
    <2>2. IsFiniteSet(Sharded!HeldBy(i))
        BY FS_Subset DEF ShardsKeep, Sharded!HeldBy
    <2>3. /\ IsFiniteSet(Sharded!HeldBy(i)')
          /\ Cardinality(Sharded!HeldBy(i)') <= Cardinality(Sharded!HeldBy(i))
        BY <1>1, <2>2, FS_Subset
    <2>4. Cardinality(Sharded!HeldBy(i)) \in Nat /\ Cardinality(Sharded!HeldBy(i)') \in Nat
        BY <2>2, <2>3, FS_CardinalityType
    <2>5. /\ Sharded!MostEntries(i) \in Int
          /\ Cardinality(Sharded!HeldBy(i)) <= Sharded!MostEntries(i)
        BY <1>2, RoomInShard DEF ShardsKeep
    <2> QED  BY <2>1, <2>3, <2>4, <2>5
<1> QED
    BY <1>1, <1>2, <1>3 DEF ShardsKeep

LEMMA SetKeepsRoom ==
    ASSUME ShardsKeep, ShardedInv, Sharded!LegalLimits, NEW c \in Calls, Sharded!Set(c)
    PROVE  ShardsKeep'
<1> DEFINE h == home[about[c]]
           rest == Sharded!HeldBy(h) \ {about[c]}
           room == Sharded!MostEntries(h) - 1
<1>1. /\ UNCHANGED <<limits, home, about>> /\ limits \in Limits
      /\ about[c] \in Keys /\ h \in Sharded!Shards
    BY DEF Sharded!Set, Sharded!Answers, Sharded!Doing, ShardedInv, CallsSettled, Local!Sweeps,
        Sharded!TypeOK
<1>2. PICK kept \in SUBSET rest :
          /\ IF held[about[c]] # None \/ Cardinality(rest) <= room
             THEN kept = rest ELSE Cardinality(kept) = room
          /\ held' = [k \in Keys |-> IF k = about[c] THEN c
                                     ELSE IF k \in rest \ kept THEN None
                                     ELSE held[k]]
    BY SameCount DEF Sharded!Set
<1>3. /\ Sharded!Shards' = Sharded!Shards
      /\ \A i : Sharded!MostEntries(i)' = Sharded!MostEntries(i)
    BY <1>1 DEF Sharded!Shards, Sharded!ShardCount, Sharded!MostEntries,
        Sharded!ShardBytes, Sharded!ShardCap, Sharded!Share
<1>4. c # None
    BY CallsAssumption DEF CallsAssumption
<1>a. \A k \in Keys : k \in rest <=> held[k] # None /\ home[k] = h /\ k # about[c]
    BY DEF Sharded!HeldBy, Sharded!Held
<1>b. \A k \in Keys : held'[k] # None <=>
          IF home[k] = h THEN k \in kept \cup {about[c]} ELSE held[k] # None
    <2> HIDE DEF rest
    <2> QED  BY <1>1, <1>2, <1>4, <1>a
<1>c. kept \subseteq Keys /\ \A k \in kept \cup {about[c]} : home[k] = h
    BY <1>1, <1>2 DEF Sharded!HeldBy, Sharded!Held
<1>5. Sharded!HeldBy(h)' = kept \cup {about[c]}
    BY <1>1, <1>b, <1>c DEF Sharded!HeldBy, Sharded!Held
<1>6. ASSUME NEW i, i # h PROVE Sharded!HeldBy(i)' = Sharded!HeldBy(i)
    BY <1>1, <1>b, <1>6 DEF Sharded!HeldBy, Sharded!Held
<1>7. IsFiniteSet(Sharded!Held)'
    <2>1. Sharded!Held' \subseteq Sharded!Held \cup {about[c]}
        BY <1>2 DEF Sharded!Held
    <2>2. IsFiniteSet(Sharded!Held \cup {about[c]})
        BY FS_AddElement DEF ShardsKeep
    <2> QED  BY <2>1, <2>2, FS_Subset DEF Sharded!Held
<1>8. Cardinality(Sharded!HeldBy(h)') <= Sharded!MostEntries(h)
    <2>1. IsFiniteSet(Sharded!HeldBy(h)) /\ IsFiniteSet(rest) /\ IsFiniteSet(kept)
        <3>1. IsFiniteSet(Sharded!HeldBy(h))
            BY FS_Subset DEF ShardsKeep, Sharded!HeldBy
        <3>2. IsFiniteSet(rest)  BY <3>1, FS_Subset
        <3> QED  BY <3>1, <3>2, FS_Subset
    <2>2. Cardinality(kept) \in Nat /\ Cardinality(rest) \in Nat
        BY <2>1, FS_CardinalityType
    <2>3. Sharded!MostEntries(h) \in Int
        BY <1>1, RoomInShard
    <2>4. CASE held[about[c]] # None
        <3>1. kept \cup {about[c]} = Sharded!HeldBy(h)
            BY <1>1, <1>2, <2>4 DEF Sharded!HeldBy, Sharded!Held
        <3> QED  BY <1>1, <1>5, <3>1 DEF ShardsKeep
    <2>5. CASE held[about[c]] = None
        <3>1. Cardinality(kept) <= room
            BY <1>2, <2>2, <2>3, <2>5
        <3>2. Cardinality(kept \cup {about[c]}) = Cardinality(kept) + 1
            <4>1. about[c] \notin kept  BY <1>2
            <4> QED  BY <2>1, <4>1, FS_AddElement
        <3>3. Cardinality(kept \cup {about[c]}) \in Nat
            BY <2>1, FS_AddElement, FS_CardinalityType
        <3> QED  BY <1>5, <2>2, <2>3, <3>1, <3>2, <3>3
    <2> QED  BY <2>4, <2>5
<1>9. ASSUME NEW i \in Sharded!Shards
      PROVE  Cardinality(Sharded!HeldBy(i)') <= Sharded!MostEntries(i)
    <2>1. CASE i = h
        <3>1. Sharded!HeldBy(i)' = Sharded!HeldBy(h)'
            BY <1>1, <2>1 DEF Sharded!HeldBy, Sharded!Held
        <3> QED  BY <1>8, <2>1, <3>1
    <2>2. CASE i # h
        BY <1>6, <2>2 DEF ShardsKeep
    <2> QED  BY <2>1, <2>2
<1> QED
    BY <1>3, <1>7, <1>9 DEF ShardsKeep

LEMMA RoomStep ==
    ASSUME ShardsKeep, ShardedInv, Sharded!LegalLimits, [Sharded!Next]_(Sharded!vars)
    PROVE  ShardsKeep'
<1>0. held \in [Keys -> Local!Entries \cup {None}]
    BY DEF ShardedInv, Sharded!TypeOK, Sharded!Entries, Local!Entries
<1>1. ASSUME NEW c \in Calls, Sharded!Begin(c) \/ Sharded!Get(c) PROVE ShardsKeep'
    BY <1>1, FewerAreKept DEF Sharded!Begin, Sharded!Get, Sharded!shardVars
<1>2. ASSUME NEW c \in Calls, Sharded!Set(c) PROVE ShardsKeep'
    BY <1>2, SetKeepsRoom
<1>3. ASSUME NEW c \in Calls, Sharded!Delete(c) PROVE ShardsKeep'
    BY <1>0, <1>3, FewerAreKept DEF Sharded!Delete
<1>4. ASSUME NEW c \in Calls, Sharded!VisitShard(c) PROVE ShardsKeep'
    BY <1>4, FewerAreKept DEF Sharded!VisitShard
<1>5. CASE UNCHANGED <<limits, home, held>>
    BY <1>5, FewerAreKept
<1> QED
    BY <1>1, <1>2, <1>3, <1>4, <1>5 DEF Sharded!Next, Sharded!Quiescent,
        Sharded!shardVars, Sharded!vars

LEMMA TotalsFollow ==
    ASSUME ShardsKeep, ShardedInv, Sharded!LegalLimits
    PROVE  Sharded!TotalsWithinLimits
<1> DEFINE n == Sharded!ShardCount
<1>1. /\ limits \in Limits /\ n \in Nat \ {0}
      /\ limits.capacity \in Nat /\ limits.maxBytes \in Nat /\ EntryBytes \in Nat \ {0}
      /\ Sharded!TypeOK
    BY SomeShards DEF ShardedInv, Sharded!TypeOK, Sharded!LegalLimits
<1>2. ASSUME NEW i \in Sharded!Shards
      PROVE  /\ Sharded!ShardCap(i) >= 1
             /\ Cardinality(Sharded!HeldBy(i)) \in Nat
             /\ Cardinality(Sharded!HeldBy(i)) <= Sharded!MostEntries(i)
             /\ Cardinality(Sharded!HeldBy(i)) <= Sharded!ShardCap(i)
    <2>1. IsFiniteSet(Sharded!HeldBy(i))  BY FS_Subset DEF ShardsKeep, Sharded!HeldBy
    <2>2. Cardinality(Sharded!HeldBy(i)) \in Nat  BY <2>1, FS_CardinalityType
    <2> QED  BY <1>1, <2>2, RoomInShard DEF ShardsKeep
<1>3. /\ IsFiniteSet(Sharded!Held) /\ Cardinality(Sharded!Held) \in Nat
      /\ \A k \in Sharded!Held : home[k] \in 0..(n - 1)
      /\ Sharded!Shards = 0..(n - 1)
      /\ \A i : Sharded!HeldBy(i) = {k \in Sharded!Held : home[k] = i}
    BY <1>1, FS_CardinalityType DEF ShardsKeep, Sharded!TypeOK, Sharded!Shards,
        Sharded!HeldBy, Sharded!Held
<1>4. Cardinality(Sharded!Held) <= limits.capacity
    <2>1. \A i \in 0..(n - 1) :
             Cardinality({k \in Sharded!Held : home[k] = i}) * 1 <=
                 Part(limits.capacity, n, i)
        <3> SUFFICES ASSUME NEW i \in 0..(n - 1)
                     PROVE  Cardinality(Sharded!HeldBy(i)) * 1 <= Part(limits.capacity, n, i)
            BY <1>3
        <3>1. Part(limits.capacity, n, i) = Sharded!ShardCap(i)
            BY DEF Part, Sharded!ShardCap, Sharded!Share
        <3> QED  BY <1>2, <1>3, <3>1
    <2> HIDE DEF n
    <2>2. Cardinality(Sharded!Held) * 1 <= limits.capacity
        BY ONLY <1>1, <1>3, <2>1, PartsKeepTotal
    <2> QED  BY <1>3, <2>2
<1>5. ASSUME \A i \in Sharded!Shards : Sharded!ShardBytes(i) >= EntryBytes
      PROVE  Cardinality(Sharded!Held) * EntryBytes <= limits.maxBytes
    <2>1. ASSUME NEW i \in 0..(n - 1)
          PROVE  Cardinality({k \in Sharded!Held : home[k] = i}) * EntryBytes <=
                     Part(limits.maxBytes, n, i)
        <3>1. Sharded!MostEntries(i) * EntryBytes <= Sharded!ShardBytes(i)
            BY <1>1, <1>3, <1>5, RoomInShard
        <3>2. Sharded!MostEntries(i) \in Nat /\ Sharded!ShardBytes(i) \in Nat
            BY <1>1, <1>3, RoomInShard
        <3>3. Cardinality(Sharded!HeldBy(i)) * EntryBytes <=
                  Sharded!MostEntries(i) * EntryBytes
            BY <1>1, <1>2, <1>3, <3>2
        <3>4. /\ Cardinality(Sharded!HeldBy(i)) * EntryBytes \in Nat
              /\ Sharded!MostEntries(i) * EntryBytes \in Nat
            BY <1>1, <1>2, <1>3, <3>2
        <3>5. Cardinality(Sharded!HeldBy(i)) * EntryBytes <= Sharded!ShardBytes(i)
            BY <3>1, <3>2, <3>3, <3>4
        <3> QED  BY <1>3, <3>5 DEF Part, Sharded!ShardBytes, Sharded!Share
    <2> HIDE DEF n
    <2> QED
        BY ONLY <1>1, <1>3, <2>1, PartsKeepTotal
<1>6. Sharded!MapThenSumSet(Sharded!ShardCap, Sharded!Shards) = limits.capacity
    BY <1>1, PartsAddUp
<1> QED
    BY <1>1, <1>2, <1>4, <1>5, <1>6, SameCount DEF Sharded!TotalsWithinLimits

\* The limits given to NewSharded hold for the whole store, for all that it takes,
\* however the hash spreads the keys: the parts of the capacity add up to it, Len
\* stays within it, and UsedBytes within the byte limit if an entry fits into every
\* part of that (stores/memory/sharded.go:21-60).
THEOREM ShardsKeepLimits ==
    Sharded!LegalLimits /\ Sharded!Spec => []Sharded!TotalsWithinLimits
<1>1. Sharded!LegalLimits /\ Sharded!Init => ShardsKeep
    BY SameCount DEF Sharded!Init, Sharded!ShardedInit, ShardsKeep
<1>2. ShardsKeep /\ ShardedInv /\ Sharded!LegalLimits /\ [Sharded!Next]_(Sharded!vars) =>
        ShardsKeep'
    BY RoomStep
<1>3. Sharded!LegalLimits => Sharded!LegalLimits'
    BY DEF Sharded!LegalLimits
<1>4. ShardsKeep /\ ShardedInv /\ Sharded!LegalLimits => Sharded!TotalsWithinLimits
    BY TotalsFollow
<1> QED
    BY <1>1, <1>2, <1>3, <1>4, ShardedInvariant, PTL DEF Sharded!Spec

------------------------------------------------------------------------------
(* THE STORES TOGETHER *)

\* The invariant of the store that is called.
OthersInv ==
    /\ backend = "local" => LocalInv
    /\ backend = "single" => SingleInv
    /\ backend = "sharded" => ShardedInv /\ ShardsKeep

\* While calls are made of the local store, its contract is that of all.
LEMMA LocalPart ==
    ASSUME backend = "local", backend' = backend,
           [Local!Contract!Next]_(Local!Contract!contractVars)
    PROVE  [OthersContract!Next]_(OthersContract!contractVars)
<1>1. /\ Contents = Local!Content /\ Contents' = Local!Content'
      /\ Left = spared /\ Left' = spared'
    BY DEF Contents, Left
<1>2. CASE UNCHANGED Local!Contract!contractVars
    BY <1>1, <1>2 DEF OthersContract!contractVars, OthersContract!callVars,
       Local!Contract!contractVars, Local!Contract!callVars
<1>3. CASE Local!Contract!Next
    <2>1. OthersContract!ContentChanges
        BY <1>1, <1>3 DEF OthersContract!Next, OthersContract!ContentChanges,
           OthersContract!Writers, OthersContract!Entries, Local!Contract!Next,
           Local!Contract!ContentChanges, Local!Contract!Writers, Local!Contract!Entries
    <2>2. \A c \in Calls : /\ OthersContract!Watched(c, Contents')
                               = Local!Contract!Watched(c, Local!Content')
                          /\ OthersContract!Kept(c) = Local!Contract!Kept(c)
        BY <1>1 DEF OthersContract!Watched, OthersContract!Touched,
           OthersContract!Sweeps, OthersContract!Kept, Local!Contract!Watched,
           Local!Contract!Touched, Local!Contract!Sweeps, Local!Contract!Kept
    <2>3. \A c \in Calls : OthersContract!CallMoves(c)
        BY <1>3, <2>2 DEF OthersContract!Next, OthersContract!CallMoves,
           Local!Contract!Next, Local!Contract!CallMoves
    <2>4. OthersContract!Watch(Contents')
        BY <1>3, <2>2 DEF OthersContract!Next, OthersContract!Watch,
           Local!Contract!Next, Local!Contract!Watch
    <2> QED
        BY <1>1, <1>3, <2>1, <2>3, <2>4 DEF OthersContract!Next, OthersContract!Entries,
           OthersContract!TaggedOps, OthersContract!StoreOps, OthersContract!Sweeps,
           Local!Contract!Next, Local!Contract!Entries, Local!Contract!TaggedOps,
           Local!Contract!StoreOps, Local!Contract!Sweeps
<1> QED
    BY <1>2, <1>3

\* While calls are made of the single store, its contract is that of all.
LEMMA SinglePart ==
    ASSUME backend = "single", backend' = backend,
           [Single!Contract!Next]_(Single!Contract!contractVars)
    PROVE  [OthersContract!Next]_(OthersContract!contractVars)
<1>1. /\ Contents = Single!Content /\ Contents' = Single!Content'
      /\ Left = [c \in Calls |-> {}] /\ Left' = [c \in Calls |-> {}]
    BY DEF Contents, Left
<1>2. CASE UNCHANGED Single!Contract!contractVars
    BY <1>1, <1>2 DEF OthersContract!contractVars, OthersContract!callVars,
       Single!Contract!contractVars, Single!Contract!callVars
<1>3. CASE Single!Contract!Next
    <2>1. OthersContract!ContentChanges
        BY <1>1, <1>3 DEF OthersContract!Next, OthersContract!ContentChanges,
           OthersContract!Writers, OthersContract!Entries, Single!Contract!Next,
           Single!Contract!ContentChanges, Single!Contract!Writers, Single!Contract!Entries
    <2>2. \A c \in Calls : /\ OthersContract!Watched(c, Contents')
                               = Single!Contract!Watched(c, Single!Content')
                          /\ OthersContract!Kept(c) = Single!Contract!Kept(c)
        BY <1>1 DEF OthersContract!Watched, OthersContract!Touched,
           OthersContract!Sweeps, OthersContract!Kept, Single!Contract!Watched,
           Single!Contract!Touched, Single!Contract!Sweeps, Single!Contract!Kept
    <2>3. \A c \in Calls : OthersContract!CallMoves(c)
        BY <1>3, <2>2 DEF OthersContract!Next, OthersContract!CallMoves,
           Single!Contract!Next, Single!Contract!CallMoves
    <2>4. OthersContract!Watch(Contents')
        BY <1>3, <2>2 DEF OthersContract!Next, OthersContract!Watch,
           Single!Contract!Next, Single!Contract!Watch
    <2> QED
        BY <1>1, <1>3, <2>1, <2>3, <2>4 DEF OthersContract!Next, OthersContract!Entries,
           OthersContract!TaggedOps, OthersContract!StoreOps, OthersContract!Sweeps,
           Single!Contract!Next, Single!Contract!Entries, Single!Contract!TaggedOps,
           Single!Contract!StoreOps, Single!Contract!Sweeps
<1> QED
    BY <1>2, <1>3

\* While calls are made of the sharded store, its contract is that of all.
LEMMA ShardedPart ==
    ASSUME backend = "sharded", backend' = backend,
           [Sharded!Contract!Next]_(Sharded!Contract!contractVars)
    PROVE  [OthersContract!Next]_(OthersContract!contractVars)
<1>1. /\ Contents = held /\ Contents' = held'
      /\ Left = [c \in Calls |-> {}] /\ Left' = [c \in Calls |-> {}]
    BY DEF Contents, Left
<1>2. CASE UNCHANGED Sharded!Contract!contractVars
    BY <1>1, <1>2 DEF OthersContract!contractVars, OthersContract!callVars,
       Sharded!Contract!contractVars, Sharded!Contract!callVars
<1>3. CASE Sharded!Contract!Next
    <2>1. OthersContract!ContentChanges
        BY <1>1, <1>3 DEF OthersContract!Next, OthersContract!ContentChanges,
           OthersContract!Writers, OthersContract!Entries, Sharded!Contract!Next,
           Sharded!Contract!ContentChanges, Sharded!Contract!Writers,
           Sharded!Contract!Entries
    <2>2. \A c \in Calls : /\ OthersContract!Watched(c, Contents')
                               = Sharded!Contract!Watched(c, held')
                          /\ OthersContract!Kept(c) = Sharded!Contract!Kept(c)
        BY <1>1 DEF OthersContract!Watched, OthersContract!Touched,
           OthersContract!Sweeps, OthersContract!Kept, Sharded!Contract!Watched,
           Sharded!Contract!Touched, Sharded!Contract!Sweeps, Sharded!Contract!Kept
    <2>3. \A c \in Calls : OthersContract!CallMoves(c)
        BY <1>3, <2>2 DEF OthersContract!Next, OthersContract!CallMoves,
           Sharded!Contract!Next, Sharded!Contract!CallMoves
    <2>4. OthersContract!Watch(Contents')
        BY <1>3, <2>2 DEF OthersContract!Next, OthersContract!Watch,
           Sharded!Contract!Next, Sharded!Contract!Watch
    <2> QED
        BY <1>1, <1>3, <2>1, <2>3, <2>4 DEF OthersContract!Next, OthersContract!Entries,
           OthersContract!TaggedOps, OthersContract!StoreOps, OthersContract!Sweeps,
           Sharded!Contract!Next, Sharded!Contract!Entries, Sharded!Contract!TaggedOps,
           Sharded!Contract!StoreOps, Sharded!Contract!Sweeps
<1> QED
    BY <1>2, <1>3

LEMMA OthersInit ==
    ASSUME StoresInit
    PROVE  OthersInv /\ OthersContract!Init
<1> USE LimitsAssumption
<1>1. CASE backend = "redis"
    <2>1. Single!CallInit
        BY <1>1 DEF StoresInit
    <2> QED
        BY <1>1, <2>1 DEF OthersInv, OthersContract!Init, OthersContract!CallInit,
           Single!CallInit, Contents, Left
<1>2. CASE backend = "local" /\ Local!Init
    <2>1. LocalInv
        BY <1>2, LocalInitHolds
    <2>2. Local!Content \in [Keys -> {Old, None}] /\ spared = [c \in Calls |-> {}]
        BY <1>2 DEF Local!Init, Local!LocalInit, Local!Content
    <2>3. OthersContract!CallInit
        BY <1>2 DEF Local!Init, Local!CallInit, OthersContract!CallInit
    <2> QED
        BY <1>2, <2>1, <2>2, <2>3 DEF OthersInv, OthersContract!Init, Contents, Left
<1>3. CASE backend = "single" /\ Single!Init
    <2>1. SingleInv /\ Single!Contract!Init
        BY <1>3, SingleInitHolds
    <2> QED
        BY <1>3, <2>1 DEF OthersInv, OthersContract!Init, Single!Contract!Init,
           OthersContract!CallInit, Single!Contract!CallInit, Contents, Left
<1>4. CASE backend = "sharded" /\ Sharded!Init
    <2>1. ShardedInv
        BY <1>4, ShardedInitHolds
    <2>2. ShardsKeep
        BY <1>4, SameCount DEF Sharded!Init, Sharded!ShardedInit, ShardsKeep
    <2>3. held \in [Keys -> {Old, None}] /\ OthersContract!CallInit
        BY <1>4 DEF Sharded!Init, Sharded!ShardedInit, Sharded!CallInit,
           OthersContract!CallInit
    <2> QED
        BY <1>4, <2>1, <2>2, <2>3 DEF OthersInv, OthersContract!Init, Contents, Left
<1> QED
    BY <1>1, <1>2, <1>3, <1>4 DEF StoresInit

LEMMA OthersStep ==
    ASSUME OthersInv, [StoresNext]_storesVars
    PROVE  OthersInv' /\ [OthersContract!Next]_(OthersContract!contractVars)
<1> USE CallsAssumption, LimitsAssumption, NilAssumption
<1>0. backend' = backend
    BY DEF StoresNext, storesVars
<1>1. CASE backend = "local"
    <2>1. [Local!Next]_(Local!vars)
        BY <1>1 DEF StoresNext, storesVars, others, otherCalls, localOnly, Local!vars,
           Local!callVars, Local!localVars
    <2>2. LocalInv' /\ [Local!Contract!Next]_(Local!Contract!contractVars)
        BY <1>1, <2>1, LocalStep, LocalContractStep DEF OthersInv
    <2> QED
        BY <1>0, <1>1, <2>2, LocalPart DEF OthersInv
<1>2. CASE backend = "single"
    <2>1. [Single!Next]_(Single!vars)
        BY <1>2 DEF StoresNext, storesVars, others, otherCalls, Single!vars, Single!callVars
    <2>2. SingleInv' /\ [Single!Contract!Next]_(Single!Contract!contractVars)
        BY <1>2, <2>1, SingleContractStep DEF OthersInv
    <2> QED
        BY <1>0, <1>2, <2>2, SinglePart DEF OthersInv
<1>3. CASE backend = "sharded"
    <2>1. [Sharded!Next]_(Sharded!vars)
        BY <1>3 DEF StoresNext, storesVars, others, otherCalls, shardedOnly, Sharded!vars,
           Sharded!callVars, Sharded!shardVars
    <2>2. ShardedInv' /\ [Sharded!Contract!Next]_(Sharded!Contract!contractVars)
        BY <1>3, <2>1, ShardedContractStep DEF OthersInv
    <2>3. ShardsKeep'
        BY <1>3, <2>1, RoomStep DEF OthersInv
    <2> QED
        BY <1>0, <1>3, <2>2, <2>3, ShardedPart DEF OthersInv
<1>4. CASE backend \notin {"local", "single", "sharded"}
    <2>1. UNCHANGED others
        BY <1>4 DEF StoresNext, storesVars
    <2>2. Contents' = Contents /\ Left' = Left
        BY <1>0, <1>4 DEF Contents, Left
    <2>3. UNCHANGED OthersContract!contractVars
        BY <2>1, <2>2 DEF others, otherCalls, OthersContract!contractVars,
           OthersContract!callVars
    <2> QED
        BY <1>0, <1>4, <2>3 DEF OthersInv
<1> QED
    BY <1>1, <1>2, <1>3, <1>4

\* Calls of any of the three stores, and whatever fails, dies or loses power: the store
\* that is called stays in the states it is proved to stay in (stores/local/store.go:39-102,
\* stores/memory/sharded.go:67-120, stores/memory/single.go:30-106).
THEOREM StoresInvariant == StoresSpec => []OthersInv
BY OthersInit, OthersStep, PTL DEF StoresSpec

\* A file has one name, of the key its Set was called with; it is complete when it
\* gets it, and stays so unless power is lost (stores/local/store.go:55-77).
THEOREM StoresKeepFilesWhole == StoresSpec => []FilesAreWhole
<1>1. OthersInv => FilesAreWhole
    BY DEF OthersInv, LocalInv, FilesInv, FilesAreWhole, Local!FilesAreWhole
<1> QED
    BY <1>1, StoresInvariant, PTL

\* The shards' parts of the capacity and of the byte limit keep the whole store within
\* both, however they divide (stores/memory/sharded.go:21-56).
THEOREM StoresKeepLimits == StoresSpec => []TotalsWithinLimits
<1>1. OthersInv => TotalsWithinLimits
    BY TotalsFollow, LimitsAssumption DEF OthersInv, TotalsWithinLimits
<1> QED
    BY <1>1, StoresInvariant, PTL

\* Of the behaviours of all the stores, the redis store's part is one of its own: while
\* calls are made of another one nothing happens to it.
LEMMA RedisPart == StoresSpec => Spec
<1>1. StoresInit => Init
    BY DEF StoresInit, RedisUnused
<1>2. [StoresNext]_storesVars => [Next]_vars
    BY DEF StoresNext, storesVars
<1> QED
    BY <1>1, <1>2, PTL DEF StoresSpec, Spec

\* Each of the four stores is a store as callers of store.go:5-10 and tagstore.go
\* understand it: every step is a step or a stutter of StoreContract.
THEOREM AllStoresKeepContract == StoresSpec => ImplementsContract /\ OthersKeepContract
<1>1. StoresSpec => OthersKeepContract
    BY OthersInit, OthersStep, StoresInvariant, PTL
       DEF StoresSpec, OthersKeepContract, OthersContract!Spec
<1> QED
    BY <1>1, RedisPart, RedisStoreKeepsContract
==============================================================================
