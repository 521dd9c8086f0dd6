-------------------------- MODULE CacheEngineProofs --------------------------
(* What the cache engine guarantees for any number of calls, keys and any    *)
(* setting of its options: its inductive invariant, the order of deadlines   *)
(* and the refinement of SingleFlight.  Then where its answers come from: no *)
(* value is served that was not stored under its key and still good enough,  *)
(* computed by the call, shared by its flight, or kept on purpose after an   *)
(* error; a caller that found an entry sees no error when stale entries are  *)
(* to be kept; and what is counted for a call adds up.  Last, all of this    *)
(* but the order of deadlines is shown to hold with any clock.               *)
EXTENDS EngineFlights, BypassedCache, FiniteSetTheorems, TLAPS

------------------------------------------------------------------------------
(* Types: what the helpers do to the variables they assign *)

LEMMA NewEntryType ==
    ASSUME NEW v \in Values, NEW t \in Nat
    PROVE  NewEntry(v, t) \in Entries(Values) /\ NewEntry(v, t).value = v
BY FreshnessAssumption DEF NewEntry, Entries, ZeroTime

LEMMA EntryValue ==
    ASSUME NEW e \in Entries(Values) \cup {None}, e # None
    PROVE  e.value \in Values
BY DEF Entries

LEMMA ReturnTypes ==
    ASSUME CallTypes, NEW c \in Calls, NEW v \in Values \cup {None},
           NEW err \in Errors, Return(c, v, err)
    PROVE  /\ pc' \in [Calls -> CallPCs]
           /\ result' \in [Calls -> Results \cup {None}]
<1>1. [value |-> v, err |-> err] \in Results
    BY DEF Results
<1> QED
    BY <1>1 DEF CallTypes, CallPCs, Return

LEMMA EmitTypes ==
    ASSUME SharedTypes, NEW c \in Calls, NEW kinds \in SUBSET Kinds, Emit(c, kinds)
    PROVE  events' \in [Calls -> SUBSET Kinds]
BY DEF SharedTypes, Emit

LEMMA HitTypes ==
    ASSUME SharedTypes, CallTypes, NEW c \in Calls, NEW v \in Values, Hit(c, v)
    PROVE  /\ pc' \in [Calls -> CallPCs]
           /\ result' \in [Calls -> Results \cup {None}]
           /\ events' \in [Calls -> SUBSET Kinds]
<1>1. {"hit"} \in SUBSET Kinds /\ "nil" \in Errors
    BY DEF Kinds, Errors
<1> QED
    BY <1>1, ReturnTypes, EmitTypes DEF Hit

LEMMA OutcomeTypes ==
    ASSUME SharedTypes, CallTypes, NEW c \in Calls, NEW o \in Results,
           ReturnOutcome(c, o)
    PROVE  /\ pc' \in [Calls -> CallPCs]
           /\ result' \in [Calls -> Results \cup {None}]
           /\ events' \in [Calls -> SUBSET Kinds]
<1>1. CASE FallsBack(c, o)
    <2>1. entry[c].value \in Values /\ "nil" \in Errors
          /\ {"refresh error"} \in SUBSET Kinds
        BY <1>1, EntryValue DEF FallsBack, CallTypes, Errors, Kinds
    <2>2. Return(c, entry[c].value, "nil") /\ Emit(c, {"refresh error"})
        BY <1>1 DEF ReturnOutcome
    <2> QED
        BY <2>1, <2>2, ReturnTypes, EmitTypes
<1>2. CASE ~FallsBack(c, o)
    <2>1. o.value \in Values \cup {None} /\ o.err \in Errors
        BY DEF Results
    <2>2. Return(c, o.value, o.err) /\ events' = events
        BY <1>2 DEF ReturnOutcome
    <2> QED
        BY <2>1, <2>2, ReturnTypes DEF SharedTypes
<1> QED
    BY <1>1, <1>2

LEMMA FinishingTypes ==
    ASSUME FlightTypes, NEW c \in Calls, NEW v \in Values \cup {None},
           NEW err \in Errors, Finishing(c, v, err)
    PROVE  /\ stage' \in [Calls -> Stages]
           /\ outcome' \in [Calls -> Results \cup {None}]
           /\ outcome'[c] # None
<1>1. [value |-> v, err |-> err] \in Results
    BY DEF Results
<1>2. None \notin Results
    BY EngineAssumption
<1> QED
    BY <1>1, <1>2 DEF FlightTypes, Stages, Finishing, Advance

LEMMA ErrorNames == /\ {"nil", "compute", "store", "panic"} \subseteq Errors
                    /\ Calls \subseteq Values
BY DEF Errors, Values

------------------------------------------------------------------------------
(* Types are preserved *)

LEMMA TypeInit == Init => TypeOK
<1> SUFFICES ASSUME Init PROVE TypeOK
    OBVIOUS
<1>1. SharedTypes
    <2>1. OldEntry \in Entries(Values)
        BY NewEntryType DEF OldEntry, Values
    <2> QED
        BY <2>1 DEF Init, SharedTypes
<1>2. CallTypes
    BY DEF Init, CallTypes, CallPCs
<1>3. FlightTypes
    BY DEF Init, FlightTypes, Stages
<1> QED
    BY <1>1, <1>2, <1>3 DEF TypeOK

LEMMA CallTypesStep ==
    ASSUME TypeOK, CallsMatchFlights, [Next]_vars
    PROVE  CallTypes'
<1> USE DEF TypeOK, CallTypes, CallPCs, callVars
<1>1. ASSUME NEW c \in Calls, StartLookup(c) PROVE CallTypes'
    BY <1>1
    DEF StartLookup, GoTo, SharedTypes
<1>2. ASSUME NEW c \in Calls, StartSet(c) PROVE CallTypes'
    BY <1>2
    DEF StartSet, GoTo
<1>3. ASSUME NEW c \in Calls, DeleteEntry(c) PROVE CallTypes'
    BY <1>3, ReturnTypes, ErrorNames
    DEF DeleteEntry
<1>4. ASSUME NEW c \in Calls, ClearEntries(c) PROVE CallTypes'
    BY <1>4, ReturnTypes, ErrorNames
    DEF ClearEntries
<1>5. ASSUME NEW c \in Calls, RemovalFails(c) PROVE CallTypes'
    BY <1>5, ReturnTypes, ErrorNames
    DEF RemovalFails
<1>6. ASSUME NEW c \in Calls, SetWrites(c) PROVE CallTypes'
    BY <1>6, ReturnTypes, ErrorNames
    DEF SetWrites
<1>7. ASSUME NEW c \in Calls, PeekFresh(c) PROVE CallTypes'
    BY <1>7, HitTypes, EntryValue, ReturnTypes, ErrorNames
    DEF PeekFresh, GoTo, Has, SharedTypes
<1>8. ASSUME NEW c \in Calls, WaitForFlight(c) PROVE CallTypes'
    BY <1>8
    DEF WaitForFlight, GoTo, SharedTypes
<1>9. ASSUME NEW c \in Calls, PeekEntry(c) PROVE CallTypes'
    BY <1>9, HitTypes, EntryValue, ReturnTypes, ErrorNames
    DEF PeekEntry, GoTo, Has, SharedTypes
<1>10. ASSUME NEW c \in Calls, LookupFails(c) PROVE CallTypes'
    BY <1>10, ReturnTypes, ErrorNames
    DEF LookupFails
<1>11. ASSUME NEW c \in Calls, WriteFails(c) PROVE CallTypes'
    BY <1>11, ReturnTypes, ErrorNames
    DEF WriteFails
<1>12. ASSUME NEW c \in Calls, Revalidate(c) PROVE CallTypes'
    BY <1>12, EntryValue, ReturnTypes, ErrorNames
    DEF Revalidate, CallsMatchFlights, MatchesFlight
<1>13. ASSUME NEW c \in Calls, Do(c) PROVE CallTypes'
    BY <1>13
    DEF Do, GoTo, SharedTypes
<1>14. ASSUME NEW c \in Calls, Wait(c) PROVE CallTypes'
    <2>1. outcome[joined[c]] \in Results
        BY <1>14 DEF Wait, CallsMatchFlights, MatchesFlight, FlightTypes
    <2> QED
        BY <2>1, <1>14, OutcomeTypes DEF Wait
<1>15. ASSUME NEW c \in Calls, ReleaseWaiters(c) PROVE CallTypes'
    <2>1. outcome[c] \in Results
        BY <1>15 DEF ReleaseWaiters, CallsMatchFlights, MatchesFlight, FlightTypes
    <2> QED
        BY <2>1, <1>15, OutcomeTypes DEF ReleaseWaiters
<1>16. ASSUME NEW c \in Calls,
            LeaderReadsClock(c) \/ RecheckFresh(c) \/ RecheckEntry(c) \/
            RefreshBegins(c) \/ ComputeSucceeds(c) \/ ComputeFails(c) \/
            ComputePanics(c) \/ FlightWrites(c) \/ FlightWriteFails(c) \/
            FinishFlight(c)
      PROVE CallTypes'
    BY <1>16 DEF LeaderReadsClock, RecheckFresh, RecheckEntry, RefreshBegins,
        ComputeSucceeds, ComputeFails, ComputePanics, FlightWrites,
        FlightWriteFails, FinishFlight, Recheck
<1>17. ASSUME Tick PROVE CallTypes'
    BY <1>17 DEF Tick
<1>18. ASSUME NEW k \in Keys, StoreDrops(k) PROVE CallTypes'
    BY <1>18 DEF StoreDrops
<1>19. CASE UNCHANGED vars
    BY <1>19 DEF vars
<1> QED
    BY <1>1, <1>2, <1>3, <1>4, <1>5, <1>6, <1>7,
        <1>8, <1>9, <1>10, <1>11, <1>12, <1>13, <1>14, <1>15, <1>16,
        <1>17, <1>18, <1>19
    DEF Next, StartCall, CallStep, FlightStep, Quiescent

LEMMA FlightTypesStep ==
    ASSUME TypeOK, CallsMatchFlights, [Next]_vars
    PROVE  FlightTypes'
<1> USE DEF TypeOK, FlightTypes, Stages, flightVars
<1>1. ASSUME NEW c \in Calls, StartSet(c) PROVE FlightTypes'
    BY <1>1, NewEntryType
    DEF StartSet, Values, SharedTypes
<1>2. ASSUME NEW c \in Calls, Revalidate(c) PROVE FlightTypes'
    BY <1>2
    DEF Revalidate, Advance
<1>3. ASSUME NEW c \in Calls, Do(c) PROVE FlightTypes'
    BY <1>3
    DEF Do, Advance
<1>4. ASSUME NEW c \in Calls, LeaderReadsClock(c) PROVE FlightTypes'
    BY <1>4
    DEF LeaderReadsClock, SharedTypes, Advance
<1>5. ASSUME NEW c \in Calls, RecheckFresh(c) PROVE FlightTypes'
    BY <1>5, FinishingTypes, ErrorNames, EntryValue
    DEF RecheckFresh, Recheck, Has, SharedTypes, CallTypes, Advance
<1>6. ASSUME NEW c \in Calls, RecheckEntry(c) PROVE FlightTypes'
    BY <1>6, FinishingTypes, ErrorNames, EntryValue
    DEF RecheckEntry, Recheck, Has, SharedTypes, CallTypes, Advance
<1>7. ASSUME NEW c \in Calls, RefreshBegins(c) PROVE FlightTypes'
    BY <1>7
    DEF RefreshBegins, Advance
<1>8. ASSUME NEW c \in Calls, ComputeSucceeds(c) PROVE FlightTypes'
    BY <1>8, NewEntryType
    DEF ComputeSucceeds, Values, SharedTypes, Advance
<1>9. ASSUME NEW c \in Calls, ComputeFails(c) PROVE FlightTypes'
    BY <1>9, FinishingTypes, ErrorNames
    DEF ComputeFails, Advance
<1>10. ASSUME NEW c \in Calls, ComputePanics(c) PROVE FlightTypes'
    BY <1>10, FinishingTypes, ErrorNames
    DEF ComputePanics, Advance
<1>11. ASSUME NEW c \in Calls, FlightWrites(c) PROVE FlightTypes'
    BY <1>11, FinishingTypes, ErrorNames
    DEF FlightWrites, Advance
<1>12. ASSUME NEW c \in Calls, FlightWriteFails(c) PROVE FlightTypes'
    BY <1>12, FinishingTypes, ErrorNames
    DEF FlightWriteFails, Advance
<1>13. ASSUME NEW c \in Calls, FinishFlight(c) PROVE FlightTypes'
    BY <1>13
    DEF FinishFlight, Advance
<1>14. ASSUME NEW c \in Calls, ReleaseWaiters(c) PROVE FlightTypes'
    BY <1>14
    DEF ReleaseWaiters, Advance
<1>15. ASSUME NEW c \in Calls,
            StartLookup(c) \/
            DeleteEntry(c) \/ ClearEntries(c) \/ RemovalFails(c) \/
            SetWrites(c) \/ PeekFresh(c) \/
            WaitForFlight(c) \/ PeekEntry(c) \/ LookupFails(c) \/
            WriteFails(c) \/ Wait(c)
      PROVE FlightTypes'
    BY <1>15 DEF StartLookup, DeleteEntry,
        ClearEntries, RemovalFails, SetWrites, PeekFresh,
        WaitForFlight, PeekEntry, LookupFails, WriteFails, Wait
<1>16. ASSUME Tick PROVE FlightTypes'
    BY <1>16 DEF Tick
<1>17. ASSUME NEW k \in Keys, StoreDrops(k) PROVE FlightTypes'
    BY <1>17 DEF StoreDrops
<1>18. CASE UNCHANGED vars
    BY <1>18 DEF vars
<1> QED
    BY <1>1, <1>2, <1>3, <1>4, <1>5, <1>6, <1>7, <1>8, <1>9, <1>10,
        <1>11, <1>12, <1>13, <1>14, <1>15, <1>16, <1>17, <1>18
    DEF Next, StartCall, CallStep, FlightStep, Quiescent

LEMMA SharedTypesStep ==
    ASSUME TypeOK, CallsMatchFlights, [Next]_vars
    PROVE  SharedTypes'
<1> USE DEF TypeOK, SharedTypes
<1>1. ASSUME NEW c \in Calls, SetWrites(c) PROVE SharedTypes'
    BY <1>1, EmitTypes
    DEF SetWrites, Kinds, CallTypes, FlightTypes
<1>2. ASSUME NEW c \in Calls, DeleteEntry(c) PROVE SharedTypes'
    BY <1>2, EmitTypes
    DEF DeleteEntry, Kinds, CallTypes
<1>3. ASSUME NEW c \in Calls, ClearEntries(c) PROVE SharedTypes'
    BY <1>3
    DEF ClearEntries, CallTypes
<1>4. ASSUME NEW c \in Calls, PeekFresh(c) PROVE SharedTypes'
    BY <1>4, HitTypes, EntryValue, EmitTypes
    DEF PeekFresh, Has, CallTypes, Kinds
<1>5. ASSUME NEW c \in Calls, PeekEntry(c) PROVE SharedTypes'
    BY <1>5, HitTypes, EntryValue, EmitTypes
    DEF PeekEntry, Has, CallTypes, Kinds
<1>6. ASSUME NEW c \in Calls, Revalidate(c) PROVE SharedTypes'
    BY <1>6
    DEF Revalidate, CallTypes
<1>7. ASSUME NEW c \in Calls, Do(c) PROVE SharedTypes'
    <2>1. key[c] \in Keys
        BY DEF CallTypes
    <2>2. flights' = [flights EXCEPT ![key[c]] = c] \/ flights' = flights
        BY <1>7 DEF Do
    <2>3. UNCHANGED <<clock, store, events>>
        BY <1>7 DEF Do
    <2> QED
        BY <2>1, <2>2, <2>3
<1>8. ASSUME NEW c \in Calls, Wait(c) PROVE SharedTypes'
    <2>1. outcome[joined[c]] \in Results
        BY <1>8 DEF Wait, CallsMatchFlights, MatchesFlight, FlightTypes
    <2> QED
        BY <2>1, <1>8, OutcomeTypes DEF Wait
<1>9. ASSUME NEW c \in Calls, RefreshBegins(c) PROVE SharedTypes'
    BY <1>9, EmitTypes
    DEF RefreshBegins, Kinds
<1>10. ASSUME NEW c \in Calls, ComputeFails(c) PROVE SharedTypes'
    BY <1>10, EmitTypes
    DEF ComputeFails, Kinds, IfRefresh
<1>11. ASSUME NEW c \in Calls, FlightWrites(c) PROVE SharedTypes'
    BY <1>11, EmitTypes
    DEF FlightWrites, Kinds, IfRefresh, CallTypes, FlightTypes
<1>12. ASSUME NEW c \in Calls, FlightWriteFails(c) PROVE SharedTypes'
    BY <1>12, EmitTypes
    DEF FlightWriteFails, Kinds, IfRefresh
<1>13. ASSUME NEW c \in Calls, FinishFlight(c) PROVE SharedTypes'
    BY <1>13
    DEF FinishFlight, CallTypes
<1>14. ASSUME NEW c \in Calls, ReleaseWaiters(c) PROVE SharedTypes'
    <2>1. outcome[c] \in Results
        BY <1>14 DEF ReleaseWaiters, CallsMatchFlights, MatchesFlight, FlightTypes
    <2> QED
        BY <2>1, <1>14, OutcomeTypes DEF ReleaseWaiters
<1>15. ASSUME NEW c \in Calls,
            StartLookup(c) \/ StartSet(c) \/
            RemovalFails(c) \/ WaitForFlight(c) \/
            LookupFails(c) \/ WriteFails(c) \/ LeaderReadsClock(c) \/
            RecheckFresh(c) \/ RecheckEntry(c) \/ ComputeSucceeds(c) \/
            ComputePanics(c)
      PROVE SharedTypes'
    BY <1>15 DEF StartLookup, StartSet, RemovalFails,
        WaitForFlight, LookupFails, WriteFails,
        LeaderReadsClock, RecheckFresh, RecheckEntry, ComputeSucceeds,
        ComputePanics, Recheck
<1>16. ASSUME Tick PROVE SharedTypes'
    BY <1>16 DEF Tick
<1>17. ASSUME NEW k \in Keys, StoreDrops(k) PROVE SharedTypes'
    BY <1>17 DEF StoreDrops
<1>18. CASE UNCHANGED vars
    BY <1>18 DEF vars
<1> QED
    BY <1>1, <1>2, <1>3, <1>4, <1>5, <1>6, <1>7, <1>8, <1>9,
        <1>10, <1>11, <1>12, <1>13, <1>14, <1>15, <1>16, <1>17, <1>18
    DEF Next, StartCall, CallStep, FlightStep, Quiescent

LEMMA TypeStep == TypeOK /\ CallsMatchFlights /\ [Next]_vars => TypeOK'
BY CallTypesStep, FlightTypesStep, SharedTypesStep DEF TypeOK

------------------------------------------------------------------------------
(* The flight map *)

\* A flight that goes from one registered stage to another disturbs nothing.
LEMMA RegisteredStep ==
    ASSUME FlightTypes, FlightMapExact, NEW c \in Calls, NEW to \in Registered,
           stage[c] \in Registered, Advance(c, to), UNCHANGED <<flights, key>>
    PROVE  FlightMapExact'
BY DEF FlightTypes, FlightMapExact, Advance

\* Registering a flight where there was none.
LEMMA OpenStep ==
    ASSUME TypeOK, FlightMapExact, NEW c \in Calls, NEW to \in Registered,
           stage[c] = "none", flights[key[c]] = None,
           flights' = [flights EXCEPT ![key[c]] = c], Advance(c, to), UNCHANGED key
    PROVE  FlightMapExact'
<1> USE DEF TypeOK, SharedTypes, CallTypes, FlightTypes, FlightMapExact, Advance
<1>0. None \notin Calls
    BY EngineAssumption DEF Values
<1>1. ASSUME NEW k \in Keys, flights'[k] # None
      PROVE  key'[flights'[k]] = k /\ stage'[flights'[k]] \in Registered
    <2>1. CASE k = key[c]
        BY <1>0, <2>1
    <2>2. CASE k # key[c]
        <3>1. flights'[k] = flights[k] /\ flights[k] \in Calls /\ flights[k] # c
            BY <1>1, <2>2
        <3> QED
            BY <1>1, <2>2, <3>1
    <2> QED
        BY <2>1, <2>2
<1>2. ASSUME NEW d \in Calls, stage'[d] \in Registered PROVE flights'[key'[d]] = d
    <2>1. CASE d = c
        BY <2>1
    <2>2. CASE d # c
        <3>1. stage[d] \in Registered /\ flights[key[d]] = d
            BY <1>2, <2>2
        <3> QED
            BY <1>0, <2>2, <3>1
    <2> QED
        BY <2>1, <2>2
<1> QED
    BY <1>1, <1>2

\* Unregistering a flight that has its outcome.
LEMMA CloseStep ==
    ASSUME TypeOK, FlightMapExact, NEW c \in Calls, stage[c] \in Registered,
           flights' = [flights EXCEPT ![key[c]] = None], Advance(c, "done"),
           UNCHANGED key
    PROVE  FlightMapExact'
<1> USE DEF TypeOK, SharedTypes, CallTypes, FlightTypes, FlightMapExact, Advance
<1>0. flights[key[c]] = c /\ "done" \notin Registered
    BY DEF Registered
<1>1. ASSUME NEW k \in Keys, flights'[k] # None
      PROVE  key'[flights'[k]] = k /\ stage'[flights'[k]] \in Registered
    <2>1. k # key[c] /\ flights'[k] = flights[k] /\ flights[k] # None
        BY <1>1
    <2>2. flights[k] \in Calls /\ flights[k] # c
        BY <2>1
    <2> QED
        BY <2>1, <2>2
<1>2. ASSUME NEW d \in Calls, stage'[d] \in Registered PROVE flights'[key'[d]] = d
    <2>1. d # c /\ stage[d] \in Registered
        BY <1>0, <1>2
    <2>2. flights[key[d]] = d /\ key[d] # key[c]
        BY <1>0, <2>1
    <2> QED
        BY <2>1, <2>2
<1> QED
    BY <1>1, <1>2

LEMMA FlightMapStep ==
    ASSUME TypeOK, FlightMapExact, CallsMatchFlights, [Next]_vars
    PROVE  FlightMapExact'
<1> USE DEF callVars, flightVars
<1>1. ASSUME NEW c \in Calls, Revalidate(c) PROVE FlightMapExact'
    <2>1. stage[c] = "none" /\ "spawned" \in Registered
        BY <1>1 DEF Revalidate, CallsMatchFlights, MatchesFlight, Registered
    <2>2. CASE flights[key[c]] = None
        BY <1>1, <2>1, <2>2, OpenStep DEF Revalidate
    <2>3. CASE flights[key[c]] # None
        BY <1>1, <2>3 DEF Revalidate, FlightMapExact
    <2> QED
        BY <2>2, <2>3
<1>2. ASSUME NEW c \in Calls, Do(c) PROVE FlightMapExact'
    <2>1. stage[c] = "none" /\ "read clock" \in Registered
        BY <1>2 DEF Do, CallsMatchFlights, MatchesFlight, Registered
    <2>2. CASE flights[key[c]] = None
        BY <1>2, <2>1, <2>2, OpenStep DEF Do
    <2>3. CASE flights[key[c]] # None
        BY <1>2, <2>3 DEF Do, FlightMapExact
    <2> QED
        BY <2>2, <2>3
<1>3. ASSUME NEW c \in Calls, LeaderReadsClock(c) PROVE FlightMapExact'
    <2>1. stage[c] \in Registered /\ UNCHANGED <<flights, key>>
        BY <1>3 DEF LeaderReadsClock, Registered
    <2>2. PICK to \in Registered : Advance(c, to)
        BY <1>3 DEF LeaderReadsClock, Registered
    <2> QED
        BY <2>1, <2>2, RegisteredStep DEF TypeOK
<1>4. ASSUME NEW c \in Calls, RecheckFresh(c) PROVE FlightMapExact'
    <2>1. stage[c] \in Registered /\ UNCHANGED <<flights, key>>
        BY <1>4 DEF RecheckFresh, Registered, Recheck
    <2>2. PICK to \in Registered : Advance(c, to)
        BY <1>4 DEF RecheckFresh, Registered, Recheck, Finishing
    <2> QED
        BY <2>1, <2>2, RegisteredStep DEF TypeOK
<1>5. ASSUME NEW c \in Calls, RecheckEntry(c) PROVE FlightMapExact'
    <2>1. stage[c] \in Registered /\ UNCHANGED <<flights, key>>
        BY <1>5 DEF RecheckEntry, Registered, Recheck
    <2>2. PICK to \in Registered : Advance(c, to)
        BY <1>5 DEF RecheckEntry, Registered, Recheck, Finishing
    <2> QED
        BY <2>1, <2>2, RegisteredStep DEF TypeOK
<1>6. ASSUME NEW c \in Calls, RefreshBegins(c) PROVE FlightMapExact'
    <2>1. stage[c] \in Registered /\ UNCHANGED <<flights, key>>
        BY <1>6 DEF RefreshBegins, Registered
    <2>2. PICK to \in Registered : Advance(c, to)
        BY <1>6 DEF RefreshBegins, Registered
    <2> QED
        BY <2>1, <2>2, RegisteredStep DEF TypeOK
<1>7. ASSUME NEW c \in Calls, ComputeSucceeds(c) PROVE FlightMapExact'
    <2>1. stage[c] \in Registered /\ UNCHANGED <<flights, key>>
        BY <1>7 DEF ComputeSucceeds, Registered
    <2>2. PICK to \in Registered : Advance(c, to)
        BY <1>7 DEF ComputeSucceeds, Registered
    <2> QED
        BY <2>1, <2>2, RegisteredStep DEF TypeOK
<1>8. ASSUME NEW c \in Calls, ComputeFails(c) PROVE FlightMapExact'
    <2>1. stage[c] \in Registered /\ UNCHANGED <<flights, key>>
        BY <1>8 DEF ComputeFails, Registered
    <2>2. PICK to \in Registered : Advance(c, to)
        BY <1>8 DEF ComputeFails, Registered, Finishing
    <2> QED
        BY <2>1, <2>2, RegisteredStep DEF TypeOK
<1>9. ASSUME NEW c \in Calls, ComputePanics(c) PROVE FlightMapExact'
    <2>1. stage[c] \in Registered /\ UNCHANGED <<flights, key>>
        BY <1>9 DEF ComputePanics, Registered
    <2>2. PICK to \in Registered : Advance(c, to)
        BY <1>9 DEF ComputePanics, Registered, Finishing
    <2> QED
        BY <2>1, <2>2, RegisteredStep DEF TypeOK
<1>10. ASSUME NEW c \in Calls, FlightWrites(c) PROVE FlightMapExact'
    <2>1. stage[c] \in Registered /\ UNCHANGED <<flights, key>>
        BY <1>10 DEF FlightWrites, Registered
    <2>2. PICK to \in Registered : Advance(c, to)
        BY <1>10 DEF FlightWrites, Registered, Finishing
    <2> QED
        BY <2>1, <2>2, RegisteredStep DEF TypeOK
<1>11. ASSUME NEW c \in Calls, FlightWriteFails(c) PROVE FlightMapExact'
    <2>1. stage[c] \in Registered /\ UNCHANGED <<flights, key>>
        BY <1>11 DEF FlightWriteFails, Registered
    <2>2. PICK to \in Registered : Advance(c, to)
        BY <1>11 DEF FlightWriteFails, Registered, Finishing
    <2> QED
        BY <2>1, <2>2, RegisteredStep DEF TypeOK
<1>12. ASSUME NEW c \in Calls, FinishFlight(c) PROVE FlightMapExact'
    <2>1. stage[c] \in Registered
        BY <1>12 DEF FinishFlight, Registered
    <2> QED
        BY <1>12, <2>1, CloseStep DEF FinishFlight
<1>13. ASSUME NEW c \in Calls, ReleaseWaiters(c) PROVE FlightMapExact'
    <2>1. stage[c] \notin Registered /\ "landed" \notin Registered
        BY <1>13 DEF ReleaseWaiters, Registered
    <2>2. Advance(c, "landed") /\ UNCHANGED <<flights, key>>
        BY <1>13 DEF ReleaseWaiters
    <2> QED
        BY <2>1, <2>2 DEF Advance, FlightMapExact, TypeOK, FlightTypes, SharedTypes
<1>14. ASSUME NEW c \in Calls,
            StartLookup(c) \/
            StartSet(c) \/ DeleteEntry(c) \/ ClearEntries(c) \/
            RemovalFails(c) \/ SetWrites(c) \/
            PeekFresh(c) \/ WaitForFlight(c) \/ PeekEntry(c) \/ LookupFails(c)
            \/ WriteFails(c) \/ Wait(c)
      PROVE FlightMapExact'
    BY <1>14 DEF FlightMapExact, StartLookup, StartSet, DeleteEntry,
        ClearEntries, RemovalFails, SetWrites, PeekFresh,
        WaitForFlight, PeekEntry, LookupFails, WriteFails, Wait
<1>15. ASSUME Tick PROVE FlightMapExact'
    BY <1>15 DEF FlightMapExact, Tick
<1>16. ASSUME NEW k \in Keys, StoreDrops(k) PROVE FlightMapExact'
    BY <1>16 DEF FlightMapExact, StoreDrops
<1>17. CASE UNCHANGED vars
    BY <1>17 DEF FlightMapExact, vars
<1> QED
    BY <1>1, <1>2, <1>3, <1>4, <1>5, <1>6, <1>7, <1>8, <1>9, <1>10,
        <1>11, <1>12, <1>13, <1>14, <1>15, <1>16, <1>17
    DEF Next, StartCall, CallStep, FlightStep, Quiescent

------------------------------------------------------------------------------
(* Callers and flights agree *)

\* What a step of call c or of its flight leaves alone.
OthersKeep(c) ==
    /\ UNCHANGED key
    /\ stage[c] # "none" => stage'[c] # "none"
    /\ \A d \in Calls \ {c} :
          /\ pc'[d] = pc[d] /\ joined'[d] = joined[d] /\ entry'[d] = entry[d]
          /\ stage'[d] = stage[d] /\ outcome'[d] = outcome[d]

LEMMA OthersMatch ==
    ASSUME CallsMatchFlights, NEW c \in Calls, OthersKeep(c), MatchesFlight(c)'
    PROVE  CallsMatchFlights'
<1>1. ASSUME NEW d \in Calls, d # c PROVE MatchesFlight(d)'
    BY <1>1 DEF CallsMatchFlights, MatchesFlight, OthersKeep
<1> QED
    BY <1>1 DEF CallsMatchFlights

LEMMA RegisteredFlight ==
    ASSUME TypeOK, FlightMapExact, NEW c \in Calls, flights[key[c]] # None
    PROVE  /\ flights[key[c]] \in Calls /\ key[flights[key[c]]] = key[c]
           /\ stage[flights[key[c]]] # "none"
<1>1. key[c] \in Keys
    BY DEF TypeOK, CallTypes
<1>2. flights[key[c]] \in Calls
    BY <1>1 DEF TypeOK, SharedTypes
<1> QED
    BY <1>1, <1>2 DEF FlightMapExact, Registered

LEMMA FinishingMatches ==
    ASSUME FlightTypes, NEW c \in Calls, MatchesFlight(c), stage[c] # "none",
           NEW v \in Values \cup {None}, NEW err \in Errors, Finishing(c, v, err),
           UNCHANGED pc
    PROVE  MatchesFlight(c)'
<1>1. stage'[c] = "finish" /\ outcome'[c] # None
    BY FinishingTypes DEF Finishing, Advance, FlightTypes
<1> QED
    BY <1>1 DEF MatchesFlight

LEMMA CallsMatchStep ==
    ASSUME TypeOK, FlightMapExact, CallsMatchFlights, [Next]_vars
    PROVE  CallsMatchFlights'
<1> USE DEF TypeOK, CallTypes, FlightTypes, callVars, flightVars
<1>1. ASSUME NEW c \in Calls, StartLookup(c) PROVE CallsMatchFlights'
    <2>1. OthersKeep(c)
        BY <1>1 DEF StartLookup, GoTo, OthersKeep
    <2>2. MatchesFlight(c)'
        BY <1>1 DEF StartLookup, GoTo, CallsMatchFlights, MatchesFlight
    <2> QED
        BY <2>1, <2>2, OthersMatch
<1>2. ASSUME NEW c \in Calls, StartSet(c) PROVE CallsMatchFlights'
    <2>1. OthersKeep(c)
        BY <1>2 DEF StartSet, GoTo, OthersKeep
    <2>2. MatchesFlight(c)'
        BY <1>2 DEF StartSet, GoTo, CallsMatchFlights, MatchesFlight
    <2> QED
        BY <2>1, <2>2, OthersMatch
<1>3. ASSUME NEW c \in Calls, DeleteEntry(c) PROVE CallsMatchFlights'
    <2>1. OthersKeep(c)
        BY <1>3 DEF DeleteEntry, Return, OthersKeep
    <2>2. MatchesFlight(c)'
        BY <1>3 DEF DeleteEntry, Return, CallsMatchFlights, MatchesFlight
    <2> QED
        BY <2>1, <2>2, OthersMatch
<1>4. ASSUME NEW c \in Calls, ClearEntries(c) PROVE CallsMatchFlights'
    <2>1. OthersKeep(c)
        BY <1>4 DEF ClearEntries, Return, OthersKeep
    <2>2. MatchesFlight(c)'
        BY <1>4 DEF ClearEntries, Return, CallsMatchFlights, MatchesFlight
    <2> QED
        BY <2>1, <2>2, OthersMatch
<1>5. ASSUME NEW c \in Calls, RemovalFails(c) PROVE CallsMatchFlights'
    <2>1. OthersKeep(c)
        BY <1>5 DEF RemovalFails, Return, OthersKeep
    <2>2. MatchesFlight(c)'
        BY <1>5 DEF RemovalFails, Return, CallsMatchFlights, MatchesFlight
    <2> QED
        BY <2>1, <2>2, OthersMatch
<1>6. ASSUME NEW c \in Calls, SetWrites(c) PROVE CallsMatchFlights'
    <2>1. OthersKeep(c)
        BY <1>6 DEF SetWrites, Return, OthersKeep
    <2>2. MatchesFlight(c)'
        BY <1>6 DEF SetWrites, Return, CallsMatchFlights, MatchesFlight
    <2> QED
        BY <2>1, <2>2, OthersMatch
<1>7. ASSUME NEW c \in Calls, PeekFresh(c) PROVE CallsMatchFlights'
    <2>1. OthersKeep(c)
        BY <1>7 DEF PeekFresh, Hit, Return, GoTo, OthersKeep
    <2>2. MatchesFlight(c)'
        BY <1>7 DEF PeekFresh, Hit, Return, GoTo, Has, CallsMatchFlights, MatchesFlight
    <2> QED
        BY <2>1, <2>2, OthersMatch
<1>8. ASSUME NEW c \in Calls, WaitForFlight(c) PROVE CallsMatchFlights'
    <2>1. OthersKeep(c)
        BY <1>8 DEF WaitForFlight, GoTo, OthersKeep
    <2>2. MatchesFlight(c)'
        BY <1>8, RegisteredFlight DEF WaitForFlight, GoTo, CallsMatchFlights, MatchesFlight
    <2> QED
        BY <2>1, <2>2, OthersMatch
<1>9. ASSUME NEW c \in Calls, PeekEntry(c) PROVE CallsMatchFlights'
    <2>1. OthersKeep(c)
        BY <1>9 DEF PeekEntry, Hit, Return, GoTo, OthersKeep
    <2>2. MatchesFlight(c)'
        BY <1>9 DEF PeekEntry, Hit, Return, GoTo, Has, CallsMatchFlights, MatchesFlight
    <2> QED
        BY <2>1, <2>2, OthersMatch
<1>10. ASSUME NEW c \in Calls, LookupFails(c) PROVE CallsMatchFlights'
    <2>1. OthersKeep(c)
        BY <1>10 DEF LookupFails, Return, OthersKeep
    <2>2. MatchesFlight(c)'
        BY <1>10 DEF LookupFails, Return, CallsMatchFlights, MatchesFlight
    <2> QED
        BY <2>1, <2>2, OthersMatch
<1>11. ASSUME NEW c \in Calls, WriteFails(c) PROVE CallsMatchFlights'
    <2>1. OthersKeep(c)
        BY <1>11 DEF WriteFails, Return, OthersKeep
    <2>2. MatchesFlight(c)'
        BY <1>11 DEF WriteFails, Return, CallsMatchFlights, MatchesFlight
    <2> QED
        BY <2>1, <2>2, OthersMatch
<1>12. ASSUME NEW c \in Calls, Revalidate(c) PROVE CallsMatchFlights'
    <2>1. OthersKeep(c)
        BY <1>12 DEF Revalidate, Return, Advance, OthersKeep
    <2>2. MatchesFlight(c)'
        BY <1>12 DEF Revalidate, Return, Advance, CallsMatchFlights, MatchesFlight
    <2> QED
        BY <2>1, <2>2, OthersMatch
<1>13. ASSUME NEW c \in Calls, Do(c) PROVE CallsMatchFlights'
    <2>1. OthersKeep(c)
        BY <1>13 DEF Do, GoTo, Advance, OthersKeep
    <2>2. CASE flights[key[c]] = None
        <3>1. pc'[c] = "leading" /\ stage'[c] = "read clock"
            BY <1>13, <2>2 DEF Do, GoTo, Advance
        <3> QED
            BY <2>1, <3>1, OthersMatch DEF MatchesFlight
    <2>3. CASE flights[key[c]] # None
        <3>1. pc'[c] = "waiting" /\ joined'[c] = flights[key[c]]
              /\ UNCHANGED <<key, stage>>
            BY <1>13, <2>3 DEF Do, GoTo
        <3>2. stage[c] = "none"
            BY <1>13 DEF Do, CallsMatchFlights, MatchesFlight
        <3> QED
            BY <2>1, <2>3, <3>1, <3>2, OthersMatch, RegisteredFlight DEF MatchesFlight
    <2> QED
        BY <2>2, <2>3
<1>14. ASSUME NEW c \in Calls, Wait(c) PROVE CallsMatchFlights'
    <2>1. OthersKeep(c)
        BY <1>14 DEF Wait, ReturnOutcome, Return, OthersKeep
    <2>2. MatchesFlight(c)'
        BY <1>14 DEF Wait, ReturnOutcome, Return, CallsMatchFlights, MatchesFlight
    <2> QED
        BY <2>1, <2>2, OthersMatch
<1>15. ASSUME NEW c \in Calls, LeaderReadsClock(c) PROVE CallsMatchFlights'
    <2>1. OthersKeep(c)
        BY <1>15 DEF LeaderReadsClock, Advance, OthersKeep
    <2>2. MatchesFlight(c)'
        BY <1>15 DEF LeaderReadsClock, Advance, CallsMatchFlights, MatchesFlight
    <2> QED
        BY <2>1, <2>2, OthersMatch
<1>16. ASSUME NEW c \in Calls, RecheckFresh(c) PROVE CallsMatchFlights'
    <2>1. OthersKeep(c)
        BY <1>16 DEF RecheckFresh, Recheck, Finishing, Advance, OthersKeep
    <2>2. MatchesFlight(c)'
        BY <1>16, FinishingMatches, ErrorNames, EntryValue DEF RecheckFresh, Recheck,
           Advance, Has, SharedTypes, CallsMatchFlights, MatchesFlight
    <2> QED
        BY <2>1, <2>2, OthersMatch
<1>17. ASSUME NEW c \in Calls, RecheckEntry(c) PROVE CallsMatchFlights'
    <2>1. OthersKeep(c)
        BY <1>17 DEF RecheckEntry, Recheck, Finishing, Advance, OthersKeep
    <2>2. MatchesFlight(c)'
        BY <1>17, FinishingMatches, ErrorNames, EntryValue DEF RecheckEntry, Recheck,
           Advance, Has, SharedTypes, CallsMatchFlights, MatchesFlight
    <2> QED
        BY <2>1, <2>2, OthersMatch
<1>18. ASSUME NEW c \in Calls, RefreshBegins(c) PROVE CallsMatchFlights'
    <2>1. OthersKeep(c)
        BY <1>18 DEF RefreshBegins, Advance, OthersKeep
    <2>2. MatchesFlight(c)'
        BY <1>18 DEF RefreshBegins, Advance, CallsMatchFlights, MatchesFlight
    <2> QED
        BY <2>1, <2>2, OthersMatch
<1>19. ASSUME NEW c \in Calls, ComputeSucceeds(c) PROVE CallsMatchFlights'
    <2>1. OthersKeep(c)
        BY <1>19 DEF ComputeSucceeds, Advance, OthersKeep
    <2>2. MatchesFlight(c)'
        BY <1>19 DEF ComputeSucceeds, Advance, CallsMatchFlights, MatchesFlight
    <2> QED
        BY <2>1, <2>2, OthersMatch
<1>20. ASSUME NEW c \in Calls, ComputeFails(c) PROVE CallsMatchFlights'
    <2>1. OthersKeep(c)
        BY <1>20 DEF ComputeFails, Finishing, Advance, OthersKeep
    <2>2. MatchesFlight(c)'
        BY <1>20, FinishingMatches, ErrorNames DEF ComputeFails, Advance, CallsMatchFlights,
           MatchesFlight
    <2> QED
        BY <2>1, <2>2, OthersMatch
<1>21. ASSUME NEW c \in Calls, ComputePanics(c) PROVE CallsMatchFlights'
    <2>1. OthersKeep(c)
        BY <1>21 DEF ComputePanics, Finishing, Advance, OthersKeep
    <2>2. MatchesFlight(c)'
        BY <1>21, FinishingMatches, ErrorNames DEF ComputePanics, Advance, IsRefresh,
           CallsMatchFlights, MatchesFlight
    <2> QED
        BY <2>1, <2>2, OthersMatch
<1>22. ASSUME NEW c \in Calls, FlightWrites(c) PROVE CallsMatchFlights'
    <2>1. OthersKeep(c)
        BY <1>22 DEF FlightWrites, Finishing, Advance, OthersKeep
    <2>2. MatchesFlight(c)'
        BY <1>22, FinishingMatches, ErrorNames DEF FlightWrites, Advance, CallsMatchFlights,
           MatchesFlight
    <2> QED
        BY <2>1, <2>2, OthersMatch
<1>23. ASSUME NEW c \in Calls, FlightWriteFails(c) PROVE CallsMatchFlights'
    <2>1. OthersKeep(c)
        BY <1>23 DEF FlightWriteFails, Finishing, Advance, OthersKeep
    <2>2. MatchesFlight(c)'
        BY <1>23, FinishingMatches, ErrorNames DEF FlightWriteFails, Advance,
           CallsMatchFlights, MatchesFlight
    <2> QED
        BY <2>1, <2>2, OthersMatch
<1>24. ASSUME NEW c \in Calls, FinishFlight(c) PROVE CallsMatchFlights'
    <2>1. OthersKeep(c)
        BY <1>24 DEF FinishFlight, Advance, OthersKeep
    <2>2. MatchesFlight(c)'
        BY <1>24 DEF FinishFlight, Advance, CallsMatchFlights, MatchesFlight
    <2> QED
        BY <2>1, <2>2, OthersMatch
<1>25. ASSUME NEW c \in Calls, ReleaseWaiters(c) PROVE CallsMatchFlights'
    <2>1. OthersKeep(c)
        BY <1>25 DEF ReleaseWaiters, Advance, ReturnOutcome, Return, OthersKeep
    <2>2. MatchesFlight(c)'
        BY <1>25 DEF ReleaseWaiters, Advance, ReturnOutcome, Return, CallsMatchFlights,
           MatchesFlight
    <2> QED
        BY <2>1, <2>2, OthersMatch
<1>26. ASSUME Tick PROVE CallsMatchFlights'
    BY <1>26 DEF CallsMatchFlights, MatchesFlight, Tick
<1>27. ASSUME NEW k \in Keys, StoreDrops(k) PROVE CallsMatchFlights'
    BY <1>27 DEF CallsMatchFlights, MatchesFlight, StoreDrops
<1>28. CASE UNCHANGED vars
    BY <1>28 DEF CallsMatchFlights, MatchesFlight, vars
<1> QED
    BY <1>1, <1>2, <1>3, <1>4, <1>5, <1>6, <1>7,
        <1>8, <1>9, <1>10, <1>11, <1>12, <1>13, <1>14, <1>15, <1>16,
        <1>17, <1>18, <1>19, <1>20, <1>21, <1>22, <1>23, <1>24, <1>25,
        <1>26, <1>27, <1>28
    DEF Next, StartCall, CallStep, FlightStep, Quiescent

------------------------------------------------------------------------------
(* Stamped entries, and the double check *)

LEMMA StampsStep ==
    ASSUME TypeOK, StampsCarryTheirCall, [Next]_vars
    PROVE  StampsCarryTheirCall'
<1> USE DEF StampsCarryTheirCall, TypeOK, SharedTypes, CallTypes, FlightTypes, callVars, flightVars, vars
<1>1. ASSUME NEW c \in Calls, StartLookup(c) PROVE StampsCarryTheirCall'
    BY <1>1
    DEF StartLookup, GoTo
<1>2. ASSUME NEW c \in Calls, StartSet(c) PROVE StampsCarryTheirCall'
    BY <1>2, NewEntryType, ErrorNames
    DEF StartSet, GoTo
<1>3. ASSUME NEW c \in Calls, PeekFresh(c) PROVE StampsCarryTheirCall'
    BY <1>3
    DEF PeekFresh, Hit, Return, GoTo
<1>4. ASSUME NEW c \in Calls, WaitForFlight(c) PROVE StampsCarryTheirCall'
    BY <1>4
    DEF WaitForFlight, GoTo
<1>5. ASSUME NEW c \in Calls, PeekEntry(c) PROVE StampsCarryTheirCall'
    BY <1>5
    DEF PeekEntry, Hit, Return, GoTo
<1>6. ASSUME NEW c \in Calls, Do(c) PROVE StampsCarryTheirCall'
    BY <1>6
    DEF Do, GoTo
<1>7. ASSUME NEW c \in Calls, ComputeSucceeds(c) PROVE StampsCarryTheirCall'
    BY <1>7, NewEntryType, ErrorNames
    DEF ComputeSucceeds
<1>8. ASSUME NEW c \in Calls, DeleteEntry(c) PROVE StampsCarryTheirCall'
    BY <1>8
    DEF DeleteEntry, Return
<1>9. ASSUME NEW c \in Calls, ClearEntries(c) PROVE StampsCarryTheirCall'
    BY <1>9
    DEF ClearEntries, Return
<1>10. ASSUME NEW c \in Calls, RemovalFails(c) PROVE StampsCarryTheirCall'
    BY <1>10
    DEF RemovalFails, Return
<1>11. ASSUME NEW c \in Calls, SetWrites(c) PROVE StampsCarryTheirCall'
    BY <1>11
    DEF SetWrites, Return
<1>12. ASSUME NEW c \in Calls, LookupFails(c) PROVE StampsCarryTheirCall'
    BY <1>12
    DEF LookupFails, Return
<1>13. ASSUME NEW c \in Calls, WriteFails(c) PROVE StampsCarryTheirCall'
    BY <1>13
    DEF WriteFails, Return
<1>14. ASSUME NEW c \in Calls, Revalidate(c) PROVE StampsCarryTheirCall'
    BY <1>14
    DEF Revalidate, Return
<1>15. ASSUME NEW c \in Calls, Wait(c) PROVE StampsCarryTheirCall'
    BY <1>15
    DEF Wait, ReturnOutcome, Return
<1>16. ASSUME NEW c \in Calls, ReleaseWaiters(c) PROVE StampsCarryTheirCall'
    BY <1>16
    DEF ReleaseWaiters, ReturnOutcome, Return
<1>17. ASSUME NEW c \in Calls,
            LeaderReadsClock(c) \/ RecheckFresh(c) \/ RecheckEntry(c) \/
            RefreshBegins(c) \/ ComputeFails(c) \/ ComputePanics(c) \/
            FlightWrites(c) \/ FlightWriteFails(c) \/ FinishFlight(c)
      PROVE StampsCarryTheirCall'
    BY <1>17 DEF Recheck, LeaderReadsClock, RecheckFresh, RecheckEntry, RefreshBegins,
        ComputeFails, ComputePanics, FlightWrites, FlightWriteFails,
        FinishFlight
<1>18. ASSUME Tick PROVE StampsCarryTheirCall'
    BY <1>18 DEF Tick
<1>19. ASSUME NEW k \in Keys, StoreDrops(k) PROVE StampsCarryTheirCall'
    BY <1>19 DEF StoreDrops
<1>20. CASE UNCHANGED vars
    BY <1>20 DEF vars
<1> QED
    BY <1>1, <1>2, <1>3, <1>4, <1>5, <1>6, <1>7, <1>8,
        <1>9, <1>10, <1>11, <1>12, <1>13, <1>14, <1>15, <1>16,
        <1>17, <1>18, <1>19, <1>20
    DEF Next, StartCall, CallStep, FlightStep, Quiescent

\* A step that leaves the leader of d computing, and its key alone but for a removal.
LEMMA StaysJustified ==
    ASSUME NEW d \in Calls, RecomputeJustified(d), UNCHANGED <<op, key>>,
           stage'[d] \in {"computing", "write"} /\ pc'[d] = "leading" =>
               /\ stage[d] \in {"computing", "write"} /\ pc[d] = "leading"
               /\ leadNow'[d] = leadNow[d]
               /\ store'[key[d]] \in {store[key[d]], None}
    PROVE  RecomputeJustified(d)'
BY DEF RecomputeJustified, Has, SetByCaller

LEMMA DoubleCheckStep ==
    ASSUME TypeOK, FlightMapExact, CallsMatchFlights,
           StampsCarryTheirCall, LeaderNeverRecomputesFresh, [Next]_vars
    PROVE  LeaderNeverRecomputesFresh'
<1> USE DEF TypeOK, SharedTypes, CallTypes, FlightTypes, callVars, flightVars
<1>1. ASSUME NEW c \in Calls, StartLookup(c) PROVE LeaderNeverRecomputesFresh'
    <2> SUFFICES ASSUME NEW d \in Calls PROVE RecomputeJustified(d)'
        BY DEF LeaderNeverRecomputesFresh
    <2> QED
        BY <1>1, StaysJustified DEF StartLookup, GoTo, LeaderNeverRecomputesFresh,
           CallsMatchFlights, MatchesFlight
<1>2. ASSUME NEW c \in Calls, StartSet(c) PROVE LeaderNeverRecomputesFresh'
    <2> SUFFICES ASSUME NEW d \in Calls PROVE RecomputeJustified(d)'
        BY DEF LeaderNeverRecomputesFresh
    <2> QED
        BY <1>2, StaysJustified DEF StartSet, GoTo, LeaderNeverRecomputesFresh,
           CallsMatchFlights, MatchesFlight
<1>3. ASSUME NEW c \in Calls, DeleteEntry(c) PROVE LeaderNeverRecomputesFresh'
    <2> SUFFICES ASSUME NEW d \in Calls PROVE RecomputeJustified(d)'
        BY DEF LeaderNeverRecomputesFresh
    <2> QED
        BY <1>3, StaysJustified DEF DeleteEntry, Return, LeaderNeverRecomputesFresh,
           CallsMatchFlights, MatchesFlight
<1>4. ASSUME NEW c \in Calls, ClearEntries(c) PROVE LeaderNeverRecomputesFresh'
    <2> SUFFICES ASSUME NEW d \in Calls PROVE RecomputeJustified(d)'
        BY DEF LeaderNeverRecomputesFresh
    <2> QED
        BY <1>4, StaysJustified DEF ClearEntries, Return, LeaderNeverRecomputesFresh,
           CallsMatchFlights, MatchesFlight
<1>5. ASSUME NEW c \in Calls, RemovalFails(c) PROVE LeaderNeverRecomputesFresh'
    <2> SUFFICES ASSUME NEW d \in Calls PROVE RecomputeJustified(d)'
        BY DEF LeaderNeverRecomputesFresh
    <2> QED
        BY <1>5, StaysJustified DEF RemovalFails, Return, LeaderNeverRecomputesFresh,
           CallsMatchFlights, MatchesFlight
<1>6. ASSUME NEW c \in Calls, SetWrites(c) PROVE LeaderNeverRecomputesFresh'
    <2> SUFFICES ASSUME NEW d \in Calls PROVE RecomputeJustified(d)'
        BY DEF LeaderNeverRecomputesFresh
    <2>1. CASE key[d] # key[c]
        BY <1>6, <2>1, StaysJustified DEF SetWrites, Return, LeaderNeverRecomputesFresh
    <2>2. CASE key[d] = key[c]
        <3>1. store'[key[d]] = stamped[c] /\ UNCHANGED <<op, key>> /\ op[c] = "Set"
            BY <1>6, <2>2 DEF SetWrites, StampsCarryTheirCall
        <3>2. store'[key[d]] # None => store'[key[d]].value = c
            BY <3>1 DEF StampsCarryTheirCall
        <3> QED
            BY <3>1, <3>2 DEF RecomputeJustified, Has, SetByCaller
    <2> QED
        BY <2>1, <2>2
<1>7. ASSUME NEW c \in Calls, PeekFresh(c) PROVE LeaderNeverRecomputesFresh'
    <2> SUFFICES ASSUME NEW d \in Calls PROVE RecomputeJustified(d)'
        BY DEF LeaderNeverRecomputesFresh
    <2> QED
        BY <1>7, StaysJustified DEF PeekFresh, Hit, Return, GoTo,
           LeaderNeverRecomputesFresh, CallsMatchFlights, MatchesFlight
<1>8. ASSUME NEW c \in Calls, WaitForFlight(c) PROVE LeaderNeverRecomputesFresh'
    <2> SUFFICES ASSUME NEW d \in Calls PROVE RecomputeJustified(d)'
        BY DEF LeaderNeverRecomputesFresh
    <2> QED
        BY <1>8, StaysJustified DEF WaitForFlight, GoTo, LeaderNeverRecomputesFresh,
           CallsMatchFlights, MatchesFlight
<1>9. ASSUME NEW c \in Calls, PeekEntry(c) PROVE LeaderNeverRecomputesFresh'
    <2> SUFFICES ASSUME NEW d \in Calls PROVE RecomputeJustified(d)'
        BY DEF LeaderNeverRecomputesFresh
    <2> QED
        BY <1>9, StaysJustified DEF PeekEntry, Hit, Return, GoTo,
           LeaderNeverRecomputesFresh, CallsMatchFlights, MatchesFlight
<1>10. ASSUME NEW c \in Calls, LookupFails(c) PROVE LeaderNeverRecomputesFresh'
    <2> SUFFICES ASSUME NEW d \in Calls PROVE RecomputeJustified(d)'
        BY DEF LeaderNeverRecomputesFresh
    <2> QED
        BY <1>10, StaysJustified DEF LookupFails, Return, LeaderNeverRecomputesFresh,
           CallsMatchFlights, MatchesFlight
<1>11. ASSUME NEW c \in Calls, WriteFails(c) PROVE LeaderNeverRecomputesFresh'
    <2> SUFFICES ASSUME NEW d \in Calls PROVE RecomputeJustified(d)'
        BY DEF LeaderNeverRecomputesFresh
    <2> QED
        BY <1>11, StaysJustified DEF WriteFails, Return, LeaderNeverRecomputesFresh,
           CallsMatchFlights, MatchesFlight
<1>12. ASSUME NEW c \in Calls, Revalidate(c) PROVE LeaderNeverRecomputesFresh'
    <2> SUFFICES ASSUME NEW d \in Calls PROVE RecomputeJustified(d)'
        BY DEF LeaderNeverRecomputesFresh
    <2> QED
        BY <1>12, StaysJustified DEF Revalidate, Return, Advance,
           LeaderNeverRecomputesFresh, CallsMatchFlights, MatchesFlight
<1>13. ASSUME NEW c \in Calls, Do(c) PROVE LeaderNeverRecomputesFresh'
    <2> SUFFICES ASSUME NEW d \in Calls PROVE RecomputeJustified(d)'
        BY DEF LeaderNeverRecomputesFresh
    <2>0. UNCHANGED <<store, key, leadNow, op>>
        BY <1>13 DEF Do
    <2>1. CASE d # c
        <3>1. stage'[d] = stage[d] /\ pc'[d] = pc[d]
            BY <1>13, <2>1 DEF Do, GoTo, Advance
        <3> QED
            BY <2>0, <3>1, StaysJustified DEF LeaderNeverRecomputesFresh
    <2>2. CASE d = c
        <3>1. pc[c] = "do" /\ stage'[c] \in {stage[c], "read clock"}
            BY <1>13 DEF Do, Advance
        <3>2. stage[c] = "none"
            BY <3>1 DEF CallsMatchFlights, MatchesFlight
        <3> QED
            BY ONLY <2>2, <3>1, <3>2 DEF RecomputeJustified
    <2> QED
        BY <2>1, <2>2
<1>14. ASSUME NEW c \in Calls, Wait(c) PROVE LeaderNeverRecomputesFresh'
    <2> SUFFICES ASSUME NEW d \in Calls PROVE RecomputeJustified(d)'
        BY DEF LeaderNeverRecomputesFresh
    <2> QED
        BY <1>14, StaysJustified DEF Wait, ReturnOutcome, Return,
           LeaderNeverRecomputesFresh, CallsMatchFlights, MatchesFlight
<1>15. ASSUME NEW c \in Calls, LeaderReadsClock(c) PROVE LeaderNeverRecomputesFresh'
    <2> SUFFICES ASSUME NEW d \in Calls PROVE RecomputeJustified(d)'
        BY DEF LeaderNeverRecomputesFresh
    <2> QED
        BY <1>15, StaysJustified DEF LeaderReadsClock, Advance, LeaderNeverRecomputesFresh,
           CallsMatchFlights, MatchesFlight
<1>16. ASSUME NEW c \in Calls, RecheckFresh(c) PROVE LeaderNeverRecomputesFresh'
    <2> SUFFICES ASSUME NEW d \in Calls PROVE RecomputeJustified(d)'
        BY DEF LeaderNeverRecomputesFresh
    <2>0. UNCHANGED <<store, key, leadNow, op, pc>>
        BY <1>16 DEF RecheckFresh, Recheck
    <2>1. CASE d # c
        <3>1. stage'[d] = stage[d]
            BY <1>16, <2>1 DEF RecheckFresh, Recheck, Finishing, Advance
        <3> QED
            BY <2>0, <3>1, StaysJustified DEF LeaderNeverRecomputesFresh
    <2>2. CASE d = c
        <3>1. stage'[c] \in {"finish", "recheck entry"}
            BY <1>16 DEF RecheckFresh, Recheck, Finishing, Advance
        <3> QED
            BY ONLY <2>2, <3>1 DEF RecomputeJustified
    <2> QED
        BY <2>1, <2>2
<1>17. ASSUME NEW c \in Calls, RecheckEntry(c) PROVE LeaderNeverRecomputesFresh'
    <2> SUFFICES ASSUME NEW d \in Calls PROVE RecomputeJustified(d)'
        BY DEF LeaderNeverRecomputesFresh
    <2>1. CASE d # c
        <3>1. UNCHANGED <<store, key, leadNow, op, pc>> /\ stage'[d] = stage[d]
            BY <1>17, <2>1 DEF RecheckEntry, Recheck, Finishing, Advance
        <3> QED
            BY <3>1, StaysJustified DEF LeaderNeverRecomputesFresh
    <2>2. CASE d = c
        <3>1. UNCHANGED <<store, key, leadNow, op>>
            BY <1>17 DEF RecheckEntry, Recheck
        <3>2. stage'[c] \in {"computing", "write"} =>
                ~(Has(key[c]) /\ IsFresh(store[key[c]], leadNow[c]))
            BY <1>17 DEF RecheckEntry, Recheck, Finishing, Advance
        <3> QED
            BY <2>2, <3>1, <3>2 DEF RecomputeJustified, Has
    <2> QED
        BY <2>1, <2>2
<1>18. ASSUME NEW c \in Calls, RefreshBegins(c) PROVE LeaderNeverRecomputesFresh'
    <2> SUFFICES ASSUME NEW d \in Calls PROVE RecomputeJustified(d)'
        BY DEF LeaderNeverRecomputesFresh
    <2> QED
        BY <1>18, StaysJustified DEF RefreshBegins, Advance, LeaderNeverRecomputesFresh,
           CallsMatchFlights, MatchesFlight
<1>19. ASSUME NEW c \in Calls, ComputeSucceeds(c) PROVE LeaderNeverRecomputesFresh'
    <2> SUFFICES ASSUME NEW d \in Calls PROVE RecomputeJustified(d)'
        BY DEF LeaderNeverRecomputesFresh
    <2> QED
        BY <1>19, StaysJustified DEF ComputeSucceeds, Advance, LeaderNeverRecomputesFresh
<1>20. ASSUME NEW c \in Calls, ComputeFails(c) PROVE LeaderNeverRecomputesFresh'
    <2> SUFFICES ASSUME NEW d \in Calls PROVE RecomputeJustified(d)'
        BY DEF LeaderNeverRecomputesFresh
    <2> QED
        BY <1>20, StaysJustified DEF ComputeFails, Finishing, Advance,
           LeaderNeverRecomputesFresh
<1>21. ASSUME NEW c \in Calls, ComputePanics(c) PROVE LeaderNeverRecomputesFresh'
    <2> SUFFICES ASSUME NEW d \in Calls PROVE RecomputeJustified(d)'
        BY DEF LeaderNeverRecomputesFresh
    <2> QED
        BY <1>21, StaysJustified DEF ComputePanics, Finishing, Advance,
           LeaderNeverRecomputesFresh
<1>22. ASSUME NEW c \in Calls, FlightWrites(c) PROVE LeaderNeverRecomputesFresh'
    <2> SUFFICES ASSUME NEW d \in Calls PROVE RecomputeJustified(d)'
        BY DEF LeaderNeverRecomputesFresh
    <2>1. CASE key[d] # key[c]
        BY <1>22, <2>1, StaysJustified DEF FlightWrites, Finishing, Advance,
           LeaderNeverRecomputesFresh
    <2>2. CASE key[d] = key[c]
        <3>1. stage[c] = "write" /\ stage' = [stage EXCEPT ![c] = "finish"]
            BY <1>22 DEF FlightWrites, Finishing, Advance
        <3>2. flights[key[c]] = c
            BY <3>1 DEF FlightMapExact, Registered
        <3>3. d # c => stage[d] \notin Registered
            BY <2>2, <3>2 DEF FlightMapExact
        <3> QED
            BY <3>1, <3>3 DEF RecomputeJustified, Registered
    <2> QED
        BY <2>1, <2>2
<1>23. ASSUME NEW c \in Calls, FlightWriteFails(c) PROVE LeaderNeverRecomputesFresh'
    <2> SUFFICES ASSUME NEW d \in Calls PROVE RecomputeJustified(d)'
        BY DEF LeaderNeverRecomputesFresh
    <2> QED
        BY <1>23, StaysJustified DEF FlightWriteFails, Finishing, Advance,
           LeaderNeverRecomputesFresh, CallsMatchFlights, MatchesFlight
<1>24. ASSUME NEW c \in Calls, FinishFlight(c) PROVE LeaderNeverRecomputesFresh'
    <2> SUFFICES ASSUME NEW d \in Calls PROVE RecomputeJustified(d)'
        BY DEF LeaderNeverRecomputesFresh
    <2> QED
        BY <1>24, StaysJustified DEF FinishFlight, Advance, LeaderNeverRecomputesFresh,
           CallsMatchFlights, MatchesFlight
<1>25. ASSUME NEW c \in Calls, ReleaseWaiters(c) PROVE LeaderNeverRecomputesFresh'
    <2> SUFFICES ASSUME NEW d \in Calls PROVE RecomputeJustified(d)'
        BY DEF LeaderNeverRecomputesFresh
    <2> QED
        BY <1>25, StaysJustified DEF ReleaseWaiters, Advance, ReturnOutcome, Return,
           LeaderNeverRecomputesFresh, CallsMatchFlights, MatchesFlight
<1>26. ASSUME Tick PROVE LeaderNeverRecomputesFresh'
    BY <1>26, StaysJustified DEF LeaderNeverRecomputesFresh, Tick
<1>27. ASSUME NEW k \in Keys, StoreDrops(k) PROVE LeaderNeverRecomputesFresh'
    BY <1>27, StaysJustified DEF LeaderNeverRecomputesFresh, StoreDrops
<1>28. CASE UNCHANGED vars
    BY <1>28, StaysJustified DEF LeaderNeverRecomputesFresh, vars
<1> QED
    BY <1>1, <1>2, <1>3, <1>4, <1>5, <1>6, <1>7,
        <1>8, <1>9, <1>10, <1>11, <1>12, <1>13, <1>14, <1>15, <1>16,
        <1>17, <1>18, <1>19, <1>20, <1>21, <1>22, <1>23, <1>24, <1>25,
        <1>26, <1>27, <1>28
    DEF Next, StartCall, CallStep, FlightStep, Quiescent

------------------------------------------------------------------------------
(* What follows for flights *)

LEMMA InvInit == Init => EngineInv
<1> SUFFICES ASSUME Init PROVE EngineInv
    OBVIOUS
<1>1. TypeOK
    BY TypeInit
<1>2. FlightMapExact
    BY DEF Init, FlightMapExact, Registered
<1>3. CallsMatchFlights
    BY DEF Init, CallsMatchFlights, MatchesFlight
<1>4. StampsCarryTheirCall
    BY DEF Init, StampsCarryTheirCall
<1>5. LeaderNeverRecomputesFresh
    BY DEF Init, LeaderNeverRecomputesFresh, RecomputeJustified
<1> QED
    BY <1>1, <1>2, <1>3, <1>4, <1>5 DEF EngineInv

LEMMA InvStep == EngineInv /\ [Next]_vars => EngineInv'
BY TypeStep, FlightMapStep, CallsMatchStep, StampsStep, DoubleCheckStep DEF EngineInv

\* The inductive invariant of the engine holds in every reachable state: the flight
\* map names exactly the flights under way and callers agree with it.
THEOREM EngineInvariant == Spec => []EngineInv
BY InvInit, InvStep, PTL DEF Spec

\* Variables keep their types (cache.go, all operations).
THEOREM TypeCorrect == Spec => []TypeOK
<1>1. EngineInv => TypeOK
    BY DEF EngineInv
<1> QED
    BY <1>1, EngineInvariant, PTL

\* Per key one leader or refresh goroutine computes and stores (cache.go:129-204).
THEOREM Coalescing == Spec => []OneComputationPerKey
<1>1. EngineInv => OneComputationPerKey
    <2> SUFFICES ASSUME EngineInv, NEW c \in Calls, NEW d \in Calls,
                        stage[c] \in {"computing", "write"},
                        stage[d] \in {"computing", "write"}, key[c] = key[d]
                 PROVE  c = d
        BY DEF OneComputationPerKey
    <2>1. stage[c] \in Registered /\ stage[d] \in Registered
        BY DEF Registered
    <2> QED
        BY <2>1 DEF EngineInv, FlightMapExact
<1> QED
    BY <1>1, EngineInvariant, PTL

\* The double check keeps a leader from computing what another flight has just
\* stored and is still fresh (cache.go:316-327).
THEOREM DoubleCheck == Spec => []LeaderNeverRecomputesFresh
<1>1. EngineInv => LeaderNeverRecomputesFresh
    BY DEF EngineInv
<1> QED
    BY <1>1, EngineInvariant, PTL

------------------------------------------------------------------------------
(* Deadlines: what a key holds is never replaced, by the work of flights, by  *)
(* something that expires earlier                                            *)

\* A step that puts nothing in the store but the value of an explicit Set, and
\* stamps nothing for a flight.
Quiet ==
    /\ clock' \in {clock, clock + 1} /\ op' = op /\ key' = key
    /\ \A k \in Keys : \/ store'[k] \in {store[k], None}
                        \/ SetByCaller(store'[k])
    /\ \A c \in Calls : stage'[c] = "write" =>
          stage[c] = "write" /\ stamped'[c] = stamped[c]

Deadline(t) == NewEntry(Old, t).freshUntil

LEMMA DeadlineType ==
    ASSUME NEW t \in Nat
    PROVE  /\ Deadline(t) \in Nat /\ Deadline(t) <= Deadline(t + 1)
           /\ \A v \in Values : NewEntry(v, t).freshUntil = Deadline(t)
BY FreshnessAssumption DEF Deadline, NewEntry, ZeroTime

LEMMA FreshUntilType ==
    ASSUME NEW e \in Entries(Values) \cup {None}, e # None
    PROVE  e.freshUntil \in Nat
BY DEF Entries

\* Every step is quiet, except that a flight stamps its value and writes it.
LEMMA StepShape ==
    ASSUME EngineInv, [Next]_vars
    PROVE  Quiet \/ \E c \in Calls : ComputeSucceeds(c) \/ FlightWrites(c)
<1> USE DEF EngineInv, TypeOK, SharedTypes, FlightTypes, Quiet, callVars, flightVars
<1>1. ASSUME NEW c \in Calls, StartLookup(c) PROVE Quiet
    BY <1>1 DEF StartLookup
<1>2. ASSUME NEW c \in Calls, StartSet(c) PROVE Quiet
    BY <1>2 DEF StartSet, CallsMatchFlights, MatchesFlight
<1>3. ASSUME NEW c \in Calls, DeleteEntry(c) PROVE Quiet
    BY <1>3 DEF DeleteEntry
<1>4. ASSUME NEW c \in Calls, ClearEntries(c) PROVE Quiet
    BY <1>4 DEF ClearEntries
<1>5. ASSUME NEW c \in Calls, RemovalFails(c) PROVE Quiet
    BY <1>5 DEF RemovalFails
<1>6. ASSUME NEW c \in Calls, SetWrites(c) PROVE Quiet
    BY <1>6 DEF SetWrites, StampsCarryTheirCall, CallTypes, SetByCaller, Values
<1>7. ASSUME NEW c \in Calls, PeekFresh(c) PROVE Quiet
    BY <1>7 DEF PeekFresh
<1>8. ASSUME NEW c \in Calls, WaitForFlight(c) PROVE Quiet
    BY <1>8 DEF WaitForFlight
<1>9. ASSUME NEW c \in Calls, PeekEntry(c) PROVE Quiet
    BY <1>9 DEF PeekEntry
<1>10. ASSUME NEW c \in Calls, LookupFails(c) PROVE Quiet
    BY <1>10 DEF LookupFails
<1>11. ASSUME NEW c \in Calls, WriteFails(c) PROVE Quiet
    BY <1>11 DEF WriteFails
<1>12. ASSUME NEW c \in Calls, Revalidate(c) PROVE Quiet
    BY <1>12 DEF Revalidate, Advance
<1>13. ASSUME NEW c \in Calls, Do(c) PROVE Quiet
    BY <1>13 DEF Do, Advance
<1>14. ASSUME NEW c \in Calls, Wait(c) PROVE Quiet
    BY <1>14 DEF Wait
<1>15. ASSUME NEW c \in Calls, LeaderReadsClock(c) PROVE Quiet
    BY <1>15 DEF LeaderReadsClock, Advance
<1>16. ASSUME NEW c \in Calls, RecheckFresh(c) PROVE Quiet
    BY <1>16 DEF RecheckFresh, Recheck, Finishing, Advance
<1>17. ASSUME NEW c \in Calls, RecheckEntry(c) PROVE Quiet
    BY <1>17 DEF RecheckEntry, Recheck, Finishing, Advance
<1>18. ASSUME NEW c \in Calls, RefreshBegins(c) PROVE Quiet
    BY <1>18 DEF RefreshBegins, Advance
<1>19. ASSUME NEW c \in Calls, ComputeFails(c) PROVE Quiet
    BY <1>19 DEF ComputeFails, Finishing, Advance
<1>20. ASSUME NEW c \in Calls, ComputePanics(c) PROVE Quiet
    BY <1>20 DEF ComputePanics, Finishing, Advance
<1>21. ASSUME NEW c \in Calls, FlightWriteFails(c) PROVE Quiet
    BY <1>21 DEF FlightWriteFails, Finishing, Advance
<1>22. ASSUME NEW c \in Calls, FinishFlight(c) PROVE Quiet
    BY <1>22 DEF FinishFlight, Advance
<1>23. ASSUME NEW c \in Calls, ReleaseWaiters(c) PROVE Quiet
    BY <1>23 DEF ReleaseWaiters, Advance
<1>24. ASSUME Tick PROVE Quiet
    BY <1>24 DEF Tick
<1>25. ASSUME NEW k \in Keys, StoreDrops(k) PROVE Quiet
    BY <1>25 DEF StoreDrops
<1>26. CASE UNCHANGED vars
    BY <1>26 DEF vars
<1> QED
    BY <1>1, <1>2, <1>3, <1>4, <1>5, <1>6, <1>7,
        <1>8, <1>9, <1>10, <1>11, <1>12, <1>13, <1>14, <1>15, <1>16, <1>17,
        <1>18, <1>19, <1>20, <1>21, <1>22, <1>23, <1>24, <1>25, <1>26
    DEF Next, StartCall, CallStep, FlightStep, Quiescent

LEMMA QuietKeepsOrder ==
    ASSUME EngineInv, DeadlinesOrdered, EngineInv', Quiet
    PROVE  DeadlinesOrdered'
<1> USE DEF EngineInv, TypeOK, SharedTypes, FlightTypes, CallTypes
<1>1. Deadline(clock) \in Nat /\ Deadline(clock') \in Nat
      /\ Deadline(clock) <= Deadline(clock')
    BY DeadlineType DEF Quiet
<1>2. \A k \in Keys : ByFlight(k)' => ByFlight(k) /\ store'[k] = store[k]
    BY DEF Quiet, ByFlight, Has, SetByCaller
<1>3. \A k \in Keys : ByFlight(k) => store[k].freshUntil \in Nat
    BY FreshUntilType DEF ByFlight, Has
<1>4. \A c \in Calls : stamped[c] # None => stamped[c].freshUntil \in Nat
    BY FreshUntilType
<1>5. \A k \in Keys : ByFlight(k)' => store'[k].freshUntil <= Deadline(clock')
    BY <1>1, <1>2, <1>3 DEF DeadlinesOrdered, Deadline
<1>6. ASSUME NEW c \in Calls, stage'[c] = "write"
      PROVE  /\ stamped'[c] # None /\ stamped'[c].freshUntil <= Deadline(clock')
             /\ ByFlight(key[c])' => store'[key[c]].freshUntil <= stamped'[c].freshUntil
    <2>1. stage[c] = "write" /\ stamped'[c] = stamped[c] /\ key' = key
        BY <1>6 DEF Quiet
    <2>2. stamped[c] # None /\ stamped[c].freshUntil <= Deadline(clock)
          /\ (ByFlight(key[c]) => store[key[c]].freshUntil <= stamped[c].freshUntil)
        BY <2>1 DEF DeadlinesOrdered, Deadline
    <2> QED
        BY <1>1, <1>2, <1>4, <2>1, <2>2
<1> QED
    BY <1>5, <1>6 DEF DeadlinesOrdered, Deadline, Quiet

LEMMA ComputeKeepsOrder ==
    ASSUME EngineInv, DeadlinesOrdered, NEW c \in Calls, ComputeSucceeds(c)
    PROVE  DeadlinesOrdered'
<1> USE DEF EngineInv, TypeOK, SharedTypes, FlightTypes, CallTypes
<1>1. /\ UNCHANGED <<clock, store, op, key>>
      /\ stamped'[c] = NewEntry(c, clock)
      /\ \A d \in Calls \ {c} : stamped'[d] = stamped[d] /\ stage'[d] = stage[d]
    BY DEF ComputeSucceeds, Advance, callVars
<1>2. c \in Values /\ NewEntry(c, clock) \in Entries(Values) /\ NewEntry(c, clock) # None
    <2>1. c \in Values /\ clock \in Nat
        BY DEF Values
    <2>2. NewEntry(c, clock) \in Entries(Values)
        BY ONLY <2>1, NewEntryType
    <2> QED
        BY ONLY <2>1, <2>2, EngineAssumption
<1>3. stamped'[c].freshUntil = Deadline(clock) /\ Deadline(clock) \in Nat
    BY <1>1, <1>2, DeadlineType
<1>4. \A k \in Keys : ByFlight(k)' = ByFlight(k)
    BY <1>1 DEF ByFlight, Has, SetByCaller
<1>5. \A k \in Keys : ByFlight(k)' => store'[k].freshUntil <= Deadline(clock)
    BY <1>1, <1>4 DEF DeadlinesOrdered, Deadline
<1>6. ASSUME NEW d \in Calls, stage'[d] = "write"
      PROVE  /\ stamped'[d] # None /\ stamped'[d].freshUntil <= Deadline(clock)
             /\ ByFlight(key[d])' => store'[key[d]].freshUntil <= stamped'[d].freshUntil
    <2>1. CASE d = c
        BY <1>1, <1>2, <1>3, <1>5, <2>1
    <2>2. CASE d # c
        BY <1>1, <1>4, <1>6, <2>2 DEF DeadlinesOrdered, Deadline
    <2> QED
        BY <2>1, <2>2
<1> QED
    BY <1>1, <1>5, <1>6 DEF DeadlinesOrdered, Deadline

\* The writer is the only flight of its key, so no other is about to write.
LEMMA WriteKeepsOrder ==
    ASSUME EngineInv, DeadlinesOrdered, NEW c \in Calls, FlightWrites(c)
    PROVE  DeadlinesOrdered'
<1> USE DEF EngineInv, TypeOK, SharedTypes, FlightTypes, CallTypes
<1>1. /\ UNCHANGED <<clock, op, key, stamped>> /\ stage[c] = "write" /\ stage'[c] = "finish"
      /\ store'[key[c]] = stamped[c]
      /\ \A k \in Keys \ {key[c]} : store'[k] = store[k]
      /\ \A d \in Calls \ {c} : stage'[d] = stage[d]
    BY DEF FlightWrites, Finishing, Advance, callVars
<1>2. stamped[c].freshUntil <= Deadline(clock)
    BY <1>1 DEF DeadlinesOrdered, Deadline
<1>3. \A k \in Keys \ {key[c]} : ByFlight(k)' = ByFlight(k)
    BY <1>1 DEF ByFlight, Has, SetByCaller
<1>4. \A k \in Keys : ByFlight(k)' => store'[k].freshUntil <= Deadline(clock)
    BY <1>1, <1>2, <1>3 DEF DeadlinesOrdered, Deadline
<1>5. ASSUME NEW d \in Calls, stage'[d] = "write"
      PROVE  /\ stamped'[d] # None /\ stamped'[d].freshUntil <= Deadline(clock)
             /\ ByFlight(key[d])' => store'[key[d]].freshUntil <= stamped'[d].freshUntil
    <2>1. d # c /\ stage[d] = "write"
        BY <1>1, <1>5
    <2>2. FlightMapExact /\ stage[c] \in Registered /\ stage[d] \in Registered
        BY <1>1, <2>1 DEF Registered
    <2>3. key[d] # key[c]
        BY ONLY <2>1, <2>2, d \in Calls DEF FlightMapExact
    <2> QED
        BY <1>1, <1>3, <2>1, <2>3 DEF DeadlinesOrdered, Deadline
<1> QED
    BY <1>1, <1>4, <1>5 DEF DeadlinesOrdered, Deadline

LEMMA OrderInit == Init => DeadlinesOrdered
<1> SUFFICES ASSUME Init PROVE DeadlinesOrdered
    OBVIOUS
<1>1. \A k \in Keys : Has(k) => store[k] = OldEntry
    BY DEF Init, Has
<1>2. Deadline(1) \in Nat /\ OldEntry.freshUntil = Deadline(1)
    BY DeadlineType DEF OldEntry, Values
<1> QED
    BY <1>1, <1>2 DEF Init, DeadlinesOrdered, ByFlight, Deadline

LEMMA OrderStep == EngineInv /\ DeadlinesOrdered /\ [Next]_vars => DeadlinesOrdered'
BY InvStep, StepShape, QuietKeepsOrder, ComputeKeepsOrder, WriteKeepsOrder

\* The second inductive invariant: deadlines are ordered along the work of flights.
THEOREM DeadlinesStayOrdered == Spec => []DeadlinesOrdered
<1>1. EngineInv /\ DeadlinesOrdered /\ [Next]_vars => DeadlinesOrdered'
    BY OrderStep
<1> QED
    BY <1>1, OrderInit, EngineInvariant, PTL DEF Spec

NoStepBack ==
    \A k \in Keys :
        /\ Has(k) /\ store'[k] # None
        /\ ~SetByCaller(store[k]) /\ ~SetByCaller(store'[k])
        => store'[k].freshUntil >= store[k].freshUntil

LEMMA NoStepBackStep == EngineInv /\ DeadlinesOrdered /\ [Next]_vars => NoStepBack
<1> SUFFICES ASSUME EngineInv, DeadlinesOrdered, [Next]_vars PROVE NoStepBack
    OBVIOUS
<1> USE DEF EngineInv, TypeOK, SharedTypes, FlightTypes, CallTypes
<1>1. \A k \in Keys : Has(k) => store[k].freshUntil \in Nat
    BY FreshUntilType DEF Has
<1>2. CASE Quiet
    BY <1>1, <1>2 DEF Quiet, NoStepBack
<1>3. ASSUME NEW c \in Calls, ComputeSucceeds(c) PROVE NoStepBack
    BY <1>1, <1>3 DEF ComputeSucceeds, NoStepBack
<1>4. ASSUME NEW c \in Calls, FlightWrites(c) PROVE NoStepBack
    <2>1. /\ stage[c] = "write" /\ store'[key[c]] = stamped[c]
          /\ \A k \in Keys \ {key[c]} : store'[k] = store[k]
        BY <1>4 DEF FlightWrites
    <2>2. /\ stamped[c].freshUntil \in Nat
          /\ ByFlight(key[c]) => store[key[c]].freshUntil <= stamped[c].freshUntil
        BY <2>1, FreshUntilType DEF DeadlinesOrdered
    <2> QED
        BY <1>1, <2>1, <2>2 DEF NoStepBack, ByFlight
<1> QED
    BY <1>2, <1>3, <1>4, StepShape

\* A flight never replaces an entry by one that expires earlier: it writes before it
\* leaves the flight map (cache.go:142-148,196,332).
THEOREM FlightsMoveForward == Spec => FreshnessNeverMovesBack
<1>1. EngineInv /\ DeadlinesOrdered /\ [Next]_vars => [NoStepBack]_vars
    BY NoStepBackStep
<1> QED
    BY <1>1, EngineInvariant, DeadlinesStayOrdered, PTL
    DEF Spec, FreshnessNeverMovesBack, NoStepBack

------------------------------------------------------------------------------
(* The refinement of SingleFlight by the cache engine                        *)

Abs(c) == <<Status(c), Attached(c), Published(c)>>

AbsKeep(c) == \A d \in Calls \ {c} : Abs(d)' = Abs(d)

LEMMA OthersAbs ==
    ASSUME NEW c \in Calls, OthersKeep(c)
    PROVE  AbsKeep(c)
BY DEF OthersKeep, AbsKeep, Abs, Status, Attached, Published

\* A step that changes neither the map nor what call c looks like is a stutter.
LEMMA FlightStutter ==
    ASSUME NEW c \in Calls, OthersKeep(c), UNCHANGED flights, Abs(c)' = Abs(c)
    PROVE  UNCHANGED Flights!vars
<1>1. \A d \in Calls : Abs(d)' = Abs(d)
    BY OthersAbs DEF AbsKeep
<1> QED
    BY <1>1 DEF Flights!vars, Abs

\* Within the registered stages nothing shows.
LEMMA RunningAbs ==
    ASSUME NEW c \in Calls, stage[c] \in Registered, stage'[c] \in Registered,
           UNCHANGED <<pc, joined>>
    PROVE  Abs(c)' = Abs(c)
BY DEF Abs, Status, Attached, Published, Registered

\* Nor does anything a caller without a flight does, short of waiting.
LEMMA CallerAbs ==
    ASSUME NEW c \in Calls, UNCHANGED <<stage, outcome>>, pc[c] # "waiting",
           pc'[c] # "waiting"
    PROVE  Abs(c)' = Abs(c)
BY DEF Abs, Status, Attached, Published

LEMMA OpenRefines ==
    ASSUME NEW c \in Calls, key[c] \in Keys, OthersKeep(c),
           flights[key[c]] = None, flights' = [flights EXCEPT ![key[c]] = c],
           stage[c] = "none", stage'[c] \in Registered,
           pc[c] # "waiting", pc'[c] # "waiting"
    PROVE  Flights!Open(c, key[c])
<1>1. Status(c) = "idle" /\ Status(c)' = "running"
    BY DEF Status, Registered
<1>2. Attached(c) = None /\ Attached(c)' = None /\ Published(c) = None /\ Published(c)' = None
    BY DEF Attached, Published, Registered
<1>3. \A d \in Calls \ {c} : Status(d)' = Status(d) /\ Attached(d)' = Attached(d)
                             /\ Published(d)' = Published(d)
    BY OthersAbs DEF AbsKeep, Abs
<1> QED
    BY <1>1, <1>2, <1>3 DEF Flights!Open

LEMMA JoinRefines ==
    ASSUME NEW c \in Calls, key[c] \in Keys, OthersKeep(c),
           flights[key[c]] # None, UNCHANGED <<flights, stage, outcome>>,
           stage[c] = "none", pc[c] # "waiting", pc'[c] = "waiting",
           joined'[c] = flights[key[c]]
    PROVE  Flights!Join(c, key[c])
<1>1. Status(c) = "idle" /\ Attached(c) = None /\ Attached(c)' = flights[key[c]]
    BY DEF Status, Attached
<1>2. Status(c)' = Status(c) /\ Published(c)' = Published(c)
    BY DEF Status, Published
<1>3. \A d \in Calls \ {c} : Status(d)' = Status(d) /\ Attached(d)' = Attached(d)
                             /\ Published(d)' = Published(d)
    BY OthersAbs DEF AbsKeep, Abs
<1> QED
    BY <1>1, <1>2, <1>3 DEF Flights!Join

LEMMA FlightsStep ==
    ASSUME TypeOK, FlightMapExact, CallsMatchFlights, [Next]_vars
    PROVE  [Flights!Next]_(Flights!vars)
<1> USE DEF TypeOK, SharedTypes, CallTypes, FlightTypes, callVars, flightVars
<1>1. ASSUME NEW c \in Calls, StartLookup(c) PROVE [Flights!Next]_(Flights!vars)
    <2>1. OthersKeep(c) /\ UNCHANGED <<flights, stage, outcome>>
        BY <1>1 DEF StartLookup, GoTo, OthersKeep
    <2>2. pc[c] # "waiting" /\ pc'[c] # "waiting"
        BY <1>1 DEF StartLookup, GoTo
    <2> QED
        BY <2>1, <2>2, CallerAbs, FlightStutter
<1>2. ASSUME NEW c \in Calls, StartSet(c) PROVE [Flights!Next]_(Flights!vars)
    <2>1. OthersKeep(c) /\ UNCHANGED <<flights, stage, outcome>>
        BY <1>2 DEF StartSet, GoTo, OthersKeep
    <2>2. pc[c] # "waiting" /\ pc'[c] # "waiting"
        BY <1>2 DEF StartSet, GoTo
    <2> QED
        BY <2>1, <2>2, CallerAbs, FlightStutter
<1>3. ASSUME NEW c \in Calls, DeleteEntry(c) PROVE [Flights!Next]_(Flights!vars)
    <2>1. OthersKeep(c) /\ UNCHANGED <<flights, stage, outcome>>
        BY <1>3 DEF DeleteEntry, Return, OthersKeep
    <2>2. pc[c] # "waiting" /\ pc'[c] # "waiting"
        BY <1>3 DEF DeleteEntry, Return
    <2> QED
        BY <2>1, <2>2, CallerAbs, FlightStutter
<1>4. ASSUME NEW c \in Calls, ClearEntries(c) PROVE [Flights!Next]_(Flights!vars)
    <2>1. OthersKeep(c) /\ UNCHANGED <<flights, stage, outcome>>
        BY <1>4 DEF ClearEntries, Return, OthersKeep
    <2>2. pc[c] # "waiting" /\ pc'[c] # "waiting"
        BY <1>4 DEF ClearEntries, Return
    <2> QED
        BY <2>1, <2>2, CallerAbs, FlightStutter
<1>5. ASSUME NEW c \in Calls, RemovalFails(c) PROVE [Flights!Next]_(Flights!vars)
    <2>1. OthersKeep(c) /\ UNCHANGED <<flights, stage, outcome>>
        BY <1>5 DEF RemovalFails, Return, OthersKeep
    <2>2. pc[c] # "waiting" /\ pc'[c] # "waiting"
        BY <1>5 DEF RemovalFails, Return
    <2> QED
        BY <2>1, <2>2, CallerAbs, FlightStutter
<1>6. ASSUME NEW c \in Calls, SetWrites(c) PROVE [Flights!Next]_(Flights!vars)
    <2>1. OthersKeep(c) /\ UNCHANGED <<flights, stage, outcome>>
        BY <1>6 DEF SetWrites, Return, OthersKeep
    <2>2. pc[c] # "waiting" /\ pc'[c] # "waiting"
        BY <1>6 DEF SetWrites, Return
    <2> QED
        BY <2>1, <2>2, CallerAbs, FlightStutter
<1>7. ASSUME NEW c \in Calls, PeekFresh(c) PROVE [Flights!Next]_(Flights!vars)
    <2>1. OthersKeep(c) /\ UNCHANGED <<flights, stage, outcome>>
        BY <1>7 DEF PeekFresh, Hit, Return, GoTo, OthersKeep
    <2>2. pc[c] # "waiting" /\ pc'[c] # "waiting"
        BY <1>7 DEF PeekFresh, Hit, Return, GoTo
    <2> QED
        BY <2>1, <2>2, CallerAbs, FlightStutter
<1>8. ASSUME NEW c \in Calls, WaitForFlight(c) PROVE [Flights!Next]_(Flights!vars)
    <2>4. OthersKeep(c) /\ UNCHANGED <<flights, stage, outcome>>
        BY <1>8 DEF WaitForFlight, GoTo, OthersKeep
    <2>5. pc[c] = "wait for flight"
        BY <1>8 DEF WaitForFlight
    <2>1. /\ OthersKeep(c) /\ stage[c] = "none" /\ pc[c] # "waiting"
          /\ UNCHANGED <<flights, stage, outcome>>
        BY <2>4, <2>5 DEF CallsMatchFlights, MatchesFlight
    <2>2. CASE flights[key[c]] = None
        <3>1. pc'[c] # "waiting"
            BY <1>8, <2>2 DEF WaitForFlight, GoTo
        <3> QED
            BY <2>1, <3>1, CallerAbs, FlightStutter
    <2>3. CASE flights[key[c]] # None
        <3>1. pc'[c] = "waiting" /\ joined'[c] = flights[key[c]]
            BY <1>8, <2>3 DEF WaitForFlight, GoTo
        <3> QED
            BY <2>1, <2>3, <3>1, JoinRefines DEF Flights!Next
    <2> QED
        BY <2>2, <2>3
<1>9. ASSUME NEW c \in Calls, PeekEntry(c) PROVE [Flights!Next]_(Flights!vars)
    <2>1. OthersKeep(c) /\ UNCHANGED <<flights, stage, outcome>>
        BY <1>9 DEF PeekEntry, Hit, Return, GoTo, OthersKeep
    <2>2. pc[c] # "waiting" /\ pc'[c] # "waiting"
        BY <1>9 DEF PeekEntry, Hit, Return, GoTo
    <2> QED
        BY <2>1, <2>2, CallerAbs, FlightStutter
<1>10. ASSUME NEW c \in Calls, LookupFails(c) PROVE [Flights!Next]_(Flights!vars)
    <2>1. OthersKeep(c) /\ UNCHANGED <<flights, stage, outcome>>
        BY <1>10 DEF LookupFails, Return, OthersKeep
    <2>2. pc[c] # "waiting" /\ pc'[c] # "waiting"
        BY <1>10 DEF LookupFails, Return
    <2> QED
        BY <2>1, <2>2, CallerAbs, FlightStutter
<1>11. ASSUME NEW c \in Calls, WriteFails(c) PROVE [Flights!Next]_(Flights!vars)
    <2>1. OthersKeep(c) /\ UNCHANGED <<flights, stage, outcome>>
        BY <1>11 DEF WriteFails, Return, OthersKeep
    <2>2. pc[c] # "waiting" /\ pc'[c] # "waiting"
        BY <1>11 DEF WriteFails, Return
    <2> QED
        BY <2>1, <2>2, CallerAbs, FlightStutter
<1>12. ASSUME NEW c \in Calls, Revalidate(c) PROVE [Flights!Next]_(Flights!vars)
    <2>4. OthersKeep(c) /\ pc'[c] # "waiting"
        BY <1>12 DEF Revalidate, Return, Advance, OthersKeep
    <2>5. pc[c] = "revalidate"
        BY <1>12 DEF Revalidate
    <2>1. OthersKeep(c) /\ stage[c] = "none" /\ pc[c] # "waiting" /\ pc'[c] # "waiting"
        BY <2>4, <2>5 DEF CallsMatchFlights, MatchesFlight
    <2>2. CASE flights[key[c]] = None
        <3>1. flights' = [flights EXCEPT ![key[c]] = c] /\ stage'[c] \in Registered
            BY <1>12, <2>2 DEF Revalidate, Advance, Registered
        <3> QED
            BY <2>1, <2>2, <3>1, OpenRefines DEF Flights!Next
    <2>3. CASE flights[key[c]] # None
        <3>1. UNCHANGED <<flights, stage, outcome>>
            BY <1>12, <2>3 DEF Revalidate
        <3> QED
            BY <2>1, <3>1, CallerAbs, FlightStutter
    <2> QED
        BY <2>2, <2>3
<1>13. ASSUME NEW c \in Calls, Do(c) PROVE [Flights!Next]_(Flights!vars)
    <2>4. OthersKeep(c)
        BY <1>13 DEF Do, GoTo, Advance, OthersKeep
    <2>5. pc[c] = "do"
        BY <1>13 DEF Do
    <2>1. OthersKeep(c) /\ stage[c] = "none" /\ pc[c] # "waiting"
        BY <2>4, <2>5 DEF CallsMatchFlights, MatchesFlight
    <2>2. CASE flights[key[c]] = None
        <3>1. /\ flights' = [flights EXCEPT ![key[c]] = c] /\ stage'[c] \in Registered
              /\ pc'[c] # "waiting"
            BY <1>13, <2>2 DEF Do, GoTo, Advance, Registered
        <3> QED
            BY <2>1, <2>2, <3>1, OpenRefines DEF Flights!Next
    <2>3. CASE flights[key[c]] # None
        <3>1. /\ UNCHANGED <<flights, stage, outcome>>
              /\ pc'[c] = "waiting" /\ joined'[c] = flights[key[c]]
            BY <1>13, <2>3 DEF Do, GoTo
        <3> QED
            BY <2>1, <2>3, <3>1, JoinRefines DEF Flights!Next
    <2> QED
        BY <2>2, <2>3
<1>14. ASSUME NEW c \in Calls, Wait(c) PROVE [Flights!Next]_(Flights!vars)
    <2>1. /\ OthersKeep(c) /\ pc[c] = "waiting" /\ pc'[c] # "waiting"
          /\ UNCHANGED <<flights, stage, outcome>>
        BY <1>14 DEF Wait, ReturnOutcome, Return, OthersKeep
    <2>2. joined[c] \in Calls /\ stage[joined[c]] = "landed"
        BY <1>14 DEF Wait, CallsMatchFlights, MatchesFlight
    <2>3. /\ Attached(c) = joined[c] /\ Attached(c)' = None
          /\ Status(joined[c]) = "landed"
          /\ Status(c)' = Status(c) /\ Published(c)' = Published(c)
        BY <2>1, <2>2 DEF Attached, Status, Published, Registered
    <2>4. \A d \in Calls \ {c} : Status(d)' = Status(d) /\ Attached(d)' = Attached(d)
                                 /\ Published(d)' = Published(d)
        BY <2>1, OthersAbs DEF AbsKeep, Abs
    <2>5. None \notin Calls
        BY EngineAssumption DEF Values
    <2>6. Flights!Leave(c)
        BY <2>1, <2>2, <2>3, <2>4, <2>5 DEF Flights!Leave
    <2> QED
        BY <2>6 DEF Flights!Next
<1>15. ASSUME NEW c \in Calls, LeaderReadsClock(c) PROVE [Flights!Next]_(Flights!vars)
    <2>1. OthersKeep(c) /\ UNCHANGED <<flights, pc, joined>>
        BY <1>15 DEF LeaderReadsClock, Advance, OthersKeep
    <2>2. stage[c] \in Registered /\ stage'[c] \in Registered
        BY <1>15 DEF LeaderReadsClock, Advance, Registered
    <2> QED
        BY <2>1, <2>2, RunningAbs, FlightStutter
<1>16. ASSUME NEW c \in Calls, RecheckFresh(c) PROVE [Flights!Next]_(Flights!vars)
    <2>1. OthersKeep(c) /\ UNCHANGED <<flights, pc, joined>>
        BY <1>16 DEF RecheckFresh, Recheck, Finishing, Advance, OthersKeep
    <2>2. stage[c] \in Registered /\ stage'[c] \in Registered
        BY <1>16 DEF RecheckFresh, Recheck, Finishing, Advance, Registered
    <2> QED
        BY <2>1, <2>2, RunningAbs, FlightStutter
<1>17. ASSUME NEW c \in Calls, RecheckEntry(c) PROVE [Flights!Next]_(Flights!vars)
    <2>1. OthersKeep(c) /\ UNCHANGED <<flights, pc, joined>>
        BY <1>17 DEF RecheckEntry, Recheck, Finishing, Advance, OthersKeep
    <2>2. stage[c] \in Registered /\ stage'[c] \in Registered
        BY <1>17 DEF RecheckEntry, Recheck, Finishing, Advance, Registered
    <2> QED
        BY <2>1, <2>2, RunningAbs, FlightStutter
<1>18. ASSUME NEW c \in Calls, RefreshBegins(c) PROVE [Flights!Next]_(Flights!vars)
    <2>1. OthersKeep(c) /\ UNCHANGED <<flights, pc, joined>>
        BY <1>18 DEF RefreshBegins, Advance, OthersKeep
    <2>2. stage[c] \in Registered /\ stage'[c] \in Registered
        BY <1>18 DEF RefreshBegins, Advance, Registered
    <2> QED
        BY <2>1, <2>2, RunningAbs, FlightStutter
<1>19. ASSUME NEW c \in Calls, ComputeSucceeds(c) PROVE [Flights!Next]_(Flights!vars)
    <2>1. OthersKeep(c) /\ UNCHANGED <<flights, pc, joined>>
        BY <1>19 DEF ComputeSucceeds, Advance, OthersKeep
    <2>2. stage[c] \in Registered /\ stage'[c] \in Registered
        BY <1>19 DEF ComputeSucceeds, Advance, Registered
    <2> QED
        BY <2>1, <2>2, RunningAbs, FlightStutter
<1>20. ASSUME NEW c \in Calls, ComputeFails(c) PROVE [Flights!Next]_(Flights!vars)
    <2>1. OthersKeep(c) /\ UNCHANGED <<flights, pc, joined>>
        BY <1>20 DEF ComputeFails, Finishing, Advance, OthersKeep
    <2>2. stage[c] \in Registered /\ stage'[c] \in Registered
        BY <1>20 DEF ComputeFails, Finishing, Advance, Registered
    <2> QED
        BY <2>1, <2>2, RunningAbs, FlightStutter
<1>21. ASSUME NEW c \in Calls, ComputePanics(c) PROVE [Flights!Next]_(Flights!vars)
    <2>1. OthersKeep(c) /\ UNCHANGED <<flights, pc, joined>>
        BY <1>21 DEF ComputePanics, Finishing, Advance, OthersKeep
    <2>2. stage[c] \in Registered /\ stage'[c] \in Registered
        BY <1>21 DEF ComputePanics, Finishing, Advance, Registered
    <2> QED
        BY <2>1, <2>2, RunningAbs, FlightStutter
<1>22. ASSUME NEW c \in Calls, FlightWrites(c) PROVE [Flights!Next]_(Flights!vars)
    <2>1. OthersKeep(c) /\ UNCHANGED <<flights, pc, joined>>
        BY <1>22 DEF FlightWrites, Finishing, Advance, OthersKeep
    <2>2. stage[c] \in Registered /\ stage'[c] \in Registered
        BY <1>22 DEF FlightWrites, Finishing, Advance, Registered
    <2> QED
        BY <2>1, <2>2, RunningAbs, FlightStutter
<1>23. ASSUME NEW c \in Calls, FlightWriteFails(c) PROVE [Flights!Next]_(Flights!vars)
    <2>1. OthersKeep(c) /\ UNCHANGED <<flights, pc, joined>>
        BY <1>23 DEF FlightWriteFails, Finishing, Advance, OthersKeep
    <2>2. stage[c] \in Registered /\ stage'[c] \in Registered
        BY <1>23 DEF FlightWriteFails, Finishing, Advance, Registered
    <2> QED
        BY <2>1, <2>2, RunningAbs, FlightStutter
<1>24. ASSUME NEW c \in Calls, FinishFlight(c) PROVE [Flights!Next]_(Flights!vars)
    <2>1. /\ OthersKeep(c) /\ stage[c] = "finish" /\ stage'[c] = "done"
          /\ UNCHANGED <<pc, joined, outcome>>
        BY <1>24 DEF FinishFlight, Advance, OthersKeep
    <2>2. flights[key[c]] = c /\ flights' = [flights EXCEPT ![key[c]] = None]
        BY <1>24, <2>1 DEF FinishFlight, FlightMapExact, Registered
    <2>3. outcome[c] \in Results
        BY <2>1 DEF CallsMatchFlights, MatchesFlight
    <2>4. /\ Status(c) = "running" /\ Status(c)' = "closed"
          /\ Published(c)' = outcome[c] /\ Attached(c)' = Attached(c)
        BY <2>1 DEF Status, Published, Attached, Registered
    <2>5. \A d \in Calls \ {c} : Status(d)' = Status(d) /\ Attached(d)' = Attached(d)
                                 /\ Published(d)' = Published(d)
        BY <2>1, OthersAbs DEF AbsKeep, Abs
    <2>6. Flights!Close(c, key[c])
        BY <2>1, <2>2, <2>3, <2>4, <2>5 DEF Flights!Close
    <2> QED
        BY <2>6 DEF Flights!Next
<1>25. ASSUME NEW c \in Calls, ReleaseWaiters(c) PROVE [Flights!Next]_(Flights!vars)
    <2>1. /\ OthersKeep(c) /\ stage[c] = "done" /\ stage'[c] = "landed"
          /\ UNCHANGED <<flights, joined, outcome>>
        BY <1>25 DEF ReleaseWaiters, Advance, ReturnOutcome, Return, OthersKeep
    <2>2. pc[c] # "waiting" /\ pc'[c] # "waiting"
        BY <1>25, <2>1 DEF ReleaseWaiters, ReturnOutcome, Return, CallsMatchFlights,
           MatchesFlight
    <2>3. /\ Status(c) = "closed" /\ Status(c)' = "landed"
          /\ Published(c)' = Published(c) /\ Attached(c)' = Attached(c)
        BY <2>1, <2>2 DEF Status, Published, Attached, Registered
    <2>4. \A d \in Calls \ {c} : Status(d)' = Status(d) /\ Attached(d)' = Attached(d)
                                 /\ Published(d)' = Published(d)
        BY <2>1, OthersAbs DEF AbsKeep, Abs
    <2>5. Flights!Land(c)
        BY <2>1, <2>3, <2>4 DEF Flights!Land
    <2> QED
        BY <2>5 DEF Flights!Next
<1>26. ASSUME Tick PROVE [Flights!Next]_(Flights!vars)
    BY <1>26 DEF Flights!vars, Status, Attached, Published, Tick
<1>27. ASSUME NEW k \in Keys, StoreDrops(k) PROVE [Flights!Next]_(Flights!vars)
    BY <1>27 DEF Flights!vars, Status, Attached, Published, StoreDrops
<1>28. CASE UNCHANGED vars
    BY <1>28 DEF Flights!vars, Status, Attached, Published, vars
<1> QED
    BY <1>1, <1>2, <1>3, <1>4, <1>5, <1>6, <1>7,
        <1>8, <1>9, <1>10, <1>11, <1>12, <1>13, <1>14, <1>15, <1>16,
        <1>17, <1>18, <1>19, <1>20, <1>21, <1>22, <1>23, <1>24, <1>25,
        <1>26, <1>27, <1>28
    DEF Next, StartCall, CallStep, FlightStep, Quiescent

\* The engine implements SingleFlight, for any calls, keys and options.
THEOREM RefinesSingleFlight == Spec => ImplementsSingleFlight
<1>1. Init => Flights!Init
    BY DEF Init, Flights!Init, Status, Attached, Published
<1>2. EngineInv /\ [Next]_vars => [Flights!Next]_(Flights!vars)
    BY FlightsStep DEF EngineInv
<1> QED
    BY <1>1, <1>2, EngineInvariant, PTL DEF Spec, Flights!Spec, ImplementsSingleFlight

------------------------------------------------------------------------------
(* Where answers come from: the invariant *)

\* What a call has at each place of its run: which operations come there, when
\* an entry is in hand, the flight's clock reading, its stamp and its outcome.
Orderly(c) ==
    /\ pc[c] \in {"peek fresh", "peek entry"} => op[c] \in {"Get", "GetOrCompute"}
    /\ \/ pc[c] \in {"wait for flight", "revalidate", "do", "waiting", "leading"}
       \/ stage[c] # "none"
       => op[c] = "GetOrCompute"
    /\ pc[c] \in {"new", "peek fresh", "wait for flight", "peek entry", "write"} =>
          entry[c] = None
    /\ pc[c] = "revalidate" => IsStale(entry[c], now[c])
    /\ stage[c] \in {"none", "spawned", "read clock"} => leadNow[c] = 0
    /\ stage[c] \in {"recheck fresh", "recheck entry"} => leadNow[c] # 0
    /\ pc[c] = "write" \/ stage[c] = "write" => stamped[c] # None
    /\ stamped[c] # None =>
          \/ stage[c] \in {"write", "finish", "done", "landed"}
          \/ op[c] = "Set" /\ pc[c] \in {"write", "returned"}
    /\ outcome[c] # None => stage[c] \in {"finish", "done", "landed"}

\* The value v was there from the start, or stamped by a call with the key k.
Known(k, v) == v # Old => key[v] = k /\ stamped[v] # None

\* e is the entry built for its value, and that value belongs under k.
KnownEntry(k, e) == e = EntryOf(e.value) /\ Known(k, e.value)

StoreKnown == \A k \in Keys : Has(k) => KnownEntry(k, store[k])

EntriesKnown == \A c \in Calls : entry[c] # None => KnownEntry(key[c], entry[c])

\* A flight that comes to a value other than its own found it on its double
\* check: under its key, and fresh by its second clock reading.
OutcomeKnown(f) ==
    \A v \in Values \ {f} :
        outcome[f] # None /\ outcome[f].value = v =>
            FreshToLeader(f, EntryOf(v)) /\ Known(key[f], v)

\* The answer v of c is justified, belongs to c's key, and was stamped unless it
\* came straight from a flight whose write failed.
Sourced(c, v) ==
    /\ Justified(c, v)
    /\ v # Old => key[v] = key[c]
    /\ v # Old /\ stamped[v] = None =>
          op[c] = "GetOrCompute" /\ v \in {c, joined[c]}

AnswerSourced(c) ==
    \A v \in Values :
        pc[c] = "returned" /\ result[c].err = "nil" /\ result[c].value = v =>
            Sourced(c, v)

AnswersInv ==
    /\ \A c \in Calls : Orderly(c)
    /\ StoreKnown
    /\ EntriesKnown
    /\ \A f \in Calls : OutcomeKnown(f)
    /\ \A c \in Calls : AnswerSourced(c)
    /\ \A c \in Calls : pc[c] = "returned" => result[c] \in Results
    /\ KeepStaleHidesErrors

------------------------------------------------------------------------------
(* What the helpers do to the call they are used by, and to the others *)

Returns(c) ==
    /\ pc'[c] = "returned"
    /\ \A d \in Calls \ {c} : pc'[d] = pc[d] /\ result'[d] = result[d]

EventsGrow == \A d \in Calls : events[d] \subseteq events'[d]

\* The call answers with an entry of the store that is fresh to it.
HitsStore(c) ==
    /\ Has(key[c]) /\ IsFresh(store[key[c]], now[c])
    /\ result'[c] = [value |-> store[key[c]].value, err |-> "nil"]

LEMMA ReturnEffect ==
    ASSUME CallTypes, NEW c \in Calls, NEW v, NEW err, Return(c, v, err)
    PROVE  Returns(c) /\ result'[c] = [value |-> v, err |-> err]
BY DEF CallTypes, Return, Returns

LEMMA EmitEffect ==
    ASSUME SharedTypes, NEW c \in Calls, NEW kinds, Emit(c, kinds)
    PROVE  EventsGrow /\ kinds \subseteq events'[c]
BY DEF SharedTypes, Emit, EventsGrow

LEMMA HitEffect ==
    ASSUME SharedTypes, CallTypes, NEW c \in Calls, NEW v, Hit(c, v)
    PROVE  Returns(c) /\ EventsGrow /\ result'[c] = [value |-> v, err |-> "nil"]
BY ReturnEffect, EmitEffect DEF Hit

LEMMA OutcomeEffect ==
    ASSUME SharedTypes, CallTypes, NEW c \in Calls, NEW o, ReturnOutcome(c, o)
    PROVE  Returns(c) /\ EventsGrow
<1>1. CASE FallsBack(c, o)
    BY <1>1, ReturnEffect, EmitEffect DEF ReturnOutcome
<1>2. CASE ~FallsBack(c, o)
    BY <1>2, ReturnEffect DEF ReturnOutcome, EventsGrow
<1> QED
    BY <1>1, <1>2

LEMMA StampIsEntry ==
    ASSUME SharedTypes, NEW c \in Calls
    PROVE  NewEntry(c, clock) # None
<1>1. c \in Values /\ clock \in Nat
    BY DEF SharedTypes, Values
<1>2. NewEntry(c, clock) \in Entries(Values)
    BY ONLY <1>1, NewEntryType
<1> QED
    BY ONLY <1>2, EngineAssumption

\* The entry read: served fresh, missed by Get, or taken along by GetOrCompute.
LEMMA PeekKeeps ==
    ASSUME SharedTypes, CallTypes, NEW c \in Calls, PeekEntry(c)
    PROVE  pc[c] = "peek entry" /\ \A d \in Calls \ {c} : pc'[d] = pc[d]
<1>1. pc[c] = "peek entry" /\ \E to \in CallPCs : pc' = [pc EXCEPT ![c] = to]
    BY DEF PeekEntry, Hit, Return, GoTo, CallPCs
<1> QED
    BY <1>1 DEF CallTypes

LEMMA PeekEffect ==
    ASSUME SharedTypes, CallTypes, NEW c \in Calls, PeekEntry(c)
    PROVE  /\ pc[c] = "peek entry" /\ EventsGrow
           /\ UNCHANGED <<clock, store, flights, op, key, now, joined, flightVars>>
           /\ \A d \in Calls \ {c} : UNCHANGED <<pc[d], entry[d], result[d]>>
           /\ \/ /\ Returns(c) /\ entry' = entry
                 /\ \/ HitsStore(c)
                    \/ result'[c] = [value |-> None, err |-> "nil"]
              \/ /\ op[c] = "GetOrCompute" /\ entry'[c] = store[key[c]]
                 /\ \/ pc'[c] = "revalidate" /\ IsStale(entry'[c], now[c])
                    \/ pc'[c] = "do"
<1> DEFINE e == store[key[c]]
<1>0. /\ pc[c] = "peek entry"
      /\ UNCHANGED <<clock, store, flights, op, key, now, joined, flightVars>>
    BY DEF PeekEntry
<1>1. CASE Has(key[c]) /\ IsFresh(e, now[c]) /\ Hit(c, e.value) /\ UNCHANGED entry
    BY <1>0, <1>1, HitEffect DEF Returns, HitsStore
<1>2. CASE Return(c, None, "nil") /\ UNCHANGED <<entry, events>>
    <2>1. Returns(c) /\ result'[c] = [value |-> None, err |-> "nil"]
        BY ONLY <1>2, CallTypes, c \in Calls, ReturnEffect
    <2>2. EventsGrow
        BY ONLY <1>2 DEF EventsGrow
    <2>3. \A d \in Calls \ {c} : UNCHANGED <<pc[d], entry[d], result[d]>>
        BY ONLY <1>2, <2>1 DEF Returns
    <2> QED
        BY <1>0, <1>2, <2>1, <2>2, <2>3
<1>3. CASE /\ IsStale(e, now[c]) /\ op[c] = "GetOrCompute"
           /\ entry' = [entry EXCEPT ![c] = e] /\ GoTo(c, "revalidate")
           /\ Emit(c, {"stale hit"}) /\ UNCHANGED result
    BY <1>0, <1>3, EmitEffect DEF CallTypes, GoTo
<1>4. CASE /\ op[c] = "GetOrCompute"
           /\ entry' = [entry EXCEPT ![c] = e] /\ GoTo(c, "do")
           /\ Emit(c, {"miss"}) /\ UNCHANGED result
    BY <1>0, <1>4, EmitEffect DEF CallTypes, GoTo
<1> QED
    BY <1>0, <1>1, <1>2, <1>3, <1>4 DEF PeekEntry

------------------------------------------------------------------------------
(* What never changes once it is set *)

\* A call's operation and key, and once there: its stamp, its clock readings, its
\* events; after it returned, also what it found, joined and answered.
Steady ==
    /\ op' = op /\ key' = key
    /\ \A c \in Calls :
          /\ stamped[c] # None => stamped'[c] = stamped[c]
          /\ leadNow[c] # 0 => leadNow'[c] = leadNow[c]
          /\ events[c] \subseteq events'[c]
          /\ pc[c] # "new" => now'[c] = now[c]
          /\ pc[c] = "returned" =>
                /\ pc'[c] = "returned"
                /\ UNCHANGED <<entry[c], joined[c], result[c]>>

LEMMA ReturningIsSteady ==
    ASSUME NEW c \in Calls, pc[c] # "returned", Returns(c), EventsGrow,
           UNCHANGED <<op, key, now, entry, joined, leadNow, stamped>>
    PROVE  Steady
BY DEF Returns, EventsGrow, Steady

LEMMA SteadyStep ==
    ASSUME EngineInv, \A c \in Calls : Orderly(c), [Next]_vars
    PROVE  Steady
<1> USE DEF EngineInv, TypeOK, CallTypes, FlightTypes, SharedTypes, callVars,
            flightVars
<1> USE DEF Steady, Orderly, CallsMatchFlights, MatchesFlight
<1>1. ASSUME NEW c \in Calls, StartLookup(c) PROVE Steady
    BY <1>1 DEF StartLookup, GoTo
<1>2. ASSUME NEW c \in Calls, StartSet(c) PROVE Steady
    BY <1>2 DEF StartSet, GoTo
<1>3. ASSUME NEW c \in Calls, DeleteEntry(c) PROVE Steady
    <2>1. /\ pc[c] # "returned" /\ Returns(c) /\ EventsGrow
          /\ UNCHANGED <<op, key, now, entry, joined, leadNow, stamped>>
        BY ONLY <1>3, SharedTypes, CallTypes, c \in Calls, ReturnEffect, EmitEffect
        DEF DeleteEntry, flightVars
    <2> QED
        BY ONLY <2>1, c \in Calls, ReturningIsSteady
<1>4. ASSUME NEW c \in Calls, ClearEntries(c) PROVE Steady
    BY <1>4 DEF ClearEntries, Return
<1>5. ASSUME NEW c \in Calls, RemovalFails(c) PROVE Steady
    BY <1>5 DEF RemovalFails, Return
<1>6. ASSUME NEW c \in Calls, SetWrites(c) PROVE Steady
    BY <1>6 DEF SetWrites, Return, Emit
<1>7. ASSUME NEW c \in Calls, PeekFresh(c) PROVE Steady
    <2>1. /\ pc[c] = "peek fresh"
          /\ UNCHANGED <<op, key, now, entry, joined, leadNow, stamped>>
        BY ONLY <1>7 DEF PeekFresh, flightVars
    <2>2. CASE Hit(c, store[key[c]].value)
        <3>1. Returns(c) /\ EventsGrow
            BY ONLY <2>2, SharedTypes, CallTypes, c \in Calls, HitEffect
        <3> QED
            BY ONLY <2>1, <3>1, c \in Calls, ReturningIsSteady
    <2>3. CASE ~Hit(c, store[key[c]].value)
        <3>1. UNCHANGED <<result, events>>
              /\ \A b \in Calls : pc[b] = "returned" => pc'[b] = "returned"
            BY ONLY <1>7, <2>1, <2>3, CallTypes DEF PeekFresh, GoTo, CallTypes
        <3> QED
            BY ONLY <2>1, <3>1 DEF Steady
    <2> QED
        BY <2>2, <2>3
<1>8. ASSUME NEW c \in Calls, WaitForFlight(c) PROVE Steady
    BY <1>8 DEF WaitForFlight, GoTo
<1>9. ASSUME NEW c \in Calls, PeekEntry(c) PROVE Steady
    BY <1>9, PeekEffect DEF EventsGrow
<1>10. ASSUME NEW c \in Calls, LookupFails(c) PROVE Steady
    BY <1>10 DEF LookupFails, Return
<1>11. ASSUME NEW c \in Calls, WriteFails(c) PROVE Steady
    BY <1>11 DEF WriteFails, Return
<1>12. ASSUME NEW c \in Calls, Revalidate(c) PROVE Steady
    BY <1>12 DEF Revalidate, Return, Advance
<1>13. ASSUME NEW c \in Calls, Do(c) PROVE Steady
    <2>1. /\ pc[c] = "do" /\ joined'[c] \in {joined[c], flights[key[c]]}
          /\ \A b \in Calls \ {c} : UNCHANGED <<pc[b], joined[b]>>
          /\ UNCHANGED <<op, key, now, entry, result, leadNow, stamped, events>>
        BY ONLY <1>13, CallTypes, c \in Calls DEF Do, GoTo, CallTypes
    <2> QED
        BY ONLY <2>1 DEF Steady
<1>14. ASSUME NEW c \in Calls, Wait(c) PROVE Steady
    <2>1. /\ pc[c] # "returned" /\ Returns(c) /\ EventsGrow
          /\ UNCHANGED <<op, key, now, entry, joined, leadNow, stamped>>
        BY ONLY <1>14, SharedTypes, CallTypes, c \in Calls, OutcomeEffect
        DEF Wait, flightVars
    <2> QED
        BY ONLY <2>1, c \in Calls, ReturningIsSteady
<1>15. ASSUME NEW c \in Calls, LeaderReadsClock(c) PROVE Steady
    BY <1>15 DEF LeaderReadsClock, Advance
<1>16. ASSUME NEW c \in Calls, RecheckFresh(c) PROVE Steady
    BY <1>16 DEF RecheckFresh, Recheck, Finishing, Advance
<1>17. ASSUME NEW c \in Calls, RecheckEntry(c) PROVE Steady
    BY <1>17 DEF RecheckEntry, Recheck, Finishing, Advance
<1>18. ASSUME NEW c \in Calls, RefreshBegins(c) PROVE Steady
    BY <1>18 DEF RefreshBegins, Advance, Emit
<1>19. ASSUME NEW c \in Calls, ComputeSucceeds(c) PROVE Steady
    BY <1>19 DEF ComputeSucceeds, Advance
<1>20. ASSUME NEW c \in Calls, ComputeFails(c) PROVE Steady
    BY <1>20 DEF ComputeFails, Finishing, Advance, Emit, IfRefresh
<1>21. ASSUME NEW c \in Calls, ComputePanics(c) PROVE Steady
    BY <1>21 DEF ComputePanics, Finishing, Advance
<1>22. ASSUME NEW c \in Calls, FlightWrites(c) PROVE Steady
    BY <1>22 DEF FlightWrites, Finishing, Advance, Emit, IfRefresh
<1>23. ASSUME NEW c \in Calls, FlightWriteFails(c) PROVE Steady
    BY <1>23 DEF FlightWriteFails, Finishing, Advance, Emit, IfRefresh
<1>24. ASSUME NEW c \in Calls, FinishFlight(c) PROVE Steady
    BY <1>24 DEF FinishFlight, Advance
<1>25. ASSUME NEW c \in Calls, ReleaseWaiters(c) PROVE Steady
    <2>1. UNCHANGED <<op, key, now, entry, joined, leadNow, stamped>>
        BY ONLY <1>25 DEF ReleaseWaiters
    <2>2. CASE pc[c] = "leading"
        <3>1. Returns(c) /\ EventsGrow
            BY ONLY <1>25, <2>2, SharedTypes, CallTypes, c \in Calls, OutcomeEffect
            DEF ReleaseWaiters
        <3> QED
            BY ONLY <2>1, <2>2, <3>1, c \in Calls, ReturningIsSteady
    <2>3. CASE pc[c] # "leading"
        <3>1. UNCHANGED <<pc, result, events>>
            BY ONLY <1>25, <2>3 DEF ReleaseWaiters
        <3> QED
            BY ONLY <2>1, <3>1 DEF Steady
    <2> QED
        BY <2>2, <2>3
<1>26. CASE Tick
    BY <1>26 DEF Tick
<1>27. ASSUME NEW k \in Keys, StoreDrops(k) PROVE Steady
    BY <1>27 DEF StoreDrops
<1>28. CASE UNCHANGED vars
    BY <1>28 DEF vars
<1> QED
    BY <1>1, <1>2, <1>3, <1>4, <1>5, <1>6, <1>7, <1>8, <1>9, <1>10, <1>11,
        <1>12, <1>13, <1>14, <1>15, <1>16, <1>17, <1>18, <1>19, <1>20, <1>21,
        <1>22, <1>23, <1>24, <1>25, <1>26, <1>27, <1>28
    DEF Next, StartCall, CallStep, FlightStep, Quiescent

------------------------------------------------------------------------------
(* Where calls are *)

\* The step is none of d's business.
Undisturbed(d) ==
    /\ op' = op
    /\ UNCHANGED <<pc[d], entry[d], now[d], leadNow[d], stage[d], stamped[d],
                   outcome[d]>>

LEMMA OrderlyStays ==
    ASSUME NEW d \in Calls, Orderly(d), Undisturbed(d)
    PROVE  Orderly(d)'
BY DEF Orderly, Undisturbed

LEMMA OrderlyStep ==
    ASSUME EngineInv, \A c \in Calls : Orderly(c), [Next]_vars
    PROVE  \A c \in Calls : Orderly(c)'
<1> USE DEF EngineInv, TypeOK, CallTypes, FlightTypes, SharedTypes, callVars,
            flightVars
<1> SUFFICES ASSUME NEW d \in Calls PROVE Orderly(d)'
    OBVIOUS
<1> USE DEF Orderly, CallsMatchFlights, MatchesFlight
<1>1. ASSUME NEW c \in Calls, StartLookup(c) PROVE Orderly(d)'
    BY <1>1 DEF StartLookup, GoTo
<1>2. ASSUME NEW c \in Calls, StartSet(c) PROVE Orderly(d)'
    <2>1. NewEntry(c, clock) # None
        BY StampIsEntry
    <2> QED
        BY <1>2, <2>1 DEF StartSet, GoTo
<1>3. ASSUME NEW c \in Calls, DeleteEntry(c) PROVE Orderly(d)'
    BY <1>3 DEF DeleteEntry, Return
<1>4. ASSUME NEW c \in Calls, ClearEntries(c) PROVE Orderly(d)'
    BY <1>4 DEF ClearEntries, Return
<1>5. ASSUME NEW c \in Calls, RemovalFails(c) PROVE Orderly(d)'
    BY <1>5 DEF RemovalFails, Return
<1>6. ASSUME NEW c \in Calls, SetWrites(c) PROVE Orderly(d)'
    BY <1>6 DEF SetWrites, Return, Emit
<1>7. ASSUME NEW c \in Calls, PeekFresh(c) PROVE Orderly(d)'
    <2>1. /\ pc[c] = "peek fresh"
          /\ UNCHANGED <<op, now, entry, leadNow, stage, stamped, outcome>>
        BY ONLY <1>7 DEF PeekFresh, flightVars
    <2>2. /\ pc'[c] \in {"returned", "wait for flight", "peek entry"}
          /\ pc'[c] = "wait for flight" => op[c] = "GetOrCompute"
          /\ \A b \in Calls \ {c} : pc'[b] = pc[b]
        BY ONLY <1>7, CallTypes, c \in Calls
        DEF PeekFresh, Hit, Return, GoTo, CallTypes
    <2> QED
        BY <2>1, <2>2
<1>8. ASSUME NEW c \in Calls, WaitForFlight(c) PROVE Orderly(d)'
    BY <1>8 DEF WaitForFlight, GoTo
<1>9. ASSUME NEW c \in Calls, PeekEntry(c) PROVE Orderly(d)'
    <2>1. pc[c] = "peek entry" /\ UNCHANGED <<op, now, flightVars>>
          /\ \A b \in Calls \ {c} : UNCHANGED <<pc[b], entry[b], result[b]>>
        BY ONLY <1>9, PeekEffect, SharedTypes, CallTypes, c \in Calls
    <2>2. CASE d # c
        <3>1. Undisturbed(d)
            BY <2>1, <2>2 DEF Undisturbed
        <3> QED
            BY ONLY <3>1, OrderlyStays, Orderly(d), d \in Calls
    <2>3. CASE d = c
        <3>1. \/ pc'[c] = "returned" /\ entry' = entry
              \/ /\ op[c] = "GetOrCompute" /\ entry'[c] = store[key[c]]
                 /\ \/ pc'[c] = "revalidate" /\ IsStale(entry'[c], now[c])
                    \/ pc'[c] = "do"
            BY ONLY <1>9, PeekEffect, SharedTypes, CallTypes, c \in Calls
            DEF Returns
        <3> QED
            BY <2>1, <2>3, <3>1
    <2> QED
        BY <2>2, <2>3
<1>10. ASSUME NEW c \in Calls, LookupFails(c) PROVE Orderly(d)'
    BY <1>10 DEF LookupFails, Return
<1>11. ASSUME NEW c \in Calls, WriteFails(c) PROVE Orderly(d)'
    BY <1>11 DEF WriteFails, Return
<1>12. ASSUME NEW c \in Calls, Revalidate(c) PROVE Orderly(d)'
    <2>1. CASE d # c
        <3>1. Undisturbed(d)
            BY ONLY <1>12, <2>1, CallTypes, FlightTypes, d \in Calls
            DEF Undisturbed, Revalidate, Return, Advance, CallTypes, FlightTypes
        <3> QED
            BY ONLY <3>1, OrderlyStays, Orderly(d), d \in Calls
    <2>2. CASE d = c
        <3>1. /\ op[c] = "GetOrCompute" /\ stage[c] = "none"
              /\ pc'[c] = "returned" /\ stage'[c] \in {"none", "spawned"}
              /\ UNCHANGED <<op, entry, now, leadNow, stamped, outcome>>
            BY <1>12 DEF Revalidate, Return, Advance
        <3> QED
            BY <2>2, <3>1
    <2> QED
        BY <2>1, <2>2
<1>13. ASSUME NEW c \in Calls, Do(c) PROVE Orderly(d)'
    <2>1. CASE d # c
        <3>1. Undisturbed(d)
            BY ONLY <1>13, <2>1, CallTypes, FlightTypes, d \in Calls
            DEF Undisturbed, Do, GoTo, Advance, CallTypes, FlightTypes
        <3> QED
            BY ONLY <3>1, OrderlyStays, Orderly(d), d \in Calls
    <2>2. CASE d = c
        <3>1. /\ pc[c] = "do" /\ op[c] = "GetOrCompute" /\ stage[c] = "none"
              /\ pc'[c] \in {"leading", "waiting"}
              /\ stage'[c] \in {"none", "read clock"}
              /\ UNCHANGED <<op, entry, now, leadNow, stamped, outcome>>
            <4>1. pc[c] = "do" /\ op[c] = "GetOrCompute" /\ stage[c] = "none"
                BY <1>13 DEF Do
            <4> QED
                BY ONLY <1>13, <4>1, CallTypes, FlightTypes, c \in Calls
                DEF Do, GoTo, Advance, CallTypes, FlightTypes
        <3> QED
            BY <2>2, <3>1
    <2> QED
        BY <2>1, <2>2
<1>14. ASSUME NEW c \in Calls, Wait(c) PROVE Orderly(d)'
    <2>1. CASE d # c
        <3>1. Undisturbed(d)
            BY ONLY <1>14, <2>1, SharedTypes, CallTypes, c \in Calls, d \in Calls,
                    OutcomeEffect
            DEF Undisturbed, Wait, Returns, flightVars
        <3> QED
            BY ONLY <3>1, OrderlyStays, Orderly(d), d \in Calls
    <2>2. CASE d = c
        BY <1>14, <2>2, OutcomeEffect DEF Wait, Returns
    <2> QED
        BY <2>1, <2>2
<1>15. ASSUME NEW c \in Calls, LeaderReadsClock(c) PROVE Orderly(d)'
    BY <1>15 DEF LeaderReadsClock, Advance
<1>16. ASSUME NEW c \in Calls, RecheckFresh(c) PROVE Orderly(d)'
    <2>1. CASE d # c
        <3>1. Undisturbed(d)
            BY ONLY <1>16, <2>1, FlightTypes, d \in Calls
            DEF Undisturbed, RecheckFresh, Recheck, Finishing, Advance, FlightTypes,
                callVars
        <3> QED
            BY ONLY <3>1, OrderlyStays, Orderly(d), d \in Calls
    <2>2. CASE d = c
        <3>1. /\ stage[c] = "recheck fresh" /\ stage'[c] \in {"finish", "recheck entry"}
              /\ UNCHANGED <<callVars, leadNow, stamped>>
              /\ stage'[c] = "finish" \/ UNCHANGED outcome
            BY ONLY <1>16, FlightTypes, c \in Calls
            DEF RecheckFresh, Recheck, Finishing, Advance, FlightTypes
        <3> QED
            BY <2>2, <3>1
    <2> QED
        BY <2>1, <2>2
<1>17. ASSUME NEW c \in Calls, RecheckEntry(c) PROVE Orderly(d)'
    <2>1. CASE d # c
        <3>1. Undisturbed(d)
            BY ONLY <1>17, <2>1, FlightTypes, d \in Calls
            DEF Undisturbed, RecheckEntry, Recheck, Finishing, Advance, FlightTypes,
                callVars
        <3> QED
            BY ONLY <3>1, OrderlyStays, Orderly(d), d \in Calls
    <2>2. CASE d = c
        <3>1. /\ stage[c] = "recheck entry" /\ stage'[c] \in {"finish", "computing"}
              /\ UNCHANGED <<callVars, leadNow, stamped>>
              /\ stage'[c] = "finish" \/ UNCHANGED outcome
            BY ONLY <1>17, FlightTypes, c \in Calls
            DEF RecheckEntry, Recheck, Finishing, Advance, FlightTypes
        <3> QED
            BY <2>2, <3>1
    <2> QED
        BY <2>1, <2>2
<1>18. ASSUME NEW c \in Calls, RefreshBegins(c) PROVE Orderly(d)'
    BY <1>18 DEF RefreshBegins, Advance, Emit
<1>19. ASSUME NEW c \in Calls, ComputeSucceeds(c) PROVE Orderly(d)'
    <2>1. NewEntry(c, clock) # None
        BY StampIsEntry
    <2> QED
        BY <1>19, <2>1 DEF ComputeSucceeds, Advance
<1>20. ASSUME NEW c \in Calls, ComputeFails(c) PROVE Orderly(d)'
    BY <1>20 DEF ComputeFails, Finishing, Advance, Emit, IfRefresh
<1>21. ASSUME NEW c \in Calls, ComputePanics(c) PROVE Orderly(d)'
    BY <1>21 DEF ComputePanics, Finishing, Advance
<1>22. ASSUME NEW c \in Calls, FlightWrites(c) PROVE Orderly(d)'
    BY <1>22 DEF FlightWrites, Finishing, Advance, Emit, IfRefresh
<1>23. ASSUME NEW c \in Calls, FlightWriteFails(c) PROVE Orderly(d)'
    BY <1>23 DEF FlightWriteFails, Finishing, Advance, Emit, IfRefresh
<1>24. ASSUME NEW c \in Calls, FinishFlight(c) PROVE Orderly(d)'
    BY <1>24 DEF FinishFlight, Advance
<1>25. ASSUME NEW c \in Calls, ReleaseWaiters(c) PROVE Orderly(d)'
    <2>1. CASE d # c
        <3>1. pc'[d] = pc[d] /\ stage'[d] = stage[d]
            BY ONLY <1>25, <2>1, SharedTypes, CallTypes, FlightTypes, c \in Calls,
                    d \in Calls, OutcomeEffect
            DEF ReleaseWaiters, Returns, Advance, FlightTypes
        <3>2. Undisturbed(d)
            BY ONLY <1>25, <3>1 DEF Undisturbed, ReleaseWaiters
        <3> QED
            BY ONLY <3>2, OrderlyStays, Orderly(d), d \in Calls
    <2>2. CASE d = c
        <3>1. /\ pc'[c] \in {pc[c], "returned"} /\ stage[c] = "done"
              /\ stage'[c] = "landed"
              /\ UNCHANGED <<op, entry, now, leadNow, stamped, outcome>>
            BY ONLY <1>25, SharedTypes, CallTypes, FlightTypes, c \in Calls,
                    OutcomeEffect
            DEF ReleaseWaiters, Returns, Advance, FlightTypes
        <3> QED
            BY <2>2, <3>1
    <2> QED
        BY <2>1, <2>2
<1>26. CASE Tick
    BY <1>26 DEF Tick
<1>27. ASSUME NEW k \in Keys, StoreDrops(k) PROVE Orderly(d)'
    BY <1>27 DEF StoreDrops
<1>28. CASE UNCHANGED vars
    BY <1>28 DEF vars
<1> QED
    BY <1>1, <1>2, <1>3, <1>4, <1>5, <1>6, <1>7, <1>8, <1>9, <1>10, <1>11,
        <1>12, <1>13, <1>14, <1>15, <1>16, <1>17, <1>18, <1>19, <1>20, <1>21,
        <1>22, <1>23, <1>24, <1>25, <1>26, <1>27, <1>28
    DEF Next, StartCall, CallStep, FlightStep, Quiescent

------------------------------------------------------------------------------
(* What a step puts in the store, in a call's hand, in a flight's outcome *)

StoreChanges ==
    \A k \in Keys :
        \/ store'[k] \in {store[k], None}
        \/ \E c \in Calls : key[c] = k /\ stamped[c] # None /\ store'[k] = stamped[c]

EntryChanges == \A c \in Calls : entry'[c] \in {entry[c], store[key[c]]}

OutcomeChanges ==
    \A f \in Calls :
        \/ outcome'[f] = outcome[f]
        \/ outcome'[f].value \in {None, f}
        \/ /\ Has(key[f]) /\ FreshToLeader(f, store[key[f]])
           /\ outcome'[f].value = store[key[f]].value

Changes == StoreChanges /\ EntryChanges /\ OutcomeChanges

LEMMA RecheckEffect ==
    ASSUME FlightTypes, NEW c \in Calls, NEW next, Recheck(c, next), leadNow[c] # 0
    PROVE  OutcomeChanges
<1>1. \A f \in Calls \ {c} : outcome'[f] = outcome[f]
    BY DEF Recheck, Finishing, FlightTypes
<1>2. CASE UNCHANGED outcome
    BY <1>2 DEF OutcomeChanges
<1>3. CASE /\ Has(key[c]) /\ IsFresh(store[key[c]], leadNow[c])
           /\ Finishing(c, store[key[c]].value, "nil")
    <2>1. outcome'[c].value = store[key[c]].value
        BY <1>3 DEF Finishing, FlightTypes
    <2> QED
        BY <1>1, <1>3, <2>1 DEF OutcomeChanges, FreshToLeader
<1>4. CASE Finishing(c, None, "store")
    <2>1. outcome'[c].value = None
        BY <1>4 DEF Finishing, FlightTypes
    <2> QED
        BY <1>1, <2>1 DEF OutcomeChanges
<1> QED
    BY <1>2, <1>3, <1>4 DEF Recheck

LEMMA ChangesStep ==
    ASSUME EngineInv, \A c \in Calls : Orderly(c), [Next]_vars
    PROVE  Changes
<1> USE DEF EngineInv, TypeOK, CallTypes, FlightTypes, SharedTypes, callVars,
            flightVars
<1> USE DEF Orderly, Changes, StoreChanges, EntryChanges, OutcomeChanges,
            FreshToLeader
<1>1. ASSUME NEW c \in Calls, StartLookup(c) PROVE Changes
    BY <1>1 DEF StartLookup, GoTo
<1>2. ASSUME NEW c \in Calls, StartSet(c) PROVE Changes
    BY <1>2 DEF StartSet, GoTo
<1>3. ASSUME NEW c \in Calls, DeleteEntry(c) PROVE Changes
    BY <1>3 DEF DeleteEntry, Return
<1>4. ASSUME NEW c \in Calls, ClearEntries(c) PROVE Changes
    BY <1>4 DEF ClearEntries, Return
<1>5. ASSUME NEW c \in Calls, RemovalFails(c) PROVE Changes
    BY <1>5 DEF RemovalFails, Return
<1>6. ASSUME NEW c \in Calls, SetWrites(c) PROVE Changes
    BY <1>6 DEF SetWrites, Return, Emit
<1>7. ASSUME NEW c \in Calls, PeekFresh(c) PROVE Changes
    BY <1>7 DEF PeekFresh, Hit, Return, Emit, GoTo
<1>8. ASSUME NEW c \in Calls, WaitForFlight(c) PROVE Changes
    BY <1>8 DEF WaitForFlight, GoTo
<1>9. ASSUME NEW c \in Calls, PeekEntry(c) PROVE Changes
    BY <1>9, PeekEffect
<1>10. ASSUME NEW c \in Calls, LookupFails(c) PROVE Changes
    BY <1>10 DEF LookupFails, Return
<1>11. ASSUME NEW c \in Calls, WriteFails(c) PROVE Changes
    BY <1>11 DEF WriteFails, Return
<1>12. ASSUME NEW c \in Calls, Revalidate(c) PROVE Changes
    BY <1>12 DEF Revalidate
<1>13. ASSUME NEW c \in Calls, Do(c) PROVE Changes
    BY <1>13 DEF Do
<1>14. ASSUME NEW c \in Calls, Wait(c) PROVE Changes
    BY <1>14 DEF Wait
<1>15. ASSUME NEW c \in Calls, LeaderReadsClock(c) PROVE Changes
    BY <1>15 DEF LeaderReadsClock, Advance
<1>16. ASSUME NEW c \in Calls, RecheckFresh(c) PROVE Changes
    <2>0. leadNow[c] # 0
        BY <1>16 DEF RecheckFresh
    <2>1. StoreChanges /\ EntryChanges
        BY <1>16 DEF RecheckFresh, Recheck
    <2>2. OutcomeChanges
        BY ONLY <1>16, <2>0, RecheckEffect, FlightTypes, c \in Calls
        DEF RecheckFresh
    <2> QED
        BY <2>1, <2>2
<1>17. ASSUME NEW c \in Calls, RecheckEntry(c) PROVE Changes
    <2>0. leadNow[c] # 0
        BY <1>17 DEF RecheckEntry
    <2>1. StoreChanges /\ EntryChanges
        BY <1>17 DEF RecheckEntry, Recheck
    <2>2. OutcomeChanges
        BY ONLY <1>17, <2>0, RecheckEffect, FlightTypes, c \in Calls
        DEF RecheckEntry
    <2> QED
        BY <2>1, <2>2
<1>18. ASSUME NEW c \in Calls, RefreshBegins(c) PROVE Changes
    BY <1>18 DEF RefreshBegins, Advance, Emit
<1>19. ASSUME NEW c \in Calls, ComputeSucceeds(c) PROVE Changes
    BY <1>19 DEF ComputeSucceeds, Advance
<1>20. ASSUME NEW c \in Calls, ComputeFails(c) PROVE Changes
    BY <1>20 DEF ComputeFails, Finishing, Advance, Emit, IfRefresh
<1>21. ASSUME NEW c \in Calls, ComputePanics(c) PROVE Changes
    BY <1>21 DEF ComputePanics, Finishing, Advance
<1>22. ASSUME NEW c \in Calls, FlightWrites(c) PROVE Changes
    BY <1>22 DEF FlightWrites, Finishing, Advance, Emit, IfRefresh
<1>23. ASSUME NEW c \in Calls, FlightWriteFails(c) PROVE Changes
    BY <1>23 DEF FlightWriteFails, Finishing, Advance, Emit, IfRefresh
<1>24. ASSUME NEW c \in Calls, FinishFlight(c) PROVE Changes
    BY <1>24 DEF FinishFlight, Advance
<1>25. ASSUME NEW c \in Calls, ReleaseWaiters(c) PROVE Changes
    BY <1>25 DEF ReleaseWaiters
<1>26. CASE Tick
    BY <1>26 DEF Tick
<1>27. ASSUME NEW k \in Keys, StoreDrops(k) PROVE Changes
    BY <1>27 DEF StoreDrops
<1>28. CASE UNCHANGED vars
    BY <1>28 DEF vars
<1> QED
    BY <1>1, <1>2, <1>3, <1>4, <1>5, <1>6, <1>7, <1>8, <1>9, <1>10, <1>11,
        <1>12, <1>13, <1>14, <1>15, <1>16, <1>17, <1>18, <1>19, <1>20, <1>21,
        <1>22, <1>23, <1>24, <1>25, <1>26, <1>27, <1>28
    DEF Next, StartCall, CallStep, FlightStep, Quiescent

------------------------------------------------------------------------------
(* The four ways to answer *)

\* No value, and no entry was found: a store error, a miss of Get, or an operation
\* that answers none.
Misses(c) ==
    result'[c] \in Results /\ result'[c].value = None /\ entry'[c] = None

\* The entry found, from the critical section of refresh.
ServesStale(c) ==
    /\ pc[c] = "revalidate" /\ entry' = entry
    /\ result'[c] = [value |-> entry[c].value, err |-> "nil"]

\* What the flight f came to, as its leader or as a follower.
TakesOutcome(c, f) ==
    /\ op[c] = "GetOrCompute" /\ key[f] = key[c] /\ outcome[f] # None
    /\ ReturnOutcome(c, outcome[f])
    /\ UNCHANGED <<entry, joined>>

Answering(c) ==
    \/ Misses(c)
    \/ /\ HitsStore(c) /\ pc[c] # "new" /\ op[c] \in {"Get", "GetOrCompute"}
       /\ entry'[c] = None
    \/ ServesStale(c)
    \/ TakesOutcome(c, c)
    \/ joined[c] \in Calls /\ TakesOutcome(c, joined[c])

LEMMA MissEffect ==
    ASSUME CallTypes, NEW c \in Calls, NEW err \in Errors, Return(c, None, err),
           entry' = entry, entry[c] = None
    PROVE  Returns(c) /\ Misses(c)
<1>1. Returns(c) /\ result'[c] = [value |-> None, err |-> err]
    BY ReturnEffect
<1>2. result'[c].value = None /\ result'[c] \in Results
    BY ONLY <1>1, err \in Errors DEF Results
<1> QED
    BY <1>1, <1>2 DEF Misses

LEMMA OnlyReturner ==
    ASSUME NEW c \in Calls, NEW d \in Calls, Returns(c),
           pc[d] # "returned", pc'[d] = "returned"
    PROVE  d = c
BY DEF Returns

\* A call that returns in this step does so in one of these ways.
LEMMA AnsweringStep ==
    ASSUME EngineInv, \A c \in Calls : Orderly(c), [Next]_vars,
           NEW d \in Calls, pc[d] # "returned", pc'[d] = "returned"
    PROVE  Answering(d)
<1>0. d \in Calls /\ pc[d] # "returned" /\ pc'[d] = "returned"
    OBVIOUS
<1> USE DEF EngineInv, TypeOK, CallTypes, FlightTypes, SharedTypes, callVars,
            flightVars
<1> USE DEF Orderly, CallsMatchFlights, MatchesFlight, Answering
<1>1. ASSUME NEW c \in Calls, StartLookup(c) PROVE Answering(d)
    BY <1>1 DEF StartLookup, GoTo
<1>2. ASSUME NEW c \in Calls, StartSet(c) PROVE Answering(d)
    BY <1>2 DEF StartSet, GoTo
<1>3. ASSUME NEW c \in Calls, DeleteEntry(c) PROVE Answering(d)
    <2>1. Return(c, None, "nil") /\ entry' = entry /\ entry[c] = None
        BY <1>3 DEF DeleteEntry
    <2>2. Returns(c) /\ Misses(c)
        BY ONLY <2>1, CallTypes, c \in Calls, MissEffect, ErrorNames
    <2> QED
        BY ONLY <1>0, <2>2, OnlyReturner, c \in Calls DEF Answering
<1>4. ASSUME NEW c \in Calls, ClearEntries(c) PROVE Answering(d)
    <2>1. Return(c, None, "nil") /\ entry' = entry /\ entry[c] = None
        BY <1>4 DEF ClearEntries
    <2>2. Returns(c) /\ Misses(c)
        BY ONLY <2>1, CallTypes, c \in Calls, MissEffect, ErrorNames
    <2> QED
        BY ONLY <1>0, <2>2, OnlyReturner, c \in Calls DEF Answering
<1>5. ASSUME NEW c \in Calls, RemovalFails(c) PROVE Answering(d)
    <2>1. Return(c, None, "store") /\ entry' = entry /\ entry[c] = None
        BY <1>5 DEF RemovalFails
    <2>2. Returns(c) /\ Misses(c)
        BY ONLY <2>1, CallTypes, c \in Calls, MissEffect, ErrorNames
    <2> QED
        BY ONLY <1>0, <2>2, OnlyReturner, c \in Calls DEF Answering
<1>6. ASSUME NEW c \in Calls, SetWrites(c) PROVE Answering(d)
    <2>1. Return(c, None, "nil") /\ entry' = entry /\ entry[c] = None
        BY <1>6 DEF SetWrites
    <2>2. Returns(c) /\ Misses(c)
        BY ONLY <2>1, CallTypes, c \in Calls, MissEffect, ErrorNames
    <2> QED
        BY ONLY <1>0, <2>2, OnlyReturner, c \in Calls DEF Answering
<1>7. ASSUME NEW c \in Calls, PeekFresh(c) PROVE Answering(d)
    <2>1. CASE Hit(c, store[key[c]].value)
        <3>0. pc'[c] = "returned" /\ pc[c] = "peek fresh" /\ entry' = entry
            BY ONLY <1>7, <2>1, HitEffect, SharedTypes, CallTypes, c \in Calls
            DEF PeekFresh, Returns
        <3>1. /\ Has(key[c]) /\ IsFresh(store[key[c]], now[c]) /\ pc[c] = "peek fresh"
              /\ entry' = entry
            BY ONLY <1>7, <3>0, CallTypes, c \in Calls DEF PeekFresh, GoTo, CallTypes
        <3>2. Returns(c) /\ HitsStore(c)
            BY <2>1, <3>1, HitEffect DEF HitsStore
        <3>3. pc[c] # "new" /\ op[c] \in {"Get", "GetOrCompute"} /\ entry'[c] = None
            BY <3>1
        <3> QED
            BY ONLY <1>0, <3>2, <3>3, OnlyReturner, c \in Calls DEF Answering
    <2>2. CASE ~Hit(c, store[key[c]].value)
        <3>1. pc' # [pc EXCEPT ![c] = "returned"]
              /\ \E to \in CallPCs \ {"returned"} : GoTo(c, to)
            BY ONLY <1>7, <2>2, CallTypes, c \in Calls DEF PeekFresh, GoTo, CallTypes, CallPCs
        <3> QED
            BY <3>1 DEF GoTo
    <2> QED
        BY <2>1, <2>2
<1>8. ASSUME NEW c \in Calls, WaitForFlight(c) PROVE Answering(d)
    BY <1>8 DEF WaitForFlight, GoTo
<1>9. ASSUME NEW c \in Calls, PeekEntry(c) PROVE Answering(d)
    <2>0. pc[c] = "peek entry" /\ \A b \in Calls \ {c} : pc'[b] = pc[b]
        BY <1>9, PeekKeeps
    <2>1. op[c] \in {"Get", "GetOrCompute"} /\ entry[c] = None
        BY <2>0
    <2>2. d = c
        BY <2>0
    <2>3. /\ entry' = entry
          /\ HitsStore(c) \/ result'[c] = [value |-> None, err |-> "nil"]
        BY <1>9, <2>2, PeekEffect
    <2>4. ASSUME result'[c] = [value |-> None, err |-> "nil"] PROVE Misses(c)
        <3>1. result'[c].value = None /\ result'[c] \in Results
            BY ONLY <2>4, ErrorNames DEF Results
        <3>2. entry'[c] = None
            BY ONLY <2>1, <2>3
        <3> QED
            BY ONLY <3>1, <3>2 DEF Misses
    <2> QED
        BY ONLY <2>0, <2>1, <2>2, <2>3, <2>4 DEF Answering
<1>10. ASSUME NEW c \in Calls, LookupFails(c) PROVE Answering(d)
    <2>1. Return(c, None, "store") /\ entry' = entry /\ entry[c] = None
        BY <1>10 DEF LookupFails
    <2>2. Returns(c) /\ Misses(c)
        BY ONLY <2>1, CallTypes, c \in Calls, MissEffect, ErrorNames
    <2> QED
        BY ONLY <1>0, <2>2, OnlyReturner, c \in Calls DEF Answering
<1>11. ASSUME NEW c \in Calls, WriteFails(c) PROVE Answering(d)
    <2>1. Return(c, None, "store") /\ entry' = entry /\ entry[c] = None
        BY <1>11 DEF WriteFails
    <2>2. Returns(c) /\ Misses(c)
        BY ONLY <2>1, CallTypes, c \in Calls, MissEffect, ErrorNames
    <2> QED
        BY ONLY <1>0, <2>2, OnlyReturner, c \in Calls DEF Answering
<1>12. ASSUME NEW c \in Calls, Revalidate(c) PROVE Answering(d)
    <2>1. Return(c, entry[c].value, "nil") /\ entry' = entry /\ pc[c] = "revalidate"
        BY <1>12 DEF Revalidate
    <2>2. Returns(c) /\ ServesStale(c)
        BY ONLY <2>1, CallTypes, c \in Calls, ReturnEffect DEF ServesStale
    <2> QED
        BY ONLY <1>0, <2>2, OnlyReturner, c \in Calls DEF Answering
<1>13. ASSUME NEW c \in Calls, Do(c) PROVE Answering(d)
    BY ONLY <1>0, <1>13, CallTypes, c \in Calls DEF Do, GoTo, CallTypes
<1>14. ASSUME NEW c \in Calls, Wait(c) PROVE Answering(d)
    <2>1. /\ joined[c] \in Calls /\ key[joined[c]] = key[c] /\ op[c] = "GetOrCompute"
          /\ outcome[joined[c]] # None /\ ReturnOutcome(c, outcome[joined[c]])
          /\ UNCHANGED <<entry, joined>>
        BY <1>14 DEF Wait
    <2>2. Returns(c) /\ joined[c] \in Calls /\ TakesOutcome(c, joined[c])
        BY ONLY <2>1, SharedTypes, CallTypes, c \in Calls, OutcomeEffect
        DEF TakesOutcome
    <2> QED
        BY ONLY <1>0, <2>2, OnlyReturner, c \in Calls DEF Answering
<1>15. ASSUME NEW c \in Calls, LeaderReadsClock(c) PROVE Answering(d)
    BY <1>15 DEF LeaderReadsClock, Advance
<1>16. ASSUME NEW c \in Calls, RecheckFresh(c) PROVE Answering(d)
    BY <1>16 DEF RecheckFresh, Recheck, Finishing, Advance
<1>17. ASSUME NEW c \in Calls, RecheckEntry(c) PROVE Answering(d)
    BY <1>17 DEF RecheckEntry, Recheck, Finishing, Advance
<1>18. ASSUME NEW c \in Calls, RefreshBegins(c) PROVE Answering(d)
    BY <1>18 DEF RefreshBegins, Advance, Emit
<1>19. ASSUME NEW c \in Calls, ComputeSucceeds(c) PROVE Answering(d)
    BY <1>19 DEF ComputeSucceeds, Advance
<1>20. ASSUME NEW c \in Calls, ComputeFails(c) PROVE Answering(d)
    BY <1>20 DEF ComputeFails, Finishing, Advance, Emit, IfRefresh
<1>21. ASSUME NEW c \in Calls, ComputePanics(c) PROVE Answering(d)
    BY <1>21 DEF ComputePanics, Finishing, Advance
<1>22. ASSUME NEW c \in Calls, FlightWrites(c) PROVE Answering(d)
    BY <1>22 DEF FlightWrites, Finishing, Advance, Emit, IfRefresh
<1>23. ASSUME NEW c \in Calls, FlightWriteFails(c) PROVE Answering(d)
    BY <1>23 DEF FlightWriteFails, Finishing, Advance, Emit, IfRefresh
<1>24. ASSUME NEW c \in Calls, FinishFlight(c) PROVE Answering(d)
    BY <1>24 DEF FinishFlight, Advance
<1>25. ASSUME NEW c \in Calls, ReleaseWaiters(c) PROVE Answering(d)
    <2>1. CASE pc[c] = "leading"
        <3>1. /\ op[c] = "GetOrCompute" /\ outcome[c] # None
              /\ ReturnOutcome(c, outcome[c]) /\ UNCHANGED <<entry, joined>>
            BY <1>25, <2>1 DEF ReleaseWaiters
        <3>2. Returns(c) /\ TakesOutcome(c, c)
            BY ONLY <3>1, SharedTypes, CallTypes, c \in Calls, OutcomeEffect
            DEF TakesOutcome
        <3> QED
            BY ONLY <1>0, <3>2, OnlyReturner, c \in Calls DEF Answering
    <2>2. CASE pc[c] # "leading"
        BY <1>25, <2>2 DEF ReleaseWaiters
    <2> QED
        BY <2>1, <2>2
<1>26. CASE Tick
    BY <1>26 DEF Tick
<1>27. ASSUME NEW k \in Keys, StoreDrops(k) PROVE Answering(d)
    BY <1>27 DEF StoreDrops
<1>28. CASE UNCHANGED vars
    BY <1>28 DEF vars
<1> QED
    BY <1>1, <1>2, <1>3, <1>4, <1>5, <1>6, <1>7, <1>8, <1>9, <1>10, <1>11,
        <1>12, <1>13, <1>14, <1>15, <1>16, <1>17, <1>18, <1>19, <1>20, <1>21,
        <1>22, <1>23, <1>24, <1>25, <1>26, <1>27, <1>28
    DEF Next, StartCall, CallStep, FlightStep, Quiescent

------------------------------------------------------------------------------
(* What is stored, found and shared stays known *)

LEMMA StoreKnownStep ==
    ASSUME EngineInv, StoreKnown, Steady, StoreChanges
    PROVE  StoreKnown'
<1> SUFFICES ASSUME NEW k \in Keys, store'[k] # None
             PROVE  KnownEntry(k, store[k])'
    BY DEF StoreKnown, Has
<1>1. CASE store'[k] = store[k]
    <2>1. KnownEntry(k, store[k]) /\ store[k].value \in Values
        BY <1>1, EntryValue DEF StoreKnown, Has, EngineInv, TypeOK, SharedTypes
    <2> QED
        BY <1>1, <2>1 DEF KnownEntry, Known, EntryOf, Steady, Values
<1>2. ASSUME NEW c \in Calls, key[c] = k, stamped[c] # None, store'[k] = stamped[c]
      PROVE  KnownEntry(k, store[k])'
    <2>1. stamped[c].value = c /\ c # Old /\ stamped'[c] = stamped[c] /\ key'[c] = k
        BY <1>2, EngineAssumption DEF EngineInv, StampsCarryTheirCall, Steady
    <2> QED
        BY <1>2, <2>1 DEF KnownEntry, Known, EntryOf
<1> QED
    BY <1>1, <1>2 DEF StoreChanges

LEMMA EntriesKnownStep ==
    ASSUME EngineInv, StoreKnown, EntriesKnown, Steady, EntryChanges
    PROVE  EntriesKnown'
<1> SUFFICES ASSUME NEW c \in Calls, entry'[c] # None
             PROVE  KnownEntry(key[c], entry[c])'
    BY DEF EntriesKnown
<1> USE DEF EngineInv, TypeOK, SharedTypes, CallTypes
<1>1. KnownEntry(key[c], entry'[c]) /\ entry'[c].value \in Values
    <2>1. CASE entry'[c] = entry[c]
        BY <2>1, EntryValue DEF EntriesKnown
    <2>2. CASE entry'[c] = store[key[c]]
        BY <2>2, EntryValue DEF StoreKnown, Has
    <2> QED
        BY <2>1, <2>2 DEF EntryChanges
<1> QED
    BY <1>1 DEF KnownEntry, Known, EntryOf, Steady, Values

LEMMA OutcomesKnownStep ==
    ASSUME EngineInv, StoreKnown, \A f \in Calls : OutcomeKnown(f), Steady,
           OutcomeChanges
    PROVE  \A f \in Calls : OutcomeKnown(f)'
<1> SUFFICES ASSUME NEW f \in Calls, NEW v \in Values \ {f}, outcome'[f] # None,
                    outcome'[f].value = v
             PROVE  FreshToLeader(f, EntryOf(v))' /\ Known(key[f], v)'
    BY DEF OutcomeKnown
<1> USE DEF EngineInv, TypeOK, SharedTypes, CallTypes, FlightTypes
<1>0. v # None
    BY EngineAssumption
<1>1. /\ FreshToLeader(f, EntryOf(v)) /\ Known(key[f], v)
    <2>1. CASE outcome'[f] = outcome[f]
        BY <2>1 DEF OutcomeKnown, Results
    <2>2. CASE /\ Has(key[f]) /\ FreshToLeader(f, store[key[f]])
               /\ v = store[key[f]].value
        BY <2>2, EntryValue DEF StoreKnown, KnownEntry, Has
    <2> QED
        BY <1>0, <2>1, <2>2 DEF OutcomeChanges
<1> QED
    BY <1>1 DEF Known, EntryOf, Steady, Values, FreshToLeader

------------------------------------------------------------------------------
(* Answers are sourced when given, and stay so *)

LEMMA EntryOfStays ==
    ASSUME Steady, NEW v \in Values, v = Old \/ stamped[v] # None
    PROVE  EntryOf(v)' = EntryOf(v) /\ (v # Old => stamped'[v] # None)
BY DEF EntryOf, Steady, Values

LEMMA SourcedStays ==
    ASSUME EngineInv, Steady, NEW c \in Calls, NEW v \in Values,
           pc[c] = "returned", Sourced(c, v)
    PROVE  Sourced(c, v)'
<1> USE DEF EngineInv, TypeOK, SharedTypes, CallTypes, FlightTypes
<1>1. /\ op'[c] = op[c] /\ key' = key /\ now'[c] = now[c]
      /\ joined'[c] = joined[c] /\ entry'[c] = entry[c]
      /\ \A f \in Calls : leadNow[f] # 0 => leadNow'[f] = leadNow[f]
      /\ "refresh error" \in events[c] => "refresh error" \in events'[c]
    BY DEF Steady
<1>2. CASE v # Old /\ stamped[v] = None
    <2>1. op[c] = "GetOrCompute" /\ v \in {c, joined[c]} /\ key[v] = key[c]
        BY <1>2 DEF Sourced
    <2>2. Justified(c, v)'
        BY <1>1, <2>1, EngineAssumption DEF Justified
    <2> QED
        BY <1>1, <2>1, <2>2 DEF Sourced
<1>3. CASE v = Old \/ stamped[v] # None
    <2>1. EntryOf(v)' = EntryOf(v) /\ (v # Old => stamped'[v] # None)
        BY <1>3, EntryOfStays
    <2>2. Justified(c, v)'
        BY <1>1, <2>1 DEF Sourced, Justified, FreshToLeader
    <2> QED
        BY <1>1, <2>1, <2>2 DEF Sourced
<1> QED
    BY <1>2, <1>3

LEMMA OutcomeAnswer ==
    ASSUME SharedTypes, CallTypes, NEW c \in Calls, NEW o, ReturnOutcome(c, o)
    PROVE  \/ /\ FallsBack(c, o) /\ "refresh error" \in events'[c]
              /\ result'[c] = [value |-> entry[c].value, err |-> "nil"]
           \/ ~FallsBack(c, o) /\ result'[c] = [value |-> o.value, err |-> o.err]
<1>1. CASE FallsBack(c, o)
    <2>1. Return(c, entry[c].value, "nil") /\ Emit(c, {"refresh error"})
        BY <1>1 DEF ReturnOutcome
    <2>2. {"refresh error"} \subseteq events'[c]
        BY ONLY <2>1, SharedTypes, c \in Calls, EmitEffect
    <2>3. result'[c] = [value |-> entry[c].value, err |-> "nil"]
        BY <2>1 DEF Return, CallTypes
    <2> QED
        BY <1>1, <2>2, <2>3
<1>2. CASE ~FallsBack(c, o)
    <2>1. Return(c, o.value, o.err)
        BY <1>2 DEF ReturnOutcome
    <2>2. result'[c] = [value |-> o.value, err |-> o.err]
        BY ONLY <2>1, CallTypes, c \in Calls, ReturnEffect
    <2> QED
        BY <1>2, <2>2
<1> QED
    BY <1>1, <1>2

LEMMA HitSourced ==
    ASSUME EngineInv, StoreKnown, Steady, NEW c \in Calls, HitsStore(c),
           pc[c] # "new", op[c] \in {"Get", "GetOrCompute"},
           NEW v \in Values, result'[c].value = v
    PROVE  Sourced(c, v)'
<1> USE DEF EngineInv, TypeOK, SharedTypes, CallTypes
<1>1. store[key[c]] = EntryOf(v) /\ Known(key[c], v)
    BY EntryValue DEF HitsStore, Has, StoreKnown, KnownEntry
<1>2. EntryOf(v)' = EntryOf(v) /\ (v # Old => stamped'[v] # None)
    BY <1>1, EntryOfStays DEF Known
<1>3. now'[c] = now[c] /\ op' = op /\ key' = key
    BY DEF Steady
<1>4. IsFresh(EntryOf(v)', now'[c])
    BY <1>1, <1>2, <1>3 DEF HitsStore
<1>5. Justified(c, v)'
    BY <1>3, <1>4 DEF Justified, IsExpired
<1> QED
    BY <1>1, <1>2, <1>3, <1>4, <1>5 DEF Sourced, Known

LEMMA StaleSourced ==
    ASSUME EngineInv, EntriesKnown, Steady, NEW c \in Calls, Orderly(c),
           ServesStale(c), NEW v \in Values, result'[c].value = v
    PROVE  Sourced(c, v)'
<1> USE DEF EngineInv, TypeOK, SharedTypes, CallTypes
<1>1. entry[c] = EntryOf(v) /\ Known(key[c], v)
    BY EntryValue
    DEF ServesStale, EntriesKnown, KnownEntry, CallsMatchFlights, MatchesFlight
<1>2. EntryOf(v)' = EntryOf(v) /\ (v # Old => stamped'[v] # None)
    BY <1>1, EntryOfStays DEF Known
<1>3. now'[c] = now[c] /\ op' = op /\ key' = key /\ op[c] = "GetOrCompute"
    BY DEF Steady, ServesStale, Orderly
<1>4. IsStale(EntryOf(v)', now'[c])
    BY <1>1, <1>2, <1>3 DEF ServesStale, Orderly
<1>5. Justified(c, v)'
    BY <1>3, <1>4 DEF Justified, IsExpired
<1> QED
    BY <1>1, <1>2, <1>3, <1>4, <1>5 DEF Sourced, Known

LEMMA OutcomeSourced ==
    ASSUME EngineInv, EntriesKnown, Steady, NEW c \in Calls, NEW f \in Calls,
           f = c \/ f = joined[c], OutcomeKnown(f), TakesOutcome(c, f),
           NEW v \in Values, result'[c].value = v
    PROVE  Sourced(c, v)'
<1> USE DEF EngineInv, TypeOK, SharedTypes, CallTypes, FlightTypes
<1>0. /\ op' = op /\ key' = key /\ op[c] = "GetOrCompute" /\ key[f] = key[c]
      /\ entry'[c] = entry[c] /\ joined'[c] = joined[c] /\ outcome[f] \in Results
      /\ joined[c] = f => joined[c] # None
    BY EngineAssumption DEF Steady, TakesOutcome, Values
<1>1. CASE /\ FallsBack(c, outcome[f]) /\ "refresh error" \in events'[c]
           /\ result'[c] = [value |-> entry[c].value, err |-> "nil"]
    <2>0. entry[c].value = v
        <3>1. result'[c] = [value |-> entry[c].value, err |-> "nil"]
            BY <1>1
        <3> QED
            BY ONLY <3>1, result'[c].value = v
    <2>1. entry[c] = EntryOf(v) /\ Known(key[c], v) /\ KeepStaleOnError
        BY <1>1, <2>0 DEF FallsBack, EntriesKnown, KnownEntry
    <2>2. EntryOf(v)' = EntryOf(v) /\ (v # Old => stamped'[v] # None)
        BY <2>1, EntryOfStays DEF Known
    <2>3. Justified(c, v)'
        BY <1>0, <1>1, <2>1, <2>2 DEF Justified
    <2> QED
        BY <1>0, <1>1, <2>1, <2>2, <2>3 DEF Sourced, Known
<1>2. CASE result'[c] = [value |-> outcome[f].value, err |-> outcome[f].err]
    <2>0. outcome[f].value = v
        BY <1>2
    <2>1. CASE v = f
        <3>1. Justified(c, v)'
            BY <1>0, <2>1 DEF Justified
        <3> QED
            BY <1>0, <2>0, <2>1, <3>1 DEF Sourced
    <2>2. CASE v # f
        <3>1. FreshToLeader(f, EntryOf(v)) /\ Known(key[f], v)
            BY <1>0, <2>0, <2>2, EngineAssumption DEF OutcomeKnown, TakesOutcome
        <3>2. EntryOf(v)' = EntryOf(v) /\ (v # Old => stamped'[v] # None)
            BY <2>0, <3>1, EntryOfStays DEF Known
        <3>3. FreshToLeader(f, EntryOf(v))'
            BY <3>1, <3>2 DEF FreshToLeader, Steady
        <3>4. Justified(c, v)'
            BY <1>0, <3>3 DEF Justified
        <3> QED
            BY <1>0, <2>0, <3>1, <3>2, <3>4 DEF Sourced, Known
    <2> QED
        BY <2>1, <2>2
<1> QED
    BY <1>1, <1>2, OutcomeAnswer DEF TakesOutcome

LEMMA AnswerSourcedStep ==
    ASSUME EngineInv, AnswersInv, Steady, [Next]_vars, NEW c \in Calls
    PROVE  AnswerSourced(c)'
<1> SUFFICES ASSUME NEW v \in Values, pc'[c] = "returned",
                    result'[c].err = "nil", result'[c].value = v
             PROVE  Sourced(c, v)'
    BY DEF AnswerSourced
<1>1. CASE pc[c] = "returned"
    <2>1. Sourced(c, v)
        BY <1>1 DEF Steady, AnswersInv, AnswerSourced
    <2> QED
        BY <1>1, <2>1, SourcedStays
<1>2. CASE pc[c] # "returned"
    <2>1. v # None
        BY EngineAssumption
    <2>2. Answering(c)
        BY <1>2, AnsweringStep DEF AnswersInv
    <2> QED
        BY <2>1, <2>2, HitSourced, StaleSourced, OutcomeSourced
        DEF Answering, Misses, AnswersInv
<1> QED
    BY <1>1, <1>2

LEMMA AnswersExistStep ==
    ASSUME EngineInv, AnswersInv, Steady, [Next]_vars, NEW c \in Calls,
           pc'[c] = "returned"
    PROVE  result'[c] \in Results
<1> USE DEF EngineInv, TypeOK, SharedTypes, CallTypes, FlightTypes
<1>1. CASE pc[c] = "returned"
    BY <1>1 DEF Steady, AnswersInv
<1>2. CASE pc[c] # "returned"
    <2>1. CASE Misses(c)
        BY <2>1 DEF Misses
    <2>2. CASE HitsStore(c)
        BY <2>2, EntryValue DEF HitsStore, Has, Results, Errors
    <2>3. CASE ServesStale(c)
        BY <2>3, EntryValue
        DEF ServesStale, Results, Errors, CallsMatchFlights, MatchesFlight
    <2>4. ASSUME NEW f \in Calls, TakesOutcome(c, f) PROVE result'[c] \in Results
        <3>1. outcome[f].value \in Values \cup {None} /\ outcome[f].err \in Errors
            BY <2>4 DEF TakesOutcome, Results
        <3>2. FallsBack(c, outcome[f]) => entry[c].value \in Values
            BY EntryValue DEF FallsBack
        <3>3. CASE /\ FallsBack(c, outcome[f])
                   /\ result'[c] = [value |-> entry[c].value, err |-> "nil"]
            BY ONLY <3>2, <3>3, ErrorNames DEF Results
        <3>4. CASE result'[c] = [value |-> outcome[f].value, err |-> outcome[f].err]
            BY ONLY <3>1, <3>4 DEF Results
        <3> QED
            BY <2>4, <3>3, <3>4, OutcomeAnswer DEF TakesOutcome
    <2> QED
        BY <1>2, <2>1, <2>2, <2>3, <2>4, AnsweringStep DEF Answering, AnswersInv
<1> QED
    BY <1>1, <1>2

LEMMA KeepStaleStep ==
    ASSUME EngineInv, AnswersInv, Steady, [Next]_vars
    PROVE  KeepStaleHidesErrors'
<1> SUFFICES ASSUME NEW c \in Calls, KeepStaleOnError, pc'[c] = "returned",
                    entry'[c] # None
             PROVE  result'[c].err \in {"nil", "panic"}
    BY DEF KeepStaleHidesErrors
<1>1. CASE pc[c] = "returned"
    BY <1>1 DEF Steady, AnswersInv, KeepStaleHidesErrors
<1>2. CASE pc[c] # "returned"
    <2>1. ASSUME NEW f \in Calls, TakesOutcome(c, f)
          PROVE  result'[c].err \in {"nil", "panic"}
        <3>1. CASE /\ FallsBack(c, outcome[f])
                   /\ result'[c] = [value |-> entry[c].value, err |-> "nil"]
            BY <3>1
        <3>2. CASE /\ ~FallsBack(c, outcome[f])
                   /\ result'[c] = [value |-> outcome[f].value, err |-> outcome[f].err]
            BY <2>1, <3>2 DEF TakesOutcome, FallsBack
        <3> QED
            BY <2>1, <3>1, <3>2, OutcomeAnswer DEF TakesOutcome, EngineInv, TypeOK
    <2>2. HitsStore(c) \/ ServesStale(c) => result'[c].err = "nil"
        BY DEF HitsStore, ServesStale
    <2>3. Answering(c)
        BY <1>2, AnsweringStep DEF AnswersInv
    <2> QED
        BY <2>1, <2>2, <2>3 DEF Answering, Misses
<1> QED
    BY <1>1, <1>2

------------------------------------------------------------------------------
(* What follows for callers *)

LEMMA AnswersInit == Init => AnswersInv
<1> SUFFICES ASSUME Init PROVE AnswersInv
    OBVIOUS
<1>1. \A c \in Calls : Orderly(c)
    BY DEF Init, Orderly
<1>2. StoreKnown
    <2>1. OldEntry.value = Old
        BY DEF OldEntry, NewEntry
    <2> QED
        BY <2>1 DEF Init, StoreKnown, KnownEntry, Known, EntryOf, Has
<1>3. EntriesKnown
    BY DEF Init, EntriesKnown
<1> QED
    BY <1>1, <1>2, <1>3
    DEF Init, AnswersInv, OutcomeKnown, AnswerSourced, KeepStaleHidesErrors

LEMMA AnswersStep == EngineInv /\ AnswersInv /\ [Next]_vars => AnswersInv'
<1> SUFFICES ASSUME EngineInv, AnswersInv, [Next]_vars PROVE AnswersInv'
    OBVIOUS
<1>1. \A c \in Calls : Orderly(c)
    BY DEF AnswersInv
<1>2. Steady /\ StoreChanges /\ EntryChanges /\ OutcomeChanges
    BY <1>1, SteadyStep, ChangesStep DEF Changes
<1>3. StoreKnown' /\ EntriesKnown' /\ \A f \in Calls : OutcomeKnown(f)'
    BY <1>2, StoreKnownStep, EntriesKnownStep, OutcomesKnownStep DEF AnswersInv
<1>4. /\ \A c \in Calls : AnswerSourced(c)'
      /\ \A c \in Calls : pc'[c] = "returned" => result'[c] \in Results
      /\ KeepStaleHidesErrors'
    BY <1>2, AnswerSourcedStep, AnswersExistStep, KeepStaleStep
<1>5. \A c \in Calls : Orderly(c)'
    BY <1>1, OrderlyStep
<1> QED
    BY <1>3, <1>4, <1>5 DEF AnswersInv

\* Every entry stored or in a caller's hand is the one built for its value, under
\* the key of the call that made it, and so is what a flight found on its double
\* check; every answer given comes from one of these or from the call's own flight
\* (GetOrCompute, do and refresh of cache.go).
THEOREM AnswersAreSourced == Spec => []AnswersInv
<1>1. EngineInv /\ AnswersInv /\ [Next]_vars => AnswersInv'
    BY AnswersStep
<1> QED
    BY <1>1, AnswersInit, EngineInvariant, PTL DEF Spec

LEMMA AnswersJustify == AnswersInv => ServedValueIsJustified
<1> SUFFICES ASSUME AnswersInv, NEW c \in Calls, pc[c] = "returned",
                    result[c].err = "nil", result[c].value # None
             PROVE  /\ Justified(c, result[c].value)
                    /\ result[c].value # Old => key[result[c].value] = key[c]
    BY DEF ServedValueIsJustified
<1>1. result[c].value \in Values
    BY DEF AnswersInv, Results
<1> QED
    BY <1>1 DEF AnswersInv, AnswerSourced, Sourced

\* Get and GetOrCompute hand out only what was stored under the key asked for and
\* is fresh or within its stale window by the caller's clock reading, fresh by the
\* leader's, just computed, shared by the flight, or the configured fallback
\* (cache.go:279-340).
THEOREM AnswersAreJustified == Spec => []ServedValueIsJustified
BY AnswersJustify, AnswersAreSourced, PTL

\* Under KeepStaleOnError a caller that found an entry, in whatever state, never
\* sees an error of the computation or the store (cache.go:334-337).
THEOREM StaleHidesErrors == Spec => []KeepStaleHidesErrors
<1>1. AnswersInv => KeepStaleHidesErrors
    BY DEF AnswersInv
<1> QED
    BY <1>1, AnswersAreSourced, PTL
------------------------------------------------------------------------------
(* Metrics: what is counted for a call at each place of its run *)

NoneOf(c, kinds) == \A k \in kinds : k \notin events[c]

OneOf(c, kinds) ==
    \E k \in kinds : k \in events[c] /\ \A j \in kinds \ {k} : j \notin events[c]

Ends == {"refresh success", "refresh error"}

\* The lookups that return without an event.
Uncounted(c) ==
    \/ joined[c] # None /\ WaitsEarly /\ "miss" \notin events[c]
    \/ result[c].err = "store" /\ stage[c] = "none" /\ joined[c] = None

\* A lookup is counted when the entry is read, and no later step counts another.
LookupCounted(c) ==
    /\ pc[c] \in {"new", "peek fresh", "wait for flight", "peek entry"} =>
          events[c] = {} /\ joined[c] = None
    /\ pc[c] = "wait for flight" => WaitsEarly
    /\ pc[c] = "revalidate" => events[c] = {"stale hit"} /\ joined[c] = None
    /\ pc[c] = "do" => events[c] = {"miss"} /\ joined[c] = None
    /\ pc[c] = "leading" => events[c] \in {{"miss"}, {"miss", "set"}} /\ joined[c] = None
    /\ pc[c] = "waiting" =>
          joined[c] # None /\ (events[c] = {"miss"} \/ (events[c] = {} /\ WaitsEarly))
    /\ pc[c] = "returned" =>
          IF Uncounted(c) THEN NoneOf(c, Lookups) ELSE OneOf(c, Lookups)

\* The flight of a caller that returned is a refresh until it lands.  Its end is
\* counted by the step that ends the computation or the write, and by no other.
RefreshCounted(c) ==
    pc[c] = "returned" =>
        /\ stage[c] \notin {"read clock", "recheck fresh", "recheck entry"}
        /\ stage[c] = "spawned" => NoneOf(c, Ends \cup {"refresh start"})
        /\ stage[c] \in {"computing", "write"} =>
              "refresh start" \in events[c] /\ NoneOf(c, Ends)
        /\ stage[c] \in {"finish", "done", "landed"} /\ "refresh start" \in events[c] =>
              OneOf(c, Ends)

MetricsInv ==
    \A c \in Calls : op[c] = "GetOrCompute" => LookupCounted(c) /\ RefreshCounted(c)

\* All the counts of a call depend on.
Seen(c) == <<pc[c], op[c], joined[c], result[c], stage[c], events[c]>>

OnlySeen(c) == \A d \in Calls \ {c} : Seen(d)' = Seen(d)

Tallied(c) == op[c] = "GetOrCompute" => LookupCounted(c) /\ RefreshCounted(c)

LEMMA TallyStays ==
    ASSUME NEW d \in Calls, Tallied(d), Seen(d)' = Seen(d)
    PROVE  Tallied(d)'
BY DEF Tallied, LookupCounted, RefreshCounted, Uncounted, NoneOf, OneOf, Seen, WaitsEarly

\* A step of one call.
LEMMA TallyOne ==
    ASSUME NEW c \in Calls, OnlySeen(c), Tallied(c)', NEW d \in Calls, Tallied(d)
    PROVE  Tallied(d)'
<1>1. CASE d = c
    BY <1>1
<1>2. CASE d # c
    BY ONLY <1>2, TallyStays, OnlySeen(c), Tallied(d), d \in Calls DEF OnlySeen
<1> QED
    BY <1>1, <1>2

\* What each kind of assignment leaves of the other calls.
LEMMA ReturnSeen ==
    ASSUME CallTypes, NEW c \in Calls, NEW v, NEW err, Return(c, v, err)
    PROVE  /\ pc'[c] = "returned" /\ result'[c].err = err
           /\ \A d \in Calls \ {c} : pc'[d] = pc[d] /\ result'[d] = result[d]
BY DEF CallTypes, Return

LEMMA GoToSeen ==
    ASSUME CallTypes, NEW c \in Calls, NEW to, GoTo(c, to)
    PROVE  pc'[c] = to /\ \A d \in Calls \ {c} : pc'[d] = pc[d]
BY DEF CallTypes, GoTo

LEMMA EmitSeen ==
    ASSUME SharedTypes, NEW c \in Calls, NEW kinds, Emit(c, kinds)
    PROVE  events'[c] = events[c] \cup kinds /\ \A d \in Calls \ {c} : events'[d] = events[d]
BY DEF SharedTypes, Emit

LEMMA AdvanceSeen ==
    ASSUME FlightTypes, NEW c \in Calls, NEW to, Advance(c, to)
    PROVE  stage'[c] = to /\ \A d \in Calls \ {c} : stage'[d] = stage[d]
BY DEF FlightTypes, Advance

LEMMA OutcomeSeen ==
    ASSUME SharedTypes, CallTypes, NEW c \in Calls, NEW o, ReturnOutcome(c, o)
    PROVE  /\ pc'[c] = "returned"
           /\ events'[c] \in {events[c], events[c] \cup {"refresh error"}}
           /\ \A d \in Calls \ {c} :
                 pc'[d] = pc[d] /\ result'[d] = result[d] /\ events'[d] = events[d]
<1>1. CASE FallsBack(c, o)
    BY <1>1, ReturnSeen, EmitSeen DEF ReturnOutcome
<1>2. CASE ~FallsBack(c, o)
    BY <1>2, ReturnSeen DEF ReturnOutcome
<1> QED
    BY <1>1, <1>2

LEMMA TallyStep ==
    ASSUME EngineInv, \A c \in Calls : Orderly(c), \A c \in Calls : Tallied(c), [Next]_vars
    PROVE  \A c \in Calls : Tallied(c)'
<1> SUFFICES ASSUME NEW d \in Calls PROVE Tallied(d)'
    OBVIOUS
<1>0. SharedTypes /\ CallTypes /\ FlightTypes /\ CallsMatchFlights /\ StampsCarryTheirCall
    BY DEF EngineInv, TypeOK
<1>d. /\ DOMAIN pc = Calls /\ DOMAIN joined = Calls /\ DOMAIN result = Calls
      /\ DOMAIN stage = Calls /\ DOMAIN events = Calls
    BY ONLY <1>0 DEF SharedTypes, CallTypes, FlightTypes
<1>1. ASSUME NEW c \in Calls, StartSet(c) PROVE Tallied(d)'
    <2>1. op[c] # "GetOrCompute" /\ op' = op
        BY ONLY <1>1, <1>0, c \in Calls DEF StartSet, StampsCarryTheirCall
    <2>2. OnlySeen(c)
        BY ONLY <1>1, <1>0, c \in Calls, ReturnSeen, GoToSeen, EmitSeen
        DEF StartSet, OnlySeen, Seen, flightVars
    <2> QED
        BY ONLY <2>1, <2>2, TallyOne, Tallied(d), c \in Calls, d \in Calls DEF Tallied
<1>2. ASSUME NEW c \in Calls, DeleteEntry(c) PROVE Tallied(d)'
    <2>1. op[c] # "GetOrCompute" /\ op' = op
        BY ONLY <1>2, <1>0, c \in Calls DEF DeleteEntry, StampsCarryTheirCall
    <2>2. OnlySeen(c)
        BY ONLY <1>2, <1>0, c \in Calls, ReturnSeen, GoToSeen, EmitSeen
        DEF DeleteEntry, OnlySeen, Seen, flightVars
    <2> QED
        BY ONLY <2>1, <2>2, TallyOne, Tallied(d), c \in Calls, d \in Calls DEF Tallied
<1>3. ASSUME NEW c \in Calls, ClearEntries(c) PROVE Tallied(d)'
    <2>1. op[c] # "GetOrCompute" /\ op' = op
        BY ONLY <1>3, <1>0, c \in Calls DEF ClearEntries, StampsCarryTheirCall
    <2>2. OnlySeen(c)
        BY ONLY <1>3, <1>0, c \in Calls, ReturnSeen, GoToSeen, EmitSeen
        DEF ClearEntries, OnlySeen, Seen, flightVars
    <2> QED
        BY ONLY <2>1, <2>2, TallyOne, Tallied(d), c \in Calls, d \in Calls DEF Tallied
<1>4. ASSUME NEW c \in Calls, RemovalFails(c) PROVE Tallied(d)'
    <2>1. op[c] # "GetOrCompute" /\ op' = op
        BY ONLY <1>4, <1>0, c \in Calls DEF RemovalFails, StampsCarryTheirCall
    <2>2. OnlySeen(c)
        BY ONLY <1>4, <1>0, c \in Calls, ReturnSeen, GoToSeen, EmitSeen
        DEF RemovalFails, OnlySeen, Seen, flightVars
    <2> QED
        BY ONLY <2>1, <2>2, TallyOne, Tallied(d), c \in Calls, d \in Calls DEF Tallied
<1>5. ASSUME NEW c \in Calls, SetWrites(c) PROVE Tallied(d)'
    <2>1. op[c] # "GetOrCompute" /\ op' = op
        BY ONLY <1>5, <1>0, c \in Calls DEF SetWrites, StampsCarryTheirCall
    <2>2. OnlySeen(c)
        BY ONLY <1>5, <1>0, c \in Calls, ReturnSeen, GoToSeen, EmitSeen
        DEF SetWrites, OnlySeen, Seen, flightVars
    <2> QED
        BY ONLY <2>1, <2>2, TallyOne, Tallied(d), c \in Calls, d \in Calls DEF Tallied
<1>6. ASSUME NEW c \in Calls, WriteFails(c) PROVE Tallied(d)'
    <2>1. op[c] # "GetOrCompute" /\ op' = op
        BY ONLY <1>6, <1>0, c \in Calls DEF WriteFails, StampsCarryTheirCall
    <2>2. OnlySeen(c)
        BY ONLY <1>6, <1>0, c \in Calls, ReturnSeen, GoToSeen, EmitSeen
        DEF WriteFails, OnlySeen, Seen, flightVars
    <2> QED
        BY ONLY <2>1, <2>2, TallyOne, Tallied(d), c \in Calls, d \in Calls DEF Tallied
<1>7. ASSUME NEW c \in Calls, StartLookup(c) PROVE Tallied(d)'
    <2>1. OnlySeen(c) /\ op' = op
        BY ONLY <1>7, <1>d, c \in Calls
        DEF StartLookup, GoTo, OnlySeen, Seen, callVars, flightVars
    <2>2. Tallied(c)'
        <3>1. CASE op[c] # "GetOrCompute"
            BY ONLY <2>1, <3>1 DEF Tallied
        <3>2. CASE op[c] = "GetOrCompute"
            <4>1. /\ pc[c] = "new" /\ pc'[c] \in {"peek fresh", "peek entry"}
                  /\ events'[c] = events[c] /\ joined'[c] = joined[c]
                BY ONLY <1>7, <1>0, c \in Calls, GoToSeen DEF StartLookup
            <4> QED
                BY ONLY <2>1, <4>1, Tallied(c) DEF Tallied, LookupCounted, RefreshCounted
        <3> QED
            BY <3>1, <3>2
    <2> QED
        BY ONLY <2>1, <2>2, TallyOne, Tallied(d), c \in Calls, d \in Calls
<1>8. ASSUME NEW c \in Calls, PeekFresh(c) PROVE Tallied(d)'
    <2>1. OnlySeen(c) /\ op' = op
        BY ONLY <1>8, <1>d, c \in Calls
        DEF PeekFresh, Return, Emit, Hit, GoTo, OnlySeen, Seen, callVars, flightVars
    <2>2. Tallied(c)'
        <3>1. CASE op[c] # "GetOrCompute"
            BY ONLY <2>1, <3>1 DEF Tallied
        <3>2. CASE op[c] = "GetOrCompute"
            <4>0. /\ pc[c] = "peek fresh" /\ events[c] = {} /\ joined[c] = None
                  /\ joined' = joined /\ stage' = stage
                BY ONLY <1>8, <3>2, Tallied(c) DEF PeekFresh, flightVars, Tallied, LookupCounted
            <4>1. CASE Hit(c, store[key[c]].value)
                <5>1. /\ pc'[c] = "returned" /\ events'[c] = {"hit"}
                      /\ result'[c].err = "nil"
                    BY ONLY <4>0, <4>1, <1>d, c \in Calls DEF Hit, Return, Emit
                <5>2. ~Uncounted(c)' /\ OneOf(c, Lookups)'
                    BY ONLY <4>0, <5>1 DEF Uncounted, OneOf, Lookups
                <5>3. stage[c] = "none"
                    BY ONLY <4>0, <1>0, c \in Calls DEF CallsMatchFlights, MatchesFlight
                <5> QED
                    BY ONLY <4>0, <5>1, <5>2, <5>3 DEF Tallied, LookupCounted, RefreshCounted
            <4>2. CASE ~Hit(c, store[key[c]].value)
                <5>1. /\ \/ pc'[c] = "wait for flight" /\ WaitsEarly
                         \/ pc'[c] = "peek entry"
                      /\ events' = events
                    BY ONLY <1>8, <4>2, <1>0, c \in Calls, GoToSeen DEF PeekFresh
                <5> QED
                    BY ONLY <4>0, <5>1 DEF Tallied, LookupCounted, RefreshCounted, WaitsEarly
            <4> QED
                BY <4>1, <4>2
        <3> QED
            BY <3>1, <3>2
    <2> QED
        BY ONLY <2>1, <2>2, TallyOne, Tallied(d), c \in Calls, d \in Calls
<1>9. ASSUME NEW c \in Calls, WaitForFlight(c) PROVE Tallied(d)'
    <2>1. OnlySeen(c) /\ op' = op
        BY ONLY <1>9, <1>d, c \in Calls
        DEF WaitForFlight, GoTo, OnlySeen, Seen, callVars, flightVars
    <2>2. Tallied(c)'
        <3>1. CASE op[c] # "GetOrCompute"
            BY ONLY <2>1, <3>1 DEF Tallied
        <3>2. CASE op[c] = "GetOrCompute"
            <4>1. /\ events[c] = {} /\ joined[c] = None /\ WaitsEarly /\ events' = events
                BY ONLY <1>9, <3>2, Tallied(c) DEF WaitForFlight, Tallied, LookupCounted
            <4>2. /\ joined'[c] = flights[key[c]]
                  /\ pc'[c] = IF flights[key[c]] = None THEN "peek entry" ELSE "waiting"
                BY ONLY <1>9, <1>0, c \in Calls, GoToSeen DEF WaitForFlight, CallTypes
            <4> QED
                BY ONLY <4>1, <4>2 DEF Tallied, LookupCounted, RefreshCounted, WaitsEarly
        <3> QED
            BY <3>1, <3>2
    <2> QED
        BY ONLY <2>1, <2>2, TallyOne, Tallied(d), c \in Calls, d \in Calls
<1>10. ASSUME NEW c \in Calls, PeekEntry(c) PROVE Tallied(d)'
    <2>1. OnlySeen(c) /\ op' = op
        BY ONLY <1>10, <1>d, c \in Calls
        DEF PeekEntry, Return, Emit, Hit, GoTo, OnlySeen, Seen, callVars, flightVars
    <2>2. Tallied(c)'
        <3>1. CASE op[c] # "GetOrCompute"
            BY ONLY <2>1, <3>1 DEF Tallied
        <3>2. CASE op[c] = "GetOrCompute"
            <4>0. /\ pc[c] = "peek entry" /\ events[c] = {} /\ joined[c] = None
                  /\ joined' = joined /\ stage' = stage
                BY ONLY <1>10, <3>2, Tallied(c) DEF PeekEntry, flightVars, Tallied,
                   LookupCounted
            <4>1. CASE Hit(c, store[key[c]].value)
                <5>1. /\ pc'[c] = "returned" /\ events'[c] = {"hit"}
                      /\ result'[c].err = "nil"
                    BY ONLY <4>0, <4>1, <1>d, c \in Calls DEF Hit, Return, Emit
                <5>2. ~Uncounted(c)' /\ OneOf(c, Lookups)'
                    BY ONLY <4>0, <5>1 DEF Uncounted, OneOf, Lookups
                <5>3. stage[c] = "none"
                    BY ONLY <4>0, <1>0, c \in Calls DEF CallsMatchFlights, MatchesFlight
                <5> QED
                    BY ONLY <4>0, <5>1, <5>2, <5>3 DEF Tallied, LookupCounted, RefreshCounted
            <4>2. CASE GoTo(c, "revalidate") /\ Emit(c, {"stale hit"})
                <5>1. pc'[c] = "revalidate" /\ events'[c] = {"stale hit"}
                    BY ONLY <4>0, <4>2, <1>d, c \in Calls DEF GoTo, Emit
                <5> QED
                    BY ONLY <4>0, <5>1 DEF Tallied, LookupCounted, RefreshCounted
            <4>3. CASE GoTo(c, "do") /\ Emit(c, {"miss"})
                <5>1. pc'[c] = "do" /\ events'[c] = {"miss"}
                    BY ONLY <4>0, <4>3, <1>d, c \in Calls DEF GoTo, Emit
                <5> QED
                    BY ONLY <4>0, <5>1 DEF Tallied, LookupCounted, RefreshCounted
            <4> QED
                BY ONLY <1>10, <3>2, <4>1, <4>2, <4>3 DEF PeekEntry
        <3> QED
            BY <3>1, <3>2
    <2> QED
        BY ONLY <2>1, <2>2, TallyOne, Tallied(d), c \in Calls, d \in Calls
<1>11. ASSUME NEW c \in Calls, LookupFails(c) PROVE Tallied(d)'
    <2>1. OnlySeen(c) /\ op' = op
        BY ONLY <1>11, <1>d, c \in Calls
        DEF LookupFails, Return, OnlySeen, Seen, callVars, flightVars
    <2>2. Tallied(c)'
        <3>1. CASE op[c] # "GetOrCompute"
            BY ONLY <2>1, <3>1 DEF Tallied
        <3>2. CASE op[c] = "GetOrCompute"
            <4>1. /\ events[c] = {} /\ joined[c] = None /\ stage[c] = "none"
                  /\ UNCHANGED <<events, joined, stage>>
                BY ONLY <1>11, <3>2, <1>0, Tallied(c), c \in Calls
                DEF LookupFails, flightVars, Tallied, LookupCounted, CallsMatchFlights,
                   MatchesFlight
            <4>2. pc'[c] = "returned" /\ result'[c].err = "store"
                BY ONLY <1>11, <1>0, c \in Calls, ReturnSeen DEF LookupFails
            <4> QED
                BY ONLY <4>1, <4>2 DEF Tallied, LookupCounted, RefreshCounted, Uncounted, NoneOf
        <3> QED
            BY <3>1, <3>2
    <2> QED
        BY ONLY <2>1, <2>2, TallyOne, Tallied(d), c \in Calls, d \in Calls
<1>12. ASSUME NEW c \in Calls, Revalidate(c) PROVE Tallied(d)'
    <2>1. OnlySeen(c) /\ op' = op
        BY ONLY <1>12, <1>d, c \in Calls
        DEF Revalidate, Return, Advance, OnlySeen, Seen, callVars, flightVars
    <2>2. Tallied(c)'
        <3>1. CASE op[c] # "GetOrCompute"
            BY ONLY <2>1, <3>1 DEF Tallied
        <3>2. CASE op[c] = "GetOrCompute"
            <4>1. /\ pc[c] = "revalidate" /\ events[c] = {"stale hit"} /\ joined[c] = None
                  /\ UNCHANGED <<events, joined>>
                BY ONLY <1>12, <3>2, Tallied(c) DEF Revalidate, Tallied, LookupCounted
            <4>2. pc'[c] = "returned" /\ result'[c].err = "nil"
                BY ONLY <1>12, <1>0, c \in Calls, ReturnSeen DEF Revalidate
            <4>3. stage'[c] \in {"none", "spawned"}
                <5>1. stage[c] = "none"
                    BY ONLY <4>1, <1>0, c \in Calls DEF CallsMatchFlights, MatchesFlight
                <5> QED
                    BY ONLY <1>12, <5>1, <1>0, c \in Calls, AdvanceSeen DEF Revalidate
            <4>4. ~Uncounted(c)' /\ OneOf(c, Lookups)' /\ NoneOf(c, Ends \cup {"refresh start"})'
                BY ONLY <4>1, <4>2 DEF Uncounted, OneOf, Lookups, NoneOf, Ends
            <4> QED
                BY ONLY <4>2, <4>3, <4>4 DEF Tallied, LookupCounted, RefreshCounted
        <3> QED
            BY <3>1, <3>2
    <2> QED
        BY ONLY <2>1, <2>2, TallyOne, Tallied(d), c \in Calls, d \in Calls
<1>13. ASSUME NEW c \in Calls, Do(c) PROVE Tallied(d)'
    <2>1. OnlySeen(c) /\ op' = op
        BY ONLY <1>13, <1>d, c \in Calls
        DEF Do, GoTo, Advance, OnlySeen, Seen, callVars, flightVars
    <2>2. Tallied(c)'
        <3>1. CASE op[c] # "GetOrCompute"
            BY ONLY <2>1, <3>1 DEF Tallied
        <3>2. CASE op[c] = "GetOrCompute"
            <4>1. /\ pc[c] = "do" /\ events[c] = {"miss"} /\ joined[c] = None
                  /\ UNCHANGED events
                BY ONLY <1>13, <3>2, Tallied(c) DEF Do, Tallied, LookupCounted
            <4>2. \/ pc'[c] = "leading" /\ joined'[c] = None
                  \/ pc'[c] = "waiting" /\ joined'[c] # None
                BY ONLY <1>13, <4>1, <1>0, c \in Calls, GoToSeen DEF Do, CallTypes
            <4> QED
                BY ONLY <4>1, <4>2 DEF Tallied, LookupCounted, RefreshCounted
        <3> QED
            BY <3>1, <3>2
    <2> QED
        BY ONLY <2>1, <2>2, TallyOne, Tallied(d), c \in Calls, d \in Calls
<1>14. ASSUME NEW c \in Calls, Wait(c) PROVE Tallied(d)'
    <2>1. OnlySeen(c) /\ op' = op
        BY ONLY <1>14, <1>0, c \in Calls, OutcomeSeen
        DEF Wait, OnlySeen, Seen, flightVars
    <2>2. Tallied(c)'
        <3>1. CASE op[c] # "GetOrCompute"
            BY ONLY <2>1, <3>1 DEF Tallied
        <3>2. CASE op[c] = "GetOrCompute"
            <4>1. /\ pc[c] = "waiting" /\ joined[c] # None
                  /\ events[c] = {"miss"} \/ (events[c] = {} /\ WaitsEarly)
                  /\ UNCHANGED <<joined, stage>>
                BY ONLY <1>14, <3>2, Tallied(c) DEF Wait, flightVars, Tallied, LookupCounted
            <4>2. /\ pc'[c] = "returned"
                  /\ events'[c] \in {events[c], events[c] \cup {"refresh error"}}
                BY ONLY <1>14, <1>0, c \in Calls, OutcomeSeen DEF Wait
            <4>3. stage[c] = "none"
                BY ONLY <4>1, <1>0, c \in Calls DEF CallsMatchFlights, MatchesFlight
            <4>4. IF Uncounted(c)' THEN NoneOf(c, Lookups)' ELSE OneOf(c, Lookups)'
                BY ONLY <4>1, <4>2, <4>3 DEF Uncounted, OneOf, NoneOf, Lookups, WaitsEarly
            <4> QED
                BY ONLY <4>1, <4>2, <4>3, <4>4 DEF Tallied, LookupCounted, RefreshCounted
        <3> QED
            BY <3>1, <3>2
    <2> QED
        BY ONLY <2>1, <2>2, TallyOne, Tallied(d), c \in Calls, d \in Calls
<1>15. ASSUME NEW c \in Calls, LeaderReadsClock(c) PROVE Tallied(d)'
    <2>1. OnlySeen(c) /\ op' = op
        BY ONLY <1>15, <1>d, c \in Calls
        DEF LeaderReadsClock, Advance, OnlySeen, Seen, callVars, flightVars
    <2>2. Tallied(c)'
        <3>1. CASE op[c] # "GetOrCompute"
            BY ONLY <2>1, <3>1 DEF Tallied
        <3>2. CASE op[c] = "GetOrCompute"
            <4>1. /\ stage[c] = "read clock" /\ stage'[c] \in {"recheck fresh", "recheck entry"}
                  /\ UNCHANGED <<pc, joined, events>>
                BY ONLY <1>15, <1>0, c \in Calls, AdvanceSeen DEF LeaderReadsClock, callVars
            <4>2. pc[c] = "leading"
                BY ONLY <4>1, <3>2, <1>0, Tallied(c), c \in Calls
                DEF Tallied, RefreshCounted, CallsMatchFlights, MatchesFlight
            <4> QED
                BY ONLY <4>1, <4>2, <3>2, Tallied(c) DEF Tallied, LookupCounted, RefreshCounted
        <3> QED
            BY <3>1, <3>2
    <2> QED
        BY ONLY <2>1, <2>2, TallyOne, Tallied(d), c \in Calls, d \in Calls
<1>16. ASSUME NEW c \in Calls, RecheckFresh(c) PROVE Tallied(d)'
    <2>1. OnlySeen(c) /\ op' = op
        BY ONLY <1>16, <1>d, c \in Calls
        DEF RecheckFresh, Advance, Finishing, Recheck, OnlySeen, Seen, callVars, flightVars
    <2>2. Tallied(c)'
        <3>1. CASE op[c] # "GetOrCompute"
            BY ONLY <2>1, <3>1 DEF Tallied
        <3>2. CASE op[c] = "GetOrCompute"
            <4>1. stage[c] = "recheck fresh" /\ UNCHANGED <<pc, joined, events>>
                BY ONLY <1>16 DEF RecheckFresh, Recheck, callVars
            <4>2. pc[c] = "leading"
                BY ONLY <4>1, <3>2, <1>0, Tallied(c), c \in Calls
                DEF Tallied, RefreshCounted, CallsMatchFlights, MatchesFlight
            <4> QED
                BY ONLY <4>1, <4>2, <3>2, Tallied(c) DEF Tallied, LookupCounted, RefreshCounted
        <3> QED
            BY <3>1, <3>2
    <2> QED
        BY ONLY <2>1, <2>2, TallyOne, Tallied(d), c \in Calls, d \in Calls
<1>17. ASSUME NEW c \in Calls, RecheckEntry(c) PROVE Tallied(d)'
    <2>1. OnlySeen(c) /\ op' = op
        BY ONLY <1>17, <1>d, c \in Calls
        DEF RecheckEntry, Advance, Finishing, Recheck, OnlySeen, Seen, callVars, flightVars
    <2>2. Tallied(c)'
        <3>1. CASE op[c] # "GetOrCompute"
            BY ONLY <2>1, <3>1 DEF Tallied
        <3>2. CASE op[c] = "GetOrCompute"
            <4>1. stage[c] = "recheck entry" /\ UNCHANGED <<pc, joined, events>>
                BY ONLY <1>17 DEF RecheckEntry, Recheck, callVars
            <4>2. pc[c] = "leading"
                BY ONLY <4>1, <3>2, <1>0, Tallied(c), c \in Calls
                DEF Tallied, RefreshCounted, CallsMatchFlights, MatchesFlight
            <4> QED
                BY ONLY <4>1, <4>2, <3>2, Tallied(c) DEF Tallied, LookupCounted, RefreshCounted
        <3> QED
            BY <3>1, <3>2
    <2> QED
        BY ONLY <2>1, <2>2, TallyOne, Tallied(d), c \in Calls, d \in Calls
<1>18. ASSUME NEW c \in Calls, RefreshBegins(c) PROVE Tallied(d)'
    <2>1. OnlySeen(c) /\ op' = op
        BY ONLY <1>18, <1>d, c \in Calls
        DEF RefreshBegins, Emit, Advance, OnlySeen, Seen, callVars, flightVars
    <2>2. Tallied(c)'
        <3>1. CASE op[c] # "GetOrCompute"
            BY ONLY <2>1, <3>1 DEF Tallied
        <3>2. CASE op[c] = "GetOrCompute"
            <4>1. /\ stage[c] = "spawned" /\ stage'[c] = "computing"
                  /\ events'[c] = events[c] \cup {"refresh start"}
                  /\ UNCHANGED <<pc, joined, result>>
                BY ONLY <1>18, <1>0, c \in Calls, AdvanceSeen, EmitSeen DEF RefreshBegins,
                   callVars
            <4>2. pc[c] = "returned"
                BY ONLY <4>1, <1>0, c \in Calls DEF CallsMatchFlights, MatchesFlight
            <4>3. LookupCounted(c)'
                BY ONLY <4>1, <4>2, <3>2, Tallied(c)
                DEF Tallied, LookupCounted, Uncounted, NoneOf, OneOf, Lookups, WaitsEarly
            <4> QED
                BY ONLY <4>1, <4>2, <4>3, <3>2, Tallied(c)
                DEF Tallied, RefreshCounted, NoneOf, Ends
        <3> QED
            BY <3>1, <3>2
    <2> QED
        BY ONLY <2>1, <2>2, TallyOne, Tallied(d), c \in Calls, d \in Calls
<1>19. ASSUME NEW c \in Calls, ComputeSucceeds(c) PROVE Tallied(d)'
    <2>1. OnlySeen(c) /\ op' = op
        BY ONLY <1>19, <1>d, c \in Calls
        DEF ComputeSucceeds, Advance, OnlySeen, Seen, callVars, flightVars
    <2>2. Tallied(c)'
        <3>1. CASE op[c] # "GetOrCompute"
            BY ONLY <2>1, <3>1 DEF Tallied
        <3>2. CASE op[c] = "GetOrCompute"
            <4>1. /\ stage[c] = "computing" /\ stage'[c] = "write"
                  /\ UNCHANGED <<pc, joined, result, events>>
                BY ONLY <1>19, <1>0, c \in Calls, AdvanceSeen DEF ComputeSucceeds, callVars
            <4>2. pc[c] \in {"leading", "returned"}
                BY ONLY <4>1, <1>0, c \in Calls DEF CallsMatchFlights, MatchesFlight
            <4>3. LookupCounted(c)'
                BY ONLY <4>1, <4>2, <3>2, Tallied(c)
                DEF Tallied, LookupCounted, Uncounted, NoneOf, OneOf, Lookups, WaitsEarly
            <4> QED
                BY ONLY <4>1, <4>2, <4>3, <3>2, Tallied(c)
                DEF Tallied, RefreshCounted, NoneOf, Ends
        <3> QED
            BY <3>1, <3>2
    <2> QED
        BY ONLY <2>1, <2>2, TallyOne, Tallied(d), c \in Calls, d \in Calls
<1>20. ASSUME NEW c \in Calls, ComputeFails(c) PROVE Tallied(d)'
    <2>1. OnlySeen(c) /\ op' = op
        BY ONLY <1>20, <1>d, c \in Calls
        DEF ComputeFails, Advance, Finishing, Emit, OnlySeen, Seen, callVars, flightVars
    <2>2. Tallied(c)'
        <3>1. CASE op[c] # "GetOrCompute"
            BY ONLY <2>1, <3>1 DEF Tallied
        <3>2. CASE op[c] = "GetOrCompute"
            <4>1. /\ stage[c] = "computing" /\ stage'[c] = "finish"
                  /\ events'[c] = events[c] \cup IfRefresh(c, "refresh error")
                  /\ UNCHANGED <<pc, joined, result>>
                BY ONLY <1>20, <1>0, c \in Calls, AdvanceSeen, EmitSeen
                DEF ComputeFails, Finishing, callVars
            <4>2. pc[c] \in {"leading", "returned"}
                BY ONLY <4>1, <1>0, c \in Calls DEF CallsMatchFlights, MatchesFlight
            <4>3. LookupCounted(c)'
                <5>1. CASE pc[c] = "leading"
                    BY ONLY <4>1, <5>1, <3>2, Tallied(c)
                    DEF Tallied, LookupCounted, IfRefresh, IsRefresh
                <5>2. CASE pc[c] = "returned"
                    BY ONLY <4>1, <5>2, <3>2, Tallied(c)
                    DEF Tallied, LookupCounted, Uncounted, NoneOf, OneOf, Lookups, WaitsEarly,
                        IfRefresh
                <5> QED
                    BY <4>2, <5>1, <5>2
            <4> QED
                BY ONLY <4>1, <4>2, <4>3, <3>2, Tallied(c)
                DEF Tallied, RefreshCounted, NoneOf, OneOf, Ends, IfRefresh, IsRefresh
        <3> QED
            BY <3>1, <3>2
    <2> QED
        BY ONLY <2>1, <2>2, TallyOne, Tallied(d), c \in Calls, d \in Calls
<1>21. ASSUME NEW c \in Calls, ComputePanics(c) PROVE Tallied(d)'
    <2>1. OnlySeen(c) /\ op' = op
        BY ONLY <1>21, <1>d, c \in Calls
        DEF ComputePanics, Advance, Finishing, OnlySeen, Seen, callVars, flightVars
    <2>2. Tallied(c)'
        <3>1. CASE op[c] # "GetOrCompute"
            BY ONLY <2>1, <3>1 DEF Tallied
        <3>2. CASE op[c] = "GetOrCompute"
            <4>1. /\ pc[c] # "returned" /\ stage[c] = "computing"
                  /\ UNCHANGED <<pc, joined, events>>
                BY ONLY <1>21 DEF ComputePanics, IsRefresh, callVars
            <4>2. pc[c] = "leading"
                BY ONLY <4>1, <1>0, c \in Calls DEF CallsMatchFlights, MatchesFlight
            <4> QED
                BY ONLY <4>1, <4>2, <3>2, Tallied(c) DEF Tallied, LookupCounted, RefreshCounted
        <3> QED
            BY <3>1, <3>2
    <2> QED
        BY ONLY <2>1, <2>2, TallyOne, Tallied(d), c \in Calls, d \in Calls
<1>22. ASSUME NEW c \in Calls, FlightWrites(c) PROVE Tallied(d)'
    <2>1. OnlySeen(c) /\ op' = op
        BY ONLY <1>22, <1>d, c \in Calls
        DEF FlightWrites, Advance, Finishing, Emit, OnlySeen, Seen, callVars, flightVars
    <2>2. Tallied(c)'
        <3>1. CASE op[c] # "GetOrCompute"
            BY ONLY <2>1, <3>1 DEF Tallied
        <3>2. CASE op[c] = "GetOrCompute"
            <4>1. /\ stage[c] = "write" /\ stage'[c] = "finish"
                  /\ events'[c] = events[c] \cup ({"set"} \cup IfRefresh(c, "refresh success"))
                  /\ UNCHANGED <<pc, joined, result>>
                BY ONLY <1>22, <1>0, c \in Calls, AdvanceSeen, EmitSeen
                DEF FlightWrites, Finishing, callVars
            <4>2. pc[c] \in {"leading", "returned"}
                BY ONLY <4>1, <1>0, c \in Calls DEF CallsMatchFlights, MatchesFlight
            <4>3. LookupCounted(c)'
                <5>1. CASE pc[c] = "leading"
                    BY ONLY <4>1, <5>1, <3>2, Tallied(c)
                    DEF Tallied, LookupCounted, IfRefresh, IsRefresh
                <5>2. CASE pc[c] = "returned"
                    BY ONLY <4>1, <5>2, <3>2, Tallied(c)
                    DEF Tallied, LookupCounted, Uncounted, NoneOf, OneOf, Lookups, WaitsEarly,
                        IfRefresh
                <5> QED
                    BY <4>2, <5>1, <5>2
            <4> QED
                BY ONLY <4>1, <4>2, <4>3, <3>2, Tallied(c)
                DEF Tallied, RefreshCounted, NoneOf, OneOf, Ends, IfRefresh, IsRefresh
        <3> QED
            BY <3>1, <3>2
    <2> QED
        BY ONLY <2>1, <2>2, TallyOne, Tallied(d), c \in Calls, d \in Calls
<1>23. ASSUME NEW c \in Calls, FlightWriteFails(c) PROVE Tallied(d)'
    <2>1. OnlySeen(c) /\ op' = op
        BY ONLY <1>23, <1>d, c \in Calls
        DEF FlightWriteFails, Advance, Finishing, Emit, OnlySeen, Seen, callVars, flightVars
    <2>2. Tallied(c)'
        <3>1. CASE op[c] # "GetOrCompute"
            BY ONLY <2>1, <3>1 DEF Tallied
        <3>2. CASE op[c] = "GetOrCompute"
            <4>1. /\ stage[c] = "write" /\ stage'[c] = "finish"
                  /\ events'[c] = events[c] \cup IfRefresh(c, "refresh error")
                  /\ UNCHANGED <<pc, joined, result>>
                BY ONLY <1>23, <1>0, c \in Calls, AdvanceSeen, EmitSeen
                DEF FlightWriteFails, Finishing, callVars
            <4>2. pc[c] \in {"leading", "returned"}
                BY ONLY <4>1, <1>0, c \in Calls DEF CallsMatchFlights, MatchesFlight
            <4>3. LookupCounted(c)'
                <5>1. CASE pc[c] = "leading"
                    BY ONLY <4>1, <5>1, <3>2, Tallied(c)
                    DEF Tallied, LookupCounted, IfRefresh, IsRefresh
                <5>2. CASE pc[c] = "returned"
                    BY ONLY <4>1, <5>2, <3>2, Tallied(c)
                    DEF Tallied, LookupCounted, Uncounted, NoneOf, OneOf, Lookups, WaitsEarly,
                        IfRefresh
                <5> QED
                    BY <4>2, <5>1, <5>2
            <4> QED
                BY ONLY <4>1, <4>2, <4>3, <3>2, Tallied(c)
                DEF Tallied, RefreshCounted, NoneOf, OneOf, Ends, IfRefresh, IsRefresh
        <3> QED
            BY <3>1, <3>2
    <2> QED
        BY ONLY <2>1, <2>2, TallyOne, Tallied(d), c \in Calls, d \in Calls
<1>24. ASSUME NEW c \in Calls, FinishFlight(c) PROVE Tallied(d)'
    <2>1. OnlySeen(c) /\ op' = op
        BY ONLY <1>24, <1>d, c \in Calls
        DEF FinishFlight, Advance, OnlySeen, Seen, callVars, flightVars
    <2>2. Tallied(c)'
        <3>1. CASE op[c] # "GetOrCompute"
            BY ONLY <2>1, <3>1 DEF Tallied
        <3>2. CASE op[c] = "GetOrCompute"
            <4>1. /\ stage[c] = "finish" /\ stage'[c] = "done"
                  /\ UNCHANGED <<pc, joined, result, events>>
                BY ONLY <1>24, <1>0, c \in Calls, AdvanceSeen DEF FinishFlight, callVars
            <4>2. pc[c] \in {"leading", "returned"}
                BY ONLY <4>1, <1>0, c \in Calls DEF CallsMatchFlights, MatchesFlight
            <4>3. LookupCounted(c)'
                BY ONLY <4>1, <4>2, <3>2, Tallied(c)
                DEF Tallied, LookupCounted, Uncounted, NoneOf, OneOf, Lookups, WaitsEarly
            <4> QED
                BY ONLY <4>1, <4>2, <4>3, <3>2, Tallied(c)
                DEF Tallied, RefreshCounted, OneOf, Ends
        <3> QED
            BY <3>1, <3>2
    <2> QED
        BY ONLY <2>1, <2>2, TallyOne, Tallied(d), c \in Calls, d \in Calls
<1>25. ASSUME NEW c \in Calls, ReleaseWaiters(c) PROVE Tallied(d)'
    <2>1. OnlySeen(c) /\ op' = op
        BY ONLY <1>25, <1>0, c \in Calls, OutcomeSeen, AdvanceSeen
        DEF ReleaseWaiters, OnlySeen, Seen, flightVars
    <2>2. Tallied(c)'
        <3>1. CASE op[c] # "GetOrCompute"
            BY ONLY <2>1, <3>1 DEF Tallied
        <3>2. CASE op[c] = "GetOrCompute"
            <4>1. /\ stage[c] = "done" /\ stage'[c] = "landed" /\ joined' = joined
                BY ONLY <1>25, <1>0, c \in Calls, AdvanceSeen DEF ReleaseWaiters
            <4>2. CASE pc[c] = "leading"
                <5>1. /\ pc'[c] = "returned" /\ joined[c] = None
                      /\ events[c] \in {{"miss"}, {"miss", "set"}}
                      /\ events'[c] \in {events[c], events[c] \cup {"refresh error"}}
                    BY ONLY <1>25, <4>2, <3>2, <1>0, c \in Calls, OutcomeSeen, Tallied(c)
                    DEF ReleaseWaiters, Tallied, LookupCounted
                <5>2. ~Uncounted(c)' /\ OneOf(c, Lookups)' /\ "refresh start" \notin events'[c]
                    BY ONLY <4>1, <5>1 DEF Uncounted, OneOf, Lookups
                <5> QED
                    BY ONLY <4>1, <5>1, <5>2 DEF Tallied, LookupCounted, RefreshCounted
            <4>3. CASE pc[c] # "leading"
                <5>1. pc[c] = "returned"
                    BY ONLY <4>1, <4>3, <1>0, c \in Calls DEF CallsMatchFlights, MatchesFlight
                <5>2. UNCHANGED <<pc, result, events>>
                    BY ONLY <1>25, <4>3 DEF ReleaseWaiters
                <5>3. LookupCounted(c)'
                    BY ONLY <4>1, <5>1, <5>2, <3>2, Tallied(c)
                    DEF Tallied, LookupCounted, Uncounted, NoneOf, OneOf, Lookups, WaitsEarly
                <5> QED
                    BY ONLY <4>1, <5>1, <5>2, <5>3, <3>2, Tallied(c)
                    DEF Tallied, RefreshCounted, OneOf, Ends
            <4> QED
                BY <4>2, <4>3
        <3> QED
            BY <3>1, <3>2
    <2> QED
        BY ONLY <2>1, <2>2, TallyOne, Tallied(d), c \in Calls, d \in Calls
<1>26. ASSUME UNCHANGED callVars, UNCHANGED stage, UNCHANGED events PROVE Tallied(d)'
    BY ONLY <1>26, Tallied(d), d \in Calls, TallyStays DEF Seen, callVars
<1>27. CASE Tick \/ UNCHANGED vars \/ \E k \in Keys : StoreDrops(k)
    BY ONLY <1>26, <1>27 DEF Tick, StoreDrops, vars, flightVars
<1> QED
    BY <1>1, <1>2, <1>3, <1>4, <1>5, <1>6, <1>7, <1>8, <1>9, <1>10, <1>11, <1>12, <1>13,
       <1>14, <1>15, <1>16, <1>17, <1>18, <1>19, <1>20, <1>21, <1>22, <1>23, <1>24, <1>25,
       <1>27
    DEF Next, StartCall, CallStep, FlightStep, Quiescent

LEMMA TallyInit == Init => MetricsInv
BY DEF Init, MetricsInv, LookupCounted, RefreshCounted

LEMMA OneIsOne ==
    ASSUME NEW c \in Calls, NEW S
    PROVE  /\ NoneOf(c, S) => Cardinality(events[c] \cap S) = 0
           /\ OneOf(c, S) => Cardinality(events[c] \cap S) = 1
<1>1. NoneOf(c, S) => events[c] \cap S = {}
    BY DEF NoneOf
<1>2. OneOf(c, S) => \E k : events[c] \cap S = {k}
    BY DEF OneOf
<1> QED
    BY <1>1, <1>2, FS_EmptySet, FS_Singleton

\* At each place of its run a call has counted what it should have by then: at
\* most one lookup, and for a refresh one start and at most one end
\* (cache.go:206-247,279-340).
THEOREM CountsKeepPace == Spec => []MetricsInv
<1>1. EngineInv /\ AnswersInv /\ MetricsInv /\ [Next]_vars => MetricsInv'
    BY TallyStep DEF MetricsInv, AnswersInv, Tallied
<1> QED
    BY <1>1, TallyInit, EngineInvariant, AnswersAreSourced, PTL DEF Spec

LEMMA CountsAddUp == MetricsInv => MetricsAddUp
BY OneIsOne
DEF MetricsInv, MetricsAddUp, LookupCounted, RefreshCounted, Uncounted, Ends

\* Every GetOrCompute that has returned counted one hit, miss or stale hit, unless
\* it waited before it read an entry or the store refused it; every refresh that
\* began and landed counted one success or error (cache.go:206-247,279-340).
THEOREM EventsAddUp == Spec => []MetricsAddUp
BY CountsAddUp, CountsKeepPace, PTL

------------------------------------------------------------------------------
(* Any clock *)

\* The clock shows another time than before, be it an earlier one: the wall clock
\* that the ticker stores is set back, a clock given by the caller does as it likes.
\* Between such steps it may stand still for ever, as after Stop.
ClockTurns ==
    /\ clock' \in Nat \ {0}
    /\ UNCHANGED <<store, flights, callVars, flightVars, events>>

AnyClockSpec == Init /\ [][Next \/ ClockTurns]_vars

SoundInv == EngineInv /\ AnswersInv /\ MetricsInv

LEMMA ClockTurnsEngine == EngineInv /\ ClockTurns => EngineInv'
<1> SUFFICES ASSUME EngineInv, ClockTurns PROVE EngineInv'
    OBVIOUS
<1>0. /\ clock' \in Nat \ {0} /\ UNCHANGED <<store, flights, events>>
      /\ UNCHANGED <<pc, op, key, now, entry, joined, result>>
      /\ UNCHANGED <<stage, leadNow, stamped, outcome>>
    BY DEF ClockTurns, callVars, flightVars
<1>1. TypeOK'
    BY <1>0 DEF EngineInv, TypeOK, SharedTypes, CallTypes, FlightTypes
<1>2. FlightMapExact'
    BY <1>0 DEF EngineInv, FlightMapExact
<1>3. CallsMatchFlights'
    BY <1>0 DEF EngineInv, CallsMatchFlights, MatchesFlight
<1>4. StampsCarryTheirCall'
    BY <1>0 DEF EngineInv, StampsCarryTheirCall
<1>5. LeaderNeverRecomputesFresh'
    BY <1>0 DEF EngineInv, LeaderNeverRecomputesFresh, RecomputeJustified,
       Has, IsFresh, SetByCaller
<1> QED
    BY <1>1, <1>2, <1>3, <1>4, <1>5 DEF EngineInv

LEMMA ClockTurnsAnswers == EngineInv /\ AnswersInv /\ ClockTurns => AnswersInv'
<1> SUFFICES ASSUME EngineInv, AnswersInv, ClockTurns PROVE AnswersInv'
    OBVIOUS
<1>0. /\ UNCHANGED <<store, events, pc, op, key, now, entry, joined, result>>
      /\ UNCHANGED <<stage, leadNow, stamped, outcome>>
    BY DEF ClockTurns, callVars, flightVars
<1>1. Steady
    BY ONLY <1>0 DEF Steady
<1>2. ASSUME NEW v PROVE EntryOf(v)' = EntryOf(v)
    BY ONLY <1>0 DEF EntryOf
<1>3. ASSUME NEW c \in Calls PROVE Orderly(c)'
    BY <1>0, OrderlyStays DEF AnswersInv, Undisturbed
<1>4. StoreKnown' /\ EntriesKnown'
    BY <1>0, <1>2 DEF AnswersInv, StoreKnown, EntriesKnown, KnownEntry, Known, Has
<1>5. ASSUME NEW f \in Calls PROVE OutcomeKnown(f)'
    <2> SUFFICES ASSUME NEW v \in Values \ {f}, outcome'[f] # None, outcome'[f].value = v
                 PROVE  FreshToLeader(f, EntryOf(v))' /\ Known(key[f], v)'
        BY DEF OutcomeKnown
    <2>1. FreshToLeader(f, EntryOf(v)) /\ Known(key[f], v)
        BY <1>0 DEF AnswersInv, OutcomeKnown
    <2>2. Known(key[f], v)'
        BY ONLY <1>0, <2>1 DEF Known
    <2>3. FreshToLeader(f, EntryOf(v))'
        BY ONLY <1>0, <1>2, <2>1 DEF FreshToLeader, IsFresh
    <2> QED
        BY <2>2, <2>3
<1>6. ASSUME NEW c \in Calls PROVE AnswerSourced(c)'
    BY <1>0, <1>1, SourcedStays DEF AnswersInv, AnswerSourced
<1>7. KeepStaleHidesErrors' /\ \A c \in Calls : pc'[c] = "returned" => result'[c] \in Results
    BY <1>0 DEF AnswersInv, KeepStaleHidesErrors
<1> QED
    BY <1>3, <1>4, <1>5, <1>6, <1>7 DEF AnswersInv

LEMMA ClockTurnsCounts == MetricsInv /\ ClockTurns => MetricsInv'
<1> SUFFICES ASSUME MetricsInv, ClockTurns PROVE MetricsInv'
    OBVIOUS
<1>1. UNCHANGED <<pc, op, joined, result, stage, events>>
    BY DEF ClockTurns, callVars, flightVars
<1>2. \A d \in Calls : Tallied(d) /\ Seen(d)' = Seen(d)
    BY <1>1 DEF MetricsInv, Tallied, Seen
<1> QED
    BY <1>2, TallyStays DEF MetricsInv, Tallied

LEMMA SoundInit == Init => SoundInv
BY InvInit, AnswersInit, TallyInit DEF SoundInv

LEMMA SoundStep == SoundInv /\ [Next \/ ClockTurns]_vars => SoundInv'
<1>1. SoundInv /\ [Next]_vars => SoundInv'
    BY InvStep, AnswersStep, TallyStep DEF SoundInv, MetricsInv, AnswersInv, Tallied
<1>2. SoundInv /\ ClockTurns => SoundInv'
    BY ClockTurnsEngine, ClockTurnsAnswers, ClockTurnsCounts DEF SoundInv
<1> QED
    BY <1>1, <1>2

\* The invariants about flights, answers and counts do not rest on time going
\* forward; those about deadlines do (clock.go:8-51, cache.go:121-340).
THEOREM AnyClockInvariant == AnyClockSpec => []SoundInv
BY SoundInit, SoundStep, PTL DEF AnyClockSpec

LEMMA SoundAnswers ==
    SoundInv =>
        EngineInv /\ ServedValueIsJustified /\ KeepStaleHidesErrors /\ MetricsAddUp
BY AnswersJustify, CountsAddUp DEF SoundInv, AnswersInv

\* Whatever a clock does, one set back, stopped or the caller's own: flights and
\* callers agree, every answer is justified by the times its call has read, and
\* the events add up (options.go:67-71, clock.go:8-51, cache.go:279-340).
THEOREM AnyClockIsSound ==
    AnyClockSpec =>
        [](EngineInv /\ ServedValueIsJustified /\ KeepStaleHidesErrors /\ MetricsAddUp)
BY SoundAnswers, AnyClockInvariant, PTL

------------------------------------------------------------------------------
(* The cache with Bypass *)

AnyClockBypass == BypassInit /\ [][BypassNext \/ ClockTurns]_vars

\* What a GetOrCompute can come to.
Computed(c) ==
    result[c] \in {[value |-> c, err |-> "nil"], [value |-> None, err |-> "compute"],
                   [value |-> None, err |-> "panic"]}

BypassedCall(c) ==
    /\ pc[c] = "new" => events[c] = {}
    /\ pc[c] = "bypass" => op[c] = "GetOrCompute" /\ events[c] = {"miss"}
    /\ pc[c] = "returned" =>
          IF op[c] = "GetOrCompute" THEN events[c] = {"miss"} /\ Computed(c)
                                    ELSE result[c].value = None

BypassInv ==
    /\ clock \in Nat \ {0}
    /\ pc \in [Calls -> {"new", "bypass", "returned"}]
    /\ op \in [Calls -> Ops]
    /\ DOMAIN result = Calls /\ DOMAIN events = Calls
    /\ \A c \in Calls : joined[c] = None /\ BypassedCall(c)
    /\ store \in [Keys -> {None, OldEntry}]
    /\ flights = [k \in Keys |-> None]

\* Nothing but the store and the clock changes.
Untouched == UNCHANGED <<pc, op, result, events, joined, flights>>

\* A call that computes nothing answers and leaves the others alone.
LEMMA OthersReturn ==
    ASSUME BypassInv, NEW c \in Calls, op[c] # "GetOrCompute",
           UNCHANGED <<op, joined, flights, clock>>,
           NEW err, Return(c, None, err), DOMAIN events' = Calls,
           \A d \in Calls \ {c} : events'[d] = events[d],
           store' \in [Keys -> {None, OldEntry}]
    PROVE  BypassInv'
<1>1. ASSUME NEW d \in Calls PROVE BypassedCall(d)'
    BY DEF BypassInv, BypassedCall, Computed, Return
<1> QED
    BY <1>1 DEF BypassInv, Return

LEMMA BypassInitially == BypassInit => BypassInv
BY DEF BypassInit, Init, BypassInv, BypassedCall

LEMMA BypassStep == BypassInv /\ [BypassNext \/ ClockTurns]_vars => BypassInv'
<1> SUFFICES ASSUME BypassInv, [BypassNext \/ ClockTurns]_vars PROVE BypassInv'
    OBVIOUS
<1>1. ASSUME NEW c \in Calls, LacksStore(c) \/ Refrains(c) PROVE BypassInv'
    BY <1>1, OthersReturn DEF LacksStore, Refrains, AnswerAtOnce, BypassInv
<1>2. ASSUME NEW c \in Calls, Removes(c) PROVE BypassInv'
    <2>1. CASE DeleteEntry(c)
        BY <2>1, OthersReturn DEF DeleteEntry, Emit, BypassInv
    <2>2. CASE ClearEntries(c)
        BY <2>2, OthersReturn DEF ClearEntries, BypassInv
    <2>3. CASE RemovalFails(c)
        BY <2>3, OthersReturn DEF RemovalFails, BypassInv
    <2> QED
        BY <1>2, <2>1, <2>2, <2>3 DEF Removes
<1>3. ASSUME NEW c \in Calls, StartBypassed(c) PROVE BypassInv'
    <2>1. ASSUME NEW d \in Calls PROVE BypassedCall(d)'
        BY <1>3 DEF BypassInv, BypassedCall, Computed, StartBypassed, GoTo, Emit
    <2> QED
        BY <1>3, <2>1 DEF StartBypassed, GoTo, Emit, BypassInv
<1>4. ASSUME NEW c \in Calls, BypassComputes(c) PROVE BypassInv'
    <2>1. PICK v, err : /\ Return(c, v, err)
                        /\ [value |-> v, err |-> err] \in
                              {[value |-> c, err |-> "nil"],
                               [value |-> None, err |-> "compute"],
                               [value |-> None, err |-> "panic"]}
        BY <1>4 DEF BypassComputes
    <2>2. ASSUME NEW d \in Calls PROVE BypassedCall(d)'
        BY <1>4, <2>1 DEF BypassInv, BypassedCall, Computed, Return, BypassComputes
    <2> QED
        BY <1>4, <2>1, <2>2 DEF Return, BypassInv, BypassComputes
<1>5. ASSUME Untouched, clock' \in Nat \ {0}, store' \in [Keys -> {None, OldEntry}]
      PROVE  BypassInv'
    <2>1. ASSUME NEW d \in Calls PROVE BypassedCall(d)'
        BY <1>5 DEF BypassInv, BypassedCall, Computed, Untouched
    <2> QED
        BY <1>5, <2>1 DEF BypassInv, Untouched
<1>6. ASSUME NEW k \in Keys, StoreDrops(k) PROVE BypassInv'
    BY <1>5, <1>6 DEF StoreDrops, BypassInv, callVars, Untouched
<1>7. CASE Tick \/ ClockTurns \/ UNCHANGED vars
    BY <1>5, <1>7 DEF Tick, ClockTurns, BypassInv, callVars, vars, Untouched
<1> QED
    BY <1>1, <1>2, <1>3, <1>4, <1>6, <1>7 DEF BypassNext, BypassStarts, Quiescent

LEMMA BypassAnswers ==
    BypassInv => BypassAlwaysComputes /\ ServedValueIsJustified /\ MetricsAddUp
<1> SUFFICES ASSUME BypassInv
             PROVE  BypassAlwaysComputes /\ ServedValueIsJustified /\ MetricsAddUp
    OBVIOUS
<1>1. BypassAlwaysComputes
    BY DEF BypassInv, BypassedCall, BypassAlwaysComputes, Computed
<1>2. ASSUME NEW c \in Calls, pc[c] = "returned", result[c].value # None
      PROVE  op[c] = "GetOrCompute" /\ result[c].value = c
    BY <1>2 DEF BypassInv, BypassedCall, Computed
<1>3. ServedValueIsJustified
    <2> SUFFICES ASSUME NEW c \in Calls, pc[c] = "returned", result[c].value # None
                 PROVE  Justified(c, result[c].value) /\ key[result[c].value] = key[c]
        BY DEF ServedValueIsJustified
    <2> QED
        BY <1>2 DEF Justified
<1>4. ASSUME NEW c \in Calls, op[c] = "GetOrCompute", pc[c] = "returned"
      PROVE  /\ Cardinality(events[c] \cap Lookups) = 1
             /\ "refresh start" \notin events[c]
             /\ joined[c] = None /\ result[c].err # "store"
    <2>1. events[c] = {"miss"} /\ joined[c] = None /\ result[c].err # "store"
        BY <1>4 DEF BypassInv, BypassedCall, Computed
    <2>2. events[c] \cap Lookups = {"miss"}
        BY <2>1 DEF Lookups
    <2> QED
        BY <2>1, <2>2, FS_Singleton
<1>5. MetricsAddUp
    BY <1>4 DEF MetricsAddUp
<1> QED
    BY <1>1, <1>3, <1>5

\* The operation on a key is for ever on that key.
LEMMA KeysStay == [Next \/ BypassNext \/ ClockTurns]_vars => key' = key
<1> SUFFICES ASSUME [Next \/ BypassNext \/ ClockTurns]_vars PROVE key' = key
    OBVIOUS
<1>1. ASSUME NEW c \in Calls, StartCall(c) PROVE key' = key
    BY <1>1 DEF StartCall, StartLookup, StartSet, DeleteEntry, ClearEntries, RemovalFails
<1>2. ASSUME NEW c \in Calls, CallStep(c) PROVE key' = key
    BY <1>2 DEF CallStep, SetWrites, PeekFresh, WaitForFlight, PeekEntry, LookupFails,
       WriteFails, Revalidate, Do, Wait
<1>3. ASSUME NEW c \in Calls, FlightStep(c) PROVE key' = key
    BY <1>3 DEF FlightStep, LeaderReadsClock, Recheck, RecheckFresh, RecheckEntry,
       RefreshBegins, ComputeSucceeds, ComputeFails, ComputePanics, FlightWrites,
       FlightWriteFails, FinishFlight, ReleaseWaiters, callVars
<1>4. ASSUME NEW c \in Calls, BypassStarts(c) \/ BypassComputes(c) PROVE key' = key
    BY <1>4 DEF BypassStarts, BypassComputes, LacksStore, Refrains, AnswerAtOnce, Removes,
       DeleteEntry, ClearEntries, RemovalFails, StartBypassed
<1>5. ASSUME NEW k \in Keys, StoreDrops(k) PROVE key' = key
    BY <1>5 DEF StoreDrops, callVars
<1>6. CASE Tick \/ Quiescent \/ ClockTurns \/ UNCHANGED vars
    BY <1>6 DEF Tick, Quiescent, ClockTurns, callVars, vars
<1> QED
    BY <1>1, <1>2, <1>3, <1>4, <1>5, <1>6 DEF Next, BypassNext

\* With Bypass every GetOrCompute answers what it computed itself, or why it could
\* not, and counts one miss; nothing is stored and no flight is registered
\* (docs/API.md:160, cache.go:206-238,274-282).  Nothing is asked of an expiration
\* policy or a clock.
THEOREM BypassComputesItself ==
    AnyClockBypass => [](BypassAlwaysComputes /\ ServedValueIsJustified /\ MetricsAddUp)
BY BypassInitially, BypassStep, BypassAnswers, PTL DEF AnyClockBypass
==============================================================================
