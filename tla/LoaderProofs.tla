----------------------------- MODULE LoaderProofs ----------------------------
(***************************************************************************)
(* Safety of the loader for any number of callers and loads.  LoaderInv is *)
(* inductive: one step per action of Next.                                 *)
(***************************************************************************)
EXTENDS Loader, TLAPS

\* What a load may do to the value, the error and ready.
LEMMA OutcomeKeeps ==
    ASSUME LoaderAssumption, LoaderInv, NEW r \in Results, loads' \in Results,
           loads <= loads', r <= loads', Outcome(r)
    PROVE  /\ value' \in Results /\ err' \in {"nil", "load"} /\ ready' \in BOOLEAN
           /\ ready' => value' \in 1..loads' /\ err' = "nil"
  <1>1. CASE r = Failed
    BY <1>1 DEF LoaderAssumption, Outcome, StoreError, LoaderInv, TypeOK, Results, Failed
  <1>2. CASE r # Failed
    BY <1>2 DEF LoaderAssumption, Outcome, Store, LoaderInv, TypeOK, Results, Failed
  <1> QED  BY <1>1, <1>2

LEMMA ResultsGrow ==
    ASSUME LoaderAssumption, LoaderInv, NEW r \in Results, NextResult(r)
    PROVE  loads' \in Results /\ loads <= loads' /\ r <= loads'
  BY DEF LoaderAssumption, NextResult, LoaderInv, TypeOK, Results, Failed

LEMMA InitLoader ==
    ASSUME LoaderAssumption, Init
    PROVE  LoaderInv
  <1>1. 0 \in Results  BY DEF LoaderAssumption, Results
  <1>2. got \in [Readers -> [value : Results, err : {"nil", "load"}]]
    BY <1>1 DEF Init
  <1>3. TypeOK
    BY <1>1, <1>2 DEF Init, TypeOK, Failed, Loop!LoopInit, Loop!LoopTypes
  <1> QED
    BY <1>3 DEF Init, LoaderInv, Failed, DoneClosed, Loop!LoopInit

LEMMA NextLoader ==
    ASSUME LoaderAssumption, LoaderInv, [Next]_vars
    PROVE  LoaderInv'
  <1> USE LoaderAssumption DEF LoaderInv, TypeOK, DoneClosed, Loop!LoopTypes
  <1>1. CASE FirstLoad
    <2>1. PICK r \in Results : NextResult(r) /\ Outcome(r)  BY <1>1 DEF FirstLoad
    <2>2. loads' \in Results /\ loads <= loads' /\ r <= loads'
      BY <2>1, ResultsGrow
    <2>3. /\ value' \in Results /\ err' \in {"nil", "load"} /\ ready' \in BOOLEAN
          /\ ready' => value' \in 1..loads' /\ err' = "nil"
      BY <2>1, <2>2, OutcomeKeeps
    <2> QED  BY <1>1, <2>2, <2>3 DEF FirstLoad, Loop!Run, callVars, Results
  <1>2. CASE LoopStep
    BY <1>2 DEF LoopStep, Loop!TickerFires, Loop!Ends, Loop!LoadBegins, valueVars, callVars
  <1>3. CASE LoadReturns
    <2>1. PICK r \in Results : Loop!LoadReturns(r) /\ NextResult(r)
      BY <1>3 DEF LoadReturns
    <2>2. loads' \in Results /\ loads <= loads' /\ r <= loads'
      BY <2>1, ResultsGrow
    <2> QED
      BY <1>3, <2>1, <2>2 DEF LoadReturns, Loop!LoadReturns, valueVars, callVars, Results
  <1>4. CASE Hook
    <2>1. loads' \in Results /\ loads <= loads' /\ loaded <= loads'
      BY <1>4 DEF Hook, Results
    <2>2. /\ value' \in Results /\ err' \in {"nil", "load"} /\ ready' \in BOOLEAN
          /\ ready' => value' \in 1..loads' /\ err' = "nil"
      BY <1>4, <2>1, OutcomeKeeps DEF Hook
    <2> QED  BY <1>4, <2>1, <2>2 DEF Hook, Loop!HookReturns, callVars
  <1>5. CASE CleansUp
    BY <1>5 DEF CleansUp, valueVars, callVars
  <1>6. CASE Ends
    BY <1>6 DEF Ends, loopVars, valueVars, callVars
  <1>7. CASE RelayEnds
    BY <1>7 DEF RelayEnds, valueVars, callVars
  <1>8. ASSUME NEW c \in Readers, ValueBegins(c) \/ ValueCancelled(c)
        PROVE  LoaderInv'
    BY <1>8 DEF ValueBegins, ValueCancelled, loopVars, valueVars
  <1>9. ASSUME NEW c \in Readers, ValueReturns(c)
        PROVE  LoaderInv'
    BY <1>9 DEF ValueReturns, loopVars, valueVars
  <1>10. ASSUME NEW s \in Stoppers, StopBegins(s)
         PROVE  LoaderInv'
    BY <1>10 DEF StopBegins, loopVars, valueVars
  <1>11. ASSUME NEW s \in Stoppers, StopPanics(s)
         PROVE  LoaderInv'
    BY <1>11 DEF StopPanics, loopVars, valueVars
  <1>12. ASSUME NEW s \in Stoppers, StopReturns(s)
         PROVE  LoaderInv'
    BY <1>12 DEF StopReturns, loopVars, valueVars
  <1>13. CASE UNCHANGED vars
    BY <1>13 DEF vars, loopVars, valueVars, callVars
  <1> QED
    BY <1>1, <1>2, <1>3, <1>4, <1>5, <1>6, <1>7, <1>8, <1>9, <1>10, <1>11, <1>12, <1>13
       DEF Next, Quiescent

\* Every state of the loader satisfies LoaderInv: in particular the value is a
\* loaded one as soon as ready is closed, and a Stop has returned only when the
\* goroutine is gone.
THEOREM LoaderInvariant == Spec => []LoaderInv
  <1>1. Init => LoaderInv  BY LoaderAssumption, InitLoader
  <1>2. LoaderInv /\ [Next]_vars => LoaderInv'  BY LoaderAssumption, NextLoader
  <1> QED  BY <1>1, <1>2, PTL DEF Spec

\* Value answers with loaded values and no error (loader.go:103-128).
THEOREM ValueIsLoaded == Spec => []AnswersAreValues
  <1>1. LoaderInv => AnswersAreValues  BY DEF LoaderInv, AnswersAreValues
  <1> QED  BY <1>1, LoaderInvariant, PTL

\* After Stop has returned no load runs and the value stays (loader.go:131-134).
THEOREM StopIsFinal == Spec => NothingAfterStop
  <1> DEFINE Quiet ==
        \A s \in Stoppers : stopper[s] = "returned" =>
            loop' = "ended" /\ UNCHANGED <<valueVars, loads>>
  <1>1. ASSUME LoaderInv, [Next]_vars
        PROVE  [Quiet]_vars
    <2> SUFFICES ASSUME NEW s \in Stoppers, stopper[s] = "returned", Next
                 PROVE  loop' = "ended" /\ UNCHANGED <<valueVars, loads>>
      BY <1>1
    <2>1. run = "stopped" /\ loop = "ended"
      BY <1>1 DEF LoaderInv, DoneClosed
    <2> QED
      BY <2>1 DEF Next, FirstLoad, LoopStep, LoadReturns, Hook, CleansUp, Ends, RelayEnds,
             ValueBegins, ValueReturns, ValueCancelled, StopBegins, StopPanics,
             StopReturns, Quiescent, vars, loopVars, valueVars, callVars,
             Loop!TickerFires, Loop!Ends, Loop!LoadBegins, Loop!LoadReturns,
             Loop!HookReturns
  <1> QED  BY <1>1, LoaderInvariant, PTL DEF Spec, NothingAfterStop
==============================================================================
