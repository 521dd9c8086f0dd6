--------------------------- MODULE BackgroundProofs --------------------------
(***************************************************************************)
(* The pipeline from Keep to Mirror keeps versions in order, for any number*)
(* of versions and failures.  BackgroundInv is inductive.                  *)
(***************************************************************************)
EXTENDS Background, TLAPS

LEMMA InitBackground ==
    ASSUME BackgroundAssumption, Init
    PROVE  BackgroundInv
  <1> USE DEF BackgroundAssumption, Init, Results, Versions, Absent
  <1>1. TypeOK
    <2>1. KLoop!LoopTypes /\ MLoop!LoopTypes
      BY DEF KLoop!LoopInit, MLoop!LoopInit, KLoop!LoopTypes, MLoop!LoopTypes
    <2>2. source \in Versions /\ 0 \in 0..MaxVersion /\ faults \in 0..MaxFaults
      OBVIOUS
    <2> QED  BY <2>1, <2>2 DEF TypeOK
  <1>2. InOrder
    BY DEF InOrder
  <1> QED
    BY <1>1, <1>2 DEF BackgroundInv, KLoop!LoopInit, MLoop!LoopInit

LEMMA NextBackground ==
    ASSUME BackgroundAssumption, BackgroundInv, [Next]_vars
    PROVE  /\ BackgroundInv'
           /\ kept <= kept' /\ mirrored <= mirrored'
  <1> USE BackgroundAssumption
      DEF BackgroundInv, TypeOK, InOrder, Results, Versions, Absent, KLoop!LoopTypes,
          MLoop!LoopTypes
  <1> DEFINE Good == BackgroundInv' /\ kept <= kept' /\ mirrored <= mirrored'
  <1>1. ASSUME KeepLoads  PROVE Good
    BY <1>1 DEF KeepLoads, Fault, kloopVars, mirrorVars, mloopVars
  <1>2. ASSUME KeepReturns  PROVE Good
    BY <1>2 DEF KeepReturns, WriteThrough, Fault, KLoop!Run, mirrorVars, mloopVars
  <1>3. ASSUME KeepLoopStep  PROVE Good
    <2>0. /\ UNCHANGED <<source, remote, faults, keep, kept, publishing, keepTicks>>
          /\ UNCHANGED <<mirror, mirrored, mirrorTicks, mloop, mtick, mloaded, mcancelled>>
      BY ONLY <1>3 DEF KeepLoopStep, mirrorVars, mloopVars
    <2>1. CASE KLoop!TickerFires
      <3>1. ktick' = TRUE /\ UNCHANGED <<kloop, kloaded, kcancelled>>
        BY ONLY <2>1 DEF KLoop!TickerFires
      <3> QED  BY <2>0, <3>1
    <2>2. CASE KLoop!Ends
      <3>1. kloop = "select" /\ kloop' = "ended" /\ UNCHANGED <<ktick, kloaded, kcancelled>>
        BY ONLY <2>2 DEF KLoop!Ends
      <3> QED  BY <2>0, <3>1
    <2>3. CASE KLoop!LoadBegins
      <3>1. /\ kloop = "select" /\ kloop' = "loading" /\ ktick' = FALSE
            /\ UNCHANGED <<kloaded, kcancelled>>
        BY ONLY <2>3 DEF KLoop!LoadBegins
      <3>2. TypeOK'
        <4>1. KLoop!LoopTypes' /\ MLoop!LoopTypes'  BY <2>0, <3>1
        <4> QED  BY <2>0, <4>1
      <3>3. InOrder'  BY <2>0, <3>1
      <3>4. kept <= kept' /\ mirrored <= mirrored'  BY <2>0
      <3> QED  BY <2>0, <3>1, <3>2, <3>3, <3>4
    <2> QED  BY <1>3, <2>1, <2>2, <2>3 DEF KeepLoopStep
  <1>4. ASSUME KeepReloads  PROVE Good
    BY <1>4 DEF KeepReloads, Fault, KLoop!LoadReturns, mirrorVars, mloopVars
  <1>5. ASSUME KeepSkips  PROVE Good
    BY <1>5 DEF KeepSkips, KLoop!HookReturns, mirrorVars, mloopVars
  <1>6. ASSUME KeepStores  PROVE Good
    BY <1>6 DEF KeepStores, kloopVars, mirrorVars, mloopVars
  <1>7. ASSUME KeepPublishes  PROVE Good
    <2>1. remote' \in {remote, kept} /\ faults' \in 0..MaxFaults
      BY <1>7 DEF KeepPublishes, WriteThrough, Fault
    <2>2. /\ kloop = "hook" /\ kloop' = "select" /\ publishing' = FALSE
          /\ UNCHANGED <<source, keep, kept, keepTicks, ktick, kloaded, kcancelled>>
          /\ UNCHANGED <<mirror, mirrored, mirrorTicks, mloop, mtick, mloaded, mcancelled>>
      BY ONLY <1>7 DEF KeepPublishes, KLoop!HookReturns, mirrorVars, mloopVars
    <2>3. TypeOK'
      <3>1. remote' \in Nat
        <4>1. remote \in Nat /\ kept \in Nat  OBVIOUS
        <4> QED  BY ONLY <2>1, <4>1
      <3>2. KLoop!LoopTypes' /\ MLoop!LoopTypes'  BY <2>2
      <3> QED  BY <2>1, <2>2, <3>1, <3>2
    <2>4. InOrder'  BY <2>1, <2>2
    <2>5. kept <= kept' /\ mirrored <= mirrored'  BY <2>2
    <2> QED  BY <2>2, <2>3, <2>4, <2>5
  <1>8. ASSUME MirrorReads  PROVE Good
    <2>1. UNCHANGED <<source, remote, mirrorTicks, keep, kept, publishing, keepTicks, kloop,
                      ktick, kloaded, kcancelled>>
      BY <1>8 DEF MirrorReads, keepVars, kloopVars
    <2>2. CASE mirror' = "returned"
      <3>1. /\ remote # Absent /\ mirrored' = remote /\ mloop' \in {"select", "ended"}
            /\ UNCHANGED <<mtick, mloaded, mcancelled, faults>>
            /\ mirror = "new"
        BY <1>8, <2>2 DEF MirrorReads, MLoop!Run
      <3>2. TypeOK'  BY <2>1, <2>2, <3>1
      <3>3. InOrder'  BY <2>1, <3>1
      <3>4. mirrored <= mirrored'  BY <3>1
      <3> QED  BY <2>1, <2>2, <3>1, <3>2, <3>3, <3>4
    <2>3. CASE mirror' = "failed"
      <3>1. /\ UNCHANGED <<mirrored, mloop, mtick, mloaded, mcancelled>>
            /\ faults' \in 0..MaxFaults /\ mirror = "new"
        BY <1>8, <2>3 DEF MirrorReads, Fault, mloopVars
      <3> QED  BY <2>1, <2>3, <3>1
    <2> QED  BY <1>8, <2>2, <2>3 DEF MirrorReads
  <1>9. ASSUME MirrorLoopStep  PROVE Good
    <2>0. /\ UNCHANGED <<source, remote, faults, mirror, mirrored, mirrorTicks>>
          /\ UNCHANGED <<keep, kept, publishing, keepTicks, kloop, ktick, kloaded,
                        kcancelled>>
      BY ONLY <1>9 DEF MirrorLoopStep, keepVars, kloopVars
    <2>1. CASE MLoop!TickerFires
      <3>1. mtick' = TRUE /\ UNCHANGED <<mloop, mloaded, mcancelled>>
        BY ONLY <2>1 DEF MLoop!TickerFires
      <3> QED  BY <2>0, <3>1
    <2>2. CASE MLoop!Ends
      <3>1. mloop = "select" /\ mloop' = "ended" /\ UNCHANGED <<mtick, mloaded, mcancelled>>
        BY ONLY <2>2 DEF MLoop!Ends
      <3> QED  BY <2>0, <3>1
    <2>3. CASE MLoop!LoadBegins
      <3>1. /\ mloop = "select" /\ mloop' = "loading" /\ mtick' = FALSE
            /\ UNCHANGED <<mloaded, mcancelled>>
        BY ONLY <2>3 DEF MLoop!LoadBegins
      <3>2. TypeOK'
        <4>1. KLoop!LoopTypes' /\ MLoop!LoopTypes'  BY <2>0, <3>1
        <4> QED  BY <2>0, <4>1
      <3>3. InOrder'  BY <2>0, <3>1
      <3>4. kept <= kept' /\ mirrored <= mirrored'  BY <2>0
      <3> QED  BY <2>0, <3>1, <3>2, <3>3, <3>4
    <2> QED  BY <1>9, <2>1, <2>2, <2>3 DEF MirrorLoopStep
  <1>10. ASSUME MirrorReloads  PROVE Good
    BY <1>10 DEF MirrorReloads, Fault, MLoop!LoadReturns, keepVars, kloopVars
  <1>11. ASSUME MirrorHook  PROVE Good
    BY <1>11 DEF MirrorHook, MLoop!HookReturns, keepVars, kloopVars
  <1>12. ASSUME SourceChanges \/ RemoteDrops  PROVE Good
    BY <1>12 DEF SourceChanges, RemoteDrops, Fault, keepVars, kloopVars, mirrorVars, mloopVars
  <1>13. ASSUME CancelKeep \/ CancelMirror  PROVE Good
    <2>1. CASE CancelKeep
      BY <2>1 DEF CancelKeep, mirrorVars, mloopVars
    <2>2. CASE CancelMirror
      BY <2>2 DEF CancelMirror, keepVars, kloopVars
    <2> QED  BY <1>13, <2>1, <2>2
  <1>14. CASE UNCHANGED vars
    BY <1>14 DEF vars, keepVars, kloopVars, mirrorVars, mloopVars
  <1> QED
    BY <1>1, <1>2, <1>3, <1>4, <1>5, <1>6, <1>7, <1>8, <1>9, <1>10, <1>11, <1>12, <1>13,
       <1>14 DEF Next, Quiescent

\* A version is nowhere ahead of the place it came from (background.go:31-46,93-107).
THEOREM VersionsInOrder == Spec => []BackgroundInv
  <1>1. Init => BackgroundInv  BY BackgroundAssumption, InitBackground
  <1>2. BackgroundInv /\ [Next]_vars => BackgroundInv'
    BY BackgroundAssumption, NextBackground
  <1> QED  BY <1>1, <1>2, PTL DEF Spec

\* Neither the kept nor the mirrored value ever goes back (background.go:38-48,92-113).
THEOREM ValuesNeverGoBack == Spec => NeverGoesBack
  <1>1. BackgroundInv /\ [Next]_vars => [kept <= kept' /\ mirrored <= mirrored']_vars
    BY BackgroundAssumption, NextBackground
  <1> QED  BY <1>1, VersionsInOrder, PTL DEF Spec, NeverGoesBack
==============================================================================
