----------------------------- MODULE ChainProofs -----------------------------
(***************************************************************************)
(* A quiet write to a chain is final, for any number of tiers, keys and    *)
(* concurrent calls.  ChainInv is inductive; its proof goes conjunct by    *)
(* conjunct.  What is the same for all steps but one or two is put in      *)
(* lemmas: how the histories grow, and what a step may leave in a tier.    *)
(***************************************************************************)
EXTENDS ChainStore, TLAPS

\* The step of a call other than its start.
Moves(c) ==
    TierFails(c) \/ GetMisses(c) \/ GetHits(c) \/ Backfills(c) \/ WritesTier(c)

LEMMA Cases ==
    ASSUME [Next]_vars
    PROVE  \/ \E c \in Calls : Start(c) \/ Moves(c)
           \/ \E i \in Tiers, k \in Keys : TierDrops(i, k)
           \/ UNCHANGED vars
  BY DEF Next, Quiescent, Moves

LEMMA WrittenType ==
    ASSUME ChainAssumption, TypeOK, NEW c \in Calls
    PROVE  /\ Written(c) \in [Tiers -> [Keys -> Entries \cup {None}]]
           /\ at[c] \in Tiers
  BY DEF TypeOK, Written, Entries, Writes

LEMMA NextTierType ==
    ASSUME ChainAssumption, TypeOK, NEW c \in Calls, NextTier(c)
    PROVE  /\ at' \in [Calls -> Tiers]
           /\ pc' \in [Calls -> {"new", "running", "backfill", "ok", "error"}]
  <1>1. CASE at[c] < N
    <2>1. at[c] + 1 \in Tiers  BY <1>1 DEF TypeOK, Tiers, ChainAssumption
    <2> QED  BY <1>1, <2>1 DEF TypeOK, NextTier
  <1>2. CASE ~(at[c] < N)
    BY <1>2 DEF TypeOK, NextTier, Return
  <1> QED  BY <1>1, <1>2

LEMMA GoesType ==
    ASSUME NEW c \in Calls, NEW how \in {"new", "running", "backfill", "ok", "error"},
           pc \in [Calls -> {"new", "running", "backfill", "ok", "error"}],
           pc' = [pc EXCEPT ![c] = how]
    PROVE  pc' \in [Calls -> {"new", "running", "backfill", "ok", "error"}]
  OBVIOUS

LEMMA TypesStep ==
    ASSUME ChainAssumption, TypeOK, [Next]_vars
    PROVE  TypeOK'
  <1> USE DEF TypeOK
  <1>1. ASSUME NEW c \in Calls, Start(c)  PROVE TypeOK'
    BY <1>1 DEF Start, Active, Returned
  <1>2. ASSUME NEW c \in Calls, TierFails(c)  PROVE TypeOK'
    BY <1>2, WrittenType DEF TierFails, Return
  <1>3. ASSUME NEW c \in Calls, GetMisses(c)  PROVE TypeOK'
    BY <1>3, NextTierType DEF GetMisses
  <1>4. ASSUME NEW c \in Calls, GetHits(c)  PROVE TypeOK'
    <2>1. /\ 1 \in Tiers /\ at[c] \in Tiers /\ at[c] \in 0..N
          /\ Here(c) \in Entries \cup {None}
      BY DEF Here, Tiers, ChainAssumption
    <2>2. CASE at[c] = 1
      <3>1. answer' \in [Calls -> Entries \cup {None}]
        BY <1>4, <2>1, <2>2 DEF GetHits
      <3>2. pc' \in [Calls -> {"new", "running", "backfill", "ok", "error"}]
        <4>1. pc' = [pc EXCEPT ![c] = "ok"]
          BY ONLY <1>4, <2>2 DEF GetHits, Return
        <4> QED  BY <4>1, GoesType
      <3>3. UNCHANGED <<tiers, op, key, at, found, over, before>>
        BY <1>4, <2>2 DEF GetHits
      <3> QED  BY <3>1, <3>2, <3>3
    <2>3. CASE at[c] # 1
      <3>1. found' \in [Calls -> [tier : 0..N, entry : Entries \cup {None}]]
        <4>1. [tier |-> at[c], entry |-> Here(c)]
                \in [tier : 0..N, entry : Entries \cup {None}]
          BY <2>1
        <4> QED  BY <1>4, <2>3, <4>1 DEF GetHits
      <3>2. at' \in [Calls -> Tiers]
        BY <1>4, <2>1, <2>3 DEF GetHits
      <3>3. pc' \in [Calls -> {"new", "running", "backfill", "ok", "error"}]
        <4>1. pc' = [pc EXCEPT ![c] = "backfill"]
          BY ONLY <1>4, <2>3 DEF GetHits
        <4> QED  BY <4>1, GoesType
      <3>4. UNCHANGED <<tiers, op, key, answer, over, before>>
        BY <1>4, <2>3 DEF GetHits
      <3> QED  BY <3>1, <3>2, <3>3, <3>4
    <2> QED  BY <2>2, <2>3
  <1>5. ASSUME NEW c \in Calls, Backfills(c)  PROVE TypeOK'
    <2>1. tiers' \in [Tiers -> [Keys -> Entries \cup {None}]]
      <3>1. [tiers[at[c]] EXCEPT ![key[c]] = found[c].entry]
              \in [Keys -> Entries \cup {None}]
        OBVIOUS
      <3>2. CASE tiers' = [tiers EXCEPT ![at[c]][key[c]] = found[c].entry]
        BY <3>1, <3>2
      <3> QED  BY <1>5, <3>2 DEF Backfills
    <2>2. CASE at[c] < found[c].tier - 1
      <3>1. at[c] + 1 \in Tiers  BY <2>2 DEF Tiers, ChainAssumption
      <3> QED  BY <1>5, <2>1, <2>2, <3>1 DEF Backfills
    <2>3. CASE ~(at[c] < found[c].tier - 1)
      <3>1. pc' = [pc EXCEPT ![c] = "ok"] /\ answer' = [answer EXCEPT ![c] = found[c].entry]
        BY ONLY <1>5, <2>3 DEF Backfills, Return
      <3>2. pc' \in [Calls -> {"new", "running", "backfill", "ok", "error"}]
        BY <3>1, GoesType
      <3>3. answer' \in [Calls -> Entries \cup {None}]
        BY <3>1
      <3>4. UNCHANGED <<op, key, at, found, over, before>>
        BY ONLY <1>5, <2>3 DEF Backfills
      <3> QED  BY <2>1, <3>2, <3>3, <3>4
    <2> QED  BY <2>2, <2>3
  <1>6. ASSUME NEW c \in Calls, WritesTier(c)  PROVE TypeOK'
    BY <1>6, WrittenType, NextTierType DEF WritesTier
  <1>7. ASSUME NEW i \in Tiers, NEW k \in Keys, TierDrops(i, k)  PROVE TypeOK'
    BY <1>7 DEF TierDrops
  <1>8. CASE UNCHANGED vars
    BY <1>8 DEF vars
  <1> QED  BY <1>1, <1>2, <1>3, <1>4, <1>5, <1>6, <1>7, <1>8, Cases DEF Moves

\* A move keeps a call active or returns it, and touches no history and no other call.
LEMMA MoveShape ==
    ASSUME ChainAssumption, TypeOK, NEW c \in Calls, Moves(c)
    PROVE  /\ pc[c] \in {"running", "backfill"}
           /\ pc'[c] \in {"running", "backfill", "ok", "error"}
           /\ \A d \in Calls \ {c} : /\ pc'[d] = pc[d] /\ at'[d] = at[d]
                                     /\ found'[d] = found[d] /\ answer'[d] = answer[d]
           /\ UNCHANGED <<op, key, over, before>>
  BY DEF Moves, TypeOK, TierFails, GetMisses, GetHits, Backfills, WritesTier, NextTier,
         Return

LEMMA CallsMeetStep ==
    ASSUME ChainAssumption, TypeOK, CallsMeet, [Next]_vars
    PROVE  CallsMeet'
  <1> USE DEF TypeOK, CallsMeet, Active, Returned
  <1>1. ASSUME NEW c \in Calls, Start(c)  PROVE CallsMeet'
    BY <1>1 DEF Start
  <1>2. ASSUME NEW c \in Calls, Moves(c)  PROVE CallsMeet'
    <2>1. \A d \in Calls : d \in Active' => d \in Active
      BY <1>2, MoveShape
    <2>2. \A d \in Calls : d \in Returned => d \in Returned'
      BY <1>2, MoveShape
    <2>3. \A d \in Calls : d \in Returned' => d \in Active \cup Returned
      BY <1>2, MoveShape
    <2>4. \A d \in Calls : pc'[d] = "new" => /\ pc[d] = "new" /\ at'[d] = at[d]
                                             /\ found'[d] = found[d]
                                             /\ answer'[d] = answer[d]
      BY <1>2, MoveShape
    <2>5. \A d \in Calls : pc'[d] = "backfill" => op[d] = "Get"
      BY <1>2, MoveShape DEF Moves, TierFails, GetMisses, GetHits, Backfills, WritesTier,
         NextTier, Return
    <2> QED  BY <1>2, <2>1, <2>2, <2>3, <2>4, <2>5, MoveShape
  <1>3. ASSUME NEW i \in Tiers, NEW k \in Keys, TierDrops(i, k)  PROVE CallsMeet'
    BY <1>3 DEF TierDrops
  <1>4. CASE UNCHANGED vars
    BY <1>4 DEF vars
  <1> QED  BY <1>1, <1>2, <1>3, <1>4, Cases

\* What was not quiet does not become quiet.
LEMMA QuietShrinks ==
    ASSUME ChainAssumption, TypeOK, CallsMeet, [Next]_vars,
           NEW c \in Calls, pc[c] # "new", Quiet(c)'
    PROVE  Quiet(c)
  <1> USE DEF TypeOK, Quiet, Overlapping, Following
  <1>1. over[c] \subseteq over'[c] /\ op' = op /\ key' = key
    <2>1. ASSUME NEW e \in Calls, Start(e)
          PROVE  over[c] \subseteq over'[c] /\ op' = op /\ key' = key
      BY <2>1 DEF Start
    <2>2. ASSUME NEW e \in Calls, Moves(e)
          PROVE  over[c] \subseteq over'[c] /\ op' = op /\ key' = key
      BY <2>2, MoveShape
    <2> QED  BY <2>1, <2>2, Cases DEF TierDrops, vars
  <1>2. \A d \in Calls : c \in before[d] => c \in before'[d]
    <2>1. ASSUME NEW e \in Calls, Start(e), NEW d \in Calls, c \in before[d]
          PROVE  c \in before'[d]
      BY <2>1 DEF Start, CallsMeet
    <2> QED  BY <2>1, Cases, MoveShape DEF TierDrops, vars
  <1> QED  BY <1>1, <1>2

\* Whoever is active on the key of a quiet write is a Delete or a Clear, or a Get
\* that began after it and found nothing else.
LEMMA Disturbers ==
    ASSUME ChainAssumption, TypeOK, CallsMeet, LaterGetsAgree,
           NEW c \in Calls, op[c] \in Writes, pc[c] \in {"running", "ok"}, Quiet(c),
           NEW d \in Calls, d # c, d \in Active, key[d] = key[c]
    PROVE  /\ op[d] # "Set"
           /\ op[d] = "Get" => /\ pc[c] = "ok" /\ c \in before[d]
                               /\ found[d].entry \in Left(c)
  BY DEF TypeOK, CallsMeet, LaterGetsAgree, Quiet, Overlapping, Following, Active, Returned

LEMMA QuietSoFarStep ==
    ASSUME ChainAssumption, TypeOK, CallsMeet, QuietSoFar, LaterGetsAgree, [Next]_vars
    PROVE  QuietSoFar'
  <1> SUFFICES ASSUME NEW c \in Calls, op'[c] \in Writes, Quiet(c)',
                      NEW i \in Reached(c)'
               PROVE  tiers'[i][key'[c]] \in Left(c)'
    BY DEF QuietSoFar
  <1> USE DEF TypeOK
  <1>k. op' = op /\ key' = key
    BY Cases, MoveShape DEF Start, TierDrops, vars
  <1>l. Left(c)' = Left(c) /\ None \in Left(c)
    BY <1>k DEF Left
  <1>i. i \in Tiers
    BY DEF Reached
  <1>0. CASE pc[c] = "new"
    <2>1. pc'[c] \in {"new", "running"} /\ at'[c] = 1
      <3>1. ASSUME NEW d \in Calls, Start(d)
            PROVE  pc'[c] \in {"new", "running"} /\ at'[c] = 1
        BY <1>0, <3>1 DEF Start, CallsMeet
      <3>2. ASSUME NEW d \in Calls, Moves(d)
            PROVE  pc'[c] \in {"new", "running"} /\ at'[c] = 1
        BY <1>0, <3>2, MoveShape DEF CallsMeet
      <3> QED  BY <1>0, <3>1, <3>2, Cases DEF TierDrops, vars, CallsMeet
    <2> QED  BY <2>1 DEF Reached, Tiers
  <1>q. CASE pc[c] # "new"
    <2>1. Quiet(c)  BY <1>q, QuietShrinks
    <2>2. CASE \E d \in Calls : Start(d)
      BY <2>1, <2>2, <1>k, <1>l, <1>q DEF Start, Reached, QuietSoFar
    <2>3. ASSUME NEW d \in Calls, Moves(d), d # c
          PROVE  tiers'[i][key[c]] \in Left(c)
      <3>1. pc[c] \in {"running", "ok"} /\ i \in Reached(c)
        BY <2>3, MoveShape DEF Reached
      <3>2. tiers[i][key[c]] \in Left(c)
        BY <2>1, <3>1, <1>k DEF QuietSoFar
      <3>3. d \in Active  BY <2>3, MoveShape DEF Active
      <3>4. CASE TierFails(d) \/ WritesTier(d)
        <4>1. key[d] = key[c] => op[d] # "Set"
          BY <3>1, <3>3, <2>1, <2>3, <1>k, Disturbers
        <4>2. Written(d)[i][key[c]] \in {tiers[i][key[c]], None}
          BY <4>1, <1>i DEF Written, Writes
        <4> QED  BY <3>2, <3>4, <4>2, <1>l DEF TierFails, WritesTier
      <3>5. CASE Backfills(d)
        <4>1. op[d] = "Get"
          BY <3>5 DEF Backfills, CallsMeet
        <4>2. key[d] = key[c] => found[d].entry \in Left(c)
          BY <4>1, <3>1, <3>3, <2>1, <2>3, <1>k, Disturbers
        <4>3. CASE tiers' = [tiers EXCEPT ![at[d]][key[d]] = found[d].entry]
          <5>1. key[c] \in Keys /\ tiers[i] \in [Keys -> Entries \cup {None}]
            BY <1>i
          <5> QED  BY <3>2, <4>2, <4>3, <5>1, <1>i
        <4> QED  BY <3>2, <3>5, <4>3 DEF Backfills
      <3> QED
        BY <2>3, <3>2, <3>4, <3>5 DEF Moves, GetMisses, GetHits
    <2>4. CASE Moves(c)
      <3>1. WritesTier(c)
        <4>1. op[c] # "Get" /\ pc[c] # "backfill"
          BY <1>k DEF Writes, CallsMeet
        <4>2. pc'[c] # "error"
          BY DEF Reached
        <4> QED
          BY <2>4, <4>1, <4>2 DEF Moves, TierFails, GetMisses, GetHits, Backfills, Return
      <3>2. i \in Reached(c) \/ i = at[c]
        BY <3>1, <1>i DEF WritesTier, NextTier, Return, Reached, Tiers, ChainAssumption
      <3>3. i \in Reached(c) => tiers[i][key[c]] \in Left(c)
        BY <2>1, <1>k DEF QuietSoFar
      <3>4. Written(c)[i][key[c]] \in {tiers[i][key[c]], None} \cup Left(c)
        BY <1>i DEF Written, Left, Writes
      <3>5. i = at[c] => Written(c)[i][key[c]] \in Left(c)
        BY <1>i, <1>k DEF Written, Left, Writes
      <3> QED  BY <3>1, <3>2, <3>3, <3>4, <3>5, <1>k, <1>l DEF WritesTier
    <2>5. ASSUME NEW j \in Tiers, NEW k \in Keys, TierDrops(j, k)
          PROVE  tiers'[i][key[c]] \in Left(c)
      <3>1. tiers[i][key[c]] \in Left(c)
        BY <2>1, <2>5, <1>k DEF QuietSoFar, TierDrops, Reached
      <3> QED  BY <2>5, <3>1, <1>i, <1>l DEF TierDrops
    <2>6. CASE UNCHANGED vars
      BY <2>1, <2>6, <1>k DEF vars, QuietSoFar, Reached, Left
    <2> QED  BY <2>2, <2>3, <2>4, <2>5, <2>6, <1>k, <1>l, Cases
  <1> QED  BY <1>0, <1>q

LEMMA LaterGetsStep ==
    ASSUME ChainAssumption, TypeOK, CallsMeet, QuietSoFar, LaterGetsAgree, [Next]_vars
    PROVE  LaterGetsAgree'
  <1> SUFFICES ASSUME NEW c \in Calls, NEW d \in Calls,
                      op'[c] \in Writes, pc'[c] = "ok", Quiet(c)',
                      op'[d] = "Get", key'[d] = key'[c], c \in before'[d]
               PROVE  found'[d].entry \in Left(c)' /\ answer'[d] \in Left(c)'
    BY DEF LaterGetsAgree
  <1> USE DEF TypeOK
  <1>k. op' = op /\ key' = key
    BY Cases, MoveShape DEF Start, TierDrops, vars
  <1>l. Left(c)' = Left(c) /\ None \in Left(c)
    BY <1>k DEF Left
  <1>1. ASSUME NEW e \in Calls, Start(e)
        PROVE  found'[d].entry \in Left(c) /\ answer'[d] \in Left(c)
    <2>1. pc[c] = "ok" /\ UNCHANGED <<found, answer>>
      BY <1>1 DEF Start
    <2>2. CASE e = d
      BY <1>1, <1>l, <2>1, <2>2 DEF Start, CallsMeet
    <2>3. CASE e # d
      BY <1>1, <1>k, <2>1, <2>3, QuietShrinks DEF Start, LaterGetsAgree
    <2> QED  BY <2>2, <2>3
  <1>2. ASSUME NEW e \in Calls, Moves(e)
        PROVE  found'[d].entry \in Left(c) /\ answer'[d] \in Left(c)
    <2>1. c \in before[d]
      BY <1>2, MoveShape
    <2>2. pc[c] = "ok" /\ e # c
      BY <1>2, <2>1, MoveShape DEF CallsMeet, Returned
    <2>3. Quiet(c)  BY <2>2, QuietShrinks
    <2>4. found[d].entry \in Left(c) /\ answer[d] \in Left(c)
      BY <1>k, <2>1, <2>2, <2>3 DEF LaterGetsAgree
    <2>5. CASE e # d
      BY <1>2, <2>4, <2>5, MoveShape
    <2>6. CASE e = d
      <3>1. CASE GetHits(d)
        <4>1. at[d] \in Reached(c) /\ Here(d) = tiers[at[d]][key[c]]
          BY <1>k, <2>2 DEF Reached, Here
        <4>2. Here(d) \in Left(c)
          BY <4>1, <1>k, <2>3 DEF QuietSoFar
        <4>3. CASE at[d] = 1
          BY <2>4, <3>1, <4>2, <4>3 DEF GetHits
        <4>4. CASE at[d] # 1
          BY <2>4, <3>1, <4>2, <4>4 DEF GetHits
        <4> QED  BY <4>3, <4>4
      <3>2. CASE Backfills(d)
        BY <2>4, <3>2 DEF Backfills
      <3>3. CASE GetMisses(d) \/ TierFails(d) \/ WritesTier(d)
        BY <2>4, <3>3 DEF GetMisses, TierFails, WritesTier
      <3> QED  BY <1>2, <2>6, <3>1, <3>2, <3>3 DEF Moves
    <2> QED  BY <2>5, <2>6
  <1>3. CASE (\E i \in Tiers, k \in Keys : TierDrops(i, k)) \/ UNCHANGED vars
    <2>1. UNCHANGED <<pc, op, key, found, answer, over, before>>
      BY <1>3 DEF TierDrops, vars
    <2> QED  BY <2>1, <1>l, QuietShrinks DEF LaterGetsAgree
  <1> QED  BY <1>1, <1>2, <1>3, <1>l, Cases

LEMMA InitChain ==
    ASSUME ChainAssumption, Init
    PROVE  ChainInv
  <1>1. 1 \in Tiers /\ 0 \in 0..N  BY DEF Tiers, ChainAssumption
  <1>2. found \in [Calls -> [tier : 0..N, entry : Entries \cup {None}]]
    BY <1>1 DEF Init
  <1>3. TypeOK
    BY <1>1, <1>2 DEF Init, TypeOK, Entries
  <1>4. CallsMeet
    BY DEF Init, CallsMeet, Active, Returned
  <1>5. QuietSoFar
    BY DEF Init, QuietSoFar, Reached
  <1>6. LaterGetsAgree
    BY DEF Init, LaterGetsAgree
  <1> QED  BY <1>3, <1>4, <1>5, <1>6 DEF ChainInv

\* Every history of a chain keeps ChainInv.
THEOREM ChainInvariant == Spec => []ChainInv
  <1>1. Init => ChainInv  BY ChainAssumption, InitChain
  <1>2. ChainInv /\ [Next]_vars => ChainInv'
    BY ChainAssumption, TypesStep, CallsMeetStep, QuietSoFarStep, LaterGetsStep
       DEF ChainInv
  <1> QED  BY <1>1, <1>2, PTL DEF Spec

\* A Set, Delete or Clear that no Get or Set of its key overlaps is final in all
\* tiers until the next Set (store.go:25-68).
THEOREM QuietWritesAreFinal == Spec => []QuietWriteIsFinal
  <1>1. ASSUME ChainInv  PROVE QuietWriteIsFinal
    BY <1>1 DEF ChainInv, QuietSoFar, LaterGetsAgree, QuietWriteIsFinal, Reached, Following
  <1> QED  BY <1>1, ChainInvariant, PTL
==============================================================================
