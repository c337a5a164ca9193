------------------------- MODULE Integration_proofs -------------------------
(***************************************************************************)
(* What the promise of the merge train comes to, for any set of runs.  The *)
(* train implements Integration (KeepsPromise of MergeTrain), so whatever  *)
(* is proved here holds of the train.                                      *)
(***************************************************************************)
EXTENDS Integration, TLAPS

Typed ==
  /\ need \in [Runs -> SUBSET Halves]
  /\ landed \in [Runs -> SUBSET Halves]
  /\ vouched \subseteq Runs /\ closed \subseteq Runs

\* Only the operator lands what a run's branch did not carry.
OwnWork == \A r \in Runs \ vouched : landed[r] \subseteq need[r]

Inv == Typed /\ OwnWork /\ ClosedMeansLanded /\ DataFollowsCode

LEMMA InvInit == Init => Inv
  BY DEF Init, Inv, Typed, OwnWork, ClosedMeansLanded, DataFollowsCode

LEMMA InvStep == Inv /\ [Next]_<<need, landed, vouched, closed>> => Inv'
  <1> SUFFICES ASSUME Inv, [Next]_<<need, landed, vouched, closed>>
               PROVE  Inv'
    OBVIOUS
  <1> USE DEF Inv, Typed, OwnWork, ClosedMeansLanded, DataFollowsCode
  <1>1. ASSUME NEW r \in Runs, NEW w \in SUBSET Halves, Take(r, w)
        PROVE  Inv'
    \* Nothing has landed of a run that was not taken, unless by hand.
    <2>1. r \notin vouched => landed[r] = {}
      BY <1>1 DEF Take
    <2> QED BY <1>1, <2>1 DEF Take
  <1>2. ASSUME NEW r \in Runs, NEW hs \in SUBSET Halves, Land(r, hs)
        PROVE  Inv'
    BY <1>2 DEF Land
  <1>3. ASSUME NEW r \in Runs, NEW hs \in SUBSET Halves, Vouch(r, hs)
        PROVE  Inv'
    BY <1>3 DEF Vouch
  <1>4. ASSUME NEW S \in SUBSET Runs, Close(S) PROVE Inv'
    BY <1>4 DEF Close
  <1>5. CASE UNCHANGED <<need, landed, vouched, closed>>
    BY <1>5
  <1> QED BY <1>1, <1>2, <1>3, <1>4, <1>5 DEF Next

\* A run announced as merged, which nobody vouched for, has landed in full.
THEOREM ClosedIsLanded == Spec => []ClosedMeansLanded
  <1>1. Inv => ClosedMeansLanded
    BY DEF Inv
  <1> QED BY InvInit, InvStep, <1>1, PTL DEF Spec

\* Data that describes code never goes to main before the code is on stage.
THEOREM CodeLandsFirst == Spec => []DataFollowsCode
  <1>1. Inv => DataFollowsCode
    BY DEF Inv
  <1> QED BY InvInit, InvStep, <1>1, PTL DEF Spec
=============================================================================
