---------------------------- MODULE Integration ----------------------------
(***************************************************************************)
(* What the merge train promises of a run's work, without queue, gates,    *)
(* crashes or operators: the halves of the work land, code before data,    *)
(* and the run is announced as merged only when all of it has landed - or  *)
(* when the operator vouched that he landed it by hand.                    *)
(***************************************************************************)
CONSTANT Runs

Halves == {"code", "data"}

VARIABLES
  need,     \* the halves a run's branch carries
  landed,   \* the halves that are on their target
  vouched,  \* runs the operator said he integrated by hand
  closed    \* runs announced as merged

Init ==
  /\ need = [r \in Runs |-> {}] /\ landed = [r \in Runs |-> {}]
  /\ vouched = {} /\ closed = {}

Take(r, w) ==
  /\ need[r] = {} /\ r \notin closed
  /\ need' = [need EXCEPT ![r] = w]
  /\ UNCHANGED <<landed, vouched, closed>>

\* Data never lands before the code it describes.
Land(r, hs) ==
  /\ hs \subseteq need[r]
  /\ landed' = [landed EXCEPT ![r] = @ \cup hs]
  /\ "data" \in landed'[r] /\ "code" \in need[r] => "code" \in landed'[r]
  /\ UNCHANGED <<need, vouched, closed>>

Close(S) ==
  /\ \A r \in S : need[r] \subseteq landed[r]
  /\ closed' = closed \cup S
  /\ UNCHANGED <<need, landed, vouched>>

\* The operator's word stands for what he did to the branches.
Vouch(r, hs) ==
  /\ vouched' = vouched \cup {r} /\ closed' = closed \cup {r}
  /\ landed' = [landed EXCEPT ![r] = @ \cup hs]
  /\ UNCHANGED need

Next ==
  \/ \E r \in Runs, hs \in SUBSET Halves :
       Take(r, hs) \/ Land(r, hs) \/ Vouch(r, hs)
  \/ \E S \in SUBSET Runs : Close(S)

Spec == Init /\ [][Next]_<<need, landed, vouched, closed>>

\* What follows from it: a run announced as merged has landed in full.
ClosedMeansLanded == \A r \in closed \ vouched : need[r] \subseteq landed[r]

\* And a run's data is on main only if its code is where it belongs.
DataFollowsCode ==
  \A r \in Runs \ vouched :
    "data" \in landed[r] /\ "code" \in need[r] => "code" \in landed[r]
=============================================================================
