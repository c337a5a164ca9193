--------------------------- MODULE MCCardClaims ---------------------------
(* Instances of CardClaims: a run that may be resumed for another kind of  *)
(* work, and two sessions, one of which changes what it does.              *)
EXTENDS CardClaims, TLC

CONSTANTS k1, r1, s1, s2

MCRequests ==
  {[actor |-> r1, kind |-> "implement", code |-> TRUE],
   [actor |-> r1, kind |-> "triage",    code |-> FALSE],
   [actor |-> s1, kind |-> "implement", code |-> TRUE],
   [actor |-> s2, kind |-> "review",    code |-> TRUE],
   [actor |-> s2, kind |-> "triage",    code |-> FALSE]}

MCTtl == [a \in Actors |-> IF a \in RunActors THEN 1 ELSE 2]
=============================================================================
