--------------------------- MODULE MCSessionFleet ---------------------------
(* Instances of SessionFleet.                                              *)
EXTENDS SessionFleet

CONSTANTS s1, s2, k1

\* Sweeps overlap births and swaps, and the service is never restarted.
Overlapping == {[overlap |-> TRUE, restarts |-> 0]}

\* Or they do not, and it may be restarted once, at any step.
EitherSetting == Overlapping \cup {[overlap |-> FALSE, restarts |-> 1]}
=============================================================================
