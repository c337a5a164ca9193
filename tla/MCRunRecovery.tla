--------------------------- MODULE MCRunRecovery ---------------------------
(* Instances of RunRecovery: a card whose runs write code, a light one.    *)
EXTENDS RunRecovery, TLC

CONSTANTS code, light
=============================================================================
