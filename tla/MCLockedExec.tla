---------------------------- MODULE MCLockedExec ----------------------------
(* Instances of LockedExec.                                                *)
EXTENDS LockedExec, TLC

CONSTANTS c1, p1, p2

WithUndo == {[card |-> c1, undo |-> TRUE]}
BothWays == {[card |-> c1, undo |-> TRUE], [card |-> c1, undo |-> FALSE]}
OneProcess == {p1}
TwoProcesses == {p1, p2}
ProcessSymmetry == Permutations({p1, p2})
=============================================================================
