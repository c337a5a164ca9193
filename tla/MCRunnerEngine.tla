--------------------------- MODULE MCRunnerEngine ---------------------------
\* Instances of the runner engine for TLC.
EXTENDS RunnerEngine, TLC

\* claimKindFor: the light lane and harness-do claim "implement", harness-review
\* claims "review".
MCKind == [t \in Triggers |-> IF t = "review" THEN "review" ELSE "implement"]

CardSymmetry == Permutations(Cards)
=============================================================================
