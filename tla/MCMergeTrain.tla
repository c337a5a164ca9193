---------------------------- MODULE MCMergeTrain ----------------------------
(* Instances of MergeTrain.                                                *)
EXTENDS MergeTrain, TLC

CONSTANTS c1, c2

Both(c) == [card |-> c, kind |-> "run", work |-> {"code", "data"}]
DataOnly(c) == [card |-> c, kind |-> "run", work |-> {"data"}]
Session == [card |-> NoCard, kind |-> "session", work |-> {"code", "data"}]

OneJob == {Both(c1)}
AllJobs == {Both(c1), DataOnly(c1), Session}
MixedJobs == {Both(c1), Session}
=============================================================================
