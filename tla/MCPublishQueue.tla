--------------------------- MODULE MCPublishQueue ---------------------------
(* Instances of PublishQueue.                                              *)
EXTENDS PublishQueue

CONSTANTS b1, b2, c1, c2
=============================================================================
