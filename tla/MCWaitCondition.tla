--------------------------- MODULE MCWaitCondition ---------------------------
(* Small instances of WaitCondition.                                       *)
EXTENDS WaitCondition
=============================================================================
