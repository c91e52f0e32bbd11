---------------------------- MODULE MCQueuePair ----------------------------
(* QueuePair for model checking.                                           *)
EXTENDS QueuePair
=============================================================================
