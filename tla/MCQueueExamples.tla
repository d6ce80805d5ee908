--------------------------- MODULE MCQueueExamples ---------------------------
(* QueueExamples with the program started three times. *)
EXTENDS QueueExamples
=============================================================================
