------------------------------ MODULE MCQueues ------------------------------
(* Queues on a small instance.  Consumers are interchangeable. *)
EXTENDS Queues, TLC
ConsumerSymmetry == Permutations(Consumers)
=============================================================================
