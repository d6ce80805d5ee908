-------------------------------- MODULE MCRpc --------------------------------
(* Rpc on a small instance.  Requesters are interchangeable. *)
EXTENDS Rpc, TLC
RequesterSymmetry == Permutations(Requesters)
=============================================================================
