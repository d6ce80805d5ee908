------------------------------ MODULE MCEngine ------------------------------
(* Engine on a small instance. *)
EXTENDS Engine
=============================================================================
