---------------------------- MODULE MCCreditFlow ----------------------------
(* CreditFlow on a small instance. *)
EXTENDS CreditFlow
=============================================================================
