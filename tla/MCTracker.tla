------------------------------ MODULE MCTracker ------------------------------
(* TrackerAudit on a small instance. *)
EXTENDS TrackerAudit
MCSeqs == 0 .. 7
=============================================================================
