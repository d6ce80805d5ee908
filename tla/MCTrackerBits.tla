---------------------------- MODULE MCTrackerBits ----------------------------
(* TrackerBits with two two-bit words for a window of three. *)
EXTENDS TrackerBits
MCSeqs == 0 .. 9
=============================================================================
