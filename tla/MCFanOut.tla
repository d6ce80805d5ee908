------------------------------ MODULE MCFanOut ------------------------------
(* FanOut on a small instance.  Subscribers are interchangeable, and states *)
(* that differ only in counters that no step and no property reads are one. *)
EXTENDS FanOut, TLC
SubscriberSymmetry == Permutations(Subscribers)
WithoutCounters ==
    <<config, prod, seq, since, brokerVars, consumerVars, trackerVars, engineVars, ready, faults>>
=============================================================================
