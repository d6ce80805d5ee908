----------------------------- MODULE RateWindows -----------------------------
(***************************************************************************)
(* The rates of burnin/metrics/metrics.go: SlidingRateWindow, the rate of  *)
(* the last seconds, and PeakRateTracker, the highest average.  Both are   *)
(* rings of one bucket a second; averages are kept as totals.              *)
(***************************************************************************)
EXTENDS Integers, Sequences, Functions

CONSTANTS
    slidingWindowSize,    \* buckets of a SlidingRateWindow (30 in the code)
    peakWindowSize        \* buckets of a PeakRateTracker (10 in the code)
ASSUME WindowSizes == slidingWindowSize \in Nat \ {0} /\ peakWindowSize \in Nat \ {0}

NewSlidingRateWindow ==
    [buckets |-> [i \in 0 .. slidingWindowSize - 1 |-> 0], idx |-> 0, total |-> 0, ticks |-> 0]

Record(w) == [w EXCEPT !.buckets[w.idx] = @ + 1, !.total = @ + 1]

(* Fault: the bucket left, not the one entered, is dropped. *)
AdvanceDropsTheLast(w) ==
    [w EXCEPT !.idx = (@ + 1) % slidingWindowSize, !.total = @ - w.buckets[w.idx],
              !.buckets[w.idx] = 0, !.ticks = @ + 1]

Advance(w) ==
    LET next == (w.idx + 1) % slidingWindowSize
    IN  [w EXCEPT !.idx = next, !.total = @ - w.buckets[next], !.buckets[next] = 0,
                  !.ticks = @ + 1]

(* Rate: the total, and the seconds it is divided by; without any it is 0. *)
Rate(w) ==
    LET window == IF w.ticks > slidingWindowSize THEN slidingWindowSize ELSE w.ticks
    IN  IF window = 0 THEN <<0, 1>> ELSE <<w.total, window>>

NewPeakRateTracker ==
    [buckets |-> [i \in 0 .. peakWindowSize - 1 |-> 0], idx |-> 0, peak |-> 0]

PeakRecord(p) == [p EXCEPT !.buckets[p.idx] = @ + 1]

(* Fault: the bucket is moved before the average is taken. *)
PeakAdvanceMovesFirst(p) ==
    LET next == (p.idx + 1) % peakWindowSize
        total == SumFunction([p.buckets EXCEPT ![next] = 0])
    IN  [p EXCEPT !.peak = IF total > @ THEN total ELSE @, !.idx = next, !.buckets[next] = 0]

PeakAdvance(p) ==
    LET next == (p.idx + 1) % peakWindowSize
        total == SumFunction(p.buckets)
    IN  [p EXCEPT !.peak = IF total > @ THEN total ELSE @, !.idx = next, !.buckets[next] = 0]
=============================================================================
