----------------------------- MODULE SubTracker -----------------------------
(***************************************************************************)
(* subTracker of burnin/worker/events.go: what one subscriber has seen of  *)
(* a channel.  Its methods hold a mutex, so each is one step of whoever    *)
(* calls it.                                                               *)
(***************************************************************************)
EXTENDS Integers, FiniteSets

CONSTANT Window    \* subTrackerWindow

ASSUME WindowAssumption == Window \in Nat

SubTrackers == [lastSeq: Nat, uniqueCount: Nat, seen: SUBSET Nat, pruneLow: Nat]

newSubTracker == [lastSeq |-> 0, uniqueCount |-> 0, seen |-> {}, pruneLow |-> 0]

(* Fault: the window is one sequence short. *)
PruneTooFar(s) ==
    IF s.lastSeq > Window
    THEN LET newLow == s.lastSeq - Window + 1
         IN  [s EXCEPT !.seen = @ \ (s.pruneLow .. newLow - 1), !.pruneLow = newLow]
    ELSE s

(* The end of record: sequences that left the window are forgotten, those   *)
(* that arrived already behind it are not.                                  *)
prune(s) ==
    IF s.lastSeq > Window
    THEN LET newLow == s.lastSeq - Window
         IN  [s EXCEPT !.seen = @ \ (s.pruneLow .. newLow - 1), !.pruneLow = newLow]
    ELSE s

(* What record returns. *)
isDup(s, seq) == seq \in s.seen

(* What record leaves behind. *)
record(s, seq) ==
    IF isDup(s, seq) THEN s
    ELSE prune([s EXCEPT !.seen = @ \cup {seq},
                         !.uniqueCount = @ + 1,
                         !.lastSeq = IF seq > @ THEN seq ELSE @])

missing(s) ==
    IF s.lastSeq <= s.uniqueCount THEN 0 ELSE s.lastSeq - s.uniqueCount
=============================================================================
