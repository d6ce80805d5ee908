----------------------------- MODULE TrackerBits -----------------------------
(***************************************************************************)
(* burnin/tracker/tracker.go with the window as the code stores it: a      *)
(* sequence of WordBits-bit words (64 in the code), least significant bit  *)
(* first, moved one position at a time by the loops of advanceContiguous   *)
(* and slideWindow.  The words have room for more than W bits.             *)
(*                                                                         *)
(* Tracker is what this promises: RefinesTracker maps the words to the set *)
(* of offsets whose bit is set.                                            *)
(***************************************************************************)
EXTENDS Integers, Sequences, FiniteSets

CONSTANTS Producers, Seqs, W, MaxReceived, MaxResets,
          WordBits       \* bits in a word of the window

ASSUME WordBitsAssumption == WordBits \in Nat \ {0}

VARIABLES producers, resets

bitsVars == <<producers, resets>>

-----------------------------------------------------------------------------
(* The bitset.  A word is a natural number below 2^WordBits. *)

WordCount == (W + WordBits - 1) \div WordBits

getBit(window, pos) ==
    /\ pos >= 0 /\ pos < Len(window) * WordBits
    /\ (window[pos \div WordBits + 1] \div 2 ^ (pos % WordBits)) % 2 = 1

setBit(window, pos) ==
    IF pos < 0 \/ pos >= Len(window) * WordBits \/ getBit(window, pos)
    THEN window
    ELSE [window EXCEPT ![pos \div WordBits + 1] = @ + 2 ^ (pos % WordBits)]

(* Fault: no carry between words. *)
shiftLeftNoCarry(window) == [i \in 1 .. Len(window) |-> window[i] \div 2]

(* The lowest bit of the next word carries into the highest of this one. *)
shiftLeft(window) ==
    [i \in 1 .. Len(window) |->
        window[i] \div 2
        + (IF i < Len(window) THEN (window[i + 1] % 2) * 2 ^ (WordBits - 1) ELSE 0)]

(* "for i := 0; i < n; i++ { shiftLeft(window) }" *)
RECURSIVE ShiftTimes(_, _)
ShiftTimes(window, n) == IF n = 0 THEN window ELSE ShiftTimes(shiftLeft(window), n - 1)

(* "for getBit(window, 0) { highContiguous++; shiftLeft(window) }" *)
RECURSIVE advanceContiguous(_)
advanceContiguous(ps) ==
    IF getBit(ps.window, 0)
    THEN advanceContiguous([ps EXCEPT !.highContiguous = @ + 1, !.window = shiftLeft(@)])
    ELSE ps

-----------------------------------------------------------------------------

(* A state with its window as the set of offsets whose bit is set. *)
Abstract(ps) ==
    [ps EXCEPT !.window = {i \in 0 .. Len(ps.window) * WordBits - 1 : getBit(ps.window, i)}]

T == INSTANCE Tracker WITH
         producers <- [p \in DOMAIN producers |-> Abstract(producers[p])]

SetIfInWindow(ps, seq) ==
    IF T!Offset(ps, seq) < W
    THEN [ps EXCEPT !.window = setBit(@, T!Offset(ps, seq))]
    ELSE ps

slideWindow(ps, seq) ==
    LET slideDist == T!SlideDist(ps, seq)
        evicted == {ps.highContiguous + 1 + i :
                       i \in {j \in 0 .. slideDist - 1 : ~getBit(ps.window, j)}}
        pending == ps.pendingLost \cup evicted
        slid == [ps EXCEPT !.pendingLost = pending,
                           !.confirmedLost = Cardinality(pending),
                           !.window = ShiftTimes(@, slideDist),
                           !.highContiguous = T!NewHigh(seq)]
    IN  IF T!NewHigh(seq) <= ps.highContiguous
        THEN SetIfInWindow(ps, seq)
        ELSE advanceContiguous(SetIfInWindow(slid, seq))

NewProducer(seq) ==
    advanceContiguous([highContiguous |-> seq - 1,
                       window |-> setBit([i \in 1 .. WordCount |-> 0], 0),
                       received |-> 1, duplicates |-> 0, outOfOrder |-> 0,
                       confirmedLost |-> 0, pendingLost |-> {},
                       lastReportedLost |-> 0, lastSeen |-> seq])

(* The part of Record behind the watermark. *)
RecordLate(ps, seq) ==
    IF seq \in ps.pendingLost
    THEN [ps EXCEPT !.pendingLost = @ \ {seq}, !.confirmedLost = Cardinality(ps.pendingLost \ {seq})]
    ELSE [ps EXCEPT !.duplicates = @ + 1]

(* The part of Record above the watermark. *)
RecordAhead(ps, seq) ==
    IF T!Offset(ps, seq) >= W THEN slideWindow(ps, seq)
    ELSE IF getBit(ps.window, T!Offset(ps, seq)) THEN [ps EXCEPT !.duplicates = @ + 1]
    ELSE advanceContiguous([ps EXCEPT !.window = setBit(@, T!Offset(ps, seq))])

Put(p, ps) ==
    producers' = [q \in DOMAIN producers \cup {p} |-> IF q = p THEN ps ELSE producers[q]]

RecordFirst(p, seq) ==
    /\ p \notin DOMAIN producers
    /\ MaxReceived > 0
    /\ Put(p, NewProducer(seq))
    /\ UNCHANGED resets

RecordAgain(p, seq) ==
    /\ p \in DOMAIN producers
    /\ producers[p].received < MaxReceived
    /\ LET ps == T!Arrive(producers[p], seq)
       IN  Put(p, IF seq <= ps.highContiguous THEN RecordLate(ps, seq) ELSE RecordAhead(ps, seq))
    /\ UNCHANGED resets

DetectGaps ==
    /\ producers' = [p \in DOMAIN producers |->
                         [producers[p] EXCEPT !.lastReportedLost = producers[p].confirmedLost]]
    /\ UNCHANGED resets

Reset ==
    /\ resets < MaxResets
    /\ resets' = resets + 1
    /\ producers' = [p \in {} |-> p]

Init ==
    /\ producers = [p \in {} |-> p]
    /\ resets = 0

Next ==
    \/ \E p \in Producers, seq \in Seqs : RecordFirst(p, seq) \/ RecordAgain(p, seq)
    \/ DetectGaps
    \/ Reset

Spec == Init /\ [][Next]_bitsVars

-----------------------------------------------------------------------------

(* The words, their carries and the shift loops implement the window of     *)
(* offsets: every step on the bitset (Record, DetectGaps, Reset) is the     *)
(* step of Tracker on the set of set positions.                             *)
RefinesTracker == T!Spec
=============================================================================
