------------------------------- MODULE Tracker -------------------------------
(***************************************************************************)
(* burnin/tracker/tracker.go: the per-producer sequence tracker.           *)
(*                                                                         *)
(* A producer's window is the set of offsets whose bit is set; offset i    *)
(* stands for the sequence highContiguous + 1 + i.  TrackerBits models the *)
(* words behind it and is shown to implement this module; TrackerAudit     *)
(* adds a record of what arrived and states what the counters mean.        *)
(*                                                                         *)
(* Every method holds the tracker's mutex throughout, so a call is a step. *)
(***************************************************************************)
EXTENDS Integers, FiniteSets

CONSTANTS
    Producers,     \* producer ids, the keys of Tracker.producers
    Seqs,          \* sequence numbers that may be recorded
    W,             \* reorderWindow
    MaxReceived,   \* bound: Record calls per producer between two Resets
    MaxResets      \* bound: Resets in the life of a tracker (the engine does one)

ASSUME WAssumption == W \in Nat \ {0}
ASSUME SeqsAssumption == Seqs \subseteq Nat
ASSUME BoundsAssumption == MaxReceived \in Nat /\ MaxResets \in Nat

VARIABLES
    producers,     \* Tracker.producers: a map from some of Producers
    resets         \* how often Reset was called

trackerVars == <<producers, resets>>

Known == DOMAIN producers

-----------------------------------------------------------------------------
(* The bitset and the window. *)

setBit(window, pos) == window \cup {pos}

getBit(window, pos) == pos \in window

(* Fault: the bit that becomes the lowest is dropped. *)
shiftLeftDropsBit(window, n) == {i - n : i \in {j \in window : j > n}}

(* The effect of n calls of shiftLeft. *)
shiftLeft(window, n) == {i - n : i \in {j \in window : j >= n}}

(* The number of leading set bits. *)
SeenRun(window) ==
    CHOOSE n \in 0 .. W : ~getBit(window, n) /\ \A i \in 0 .. n - 1 : getBit(window, i)

(* Fault: the watermark is assigned and not advanced. *)
advanceContiguousAssigns(ps) ==
    [ps EXCEPT !.highContiguous = SeenRun(ps.window),
               !.window = shiftLeft(@, SeenRun(ps.window))]

advanceContiguous(ps) ==
    [ps EXCEPT !.highContiguous = @ + SeenRun(ps.window),
               !.window = shiftLeft(@, SeenRun(ps.window))]

Offset(ps, seq) == seq - ps.highContiguous - 1

(* "if int(offset) < t.reorderWindow { setBit }", at both ends of slideWindow. *)
SetIfInWindow(ps, seq) ==
    IF Offset(ps, seq) < W
    THEN [ps EXCEPT !.window = setBit(@, Offset(ps, seq))]
    ELSE ps

NewHigh(seq) == seq - W - 1

SlideDist(ps, seq) ==
    IF NewHigh(seq) - ps.highContiguous > W THEN W ELSE NewHigh(seq) - ps.highContiguous

(* Fault: the last evicted position is not looked at. *)
EvictedButLast(ps, seq) ==
    {ps.highContiguous + 1 + i : i \in {j \in 0 .. SlideDist(ps, seq) - 2 : ~getBit(ps.window, j)}}

(* Fault: the evicted positions are counted from the watermark itself. *)
EvictedFromWatermark(ps, seq) ==
    {ps.highContiguous + i : i \in {j \in 0 .. SlideDist(ps, seq) - 1 : ~getBit(ps.window, j)}}

(* The unseen sequences that a slide to seq evicts and makes pending. *)
Evicted(ps, seq) ==
    {ps.highContiguous + 1 + i : i \in {j \in 0 .. SlideDist(ps, seq) - 1 : ~getBit(ps.window, j)}}

slideWindow(ps, seq) ==
    IF NewHigh(seq) <= ps.highContiguous
    THEN SetIfInWindow(ps, seq)
    ELSE LET pending == ps.pendingLost \cup Evicted(ps, seq)
             slid == [ps EXCEPT !.pendingLost = pending,
                                !.confirmedLost = Cardinality(pending),
                                !.window = shiftLeft(@, SlideDist(ps, seq)),
                                !.highContiguous = NewHigh(seq)]
         IN  advanceContiguous(SetIfInWindow(slid, seq))

-----------------------------------------------------------------------------
(* Record, one action per way out of it. *)

(* The state created for a producer by its first sequence. *)
NewProducer(seq) ==
    advanceContiguous([highContiguous |-> seq - 1, window |-> setBit({}, 0),
                       received |-> 1, duplicates |-> 0, outOfOrder |-> 0,
                       confirmedLost |-> 0, pendingLost |-> {},
                       lastReportedLost |-> 0, lastSeen |-> seq])

(* What every later Record does before it classifies the sequence. *)
Arrive(ps, seq) ==
    [ps EXCEPT !.received = @ + 1,
               !.outOfOrder = @ + (IF seq < ps.lastSeen THEN 1 ELSE 0),
               !.lastSeen = seq]

Put(p, ps) ==
    producers' = [q \in Known \cup {p} |-> IF q = p THEN ps ELSE producers[q]]

CanRecord(p) == p \in Known /\ producers[p].received < MaxReceived

RecordFirst(p, seq) ==
    /\ p \notin Known
    /\ MaxReceived > 0
    /\ Put(p, NewProducer(seq))
    /\ UNCHANGED resets

(* Fault: the recovered sequence leaves pendingLost but not the count. *)
RecoverKeepsCount(p, seq) ==
    /\ CanRecord(p)
    /\ seq <= producers[p].highContiguous
    /\ seq \in producers[p].pendingLost
    /\ Put(p, [Arrive(producers[p], seq) EXCEPT !.pendingLost = @ \ {seq}])
    /\ UNCHANGED resets

(* At or below the watermark, and pending: a late delivery recovers it. *)
RecordRecovered(p, seq) ==
    /\ CanRecord(p)
    /\ seq <= producers[p].highContiguous
    /\ seq \in producers[p].pendingLost
    /\ LET pending == producers[p].pendingLost \ {seq}
       IN  Put(p, [Arrive(producers[p], seq) EXCEPT !.pendingLost = pending,
                                                    !.confirmedLost = Cardinality(pending)])
    /\ UNCHANGED resets

(* Fault: everything at or below the watermark is a duplicate. *)
LateIsDuplicate(p, seq) ==
    /\ CanRecord(p)
    /\ \/ seq <= producers[p].highContiguous
       \/ /\ Offset(producers[p], seq) < W
          /\ getBit(producers[p].window, Offset(producers[p], seq))
    /\ Put(p, [Arrive(producers[p], seq) EXCEPT !.duplicates = @ + 1])
    /\ UNCHANGED resets

(* At or below the watermark and not pending, or its bit is already set. *)
RecordDuplicate(p, seq) ==
    /\ CanRecord(p)
    /\ \/ seq <= producers[p].highContiguous /\ seq \notin producers[p].pendingLost
       \/ /\ seq > producers[p].highContiguous
          /\ Offset(producers[p], seq) < W
          /\ getBit(producers[p].window, Offset(producers[p], seq))
    /\ Put(p, [Arrive(producers[p], seq) EXCEPT !.duplicates = @ + 1])
    /\ UNCHANGED resets

(* W or more past the watermark. *)
RecordBeyondWindow(p, seq) ==
    /\ CanRecord(p)
    /\ seq > producers[p].highContiguous
    /\ Offset(producers[p], seq) >= W
    /\ Put(p, slideWindow(Arrive(producers[p], seq), seq))
    /\ UNCHANGED resets

(* Fault: the watermark is not advanced over the new bit. *)
MarkWithoutAdvance(p, seq) ==
    /\ CanRecord(p)
    /\ seq > producers[p].highContiguous
    /\ Offset(producers[p], seq) < W
    /\ ~getBit(producers[p].window, Offset(producers[p], seq))
    /\ LET ps == Arrive(producers[p], seq)
       IN  Put(p, [ps EXCEPT !.window = setBit(@, Offset(ps, seq))])
    /\ UNCHANGED resets

(* Inside the window and not seen yet. *)
RecordInWindow(p, seq) ==
    /\ CanRecord(p)
    /\ seq > producers[p].highContiguous
    /\ Offset(producers[p], seq) < W
    /\ ~getBit(producers[p].window, Offset(producers[p], seq))
    /\ LET ps == Arrive(producers[p], seq)
       IN  Put(p, advanceContiguous([ps EXCEPT !.window = setBit(@, Offset(ps, seq))]))
    /\ UNCHANGED resets

Record(p, seq) ==
    \/ RecordFirst(p, seq)
    \/ RecordRecovered(p, seq)
    \/ RecordDuplicate(p, seq)
    \/ RecordBeyondWindow(p, seq)
    \/ RecordInWindow(p, seq)

-----------------------------------------------------------------------------

(* Fault: the whole loss is reported every time. *)
DeltaIsTotal(ps) == ps.confirmedLost

(* The delta DetectGaps returns for a producer; 0 stands for no entry. *)
Delta(ps) ==
    IF ps.confirmedLost > ps.lastReportedLost
    THEN ps.confirmedLost - ps.lastReportedLost
    ELSE 0

DetectGaps ==
    /\ producers' = [p \in Known |->
                         [producers[p] EXCEPT !.lastReportedLost = producers[p].confirmedLost]]
    /\ UNCHANGED resets

Reset ==
    /\ resets < MaxResets
    /\ resets' = resets + 1
    /\ producers' = [p \in {} |-> p]

Init ==
    /\ producers = [p \in {} |-> p]
    /\ resets = 0

Next ==
    \/ \E p \in Producers, seq \in Seqs : Record(p, seq)
    \/ DetectGaps
    \/ Reset

Spec == Init /\ [][Next]_trackerVars
=============================================================================
