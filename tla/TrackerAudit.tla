----------------------------- MODULE TrackerAudit -----------------------------
(***************************************************************************)
(* The tracker with a record of what arrived, and what its loss and        *)
(* duplicate counters mean in terms of that record.  No operation of the   *)
(* tracker reads the variables added here.                                 *)
(***************************************************************************)
EXTENDS Tracker

VARIABLES
    lostMetric,    \* the live loss counter that DetectGaps' callers add deltas to
    arrived,       \* the sequences recorded since the last Reset
    base,          \* the first of them
    edge,          \* those that arrived W or more past the watermark
    skipped,       \* sequences that a slide passed without looking at
    suspected      \* how many sequences were ever made pending

vars == <<producers, resets, lostMetric, arrived, base, edge, skipped, suspected>>

(* seq arrives W or more past p's watermark. *)
Beyond(p, seq) ==
    p \in Known /\ seq > producers[p].highContiguous /\ Offset(producers[p], seq) >= W

(* The sequences that the capped slide distance leaves out. *)
Uninspected(p, seq) ==
    producers[p].highContiguous + W + 1 .. NewHigh(seq)

AuditRecord(p, seq) ==
    /\ Record(p, seq)
    /\ arrived' = [arrived EXCEPT ![p] = @ \cup {seq}]
    /\ base' = [base EXCEPT ![p] = IF p \in Known THEN @ ELSE seq]
    /\ edge' = [edge EXCEPT ![p] = IF Beyond(p, seq) THEN @ \cup {seq} ELSE @]
    /\ skipped' = [skipped EXCEPT ![p] =
                       IF Beyond(p, seq) THEN @ \cup Uninspected(p, seq) ELSE @]
    /\ suspected' = [suspected EXCEPT ![p] =
                       IF Beyond(p, seq) THEN @ + Cardinality(Evicted(producers[p], seq)) ELSE @]
    /\ UNCHANGED lostMetric

(* DetectGaps as the engine calls it: each delta goes to the loss metric. *)
AuditDetectGaps ==
    /\ DetectGaps
    /\ lostMetric' = [p \in Producers |->
                          lostMetric[p] + (IF p \in Known THEN Delta(producers[p]) ELSE 0)]
    /\ UNCHANGED <<arrived, base, edge, skipped, suspected>>

(* Reset forgets the arrivals; the metric is process-wide and stays. *)
AuditReset ==
    /\ Reset
    /\ arrived' = [p \in Producers |-> {}]
    /\ base' = [p \in Producers |-> 0]
    /\ edge' = [p \in Producers |-> {}]
    /\ skipped' = [p \in Producers |-> {}]
    /\ UNCHANGED <<lostMetric, suspected>>

AuditInit ==
    /\ Init
    /\ lostMetric = [p \in Producers |-> 0]
    /\ arrived = [p \in Producers |-> {}]
    /\ base = [p \in Producers |-> 0]
    /\ edge = [p \in Producers |-> {}]
    /\ skipped = [p \in Producers |-> {}]
    /\ suspected = [p \in Producers |-> 0]

AuditNext ==
    \/ \E p \in Producers, seq \in Seqs : AuditRecord(p, seq)
    \/ AuditDetectGaps
    \/ AuditReset

AuditSpec == AuditInit /\ [][AuditNext]_vars

-----------------------------------------------------------------------------

Windows == SUBSET (0 .. W - 1)

SeqSets == SUBSET Nat

ProducerState ==
    [highContiguous: Nat, window: Windows, received: Nat, duplicates: Nat,
     outOfOrder: Nat, confirmedLost: Nat, pendingLost: SeqSets,
     lastReportedLost: Nat, lastSeen: Nat]

(* Type invariant: the map holds producer states for known producers, every *)
(* set bit lies inside the reorder window, and the history has its types.   *)
TypeOK ==
    /\ Known \subseteq Producers
    /\ \A p \in Known : producers[p] \in ProducerState
    /\ resets \in 0 .. MaxResets
    /\ lostMetric \in [Producers -> Nat]
    /\ arrived \in [Producers -> SUBSET Seqs]
    /\ base \in [Producers -> Nat]
    /\ edge \in [Producers -> SUBSET Seqs]
    /\ skipped \in [Producers -> SUBSET Nat]
    /\ suspected \in [Producers -> Nat]

(* The sequences between a producer's first one and its watermark. *)
Tracked(p) == base[p] .. producers[p].highContiguous

(* The suspected losses bracket the true ones (slideWindow and Record): a   *)
(* sequence at or below the watermark that never arrived is pending, unless *)
(* a slide jumped over it; and a pending sequence never arrived, unless it  *)
(* was itself the arrival that forced a slide.                              *)
LossBracket ==
    \A p \in Known :
        /\ Tracked(p) \ (arrived[p] \cup skipped[p]) \subseteq producers[p].pendingLost
        /\ producers[p].pendingLost \subseteq (Tracked(p) \ arrived[p]) \cup edge[p]

(* The reported loss counts the pending sequences, all of them already      *)
(* behind the watermark, after any mix of evictions and late recoveries     *)
(* (Record, slideWindow).                                                   *)
LossCounted ==
    \A p \in Known :
        /\ producers[p].confirmedLost = Cardinality(producers[p].pendingLost)
        /\ producers[p].pendingLost \subseteq Tracked(p)

(* The window stays anchored to the traffic (advanceContiguous and          *)
(* slideWindow): the sequence right above the watermark is always unseen,   *)
(* and no arrival is ever more than W + 1 above it.                         *)
WindowAnchored ==
    \A p \in Known :
        /\ ~getBit(producers[p].window, 0)
        /\ \A seq \in arrived[p] : seq <= producers[p].highContiguous + W + 1

(* What the window says about sequences above the watermark is what         *)
(* happened: a set bit is an arrival, and an arrival has its bit unless it  *)
(* forced a slide (Record, slideWindow, shiftLeft).                         *)
WindowFaithful ==
    \A p \in Known :
        /\ \A i \in producers[p].window : producers[p].highContiguous + 1 + i \in arrived[p]
        /\ \A seq \in arrived[p] \ edge[p] :
               seq > producers[p].highContiguous
                   => getBit(producers[p].window, Offset(producers[p], seq))

(* The live loss metric neither misses a reported loss nor counts one twice *)
(* (DetectGaps), although recoveries make confirmedLost go down in between. *)
LiveLossMetric ==
    \A p \in Producers :
        /\ p \in Known => producers[p].lastReportedLost <= lostMetric[p]
        /\ lostMetric[p] <= suspected[p]

(* Record flags a duplicate only for a sequence that had arrived, that lies *)
(* below the first one seen, or that a slide jumped over.                   *)
DuplicatesJustified ==
    [][\A p \in Producers, seq \in Seqs :
          RecordDuplicate(p, seq)
              => seq \in arrived[p] \cup skipped[p] \/ seq < base[p]]_vars

(* The watermark of a producer only goes up (Record, slideWindow); Reset    *)
(* alone forgets it.                                                        *)
WatermarkRises ==
    [][Reset \/ \A p \in Known : /\ p \in DOMAIN producers'
                                 /\ producers'[p].highContiguous >= producers[p].highContiguous]_vars
=============================================================================
