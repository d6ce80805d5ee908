-------------------------- MODULE CreditFlowProofs --------------------------
(***************************************************************************)
(* The safety of the credit-flow worker, for any batch and any number of   *)
(* messages, connections lost, over-deliveries and unanswered drains.      *)
(***************************************************************************)
EXTENDS CreditFlow, FiniteSetTheorems, SequenceTheorems, TLAPS

Frames == Seqs \cup {Drained}

TypeInv ==
    /\ consumerDone \in BOOLEAN /\ draining \in BOOLEAN
    /\ seq \in 0 .. MaxSeq
    /\ con \in {"connect", "grant", "receive", "batch", "drain", "absorb", "confirm", "recheck",
                "done"}
    /\ buffer \subseteq Seqs /\ wire \subseteq Seqs
    /\ waiting \subseteq Seqs /\ unsettled \subseteq Seqs
    /\ pipe \in Seq(Frames)
    /\ credit \in Nat /\ fidelity \in Nat /\ over \in Nat /\ hangs \in Nat

-----------------------------------------------------------------------------
(* Sequences and sets of frames.                                           *)

LEMMA Finite ==
    ASSUME NEW B \in SUBSET Seqs
    PROVE  IsFiniteSet(B) /\ Cardinality(B) \in Nat
<1>1. IsFiniteSet(Seqs)
  BY CreditFlowBounds, FS_Interval DEF Seqs
<1>2. IsFiniteSet(B)
  BY <1>1, FS_Subset, Zenon
<1> QED BY <1>2, FS_CardinalityType, Zenon

LEMMA NotDrained == Drained \notin Seqs
BY CreditFlowBounds DEF Seqs, Drained

LEMMA TailFrames ==
    ASSUME NEW p \in Seq(Frames), p # <<>>
    PROVE  /\ Head(p) = p[1] /\ Head(p) \in Frames
           /\ Tail(p) \in Seq(Frames) /\ Len(Tail(p)) = Len(p) - 1 /\ Len(p) \in Nat \ {0}
           /\ \A i \in 1 .. Len(p) - 1 : Tail(p)[i] = p[i + 1]
OBVIOUS

LEMMA AppendFrames ==
    ASSUME NEW p \in Seq(Frames), NEW f \in Frames
    PROVE  /\ Append(p, f) \in Seq(Frames) /\ Len(Append(p, f)) = Len(p) + 1
           /\ \A i \in 1 .. Len(p) : Append(p, f)[i] = p[i]
           /\ Append(p, f)[Len(p) + 1] = f
OBVIOUS

LEMMA EmptyFrames == <<>> \in Seq(Frames) /\ Len(<<>>) = 0
OBVIOUS

-----------------------------------------------------------------------------
LEMMA TypeInit ==
    ASSUME Init
    PROVE  TypeInv
<1>1. 0 \in 0 .. MaxSeq
  BY CreditFlowBounds
<1>2. pipe \in Seq(Frames)
  BY EmptyFrames, ZenonT(30) DEF Init
<1> QED BY <1>1, <1>2, Zenon DEF Init, TypeInv

LEMMA TypeStep ==
    ASSUME TypeInv, [Next]_vars
    PROVE  TypeInv'
<1> USE CreditFlowBounds, BatchAssumption DEF TypeInv
<1> USE DEF vars, ctxVars, producerVars, consumerVars, linkVars, brokerVars, faultVars
<1>0. ASSUME cleanupConn
      PROVE  /\ buffer' \subseteq Seqs /\ waiting' \subseteq Seqs /\ unsettled' \subseteq Seqs
             /\ pipe' \in Seq(Frames) /\ credit' \in Nat /\ draining' \in BOOLEAN
  <2>1. pipe' \in Seq(Frames)
    BY <1>0, EmptyFrames, Zenon DEF cleanupConn
  <2> QED BY <1>0, <2>1, ZenonT(30) DEF cleanupConn
<1>1. CASE BrokerStore
  BY <1>1 DEF BrokerStore
<1>2. CASE TransferLost
  BY <1>2 DEF TransferLost
<1>3. ASSUME NEW m \in waiting, pipe' = Append(pipe, m) PROVE pipe' \in Seq(Frames)
  BY <1>3, AppendFrames DEF Frames
<1>4. CASE Deliver
  BY <1>4, <1>3 DEF Deliver, Push
<1>5. CASE OverDeliver
  BY <1>5, <1>3 DEF OverDeliver, Push
<1>6. CASE AnswerDrain
  BY <1>6, AppendFrames, ZenonT(30) DEF AnswerDrain, Frames
<1>7. CASE Arrive
  <2>1. Head(pipe) \in Seqs /\ Tail(pipe) \in Seq(Frames)
    BY <1>7, TailFrames DEF Arrive, Frames
  <2> QED BY <1>7, <2>1 DEF Arrive
<1>8. CASE Settle
  BY <1>8 DEF Settle
<1>9. CASE DisconnectConsumer
  BY <1>9, EmptyFrames, Zenon DEF DisconnectConsumer, Fault
<1>10. CASE Connect
  BY <1>10 DEF Connect
<1>11. CASE IssueCredit
  BY <1>11, <1>0 DEF IssueCredit, Return, BrokerSide
<1>12. CASE Receive
  BY <1>12, <1>0 DEF Receive, Accepted, TakePrefetched, BrokerSide
<1>13. CASE ReceiveFails
  BY <1>13, <1>0 DEF ReceiveFails, Return, BrokerSide
<1>14. CASE EndBatch
  BY <1>14, ZenonT(30) DEF EndBatch
<1>15. CASE DrainCompletes
  BY <1>15, TailFrames DEF DrainCompletes
<1>16. CASE DrainFails
  BY <1>16, <1>0 DEF DrainFails, Return, BrokerSide
<1>17. CASE Absorb
  BY <1>17 DEF Absorb, Accepted, TakePrefetched, BrokerSide
<1>18. CASE Confirm
  BY <1>18, <1>0 DEF Confirm, Return, BrokerSide
<1>19. CASE Recheck
  BY <1>19 DEF Recheck, Accepted, TakePrefetched, BrokerSide
<1>20. CASE StartProducers
  BY <1>20 DEF StartProducers, ClientSide
<1>21. CASE Producer
  <2>1. CASE ProducerReturns
    BY <2>1 DEF ProducerReturns, ClientSide
  <2>2. CASE Send
    <3>1. seq + 1 \in Seqs /\ seq + 1 \in 0 .. MaxSeq
      BY <2>2 DEF Send, Seqs
    <3> QED BY <2>2, <3>1 DEF Send, ClientSide
  <2>3. CASE SendReturns
    BY <2>3 DEF SendReturns, ClientSide
  <2> QED BY <1>21, <2>1, <2>2, <2>3 DEF Producer
<1>22. CASE StopProducers
  BY <1>22 DEF StopProducers, ClientSide
<1>23. CASE StopConsumers
  BY <1>23 DEF StopConsumers, ClientSide
<1>24. CASE UNCHANGED vars
  BY <1>24
<1> QED
  BY <1>1, <1>2, <1>4, <1>5, <1>6, <1>7, <1>8, <1>9, <1>10, <1>11, <1>12, <1>13, <1>14, <1>15,
     <1>16, <1>17, <1>18, <1>19, <1>20, <1>21, <1>22, <1>23, <1>24, ZenonT(30)
  DEF Next, Broker, Consumer

-----------------------------------------------------------------------------
(* No false gap.  Once a drain is answered the credit is 0, so what is in   *)
(* the pipe behind the answer was pushed without credit; and once the       *)
(* buffer has been emptied all that is left to come is of that kind.        *)

Verifying == con \in {"absorb", "confirm", "recheck"}

(* The second look will be at a buffer that was emptied after the drain. *)
Emptied == link = "up" /\ (con = "recheck" \/ (con = "confirm" /\ ~consumerDone))

Answered(i) == pipe[i] = Drained

GapInv ==
    /\ NoFalseGap
    /\ \A i \in DOMAIN pipe : Answered(i) =>
           /\ con = "drain" /\ credit = 0 /\ ~draining
           /\ fidelity + (Len(pipe) - i) <= over + hangs
           /\ \A j \in DOMAIN pipe : Answered(j) => j = i
    /\ draining => con = "drain"
    /\ Verifying => credit = 0 /\ fidelity + Len(pipe) <= over + hangs
    /\ Emptied => fidelity + Len(pipe) + Cardinality(buffer) <= over + hangs

gapVars == <<consumerDone, con, link, buffer, pipe, credit, draining, fidelity, over, hangs>>

LEMMA GapUntouched ==
    ASSUME GapInv, UNCHANGED gapVars
    PROVE  GapInv'
BY Zenon DEF GapInv, NoFalseGap, Answered, Verifying, Emptied, gapVars

(* The link is given up. *)
LEMMA GapCleaned ==
    ASSUME cleanupConn, con' = "connect", NoFalseGap'
    PROVE  GapInv'
<1>1. pipe' = <<>> /\ ~draining' /\ ~Verifying' /\ ~Emptied'
  BY Zenon DEF cleanupConn, Verifying, Emptied
<1>2. DOMAIN pipe' = {}
  BY <1>1
<1> QED BY <1>1, <1>2, Zenon DEF GapInv

(* A drain has not been answered unless one is under way. *)
LEMMA GapElsewhere ==
    ASSUME TypeInv, GapInv, con # "drain"
    PROVE  (\A i \in DOMAIN pipe : ~Answered(i)) /\ ~draining
BY Zenon DEF GapInv

(* A step outside of a drain. *)
LEMMA GapQuiet ==
    ASSUME TypeInv, GapInv, con # "drain", pipe' = pipe, NoFalseGap', ~Verifying',
           draining' => con' = "drain"
    PROVE  GapInv'
<1>1. \A i \in DOMAIN pipe : ~Answered(i)
  BY GapElsewhere, Zenon
<1>2. \A i \in DOMAIN pipe' : ~Answered(i)'
  BY <1>1, Zenon DEF Answered
<1>3. ~Emptied'
  BY Zenon DEF Verifying, Emptied
<1> QED BY <1>2, <1>3, Zenon DEF GapInv

(* What a push and an arrival do to the pipe. *)
LEMMA Pushed ==
    ASSUME TypeInv, NEW f \in Frames, pipe' = Append(pipe, f)
    PROVE  /\ DOMAIN pipe' = 1 .. Len(pipe) + 1 /\ Len(pipe') = Len(pipe) + 1
           /\ \A i \in DOMAIN pipe' :
                  \/ i \in DOMAIN pipe /\ pipe'[i] = pipe[i]
                  \/ i = Len(pipe') /\ pipe'[i] = f
<1>1. pipe \in Seq(Frames) /\ DOMAIN pipe = 1 .. Len(pipe) /\ Len(pipe) \in Nat
  BY DEF TypeInv
<1>2. /\ pipe' \in Seq(Frames) /\ Len(pipe') = Len(pipe) + 1
      /\ \A i \in 1 .. Len(pipe) : pipe'[i] = pipe[i]
      /\ pipe'[Len(pipe) + 1] = f
  BY <1>1, AppendFrames, Zenon
<1>3. DOMAIN pipe' = 1 .. Len(pipe')
  BY <1>2
<1>4. \A i \in 1 .. Len(pipe) + 1 : i \in 1 .. Len(pipe) \/ i = Len(pipe) + 1
  BY <1>1
<1> QED BY <1>1, <1>2, <1>3, <1>4, Zenon

LEMMA Popped ==
    ASSUME TypeInv, pipe # <<>>, pipe' = Tail(pipe)
    PROVE  /\ 1 \in DOMAIN pipe /\ Head(pipe) = pipe[1]
           /\ DOMAIN pipe' = 1 .. Len(pipe) - 1 /\ Len(pipe') = Len(pipe) - 1
           /\ \A i \in DOMAIN pipe' :
                  i \in Nat \ {0} /\ i + 1 \in DOMAIN pipe /\ pipe'[i] = pipe[i + 1]
<1>1. pipe \in Seq(Frames) /\ DOMAIN pipe = 1 .. Len(pipe)
  BY DEF TypeInv
<1>2. /\ Head(pipe) = pipe[1] /\ Len(pipe) \in Nat \ {0}
      /\ pipe' \in Seq(Frames) /\ Len(pipe') = Len(pipe) - 1
      /\ \A i \in 1 .. Len(pipe) - 1 : pipe'[i] = pipe[i + 1]
  BY <1>1, TailFrames, Zenon
<1>3. DOMAIN pipe' = 1 .. Len(pipe')
  BY <1>2
<1>4. \A i \in 1 .. Len(pipe) - 1 : i \in Nat \ {0} /\ i + 1 \in 1 .. Len(pipe)
  BY <1>2
<1>5. 1 \in 1 .. Len(pipe)
  BY <1>2
<1> QED BY <1>1, <1>2, <1>3, <1>4, <1>5, Zenon

LEMMA GapStep ==
    ASSUME TypeInv, GapInv, [Next]_vars
    PROVE  GapInv'
<1> USE DEF vars, ctxVars, producerVars, consumerVars, linkVars, brokerVars, faultVars
<1>0. /\ fidelity \in Nat /\ over \in Nat /\ hangs \in Nat /\ Len(pipe) \in Nat
      /\ DOMAIN pipe = 1 .. Len(pipe) /\ pipe \in Seq(Frames)
      /\ buffer \in SUBSET Seqs /\ IsFiniteSet(buffer) /\ Cardinality(buffer) \in Nat
  BY Finite DEF TypeInv
<1>1. CASE BrokerStore \/ TransferLost \/ Settle \/ StartProducers \/ Producer \/ StopProducers
  <2>1. UNCHANGED gapVars
    BY <1>1, Zenon
    DEF BrokerStore, TransferLost, Settle, StartProducers, Producer, ProducerReturns, Send,
                SendReturns, StopProducers, ClientSide, gapVars
  <2> QED BY <2>1, GapUntouched, Zenon
<1>2. CASE Deliver
  <2>1. ~Verifying /\ ~Emptied /\ \A i \in DOMAIN pipe : ~Answered(i)
    BY <1>2, <1>0 DEF Deliver, GapInv, Verifying, Emptied
  <2>2. PICK m \in Seqs : pipe' = Append(pipe, m)
    BY <1>2, Zenon DEF Deliver, Push, TypeInv
  <2>3. DOMAIN pipe' = 1 .. Len(pipe) + 1 /\ \A i \in DOMAIN pipe' : ~Answered(i)'
    BY <2>1, <2>2, Pushed, NotDrained DEF Answered, Frames
  <2>4. UNCHANGED <<consumerDone, con, link, fidelity, over, hangs, draining>>
    BY <1>2, Zenon DEF Deliver, Push
  <2>5. ~Verifying' /\ ~Emptied'
    BY <2>1, <2>4, Zenon DEF Verifying, Emptied
  <2> QED BY <2>3, <2>4, <2>5, Zenon DEF GapInv, NoFalseGap
<1>3. CASE OverDeliver
  <2>1. PICK m \in Seqs : pipe' = Append(pipe, m)
    BY <1>3, Zenon DEF OverDeliver, Push, TypeInv
  <2>2. /\ UNCHANGED <<consumerDone, con, link, buffer, fidelity, hangs, draining, credit>>
        /\ over' = over + 1
    BY <1>3, Zenon DEF OverDeliver, Push
  <2>3. /\ DOMAIN pipe' = 1 .. Len(pipe) + 1 /\ Len(pipe') = Len(pipe) + 1
        /\ \A i \in DOMAIN pipe' : Answered(i)' => i \in DOMAIN pipe /\ Answered(i)
    BY <2>1, Pushed, NotDrained, Zenon DEF Answered, Frames
  <2>4. NoFalseGap'
    BY <2>2, <1>0 DEF GapInv, NoFalseGap
  <2>5. ASSUME NEW i \in DOMAIN pipe', Answered(i)'
        PROVE  /\ con' = "drain" /\ credit' = 0 /\ ~draining'
               /\ fidelity' + (Len(pipe') - i) <= over' + hangs'
               /\ \A j \in DOMAIN pipe' : Answered(j)' => j = i
    <3>1. i \in DOMAIN pipe /\ Answered(i)
      BY <2>3, <2>5, Zenon
    <3>2. /\ con = "drain" /\ credit = 0 /\ ~draining
          /\ fidelity + (Len(pipe) - i) <= over + hangs
          /\ \A j \in DOMAIN pipe : Answered(j) => j = i
      BY <3>1, Zenon DEF GapInv
    <3>3. i \in Nat
      BY <3>1, <1>0
    <3>4. fidelity + (Len(pipe) + 1 - i) <= over + 1 + hangs
      BY <3>2, <3>3, <1>0
    <3> QED BY <2>2, <2>3, <3>2, <3>4
  <2>6. Verifying' => credit' = 0 /\ fidelity' + Len(pipe') <= over' + hangs'
    <3>1. Verifying => credit = 0 /\ fidelity + Len(pipe) <= over + hangs
      BY Zenon DEF GapInv
    <3>2. fidelity + Len(pipe) <= over + hangs => fidelity + (Len(pipe) + 1) <= over + 1 + hangs
      BY <1>0
    <3> QED BY <2>2, <2>3, <3>1, <3>2, Zenon DEF Verifying
  <2>7. Emptied' => fidelity' + Len(pipe') + Cardinality(buffer') <= over' + hangs'
    <3>1. Emptied => fidelity + Len(pipe) + Cardinality(buffer) <= over + hangs
      BY Zenon DEF GapInv
    <3>2. fidelity + Len(pipe) + Cardinality(buffer) <= over + hangs
              => fidelity + (Len(pipe) + 1) + Cardinality(buffer) <= over + 1 + hangs
      BY <1>0
    <3>3. Emptied' = Emptied /\ buffer' = buffer
      BY <2>2, Zenon DEF Emptied
    <3> QED BY <2>2, <2>3, <3>1, <3>2, <3>3, Zenon
  <2>8. draining' => con' = "drain"
    BY <2>2, Zenon DEF GapInv
  <2> QED BY <2>4, <2>5, <2>6, <2>7, <2>8, Zenon DEF GapInv
<1>4. CASE AnswerDrain
  <2>1. /\ UNCHANGED <<consumerDone, con, link, buffer, fidelity, over, hangs>>
        /\ ~draining' /\ credit' = 0 /\ draining /\ pipe' = Append(pipe, Drained)
    BY <1>4, Zenon DEF AnswerDrain
  <2>2. con = "drain" /\ (\A i \in DOMAIN pipe : ~Answered(i))
    BY <2>1, Zenon DEF GapInv
  <2>3. /\ DOMAIN pipe' = 1 .. Len(pipe) + 1 /\ Len(pipe') = Len(pipe) + 1
        /\ \A i \in DOMAIN pipe' : Answered(i)' => i = Len(pipe')
    BY <2>1, <2>2, Pushed, Zenon DEF Answered, Frames
  <2>4. NoFalseGap'
    BY <2>1, Zenon DEF GapInv, NoFalseGap
  <2>5. fidelity' + (Len(pipe') - Len(pipe')) <= over' + hangs'
    <3>1. Len(pipe) + 1 \in Nat /\ fidelity + ((Len(pipe) + 1) - (Len(pipe) + 1)) = fidelity
      BY <1>0
    <3>2. fidelity <= over + hangs
      BY Zenon DEF GapInv, NoFalseGap
    <3> QED BY <2>1, <2>3, <3>1, <3>2, Zenon
  <2>6. ~Verifying' /\ ~Emptied' /\ con' = "drain"
    BY <2>1, <2>2, Zenon DEF Verifying, Emptied
  <2> QED BY <2>1, <2>3, <2>4, <2>5, <2>6, Zenon DEF GapInv
<1>5. CASE Arrive
  <2>1. /\ UNCHANGED <<consumerDone, con, link, credit, draining, fidelity, over, hangs>>
        /\ pipe # <<>> /\ Head(pipe) # Drained /\ pipe' = Tail(pipe)
        /\ buffer' = buffer \cup {Head(pipe)}
    BY <1>5, Zenon DEF Arrive
  <2>2. /\ DOMAIN pipe' = 1 .. Len(pipe) - 1 /\ Len(pipe') = Len(pipe) - 1
        /\ \A i \in DOMAIN pipe' : i + 1 \in DOMAIN pipe /\ (Answered(i)' => Answered(i + 1))
    BY <2>1, Popped, Zenon DEF Answered
  <2>3. Cardinality(buffer') \in Nat /\ Cardinality(buffer') <= Cardinality(buffer) + 1
    <3>1. \/ Cardinality(buffer') = Cardinality(buffer)
          \/ Cardinality(buffer') = Cardinality(buffer) + 1
      BY <2>1, <1>0, FS_AddElement, Zenon
    <3> QED BY <1>0, <3>1
  <2>4. NoFalseGap'
    BY <2>1, Zenon DEF GapInv, NoFalseGap
  <2>5. ASSUME NEW i \in DOMAIN pipe', Answered(i)'
        PROVE  /\ con' = "drain" /\ credit' = 0 /\ ~draining'
               /\ fidelity' + (Len(pipe') - i) <= over' + hangs'
               /\ \A j \in DOMAIN pipe' : Answered(j)' => j = i
    <3>1. i \in Nat /\ i + 1 \in DOMAIN pipe /\ Answered(i + 1)
      BY <2>2, <2>5, <1>0
    <3>2. /\ con = "drain" /\ credit = 0 /\ ~draining
          /\ fidelity + (Len(pipe) - (i + 1)) <= over + hangs
          /\ \A j \in DOMAIN pipe : Answered(j) => j = i + 1
      BY <3>1, Zenon DEF GapInv
    <3>3. fidelity + ((Len(pipe) - 1) - i) <= over + hangs
      BY <3>1, <3>2, <1>0
    <3>4. ASSUME NEW j \in DOMAIN pipe', Answered(j)' PROVE j = i
      <4>1. j \in Nat /\ j + 1 = i + 1
        BY <3>4, <3>2, <2>2, <1>0
      <4> QED BY <4>1, <3>1
    <3> QED BY <2>1, <2>2, <3>2, <3>3, <3>4, Zenon
  <2>6. Verifying' => credit' = 0 /\ fidelity' + Len(pipe') <= over' + hangs'
    <3>1. Verifying => credit = 0 /\ fidelity + Len(pipe) <= over + hangs
      BY Zenon DEF GapInv
    <3>2. fidelity + Len(pipe) <= over + hangs => fidelity + (Len(pipe) - 1) <= over + hangs
      BY <1>0
    <3> QED BY <2>1, <2>2, <3>1, <3>2, Zenon DEF Verifying
  <2>7. Emptied' => fidelity' + Len(pipe') + Cardinality(buffer') <= over' + hangs'
    <3>1. Emptied => fidelity + Len(pipe) + Cardinality(buffer) <= over + hangs
      BY Zenon DEF GapInv
    <3>2. fidelity + Len(pipe) + Cardinality(buffer) <= over + hangs
              => fidelity + (Len(pipe) - 1) + Cardinality(buffer') <= over + hangs
      BY <2>3, <1>0
    <3>3. Emptied' = Emptied
      BY <2>1, Zenon DEF Emptied
    <3> QED BY <2>1, <2>2, <3>1, <3>2, <3>3, Zenon
  <2>8. draining' => con' = "drain"
    BY <2>1, Zenon DEF GapInv
  <2> QED BY <2>4, <2>5, <2>6, <2>7, <2>8, Zenon DEF GapInv

<1>6. CASE DisconnectConsumer
  <2>1. /\ pipe' = <<>> /\ credit' = 0 /\ ~draining' /\ link' = "broken"
        /\ UNCHANGED <<fidelity, over, hangs, con>>
    BY <1>6, Zenon DEF DisconnectConsumer, Fault
  <2>2. DOMAIN pipe' = {} /\ Len(pipe') = 0 /\ ~Emptied'
    BY <2>1, EmptyFrames DEF Emptied
  <2>3. fidelity' <= over' + hangs' /\ fidelity' + 0 <= over' + hangs'
    BY <2>1, <1>0 DEF GapInv, NoFalseGap
  <2> QED BY <2>1, <2>2, <2>3, Zenon DEF GapInv, NoFalseGap
<1>7. ASSUME Return, fidelity' <= over' + hangs'
      PROVE  GapInv'
  BY <1>7, GapCleaned, Zenon DEF Return, NoFalseGap
<1>8. fidelity <= over + hangs
  BY Zenon DEF GapInv, NoFalseGap
<1>9. CASE Connect
  <2>1. /\ con # "drain" /\ pipe' = pipe /\ ~Verifying' /\ con' # "drain"
        /\ UNCHANGED <<fidelity, over, hangs, draining>>
    BY <1>9, Zenon DEF Connect, Verifying
  <2> QED BY <2>1, <1>8, GapQuiet, GapElsewhere, Zenon DEF NoFalseGap
<1>10. CASE IssueCredit
  <2>1. UNCHANGED <<fidelity, over, hangs>>
    BY <1>10, Zenon DEF IssueCredit
  <2>2. CASE Return
    BY <2>1, <2>2, <1>7, <1>8, Zenon
  <2>3. CASE ~Return
    <3>1. con # "drain" /\ pipe' = pipe /\ ~Verifying' /\ draining' = draining
      BY <1>10, <2>3, Zenon DEF IssueCredit, Verifying
    <3> QED BY <2>1, <3>1, <1>8, GapQuiet, GapElsewhere, Zenon DEF NoFalseGap
  <2> QED BY <2>2, <2>3, Zenon
<1>11. CASE Receive
  <2>1. UNCHANGED <<fidelity, over, hangs>> /\ con # "drain"
    BY <1>11, Zenon DEF Receive, Accepted
  <2>2. CASE cleanupConn /\ con' = "connect"
    BY <2>1, <2>2, <1>8, GapCleaned, Zenon DEF NoFalseGap
  <2>3. CASE ~(cleanupConn /\ con' = "connect")
    <3>1. pipe' = pipe /\ ~Verifying' /\ draining' = draining
      BY <1>11, <2>3, Zenon DEF Receive, Accepted, Verifying
    <3> QED BY <2>1, <3>1, <1>8, GapQuiet, GapElsewhere, Zenon DEF NoFalseGap
  <2> QED BY <2>2, <2>3, Zenon
<1>12. CASE ReceiveFails
  <2>1. UNCHANGED <<fidelity, over, hangs>>
    BY <1>12 DEF ReceiveFails
  <2>2. CASE Return
    BY <2>1, <2>2, <1>7, <1>8, Zenon
  <2>3. CASE ~Return
    <3>1. con # "drain" /\ pipe' = pipe /\ ~Verifying' /\ draining' = draining
      BY <1>12, <2>3, Zenon DEF ReceiveFails, Verifying
    <3> QED BY <2>1, <3>1, <1>8, GapQuiet, GapElsewhere, Zenon DEF NoFalseGap
  <2> QED BY <2>2, <2>3, Zenon
<1>13. CASE EndBatch
  <2>1. con # "drain" /\ ~draining
    BY <1>13, GapElsewhere, Zenon DEF EndBatch
  <2>2. /\ pipe' = pipe /\ ~Verifying' /\ (draining' => con' = "drain")
        /\ UNCHANGED <<fidelity, over, hangs>>
    BY <1>13, <2>1 DEF EndBatch, Verifying
  <2> QED BY <2>1, <2>2, <1>8, GapQuiet, Zenon DEF NoFalseGap
<1>14. CASE DrainCompletes
  <2>1. /\ pipe # <<>> /\ Head(pipe) = Drained /\ pipe' = Tail(pipe) /\ con' = "absorb"
        /\ UNCHANGED <<fidelity, over, hangs, credit, draining>>
    BY <1>14, Zenon DEF DrainCompletes
  <2>2. 1 \in DOMAIN pipe /\ Answered(1)
    BY <2>1, Popped, Zenon DEF Answered
  <2>3. /\ credit = 0 /\ ~draining /\ fidelity + (Len(pipe) - 1) <= over + hangs
        /\ \A j \in DOMAIN pipe : Answered(j) => j = 1
    BY <2>2, Zenon DEF GapInv
  <2>4. /\ DOMAIN pipe' = 1 .. Len(pipe) - 1 /\ Len(pipe') = Len(pipe) - 1
        /\ \A i \in DOMAIN pipe' : i \in Nat \ {0} /\ i + 1 \in DOMAIN pipe
                                   /\ (Answered(i)' => Answered(i + 1))
    BY <2>1, Popped, Zenon DEF Answered
  <2>5. ASSUME NEW i \in DOMAIN pipe' PROVE ~Answered(i)'
    <3>1. i \in Nat \ {0} /\ i + 1 # 1
      BY <2>4
    <3> QED BY <3>1, <2>3, <2>4, Zenon
  <2>6. ~Emptied'
    BY <2>1, Zenon DEF Emptied
  <2> QED BY <2>1, <2>3, <2>4, <2>5, <2>6, <1>8, Zenon DEF GapInv, NoFalseGap
<1>15. CASE DrainFails
  <2>1. Return
    BY <1>15, Zenon DEF DrainFails
  <2>2. CASE UNCHANGED <<fidelity, faultVars>>
    BY <2>1, <2>2, <1>7, <1>8, Zenon
  <2>3. CASE hangs' = hangs + 1 /\ fidelity' = fidelity + 1 /\ UNCHANGED <<faults, over>>
    <3>1. fidelity + 1 <= over + (hangs + 1)
      BY <1>0, <1>8
    <3> QED BY <2>1, <2>3, <3>1, <1>7, Zenon
  <2> QED BY <1>15, <2>2, <2>3, Zenon DEF DrainFails
<1>16. CASE Absorb
  <2>1. /\ UNCHANGED <<fidelity, over, hangs, pipe, credit, draining, link>>
        /\ con = "absorb" /\ con' \in {"absorb", "confirm"}
        /\ con' = "confirm" => buffer' = {} \/ AcceptCanFail
        /\ consumerDone' = consumerDone
    BY <1>16, Zenon DEF Absorb, Accepted, TakePrefetched, BrokerSide
  <2>2. /\ ~draining' /\ \A i \in DOMAIN pipe' : ~Answered(i)'
    BY <2>1, GapElsewhere, Zenon DEF Answered
  <2>3. credit' = 0 /\ fidelity' + Len(pipe') <= over' + hangs'
    BY <2>1, Zenon DEF GapInv, Verifying
  <2>4. Emptied' => fidelity' + Len(pipe') + Cardinality(buffer') <= over' + hangs'
    <3>1. Emptied' => buffer' = {}
      BY <2>1, Zenon DEF Emptied, AcceptCanFail
    <3>2. buffer' = {} => Cardinality(buffer') = 0
      BY FS_EmptySet, Zenon
    <3>3. fidelity' + Len(pipe') + 0 <= over' + hangs'
      BY <2>1, <2>3, <1>0
    <3> QED BY <3>1, <3>2, <3>3, Zenon
  <2> QED BY <2>1, <2>2, <2>3, <2>4, <1>8, Zenon DEF GapInv, NoFalseGap
<1>17. CASE Confirm
  <2>1. UNCHANGED <<fidelity, over, hangs>>
    BY <1>17, Zenon DEF Confirm
  <2>2. CASE Return
    BY <2>1, <2>2, <1>7, <1>8, Zenon
  <2>3. CASE ~Return
    <3>1. /\ UNCHANGED <<consumerDone, pipe, credit, draining, link, buffer>>
          /\ con = "confirm" /\ con' = "recheck" /\ ~consumerDone
      BY <1>17, <2>3, Zenon DEF Confirm, BrokerSide
    <3>2. /\ ~draining' /\ \A i \in DOMAIN pipe' : ~Answered(i)'
      BY <3>1, GapElsewhere, Zenon DEF Answered
    <3>3. credit' = 0 /\ fidelity' + Len(pipe') <= over' + hangs'
      BY <2>1, <3>1, Zenon DEF GapInv, Verifying
    <3>4. Emptied' => fidelity' + Len(pipe') + Cardinality(buffer') <= over' + hangs'
      <4>1. Emptied' => Emptied
        BY <3>1, Zenon DEF Emptied
      <4>2. Emptied => fidelity + Len(pipe) + Cardinality(buffer) <= over + hangs
        BY Zenon DEF GapInv
      <4> QED BY <2>1, <3>1, <4>1, <4>2, Zenon
    <3> QED BY <2>1, <3>2, <3>3, <3>4, <1>8, Zenon DEF GapInv, NoFalseGap
  <2> QED BY <2>2, <2>3, Zenon
<1>18. CASE Recheck
  <2>1. UNCHANGED <<over, hangs, pipe, credit, draining, link, consumerDone>> /\ con = "recheck"
    BY <1>18, Zenon DEF Recheck, Accepted, BrokerSide
  <2>2. CASE con' = "grant" /\ UNCHANGED fidelity
    <3>1. ~Verifying' /\ ~draining'
      BY <2>1, <2>2, GapElsewhere, Zenon DEF Verifying
    <3> QED BY <2>1, <2>2, <3>1, <1>8, GapQuiet, Zenon DEF NoFalseGap
  <2>3. ASSUME NEW m \in buffer, Accepted(m), fidelity' = fidelity + 1, con' = "recheck"
        PROVE  GapInv'
    <3>1. link = "up" /\ buffer' = buffer \ {m}
      BY <2>3, Zenon DEF Accepted, TakePrefetched
    <3>2. fidelity + Len(pipe) + Cardinality(buffer) <= over + hangs /\ credit = 0
      BY <2>1, <3>1, Zenon DEF GapInv, Emptied, Verifying
    <3>3. Cardinality(buffer') = Cardinality(buffer) - 1 /\ Cardinality(buffer') \in Nat
      BY <3>1, <1>0, FS_RemoveElement, FS_CardinalityType, Zenon
    <3>4. /\ fidelity + 1 + Len(pipe) + Cardinality(buffer') <= over + hangs
          /\ fidelity + 1 + Len(pipe) <= over + hangs
          /\ fidelity + 1 <= over + hangs
      BY <3>2, <3>3, <1>0
    <3>5. /\ ~draining' /\ \A i \in DOMAIN pipe' : ~Answered(i)'
      BY <2>1, GapElsewhere, Zenon DEF Answered
    <3> QED BY <2>1, <2>3, <3>2, <3>4, <3>5 DEF GapInv, NoFalseGap
  <2> QED BY <1>18, <2>2, <2>3, Zenon DEF Recheck
<1>19. CASE StopConsumers
  <2>1. /\ UNCHANGED <<con, link, buffer, pipe, credit, draining, fidelity, over, hangs>>
        /\ consumerDone' = TRUE
    BY <1>19, Zenon DEF StopConsumers, ClientSide
  <2>2. Emptied' => Emptied
    BY <2>1, Zenon DEF Emptied, TypeInv
  <2> QED BY <2>1, <2>2, Zenon DEF GapInv, NoFalseGap, Answered, Verifying
<1>20. CASE UNCHANGED vars
  BY <1>20, GapUntouched, Zenon DEF gapVars
<1> QED
  BY <1>1, <1>2, <1>3, <1>4, <1>5, <1>6, <1>9, <1>10, <1>11, <1>12, <1>13, <1>14, <1>15, <1>16,
     <1>17, <1>18, <1>19, <1>20
  DEF Next, Broker, Consumer

-----------------------------------------------------------------------------
(* At least once.  The broker settles what the client is done with, and     *)
(* that is what it has tracked.                                             *)

HeldInv ==
    /\ AtLeastOnce
    /\ unsettled \subseteq handled \cup buffer \cup Range(pipe)

LEMMA RangePushed ==
    ASSUME TypeInv, NEW f \in Frames, pipe' = Append(pipe, f)
    PROVE  Range(pipe) \cup {f} \subseteq Range(pipe')
<1>1. pipe \in Seq(Frames) /\ DOMAIN pipe = 1 .. Len(pipe) /\ Len(pipe) \in Nat
  BY DEF TypeInv
<1>2. DOMAIN pipe' = 1 .. Len(pipe) + 1
  BY Pushed, Zenon
<1>3. /\ \A i \in 1 .. Len(pipe) : pipe'[i] = pipe[i]
      /\ pipe'[Len(pipe) + 1] = f
  BY <1>1, AppendFrames, Zenon
<1>4. Len(pipe) + 1 \in DOMAIN pipe' /\ DOMAIN pipe \subseteq DOMAIN pipe'
  BY <1>1, <1>2
<1> QED BY <1>1, <1>3, <1>4, Zenon DEF Range

LEMMA RangePopped ==
    ASSUME TypeInv, pipe # <<>>, pipe' = Tail(pipe)
    PROVE  Range(pipe) \subseteq Range(pipe') \cup {Head(pipe)}
<1>1. pipe \in Seq(Frames) /\ DOMAIN pipe = 1 .. Len(pipe) /\ Len(pipe) \in Nat
  BY DEF TypeInv
<1>2. /\ Head(pipe) = pipe[1] /\ DOMAIN pipe' = 1 .. Len(pipe) - 1
      /\ \A i \in DOMAIN pipe' : pipe'[i] = pipe[i + 1]
  BY Popped, Zenon
<1>3. ASSUME NEW i \in DOMAIN pipe, i # 1
      PROVE  pipe[i] \in Range(pipe')
  <2>1. i - 1 \in 1 .. Len(pipe) - 1 /\ (i - 1) + 1 = i
    BY <1>1, <1>3
  <2>2. pipe'[i - 1] = pipe[i]
    BY <1>2, <2>1, Zenon
  <2> QED BY <1>2, <2>1, <2>2, Zenon DEF Range
<1> QED BY <1>2, <1>3 DEF Range

LEMMA HeldStep ==
    ASSUME TypeInv, HeldInv, [Next]_vars
    PROVE  HeldInv'
<1> USE DEF vars, ctxVars, producerVars, consumerVars, linkVars, brokerVars, faultVars
<1> USE DEF HeldInv, AtLeastOnce, AtBroker
<1>0. pipe \in Seq(Frames) /\ DOMAIN pipe = 1 .. Len(pipe)
  BY DEF TypeInv
<1>1. ASSUME stored' = stored, unsettled' = {}, waiting' = waiting \cup unsettled,
             handled \subseteq handled'
      PROVE  HeldInv'
  BY <1>1, Zenon
<1>2. ASSUME stored' = stored, UNCHANGED <<unsettled, waiting>>, handled \subseteq handled',
             buffer \subseteq buffer' \cup handled', Range(pipe) \subseteq Range(pipe') \cup buffer'
      PROVE  HeldInv'
  BY <1>2, Zenon
<1>3. CASE BrokerStore
  BY <1>3, Zenon DEF BrokerStore
<1>4. CASE TransferLost \/ StartProducers \/ Producer \/ StopProducers \/ StopConsumers
  <2>1. UNCHANGED <<stored, unsettled, waiting, handled, buffer, pipe>>
    BY <1>4, Zenon DEF TransferLost, StartProducers, Producer, ProducerReturns, Send, SendReturns,
                StopProducers, StopConsumers, ClientSide
  <2> QED BY <2>1, Zenon
<1>5. CASE Deliver \/ OverDeliver
  <2>1. PICK m \in waiting : /\ pipe' = Append(pipe, m) /\ waiting' = waiting \ {m}
                             /\ unsettled' = unsettled \cup {m}
    BY <1>5, Zenon DEF Deliver, OverDeliver, Push
  <2>2. UNCHANGED <<stored, handled, buffer>>
    BY <1>5, Zenon DEF Deliver, OverDeliver, Push
  <2>3. m \in Frames
    BY Zenon DEF TypeInv, Frames
  <2>4. Range(pipe) \cup {m} \subseteq Range(pipe')
    BY <1>0, <2>1, <2>3, RangePushed, Zenon
  <2> QED BY <2>1, <2>2, <2>4, Zenon
<1>6. CASE AnswerDrain
  <2>1. /\ UNCHANGED <<stored, unsettled, waiting, handled, buffer>>
        /\ pipe' = Append(pipe, Drained)
    BY <1>6, Zenon DEF AnswerDrain
  <2>2. Drained \in Frames
    BY Zenon DEF Frames
  <2>3. Range(pipe) \subseteq Range(pipe')
    BY <2>1, <2>2, RangePushed, Zenon
  <2> QED BY <2>1, <2>3, Zenon
<1>7. CASE Arrive
  <2>1. /\ UNCHANGED <<stored, unsettled, waiting, handled>>
        /\ pipe # <<>> /\ pipe' = Tail(pipe) /\ buffer' = buffer \cup {Head(pipe)}
    BY <1>7, Zenon DEF Arrive
  <2>2. Range(pipe) \subseteq Range(pipe') \cup {Head(pipe)}
    BY <2>1, RangePopped, Zenon
  <2> QED BY <2>1, <2>2, Zenon
<1>8. CASE Settle
  <2>1. PICK m \in unsettled \ (buffer \cup Range(pipe)) : unsettled' = unsettled \ {m}
    BY <1>8, Zenon DEF Settle
  <2>2. UNCHANGED <<stored, waiting, handled, buffer, pipe>>
    BY <1>8, Zenon DEF Settle
  <2>3. m \in handled
    BY <2>1, Zenon
  <2> QED BY <2>1, <2>2, <2>3, Zenon
<1>9. CASE DisconnectConsumer
  BY <1>9, <1>1, Zenon DEF DisconnectConsumer
<1>10. ASSUME Return PROVE HeldInv'
  BY <1>10, <1>1, Zenon DEF Return, cleanupConn, BrokerSide
<1>11. ASSUME NEW m \in buffer, Accepted(m) PROVE HeldInv'
  BY <1>11, <1>2, Zenon DEF Accepted, TakePrefetched, BrokerSide
<1>12. CASE Connect
  BY <1>12, <1>2, Zenon DEF Connect
<1>13. CASE IssueCredit
  BY <1>13, <1>2, <1>10, Zenon DEF IssueCredit, BrokerSide
<1>14. CASE Receive
  BY <1>14, <1>1, <1>11, Zenon DEF Receive, cleanupConn, BrokerSide
<1>15. CASE ReceiveFails
  BY <1>15, <1>2, <1>10, Zenon DEF ReceiveFails, BrokerSide
<1>16. CASE EndBatch
  BY <1>16, <1>2, Zenon DEF EndBatch
(* The answer to the drain leaves the pipe, and no message with it. *)
<1>17. CASE DrainCompletes
  <2>1. /\ UNCHANGED <<stored, unsettled, waiting, handled, buffer>>
        /\ pipe # <<>> /\ pipe' = Tail(pipe) /\ Head(pipe) = Drained
    BY <1>17, Zenon DEF DrainCompletes
  <2>2. Range(pipe) \subseteq Range(pipe') \cup {Drained}
    BY <2>1, RangePopped, Zenon
  <2>3. Drained \notin unsettled
    BY NotDrained, Zenon DEF TypeInv
  <2> QED BY <2>1, <2>2, <2>3, Zenon
<1>18. CASE DrainFails
  BY <1>18, <1>10, Zenon DEF DrainFails
<1>19. CASE Absorb
  BY <1>19, <1>2, <1>11, Zenon DEF Absorb, TakePrefetched, BrokerSide
<1>20. CASE Confirm
  BY <1>20, <1>2, <1>10, Zenon DEF Confirm, BrokerSide
<1>21. CASE Recheck
  BY <1>21, <1>2, <1>11, Zenon DEF Recheck, TakePrefetched, BrokerSide
<1>22. CASE UNCHANGED vars
  BY <1>22, Zenon
<1> QED
  BY <1>3, <1>4, <1>5, <1>6, <1>7, <1>8, <1>9, <1>12, <1>13, <1>14, <1>15, <1>16, <1>17, <1>18,
     <1>19, <1>20, <1>21, <1>22
  DEF Next, Broker, Consumer

-----------------------------------------------------------------------------

(* No message the broker pushed under credit is reported as a credit gap,  *)
(* whatever arrives while a drain is under way: drainAndVerify flags        *)
(* over-deliveries and unanswered drains only.                              *)
THEOREM FlaggedIsReal == Spec => []NoFalseGap
<1>1. Init => TypeInv /\ GapInv
  <2> SUFFICES ASSUME Init PROVE TypeInv /\ GapInv
    BY Zenon
  <2>1. TypeInv
    BY TypeInit, Zenon
  <2>2. DOMAIN pipe = {} /\ ~Verifying /\ ~Emptied /\ NoFalseGap
    BY DEF Init, Verifying, Emptied, NoFalseGap
  <2>3. GapInv
    BY <2>2, Zenon DEF GapInv, Init
  <2> QED BY <2>1, <2>3, Zenon
<1>2. TypeInv /\ GapInv /\ [Next]_vars => TypeInv' /\ GapInv'
  BY TypeStep, GapStep, Zenon
<1>3. GapInv => NoFalseGap
  BY Zenon DEF GapInv
<1> QED BY <1>1, <1>2, <1>3, PTL DEF Spec

(* A message the broker stored is tracked or still at the broker, in every *)
(* interleaving of creditCycle, drainPrefetch and lost connections.         *)
THEOREM StoredIsKept == Spec => []AtLeastOnce
<1>1. Init => TypeInv /\ HeldInv
  BY TypeInit, Zenon DEF Init, HeldInv, AtLeastOnce
<1>2. TypeInv /\ HeldInv /\ [Next]_vars => TypeInv' /\ HeldInv'
  BY TypeStep, HeldStep, Zenon
<1>3. HeldInv => AtLeastOnce
  BY Zenon DEF HeldInv
<1> QED BY <1>1, <1>2, <1>3, PTL DEF Spec
=============================================================================
