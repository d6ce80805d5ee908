---------------------------- MODULE QueuesProofs ----------------------------
(***************************************************************************)
(* The safety of the queues worker, for any number of consumers, messages, *)
(* lost connections and messages lost by the broker.                       *)
(***************************************************************************)
EXTENDS Queues, FiniteSetTheorems, TLAPS

TypeInv ==
    /\ seq \in 0 .. MaxSeq /\ sent \in Nat /\ received \in Nat
    /\ con \in [Consumers -> {"connect", "receive", "count", "done"}]
    /\ link \in [Consumers -> {"none", "up", "broken"}]
    /\ buffer \in [Consumers -> SUBSET Seqs] /\ unsettled \in [Consumers -> SUBSET Seqs]
    /\ held \in [Consumers -> 0 .. MaxSeq]
    /\ wire \subseteq Seqs /\ waiting \subseteq Seqs
    /\ stored \subseteq Seqs /\ acked \subseteq Seqs

-----------------------------------------------------------------------------
(* The inductive invariants. *)

(* What the producer has minted, and the Send it is waiting for. *)
ProducerInv ==
    /\ wire \cup stored \cup acked \subseteq 1 .. seq
    /\ prod = "sending" => seq \in (wire \cup stored) \ acked
    /\ phase \in {"starting", "settle", "reset"} => prod = "off"
    /\ SentIsStored

(* The broker holds only what it stored, and settles only what is tracked. *)
HeldInv ==
    /\ AtLeastOnce
    /\ AtBroker \subseteq stored
    /\ \A c \in Consumers : unsettled[c] \subseteq buffer[c] \cup handled

(* The deliveries that are tracked and not yet counted. *)
Counting == {c \in Consumers : con[c] = "count"}

Tracked == IF Channel \in DOMAIN producers THEN producers[Channel].received ELSE 0

TrackedInv ==
    /\ Channel \in DOMAIN producers =>
           "received" \in DOMAIN producers[Channel] /\ producers[Channel].received \in Nat
    /\ phase # "reset" => received + Cardinality(Counting) <= Tracked + Cardinality(Consumers)

(* The measurement began after sequence base, and the receipts of counted   *)
(* have been counted in it.                                                 *)
Measured(base, counted) ==
    /\ sent <= Cardinality({m \in acked : m > base})
    /\ Cardinality(counted) <= received
    /\ prod = "sending" => seq > base
    /\ \A m \in stored : m > base => m \in counted \cup AtBroker \cup dropped
    /\ \A c \in Consumers : \A m \in unsettled[c] :
           m > base => m \in buffer[c] \cup {held[c]} \cup counted

MeasuredInv ==
    /\ \A c \in Consumers : con[c] # "count" => held[c] = 0
    /\ phase \in {"measure", "stopProducers", "drain"} =>
           \E base \in 0 .. seq, counted \in SUBSET (0 .. MaxSeq) : Measured(base, counted)

-----------------------------------------------------------------------------
LEMMA TypeInit ==
    ASSUME Init
    PROVE  TypeInv
<1>1. 0 \in 0 .. MaxSeq
  BY QueuesBounds
<1> QED BY <1>1, Zenon DEF Init, TypeInv

LEMMA TypeStep ==
    ASSUME TypeInv, ProducerInv, [Next]_vars
    PROVE  TypeInv'
<1> USE QueuesBounds DEF TypeInv
<1> USE DEF vars, brokerVars, producerVars, consumerVars, engineVars, trackerVars
<1>1. CASE BrokerStore
  BY <1>1, Zenon DEF BrokerStore
<1>2. CASE TransferLost \/ Drop
  BY <1>2, Zenon DEF TransferLost, Drop
<1>3. CASE Producer
  <2>1. CASE ProducerReturns \/ SendFails
    BY <2>1, Zenon DEF ProducerReturns, SendFails, ProducerGoto
  <2>2. CASE Send
    <3>1. seq + 1 \in Seqs /\ seq + 1 \in 0 .. MaxSeq
      BY <2>2 DEF Send, Seqs
    <3> QED BY <2>2, <3>1, Zenon DEF Send
  <2>3. CASE SendReturns
    <3>1. seq \in Seqs
      BY <2>3, Zenon DEF SendReturns, ProducerInv
    <3> QED BY <2>3, <3>1 DEF SendReturns
  <2> QED BY <1>3, <2>1, <2>2, <2>3, Zenon DEF Producer
<1>4. ASSUME NEW c \in Consumers, Deliver(c) \/ Settle(c) \/ DisconnectConsumer(c)
      PROVE  TypeInv'
  BY <1>4 DEF Deliver, Settle, DisconnectConsumer, Fault
<1>5. ASSUME NEW c \in Consumers, Consumer(c)
      PROVE  TypeInv'
  <2>0. ASSUME cleanupConn(c)
        PROVE  /\ link' \in [Consumers -> {"none", "up", "broken"}]
               /\ buffer' \in [Consumers -> SUBSET Seqs]
               /\ unsettled' \in [Consumers -> SUBSET Seqs]
               /\ held' \in [Consumers -> 0 .. MaxSeq] /\ waiting' \subseteq Seqs
    BY <2>0 DEF cleanupConn
  <2>1. CASE Connect(c)
    BY <2>1, Zenon DEF Connect, ConsumerGoto
  <2>2. CASE Receive(c)
    <3>1. Seqs \subseteq 0 .. MaxSeq
      BY DEF Seqs
    <3> QED BY <2>2, <3>1 DEF Receive, ConsumerGoto
  <2>3. CASE ReceiveFails(c)
    BY <2>3, <2>0, Zenon DEF ReceiveFails, ConsumerGoto
  <2>4. CASE AcceptMessage(c)
    BY <2>4, <2>0 DEF AcceptMessage, ConsumerGoto
  <2> QED BY <1>5, <2>1, <2>2, <2>3, <2>4, Zenon DEF Consumer
<1>6. CASE Engine
  <2>1. UNCHANGED <<seq, con, link, buffer, unsettled, held, wire, waiting, stored, acked>>
    BY <1>6, Zenon
    DEF Engine, WarmupStart, CancelProducers, ProducersStopped, ResetTracker, ResetCounters,
                captureWorkerSnapshots, ConsumersStopped, EngineGoto
  <2>2. sent' \in {sent, 0} /\ received' \in {received, 0}
    BY <1>6, Zenon
    DEF Engine, WarmupStart, CancelProducers, ProducersStopped, ResetTracker, ResetCounters,
                captureWorkerSnapshots, ConsumersStopped, CountersUnchanged
  <2> QED BY <2>1, <2>2
<1>7. CASE StopRun
  BY <1>7, Zenon DEF StopRun
<1>8. CASE UNCHANGED vars
  BY <1>8, Zenon
<1> QED BY <1>1, <1>2, <1>3, <1>4, <1>5, <1>6, <1>7, <1>8 DEF Next

LEMMA ProducerInit ==
    ASSUME Init
    PROVE  ProducerInv
BY Zenon DEF Init, ProducerInv, SentIsStored

LEMMA ProducerStep ==
    ASSUME TypeInv, ProducerInv, [Next]_vars
    PROVE  ProducerInv'
<1> USE QueuesBounds DEF ProducerInv, SentIsStored
<1> USE DEF vars, brokerVars, producerVars, consumerVars, engineVars, trackerVars
<1>0. seq \in Nat
  BY DEF TypeInv
<1>1. CASE BrokerStore
  BY <1>1, Zenon DEF BrokerStore
<1>2. CASE TransferLost \/ Drop
  BY <1>2, Zenon DEF TransferLost, Drop
<1>3. CASE Producer
  <2>1. CASE ProducerReturns \/ SendFails
    BY <2>1, Zenon DEF ProducerReturns, SendFails, ProducerGoto
  <2>2. CASE Send
    <3>1. seq + 1 \notin acked /\ 1 .. seq \subseteq 1 .. (seq + 1) /\ seq + 1 \in 1 .. (seq + 1)
      BY <1>0
    <3> QED BY <2>2, <3>1 DEF Send
  <2>3. CASE SendReturns
    <3>1. seq \in 1 .. seq
      BY <2>3, Zenon DEF SendReturns
    <3>2. SettleMode = "unsettled" => seq \in stored
      BY <2>3, Zenon DEF SendReturns
    <3> QED BY <2>3, <3>1, <3>2 DEF SendReturns
  <2> QED BY <1>3, <2>1, <2>2, <2>3, Zenon DEF Producer
<1>4. ASSUME NEW c \in Consumers, Deliver(c) \/ Settle(c) \/ DisconnectConsumer(c)
      PROVE  ProducerInv'
  BY <1>4, Zenon DEF Deliver, Settle, DisconnectConsumer
<1>5. ASSUME NEW c \in Consumers, Consumer(c)
      PROVE  ProducerInv'
  <2>1. UNCHANGED <<stored, dropped, producerVars, wire, phase>>
    BY <1>5, Zenon DEF Consumer, Connect, Receive, ReceiveFails, AcceptMessage, ConsumerGoto
  <2> QED BY <2>1, Zenon
<1>6. CASE Engine
  <2>1. UNCHANGED <<seq, wire, stored, acked>>
    BY <1>6, Zenon
    DEF Engine, WarmupStart, CancelProducers, ProducersStopped, ResetTracker, ResetCounters,
                captureWorkerSnapshots, ConsumersStopped, EngineGoto
  <2>2. /\ prod' = "sending" => prod = "sending"
        /\ phase' \in {"starting", "settle", "reset"} => prod' = "off"
    BY <1>6, Zenon
    DEF Engine, WarmupStart, CancelProducers, ProducersStopped, ResetTracker, ResetCounters,
                captureWorkerSnapshots, ConsumersStopped, EngineGoto, StartProducers
  <2> QED BY <2>1, <2>2, Zenon
<1>7. CASE StopRun
  BY <1>7, Zenon DEF StopRun
<1>8. CASE UNCHANGED vars
  BY <1>8, Zenon
<1> QED BY <1>1, <1>2, <1>3, <1>4, <1>5, <1>6, <1>7, <1>8 DEF Next

-----------------------------------------------------------------------------
(* AtBroker, one message at a time. *)
LEMMA AtBrokerMember ==
    ASSUME NEW m
    PROVE  m \in AtBroker <=> (m \in waiting \/ \E c \in Consumers : m \in unsettled[c])
BY Zenon DEF AtBroker

LEMMA AtBrokerMemberNext ==
    ASSUME NEW m
    PROVE  m \in AtBroker' <=> (m \in waiting' \/ \E c \in Consumers : m \in unsettled'[c])
BY Zenon DEF AtBroker

LEMMA HeldInit ==
    ASSUME Init
    PROVE  HeldInv
BY AtBrokerMember, Zenon DEF Init, HeldInv, AtLeastOnce

LEMMA HeldStep ==
    ASSUME TypeInv, HeldInv, [Next]_vars
    PROVE  HeldInv'
<1> USE DEF TypeInv, HeldInv, AtLeastOnce
<1> USE DEF vars, brokerVars, producerVars, consumerVars, engineVars, trackerVars
<1> USE AtBrokerMember, AtBrokerMemberNext
<1>1. CASE BrokerStore
  BY <1>1, Zenon DEF BrokerStore
<1>2. CASE TransferLost \/ Drop
  BY <1>2, Zenon DEF TransferLost, Drop
<1>3. CASE Producer \/ Engine \/ StopRun
  <2>1. UNCHANGED <<brokerVars, buffer, handled>>
    BY <1>3, Zenon
    DEF Producer, ProducerReturns, Send, SendReturns, SendFails, ProducerGoto, StopRun,
                Engine, WarmupStart, CancelProducers, ProducersStopped, ResetTracker, ResetCounters,
                captureWorkerSnapshots, ConsumersStopped, EngineGoto
  <2> QED BY <2>1, Zenon
<1>4. ASSUME NEW c \in Consumers, Deliver(c)
      PROVE  HeldInv'
  BY <1>4 DEF Deliver
<1>5. ASSUME NEW c \in Consumers, Settle(c)
      PROVE  HeldInv'
  BY <1>5 DEF Settle
<1>6. ASSUME NEW c \in Consumers, DisconnectConsumer(c)
      PROVE  HeldInv'
  BY <1>6, Zenon DEF DisconnectConsumer
<1>7. ASSUME NEW c \in Consumers, Consumer(c)
      PROVE  HeldInv'
  <2>0. ASSUME cleanupConn(c), UNCHANGED <<stored, dropped, handled>>
        PROVE  HeldInv'
    BY <2>0 DEF cleanupConn
  <2>1. CASE Connect(c)
    <3>1. UNCHANGED <<brokerVars, buffer, handled>>
      BY <2>1, Zenon DEF Connect, ConsumerGoto
    <3> QED BY <3>1
  <2>2. CASE Receive(c)
    BY <2>2 DEF Receive, ConsumerGoto, recordTracked
  <2>3. CASE ReceiveFails(c)
    BY <2>3, <2>0, Zenon DEF ReceiveFails, ConsumerGoto
  <2>4. CASE AcceptMessage(c)
    BY <2>4, <2>0, Zenon DEF AcceptMessage, ConsumerGoto
  <2> QED BY <1>7, <2>1, <2>2, <2>3, <2>4 DEF Consumer
<1>8. CASE UNCHANGED vars
  BY <1>8, Zenon
<1> QED BY <1>1, <1>2, <1>3, <1>4, <1>5, <1>6, <1>7, <1>8 DEF Next

-----------------------------------------------------------------------------
(* Every way out of Record counts the delivery once. *)
LEMMA RecordCounts ==
    ASSUME TrackedInv, NEW m, T!Record(Channel, m)
    PROVE  /\ Channel \in DOMAIN producers'
           /\ "received" \in DOMAIN producers'[Channel]
           /\ producers'[Channel].received = Tracked + 1
<1> DEFINE Counted(ps, n) == "received" \in DOMAIN ps /\ ps.received = n
<1> SUFFICES Channel \in DOMAIN producers' /\ Counted(producers'[Channel], Tracked + 1)
  BY Zenon
<1>0. ASSUME NEW ps, NEW n, Counted(ps, n)
      PROVE  Counted(T!advanceContiguous(ps), n)
  BY <1>0, Zenon DEF T!advanceContiguous
<1>1. ASSUME NEW ps, T!Put(Channel, ps), Counted(ps, Tracked + 1)
      PROVE  /\ Channel \in DOMAIN producers'
             /\ Counted(producers'[Channel], Tracked + 1)
  BY <1>1, Zenon DEF T!Put, T!Known
<1>2. CASE T!RecordFirst(Channel, m)
  <2>1. Counted(T!NewProducer(m), 1)
    <3> DEFINE ps == [highContiguous |-> m - 1, window |-> T!setBit({}, 0),
                       received |-> 1, duplicates |-> 0, outOfOrder |-> 0,
                       confirmedLost |-> 0, pendingLost |-> {},
                       lastReportedLost |-> 0, lastSeen |-> m]
    <3>1. Counted(ps, 1)
      BY Zenon
    <3>2. T!NewProducer(m) = T!advanceContiguous(ps)
      BY Zenon DEF T!NewProducer
    <3> HIDE DEF ps, Counted
    <3> QED BY <3>1, <3>2, <1>0, Zenon
  <2>2. Tracked = 0
    BY <1>2 DEF Tracked, T!RecordFirst, T!Known
  <2> QED BY <1>1, <1>2, <2>1, <2>2 DEF T!RecordFirst
<1>3. CASE Channel \in DOMAIN producers
  <2> DEFINE old == producers[Channel]
             arrived == T!Arrive(old, m)
  <2>1. Counted(arrived, Tracked + 1)
    BY <1>3 DEF TrackedInv, Tracked, T!Arrive
  <2>2. ASSUME NEW ps, Counted(ps, Tracked + 1)
        PROVE  Counted(T!SetIfInWindow(ps, m), Tracked + 1)
    BY <2>2 DEF T!SetIfInWindow
  <2>3. Counted(T!slideWindow(arrived, m), Tracked + 1)
    <3>1. CASE T!NewHigh(m) <= arrived.highContiguous
      <4> HIDE DEF arrived, Counted
      <4> QED BY <3>1, <2>1, <2>2 DEF T!slideWindow
    <3>2. CASE ~(T!NewHigh(m) <= arrived.highContiguous)
      <4> DEFINE pending == arrived.pendingLost \cup T!Evicted(arrived, m)
                 slid == [arrived EXCEPT !.pendingLost = pending,
                                !.confirmedLost = T!Cardinality(pending),
                                !.window = T!shiftLeft(@, T!SlideDist(arrived, m)),
                                !.highContiguous = T!NewHigh(m)]
      <4>0. T!slideWindow(arrived, m) = T!advanceContiguous(T!SetIfInWindow(slid, m))
        <5> HIDE DEF arrived
        <5> QED BY <3>2, Zenon DEF T!slideWindow
      <4>1. Counted(slid, Tracked + 1)
        <5> HIDE DEF arrived, pending
        <5> QED BY <2>1, Zenon
      <4> HIDE DEF arrived, slid, Counted
      <4> QED BY <4>0, <4>1, <2>2, <1>0
    <3> QED BY <3>1, <3>2
  <2>4. CASE T!RecordRecovered(Channel, m)
    <3> DEFINE pending == old.pendingLost \ {m}
               new == [arrived EXCEPT !.pendingLost = pending,
                                      !.confirmedLost = T!Cardinality(pending)]
    <3>1. Counted(new, Tracked + 1)
      <4> HIDE DEF arrived, pending
      <4> QED BY <2>1, Zenon
    <3>2. T!Put(Channel, new)
      BY <2>4 DEF T!RecordRecovered
    <3> HIDE DEF new, Counted
    <3> QED BY <3>1, <3>2, <1>1
  <2>5. CASE T!RecordDuplicate(Channel, m)
    <3> DEFINE new == [arrived EXCEPT !.duplicates = @ + 1]
    <3>1. Counted(new, Tracked + 1)
      <4> HIDE DEF arrived
      <4> QED BY <2>1, Zenon
    <3>2. T!Put(Channel, new)
      BY <2>5, Zenon DEF T!RecordDuplicate
    <3> HIDE DEF new, Counted
    <3> QED BY <3>1, <3>2, <1>1, Zenon
  <2>6. CASE T!RecordBeyondWindow(Channel, m)
    <3> HIDE DEF Counted
    <3> QED BY <2>6, <2>3, <1>1 DEF T!RecordBeyondWindow
  <2>7. CASE T!RecordInWindow(Channel, m)
    <3> DEFINE set == [arrived EXCEPT !.window = T!setBit(@, T!Offset(arrived, m))]
    <3>1. Counted(set, Tracked + 1)
      <4> HIDE DEF arrived
      <4> QED BY <2>1, Zenon
    <3>2. T!Put(Channel, T!advanceContiguous(set))
      BY <2>7, Zenon DEF T!RecordInWindow
    <3> HIDE DEF set, Counted
    <3> QED BY <3>1, <3>2, <1>0, <1>1
  <2>8. ~T!RecordFirst(Channel, m)
    BY <1>3, Zenon DEF T!RecordFirst, T!Known
  <2> HIDE DEF Counted
  <2> QED BY <2>4, <2>5, <2>6, <2>7, <2>8 DEF T!Record
<1>4. CASE Channel \notin DOMAIN producers
  <2>1. T!RecordFirst(Channel, m)
    BY <1>4, Zenon DEF T!Record, T!RecordRecovered, T!RecordDuplicate, T!RecordBeyondWindow,
                T!RecordInWindow, T!CanRecord, T!Known
  <2> QED BY <2>1, <1>2, Zenon
<1> QED BY <1>3, <1>4, Zenon

LEMMA CountingFinite ==
    /\ IsFiniteSet(Counting) /\ Cardinality(Counting) \in Nat
    /\ Cardinality(Counting) <= Cardinality(Consumers) /\ Cardinality(Consumers) \in Nat
<1>1. Counting \in SUBSET Consumers
  BY Zenon DEF Counting
<1> QED BY <1>1, ConsumersAssumption, FS_Subset, FS_CardinalityType, Zenon

LEMMA TrackedInit ==
    ASSUME Init
    PROVE  TrackedInv
<1>1. producers = [p \in {} |-> p] /\ received = 0 /\ phase = "starting"
  BY Zenon DEF Init, T!Init
<1>2. Tracked = 0
  BY <1>1, Zenon DEF Tracked
<1> QED BY <1>1, <1>2, CountingFinite DEF TrackedInv

LEMMA TrackedStep ==
    ASSUME TypeInv, TrackedInv, [Next]_vars
    PROVE  TrackedInv'
<1> USE DEF vars, brokerVars, producerVars, consumerVars, engineVars, trackerVars
<1>0. received \in Nat /\ Tracked \in Nat
  BY Zenon DEF TypeInv, TrackedInv, Tracked
<1>1. ASSUME UNCHANGED <<producers, received>>, Counting' = Counting,
             phase' = "reset" <=> phase = "reset"
      PROVE  TrackedInv'
  BY <1>1, Zenon DEF TrackedInv, Tracked
<1>2. CASE \/ BrokerStore \/ TransferLost \/ Drop \/ Producer \/ StopRun \/ UNCHANGED vars
           \/ \E c \in Consumers : Deliver(c) \/ Settle(c) \/ DisconnectConsumer(c)
  <2>1. UNCHANGED <<producers, received, con, phase>>
    BY <1>2, Zenon
    DEF BrokerStore, TransferLost, Drop, Producer, ProducerReturns, Send, SendReturns,
                SendFails, ProducerGoto, StopRun, Deliver, Settle, DisconnectConsumer
  <2>2. Counting' = Counting
    BY <2>1, Zenon DEF Counting
  <2> QED BY <2>1, <2>2, <1>1
<1>3. ASSUME NEW c \in Consumers, Consumer(c)
      PROVE  TrackedInv'
  <2>1. CASE Connect(c) \/ ReceiveFails(c)
    <3>1. UNCHANGED <<producers, received, phase>>
      BY <2>1, Zenon DEF Connect, ReceiveFails, ConsumerGoto
    <3>2. Counting' = Counting
      BY <2>1, Zenon DEF Connect, ReceiveFails, ConsumerGoto, Counting, TypeInv
    <3> QED BY <3>1, <3>2, <1>1
  <2>2. CASE Receive(c)
    <3>1. UNCHANGED <<received, phase>> /\ c \notin Counting /\ Counting' = Counting \cup {c}
      BY <2>2 DEF Receive, ConsumerGoto, Counting, TypeInv
    <3>2. PICK m \in buffer[c] : T!Record(Channel, m)
      BY <2>2, Zenon DEF Receive, recordTracked
    <3>3. /\ Channel \in DOMAIN producers'
          /\ "received" \in DOMAIN producers'[Channel]
          /\ producers'[Channel].received = Tracked + 1
      BY <3>2, RecordCounts, Zenon
    <3>4. Cardinality(Counting') = Cardinality(Counting) + 1
      BY <3>1, CountingFinite, FS_AddElement, Zenon
    <3>5. Tracked' = Tracked + 1
      BY <3>3, Zenon DEF Tracked
    <3>6. phase' # "reset" =>
              received' + Cardinality(Counting') <= Tracked' + Cardinality(Consumers)
      BY <3>1, <3>4, <3>5, <1>0, CountingFinite DEF TrackedInv
    <3> QED BY <3>3, <3>6, <1>0 DEF TrackedInv
  <2>3. CASE AcceptMessage(c)
    <3>1. UNCHANGED <<producers, phase>> /\ c \in Counting /\ Counting' = Counting \ {c}
      BY <2>3, Zenon DEF AcceptMessage, ConsumerGoto, Counting, TypeInv
    <3>2. received' = received + 1
      BY <2>3, Zenon DEF AcceptMessage
    <3>3. Cardinality(Counting') = Cardinality(Counting) - 1
      BY <3>1, CountingFinite, FS_RemoveElement, Zenon
    <3>4. Tracked' = Tracked
      BY <3>1, Zenon DEF Tracked
    <3>5. phase' # "reset" =>
              received' + Cardinality(Counting') <= Tracked' + Cardinality(Consumers)
      BY <3>1, <3>2, <3>3, <3>4, <1>0, CountingFinite DEF TrackedInv
    <3> QED BY <3>1, <3>5, Zenon DEF TrackedInv
  <2> QED BY <1>3, <2>1, <2>2, <2>3 DEF Consumer
<1>4. CASE Engine
  <2>1. con' = con
    BY <1>4, Zenon
    DEF Engine, WarmupStart, CancelProducers, ProducersStopped, ResetTracker, ResetCounters,
                captureWorkerSnapshots, ConsumersStopped, EngineGoto
  <2>2. Counting' = Counting
    BY <2>1, Zenon DEF Counting
  <2>3. CASE WarmupStart \/ CancelProducers \/ ProducersStopped \/ ConsumersStopped
    <3>1. /\ UNCHANGED <<producers, received>>
          /\ phase # "reset" /\ phase' # "reset"
      BY <2>3, Zenon
      DEF WarmupStart, CancelProducers, ProducersStopped, ConsumersStopped, EngineGoto,
                  CountersUnchanged
    <3> QED BY <3>1, <2>2, <1>1, Zenon
  <2>4. CASE ResetTracker
    <3>1. CASE UNCHANGED trackerVars /\ phase' = "finished"
      <4>1. phase = "settle" /\ received' = received
        BY <2>4, Zenon DEF ResetTracker
      <4> QED BY <3>1, <4>1, <2>2, <1>1, Zenon
    <3>2. CASE phase' = "reset" /\ producers' = [p \in {} |-> p]
      BY <3>2, Zenon DEF TrackedInv
    <3> QED BY <2>4, <3>1, <3>2, Zenon DEF ResetTracker, EngineGoto, T!Reset
  <2>5. CASE ResetCounters
    <3>1. received' = 0 /\ producers' = producers
      BY <2>5, Zenon DEF ResetCounters
    <3>2. Tracked' = Tracked
      BY <3>1, Zenon DEF Tracked
    <3>3. received' + Cardinality(Counting') <= Tracked' + Cardinality(Consumers)
      BY <3>1, <3>2, <2>2, <1>0, CountingFinite
    <3> QED BY <3>1, <3>3, Zenon DEF TrackedInv
  <2>6. CASE captureWorkerSnapshots
    <3>1. phase = "drain" /\ phase' = "stopConsumers" /\ received' = received /\ T!DetectGaps
      BY <2>6, Zenon DEF captureWorkerSnapshots, EngineGoto
    <3>2. /\ Channel \in DOMAIN producers' <=> Channel \in DOMAIN producers
          /\ Channel \in DOMAIN producers =>
                 /\ "received" \in DOMAIN producers'[Channel]
                 /\ producers'[Channel].received = producers[Channel].received
      BY <3>1, Zenon DEF T!DetectGaps, T!Known, TrackedInv
    <3>3. Tracked' = Tracked
      BY <3>2, Zenon DEF Tracked
    <3> QED BY <3>1, <3>2, <3>3, <2>2 DEF TrackedInv
  <2> QED BY <1>4, <2>3, <2>4, <2>5, <2>6 DEF Engine
<1> QED BY <1>2, <1>3, <1>4 DEF Next

-----------------------------------------------------------------------------
LEMMA MeasuredInit ==
    ASSUME Init
    PROVE  MeasuredInv
BY Zenon DEF Init, MeasuredInv

(* A consumer holds a message only between tracking and counting it. *)
LEMMA HandsStep ==
    ASSUME TypeInv, MeasuredInv, [Next]_vars
    PROVE  \A c \in Consumers : con'[c] # "count" => held'[c] = 0
<1> USE DEF TypeInv, MeasuredInv
<1> USE DEF vars, brokerVars, producerVars, consumerVars, engineVars, trackerVars
<1>1. CASE \E c \in Consumers : Consumer(c)
  BY <1>1 DEF Consumer, Connect, Receive, ReceiveFails, AcceptMessage, ConsumerGoto, cleanupConn
<1>2. CASE ~\E c \in Consumers : Consumer(c)
  <2>1. UNCHANGED <<con, held>>
    BY <1>2, Zenon DEF Next, BrokerStore, TransferLost, Drop, Deliver, Settle, DisconnectConsumer,
                Producer, ProducerReturns, Send, SendReturns, SendFails, ProducerGoto, StopRun,
                Engine, WarmupStart, CancelProducers, ProducersStopped, ResetTracker, ResetCounters,
                captureWorkerSnapshots, ConsumersStopped, EngineGoto
  <2> QED BY <2>1, Zenon
<1> QED BY <1>1, <1>2

LEMMA CountedFinite ==
    ASSUME TypeInv, NEW base, NEW counted \in SUBSET (0 .. MaxSeq)
    PROVE  /\ IsFiniteSet({m \in acked : m > base}) /\ Cardinality({m \in acked : m > base}) \in Nat
           /\ IsFiniteSet(counted) /\ Cardinality(counted) \in Nat
<1>0. acked \subseteq 0 .. MaxSeq
  BY QueuesBounds DEF TypeInv, Seqs
<1>1. {m \in acked : m > base} \in SUBSET (0 .. MaxSeq)
  BY <1>0, Zenon
<1>2. IsFiniteSet(0 .. MaxSeq)
  BY QueuesBounds, FS_Interval
<1> QED BY <1>1, <1>2, FS_Subset, FS_CardinalityType, Zenon

(* A step within the measurement. *)
LEMMA MeasuringStep ==
    ASSUME TypeInv, ProducerInv, MeasuredInv, [Next]_vars,
           phase \in {"measure", "stopProducers", "drain"},
           phase' \in {"measure", "stopProducers", "drain"},
           NEW base \in 0 .. seq, NEW counted \in SUBSET (0 .. MaxSeq), Measured(base, counted)
    PROVE  \E b \in 0 .. seq', n \in SUBSET (0 .. MaxSeq) : Measured(b, n)'
<1> USE QueuesBounds DEF TypeInv
<1> USE DEF vars, brokerVars, producerVars, consumerVars, engineVars, trackerVars
<1> USE AtBrokerMember, AtBrokerMemberNext
<1>0. base \in Nat /\ seq \in Nat /\ sent \in Nat /\ received \in Nat
  OBVIOUS
<1>f. /\ IsFiniteSet({m \in acked : m > base}) /\ Cardinality({m \in acked : m > base}) \in Nat
      /\ IsFiniteSet(counted) /\ Cardinality(counted) \in Nat
  BY CountedFinite, Zenon
<1>a. ASSUME UNCHANGED <<sent, acked, prod, seq, received>>,
             \A m \in stored' : m > base => m \in counted \cup AtBroker' \cup dropped',
             \A c \in Consumers : \A m \in unsettled'[c] :
                 m > base => m \in buffer'[c] \cup {held'[c]} \cup counted
      PROVE  \E b \in 0 .. seq', n \in SUBSET (0 .. MaxSeq) : Measured(b, n)'
  <2>1. Measured(base, counted)'
    BY <1>a, Zenon DEF Measured
  <2> QED BY <2>1, <1>a, Zenon
<1>1. CASE BrokerStore
  <2>1. \A m \in stored' : m > base => m \in counted \cup AtBroker' \cup dropped'
    BY <1>1, Zenon DEF BrokerStore, Measured
  <2> QED BY <1>1, <2>1, <1>a DEF BrokerStore, Measured
<1>2. CASE TransferLost \/ Drop
  <2>1. \A m \in stored' : m > base => m \in counted \cup AtBroker' \cup dropped'
    BY <1>2, Zenon DEF TransferLost, Drop, Measured
  <2> QED BY <1>2, <2>1, <1>a, Zenon DEF TransferLost, Drop, Measured
<1>3. CASE Producer
  <2>0. UNCHANGED <<brokerVars, buffer, held, received>>
    BY <1>3, Zenon DEF Producer, ProducerReturns, Send, SendReturns, SendFails, ProducerGoto
  <2>1. AtBroker' = AtBroker
    BY <2>0, Zenon DEF AtBroker
  <2>2. base \in 0 .. seq' /\ (prod' = "sending" => seq' > base)
    BY <1>3, <1>0 DEF Producer, ProducerReturns, Send, SendReturns, SendFails, ProducerGoto,
                      Measured
  <2>3. sent' <= Cardinality({m \in acked' : m > base})
    <3>1. CASE ProducerReturns \/ Send \/ SendFails
      BY <3>1, Zenon DEF ProducerReturns, Send, SendFails, ProducerGoto, Measured
    <3>2. CASE SendReturns
      <4>1. seq > base /\ seq \notin acked
        BY <3>2, Zenon DEF SendReturns, Measured, ProducerInv
      <4>2. {m \in acked' : m > base} = {m \in acked : m > base} \cup {seq}
        <5>1. acked' = acked \cup {seq}
          BY <3>2, Zenon DEF SendReturns
        <5> QED BY <4>1, <5>1, Zenon
      <4>3. Cardinality({m \in acked' : m > base}) = Cardinality({m \in acked : m > base}) + 1
        BY <4>1, <4>2, <1>f, FS_AddElement, Zenon
      <4> QED BY <3>2, <4>3, <1>0, <1>f DEF SendReturns, Measured
    <3> QED BY <1>3, <3>1, <3>2, Zenon DEF Producer
  <2>4. Measured(base, counted)'
    BY <2>0, <2>1, <2>2, <2>3, Zenon DEF Measured
  <2> QED BY <2>2, <2>4, Zenon
<1>4. ASSUME NEW c \in Consumers, Deliver(c)
      PROVE  \E b \in 0 .. seq', n \in SUBSET (0 .. MaxSeq) : Measured(b, n)'
  <2>1. \A m \in stored' : m > base => m \in counted \cup AtBroker' \cup dropped'
    BY <1>4 DEF Deliver, Measured
  <2>2. \A d \in Consumers : \A m \in unsettled'[d] :
            m > base => m \in buffer'[d] \cup {held'[d]} \cup counted
    BY <1>4 DEF Deliver, Measured
  <2> QED BY <1>4, <2>1, <2>2, <1>a, Zenon DEF Deliver
<1>5. ASSUME NEW c \in Consumers, Settle(c)
      PROVE  \E b \in 0 .. seq', n \in SUBSET (0 .. MaxSeq) : Measured(b, n)'
  <2>1. \A m \in stored' : m > base => m \in counted \cup AtBroker' \cup dropped'
    BY <1>5 DEF Settle, Measured
  <2>2. \A d \in Consumers : \A m \in unsettled'[d] :
            m > base => m \in buffer'[d] \cup {held'[d]} \cup counted
    BY <1>5 DEF Settle, Measured
  <2> QED BY <1>5, <2>1, <2>2, <1>a DEF Settle
<1>6. ASSUME NEW c \in Consumers, DisconnectConsumer(c)
      PROVE  \E b \in 0 .. seq', n \in SUBSET (0 .. MaxSeq) : Measured(b, n)'
  <2>1. \A m \in stored' : m > base => m \in counted \cup AtBroker' \cup dropped'
    BY <1>6, Zenon DEF DisconnectConsumer, Measured
  <2>2. \A d \in Consumers : \A m \in unsettled'[d] :
            m > base => m \in buffer'[d] \cup {held'[d]} \cup counted
    BY <1>6, Zenon DEF DisconnectConsumer, Measured
  <2> QED BY <1>6, <2>1, <2>2, <1>a, Zenon DEF DisconnectConsumer
<1>7. ASSUME NEW c \in Consumers, Consumer(c)
      PROVE  \E b \in 0 .. seq', n \in SUBSET (0 .. MaxSeq) : Measured(b, n)'
  <2>0. UNCHANGED <<sent, acked, prod, seq, stored, dropped>>
    BY <1>7, Zenon DEF Consumer, Connect, Receive, ReceiveFails, AcceptMessage, ConsumerGoto
  <2>1. CASE Connect(c) \/ Receive(c)
    <3>1. UNCHANGED <<received, waiting, unsettled>>
      BY <2>1, Zenon DEF Connect, Receive
    <3>2. AtBroker' = AtBroker
      BY <3>1, Zenon DEF AtBroker
    <3>3. \A d \in Consumers : \A m \in unsettled[d] :
              m > base => m \in buffer'[d] \cup {held'[d]} \cup counted
      <4>1. CASE Connect(c)
        BY <4>1, Zenon DEF Connect, Measured
      <4>2. CASE Receive(c)
        <5>1. held[c] = 0
          BY <4>2, Zenon DEF Receive, MeasuredInv
        <5>2. PICK r \in buffer[c] : /\ held' = [held EXCEPT ![c] = r]
                                     /\ buffer' = [buffer EXCEPT ![c] = @ \ {r}]
          BY <4>2, Zenon DEF Receive
        <5>3. ~(0 > base)
          BY <1>0
        <5> QED BY <5>1, <5>2, <5>3, Zenon DEF Measured
      <4> QED BY <2>1, <4>1, <4>2
    <3> QED BY <2>0, <3>1, <3>2, <3>3, <1>a DEF Measured
  <2>2. ASSUME cleanupConn(c)
        PROVE  /\ \A m : m \in AtBroker => m \in AtBroker'
               /\ \A d \in Consumers : \A m \in unsettled'[d] :
                      /\ d # c /\ m \in unsettled[d]
                      /\ buffer'[d] = buffer[d] /\ held'[d] = held[d]
    <3>1. \A m : m \in AtBroker => m \in AtBroker'
      BY <2>2, Zenon DEF cleanupConn
    <3>2. \A d \in Consumers : \A m \in unsettled'[d] :
              /\ d # c /\ m \in unsettled[d]
              /\ buffer'[d] = buffer[d] /\ held'[d] = held[d]
      BY <2>2, Zenon DEF cleanupConn
    <3> QED BY <3>1, <3>2, Zenon
  <2>3. CASE ReceiveFails(c)
    <3>1. received' = received
      BY <2>3, Zenon DEF ReceiveFails
    <3> QED BY <2>0, <2>2, <2>3, <3>1, <1>a DEF ReceiveFails, Measured
  <2>4. CASE AcceptMessage(c)
    <3>0. PICK n : n = counted \cup {held[c]}
      BY Zenon
    <3>1. n \in SUBSET (0 .. MaxSeq)
      BY <3>0, Zenon
    <3>2. Cardinality(n) <= received'
      <4>1. Cardinality(n) <= Cardinality(counted) + 1
        <5>1. Cardinality(n) = IF held[c] \in counted THEN Cardinality(counted)
                                                      ELSE Cardinality(counted) + 1
          BY <3>0, <1>f, FS_AddElement, Zenon
        <5> QED BY <5>1, <1>f
      <4>2. received' = received + 1
        BY <2>4, Zenon DEF AcceptMessage
      <4>3. Cardinality(n) \in Nat
        BY <3>1, CountedFinite, Zenon
      <4> QED BY <4>1, <4>2, <4>3, <1>0, <1>f DEF Measured
    <3>3. /\ \A m : m \in AtBroker => m \in AtBroker'
          /\ \A d \in Consumers : \A m \in unsettled'[d] :
                 /\ m \in unsettled[d] /\ buffer'[d] = buffer[d]
                 /\ d # c => held'[d] = held[d]
      <4>1. CASE cleanupConn(c)
        BY <4>1, <2>2, Zenon
      <4>2. CASE UNCHANGED <<buffer, waiting, unsettled>> /\ held' = [held EXCEPT ![c] = 0]
        <5>1. AtBroker' = AtBroker
          BY <4>2, Zenon DEF AtBroker
        <5> QED BY <4>2, <5>1, Zenon
      <4> QED BY <2>4, <4>1, <4>2, Zenon DEF AcceptMessage
    <3>4. Measured(base, n)'
      BY <2>0, <3>0, <3>2, <3>3, Zenon DEF Measured
    <3> QED BY <2>0, <3>1, <3>4, Zenon
  <2> QED BY <1>7, <2>1, <2>3, <2>4 DEF Consumer
<1>8. CASE Engine \/ StopRun \/ UNCHANGED vars
  <2>1. UNCHANGED <<sent, acked, prod, seq, received, brokerVars, buffer, held>>
    BY <1>8, Zenon
    DEF Engine, WarmupStart, CancelProducers, ProducersStopped, ResetTracker, ResetCounters,
                captureWorkerSnapshots, ConsumersStopped, EngineGoto, CountersUnchanged, StopRun
  <2>2. AtBroker' = AtBroker
    BY <2>1, Zenon DEF AtBroker
  <2> QED BY <2>1, <2>2, <1>a DEF Measured
<1> QED BY <1>1, <1>2, <1>3, <1>4, <1>5, <1>6, <1>7, <1>8 DEF Next

LEMMA MeasuredStep ==
    ASSUME TypeInv, ProducerInv, HeldInv, MeasuredInv, [Next]_vars
    PROVE  MeasuredInv'
<1> DEFINE Measuring == {"measure", "stopProducers", "drain"}
<1> USE DEF vars, brokerVars, producerVars, consumerVars, engineVars, trackerVars
<1>1. ASSUME phase' \in Measuring, phase \in Measuring
      PROVE  \E b \in 0 .. seq', n \in SUBSET (0 .. MaxSeq) : Measured(b, n)'
  <2>1. PICK base \in 0 .. seq, counted \in SUBSET (0 .. MaxSeq) : Measured(base, counted)
    BY <1>1, Zenon DEF MeasuredInv
  <2> QED BY <1>1, <2>1, MeasuringStep
<1>2. ASSUME phase' \in Measuring, phase \notin Measuring
      PROVE  \E b \in 0 .. seq', n \in SUBSET (0 .. MaxSeq) : Measured(b, n)'
  <2>1. ResetCounters
    BY <1>2, Zenon
    DEF Next, BrokerStore, TransferLost, Drop, Deliver, Settle, DisconnectConsumer,
                Consumer, Connect, Receive, ReceiveFails, AcceptMessage, ConsumerGoto,
                Producer, ProducerReturns, Send, SendReturns, SendFails, ProducerGoto, StopRun,
                Engine, WarmupStart, CancelProducers, ProducersStopped, ResetTracker,
                captureWorkerSnapshots, ConsumersStopped, EngineGoto
  <2>2. sent' = 0 /\ received' = 0 /\ prod' # "sending" /\ UNCHANGED <<brokerVars, seq, acked>>
    BY <2>1, Zenon DEF ResetCounters, EngineGoto, StartProducers, ProducerInv
  <2>3. PICK base : base = seq
    BY Zenon
  <2>4. base \in 0 .. seq'
    BY <2>2, <2>3, QueuesBounds DEF TypeInv
  <2>5. stored \subseteq 1 .. base /\ acked \subseteq 1 .. base
    BY <2>3, Zenon DEF ProducerInv
  <2>6. \A m \in 1 .. base : ~(m > base)
    BY <2>4
  <2>7. {m \in acked : m > base} = {}
    BY <2>5, <2>6, Zenon
  <2>8. \A c \in Consumers : \A m \in unsettled[c] : ~(m > base)
    <3>1. \A c \in Consumers : \A m \in unsettled[c] : m \in stored
      BY AtBrokerMember, Zenon DEF HeldInv
    <3> QED BY <3>1, <2>5, <2>6, Zenon
  <2>9. Measured(base, {})'
    <3>1. \A m \in stored' : ~(m > base)
      BY <2>2, <2>5, <2>6
    <3>2. \A c \in Consumers : \A m \in unsettled'[c] : ~(m > base)
      BY <2>2, <2>8, Zenon
    <3>3. sent' <= Cardinality({m \in acked' : m > base})
      BY <2>2, <2>7, FS_EmptySet
    <3>4. Cardinality({}) <= received'
      BY <2>2, FS_EmptySet
    <3> QED BY <2>2, <3>1, <3>2, <3>3, <3>4, Zenon DEF Measured
  <2>10. {} \in SUBSET (0 .. MaxSeq)
    BY Zenon
  <2> QED BY <2>4, <2>9, <2>10, Zenon
<1>3. phase' \in Measuring => \E b \in 0 .. seq', n \in SUBSET (0 .. MaxSeq) : Measured(b, n)'
  BY <1>1, <1>2, Zenon
<1> QED BY <1>3, HandsStep DEF MeasuredInv

-----------------------------------------------------------------------------
QueuesInv == TypeInv /\ ProducerInv /\ HeldInv /\ TrackedInv /\ MeasuredInv

(* The queues worker, its broker and the engine's phases keep QueuesInv,    *)
(* whatever the interleaving (produceLoop, consumeLoop, handleDelivery,     *)
(* ResetAfterWarmup and shutdownWorkers).                                   *)
THEOREM Invariance == Spec => []QueuesInv
<1>1. Init => QueuesInv
  BY TypeInit, ProducerInit, HeldInit, TrackedInit, MeasuredInit DEF QueuesInv
<1>2. QueuesInv /\ [Next]_vars => QueuesInv'
  BY TypeStep, ProducerStep, HeldStep, TrackedStep, MeasuredStep, Zenon DEF QueuesInv
<1> QED BY <1>1, <1>2, PTL DEF Spec

(* produceLoop counts no Send whose message the broker has not stored, on   *)
(* an unsettled link.                                                       *)
THEOREM CountsOnlyStored == Spec => []SentIsStored
<1>1. QueuesInv => SentIsStored
  BY Zenon DEF QueuesInv, ProducerInv
<1> QED BY <1>1, Invariance, PTL

(* drainReceiver settles nothing it has not tracked: with any number of     *)
(* competing consumers and lost connections, a stored message is tracked or *)
(* with the broker.                                                         *)
THEOREM NothingSlipsThrough == Spec => []AtLeastOnce
<1>1. QueuesInv => AtLeastOnce
  BY Zenon DEF QueuesInv, HeldInv
<1> QED BY <1>1, Invariance, PTL

(* The received counter and the tracker, which handleDelivery updates one   *)
(* after the other and ResetAfterWarmup clears one after the other, differ  *)
(* by no more than one delivery for each consumer.                          *)
THEOREM CounterFollowsTracker == Spec => []ReceivedIsTracked
<1>1. QueuesInv => ReceivedIsTracked
  <2>1. ASSUME QueuesInv, phase # "reset"
        PROVE  received - Tracked <= Cardinality(Consumers)
    <3>1. received + Cardinality(Counting) <= Tracked + Cardinality(Consumers)
      BY <2>1, Zenon DEF QueuesInv, TrackedInv
    <3>2. received \in Nat /\ Tracked \in Nat
      BY <2>1, Zenon DEF QueuesInv, TypeInv, TrackedInv, Tracked
    <3> QED BY <3>1, <3>2, CountingFinite
  <2> QED BY <2>1, Zenon DEF ReceivedIsTracked, Tracked
<1> QED BY <1>1, Invariance, PTL

(* A drain that leaves nothing at a broker that lost nothing has counted a  *)
(* receipt for every message counted as sent since the warmup, although the *)
(* reset of the counters falls between any two steps of the consumers       *)
(* (ResetAfterWarmup, drainToQuiescence).                                   *)
THEOREM QuietDrainCountsAll == Spec => []QuietDrainIsComplete
<1>1. QueuesInv => QuietDrainIsComplete
  <2> SUFFICES ASSUME QueuesInv, phase = "drain", AtBroker = {}, dropped = {},
                      SettleMode = "unsettled"
               PROVE  received >= sent
    BY Zenon DEF QuietDrainIsComplete
  <2>1. PICK base \in 0 .. seq, counted \in SUBSET (0 .. MaxSeq) : Measured(base, counted)
    BY Zenon DEF QueuesInv, MeasuredInv
  <2> DEFINE new == {m \in acked : m > base}
  <2>2. new \in SUBSET counted
    BY <2>1, Zenon DEF QueuesInv, ProducerInv, SentIsStored, Measured
  <2>3. /\ IsFiniteSet(counted) /\ Cardinality(counted) \in Nat /\ Cardinality(new) \in Nat
    BY CountedFinite, Zenon DEF QueuesInv
  <2>4. Cardinality(new) <= Cardinality(counted)
    BY <2>2, <2>3, FS_Subset, Zenon
  <2>5. sent <= Cardinality(new) /\ Cardinality(counted) <= received
    BY <2>1, Zenon DEF Measured
  <2>6. sent \in Nat /\ received \in Nat
    BY Zenon DEF QueuesInv, TypeInv
  <2> HIDE DEF new
  <2> QED BY <2>3, <2>4, <2>5, <2>6
<1> QED BY <1>1, Invariance, PTL
=============================================================================
