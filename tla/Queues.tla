------------------------------- MODULE Queues -------------------------------
(***************************************************************************)
(* burnin/worker/queues.go on one channel: the producer, the competing     *)
(* consumers, the worker's counters and its tracker, driven through one    *)
(* run by burnin/engine/engine.go, over a broker that is not part of the   *)
(* repository.                                                             *)
(*                                                                         *)
(* A message is its sequence number.  The broker holds the messages that   *)
(* wait and, for each consumer's link, those it delivered and has not seen *)
(* settled.  A client may have settled a message whose disposition is      *)
(* still under way: it is unsettled at the broker, and neither in the      *)
(* client's prefetch buffer nor in its hands.                              *)
(***************************************************************************)
EXTENDS Integers, FiniteSets

CONSTANTS
    Consumers,     \* the consumer goroutines of the channel
    Credit,        \* standing link credit
    SettleMode,    \* of the sender link: "unsettled" or "settled"
    W,             \* reorderWindow of the tracker
    MaxSeq,        \* bound: messages sent in a run, warmup included
    MaxFaults,     \* bound: failed calls and lost connections
    MaxDropped,    \* bound: messages the broker loses
    MaxHandled     \* bound: deliveries the tracker records

ASSUME ConsumersAssumption == IsFiniteSet(Consumers)
ASSUME CreditAssumption == Credit \in Nat \ {0}
ASSUME SettleModeAssumption == SettleMode \in {"unsettled", "settled"}
ASSUME QueuesBounds ==
    MaxSeq \in Nat /\ MaxFaults \in Nat /\ MaxDropped \in Nat /\ MaxHandled \in Nat

Seqs == 1 .. MaxSeq

VARIABLES
    phase,         \* where the engine's runLoop stands
    ready,         \* consumerReady is closed
    consumerDone,  \* consumerCtx is cancelled
    producerDone,  \* producerCtx is cancelled
    prod,          \* where produceLoop stands
    seq,           \* QueuesWorker.seq
    sent, received,                 \* counters of BaseWorker
    producers, resets,              \* the tracker
    con,           \* where each consumeLoop stands
    link,          \* each consumer's connection
    buffer,        \* messages prefetched by each link
    held,          \* the message in each consumer's hands; 0: none
    wire,          \* transfers the broker has not seen
    waiting,       \* messages in the queue
    unsettled,     \* messages delivered on each link and not settled
    faults,        \* failures so far
    stored, dropped, acked, handled    \* history: stored and lost by the broker,
                                       \* counted as sent, tracked

brokerVars == <<waiting, unsettled, stored, dropped>>
producerVars == <<prod, seq, sent, acked>>
consumerVars == <<con, link, buffer, held, received, handled>>
engineVars == <<phase, ready, consumerDone, producerDone>>
trackerVars == <<producers, resets>>
vars == <<brokerVars, producerVars, consumerVars, engineVars, trackerVars, wire, faults>>

Channel == "channel"

T == INSTANCE Tracker WITH
         Producers <- {Channel}, MaxReceived <- MaxHandled, MaxResets <- 1

AtBroker == waiting \cup UNION {unsettled[c] : c \in Consumers}

Fault == faults < MaxFaults /\ faults' = faults + 1

-----------------------------------------------------------------------------
(* The broker, from what the workers and the docs expect of it. *)

BrokerStore ==
    /\ \E m \in wire : /\ wire' = wire \ {m}
                       /\ waiting' = waiting \cup {m}
                       /\ stored' = stored \cup {m}
    /\ UNCHANGED <<unsettled, dropped, producerVars, consumerVars, engineVars, trackerVars,
                   faults>>

(* A transfer nobody waits for any more is lost with its connection. *)
TransferLost ==
    /\ \E m \in wire : /\ prod = "sending" => m # seq
                       /\ wire' = wire \ {m}
    /\ UNCHANGED <<brokerVars, producerVars, consumerVars, engineVars, trackerVars, faults>>

Deliver(c) ==
    /\ link[c] = "up"
    /\ Cardinality(unsettled[c]) < Credit
    /\ \E m \in waiting : /\ waiting' = waiting \ {m}
                          /\ unsettled' = [unsettled EXCEPT ![c] = @ \cup {m}]
                          /\ buffer' = [buffer EXCEPT ![c] = @ \cup {m}]
    /\ UNCHANGED <<stored, dropped, producerVars, con, link, held, received, handled,
                   engineVars, trackerVars, wire, faults>>

(* A disposition arrives. *)
Settle(c) ==
    /\ \E m \in unsettled[c] \ (buffer[c] \cup {held[c]}) :
           unsettled' = [unsettled EXCEPT ![c] = @ \ {m}]
    /\ UNCHANGED <<waiting, stored, dropped, producerVars, consumerVars, engineVars, trackerVars,
                   wire, faults>>

(* What the burn-in is there to find: the broker loses a stored message. *)
Drop ==
    /\ Cardinality(dropped) < MaxDropped
    /\ \E m \in waiting : waiting' = waiting \ {m} /\ dropped' = dropped \cup {m}
    /\ UNCHANGED <<unsettled, stored, producerVars, consumerVars, engineVars, trackerVars, wire,
                   faults>>

(* A connection goes away, cut by DisconnectConsumers or by the network:    *)
(* the broker requeues what is unsettled, the client keeps its buffer.      *)
DisconnectConsumer(c) ==
    /\ link[c] = "up"
    /\ Fault
    /\ link' = [link EXCEPT ![c] = "broken"]
    /\ waiting' = waiting \cup unsettled[c]
    /\ unsettled' = [unsettled EXCEPT ![c] = {}]
    /\ UNCHANGED <<stored, dropped, producerVars, con, buffer, held, received,
                   handled, engineVars, trackerVars, wire>>

-----------------------------------------------------------------------------
(* produceLoop. *)

ProducerGoto(l) ==
    /\ prod' = l
    /\ UNCHANGED <<brokerVars, seq, sent, acked, consumerVars, engineVars, trackerVars, wire>>

(* The loop returns at its top, in connectSender, while it sleeps after a   *)
(* failed attempt to connect, or in waitForRate.                            *)
ProducerReturns ==
    /\ prod = "loop"
    /\ producerDone
    /\ ProducerGoto("off")
    /\ UNCHANGED faults

(* It has a sender, a sequence is minted and Send begins. *)
Send ==
    /\ prod = "loop"
    /\ ~producerDone
    /\ seq < MaxSeq
    /\ seq' = seq + 1
    /\ wire' = wire \cup {seq + 1}
    /\ prod' = "sending"
    /\ UNCHANGED <<brokerVars, sent, acked, consumerVars, engineVars, trackerVars, faults>>

(* Send returns: at the broker's disposition, or at once on a settled link. *)
SendReturns ==
    /\ prod = "sending"
    /\ SettleMode = "settled" \/ seq \notin wire
    /\ sent' = sent + 1
    /\ acked' = acked \cup {seq}
    /\ prod' = "loop"
    /\ UNCHANGED <<brokerVars, seq, consumerVars, engineVars, trackerVars, wire, faults>>

(* Fault: a Send that fails without a cancellation is counted. *)
FailedSendIsCounted ==
    /\ prod = "sending"
    /\ \/ /\ ~producerDone /\ Fault /\ prod' = "loop"
          /\ sent' = sent + 1 /\ acked' = acked \cup {seq}
          /\ UNCHANGED <<brokerVars, seq, consumerVars, engineVars, trackerVars, wire>>
       \/ producerDone /\ ProducerGoto("off") /\ UNCHANGED faults

(* Send fails or times out, whatever the broker did, or the context is      *)
(* cancelled under it.                                                      *)
SendFails ==
    /\ prod = "sending"
    /\ \/ ~producerDone /\ Fault /\ ProducerGoto("loop")
       \/ producerDone /\ ProducerGoto("off") /\ UNCHANGED faults

Producer ==
    \/ ProducerReturns \/ Send \/ SendReturns \/ SendFails

-----------------------------------------------------------------------------
(* consumeLoop, drainReceiver and handleDelivery. *)

ConsumerGoto(c, l) ==
    /\ con' = [con EXCEPT ![c] = l]
    /\ UNCHANGED <<stored, dropped, producerVars, wire, phase, consumerDone, producerDone>>

(* The top of the loop: return, or get a connection, a session and a        *)
(* receiver.  A failed attempt is cleaned up and repeated, after a sleep    *)
(* that ends when the context is cancelled: it leaves no trace.             *)
Connect(c) ==
    /\ con[c] = "connect"
    /\ \/ consumerDone /\ ConsumerGoto(c, "done") /\ UNCHANGED <<link, ready>>
       \/ /\ ~consumerDone
          /\ ConsumerGoto(c, "receive")
          /\ link' = [link EXCEPT ![c] = "up"]
          /\ ready' = TRUE
    /\ UNCHANGED <<buffer, held, waiting, unsettled, received, handled, trackerVars,
                   faults>>

(* cleanupConn: the connection is closed, its buffer gone, and the broker   *)
(* requeues what is unsettled.                                              *)
cleanupConn(c) ==
    /\ link' = [link EXCEPT ![c] = "none"]
    /\ buffer' = [buffer EXCEPT ![c] = {}]
    /\ held' = [held EXCEPT ![c] = 0]
    /\ waiting' = waiting \cup unsettled[c]
    /\ unsettled' = [unsettled EXCEPT ![c] = {}]

recordTracked(m) ==
    /\ T!Record(Channel, m)
    /\ handled' = handled \cup {m}

(* Fault: the message goes on to be settled without being tracked. *)
ReceiveUntracked(c) ==
    /\ con[c] = "receive"
    /\ \E m \in buffer[c] : /\ held' = [held EXCEPT ![c] = m]
                            /\ buffer' = [buffer EXCEPT ![c] = @ \ {m}]
    /\ ConsumerGoto(c, "count")
    /\ UNCHANGED <<link, waiting, unsettled, received, handled, trackerVars, ready, faults>>

(* Receive returns a prefetched message, even of a broken connection, and   *)
(* handleDelivery feeds it to the tracker.                                  *)
Receive(c) ==
    /\ con[c] = "receive"
    /\ \E m \in buffer[c] : /\ held' = [held EXCEPT ![c] = m]
                            /\ buffer' = [buffer EXCEPT ![c] = @ \ {m}]
                            /\ recordTracked(m)
    /\ ConsumerGoto(c, "count")
    /\ UNCHANGED <<link, waiting, unsettled, received, ready, faults>>

(* Fault: a broken connection ends the consumer. *)
ReceiveFailureReturns(c) ==
    /\ con[c] = "receive"
    /\ link[c] = "broken" \/ consumerDone
    /\ ConsumerGoto(c, "done")
    /\ cleanupConn(c)
    /\ UNCHANGED <<received, handled, trackerVars, ready, faults>>

(* Fault: a cancelled Receive goes on as long as the connection is up. *)
ReceiveUncancelled(c) ==
    /\ con[c] = "receive"
    /\ link[c] = "broken"
    /\ ConsumerGoto(c, "connect")
    /\ cleanupConn(c)
    /\ UNCHANGED <<received, handled, trackerVars, ready, faults>>

(* Receive fails: the connection is gone or the context cancelled. *)
ReceiveFails(c) ==
    /\ con[c] = "receive"
    /\ link[c] = "broken" \/ consumerDone
    /\ ConsumerGoto(c, "connect")
    /\ cleanupConn(c)
    /\ UNCHANGED <<received, handled, trackerVars, ready, faults>>

(* handleDelivery counts the receipt; then AcceptMessage hands the          *)
(* disposition to the connection, or fails.                                 *)
AcceptMessage(c) ==
    /\ con[c] = "count"
    /\ received' = received + 1
    /\ \/ /\ link[c] = "up"
          /\ ConsumerGoto(c, "receive")
          /\ held' = [held EXCEPT ![c] = 0]
          /\ UNCHANGED <<link, buffer, waiting, unsettled>>
       \/ /\ link[c] = "broken" \/ consumerDone
          /\ ConsumerGoto(c, "connect")
          /\ cleanupConn(c)
    /\ UNCHANGED <<handled, trackerVars, ready, faults>>

Consumer(c) ==
    \/ Connect(c) \/ Receive(c) \/ ReceiveFails(c) \/ AcceptMessage(c)

-----------------------------------------------------------------------------
(* The engine's run of this worker: runLoop, warmup and shutdownWorkers. *)

EngineGoto(l) ==
    /\ phase' = l
    /\ UNCHANGED <<ready, brokerVars, seq, acked, con, link, buffer, held, handled, wire, faults>>

CountersUnchanged == UNCHANGED <<sent, received, trackerVars>>

StartProducers == prod' = "loop" /\ producerDone' = FALSE

(* WaitForConsumerReady, then the warmup's producers. *)
WarmupStart ==
    /\ phase = "starting"
    /\ \/ ready /\ ~consumerDone /\ EngineGoto("warmup") /\ StartProducers
       \/ /\ ~ready \/ consumerDone
          /\ EngineGoto("finished")
          /\ UNCHANGED <<prod, producerDone>>
    /\ CountersUnchanged /\ UNCHANGED consumerDone

(* StopProducers cancels ... *)
CancelProducers ==
    /\ \/ phase = "warmup" /\ EngineGoto("stopWarmup")
       \/ phase = "measure" /\ EngineGoto("stopProducers")
    /\ producerDone' = TRUE
    /\ CountersUnchanged /\ UNCHANGED <<prod, consumerDone>>

(* ... and waits for the producer to return. *)
ProducersStopped ==
    /\ prod = "off"
    /\ \/ phase = "stopWarmup" /\ EngineGoto("settle")
       \/ phase = "stopProducers" /\ EngineGoto("drain")
    /\ CountersUnchanged /\ UNCHANGED <<prod, producerDone, consumerDone>>

(* ResetAfterWarmup, unless the run is cancelled: first the tracker ... *)
ResetTracker ==
    /\ phase = "settle"
    /\ \/ consumerDone /\ EngineGoto("finished") /\ UNCHANGED trackerVars
       \/ EngineGoto("reset") /\ T!Reset
    /\ UNCHANGED <<sent, received, prod, producerDone, consumerDone>>

(* Fault: the received counter keeps the warmup's deliveries. *)
ResetSentOnly ==
    /\ phase = "reset"
    /\ sent' = 0 /\ UNCHANGED received
    /\ \/ consumerDone /\ EngineGoto("finished") /\ UNCHANGED <<prod, producerDone>>
       \/ ~consumerDone /\ EngineGoto("measure") /\ StartProducers
    /\ UNCHANGED <<trackerVars, consumerDone>>

(* Fault: the sent counter keeps the warmup's messages. *)
ResetReceivedOnly ==
    /\ phase = "reset"
    /\ received' = 0 /\ UNCHANGED sent
    /\ \/ consumerDone /\ EngineGoto("finished") /\ UNCHANGED <<prod, producerDone>>
       \/ ~consumerDone /\ EngineGoto("measure") /\ StartProducers
    /\ UNCHANGED <<trackerVars, consumerDone>>

(* ... then the counters; the measurement starts if the run still goes on. *)
ResetCounters ==
    /\ phase = "reset"
    /\ sent' = 0 /\ received' = 0
    /\ \/ consumerDone /\ EngineGoto("finished") /\ UNCHANGED <<prod, producerDone>>
       \/ ~consumerDone /\ EngineGoto("measure") /\ StartProducers
    /\ UNCHANGED <<trackerVars, consumerDone>>

(* drainToQuiescence ends, the gaps are detected a last time (the earlier   *)
(* calls leave nothing that this one does not overwrite), the counters and  *)
(* the tracker are read, and StopConsumers cancels the consumers ...        *)
captureWorkerSnapshots ==
    /\ phase = "drain"
    /\ EngineGoto("stopConsumers")
    /\ T!DetectGaps
    /\ consumerDone' = TRUE
    /\ UNCHANGED <<sent, received, prod, producerDone>>

(* ... and waits for them. *)
ConsumersStopped ==
    /\ phase = "stopConsumers"
    /\ \A c \in Consumers : con[c] = "done"
    /\ EngineGoto("finished")
    /\ CountersUnchanged /\ UNCHANGED <<prod, producerDone, consumerDone>>

Engine ==
    \/ WarmupStart \/ CancelProducers \/ ProducersStopped \/ ResetTracker \/ ResetCounters
    \/ captureWorkerSnapshots \/ ConsumersStopped

(* StopRun cancels the context that consumerCtx derives from. *)
StopRun ==
    /\ phase # "finished"
    /\ ~consumerDone
    /\ consumerDone' = TRUE
    /\ UNCHANGED <<phase, ready, producerDone, brokerVars, producerVars, consumerVars,
                   trackerVars, wire, faults>>

-----------------------------------------------------------------------------

Init ==
    /\ phase = "starting" /\ ready = FALSE
    /\ consumerDone = FALSE /\ producerDone = FALSE
    /\ prod = "off" /\ seq = 0 /\ sent = 0 /\ received = 0
    /\ T!Init
    /\ con = [c \in Consumers |-> "connect"]
    /\ link = [c \in Consumers |-> "none"]
    /\ buffer = [c \in Consumers |-> {}]
    /\ held = [c \in Consumers |-> 0]
    /\ wire = {} /\ waiting = {} /\ unsettled = [c \in Consumers |-> {}]
    /\ faults = 0
    /\ stored = {} /\ dropped = {} /\ acked = {} /\ handled = {}

Next ==
    \/ BrokerStore \/ TransferLost \/ Drop
    \/ \E c \in Consumers : Deliver(c) \/ Settle(c) \/ DisconnectConsumer(c) \/ Consumer(c)
    \/ Producer \/ Engine \/ StopRun

(* Goroutines are scheduled, and the broker stores, delivers and settles;   *)
(* the end of the measurement is a timer or a signal.                       *)
Fairness ==
    /\ WF_vars(BrokerStore) /\ WF_vars(Producer)
    /\ WF_vars(Engine /\ phase # "measure")
    /\ \A c \in Consumers : WF_vars(Deliver(c)) /\ WF_vars(Settle(c)) /\ WF_vars(Consumer(c))

Spec == Init /\ [][Next]_vars /\ Fairness

-----------------------------------------------------------------------------

(* A counted Sent is a stored message (produceLoop): no failed, timed out   *)
(* or cancelled Send is counted on an unsettled link.                       *)
SentIsStored ==
    SettleMode = "unsettled" => acked \subseteq stored

(* No stored message gets lost on the way to the counters (drainReceiver):  *)
(* whatever connections break and whenever the consumers are cancelled, it  *)
(* is tracked, or still at the broker, which may drop it.                   *)
AtLeastOnce == stored \subseteq handled \cup AtBroker \cup dropped

(* When the broker has nothing left at the end of the drain and has lost    *)
(* nothing, every message counted as sent is counted as received, however   *)
(* the reset after the warmup and the deliveries interleave                 *)
(* (ResetAfterWarmup, drainToQuiescence, handleDelivery).                   *)
QuietDrainIsComplete ==
    (phase = "drain" /\ AtBroker = {} /\ dropped = {} /\ SettleMode = "unsettled")
        => received >= sent

(* The received counter never runs ahead of the tracker by more than the    *)
(* deliveries in progress, although the warmup reset clears them one after  *)
(* the other (recordTracked, recordReceived, ResetAfterWarmup).             *)
ReceivedIsTracked ==
    LET tracked == IF Channel \in DOMAIN producers THEN producers[Channel].received ELSE 0
    IN  phase # "reset" => received - tracked <= Cardinality(Consumers)

(* A waiting message is tracked in the end, unless the consumers are        *)
(* stopped or the broker loses it (consumeLoop reconnects for ever).        *)
WaitingIsHandled ==
    \A m \in Seqs : (m \in waiting) ~> (m \in handled \cup dropped \/ consumerDone)

(* The engine's shutdown of the worker ends: neither StopProducers nor      *)
(* StopConsumers waits for ever (sleepCtx, produceLoop, consumeLoop).       *)
ShutdownEnds == (phase = "stopProducers") ~> (phase = "finished")
=============================================================================
