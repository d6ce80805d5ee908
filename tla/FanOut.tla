------------------------------- MODULE FanOut -------------------------------
(***************************************************************************)
(* burnin/worker/events.go and events_store.go on one channel: a producer, *)
(* the subscribers with a subTracker each, or the one durable consumer     *)
(* with a subTracker and the worker's tracker, run by the engine through   *)
(* warmup and measurement, over a broker that is not part of the           *)
(* repository.                                                             *)
(*                                                                         *)
(* A message is its sequence number.  The broker keeps the messages of the *)
(* channel in the order in which it took them, and a position for each     *)
(* subscription.  Deliveries are settled when they are sent.               *)
(***************************************************************************)
EXTENDS SubTracker, Sequences, FiniteSetsExt, Functions

CONSTANTS
    Subscribers,   \* the subscriber goroutines of the events worker
    Durable,         \* the consumer goroutine of the events store worker
    Credit,        \* standing link credit
    Ring,          \* what the broker buffers for a durable link without credit
    W,             \* reorderWindow of the tracker
    MaxSeq,        \* bound: messages sent in a run, warmup included
    MaxTransient,  \* bound: the same where the subscription is not durable
    MaxFaults,     \* bound: failed calls and lost connections
    MaxHandled     \* bound: deliveries the tracker records

ASSUME FanOutBounds ==
    /\ Credit \in Nat \ {0} /\ Ring \in Nat \ {0} /\ W \in Nat \ {0}
    /\ MaxSeq \in Nat /\ MaxTransient \in 0 .. MaxSeq
    /\ MaxFaults \in Nat /\ MaxHandled \in Nat

VARIABLES
    pattern,       \* "events" or "events-store"
    durable,       \* the store's subscription is a durable one
    phase,         \* where the engine's runLoop stands
    ready,         \* consumerReady is closed
    consumerDone,  \* consumerCtx is cancelled
    producerDone,  \* producerCtx is cancelled
    prod,          \* where produceLoop stands
    seq,           \* the worker's sequence counter
    since,         \* the first sequence the current sender connection may carry
    wire,          \* transfers the broker has not seen
    log,           \* what the broker took, in order
    pos,           \* how much of it went to each subscription
    cursor,        \* where each subscription last started
    con,           \* where each subscribeLoop or consumeLoop stands
    link,          \* each consumer's connection
    buffer,        \* deliveries prefetched by each link
    hand,          \* the delivery that each has recorded and not yet tracked
    trackers,      \* subTrackers, or storeTrk
    sent, received, eventsDropped,    \* counters
    producers, resets,                 \* the tracker
    faults,        \* failures so far
    arrived,       \* history: what each consumer was given
    excused,       \* history: what passed each consumer by
    unmarked       \* history: arrivals from before the reset or beyond the window

producerVars == <<prod, seq, since, sent>>
brokerVars == <<wire, log>>
consumerVars == <<pos, cursor, con, link, buffer, hand, trackers, arrived, excused>>
trackerVars == <<producers, resets, unmarked>>
countVars == <<received, eventsDropped, trackerVars>>
engineVars == <<phase, consumerDone, producerDone>>
config == <<pattern, durable>>
vars == <<config, producerVars, brokerVars, consumerVars, countVars, engineVars, ready, faults>>

Seqs == 1 .. MaxSeq
Consumers == Subscribers \cup {Durable}
Started == IF pattern = "events" THEN Subscribers ELSE {Durable}
Channel == "channel"

T == INSTANCE Tracker WITH
         Producers <- {Channel}, MaxReceived <- MaxHandled, MaxResets <- 1

Fault == faults < MaxFaults /\ faults' = faults + 1

Taken == Range(log)

(* What the subscription of c has been given the chance to deliver. *)
Offered(c) == {log[i] : i \in 1 .. pos[c]}

-----------------------------------------------------------------------------
(* The broker, from what the workers and the docs expect of it. *)

(* It takes the next transfer of the current connection, or of those that   *)
(* the producer has closed.                                                 *)
BrokerTake ==
    /\ \E part \in {{m \in wire : m >= since}, {m \in wire : m < since}} :
           /\ part # {}
           /\ wire' = wire \ {Min(part)}
           /\ log' = Append(log, Min(part))
    /\ UNCHANGED <<config, producerVars, consumerVars, countVars, engineVars, ready, faults>>

(* What a closed connection still carried is lost. *)
TransfersLost ==
    /\ \E m \in wire : m < since
    /\ wire' = {m \in wire : m >= since}
    /\ UNCHANGED <<config, producerVars, log, consumerVars, countVars, engineVars, ready, faults>>

BrokerUnchanged ==
    UNCHANGED <<config, producerVars, brokerVars, cursor, con, hand, trackers, arrived, countVars,
                engineVars, ready>>

(* The credit that the link of c has left. *)
Unused(c) == Credit - Len(buffer[c]) - Cardinality(hand[c])

(* The subscription delivers its next message. *)
Deliver(c) ==
    /\ link[c] = "up"
    /\ pos[c] < Len(log)
    /\ Unused(c) > 0
    /\ pos' = [pos EXCEPT ![c] = @ + 1]
    /\ buffer' = [buffer EXCEPT ![c] = Append(@, log[pos[c] + 1])]
    /\ BrokerUnchanged /\ UNCHANGED <<link, excused, faults>>

(* Without credit an event is dropped.  A durable subscription waits, until *)
(* its ring is full: then the link is detached and the ring lost.           *)
NoCredit(c) ==
    /\ link[c] = "up"
    /\ Unused(c) = 0
    /\ LET waiting == Len(log) - pos[c]
           lost == IF pattern = "events" THEN 1 ELSE Ring
       IN  /\ waiting >= lost
           /\ pos' = [pos EXCEPT ![c] = @ + lost]
           /\ excused' = [excused EXCEPT ![c] =
                              @ \cup {log[i] : i \in pos[c] + 1 .. pos[c] + lost}]
           /\ IF pattern = "events" THEN UNCHANGED <<link, faults>>
              ELSE Fault /\ link' = [link EXCEPT ![c] = "stalled"]
    /\ BrokerUnchanged /\ UNCHANGED buffer

(* A connection goes away, cut by DisconnectConsumers or by the network. *)
DisconnectConsumer(c) ==
    /\ link[c] = "up"
    /\ Fault
    /\ link' = [link EXCEPT ![c] = "broken"]
    /\ BrokerUnchanged /\ UNCHANGED <<pos, buffer, excused>>

(* Where a subscription starts: one that is new or not durable at the next  *)
(* message, a durable one that is known at its persisted cursor, which      *)
(* never moves back and may lag behind what was delivered.                  *)
(* What it delivers again is then "near-term" (subTrackerWindow): no more   *)
(* than Window behind the highest sequence that arrived.                    *)
StartPositions(c) ==
    LET stale == {m \in arrived[c] : m + Window < Max(arrived[c])}
    IN  IF ~durable \/ ~ready THEN {Len(log)}
        ELSE {p \in cursor[c] .. pos[c] : \A i \in p + 1 .. Len(log) : log[i] \notin stale}

-----------------------------------------------------------------------------
(* produceLoop, the same in both workers but for the mode of the sender. *)

ProducerUnchanged ==
    UNCHANGED <<config, log, consumerVars, countVars, engineVars, ready>>

(* The loop returns at its top, in connectSender, while it sleeps after a   *)
(* failed attempt to connect, or in waitForRate; the sender is closed.      *)
ProducerReturns ==
    /\ prod = "loop"
    /\ producerDone
    /\ prod' = "off" /\ since' = seq + 1
    /\ ProducerUnchanged /\ UNCHANGED <<seq, sent, wire, faults>>

(* It has a sender, a sequence is minted and Send begins. *)
Send ==
    /\ prod = "loop"
    /\ ~producerDone
    /\ seq < (IF durable THEN MaxSeq ELSE MaxTransient)
    /\ seq' = seq + 1
    /\ wire' = wire \cup {seq + 1}
    /\ prod' = "sending"
    /\ ProducerUnchanged /\ UNCHANGED <<since, sent, faults>>

(* Send returns: at once on the settled link of the events worker, at the   *)
(* broker's disposition on the unsettled link of the events store worker.   *)
SendReturns ==
    /\ prod = "sending"
    /\ pattern = "events" \/ seq \notin wire
    /\ sent' = sent + 1
    /\ prod' = "loop"
    /\ ProducerUnchanged /\ UNCHANGED <<seq, since, wire, faults>>

(* Send fails or times out, whatever the broker did, or the context is      *)
(* cancelled under it; the sender is closed.                                *)
SendFails ==
    /\ prod = "sending"
    /\ \/ ~producerDone /\ Fault /\ prod' = "loop"
       \/ producerDone /\ prod' = "off" /\ UNCHANGED faults
    /\ since' = seq + 1
    /\ ProducerUnchanged /\ UNCHANGED <<seq, sent, wire>>

Producer == ProducerReturns \/ Send \/ SendReturns \/ SendFails

-----------------------------------------------------------------------------
(* subscribeLoop and drainSub, consumeLoop and drainDurable. *)

ConsumerUnchanged == UNCHANGED <<config, producerVars, brokerVars, engineVars, faults>>

(* The top of the loop: return, or get a connection, a session and a        *)
(* receiver.  A failed attempt is cleaned up and repeated, after a sleep    *)
(* that ends when the context is cancelled: it leaves no trace.             *)
Connect(c) ==
    /\ con[c] = "connect"
    /\ \/ /\ consumerDone
          /\ con' = [con EXCEPT ![c] = "done"]
          /\ UNCHANGED <<pos, cursor, link, excused, ready>>
       \/ /\ ~consumerDone
          /\ con' = [con EXCEPT ![c] = "receive"]
          /\ link' = [link EXCEPT ![c] = "up"]
          /\ \E p \in StartPositions(c) :
                 /\ pos' = [pos EXCEPT ![c] = p]
                 /\ cursor' = [cursor EXCEPT ![c] = p]
                 /\ excused' = [excused EXCEPT ![c] =
                                    @ \cup {log[i] : i \in pos[c] + 1 .. p}]
          /\ ready' = TRUE
    /\ ConsumerUnchanged /\ UNCHANGED <<buffer, hand, trackers, arrived, countVars>>

(* closeReceiver and cleanupConn: what was prefetched is gone. *)
cleanupConn(c, left) ==
    /\ link' = [link EXCEPT ![c] = "none"]
    /\ buffer' = [buffer EXCEPT ![c] = <<>>]
    /\ excused' = [excused EXCEPT ![c] = @ \cup Range(left)]

(* A delivery is accepted, or the accept fails. *)
AcceptMessage(c, left) ==
    \/ /\ buffer' = [buffer EXCEPT ![c] = left]
       /\ UNCHANGED <<con, link, excused>>
    \/ /\ link[c] # "up" \/ consumerDone
       /\ con' = [con EXCEPT ![c] = "connect"]
       /\ cleanupConn(c, left)

(* Fault: a delivery is recorded once it is accepted. *)
ReceiveAcceptFirst(c) ==
    /\ con[c] = "receive"
    /\ buffer[c] # <<>> /\ hand[c] = {}
    /\ AcceptMessage(c, Tail(buffer[c]))
    /\ IF con'[c] = "connect" THEN UNCHANGED <<hand, trackers, arrived, received>>
       ELSE /\ trackers' = [trackers EXCEPT ![c] = record(@, Head(buffer[c]))]
            /\ arrived' = [arrived EXCEPT ![c] = @ \cup {Head(buffer[c])}]
            /\ IF pattern = "events" THEN received' = received + 1 /\ UNCHANGED hand
               ELSE hand' = [hand EXCEPT ![c] = {Head(buffer[c])}] /\ UNCHANGED received
    /\ ConsumerUnchanged /\ UNCHANGED <<pos, cursor, eventsDropped, trackerVars, ready>>

(* Receive returns a prefetched message, even of a broken connection, and   *)
(* the subTracker records it.  drainSub then counts and accepts it;         *)
(* handleStoreDelivery has yet to track it, under another lock.             *)
Receive(c) ==
    /\ con[c] = "receive"
    /\ buffer[c] # <<>> /\ hand[c] = {}
    /\ trackers' = [trackers EXCEPT ![c] = record(@, Head(buffer[c]))]
    /\ arrived' = [arrived EXCEPT ![c] = @ \cup {Head(buffer[c])}]
    /\ IF pattern = "events"
       THEN received' = received + 1 /\ AcceptMessage(c, Tail(buffer[c])) /\ UNCHANGED hand
       ELSE /\ hand' = [hand EXCEPT ![c] = {Head(buffer[c])}]
            /\ buffer' = [buffer EXCEPT ![c] = Tail(@)]
            /\ UNCHANGED <<received, con, link, excused>>
    /\ ConsumerUnchanged /\ UNCHANGED <<pos, cursor, eventsDropped, trackerVars, ready>>

(* m is W or more past the tracker's watermark. *)
Beyond(m) == Channel \in DOMAIN producers /\ T!Offset(producers[Channel], m) >= W

(* recordTracked and recordReceived, and drainDurable accepts the message. *)
recordTracked(c) ==
    /\ \E m \in hand[c] :
           /\ T!Record(Channel, m)
           /\ unmarked' = unmarked \cup (IF Beyond(m) THEN {m} ELSE {})
    /\ hand' = [hand EXCEPT ![c] = {}]
    /\ received' = received + 1
    /\ AcceptMessage(c, buffer[c])
    /\ ConsumerUnchanged /\ UNCHANGED <<pos, cursor, trackers, arrived, eventsDropped, ready>>

(* Receive fails: the connection is gone, with a note if the broker says    *)
(* that it was for want of credit, or the context is cancelled.             *)
ReceiveFails(c) ==
    /\ con[c] = "receive" /\ hand[c] = {}
    /\ \/ link[c] # "up" /\ buffer[c] = <<>>
       \/ consumerDone
    /\ con' = [con EXCEPT ![c] = "connect"]
    /\ cleanupConn(c, buffer[c])
    /\ eventsDropped' = eventsDropped + (IF link[c] = "stalled" /\ ~consumerDone THEN 1 ELSE 0)
    /\ ConsumerUnchanged
    /\ UNCHANGED <<pos, cursor, hand, trackers, arrived, received, trackerVars, ready>>

Consumer(c) == Connect(c) \/ Receive(c) \/ recordTracked(c) \/ ReceiveFails(c)

(* ExtraLost: the worst of the consumers. *)
ExtraLost == Max({missing(trackers[c]) : c \in Started})

(* What captureWorkerSnapshots adds up. *)
Lost ==
    ExtraLost + (IF Channel \in DOMAIN producers THEN producers[Channel].confirmedLost ELSE 0)

-----------------------------------------------------------------------------
(* The engine's run of this worker. *)

EngineGoto(l) ==
    /\ phase' = l
    /\ UNCHANGED <<config, ready, seq, since, brokerVars, consumerVars, faults>>

StartProducers == prod' = "loop" /\ producerDone' = FALSE

(* WaitForConsumerReady, then the warmup's producers. *)
WarmupStart ==
    /\ phase = "starting"
    /\ \/ ready /\ ~consumerDone /\ EngineGoto("warmup") /\ StartProducers
       \/ /\ ~ready \/ consumerDone
          /\ EngineGoto("finished")
          /\ UNCHANGED <<prod, producerDone>>
    /\ UNCHANGED <<consumerDone, sent, countVars>>

(* StopProducers cancels the producer ... *)
CancelProducers ==
    /\ \/ phase = "warmup" /\ EngineGoto("stopWarmup")
       \/ phase = "measure" /\ EngineGoto("stopProducers")
    /\ producerDone' = TRUE
    /\ UNCHANGED <<consumerDone, prod, sent, countVars>>

(* ... and waits for it.  ResetAfterWarmup resets the tracker and the       *)
(* counters, but neither the sequence nor the subTrackers; a run cancelled  *)
(* before or during the reset goes no further.                              *)
ResetAfterWarmup ==
    /\ phase = "stopWarmup"
    /\ prod = "off"
    /\ \/ /\ consumerDone
          /\ EngineGoto("finished")
          /\ UNCHANGED <<prod, producerDone, sent, countVars>>
       \/ /\ ~consumerDone
          /\ EngineGoto("measure") /\ StartProducers
          /\ T!Reset /\ unmarked' = arrived[Durable]
          /\ sent' = 0 /\ received' = 0 /\ eventsDropped' = 0
    /\ UNCHANGED consumerDone

(* drainToQuiescence ends, the gaps are detected, the snapshot is taken and *)
(* StopConsumers cancels the consumers ...                                  *)
captureWorkerSnapshots ==
    /\ phase = "stopProducers"
    /\ prod = "off"
    /\ EngineGoto("stopConsumers")
    /\ T!DetectGaps /\ UNCHANGED unmarked
    /\ consumerDone' = TRUE
    /\ UNCHANGED <<producerDone, prod, sent, received, eventsDropped>>

(* ... and waits for them. *)
ConsumersStopped ==
    /\ phase = "stopConsumers"
    /\ \A c \in Started : con[c] = "done"
    /\ EngineGoto("finished")
    /\ UNCHANGED <<consumerDone, producerDone, prod, sent, countVars>>

Engine ==
    \/ WarmupStart \/ CancelProducers \/ ResetAfterWarmup \/ captureWorkerSnapshots
    \/ ConsumersStopped

(* StopRun cancels the context that consumerCtx derives from. *)
StopRun ==
    /\ phase # "finished"
    /\ ~consumerDone
    /\ consumerDone' = TRUE
    /\ UNCHANGED <<config, phase, producerDone, producerVars, brokerVars, consumerVars, countVars,
                   ready, faults>>

-----------------------------------------------------------------------------

Init ==
    /\ pattern \in {"events", "events-store"}
    /\ durable \in IF pattern = "events" THEN {FALSE} ELSE BOOLEAN
    /\ phase = "starting" /\ ready = FALSE
    /\ consumerDone = FALSE /\ producerDone = FALSE
    /\ prod = "off" /\ seq = 0 /\ since = 1
    /\ wire = {} /\ log = <<>>
    /\ pos = [c \in Consumers |-> 0] /\ cursor = [c \in Consumers |-> 0]
    /\ con = [c \in Consumers |-> IF c \in Started THEN "connect" ELSE "done"]
    /\ link = [c \in Consumers |-> "none"]
    /\ buffer = [c \in Consumers |-> <<>>] /\ hand = [c \in Consumers |-> {}]
    /\ trackers = [c \in Consumers |-> newSubTracker]
    /\ sent = 0 /\ received = 0 /\ eventsDropped = 0
    /\ T!Init
    /\ faults = 0
    /\ arrived = [c \in Consumers |-> {}]
    /\ excused = [c \in Consumers |-> {}]
    /\ unmarked = {}

Next ==
    \/ BrokerTake \/ TransfersLost
    \/ \E c \in Consumers : Deliver(c) \/ NoCredit(c) \/ DisconnectConsumer(c) \/ Consumer(c)
    \/ Producer \/ Engine \/ StopRun

Spec == Init /\ [][Next]_vars

-----------------------------------------------------------------------------

(* What a consumer has not been given of the sequences up to its highest. *)
Gap(c) == (1 .. trackers[c].lastSeq) \ arrived[c]

(* events.go: uniqueCount and lastSeq accumulate "so missing() stays        *)
(* accurate over the full run": although record forgets what left its       *)
(* window, missing is the number of sequences not given to the consumer,    *)
(* through reconnections, redelivery after a resume, late transfers of an   *)
(* earlier connection and the warmup.                                       *)
MissingIsExact == \A c \in Consumers : missing(trackers[c]) = Cardinality(Gap(c))

(* No loss is made up by the harness (drainSub, drainDurable, ExtraLost): a *)
(* sequence that counts as missing was never taken by the broker, passed    *)
(* the consumer by (it was away, had no credit, or lost its connection with *)
(* the delivery prefetched), or is yet to come.                             *)
LossIsExplained ==
    \A c \in Consumers :
        Gap(c) \cap Offered(c) \subseteq excused[c] \cup Range(buffer[c])

(* What the tracker takes for lost. *)
Pending == IF Channel \in DOMAIN producers THEN producers[Channel].pendingLost ELSE {}

(* The loss that a snapshot takes over is, at any moment, the worst gap of  *)
(* a consumer and, for the store, what the tracker takes for lost, which    *)
(* for the most part is in that gap and so counted twice                    *)
(* (captureWorkerSnapshots, ExtraLost, handleStoreDelivery).  Of what       *)
(* arrived the tracker takes for lost only what it was told before its      *)
(* reset or W or more past its watermark, and the delivery in hand, which   *)
(* it has yet to be told.                                                   *)
SnapshotLoss ==
    /\ Lost = Max({Cardinality(Gap(c)) : c \in Started}) + Cardinality(Pending)
    /\ Pending \subseteq Gap(Durable) \cup unmarked \cup hand[Durable]
=============================================================================
