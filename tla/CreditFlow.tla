----------------------------- MODULE CreditFlow -----------------------------
(***************************************************************************)
(* burnin/worker/credit_flow.go on one channel: the receiver that issues   *)
(* and drains its link credit by hand, and the producer that feeds it,     *)
(* over a broker that is not part of the repository.                       *)
(*                                                                         *)
(* A message is its sequence number.  What the broker pushes on the link   *)
(* travels in order: messages, and the answer to a drain.  Arrived         *)
(* messages wait in the client's prefetch buffer.  A message the client    *)
(* has accepted stays unsettled at the broker until the disposition gets   *)
(* there.  The broker may misbehave in the ways this worker is there to    *)
(* find: it pushes without credit, or leaves a drain unanswered.           *)
(***************************************************************************)
EXTENDS Integers, FiniteSets, Sequences, Functions

CONSTANTS
    Batch,         \* creditBatch
    MaxSeq,        \* bound: messages sent
    MaxGrants,     \* bound: grants between two drains, in place of drainEvery
    MaxFaults,     \* bound: failed Sends and lost connections
    MaxOver,       \* bound: messages pushed without credit
    MaxHangs       \* bound: drains left unanswered

ASSUME BatchAssumption == Batch \in 1 .. 1024
ASSUME CreditFlowBounds ==
    /\ MaxSeq \in Nat /\ MaxFaults \in Nat /\ MaxOver \in Nat /\ MaxHangs \in Nat
    /\ MaxGrants \in Nat \ {0}

Seqs == 1 .. MaxSeq

VARIABLES
    consumerDone,  \* consumerCtx is cancelled
    producerDone,  \* producerCtx is cancelled
    ready,         \* consumerReady is closed
    prod,          \* where produceLoop stands
    seq,           \* CreditFlowWorker.seq
    con,           \* where consumeLoop stands
    received,      \* messages of the current batch
    fidelity,      \* the worker's fidelity failures
    link,          \* the consumer's connection
    buffer,        \* the receiver's prefetched messages
    pipe,          \* what the broker has pushed and the client not yet got
    credit,        \* link credit, as the broker sees it
    draining,      \* a drain the broker has not answered
    grants,        \* grants since the link was attached or last drained
    wire,          \* transfers of the producer the broker has not seen
    waiting,       \* messages in the queue
    unsettled,     \* messages pushed on the link and not settled
    faults, over, hangs,   \* how often each failure has happened
    stored, handled        \* history: stored by the broker; fed to the tracker

ctxVars == <<consumerDone, producerDone, ready>>
producerVars == <<prod, seq>>
consumerVars == <<con, received, fidelity, grants>>
linkVars == <<link, buffer, pipe, credit, draining>>
brokerVars == <<waiting, unsettled, stored>>
faultVars == <<faults, over, hangs>>
vars == <<ctxVars, producerVars, consumerVars, linkVars, brokerVars, faultVars, wire, handled>>

Drained == 0    \* the answer to a drain, among the messages of the pipe

AtBroker == waiting \cup unsettled

Fault == faults < MaxFaults /\ faults' = faults + 1 /\ UNCHANGED <<over, hangs>>

-----------------------------------------------------------------------------
(* The broker, from what the worker expects of it. *)

BrokerStore ==
    /\ \E m \in wire : /\ wire' = wire \ {m}
                       /\ waiting' = waiting \cup {m}
                       /\ stored' = stored \cup {m}
    /\ UNCHANGED <<unsettled, ctxVars, producerVars, consumerVars, linkVars, faultVars, handled>>

(* A transfer nobody waits for any more is lost with its connection. *)
TransferLost ==
    /\ \E m \in wire : (prod = "sending" => m # seq) /\ wire' = wire \ {m}
    /\ UNCHANGED <<brokerVars, ctxVars, producerVars, consumerVars, linkVars, faultVars, handled>>

Push ==
    /\ link = "up"
    /\ \E m \in waiting : /\ waiting' = waiting \ {m}
                          /\ unsettled' = unsettled \cup {m}
                          /\ pipe' = Append(pipe, m)
    /\ UNCHANGED <<stored, ctxVars, producerVars, consumerVars, link, buffer, draining, wire,
                   handled>>

Deliver ==
    /\ credit > 0
    /\ credit' = credit - 1
    /\ Push
    /\ UNCHANGED faultVars

(* What EXACT-credit delivery rules out. *)
OverDeliver ==
    /\ credit = 0
    /\ over < MaxOver
    /\ over' = over + 1
    /\ Push
    /\ UNCHANGED <<credit, faults, hangs>>

(* The broker gives the rest of the credit back. *)
AnswerDrain ==
    /\ link = "up"
    /\ draining
    /\ draining' = FALSE
    /\ credit' = 0
    /\ pipe' = Append(pipe, Drained)
    /\ UNCHANGED <<brokerVars, ctxVars, producerVars, consumerVars, link, buffer, faultVars,
                   wire, handled>>

Arrive ==
    /\ pipe # <<>> /\ Head(pipe) # Drained
    /\ buffer' = buffer \cup {Head(pipe)}
    /\ pipe' = Tail(pipe)
    /\ UNCHANGED <<brokerVars, ctxVars, producerVars, consumerVars, link, credit, draining,
                   faultVars, wire, handled>>

(* A disposition arrives. *)
Settle ==
    /\ \E m \in unsettled \ (buffer \cup Range(pipe)) : unsettled' = unsettled \ {m}
    /\ UNCHANGED <<waiting, stored, ctxVars, producerVars, consumerVars, linkVars, faultVars,
                   wire, handled>>

(* The connection goes away, cut by DisconnectConsumers or by the network.  *)
DisconnectConsumer ==
    /\ link = "up"
    /\ Fault
    /\ link' = "broken"
    /\ pipe' = <<>> /\ credit' = 0 /\ draining' = FALSE
    /\ waiting' = waiting \cup unsettled
    /\ unsettled' = {}
    /\ UNCHANGED <<stored, ctxVars, producerVars, consumerVars, buffer, wire, handled>>

-----------------------------------------------------------------------------
(* consumeLoop and creditCycle. *)

BrokerSide == <<stored, ctxVars, producerVars, wire>>

(* closeReceiver and cleanupConn: the buffer is gone and the broker         *)
(* requeues what is unsettled.                                              *)
cleanupConn ==
    /\ link' = "none" /\ buffer' = {} /\ pipe' = <<>> /\ credit' = 0 /\ draining' = FALSE
    /\ waiting' = waiting \cup unsettled
    /\ unsettled' = {}

(* Fault: the loop does not look at its context. *)
ConnectUncancelled ==
    /\ con = "connect"
    /\ con' = "grant" /\ link' = "up" /\ ready' = TRUE
    /\ grants' = 0
    /\ UNCHANGED <<received, fidelity, buffer, pipe, credit, draining, consumerDone, producerDone,
                   producerVars, brokerVars, faultVars, wire, handled>>

(* The top of consumeLoop.  A failed Dial, NewSession or NewReceiver is     *)
(* cleaned up and repeated, after a sleep that ends with the context.       *)
Connect ==
    /\ con = "connect"
    /\ \/ consumerDone /\ con' = "done" /\ UNCHANGED <<link, ready>>
       \/ ~consumerDone /\ con' = "grant" /\ link' = "up" /\ ready' = TRUE
    /\ grants' = 0
    /\ UNCHANGED <<received, fidelity, buffer, pipe, credit, draining, consumerDone, producerDone,
                   producerVars, brokerVars, faultVars, wire, handled>>

(* creditCycle returns: the link is given up and consumeLoop starts over. *)
Return ==
    /\ con' = "connect"
    /\ received' = 0
    /\ cleanupConn
    /\ UNCHANGED <<grants, BrokerSide, handled>>

(* A grant is added to what the previous batch has left.  On a broken link  *)
(* IssueCredit may fail, or go unnoticed until the next call that waits.    *)
IssueCredit ==
    /\ con = "grant"
    /\ \/ ~consumerDone /\ link = "up"
          /\ con' = "receive"
          /\ credit' = credit + Batch
          /\ grants' = grants + 1
          /\ UNCHANGED <<received, link, buffer, pipe, draining, waiting, unsettled, BrokerSide,
                         handled>>
       \/ ~consumerDone /\ link = "broken"
          /\ con' = "receive"
          /\ grants' = grants + 1
          /\ UNCHANGED <<received, linkVars, waiting, unsettled, BrokerSide, handled>>
       \/ (consumerDone \/ link = "broken") /\ Return
    /\ UNCHANGED <<fidelity, faultVars>>

(* handleDelivery of a prefetched message, even one of a broken connection, *)
(* and AcceptMessage, which hands the disposition to a connection that is   *)
(* up.  When it fails the message is lost to the client.                    *)
TakePrefetched(m) ==
    /\ buffer' = buffer \ {m}
    /\ handled' = handled \cup {m}

Accepted(m) ==
    /\ link = "up"
    /\ TakePrefetched(m)
    /\ UNCHANGED <<link, pipe, credit, draining, waiting, unsettled, grants, BrokerSide,
                   faultVars>>

AcceptCanFail == link = "broken" \/ consumerDone

(* Fault: the message is settled and forgotten. *)
ReceiveUnhandled ==
    /\ con = "receive"
    /\ \E m \in buffer :
           /\ link = "up"
           /\ buffer' = buffer \ {m}
           /\ con' = IF received + 1 < Batch THEN "receive" ELSE "batch"
           /\ received' = received + 1
           /\ UNCHANGED <<link, pipe, credit, draining, waiting, unsettled, grants, BrokerSide,
                          faultVars, handled>>
    /\ UNCHANGED fidelity

Receive ==
    /\ con = "receive"
    /\ \E m \in buffer :
           \/ /\ Accepted(m)
              /\ con' = IF received + 1 < Batch THEN "receive" ELSE "batch"
              /\ received' = received + 1
           \/ /\ AcceptCanFail
              /\ handled' = handled \cup {m}
              /\ con' = "connect" /\ received' = 0
              /\ cleanupConn
              /\ UNCHANGED <<grants, BrokerSide, faultVars>>
    /\ UNCHANGED fidelity

(* No message came in time, or the link is gone: the batch ends, whatever   *)
(* credit is left.  A cancelled context ends the cycle.                     *)
ReceiveFails ==
    /\ con = "receive"
    /\ buffer = {} \/ consumerDone
    /\ \/ consumerDone /\ Return
       \/ /\ ~consumerDone
          /\ con' = "batch"
          /\ UNCHANGED <<received, grants, linkVars, waiting, unsettled, BrokerSide, handled>>
    /\ UNCHANGED <<fidelity, faultVars>>

(* Fault: a broken link is not drained, and so never found out. *)
BatchNeverDrains ==
    /\ con = "batch"
    /\ received' = 0
    /\ \/ grants < MaxGrants /\ con' = "grant" /\ UNCHANGED draining
       \/ link = "up" /\ con' = "drain" /\ draining' = TRUE
    /\ UNCHANGED <<fidelity, grants, link, buffer, pipe, credit, brokerVars, ctxVars,
                   producerVars, faultVars, wire, handled>>

(* The end of a batch: another one, or the drain if nextDrain has passed. *)
EndBatch ==
    /\ con = "batch"
    /\ received' = 0
    /\ \/ grants < MaxGrants /\ con' = "grant" /\ UNCHANGED draining
       \/ con' = "drain" /\ draining' = (link = "up")
    /\ UNCHANGED <<fidelity, grants, link, buffer, pipe, credit, brokerVars, ctxVars,
                   producerVars, faultVars, wire, handled>>

-----------------------------------------------------------------------------
(* drainAndVerify and drainPrefetch. *)

(* Fault: the deliveries that arrived during the drain are not absorbed. *)
DrainCompletesUnabsorbed ==
    /\ con = "drain"
    /\ pipe # <<>> /\ Head(pipe) = Drained
    /\ pipe' = Tail(pipe)
    /\ con' = "confirm"
    /\ UNCHANGED <<received, fidelity, grants, link, buffer, credit, draining, brokerVars,
                   ctxVars, producerVars, faultVars, wire, handled>>

DrainCompletes ==
    /\ con = "drain"
    /\ pipe # <<>> /\ Head(pipe) = Drained
    /\ pipe' = Tail(pipe)
    /\ con' = "absorb"
    /\ UNCHANGED <<received, fidelity, grants, link, buffer, credit, draining, brokerVars,
                   ctxVars, producerVars, faultVars, wire, handled>>

(* DrainCredit fails.  A cancelled context and a link error end the cycle,  *)
(* a deadline on a live link is a fidelity failure as well.                 *)
DrainFails ==
    /\ con = "drain"
    /\ \/ /\ consumerDone \/ link = "broken"
          /\ UNCHANGED <<fidelity, faultVars>>
       \/ /\ ~consumerDone /\ link = "up" /\ draining
          /\ hangs < MaxHangs
          /\ hangs' = hangs + 1
          /\ fidelity' = fidelity + 1
          /\ UNCHANGED <<faults, over>>
    /\ Return

(* The first drainPrefetch: what is there was pushed before the drain was   *)
(* answered.  A failed AcceptMessage ends the pass, and goes unnoticed.     *)
Absorb ==
    /\ con = "absorb"
    /\ \/ buffer = {} /\ con' = "confirm" /\ UNCHANGED <<linkVars, waiting, unsettled, grants,
                                                         BrokerSide, faultVars, handled>>
       \/ \E m \in buffer : Accepted(m) /\ con' = "absorb"
       \/ \E m \in buffer :
              /\ AcceptCanFail
              /\ TakePrefetched(m)
              /\ con' = "confirm"
              /\ UNCHANGED <<link, pipe, credit, draining, waiting, unsettled, grants,
                             BrokerSide, faultVars>>
    /\ UNCHANGED <<received, fidelity>>

(* The pause before the second look at the prefetch buffer. *)
Confirm ==
    /\ con = "confirm"
    /\ \/ consumerDone /\ Return
       \/ /\ ~consumerDone
          /\ con' = "recheck"
          /\ UNCHANGED <<received, grants, linkVars, waiting, unsettled, BrokerSide, handled>>
    /\ UNCHANGED <<fidelity, faultVars>>

(* The second drainPrefetch, whose messages are fidelity failures; a        *)
(* message whose AcceptMessage fails is not counted.                        *)
Recheck ==
    /\ con = "recheck"
    /\ \/ /\ buffer = {} /\ con' = "grant"
          /\ grants' = 0
          /\ UNCHANGED <<fidelity, linkVars, waiting, unsettled, BrokerSide, faultVars, handled>>
       \/ \E m \in buffer : Accepted(m) /\ fidelity' = fidelity + 1 /\ con' = "recheck"
       \/ \E m \in buffer :
              /\ AcceptCanFail
              /\ TakePrefetched(m)
              /\ con' = "grant" /\ grants' = 0
              /\ UNCHANGED <<fidelity, link, pipe, credit, draining, waiting, unsettled,
                             BrokerSide, faultVars>>
    /\ UNCHANGED received

Consumer ==
    \/ Connect \/ IssueCredit \/ Receive \/ ReceiveFails \/ EndBatch
    \/ DrainCompletes \/ DrainFails \/ Absorb \/ Confirm \/ Recheck

-----------------------------------------------------------------------------
(* StartProducers, produceLoop and connectSender; StopProducers and         *)
(* StopConsumers.                                                           *)

ClientSide == <<consumerVars, linkVars, brokerVars, over, hangs, handled>>

StartProducers ==
    /\ prod = "off" /\ ready /\ ~producerDone
    /\ prod' = "loop"
    /\ UNCHANGED <<seq, wire, faults, ctxVars, ClientSide>>

ProducerReturns ==
    /\ prod = "loop" /\ producerDone
    /\ prod' = "off"
    /\ UNCHANGED <<seq, wire, faults, ctxVars, ClientSide>>

Send ==
    /\ prod = "loop" /\ ~producerDone
    /\ seq < MaxSeq
    /\ seq' = seq + 1
    /\ wire' = wire \cup {seq + 1}
    /\ prod' = "sending"
    /\ UNCHANGED <<faults, ctxVars, ClientSide>>

(* Send returns with the broker's disposition, fails, or is cancelled. *)
SendReturns ==
    /\ prod = "sending"
    /\ \/ seq \notin wire /\ prod' = "loop" /\ UNCHANGED faults
       \/ ~producerDone /\ prod' = "loop" /\ faults < MaxFaults /\ faults' = faults + 1
       \/ producerDone /\ prod' = "off" /\ UNCHANGED faults
    /\ UNCHANGED <<seq, wire, ctxVars, ClientSide>>

Producer == ProducerReturns \/ Send \/ SendReturns

StopProducers ==
    /\ ~producerDone /\ prod # "off"
    /\ producerDone' = TRUE
    /\ UNCHANGED <<consumerDone, ready, producerVars, wire, faults, ClientSide>>

(* Also the cancellation of the run, which comes at any time. *)
StopConsumers ==
    /\ ~consumerDone
    /\ consumerDone' = TRUE
    /\ UNCHANGED <<producerDone, ready, producerVars, wire, faults, ClientSide>>

-----------------------------------------------------------------------------

Init ==
    /\ consumerDone = FALSE /\ producerDone = FALSE /\ ready = FALSE
    /\ prod = "off" /\ seq = 0
    /\ con = "connect" /\ received = 0 /\ fidelity = 0 /\ grants = 0
    /\ link = "none" /\ buffer = {} /\ pipe = <<>> /\ credit = 0 /\ draining = FALSE
    /\ wire = {} /\ waiting = {} /\ unsettled = {} /\ stored = {} /\ handled = {}
    /\ faults = 0 /\ over = 0 /\ hangs = 0

Broker == BrokerStore \/ TransferLost \/ Deliver \/ OverDeliver \/ AnswerDrain \/ Arrive \/ Settle

Next ==
    \/ Broker \/ DisconnectConsumer \/ Consumer \/ StartProducers \/ Producer
    \/ StopProducers \/ StopConsumers

(* Goroutines are scheduled, frames arrive and drains are answered.  Credit *)
(* comes and goes with the drains; a broker that is granted credit over and *)
(* over pushes a message at last.                                           *)
Fairness ==
    /\ WF_vars(Consumer) /\ WF_vars(Producer)
    /\ WF_vars(BrokerStore) /\ WF_vars(Arrive) /\ WF_vars(AnswerDrain)
    /\ SF_vars(Deliver)

Spec == Init /\ [][Next]_vars /\ Fairness

-----------------------------------------------------------------------------

(* A fidelity failure is an over-delivery or an unanswered drain: no        *)
(* message pushed under credit is ever flagged, whatever arrives while the  *)
(* drain is under way and whenever the connection breaks (drainAndVerify).  *)
NoFalseGap == fidelity <= over + hangs

(* A stored message is tracked or still at the broker, although two loops   *)
(* settle what they take and the drain pass ignores a failed AcceptMessage  *)
(* (creditCycle, drainPrefetch).                                            *)
AtLeastOnce == stored \subseteq handled \cup AtBroker

(* HELD remainder resumes: a message that waits, for want of credit, during *)
(* a drain or behind a broken link whose IssueCredit still succeeds, is     *)
(* tracked in the end unless the consumer is stopped (creditCycle).         *)
HeldRemainderResumes ==
    \A m \in Seqs : (m \in waiting) ~> (m \in handled \/ consumerDone)

(* A cancelled consumer returns from every place it may be waiting in, so   *)
(* that StopConsumers ends (consumeLoop, creditCycle, drainAndVerify).      *)
CancelledConsumerReturns == consumerDone ~> (con = "done")
=============================================================================
