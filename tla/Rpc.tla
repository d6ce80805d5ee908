-------------------------------- MODULE Rpc --------------------------------
(***************************************************************************)
(* burnin/worker/rpc.go on one channel, as commands.go and queries.go set  *)
(* it up: requesters, responders, the worker's counters and tracker, run   *)
(* by the engine through warmup and measurement, over a broker that is not *)
(* part of the repository.                                                 *)
(*                                                                         *)
(* A request is <<q, round, n>>: the n-th of requester q since producers   *)
(* were started for the round-th time.  Its sequence number and its        *)
(* correlation id are made of n alone.  A requester's dynamic reply node   *)
(* is the set of requests sent with it; a reply to any other is dropped.   *)
(***************************************************************************)
EXTENDS Integers, FiniteSets, Functions

CONSTANTS
    Requesters,    \* SendersPerChannel goroutines
    Responders,    \* RespondersPerChannel goroutines
    W,             \* reorderWindow of the tracker
    MaxRequests,   \* bound: requests in a round
    MaxFaults      \* bound: failed calls and lost connections

ASSUME RequestersAssumption == IsFiniteSet(Requesters)
ASSUME RpcBounds == MaxRequests \in Nat /\ MaxFaults \in Nat

VARIABLES
    pattern,       \* "commands" or "queries"
    phase,         \* where the engine stands
    round,         \* how often producers were started
    producerDone,  \* producerCtx is cancelled
    consumerDone,  \* consumerCtx is cancelled
    req,           \* where each requester stands
    num,           \* rpcRequester.seq, which is also rpcRequester.corr
    resp,          \* where each responder stands
    held,          \* the request in each responder's hands
    mine,          \* the requests that name each requester's current reply node
    inbox,         \* replies that arrived on that node
    queue,         \* requests the broker has not delivered
    pending,       \* requests the broker waits for a response to
    sent, received, success, timeout, error,   \* counters of BaseWorker
    producers, resets,                         \* the tracker
    faults,        \* failures so far
    cancelled      \* history: requests given up when their context was cancelled

requesterVars == <<req, num, mine, inbox>>
responderVars == <<resp, held>>
brokerVars == <<queue, pending>>
counters == <<sent, received, success, timeout, error>>
trackerVars == <<producers, resets>>
engineVars == <<pattern, phase, round, producerDone, consumerDone>>
vars == <<requesterVars, responderVars, brokerVars, counters, trackerVars, engineVars, faults,
          cancelled>>

Channel == "channel"

T == INSTANCE Tracker WITH
         Producers <- {Channel}, Seqs <- 1 .. MaxRequests, MaxResets <- 1,
         MaxReceived <- MaxRequests

Requests == Requesters \X (1 .. 2) \X (1 .. MaxRequests)

NoRequest == <<>>

Corr(id) == id[3]

Current(q) == <<q, round, num[q]>>

Fault == faults < MaxFaults /\ faults' = faults + 1

-----------------------------------------------------------------------------
(* The broker.  A response to a request that is still pending goes to the   *)
(* node the request names, if its link is still there.                      *)

Respond(id, executed) ==
    /\ pending' = pending \ {id}
    /\ inbox' = IF id \in pending /\ id \in mine[id[1]]
                THEN [inbox EXCEPT ![id[1]] = @ \cup {[id |-> id, executed |-> executed]}]
                ELSE inbox

(* Nobody has responded in time: a command is answered as not executed, a   *)
(* query is not answered.                                                   *)
BrokerTimeout ==
    /\ \E id \in pending :
           /\ queue' = queue \ {id}
           /\ \/ pattern = "commands" /\ Respond(id, FALSE)
              \/ pattern = "queries" /\ pending' = pending \ {id} /\ UNCHANGED inbox
    /\ UNCHANGED <<req, num, mine, responderVars, counters, trackerVars, engineVars, faults,
                   cancelled>>

-----------------------------------------------------------------------------
(* rpcRequester: run, connect, doOne and accountReply. *)

teardown(q) ==
    /\ mine' = [mine EXCEPT ![q] = {}]
    /\ inbox' = [inbox EXCEPT ![q] = {}]

RequesterGoto(q, l) ==
    /\ req' = [req EXCEPT ![q] = l]
    /\ UNCHANGED <<responderVars, engineVars>>

RequestUnchanged == UNCHANGED <<num, brokerVars>>

(* The loop returns at its top, or while it connects, sleeps or waits for   *)
(* its rate.                                                                *)
RequesterReturns(q) ==
    /\ req[q] \in {"connect", "ready"}
    /\ producerDone
    /\ RequesterGoto(q, "off") /\ teardown(q)
    /\ RequestUnchanged /\ UNCHANGED <<counters, trackerVars, faults, cancelled>>

(* A connection, a dynamic reply node and a sender; failed attempts are     *)
(* repeated and leave nothing behind.                                       *)
connect(q) ==
    /\ req[q] = "connect"
    /\ ~producerDone
    /\ RequesterGoto(q, "ready")
    /\ RequestUnchanged
    /\ UNCHANGED <<mine, inbox, counters, trackerVars, faults, cancelled>>

(* A request is minted and Send begins; it reaches the broker or it does    *)
(* not, in which case Send will fail.                                       *)
Send(q) ==
    /\ req[q] = "ready"
    /\ ~producerDone
    /\ SumFunction(num) < MaxRequests
    /\ num' = [num EXCEPT ![q] = @ + 1]
    /\ LET id == <<q, round, num[q] + 1>>
       IN  \/ /\ mine' = [mine EXCEPT ![q] = @ \cup {id}]
              /\ queue' = queue \cup {id}
              /\ pending' = pending \cup {id}
           \/ faults < MaxFaults /\ UNCHANGED <<mine, queue, pending>>
    /\ RequesterGoto(q, "sending")
    /\ UNCHANGED <<inbox, counters, trackerVars, faults, cancelled>>

SendReturns(q) ==
    /\ req[q] = "sending"
    /\ Current(q) \in mine[q]
    /\ sent' = sent + 1
    /\ RequesterGoto(q, "await")
    /\ RequestUnchanged
    /\ UNCHANGED <<mine, inbox, received, success, timeout, error, trackerVars, faults, cancelled>>

(* Send fails or Receive fails, for a reason other than the deadline. *)
LinkFails(q) ==
    /\ req[q] \in {"sending", "await"}
    /\ ~producerDone
    /\ Fault
    /\ error' = error + 1
    /\ RequesterGoto(q, "connect") /\ teardown(q)
    /\ RequestUnchanged
    /\ UNCHANGED <<sent, received, success, timeout, trackerVars, cancelled>>

(* Fault: a cancelled request is counted as an error. *)
CancelIsError(q) ==
    /\ req[q] \in {"sending", "await"}
    /\ producerDone
    /\ cancelled' = cancelled + 1 /\ error' = error + 1
    /\ RequesterGoto(q, "off") /\ teardown(q)
    /\ RequestUnchanged
    /\ UNCHANGED <<sent, received, success, timeout, trackerVars, faults>>

(* The context is cancelled under Send or Receive. *)
RequestCancelled(q) ==
    /\ req[q] \in {"sending", "await"}
    /\ producerDone
    /\ cancelled' = cancelled + 1
    /\ RequesterGoto(q, "off") /\ teardown(q)
    /\ RequestUnchanged /\ UNCHANGED <<counters, trackerVars, faults>>

(* Fault: the links are kept. *)
TimeoutKeepsLinks(q) ==
    /\ req[q] = "await"
    /\ ~producerDone
    /\ timeout' = timeout + 1
    /\ RequesterGoto(q, "ready")
    /\ RequestUnchanged
    /\ UNCHANGED <<mine, inbox, sent, received, success, error, trackerVars, faults, cancelled>>

(* No reply in time: the links are rebuilt. *)
ReplyTimeout(q) ==
    /\ req[q] = "await"
    /\ ~producerDone
    /\ timeout' = timeout + 1
    /\ RequesterGoto(q, "connect") /\ teardown(q)
    /\ RequestUnchanged
    /\ UNCHANGED <<sent, received, success, error, trackerVars, faults, cancelled>>

recordTracked(seq) == T!Record(Channel, seq)

(* Receive returns a reply, and accountReply looks at its correlation id    *)
(* and, for a command, at its outcome.                                      *)
accountReply(q) ==
    /\ req[q] = "await"
    /\ \E reply \in inbox[q] :
           /\ inbox' = [inbox EXCEPT ![q] = @ \ {reply}]
           /\ IF Corr(reply.id) = num[q] /\ (pattern = "commands" => reply.executed)
              THEN /\ received' = received + 1 /\ success' = success + 1 /\ UNCHANGED error
                   /\ recordTracked(Corr(reply.id))
              ELSE /\ error' = error + 1 /\ UNCHANGED <<received, success, trackerVars>>
    /\ RequesterGoto(q, "ready")
    /\ RequestUnchanged /\ UNCHANGED <<mine, sent, timeout, faults, cancelled>>

Requester(q) ==
    \/ RequesterReturns(q) \/ connect(q) \/ Send(q) \/ SendReturns(q) \/ LinkFails(q)
    \/ RequestCancelled(q) \/ ReplyTimeout(q) \/ accountReply(q)

-----------------------------------------------------------------------------
(* rpcResponder: run and serve. *)

ResponderGoto(r, l) ==
    /\ resp' = [resp EXCEPT ![r] = l]
    /\ UNCHANGED <<req, num, mine, counters, trackerVars, engineVars, cancelled>>

(* The top of run: return, or get a receiver and a reply sender. *)
ResponderConnect(r) ==
    /\ resp[r] = "connect"
    /\ ResponderGoto(r, IF consumerDone THEN "done" ELSE "receive")
    /\ UNCHANGED <<held, inbox, brokerVars, faults>>

(* serve takes a request and settles it. *)
ReceiveRequest(r) ==
    /\ resp[r] = "receive"
    /\ \E id \in queue : /\ queue' = queue \ {id}
                         /\ held' = [held EXCEPT ![r] = id]
    /\ ResponderGoto(r, "reply")
    /\ UNCHANGED <<inbox, pending, faults>>

(* Receive fails, or the context is cancelled. *)
ReceiveRequestFails(r) ==
    /\ resp[r] = "receive"
    /\ \/ consumerDone /\ UNCHANGED faults
       \/ ~consumerDone /\ Fault
    /\ ResponderGoto(r, "connect")
    /\ UNCHANGED <<held, inbox, brokerVars>>

(* The reply is sent to the request's reply-to. *)
Reply(r) ==
    /\ resp[r] = "reply"
    /\ Respond(held[r], TRUE)
    /\ held' = [held EXCEPT ![r] = NoRequest]
    /\ ResponderGoto(r, "receive")
    /\ UNCHANGED <<queue, faults>>

(* The Send of the reply fails: it may have reached the broker. *)
ReplyFails(r) ==
    /\ resp[r] = "reply"
    /\ \/ consumerDone /\ UNCHANGED faults
       \/ ~consumerDone /\ Fault
    /\ \/ Respond(held[r], TRUE)
       \/ UNCHANGED <<pending, inbox>>
    /\ held' = [held EXCEPT ![r] = NoRequest]
    /\ ResponderGoto(r, "connect")
    /\ UNCHANGED queue

Responder(r) ==
    \/ ResponderConnect(r) \/ ReceiveRequest(r) \/ ReceiveRequestFails(r)
    \/ Reply(r) \/ ReplyFails(r)

-----------------------------------------------------------------------------
(* The engine's run of this worker. *)

EngineGoto(l) ==
    /\ phase' = l
    /\ UNCHANGED <<pattern, mine, inbox, responderVars, brokerVars, faults>>

AllOff == \A q \in Requesters : req[q] = "off"

(* StopProducers cancels the requesters ... *)
CancelProducers ==
    /\ \/ phase = "warmup" /\ EngineGoto("stopWarmup")
       \/ phase = "measure" /\ EngineGoto("stopProducers")
    /\ producerDone' = TRUE
    /\ UNCHANGED <<round, consumerDone, req, num, counters, trackerVars, cancelled>>

(* ... and waits for them.  After the warmup the counters and the tracker   *)
(* are reset and new requesters are started, unless the run is cancelled.   *)
StartMeasurement ==
    /\ phase = "stopWarmup"
    /\ AllOff
    /\ ~consumerDone
    /\ EngineGoto("measure")
    /\ T!Reset
    /\ sent' = 0 /\ received' = 0 /\ success' = 0 /\ timeout' = 0 /\ error' = 0
    /\ cancelled' = 0
    /\ round' = round + 1 /\ producerDone' = FALSE
    /\ req' = [q \in Requesters |-> "connect"]
    /\ num' = [q \in Requesters |-> 0]
    /\ UNCHANGED consumerDone

(* After the measurement the responders are cancelled; a run cancelled in   *)
(* its warmup returns at once.                                              *)
CancelConsumers ==
    /\ AllOff
    /\ \/ phase = "stopProducers" /\ EngineGoto("stopConsumers")
       \/ phase = "stopWarmup" /\ consumerDone /\ EngineGoto("finished")
    /\ consumerDone' = TRUE
    /\ UNCHANGED <<round, producerDone, req, num, counters, trackerVars, cancelled>>

(* StopConsumers waits for them. *)
ConsumersStopped ==
    /\ phase = "stopConsumers"
    /\ \A r \in Responders : resp[r] = "done"
    /\ EngineGoto("finished")
    /\ UNCHANGED <<round, producerDone, consumerDone, req, num, counters, trackerVars, cancelled>>

Engine == CancelProducers \/ StartMeasurement \/ CancelConsumers \/ ConsumersStopped

(* The run is cancelled, and with it the context of the responders. *)
StopRun ==
    /\ phase # "finished"
    /\ ~consumerDone
    /\ consumerDone' = TRUE
    /\ UNCHANGED <<requesterVars, responderVars, brokerVars, counters, trackerVars, pattern, phase,
                   round, producerDone, faults, cancelled>>

-----------------------------------------------------------------------------

(* The responders are ready and warmup has started the requesters. *)
Init ==
    /\ pattern \in {"commands", "queries"}
    /\ phase = "warmup" /\ round = 1 /\ producerDone = FALSE /\ consumerDone = FALSE
    /\ req = [q \in Requesters |-> "connect"]
    /\ num = [q \in Requesters |-> 0]
    /\ resp = [r \in Responders |-> "receive"]
    /\ held = [r \in Responders |-> NoRequest]
    /\ mine = [q \in Requesters |-> {}]
    /\ inbox = [q \in Requesters |-> {}]
    /\ queue = {} /\ pending = {}
    /\ sent = 0 /\ received = 0 /\ success = 0 /\ timeout = 0 /\ error = 0
    /\ T!Init
    /\ faults = 0 /\ cancelled = 0

Next ==
    \/ BrokerTimeout
    \/ \E q \in Requesters : Requester(q)
    \/ \E r \in Responders : Responder(r)
    \/ Engine \/ StopRun

Spec == Init /\ [][Next]_vars

-----------------------------------------------------------------------------

(* A reply on a requester's node answers the request it is waiting for      *)
(* (doOne): late replies, and replies to requests with the same correlation *)
(* id of another requester or of the warmup, never get there.               *)
ReplyIsToCurrent ==
    \A q \in Requesters : \A reply \in inbox[q] :
        reply.id = Current(q) /\ req[q] \in {"sending", "await"}

(* Every request has exactly one outcome (doOne, accountReply): as many     *)
(* were minted as are accounted for, cancelled or still under way, and no   *)
(* success or timeout is counted of a request that was not sent.            *)
OneOutcomeEach ==
    LET underWay == {q \in Requesters : req[q] \in {"sending", "await"}}
    IN  /\ SumFunction(num) = success + timeout + error + cancelled + Cardinality(underWay)
        /\ success + timeout <= sent
=============================================================================
