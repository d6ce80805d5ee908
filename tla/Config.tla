------------------------------- MODULE Config -------------------------------
(***************************************************************************)
(* The configuration of burnin/config/config.go and its overlay of         *)
(* burnin/api/models.go: the built-in defaults, the file and the           *)
(* environment over them, the blocks of a start request over a copy of     *)
(* that, the durations and the validation.                                 *)
(*                                                                         *)
(* A configuration is a record of blocks, a block a record of fields; the  *)
(* top-level fields form the block "top".  A field no code decides by is   *)
(* left out.  A duration is kept as its text.                              *)
(* Percentages and factors are whole numbers.                              *)
(***************************************************************************)
EXTENDS Integers, Sequences, Functions

AllWorkerNames == {"queues", "events", "events_store", "commands", "queries", "credit_flow"}

IsRPCWorker(name) == name \in {"commands", "queries"}

(* A worker block that leaves every field out. *)
ZeroWorker ==
    [enabled |-> FALSE, channels |-> 0, producers |-> 0, consumers |-> 0, senders |-> 0,
     responders |-> 0, subscribers |-> 0, rate |-> 0, settleMode |-> ""]

DefaultWorker(name, rate) ==
    LET on == [ZeroWorker EXCEPT !.enabled = TRUE, !.channels = 1, !.rate = rate]
    IN  IF IsRPCWorker(name)  THEN [on EXCEPT !.senders = 1, !.responders = 1]
        ELSE IF name = "events" THEN [on EXCEPT !.producers = 1, !.subscribers = 2]
        ELSE [on EXCEPT !.producers = 1, !.consumers = IF name = "queues" THEN 2 ELSE 1]

DefaultTop ==
    [version |-> "2", address |-> "localhost:5672", duration |-> "1h", warmup |-> "",
     drain |-> 10, port |-> 8896, multiplier |-> 2, reportInterval |-> "30s",
     reconnect |-> "1s", reconnectMax |-> "30s"]

DefaultAmqp10 ==
    [settleMode |-> "unsettled", credit |-> 100, getBatchSize |-> 32, rpcTimeout |-> 5000,
     startPosition |-> "new-only", auth |-> FALSE, username |-> ""]

DefaultWorkers ==
    [name \in AllWorkerNames |->
        DefaultWorker(name, IF name = "queues" THEN 100 ELSE IF IsRPCWorker(name) THEN 30 ELSE 50)]

DefaultMessage ==
    [sizeMode |-> "fixed", sizeBytes |-> 1024, reorderWindow |-> 10000,
     sizes |-> <<<<256, 80>>, <<4096, 15>>, <<65536, 5>>>>]

DefaultThresholds ==
    [loss |-> 0, eventsLoss |-> 5, duplication |-> 0, throughput |-> 80, errorRate |-> 1,
     memory |-> 2, downtime |-> 10, fidelity |-> 0, p50 |-> 500, p95 |-> 1500, p99 |-> 2000,
     p999 |-> 10000, maxDuration |-> "168h"]

DefaultConfig ==
    [top |-> DefaultTop, amqp10 |-> DefaultAmqp10, workers |-> DefaultWorkers,
     rpc |-> [timeout |-> 5000], message |-> DefaultMessage, thresholds |-> DefaultThresholds,
     forced |-> [interval |-> "0", duration |-> "5s"]]

(* The blocks of a start request that leave every field out. *)
ZeroAmqp10 ==
    [settleMode |-> "", credit |-> 0, getBatchSize |-> 0, rpcTimeout |-> 0,
     startPosition |-> "", auth |-> FALSE, username |-> ""]

ZeroWorkers == [name \in AllWorkerNames |-> ZeroWorker]

ZeroMessage == [sizeMode |-> "", sizeBytes |-> 0, reorderWindow |-> 0, sizes |-> <<>>]

ZeroThresholds ==
    [loss |-> 0, eventsLoss |-> 0, duplication |-> 0, throughput |-> 0, errorRate |-> 0,
     memory |-> 0, downtime |-> 0, fidelity |-> 0, p50 |-> 0, p95 |-> 0, p99 |-> 0,
     p999 |-> 0, maxDuration |-> ""]

ZeroConfig ==
    [amqp10 |-> ZeroAmqp10, workers |-> ZeroWorkers, rpc |-> [timeout |-> 0],
     message |-> ZeroMessage, thresholds |-> ZeroThresholds,
     forced |-> [interval |-> "", duration |-> ""]]

-----------------------------------------------------------------------------
(* Where the values come from. *)

(* The fields that a block gives over those there; the block of the workers *)
(* is a block of blocks.                                                    *)
Over(given, under) ==
    [f \in DOMAIN given \cup DOMAIN under |-> IF f \in DOMAIN given THEN given[f] ELSE under[f]]

Onto(b, given, under) ==
    IF b # "workers" THEN Over(given, under)
    ELSE [name \in AllWorkerNames |->
             IF name \in DOMAIN given THEN Over(given[name], under[name]) ELSE under[name]]

(* Decoding a file over the defaults. *)
Decode(file, c) ==
    [b \in DOMAIN c |-> IF b \in DOMAIN file THEN Onto(b, file[b], c[b]) ELSE c[b]]

(* env: by worker name, the values of its variables that are set and parse. *)
applyEnvOverrides(env, c) == [c EXCEPT !.workers = Onto("workers", env, @)]

(* The blocks that body gives replace those of base, which is copied; what  *)
(* such a block leaves out becomes zero.  The duration is no block: an      *)
(* empty one falls through.                                                 *)
ToInternalConfig(body, base) ==
    [b \in DOMAIN base |->
        IF b = "top" THEN [base.top EXCEPT !.duration =
                              IF "duration" \in DOMAIN body THEN body.duration ELSE @]
        ELSE IF b \in DOMAIN body THEN Onto(b, body[b], ZeroConfig[b])
        ELSE base[b]]

-----------------------------------------------------------------------------
(* Durations. *)

DurationTexts == {"", "0", "0s", "1s", "5s", "30s", "1h", "168h", "7d", "-5s"}

Parses(text) == text \in DurationTexts

parseDurations(c) ==
    /\ Parses(c.top.duration) /\ Parses(c.top.warmup) /\ Parses(c.top.reportInterval)
    /\ Parses(c.forced.interval) /\ Parses(c.forced.duration)
    /\ Parses(c.top.reconnect) /\ Parses(c.top.reconnectMax)
    /\ Parses(c.thresholds.maxDuration)

-----------------------------------------------------------------------------
(* Validation: Valid(c) when Validate returns nothing but warnings. *)

validStartPosition(s) == s \in {"", "new-only", "first", "last", "sequence:1", "time:0", "time-delta:60"}

SettleModes == {"", "unsettled", "settled"}

ValidAmqp10(a) ==
    /\ a.settleMode \in SettleModes
    /\ a.credit \in 1 .. 1024
    /\ a.getBatchSize >= 1
    /\ a.rpcTimeout > 0
    /\ validStartPosition(a.startPosition)
    /\ a.auth => a.username # ""

ValidWorker(name, w) ==
    /\ w.channels \in 1 .. 1000
    /\ w.rate > 0
    /\ w.settleMode \in SettleModes
    /\ IF IsRPCWorker(name) THEN w.senders >= 1 /\ w.responders >= 1
       ELSE /\ w.producers >= 1
            /\ IF name = "events" THEN w.subscribers >= 1 ELSE w.consumers >= 1

Enabled(c) == {name \in AllWorkerNames : c.workers[name].enabled}

ValidMessage(m) ==
    /\ m.sizeMode \in {"fixed", "distribution"}
    /\ m.sizeMode = "fixed" => m.sizeBytes >= 64
    /\ m.reorderWindow >= 100

ValidThresholds(t) ==
    /\ \A f \in {t.loss, t.eventsLoss, t.duplication, t.errorRate, t.downtime} : f \in 0 .. 100
    /\ t.throughput \in 1 .. 100
    /\ t.p50 > 0 /\ t.p95 > 0 /\ t.p99 > 0 /\ t.p999 > 0
    /\ t.memory >= 1
    /\ t.fidelity >= 0

ValidTop(t) ==
    /\ t.version = "2" /\ t.address # ""
    /\ t.drain > 0 /\ t.port \in 1 .. 65535 /\ t.multiplier >= 1

Validate(c) ==
    /\ ValidTop(c.top) /\ ValidAmqp10(c.amqp10) /\ c.rpc.timeout > 0
    /\ \A name \in Enabled(c) : ValidWorker(name, c.workers[name])
    /\ Enabled(c) # {}
    /\ ValidMessage(c.message) /\ ValidThresholds(c.thresholds)

(* The advice that is logged. *)
Goroutines(name, w) ==
    w.channels * (IF IsRPCWorker(name) THEN w.senders + w.responders
                  ELSE w.producers + (IF name = "events" THEN w.subscribers ELSE w.consumers))

TotalWorkers(c) == SumFunction([name \in Enabled(c) |-> Goroutines(name, c.workers[name])])

-----------------------------------------------------------------------------

WorkerSettleMode(name, c) ==
    IF c.workers[name].settleMode # "" THEN c.workers[name].settleMode
    ELSE IF c.amqp10.settleMode # "" THEN c.amqp10.settleMode
    ELSE "unsettled"

GetWorkerChannels(name, c) ==
    IF c.workers[name].channels > 0 THEN c.workers[name].channels ELSE 1

(* How long a requester waits, in milliseconds (worker/rpc.go). *)
rpcTimeoutFor(c) ==
    IF c.amqp10.rpcTimeout > 0 THEN c.amqp10.rpcTimeout
    ELSE IF c.rpc.timeout > 0 THEN c.rpc.timeout
    ELSE 5000
=============================================================================
