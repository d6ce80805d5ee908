----------------------------- MODULE BaseWorker -----------------------------
(***************************************************************************)
(* From a configuration to a worker that counts: main loads and validates, *)
(* POST /run/start overlays, burnin/worker/worker.go builds the worker of  *)
(* a channel, and its producer and the engine's rateAdvancer share the     *)
(* rate windows.  burnin/payload/payload.go chooses the size of a message. *)
(*                                                                         *)
(* One worker, of the queues, with one producer.                           *)
(***************************************************************************)
EXTENDS Config, RateWindows, FiniteSets

CONSTANTS
    Files,        \* configuration files: by block, the fields given
    Envs,         \* environments: by worker name, the variables given
    Bodies,       \* bodies of POST /run/start
    MaxStarts,    \* bound: runs accepted
    MaxTicks,     \* bound: seconds of a run
    MaxPerTick    \* bound: messages sent in a second
ASSUME WorkerBounds == MaxStarts \in Nat /\ MaxTicks \in Nat /\ MaxPerTick \in Nat

(* What the decoders see to, whatever the text: the counts of a worker are  *)
(* integers, and a distribution is a list of pairs of them.                 *)
Counts == {"channels", "producers", "consumers", "senders", "responders", "subscribers"}

Decoded(w) == \A f \in Counts \cap DOMAIN w : w[f] \in Int

ASSUME InputTypes ==
    /\ \A given \in Files \cup Bodies :
           /\ "workers" \in DOMAIN given =>
                  \A name \in DOMAIN given.workers : Decoded(given.workers[name])
           /\ "message" \in DOMAIN given /\ "sizes" \in DOMAIN given.message =>
                  given.message.sizes \in Seq(Int \X Int)
    /\ \A env \in Envs : \A name \in DOMAIN env : Decoded(env[name])

Name == "queues"
Nil == "nil"

VARIABLES
    phase,       \* of the process
    startup,     \* startupCfg
    loaded,      \* history: startupCfg as it was loaded
    runs,        \* runs accepted
    runCfg,      \* the configuration of the run
    body,        \* history: the body that it came with
    stage,       \* of the run
    worker,      \* what NewBaseWorker derives from runCfg
    sent,        \* the counter
    size,        \* of the message the producer sends
    window,      \* rateWindow
    peak,        \* peakRate
    producer,    \* where the producer stands in recordSent
    advancer,    \* where rateAdvancer stands in AdvanceRateWindows
    logs         \* history: messages by second, as each window was told of them

configVars == <<phase, startup, loaded, runs, runCfg, body>>
workerVars == <<configVars, stage, worker, sent, size, window, peak, producer, advancer, logs>>

-----------------------------------------------------------------------------
(* Sizes: a distribution is a sequence of <<size, weight>> pairs, empty if  *)
(* its text does not parse.                                                 *)

Weights(d) == [i \in DOMAIN d |-> d[i][2]]

TotalWeight(d) == SumFunction(Weights(d))

Cumulative(d, i) == SumFunctionOnSet(Weights(d), 1 .. i)

(* nil for a distribution without weight. *)
ParseDistribution(d) == IF TotalWeight(d) = 0 THEN <<>> ELSE d

(* Fault: a draw equal to the cumulative weight takes the entry. *)
SelectInclusive(d, r) ==
    LET hits == {i \in DOMAIN d : r <= Cumulative(d, i)}
    IN  IF hits = {} THEN Len(d) ELSE CHOOSE i \in hits : \A j \in hits : i <= j

(* The entry that the draw r selects. *)
SelectEntry(d, r) ==
    LET hits == {i \in DOMAIN d : r < Cumulative(d, i)}
    IN  IF hits = {} THEN Len(d) ELSE CHOOSE i \in hits : \A j \in hits : i <= j

(* A draw from an empty range panics. *)
Panics(w) == w.sizes # <<>> /\ TotalWeight(w.sizes) < 0

(* selectMessageSize and Build: a body has one byte at least. *)
MessageSizes(w) ==
    LET sizes == IF w.sizes # <<>>
                 THEN {w.sizes[SelectEntry(w.sizes, r)][1] : r \in 0 .. TotalWeight(w.sizes) - 1}
                 ELSE {w.sizeBytes}
    IN  {IF s < 1 THEN 1 ELSE s : s \in sizes}

(* The history of windows that have been told of nothing, in their first    *)
(* second.                                                                  *)
NewLogs == [w \in {"window", "peak"} |-> <<0>>]

-----------------------------------------------------------------------------
(* The configuration. *)

(* main: Load, and fail fast on an error. *)
Load ==
    /\ phase = "boot"
    /\ \E file \in Files, env \in Envs :
           LET c == applyEnvOverrides(env, Decode(file, DefaultConfig))
           IN  IF parseDurations(c) /\ Validate(c)
               THEN phase' = "serving" /\ startup' = c /\ loaded' = c
               ELSE phase' = "exited" /\ UNCHANGED <<startup, loaded>>
    /\ UNCHANGED <<runs, runCfg, body, stage, worker, sent, size, window, peak, producer,
                   advancer, logs>>

NewBaseWorker(c) ==
    [rate       |-> c.workers[Name].rate,
     settleMode |-> WorkerSettleMode(Name, c),
     credit     |-> c.amqp10.credit,
     window     |-> c.message.reorderWindow,
     sizeBytes  |-> c.message.sizeBytes,
     sizes      |-> IF c.message.sizeMode = "distribution"
                    THEN ParseDistribution(c.message.sizes) ELSE <<>>]

(* StartRunFromConfig, and the worker group when the worker is enabled. *)
Accept(b, c) ==
    /\ runs' = runs + 1 /\ runCfg' = c /\ body' = b
    /\ IF c.workers[Name].enabled
       THEN stage' = "warmup" /\ worker' = NewBaseWorker(c)
       ELSE stage' = "elsewhere" /\ worker' = Nil
    /\ sent' = 0 /\ window' = NewSlidingRateWindow /\ peak' = NewPeakRateTracker
    /\ logs' = NewLogs
    /\ UNCHANGED <<phase, loaded, size, producer, advancer>>

MayStart == phase = "serving" /\ stage \in {"none", "over"} /\ runs < MaxStarts

(* Fault: the overlay is not validated. *)
StartUnvalidated ==
    /\ MayStart
    /\ \E b \in Bodies : Accept(b, ToInternalConfig(b, startup)) /\ UNCHANGED startup

(* Fault: the overlay is made in the startup configuration itself. *)
StartInPlace ==
    /\ MayStart
    /\ \E b \in Bodies :
           LET c == ToInternalConfig(b, startup)
           IN  parseDurations(c) /\ Validate(c) /\ Accept(b, c) /\ startup' = c

(* POST /run/start; a body that is no JSON counts as an empty one. *)
StartRun ==
    /\ MayStart
    /\ \E b \in Bodies :
           LET c == ToInternalConfig(b, startup)
           IN  parseDurations(c) /\ Validate(c) /\ Accept(b, c) /\ UNCHANGED startup

-----------------------------------------------------------------------------
(* The producer: recordSent, one lock at a time. *)

Sending == phase = "serving" /\ stage \in {"warmup", "measuring"}

Told(w) == [logs EXCEPT ![w][Len(logs[w])] = @ + 1]

Send ==
    /\ Sending /\ producer = "idle"
    /\ ~Panics(worker)
    /\ logs["window"][Len(logs["window"])] < MaxPerTick
    /\ size' \in MessageSizes(worker)
    /\ sent' = sent + 1
    /\ producer' = "rateWindow"
    /\ UNCHANGED <<configVars, stage, worker, window, peak, advancer, logs>>

(* rand.IntN is asked for a number below a negative one. *)
Panic ==
    /\ Sending /\ producer = "idle" /\ Panics(worker)
    /\ phase' = "panicked"
    /\ UNCHANGED <<startup, loaded, runs, runCfg, body, stage, worker, sent, size, window, peak,
                   producer, advancer, logs>>

RecordWindow ==
    /\ Sending /\ producer = "rateWindow"
    /\ window' = Record(window) /\ logs' = Told("window")
    /\ producer' = "peakRate"
    /\ UNCHANGED <<configVars, stage, worker, sent, size, peak, advancer>>

RecordPeak ==
    /\ Sending /\ producer = "peakRate"
    /\ peak' = PeakRecord(peak) /\ logs' = Told("peak")
    /\ producer' = "idle"
    /\ UNCHANGED <<configVars, stage, worker, sent, size, window, advancer>>

-----------------------------------------------------------------------------
(* The engine: rateAdvancer runs while the run is measured, and the warmup  *)
(* ends with the producers stopped.                                         *)

NextSecond(w) == [logs EXCEPT ![w] = Append(@, 0)]

AdvanceWindow ==
    /\ phase = "serving" /\ stage = "measuring" /\ advancer = "idle"
    /\ Len(logs["window"]) <= MaxTicks
    /\ window' = Advance(window) /\ logs' = NextSecond("window")
    /\ advancer' = "peakRate"
    /\ UNCHANGED <<configVars, stage, worker, sent, size, peak, producer>>

AdvancePeak ==
    /\ phase = "serving" /\ stage = "measuring" /\ advancer = "peakRate"
    /\ peak' = PeakAdvance(peak) /\ logs' = NextSecond("peak")
    /\ advancer' = "idle"
    /\ UNCHANGED <<configVars, stage, worker, sent, size, window, producer>>

ResetAfterWarmup ==
    /\ phase = "serving" /\ stage = "warmup" /\ producer = "idle"
    /\ window' = NewSlidingRateWindow /\ peak' = NewPeakRateTracker /\ sent' = 0
    /\ logs' = NewLogs
    /\ stage' = "measuring"
    /\ UNCHANGED <<configVars, worker, size, producer, advancer>>

(* The periodic tasks end first, then the producers. *)
RunEnds ==
    /\ phase = "serving"
    /\ stage \in {"measuring", "elsewhere"} /\ producer = "idle" /\ advancer = "idle"
    /\ stage' = "over"
    /\ UNCHANGED <<configVars, worker, sent, size, window, peak, producer, advancer, logs>>

-----------------------------------------------------------------------------

WorkerInit ==
    /\ phase = "boot" /\ startup = DefaultConfig /\ loaded = DefaultConfig
    /\ runs = 0 /\ runCfg = DefaultConfig /\ body = <<>>
    /\ stage = "none" /\ worker = Nil /\ sent = 0 /\ size = 0
    /\ window = NewSlidingRateWindow /\ peak = NewPeakRateTracker
    /\ producer = "idle" /\ advancer = "idle"
    /\ logs = NewLogs

WorkerNext ==
    \/ Load \/ StartRun
    \/ Send \/ Panic \/ RecordWindow \/ RecordPeak
    \/ AdvanceWindow \/ AdvancePeak \/ ResetAfterWarmup \/ RunEnds

WorkerSpec == WorkerInit /\ [][WorkerNext]_workerVars

-----------------------------------------------------------------------------

Lesser(a, b) == IF a < b THEN a ELSE b

(* What was told of the n seconds that end with second t. *)
LastSeconds(log, t, n) == SumFunctionOnSet(log, {j \in 1 .. t : j > t - n})

(* Whatever the file, the environment and the start request have made of    *)
(* the configuration, the one a run uses is what the workers, the tracker,  *)
(* the credit loops and the gates take for granted (Load, ToInternalConfig, *)
(* Validate, WorkerSettleMode, rpcTimeoutFor).                              *)
RunsOnSoundConfig ==
    runs > 0 =>
        /\ Enabled(runCfg) # {}
        /\ \A name \in Enabled(runCfg) :
               /\ runCfg.workers[name].rate > 0
               /\ WorkerSettleMode(name, runCfg) \in {"settled", "unsettled"}
               /\ GetWorkerChannels(name, runCfg) = runCfg.workers[name].channels
        /\ TotalWorkers(runCfg) >= 2
        /\ runCfg.amqp10.credit \in 1 .. 1024
        /\ rpcTimeoutFor(runCfg) = runCfg.amqp10.rpcTimeout
        /\ runCfg.message.reorderWindow >= 100
        /\ runCfg.thresholds.p99 > 0 /\ runCfg.thresholds.memory >= 1
        /\ Parses(runCfg.top.duration)

(* A block that the request omits falls through to the configuration the    *)
(* process was started with, however many runs came before (models.go:14,   *)
(* ToInternalConfig on a copy).                                             *)
OmittedFallsThrough ==
    runs > 0 => \A b \in DOMAIN loaded \ (DOMAIN body \cup {"top"}) : runCfg[b] = loaded[b]

(* The sliding window holds the messages of the last slidingWindowSize      *)
(* seconds of the measurement, none of the warmup (SlidingRateWindow,       *)
(* ResetAfterWarmup), and the rate divides them by the seconds that have    *)
(* passed.                                                                  *)
WindowIsExact ==
    LET log == logs["window"] IN
    Rate(window) = IF Len(log) = 1 THEN <<0, 1>>
                   ELSE <<LastSeconds(log, Len(log), slidingWindowSize),
                          Lesser(Len(log) - 1, slidingWindowSize)>>

(* The peak is the greatest number of messages in peakWindowSize            *)
(* successive full seconds (PeakRateTracker).                               *)
PeakIsTrue ==
    LET log == logs["peak"]
        sums == {LastSeconds(log, t, peakWindowSize) : t \in 1 .. Len(log) - 1}
    IN  peak.peak \in sums \cup {0} /\ \A s \in sums : peak.peak >= s

(* Of the draws, as many select an entry of the distribution as it has      *)
(* weight (SelectSize), unless a weight is negative.                        *)
SizesAreFair ==
    stage = "warmup" /\ sent = 0 =>
        LET d == runCfg.message.sizes
            draws(i) == {r \in 0 .. TotalWeight(d) - 1 : SelectEntry(d, r) = i}
        IN  (\A i \in DOMAIN d : d[i][2] >= 0) =>
                \A i \in DOMAIN d : Cardinality(draws(i)) = d[i][2]
=============================================================================
