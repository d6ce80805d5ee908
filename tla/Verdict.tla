------------------------------ MODULE Verdict ------------------------------
(***************************************************************************)
(* How a run is judged, as functions of what was counted: the snapshot of  *)
(* burnin/engine/engine.go, the gates of burnin/engine/verdict.go and the  *)
(* gates of burnin/report/report.go.                                       *)
(*                                                                         *)
(* The counters of a worker are a record, those of a group (the workers of *)
(* one pattern, one per channel) a sequence of such records.  Percentages  *)
(* are compared by multiplying out.                                        *)
(***************************************************************************)
EXTENDS Integers, Sequences
LOCAL INSTANCE FiniteSetsExt

Percentiles == {"p50", "p95", "p99", "p999"}

IsRPCWorker(name) == name \in {"commands", "queries"}

SumOver(ws, f(_)) == MapThenSumSet(LAMBDA i : f(ws[i]), DOMAIN ws)

(* The latencies of the first of the workers that have the most samples. *)
BestLatency(ws) ==
    LET most == Max({ws[i].samples : i \in DOMAIN ws})
        best == Min({i \in DOMAIN ws : ws[i].samples = most})
    IN  IF most = 0 THEN [p \in Percentiles |-> 0] ELSE ws[best].latency

(* What one group contributes to the snapshot; the tracker's losses of RPC  *)
(* workers are left out, the missing fan-out deliveries put in.             *)
GroupSnapshot(name, ws) ==
    [sent       |-> SumOver(ws, LAMBDA w : w.sent),
     received   |-> SumOver(ws, LAMBDA w : w.received),
     errors     |-> SumOver(ws, LAMBDA w : w.errors),
     corrupted  |-> SumOver(ws, LAMBDA w : w.corrupted),
     duplicated |-> SumOver(ws, LAMBDA w : w.duplicated),
     fidelity   |-> SumOver(ws, LAMBDA w : w.fidelity),
     dropped    |-> SumOver(ws, LAMBDA w : w.dropped),
     downtime   |-> SumOver(ws, LAMBDA w : w.downtime),
     success    |-> SumOver(ws, LAMBDA w : w.success),
     timeout    |-> SumOver(ws, LAMBDA w : w.timeout),
     error      |-> SumOver(ws, LAMBDA w : w.error),
     lost       |-> SumOver(ws, LAMBDA w : w.extraLost)
                    + IF IsRPCWorker(name) THEN 0 ELSE SumOver(ws, LAMBDA w : w.lost),
     latency    |-> BestLatency(ws)]

captureWorkerSnapshots(groups) ==
    [name \in DOMAIN groups |-> GroupSnapshot(name, groups[name])]

-----------------------------------------------------------------------------
(* The engine's gates.  th is Config.Thresholds. *)

(* part / whole * 100 > pct, for whole > 0. *)
Exceeds(part, whole, pct) == 100 * part > pct * whole

(* lossPct > boundaryLossPct, which is one half. *)
AboveBoundary(lost, sent) == 200 * lost > sent

MaxLoss(name, th) == IF name = "events" THEN th.eventsLoss ELSE th.loss

LossGate(name, s, th) ==
    /\ s.sent > 0
    /\ Exceeds(s.lost, s.sent, MaxLoss(name, th))
    /\ AboveBoundary(s.lost, s.sent)

DuplicationGate(s, th) == s.received > 0 /\ Exceeds(s.duplicated, s.received, th.duplication)

checkLatency(value, threshold) == value > 0 /\ threshold > 0 /\ value > threshold

ErrorGate(s, th) ==
    LET total == s.sent + s.received IN total > 0 /\ Exceeds(s.errors, total, th.errorRate)

(* No RPC worker: its rate is bounded by the round trip. *)
ThroughputGate(name, s, th, rate, duration) ==
    /\ ~IsRPCWorker(name)
    /\ duration > 0 /\ s.sent > 0 /\ rate > 0
    /\ 100 * s.sent < th.throughput * rate * duration

DowntimeGate(s, th, duration) ==
    duration > 0 /\ s.downtime > 0 /\ Exceeds(s.downtime, duration, th.downtime)

RpcGate(name, s, th) ==
    LET total == s.success + s.timeout + s.error
    IN  IsRPCWorker(name) /\ total > 0 /\ Exceeds(s.timeout + s.error, total, th.errorRate)

WorkerFails(name, s, cfg, duration) ==
    LET th == cfg.thresholds IN
    \/ s.corrupted > 0
    \/ s.fidelity > th.fidelity
    \/ name = "events" /\ s.dropped > 0
    \/ LossGate(name, s, th)
    \/ DuplicationGate(s, th)
    \/ \E p \in Percentiles : checkLatency(s.latency[p], th.latency[p])
    \/ ErrorGate(s, th)
    \/ ThroughputGate(name, s, th, cfg.rate[name], duration)
    \/ DowntimeGate(s, th, duration)
    \/ RpcGate(name, s, th)

(* peak / baseline > threshold; without a baseline there is no gate. *)
MemoryGrew(mem, th) ==
    mem.baseline > 0 /\ mem.peak > mem.baseline /\ mem.peak > th.memory * mem.baseline

Result(failed, warned) ==
    IF failed THEN "FAILED" ELSE IF warned THEN "PASSED_WITH_WARNINGS" ELSE "PASSED"

computeVerdict(snaps, cfg, duration, mem) ==
    Result(\E name \in DOMAIN snaps : WorkerFails(name, snaps[name], cfg, duration),
           MemoryGrew(mem, cfg.thresholds))

-----------------------------------------------------------------------------
(* The report's gates, on the workers that its configuration enables. *)

(* Fault: the report's loss gate has no boundary. *)
StrictLossGate(name, s, th) == Exceeds(s.lost, s.sent, MaxLoss(name, th))

(* addHard with lossGateThreshold: the greater of threshold and boundary. *)
ReportLossGate(name, s, th) ==
    Exceeds(s.lost, s.sent, MaxLoss(name, th)) /\ AboveBoundary(s.lost, s.sent)

ReportWorkerFails(name, s, th) ==
    /\ s.sent > 0
    /\ \/ ReportLossGate(name, s, th)
       \/ DuplicationGate(s, th)
       \/ s.latency["p99"] > 0 /\ s.latency["p99"] > th.latency["p99"]
       \/ ErrorGate(s, th)

TotalFidelity(snaps) == MapThenSumSet(LAMBDA name : snaps[name].fidelity, DOMAIN snaps)

(* The total of corrupted messages is positive when one worker's is. *)
GenerateVerdict(snaps, th, mem) ==
    Result(\/ \E name \in DOMAIN snaps : ReportWorkerFails(name, snaps[name], th)
           \/ \E name \in DOMAIN snaps : snaps[name].corrupted > 0
           \/ TotalFidelity(snaps) > th.fidelity
           \/ "events" \in DOMAIN snaps /\ snaps["events"].dropped > 0,
           mem.baseline > 0 /\ mem.peak > th.memory * mem.baseline)

(* The worker statistics of RunReport: snapshots of enabled workers. *)
EnabledOnly(snaps, cfg) == [name \in DOMAIN snaps \cap cfg.enabled |-> snaps[name]]

(* Fault: the engine's verdict is not consulted. *)
Unreconciled(result, engine) == result

(* The end of RunReport: an engine that failed the run fails the report,    *)
(* and its warnings show in a report without any.                           *)
Reconcile(result, engine) ==
    IF engine = "FAILED" THEN "FAILED"
    ELSE IF engine = "PASSED_WITH_WARNINGS" /\ result = "PASSED" THEN engine
    ELSE result
=============================================================================
