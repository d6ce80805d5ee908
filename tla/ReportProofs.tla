---------------------------- MODULE ReportProofs ----------------------------
(***************************************************************************)
(* The report of a run against the engine's verdict of it, for any         *)
(* configurations, counters and number of runs.                            *)
(***************************************************************************)
EXTENDS Report, TLAPS

Results == {"PASSED", "PASSED_WITH_WARNINGS", "FAILED"}

(* What both properties say of one report. *)
Agrees(engine, result, snaps, max) ==
    /\ Severity(result) >= Severity(engine)
    /\ \/ result = engine
       \/ /\ \A name \in DOMAIN snaps : ~(snaps[name].fidelity > max)
          /\ TotalFidelity(snaps) > max

-----------------------------------------------------------------------------
(* The two judgements, as functions.                                       *)

LEMMA ResultType ==
    /\ \A f, w \in BOOLEAN : Result(f, w) \in Results
    /\ \A s, t, m : GenerateVerdict(s, t, m) \in Results
    /\ \A s, c, d, m : computeVerdict(s, c, d, m) \in Results
BY DEF Result, Results, GenerateVerdict, computeVerdict

(* A worker that fails in the report fails in the engine. *)
LEMMA WorkerGates ==
    ASSUME NEW c \in Configs, NEW s, NEW name, NEW d,
           ReportWorkerFails(name, s, c.thresholds)
    PROVE  WorkerFails(name, s, c, d)
<1> DEFINE th == c.thresholds
<1>1. th.latency["p99"] > 0 /\ "p99" \in Percentiles
  BY ValidatedThresholds DEF Percentiles
<1>2. \/ LossGate(name, s, th) \/ DuplicationGate(s, th) \/ ErrorGate(s, th)
      \/ checkLatency(s.latency["p99"], th.latency["p99"])
  BY <1>1 DEF ReportWorkerFails, ReportLossGate, LossGate, checkLatency
<1> QED BY <1>1, <1>2 DEF WorkerFails

(* The snapshots of a run, a memory read no later than the engine's last     *)
(* look, and the engine's verdict: the reconciled report agrees with it.     *)
LEMMA Judgements ==
    ASSUME NEW c \in Configs, NEW s, NEW d,
           NEW early \in [baseline : Nat, peak : Nat],
           NEW late \in [baseline : Nat, peak : Nat],
           early.baseline = late.baseline, early.peak <= late.peak,
           EnabledOnly(s, c) = s
    PROVE  LET engine == computeVerdict(s, c, d, late)
               own == GenerateVerdict(EnabledOnly(s, c), c.thresholds, early)
           IN  Agrees(engine, Reconcile(own, engine), s, c.thresholds.fidelity)
<1> DEFINE th == c.thresholds
           engine == computeVerdict(s, c, d, late)
           own == GenerateVerdict(s, th, early)
           bad == \E name \in DOMAIN s : WorkerFails(name, s[name], c, d)
           addsUp == /\ \A name \in DOMAIN s : ~(s[name].fidelity > th.fidelity)
                     /\ TotalFidelity(s) > th.fidelity
<1>1. engine \in Results /\ own \in Results
  BY ResultType
<1>2. Severity(Reconcile(own, engine)) >= Severity(engine)
  BY <1>1 DEF Results, Reconcile, Severity
<1>3. bad => engine = "FAILED"
  BY DEF computeVerdict, Result
<1>4. own = "FAILED" => bad \/ addsUp
  <2>1. own = "FAILED" =>
            \/ \E name \in DOMAIN s : ReportWorkerFails(name, s[name], th)
            \/ \E name \in DOMAIN s : s[name].corrupted > 0
            \/ TotalFidelity(s) > th.fidelity
            \/ "events" \in DOMAIN s /\ s["events"].dropped > 0
    BY DEF GenerateVerdict, Result
  <2>2. ASSUME NEW name \in DOMAIN s, ReportWorkerFails(name, s[name], th) PROVE bad
    BY <2>2, WorkerGates
  <2>3. ASSUME NEW name \in DOMAIN s, s[name].corrupted > 0 PROVE bad
    BY <2>3 DEF WorkerFails
  <2>4. ASSUME "events" \in DOMAIN s, s["events"].dropped > 0 PROVE bad
    BY <2>4 DEF WorkerFails
  <2>5. ASSUME NEW name \in DOMAIN s, s[name].fidelity > th.fidelity PROVE bad
    BY <2>5 DEF WorkerFails
  <2> QED BY <2>1, <2>2, <2>3, <2>4, <2>5
<1>5. own = "PASSED_WITH_WARNINGS" => MemoryGrew(late, th)
  <2>1. th.memory \in Nat \ {0}
    BY ValidatedThresholds
  <2>2. own = "PASSED_WITH_WARNINGS" =>
            early.baseline > 0 /\ early.peak > th.memory * early.baseline
    BY DEF GenerateVerdict, Result
  <2>3. \A b, k \in Nat \ {0} : k * b >= b /\ k * b \in Nat
    OBVIOUS
  <2>4. SUFFICES ASSUME own = "PASSED_WITH_WARNINGS" PROVE MemoryGrew(late, th)
    OBVIOUS
  <2>5. early.baseline \in Nat \ {0} /\ late.peak \in Nat /\ early.peak \in Nat
    BY <2>2, <2>4
  <2>6. th.memory * early.baseline >= early.baseline /\ th.memory * early.baseline \in Nat
    BY <2>1, <2>3, <2>5
  <2>7. late.peak > th.memory * early.baseline /\ late.peak > early.baseline
    BY <2>2, <2>4, <2>5, <2>6
  <2> QED BY <2>5, <2>7 DEF MemoryGrew
<1>6. MemoryGrew(late, th) => engine # "PASSED"
  BY DEF computeVerdict, Result
<1>7. Reconcile(own, engine) = engine \/ addsUp
  BY <1>1, <1>3, <1>4, <1>5, <1>6 DEF Results, Reconcile
<1> QED BY <1>2, <1>7 DEF Agrees

-----------------------------------------------------------------------------
(* The engine's results.  One run's are not there before they are frozen,  *)
(* and its memory and verdict are settled with its judgement.              *)

Counts == [baseline : Nat, peak : Nat]

EngineInv ==
    /\ loop \in {"idle", "running", "stopping", "frozen", "stopped consumers", "judged"}
    /\ cur \in 0 .. MaxRuns
    /\ memory \in Counts
    /\ loop # "idle" \/ snapshot # {} => cur >= 1 /\ cfg \in Configs
    /\ loop \in {"running", "stopping"} => snapshot = {} /\ verdict = Nil
    /\ loop \in {"frozen", "stopped consumers"} => verdict = Nil
    /\ snapshot # {} => \E s : snapshot = {s} /\ EnabledOnly(s, cfg) = s
    /\ verdict # Nil =>
          \E s \in snapshot : verdict = computeVerdict(s, cfg, Duration, memory)

(* What a caller has read of the run that is current still holds. *)
Reads(c) ==
    /\ told[c] = [runs |-> told[c].runs, snaps |-> told[c].snaps, cfg |-> told[c].cfg,
                  memory |-> told[c].memory, engine |-> told[c].engine,
                  result |-> told[c].result]
    /\ \A r \in told[c].runs : r \in Nat /\ r <= cur
    /\ at[c] \in {"config", "memory", "verdict"} => told[c].runs # {}
    /\ at[c] \in {"config", "memory", "verdict"} /\ told[c].runs = {cur} =>
          /\ snapshot = {told[c].snaps}
          /\ at[c] # "config" => told[c].cfg = cfg
          /\ at[c] = "verdict" => /\ told[c].memory \in Counts
                                 /\ told[c].memory.baseline = memory.baseline
                                 /\ told[c].memory.peak <= memory.peak
    /\ at[c] # "done" => told[c].result = Nil
    /\ Coherent(c) => Agrees(told[c].engine, told[c].result, told[c].snaps,
                             told[c].cfg.thresholds.fidelity)

ReportInv ==
    /\ EngineInv
    /\ at \in [Callers -> {"idle", "snapshots", "config", "memory", "verdict", "done"}]
    /\ main \in {"serving", "shutdown"} => at["main"] = "idle"
    /\ DOMAIN told = Callers /\ told = [c \in Callers |-> told[c]]
    /\ \A c \in Callers : Reads(c)

(* The snapshot of the enabled workers is all of it. *)
LEMMA FrozenIsEnabled ==
    ASSUME NEW g
    PROVE  LET s == captureWorkerSnapshots([name \in DOMAIN g \cap cfg.enabled |-> g[name]])
           IN  EnabledOnly(s, cfg) = s
BY DEF captureWorkerSnapshots, EnabledOnly

LEMMA InitInv == Init => ReportInv
<1> SUFFICES ASSUME Init PROVE ReportInv
  OBVIOUS
<1>1. EngineInv
  BY ReportBounds DEF Init, EngineInv, Counts, NoMemory
<1>2. ASSUME NEW c \in Callers PROVE Reads(c)
  <2>1. told[c] = NoReport /\ at[c] = "idle"
    BY DEF Init
  <2> QED BY <2>1 DEF Reads, NoReport, Coherent
<1> QED BY <1>1, <1>2 DEF Init, ReportInv, Callers

(* The engine's steps. *)
LEMMA EngineStep ==
    ASSUME ReportInv,
           \/ StartRunFromConfig \/ EndWithoutResults \/ StopProducers \/ Freeze
           \/ StopConsumers \/ Judge \/ RunReturns
    PROVE  ReportInv'
<1>0. at' = at /\ told' = told /\ main' = main
  BY DEF StartRunFromConfig, EndWithoutResults, StopProducers, Freeze, StopConsumers, Judge,
     RunReturns, LoopStep, mainVars
<1>1. \A c \in Callers : Reads(c)
  BY DEF ReportInv
<1>e. EngineInv
  BY DEF ReportInv
<1>2. SUFFICES EngineInv' /\ \A c \in Callers : Reads(c)'
  BY <1>0 DEF ReportInv
<1>3. CASE StartRunFromConfig
  <2>1. /\ loop' = "running" /\ cur' = cur + 1 /\ cur < MaxRuns /\ cfg' \in Configs
        /\ snapshot' = {} /\ verdict' = Nil /\ memory' = NoMemory
    BY <1>3 DEF StartRunFromConfig, LoopStep
  <2>2. cur \in 0 .. MaxRuns
    BY <1>e DEF EngineInv
  <2>5. cur \in Nat /\ cur' \in 0 .. MaxRuns /\ cur' >= 1 /\ ~(cur' <= cur)
    BY <2>1, <2>2, ReportBounds
  <2>6. memory' \in Counts
    BY <2>1 DEF Counts, NoMemory
  <2>3. EngineInv'
    BY <2>1, <2>5, <2>6 DEF EngineInv
  <2>4. ASSUME NEW c \in Callers PROVE Reads(c)'
    <3>0. \A r \in told[c].runs : r \in Nat /\ r <= cur
      BY <1>1, Zenon DEF Reads
    <3>1. told[c].runs # {cur'} /\ \A r \in told[c].runs : r \in Nat /\ r <= cur'
      BY <2>1, <2>5, <3>0
    <3> QED BY <1>0, <1>1, <3>1 DEF Reads, Coherent
  <2> QED BY <2>3, <2>4
<1>4. CASE EndWithoutResults \/ RunReturns
  <2>1. /\ loop' = "idle" /\ loop \in {"running", "judged"}
        /\ UNCHANGED <<cur, cfg, snapshot, memory, verdict>>
    BY <1>4 DEF EndWithoutResults, RunReturns, LoopStep
  <2>2. EngineInv'
    BY <1>e, <2>1 DEF EngineInv
  <2> QED BY <1>0, <1>1, <2>1, <2>2 DEF Reads, Coherent
<1>5. CASE StopProducers
  <2>1. /\ loop = "running" /\ loop' = "stopping" /\ memory' \in Memories[cur]
        /\ UNCHANGED <<cur, cfg, snapshot, verdict>>
    BY <1>5 DEF StopProducers, LoopStep
  <2>2. snapshot = {} /\ cur \in 1 .. MaxRuns
    BY <1>e, <2>1, ReportBounds DEF EngineInv
  <2>3. memory' \in Counts
    BY <2>1, <2>2, MemoriesAreCounts DEF Counts
  <2>4. EngineInv'
    BY <1>e, <2>1, <2>3 DEF EngineInv
  <2> QED BY <1>0, <1>1, <2>1, <2>2, <2>4 DEF Reads, Coherent
<1>6. CASE Freeze
  <2>1. /\ loop = "stopping" /\ loop' = "frozen" /\ UNCHANGED <<cur, cfg, memory, verdict>>
        /\ \E s : snapshot' = {s} /\ EnabledOnly(s, cfg) = s
    BY <1>6, FrozenIsEnabled, Zenon DEF Freeze, LoopStep
  <2>2. snapshot = {} /\ verdict = Nil /\ cur >= 1 /\ cfg \in Configs
    BY <1>e, <2>1 DEF EngineInv
  <2>3. EngineInv'
    BY <1>e, <2>1, <2>2 DEF EngineInv, EnabledOnly
  <2> QED BY <1>0, <1>1, <2>1, <2>2, <2>3 DEF Reads, Coherent
<1>7. CASE StopConsumers
  <2>1. /\ loop = "frozen" /\ loop' = "stopped consumers"
        /\ UNCHANGED <<cur, cfg, snapshot, verdict>>
        /\ \E grown \in {0, memory.baseline} : memory' = [memory EXCEPT !.peak = @ + grown]
    BY <1>7 DEF StopConsumers, LoopStep
  <2>2. /\ memory' \in Counts /\ memory \in Counts
        /\ memory'.baseline = memory.baseline /\ memory.peak <= memory'.peak
    <3>1. memory \in [baseline : Nat, peak : Nat]
      BY <1>e DEF EngineInv, Counts
    <3>2. PICK grown \in Nat : memory' = [memory EXCEPT !.peak = @ + grown]
      BY <2>1, <3>1
    <3> QED BY <3>1, <3>2 DEF Counts
  <2>3. EngineInv'
    BY <1>e, <2>1, <2>2 DEF EngineInv
  <2>4. ASSUME NEW c \in Callers PROVE Reads(c)'
    <3>1. \A m \in Counts : m.peak <= memory.peak => m.peak <= memory'.peak
      BY <2>2 DEF Counts
    <3> QED BY <1>0, <1>1, <2>1, <2>2, <3>1 DEF Reads, Coherent
  <2> QED BY <2>3, <2>4
<1>8. CASE Judge
  <2>1. /\ loop = "stopped consumers" /\ loop' = "judged"
        /\ UNCHANGED <<cur, cfg, snapshot, memory>>
        /\ \E s \in snapshot : verdict' = computeVerdict(s, cfg, Duration, memory)
    BY <1>8 DEF Judge, LoopStep
  <2>2. EngineInv'
    BY <1>e, <2>1 DEF EngineInv
  <2> QED BY <1>0, <1>1, <2>1, <2>2 DEF Reads, Coherent
<1> QED BY <1>3, <1>4, <1>5, <1>6, <1>7, <1>8

(* Steps that call RunReport, or end the process. *)
LEMMA MainStepInv ==
    ASSUME ReportInv,
           \/ handleRunReport \/ ShutdownBegins \/ ShutdownReturns \/ ShutdownTimesOut
           \/ ServerStop \/ Exit
    PROVE  ReportInv'
<1>1. UNCHANGED <<engineVars, told>>
  BY DEF handleRunReport, ShutdownBegins, ShutdownReturns, ShutdownTimesOut, ServerStop, Exit,
     Returns, MainStep
<1>2. /\ \/ at' = at
         \/ at["client"] = "idle" /\ at' = [at EXCEPT !["client"] = "snapshots"]
         \/ at["main"] = "idle" /\ at' = [at EXCEPT !["main"] = "snapshots"]
      /\ main' \in {"serving", "shutdown"} => at'["main"] = at["main"] /\ at["main"] = "idle"
  <2>1. main \in {"serving", "shutdown"} => at["main"] = "idle"
    BY DEF ReportInv
  <2>2. at \in [Callers -> {"idle", "snapshots", "config", "memory", "verdict", "done"}]
    BY DEF ReportInv
  <2>3. CASE handleRunReport
    BY <2>1, <2>2, <2>3 DEF handleRunReport, mainVars, Callers
  <2>4. CASE ShutdownBegins
    BY <2>1, <2>4 DEF ShutdownBegins, MainStep
  <2>5. CASE ShutdownReturns \/ ShutdownTimesOut
    <3>1. main = "shutdown" /\ main' = "reporting" /\ at' = [at EXCEPT !["main"] = "snapshots"]
      BY <2>5 DEF ShutdownReturns, ShutdownTimesOut, Returns, MainStep
    <3> QED BY <2>1, <3>1
  <2>6. CASE ServerStop \/ Exit
    BY <2>6 DEF ServerStop, Exit, MainStep
  <2> QED BY <2>3, <2>4, <2>5, <2>6
<1>3. EngineInv'
  BY <1>1 DEF engineVars, ReportInv, EngineInv
<1>4. ASSUME NEW c \in Callers PROVE Reads(c)'
  <2>1. Reads(c) /\ (at'[c] = at[c] \/ (at[c] = "idle" /\ at'[c] = "snapshots"))
    BY <1>2 DEF ReportInv
  <2> QED BY <1>1, <2>1 DEF engineVars, Reads, Coherent
<1>5. at' \in [Callers -> {"idle", "snapshots", "config", "memory", "verdict", "done"}]
  BY <1>2 DEF ReportInv
<1> QED BY <1>1, <1>2, <1>3, <1>4, <1>5 DEF ReportInv

(* A report that is read piece by piece. *)
LEMMA RunReportInv ==
    ASSUME ReportInv, NEW c \in Callers, RunReport(c)
    PROVE  ReportInv'
<1>1. /\ UNCHANGED <<engineVars, mainVars>>
      /\ \E to \in {"config", "memory", "verdict", "done"} : at' = [at EXCEPT ![c] = to]
      /\ at[c] # "idle" /\ at[c] # "done"
  BY DEF RunReport, ReadSnapshots, ReadConfig, ReadMemory, ReadVerdict, Step
<1>2. EngineInv /\ EngineInv'
  BY <1>1 DEF engineVars, ReportInv, EngineInv
<1>3. at' \in [Callers -> {"idle", "snapshots", "config", "memory", "verdict", "done"}]
  BY <1>1 DEF ReportInv
<1>4. main' \in {"serving", "shutdown"} => at'["main"] = "idle"
  <2>1. /\ at \in [Callers -> {"idle", "snapshots", "config", "memory", "verdict", "done"}]
        /\ main \in {"serving", "shutdown"} => at["main"] = "idle"
        /\ main' = main
    BY <1>1, Zenon DEF ReportInv, mainVars
  <2>2. CASE c = "main"
    BY <1>1, <2>1, <2>2, Zenon
  <2>3. CASE c # "main"
    <3>1. "main" \in DOMAIN at
      BY <2>1 DEF Callers
    <3>2. at'["main"] = at["main"]
      <4>1. PICK to \in {"config", "memory", "verdict", "done"} : at' = [at EXCEPT ![c] = to]
        BY <1>1, Zenon
      <4> QED BY <2>3, <3>1, <4>1, Zenon
    <3> QED BY <2>1, <3>2, Zenon
  <2> QED BY <2>2, <2>3, Zenon
<1>5. told' = told \/ \E r : told' = [told EXCEPT ![c] = r]
  BY Zenon DEF RunReport, ReadSnapshots, ReadConfig, ReadMemory, ReadVerdict, Tell
<1>6. DOMAIN told' = Callers /\ told' = [d \in Callers |-> told'[d]]
  BY <1>5 DEF ReportInv
<1>7. ASSUME NEW d \in Callers, d # c PROVE Reads(d)'
  <2>1. told'[d] = told[d] /\ at'[d] = at[d] /\ Reads(d)
    BY <1>1, <1>5, <1>7 DEF ReportInv
  <2> QED BY <1>1, <2>1 DEF engineVars, Reads, Coherent
<1>8. Reads(c)'
  <2> DEFINE r == told[c]
  <2>1. /\ cur' = cur /\ snapshot' = snapshot /\ cfg' = cfg /\ memory' = memory
        /\ cur \in Nat /\ memory \in Counts
    <3>1. cur \in 0 .. MaxRuns /\ memory \in Counts
      BY <1>2 DEF EngineInv
    <3>2. cur \in Nat
      BY <3>1, ReportBounds
    <3> QED BY <1>1, <3>1, <3>2 DEF engineVars
  <2>2. Reads(c) /\ r.result = Nil /\ c \in DOMAIN told /\ c \in DOMAIN at
    BY <1>1 DEF Reads, ReportInv
  <2>3. CASE snapshot = {} /\ Step(c, "snapshots", "done") /\ UNCHANGED told
    <3>1. at'[c] = "done" /\ told' = told
      BY <2>2, <2>3 DEF Step
    <3> QED BY <2>1, <2>2, <3>1 DEF Reads, Coherent
  <2>4. CASE Step(c, "snapshots", "config")
               /\ \E s \in snapshot : Tell(c, [NoReport EXCEPT !.snaps = s])
    <3>1. PICK s \in snapshot : Tell(c, [NoReport EXCEPT !.snaps = s])
      BY <2>4
    <3>2. told'[c] = [runs |-> {cur}, snaps |-> s, cfg |-> Nil, memory |-> NoMemory,
                      engine |-> Nil, result |-> Nil]
      BY <2>2, <3>1, Zenon DEF Tell, NoReport
    <3>3. at'[c] = "config"
      BY <2>2, <2>4 DEF Step
    <3>4. snapshot = {s}
      BY <1>2, <3>1 DEF EngineInv
    <3> QED BY <2>1, <3>2, <3>3, <3>4 DEF Reads, Coherent
  <2>5. CASE ReadConfig(c)
    <3>1. told'[c] = [runs |-> r.runs \cup {cur}, snaps |-> r.snaps, cfg |-> cfg,
                      memory |-> r.memory, engine |-> r.engine, result |-> r.result]
      BY <2>2, <2>5, Zenon DEF ReadConfig, Tell, Reads
    <3>2. at[c] = "config" /\ at'[c] = "memory"
      BY <2>2, <2>5 DEF ReadConfig, Step
    <3>3. told'[c].runs = {cur} => r.runs = {cur}
      BY <2>2, <3>1, <3>2 DEF Reads
    <3> QED BY <2>1, <2>2, <3>1, <3>2, <3>3 DEF Reads, Coherent
  <2>6. CASE ReadMemory(c)
    <3>1. told'[c] = [runs |-> r.runs \cup {cur}, snaps |-> r.snaps, cfg |-> r.cfg,
                      memory |-> memory, engine |-> r.engine, result |-> r.result]
      BY <2>2, <2>6, Zenon DEF ReadMemory, Tell, Reads
    <3>2. at[c] = "memory" /\ at'[c] = "verdict"
      BY <2>2, <2>6 DEF ReadMemory, Step
    <3>3. told'[c].runs = {cur} => r.runs = {cur}
      BY <2>2, <3>1, <3>2 DEF Reads
    <3>4. memory.peak <= memory.peak
      BY <2>1 DEF Counts
    <3> QED BY <2>1, <2>2, <3>1, <3>2, <3>3, <3>4 DEF Reads, Coherent
  <2>7. CASE ReadVerdict(c)
    <3> DEFINE own == GenerateVerdict(EnabledOnly(r.snaps, r.cfg), r.cfg.thresholds, r.memory)
    <3>1. told'[c] = [runs |-> r.runs \cup {cur}, snaps |-> r.snaps, cfg |-> r.cfg,
                      memory |-> r.memory, engine |-> verdict,
                      result |-> Reconcile(own, verdict)]
      BY <2>2, <2>7, Zenon DEF ReadVerdict, Tell, Reads
    <3>2. at[c] = "verdict" /\ at'[c] = "done"
      BY <2>2, <2>7 DEF ReadVerdict, Step
    <3> HIDE DEF own
    <3>3. ASSUME Coherent(c)'
          PROVE  Agrees(verdict, Reconcile(own, verdict), r.snaps, r.cfg.thresholds.fidelity)
      <4>1. verdict # Nil /\ r.runs = {cur}
        <5>1. verdict # Nil /\ \E n \in 1 .. MaxRuns : r.runs \cup {cur} = {n}
          BY <3>1, <3>3 DEF Coherent
        <5>2. r.runs # {}
          BY <2>2, <3>2 DEF Reads
        <5> QED BY <5>1, <5>2
      <4>2. /\ snapshot = {r.snaps} /\ r.cfg = cfg /\ r.memory \in Counts
            /\ r.memory.baseline = memory.baseline /\ r.memory.peak <= memory.peak
        BY <2>2, <3>2, <4>1 DEF Reads
      <4>3. cfg \in Configs /\ EnabledOnly(r.snaps, cfg) = r.snaps
        BY <1>2, <4>2 DEF EngineInv
      <4>4. verdict = computeVerdict(r.snaps, cfg, Duration, memory)
        BY <1>2, <4>1, <4>2 DEF EngineInv
      <4> QED BY <2>1, <4>2, <4>3, <4>4, Judgements DEF own, Counts
    <3>4. Coherent(c)' => Agrees(told'[c].engine, told'[c].result, told'[c].snaps,
                                 told'[c].cfg.thresholds.fidelity)
      BY <3>1, <3>3
    <3> QED BY <2>1, <2>2, <3>1, <3>2, <3>4 DEF Reads
  <2> QED BY <2>3, <2>4, <2>5, <2>6, <2>7 DEF RunReport, ReadSnapshots
<1> QED BY <1>2, <1>3, <1>4, <1>6, <1>7, <1>8 DEF ReportInv

LEMMA ReportInductive == Spec => []ReportInv
<1>1. ReportInv /\ [Next]_vars => ReportInv'
  <2> SUFFICES ASSUME ReportInv, [Next]_vars PROVE ReportInv'
    OBVIOUS
  <2>1. CASE UNCHANGED vars
    <3>1. UNCHANGED <<loop, cur, cfg, snapshot, memory, verdict, exitCode, at, told>>
      BY <2>1, Zenon DEF vars, engineVars, mainVars
    <3>2. EngineInv'
      BY <3>1, Zenon DEF ReportInv, EngineInv
    <3>3. ASSUME NEW c \in Callers PROVE Reads(c)'
      BY <3>1, Zenon DEF ReportInv, Reads, Coherent
    <3> QED BY <2>1, <3>2, <3>3, Zenon DEF vars, mainVars, ReportInv
  <2> QED BY <2>1, EngineStep, MainStepInv, RunReportInv DEF Next
<1> QED BY <1>1, InitInv, PTL DEF Spec

(* A report of one run is never kinder than the verdict of the engine, for   *)
(* any thresholds that Validate accepts and any counters.                    *)
THEOREM NeverKinder == Spec => []ReportNotKinder
<1>1. ReportInv => ReportNotKinder
  BY DEF ReportInv, Reads, Agrees, ReportNotKinder
<1> QED BY <1>1, ReportInductive, PTL

(* It differs from it only when the fidelity failures of workers within the  *)
(* limit add up to more than the limit.                                      *)
THEOREM HarsherOnlyOnFidelity == Spec => []ReportHarsherOnlyOnFidelity
<1>1. ReportInv => ReportHarsherOnlyOnFidelity
  BY DEF ReportInv, Reads, Agrees, ReportHarsherOnlyOnFidelity, FidelityAddsUp
<1> QED BY <1>1, ReportInductive, PTL

-----------------------------------------------------------------------------
(* The exit code.  A run that was over when GracefulShutdown returned, with  *)
(* no other accepted since, has left its verdict and its snapshots alone.    *)

Settled == awaited.how = "over" /\ cur = awaited.run

Positive == {"PASSED", "PASSED_WITH_WARNINGS"}

CodeOf(v) == IF v \notin Positive THEN 1 ELSE IF v = "PASSED_WITH_WARNINGS" THEN 2 ELSE 0

(* Each run that left snapshots has a verdict once runLoop has returned. *)
JudgedInv ==
    /\ loop = "running" => snapshot = {}
    /\ loop \in {"idle", "judged"} /\ snapshot # {} => verdict # Nil

(* main's report is one of the run that is settled. *)
MainInv ==
    /\ awaited = [run |-> awaited.run, how |-> awaited.how]
    /\ awaited.run \in Nat /\ awaited.run <= cur
    /\ main \in {"serving", "shutdown", "reporting", "unserved"}
    /\ main = "serving" => awaited.how = Nil
    /\ main \in {"serving", "shutdown"} => told["main"] = NoReport
    /\ main \in {"serving", "shutdown", "reporting"} => Alive
    /\ Settled => loop = "idle"
    /\ Settled /\ main \in {"reporting", "unserved"} =>
          /\ passed <=> verdict \in Positive
          /\ at["main"] = "snapshots" => told["main"] = NoReport
          /\ at["main"] \in {"config", "memory", "verdict"} =>
                told["main"].runs = {cur} /\ verdict # Nil /\ cur >= 1
          /\ told["main"].result # Nil =>
                /\ told["main"].runs = {cur} /\ cur >= 1
                /\ verdict # Nil /\ told["main"].engine = verdict
    /\ Settled /\ ~Alive => exitCode = CodeOf(verdict)

ExitInv == JudgedInv /\ MainInv

EngineSteps ==
    \/ StartRunFromConfig \/ EndWithoutResults \/ StopProducers \/ Freeze \/ StopConsumers
    \/ Judge \/ RunReturns

LEMMA ExitInit == Init => ExitInv
<1> SUFFICES ASSUME Init PROVE ExitInv
  OBVIOUS
<1>1. /\ awaited = [run |-> 0, how |-> Nil] /\ told["main"] = NoReport /\ cur = 0
      /\ main = "serving" /\ loop = "idle" /\ snapshot = {} /\ exitCode = -1
  BY DEF Init, Callers
<1>2. ~Settled
  BY <1>1 DEF Settled, Nil
<1> QED BY <1>1, <1>2 DEF ExitInv, JudgedInv, MainInv, Alive

LEMMA JudgedStep ==
    ASSUME EngineInv, JudgedInv, [Next]_vars
    PROVE  JudgedInv'
<1> USE DEF EngineInv, JudgedInv, LoopStep
<1>1. CASE StartRunFromConfig
  BY <1>1 DEF StartRunFromConfig
<1>2. CASE EndWithoutResults \/ StopProducers \/ RunReturns
  BY <1>2 DEF EndWithoutResults, StopProducers, RunReturns
<1>3. CASE Freeze \/ StopConsumers
  BY <1>3 DEF Freeze, StopConsumers
<1>4. CASE Judge
  <2>1. loop' = "judged" /\ \E s \in snapshot : verdict' = computeVerdict(s, cfg, Duration, memory)
    BY <1>4 DEF Judge
  <2>2. verdict' # Nil
    <3>1. PICK s : verdict' = computeVerdict(s, cfg, Duration, memory)
      BY <2>1
    <3>2. verdict' \in Results
      BY <3>1, ResultType, Zenon
    <3> QED BY <3>2 DEF Results, Nil
  <2> QED BY <2>1, <2>2
<1>5. CASE \/ handleRunReport \/ \E c \in Callers : RunReport(c)
           \/ ShutdownBegins \/ ShutdownReturns \/ ShutdownTimesOut \/ ServerStop \/ Exit
           \/ UNCHANGED vars
  <2>1. UNCHANGED engineVars
    BY <1>5, Zenon
    DEF handleRunReport, RunReport, ReadSnapshots, ReadConfig, ReadMemory, ReadVerdict,
        Step, ShutdownBegins, ShutdownReturns, ShutdownTimesOut, Returns, ServerStop,
        Exit, MainStep, vars
  <2> QED BY <2>1 DEF engineVars
<1> QED BY <1>1, <1>2, <1>3, <1>4, <1>5 DEF Next

(* The engine does nothing to a run that is settled but replace it. *)
LEMMA EngineUnsettles ==
    ASSUME EngineInv, MainInv, EngineSteps
    PROVE  ~Settled'
<1>1. UNCHANGED awaited
  BY DEF EngineSteps, StartRunFromConfig, EndWithoutResults, StopProducers, Freeze,
         StopConsumers, Judge, RunReturns, LoopStep, mainVars
<1>2. cur \in Nat /\ awaited.run \in Nat /\ awaited.run <= cur
  <2>1. cur \in 0 .. MaxRuns
    BY DEF EngineInv
  <2> QED BY <2>1, ReportBounds DEF MainInv
<1>3. CASE StartRunFromConfig
  <2>1. cur' = cur + 1
    BY <1>3 DEF StartRunFromConfig
  <2> QED BY <1>1, <1>2, <2>1 DEF Settled
<1>4. CASE ~StartRunFromConfig
  <2>1. cur' = cur /\ loop # "idle"
    BY <1>4 DEF EngineSteps, EndWithoutResults, StopProducers, Freeze, StopConsumers, Judge,
                RunReturns, LoopStep
  <2> QED BY <1>1, <2>1 DEF Settled, MainInv
<1> QED BY <1>3, <1>4

LEMMA MainInvEngine ==
    ASSUME EngineInv, MainInv, EngineSteps
    PROVE  MainInv'
<1>1. UNCHANGED <<mainVars, at, told>> /\ Alive
  BY DEF EngineSteps, StartRunFromConfig, EndWithoutResults, StopProducers, Freeze,
         StopConsumers, Judge, RunReturns, LoopStep
<1>2. cur \in Nat /\ (cur' = cur \/ cur' = cur + 1)
  <2>1. cur \in Nat
    <3>1. cur \in 0 .. MaxRuns
      BY DEF EngineInv
    <3> QED BY <3>1, ReportBounds
  <2>2. cur' = cur \/ cur' = cur + 1
    BY DEF EngineSteps, StartRunFromConfig, EndWithoutResults, StopProducers, Freeze,
           StopConsumers, Judge, RunReturns
  <2> QED BY <2>1, <2>2
<1>3. awaited.run \in Nat /\ awaited.run <= cur'
  BY <1>2 DEF MainInv
<1>4. ~Settled'
  BY EngineUnsettles
<1> QED BY <1>1, <1>3, <1>4 DEF MainInv, mainVars, Alive

(* Steps that leave the engine, main and main's report alone. *)
LEMMA MainInvClient ==
    ASSUME ReportInv, MainInv, handleRunReport \/ RunReport("client") \/ UNCHANGED vars
    PROVE  MainInv'
<1>1. UNCHANGED <<engineVars, mainVars>>
  BY DEF handleRunReport, RunReport, ReadSnapshots, ReadConfig, ReadMemory, ReadVerdict, Step, vars
<1>2. at'["main"] = at["main"]
  <2>1. at' = at \/ \E to : at' = [at EXCEPT !["client"] = to]
    BY DEF handleRunReport, RunReport, ReadSnapshots, ReadConfig, ReadMemory, ReadVerdict, Step,
           vars
  <2>2. "main" \in DOMAIN at
    <3>1. at \in [Callers -> {"idle", "snapshots", "config", "memory", "verdict", "done"}]
      BY Zenon DEF ReportInv
    <3> QED BY <3>1 DEF Callers
  <2> QED BY <2>1, <2>2
<1>3. told'["main"] = told["main"]
  <2>1. told' = told \/ \E r : told' = [told EXCEPT !["client"] = r]
    BY Zenon
    DEF handleRunReport, RunReport, ReadSnapshots, ReadConfig, ReadMemory, ReadVerdict, Tell,
        vars
  <2>2. "main" \in DOMAIN told
    <3>1. DOMAIN told = Callers
      BY Zenon DEF ReportInv
    <3> QED BY <3>1, Zenon DEF Callers
  <2> QED BY <2>1, <2>2
<1> QED BY <1>1, <1>2, <1>3 DEF MainInv, Settled, Alive, engineVars, mainVars

(* main reads its report. *)
LEMMA MainInvReport ==
    ASSUME ReportInv, ExitInv, RunReport("main")
    PROVE  MainInv'
<1> DEFINE r == told["main"]
<1>0. MainInv /\ "main" \in Callers /\ EngineInv
  BY DEF ExitInv, Callers, ReportInv
<1>1. UNCHANGED <<engineVars, mainVars>>
  BY DEF RunReport, ReadSnapshots, ReadConfig, ReadMemory, ReadVerdict, Step
<1>2. at["main"] # "idle"
  BY DEF RunReport, ReadSnapshots, ReadConfig, ReadMemory, ReadVerdict, Step
<1>3. main \notin {"serving", "shutdown"}
  BY <1>2 DEF ReportInv
<1>4. Settled' <=> Settled
  BY <1>1 DEF Settled, engineVars, mainVars
<1>5. SUFFICES ASSUME Settled, main \in {"reporting", "unserved"}
               PROVE  /\ at'["main"] = "snapshots" => told'["main"] = NoReport
                      /\ at'["main"] \in {"config", "memory", "verdict"} =>
                            told'["main"].runs = {cur} /\ verdict # Nil /\ cur >= 1
                      /\ told'["main"].result # Nil =>
                            /\ told'["main"].runs = {cur} /\ cur >= 1
                            /\ verdict # Nil /\ told'["main"].engine = verdict
  BY <1>0, <1>1, <1>3, <1>4 DEF MainInv, Alive, engineVars, mainVars
<1>6. /\ "main" \in DOMAIN at /\ "main" \in DOMAIN told /\ Reads("main")
      /\ told = [c \in Callers |-> told[c]]
  BY <1>0 DEF ReportInv
<1>7. CASE snapshot = {} /\ Step("main", "snapshots", "done") /\ UNCHANGED told
  <2>1. at'["main"] = "done" /\ at["main"] = "snapshots" /\ told' = told
    BY <1>6, <1>7 DEF Step
  <2>2. r.result = Nil
    BY <1>6, <2>1 DEF Reads
  <2> QED BY <2>1, <2>2
<1>8. CASE Step("main", "snapshots", "config")
             /\ \E s \in snapshot : Tell("main", [NoReport EXCEPT !.snaps = s])
  <2>1. at'["main"] = "config"
    BY <1>6, <1>8 DEF Step
  <2>2. told'["main"].runs = {cur} /\ told'["main"].result = Nil
    <3>1. PICK s \in snapshot : Tell("main", [NoReport EXCEPT !.snaps = s])
      BY <1>8
    <3> QED BY <1>6, <3>1, Zenon DEF Tell, NoReport
  <2>3. verdict # Nil /\ cur >= 1
    <3>1. loop = "idle" /\ snapshot # {}
      BY <1>0, <1>5, <1>8 DEF MainInv
    <3> QED BY <1>0, <3>1 DEF ExitInv, JudgedInv, EngineInv
  <2> QED BY <2>1, <2>2, <2>3
<1>9. ASSUME at["main"] \in {"config", "memory", "verdict"}
      PROVE  r.runs = {cur} /\ verdict # Nil /\ cur >= 1 /\ r.result = Nil
  BY <1>0, <1>5, <1>6, <1>9 DEF MainInv, Reads
<1>10. CASE ReadConfig("main") \/ ReadMemory("main")
  <2>1. at["main"] \in {"config", "memory"} /\ at'["main"] \in {"memory", "verdict"}
    BY <1>6, <1>10 DEF ReadConfig, ReadMemory, Step
  <2>2. told'["main"].runs = r.runs \cup {cur} /\ told'["main"].result = r.result
    <3>1. CASE ReadConfig("main")
      <4>1. told'["main"] = [runs |-> r.runs \cup {cur}, snaps |-> r.snaps, cfg |-> cfg,
                             memory |-> r.memory, engine |-> r.engine, result |-> r.result]
        BY <1>6, <3>1, Zenon DEF ReadConfig, Tell, Reads
      <4> QED BY <4>1
    <3>2. CASE ReadMemory("main")
      <4>1. told'["main"] = [runs |-> r.runs \cup {cur}, snaps |-> r.snaps, cfg |-> r.cfg,
                             memory |-> memory, engine |-> r.engine, result |-> r.result]
        BY <1>6, <3>2, Zenon DEF ReadMemory, Tell, Reads
      <4> QED BY <4>1
    <3> QED BY <1>10, <3>1, <3>2
  <2> QED BY <1>9, <2>1, <2>2
<1>11. CASE ReadVerdict("main")
  <2>1. at["main"] = "verdict" /\ at'["main"] = "done"
    BY <1>6, <1>11 DEF ReadVerdict, Step
  <2>2. told'["main"].runs = r.runs \cup {cur} /\ told'["main"].engine = verdict
    <3>1. PICK res : Tell("main", [r EXCEPT !.engine = verdict, !.result = res])
      BY <1>11, Zenon DEF ReadVerdict
    <3> QED BY <1>6, <3>1, Zenon DEF Tell, Reads
  <2> QED BY <1>9, <2>1, <2>2
<1> QED BY <1>7, <1>8, <1>10, <1>11 DEF RunReport, ReadSnapshots

(* GracefulShutdown and the end of main. *)
LEMMA MainInvMain ==
    ASSUME ReportInv, MainInv,
           ShutdownBegins \/ ShutdownReturns \/ ShutdownTimesOut \/ ServerStop \/ Exit
    PROVE  MainInv'
<1>1. UNCHANGED <<engineVars, told>> /\ Alive
  BY DEF ShutdownBegins, ShutdownReturns, ShutdownTimesOut, ServerStop, Exit, Returns, MainStep
<1>0. cur \in Nat
  <2>1. cur \in 0 .. MaxRuns
    BY DEF EngineInv, ReportInv
  <2> QED BY <2>1, ReportBounds
<1>2. CASE ShutdownBegins
  <2>1. /\ main = "serving" /\ main' = "shutdown" /\ exitCode' = exitCode
        /\ awaited' = [run |-> cur, how |-> IF loop = "running" THEN "cancelled"
                                           ELSE IF Stopping THEN "not awaited" ELSE "over"]
    BY <1>2 DEF ShutdownBegins, MainStep
  <2>2. Settled' => loop = "idle"
    BY <2>1 DEF Settled, Stopping, ReportInv, EngineInv
  <2>3. awaited'.run = cur /\ awaited' = [run |-> awaited'.run, how |-> awaited'.how]
    BY <2>1
  <2>4. /\ cur' = cur /\ loop' = loop /\ told' = told /\ exitCode' = -1
        /\ awaited'.run \in Nat /\ awaited'.run <= cur'
    <3>1. cur' = cur /\ loop' = loop /\ told' = told
      BY <1>1 DEF engineVars
    <3>2. exitCode' = -1
      BY <1>1, <2>1 DEF Alive
    <3>3. cur <= cur
      BY <1>0
    <3> QED BY <1>0, <2>3, <3>1, <3>2, <3>3, Zenon
  <2>5. told["main"] = NoReport /\ main' = "shutdown"
    BY <2>1 DEF MainInv
  <2> QED BY <2>2, <2>3, <2>4, <2>5 DEF MainInv, Alive
<1>3. CASE ShutdownReturns \/ ShutdownTimesOut
  <2>1. /\ main = "shutdown" /\ main' = "reporting" /\ exitCode' = exitCode
        /\ passed' = (verdict \in Positive)
        /\ at' = [at EXCEPT !["main"] = "snapshots"]
        /\ \E how : awaited' = [awaited EXCEPT !.how = how]
    BY <1>3 DEF ShutdownReturns, ShutdownTimesOut, Returns, MainStep, Positive
  <2>2. awaited'.run = awaited.run /\ awaited' = [run |-> awaited'.run, how |-> awaited'.how]
    BY <2>1 DEF MainInv
  <2>3. Settled' => loop = "idle"
    <3>1. CASE awaited.how = "cancelled" /\ (loop = "idle" \/ cur > awaited.run)
      BY <1>0, <1>1, <2>2, <3>1 DEF Settled, engineVars, MainInv
    <3>2. CASE awaited.how \in {"over", "not awaited"} /\ Returns(awaited.how)
      <4>1. awaited'.how = awaited.how /\ awaited'.run = awaited.run
        BY <3>2 DEF Returns, MainInv
      <4> QED BY <1>1, <4>1 DEF Settled, engineVars, MainInv
    <3>3. CASE Returns("given up")
      <4>1. awaited'.how = "given up"
        BY <3>3 DEF Returns, MainInv
      <4> QED BY <4>1 DEF Settled
    <3> QED BY <1>3, <3>1, <3>2, <3>3 DEF ShutdownReturns, ShutdownTimesOut
  <2>4. at'["main"] = "snapshots" /\ told'["main"] = NoReport
    BY <1>1, <2>1 DEF ReportInv, Callers, MainInv
  <2>5. passed' <=> verdict \in Positive
    BY <2>1, Zenon
  <2>6. told'["main"].result = Nil
    BY <2>4 DEF NoReport
  <2> QED BY <1>1, <2>1, <2>2, <2>3, <2>4, <2>5, <2>6 DEF MainInv, Alive, engineVars
<1>4. CASE ServerStop
  <2>1. main' = "unserved" /\ main = "reporting" /\ UNCHANGED <<awaited, passed, exitCode, at>>
    BY <1>4 DEF ServerStop, MainStep
  <2> QED BY <1>1, <2>1 DEF MainInv, Settled, Alive, engineVars
<1>5. CASE Exit
  <2>1. main' = "unserved" /\ main = "unserved" /\ UNCHANGED <<awaited, passed, at>>
    BY <1>5 DEF Exit, MainStep
  <2>2. exitCode' = IF ~passed THEN 1 ELSE IF verdict = "PASSED_WITH_WARNINGS" THEN 2 ELSE 0
    BY <1>5 DEF Exit
  <2>3. Settled' <=> Settled
    BY <1>1, <2>1 DEF Settled, engineVars
  <2>4. Settled => (passed <=> verdict \in Positive)
    BY <2>1 DEF MainInv
  <2>5. Settled => exitCode' = CodeOf(verdict)
    BY <2>2, <2>4 DEF CodeOf
  <2> QED BY <1>1, <2>1, <2>3, <2>5 DEF MainInv, Alive, engineVars
<1> QED BY <1>2, <1>3, <1>4, <1>5

LEMMA ExitInductive == Spec => [](ReportInv /\ ExitInv)
<1>1. ReportInv /\ ExitInv /\ [Next]_vars => ExitInv'
  <2> SUFFICES ASSUME ReportInv, ExitInv, [Next]_vars PROVE ExitInv'
    OBVIOUS
  <2>1. EngineInv /\ JudgedInv /\ MainInv
    BY DEF ReportInv, ExitInv
  <2>2. JudgedInv'
    BY <2>1, JudgedStep
  <2>3. \/ EngineSteps
        \/ handleRunReport \/ RunReport("client") \/ UNCHANGED vars
        \/ RunReport("main")
        \/ ShutdownBegins \/ ShutdownReturns \/ ShutdownTimesOut \/ ServerStop \/ Exit
    BY DEF Next, EngineSteps, Callers
  <2>4. MainInv'
    BY <2>1, <2>3, MainInvEngine, MainInvClient, MainInvReport, MainInvMain
  <2> QED BY <2>2, <2>4 DEF ExitInv
<1> QED BY <1>1, ExitInit, ReportInductive, PTL DEF Spec

(* The exit code of the process says what the printed report says, although  *)
(* GracefulShutdown, RunReport and HasWarnings each read the verdict for     *)
(* themselves: if the run was over, no other was accepted meanwhile, and the *)
(* fidelity failures of the workers do not add up.                           *)
THEOREM ExitCodeIsTheReport == Spec => []ExitCodeTellsTheReport
<1>1. ReportInv /\ ExitInv => ExitCodeTellsTheReport
  <2> SUFFICES ASSUME ReportInv, ExitInv, exitCode # -1, awaited.how = "over", cur = awaited.run,
                      told["main"].result # Nil, ~FidelityAddsUp("main")
               PROVE  exitCode = CASE told["main"].result = "PASSED" -> 0
                                   [] told["main"].result = "PASSED_WITH_WARNINGS" -> 2
                                   [] OTHER -> 1
    BY DEF ExitCodeTellsTheReport
  <2>1. Settled /\ ~Alive /\ MainInv
    BY DEF Settled, Alive, ExitInv
  <2>2. main \in {"reporting", "unserved"}
    <3>1. main \notin {"serving", "shutdown"}
      BY <2>1 DEF MainInv
    <3> QED BY <2>1, <3>1 DEF MainInv
  <2>3. /\ exitCode = CodeOf(verdict) /\ told["main"].runs = {cur} /\ cur >= 1
        /\ verdict # Nil /\ told["main"].engine = verdict
    BY <2>1, <2>2 DEF MainInv
  <2>4. cur \in 1 .. MaxRuns
    <3>1. cur \in 0 .. MaxRuns
      BY DEF ReportInv, EngineInv
    <3> QED BY <2>3, <3>1, ReportBounds
  <2>5. Coherent("main") /\ Reads("main")
    BY <2>3, <2>4 DEF Coherent, ReportInv, Callers
  <2>6. told["main"].result = verdict
    BY <2>3, <2>5 DEF Reads, Agrees, FidelityAddsUp
  <2>7. verdict \in Results
    <3>1. PICK s : verdict = computeVerdict(s, cfg, Duration, memory)
      BY <2>3 DEF ReportInv, EngineInv
    <3> QED BY <3>1, ResultType, Zenon
  <2> QED BY <2>3, <2>6, <2>7 DEF CodeOf, Positive, Results
<1> QED BY <1>1, ExitInductive, PTL
=============================================================================
