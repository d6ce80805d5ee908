------------------------------- MODULE Report -------------------------------
(***************************************************************************)
(* The end of a run, as it is told: the results that                       *)
(* burnin/engine/engine.go keeps of a run, RunReport of burnin/main.go,    *)
(* which reads them one lock at a time for main and for GET /run/report,   *)
(* and the exit code of the process.                                       *)
(*                                                                         *)
(* Of the life of a run, which module Engine has in full, only what        *)
(* changes these results is kept: a run is accepted, ends without results, *)
(* or is frozen, judged and over.                                          *)
(***************************************************************************)
EXTENDS Verdict

CONSTANTS
    MaxRuns,     \* bound: runs accepted in the life of the process
    Configs,     \* configurations a run may have
    Duration,    \* of the measurement of a run, in seconds
    Groups,      \* by run, what the worker groups may have counted: by worker name,
                 \* a sequence of the counters of each channel
    Memories     \* by run, what baselineRSS and peakRSS may be
ASSUME ReportBounds == MaxRuns \in Nat \ {0} /\ Duration \in Nat \ {0}

(* What Config.Validate lets through, of the thresholds that only one of the *)
(* two judgements looks at.                                                  *)
ASSUME ValidatedThresholds ==
    \A c \in Configs : /\ c.thresholds.memory \in Nat \ {0}
                        /\ c.thresholds.latency["p99"] \in Nat \ {0}

ASSUME MemoriesAreCounts ==
    \A r \in 1 .. MaxRuns : Memories[r] \subseteq [baseline : Nat, peak : Nat]

Callers == {"main", "client"}

VARIABLES
    loop,        \* where runLoop stands
    cur,         \* the run that runCfg and runID belong to; 0: none
    cfg,         \* Engine.runCfg
    snapshot,    \* workerSnapshots; a set, empty for nil
    memory,      \* baselineRSS and peakRSS
    verdict,     \* verdictResult.Result
    main,        \* where main stands
    awaited,     \* history: the run GracefulShutdown found, and how it waited for it
    passed,      \* what GracefulShutdown returned
    exitCode,    \* of the process; -1: still alive
    at,          \* where each caller stands in RunReport
    told         \* what each has read, and the result of its report

engineVars == <<loop, cur, cfg, snapshot, memory, verdict>>
mainVars == <<main, awaited, passed, exitCode>>
vars == <<engineVars, mainVars, at, told>>

Nil == "nil"
NoMemory == [baseline |-> 0, peak |-> 0]

(* runs: those the pieces come from; engine: the engine's verdict as read. *)
NoReport == [runs |-> {}, snaps |-> Nil, cfg |-> Nil, memory |-> NoMemory, engine |-> Nil,
             result |-> Nil]

Alive == exitCode = -1

(* Engine.state is StateStopping. *)
Stopping == loop \in {"stopping", "frozen", "stopped consumers", "judged"}

-----------------------------------------------------------------------------
(* The engine. *)

LoopStep(from, to) ==
    /\ Alive
    /\ loop = from
    /\ loop' = to
    /\ UNCHANGED <<mainVars, at, told>>

(* StartRunFromConfig clears what the previous run has left. *)
StartRunFromConfig ==
    /\ main # "unserved"
    /\ cur < MaxRuns
    /\ LoopStep("idle", "running")
    /\ cur' = cur + 1
    /\ cfg' \in Configs
    /\ snapshot' = {} /\ verdict' = Nil /\ memory' = NoMemory

(* runLoop returns before its shutdown: no snapshot and no verdict. *)
EndWithoutResults ==
    /\ LoopStep("running", "idle")
    /\ UNCHANGED <<cur, cfg, snapshot, memory, verdict>>

(* The run's time is over or it is cancelled: memoryTracker ends. *)
StopProducers ==
    /\ LoopStep("running", "stopping")
    /\ memory' \in Memories[cur]
    /\ UNCHANGED <<cur, cfg, snapshot, verdict>>

(* shutdownWorkers: the counters of the groups, which are those of the      *)
(* enabled workers, are frozen ...                                          *)
Freeze ==
    /\ LoopStep("stopping", "frozen")
    /\ \E g \in Groups[cur] :
           snapshot' = {captureWorkerSnapshots(
                            [name \in DOMAIN g \cap cfg.enabled |-> g[name]])}
    /\ UNCHANGED <<cur, cfg, memory, verdict>>

(* ... the consumers stop and the memory is looked at a last time ... *)
StopConsumers ==
    /\ LoopStep("frozen", "stopped consumers")
    /\ \E grown \in {0, memory.baseline} : memory' = [memory EXCEPT !.peak = @ + grown]
    /\ UNCHANGED <<cur, cfg, snapshot, verdict>>

(* ... and the snapshots are judged. *)
Judge ==
    /\ LoopStep("stopped consumers", "judged")
    /\ \E s \in snapshot : verdict' = computeVerdict(s, cfg, Duration, memory)
    /\ UNCHANGED <<cur, cfg, snapshot, memory>>

RunReturns ==
    /\ LoopStep("judged", "idle")
    /\ UNCHANGED <<cur, cfg, snapshot, memory, verdict>>

-----------------------------------------------------------------------------
(* RunReport. *)

Step(c, from, to) ==
    /\ Alive
    /\ at[c] = from
    /\ at' = [at EXCEPT ![c] = to]
    /\ UNCHANGED <<engineVars, mainVars>>

Tell(c, r) == told' = [told EXCEPT ![c] = [r EXCEPT !.runs = @ \cup {cur}]]

(* The snapshots; without any there is no report. *)
ReadSnapshots(c) ==
    \/ snapshot = {} /\ Step(c, "snapshots", "done") /\ UNCHANGED told
    \/ /\ Step(c, "snapshots", "config")
       /\ \E s \in snapshot : Tell(c, [NoReport EXCEPT !.snaps = s])

ReadConfig(c) ==
    /\ Step(c, "config", "memory")
    /\ Tell(c, [told[c] EXCEPT !.cfg = cfg])

ReadMemory(c) ==
    /\ Step(c, "memory", "verdict")
    /\ Tell(c, [told[c] EXCEPT !.memory = memory])

(* GenerateVerdict on the workers enabled in the configuration, reconciled  *)
(* with the engine's verdict of this moment.                                *)
ReadVerdict(c) ==
    LET r == told[c]
        own == GenerateVerdict(EnabledOnly(r.snaps, r.cfg), r.cfg.thresholds, r.memory)
    IN  /\ Step(c, "verdict", "done")
        /\ Tell(c, [r EXCEPT !.engine = verdict, !.result = Reconcile(own, verdict)])

RunReport(c) == ReadSnapshots(c) \/ ReadConfig(c) \/ ReadMemory(c) \/ ReadVerdict(c)

(* GET /run/report. *)
handleRunReport ==
    /\ Alive /\ main # "unserved"
    /\ at["client"] = "idle"
    /\ at' = [at EXCEPT !["client"] = "snapshots"]
    /\ UNCHANGED <<engineVars, mainVars, told>>

-----------------------------------------------------------------------------
(* main, from the signal on. *)

MainStep(from, to) ==
    /\ Alive
    /\ main = from
    /\ main' = to
    /\ UNCHANGED <<engineVars, told>>

(* GracefulShutdown cancels a run that is starting or running, and waits    *)
(* for its end ...                                                          *)
ShutdownBegins ==
    /\ MainStep("serving", "shutdown")
    /\ awaited' = [run |-> cur, how |-> IF loop = "running" THEN "cancelled"
                                       ELSE IF Stopping THEN "not awaited" ELSE "over"]
    /\ UNCHANGED <<passed, exitCode, at>>

Returns(how) ==
    /\ MainStep("shutdown", "reporting")
    /\ awaited' = [awaited EXCEPT !.how = how]
    /\ passed' = (verdict \in {"PASSED", "PASSED_WITH_WARNINGS"})
    /\ at' = [at EXCEPT !["main"] = "snapshots"]
    /\ UNCHANGED exitCode

(* ... returns the verdict of this moment, and RunReport is called.  A run  *)
(* that is stopping already is not waited for ...                           *)
ShutdownReturns ==
    \/ awaited.how \in {"over", "not awaited"} /\ Returns(awaited.how)
    \/ /\ awaited.how = "cancelled"
       /\ loop = "idle" \/ cur > awaited.run
       /\ Returns("over")

(* ... and one that does not end is given up after 90 seconds. *)
ShutdownTimesOut ==
    awaited.how = "cancelled" /\ cur = awaited.run /\ loop # "idle" /\ Returns("given up")

ServerStop ==
    /\ at["main"] = "done"
    /\ MainStep("reporting", "unserved")
    /\ UNCHANGED <<awaited, passed, exitCode, at>>

(* Fault: the warnings are not looked at. *)
ExitWithoutWarnings ==
    /\ MainStep("unserved", "unserved")
    /\ exitCode' = IF ~passed THEN 1 ELSE 0
    /\ UNCHANGED <<awaited, passed, at>>

(* HasWarnings reads the verdict once more. *)
Exit ==
    /\ MainStep("unserved", "unserved")
    /\ exitCode' = IF ~passed THEN 1 ELSE IF verdict = "PASSED_WITH_WARNINGS" THEN 2 ELSE 0
    /\ UNCHANGED <<awaited, passed, at>>

-----------------------------------------------------------------------------

Init ==
    /\ loop = "idle" /\ cur = 0 /\ cfg = Nil
    /\ snapshot = {} /\ memory = NoMemory /\ verdict = Nil
    /\ main = "serving" /\ awaited = [run |-> 0, how |-> Nil]
    /\ passed = FALSE /\ exitCode = -1
    /\ at = [c \in Callers |-> "idle"] /\ told = [c \in Callers |-> NoReport]

Next ==
    \/ StartRunFromConfig \/ EndWithoutResults
    \/ StopProducers \/ Freeze \/ StopConsumers \/ Judge \/ RunReturns
    \/ handleRunReport
    \/ \E c \in Callers : RunReport(c)
    \/ ShutdownBegins \/ ShutdownReturns \/ ShutdownTimesOut \/ ServerStop \/ Exit

Spec == Init /\ [][Next]_vars

-----------------------------------------------------------------------------

Severity(result) ==
    CASE result = "FAILED" -> 2 [] result = "PASSED_WITH_WARNINGS" -> 1 [] OTHER -> 0

(* A finished report whose pieces all belong to one run, read after that    *)
(* run was judged.                                                          *)
Coherent(c) ==
    told[c].result # Nil /\ told[c].engine # Nil /\ \E r \in 1 .. MaxRuns : told[c].runs = {r}

(* The workers, each within the limit, together exceed it. *)
FidelityAddsUp(c) ==
    LET max == told[c].cfg.thresholds.fidelity
        snaps == told[c].snaps
    IN  /\ \A name \in DOMAIN snaps : ~(snaps[name].fidelity > max)
        /\ TotalFidelity(snaps) > max

(* A coherent report is never kinder than the engine's verdict, although it *)
(* has fewer gates and skips workers that sent nothing (RunReport,          *)
(* GenerateVerdict).                                                        *)
ReportNotKinder ==
    \A c \in Callers : Coherent(c) => Severity(told[c].result) >= Severity(told[c].engine)

(* It is harsher in one case only: the report adds up the fidelity failures *)
(* of all workers, the engine takes each alone.  All else that one gates    *)
(* the other does as well, to the boundary case (GenerateVerdict, Reconcile *)
(* against computeVerdict).                                                 *)
ReportHarsherOnlyOnFidelity ==
    \A c \in Callers :
        Coherent(c) /\ told[c].result # told[c].engine => FidelityAddsUp(c)

(* The exit code says what the report says that main has printed (main,     *)
(* GracefulShutdown, HasWarnings), although the verdict is read three times *)
(* for them: when the run was over, no other was accepted during the        *)
(* shutdown, and the fidelity failures of the workers do not add up.        *)
ExitCodeTellsTheReport ==
    (/\ exitCode # -1
     /\ awaited.how = "over" /\ cur = awaited.run
     /\ told["main"].result # Nil /\ ~FidelityAddsUp("main"))
        => exitCode = CASE told["main"].result = "PASSED" -> 0
                        [] told["main"].result = "PASSED_WITH_WARNINGS" -> 2
                        [] OTHER -> 1
=============================================================================
