------------------------------- MODULE Engine -------------------------------
(***************************************************************************)
(* burnin/engine/engine.go with what drives it: the HTTP control plane of  *)
(* burnin/server/server.go and the main function of burnin/main.go.        *)
(*                                                                         *)
(* A run is a number, in order of acceptance.  Its goroutine, runLoop, is  *)
(* a program counter pc[r]; a step goes from one lock, channel operation   *)
(* or blocking call to the next.  Worker groups are named after the run    *)
(* that built them; of a group only whether its consumers and producers    *)
(* are running is kept.  Broker and workers decide when consumers are      *)
(* ready and when they notice that their context is cancelled.             *)
(***************************************************************************)
EXTENDS Integers, FiniteSets

CONSTANTS
    MaxRuns,      \* bound: runs accepted in the life of the process
    MaxClients    \* bound: concurrent callers of POST /run/start

ASSUME MaxRunsAssumption == MaxRuns \in Nat \ {0}
ASSUME MaxClientsAssumption == MaxClients \in Nat

Runs == 1 .. MaxRuns

VARIABLES
    state,        \* Engine.state
    cur,          \* the run that runID, runCancel and runDone belong to; 0: none
    groups,       \* the run that built Engine.workerGroups; 0: none
    snapshot,     \* the run whose counters workerSnapshots holds; 0: nil
    verdict,      \* verdictResult, with the run whose snapshot it judges
    pc,           \* where each runLoop stands
    done,         \* the runDone a deferred block is about to close
    cancelled,    \* runs whose context is cancelled
    closed,       \* runs whose runDone is closed
    ready,        \* groups that have signalled ConsumerReady
    consumers,    \* <<g, r>>: consumers of group g run under the context of r
    producing,    \* groups whose producers run
    periodic,     \* runs whose periodic tasks run
    admitted,     \* how many POST /run/start handlers have seen CanStart
    main,         \* where main stands
    awaited,      \* the run GracefulShutdown waits for; 0: none
    timedOut,     \* GracefulShutdown gave up waiting
    passed,       \* what GracefulShutdown returned
    exitCode,     \* of the process; -1: still alive
    panicked,     \* a closed channel was closed again
    overtaken     \* history: a run was accepted between setError and the deferred block

engineVars == <<state, cur, groups, snapshot, verdict>>
loopVars == <<pc, done, closed, ready, consumers, producing, periodic>>
mainVars == <<main, awaited, timedOut, passed, exitCode>>
vars == <<engineVars, loopVars, cancelled, admitted, mainVars, panicked, overtaken>>

Results == {"PASSED", "PASSED_WITH_WARNINGS", "FAILED"}

NoVerdict == [result |-> "nil", of |-> 0]

Passes(v) == v.result \in {"PASSED", "PASSED_WITH_WARNINGS"}

Alive == ~panicked /\ exitCode = -1

-----------------------------------------------------------------------------
(* StartRunFromConfig, StopRun and the handlers that call them. *)

CanStart == state \in {"idle", "stopped", "error"}

(* A runLoop that has called setError has yet to reach its deferred block. *)
ErrorUnhandled == state = "error" /\ \E r \in Runs : pc[r] = "defer"

(* Fault: only the handler looks at the state. *)
StartUnchecked ==
    /\ cur < MaxRuns
    /\ state' = "starting"
    /\ cur' = cur + 1
    /\ verdict' = NoVerdict
    /\ snapshot' = 0
    /\ pc' = [pc EXCEPT ![cur + 1] = "build"]
    /\ overtaken' = (overtaken \/ ErrorUnhandled)
    /\ UNCHANGED <<groups, done, cancelled, closed, ready, consumers, producing, periodic,
                   panicked>>

(* Fault: the results of the previous run are kept. *)
StartKeepsResults ==
    /\ CanStart
    /\ cur < MaxRuns
    /\ state' = "starting"
    /\ cur' = cur + 1
    /\ pc' = [pc EXCEPT ![cur + 1] = "build"]
    /\ overtaken' = (overtaken \/ ErrorUnhandled)
    /\ UNCHANGED <<groups, snapshot, verdict, done, cancelled, closed, ready, consumers,
                   producing, periodic, panicked>>

StartRunFromConfig ==
    /\ CanStart
    /\ cur < MaxRuns
    /\ state' = "starting"
    /\ cur' = cur + 1
    /\ verdict' = NoVerdict
    /\ snapshot' = 0
    /\ pc' = [pc EXCEPT ![cur + 1] = "build"]
    /\ overtaken' = (overtaken \/ ErrorUnhandled)
    /\ UNCHANGED <<groups, done, cancelled, closed, ready, consumers, producing, periodic,
                   panicked>>

(* POST /run/start looks at the state first and refuses an active engine. *)
handleRunStart ==
    /\ Alive /\ main # "unserved"
    /\ CanStart
    /\ admitted < MaxClients
    /\ admitted' = admitted + 1
    /\ UNCHANGED <<engineVars, loopVars, cancelled, mainVars, panicked, overtaken>>

(* Then, under the lock, the engine looks again; a state that has changed   *)
(* and a configuration that ToInternalConfig refuses are error replies.     *)
AdmittedStart ==
    /\ Alive
    /\ admitted > 0
    /\ admitted' = admitted - 1
    /\ \/ StartRunFromConfig
       \/ UNCHANGED <<engineVars, loopVars, cancelled, panicked, overtaken>>
    /\ UNCHANGED mainVars

(* POST /run/stop. *)
StopRun ==
    /\ Alive /\ main # "unserved"
    /\ state \in {"starting", "running"}
    /\ cancelled' = cancelled \cup {cur}
    /\ UNCHANGED <<engineVars, loopVars, admitted, mainVars, panicked, overtaken>>
-----------------------------------------------------------------------------
(* runLoop, shutdownWorkers and the deferred block. *)

At(r, l) == Alive /\ pc[r] = l

Goto(r, l) == pc' = [pc EXCEPT ![r] = l]

BuildGroups(r) ==
    /\ At(r, "build")
    /\ groups' = r
    /\ Goto(r, "consumers")
    /\ UNCHANGED <<state, cur, snapshot, verdict, done, closed, ready, consumers, producing,
                   periodic, cancelled, admitted, mainVars, panicked, overtaken>>

(* The consumers' context derives from the run's. *)
StartConsumers(r) ==
    /\ At(r, "consumers")
    /\ consumers' = consumers \cup {<<groups, r>>}
    /\ Goto(r, "ready")
    /\ UNCHANGED <<engineVars, done, closed, ready, producing, periodic, cancelled, admitted,
                   mainVars, panicked, overtaken>>

WaitForConsumerReady(r) ==
    /\ At(r, "ready")
    /\ groups \in ready
    /\ Goto(r, IF r \in cancelled THEN "defer" ELSE "warmup")
    /\ UNCHANGED <<engineVars, done, closed, ready, consumers, producing, periodic, cancelled,
                   admitted, mainVars, panicked, overtaken>>

(* WaitForConsumerReady gives up and setError is called. *)
ConsumerReadyTimeout(r) ==
    /\ At(r, "ready")
    /\ groups \notin ready
    /\ state' = "error"
    /\ Goto(r, "defer")
    /\ UNCHANGED <<cur, groups, snapshot, verdict, done, closed, ready, consumers, producing,
                   periodic, cancelled, admitted, mainVars, panicked, overtaken>>

(* warmup starts the producers ... *)
WarmupStart(r) ==
    /\ At(r, "warmup")
    /\ producing' = producing \cup {groups}
    /\ Goto(r, "warming")
    /\ UNCHANGED <<engineVars, done, closed, ready, consumers, periodic, cancelled, admitted,
                   mainVars, panicked, overtaken>>

(* Fault: a cancelled warmup returns before it stops its producers. *)
WarmupReturnsEarly(r) ==
    /\ At(r, "warming")
    /\ producing' = IF r \in cancelled THEN producing ELSE producing \ {groups}
    /\ Goto(r, "settling")
    /\ UNCHANGED <<engineVars, done, closed, ready, consumers, periodic, cancelled, admitted,
                   mainVars, panicked, overtaken>>

(* ... stops them when the time is up or the run is cancelled ... *)
WarmupStop(r) ==
    /\ At(r, "warming")
    /\ producing' = producing \ {groups}
    /\ Goto(r, "settling")
    /\ UNCHANGED <<engineVars, done, closed, ready, consumers, periodic, cancelled, admitted,
                   mainVars, panicked, overtaken>>

(* ... and resets the counters; runLoop then looks at its context. *)
WarmupReset(r) ==
    /\ At(r, "settling")
    /\ Goto(r, IF r \in cancelled THEN "defer" ELSE "produce")
    /\ UNCHANGED <<engineVars, done, closed, ready, consumers, producing, periodic, cancelled,
                   admitted, mainVars, panicked, overtaken>>

StartProducers(r) ==
    /\ At(r, "produce")
    /\ producing' = producing \cup {groups}
    /\ Goto(r, "launch")
    /\ UNCHANGED <<engineVars, done, closed, ready, consumers, periodic, cancelled, admitted,
                   mainVars, panicked, overtaken>>

(* The state becomes running and the periodic tasks start. *)
EnterRunning(r) ==
    /\ At(r, "launch")
    /\ state' = "running"
    /\ periodic' = periodic \cup {r}
    /\ Goto(r, "running")
    /\ UNCHANGED <<cur, groups, snapshot, verdict, done, closed, ready, consumers, producing,
                   cancelled, admitted, mainVars, panicked, overtaken>>

(* The select ends and the periodic tasks are cancelled and waited for. *)
LeaveRunning(r) ==
    /\ At(r, "running")
    /\ periodic' = periodic \ {r}
    /\ Goto(r, "halt")
    /\ UNCHANGED <<engineVars, done, closed, ready, consumers, producing, cancelled, admitted,
                   mainVars, panicked, overtaken>>

(* Fault: the select has no case for the context. *)
CancelUnseen(r) == FALSE /\ LeaveRunning(r)

RunCancelled(r) == r \in cancelled /\ LeaveRunning(r)

(* Only a run with a duration ends by itself. *)
DurationReached(r) == LeaveRunning(r)

EnterStopping(r) ==
    /\ At(r, "halt")
    /\ state' = "stopping"
    /\ Goto(r, "stopProducers")
    /\ UNCHANGED <<cur, groups, snapshot, verdict, done, closed, ready, consumers, producing,
                   periodic, cancelled, admitted, mainVars, panicked, overtaken>>

(* Fault: the consumers are stopped along with the producers. *)
StopWorkersTogether(r) ==
    /\ At(r, "stopProducers")
    /\ producing' = producing \ {groups}
    /\ consumers' = {c \in consumers : c[1] # groups}
    /\ Goto(r, "drain")
    /\ UNCHANGED <<engineVars, done, closed, ready, periodic, cancelled, admitted, mainVars,
                   panicked, overtaken>>

StopProducers(r) ==
    /\ At(r, "stopProducers")
    /\ producing' = producing \ {groups}
    /\ Goto(r, "drain")
    /\ UNCHANGED <<engineVars, done, closed, ready, consumers, periodic, cancelled, admitted,
                   mainVars, panicked, overtaken>>

(* drainToQuiescence ends, at the latest at its deadline, and the counters  *)
(* are frozen.                                                              *)
captureWorkerSnapshots(r) ==
    /\ At(r, "drain")
    /\ snapshot' = groups
    /\ Goto(r, "stopConsumers")
    /\ UNCHANGED <<state, cur, groups, verdict, done, closed, ready, consumers, producing,
                   periodic, cancelled, admitted, mainVars, panicked, overtaken>>

(* Cancels the group's consumers and waits until they are gone. *)
StopConsumers(r) ==
    /\ At(r, "stopConsumers")
    /\ consumers' = {c \in consumers : c[1] # groups}
    /\ Goto(r, "verdict")
    /\ UNCHANGED <<engineVars, done, closed, ready, producing, periodic, cancelled, admitted,
                   mainVars, panicked, overtaken>>

computeVerdict(r) ==
    /\ At(r, "verdict")
    /\ \E result \in Results : verdict' = [result |-> result, of |-> snapshot]
    /\ Goto(r, "defer")
    /\ UNCHANGED <<state, cur, groups, snapshot, done, closed, ready, consumers, producing,
                   periodic, cancelled, admitted, mainVars, panicked, overtaken>>

(* The locked part of the deferred block ... *)
Deferred(r) ==
    /\ At(r, "defer")
    /\ state' = IF state = "error" THEN "error" ELSE "stopped"
    /\ done' = [done EXCEPT ![r] = cur]
    /\ Goto(r, "close")
    /\ UNCHANGED <<cur, groups, snapshot, verdict, closed, ready, consumers, producing,
                   periodic, cancelled, admitted, mainVars, panicked, overtaken>>

(* ... and the close that follows it; closing a closed channel panics. *)
CloseDone(r) ==
    /\ At(r, "close")
    /\ closed' = closed \cup {done[r]}
    /\ panicked' = (done[r] \in closed)
    /\ Goto(r, "returned")
    /\ UNCHANGED <<engineVars, done, ready, consumers, producing, periodic, cancelled, admitted,
                   mainVars, overtaken>>

runLoop(r) ==
    \/ BuildGroups(r) \/ StartConsumers(r) \/ WaitForConsumerReady(r)
    \/ ConsumerReadyTimeout(r) \/ WarmupStart(r) \/ WarmupStop(r) \/ WarmupReset(r)
    \/ StartProducers(r) \/ EnterRunning(r) \/ RunCancelled(r) \/ EnterStopping(r)
    \/ StopProducers(r) \/ captureWorkerSnapshots(r) \/ StopConsumers(r)
    \/ computeVerdict(r) \/ Deferred(r) \/ CloseDone(r)

-----------------------------------------------------------------------------
(* The workers, as the engine sees them. *)

(* A group whose consumers run signals that they are receiving. *)
signalReady(g) ==
    /\ Alive
    /\ g \notin ready
    /\ \E r \in Runs : <<g, r>> \in consumers
    /\ ready' = ready \cup {g}
    /\ UNCHANGED <<engineVars, pc, done, closed, consumers, producing, periodic, cancelled,
                   admitted, mainVars, panicked, overtaken>>

(* Consumers return once the context they run under is cancelled. *)
ConsumersReturn(g, r) ==
    /\ Alive
    /\ <<g, r>> \in consumers
    /\ r \in cancelled
    /\ consumers' = consumers \ {<<g, r>>}
    /\ UNCHANGED <<engineVars, pc, done, closed, ready, producing, periodic, cancelled, admitted,
                   mainVars, panicked, overtaken>>
-----------------------------------------------------------------------------
(* main: an optional start, waitForExit, GracefulShutdown and the exit. *)

(* With -run, main starts a run itself, after the server is up.  It exits   *)
(* when a client was faster.                                                *)
MainStart ==
    /\ Alive
    /\ main = "boot"
    /\ \/ StartRunFromConfig /\ main' = "waiting" /\ UNCHANGED exitCode
       \/ /\ ~CanStart
          /\ exitCode' = 1
          /\ UNCHANGED <<engineVars, loopVars, cancelled, main, panicked, overtaken>>
    /\ UNCHANGED <<admitted, awaited, timedOut, passed>>

(* A signal, or the end of a bounded -run, ends the wait. *)
waitForExit ==
    /\ Alive
    /\ main = "waiting"
    /\ main' = "shutdown"
    /\ UNCHANGED <<engineVars, loopVars, cancelled, admitted, awaited, timedOut, passed,
                   exitCode, panicked, overtaken>>

(* GracefulShutdown reads the state, runCancel and runDone ... *)
ShutdownRead ==
    /\ Alive
    /\ main = "shutdown"
    /\ \/ state \in {"starting", "running"} /\ awaited' = cur /\ main' = "cancel"
       \/ state \notin {"starting", "running"} /\ awaited' = 0 /\ main' = "verdict"
    /\ UNCHANGED <<engineVars, loopVars, cancelled, admitted, timedOut, passed, exitCode,
                   panicked, overtaken>>

(* ... cancels the run it saw ... *)
ShutdownCancel ==
    /\ Alive
    /\ main = "cancel"
    /\ cancelled' = cancelled \cup {awaited}
    /\ main' = "await"
    /\ UNCHANGED <<engineVars, loopVars, admitted, awaited, timedOut, passed, exitCode,
                   panicked, overtaken>>

(* Fault: the wait has no limit. *)
ShutdownWaitsForever ==
    /\ Alive
    /\ main = "await"
    /\ awaited \in closed
    /\ main' = "verdict"
    /\ UNCHANGED <<engineVars, loopVars, cancelled, admitted, awaited, timedOut, passed,
                   exitCode, panicked, overtaken>>

(* Fault: the wait ends as soon as the run is stopping. *)
ShutdownWaitsForState ==
    /\ Alive
    /\ main = "await"
    /\ \/ state = "stopping" /\ UNCHANGED timedOut
       \/ timedOut' = TRUE
    /\ main' = "verdict"
    /\ UNCHANGED <<engineVars, loopVars, cancelled, admitted, awaited, passed, exitCode,
                   panicked, overtaken>>

(* ... waits for it, for ninety seconds at most ... *)
ShutdownWait ==
    /\ Alive
    /\ main = "await"
    /\ \/ awaited \in closed /\ UNCHANGED timedOut
       \/ timedOut' = TRUE
    /\ main' = "verdict"
    /\ UNCHANGED <<engineVars, loopVars, cancelled, admitted, awaited, passed, exitCode,
                   panicked, overtaken>>

(* ... and returns the verdict there is by then. *)
ShutdownReturn ==
    /\ Alive
    /\ main = "verdict"
    /\ passed' = Passes(verdict)
    /\ main' = "reporting"
    /\ UNCHANGED <<engineVars, loopVars, cancelled, admitted, awaited, timedOut, exitCode,
                   panicked, overtaken>>

(* The report is written and the server stopped. *)
ServerStop ==
    /\ Alive
    /\ main = "reporting"
    /\ main' = "unserved"
    /\ UNCHANGED <<engineVars, loopVars, cancelled, admitted, awaited, timedOut, passed,
                   exitCode, panicked, overtaken>>

Exit ==
    /\ Alive
    /\ main = "unserved"
    /\ exitCode' = IF ~passed THEN 1
                   ELSE IF verdict.result = "PASSED_WITH_WARNINGS" THEN 2 ELSE 0
    /\ UNCHANGED <<engineVars, loopVars, cancelled, admitted, main, awaited, timedOut, passed,
                   panicked, overtaken>>

GracefulShutdown == ShutdownRead \/ ShutdownCancel \/ ShutdownWait \/ ShutdownReturn

-----------------------------------------------------------------------------

Init ==
    /\ state = "idle" /\ cur = 0 /\ groups = 0 /\ snapshot = 0 /\ verdict = NoVerdict
    /\ pc = [r \in Runs |-> "new"]
    /\ done = [r \in Runs |-> 0]
    /\ cancelled = {} /\ closed = {} /\ ready = {}
    /\ consumers = {} /\ producing = {} /\ periodic = {}
    /\ admitted = 0
    /\ main \in {"boot", "waiting"}
    /\ awaited = 0 /\ timedOut = FALSE /\ passed = FALSE /\ exitCode = -1
    /\ panicked = FALSE
    /\ overtaken = FALSE

Next ==
    \/ handleRunStart \/ AdmittedStart \/ StopRun
    \/ \E r \in Runs : runLoop(r) \/ DurationReached(r)
    \/ \E g \in Runs : signalReady(g)
    \/ \E g, r \in Runs : ConsumersReturn(g, r)
    \/ MainStart \/ waitForExit \/ GracefulShutdown \/ ServerStop \/ Exit

(* The goroutines of runs and main are scheduled; clients, signals and the  *)
(* broker are under no obligation, but the timeouts of WaitForConsumerReady *)
(* and GracefulShutdown are.                                                *)
Fairness ==
    /\ \A r \in Runs : WF_vars(runLoop(r))
    /\ \A g, r \in Runs : WF_vars(ConsumersReturn(g, r))
    /\ WF_vars(MainStart) /\ WF_vars(GracefulShutdown) /\ WF_vars(ServerStop) /\ WF_vars(Exit)

Spec == Init /\ [][Next]_vars /\ Fairness

-----------------------------------------------------------------------------

(* The runLoop of r has been started and not reached the end of its deferred block. *)
Unreturned(r) == pc[r] \notin {"new", "close", "returned"}

Starting == {"build", "consumers", "ready", "warmup", "warming", "settling", "produce", "launch"}
Running == {"running", "halt"}
Stopping == {"stopProducers", "drain", "stopConsumers", "verdict"}

(* However many clients start runs at once, at most one run is in progress, *)
(* it is the one StopRun and GracefulShutdown would cancel, and the state   *)
(* names its phase; runDone is closed once for each run, so the process     *)
(* does not panic (StartRunFromConfig, runLoop): unless a run is accepted   *)
(* in the gap between setError and the deferred block of an earlier one.    *)
OneRunAtATime ==
    ~overtaken =>
        /\ ~panicked
        /\ \A r \in Runs :
               /\ Unreturned(r) => r = cur
               /\ pc[r] \in Starting => state = "starting"
               /\ pc[r] \in Running => state = "running"
               /\ pc[r] \in Stopping => state = "stopping"
               /\ state \in {"starting", "running", "stopping"} => Unreturned(cur)

(* A run that has ended leaves nothing behind that still sends, and nothing *)
(* that receives under a live context, except the consumers of a run that   *)
(* ended in error (shutdownWorkers, warmup, the early returns of runLoop).  *)
NothingLeftRunning ==
    (~overtaken /\ state \in {"idle", "stopped", "error"}) =>
        /\ producing = {}
        /\ periodic = {}
        /\ state = "stopped" => <<cur, cur>> \notin consumers \/ cur \in cancelled

(* A verdict is about the current run, judges the counters frozen for that  *)
(* run, and is reached only when its workers are gone; an uncancelled run   *)
(* never stops without one (shutdownWorkers, computeVerdict).               *)
VerdictOfThisRun ==
    ~overtaken =>
        /\ verdict # NoVerdict =>
               /\ verdict.of = cur
               /\ snapshot = cur
               /\ cur \notin producing
               /\ \A r \in Runs : <<cur, r>> \notin consumers
        /\ state = "stopped" /\ cur \notin cancelled => verdict # NoVerdict

(* The drain window before the snapshot has its consumers, unless the run   *)
(* was cancelled (shutdownWorkers).                                         *)
DrainHasConsumersUnlessCancelled ==
    \A r \in Runs :
        pc[r] = "drain" /\ r \notin cancelled /\ ~overtaken => <<r, r>> \in consumers

(* GracefulShutdown, when it waited for a run and was not timed out, sees   *)
(* that run returned, and passes only with a verdict about it or a later    *)
(* one.                                                                     *)
ShutdownSawTheEnd ==
    (main \in {"verdict", "reporting"} /\ awaited # 0 /\ ~timedOut /\ ~overtaken) =>
        /\ pc[awaited] = "returned"
        /\ passed /\ cur = awaited /\ main = "reporting" => Passes(verdict)

(* A cancelled run returns, unless the process ends first: no wait in       *)
(* runLoop outlives the cancellation for ever.                              *)
CancelledRunReturns ==
    \A r \in Runs : (r \in cancelled) ~> (pc[r] = "returned" \/ ~Alive)

(* Once main begins to shut down, the process exits.                        *)
ShutdownExits == (main = "shutdown") ~> ~Alive

(* main.go:132 of waitForExit: stopped is "a terminal state", so no run is  *)
(* in progress in it.                                                       *)
StoppedIsTerminal ==
    state = "stopped" => \A r \in Runs : ~Unreturned(r)
=============================================================================
