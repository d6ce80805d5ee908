------------------------------ MODULE RunProofs ------------------------------
(***************************************************************************)
(* A run, from two sides.  First the lifecycle of Engine, for any number   *)
(* of runs and clients: the inductive invariant is TypeInv with            *)
(* LifecycleInv.  Then the measurement of BaseWorker, for any windows,     *)
(* configurations, seconds and messages: the inductive invariant is        *)
(* ConfigInv with WindowsInv.  The two specifications share no variable.   *)
(***************************************************************************)
EXTENDS Engine, BaseWorker, TLAPS, FiniteSetTheorems, WellFoundedInduction

Ended == {"defer", "close", "returned"}
Closing == {"close", "returned"}

Labels == {"new"} \cup Starting \cup Running \cup Stopping \cup Ended

TypeInv ==
    /\ state \in {"idle", "starting", "running", "stopping", "stopped", "error"}
    /\ cur \in 0 .. MaxRuns /\ groups \in 0 .. MaxRuns /\ snapshot \in 0 .. MaxRuns
    /\ pc \in [Runs -> Labels] /\ done \in [Runs -> 0 .. MaxRuns]
    /\ producing \subseteq 0 .. MaxRuns /\ periodic \subseteq Runs
    /\ consumers \subseteq (0 .. MaxRuns) \X Runs
    /\ awaited \in 0 .. MaxRuns

-----------------------------------------------------------------------------
(* The inductive invariant. *)

(* Runs follow one another, and the state names the phase of the last one. *)
Sequential ==
    /\ \A r \in Runs : (r < cur => pc[r] \in Closing) /\ (r > cur => pc[r] = "new")
    /\ state = "idle" <=> cur = 0
    /\ cur # 0 =>
           /\ state = "starting" => pc[cur] \in Starting \cup {"defer"}
           /\ state = "running" => pc[cur] \in Running
           /\ state = "stopping" => pc[cur] \in Stopping \cup {"defer"}
           /\ state = "stopped" => pc[cur] \in Closing
           /\ state = "error" => pc[cur] \in Ended

(* Each deferred block closes the channel of its own run. *)
ClosesItsOwn ==
    /\ ~panicked
    /\ \A r \in Runs : pc[r] \in Closing => done[r] = r
    /\ closed = {r \in Runs : pc[r] = "returned"}

(* Where a run has producers, and consumers unless it is cancelled. *)
Producing == {"warming", "launch", "running", "halt", "stopProducers"}
Attached ==
    {"ready", "warmup", "warming", "settling", "produce", "launch", "running", "halt",
     "stopProducers", "drain", "stopConsumers"}

(* What runs belongs to the current run and to its phase. *)
WorksForTheRun ==
    /\ cur # 0 /\ pc[cur] # "build" => groups = cur
    /\ producing \subseteq {cur} /\ periodic \subseteq {cur}
    /\ producing # {} => cur # 0 /\ pc[cur] \in Producing
    /\ periodic # {} => cur # 0 /\ pc[cur] = "running"
    /\ \A c \in consumers : c[1] = c[2]
    /\ cur # 0 /\ pc[cur] \in Attached /\ cur \notin cancelled => <<cur, cur>> \in consumers

(* Verdict and snapshot belong to the current run. *)
Judged ==
    /\ cur # 0 /\ pc[cur] \in {"stopConsumers", "verdict"} => snapshot = cur
    /\ cur # 0 /\ pc[cur] = "verdict" => <<cur, cur>> \notin consumers
    /\ verdict # NoVerdict =>
           /\ cur # 0 /\ pc[cur] \in Ended
           /\ verdict.of = cur /\ snapshot = cur
           /\ <<cur, cur>> \notin consumers
    /\ cur # 0 /\ pc[cur] \in Ended /\ state # "error" =>
           cur \in cancelled \/ verdict # NoVerdict

(* What GracefulShutdown waited for is over. *)
WaitedFor ==
    (main \in {"verdict", "reporting"} /\ awaited # 0 /\ ~timedOut) =>
        /\ awaited \in closed
        /\ passed /\ cur = awaited /\ main = "reporting" => Passes(verdict)

LifecycleInv ==
    ~overtaken => Sequential /\ ClosesItsOwn /\ WorksForTheRun /\ Judged /\ WaitedFor

-----------------------------------------------------------------------------
LEMMA TypeInit ==
    ASSUME Init
    PROVE  TypeInv
<1>1. pc \in [Runs -> Labels] /\ done \in [Runs -> 0 .. MaxRuns]
  BY MaxRunsAssumption DEF Init, Labels
<1> QED BY <1>1, MaxRunsAssumption DEF Init, TypeInv

LEMMA TypeStep ==
    ASSUME TypeInv, [Next]_vars
    PROVE  TypeInv'
<1> USE MaxRunsAssumption
<1> USE DEF TypeInv, vars, engineVars, loopVars, mainVars
<1>1. ASSUME StartRunFromConfig
      PROVE  /\ state' = "starting" /\ cur' \in 0 .. MaxRuns /\ snapshot' \in 0 .. MaxRuns
             /\ pc' \in [Runs -> Labels]
  BY <1>1 DEF StartRunFromConfig, Runs, Labels, Starting
<1>2. CASE handleRunStart \/ StopRun \/ waitForExit \/ ServerStop \/ Exit
  <2>1. UNCHANGED <<engineVars, loopVars, awaited>>
    BY <1>2, Zenon DEF handleRunStart, StopRun, waitForExit, ServerStop, Exit
  <2> QED BY <2>1, Zenon
<1>3. CASE AdmittedStart
  BY <1>3, <1>1, Zenon DEF AdmittedStart, StartRunFromConfig
<1>4. CASE MainStart
  BY <1>4, <1>1, Zenon DEF MainStart, StartRunFromConfig
<1>5. CASE GracefulShutdown
  <2>1. UNCHANGED <<engineVars, loopVars>> /\ awaited' \in 0 .. MaxRuns
    BY <1>5 DEF GracefulShutdown, ShutdownRead, ShutdownCancel, ShutdownWait, ShutdownReturn
  <2> QED BY <2>1, Zenon
<1>6. ASSUME NEW r \in Runs, runLoop(r) \/ DurationReached(r)
      PROVE  TypeInv'
  <2> USE DEF At, Goto, Labels, Starting, Running, Stopping, Ended
  <2>1. CASE BuildGroups(r)
    BY <2>1 DEF BuildGroups, Runs
  <2>2. CASE StartConsumers(r)
    BY <2>2 DEF StartConsumers, Runs
  <2>3. CASE WaitForConsumerReady(r)
    BY <2>3, Zenon DEF WaitForConsumerReady, Runs
  <2>4. CASE ConsumerReadyTimeout(r)
    BY <2>4, Zenon DEF ConsumerReadyTimeout, Runs
  <2>5. CASE WarmupStart(r)
    BY <2>5, Zenon DEF WarmupStart, Runs
  <2>6. CASE WarmupStop(r)
    BY <2>6, Zenon DEF WarmupStop, Runs
  <2>7. CASE WarmupReset(r)
    BY <2>7, Zenon DEF WarmupReset, Runs
  <2>8. CASE StartProducers(r)
    BY <2>8, Zenon DEF StartProducers, Runs
  <2>9. CASE EnterRunning(r)
    BY <2>9, Zenon DEF EnterRunning, Runs
  <2>10. CASE EnterStopping(r)
    BY <2>10, Zenon DEF EnterStopping, Runs
  <2>11. CASE StopProducers(r)
    BY <2>11, Zenon DEF StopProducers, Runs
  <2>12. CASE captureWorkerSnapshots(r)
    BY <2>12, Zenon DEF captureWorkerSnapshots, Runs
  <2>13. CASE StopConsumers(r)
    BY <2>13, Zenon DEF StopConsumers, Runs
  <2>14. CASE computeVerdict(r)
    BY <2>14, Zenon DEF computeVerdict, Runs
  <2>15. CASE Deferred(r)
    BY <2>15, Zenon DEF Deferred, Runs
  <2>16. CASE CloseDone(r)
    BY <2>16, Zenon DEF CloseDone, Runs
  <2>17. CASE LeaveRunning(r)
    BY <2>17, Zenon DEF LeaveRunning
  <2> QED
    BY <1>6, <2>1, <2>2, <2>3, <2>4, <2>5, <2>6, <2>7, <2>8, <2>9, <2>10,
       <2>11, <2>12, <2>13, <2>14, <2>15, <2>16, <2>17, Zenon
    DEF runLoop, DurationReached, RunCancelled
<1>7. ASSUME NEW g \in Runs, signalReady(g)
      PROVE  TypeInv'
  BY <1>7, Zenon DEF signalReady
<1>8. ASSUME NEW g \in Runs, NEW r \in Runs, ConsumersReturn(g, r)
      PROVE  TypeInv'
  BY <1>8, Zenon DEF ConsumersReturn
<1>9. CASE UNCHANGED vars
  BY <1>9, Zenon
<1> QED BY <1>2, <1>3, <1>4, <1>5, <1>6, <1>7, <1>8, <1>9, Zenon DEF Next

-----------------------------------------------------------------------------
(* A step of runLoop is one of the current run, or closes runDone. *)
LEMMA OnlyTheCurrentRuns ==
    ASSUME TypeInv, Sequential, NEW r \in Runs, pc[r] \notin {"new", "close", "returned"}
    PROVE  r = cur /\ cur # 0
<1>1. r \in 1 .. MaxRuns /\ cur \in 0 .. MaxRuns
  BY Zenon DEF TypeInv, Runs
<1>2. ~(r < cur) /\ ~(r > cur)
  BY Zenon DEF Sequential, Closing
<1> QED BY ONLY <1>1, <1>2, MaxRunsAssumption

LEMMA RunLoopStep ==
    ASSUME TypeInv, Sequential, ClosesItsOwn, WorksForTheRun, Judged, WaitedFor,
           NEW r \in Runs, runLoop(r) \/ DurationReached(r)
    PROVE  (Sequential /\ ClosesItsOwn /\ WorksForTheRun /\ Judged /\ WaitedFor)'
<1> USE MaxRunsAssumption
<1> USE DEF TypeInv, vars, engineVars, loopVars, mainVars, At, Goto, Runs
<1> USE DEF Sequential, ClosesItsOwn, WorksForTheRun, Judged, WaitedFor
<1> USE DEF Starting, Running, Stopping, Ended, Closing, Producing, Attached
<1>1. CASE BuildGroups(r)
  <2>1. r = cur /\ cur # 0
    BY <1>1, OnlyTheCurrentRuns, Zenon DEF BuildGroups
  <2> QED BY <1>1, <2>1 DEF BuildGroups
<1>2. CASE StartConsumers(r)
  <2>1. r = cur /\ cur # 0
    BY <1>2, OnlyTheCurrentRuns, Zenon DEF StartConsumers
  <2> QED BY <1>2, <2>1 DEF StartConsumers
<1>3. CASE WaitForConsumerReady(r)
  <2>1. r = cur /\ cur # 0
    BY <1>3, OnlyTheCurrentRuns, Zenon DEF WaitForConsumerReady
  <2> QED BY <1>3, <2>1 DEF WaitForConsumerReady
<1>4. CASE ConsumerReadyTimeout(r)
  <2>1. r = cur /\ cur # 0
    BY <1>4, OnlyTheCurrentRuns, Zenon DEF ConsumerReadyTimeout
  <2> QED BY <1>4, <2>1 DEF ConsumerReadyTimeout
<1>5. CASE WarmupStart(r)
  <2>1. r = cur /\ cur # 0
    BY <1>5, OnlyTheCurrentRuns, Zenon DEF WarmupStart
  <2> QED BY <1>5, <2>1 DEF WarmupStart
<1>6. CASE WarmupStop(r)
  <2>1. r = cur /\ cur # 0
    BY <1>6, OnlyTheCurrentRuns, Zenon DEF WarmupStop
  <2>2. groups = cur /\ producing' = {}
    BY <1>6, <2>1 DEF WarmupStop
  <2>3. WorksForTheRun'
    BY <1>6, <2>1, <2>2, Zenon DEF WarmupStop
  <2>4. Sequential' /\ ClosesItsOwn'
    BY <1>6, <2>1 DEF WarmupStop
  <2>5. Judged' /\ WaitedFor'
    BY <1>6, <2>1 DEF WarmupStop
  <2> QED BY ONLY <2>3, <2>4, <2>5
<1>7. CASE WarmupReset(r)
  <2>1. r = cur /\ cur # 0
    BY <1>7, OnlyTheCurrentRuns, Zenon DEF WarmupReset
  <2> QED BY <1>7, <2>1 DEF WarmupReset
<1>8. CASE StartProducers(r)
  <2>1. r = cur /\ cur # 0
    BY <1>8, OnlyTheCurrentRuns, Zenon DEF StartProducers
  <2> QED BY <1>8, <2>1 DEF StartProducers
<1>9. CASE EnterRunning(r)
  <2>1. r = cur /\ cur # 0
    BY <1>9, OnlyTheCurrentRuns, Zenon DEF EnterRunning
  <2> QED BY <1>9, <2>1 DEF EnterRunning
<1>10. CASE LeaveRunning(r)
  <2>1. r = cur /\ cur # 0
    BY <1>10, OnlyTheCurrentRuns, Zenon DEF LeaveRunning
  <2>2. groups = cur /\ periodic' = {}
    BY <1>10, <2>1 DEF LeaveRunning
  <2>3. WorksForTheRun'
    BY <1>10, <2>1, <2>2, Zenon DEF LeaveRunning
  <2>4. Sequential' /\ ClosesItsOwn'
    BY <1>10, <2>1 DEF LeaveRunning
  <2>5. Judged' /\ WaitedFor'
    BY <1>10, <2>1 DEF LeaveRunning
  <2> QED BY ONLY <2>3, <2>4, <2>5
<1>11. CASE EnterStopping(r)
  <2>1. r = cur /\ cur # 0
    BY <1>11, OnlyTheCurrentRuns, Zenon DEF EnterStopping
  <2> QED BY <1>11, <2>1 DEF EnterStopping
<1>12. CASE StopProducers(r)
  <2>1. r = cur /\ cur # 0
    BY <1>12, OnlyTheCurrentRuns, Zenon DEF StopProducers
  <2>2. groups = cur /\ producing' = {}
    BY <1>12, <2>1 DEF StopProducers
  <2>3. WorksForTheRun'
    BY <1>12, <2>1, <2>2, Zenon DEF StopProducers
  <2>4. Sequential' /\ ClosesItsOwn'
    BY <1>12, <2>1 DEF StopProducers
  <2>5. Judged' /\ WaitedFor'
    BY <1>12, <2>1 DEF StopProducers
  <2> QED BY ONLY <2>3, <2>4, <2>5
<1>13. CASE captureWorkerSnapshots(r)
  <2>1. r = cur /\ cur # 0
    BY <1>13, OnlyTheCurrentRuns, Zenon DEF captureWorkerSnapshots
  <2> QED BY <1>13, <2>1 DEF captureWorkerSnapshots
<1>14. CASE StopConsumers(r)
  <2>1. r = cur /\ cur # 0
    BY <1>14, OnlyTheCurrentRuns, Zenon DEF StopConsumers
  <2> QED BY <1>14, <2>1 DEF StopConsumers
<1>15. CASE computeVerdict(r)
  <2>1. r = cur /\ cur # 0
    BY <1>15, OnlyTheCurrentRuns, Zenon DEF computeVerdict
  <2>2. PICK result \in Results : verdict' = [result |-> result, of |-> snapshot]
    BY <1>15, Zenon DEF computeVerdict
  <2>3. verdict'.of = snapshot /\ verdict'.result \in Results /\ verdict' # NoVerdict
    BY <2>2, Zenon DEF Results, NoVerdict
  <2>4. UNCHANGED <<closed, main, awaited, timedOut, cur, consumers, snapshot>> /\ snapshot = cur
    BY <1>15, <2>1, Zenon DEF computeVerdict
  <2>5. awaited \in closed => awaited # cur
    BY <1>15, <2>1, Zenon DEF computeVerdict
  <2>6. WaitedFor'
    BY <2>4, <2>5, Zenon
  <2>7. Judged'
    BY <1>15, <2>1, <2>3, <2>4 DEF computeVerdict
  <2> QED BY <1>15, <2>1, <2>6, <2>7 DEF computeVerdict
<1>16. CASE Deferred(r)
  <2>1. r = cur /\ cur # 0
    BY <1>16, OnlyTheCurrentRuns, Zenon DEF Deferred
  <2> QED BY <1>16, <2>1 DEF Deferred
<1>17. CASE CloseDone(r)
  <2>1. done[r] = r /\ r \notin closed /\ pc[r] = "close"
    BY <1>17, Zenon DEF CloseDone
  <2>2. ~panicked' /\ closed' = closed \cup {r}
    BY <1>17, <2>1, Zenon DEF CloseDone
  <2>3. ClosesItsOwn'
    BY <1>17, <2>1, <2>2 DEF CloseDone
  <2> QED BY <1>17, <2>1, <2>2, <2>3 DEF CloseDone
<1> QED
  BY <1>1, <1>2, <1>3, <1>4, <1>5, <1>6, <1>7, <1>8, <1>9, <1>10, <1>11, <1>12,
     <1>13, <1>14, <1>15, <1>16, <1>17, Zenon
  DEF runLoop, DurationReached, RunCancelled

LEMMA StartStep ==
    ASSUME TypeInv, Sequential, ClosesItsOwn, WorksForTheRun, Judged, WaitedFor,
           StartRunFromConfig, ~overtaken', UNCHANGED <<awaited, timedOut, passed>>,
           main' = main \/ main' = "waiting"
    PROVE  (Sequential /\ ClosesItsOwn /\ WorksForTheRun /\ Judged /\ WaitedFor)'
<1> USE MaxRunsAssumption
<1> USE DEF TypeInv, Runs
<1> USE DEF Sequential, ClosesItsOwn, WorksForTheRun, Judged, WaitedFor
<1> USE DEF Starting, Running, Stopping, Ended, Closing, Producing, Attached
<1>1. /\ CanStart /\ cur < MaxRuns /\ state' = "starting" /\ cur' = cur + 1
      /\ verdict' = NoVerdict /\ snapshot' = 0 /\ pc' = [pc EXCEPT ![cur + 1] = "build"]
      /\ UNCHANGED <<groups, done, closed, consumers, producing, periodic, panicked>>
  BY Zenon DEF StartRunFromConfig
<1>2. ~ErrorUnhandled
  BY Zenon DEF StartRunFromConfig
<1>3. \A r \in Runs : r <= cur => pc[r] \in Closing
  BY <1>1, <1>2 DEF CanStart, ErrorUnhandled
<1>4. cur + 1 \in Runs /\ pc[cur + 1] = "new" /\ pc'[cur'] = "build"
  BY <1>1
<1>5. Sequential'
  BY <1>1, <1>3, <1>4
<1>6. ClosesItsOwn'
  BY <1>1, <1>4, Zenon
<1>7. producing = {} /\ periodic = {}
  BY <1>1, <1>3
<1>8. WorksForTheRun' /\ Judged'
  BY <1>1, <1>4, <1>7, Zenon
<1>9. \A r \in closed : r # cur'
  BY <1>1, <1>4, Zenon
<1>10. WaitedFor'
  BY <1>1, <1>9, Zenon
<1> QED BY <1>5, <1>6, <1>8, <1>10, Zenon

LEMMA LifecycleStep ==
    ASSUME TypeInv, LifecycleInv, [Next]_vars
    PROVE  LifecycleInv'
<1> USE DEF vars, engineVars, loopVars, mainVars
<1> SUFFICES ASSUME ~overtaken'
             PROVE  (Sequential /\ ClosesItsOwn /\ WorksForTheRun /\ Judged /\ WaitedFor)'
  BY Zenon DEF LifecycleInv
<1>1. CASE \E r \in Runs : runLoop(r) \/ DurationReached(r)
  <2>1. PICK r \in Runs : runLoop(r) \/ DurationReached(r)
    BY <1>1, Zenon
  <2>2. overtaken' = overtaken
    BY <2>1, Zenon
    DEF runLoop, DurationReached, RunCancelled, LeaveRunning, BuildGroups, StartConsumers,
        WaitForConsumerReady, ConsumerReadyTimeout, WarmupStart, WarmupStop, WarmupReset,
        StartProducers, EnterRunning, EnterStopping, StopProducers, captureWorkerSnapshots,
        StopConsumers, computeVerdict, Deferred, CloseDone
  <2> QED BY <2>1, <2>2, RunLoopStep, Zenon DEF LifecycleInv
<1>2. ASSUME StartRunFromConfig PROVE ~overtaken
  BY <1>2, Zenon DEF StartRunFromConfig
<1>3. ASSUME UNCHANGED <<engineVars, loopVars, panicked, overtaken>>, cancelled \subseteq cancelled'
      PROVE  (Sequential /\ ClosesItsOwn /\ WorksForTheRun /\ Judged)' /\ LifecycleInv
             /\ ~overtaken /\ Sequential /\ ClosesItsOwn /\ WorksForTheRun /\ Judged /\ WaitedFor
  BY <1>3 DEF LifecycleInv, Sequential, ClosesItsOwn, WorksForTheRun, Judged
<1>4. ASSUME UNCHANGED <<engineVars, closed, main, awaited, timedOut, passed>>, WaitedFor
      PROVE  WaitedFor'
  BY <1>4, Zenon DEF WaitedFor
<1>5. CASE handleRunStart \/ StopRun
  BY <1>5, <1>3, <1>4, Zenon DEF handleRunStart, StopRun
<1>6. CASE AdmittedStart
  <2>1. CASE StartRunFromConfig
    BY <1>6, <2>1, <1>2, StartStep, Zenon DEF AdmittedStart, LifecycleInv
  <2>2. CASE ~StartRunFromConfig
    BY <1>6, <2>2, <1>3, <1>4, Zenon DEF AdmittedStart
  <2> QED BY <2>1, <2>2, Zenon
<1>7. CASE MainStart
  <2>1. CASE StartRunFromConfig
    BY <1>7, <2>1, <1>2, StartStep, Zenon DEF MainStart, LifecycleInv
  <2>2. CASE ~StartRunFromConfig
    BY <1>7, <2>2, <1>3, <1>4, Zenon DEF MainStart
  <2> QED BY <2>1, <2>2, Zenon
<1>8. CASE waitForExit \/ ServerStop \/ ShutdownCancel
  <2>1. main' \notin {"verdict", "reporting"}
    BY <1>8, Zenon DEF waitForExit, ServerStop, ShutdownCancel
  <2>2. UNCHANGED <<engineVars, loopVars, panicked, overtaken>> /\ cancelled \subseteq cancelled'
    BY <1>8, Zenon DEF waitForExit, ServerStop, ShutdownCancel
  <2> QED BY <2>1, <2>2, <1>3, Zenon DEF WaitedFor
<1>9. CASE Exit
  BY <1>9, <1>3, <1>4, Zenon DEF Exit
<1>10. CASE ShutdownRead \/ ShutdownWait
  <2>1. UNCHANGED <<engineVars, loopVars, panicked, overtaken>> /\ cancelled \subseteq cancelled'
    BY <1>10, Zenon DEF ShutdownRead, ShutdownWait
  <2>2. WaitedFor'
    BY <1>10, <2>1, <1>3, Zenon DEF ShutdownRead, ShutdownWait, WaitedFor
  <2> QED BY <2>1, <2>2, <1>3, Zenon
<1>11. CASE ShutdownReturn
  <2>1. UNCHANGED <<engineVars, loopVars, panicked, overtaken>> /\ cancelled \subseteq cancelled'
    BY <1>11, Zenon DEF ShutdownReturn
  <2>2. passed' <=> Passes(verdict')
    BY <1>11, <2>1, Zenon DEF ShutdownReturn
  <2>3. WaitedFor'
    BY <1>11, <2>1, <2>2, <1>3, Zenon DEF ShutdownReturn, WaitedFor
  <2> QED BY <2>1, <2>3, <1>3, Zenon
<1>12. CASE \E g \in Runs : signalReady(g)
  <2>1. UNCHANGED <<engineVars, pc, done, closed, consumers, producing, periodic, cancelled,
                    mainVars, panicked, overtaken>>
    BY <1>12, Zenon DEF signalReady
  <2> QED BY <2>1 DEF LifecycleInv, Sequential, ClosesItsOwn, WorksForTheRun, Judged, WaitedFor
<1>13. CASE \E g, r \in Runs : ConsumersReturn(g, r)
  <2>1. PICK g \in Runs, r \in Runs : ConsumersReturn(g, r)
    BY <1>13, Zenon
  <2>2. /\ UNCHANGED <<engineVars, pc, done, closed, producing, periodic, cancelled, mainVars,
                       panicked, overtaken>>
        /\ r \in cancelled /\ consumers' = consumers \ {<<g, r>>}
    BY <2>1, Zenon DEF ConsumersReturn
  <2>3. WorksForTheRun'
    BY <2>2, Zenon DEF LifecycleInv, WorksForTheRun
  <2> QED BY <2>2, <2>3 DEF LifecycleInv, Sequential, ClosesItsOwn, Judged, WaitedFor
<1>14. CASE UNCHANGED vars
  BY <1>14 DEF LifecycleInv, Sequential, ClosesItsOwn, WorksForTheRun, Judged, WaitedFor
<1> QED
  BY <1>1, <1>5, <1>6, <1>7, <1>8, <1>9, <1>10, <1>11, <1>12, <1>13, <1>14, Zenon
  DEF Next, GracefulShutdown

LEMMA Lifecycle == Spec => [](TypeInv /\ LifecycleInv)
<1>1. Init => TypeInv /\ LifecycleInv
  <2> SUFFICES ASSUME Init PROVE TypeInv /\ LifecycleInv
    BY Zenon
  <2>1. \A r \in Runs : pc[r] = "new" /\ ~(r < cur) /\ pc[r] \notin Closing
    BY MaxRunsAssumption DEF Init, Runs, Closing
  <2>2. Sequential /\ ClosesItsOwn
    BY <2>1, Zenon DEF Init, Sequential, ClosesItsOwn
  <2>3. WorksForTheRun /\ Judged /\ WaitedFor
    BY Zenon DEF Init, WorksForTheRun, Judged, WaitedFor
  <2> QED BY TypeInit, <2>2, <2>3, Zenon DEF LifecycleInv
<1>2. TypeInv /\ LifecycleInv /\ [Next]_vars => TypeInv' /\ LifecycleInv'
  BY TypeStep, LifecycleStep, Zenon
<1> QED BY <1>1, <1>2, PTL DEF Spec

-----------------------------------------------------------------------------

(* However many clients start runs, one run at a time is in progress, the  *)
(* state names its phase, and no runDone is closed twice                    *)
(* (StartRunFromConfig, runLoop).                                           *)
THEOREM OneAtATime == Spec => []OneRunAtATime
<1>1. TypeInv /\ LifecycleInv => OneRunAtATime
  <2> SUFFICES ASSUME TypeInv, LifecycleInv, ~overtaken, NEW r \in Runs
               PROVE  /\ ~panicked
                      /\ Unreturned(r) => r = cur
                      /\ pc[r] \in Starting => state = "starting"
                      /\ pc[r] \in Running => state = "running"
                      /\ pc[r] \in Stopping => state = "stopping"
                      /\ state \in {"starting", "running", "stopping"} => Unreturned(cur)
    BY Zenon DEF OneRunAtATime, LifecycleInv, ClosesItsOwn
  <2>1. Sequential /\ ~panicked
    BY Zenon DEF LifecycleInv, ClosesItsOwn
  <2>2. Unreturned(r) => r = cur /\ cur # 0
    BY <2>1, OnlyTheCurrentRuns, Zenon DEF Unreturned
  <2>3. pc[r] \in Starting \cup Running \cup Stopping => Unreturned(r)
    BY Zenon DEF Starting, Running, Stopping, Unreturned
  <2> QED
    BY <2>1, <2>2, <2>3, Zenon
    DEF TypeInv, Sequential, Starting, Running, Stopping, Ended, Closing, Unreturned
<1> QED BY <1>1, Lifecycle, PTL

(* A run that has ended leaves no producer, no periodic task and no         *)
(* consumer under a live context behind, unless it ended in error           *)
(* (shutdownWorkers, warmup, the early returns of runLoop).                 *)
THEOREM EndsClean == Spec => []NothingLeftRunning
<1>1. TypeInv /\ LifecycleInv => NothingLeftRunning
  <2> SUFFICES ASSUME TypeInv, LifecycleInv, ~overtaken, state \in {"idle", "stopped", "error"}
               PROVE  /\ producing = {} /\ periodic = {}
                      /\ state = "stopped" => <<cur, cur>> \notin consumers \/ cur \in cancelled
    BY Zenon DEF NothingLeftRunning
  <2>1. cur # 0 => pc[cur] \in Ended
    BY Zenon DEF LifecycleInv, Sequential, Ended, Closing
  <2>2. producing = {} /\ periodic = {}
    BY <2>1, Zenon DEF LifecycleInv, WorksForTheRun, Ended, Producing
  <2>3. state = "stopped" => <<cur, cur>> \notin consumers \/ cur \in cancelled
    BY <2>1, Zenon DEF LifecycleInv, Sequential, Judged
  <2> QED BY <2>2, <2>3, Zenon
<1> QED BY <1>1, Lifecycle, PTL

(* A verdict judges the snapshot of the current run, after its workers are  *)
(* gone, and a run that stops uncancelled has one (computeVerdict).         *)
THEOREM JudgesTheRun == Spec => []VerdictOfThisRun
<1>1. TypeInv /\ LifecycleInv => VerdictOfThisRun
  <2> SUFFICES ASSUME TypeInv, LifecycleInv, ~overtaken
               PROVE  /\ verdict # NoVerdict =>
                             /\ verdict.of = cur /\ snapshot = cur /\ cur \notin producing
                             /\ \A r \in Runs : <<cur, r>> \notin consumers
                      /\ state = "stopped" /\ cur \notin cancelled => verdict # NoVerdict
    BY Zenon DEF VerdictOfThisRun
  <2>1. verdict # NoVerdict => producing = {}
    BY Zenon DEF LifecycleInv, Judged, WorksForTheRun, Ended, Producing
  <2>2. ASSUME <<cur, cur>> \notin consumers, NEW r \in Runs
        PROVE  <<cur, r>> \notin consumers
    <3>1. <<cur, r>> \in consumers => cur = r
      BY Zenon DEF LifecycleInv, WorksForTheRun
    <3> QED BY <2>2, <3>1, Zenon
  <2>3. state = "stopped" => cur # 0 /\ pc[cur] \in Ended
    BY Zenon DEF LifecycleInv, Sequential, Closing, Ended
  <2> QED BY <2>1, <2>2, <2>3, Zenon DEF LifecycleInv, Judged
<1> QED BY <1>1, Lifecycle, PTL

(* The drain before the snapshot has its consumers unless the run was       *)
(* cancelled (shutdownWorkers).                                             *)
THEOREM DrainsWithConsumers == Spec => []DrainHasConsumersUnlessCancelled
<1>1. TypeInv /\ LifecycleInv => DrainHasConsumersUnlessCancelled
  <2> SUFFICES ASSUME TypeInv, LifecycleInv, NEW r \in Runs, pc[r] = "drain", r \notin cancelled,
                      ~overtaken
               PROVE  <<r, r>> \in consumers
    BY Zenon DEF DrainHasConsumersUnlessCancelled
  <2>1. r = cur /\ cur # 0
    BY OnlyTheCurrentRuns, Zenon DEF LifecycleInv
  <2> QED BY <2>1, Zenon DEF LifecycleInv, WorksForTheRun, Attached
<1> QED BY <1>1, Lifecycle, PTL

(* A GracefulShutdown that waited and did not give up has seen its run      *)
(* return, and passes only with a passing verdict.                          *)
THEOREM ShutdownWaits == Spec => []ShutdownSawTheEnd
<1>1. TypeInv /\ LifecycleInv => ShutdownSawTheEnd
  BY Zenon DEF LifecycleInv, ClosesItsOwn, WaitedFor, ShutdownSawTheEnd
<1> QED BY <1>1, Lifecycle, PTL

-----------------------------------------------------------------------------
(* Sums over finite sets.  SumFunctionOnSet is a fold, and a fold is the     *)
(* choice of a function; what it computes follows by induction over the      *)
(* subsets, each property given as the set of those that have it.            *)

(* A nonempty set of naturals has a least element. *)
LEMMA LeastNat ==
    ASSUME NEW S \in SUBSET Nat, S # {}
    PROVE  \E n \in S : \A m \in S : n <= m
<1> DEFINE R == OpToRel(<, Nat)
<1>1. IsWellFoundedOn(R, Nat)
  BY NatLessThanWellFounded, Zenon
<1>2. \A a, b \in Nat : a < b => <<a, b>> \in R
  BY Zenon DEF OpToRel
<1> HIDE DEF R
<1>3. PICK n \in S : \A m \in S : ~(<<m, n>> \in R)
  BY <1>1, WFMin, Zenon
<1>4. ASSUME NEW m \in S PROVE n <= m
  <2>1. ~(m < n)
    BY <1>2, <1>3, Zenon
  <2> QED BY <2>1
<1> QED BY <1>4, Zenon

(* Induction, for a property that is given as the set of its members. *)
LEMMA SetInduction ==
    ASSUME NEW S, 0 \in S, \A n \in Nat : n \in S => n + 1 \in S
    PROVE  Nat \subseteq S
<1> SUFFICES ASSUME Nat \ S # {} PROVE FALSE
  BY Zenon
<1>1. PICK n \in Nat \ S : \A m \in Nat \ S : n <= m
  BY LeastNat, Zenon
<1>2. n # 0 /\ n - 1 \in Nat
  BY <1>1
<1>3. n - 1 \in S
  BY <1>1, <1>2
<1>4. (n - 1) + 1 = n
  BY <1>1
<1> QED BY <1>1, <1>2, <1>3, <1>4, Zenon

Picked(s) == CHOOSE x \in s : TRUE

(* The sums of f over the sets in D, from those over smaller ones, g. *)
SumStep(f, D, g) == [s \in D |-> IF s = {} THEN 0 ELSE f[Picked(s)] + g[s \ {Picked(s)}]]

UpTo(S, n) == {s \in SUBSET S : Cardinality(s) <= n}

(* A subset without its picked element is a smaller one. *)
LEMMA SmallerSet ==
    ASSUME NEW S, IsFiniteSet(S), NEW s \in SUBSET S, s # {}
    PROVE  /\ Picked(s) \in s /\ s \ {Picked(s)} \in SUBSET S
           /\ IsFiniteSet(s) /\ Cardinality(s) \in Nat
           /\ Cardinality(s \ {Picked(s)}) = Cardinality(s) - 1
           /\ Cardinality(s) - 1 \in Nat
<1>1. Picked(s) \in s
  BY Zenon DEF Picked
<1>2. IsFiniteSet(s)
  BY FS_Subset, Zenon
<1>3. /\ IsFiniteSet(s \ {Picked(s)})
      /\ Cardinality(s \ {Picked(s)}) = Cardinality(s) - 1
  BY <1>1, <1>2, FS_RemoveElement, Zenon
<1>4. Cardinality(s) \in Nat /\ Cardinality(s \ {Picked(s)}) \in Nat
  BY <1>2, <1>3, FS_CardinalityType, Zenon
<1> QED BY <1>1, <1>2, <1>3, <1>4, Zenon

(* Induction over the subsets of a finite set. *)
LEMMA SubsetInduction ==
    ASSUME NEW S, IsFiniteSet(S), NEW P, {} \in P,
           \A s \in SUBSET S : s # {} /\ s \ {Picked(s)} \in P => s \in P
    PROVE  SUBSET S \subseteq P
<1> DEFINE N == {n \in Nat : UpTo(S, n) \subseteq P}
<1>1. 0 \in N
  <2>1. ASSUME NEW s \in UpTo(S, 0) PROVE s = {}
    <3>1. s \in SUBSET S /\ Cardinality(s) <= 0
      BY Zenon DEF UpTo
    <3>2. s # {} => Cardinality(s) \in Nat /\ Cardinality(s) - 1 \in Nat
      BY <3>1, SmallerSet, Zenon
    <3> QED BY <3>1, <3>2
  <2> QED BY <2>1, Zenon
<1>2. ASSUME NEW n \in Nat, n \in N
      PROVE  n + 1 \in N
  <2>1. ASSUME NEW s \in UpTo(S, n + 1), s # {}
        PROVE  s \in P
    <3>1. s \in SUBSET S /\ Cardinality(s) <= n + 1
      BY Zenon DEF UpTo
    <3>2. s \ {Picked(s)} \in SUBSET S /\ Cardinality(s \ {Picked(s)}) <= n
      BY <2>1, <3>1, SmallerSet
    <3>3. s \ {Picked(s)} \in P
      BY <1>2, <3>2, Zenon DEF UpTo
    <3> QED BY <2>1, <3>1, <3>3, Zenon
  <2>2. UpTo(S, n + 1) \subseteq P
    BY <2>1, Zenon
  <2> QED BY <2>2
<1>3. Nat \subseteq N
  <2> HIDE DEF N
  <2> QED BY <1>1, <1>2, SetInduction, Zenon
<1>4. Cardinality(S) \in Nat
  BY FS_CardinalityType, Zenon
<1>5. UpTo(S, Cardinality(S)) = SUBSET S
  BY FS_Subset, Zenon DEF UpTo
<1> QED BY <1>3, <1>4, <1>5

(* Some function holds the sums over all subsets. *)
LEMMA SumExists ==
    ASSUME NEW S, IsFiniteSet(S), NEW f, \A x \in S : f[x] \in Int
    PROVE  \E g \in [SUBSET S -> Int] : g = SumStep(f, SUBSET S, g)
<1> DEFINE N == {n \in Nat : \E g \in [UpTo(S, n) -> Int] : g = SumStep(f, UpTo(S, n), g)}
<1>1. 0 \in N
  <2>1. ASSUME NEW s \in UpTo(S, 0) PROVE s = {}
    <3>1. s \in SUBSET S /\ Cardinality(s) <= 0
      BY Zenon DEF UpTo
    <3>2. s # {} => Cardinality(s) \in Nat /\ Cardinality(s) - 1 \in Nat
      BY <3>1, SmallerSet, Zenon
    <3> QED BY <3>1, <3>2
  <2> DEFINE g == [s \in UpTo(S, 0) |-> 0]
  <2>2. g = SumStep(f, UpTo(S, 0), g)
    BY <2>1, Zenon DEF SumStep
  <2> QED BY <2>2
<1>2. ASSUME NEW n \in Nat, n \in N
      PROVE  n + 1 \in N
  <2>1. PICK g \in [UpTo(S, n) -> Int] : g = SumStep(f, UpTo(S, n), g)
    BY <1>2, Zenon
  <2> DEFINE h == SumStep(f, UpTo(S, n + 1), g)
  <2>2. ASSUME NEW s \in UpTo(S, n + 1), s # {}
        PROVE  Picked(s) \in S /\ s \ {Picked(s)} \in UpTo(S, n)
    <3>1. s \in SUBSET S /\ Cardinality(s) <= n + 1
      BY Zenon DEF UpTo
    <3>2. /\ Picked(s) \in S /\ s \ {Picked(s)} \in SUBSET S
          /\ Cardinality(s \ {Picked(s)}) <= n
      BY <2>2, <3>1, SmallerSet
    <3> QED BY <3>2, Zenon DEF UpTo
  <2>3. h \in [UpTo(S, n + 1) -> Int]
    <3>1. ASSUME NEW s \in UpTo(S, n + 1)
          PROVE  (IF s = {} THEN 0 ELSE f[Picked(s)] + g[s \ {Picked(s)}]) \in Int
      <4>1. CASE s = {}
        BY <4>1
      <4>2. CASE s # {}
        <5>1. f[Picked(s)] \in Int /\ g[s \ {Picked(s)}] \in Int
          BY <2>2, <4>2, Zenon
        <5> QED BY <4>2, <5>1
      <4> QED BY <4>1, <4>2, Zenon
    <3> QED BY <3>1, Zenon DEF SumStep
  <2>4. ASSUME NEW s \in UpTo(S, n)
        PROVE  s \in UpTo(S, n + 1) /\ h[s] = g[s]
    <3>1. s \in UpTo(S, n + 1)
      <4>1. s \in SUBSET S /\ IsFiniteSet(s) /\ Cardinality(s) <= n
        BY FS_Subset, Zenon DEF UpTo
      <4>2. Cardinality(s) \in Nat
        BY <4>1, FS_CardinalityType, Zenon
      <4> QED BY <4>1, <4>2 DEF UpTo
    <3>2. g[s] = IF s = {} THEN 0 ELSE f[Picked(s)] + g[s \ {Picked(s)}]
      BY <2>1, Zenon DEF SumStep
    <3>3. h[s] = IF s = {} THEN 0 ELSE f[Picked(s)] + g[s \ {Picked(s)}]
      BY <3>1, Zenon DEF SumStep
    <3> QED BY <3>1, <3>2, <3>3
  <2>5. ASSUME NEW s \in UpTo(S, n + 1)
        PROVE  h[s] = IF s = {} THEN 0 ELSE f[Picked(s)] + h[s \ {Picked(s)}]
    <3>1. h[s] = IF s = {} THEN 0 ELSE f[Picked(s)] + g[s \ {Picked(s)}]
      BY Zenon DEF SumStep
    <3> HIDE DEF h
    <3> QED BY <3>1, <2>2, <2>4, Zenon
  <2>6. h = SumStep(f, UpTo(S, n + 1), h)
    <3> HIDE DEF h
    <3> QED BY <2>3, <2>5, Zenon DEF SumStep
  <2> HIDE DEF h
  <2> QED BY <2>3, <2>6
<1>3. Nat \subseteq N
  <2> HIDE DEF N
  <2> QED BY <1>1, <1>2, SetInduction, Zenon
<1>4. Cardinality(S) \in Nat
  BY FS_CardinalityType, Zenon
<1>5. UpTo(S, Cardinality(S)) = SUBSET S
  BY FS_Subset, Zenon DEF UpTo
<1> QED BY <1>3, <1>4, <1>5, Zenon

(* g holds the sums of f over the subsets of S. *)
Sums(g, f, S) ==
    /\ IsFiniteSet(S) /\ \A x \in S : f[x] \in Int
    /\ g \in [SUBSET S -> Int]
    /\ \A s \in SUBSET S : g[s] = IF s = {} THEN 0 ELSE f[Picked(s)] + g[s \ {Picked(s)}]

(* What the fold behind SumFunctionOnSet computes. *)
LEMMA SumUnfolds ==
    ASSUME NEW S, IsFiniteSet(S), NEW f, \A x \in S : f[x] \in Int
    PROVE  \E g : Sums(g, f, S) /\ SumFunctionOnSet(f, S) = g[S]
<1> DEFINE g == CHOOSE h : h = SumStep(f, SUBSET S, h)
<1>1. \E h : h = SumStep(f, SUBSET S, h)
  BY SumExists, Zenon
<1>2. g = SumStep(f, SUBSET S, g)
  BY <1>1, Zenon
<1>3. SumFunctionOnSet(f, S) = g[S]
  BY Zenon DEF SumFunctionOnSet, FoldFunctionOnSet, MapThenFoldSet, SumStep, Picked
<1> HIDE DEF g
<1>4. \A s \in SUBSET S : g[s] = IF s = {} THEN 0 ELSE f[Picked(s)] + g[s \ {Picked(s)}]
  BY <1>2, Zenon DEF SumStep
<1> DEFINE P == {s \in SUBSET S : g[s] \in Int}
<1>5. {} \in P
  <2>1. {} \in SUBSET S
    BY Zenon
  <2>2. g[{}] = 0
    BY <1>4, <2>1, Zenon
  <2> QED BY <2>1, <2>2
<1>6. ASSUME NEW s \in SUBSET S, s # {}, s \ {Picked(s)} \in P
      PROVE  s \in P
  <2>1. f[Picked(s)] \in Int /\ g[s \ {Picked(s)}] \in Int
    BY <1>6, SmallerSet, Zenon
  <2>2. g[s] = f[Picked(s)] + g[s \ {Picked(s)}]
    BY <1>4, <1>6, Zenon
  <2> QED BY <2>1, <2>2
<1>7. SUBSET S \subseteq P
  <2> HIDE DEF P
  <2> QED BY <1>5, <1>6, SubsetInduction, Zenon
<1>8. g \in [SUBSET S -> Int]
  BY <1>2, <1>7, Zenon DEF SumStep
<1> QED BY <1>3, <1>4, <1>8, Zenon DEF Sums

(* The same sums serve every subset, and every function that agrees there. *)
LEMMA SumAgrees ==
    ASSUME NEW S, NEW f, NEW g, Sums(g, f, S),
           NEW T \in SUBSET S, NEW h, \A x \in T : h[x] = f[x]
    PROVE  SumFunctionOnSet(h, T) = g[T]
<1>1. IsFiniteSet(T) /\ \A x \in T : h[x] \in Int
  BY FS_Subset, Zenon DEF Sums
<1>2. PICK k : Sums(k, h, T) /\ SumFunctionOnSet(h, T) = k[T]
  BY <1>1, SumUnfolds, Zenon
<1> DEFINE P == {s \in SUBSET T : k[s] = g[s]}
<1>3. {} \in P
  <2>1. {} \in SUBSET T /\ {} \in SUBSET S
    BY Zenon
  <2>2. k[{}] = 0 /\ g[{}] = 0
    BY <1>2, <2>1, Zenon DEF Sums
  <2> QED BY <2>1, <2>2, Zenon
<1>4. ASSUME NEW s \in SUBSET T, s # {}, s \ {Picked(s)} \in P
      PROVE  s \in P
  <2>1. Picked(s) \in T
    BY <1>1, <1>4, SmallerSet, Zenon
  <2>2. k[s] = h[Picked(s)] + k[s \ {Picked(s)}]
    BY <1>2, <1>4, Zenon DEF Sums
  <2>3. s \in SUBSET S
    BY Zenon
  <2>4. g[s] = f[Picked(s)] + g[s \ {Picked(s)}]
    BY <1>4, <2>3, Zenon DEF Sums
  <2>5. k[s \ {Picked(s)}] = g[s \ {Picked(s)}]
    BY <1>4, Zenon
  <2> QED BY <2>1, <2>2, <2>4, <2>5, Zenon
<1>5. SUBSET T \subseteq P
  <2> HIDE DEF P
  <2> QED BY <1>1, <1>3, <1>4, SubsetInduction, Zenon
<1> QED BY <1>2, <1>5, Zenon

(* Whichever element is taken out first. *)
LEMMA SumAnyOrder ==
    ASSUME NEW S, NEW f, NEW g, Sums(g, f, S), NEW q \in S
    PROVE  g[S] = f[q] + g[S \ {q}]
<1>0. IsFiniteSet(S) /\ \A x \in S : f[x] \in Int
  BY Zenon DEF Sums
<1> USE <1>0
<1> DEFINE N == {n \in Nat : \A s \in UpTo(S, n) : \A x \in s : g[s] = f[x] + g[s \ {x}]}
<1>1. 0 \in N
  <2>1. ASSUME NEW s \in UpTo(S, 0) PROVE s = {}
    <3>1. s \in SUBSET S /\ Cardinality(s) <= 0
      BY Zenon DEF UpTo
    <3>2. s # {} => Cardinality(s) \in Nat /\ Cardinality(s) - 1 \in Nat
      BY <3>1, SmallerSet, Zenon
    <3> QED BY <3>1, <3>2
  <2> QED BY <2>1
<1>2. ASSUME NEW n \in Nat, n \in N
      PROVE  n + 1 \in N
  <2>1. ASSUME NEW s \in UpTo(S, n + 1), NEW x \in s
        PROVE  g[s] = f[x] + g[s \ {x}]
    <3> DEFINE p == Picked(s)
    <3>1. s \in SUBSET S /\ s # {} /\ Cardinality(s) <= n + 1
      BY Zenon DEF UpTo
    <3>2. /\ p \in s /\ IsFiniteSet(s) /\ Cardinality(s) \in Nat
          /\ Cardinality(s \ {p}) = Cardinality(s) - 1
      BY <3>1, SmallerSet, Zenon
    <3>3. Cardinality(s \ {x}) = Cardinality(s) - 1
      BY <3>2, FS_RemoveElement, Zenon
    <3>4. s \ {p} \in UpTo(S, n) /\ s \ {x} \in UpTo(S, n)
      BY <3>1, <3>2, <3>3 DEF UpTo
    <3>5. g[s] = f[p] + g[s \ {p}]
      BY <3>1, Zenon DEF Sums
    <3> HIDE DEF p
    <3>6. CASE x = p
      BY <3>5, <3>6, Zenon
    <3>7. CASE x # p
      <4>1. x \in s \ {p} /\ p \in s \ {x}
        BY <3>2, <3>7, Zenon
      <4>2. g[s \ {p}] = f[x] + g[(s \ {p}) \ {x}]
        BY <1>2, <3>4, <4>1, Zenon
      <4>3. g[s \ {x}] = f[p] + g[(s \ {x}) \ {p}]
        BY <1>2, <3>4, <4>1, Zenon
      <4>4. (s \ {p}) \ {x} = (s \ {x}) \ {p} /\ (s \ {p}) \ {x} \in SUBSET S
        BY <3>1, Zenon
      <4>5. f[x] \in Int /\ f[p] \in Int /\ g[(s \ {p}) \ {x}] \in Int
        BY <3>1, <3>2, <4>4, Zenon DEF Sums
      <4>6. g[s] = f[p] + (f[x] + g[(s \ {p}) \ {x}]) /\ g[s \ {x}] = f[p] + g[(s \ {p}) \ {x}]
        BY <3>5, <4>2, <4>3, <4>4, Zenon
      <4> QED BY <4>5, <4>6
    <3> QED BY <3>6, <3>7, Zenon
  <2> QED BY <2>1
<1>3. Nat \subseteq N
  <2> HIDE DEF N
  <2> QED BY <1>1, <1>2, SetInduction, Zenon
<1>4. Cardinality(S) \in Nat
  BY FS_CardinalityType, Zenon
<1>5. UpTo(S, Cardinality(S)) = SUBSET S
  BY FS_Subset, Zenon DEF UpTo
<1> QED BY <1>3, <1>4, <1>5, Zenon

(* The facts about SumFunctionOnSet that the rest uses. *)
LEMMA SumEmpty == ASSUME NEW f PROVE SumFunctionOnSet(f, {}) = 0
<1>1. IsFiniteSet({}) /\ \A x \in {} : f[x] \in Int
  BY FS_EmptySet, Zenon
<1>2. PICK g : Sums(g, f, {}) /\ SumFunctionOnSet(f, {}) = g[{}]
  BY <1>1, SumUnfolds, Zenon
<1> QED BY <1>2, Zenon DEF Sums

LEMMA SumRemove ==
    ASSUME NEW S, IsFiniteSet(S), NEW f, \A x \in S : f[x] \in Int, NEW q \in S
    PROVE  /\ SumFunctionOnSet(f, S) = f[q] + SumFunctionOnSet(f, S \ {q})
           /\ SumFunctionOnSet(f, S \ {q}) \in Int
<1>1. PICK g : Sums(g, f, S) /\ SumFunctionOnSet(f, S) = g[S]
  BY SumUnfolds, Zenon
<1> DEFINE T == S \ {q}
<1>2. S \in SUBSET S /\ T \in SUBSET S /\ \A x \in T : f[x] = f[x]
  BY Zenon
<1>3. SumFunctionOnSet(f, T) = g[T]
  <2> HIDE DEF T
  <2> QED BY <1>1, <1>2, SumAgrees
<1>4. g[S] = f[q] + g[T]
  <2>1. Sums(g, f, S)
    BY <1>1, Zenon
  <2> QED BY ONLY <2>1, SumAnyOrder
<1>5. g[T] \in Int
  BY <1>1, <1>2, Zenon DEF Sums
<1> QED BY <1>1, <1>3, <1>4, <1>5, Zenon

LEMMA SumSame ==
    ASSUME NEW S, IsFiniteSet(S), NEW f, \A x \in S : f[x] \in Int,
           NEW h, \A x \in S : h[x] = f[x]
    PROVE  SumFunctionOnSet(h, S) = SumFunctionOnSet(f, S) /\ SumFunctionOnSet(f, S) \in Int
<1>1. PICK g : Sums(g, f, S) /\ SumFunctionOnSet(f, S) = g[S]
  BY SumUnfolds, Zenon
<1>2. S \in SUBSET S
  BY Zenon
<1>3. SumFunctionOnSet(h, S) = g[S]
  BY <1>1, <1>2, SumAgrees
<1>4. g[S] \in Int
  BY <1>1, <1>2 DEF Sums
<1> QED BY <1>1, <1>3, <1>4, Zenon

LEMMA SumOfNats ==
    ASSUME NEW S, IsFiniteSet(S), NEW f, \A x \in S : f[x] \in Nat
    PROVE  SumFunctionOnSet(f, S) \in Nat
<1>1. \A x \in S : f[x] \in Int
  OBVIOUS
<1>2. PICK g : Sums(g, f, S) /\ SumFunctionOnSet(f, S) = g[S]
  BY <1>1, SumUnfolds, Zenon
<1> DEFINE P == {s \in SUBSET S : g[s] \in Nat}
<1>3. {} \in P
  <2>1. {} \in SUBSET S
    BY Zenon
  <2>2. g[{}] = 0
    BY <1>2, <2>1, Zenon DEF Sums
  <2> QED BY <2>1, <2>2
<1>4. ASSUME NEW s \in SUBSET S, s # {}, s \ {Picked(s)} \in P
      PROVE  s \in P
  <2>1. f[Picked(s)] \in Nat /\ g[s \ {Picked(s)}] \in Nat
    BY <1>4, SmallerSet, Zenon
  <2>2. g[s] = f[Picked(s)] + g[s \ {Picked(s)}]
    BY <1>2, <1>4, Zenon DEF Sums
  <2> QED BY <2>1, <2>2
<1>5. SUBSET S \subseteq P
  <2> HIDE DEF P
  <2> QED BY <1>3, <1>4, SubsetInduction, Zenon
<1> QED BY <1>2, <1>5, Zenon

(* A change at one place changes the sum by as much. *)
LEMMA SumChange ==
    ASSUME NEW S, IsFiniteSet(S), NEW f, \A x \in S : f[x] \in Int, NEW q \in S,
           NEW h, h[q] \in Int, \A x \in S \ {q} : h[x] = f[x]
    PROVE  /\ SumFunctionOnSet(h, S) = SumFunctionOnSet(f, S) - f[q] + h[q]
           /\ SumFunctionOnSet(f, S) \in Int
<1>1. \A x \in S : h[x] \in Int
  BY Zenon
<1>2. /\ SumFunctionOnSet(f, S) = f[q] + SumFunctionOnSet(f, S \ {q})
      /\ SumFunctionOnSet(f, S \ {q}) \in Int
  BY SumRemove
<1>3. SumFunctionOnSet(h, S) = h[q] + SumFunctionOnSet(h, S \ {q})
  BY <1>1, SumRemove
<1>4. IsFiniteSet(S \ {q}) /\ \A x \in S \ {q} : f[x] \in Int
  BY FS_Subset, Zenon
<1>5. SumFunctionOnSet(h, S \ {q}) = SumFunctionOnSet(f, S \ {q})
  BY <1>4, SumSame
<1> QED BY <1>2, <1>3, <1>5

LEMMA SumOfZeros ==
    ASSUME NEW S, IsFiniteSet(S), NEW f, \A x \in S : f[x] = 0
    PROVE  SumFunctionOnSet(f, S) = 0
<1>1. \A x \in S : f[x] \in Int
  OBVIOUS
<1>2. PICK g : Sums(g, f, S) /\ SumFunctionOnSet(f, S) = g[S]
  BY <1>1, SumUnfolds, Zenon
<1> DEFINE P == {s \in SUBSET S : g[s] = 0}
<1>3. {} \in P
  BY <1>2, Zenon DEF Sums
<1>4. ASSUME NEW s \in SUBSET S, s # {}, s \ {Picked(s)} \in P
      PROVE  s \in P
  <2>1. f[Picked(s)] = 0 /\ g[s \ {Picked(s)}] = 0
    BY <1>4, SmallerSet, Zenon
  <2>2. g[s] = f[Picked(s)] + g[s \ {Picked(s)}]
    BY <1>2, <1>4, Zenon DEF Sums
  <2> QED BY <2>1, <2>2
<1>5. SUBSET S \subseteq P
  <2> HIDE DEF P
  <2> QED BY <1>3, <1>4, SubsetInduction, Zenon
<1> QED BY <1>2, <1>5, Zenon

-----------------------------------------------------------------------------
(* A ring of n buckets, one a second, of which bucket i is the current one: *)
(* k seconds back it is bucket Back(i, k, n).                               *)

Back(i, k, n) == IF k <= i THEN i - k ELSE i - k + n

Ring(buckets, i, log, n) ==
    /\ n \in Nat \ {0} /\ i \in 0 .. n - 1 /\ buckets \in [0 .. n - 1 -> Nat]
    /\ log \in Seq(Nat) /\ Len(log) >= 1
    /\ \A k \in 0 .. n - 1 :
           buckets[Back(i, k, n)] = IF k < Len(log) THEN log[Len(log) - k] ELSE 0

(* The seconds of a window are finitely many. *)
LEMMA FiniteSeconds ==
    ASSUME NEW t \in Int, NEW n \in Int
    PROVE  IsFiniteSet(1 .. t) /\ IsFiniteSet({j \in 1 .. t : j > t - n})
<1>1. IsFiniteSet(1 .. t)
  BY FS_Interval
<1> QED BY <1>1, FS_Subset, Zenon

(* A new ring, in the first second. *)
LEMMA RingNew ==
    ASSUME NEW n \in Nat \ {0}
    PROVE  /\ Ring([i \in 0 .. n - 1 |-> 0], 0, <<0>>, n)
           /\ LastSeconds(<<0>>, 1, n) = 0
           /\ SumFunction([i \in 0 .. n - 1 |-> 0]) = 0
<1>1. Ring([i \in 0 .. n - 1 |-> 0], 0, <<0>>, n)
  BY DEF Ring, Back
<1>2. LastSeconds(<<0>>, 1, n) = 0
  <2> DEFINE S == {j \in 1 .. 1 : j > 1 - n}
  <2>1. 1 \in Int /\ n \in Int
    OBVIOUS
  <2>2. IsFiniteSet(S)
    BY <2>1, FiniteSeconds, Zenon
  <2>3. \A x \in S : <<0>>[x] = 0
    OBVIOUS
  <2> HIDE DEF S
  <2>4. SumFunctionOnSet(<<0>>, S) = 0
    BY <2>2, <2>3, SumOfZeros
  <2> QED BY <2>4 DEF LastSeconds, S
<1>3. SumFunction([i \in 0 .. n - 1 |-> 0]) = 0
  <2> DEFINE f == [i \in 0 .. n - 1 |-> 0]
  <2>1. IsFiniteSet(0 .. n - 1) /\ DOMAIN f = 0 .. n - 1 /\ \A x \in 0 .. n - 1 : f[x] = 0
    BY FS_Interval
  <2> HIDE DEF f
  <2>2. SumFunctionOnSet(f, 0 .. n - 1) = 0
    BY <2>1, SumOfZeros
  <2> QED BY <2>1, <2>2, Zenon DEF SumFunction, f
<1> QED BY <1>1, <1>2, <1>3

(* One more message in the current second. *)
OneMore(f, x) == [f EXCEPT ![x] = @ + 1]

ToldOnce(b, i, log, n) ==
    LET c == OneMore(b, i)
        l == OneMore(log, Len(log))
    IN  /\ Ring(c, i, l, n) /\ Len(l) = Len(log)
        /\ LastSeconds(l, Len(log), n) = LastSeconds(log, Len(log), n) + 1
        /\ SumFunction(c) = SumFunction(b) + 1
        /\ \A t \in 1 .. Len(log) - 1 : LastSeconds(l, t, n) = LastSeconds(log, t, n)

LEMMA RingTold ==
    ASSUME NEW b, NEW i, NEW log, NEW n, Ring(b, i, log, n)
    PROVE  ToldOnce(b, i, log, n)
<1> DEFINE c == OneMore(b, i)
           l == OneMore(log, Len(log))
           L == Len(log)
<1>1. /\ n \in Nat \ {0} /\ i \in 0 .. n - 1 /\ b \in [0 .. n - 1 -> Nat]
      /\ log \in Seq(Nat) /\ L \in Nat /\ L >= 1 /\ L \in Int /\ n \in Int
  BY DEF Ring
<1>2. /\ l \in Seq(Nat) /\ Len(l) = L /\ l[L] = log[L] + 1
      /\ \A j \in 1 .. L : j # L => l[j] = log[j]
  BY <1>1 DEF OneMore
<1>3. /\ c \in [0 .. n - 1 -> Nat] /\ c[i] = b[i] + 1
      /\ \A j \in 0 .. n - 1 : j # i => c[j] = b[j]
  BY <1>1 DEF OneMore
<1> HIDE DEF c, l
<1>4. \A j \in 1 .. L : log[j] \in Nat /\ log[j] \in Int
  BY <1>1
<1>5. \A j \in 0 .. n - 1 : b[j] \in Nat /\ b[j] \in Int
  BY <1>1
<1>6. Ring(c, i, l, n)
  <2>1. ASSUME NEW k \in 0 .. n - 1
        PROVE  c[Back(i, k, n)] = IF k < Len(l) THEN l[Len(l) - k] ELSE 0
    <3>1. Back(i, k, n) \in 0 .. n - 1 /\ (Back(i, k, n) = i <=> k = 0)
      BY <1>1 DEF Back
    <3>2. b[Back(i, k, n)] = IF k < L THEN log[L - k] ELSE 0
      BY DEF Ring
    <3>3. CASE k = 0
      BY <1>1, <1>2, <1>3, <3>1, <3>2, <3>3
    <3>4. CASE k # 0
      <4>1. c[Back(i, k, n)] = b[Back(i, k, n)]
        BY <1>3, <3>1, <3>4
      <4>2. k < L => L - k \in 1 .. L /\ L - k # L
        BY <1>1, <3>4
      <4> QED BY <1>2, <3>2, <4>1, <4>2
    <3> QED BY <3>3, <3>4
  <2> QED BY <1>1, <1>2, <1>3, <2>1 DEF Ring
<1>7. LastSeconds(l, L, n) = LastSeconds(log, L, n) + 1
  <2> DEFINE S == {j \in 1 .. L : j > L - n}
  <2>1. IsFiniteSet(S)
    BY <1>1, FiniteSeconds, Zenon
  <2>2. L \in S /\ S \subseteq 1 .. L
    BY <1>1
  <2> HIDE DEF S
  <2>3. /\ \A x \in S : log[x] \in Int
        /\ l[L] \in Int /\ \A x \in S \ {L} : l[x] = log[x]
    BY <1>2, <1>4, <2>2
  <2>4. /\ SumFunctionOnSet(l, S) = SumFunctionOnSet(log, S) - log[L] + l[L]
        /\ SumFunctionOnSet(log, S) \in Int
    BY <2>1, <2>2, <2>3, SumChange, Zenon
  <2>5. SumFunctionOnSet(l, S) = SumFunctionOnSet(log, S) + 1
    BY <1>2, <1>4, <2>2, <2>4
  <2> QED BY <2>5, Zenon DEF LastSeconds, S
<1>8. SumFunction(c) = SumFunction(b) + 1
  <2>1. IsFiniteSet(0 .. n - 1)
    BY <1>1, FS_Interval
  <2>2. /\ SumFunctionOnSet(c, 0 .. n - 1) = SumFunctionOnSet(b, 0 .. n - 1) - b[i] + c[i]
        /\ SumFunctionOnSet(b, 0 .. n - 1) \in Int
    <3>1. c[i] \in Int /\ i \in 0 .. n - 1 /\ (\A x \in 0 .. n - 1 : b[x] \in Int)
          /\ \A x \in (0 .. n - 1) \ {i} : c[x] = b[x]
      BY <1>1, <1>3, <1>5
    <3> QED BY <2>1, <3>1, SumChange, Zenon
  <2>3. SumFunctionOnSet(c, 0 .. n - 1) = SumFunctionOnSet(b, 0 .. n - 1) + 1
    BY <1>1, <1>3, <1>5, <2>2
  <2>4. DOMAIN c = 0 .. n - 1 /\ DOMAIN b = 0 .. n - 1
    BY <1>1, <1>3
  <2> QED BY <2>3, <2>4, Zenon DEF SumFunction
<1>9. \A t \in 1 .. L - 1 : LastSeconds(l, t, n) = LastSeconds(log, t, n)
  <2> TAKE t \in 1 .. L - 1
  <2> DEFINE S == {j \in 1 .. t : j > t - n}
  <2>0. t \in Int /\ \A x \in 1 .. t : x \in 1 .. L /\ x # L
    BY <1>1
  <2>1. IsFiniteSet(S)
    BY <1>1, <2>0, FiniteSeconds, Zenon
  <2>2. \A x \in S : log[x] \in Int /\ l[x] = log[x]
    BY <1>2, <1>4, <2>0, Zenon
  <2> HIDE DEF S
  <2>3. SumFunctionOnSet(l, S) = SumFunctionOnSet(log, S)
    BY <2>1, <2>2, SumSame
  <2> QED BY <2>3, Zenon DEF LastSeconds, S
<1> QED BY <1>2, <1>6, <1>7, <1>8, <1>9, Zenon DEF c, l, ToldOnce

(* What a window was told is a number. *)
LEMMA SecondsAreInt ==
    ASSUME NEW b, NEW i, NEW log, NEW n, Ring(b, i, log, n), NEW t \in 1 .. Len(log)
    PROVE  LastSeconds(log, t, n) \in Int
<1> DEFINE S == {j \in 1 .. t : j > t - n}
<1>1. /\ t \in Int /\ n \in Int /\ (\A x \in 1 .. t : x \in 1 .. Len(log))
      /\ \A x \in 1 .. Len(log) : log[x] \in Int
  BY DEF Ring
<1>2. IsFiniteSet(S)
  BY <1>1, FiniteSeconds, Zenon
<1>3. \A x \in S : log[x] \in Int
  BY <1>1, Zenon
<1> HIDE DEF S
<1>4. SumFunctionOnSet(log, S) \in Int
  BY <1>2, <1>3, SumSame, Zenon
<1> QED BY <1>4, Zenon DEF LastSeconds, S

(* A window that moves on by a second gains that second and loses its first. *)
LEMMA SecondsShift ==
    ASSUME NEW t \in Nat, NEW n \in Nat \ {0}
    PROVE  LET S == {j \in 1 .. t : j > t - n}
               T == {j \in 1 .. t + 1 : j > (t + 1) - n}
           IN  t + 1 \in T /\ T \ {t + 1} = S \ {t - n + 1}
OBVIOUS

(* The bucket after the last one is the first. *)
LEMMA NextBucket ==
    ASSUME NEW n \in Nat \ {0}, NEW i \in 0 .. n - 1
    PROVE  /\ (i + 1) % n = IF i + 1 = n THEN 0 ELSE i + 1
           /\ (i + 1) % n \in 0 .. n - 1
<1>1. (i + 1) % n = IF i + 1 = n THEN 0 ELSE i + 1
  OBVIOUS
<1> QED BY <1>1

(* The next second: the bucket entered is the one of n seconds ago. *)
MovedOn(b, i, log, n) ==
    LET next == (i + 1) % n
        c == [b EXCEPT ![next] = 0]
        l == Append(log, 0)
    IN  /\ Ring(c, next, l, n) /\ Len(l) = Len(log) + 1
        /\ LastSeconds(l, Len(l), n) = LastSeconds(log, Len(log), n) - b[next]
        /\ SumFunction(c) = SumFunction(b) - b[next]
        /\ \A t \in 1 .. Len(log) : LastSeconds(l, t, n) = LastSeconds(log, t, n)

LEMMA RingNext ==
    ASSUME NEW b, NEW i, NEW log, NEW n, Ring(b, i, log, n)
    PROVE  MovedOn(b, i, log, n)
<1> DEFINE next == (i + 1) % n
           c == [b EXCEPT ![next] = 0]
           l == Append(log, 0)
           L == Len(log)
<1>1. /\ n \in Nat \ {0} /\ i \in 0 .. n - 1 /\ b \in [0 .. n - 1 -> Nat]
      /\ log \in Seq(Nat) /\ L \in Nat /\ L >= 1 /\ L \in Int /\ n \in Int
  BY DEF Ring
<1>2. /\ l \in Seq(Nat) /\ Len(l) = L + 1 /\ l[L + 1] = 0
      /\ \A j \in 1 .. L : l[j] = log[j]
  BY <1>1
<1>3. next = (IF i + 1 = n THEN 0 ELSE i + 1) /\ next \in 0 .. n - 1
  BY <1>1, NextBucket, Zenon
<1> HIDE DEF next
<1>4. /\ c \in [0 .. n - 1 -> Nat] /\ c[next] = 0
      /\ \A j \in 0 .. n - 1 : j # next => c[j] = b[j]
  BY <1>1, <1>3
<1>5. \A j \in 1 .. L : log[j] \in Nat /\ log[j] \in Int
  BY <1>1
<1>6. \A j \in 0 .. n - 1 : b[j] \in Nat /\ b[j] \in Int
  BY <1>1
<1>7. b[next] = IF n <= L THEN log[L - n + 1] ELSE 0
  <2>1. n - 1 \in 0 .. n - 1 /\ Back(i, n - 1, n) = next
    BY <1>1, <1>3 DEF Back
  <2>2. b[Back(i, n - 1, n)] = IF n - 1 < L THEN log[L - (n - 1)] ELSE 0
    BY <2>1 DEF Ring
  <2> QED BY <1>1, <2>1, <2>2
<1> HIDE DEF c, l
<1>8. Ring(c, next, l, n)
  <2>1. ASSUME NEW k \in 0 .. n - 1
        PROVE  c[Back(next, k, n)] = IF k < L + 1 THEN l[(L + 1) - k] ELSE 0
    <3>1. CASE k = 0
      <4>1. Back(next, k, n) = next /\ k < L + 1 /\ (L + 1) - k = L + 1
        BY <1>1, <1>3, <3>1 DEF Back
      <4> QED BY <1>2, <1>4, <4>1
    <3>2. CASE k # 0
      <4>1. /\ k - 1 \in 0 .. n - 1 /\ Back(next, k, n) = Back(i, k - 1, n)
            /\ Back(next, k, n) \in 0 .. n - 1 /\ Back(next, k, n) # next
        BY <1>1, <1>3, <3>2 DEF Back
      <4>2. b[Back(i, k - 1, n)] = IF k - 1 < L THEN log[L - (k - 1)] ELSE 0
        BY <4>1 DEF Ring
      <4>3. c[Back(next, k, n)] = b[Back(i, k - 1, n)]
        BY <1>4, <4>1, Zenon
      <4>4. /\ (k - 1 < L <=> k < L + 1) /\ L - (k - 1) = (L + 1) - k
            /\ k < L + 1 => (L + 1) - k \in 1 .. L
        BY <1>1, <3>2
      <4> QED BY <1>2, <4>2, <4>3, <4>4, Zenon
    <3> QED BY <3>1, <3>2
  <2>2. Len(l) >= 1
    BY <1>1, <1>2
  <2>3. \A k \in 0 .. n - 1 : c[Back(next, k, n)] = IF k < Len(l) THEN l[Len(l) - k] ELSE 0
    BY <1>2, <2>1, Zenon
  <2> QED BY <1>1, <1>2, <1>3, <1>4, <2>2, <2>3, Zenon DEF Ring
<1>9. LastSeconds(l, L + 1, n) = LastSeconds(log, L, n) - b[next]
  <2> DEFINE S == {j \in 1 .. L : j > L - n}
             T == {j \in 1 .. L + 1 : j > (L + 1) - n}
  <2>1. L + 1 \in Int
    BY <1>1
  <2>2. IsFiniteSet(S) /\ IsFiniteSet(T)
    BY <1>1, <2>1, FiniteSeconds, Zenon
  <2>3. L + 1 \in T /\ T \ {L + 1} = S \ {L - n + 1}
    BY <1>1, SecondsShift, Zenon
  <2>4. S \subseteq 1 .. L /\ (n <= L => L - n + 1 \in S) /\ (~(n <= L) => L - n + 1 \notin S)
    BY <1>1
  <2>5. \A x \in T : l[x] \in Int
    BY <1>1, <1>2, <1>5
  <2> HIDE DEF S, T
  <2>6. \A x \in S : log[x] \in Int /\ l[x] = log[x]
    BY <1>2, <1>5, <2>4, Zenon
  <2>7. /\ SumFunctionOnSet(l, T) = l[L + 1] + SumFunctionOnSet(l, T \ {L + 1})
        /\ SumFunctionOnSet(l, T \ {L + 1}) \in Int
    BY <2>2, <2>3, <2>5, SumRemove, Zenon
  <2>8. SumFunctionOnSet(l, T) = SumFunctionOnSet(l, S \ {L - n + 1})
        /\ SumFunctionOnSet(l, T) \in Int
    <3>1. SumFunctionOnSet(l, T) = 0 + SumFunctionOnSet(l, S \ {L - n + 1})
          /\ SumFunctionOnSet(l, S \ {L - n + 1}) \in Int
      BY <1>2, <2>3, <2>7, Zenon
    <3> QED BY ONLY <3>1
  <2>9. IsFiniteSet(S \ {L - n + 1})
    BY <2>2, FS_Subset, Zenon
  <2>10. SumFunctionOnSet(l, S \ {L - n + 1}) = SumFunctionOnSet(log, S \ {L - n + 1})
    BY <2>6, <2>9, SumSame, Zenon
  <2>11. SumFunctionOnSet(log, S) = SumFunctionOnSet(log, S \ {L - n + 1}) + b[next]
    <3>1. CASE n <= L
      <4>1. /\ SumFunctionOnSet(log, S)
                   = log[L - n + 1] + SumFunctionOnSet(log, S \ {L - n + 1})
            /\ SumFunctionOnSet(log, S \ {L - n + 1}) \in Int
        BY <2>2, <2>4, <2>6, <3>1, SumRemove, Zenon
      <4> QED BY <1>3, <1>6, <1>7, <3>1, <4>1
    <3>2. CASE ~(n <= L)
      <4>1. S \ {L - n + 1} = S
        BY <2>4, <3>2, Zenon
      <4>2. SumFunctionOnSet(log, S) \in Int
        BY <2>8, <2>10, <4>1, Zenon
      <4>3. SumFunctionOnSet(log, S) = SumFunctionOnSet(log, S) + 0
        BY ONLY <4>2
      <4> QED BY <1>7, <3>2, <4>1, <4>3, Zenon
    <3> QED BY <3>1, <3>2, Zenon
  <2>12. SumFunctionOnSet(l, T) = SumFunctionOnSet(log, S) - b[next]
    BY <1>3, <1>6, <2>8, <2>10, <2>11
  <2> QED BY <2>12, Zenon DEF LastSeconds, S, T
<1>10. SumFunction(c) = SumFunction(b) - b[next]
  <2>1. IsFiniteSet(0 .. n - 1)
    BY <1>1, FS_Interval
  <2>2. /\ c[next] \in Int /\ next \in 0 .. n - 1 /\ (\A x \in 0 .. n - 1 : b[x] \in Int)
        /\ \A x \in (0 .. n - 1) \ {next} : c[x] = b[x]
    BY <1>3, <1>4, <1>6
  <2>3. /\ SumFunctionOnSet(c, 0 .. n - 1) = SumFunctionOnSet(b, 0 .. n - 1) - b[next] + c[next]
        /\ SumFunctionOnSet(b, 0 .. n - 1) \in Int
    BY <2>1, <2>2, SumChange, Zenon
  <2>4. SumFunctionOnSet(c, 0 .. n - 1) = SumFunctionOnSet(b, 0 .. n - 1) - b[next]
    BY <1>4, <2>2, <2>3
  <2>5. DOMAIN c = 0 .. n - 1 /\ DOMAIN b = 0 .. n - 1
    BY <1>1, <1>4
  <2> QED BY <2>4, <2>5, Zenon DEF SumFunction
<1>11. \A t \in 1 .. L : LastSeconds(l, t, n) = LastSeconds(log, t, n)
  <2> TAKE t \in 1 .. L
  <2> DEFINE S == {j \in 1 .. t : j > t - n}
  <2>1. t \in Int /\ \A x \in 1 .. t : x \in 1 .. L
    BY <1>1
  <2>2. IsFiniteSet(S)
    BY <1>1, <2>1, FiniteSeconds, Zenon
  <2>3. \A x \in S : log[x] \in Int /\ l[x] = log[x]
    BY <1>2, <1>5, <2>1, Zenon
  <2> HIDE DEF S
  <2>4. SumFunctionOnSet(l, S) = SumFunctionOnSet(log, S)
    BY <2>2, <2>3, SumSame, Zenon
  <2> QED BY <2>4, Zenon DEF LastSeconds, S
<1> QED BY <1>2, <1>8, <1>9, <1>10, <1>11, Zenon DEF c, l, next, MovedOn

-----------------------------------------------------------------------------
(* The windows, each with the log of what it was told. *)

WindowOf(w, log) ==
    /\ w \in [buckets : [0 .. slidingWindowSize - 1 -> Nat], idx : 0 .. slidingWindowSize - 1,
              total : Int, ticks : Nat]
    /\ Ring(w.buckets, w.idx, log, slidingWindowSize)
    /\ w.total = LastSeconds(log, Len(log), slidingWindowSize)
    /\ w.ticks = Len(log) - 1

TruePeak(p, log) ==
    LET sums == {LastSeconds(log, t, peakWindowSize) : t \in 1 .. Len(log) - 1}
    IN  p \in sums \cup {0} /\ \A s \in sums : p >= s

PeakOf(p, log) ==
    /\ p \in [buckets : [0 .. peakWindowSize - 1 -> Nat], idx : 0 .. peakWindowSize - 1,
              peak : Int]
    /\ Ring(p.buckets, p.idx, log, peakWindowSize)
    /\ SumFunction(p.buckets) = LastSeconds(log, Len(log), peakWindowSize)
    /\ SumFunction(p.buckets) \in Int
    /\ TruePeak(p.peak, log)

(* The windows as they are made, as they record and as they advance. *)
LEMMA NewWindow == WindowOf(NewSlidingRateWindow, <<0>>)
<1> DEFINE n == slidingWindowSize
           z == [i \in 0 .. n - 1 |-> 0]
<1>1. n \in Nat \ {0}
  BY WindowSizes
<1>2. Ring(z, 0, <<0>>, n) /\ LastSeconds(<<0>>, 1, n) = 0
  BY <1>1, RingNew, Zenon
<1>3. z \in [0 .. n - 1 -> Nat] /\ 0 \in 0 .. n - 1 /\ Len(<<0>>) = 1 /\ 0 = 1 - 1
  BY <1>1
<1>4. /\ NewSlidingRateWindow \in [buckets : [0 .. n - 1 -> Nat], idx : 0 .. n - 1,
                                   total : Int, ticks : Nat]
      /\ NewSlidingRateWindow.buckets = z /\ NewSlidingRateWindow.idx = 0
      /\ NewSlidingRateWindow.total = 0 /\ NewSlidingRateWindow.ticks = 0
  BY <1>3 DEF NewSlidingRateWindow
<1> QED BY <1>2, <1>3, <1>4, Zenon DEF WindowOf

LEMMA WindowTold ==
    ASSUME NEW w, NEW log, WindowOf(w, log)
    PROVE  WindowOf(Record(w), OneMore(log, Len(log)))
<1> DEFINE n == slidingWindowSize
           c == OneMore(w.buckets, w.idx)
           l == OneMore(log, Len(log))
<1>1. /\ w \in [buckets : [0 .. n - 1 -> Nat], idx : 0 .. n - 1, total : Int, ticks : Nat]
      /\ Ring(w.buckets, w.idx, log, n)
      /\ w.total = LastSeconds(log, Len(log), n) /\ w.ticks = Len(log) - 1
  BY Zenon DEF WindowOf
<1>2. /\ Ring(c, w.idx, l, n) /\ Len(l) = Len(log)
      /\ LastSeconds(l, Len(log), n) = LastSeconds(log, Len(log), n) + 1
  <2>1. ToldOnce(w.buckets, w.idx, log, n)
    BY <1>1, RingTold, Zenon
  <2> QED BY ONLY <2>1, Zenon DEF ToldOnce
<1>3. c \in [0 .. n - 1 -> Nat]
  BY <1>2, Zenon DEF Ring
<1> HIDE DEF c, l
<1>4. /\ Record(w).buckets = c /\ Record(w).idx = w.idx
      /\ Record(w).total = w.total + 1 /\ Record(w).ticks = w.ticks
      /\ Record(w) \in [buckets : [0 .. n - 1 -> Nat], idx : 0 .. n - 1,
                        total : Int, ticks : Nat]
  <2>1. Record(w) = [w EXCEPT !.buckets = c, !.total = w.total + 1]
    <3>1. Record(w) = [w EXCEPT !.buckets[w.idx] = @ + 1, !.total = @ + 1]
      BY Zenon DEF Record
    <3> QED BY <1>1, <3>1 DEF c, OneMore
  <2>2. w.total + 1 \in Int
    BY <1>1
  <2> HIDE DEF c
  <2> QED BY ONLY <1>1, <1>3, <2>1, <2>2, Zenon
<1>5. WindowOf(Record(w), l)
  BY <1>1, <1>2, <1>4, Zenon DEF WindowOf
<1> QED BY <1>5, Zenon DEF l

LEMMA WindowNext ==
    ASSUME NEW w, NEW log, WindowOf(w, log)
    PROVE  WindowOf(Advance(w), Append(log, 0))
<1> DEFINE n == slidingWindowSize
           next == (w.idx + 1) % n
           c == [w.buckets EXCEPT ![next] = 0]
           l == Append(log, 0)
<1>1. /\ w \in [buckets : [0 .. n - 1 -> Nat], idx : 0 .. n - 1, total : Int, ticks : Nat]
      /\ Ring(w.buckets, w.idx, log, n)
      /\ w.total = LastSeconds(log, Len(log), n) /\ w.ticks = Len(log) - 1
  BY Zenon DEF WindowOf
<1>2. /\ Ring(c, next, l, n) /\ Len(l) = Len(log) + 1
      /\ LastSeconds(l, Len(l), n) = LastSeconds(log, Len(log), n) - w.buckets[next]
  <2>1. MovedOn(w.buckets, w.idx, log, n)
    BY <1>1, RingNext, Zenon
  <2> QED BY ONLY <2>1, Zenon DEF MovedOn
<1>3. c \in [0 .. n - 1 -> Nat] /\ next \in 0 .. n - 1
  BY <1>2, Zenon DEF Ring
<1>4. w.buckets[next] \in Int
  <2>1. w.buckets \in [0 .. n - 1 -> Nat]
    BY <1>1
  <2>2. w.buckets[next] \in Nat
    BY <1>3, <2>1, Zenon
  <2> QED BY <2>2
<1>5. /\ Advance(w).buckets = c /\ Advance(w).idx = next
      /\ Advance(w).total = w.total - w.buckets[next] /\ Advance(w).ticks = w.ticks + 1
      /\ Advance(w) \in [buckets : [0 .. n - 1 -> Nat], idx : 0 .. n - 1,
                         total : Int, ticks : Nat]
  <2> HIDE DEF next
  <2>1. Advance(w) = [w EXCEPT !.idx = next, !.total = @ - w.buckets[next],
                               !.buckets[next] = 0, !.ticks = @ + 1]
    BY Zenon DEF Advance, next
  <2> HIDE DEF c
  <2>2. Advance(w) = [w EXCEPT !.idx = next, !.total = w.total - w.buckets[next],
                               !.buckets = c, !.ticks = w.ticks + 1]
    BY <1>1, <2>1 DEF c
  <2>3. w.total - w.buckets[next] \in Int /\ w.ticks + 1 \in Nat
    BY <1>1, <1>4
  <2> QED BY ONLY <1>1, <1>3, <2>2, <2>3, Zenon
<1>6. Advance(w).ticks = Len(l) - 1
  <2>1. Len(log) \in Nat
    BY <1>1 DEF Ring
  <2> QED BY <1>1, <1>2, <1>5, <2>1
<1> HIDE DEF c, l, next
<1>7. WindowOf(Advance(w), l)
  BY <1>1, <1>2, <1>5, <1>6, Zenon DEF WindowOf
<1> QED BY <1>7, Zenon DEF l

LEMMA NewPeak == PeakOf(NewPeakRateTracker, <<0>>)
<1> DEFINE n == peakWindowSize
           z == [i \in 0 .. n - 1 |-> 0]
<1>1. n \in Nat \ {0}
  BY WindowSizes
<1>2. Ring(z, 0, <<0>>, n) /\ LastSeconds(<<0>>, 1, n) = 0 /\ SumFunction(z) = 0
  BY <1>1, RingNew, Zenon
<1>3. z \in [0 .. n - 1 -> Nat] /\ 0 \in 0 .. n - 1 /\ Len(<<0>>) = 1 /\ 0 \in Int
  BY <1>1
<1>4. /\ NewPeakRateTracker \in [buckets : [0 .. n - 1 -> Nat], idx : 0 .. n - 1, peak : Int]
      /\ NewPeakRateTracker.buckets = z /\ NewPeakRateTracker.idx = 0
      /\ NewPeakRateTracker.peak = 0
  BY <1>3 DEF NewPeakRateTracker
<1>5. TruePeak(0, <<0>>)
  <2>1. 1 .. Len(<<0>>) - 1 = {}
    OBVIOUS
  <2> QED BY <2>1, Zenon DEF TruePeak
<1> HIDE DEF z
<1> QED BY <1>2, <1>3, <1>4, <1>5, Zenon DEF PeakOf

LEMMA PeakTold ==
    ASSUME NEW p, NEW log, PeakOf(p, log)
    PROVE  PeakOf(PeakRecord(p), OneMore(log, Len(log)))
<1> DEFINE n == peakWindowSize
           c == OneMore(p.buckets, p.idx)
           l == OneMore(log, Len(log))
<1>1. /\ p \in [buckets : [0 .. n - 1 -> Nat], idx : 0 .. n - 1, peak : Int]
      /\ Ring(p.buckets, p.idx, log, n)
      /\ SumFunction(p.buckets) = LastSeconds(log, Len(log), n)
      /\ SumFunction(p.buckets) \in Int /\ TruePeak(p.peak, log)
  BY Zenon DEF PeakOf
<1>2. /\ Ring(c, p.idx, l, n) /\ Len(l) = Len(log)
      /\ LastSeconds(l, Len(log), n) = LastSeconds(log, Len(log), n) + 1
      /\ SumFunction(c) = SumFunction(p.buckets) + 1
      /\ \A t \in 1 .. Len(log) - 1 : LastSeconds(l, t, n) = LastSeconds(log, t, n)
  <2>1. ToldOnce(p.buckets, p.idx, log, n)
    BY <1>1, RingTold, Zenon
  <2> QED BY ONLY <2>1, Zenon DEF ToldOnce
<1>3. c \in [0 .. n - 1 -> Nat]
  BY <1>2, Zenon DEF Ring
<1>4. /\ PeakRecord(p).buckets = c /\ PeakRecord(p).idx = p.idx
      /\ PeakRecord(p).peak = p.peak
      /\ PeakRecord(p) \in [buckets : [0 .. n - 1 -> Nat], idx : 0 .. n - 1, peak : Int]
  <2>1. PeakRecord(p) = [p EXCEPT !.buckets = c]
    <3>1. PeakRecord(p) = [p EXCEPT !.buckets[p.idx] = @ + 1]
      BY Zenon DEF PeakRecord
    <3> QED BY <1>1, <3>1 DEF OneMore
  <2> HIDE DEF c
  <2> QED BY ONLY <1>1, <1>3, <2>1
<1>5. SumFunction(c) \in Int
  BY <1>1, <1>2
<1> HIDE DEF c, l
<1>6. TruePeak(p.peak, l)
  <2>1. {LastSeconds(l, t, n) : t \in 1 .. Len(l) - 1}
            = {LastSeconds(log, t, n) : t \in 1 .. Len(log) - 1}
    BY <1>2, Zenon
  <2> QED BY <1>1, <2>1, Zenon DEF TruePeak
<1>7. PeakOf(PeakRecord(p), l)
  BY <1>1, <1>2, <1>4, <1>5, <1>6, Zenon DEF PeakOf
<1> QED BY <1>7, Zenon DEF l

LEMMA PeakNext ==
    ASSUME NEW p, NEW log, PeakOf(p, log)
    PROVE  PeakOf(PeakAdvance(p), Append(log, 0))
<1> DEFINE n == peakWindowSize
           next == (p.idx + 1) % n
           c == [p.buckets EXCEPT ![next] = 0]
           l == Append(log, 0)
           total == SumFunction(p.buckets)
           top == IF total > p.peak THEN total ELSE p.peak
<1>1. /\ p \in [buckets : [0 .. n - 1 -> Nat], idx : 0 .. n - 1, peak : Int]
      /\ Ring(p.buckets, p.idx, log, n)
      /\ total = LastSeconds(log, Len(log), n)
      /\ total \in Int /\ TruePeak(p.peak, log)
  BY Zenon DEF PeakOf
<1>2. /\ Ring(c, next, l, n) /\ Len(l) = Len(log) + 1
      /\ LastSeconds(l, Len(l), n) = LastSeconds(log, Len(log), n) - p.buckets[next]
      /\ SumFunction(c) = total - p.buckets[next]
      /\ \A t \in 1 .. Len(log) : LastSeconds(l, t, n) = LastSeconds(log, t, n)
  <2>1. MovedOn(p.buckets, p.idx, log, n)
    BY <1>1, RingNext, Zenon
  <2> QED BY ONLY <2>1, Zenon DEF MovedOn
<1>3. c \in [0 .. n - 1 -> Nat] /\ next \in 0 .. n - 1
  BY <1>2, Zenon DEF Ring
<1>4. p.buckets[next] \in Int /\ p.peak \in Int
  <2>1. p.buckets \in [0 .. n - 1 -> Nat] /\ p.peak \in Int
    BY <1>1
  <2>2. p.buckets[next] \in Nat
    BY <1>3, <2>1, Zenon
  <2> QED BY <2>1, <2>2
<1> HIDE DEF next, total
<1>5. top \in Int
  BY <1>1, <1>4
<1>6. /\ PeakAdvance(p).buckets = c /\ PeakAdvance(p).idx = next /\ PeakAdvance(p).peak = top
      /\ PeakAdvance(p) \in [buckets : [0 .. n - 1 -> Nat], idx : 0 .. n - 1, peak : Int]
  <2>1. PeakAdvance(p) = [p EXCEPT !.peak = IF total > @ THEN total ELSE @, !.idx = next,
                                   !.buckets[next] = 0]
    BY Zenon DEF PeakAdvance, next, total
  <2>2. PeakAdvance(p) = [p EXCEPT !.peak = top, !.idx = next, !.buckets = c]
    BY <1>1, <2>1
  <2> HIDE DEF c, top
  <2> QED BY ONLY <1>1, <1>3, <1>5, <2>2, Zenon
<1>7. SumFunction(c) \in Int /\ SumFunction(c) = LastSeconds(l, Len(l), n)
  <2> HIDE DEF c, l
  <2> QED BY <1>1, <1>2, <1>4
<1>8. TruePeak(top, l)
  <2> DEFINE before == {LastSeconds(log, t, n) : t \in 1 .. Len(log) - 1}
             sums == {LastSeconds(l, t, n) : t \in 1 .. Len(l) - 1}
  <2>1. Len(l) - 1 = Len(log) /\ 1 .. Len(log) = (1 .. Len(log) - 1) \cup {Len(log)}
    <3>1. Len(log) \in Nat /\ Len(log) >= 1
      BY <1>1 DEF Ring
    <3> HIDE DEF l
    <3> QED BY <1>2, <3>1
  <2> HIDE DEF l
  <2>2. sums = before \cup {total}
    <3>1. sums = {LastSeconds(l, t, n) : t \in 1 .. Len(log)}
      BY <2>1, Zenon
    <3>2. sums = {LastSeconds(log, t, n) : t \in 1 .. Len(log)}
      BY <1>2, <3>1, Zenon
    <3>3. \A A : {LastSeconds(log, t, n) : t \in A \cup {Len(log)}}
                   = {LastSeconds(log, t, n) : t \in A} \cup {LastSeconds(log, Len(log), n)}
      BY Zenon
    <3>4. {LastSeconds(log, t, n) : t \in (1 .. Len(log) - 1) \cup {Len(log)}} = before \cup {total}
      BY <1>1, <3>3, Zenon
    <3> QED BY <2>1, <3>2, <3>4, Zenon
  <2>3. p.peak \in before \cup {0} /\ \A s \in before : p.peak >= s
    BY <1>1, Zenon DEF TruePeak
  <2>4. \A s \in before : s \in Int
    <3>1. ASSUME NEW t \in 1 .. Len(log) - 1
          PROVE  LastSeconds(log, t, n) \in Int
      BY <1>1, SecondsAreInt
    <3> QED BY <3>1, Zenon
  <2> HIDE DEF before, sums
  <2>5. top \in sums \cup {0} /\ \A s \in sums : top >= s
    BY <1>1, <1>4, <2>2, <2>3, <2>4
  <2> QED BY <2>5, Zenon DEF TruePeak, sums
<1> HIDE DEF c, l, top
<1>9. PeakOf(PeakAdvance(p), l)
  BY <1>1, <1>2, <1>6, <1>7, <1>8, Zenon DEF PeakOf
<1> QED BY <1>9, Zenon DEF l

-----------------------------------------------------------------------------
(* Distributions without a negative weight. *)

Weighted(d) == d \in Seq(Int \X Int) /\ \A i \in DOMAIN d : d[i][2] >= 0

(* The cumulative weights go up by the weights, from 0 to the total. *)
LEMMA CumulativeWeights ==
    ASSUME NEW d, Weighted(d)
    PROVE  /\ Cumulative(d, 0) = 0 /\ TotalWeight(d) = Cumulative(d, Len(d))
           /\ \A i \in 0 .. Len(d) : Cumulative(d, i) \in Nat
           /\ \A i \in 1 .. Len(d) : /\ Cumulative(d, i) = Cumulative(d, i - 1) + d[i][2]
                                     /\ d[i][2] \in Nat
<1> DEFINE W == Weights(d)
<1>1. /\ Len(d) \in Nat /\ DOMAIN d = 1 .. Len(d) /\ DOMAIN W = 1 .. Len(d)
      /\ \A i \in 1 .. Len(d) : W[i] = d[i][2] /\ d[i] \in Int \X Int
  BY DEF Weighted, Weights
<1>2. \A i \in 1 .. Len(d) : W[i] \in Nat /\ W[i] \in Int
  <2> TAKE i \in 1 .. Len(d)
  <2>1. d[i] \in Int \X Int /\ d[i][2] >= 0 /\ W[i] = d[i][2]
    BY <1>1, Zenon DEF Weighted
  <2> HIDE DEF W
  <2> QED BY <2>1
<1> HIDE DEF W
<1>3. ASSUME NEW i \in 0 .. Len(d)
      PROVE  IsFiniteSet(1 .. i) /\ Cumulative(d, i) \in Nat
  <2>1. i \in Int /\ 1 \in Int /\ 1 .. i \subseteq 1 .. Len(d)
    BY <1>1
  <2>2. IsFiniteSet(1 .. i)
    BY <2>1, FS_Interval, Zenon
  <2>3. \A x \in 1 .. i : W[x] \in Nat
    BY <1>2, <2>1, Zenon
  <2>4. SumFunctionOnSet(W, 1 .. i) \in Nat
    BY <2>2, <2>3, SumOfNats, Zenon
  <2> QED BY <2>2, <2>4, Zenon DEF Cumulative, W
<1>4. ASSUME NEW i \in 1 .. Len(d)
      PROVE  Cumulative(d, i) = Cumulative(d, i - 1) + d[i][2] /\ d[i][2] \in Nat
  <2>1. /\ i \in 1 .. i /\ (1 .. i) \ {i} = 1 .. i - 1 /\ 1 .. i \subseteq 1 .. Len(d)
        /\ i \in 0 .. Len(d)
    BY <1>1
  <2>2. IsFiniteSet(1 .. i) /\ \A x \in 1 .. i : W[x] \in Int
    BY <1>2, <1>3, <2>1, Zenon
  <2>3. /\ SumFunctionOnSet(W, 1 .. i) = W[i] + SumFunctionOnSet(W, (1 .. i) \ {i})
        /\ SumFunctionOnSet(W, (1 .. i) \ {i}) \in Int
    BY <2>1, <2>2, SumRemove, Zenon
  <2>4. /\ Cumulative(d, i) = W[i] + Cumulative(d, i - 1) /\ Cumulative(d, i - 1) \in Int
    BY <2>1, <2>3, Zenon DEF Cumulative, W
  <2> QED BY <1>1, <1>2, <2>4
<1>5. Cumulative(d, 0) = 0
  <2>1. 1 .. 0 = {}
    OBVIOUS
  <2> QED BY <2>1, SumEmpty, Zenon DEF Cumulative
<1>6. TotalWeight(d) = Cumulative(d, Len(d))
  BY <1>1, Zenon DEF TotalWeight, Cumulative, SumFunction, W
<1> QED BY <1>3, <1>4, <1>5, <1>6, Zenon

(* They never go down. *)
LEMMA CumulativeGrows ==
    ASSUME NEW d, Weighted(d), NEW j \in 0 .. Len(d), NEW i \in 0 .. j
    PROVE  Cumulative(d, i) <= Cumulative(d, j)
<1> DEFINE P == {n \in Nat : n <= Len(d) =>
                     \A k \in 0 .. n : Cumulative(d, k) <= Cumulative(d, n)}
<1>0. Len(d) \in Nat /\ DOMAIN d = 1 .. Len(d)
  BY DEF Weighted
<1>1. 0 \in P
  BY <1>0, CumulativeWeights
<1>2. ASSUME NEW n \in Nat, n \in P PROVE n + 1 \in P
  <2> SUFFICES ASSUME n + 1 <= Len(d), NEW k \in 0 .. n + 1
               PROVE  Cumulative(d, k) <= Cumulative(d, n + 1)
    BY <1>2
  <2>1. /\ n + 1 \in 1 .. Len(d) /\ (n + 1) - 1 = n /\ n <= Len(d) /\ k \in 0 .. Len(d)
        /\ n \in 0 .. Len(d) /\ n + 1 \in 0 .. Len(d) /\ (k = n + 1 \/ k \in 0 .. n)
    BY <1>0
  <2>2. /\ Cumulative(d, n + 1) = Cumulative(d, n) + d[n + 1][2]
        /\ Cumulative(d, n) \in Nat /\ Cumulative(d, n + 1) \in Nat /\ Cumulative(d, k) \in Nat
    BY <2>1, CumulativeWeights, Zenon
  <2>3. d[n + 1][2] \in Nat
    BY <2>1, CumulativeWeights, Zenon
  <2>4. k \in 0 .. n => Cumulative(d, k) <= Cumulative(d, n)
    BY <1>2, <2>1, Zenon
  <2> QED BY ONLY <2>1, <2>2, <2>3, <2>4
<1>3. Nat \subseteq P
  <2> HIDE DEF P
  <2> QED BY <1>1, <1>2, SetInduction, Zenon
<1>4. j \in Nat /\ j <= Len(d)
  BY <1>0
<1> QED BY <1>3, <1>4, Zenon

(* The draws that select entry i lie between the cumulative weights. *)
LEMMA SelectsBetween ==
    ASSUME NEW d, Weighted(d), NEW i \in DOMAIN d, NEW r \in 0 .. TotalWeight(d) - 1
    PROVE  SelectEntry(d, r) = i <=> Cumulative(d, i - 1) <= r /\ r < Cumulative(d, i)
<1> DEFINE C(k) == Cumulative(d, k)
           hits == {k \in DOMAIN d : r < C(k)}
           e == SelectEntry(d, r)
<1>1. Len(d) \in Nat /\ DOMAIN d = 1 .. Len(d)
  BY DEF Weighted
<1>2. /\ C(0) = 0 /\ TotalWeight(d) = C(Len(d)) /\ \A k \in 0 .. Len(d) : C(k) \in Nat
  BY CumulativeWeights, Zenon
<1>3. \A k \in 0 .. Len(d) : \A m \in 0 .. k : C(m) <= C(k)
  BY CumulativeGrows, Zenon
<1>4. i \in 1 .. Len(d) /\ i \in 0 .. Len(d) /\ i - 1 \in 0 .. Len(d) /\ r \in Nat
  BY <1>1, <1>2
<1> HIDE DEF C
<1>5. Len(d) \in hits /\ hits \subseteq 1 .. Len(d)
  <2>1. Len(d) \in 1 .. Len(d) /\ Len(d) \in 0 .. Len(d)
    BY <1>1, <1>4
  <2>2. r < C(Len(d))
    BY <1>2, <2>1
  <2> QED BY <1>1, <2>1, <2>2, Zenon
<1>6. e \in hits /\ \A m \in hits : e <= m
  <2>1. hits \in SUBSET Nat /\ hits # {}
    BY <1>1, <1>5
  <2>2. \E k \in hits : \A m \in hits : k <= m
    <3> HIDE DEF hits
    <3> QED BY <2>1, LeastNat, Zenon
  <2>3. e = CHOOSE k \in hits : \A m \in hits : k <= m
    BY <2>1, Zenon DEF SelectEntry, C
  <2> HIDE DEF hits, e
  <2> QED BY <2>2, <2>3, Zenon
<1>7. \A m \in 1 .. Len(d) : m \in hits <=> r < C(m)
  BY <1>1, Zenon
<1> HIDE DEF e, hits
<1>8. ASSUME e = i PROVE C(i - 1) <= r /\ r < C(i)
  <2>1. r < C(i)
    BY <1>4, <1>6, <1>7, <1>8, Zenon
  <2>2. CASE i = 1
    <3>1. C(i - 1) = 0
      BY <1>2, <2>2
    <3> QED BY <1>4, <2>1, <3>1
  <2>3. CASE i # 1
    <3>1. i - 1 \in 1 .. Len(d) /\ ~(i <= i - 1)
      BY <1>1, <1>4, <2>3
    <3>2. ~(r < C(i - 1))
      BY <1>6, <1>7, <1>8, <3>1, Zenon
    <3>3. C(i - 1) \in Nat
      BY <1>2, <1>4, Zenon
    <3> QED BY <1>4, <2>1, <3>2, <3>3
  <2> QED BY <2>2, <2>3, Zenon
<1>9. ASSUME C(i - 1) <= r, r < C(i) PROVE e = i
  <2>1. i \in hits /\ e \in 1 .. Len(d) /\ e <= i /\ r < C(e)
    BY <1>4, <1>5, <1>6, <1>7, <1>9, Zenon
  <2>2. ~(e <= i - 1)
    <3> SUFFICES ASSUME e <= i - 1 PROVE FALSE
      OBVIOUS
    <3>1. e \in 0 .. i - 1 /\ e \in 0 .. Len(d)
      BY <1>1, <1>4, <2>1
    <3>2. C(e) <= C(i - 1) /\ C(e) \in Nat /\ C(i - 1) \in Nat
      BY <1>2, <1>3, <1>4, <3>1, Zenon
    <3> QED BY ONLY <1>4, <1>9, <2>1, <3>2
  <2> QED BY <1>4, <2>1, <2>2
<1> QED BY <1>8, <1>9, Zenon DEF C, e

(* So an entry is selected by as many draws as it has weight. *)
LEMMA DrawsByWeight ==
    ASSUME NEW d, Weighted(d), NEW i \in DOMAIN d
    PROVE  Cardinality({r \in 0 .. TotalWeight(d) - 1 : SelectEntry(d, r) = i}) = d[i][2]
<1> DEFINE C(k) == Cumulative(d, k)
           draws == {r \in 0 .. TotalWeight(d) - 1 : SelectEntry(d, r) = i}
<1>1. /\ Len(d) \in Nat /\ i \in 1 .. Len(d) /\ i \in 0 .. Len(d) /\ i - 1 \in 0 .. Len(d)
      /\ Len(d) \in 0 .. Len(d)
  BY DEF Weighted
<1>2. /\ C(i) = C(i - 1) + d[i][2] /\ d[i][2] \in Nat /\ C(i) \in Nat /\ C(i - 1) \in Nat
      /\ TotalWeight(d) = C(Len(d)) /\ C(Len(d)) \in Nat
  BY <1>1, CumulativeWeights, Zenon
<1>3. C(i) <= C(Len(d))
  BY <1>1, CumulativeGrows, Zenon
<1>4. \A r \in 0 .. TotalWeight(d) - 1 : SelectEntry(d, r) = i <=> C(i - 1) <= r /\ r < C(i)
  BY SelectsBetween, Zenon
<1> HIDE DEF C
<1>5. draws = {r \in 0 .. TotalWeight(d) - 1 : C(i - 1) <= r /\ r < C(i)}
  BY <1>4, Zenon
<1>6. draws = C(i - 1) .. C(i) - 1
  BY ONLY <1>2, <1>3, <1>5
<1> HIDE DEF draws
<1>7. C(i - 1) \in Int /\ C(i) - 1 \in Int
  BY <1>2
<1>8. Cardinality(draws) = IF C(i - 1) > C(i) - 1 THEN 0 ELSE (C(i) - 1) - C(i - 1) + 1
  BY <1>6, <1>7, FS_Interval, Zenon
<1>9. Cardinality(draws) = d[i][2]
  BY ONLY <1>2, <1>8
<1> QED BY <1>9, Zenon DEF draws

-----------------------------------------------------------------------------
(* The configuration: what the decoders leave of the types. *)

TypedWorker(w) == \A f \in Counts : f \in DOMAIN w /\ w[f] \in Int

TypedConfig(c) ==
    /\ {"workers", "message"} \subseteq DOMAIN c
    /\ \A name \in AllWorkerNames : TypedWorker(c.workers[name])
    /\ "sizes" \in DOMAIN c.message /\ c.message.sizes \in Seq(Int \X Int)

(* A block over a typed one is typed, whichever fields it gives. *)
LEMMA OverTyped ==
    ASSUME NEW given, Decoded(given), NEW under, TypedWorker(under)
    PROVE  TypedWorker(Over(given, under))
BY Zenon DEF Decoded, TypedWorker, Over

LEMMA WorkersTyped ==
    ASSUME NEW given, \A name \in DOMAIN given : Decoded(given[name]),
           NEW under, \A name \in AllWorkerNames : TypedWorker(under[name])
    PROVE  \A name \in AllWorkerNames : TypedWorker(Onto("workers", given, under)[name])
<1> TAKE name \in AllWorkerNames
<1>1. Onto("workers", given, under)[name]
          = IF name \in DOMAIN given THEN Over(given[name], under[name]) ELSE under[name]
  BY Zenon DEF Onto
<1> QED BY <1>1, OverTyped, Zenon

LEMMA MessageTyped ==
    ASSUME NEW given, "sizes" \in DOMAIN given => given.sizes \in Seq(Int \X Int),
           NEW under, "sizes" \in DOMAIN under, under.sizes \in Seq(Int \X Int)
    PROVE  LET m == Onto("message", given, under)
           IN  "sizes" \in DOMAIN m /\ m.sizes \in Seq(Int \X Int)
<1>1. Onto("message", given, under) = Over(given, under)
  BY Zenon DEF Onto
<1> QED BY <1>1, Zenon DEF Over

(* The same, field by field. *)
TypedFields(w) ==
    /\ {"channels", "producers", "consumers", "senders", "responders", "subscribers"}
           \subseteq DOMAIN w
    /\ w["channels"] \in Int /\ w["producers"] \in Int /\ w["consumers"] \in Int
    /\ w["senders"] \in Int /\ w["responders"] \in Int /\ w["subscribers"] \in Int

(* The defaults, and the zeros of a start request. *)
LEMMA DefaultWorkerTyped ==
    ASSUME NEW name, NEW rate
    PROVE  TypedWorker(ZeroWorker) /\ TypedWorker(DefaultWorker(name, rate))
<1>1. \A w : TypedFields(w) => TypedWorker(w)
  BY Zenon DEF TypedWorker, TypedFields, Counts
<1>2. TypedFields(ZeroWorker)
  BY DEF TypedFields, ZeroWorker
<1> DEFINE on == [ZeroWorker EXCEPT !.enabled = TRUE, !.channels = 1, !.rate = rate]
           n == IF name = "queues" THEN 2 ELSE 1
<1>3. TypedFields(on)
  BY <1>2 DEF TypedFields
<1>4. n \in Int
  OBVIOUS
<1> HIDE DEF on, n
<1>5. TypedFields([on EXCEPT !.senders = 1, !.responders = 1])
  BY <1>3 DEF TypedFields
<1>6. TypedFields([on EXCEPT !.producers = 1, !.subscribers = 2])
  BY <1>3 DEF TypedFields
<1>7. TypedFields([on EXCEPT !.producers = 1, !.consumers = n])
  BY <1>3, <1>4 DEF TypedFields
<1>8. DefaultWorker(name, rate) = IF IsRPCWorker(name) THEN [on EXCEPT !.senders = 1, !.responders = 1]
          ELSE IF name = "events" THEN [on EXCEPT !.producers = 1, !.subscribers = 2]
          ELSE [on EXCEPT !.producers = 1, !.consumers = n]
  BY Zenon DEF DefaultWorker, on, n
<1>9. TypedFields(DefaultWorker(name, rate))
  BY <1>5, <1>6, <1>7, <1>8, Zenon
<1> QED BY <1>1, <1>2, <1>9, Zenon

LEMMA DefaultsTyped == TypedConfig(DefaultConfig) /\ TypedConfig(ZeroConfig)
<1>1. /\ {"workers", "message"} \subseteq DOMAIN DefaultConfig
      /\ DefaultConfig.workers = DefaultWorkers /\ DefaultConfig.message = DefaultMessage
  BY DEF DefaultConfig
<1>2. /\ {"workers", "message"} \subseteq DOMAIN ZeroConfig
      /\ ZeroConfig.workers = ZeroWorkers /\ ZeroConfig.message = ZeroMessage
  BY DEF ZeroConfig
<1>3. \A name \in AllWorkerNames :
          TypedWorker(DefaultWorkers[name]) /\ TypedWorker(ZeroWorkers[name])
  <2> TAKE name \in AllWorkerNames
  <2>1. \A rate : TypedWorker(ZeroWorker) /\ TypedWorker(DefaultWorker(name, rate))
    BY DefaultWorkerTyped, Zenon
  <2>2. \E rate : DefaultWorkers[name] = DefaultWorker(name, rate)
    BY DEF DefaultWorkers
  <2>3. ZeroWorkers[name] = ZeroWorker
    BY Zenon DEF ZeroWorkers
  <2> QED BY <2>1, <2>2, <2>3, Zenon
<1>4. "sizes" \in DOMAIN DefaultMessage /\ DefaultMessage.sizes \in Seq(Int \X Int)
  <2>1. <<<<256, 80>>, <<4096, 15>>, <<65536, 5>>>> \in Seq(Int \X Int)
    OBVIOUS
  <2> QED BY <2>1 DEF DefaultMessage
<1>5. "sizes" \in DOMAIN ZeroMessage /\ ZeroMessage.sizes \in Seq(Int \X Int)
  BY DEF ZeroMessage
<1> QED BY <1>1, <1>2, <1>3, <1>4, <1>5, Zenon DEF TypedConfig

(* What Load makes of a file and an environment. *)
LEMMA LoadedTyped ==
    ASSUME NEW file \in Files, NEW env \in Envs
    PROVE  TypedConfig(applyEnvOverrides(env, Decode(file, DefaultConfig)))
<1> DEFINE c == Decode(file, DefaultConfig)
           e == applyEnvOverrides(env, c)
<1>1. /\ "workers" \in DOMAIN file =>
             \A name \in DOMAIN file.workers : Decoded(file.workers[name])
      /\ "message" \in DOMAIN file /\ "sizes" \in DOMAIN file.message =>
             file.message.sizes \in Seq(Int \X Int)
      /\ \A name \in DOMAIN env : Decoded(env[name])
  BY InputTypes, Zenon
<1>2. TypedConfig(DefaultConfig)
  BY DefaultsTyped, Zenon
<1>3. /\ DOMAIN c = DOMAIN DefaultConfig /\ {"workers", "message"} \subseteq DOMAIN c
      /\ c.workers = IF "workers" \in DOMAIN file
                     THEN Onto("workers", file.workers, DefaultConfig.workers)
                     ELSE DefaultConfig.workers
      /\ c.message = IF "message" \in DOMAIN file
                     THEN Onto("message", file.message, DefaultConfig.message)
                     ELSE DefaultConfig.message
  BY <1>2, Zenon DEF Decode, TypedConfig
<1> HIDE DEF c
<1>4. \A name \in AllWorkerNames : TypedWorker(c.workers[name])
  <2>1. CASE "workers" \in DOMAIN file
    BY <1>1, <1>2, <1>3, <2>1, WorkersTyped, Zenon DEF TypedConfig
  <2>2. CASE "workers" \notin DOMAIN file
    BY <1>2, <1>3, <2>2, Zenon DEF TypedConfig
  <2> QED BY <2>1, <2>2, Zenon
<1>5. "sizes" \in DOMAIN c.message /\ c.message.sizes \in Seq(Int \X Int)
  <2>1. CASE "message" \in DOMAIN file
    BY <1>1, <1>2, <1>3, <2>1, MessageTyped, Zenon DEF TypedConfig
  <2>2. CASE "message" \notin DOMAIN file
    BY <1>2, <1>3, <2>2, Zenon DEF TypedConfig
  <2> QED BY <2>1, <2>2, Zenon
<1>6. /\ DOMAIN e = DOMAIN c /\ e.workers = Onto("workers", env, c.workers)
      /\ e.message = c.message
  BY <1>3, Zenon DEF applyEnvOverrides
<1>7. \A name \in AllWorkerNames : TypedWorker(e.workers[name])
  BY <1>1, <1>4, <1>6, WorkersTyped, Zenon
<1> HIDE DEF e
<1>8. TypedConfig(e)
  BY <1>3, <1>5, <1>6, <1>7, Zenon DEF TypedConfig
<1> QED BY <1>8, Zenon DEF e, c

(* What ToInternalConfig makes of a body. *)
LEMMA OverlayTyped ==
    ASSUME NEW b \in Bodies, NEW base, TypedConfig(base)
    PROVE  TypedConfig(ToInternalConfig(b, base))
<1> DEFINE c == ToInternalConfig(b, base)
<1>1. /\ "workers" \in DOMAIN b => \A name \in DOMAIN b.workers : Decoded(b.workers[name])
      /\ "message" \in DOMAIN b /\ "sizes" \in DOMAIN b.message =>
             b.message.sizes \in Seq(Int \X Int)
  BY InputTypes, Zenon
<1>2. TypedConfig(ZeroConfig)
  BY DefaultsTyped, Zenon
<1>3. /\ DOMAIN c = DOMAIN base /\ {"workers", "message"} \subseteq DOMAIN c
      /\ c.workers = IF "workers" \in DOMAIN b
                     THEN Onto("workers", b.workers, ZeroConfig.workers) ELSE base.workers
      /\ c.message = IF "message" \in DOMAIN b
                     THEN Onto("message", b.message, ZeroConfig.message) ELSE base.message
  BY Zenon DEF ToInternalConfig, TypedConfig
<1> HIDE DEF c
<1>4. \A name \in AllWorkerNames : TypedWorker(c.workers[name])
  <2>1. CASE "workers" \in DOMAIN b
    BY <1>1, <1>2, <1>3, <2>1, WorkersTyped, Zenon DEF TypedConfig
  <2>2. CASE "workers" \notin DOMAIN b
    BY <1>3, <2>2, Zenon DEF TypedConfig
  <2> QED BY <2>1, <2>2, Zenon
<1>5. "sizes" \in DOMAIN c.message /\ c.message.sizes \in Seq(Int \X Int)
  <2>1. CASE "message" \in DOMAIN b
    BY <1>1, <1>2, <1>3, <2>1, MessageTyped, Zenon DEF TypedConfig
  <2>2. CASE "message" \notin DOMAIN b
    BY <1>3, <2>2, Zenon DEF TypedConfig
  <2> QED BY <2>1, <2>2, Zenon
<1>6. TypedConfig(c)
  BY <1>3, <1>4, <1>5, Zenon DEF TypedConfig
<1> QED BY <1>6, Zenon DEF c

-----------------------------------------------------------------------------
(* The invariant of the configuration: nothing changes the startup          *)
(* configuration, and that of the run is its overlay, parsed and validated. *)

ConfigInv ==
    /\ startup = loaded /\ TypedConfig(loaded) /\ TypedConfig(runCfg)
    /\ runs \in Nat /\ (phase = "boot" => runs = 0)
    /\ runs > 0 => /\ runCfg = ToInternalConfig(body, loaded)
                   /\ parseDurations(runCfg) /\ Validate(runCfg)

LEMMA ConfigInitially == WorkerInit => ConfigInv
<1>1. 0 \in Nat /\ ~(0 > 0)
  OBVIOUS
<1> QED BY <1>1, DefaultsTyped, Zenon DEF WorkerInit, ConfigInv

LEMMA ConfigStep == ConfigInv /\ [WorkerNext]_workerVars => ConfigInv'
<1> SUFFICES ASSUME ConfigInv, [WorkerNext]_workerVars PROVE ConfigInv'
  OBVIOUS
<1>1. CASE Load
  <2>1. PICK file \in Files, env \in Envs :
            LET c == applyEnvOverrides(env, Decode(file, DefaultConfig))
            IN  IF parseDurations(c) /\ Validate(c)
                THEN phase' = "serving" /\ startup' = c /\ loaded' = c
                ELSE phase' = "exited" /\ UNCHANGED <<startup, loaded>>
    BY <1>1, Zenon DEF Load
  <2> DEFINE c == applyEnvOverrides(env, Decode(file, DefaultConfig))
  <2>2. TypedConfig(c)
    BY LoadedTyped, Zenon
  <2>3. runs = 0 /\ runs' = 0 /\ runCfg' = runCfg
    BY <1>1, Zenon DEF Load, ConfigInv
  <2>4. 0 \in Nat /\ ~(0 > 0)
    OBVIOUS
  <2>5. startup' = loaded' /\ TypedConfig(loaded')
    BY <2>1, <2>2, Zenon DEF ConfigInv
  <2> QED BY <2>3, <2>4, <2>5, Zenon DEF ConfigInv
<1>2. CASE StartRun
  <2>1. PICK b \in Bodies :
            LET c == ToInternalConfig(b, startup)
            IN  parseDurations(c) /\ Validate(c) /\ Accept(b, c) /\ UNCHANGED startup
    BY <1>2, Zenon DEF StartRun
  <2> DEFINE c == ToInternalConfig(b, startup)
  <2>2. /\ runs' = runs + 1 /\ runCfg' = c /\ body' = b /\ loaded' = loaded
        /\ startup' = startup /\ parseDurations(c) /\ Validate(c)
    BY <2>1, Zenon DEF Accept
  <2>3. TypedConfig(c)
    BY OverlayTyped, Zenon DEF ConfigInv
  <2>4. runs' \in Nat
    BY <2>2 DEF ConfigInv
  <2>5. phase' = "serving" /\ "serving" # "boot"
    BY <1>2, <2>1, Zenon DEF StartRun, MayStart, Accept
  <2> QED BY <2>2, <2>3, <2>4, <2>5, Zenon DEF ConfigInv
<1>3. ASSUME UNCHANGED <<startup, loaded, runs, runCfg, body>>,
             phase' = phase \/ phase' = "panicked"
      PROVE ConfigInv'
  BY <1>3, Zenon DEF ConfigInv
<1>4. CASE Send
  BY <1>3, <1>4, Zenon DEF Send, configVars
<1>5. CASE Panic
  BY <1>3, <1>5, Zenon DEF Panic
<1>6. CASE RecordWindow
  BY <1>3, <1>6, Zenon DEF RecordWindow, configVars
<1>7. CASE RecordPeak
  BY <1>3, <1>7, Zenon DEF RecordPeak, configVars
<1>8. CASE AdvanceWindow
  BY <1>3, <1>8, Zenon DEF AdvanceWindow, configVars
<1>9. CASE AdvancePeak
  BY <1>3, <1>9, Zenon DEF AdvancePeak, configVars
<1>10. CASE ResetAfterWarmup
  BY <1>3, <1>10, Zenon DEF ResetAfterWarmup, configVars
<1>11. CASE RunEnds
  BY <1>3, <1>11, Zenon DEF RunEnds, configVars
<1>12. CASE UNCHANGED workerVars
  BY <1>3, <1>12, Zenon DEF workerVars, configVars
<1> QED BY <1>1, <1>2, <1>4, <1>5, <1>6, <1>7, <1>8, <1>9, <1>10, <1>11, <1>12, Zenon DEF WorkerNext

(* The goroutines of a valid worker are two at least, so those of a valid   *)
(* configuration are.                                                       *)
LEMMA ValidWorkerRuns ==
    ASSUME NEW name, NEW w, TypedWorker(w), ValidWorker(name, w)
    PROVE  Goroutines(name, w) \in Nat /\ Goroutines(name, w) >= 2
<1> DEFINE a == w.channels
           k == IF IsRPCWorker(name) THEN w.senders + w.responders
                ELSE w.producers + (IF name = "events" THEN w.subscribers ELSE w.consumers)
<1>1. /\ w.channels \in Int /\ w.producers \in Int /\ w.consumers \in Int
      /\ w.senders \in Int /\ w.responders \in Int /\ w.subscribers \in Int
  BY Zenon DEF TypedWorker, Counts
<1>2. a \in 1 .. 1000
  BY Zenon DEF ValidWorker
<1>3. k \in Nat /\ k >= 2
  BY <1>1 DEF ValidWorker
<1>4. Goroutines(name, w) = a * k
  BY Zenon DEF Goroutines
<1> HIDE DEF a, k
<1>5. a \in Nat /\ a >= 1
  BY <1>2
<1>6. a * k \in Nat /\ a * k >= 2
  BY ONLY <1>3, <1>5
<1> QED BY <1>4, <1>6, Zenon

LEMMA ValidConfigRuns ==
    ASSUME NEW c, TypedConfig(c), Validate(c)
    PROVE  TotalWorkers(c) >= 2
<1> DEFINE S == Enabled(c)
           f == [name \in S |-> Goroutines(name, c.workers[name])]
<1>1. S \subseteq AllWorkerNames /\ S # {} /\ \A name \in S : ValidWorker(name, c.workers[name])
  BY Zenon DEF Validate, Enabled
<1>2. IsFiniteSet(S)
  <2>1. IsFiniteSet({"queues", "events", "events_store", "commands", "queries", "credit_flow"})
    <3>1. \A T, x : IsFiniteSet(T) => IsFiniteSet(T \cup {x})
      BY FS_AddElement, Zenon
    <3>2. {"queues", "events", "events_store", "commands", "queries", "credit_flow"}
              = ((((({} \cup {"queues"}) \cup {"events"}) \cup {"events_store"})
                    \cup {"commands"}) \cup {"queries"}) \cup {"credit_flow"}
      BY Zenon
    <3>3. IsFiniteSet({} \cup {"queues"})
      BY <3>1, FS_EmptySet, Zenon
    <3>4. IsFiniteSet(({} \cup {"queues"}) \cup {"events"})
      BY <3>1, <3>3, Zenon
    <3>5. IsFiniteSet((({} \cup {"queues"}) \cup {"events"}) \cup {"events_store"})
      BY <3>1, <3>4, Zenon
    <3>6. IsFiniteSet(((({} \cup {"queues"}) \cup {"events"}) \cup {"events_store"})
                          \cup {"commands"})
      BY <3>1, <3>5, Zenon
    <3>7. IsFiniteSet((((({} \cup {"queues"}) \cup {"events"}) \cup {"events_store"})
                          \cup {"commands"}) \cup {"queries"})
      BY <3>1, <3>6, Zenon
    <3>8. IsFiniteSet(((((({} \cup {"queues"}) \cup {"events"}) \cup {"events_store"})
                          \cup {"commands"}) \cup {"queries"}) \cup {"credit_flow"})
      BY <3>1, <3>7, Zenon
    <3> QED BY <3>2, <3>8, Zenon
  <2> QED BY <1>1, <2>1, FS_Subset, Zenon DEF AllWorkerNames
<1>3. \A name \in S : f[name] = Goroutines(name, c.workers[name])
  BY Zenon
<1>4. \A name \in S : f[name] \in Nat /\ f[name] >= 2
  BY <1>1, <1>3, ValidWorkerRuns, Zenon DEF TypedConfig
<1>5. DOMAIN f = S
  BY Zenon
<1>6. TotalWorkers(c) = SumFunctionOnSet(f, S)
  BY <1>5, Zenon DEF TotalWorkers, SumFunction
<1> HIDE DEF S, f
<1>7. PICK q \in S : TRUE
  BY <1>1, Zenon
<1>8. \A name \in S : f[name] \in Int
  BY <1>4
<1>9. SumFunctionOnSet(f, S) = f[q] + SumFunctionOnSet(f, S \ {q})
  BY <1>2, <1>8, SumRemove, Zenon
<1>10. IsFiniteSet(S \ {q}) /\ \A name \in S \ {q} : f[name] \in Nat
  BY <1>2, <1>4, FS_Subset, Zenon
<1>11. SumFunctionOnSet(f, S \ {q}) \in Nat
  BY <1>10, SumOfNats, Zenon
<1>12. f[q] \in Nat /\ f[q] >= 2
  BY <1>4, Zenon
<1> QED BY ONLY <1>6, <1>9, <1>11, <1>12

-----------------------------------------------------------------------------
(* The invariant of the windows. *)

WindowsInv ==
    /\ logs = [w \in {"window", "peak"} |-> logs[w]]
    /\ WindowOf(window, logs["window"]) /\ PeakOf(peak, logs["peak"])

(* The windows of a run as it starts and as its warmup ends. *)
LEMMA NewWindows ==
    /\ NewLogs = [w \in {"window", "peak"} |-> NewLogs[w]]
    /\ WindowOf(NewSlidingRateWindow, NewLogs["window"])
    /\ PeakOf(NewPeakRateTracker, NewLogs["peak"])
<1>1. NewLogs["window"] = <<0>> /\ NewLogs["peak"] = <<0>>
  BY Zenon DEF NewLogs
<1>2. NewLogs = [w \in {"window", "peak"} |-> NewLogs[w]]
  BY Zenon DEF NewLogs
<1> QED BY <1>1, <1>2, NewWindow, NewPeak, Zenon

LEMMA WindowsInitially == WorkerInit => WindowsInv
<1> SUFFICES ASSUME WorkerInit PROVE WindowsInv
  OBVIOUS
<1>1. /\ window = NewSlidingRateWindow /\ peak = NewPeakRateTracker
      /\ logs = NewLogs
  BY Zenon DEF WorkerInit
<1> QED BY <1>1, NewWindows, Zenon DEF WindowsInv

LEMMA WindowsStep == WindowsInv /\ [WorkerNext]_workerVars => WindowsInv'
<1> SUFFICES ASSUME WindowsInv, [WorkerNext]_workerVars PROVE WindowsInv'
  OBVIOUS
<1>0. DOMAIN logs = {"window", "peak"}
  BY Zenon DEF WindowsInv
<1>1. ASSUME UNCHANGED <<window, peak, logs>> PROVE WindowsInv'
  BY <1>1, Zenon DEF WindowsInv
<1>2. ASSUME window' = NewSlidingRateWindow, peak' = NewPeakRateTracker,
             logs' = NewLogs
      PROVE  WindowsInv'
  BY <1>2, NewWindows, Zenon DEF WindowsInv
<1>3. ASSUME NEW w \in {"window", "peak"}, NEW l, logs' = [logs EXCEPT ![w] = l]
      PROVE  /\ logs' = [u \in {"window", "peak"} |-> logs'[u]] /\ logs'[w] = l
             /\ \A u \in {"window", "peak"} \ {w} : logs'[u] = logs[u]
  BY <1>0, <1>3, Zenon
<1>4. CASE RecordWindow
  <2> DEFINE l == OneMore(logs["window"], Len(logs["window"]))
  <2>1. logs' = [logs EXCEPT !["window"] = l] /\ window' = Record(window) /\ peak' = peak
    BY <1>4, Zenon DEF RecordWindow, Told, OneMore
  <2> HIDE DEF l
  <2>2. /\ logs' = [u \in {"window", "peak"} |-> logs'[u]] /\ logs'["window"] = l
        /\ logs'["peak"] = logs["peak"]
    BY <1>3, <2>1, Zenon
  <2>3. WindowOf(window', l)
    BY <2>1, WindowTold, Zenon DEF WindowsInv, l
  <2> QED BY <2>1, <2>2, <2>3, Zenon DEF WindowsInv
<1>5. CASE RecordPeak
  <2> DEFINE l == OneMore(logs["peak"], Len(logs["peak"]))
  <2>1. logs' = [logs EXCEPT !["peak"] = l] /\ peak' = PeakRecord(peak) /\ window' = window
    BY <1>5, Zenon DEF RecordPeak, Told, OneMore
  <2> HIDE DEF l
  <2>2. /\ logs' = [u \in {"window", "peak"} |-> logs'[u]] /\ logs'["peak"] = l
        /\ logs'["window"] = logs["window"]
    BY <1>3, <2>1, Zenon
  <2>3. PeakOf(peak', l)
    BY <2>1, PeakTold, Zenon DEF WindowsInv, l
  <2> QED BY <2>1, <2>2, <2>3, Zenon DEF WindowsInv
<1>6. CASE AdvanceWindow
  <2> DEFINE l == Append(logs["window"], 0)
  <2>1. logs' = [logs EXCEPT !["window"] = l] /\ window' = Advance(window) /\ peak' = peak
    BY <1>6, Zenon DEF AdvanceWindow, NextSecond
  <2> HIDE DEF l
  <2>2. /\ logs' = [u \in {"window", "peak"} |-> logs'[u]] /\ logs'["window"] = l
        /\ logs'["peak"] = logs["peak"]
    BY <1>3, <2>1, Zenon
  <2>3. WindowOf(window', l)
    BY <2>1, WindowNext, Zenon DEF WindowsInv, l
  <2> QED BY <2>1, <2>2, <2>3, Zenon DEF WindowsInv
<1>7. CASE AdvancePeak
  <2> DEFINE l == Append(logs["peak"], 0)
  <2>1. logs' = [logs EXCEPT !["peak"] = l] /\ peak' = PeakAdvance(peak) /\ window' = window
    BY <1>7, Zenon DEF AdvancePeak, NextSecond
  <2> HIDE DEF l
  <2>2. /\ logs' = [u \in {"window", "peak"} |-> logs'[u]] /\ logs'["peak"] = l
        /\ logs'["window"] = logs["window"]
    BY <1>3, <2>1, Zenon
  <2>3. PeakOf(peak', l)
    BY <2>1, PeakNext, Zenon DEF WindowsInv, l
  <2> QED BY <2>1, <2>2, <2>3, Zenon DEF WindowsInv
<1>8. CASE StartRun
  BY <1>2, <1>8, Zenon DEF StartRun, Accept
<1>9. CASE ResetAfterWarmup
  BY <1>2, <1>9, Zenon DEF ResetAfterWarmup
<1>10. CASE Load
  BY <1>1, <1>10, Zenon DEF Load
<1>11. CASE Send
  BY <1>1, <1>11, Zenon DEF Send
<1>12. CASE Panic
  BY <1>1, <1>12, Zenon DEF Panic
<1>13. CASE RunEnds
  BY <1>1, <1>13, Zenon DEF RunEnds
<1>14. CASE UNCHANGED workerVars
  BY <1>1, <1>14, Zenon DEF workerVars
<1> QED BY <1>4, <1>5, <1>6, <1>7, <1>8, <1>9, <1>10, <1>11, <1>12, <1>13, <1>14, Zenon
    DEF WorkerNext

-----------------------------------------------------------------------------
(* The theorems. *)

LEMMA WorkerInvariance == WorkerSpec => [](ConfigInv /\ WindowsInv)
<1>1. WorkerInit => ConfigInv /\ WindowsInv
  BY ConfigInitially, WindowsInitially, Zenon
<1>2. ConfigInv /\ WindowsInv /\ [WorkerNext]_workerVars => ConfigInv' /\ WindowsInv'
  BY ConfigStep, WindowsStep, Zenon
<1> QED BY <1>1, <1>2, PTL DEF WorkerSpec

(* However the file, the environment and the requests combine, the          *)
(* configuration of a run is one that Validate has seen after the last      *)
(* overlay, so what the workers take for granted holds of it; at least two  *)
(* goroutines serve it.                                                     *)
THEOREM SoundConfig == WorkerSpec => []RunsOnSoundConfig
<1>1. ConfigInv => RunsOnSoundConfig
  <2> SUFFICES ASSUME ConfigInv, runs > 0 PROVE RunsOnSoundConfig
    BY Zenon DEF RunsOnSoundConfig
  <2>1. parseDurations(runCfg) /\ Validate(runCfg) /\ TypedConfig(runCfg)
    BY Zenon DEF ConfigInv
  <2>2. /\ Enabled(runCfg) # {} /\ ValidAmqp10(runCfg.amqp10) /\ ValidMessage(runCfg.message)
        /\ ValidThresholds(runCfg.thresholds)
        /\ \A name \in Enabled(runCfg) : ValidWorker(name, runCfg.workers[name])
    BY <2>1, Zenon DEF Validate
  <2>3. ASSUME NEW name \in Enabled(runCfg)
        PROVE  /\ runCfg.workers[name].rate > 0
               /\ WorkerSettleMode(name, runCfg) \in {"settled", "unsettled"}
               /\ GetWorkerChannels(name, runCfg) = runCfg.workers[name].channels
    <3>1. ValidWorker(name, runCfg.workers[name])
      BY <2>2, Zenon
    <3>2. WorkerSettleMode(name, runCfg) \in {"settled", "unsettled"}
      <4>1. /\ runCfg.workers[name].settleMode \in {"", "unsettled", "settled"}
            /\ runCfg.amqp10.settleMode \in {"", "unsettled", "settled"}
        BY <2>2, <3>1, Zenon DEF ValidWorker, ValidAmqp10, SettleModes
      <4> QED BY ONLY <4>1, Zenon DEF WorkerSettleMode
    <3>3. runCfg.workers[name].rate > 0 /\ runCfg.workers[name].channels \in 1 .. 1000
      BY <3>1, Zenon DEF ValidWorker
    <3>4. runCfg.workers[name].channels > 0
      <4> DEFINE channels == runCfg.workers[name].channels
      <4>1. channels \in 1 .. 1000
        BY <3>3, Zenon
      <4> HIDE DEF channels
      <4>2. channels > 0
        BY ONLY <4>1
      <4> QED BY <4>2, Zenon DEF channels
    <3> QED BY <3>2, <3>3, <3>4, Zenon DEF GetWorkerChannels
  <2>4. TotalWorkers(runCfg) >= 2
    BY <2>1, ValidConfigRuns, Zenon
  <2>5. runCfg.amqp10.credit \in 1 .. 1024 /\ runCfg.amqp10.rpcTimeout > 0
    BY <2>2, Zenon DEF ValidAmqp10
  <2>6. rpcTimeoutFor(runCfg) = runCfg.amqp10.rpcTimeout
    BY <2>5, Zenon DEF rpcTimeoutFor
  <2>7. /\ runCfg.message.reorderWindow >= 100
        /\ runCfg.thresholds.p99 > 0 /\ runCfg.thresholds.memory >= 1
        /\ Parses(runCfg.top.duration)
    BY <2>1, <2>2, Zenon DEF ValidMessage, ValidThresholds, parseDurations
  <2> QED BY <2>2, <2>3, <2>4, <2>5, <2>6, <2>7, Zenon DEF RunsOnSoundConfig
<1> QED BY <1>1, WorkerInvariance, PTL

(* A block a request leaves out is the one the process was started with,    *)
(* after any number of runs: no start request writes into the startup       *)
(* configuration.                                                           *)
THEOREM StartupIsUntouched == WorkerSpec => []OmittedFallsThrough
<1>1. ConfigInv => OmittedFallsThrough
  <2> SUFFICES ASSUME ConfigInv, runs > 0,
                      NEW b \in DOMAIN loaded \ (DOMAIN body \cup {"top"})
               PROVE  runCfg[b] = loaded[b]
    BY Zenon DEF OmittedFallsThrough
  <2>1. runCfg = ToInternalConfig(body, loaded)
    BY Zenon DEF ConfigInv
  <2>2. ToInternalConfig(body, loaded)[b] = loaded[b]
    BY Zenon DEF ToInternalConfig
  <2> QED BY <2>1, <2>2, Zenon
<1> QED BY <1>1, WorkerInvariance, PTL

(* The sliding window is exact at any size, after any number of seconds and *)
(* however the producer and the advancer interleave.                        *)
THEOREM SlidingWindowIsExact == WorkerSpec => []WindowIsExact
<1>1. WindowsInv => WindowIsExact
  <2> SUFFICES ASSUME WindowsInv PROVE WindowIsExact
    OBVIOUS
  <2> DEFINE log == logs["window"]
             n == slidingWindowSize
             sum == LastSeconds(log, Len(log), n)
  <2>1. /\ window.total = sum /\ window.ticks = Len(log) - 1
        /\ Ring(window.buckets, window.idx, log, n)
    BY Zenon DEF WindowsInv, WindowOf
  <2>2. n \in Nat \ {0} /\ Len(log) \in Nat /\ Len(log) >= 1
    BY <2>1 DEF Ring
  <2>3. Rate(window) = LET w == IF window.ticks > n THEN n ELSE window.ticks
                       IN  IF w = 0 THEN <<0, 1>> ELSE <<window.total, w>>
    BY Zenon DEF Rate
  <2> HIDE DEF log, sum, n
  <2>4. CASE Len(log) = 1
    <3>1. window.ticks = 0 /\ ~(0 > n)
      BY <2>1, <2>2, <2>4
    <3>2. Rate(window) = <<0, 1>>
      BY <2>3, <3>1, Zenon
    <3> QED BY <2>4, <3>2, Zenon DEF WindowIsExact, log
  <2>5. CASE Len(log) # 1
    <3> DEFINE w == IF window.ticks > n THEN n ELSE window.ticks
    <3>1. w # 0 /\ w = Lesser(Len(log) - 1, n)
      BY <2>1, <2>2, <2>5 DEF Lesser
    <3>2. Rate(window) = <<sum, Lesser(Len(log) - 1, n)>>
      BY <2>1, <2>3, <3>1, Zenon
    <3> QED BY <2>5, <3>2, Zenon DEF WindowIsExact, log, sum, n
  <2> QED BY <2>4, <2>5, Zenon
<1> QED BY <1>1, WorkerInvariance, PTL

(* The peak is the greatest sum of peakWindowSize successive full seconds,  *)
(* at any size of its ring.                                                 *)
THEOREM PeakIsGreatest == WorkerSpec => []PeakIsTrue
<1>1. WindowsInv => PeakIsTrue
  BY Zenon DEF WindowsInv, PeakOf, TruePeak, PeakIsTrue
<1> QED BY <1>1, WorkerInvariance, PTL

(* Whatever the distribution a request brings, an entry is drawn by its     *)
(* weight, unless some weight is negative.                                  *)
THEOREM DrawsAreFair == WorkerSpec => []SizesAreFair
<1>1. ConfigInv => SizesAreFair
  <2> SUFFICES ASSUME ConfigInv, \A i \in DOMAIN runCfg.message.sizes : runCfg.message.sizes[i][2] >= 0,
                      NEW i \in DOMAIN runCfg.message.sizes
               PROVE  LET d == runCfg.message.sizes
                      IN  Cardinality({r \in 0 .. TotalWeight(d) - 1 : SelectEntry(d, r) = i}) = d[i][2]
    BY Zenon DEF SizesAreFair
  <2>1. Weighted(runCfg.message.sizes)
    BY Zenon DEF ConfigInv, TypedConfig, Weighted
  <2> QED BY <2>1, DrawsByWeight, Zenon
<1> QED BY <1>1, WorkerInvariance, PTL
=============================================================================
