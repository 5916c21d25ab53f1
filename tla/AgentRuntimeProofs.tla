------------------------- MODULE AgentRuntimeProofs -------------------------
(***************************************************************************)
(* What AgentRuntime guarantees for any number of jobs, coroutines,        *)
(* fingerprints, chats and addenda, proved with TLAPS.  Every theorem      *)
(* rests on the inductive invariant IInv: RunningHasRun and                *)
(* OneActivePerFingerprint do not preserve themselves, because a           *)
(* cancelled task must be known to belong to a closed job, a task table    *)
(* entry to name a coroutine of its job, and a coroutine to work on a job  *)
(* that was started.  EventInv adds what the event log says: a job that is *)
(* not closed has no closing event, and a completion is the first one.     *)
(*                                                                         *)
(* The last section is about two bots on one workspace, SecondBot.tla.     *)
(* There RunningHasRun is lost, so the rest of IInv, BaseInv, is shown to  *)
(* preserve itself.                                                        *)
(***************************************************************************)
EXTENDS SecondBot, TLAPS

Started == {"running"} \cup Terminal

\* No caller creates a job as WAITING_USER and no operation makes it one.
NeverWaitingUser == \A j \in Jobs : status[j] # "waiting_user"

RunsHaveStartedJobs ==
  \A r \in Runs : pc[r] # "idle" =>
    /\ target[r] \in Jobs
    /\ status[target[r]] \in Started

TimeoutsAreConfigured ==
  \A r \in Runs : pc[r] = "timing_out" => fp[target[r]] \in Timed

TasksNameTheirRun ==
  \A j \in Jobs : task[j] # None =>
    /\ target[task[j]] = j
    /\ pc[task[j]] # "idle"

NoRunsBeforeRecovery ==
  phase \in {"down", "recovering"} => \A r \in Runs : pc[r] = "idle"

CancelledRunsAreMoot ==
  phase = "up" =>
    \A r \in Runs : cancelling[r] /\ pc[r] \in Live =>
      status[target[r]] \in Terminal

\* What also holds while a second bot recovers the first one's jobs.
BaseInv ==
  /\ TypeOK
  /\ NeverWaitingUser
  /\ RunsHaveStartedJobs
  /\ TimeoutsAreConfigured
  /\ TasksNameTheirRun
  /\ NoRunsBeforeRecovery
  /\ CancelledRunsAreMoot
  /\ OneActivePerFingerprint

IInv == BaseInv /\ RunningHasRun

-----------------------------------------------------------------------------
\* The initial state satisfies the inductive invariant.
LEMMA InitIInv == Init => IInv
<1> SUFFICES ASSUME Init PROVE IInv
  OBVIOUS
<1> USE RuntimeAssumption DEF Init
<1>1. TypeOK
  BY DEF TypeOK, Status, RunPC, Phases
<1>2. NeverWaitingUser /\ RunsHaveStartedJobs /\ TimeoutsAreConfigured
  BY DEF NeverWaitingUser, RunsHaveStartedJobs, TimeoutsAreConfigured
<1>3. TasksNameTheirRun /\ NoRunsBeforeRecovery
  BY DEF TasksNameTheirRun, NoRunsBeforeRecovery
<1>4. CancelledRunsAreMoot
  BY DEF CancelledRunsAreMoot
<1>5. RunningHasRun /\ OneActivePerFingerprint
  BY DEF RunningHasRun, OneActivePerFingerprint, Active, Waiting
<1>6. QED
  BY <1>1, <1>2, <1>3, <1>4, <1>5 DEF IInv, BaseInv

-----------------------------------------------------------------------------
(* Type correctness of a step. *)

\* Every step keeps every variable in its type: statuses, events, run
\* positions and table entries are the ones the code defines.
LEMMA StepTypeOK == BaseInv /\ [Next]_vars => TypeOK'
<1> SUFFICES ASSUME BaseInv, [Next]_vars PROVE TypeOK'
  OBVIOUS
<1>0. /\ TypeOK
      /\ \A r \in Runs : pc[r] # "idle" => target[r] \in Jobs
  BY DEF BaseInv, RunsHaveStartedJobs
<1> USE <1>0, RuntimeAssumption
    DEF TypeOK, storeVars, eventVars, runVars, Closing, SaveCurrent,
        SaveSnapshot, Running, Stepping
<1>1. ASSUME Emit PROVE TypeOK'
  <2>1. pend \in Event
    BY <1>1 DEF Emit
  <2>2. CASE pend.type = "attached"
    <3>1. pend.job \in Jobs /\ pend.what \in Addenda
      BY <2>1, <2>2 DEF Event, ClosingEvent
    <3>2. acked' \in [Jobs -> SUBSET Addenda] /\ outcome' = outcome
      BY <1>1, <2>2, <3>1 DEF Emit
    <3>3. QED
      BY <1>1, <3>2 DEF Emit
  <2>3. CASE pend.type # "attached"
    <3>1. pend.job \in Jobs /\ pend.type \in ClosingEvent
      BY <2>1, <2>3 DEF Event
    <3>2. /\ outcome' = [outcome EXCEPT ![pend.job] =
                           Append(outcome[pend.job], pend.type)]
          /\ acked' = acked
      BY <1>1, <2>3 DEF Emit
    <3>3. Append(outcome[pend.job], pend.type) \in Seq(ClosingEvent)
      BY <3>1
    <3>4. outcome' \in [Jobs -> Seq(ClosingEvent)]
      BY <3>1, <3>2, <3>3
    <3>5. QED
      BY <1>1, <3>2, <3>4 DEF Emit
  <2>4. QED
    BY <2>2, <2>3
<1>2. ASSUME NEW j \in Jobs, NEW f \in Fingerprints, NEW s \in Waiting,
             CreateJob(j, f, s)
      PROVE  TypeOK'
  BY <1>2 DEF CreateJob, Waiting, Active, Status
<1>3. ASSUME NEW j \in Jobs, NEW a \in Addenda, Attach(j, a) PROVE TypeOK'
  BY <1>3 DEF Attach, Event
<1>4. ASSUME NEW j \in Jobs, NEW r \in Runs, Start(j, r) PROVE TypeOK'
  BY <1>4 DEF Start, MarkRunning, Status, Active, RunPC
<1>5. ASSUME NEW j \in Jobs, NEW r \in Runs, StartBackground(j, r)
      PROVE  TypeOK'
  BY <1>5 DEF StartBackground, MarkRunning, Status, Active, RunPC
<1>6. ASSUME NEW j \in Jobs, Cancel(j) PROVE TypeOK'
  BY <1>6 DEF Cancel, HasLiveTask, Event, ClosingEvent, Status, Terminal
<1>7. ASSUME NEW r \in Runs, RunStep(r) PROVE TypeOK'
  <2>1. CASE BeginTask(r)
    BY <2>1 DEF BeginTask, RunPC
  <2>a. Finish(r) => pc' \in [Runs -> RunPC]
    BY DEF Finish, RunPC
  <2>b. ASSUME NEW j \in Jobs, NEW s \in Terminal, NEW e \in ClosingEvent,
               SaveCurrent(j, s, e)
        PROVE  /\ status' \in [Jobs -> Status]
               /\ pend' \in Event \cup {None}
    BY <2>b DEF Status, Event
  <2>c. ASSUME target[r] \in Jobs, NEW s \in Terminal, NEW e \in ClosingEvent,
               SaveSnapshot(r, s, e)
        PROVE  /\ status' \in [Jobs -> Status]
               /\ addenda' \in [Jobs -> SUBSET Addenda]
               /\ pend' \in Event \cup {None}
    BY <2>c DEF Status, Event
  <2>2. CASE WorkerReturns(r)
    <3>1. target[r] \in Jobs
      BY <2>2 DEF WorkerReturns
    <3>2. CASE status[target[r]] \in Terminal
      BY <2>2, <2>a, <3>2 DEF WorkerReturns, Finish
    <3>3. CASE status[target[r]] \notin Terminal
      <4>1. SaveSnapshot(r, "done", "completed")
        BY <2>2, <3>3 DEF WorkerReturns
      <4>2. pc' \in [Runs -> RunPC]
        BY <2>2, <2>a, <3>3 DEF WorkerReturns, RunPC
      <4>3. QED
        BY <2>2, <2>c, <3>1, <3>3, <4>1, <4>2
        DEF WorkerReturns, Finish, Terminal, ClosingEvent
    <3>4. QED
      BY <3>2, <3>3
  <2>3. CASE WorkerRaises(r)
    <3>1. target[r] \in Jobs
      BY <2>3 DEF WorkerRaises
    <3>2. CASE status[target[r]] \in Terminal
      BY <2>3, <2>a, <3>2 DEF WorkerRaises, Finish
    <3>3. CASE status[target[r]] \notin Terminal
      <4>1. SaveCurrent(target[r], "failed", "failed")
        BY <2>3, <3>3 DEF WorkerRaises
      <4>2. QED
        BY <2>3, <2>a, <2>b, <3>1, <4>1
        DEF WorkerRaises, Finish, Terminal, ClosingEvent
    <3>4. QED
      BY <3>2, <3>3
  <2>4. CASE TimeoutFires(r)
    BY <2>4 DEF TimeoutFires, RunPC
  <2>5. CASE TimeoutReported(r)
    BY <2>5 DEF TimeoutReported, Finish, RunPC, Event, ClosingEvent, Status, Terminal
  <2>6. CASE CancelDelivered(r)
    <3>1. target[r] \in Jobs
      BY <2>6 DEF CancelDelivered, Live
    <3>2. CASE UNCHANGED <<storeVars, pend>>
      BY <2>6, <2>a, <3>2 DEF CancelDelivered, Finish
    <3>3. CASE SaveCurrent(target[r], "canceled", "canceled")
      BY <2>6, <2>a, <2>b, <3>1, <3>3
      DEF CancelDelivered, Finish, Terminal, ClosingEvent
    <3>4. QED
      BY <2>6, <3>2, <3>3 DEF CancelDelivered
  <2>7. CASE StagingEnds(r)
    BY <2>7 DEF StagingEnds, Finish, RunPC
  <2>8. CASE ForgetTask(r)
    BY <2>8 DEF ForgetTask, RunPC
  <2>9. QED
    BY <1>7, <2>1, <2>2, <2>3, <2>4, <2>5, <2>6, <2>7, <2>8 DEF RunStep
<1>8. ASSUME ProcessStep PROVE TypeOK'
  <2>1. CASE Shutdown
    BY <2>1 DEF Shutdown, Phases
  <2>2. CASE Exit \/ Crash
    BY <2>2 DEF Exit, Crash, NoCoroutines, Phases, RunPC
  <2>3. CASE Restart \/ RecoveryEnds
    BY <2>3 DEF Restart, RecoveryEnds, Phases
  <2>4. ASSUME NEW j \in Jobs, RecoverJob(j) PROVE TypeOK'
    BY <2>4 DEF RecoverJob, Event, ClosingEvent, Status, Terminal
  <2>5. QED
    BY <1>8, <2>1, <2>2, <2>3, <2>4 DEF ProcessStep
<1>9. CASE UNCHANGED vars
  BY <1>9 DEF vars
<1>10. QED
  BY <1>1, <1>2, <1>3, <1>4, <1>5, <1>6, <1>7, <1>8, <1>9 DEF Next, CallerStep

-----------------------------------------------------------------------------
(* The other conjuncts of IInv, one action at a time. *)

Linked ==
  /\ NeverWaitingUser
  /\ RunsHaveStartedJobs
  /\ TimeoutsAreConfigured
  /\ TasksNameTheirRun
  /\ NoRunsBeforeRecovery
  /\ CancelledRunsAreMoot
  /\ OneActivePerFingerprint

\* Callers' operations keep jobs, coroutines and the task table consistent.
LEMMA CallerLinked ==
  ASSUME BaseInv, CallerStep
  PROVE  Linked'
<1>0. TypeOK /\ Linked
  BY DEF BaseInv, Linked
<1> USE <1>0, RuntimeAssumption
    DEF Linked, TypeOK, storeVars, eventVars, runVars, Running, Started,
        Terminal, Active, Waiting, Live, NeverWaitingUser, RunsHaveStartedJobs,
        TimeoutsAreConfigured, TasksNameTheirRun, NoRunsBeforeRecovery,
        CancelledRunsAreMoot, OneActivePerFingerprint
<1>1. ASSUME NEW j \in Jobs, NEW f \in Fingerprints, NEW s \in Waiting,
             CreateJob(j, f, s)
      PROVE  Linked'
  <2>1. NeverWaitingUser'
    BY <1>1 DEF CreateJob, ActiveJobs
  <2>2. RunsHaveStartedJobs'
    BY <1>1 DEF CreateJob, ActiveJobs
  <2>3. TimeoutsAreConfigured'
    BY <1>1 DEF CreateJob, ActiveJobs
  <2>4. TasksNameTheirRun'
    BY <1>1 DEF CreateJob, ActiveJobs
  <2>5. NoRunsBeforeRecovery'
    BY <1>1 DEF CreateJob, ActiveJobs
  <2>6. CancelledRunsAreMoot'
    BY <1>1 DEF CreateJob, ActiveJobs
  <2>8. OneActivePerFingerprint'
    BY <1>1 DEF CreateJob, ActiveJobs
  <2>9. QED
    BY <2>1, <2>2, <2>3, <2>4, <2>5, <2>6, <2>8
<1>2. ASSUME NEW j \in Jobs, NEW a \in Addenda, Attach(j, a) PROVE Linked'
  BY <1>2 DEF Attach
<1>3. ASSUME NEW j \in Jobs, NEW r \in Runs, Start(j, r) PROVE Linked'
  <2>1. NeverWaitingUser'
    BY <1>3 DEF Start, MarkRunning
  <2>2. RunsHaveStartedJobs'
    BY <1>3 DEF Start, MarkRunning
  <2>3. TimeoutsAreConfigured'
    BY <1>3 DEF Start, MarkRunning
  <2>4. TasksNameTheirRun'
    BY <1>3 DEF Start, MarkRunning
  <2>5. NoRunsBeforeRecovery'
    BY <1>3 DEF Start, MarkRunning
  <2>6. CancelledRunsAreMoot'
    BY <1>3 DEF Start, MarkRunning
  <2>8. OneActivePerFingerprint'
    BY <1>3 DEF Start, MarkRunning
  <2>9. QED
    BY <2>1, <2>2, <2>3, <2>4, <2>5, <2>6, <2>8
<1>4. ASSUME NEW j \in Jobs, NEW r \in Runs, StartBackground(j, r)
      PROVE  Linked'
  <2>1. NeverWaitingUser'
    BY <1>4 DEF StartBackground, MarkRunning, HasLiveTask
  <2>2. RunsHaveStartedJobs'
    BY <1>4 DEF StartBackground, MarkRunning, HasLiveTask
  <2>3. TimeoutsAreConfigured'
    BY <1>4 DEF StartBackground, MarkRunning, HasLiveTask
  <2>4. TasksNameTheirRun'
    BY <1>4 DEF StartBackground, MarkRunning, HasLiveTask
  <2>5. NoRunsBeforeRecovery'
    BY <1>4 DEF StartBackground, MarkRunning, HasLiveTask
  <2>6. CancelledRunsAreMoot'
    BY <1>4 DEF StartBackground, MarkRunning, HasLiveTask
  <2>8. OneActivePerFingerprint'
    BY <1>4 DEF StartBackground, MarkRunning, HasLiveTask
  <2>9. QED
    BY <2>1, <2>2, <2>3, <2>4, <2>5, <2>6, <2>8
<1>5. ASSUME NEW j \in Jobs, Cancel(j) PROVE Linked'
  BY <1>5 DEF Cancel, SaveCurrent, HasLiveTask
<1>6. QED
  BY <1>1, <1>2, <1>3, <1>4, <1>5 DEF CallerStep

\* So does every step of a coroutine.
LEMMA RunLinked ==
  ASSUME BaseInv, NEW r \in Runs, RunStep(r)
  PROVE  Linked'
<1>0. TypeOK /\ Linked
  BY DEF BaseInv, Linked
<1> USE <1>0, RuntimeAssumption
    DEF Linked, TypeOK, storeVars, eventVars, runVars, Stepping, Started,
        Terminal, Active, Waiting, Live, NeverWaitingUser, RunsHaveStartedJobs,
        TimeoutsAreConfigured, TasksNameTheirRun, NoRunsBeforeRecovery,
        CancelledRunsAreMoot, OneActivePerFingerprint
<1>1. CASE BeginTask(r)
  BY <1>1 DEF BeginTask
<1>2. CASE WorkerReturns(r)
  <2>1. NeverWaitingUser'
    BY <1>2 DEF WorkerReturns, SaveSnapshot, Finish
  <2>2. RunsHaveStartedJobs'
    BY <1>2 DEF WorkerReturns, SaveSnapshot, Finish
  <2>3. TimeoutsAreConfigured'
    BY <1>2 DEF WorkerReturns, SaveSnapshot, Finish
  <2>4. TasksNameTheirRun'
    BY <1>2 DEF WorkerReturns, SaveSnapshot, Finish
  <2>5. NoRunsBeforeRecovery'
    BY <1>2 DEF WorkerReturns, SaveSnapshot, Finish
  <2>6. CancelledRunsAreMoot'
    BY <1>2 DEF WorkerReturns, SaveSnapshot, Finish
  <2>8. OneActivePerFingerprint'
    BY <1>2 DEF WorkerReturns, SaveSnapshot, Finish
  <2>9. QED
    BY <2>1, <2>2, <2>3, <2>4, <2>5, <2>6, <2>8
<1>3. CASE WorkerRaises(r)
  <2>1. NeverWaitingUser'
    BY <1>3 DEF WorkerRaises, SaveCurrent, Finish
  <2>2. RunsHaveStartedJobs'
    BY <1>3 DEF WorkerRaises, SaveCurrent, Finish
  <2>3. TimeoutsAreConfigured'
    BY <1>3 DEF WorkerRaises, SaveCurrent, Finish
  <2>4. TasksNameTheirRun'
    BY <1>3 DEF WorkerRaises, SaveCurrent, Finish
  <2>5. NoRunsBeforeRecovery'
    BY <1>3 DEF WorkerRaises, SaveCurrent, Finish
  <2>6. CancelledRunsAreMoot'
    BY <1>3 DEF WorkerRaises, SaveCurrent, Finish
  <2>8. OneActivePerFingerprint'
    BY <1>3 DEF WorkerRaises, SaveCurrent, Finish
  <2>9. QED
    BY <2>1, <2>2, <2>3, <2>4, <2>5, <2>6, <2>8
<1>4. CASE TimeoutFires(r)
  BY <1>4 DEF TimeoutFires
<1>5. CASE TimeoutReported(r)
  BY <1>5 DEF TimeoutReported, SaveSnapshot, Finish
<1>6. CASE CancelDelivered(r)
  <2>a. /\ \/ status' = status
           \/ status' = [status EXCEPT ![target[r]] = "canceled"]
        /\ fp' = fp
    BY <1>6 DEF CancelDelivered, SaveCurrent
  <2>b. Finish(r) /\ pc[r] # "idle"
    BY <1>6 DEF CancelDelivered
  <2>1. NeverWaitingUser'
    BY <1>6 DEF CancelDelivered, SaveCurrent, Finish
  <2>2. RunsHaveStartedJobs'
    BY <1>6, <2>a, <2>b DEF Finish
  <2>3. TimeoutsAreConfigured'
    BY <1>6 DEF CancelDelivered, SaveCurrent, Finish
  <2>4. TasksNameTheirRun'
    BY <1>6 DEF CancelDelivered, SaveCurrent, Finish
  <2>5. NoRunsBeforeRecovery'
    BY <1>6 DEF CancelDelivered, SaveCurrent, Finish
  <2>6. CancelledRunsAreMoot'
    BY <1>6 DEF CancelDelivered, SaveCurrent, Finish
  <2>8. OneActivePerFingerprint'
    BY <2>a
  <2>9. QED
    BY <2>1, <2>2, <2>3, <2>4, <2>5, <2>6, <2>8
<1>7. CASE StagingEnds(r)
  <2>1. NeverWaitingUser'
    BY <1>7 DEF StagingEnds, Finish
  <2>2. RunsHaveStartedJobs'
    BY <1>7 DEF StagingEnds, Finish
  <2>3. TimeoutsAreConfigured'
    BY <1>7 DEF StagingEnds, Finish
  <2>4. TasksNameTheirRun'
    BY <1>7 DEF StagingEnds, Finish
  <2>5. NoRunsBeforeRecovery'
    BY <1>7 DEF StagingEnds, Finish
  <2>6. CancelledRunsAreMoot'
    BY <1>7 DEF StagingEnds, Finish
  <2>8. OneActivePerFingerprint'
    BY <1>7 DEF StagingEnds, Finish
  <2>9. QED
    BY <2>1, <2>2, <2>3, <2>4, <2>5, <2>6, <2>8
<1>8. CASE ForgetTask(r)
  <2>1. NeverWaitingUser'
    BY <1>8 DEF ForgetTask
  <2>2. RunsHaveStartedJobs'
    BY <1>8 DEF ForgetTask
  <2>3. TimeoutsAreConfigured'
    BY <1>8 DEF ForgetTask
  <2>4. TasksNameTheirRun'
    BY <1>8 DEF ForgetTask
  <2>5. NoRunsBeforeRecovery'
    BY <1>8 DEF ForgetTask
  <2>6. CancelledRunsAreMoot'
    BY <1>8 DEF ForgetTask
  <2>8. OneActivePerFingerprint'
    BY <1>8 DEF ForgetTask
  <2>9. QED
    BY <2>1, <2>2, <2>3, <2>4, <2>5, <2>6, <2>8
<1>9. QED
  BY <1>1, <1>2, <1>3, <1>4, <1>5, <1>6, <1>7, <1>8 DEF RunStep

\* So do shutdown, crash, restart and recovery.
LEMMA ProcessLinked ==
  ASSUME BaseInv, ProcessStep
  PROVE  Linked'
<1>0. TypeOK /\ Linked
  BY DEF BaseInv, Linked
<1> USE <1>0, RuntimeAssumption
    DEF Linked, TypeOK, storeVars, eventVars, runVars, Running, Started,
        Terminal, Active, Waiting, Live, NeverWaitingUser, RunsHaveStartedJobs,
        TimeoutsAreConfigured, TasksNameTheirRun, NoRunsBeforeRecovery,
        CancelledRunsAreMoot, OneActivePerFingerprint
<1>1. CASE Shutdown
  BY <1>1 DEF Shutdown
<1>2. CASE Exit
  BY <1>2 DEF Exit, NoCoroutines
<1>3. CASE Crash
  BY <1>3 DEF Crash, NoCoroutines
<1>4. CASE Restart
  BY <1>4 DEF Restart
<1>5. CASE RecoveryEnds
  BY <1>5 DEF RecoveryEnds, Interrupted
<1>6. ASSUME NEW j \in Jobs, RecoverJob(j) PROVE Linked'
  BY <1>6 DEF RecoverJob, SaveCurrent, Interrupted
<1>7. QED
  BY <1>1, <1>2, <1>3, <1>4, <1>5, <1>6 DEF ProcessStep

-----------------------------------------------------------------------------
(* The invariants. *)

\* BaseInv is preserved by every step of the runtime.
LEMMA StepBaseInv == BaseInv /\ [Next]_vars => BaseInv'
<1> SUFFICES ASSUME BaseInv, [Next]_vars PROVE BaseInv'
  OBVIOUS
<1>1. TypeOK'
  BY StepTypeOK
<1>2. Linked'
  <2>1. ASSUME UNCHANGED <<status, fp, pc, target, cancelling, task, phase>>
        PROVE  Linked'
    BY <2>1 DEF BaseInv, Linked, NeverWaitingUser, RunsHaveStartedJobs,
                TimeoutsAreConfigured, TasksNameTheirRun, NoRunsBeforeRecovery,
                CancelledRunsAreMoot, OneActivePerFingerprint
  <2>2. CASE Emit
    BY <2>1, <2>2 DEF Emit, storeVars, runVars
  <2>3. CASE UNCHANGED vars
    BY <2>1, <2>3 DEF vars, storeVars, runVars
  <2>4. QED
    BY <2>2, <2>3, CallerLinked, RunLinked, ProcessLinked DEF Next
<1>3. QED
  BY <1>1, <1>2 DEF BaseInv, Linked

\* A step that keeps a running job's coroutine, or closes its job, keeps
\* RunningHasRun: callers start a job with a coroutine of its own, and a
\* coroutine ends only when the job it runs is closed.
LEMMA StepRunning == IInv /\ [Next]_vars => RunningHasRun'
<1>. SUFFICES ASSUME IInv, [Next]_vars, NEW k \in Jobs,
                     phase' = "up", status'[k] = "running"
              PROVE  \E q \in Runs : target'[q] = k /\ pc'[q] \in Live
  BY DEF RunningHasRun
<1>0. /\ TypeOK /\ RunsHaveStartedJobs /\ TasksNameTheirRun
      /\ NoRunsBeforeRecovery /\ CancelledRunsAreMoot
      /\ phase = "up" /\ status[k] = "running" =>
           \E q \in Runs : target[q] = k /\ pc[q] \in Live
  BY DEF IInv, BaseInv, RunningHasRun
<1>. DEFINE Kept == phase = "up" /\ status[k] = "running" /\
              \A q \in Runs : target[q] = k /\ pc[q] \in Live =>
                               target'[q] = k /\ pc'[q] \in Live
<1>1. ASSUME Kept
      PROVE  \E q \in Runs : target'[q] = k /\ pc'[q] \in Live
  <2>1. PICK q \in Runs : target[q] = k /\ pc[q] \in Live
    BY <1>0, <1>1
  <2>2. target'[q] = k /\ pc'[q] \in Live
    BY <1>1, <2>1
  <2>. QED
    BY <2>2
<1>. USE <1>0 DEF TypeOK, storeVars, eventVars, runVars, Live, Terminal
<1>2. CASE Emit \/ UNCHANGED vars
  <2>1. Kept
    BY <1>2 DEF Emit, vars
  <2>. QED
    BY <1>1, <2>1
<1>3. CASE CallerStep
  <2>1. ASSUME NEW j \in Jobs, NEW f \in Fingerprints, NEW s \in Waiting,
               CreateJob(j, f, s)
        PROVE  Kept
    BY <2>1 DEF CreateJob, Waiting
  <2>2. ASSUME NEW j \in Jobs, NEW a \in Addenda, Attach(j, a)
        PROVE  Kept
    BY <2>2 DEF Attach
  <2>3. ASSUME NEW j \in Jobs, NEW r \in Runs,
               Start(j, r) \/ StartBackground(j, r)
        PROVE  \E q \in Runs : target'[q] = k /\ pc'[q] \in Live
    <3>1. CASE k = j
      BY <2>3, <3>1 DEF Start, StartBackground, MarkRunning
    <3>2. CASE k # j
      <4>1. Kept
        BY <2>3, <3>2 DEF Start, StartBackground, MarkRunning
      <4>. QED
        BY <1>1, <4>1
    <3>. QED
      BY <3>1, <3>2
  <2>4. ASSUME NEW j \in Jobs, Cancel(j)
        PROVE  Kept
    BY <2>4 DEF Cancel, SaveCurrent
  <2>. QED
    BY <1>1, <1>3, <2>1, <2>2, <2>3, <2>4 DEF CallerStep
<1>4. ASSUME NEW r \in Runs, RunStep(r)
      PROVE  Kept
  <2>1. ASSUME UNCHANGED <<status, phase>>, Finish(r),
               pc[r] \in Live => status[target[r]] \in Terminal
        PROVE  Kept
    BY <2>1 DEF Finish
  <2>2. ASSUME target[r] \in Jobs, NEW s \in Terminal, phase' = phase,
               status' = [status EXCEPT ![target[r]] = s],
               Finish(r) \/ (pc' = [pc EXCEPT ![r] = "staging"] /\ UNCHANGED target)
        PROVE  Kept
    BY <2>2 DEF Finish
  <2>3. CASE BeginTask(r) \/ TimeoutFires(r)
    BY <2>3 DEF BeginTask, TimeoutFires
  <2>4. CASE StagingEnds(r)
    BY <2>1, <2>4 DEF StagingEnds
  <2>5. CASE WorkerReturns(r)
    BY <2>1, <2>2, <2>5 DEF WorkerReturns, SaveSnapshot, RunsHaveStartedJobs
  <2>6. CASE WorkerRaises(r)
    BY <2>1, <2>2, <2>6 DEF WorkerRaises, SaveCurrent, RunsHaveStartedJobs
  <2>7. CASE TimeoutReported(r)
    BY <2>2, <2>7 DEF TimeoutReported, SaveSnapshot, RunsHaveStartedJobs
  <2>8. CASE CancelDelivered(r)
    <3>1. phase' = phase /\ Finish(r) /\ target[r] \in Jobs
      BY <2>8 DEF CancelDelivered, RunsHaveStartedJobs
    <3>2. CASE pc[r] \in {"scheduled", "staging"}
      BY <2>8, <3>1, <3>2 DEF CancelDelivered, Finish, CancelledRunsAreMoot
    <3>3. CASE status[target[r]] \in Terminal
      BY <2>1, <2>8, <3>1, <3>3 DEF CancelDelivered, Finish
    <3>4. CASE ~(pc[r] \in {"scheduled", "staging"} \/ status[target[r]] \in Terminal)
      BY <2>2, <2>8, <3>1, <3>4 DEF CancelDelivered, SaveCurrent
    <3>. QED
      BY <3>2, <3>3, <3>4
  <2>9. CASE ForgetTask(r)
    BY <2>9 DEF ForgetTask
  <2>. QED
    BY <1>4, <2>3, <2>4, <2>5, <2>6, <2>7, <2>8, <2>9 DEF RunStep
<1>5. CASE ProcessStep
  <2>1. CASE Shutdown \/ Exit \/ Crash \/ Restart \/ \E j \in Jobs : RecoverJob(j)
    BY <2>1 DEF Shutdown, Exit, Crash, Restart, RecoverJob
  <2>2. CASE RecoveryEnds
    BY <2>2 DEF RecoveryEnds, Interrupted
  <2>. QED
    BY <1>5, <2>1, <2>2 DEF ProcessStep
<1>. QED
  BY <1>1, <1>2, <1>3, <1>4, <1>5 DEF Next

\* IInv is preserved by every step of the runtime.
LEMMA StepIInv == IInv /\ [Next]_vars => IInv'
<1>. QED
  BY StepBaseInv, StepRunning DEF IInv

\* IInv holds in every reachable state.
LEMMA IInvHolds == Spec => []IInv
<1>1. QED
  BY InitIInv, StepIInv, PTL DEF Spec

\* Every variable keeps its type for any number of jobs and coroutines.
THEOREM TypeCorrect == Spec => []TypeOK
<1>1. IInv => TypeOK
  BY DEF IInv, BaseInv
<1>2. QED
  BY <1>1, IInvHolds, PTL

\* While the bot is up no job is RUNNING without a coroutine that owes its
\* outcome (runtime.py 196-216, 229-361 and 258-268 together).
THEOREM NoForgottenJob == Spec => []RunningHasRun
<1>1. IInv => RunningHasRun
  BY DEF IInv, BaseInv
<1>2. QED
  BY <1>1, IInvHolds, PTL

\* create_job's deduplication leaves one active job per fingerprint.
THEOREM Deduplication == Spec => []OneActivePerFingerprint
<1>1. IInv => OneActivePerFingerprint
  BY DEF IInv, BaseInv
<1>2. QED
  BY <1>1, IInvHolds, PTL

-----------------------------------------------------------------------------
(* What a step may do to the status of a job. *)

\* How each step changes the store: it leaves it alone, or it is one of the
\* lifecycle's actions on one job; a terminal status is touched only by a
\* coroutine that reports an expired timeout.
LEMMA StatusStep ==
  ASSUME BaseInv, [Next]_vars
  PROVE  \/ UNCHANGED <<status, fp>>
         \/ \E j \in Jobs, f \in Fingerprints, s \in Waiting :
              /\ status[j] = "absent"
              /\ ActiveJobs(f) = {}
              /\ status' = [status EXCEPT ![j] = s]
              /\ fp' = [fp EXCEPT ![j] = f]
         \/ \E j \in Jobs, s \in Started :
              /\ \/ status[j] \in Waiting /\ s \in {"running", "canceled"}
                 \/ status[j] = "running"
              /\ status' = [status EXCEPT ![j] = s]
              /\ fp' = fp
         \/ \E r \in Runs :
              /\ pc[r] = "timing_out"
              /\ target[r] \in Jobs
              /\ status[target[r]] \in Started
              /\ status' = [status EXCEPT ![target[r]] = "failed"]
              /\ fp' = fp
<1> DEFINE Goal ==
         \/ UNCHANGED <<status, fp>>
         \/ \E j \in Jobs, f \in Fingerprints, s \in Waiting :
              /\ status[j] = "absent"
              /\ ActiveJobs(f) = {}
              /\ status' = [status EXCEPT ![j] = s]
              /\ fp' = [fp EXCEPT ![j] = f]
         \/ \E j \in Jobs, s \in Started :
              /\ \/ status[j] \in Waiting /\ s \in {"running", "canceled"}
                 \/ status[j] = "running"
              /\ status' = [status EXCEPT ![j] = s]
              /\ fp' = fp
         \/ \E r \in Runs :
              /\ pc[r] = "timing_out"
              /\ target[r] \in Jobs
              /\ status[target[r]] \in Started
              /\ status' = [status EXCEPT ![target[r]] = "failed"]
              /\ fp' = fp
<1>0. /\ NeverWaitingUser
      /\ RunsHaveStartedJobs
  BY DEF BaseInv
<1> USE <1>0 DEF NeverWaitingUser, RunsHaveStartedJobs, storeVars, Started,
                 Terminal, Active, SaveCurrent, SaveSnapshot
<1>1. CASE Emit \/ UNCHANGED vars
  BY <1>1 DEF Emit, vars
<1>2. CASE CallerStep
  <2>1. ASSUME NEW j \in Jobs, NEW f \in Fingerprints, NEW s \in Waiting,
               CreateJob(j, f, s)
        PROVE  Goal
    BY <2>1 DEF CreateJob
  <2>2. ASSUME NEW j \in Jobs, NEW a \in Addenda, Attach(j, a) PROVE Goal
    BY <2>2 DEF Attach
  <2>3. ASSUME NEW j \in Jobs, NEW r \in Runs,
               Start(j, r) \/ StartBackground(j, r)
        PROVE  Goal
    <3>1. /\ status[j] \in Waiting \cup {"running"}
          /\ status' = [status EXCEPT ![j] = "running"]
          /\ fp' = fp
      BY <2>3 DEF Start, StartBackground, MarkRunning
    <3>2. QED
      BY <3>1
  <2>4. ASSUME NEW j \in Jobs, Cancel(j) PROVE Goal
    <3>1. /\ status[j] \in Waiting \cup {"running"}
          /\ status' = [status EXCEPT ![j] = "canceled"]
          /\ fp' = fp
      BY <2>4 DEF Cancel
    <3>2. QED
      BY <3>1
  <2>5. QED
    BY <1>2, <2>1, <2>2, <2>3, <2>4 DEF CallerStep
<1>3. ASSUME NEW r \in Runs, RunStep(r) PROVE Goal
  <2>1. ASSUME NEW s \in Terminal, pc[r] # "idle",
               status[target[r]] \notin Terminal,
               status' = [status EXCEPT ![target[r]] = s], fp' = fp
        PROVE  Goal
    <3>1. target[r] \in Jobs /\ status[target[r]] = "running"
      BY <2>1
    <3>2. QED
      BY <2>1, <3>1
  <2>2. CASE BeginTask(r) \/ TimeoutFires(r) \/ StagingEnds(r) \/ ForgetTask(r)
    BY <2>2 DEF BeginTask, TimeoutFires, StagingEnds, ForgetTask
  <2>3. CASE WorkerReturns(r)
    BY <2>1, <2>3 DEF WorkerReturns
  <2>4. CASE WorkerRaises(r)
    BY <2>1, <2>4 DEF WorkerRaises
  <2>5. CASE TimeoutReported(r)
    BY <2>5 DEF TimeoutReported
  <2>6. CASE CancelDelivered(r)
    BY <2>1, <2>6 DEF CancelDelivered, Live
  <2>7. QED
    BY <1>3, <2>2, <2>3, <2>4, <2>5, <2>6 DEF RunStep
<1>4. CASE ProcessStep
  <2>1. CASE Shutdown \/ Exit \/ Crash \/ Restart \/ RecoveryEnds
    BY <2>1 DEF Shutdown, Exit, Crash, Restart, RecoveryEnds
  <2>2. ASSUME NEW j \in Jobs, RecoverJob(j) PROVE Goal
    <3>1. /\ status[j] = "running"
          /\ status' = [status EXCEPT ![j] = "needs_review"]
          /\ fp' = fp
      BY <2>2 DEF RecoverJob, Interrupted
    <3>2. QED
      BY <3>1
  <2>3. QED
    BY <1>4, <2>1, <2>2 DEF ProcessStep
<1>5. QED
  BY <1>1, <1>2, <1>3, <1>4 DEF Next

\* A job that reached a terminal status keeps it, unless a coroutine whose
\* profile timeout expired reports it FAILED.
THEOREM TerminalFinality == Spec => TerminalChangesOnlyByTimeout
<1> DEFINE Step == \A j \in Jobs :
             status[j] \in Terminal /\ status'[j] # status[j] =>
               /\ status'[j] = "failed"
               /\ \E r \in Runs : target[r] = j /\ pc[r] = "timing_out"
<1>1. IInv /\ [Next]_vars => [Step]_vars
  <2> SUFFICES ASSUME IInv, [Next]_vars PROVE Step
    OBVIOUS
  <2>1. status \in [Jobs -> Status]
    BY DEF IInv, BaseInv, TypeOK
  <2>2. QED
    BY <2>1, StatusStep DEF IInv, Terminal, Waiting
<1>2. QED
  BY <1>1, IInvHolds, PTL DEF Spec, TerminalChangesOnlyByTimeout

\* The runtime implements the lifecycle contract JobLifecycle.
THEOREM ImplementsLifecycle == Spec => LifecycleSpec
<1>1. Init => Lifecycle!Init
  BY DEF Init, Lifecycle!Init
<1>2. IInv /\ [Next]_vars => [Lifecycle!Next]_<<status, fp>>
  <2> SUFFICES ASSUME IInv, [Next]_vars
               PROVE  Lifecycle!Next \/ UNCHANGED <<status, fp>>
    OBVIOUS
  <2> USE DEF Lifecycle!Next, Lifecycle!Become, Lifecycle!Waiting,
              Lifecycle!Active, Lifecycle!Terminal, Waiting, Active, Terminal
  <2>0. /\ status \in [Jobs -> Status]
        /\ TimeoutsAreConfigured
    BY DEF IInv, BaseInv, TypeOK
  <2>1. ASSUME NEW j \in Jobs, NEW f \in Fingerprints, NEW s \in Waiting,
               status[j] = "absent", ActiveJobs(f) = {},
               status' = [status EXCEPT ![j] = s],
               fp' = [fp EXCEPT ![j] = f]
        PROVE  Lifecycle!Next
    <3>1. Lifecycle!Create(j, f)
      BY <2>1 DEF Lifecycle!Create, ActiveJobs
    <3>2. QED
      BY <3>1
  <2>2. ASSUME NEW j \in Jobs, NEW s \in Started,
               \/ status[j] \in Waiting /\ s \in {"running", "canceled"}
               \/ status[j] = "running",
               status' = [status EXCEPT ![j] = s], fp' = fp
        PROVE  Lifecycle!Next \/ UNCHANGED <<status, fp>>
    <3>1. CASE s = "canceled"
      <4>1. Lifecycle!Cancel(j)
        BY <2>2, <3>1 DEF Lifecycle!Cancel
      <4>2. QED
        BY <4>1
    <3>2. CASE s = "running" /\ status[j] \in Waiting
      <4>1. Lifecycle!Start(j)
        BY <2>2, <3>2 DEF Lifecycle!Start
      <4>2. QED
        BY <4>1
    <3>3. CASE s = "running" /\ status[j] = "running"
      BY <2>0, <2>2, <3>3
    <3>4. CASE s \in {"done", "failed", "needs_review"}
      <4>1. Lifecycle!Close(j)
        BY <2>2, <3>4 DEF Lifecycle!Close
      <4>2. QED
        BY <4>1
    <3>5. QED
      BY <2>2, <3>1, <3>2, <3>3, <3>4 DEF Started
  <2>3. ASSUME NEW r \in Runs, pc[r] = "timing_out", target[r] \in Jobs,
               status[target[r]] \in Started,
               status' = [status EXCEPT ![target[r]] = "failed"], fp' = fp
        PROVE  Lifecycle!Next
    <3>1. CASE status[target[r]] = "running"
      <4>1. Lifecycle!Close(target[r])
        BY <2>3, <3>1 DEF Lifecycle!Close
      <4>2. QED
        BY <2>3, <4>1
    <3>2. CASE status[target[r]] \in Terminal
      <4>1. Lifecycle!LateTimeout(target[r])
        BY <2>0, <2>3, <3>2 DEF Lifecycle!LateTimeout, TimeoutsAreConfigured
      <4>2. QED
        BY <2>3, <4>1
    <3>3. QED
      BY <2>3, <3>1, <3>2 DEF Started
  <2>4. QED
    BY <2>1, <2>2, <2>3, StatusStep DEF IInv
<1>3. QED
  BY <1>1, <1>2, IInvHolds, PTL DEF Spec, LifecycleSpec, Lifecycle!Spec

-----------------------------------------------------------------------------
(* The event log and the addenda. *)

\* Only a closed job has a closing event.
EventsOfClosed ==
  \A j \in Jobs : status[j] \notin Terminal => Outcome(j) = <<>>

\* COMPLETED is only ever the first closing event of a job.
CompletedComesFirst ==
  \A j \in Jobs : \A m \in DOMAIN Outcome(j) :
    Outcome(j)[m] = "completed" => m = 1

\* An attachment is in the record before it is announced.
AnnouncedIsAttached ==
  pend # None /\ pend.type = "attached" => pend.what \in addenda[pend.job]

EventInv ==
  /\ EventsOfClosed
  /\ CompletedComesFirst
  /\ EventLogMatchesStore
  /\ AnnouncedIsAttached
  /\ AckedAddendaKept

\* What a step may do to a job and its closing events: nothing that matters to
\* them, lose the event that was not written, close the job, or report an
\* expired timeout without reading the job.
Unaffected(j) ==
  /\ Outcome(j)' = Outcome(j)
  /\ status'[j] \in Terminal <=> status[j] \in Terminal
  /\ status[j] \in Terminal => status'[j] = status[j] /\ fp'[j] = fp[j]

EventLost(j) ==
  /\ status'[j] = status[j] /\ fp'[j] = fp[j]
  /\ Outcome(j)' = outcome[j]

ClosedWith(j, e) ==
  /\ pend = None
  /\ status'[j] = StatusOf[e] /\ fp'[j] = fp[j]
  /\ Outcome(j)' \in {outcome[j], Append(outcome[j], e)}

OutcomeMove(j) ==
  \/ Unaffected(j)
  \/ EventLost(j)
  \/ status[j] \notin Terminal /\ \E e \in ClosingEvent : ClosedWith(j, e)
  \/ fp[j] \in Timed /\ ClosedWith(j, "failed")

\* A segment that has no event to write leaves the closing events alone.
LEMMA QuietSegment ==
  ASSUME NEW j \in Jobs, UNCHANGED <<pend, outcome>>
  PROVE  Outcome(j)' = Outcome(j)
BY DEF Outcome

\* A segment that closes a job adds the event to that job's only.
LEMMA ClosingSegment ==
  ASSUME NEW i \in Jobs, NEW e \in ClosingEvent, NEW j \in Jobs,
         pend = None, pend' = Closing(i, e), UNCHANGED outcome
  PROVE  /\ j # i => Outcome(j)' = Outcome(j)
         /\ Outcome(j)' \in {outcome[j], Append(outcome[j], e)}
<1>1. Closing(i, e).job = i /\ Closing(i, e).type = e
  BY DEF Closing
<1>2. Outcome(j) = outcome[j]
  BY DEF Outcome
<1>3. CASE j # i
  BY <1>1, <1>2, <1>3 DEF Outcome
<1>4. CASE j = i
  BY <1>1, <1>4 DEF Outcome
<1>. QED
  BY <1>2, <1>3, <1>4

\* Each step of the coroutine of a run.
LEMMA RunOutcome ==
  ASSUME BaseInv, NEW r \in Runs, RunStep(r), NEW j \in Jobs
  PROVE  OutcomeMove(j)
<1>. USE DEF storeVars, eventVars, Stepping, StatusOf
<1>0. /\ status \in [Jobs -> Status]
      /\ pc[r] # "idle" => target[r] \in Jobs
      /\ pc[r] = "timing_out" => fp[target[r]] \in Timed
  BY DEF BaseInv, TypeOK, RunsHaveStartedJobs, TimeoutsAreConfigured
<1>1. ASSUME UNCHANGED <<storeVars, pend, outcome>>
      PROVE  OutcomeMove(j)
  BY <1>1, QuietSegment DEF OutcomeMove, Unaffected
<1>2. ASSUME NEW e \in ClosingEvent, target[r] \in Jobs, pend = None,
             status' = [status EXCEPT ![target[r]] = StatusOf[e]],
             pend' = Closing(target[r], e), UNCHANGED <<fp, outcome>>,
             \/ status[target[r]] \notin Terminal
             \/ fp[target[r]] \in Timed /\ e = "failed"
      PROVE  OutcomeMove(j)
  <2>1. CASE j # target[r]
    <3>1. status'[j] = status[j] /\ fp'[j] = fp[j] /\ Outcome(j)' = Outcome(j)
      BY <1>0, <1>2, <2>1, ClosingSegment
    <3>. QED
      BY <3>1 DEF OutcomeMove, Unaffected
  <2>2. CASE j = target[r]
    <3>1. ClosedWith(j, e)
      BY <1>0, <1>2, <2>2, ClosingSegment DEF ClosedWith
    <3>. QED
      BY <1>2, <2>2, <3>1 DEF OutcomeMove
  <2>. QED
    BY <2>1, <2>2
<1>3. CASE BeginTask(r) \/ TimeoutFires(r) \/ StagingEnds(r) \/ ForgetTask(r)
  BY <1>1, <1>3 DEF BeginTask, TimeoutFires, StagingEnds, ForgetTask
<1>4. CASE WorkerReturns(r)
  <2>1. CASE status[target[r]] \in Terminal
    BY <1>1, <1>4, <2>1 DEF WorkerReturns
  <2>2. CASE status[target[r]] \notin Terminal
    <3>1. /\ pc[r] # "idle" /\ pend = None /\ UNCHANGED outcome
          /\ SaveSnapshot(r, "done", "completed")
      BY <1>4, <2>2 DEF WorkerReturns
    <3>. QED
      BY <1>0, <1>2, <2>2, <3>1 DEF SaveSnapshot, ClosingEvent
  <2>. QED
    BY <2>1, <2>2
<1>5. CASE WorkerRaises(r)
  <2>1. CASE status[target[r]] \in Terminal
    BY <1>1, <1>5, <2>1 DEF WorkerRaises
  <2>2. CASE status[target[r]] \notin Terminal
    <3>1. /\ pc[r] # "idle" /\ pend = None /\ UNCHANGED outcome
          /\ SaveCurrent(target[r], "failed", "failed")
      BY <1>5, <2>2 DEF WorkerRaises
    <3>. QED
      BY <1>0, <1>2, <2>2, <3>1 DEF SaveCurrent, ClosingEvent
  <2>. QED
    BY <2>1, <2>2
<1>6. CASE TimeoutReported(r)
  <2>1. /\ pc[r] = "timing_out" /\ pend = None /\ UNCHANGED outcome
        /\ SaveSnapshot(r, "failed", "failed")
    BY <1>6 DEF TimeoutReported
  <2>. QED
    BY <1>0, <1>2, <2>1 DEF SaveSnapshot, ClosingEvent
<1>7. CASE CancelDelivered(r)
  <2>1. CASE pc[r] \in {"scheduled", "staging"} \/ status[target[r]] \in Terminal
    BY <1>1, <1>7, <2>1 DEF CancelDelivered
  <2>2. CASE ~(pc[r] \in {"scheduled", "staging"} \/ status[target[r]] \in Terminal)
    <3>1. /\ pc[r] # "idle" /\ pend = None /\ UNCHANGED outcome
          /\ SaveCurrent(target[r], "canceled", "canceled")
      BY <1>7, <2>2 DEF CancelDelivered, Live
    <3>. QED
      BY <1>0, <1>2, <2>2, <3>1 DEF SaveCurrent, ClosingEvent
  <2>. QED
    BY <2>1, <2>2
<1>. QED
  BY <1>3, <1>4, <1>5, <1>6, <1>7 DEF RunStep

\* Every step moves each job in one of the four ways.
LEMMA OutcomeStep ==
  ASSUME BaseInv, [Next]_vars, NEW j \in Jobs
  PROVE  OutcomeMove(j)
<1>. USE DEF storeVars, eventVars, Running, StatusOf
<1>0. status \in [Jobs -> Status] /\ fp \in [Jobs -> Fingerprints \cup {None}]
  BY DEF BaseInv, TypeOK
<1>1. ASSUME UNCHANGED <<pend, outcome>>,
             \A i \in Jobs : /\ status'[i] \in Terminal <=> status[i] \in Terminal
                             /\ status[i] \in Terminal =>
                                  status'[i] = status[i] /\ fp'[i] = fp[i]
      PROVE  OutcomeMove(j)
  BY <1>1, QuietSegment DEF OutcomeMove, Unaffected
<1>2. ASSUME NEW i \in Jobs, NEW e \in ClosingEvent, status[i] \notin Terminal,
             pend = None, SaveCurrent(i, StatusOf[e], e), UNCHANGED outcome
      PROVE  OutcomeMove(j)
  <2>1. CASE j # i
    <3>1. status'[j] = status[j] /\ fp'[j] = fp[j] /\ Outcome(j)' = Outcome(j)
      BY <1>0, <1>2, <2>1, ClosingSegment DEF SaveCurrent
    <3>. QED
      BY <3>1 DEF OutcomeMove, Unaffected
  <2>2. CASE j = i
    <3>1. ClosedWith(j, e)
      BY <1>0, <1>2, <2>2, ClosingSegment DEF ClosedWith, SaveCurrent
    <3>. QED
      BY <1>2, <2>2, <3>1 DEF OutcomeMove
  <2>. QED
    BY <2>1, <2>2
<1>3. CASE Emit
  <2>1. pend \in Event /\ outcome \in [Jobs -> Seq(ClosingEvent)]
    BY <1>3 DEF Emit, BaseInv, TypeOK
  <2>2. Outcome(j)' = outcome'[j]
    BY <1>3 DEF Emit, Outcome
  <2>3. outcome'[j] = Outcome(j)
    <3>1. CASE pend.type = "attached"
      BY <1>3, <3>1 DEF Emit, Outcome, ClosingEvent
    <3>2. CASE pend.type # "attached"
      <4>1. pend.type \in ClosingEvent /\ pend.job \in Jobs
        BY <2>1, <3>2 DEF Event
      <4>2. outcome' = [outcome EXCEPT ![pend.job] = Append(outcome[pend.job], pend.type)]
        BY <1>3, <3>2 DEF Emit
      <4>. QED
        BY <1>3, <2>1, <4>1, <4>2 DEF Emit, Outcome
    <3>. QED
      BY <3>1, <3>2
  <2>4. status'[j] = status[j] /\ fp'[j] = fp[j]
    BY <1>3 DEF Emit
  <2>. QED
    BY <2>2, <2>3, <2>4 DEF OutcomeMove, Unaffected
<1>4. ASSUME NEW i \in Jobs, NEW f \in Fingerprints, NEW s \in Waiting, CreateJob(i, f, s)
      PROVE  OutcomeMove(j)
  BY <1>0, <1>1, <1>4 DEF CreateJob, Waiting, Terminal
<1>5. ASSUME NEW i \in Jobs, NEW a \in Addenda, Attach(i, a)
      PROVE  OutcomeMove(j)
  <2>1. pend = None /\ UNCHANGED <<status, fp, outcome>>
    BY <1>5 DEF Attach
  <2>2. pend'.type = "attached"
    BY <1>5 DEF Attach
  <2>3. Outcome(j)' = Outcome(j)
    BY <2>1, <2>2 DEF Outcome, ClosingEvent
  <2>. QED
    BY <2>1, <2>3 DEF OutcomeMove, Unaffected
<1>6. ASSUME NEW i \in Jobs, NEW r \in Runs, Start(i, r) \/ StartBackground(i, r)
      PROVE  OutcomeMove(j)
  BY <1>0, <1>1, <1>6
     DEF Start, StartBackground, MarkRunning, Active, Waiting, Terminal
<1>7. ASSUME NEW i \in Jobs, Cancel(i)
      PROVE  OutcomeMove(j)
  <2>1. status[i] \notin Terminal /\ pend = None /\ UNCHANGED outcome
    BY <1>7 DEF Cancel, Active, Waiting, Terminal
  <2>2. SaveCurrent(i, "canceled", "canceled")
    BY <1>7 DEF Cancel
  <2>. QED
    BY <1>2, <2>1, <2>2 DEF ClosingEvent
<1>8. ASSUME NEW i \in Jobs, RecoverJob(i)
      PROVE  OutcomeMove(j)
  <2>1. status[i] \notin Terminal /\ pend = None /\ UNCHANGED outcome
    BY <1>8 DEF RecoverJob, Interrupted, Terminal
  <2>2. SaveCurrent(i, "needs_review", "recovered")
    BY <1>8 DEF RecoverJob
  <2>. QED
    BY <1>2, <2>1, <2>2 DEF ClosingEvent
<1>9. CASE Crash
  <2>1. UNCHANGED <<status, fp, outcome>> /\ pend' = None
    BY <1>9 DEF Crash
  <2>. QED
    BY <2>1 DEF OutcomeMove, EventLost, Outcome
<1>10. CASE Shutdown \/ Exit \/ Restart \/ RecoveryEnds \/ UNCHANGED vars
  BY <1>1, <1>10 DEF Shutdown, Exit, Restart, RecoveryEnds, vars
<1>. QED
  BY <1>3, <1>4, <1>5, <1>6, <1>7, <1>8, <1>9, <1>10, RunOutcome
     DEF Next, CallerStep, ProcessStep

\* The closing events stay in order.
LEMMA EventStep ==
  ASSUME IInv, EventInv, [Next]_vars
  PROVE  EventsOfClosed' /\ CompletedComesFirst' /\ EventLogMatchesStore'
<1>. SUFFICES ASSUME NEW j \in Jobs
     PROVE  /\ status'[j] \notin Terminal => Outcome(j)' = <<>>
            /\ \A m \in DOMAIN Outcome(j)' : Outcome(j)'[m] = "completed" => m = 1
            /\ fp'[j] \notin Timed =>
                 /\ Len(Outcome(j)') <= 1
                 /\ Outcome(j)' # <<>> => status'[j] = StatusOf[Outcome(j)'[1]]
  BY DEF EventsOfClosed, CompletedComesFirst, EventLogMatchesStore
<1>1. /\ status[j] \notin Terminal => Outcome(j) = <<>>
      /\ \A m \in DOMAIN Outcome(j) : Outcome(j)[m] = "completed" => m = 1
      /\ fp[j] \notin Timed =>
           /\ Len(Outcome(j)) <= 1
           /\ Outcome(j) # <<>> => status[j] = StatusOf[Outcome(j)[1]]
  BY DEF EventInv, EventsOfClosed, CompletedComesFirst, EventLogMatchesStore
<1>2. outcome[j] \in Seq(ClosingEvent) /\ Outcome(j) \in Seq(ClosingEvent)
  BY DEF IInv, BaseInv, TypeOK, Outcome
<1>3. \/ Outcome(j) = outcome[j]
      \/ \E e \in ClosingEvent : Outcome(j) = Append(outcome[j], e)
  BY DEF Outcome
<1>4. CASE Unaffected(j)
  BY <1>1, <1>4 DEF Unaffected
<1>5. CASE EventLost(j)
  <2>1. CASE Outcome(j) = outcome[j]
    BY <1>1, <1>5, <2>1 DEF EventLost
  <2>2. ASSUME NEW e \in ClosingEvent, Outcome(j) = Append(outcome[j], e)
        PROVE  /\ Outcome(j) # <<>>
               /\ Len(Outcome(j)) <= 1 => outcome[j] = <<>>
               /\ \A m \in DOMAIN outcome[j] :
                    m \in DOMAIN Outcome(j) /\ Outcome(j)[m] = outcome[j][m]
    BY <1>2, <2>2
  <2>. QED
    BY <1>1, <1>3, <1>5, <2>1, <2>2 DEF EventLost
<1>6. ASSUME status[j] \notin Terminal, NEW e \in ClosingEvent, ClosedWith(j, e)
      PROVE  /\ status'[j] \in Terminal
             /\ Outcome(j)' = <<>> \/ Outcome(j)' = <<e>>
             /\ status'[j] = StatusOf[e]
  <2>1. outcome[j] = <<>>
    BY <1>1, <1>6 DEF ClosedWith, Outcome
  <2>2. StatusOf[e] \in Terminal
    BY DEF StatusOf, ClosingEvent, Terminal
  <2>. QED
    BY <1>6, <2>1, <2>2 DEF ClosedWith
<1>7. CASE fp[j] \in Timed /\ ClosedWith(j, "failed")
  <2>1. /\ status'[j] \in Terminal /\ fp'[j] \in Timed
        /\ Outcome(j) = outcome[j]
        /\ Outcome(j)' \in {outcome[j], Append(outcome[j], "failed")}
    BY <1>7 DEF ClosedWith, Outcome, StatusOf, Terminal
  <2>2. CASE Outcome(j)' = outcome[j]
    BY <1>1, <2>1, <2>2
  <2>3. CASE Outcome(j)' = Append(outcome[j], "failed")
    <3>1. \A m \in DOMAIN Outcome(j)' : Outcome(j)'[m] = "completed" =>
             m \in DOMAIN outcome[j] /\ outcome[j][m] = "completed"
      BY <1>2, <2>3
    <3>. QED
      BY <1>1, <2>1, <3>1
  <2>. QED
    BY <2>1, <2>2, <2>3
<1>8. ASSUME status[j] \notin Terminal, \E e \in ClosingEvent : ClosedWith(j, e)
      PROVE  /\ status'[j] \notin Terminal => Outcome(j)' = <<>>
             /\ \A m \in DOMAIN Outcome(j)' : Outcome(j)'[m] = "completed" => m = 1
             /\ Len(Outcome(j)') <= 1
             /\ Outcome(j)' # <<>> => status'[j] = StatusOf[Outcome(j)'[1]]
  <2>1. PICK e \in ClosingEvent : ClosedWith(j, e)
    BY <1>8
  <2>2. /\ status'[j] \in Terminal /\ status'[j] = StatusOf[e]
        /\ Outcome(j)' = <<>> \/ Outcome(j)' = <<e>>
    BY <1>6, <1>8, <2>1
  <2>3. CASE Outcome(j)' = <<>>
    BY <2>2, <2>3
  <2>4. CASE Outcome(j)' = <<e>>
    <3>1. Len(<<e>>) = 1 /\ <<e>>[1] = e /\ DOMAIN <<e>> = {1}
      OBVIOUS
    <3>. QED
      BY <2>2, <2>4, <3>1
  <2>. QED
    BY <2>2, <2>3, <2>4
<1>. QED
  BY <1>4, <1>5, <1>7, <1>8, OutcomeStep DEF OutcomeMove, IInv

\* The event of an attachment follows its save, and only a completed job or an
\* expired timeout puts an older copy in the record's place.
LEMMA AddendaStep ==
  ASSUME IInv, EventInv, [Next]_vars
  PROVE  AnnouncedIsAttached' /\ AckedAddendaKept'
<1>. DEFINE Exempt(j) == status[j] = "done" \/ (status[j] = "failed" /\ fp[j] \in Timed)
<1>0. /\ TypeOK
      /\ \A r \in Runs : pc[r] # "idle" => target[r] \in Jobs
      /\ \A r \in Runs : pc[r] = "timing_out" => fp[target[r]] \in Timed
      /\ pend # None /\ pend.type = "attached" => pend.what \in addenda[pend.job]
      /\ \A j \in Jobs : Exempt(j) \/ acked[j] \subseteq addenda[j]
  BY DEF IInv, BaseInv, EventInv, RunsHaveStartedJobs, TimeoutsAreConfigured,
         AnnouncedIsAttached, AckedAddendaKept
<1>1. \A j \in Jobs : Exempt(j) => Exempt(j)'
  <2>. SUFFICES ASSUME NEW j \in Jobs, Exempt(j)
                PROVE  Exempt(j)'
    OBVIOUS
  <2>1. CASE Unaffected(j)
    BY <2>1 DEF Unaffected, Terminal
  <2>2. CASE EventLost(j)
    BY <2>2 DEF EventLost
  <2>3. CASE fp[j] \in Timed /\ ClosedWith(j, "failed")
    BY <2>3 DEF ClosedWith, StatusOf
  <2>. QED
    BY <2>1, <2>2, <2>3, OutcomeStep DEF OutcomeMove, Terminal, IInv
<1>2. ASSUME UNCHANGED acked,
             \A j \in Jobs : addenda[j] \subseteq addenda'[j] \/ Exempt(j)',
             pend' # None /\ pend'.type = "attached" =>
               pend'.what \in addenda'[pend'.job]
      PROVE  AnnouncedIsAttached' /\ AckedAddendaKept'
  BY <1>0, <1>1, <1>2 DEF AnnouncedIsAttached, AckedAddendaKept
<1>3. ASSUME UNCHANGED <<acked, addenda>>, pend' = pend \/ pend' = None
      PROVE  AnnouncedIsAttached' /\ AckedAddendaKept'
  BY <1>0, <1>2, <1>3
<1>4. ASSUME NEW j \in Jobs, NEW e \in ClosingEvent, NEW s,
             UNCHANGED acked, SaveCurrent(j, s, e)
      PROVE  AnnouncedIsAttached' /\ AckedAddendaKept'
  BY <1>0, <1>2, <1>4 DEF SaveCurrent, Closing, ClosingEvent
<1>5. ASSUME NEW r \in Runs, pc[r] # "idle", UNCHANGED acked,
             \/ SaveSnapshot(r, "done", "completed")
             \/ SaveSnapshot(r, "failed", "failed") /\ pc[r] = "timing_out"
      PROVE  AnnouncedIsAttached' /\ AckedAddendaKept'
  <2>0. PICK i \in Jobs : i = target[r]
    BY <1>0, <1>5
  <2>1. Exempt(i)'
    BY <1>0, <1>5, <2>0 DEF SaveSnapshot, TypeOK
  <2>2. \A j \in Jobs : addenda[j] \subseteq addenda'[j] \/ Exempt(j)'
    BY <1>0, <1>5, <2>0, <2>1 DEF SaveSnapshot, TypeOK
  <2>3. pend'.type # "attached"
    BY <1>5 DEF SaveSnapshot, Closing
  <2>. QED
    BY <1>2, <1>5, <2>2, <2>3
<1>. USE DEF storeVars, eventVars
<1>6. CASE Emit
  <2>1. pend \in Event /\ pend' = None /\ UNCHANGED <<addenda, status, fp>>
    BY <1>0, <1>6 DEF Emit, TypeOK
  <2>2. CASE pend.type = "attached"
    <3>1. pend.job \in Jobs /\ pend.what \in addenda[pend.job]
      BY <1>0, <1>6, <2>1, <2>2 DEF Event, Emit
    <3>2. acked' = [acked EXCEPT ![pend.job] = @ \cup {pend.what}]
      BY <1>6, <2>2 DEF Emit
    <3>3. \A j \in Jobs : Exempt(j) \/ acked'[j] \subseteq addenda[j]
      BY <1>0, <3>1, <3>2 DEF TypeOK
    <3>. QED
      BY <2>1, <3>3 DEF AnnouncedIsAttached, AckedAddendaKept
  <2>3. CASE pend.type # "attached"
    BY <1>3, <1>6, <2>1, <2>3 DEF Emit
  <2>. QED
    BY <2>2, <2>3
<1>7. ASSUME NEW j \in Jobs, NEW a \in Addenda, Attach(j, a)
      PROVE  AnnouncedIsAttached' /\ AckedAddendaKept'
  <2>1. /\ UNCHANGED acked /\ addenda' = [addenda EXCEPT ![j] = addenda[j] \cup {a}]
        /\ pend' = [job |-> j, type |-> "attached", what |-> a]
    BY <1>7 DEF Attach
  <2>. QED
    BY <1>0, <1>2, <2>1 DEF TypeOK
<1>8. CASE CallerStep
  <2>1. ASSUME NEW j \in Jobs, Cancel(j)
        PROVE  AnnouncedIsAttached' /\ AckedAddendaKept'
    BY <1>4, <2>1 DEF Cancel, ClosingEvent
  <2>2. ASSUME NEW j \in Jobs,
               \/ \E f \in Fingerprints, s \in Waiting : CreateJob(j, f, s)
               \/ \E r \in Runs : Start(j, r) \/ StartBackground(j, r)
        PROVE  AnnouncedIsAttached' /\ AckedAddendaKept'
    BY <1>3, <2>2 DEF CreateJob, Start, StartBackground, MarkRunning
  <2>. QED
    BY <1>7, <1>8, <2>1, <2>2 DEF CallerStep
<1>9. ASSUME NEW r \in Runs, RunStep(r)
      PROVE  AnnouncedIsAttached' /\ AckedAddendaKept'
  <2>1. CASE BeginTask(r) \/ TimeoutFires(r) \/ StagingEnds(r) \/ ForgetTask(r)
    BY <1>3, <2>1 DEF BeginTask, TimeoutFires, StagingEnds, ForgetTask
  <2>2. CASE WorkerReturns(r)
    BY <1>3, <1>5, <2>2 DEF WorkerReturns
  <2>3. CASE WorkerRaises(r)
    BY <1>0, <1>3, <1>4, <2>3 DEF WorkerRaises, ClosingEvent
  <2>4. CASE TimeoutReported(r)
    BY <1>5, <2>4 DEF TimeoutReported
  <2>5. CASE CancelDelivered(r)
    BY <1>0, <1>3, <1>4, <2>5 DEF CancelDelivered, ClosingEvent, Live
  <2>. QED
    BY <1>9, <2>1, <2>2, <2>3, <2>4, <2>5 DEF RunStep
<1>10. CASE ProcessStep \/ UNCHANGED vars
  <2>1. ASSUME NEW j \in Jobs, RecoverJob(j)
        PROVE  AnnouncedIsAttached' /\ AckedAddendaKept'
    BY <1>4, <2>1 DEF RecoverJob, ClosingEvent
  <2>2. CASE Shutdown \/ Exit \/ Crash \/ Restart \/ RecoveryEnds \/ UNCHANGED vars
    BY <1>3, <2>2 DEF Shutdown, Exit, Crash, Restart, RecoveryEnds, vars
  <2>. QED
    BY <1>10, <2>1, <2>2 DEF ProcessStep
<1>. QED
  BY <1>6, <1>8, <1>9, <1>10 DEF Next

\* EventInv is inductive relative to IInv.
LEMMA EventInvHolds == Spec => []EventInv
<1>1. Init => EventInv
  BY DEF Init, EventInv, EventsOfClosed, CompletedComesFirst, EventLogMatchesStore,
         AnnouncedIsAttached, AckedAddendaKept, Outcome
<1>2. IInv /\ EventInv /\ [Next]_vars => EventInv'
  BY EventStep, AddendaStep DEF EventInv
<1>. QED
  BY <1>1, <1>2, IInvHolds, PTL DEF Spec

\* However many coroutines run a job, and whatever their timeouts report
\* afterwards, it is announced as completed once.
THEOREM OneCompletion == Spec => []CompletedAtMostOnce
<1>1. EventInv => CompletedAtMostOnce
  BY DEF EventInv, CompletedComesFirst, CompletedAtMostOnce
<1>. QED
  BY <1>1, EventInvHolds, PTL

\* The event log of a job without a profile timeout names its status.
THEOREM LogMatchesStore == Spec => []EventLogMatchesStore
<1>1. EventInv => EventLogMatchesStore
  BY DEF EventInv
<1>. QED
  BY <1>1, EventInvHolds, PTL

\* What was announced as attached is only lost to a completed or timed-out run.
THEOREM AddendaAreKept == Spec => []AckedAddendaKept
<1>1. EventInv => AckedAddendaKept
  BY DEF EventInv
<1>. QED
  BY <1>1, EventInvHolds, PTL

-----------------------------------------------------------------------------
(* A second bot on the workspace, SecondBot.tla. *)

\* The copies the newcomer still has to save are of jobs that were started.
ListedWereStarted ==
  /\ toReview \subseteq Jobs
  /\ \A j \in toReview : status[j] \in Started
  /\ seen \in [Jobs -> SUBSET Addenda]

SharedInv == BaseInv /\ ListedWereStarted

\* A started job stays started.
LEMMA StartedStays ==
  ASSUME BaseInv, [Next]_vars, NEW j \in Jobs, status[j] \in Started
  PROVE  status'[j] \in Started
<1>1. status \in [Jobs -> Status]
  BY DEF BaseInv, TypeOK
<1>. QED
  BY <1>1, StatusStep DEF Started, Terminal, Waiting

\* The newcomer saves an old copy of a started job as NEEDS_REVIEW.
LEMMA ReviewKeepsBase ==
  ASSUME SharedInv, NEW j \in Jobs, SecondReviews(j)
  PROVE  SharedInv'
<1>. USE DEF SharedInv, BaseInv, ListedWereStarted, SecondReviews, runVars
<1>1. TypeOK'
  <2>1. Append(outcome[j], "recovered") \in Seq(ClosingEvent)
    BY DEF TypeOK, ClosingEvent
  <2>2. outcome' \in [Jobs -> Seq(ClosingEvent)]
    BY <2>1 DEF TypeOK
  <2>. QED
    BY <2>2 DEF TypeOK, Status, Terminal
<1>2. /\ NeverWaitingUser' /\ RunsHaveStartedJobs' /\ TimeoutsAreConfigured'
      /\ TasksNameTheirRun' /\ NoRunsBeforeRecovery' /\ CancelledRunsAreMoot'
  BY DEF TypeOK, NeverWaitingUser, RunsHaveStartedJobs, TimeoutsAreConfigured,
         TasksNameTheirRun, NoRunsBeforeRecovery, CancelledRunsAreMoot,
         Started, Terminal
<1>3. OneActivePerFingerprint'
  BY DEF TypeOK, OneActivePerFingerprint, Active, Waiting
<1>4. ListedWereStarted'
  BY DEF TypeOK, Started, Terminal
<1>. QED
  BY <1>1, <1>2, <1>3, <1>4

\* SharedInv is preserved by every step of the two processes.
LEMMA StepShared == SharedInv /\ [SharedNext]_sharedVars => SharedInv'
<1>. SUFFICES ASSUME SharedInv, [SharedNext]_sharedVars
              PROVE  SharedInv'
  OBVIOUS
<1>1. BaseInv /\ ListedWereStarted
  BY DEF SharedInv
<1>2. ASSUME [Next]_vars, UNCHANGED <<toReview, seen>>
      PROVE  SharedInv'
  <2>1. BaseInv'
    BY <1>1, <1>2, StepBaseInv
  <2>2. ListedWereStarted'
    BY <1>1, <1>2, StartedStays DEF ListedWereStarted
  <2>. QED
    BY <2>1, <2>2 DEF SharedInv
<1>3. ASSUME UNCHANGED vars, ListedWereStarted'
      PROVE  SharedInv'
  <2>1. BaseInv'
    BY <1>1, <1>3, StepBaseInv
  <2>. QED
    BY <1>3, <2>1 DEF SharedInv
<1>4. CASE FirstStep \/ UNCHANGED sharedVars
  BY <1>2, <1>4 DEF FirstStep, sharedVars, secondVars
<1>5. CASE SecondLists
  <2>1. ListedWereStarted'
    BY <1>1, <1>5 DEF SecondLists, ListedWereStarted, Interrupted, BaseInv,
                      TypeOK, NeverWaitingUser, Started, vars, storeVars
  <2>. QED
    BY <1>3, <1>5, <2>1 DEF SecondLists
<1>6. CASE SecondStops
  <2>1. ListedWereStarted'
    BY <1>1, <1>6 DEF SecondStops, SecondLeaves, ListedWereStarted, vars, storeVars
  <2>. QED
    BY <1>3, <1>6, <2>1 DEF SecondStops
<1>7. CASE SecondTakesOver
  <2>1. \A r \in Runs : pc[r] = "idle"
    BY <1>1, <1>7 DEF SecondTakesOver, BaseInv, NoRunsBeforeRecovery
  <2>2. BaseInv'
    BY <1>1, <1>7, <2>1
       DEF SecondTakesOver, storeVars, eventVars, runVars, BaseInv, TypeOK, Phases,
           NeverWaitingUser, RunsHaveStartedJobs, TimeoutsAreConfigured,
           TasksNameTheirRun, NoRunsBeforeRecovery, CancelledRunsAreMoot,
           Live, OneActivePerFingerprint
  <2>3. ListedWereStarted'
    BY <1>1, <1>7 DEF SecondTakesOver, SecondLeaves, ListedWereStarted, storeVars
  <2>. QED
    BY <2>2, <2>3 DEF SharedInv
<1>. QED
  BY <1>4, <1>5, <1>6, <1>7, ReviewKeepsBase DEF SharedNext

\* SharedInv holds in every state two processes reach.
LEMMA SharedInvHolds == SharedSpec => []SharedInv
<1>1. SharedInit => SharedInv
  BY InitIInv DEF SharedInit, SharedInv, ListedWereStarted, IInv
<1>. QED
  BY <1>1, StepShared, PTL DEF SharedSpec

\* A recovery that runs beside a live bot leaves one active job per
\* fingerprint: it closes jobs and never reopens one.
THEOREM SharedDeduplication == SharedSpec => []OneActivePerFingerprint
<1>1. SharedInv => OneActivePerFingerprint
  BY DEF SharedInv, BaseInv
<1>. QED
  BY <1>1, SharedInvHolds, PTL

\* A newcomer's recovery event may precede the completion that was about to be
\* announced, so CompletedComesFirst fails here; one completion still holds.
SharedEventInv == EventsOfClosed /\ CompletedAtMostOnce

Once(s) ==
  \A m, n \in DOMAIN s : s[m] = "completed" /\ s[n] = "completed" => m = n

\* An event other than a completion keeps a log of at most one completion so,
\* wherever it falls before the event still to be written.
LEMMA OnceAppend ==
  ASSUME NEW s \in Seq(ClosingEvent), NEW e \in ClosingEvent, e # "completed"
  PROVE  /\ Once(s) => Once(Append(s, e))
         /\ \A d \in ClosingEvent :
              /\ Once(Append(s, d)) => Once(s)
              /\ Once(Append(s, d)) => Once(Append(Append(s, e), d))
<1>1. /\ DOMAIN s = 1..Len(s) /\ Len(s) \in Nat
      /\ \A d \in ClosingEvent :
           /\ DOMAIN Append(s, d) = 1..(Len(s) + 1)
           /\ \A m \in 1..Len(s) : Append(s, d)[m] = s[m]
           /\ Append(s, d)[Len(s) + 1] = d
  OBVIOUS
<1>2. ASSUME Once(s)
      PROVE  Once(Append(s, e))
  BY <1>1, <1>2 DEF Once
<1>3. ASSUME NEW d \in ClosingEvent, Once(Append(s, d))
      PROVE  Once(s)
  BY <1>1, <1>3 DEF Once
<1>4. ASSUME NEW d \in ClosingEvent, Once(Append(s, d))
      PROVE  Once(Append(Append(s, e), d))
  <2>. DEFINE t == Append(Append(s, e), d)
  <2>1. /\ DOMAIN t = 1..(Len(s) + 2)
        /\ \A m \in 1..Len(s) : t[m] = s[m]
        /\ t[Len(s) + 1] = e /\ t[Len(s) + 2] = d
    OBVIOUS
  <2>2. \A m \in DOMAIN t : t[m] = "completed" =>
          \/ m \in 1..Len(s) /\ s[m] = "completed"
          \/ m = Len(s) + 2 /\ d = "completed"
    BY <1>1, <2>1
  <2>3. \A m \in 1..Len(s) : s[m] = "completed" => d # "completed"
    BY <1>1, <1>4 DEF Once
  <2>4. Once(s)
    BY <1>3, <1>4
  <2>. HIDE DEF t
  <2>5. Once(t)
    BY <1>1, <2>2, <2>3, <2>4 DEF Once
  <2>. QED
    BY <2>5 DEF t
<1>. QED
  BY <1>2, <1>3, <1>4

\* A step of the runtime keeps the log of every job to one completion.
LEMMA FirstEvents ==
  ASSUME BaseInv, SharedEventInv, [Next]_vars
  PROVE  SharedEventInv'
<1>. SUFFICES ASSUME NEW j \in Jobs
              PROVE  /\ status'[j] \notin Terminal => Outcome(j)' = <<>>
                     /\ Once(Outcome(j)')
  BY DEF SharedEventInv, EventsOfClosed, CompletedAtMostOnce, Once
<1>1. /\ status[j] \notin Terminal => Outcome(j) = <<>>
      /\ Once(Outcome(j))
  BY DEF SharedEventInv, EventsOfClosed, CompletedAtMostOnce, Once
<1>2. outcome[j] \in Seq(ClosingEvent)
  BY DEF BaseInv, TypeOK
<1>3. \/ Outcome(j) = outcome[j]
      \/ \E e \in ClosingEvent : Outcome(j) = Append(outcome[j], e)
  BY DEF Outcome
<1>4. Once(outcome[j])
  <2>1. "failed" \in ClosingEvent
    BY DEF ClosingEvent
  <2>2. ASSUME NEW e \in ClosingEvent, Once(Append(outcome[j], e))
        PROVE  Once(outcome[j])
    BY <1>2, <2>1, <2>2, OnceAppend, Zenon
  <2>. QED
    BY <1>1, <1>3, <2>2
<1>5. CASE Unaffected(j)
  BY <1>1, <1>5 DEF Unaffected
<1>6. CASE EventLost(j)
  <2>1. status'[j] \notin Terminal => outcome[j] = <<>>
    BY <1>1, <1>2, <1>3, <1>6 DEF EventLost
  <2>. QED
    BY <1>4, <1>6, <2>1 DEF EventLost
<1>7. ASSUME status[j] \notin Terminal, NEW e \in ClosingEvent, ClosedWith(j, e)
      PROVE  status'[j] \in Terminal /\ Once(Outcome(j)')
  <2>1. outcome[j] = <<>> /\ status'[j] \in Terminal
    BY <1>1, <1>7 DEF ClosedWith, Outcome, StatusOf, ClosingEvent, Terminal
  <2>2. Once(<<>>) /\ Once(<<e>>)
    BY DEF Once
  <2>. QED
    BY <1>7, <2>1, <2>2 DEF ClosedWith
<1>8. CASE fp[j] \in Timed /\ ClosedWith(j, "failed")
  <2>1. /\ status'[j] \in Terminal
        /\ Outcome(j)' \in {outcome[j], Append(outcome[j], "failed")}
    BY <1>8 DEF ClosedWith, StatusOf, Terminal
  <2>2. Once(Append(outcome[j], "failed"))
    BY <1>2, <1>4, OnceAppend DEF ClosingEvent
  <2>. QED
    BY <1>4, <2>1, <2>2
<1>. QED
  BY <1>5, <1>6, <1>7, <1>8, OutcomeStep DEF OutcomeMove

\* So does the newcomer's recovery of a job.
LEMMA ReviewEvents ==
  ASSUME SharedInv, SharedEventInv, NEW i \in Jobs, SecondReviews(i)
  PROVE  SharedEventInv'
<1>. SUFFICES ASSUME NEW j \in Jobs
              PROVE  /\ status'[j] \notin Terminal => Outcome(j)' = <<>>
                     /\ Once(Outcome(j)')
  BY DEF SharedEventInv, EventsOfClosed, CompletedAtMostOnce, Once
<1>1. /\ status[j] \notin Terminal => Outcome(j) = <<>>
      /\ Once(Outcome(j))
      /\ outcome \in [Jobs -> Seq(ClosingEvent)] /\ status \in [Jobs -> Status]
  BY DEF SharedInv, BaseInv, TypeOK, SharedEventInv, EventsOfClosed,
         CompletedAtMostOnce, Once
<1>2. /\ status' = [status EXCEPT ![i] = "needs_review"]
      /\ outcome' = [outcome EXCEPT ![i] = Append(outcome[i], "recovered")]
      /\ pend' = pend
  BY DEF SecondReviews
<1>3. CASE j # i
  BY <1>1, <1>2, <1>3 DEF Outcome
<1>4. CASE j = i
  <2>1. status'[j] \in Terminal /\ outcome'[j] = Append(outcome[j], "recovered")
    BY <1>1, <1>2, <1>4 DEF Terminal
  <2>2. outcome[j] \in Seq(ClosingEvent) /\ "recovered" \in ClosingEvent
    BY <1>1 DEF ClosingEvent
  <2>3. CASE pend # None /\ pend.job = j /\ pend.type \in ClosingEvent
    <3>1. /\ Outcome(j) = Append(outcome[j], pend.type)
          /\ Outcome(j)' = Append(Append(outcome[j], "recovered"), pend.type)
      BY <1>2, <2>1, <2>3 DEF Outcome
    <3>. QED
      BY <1>1, <2>1, <2>2, <2>3, <3>1, OnceAppend
  <2>4. CASE ~(pend # None /\ pend.job = j /\ pend.type \in ClosingEvent)
    <3>1. /\ Outcome(j) = outcome[j]
          /\ Outcome(j)' = Append(outcome[j], "recovered")
      BY <1>2, <2>1, <2>4 DEF Outcome
    <3>. QED
      BY <1>1, <2>1, <2>2, <3>1, OnceAppend
  <2>. QED
    BY <2>3, <2>4
<1>. QED
  BY <1>3, <1>4

\* SharedEventInv is inductive relative to SharedInv.
LEMMA SharedEventsHold == SharedSpec => []SharedEventInv
<1>1. SharedInit => SharedEventInv
  BY DEF SharedInit, Init, SharedEventInv, EventsOfClosed, CompletedAtMostOnce,
         Outcome
<1>2. SharedInv /\ SharedEventInv /\ [SharedNext]_sharedVars => SharedEventInv'
  <2>. SUFFICES ASSUME SharedInv, SharedEventInv, [SharedNext]_sharedVars
                PROVE  SharedEventInv'
    OBVIOUS
  <2>1. CASE [Next]_vars
    BY <2>1, FirstEvents DEF SharedInv
  <2>2. CASE SecondTakesOver
    BY <2>2 DEF SecondTakesOver, storeVars, eventVars, SharedEventInv,
                EventsOfClosed, CompletedAtMostOnce, Outcome
  <2>. QED
    BY <2>1, <2>2, ReviewEvents
       DEF SharedNext, FirstStep, SecondLists, SecondStops, sharedVars
<1>. QED
  BY <1>1, <1>2, SharedInvHolds, PTL DEF SharedSpec

\* A job is announced as completed once even when a newcomer recovers it while
\* the live bot reports it.
THEOREM SharedOneCompletion == SharedSpec => []CompletedAtMostOnce
<1>1. SharedEventInv => CompletedAtMostOnce
  BY DEF SharedEventInv
<1>. QED
  BY <1>1, SharedEventsHold, PTL

=============================================================================
