---------------------------- MODULE AgentRuntime ----------------------------
(***************************************************************************)
(* The durable job runtime, src/agent_runtime/runtime.py, with its file    *)
(* store (storage.py), its event log (events.py) and the callers that      *)
(* decide when an operation is invoked (bridge.py, routing.py,             *)
(* bot/handlers/agent_runtime_attachments.py).                             *)
(*                                                                         *)
(* The runtime is one asyncio program.  The store and the event log never  *)
(* suspend, so the code between two suspensions is one action.  The real   *)
(* suspensions are: the worker's run, the clean-up after a timeout or a    *)
(* cancellation, memory staging (a thread), and a task that was created    *)
(* but has not run yet.  A save and the event that follows it are two      *)
(* writes to disk, so a crash can fall between them: `pend' holds an event *)
(* whose job is saved and which is not yet written.                        *)
(*                                                                         *)
(* A backend's cancel() returns False without suspending in every backend  *)
(* of the repository, so AgentRuntime.cancel is one action.                *)
(***************************************************************************)
EXTENDS Naturals, Sequences, FiniteSets

CONSTANTS
  Jobs,          \* job ids, never reused (uuid4)
  Runs,          \* slots for _run_worker coroutines: bounds how many coexist
  Fingerprints,  \* source fingerprints; a fingerprint fixes chat and profile
  Addenda,       \* follow-up texts and artifact paths
  Chats,
  ChatOf,        \* the chat a fingerprint belongs to
  Timed,         \* fingerprints whose profile sets timeout_seconds
  MaxQueued,     \* max_queued_per_chat
  None           \* no job, no run, no event

ASSUME RuntimeAssumption ==
  /\ ChatOf \in [Fingerprints -> Chats]
  /\ Timed \subseteq Fingerprints
  /\ MaxQueued \in Nat
  /\ None \notin Jobs \cup Runs \cup Fingerprints

VARIABLES
  status,      \* AgentJob.status in the store, "absent" before creation
  fp,          \* AgentJob.fingerprint
  addenda,     \* AgentJob.followups and .artifacts
  acked,       \* addenda with a FOLLOWUP_ATTACHED / ARTIFACT_ATTACHED event
  outcome,     \* the job's COMPLETED, FAILED, CANCELED, RECOVERED events
  pend,        \* the event the current segment has yet to write
  pc,          \* where each _run_worker coroutine stands
  target,      \* the job a coroutine runs
  snap,        \* followups and artifacts of the coroutine's `running' copy
  cancelling,  \* Task.cancel() was called on the coroutine's task
  task,        \* _background_tasks
  phase        \* the bot process

storeVars == <<status, fp, addenda>>
eventVars == <<acked, outcome>>
runVars   == <<pc, target, snap, cancelling, task>>
vars == <<storeVars, eventVars, pend, runVars, phase>>

Terminal == {"done", "failed", "canceled", "needs_review"}
Waiting  == {"queued", "awaiting_input"}
Active   == Waiting \cup {"running", "waiting_user"}
Status   == {"absent"} \cup Active \cup Terminal

ClosingEvent == {"completed", "failed", "canceled", "recovered"}
Event == [job : Jobs, type : ClosingEvent]
           \cup [job : Jobs, type : {"attached"}, what : Addenda]

RunPC  == {"idle", "scheduled", "working", "timing_out", "staging", "over"}
Live   == {"scheduled", "working", "timing_out"}   \* still owes an outcome
Phases == {"down", "recovering", "up", "stopping"}

TypeOK ==
  /\ status \in [Jobs -> Status]
  /\ fp \in [Jobs -> Fingerprints \cup {None}]
  /\ addenda \in [Jobs -> SUBSET Addenda]
  /\ acked \in [Jobs -> SUBSET Addenda]
  /\ outcome \in [Jobs -> Seq(ClosingEvent)]
  /\ pend \in Event \cup {None}
  /\ pc \in [Runs -> RunPC]
  /\ target \in [Runs -> Jobs \cup {None}]
  /\ snap \in [Runs -> SUBSET Addenda]
  /\ cancelling \in [Runs -> BOOLEAN]
  /\ task \in [Jobs -> Runs \cup {None}]
  /\ phase \in Phases

Init ==
  /\ status = [j \in Jobs |-> "absent"]
  /\ fp = [j \in Jobs |-> None]
  /\ addenda = [j \in Jobs |-> {}]
  /\ acked = [j \in Jobs |-> {}]
  /\ outcome = [j \in Jobs |-> <<>>]
  /\ pend = None
  /\ pc = [r \in Runs |-> "idle"]
  /\ target = [r \in Runs |-> None]
  /\ snap = [r \in Runs |-> {}]
  /\ cancelling = [r \in Runs |-> FALSE]
  /\ task = [j \in Jobs |-> None]
  /\ phase = "up"

-----------------------------------------------------------------------------
(* Saving a job and announcing it. *)

Closing(j, e) == [job |-> j, type |-> e]

\* store.save of a record read in this segment, then an event to write.
SaveCurrent(j, s, e) ==
  /\ status' = [status EXCEPT ![j] = s]
  /\ pend' = Closing(j, e)
  /\ UNCHANGED <<fp, addenda>>

\* store.save of the copy a run took when it was marked running.
SaveSnapshot(r, s, e) ==
  /\ status' = [status EXCEPT ![target[r]] = s]
  /\ addenda' = [addenda EXCEPT ![target[r]] = snap[r]]
  /\ pend' = Closing(target[r], e)
  /\ UNCHANGED fp

\* A new segment starts only when the previous one wrote its event.
Running == phase = "up" /\ pend = None
Stepping == phase \in {"up", "stopping"} /\ pend = None

\* AgentRuntime._emit: the second half of a segment.
Emit ==
  /\ pend # None
  /\ IF pend.type = "attached"
     THEN /\ acked' = [acked EXCEPT ![pend.job] = @ \cup {pend.what}]
          /\ UNCHANGED outcome
     ELSE /\ outcome' = [outcome EXCEPT ![pend.job] = Append(@, pend.type)]
          /\ UNCHANGED acked
  /\ pend' = None
  /\ UNCHANGED <<storeVars, runVars, phase>>

-----------------------------------------------------------------------------
(* Operations callers invoke. *)

\* Mutant: a running job is not found by its fingerprint.
ActiveJobsWaitingOnly(f) == {j \in Jobs : fp[j] = f /\ status[j] \in Waiting}

ActiveJobs(f) == {j \in Jobs : fp[j] = f /\ status[j] \in Active}
WaitingIn(c)  == {j \in Jobs : /\ status[j] \in Waiting
                               /\ fp[j] \in Fingerprints
                               /\ ChatOf[fp[j]] = c}

\* _enforce_chat_limits: callers create jobs as QUEUED or AWAITING_INPUT.
HasQueueRoom(f) == Cardinality(WaitingIn(ChatOf[f])) < MaxQueued

\* create_job finds no active job for the fingerprint (otherwise it returns
\* the existing one and nothing changes).
CreateJob(j, f, s) ==
  /\ Running
  /\ status[j] = "absent"
  /\ ActiveJobs(f) = {}
  /\ HasQueueRoom(f)
  /\ status' = [status EXCEPT ![j] = s]
  /\ fp' = [fp EXCEPT ![j] = f]
  /\ UNCHANGED <<addenda, eventVars, pend, runVars, phase>>

\* attach_followup / attach_artifact on the job routing or the attachment
\* handler picked; the handler picks it before it awaits the download.  An
\* addendum is one message, attached to a job once.
Attach(j, a) ==
  /\ Running
  /\ status[j] \in Active
  /\ a \notin addenda[j]
  /\ addenda' = [addenda EXCEPT ![j] = @ \cup {a}]
  /\ pend' = [job |-> j, type |-> "attached", what |-> a]
  /\ UNCHANGED <<status, fp, eventVars, runVars, phase>>

\* _mark_running and the `running' copy handed to _run_worker.
MarkRunning(j, r, at) ==
  /\ pc[r] = "idle"
  /\ status' = [status EXCEPT ![j] = "running"]
  /\ pc' = [pc EXCEPT ![r] = at]
  /\ target' = [target EXCEPT ![r] = j]
  /\ snap' = [snap EXCEPT ![r] = addenda[j]]
  /\ cancelling' = [cancelling EXCEPT ![r] = FALSE]
  /\ UNCHANGED <<fp, addenda, eventVars, pend, phase>>

\* Mutant: the check for a terminal job is missing.
StartAnyJob(j, r) ==
  /\ Running
  /\ status[j] # "absent"
  /\ MarkRunning(j, r, "working")
  /\ UNCHANGED task

\* start: no check that another coroutine already runs the job.
Start(j, r) ==
  /\ Running
  /\ status[j] \in Active
  /\ MarkRunning(j, r, "working")
  /\ UNCHANGED task

HasLiveTask(j) == task[j] # None /\ pc[task[j]] # "over"

StartBackground(j, r) ==
  /\ Running
  /\ ~HasLiveTask(j)
  /\ status[j] \in Active
  /\ MarkRunning(j, r, "scheduled")
  /\ task' = [task EXCEPT ![j] = r]

\* cancel, from routing, on the active job it picked in the same segment.
Cancel(j) ==
  /\ Running
  /\ status[j] \in Active
  /\ SaveCurrent(j, "canceled", "canceled")
  /\ cancelling' = IF HasLiveTask(j)
                   THEN [cancelling EXCEPT ![task[j]] = TRUE]
                   ELSE cancelling
  /\ UNCHANGED <<eventVars, pc, target, snap, task, phase>>

-----------------------------------------------------------------------------
(* The coroutine _run_worker. *)

\* A foreground coroutine returns to its caller; a background task is done
\* and its done-callback is still to run.
Finish(r) ==
  /\ pc' = [pc EXCEPT ![r] = IF task[target[r]] = r THEN "over" ELSE "idle"]
  /\ UNCHANGED <<target, snap, cancelling, task>>

\* The event loop gives a created task its first step.
BeginTask(r) ==
  /\ Stepping
  /\ pc[r] = "scheduled" /\ ~cancelling[r]
  /\ pc' = [pc EXCEPT ![r] = "working"]
  /\ UNCHANGED <<storeVars, eventVars, pend, target, snap, cancelling, task, phase>>

\* Mutant: the job is not read again before success is reported.
WorkerReturnsUnread(r) ==
  /\ Stepping
  /\ pc[r] = "working" /\ ~cancelling[r]
  /\ SaveSnapshot(r, "done", "completed")
  /\ Finish(r)
  /\ UNCHANGED <<eventVars, phase>>

\* Success is reported only if the job did not become terminal meanwhile.
WorkerReturns(r) ==
  /\ Stepping
  /\ pc[r] = "working" /\ ~cancelling[r]
  /\ IF status[target[r]] \in Terminal
     THEN Finish(r) /\ UNCHANGED <<storeVars, pend>>
     ELSE /\ SaveSnapshot(r, "done", "completed")
          /\ \/ Finish(r)                                  \* nothing to stage
             \/ /\ pc' = [pc EXCEPT ![r] = "staging"]
                /\ UNCHANGED <<target, snap, cancelling, task>>
  /\ UNCHANGED <<eventVars, phase>>

\* Mutant: the failure is saved from the copy taken at the start.
WorkerRaisesFromSnapshot(r) ==
  /\ Stepping
  /\ pc[r] \in {"working", "timing_out"}
  /\ IF status[target[r]] \in Terminal
     THEN UNCHANGED <<storeVars, pend>>
     ELSE SaveSnapshot(r, "failed", "failed")
  /\ Finish(r)
  /\ UNCHANGED <<eventVars, phase>>

\* An exception of the worker, or of its clean-up after a timeout or cancel.
WorkerRaises(r) ==
  /\ Stepping
  /\ pc[r] \in {"working", "timing_out"}
  /\ IF status[target[r]] \in Terminal
     THEN UNCHANGED <<storeVars, pend>>
     ELSE SaveCurrent(target[r], "failed", "failed")
  /\ Finish(r)
  /\ UNCHANGED <<eventVars, phase>>

\* Mutant: only background tasks run under the profile timeout.
TimeoutFiresInBackground(r) ==
  /\ Stepping
  /\ pc[r] = "working"
  /\ fp[target[r]] \in Timed
  /\ task[target[r]] = r
  /\ pc' = [pc EXCEPT ![r] = "timing_out"]
  /\ UNCHANGED <<storeVars, eventVars, pend, target, snap, cancelling, task, phase>>

\* asyncio.wait_for expires and starts to cancel the worker.
TimeoutFires(r) ==
  /\ Stepping
  /\ pc[r] = "working"
  /\ fp[target[r]] \in Timed
  /\ pc' = [pc EXCEPT ![r] = "timing_out"]
  /\ UNCHANGED <<storeVars, eventVars, pend, target, snap, cancelling, task, phase>>

\* TimeoutError is reported from the `running' copy without reading the job
\* again.  A task.cancel() that arrived meanwhile wins over the timeout.
TimeoutReported(r) ==
  /\ Stepping
  /\ pc[r] = "timing_out" /\ ~cancelling[r]
  /\ SaveSnapshot(r, "failed", "failed")
  /\ Finish(r)
  /\ UNCHANGED <<eventVars, phase>>

\* Mutant: the cancelled coroutine reports whatever the job became.
CancelDeliveredUnread(r) ==
  /\ Stepping
  /\ cancelling[r]
  /\ pc[r] \in Live \cup {"staging"}
  /\ IF pc[r] \in {"scheduled", "staging"}
     THEN UNCHANGED <<storeVars, pend>>
     ELSE SaveCurrent(target[r], "canceled", "canceled")
  /\ Finish(r)
  /\ UNCHANGED <<eventVars, phase>>

\* Mutant: a coroutine whose job is already terminal swallows the cancel.
CancelDeliveredIfActive(r) ==
  /\ Stepping
  /\ cancelling[r]
  /\ pc[r] \in Live \cup {"staging"}
  /\ status[target[r]] \notin Terminal
  /\ IF pc[r] \in {"scheduled", "staging"}
     THEN UNCHANGED <<storeVars, pend>>
     ELSE SaveCurrent(target[r], "canceled", "canceled")
  /\ Finish(r)
  /\ UNCHANGED <<eventVars, phase>>

\* CancelledError: before the first step and while staging nothing is caught.
CancelDelivered(r) ==
  /\ Stepping
  /\ cancelling[r]
  /\ pc[r] \in Live \cup {"staging"}
  /\ IF pc[r] \in {"scheduled", "staging"} \/ status[target[r]] \in Terminal
     THEN UNCHANGED <<storeVars, pend>>
     ELSE SaveCurrent(target[r], "canceled", "canceled")
  /\ Finish(r)
  /\ UNCHANGED <<eventVars, phase>>

\* _stage_memory_candidates ends, successfully or with a PROGRESS event.
StagingEnds(r) ==
  /\ Stepping
  /\ pc[r] = "staging"
  /\ Finish(r)
  /\ UNCHANGED <<storeVars, eventVars, pend, phase>>

\* The done-callback: _background_tasks.pop(job_id, None).
ForgetTask(r) ==
  /\ Stepping
  /\ pc[r] = "over"
  /\ pc' = [pc EXCEPT ![r] = "idle"]
  /\ task' = [task EXCEPT ![target[r]] = None]
  /\ UNCHANGED <<storeVars, eventVars, pend, target, snap, cancelling, phase>>

-----------------------------------------------------------------------------
(* The bot process. *)

NoCoroutines ==
  /\ pc' = [r \in Runs |-> "idle"]
  /\ target' = [r \in Runs |-> None]
  /\ snap' = [r \in Runs |-> {}]
  /\ cancelling' = [r \in Runs |-> FALSE]
  /\ task' = [j \in Jobs |-> None]

\* asyncio.run cancels every task that is left when main() returns.
Shutdown ==
  /\ Running
  /\ phase' = "stopping"
  /\ cancelling' = [r \in Runs |-> pc[r] \in Live \cup {"staging"}]
  /\ UNCHANGED <<storeVars, eventVars, pend, pc, target, snap, task>>

Exit ==
  /\ phase = "stopping" /\ pend = None
  /\ \A r \in Runs : pc[r] = "idle"
  /\ phase' = "down"
  /\ NoCoroutines
  /\ UNCHANGED <<storeVars, eventVars, pend>>

\* Everything in memory is lost, and an event that was not written.
Crash ==
  /\ phase # "down"
  /\ phase' = "down"
  /\ pend' = None
  /\ NoCoroutines
  /\ UNCHANGED <<storeVars, eventVars>>

Restart ==
  /\ phase = "down"
  /\ phase' = "recovering"
  /\ UNCHANGED <<storeVars, eventVars, pend, runVars>>

\* Mutant: only jobs that wait for the user count as interrupted.
InterruptedWaiting == {j \in Jobs : status[j] = "waiting_user"}

Interrupted == {j \in Jobs : status[j] \in {"running", "waiting_user"}}

\* Mutant: the event name is written as the status.
RecoverJobAsEvent(j) ==
  /\ phase = "recovering" /\ pend = None
  /\ j \in Interrupted
  /\ SaveCurrent(j, "recovered", "recovered")
  /\ UNCHANGED <<eventVars, runVars, phase>>

\* recover_running_jobs, one job of its loop; nothing else runs at start-up.
RecoverJob(j) ==
  /\ phase = "recovering" /\ pend = None
  /\ j \in Interrupted
  /\ SaveCurrent(j, "needs_review", "recovered")
  /\ UNCHANGED <<eventVars, runVars, phase>>

RecoveryEnds ==
  /\ phase = "recovering" /\ pend = None
  /\ Interrupted = {}
  /\ phase' = "up"
  /\ UNCHANGED <<storeVars, eventVars, pend, runVars>>

-----------------------------------------------------------------------------
CallerStep ==
  \E j \in Jobs :
    \/ \E f \in Fingerprints, s \in Waiting : CreateJob(j, f, s)
    \/ \E a \in Addenda : Attach(j, a)
    \/ \E r \in Runs : Start(j, r) \/ StartBackground(j, r)
    \/ Cancel(j)

RunStep(r) ==
  \/ BeginTask(r)
  \/ WorkerReturns(r)
  \/ WorkerRaises(r)
  \/ TimeoutFires(r)
  \/ TimeoutReported(r)
  \/ CancelDelivered(r)
  \/ StagingEnds(r)
  \/ ForgetTask(r)

ProcessStep ==
  \/ Shutdown \/ Exit \/ Crash \/ Restart \/ RecoveryEnds
  \/ \E j \in Jobs : RecoverJob(j)

Next ==
  \/ Emit
  \/ CallerStep
  \/ \E r \in Runs : RunStep(r)
  \/ ProcessStep

Spec == Init /\ [][Next]_vars

\* The event loop keeps running what is ready: it steps ready tasks, fires
\* due timers, delivers cancellations, runs done-callbacks, finishes the
\* segment it is in and returns once nothing is left.  A worker that never
\* returns is not excluded.
LoopFairness ==
  /\ WF_vars(Emit)
  /\ WF_vars(Exit)
  /\ WF_vars(RecoveryEnds)
  /\ \A j \in Jobs : WF_vars(RecoverJob(j))
  /\ \A r \in Runs :
       /\ WF_vars(BeginTask(r))
       /\ WF_vars(TimeoutFires(r))
       /\ WF_vars(TimeoutReported(r))
       /\ WF_vars(CancelDelivered(r))
       /\ WF_vars(ForgetTask(r))

FairSpec == Spec /\ LoopFairness

-----------------------------------------------------------------------------
(* Properties. *)

\* The closing events of a job, the one still to be written included.
Outcome(j) ==
  IF pend # None /\ pend.job = j /\ pend.type \in ClosingEvent
  THEN Append(outcome[j], pend.type)
  ELSE outcome[j]

StatusOf == [completed |-> "done", failed |-> "failed",
             canceled |-> "canceled", recovered |-> "needs_review"]

\* While the bot is up, a job shown as RUNNING has a coroutine that still
\* owes its outcome: recovery at start-up leaves no orphan, and no end of a
\* coroutine (also of one of two that run the same job) forgets the job.
RunningHasRun ==
  phase = "up" =>
    \A j \in Jobs : status[j] = "running" =>
      \E r \in Runs : target[r] = j /\ pc[r] \in Live

\* create_job deduplicates: no history of starts, cancels, timeouts and
\* restarts leaves two active jobs with one fingerprint.
OneActivePerFingerprint ==
  \A i, j \in Jobs :
    status[i] \in Active /\ status[j] \in Active /\ fp[i] = fp[j] => i = j

\* However many coroutines run a job, one COMPLETED event is emitted, and so
\* memory candidates and budget usage are recorded once.
CompletedAtMostOnce ==
  \A j \in Jobs : \A m, n \in DOMAIN Outcome(j) :
    Outcome(j)[m] = "completed" /\ Outcome(j)[n] = "completed" => m = n

\* Where no profile timeout applies the event log never contradicts the
\* store: at most one closing event, and it names the status the job has.
EventLogMatchesStore ==
  \A j \in Jobs : fp[j] \notin Timed =>
    /\ Len(Outcome(j)) <= 1
    /\ Outcome(j) # <<>> => status[j] = StatusOf[Outcome(j)[1]]

\* An addendum whose attachment was announced stays in the job record until
\* the job is completed or timed out from a copy taken when it was started.
AckedAddendaKept ==
  \A j \in Jobs :
    (status[j] # "done" /\ ~(status[j] = "failed" /\ fp[j] \in Timed)) =>
      acked[j] \subseteq addenda[j]

\* A terminal status is final, except that a coroutine whose profile timeout
\* has expired reports FAILED without reading the job again.
TerminalChangesOnlyByTimeout ==
  [][\A j \in Jobs :
       status[j] \in Terminal /\ status'[j] # status[j] =>
         /\ status'[j] = "failed"
         /\ \E r \in Runs : target[r] = j /\ pc[r] = "timing_out"]_vars

\* A running job whose profile has a timeout gets a terminal status even if
\* the worker never returns, unless the process goes away first.
TimedJobEnds ==
  \A j \in Jobs :
    (phase = "up" /\ status[j] = "running" /\ fp[j] \in Timed)
      ~> (status[j] # "running" \/ phase = "down")

\* Start-up moves every interrupted job to NEEDS_REVIEW before the bot serves.
InterruptedIsReviewed ==
  \A j \in Jobs :
    (phase = "recovering" /\ status[j] = "running")
      ~> (status[j] = "needs_review" \/ phase = "down")

\* Cancelling a background job also frees its coroutine and its task entry.
CanceledTaskIsFreed ==
  \A r \in Runs : cancelling[r] ~> ~cancelling[r] \/ pc[r] = "idle"

\* Seen from its callers the runtime implements the lifecycle contract, with
\* the identity as refinement mapping on status and fp.
Lifecycle == INSTANCE JobLifecycle
LifecycleSpec == Lifecycle!Spec

\* attach_followup, runtime.py:177: "Attach a user addendum unless the job is
\* terminal."  A non-terminal job's addendum that was announced is attached.
AckedAddendaAttached == \A j \in Jobs : acked[j] \subseteq addenda[j]

=============================================================================
