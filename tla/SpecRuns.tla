------------------------------ MODULE SpecRuns ------------------------------
(***************************************************************************)
(* Specs under tasks/ and the runs that implement them:                    *)
(* skills/spec_command/skill.py, skills/implement_spec/ and the job that   *)
(* carries a run (agent_runtime/workers/self_coding.py).                   *)
(*                                                                         *)
(* Everything happens on one event loop and git is called synchronously,   *)
(* so an action is what a coroutine does between two awaits.  The copy of  *)
(* the spec a run reads at its start is saved back whole with the verdict; *)
(* it always is the copy of an approved spec, which has no commit.         *)
(***************************************************************************)
EXTENDS Naturals, FiniteSets

CONSTANTS
  Specs,        \* files of tasks/
  Runs,         \* runs of specs, each with the worktree it may create
  MaxAttempts,  \* _REPAIR_RETRY_LIMIT + 1
  MaxOrders,    \* bound: commands and messages of the owner
  MaxCrashes,   \* bound: crashes of the process
  None

ASSUME SpecRunsAssumption ==
  /\ None \notin Specs /\ None \notin Runs
  /\ MaxAttempts \in Nat \ {0}
  /\ MaxOrders \in Nat /\ MaxCrashes \in Nat

VARIABLES
  file,         \* each spec on disk: its status and its commit
  run,          \* each run
  trees,        \* the worktrees that exist
  dirty,        \* the uncommitted edits in each worktree
  landed,       \* the runs whose commit is on the live branch
  orders,       \* history
  crashes       \* history

vars == <<file, run, trees, dirty, landed, orders, crashes>>

Statuses == {"absent", "pending_approval", "approved", "done", "failed",
             "rejected"}
Edits == Runs \X (1..MaxAttempts)

\* What an authorised run can stand at.
InCycle == {"prepared", "editing", "gate", "review", "repair",
            "applied", "reporting", "failing"}
PCs == InCycle \cup {"none", "queued", "over", "closed"}

\* `resume` is the preserved worktree a run was given, `tree` the one it
\* opened, `commit` the edits in the commit it made, `shared` whether it was
\* ever in a worktree with another run, and `room` whether the working room
\* waits for its result.
NoRun == [pc |-> "none", spec |-> None, resume |-> None, tree |-> None,
          attempt |-> 1, commit |-> {}, ok |-> FALSE, shared |-> FALSE,
          room |-> FALSE]

RunRecords ==
  [pc : PCs, spec : Specs \cup {None}, resume : Runs \cup {None},
   tree : Runs \cup {None}, attempt : 1..MaxAttempts, commit : SUBSET Edits,
   ok : BOOLEAN, shared : BOOLEAN, room : BOOLEAN]

FileRecords == [status : Statuses, sha : Runs \cup {None}]

TypeOK ==
  /\ file \in [Specs -> FileRecords]
  /\ run \in [Runs -> RunRecords]
  /\ trees \subseteq Runs
  /\ dirty \in [Runs -> SUBSET Edits]
  /\ landed \subseteq Runs
  /\ orders \in 0..MaxOrders /\ crashes \in 0..MaxCrashes

Init ==
  /\ file \in [Specs -> [status : {"absent", "pending_approval"}, sha : {None}]]
  /\ run = [r \in Runs |-> NoRun]
  /\ trees = {}
  /\ dirty = [r \in Runs |-> {}]
  /\ landed = {}
  /\ orders = 0 /\ crashes = 0

-----------------------------------------------------------------------------
(* Helpers. *)

\* Between the cherry-pick and the next await the loop is the run's.
LoopFree == \A r \in Runs : run[r].pc # "applied"

At(r, pc) ==
  /\ run[r].pc = pc
  /\ pc # "applied" => LoopFree

Goto(r, pc) == run' = [run EXCEPT ![r].pc = pc]

\* A run of which only what it was for is left.
Closed(r) == [NoRun EXCEPT !.pc = "closed", !.spec = run[r].spec]

\* A run that has its verdict.
Decided(r, pc) ==
  [Closed(r) EXCEPT !.pc = pc, !.tree = run[r].tree, !.room = run[r].room]

\* The run ends with a result for the room, or for nobody in particular.
Over(r, ok) ==
  run' = [run EXCEPT ![r] = IF run[r].room
                            THEN [Decided(r, "over") EXCEPT !.ok = ok]
                            ELSE Closed(r)]

Users(t) == {r \in Runs : run[r].tree = t /\ run[r].pc \in InCycle}

\* save_spec_raw of the run's copy with a verdict.
SaveVerdict(r, status, sha) ==
  file' = [file EXCEPT ![run[r].spec] = [status |-> status, sha |-> sha]]

\* IsolatedWorkspaceManager.cleanup.
Cleanup(r) ==
  /\ trees' = trees \ {run[r].tree}
  /\ dirty' = [t \in Runs |-> IF t = run[r].tree THEN {} ELSE dirty[t]]

\* Mutant: the edits survive.
ResetForgotten(t) == UNCHANGED dirty

\* _reset_workspace_to_base.
Reset(t) == dirty' = [dirty EXCEPT ![t] = {}]

treeVars == <<trees, dirty>>
restVars == <<landed, orders, crashes>>

Order ==
  /\ LoopFree
  /\ orders < MaxOrders
  /\ orders' = orders + 1

countVars == <<landed, crashes>>

-----------------------------------------------------------------------------
(* The owner's commands and the architect. *)

\* write_spec_to_disk, with a slug that is new.
Draft(s) ==
  /\ LoopFree /\ file[s].status = "absent"
  /\ file' = [file EXCEPT ![s].status = "pending_approval"]

\* The status a spec has after /spec approve: done and rejected are answered
\* with a success that changes nothing.
Approved(s) ==
  IF file[s].status \in {"pending_approval", "failed"}
  THEN [file EXCEPT ![s] = [status |-> "approved", sha |-> None]]
  ELSE file

Approve(s) ==
  /\ file[s].status \in {"pending_approval", "failed"}
  /\ file' = Approved(s)

\* /spec approve-bundle: all of the named specs are pending, or none changes.
ApproveBundle(S) ==
  /\ \A s \in S : file[s].status = "pending_approval"
  /\ file' = [s \in Specs |->
                IF s \in S THEN [file[s] EXCEPT !.status = "approved"]
                ELSE file[s]]

\* The status a spec has after /spec reject.
Rejected(s) ==
  IF file[s].status \in {"pending_approval", "approved"}
  THEN [file EXCEPT ![s].status = "rejected"]
  ELSE file

Reject(s) ==
  /\ file[s].status \in {"pending_approval", "approved"}
  /\ file' = Rejected(s)

-----------------------------------------------------------------------------
(* A run of a spec. *)

\* A job is created for the spec and its task is scheduled; the spec may have
\* any status.
Started(r, s, resume, room) ==
  /\ run[r].pc = "none"
  /\ run' = [run EXCEPT ![r] =
       [NoRun EXCEPT !.pc = "queued", !.spec = s, !.resume = resume, !.room = room]]

\* A worktree: the preserved one, reset, or a new one.
OpenTree(r) ==
  LET again == run[r].resume \in trees
      t == IF again THEN run[r].resume ELSE r
  IN /\ Reset(t)
     /\ trees' = trees \cup {t}
     /\ run' = [x \in Runs |->
                  IF x = r
                  THEN [run[r] EXCEPT !.pc = "prepared", !.tree = t,
                                      !.resume = None,
                                      !.shared = Users(t) # {}]
                  ELSE [run[x] EXCEPT !.shared = @ \/ x \in Users(t)]]

\* Mutant: the status gate is gone.
BeginUngated(r) ==
  /\ At(r, "queued")
  /\ OpenTree(r)
  /\ UNCHANGED <<file, restVars>>

\* run_slug: the spec is approved, the caps have room, a worktree is opened.
\* The caps are windows of time and let everything through when Redis fails, so
\* they may say anything.  Their check awaits but is no step of its own: what
\* the gate read is not read again.
Begin(r) ==
  /\ At(r, "queued")
  /\ file[run[r].spec].status = "approved"
  /\ OpenTree(r)
  /\ UNCHANGED <<file, restVars>>

\* The spec is not approved, the cap is reached, it is a dry run or no worktree
\* can be made: the spec stays what it is.
TurnedAway(r) ==
  /\ At(r, "queued")
  /\ Over(r, FALSE)
  /\ UNCHANGED <<file, treeVars, restVars>>

\* The invocation is recorded and the editor started.
InvokeEditor(r) ==
  /\ At(r, "prepared")
  /\ Goto(r, "editing")
  /\ UNCHANGED <<file, treeVars, restVars>>

\* The editor's work is in the worktree, if that still exists.
Edited(r) ==
  dirty' = [dirty EXCEPT ![run[r].tree] =
              IF run[r].tree \in trees THEN @ \cup {<<r, run[r].attempt>>}
              ELSE @]

\* The editor comes back and the env guard is content.
EditorReturns(r) ==
  /\ At(r, "editing")
  /\ Edited(r)
  /\ Goto(r, "gate")
  /\ UNCHANGED <<file, trees, restVars>>

\* _fail_cycle up to its first await.
FailCycle(r) ==
  /\ SaveVerdict(r, "failed", None)
  /\ run' = [run EXCEPT ![r] = Decided(r, "failing")]

\* The editor fails or touches a protected key: no repair.
EditorFails(r) ==
  /\ At(r, "editing")
  /\ Edited(r)
  /\ FailCycle(r)
  /\ UNCHANGED <<trees, restVars>>

\* The commit gate lets the worktree's changes through.
CommitPasses(r) ==
  /\ At(r, "gate")
  /\ run[r].tree \in trees /\ dirty[run[r].tree] # {}
  /\ run' = [run EXCEPT ![r].pc = "review", ![r].commit = dirty[run[r].tree]]
  /\ Reset(run[r].tree)
  /\ UNCHANGED <<file, trees, restVars>>

\* Mutant: one repair more than the limit.
GateRefusesLate(r) ==
  /\ At(r, "gate") \/ At(r, "review")
  /\ IF run[r].attempt <= MaxAttempts
     THEN Goto(r, "repair") /\ UNCHANGED file
     ELSE FailCycle(r)
  /\ UNCHANGED <<treeVars, restVars>>

\* The commit gate, the formal gate or the reviewer says no.
GateRefuses(r) ==
  /\ At(r, "gate") \/ At(r, "review")
  /\ IF run[r].attempt < MaxAttempts
     THEN Goto(r, "repair") /\ UNCHANGED file
     ELSE FailCycle(r)
  /\ UNCHANGED <<treeVars, restVars>>

\* _prepare_repair_attempt after its await.
Repair(r) ==
  /\ At(r, "repair")
  /\ run[r].tree \in trees
  /\ Reset(run[r].tree)
  /\ run' = [run EXCEPT ![r].pc = "editing", ![r].attempt = @ + 1]
  /\ UNCHANGED <<file, trees, restVars>>

\* The worktree cannot be reset, or the commit cannot be applied: the branch
\* has staged or conflicting changes.
GitRefuses(r) ==
  /\ At(r, "repair") \/ At(r, "review")
  /\ FailCycle(r)
  /\ UNCHANGED <<treeVars, restVars>>

\* Mutant: nobody looks whether the cherry-pick succeeded.
ApplyUnchecked(r) ==
  /\ At(r, "review")
  /\ Goto(r, "applied")
  /\ UNCHANGED <<file, treeVars, restVars>>

\* The reviewer approves and apply_commit cherry-picks the commit.
Apply(r) ==
  /\ At(r, "review")
  /\ landed' = landed \cup {r}
  /\ Goto(r, "applied")
  /\ UNCHANGED <<file, treeVars, orders, crashes>>

\* A protected live_env_keys entry: the change is on the branch, the cycle
\* fails.
EnvRefused(r) ==
  /\ At(r, "applied")
  /\ FailCycle(r)
  /\ UNCHANGED <<treeVars, restVars>>

MarkDone(r) ==
  /\ At(r, "applied")
  /\ SaveVerdict(r, "done", r)
  /\ run' = [run EXCEPT ![r] = Decided(r, "reporting")]
  /\ UNCHANGED <<treeVars, restVars>>

\* The file says done, but committing it raises.
MarkDoneUncommitted(r) ==
  /\ At(r, "applied")
  /\ SaveVerdict(r, "done", r)
  /\ Over(r, FALSE)
  /\ Cleanup(r)
  /\ UNCHANGED restVars

\* After record_success and publish_done.
ReportSuccess(r) ==
  /\ At(r, "reporting")
  /\ Over(r, TRUE)
  /\ Cleanup(r)
  /\ UNCHANGED <<file, restVars>>

\* _preserve_failed_workspace_result: the run's copy is saved again with a note
\* when the worktree is there to be preserved.
ReportFailure(r) ==
  /\ At(r, "failing")
  /\ Over(r, FALSE)
  /\ IF run[r].tree \in trees THEN SaveVerdict(r, "failed", None)
     ELSE UNCHANGED file
  /\ UNCHANGED <<treeVars, restVars>>

\* The job is cancelled or reaches its profile's time-out at an await.
CancelRun(r) ==
  /\ LoopFree /\ run[r].pc \in (InCycle \cup {"queued"}) \ {"applied"}
  /\ Over(r, FALSE)
  /\ Cleanup(r)
  /\ UNCHANGED <<file, restVars>>

\* Worktrees and files survive; recover_running_jobs starts nothing again.
Crash ==
  /\ crashes < MaxCrashes
  /\ crashes' = crashes + 1
  /\ run' = [r \in Runs |-> IF run[r].pc \in InCycle \cup {"queued", "over"}
                            THEN Closed(r) ELSE run[r]]
  /\ UNCHANGED <<file, treeVars, landed, orders>>

RunStep(r) ==
  \/ Begin(r) \/ TurnedAway(r) \/ InvokeEditor(r)
  \/ EditorReturns(r) \/ EditorFails(r) \/ CommitPasses(r) \/ GateRefuses(r)
  \/ Repair(r) \/ GitRefuses(r) \/ Apply(r) \/ EnvRefused(r)
  \/ MarkDone(r) \/ MarkDoneUncommitted(r)
  \/ ReportSuccess(r) \/ ReportFailure(r) \/ CancelRun(r)

Command ==
  /\ Order
  /\ \/ \E s \in Specs : Draft(s) \/ Approve(s) \/ Reject(s)
     \/ \E S \in SUBSET Specs : ApproveBundle(S)
  /\ UNCHANGED <<run, treeVars, countVars>>

\* /spec_run, outside the working room.
StartBySlash ==
  /\ Order
  /\ \E r \in Runs, s \in Specs :
       file[s].status # "absent" /\ Started(r, s, None, FALSE)
  /\ UNCHANGED <<file, treeVars, countVars>>

Next == \/ \E r \in Runs : RunStep(r)
        \/ Command \/ StartBySlash \/ Crash

Spec == Init /\ [][Next]_vars

-----------------------------------------------------------------------------
(* Properties. *)

StatusOf == [s \in Specs |-> file[s].status]

AuthorisedFor ==
  [r \in Runs |-> IF run[r].pc \in InCycle THEN run[r].spec ELSE None]

Contract ==
  INSTANCE SpecContract WITH status <- StatusOf, authorised <- AuthorisedFor

\* The runs, their worktrees and their verdicts implement SpecContract: only
\* a run that passed the status gate lands a change or writes a verdict.
KeepsContract == Contract!Spec

\* A spec that says done names a commit that was made for it and is on the
\* branch, whatever other runs of it, rejections and crashes came between.
DoneHasItsCommit ==
  \A s \in Specs : file[s].status = "done" =>
    file[s].sha \in landed /\ run[file[s].sha].spec = s

\* What lands is the work of the last attempt of that run alone, the one the
\* gates saw: no edit of a refused attempt and none of an earlier run in the
\* same worktree, unless two runs were in it at the same time.
LandsWhatWasReviewed ==
  \A r \in Runs : run[r].pc = "applied" =>
    run[r].shared \/ run[r].commit = {<<r, run[r].attempt>>}
=============================================================================
