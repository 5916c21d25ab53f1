# A TLA+ model of the Zhvusha runtime

Zhvusha is one long-lived asyncio program (the Telegram bot, `src/bot/main.py`),
an optional second program (the standalone daemon, `src/daemon/main.py`), a
workspace of JSON files and a PostgreSQL/Redis pair. Most of the 768 source
files are prompts, parsing, rendering and adapters of external services. What
can go wrong without any test noticing is in the few hundred lines that decide
*who may act on what, and when*: the job runtime, the approval gates of the
daemon and of the skills, the process lease file, the turn queue of a chat, the
implementation of specs with its working room, the maintenance windows and the
consolidation of memory. Those are modelled here, checked with TLC on small
instances and, all but liveness, proved with TLAPS for every value of the
constants.

Line numbers below refer to the repository; paths are relative to its `src/`.

## 1. Inventory

| Component | State it keeps | Operations | Interacts with | What makes it hard |
|---|---|---|---|---|
| **Agent job runtime** `agent_runtime/{runtime,storage,events,models}.py` | one JSON file per job, one event log per job, `_background_tasks` in memory | create, attach follow-up/artifact, start, start_background, cancel, the coroutine `_run_worker`, recover | routing and the attachment handler (calls), workers (await), memory sink (thread) | coroutines read a job before an await and write it after; a save and its event are two writes; time-outs and cancels race; crash and recovery |
| **Callers of the runtime** `agent_runtime/{routing,bridge}.py`, `bot/handlers/agent_runtime_attachments.py` | none | pick the active job of a chat, then operate on it | job runtime | the job is picked before a download is awaited |
| **Start-up / shutdown** `bot/main.py` | the process | recover jobs, take ownership, serve, release | job runtime, process guard, daemon | order of steps; two starts at once |
| **Daemon and approvals** `daemon/{main,pending_action,stream}.py`, `bot/middleware/daemon_approval.py` | `pending_actions` rows, Redis Streams, the loop's locals | push, read, create, notify, ack, reply, claim, execute, settle, recover_stuck, start, stop | tools, LLM, owner, bot | several claimants, at-least-once execution, replies classified concurrently, crashes between transactions |
| **Process ownership** `core/process_guard.py` | the lease file | acquire, heartbeat, release | both programs, the OS's pids | dead owners, recycled pids, partial acquisition and rollback |
| **Chat turns** `bot/main.py` 368–783, 3334–3363, 3630–3645 | `_active_response_by_chat`: owner, start time, two queues | reserve or defer, classify, drain, release | the message pipeline | two critical sections with an LLM call between them; failing turns; turns declared stale while they run |
| **Spec implementation** `skills/{implement_spec,spec_command}/skill.py`, `skills/implement_spec/workspace.py`, `skills/ideation_to_spec/spec_writer.py` | spec files with a status, git worktrees, the branch | draft, approve, approve a bundle, reject, run: worktree, editor, gates, repair, cherry-pick, verdict | agent jobs, the owner, the working room, git | a run takes hours between two readings of a file; worktrees are kept and reopened; the cherry-pick, the verdict and its commit are separate steps |
| **Working room** `skills/chat_self_coding/{skill,state}.py` | one record per user with an expiry | enter, discuss, plan, approve, run, reject, merge, clear; the verdict of a background run | spec implementation (starts jobs, is told their verdicts), the chat | every message works on a copy that it saves later; verdicts come from callbacks that live in memory |
| **Skill gate** `skills/invocation.py` | the pending decision per (user, chat, mode) | dispatch, ask, approve, decline, revise, supersede | classifier, skills | the pending decision is read before an await and popped by key after it |
| **Maintenance windows** `bot/maintenance_guard.py`, `skills/workspace_session`, `memory/consolidation_lock.py`, `skills/autonomous_self_coding`, loops of `bot/main.py` | marker, lock and throttle files, times of activity | begin and end a morning, consolidate under the lock, admit self-work | mornings by chat and by command, the self-coding loop, restarts | mornings overlap; markers and locks are stale after a crash; check, write and re-read are separate steps |
| **Consolidation and staging** `memory/{consolidation,learning_staging,staging_parser,episodic}.py` | two staging files, `.pending/`, `personality/`, a flag per episode | stage, gather, compress, review, commit, clean up, mark | chat turns (threads), agent jobs (threads), the morning | signals are appended while the files are reviewed and rewritten; a run may fail anywhere |
| Tool gateway and grants `agent_runtime/{tools,approvals}.py` | grants | allow, consume | workers | a grant is consulted and consumed around an await |
| Daemon safety `daemon/safety.py`, budgets `agent_runtime/budget_policy.py` | a window of decisions; recorded costs | check, record | daemon, runtime | boundaries of windows and limits |
| Albums, rate limit `bot/middleware` | timers, counters | collect, count | Telegram | late parts of an album |
| Everything else (dialogue, memory, knowledge, LLM adapters, workers, life runtime, collectors, news, VS Code chat, MCP, other skills) | data | data processing and I/O | external services | little shared control; see section 7 |

What makes each modelled component correct:

* **Job runtime**: a running job always has somebody who will report on it; one
  active job per request; one completion; a terminal status is final; the event
  log agrees with the store; a confirmed addendum is not lost; interrupted jobs
  are reviewed.
* **Approvals**: what the owner rejected never runs; an approved action runs once
  unless its claim is really overdue; a settled action stays settled; an
  approved action is settled in the end; stop stops.
* **Process ownership**: never two live holders of a service, never a lost lease,
  never everybody refusing everybody, no lease left by a clean exit.
* **Chat turns**: one message of a chat at a time; accepted messages are neither
  lost nor handled twice; the chat becomes free and the queue empties.
* **Specs and the room**: a change lands only for a spec that was approved, was
  reviewed as it lands, and is what the spec names when it says done; a room that
  says "running" waits for a run, one that says "done" is right.
* **Maintenance**: one consolidation at a time; self-work keeps its distance from
  mornings and from its own last run, through restarts.
* **Skill gate**: a pending decision is used once, and not after it was refused,
  revised or overtaken.
* **Memory**: what was staged is in a file until it is dropped by a review; what
  is marked as consolidated has been written.

## 2. Modules

| Module | Models | Checked by |
|---|---|---|
| `JobLifecycle` | the abstract contract of job statuses | refinement target of `AgentRuntime` |
| `AgentRuntime` | runtime, store, event log, the conditions under which callers call | `MCAgentRuntime`, 3 runs |
| `AgentRuntimeProofs` | theorems about `AgentRuntime` and `SecondBot` | TLAPS |
| `SecondBot` (extends `AgentRuntime`) | a second bot started on the same workspace | `MCSecondBot`, 2 runs |
| `DaemonApprovals` | stream, pending actions, replies, daemon loops | `MCDaemonApprovals`, 3 runs |
| `DaemonApprovalsProofs` | theorems about `DaemonApprovals` | TLAPS |
| `ProcessGuard` | lease file, bots, standalone daemons, the OS's pids | `MCProcessGuard`, 1 run |
| `ProcessGuardProofs` | theorems about `ProcessGuard` | TLAPS |
| `ChatTurns` | the turns of one chat | `MCChatTurns`, 2 runs |
| `ChatTurnsProofs` | theorems about `ChatTurns` | TLAPS |
| `SpecContract` | what is promised of a spec: decided by the owner, landed under an authorisation, settled by a run | refinement target of `SpecRuns` and `CodeRoom` |
| `SpecRuns` | spec files, runs, worktrees, the branch, the owner's commands | by way of `CodeRoom` |
| `CodeRoom` (extends `SpecRuns`) | the working room, its messages, the verdicts it is told | `MCWorkspace` |
| `CodeRoomProofs` | theorems about `CodeRoom` and so about `SpecRuns` | TLAPS |
| `Maintenance` | mornings, the consolidation lock, the self-coding loop and their files | `MCWorkspace` |
| `MaintenanceProofs` | theorems about `Maintenance` | TLAPS |
| `SkillApprovals` | the pending decision of one user, chat and mode | `MCWorkspace` |
| `Consolidation` | staging files, drafts, personality files, one consolidation at a time | `MCWorkspace` |
| `ConsolidationProofs` | theorems about `Consolidation` | TLAPS |
| `WorkspaceProofs` | theorems about `SkillApprovals`, and about the four parts of `MCWorkspace` together | TLAPS |

`MCWorkspace` puts `CodeRoom`, `Maintenance`, `SkillApprovals` and `Consolidation`
side by side in one run. They share no state, so `part`, chosen in the initial
state, says which of them a behaviour is about; the others keep their initial
values. `WorkspaceIsItsParts` proves that the composition only bounds its parts, so
what is proved of a part holds of what the run explores.

### How an action corresponds to the code

*Job runtime.* `FileAgentJobStore` and `FileAgentEventStream` are `async` in name
only: they never suspend. The code between two real suspensions is therefore one
action. The suspensions are the worker's run (`pc = "working"`), the clean-up
after a time-out (`"timing_out"`), memory staging in a thread (`"staging"`), and
a task created but not yet stepped (`"scheduled"`); `"over"` is a finished
background task whose done-callback has still to run. A save and the event after
it are two writes to disk: the save is the action, the event waits in `pend` and
is written by `Emit`; no other coroutine runs in between, but a crash may.
`snap` is the `running` copy that `_run_worker` was given: success and time-out
are saved from it, failure and cancellation from the record read again, exactly
as in the code. `Shutdown` is `asyncio.run` cancelling what is left.
`enqueue`, `complete` and `fail` have no caller in the repository and are left
out; every backend's `cancel()` returns without suspending, so `Cancel` is one
action.

*Second bot.* `main()` recovers jobs (4224) before it asks for ownership (4902).
`SecondLists` is the newcomer's `list_by_status`, `SecondReviews` one iteration
of its loop, saving the listed copy. It then stops if the first bot holds the
lease, or takes over if that one is gone.

*Approvals.* Every `ApprovalStore` method is one transaction, hence one action.
A reply is two actions with the classifier between them. A daemon's iteration is
split at each await. `FaultStep` lets any database call raise, before or after
its commit where both are possible, and lets the process die anywhere. The LLM's
decision, the safety verdict and the tool's result are nondeterministic.
`fetched` is the set of actions that the loop has still to go through; it takes
them in the order of `created_at` (`TakeFetched`), which `Before` states.
`overdue` stands for `claimed_at < now - 10 minutes`.

*Process ownership.* Each guard method holds an `flock`, so it is one action;
acquisition of several services, rollback and release are sequences of them.
Pids are reused by new starts and by unrelated programs (`alien`), which is what
`os.kill(pid, 0)` cannot tell apart.

*Chat turns.* Each section under `_CHAT_BUSY_LOCK` is free of awaits and is one
action. A message that the fast rules cannot classify leaves the lock, waits for
the worker model (`"classifying"`) and enters the second section. `old` stands
for `monotonic() - active_since > 15 minutes`.

*Spec implementation.* The bot is one event loop: an action is the code between
two awaits. A run is a background job of the runtime; `pc` says where it is:
prepared, editing, at a gate, under review, in repair, applied to the branch,
reporting or failing. It keeps the copy of the spec it read at the start, and its verdict
is saved from that copy (`SaveVerdict`), whatever the file says by then. `trees`
are the worktrees that exist, `dirty` the edits that lie in them, `landed` what
the branch has. `OpenTree` creates a worktree, reopens one that a failed run
preserved, or takes one that another run still uses: `reopen_preserved_workspace`
does not ask. The gates' criteria, the hourly and the daily caps and git may say
anything. `Crash` ends every run; specs, worktrees and the branch stay.

*Working room.* `room` is the record in Redis, `turn` the message being handled
with the `copy` it loaded. `Hear` loads it, the `Handle...` actions are the
branches of `_dispatch`, and those that await an LLM (`SaveCopy`, `CreateEnds`)
save the copy later, over what came in between. `Deliver` is the completion
callback; it is lost in a restart (`CrashWithRoom`). `Expire` is the record's
time to live. Chats take turns, so one message at a time is handled; callbacks
come at any moment.

*Maintenance.* Times are `0..MaxNow`; `Tick` lets time pass. The marker, the lock,
the time of the last run and the user's last activity are files and survive
`MaintenanceCrash`; after it the pid in the lock may be that of a live process
again. A morning begins by command, with a marker, or by chat,
without one. `Admit` is the loop's call of `should_run` with what it reads, and
`StartJob` the awaited start of the job after it.

*Skill gate.* `slot` is the pending decision, `handling` the one message being
dispatched with the decision it read, `fate` what became of each. `LoseStore` is
a restart: the store lives in memory.

*Memory.* Signals are staged in threads (`asyncio.to_thread` in
`skills/chat_response/skill.py:1529` and in `agent_runtime/memory.py`), so
`Stage` comes between any two steps of a run, also where it does not await. That
is why the review and the cleanup are split at each reading and writing of a
file: sizes (`TakeSizes`), contents (`Parse`), ends (`ReadTails`), the two
rewritings. A file is a sequence of entries and `After` what lies behind a
recorded size. `Review` decides each entry by itself, and what it holds is
written back in any order (`Picks`), because `consolidation.py:1066` puts what
could not be parsed, and what was too much for one review, first.
`.pending/` is `drafts`; `Interrupted` is an exception or a crash
at any step, in the middle of the move of the drafts included.

## 3. Runs

| Run | Question | Bounds | Result |
|---|---|---|---|
| `AgentRuntime_safety` | Do records, events, tasks and limits stay consistent, and is the lifecycle contract implemented? | 2 jobs, 2 coroutines, one profile with and one without time-out, 1 addendum, 1 chat, limit 1 | holds |
| `AgentRuntime_liveness` | Does a timed job end, is an interrupted one reviewed, does a cancel free the coroutine? | 1 job, 2 coroutines | holds |
| `AgentRuntime_addenda` | Is an announced addendum always in the record? | as the first | **violated**, finding 1 |
| `SecondBot_safety` | Does a second bot break deduplication or single completion? | as the first, without addenda | holds |
| `SecondBot_live_job` | Does recovery move only orphans? | as the first, with addenda | **violated**, finding 2 |
| `DaemonApprovals_safety` | What do the store and the loop guarantee by themselves? | 2 daemons, 2 replies, 2 signals, 1 fault, 1 overrun per action, fetch limit 1 | holds |
| `DaemonApprovals_liveness` | Does every approved action settle? | 1 daemon, 2 signals, 1 reply, 2 faults, 3 overruns | holds |
| `DaemonApprovals_stop` | Does stop() end the loop? | 1 daemon, 1 signal, no fault | **violated**, finding 3 |
| `ProcessGuard_safety` | Do leases exclude, survive and free themselves? | 2 bots with 3 services, 2 standalone daemons, 4 pids | holds |
| `ChatTurns_check` | Are turns exclusive, messages kept, chats freed? | 4 messages, queue of 2, 2 failures, 1 overrun | holds |
| `ChatTurns_tail` | Is the queue handled after a failure? | 3 messages, queue of 2, 1 failure | **violated**, finding 4 |
| `Workspace` | Do specs, the room, maintenance, the skill gate and memory keep what section 1 says of them, and do the runs implement `SpecContract`? | 2 specs, 2 attempts, 3 runs of one spec, or 2 of which one is repaired, or 2 of different specs; 3 messages, commands or crashes, 1 crash; 3 mornings or crashes, 3 times, 1 crash; 3 questions, 2 commands, 1 loss of the store; 2 signals, 2 episodes, 1 file, 2 consolidations | holds |

Why the bounds are enough for the questions asked:

* *Two jobs and two coroutines*: every property of the runtime relates at most
  two jobs (deduplication, the limit) or two coroutines of one job (a foreground
  and a background one, or one left behind by an earlier start). The first run
  reaches a job that was started, cancelled while its coroutine still runs,
  replaced by a second job with the same fingerprint, and reported on late. The
  limits of five jobs and five messages are replaced by 1 and 2, so that "full"
  is reached.
* *Two daemons*: the bot's lease keeps a second daemon of the same workspace out,
  but a daemon with another workspace (another host or checkout) on the same
  database is excluded by nothing except `mark_executing`; the run shows what
  the store itself guarantees. `FetchLimit = 1` stands for 5: it makes the
  oldest action hide a newer one. One overrun per action is enough for a second
  execution and a late result of the first.
* *MaxFaults, MaxOverruns, MaxFailures* bound counters of rare events; each
  property that mentions them is an exact count (`RepeatsNeedOverrun`,
  `OneTurnAtATime`), so it says what each additional event may cost.
  In the liveness run every action may be found overdue three times with two
  faults, so the overrun that a crash needs to be repaired always remains.
* *Two bots, two daemons, four pids*: a crash, a recycled pid, and two further
  starts that race for the services of the dead one.
* *Runs of specs*: three runs of one spec: one that fails and preserves its
  worktree, and two more that are resumed in it together, or one that starts while
  another is reporting; two runs of which one repairs, whose refused attempt left
  edits that must not be committed; two runs of different specs beside each other.
  Three messages or commands, a crash counting as one of them, are a plan, its
  approval and one that comes in between. These are bounds of `RoomBound` in
  `MCWorkspace`; the theorems of section 5 have none.
* *Mornings*: three that overlap, or two and a crash (`MorningBound`), at three
  times; every waiting period is one unit of time, so that "too early" and "late
  enough" both happen.
* *Two signals, two episodes, one file, two consolidations*: one signal under
  review and one appended behind it; two episodes of one run in one file; a run
  that fails or is interrupted and the next one. Files do not influence each
  other: an entry that goes to another file is, for this one, an entry that goes
  elsewhere. All of this is also true with two files, which has seven times the
  states.
* `SecondBot_safety` has no addenda because its properties are about statuses;
  with them it would have many times the states and the same result.

Symmetry reduction is used for job ids and coroutine slots, for signals, replies
and daemons, for bots and pids, and for specs and their runs, all
interchangeable, and only in runs that check invariants and action properties (no
liveness).
Deadlock is checked except in `ProcessGuard`, `ChatTurns` and `Workspace`, where
every start is over, every message handled or every order given in the end and
the modelled system really stops.

### Fairness

* *Job runtime* (`LoopFairness`): the event loop steps ready tasks, fires due
  timers, delivers cancellations and runs callbacks, and main() finishes its
  recovery loop. Nothing is assumed of a worker: it may never return, and
  `TimedJobEnds` holds because `wait_for` cancels it. What is assumed is that a
  cancelled worker ends its clean-up (fairness of `TimeoutReported`). It may end
  it with an error of its own, as `workers/source_compare.py:113` does, which is
  `WorkerRaises` from `"timing_out"`.
* *Daemon* (`FairSpec`): the loop keeps stepping, which includes that a process
  that went down is started again and that tools and the LLM return:
  `tools.execute` has no time-out, so without this assumption nothing could be
  promised. `RecoverStuck` is strongly fair, since its 300 s interval passes
  again and again while the loop also takes iterations in which it has not. Time
  passes for an action that stays claimed (`Overrun`). Nothing is assumed of
  replies, producers, faults or `stop()`.
* *Chat turns* (`FairSpec`): a started task goes on; the classifier has an
  eight-second time-out and a handling returns or raises. Arrivals, failures
  being possible at all and overruns are not assumed.

## 4. Properties worth a comment

* `RunningHasRun` relates the store to the coroutines: the seven ways a coroutine
  can end, two coroutines on one job, cancellation before the first step, and
  recovery all have to leave no RUNNING record behind.
* `EventLogMatchesStore` leaves out profiles with a time-out on purpose: the
  time-out branch does not read the job again, so such a job can have two closing
  events and change a terminal status. `TerminalChangesOnlyByTimeout` says that
  this is the *only* way a terminal status ever changes.
* `AckedAddendaKept` is the strongest form of "an addendum is not lost" that the
  code has; the stronger `AckedAddendaAttached` is finding 1.
* `RepeatsNeedOverrun` is the exact form of the at-least-once guarantee: a tool
  runs once, plus at most once for each time its claim was found older than ten
  minutes, with any number of daemons and with crashes at any step.
* `SomebodyServes` depends on every bot acquiring its services in one order and
  on the standalone daemon needing just one: with a set-ordered tuple two bots
  refuse each other.
* `OneTurnAtATime` counts overruns: a stale turn is replaced while its task still
  runs, and that is the only source of concurrency in a chat.
* `QueuedIsStarted` is conditional on nothing raising; what happens otherwise is
  finding 4.

* `KeepsContract` is the refinement of `SpecContract`: the status of a file as it
  is read, the runs that may land for it and the branch. The steps that are hard
  are the late ones: a verdict saved over a rejection or over the verdict of
  another run, a cancelled run, a crash after the cherry-pick.
* `DoneHasItsCommit` relates the file to the branch: a spec that says done names a
  run of its own whose change landed. It survives late verdicts only because a run
  whose change is on the branch never starts again.
* `LandsWhatWasReviewed` says that what lands is what the last attempt's gates and
  review saw. It excludes worktrees that two runs used at the same time: nothing
  in the code keeps them apart.
* `RunningRoomHasItsRun`: a room that says "running" has a run that will tell it
  its verdict. It loses it in two ways only: by a restart, after which nobody
  tells the room, and by a message that saves the room as running without
  creating a job (`CreatesNoJob`): the job was refused, or the copy that is saved
  is older than the verdict. No order of verdicts, cancellations, new plans and
  resumed runs does it.
* `OneConsolidation` counts overruns, as `OneTurnAtATime` does: a second
  consolidation begins only when the lock of the first is older than its limit.
* `SelfWorkKeepsDistance` relates the admission of self-work to every marked
  morning that is open and to the last admission, through mornings that overlap
  and end in any order, cycles that fail, and restarts.
* `FateIsFinal`: a decision that was carried out, refused, revised or overtaken is
  never carried out afterwards.
* `SignalsAreKept` has one exception, `raced`. The engine records the sizes of the
  staging files in order "to preserve concurrent writes" (`consolidation.py:1023`),
  and what is appended during the review is kept; what is appended between the
  reading of the end of a file and its rewriting is not, and
  `learning_staging.py` takes no lock.
* `ConsolidatedIsWritten` has one exception as well. `_coalesce_actions` says that
  "the disk content already reflects all accumulated writes" (`consolidation.py`
  1446), which is true of the review, because it reads drafts first, and not of
  `_phase_consolidate`: an episode is appended to the committed file
  (`consolidation.py:562`), so the last of several episodes of one run that go to
  one file replaces the others, and all of them are marked as consolidated.

## 5. Proofs

Every invariant and every action property that a run checks is proved for all
values of the constants, and so are the two refinements. The assumptions are those
the modules state, one per module (`RuntimeAssumption`, `ApprovalsAssumption`,
`GuardAssumption`, `ChatAssumption`, `SpecRunsAssumption`,
`MaintenanceAssumption`, `QuestionsAssumption`, `ConsolidationAssumption`): that
bounds and times are natural numbers, that "none" is none of the values, and

* that a fetch takes at least one action and there are finitely many daemons (they
  are counted);
* that a bot takes at least one service, each once, as `_live_process_services`
  lists them, and that no process is both a bot and a standalone daemon;
* that a spec may be attempted at least once.

A property is seldom inductive. What follows is, per module, the theorems, the
inductive invariant and why the properties need it.

### Job runtime: `AgentRuntimeProofs`

| Theorem | States |
|---|---|
| `TypeCorrect` | `Spec => []TypeOK` |
| `NoForgottenJob` | `Spec => []RunningHasRun` |
| `Deduplication` | `Spec => []OneActivePerFingerprint` |
| `TerminalFinality` | `Spec => TerminalChangesOnlyByTimeout` |
| `ImplementsLifecycle` | `Spec => LifecycleSpec` |
| `OneCompletion` | `Spec => []CompletedAtMostOnce` |
| `LogMatchesStore` | `Spec => []EventLogMatchesStore` |
| `AddendaAreKept` | `Spec => []AckedAddendaKept` |
| `SharedDeduplication` | `SharedSpec => []OneActivePerFingerprint` |
| `SharedOneCompletion` | `SharedSpec => []CompletedAtMostOnce` |

`IInv` joins the first three with what a step relies on:

* a coroutine that is not idle works on a job that was started
  (`RunsHaveStartedJobs`), and one that is timing out works on a job whose
  profile has a time-out (`TimeoutsAreConfigured`);
* an entry of `_background_tasks` names a coroutine of that very job
  (`TasksNameTheirRun`): otherwise `Cancel` would cancel somebody else's work and
  leave that job RUNNING with nobody to report;
* while the bot is up, a cancelled coroutine that still owes an outcome works on
  a closed job (`CancelledRunsAreMoot`): a coroutine cancelled before its first
  step reports nothing, and `RunningHasRun` survives only because of this;
* there are no coroutines before recovery has ended (`NoRunsBeforeRecovery`), so
  that it may move every RUNNING job without asking;
* no job is WAITING_USER (`NeverWaitingUser`): the status exists but nothing sets
  it, so recovery finds running jobs only, which is what `JobLifecycle` allows.

From it `TerminalFinality` follows step by step: the actions that write a
status to a terminal job are those that do not read it again, and among them only
`TimeoutReported` is enabled then. `ImplementsLifecycle` uses the identity on
`status` and `fp`; each action maps to one abstract action or to a stutter, and
the case that needs the invariant is `TimeoutReported` (a late time-out of a
*timed* job, never of another).

`EventInv`, inductive relative to `IInv`, is about the event log: a job that is
not closed has no closing event (`EventsOfClosed`), a completion is the first one
(`CompletedComesFirst`), and an addendum is in the record before it is announced
(`AnnouncedIsAttached`). Every step does one of four things to the events of a job
(`OutcomeMove`): nothing, lose the one not yet written, close the job, or report a
late time-out.

With two bots `RunningHasRun` is false: a job that the first one starts after the
newcomer has listed the running ones is left RUNNING when the newcomer takes over.
`BaseInv`, `IInv` without it, still preserves itself, and `CompletedComesFirst`
gives way to `Once`: a recovery may be logged before the completion that was
about to be written.

### Specs and the working room: `CodeRoomProofs`

| Theorem | States |
|---|---|
| `RoomTypes` | `RoomSpec => [](TypeOK /\ RoomTypeOK)` |
| `DoneSpecsHaveCommits` | `RoomSpec => []DoneHasItsCommit` |
| `DoneRoomsAreRight` | `RoomSpec => []DoneRoomIsRight` |
| `RoomKeepsContract` | `RoomSpec => KeepsContract` |
| `ReviewedWorkLands` | `RoomSpec => []LandsWhatWasReviewed` |
| `RoomsKeepTheirRuns` | `RoomSpec => RunningRoomHasItsRun` |

`RoomInv` is the conjunction of the two type invariants, `DoneHasItsCommit`,
`DoneRoomIsRight` and `RunsOK`. The last one is what makes the
late steps safe: from the cherry-pick on, a run's change is on the branch and
stays there, and a run whose change is there is past its start, so that no later
run can be taken for it. Every step of the room maps to a step of the runs or
leaves them alone, and every step of the runs to a step of `SpecContract` or a
stutter; the cases that need the invariant are the verdicts, which must be those
of runs that landed.

`WorksOK`, inductive relative to `RoomInv`, says what a run has in its worktree. A
run that was not marked as sharing one is alone there, begins an attempt with a
clean tree and has, at the gate and in its commit, the edits of its last attempt
and no others. `RoomsKeepTheirRuns` is shown action by action: a message either
leaves the room as it was, creates the job it announces, or is one of the two
exceptions that the property names.

### The skill gate and the composition: `WorkspaceProofs`

| Theorem | States |
|---|---|
| `GateInvariant`, `GateTypes` | `ApprovalsSpec => []GateInv`, `ApprovalsSpec => []ApprovalsTypeOK` |
| `FatesAreFinal` | `ApprovalsSpec => FateIsFinal` |
| `WorkspaceIsItsParts` | `WorkspaceSpec => RoomSpec /\ MaintenanceSpec /\ ApprovalsSpec /\ ConsolidationSpec` |
| `WorkspaceTypes` | `WorkspaceSpec => []WorkspaceTypeOK` |

`GateInv`: what waits in the store is the one open decision (`SlotIsOpen`), and the
message that resolves a decision looked at what is still there
(`ResolvesTheSlot`), although it looked before an await and pops by key after it.
`WorkspaceIsItsParts` ties the run `Workspace` to the theorems about its parts.

### Approvals: `DaemonApprovalsProofs`

| Theorem | States |
|---|---|
| `ApprovalsInvariant`, `ApprovalsTypes` | `Spec => []IInv`, `Spec => []TypeOK` |
| `RejectedIsSafe` | `Spec => []RejectedNeverRuns` |
| `RepeatsArePaid` | `Spec => []RepeatsNeedOverrun` |
| `SettledStays` | `Spec => SettledIsFinal` |

`Untried`: what was not approved yet has not been run and is held by no daemon,
so a rejection finds nothing to undo. `PaidClaims` counts: the runs of an action
and the daemons about to run it are at most one more than its overruns, and no
more than its overruns where it may be claimed (again). `FlowOK` ties a signal to
its batch: an action is made of it once.

### Process ownership: `ProcessGuardProofs`

| Theorem | States |
|---|---|
| `GuardInvariant`, `GuardTypes` | `Spec => []IInv`, `Spec => []TypeOK` |
| `NoTwoHolders` | `Spec => []OneHolder` |
| `RunningLeaseIsKept` | `Spec => []LeaseIsKept` |
| `CleanEndLeavesNoLease` | `Spec => []OnlyCrashesLeaveLeases` |
| `StartsDoNotAllFail` | `Spec => []SomebodyServes` |

A start sees the file only. `HeldInFile`: what a process holds stands in the file
under its name and its live pid, so that nobody else may take it, however pids
are recycled. `OwnedIsHeld` is the converse. `StartsAreOrdered`: whoever was
refused had somebody before it that serves or holds the first service of the
common order; that is the argument why bots do not all refuse each other.

### Chat turns: `ChatTurnsProofs`

| Theorem | States |
|---|---|
| `ChatInvariant`, `ChatTypes` | `Spec => []IInv`, `Spec => []TypeOK` |
| `TurnsAreSingle` | `Spec => []OneTurnAtATime` |
| `AcceptedStays` | `Spec => []AcceptedIsKept` |
| `HandledByOne` | `Spec => []HandledOnce` |

`RoguesAreCounted`: the tasks that go on although the chat is another's, and the
owner once it is declared stale, are no more than the overruns. `Distinct`: a
queued message waits at one place of one queue, which is why the task that pops
it is the only one to handle it.

### Maintenance: `MaintenanceProofs`

| Theorem | States |
|---|---|
| `MaintenanceInvariant`, `MaintenanceTypes` | `MaintenanceSpec => []MaintenanceInv`, `MaintenanceSpec => []MaintenanceTypeOK` |
| `OneAtATime` | `MaintenanceSpec => []OneConsolidation` |
| `DistanceIsKept` | `MaintenanceSpec => SelfWorkKeepsDistance` |

`LockIsCounted`: a lock that is gone while somebody consolidates was removed by a
consolidation that had been overrun before, so the count of consolidations never
runs ahead of the overruns. `MarkerIsKept`: the marker of an open morning says when
that morning began, whoever else ends. `RunIsRecorded`: the state file is never
behind the last admission, whichever later write failed.

### Memory: `ConsolidationProofs`

| Theorem | States |
|---|---|
| `ConsolidationInvariant`, `ConsolidationTypes` | `ConsolidationSpec => []ConsolidationInv`, `ConsolidationSpec => []ConsolidationTypeOK` |
| `SignalsStay` | `ConsolidationSpec => []SignalsAreKept` |
| `MarkedEpisodesAreWritten` | `ConsolidationSpec => []ConsolidatedIsWritten` |

The properties are about files; the invariant says what the run carries between
two steps. `ReadIsCarried`: what lies within the recorded sizes is held, dropped
or drafted until the files are rewritten. `RewriteLosesNothing` and
`DrainLosesNothing`: then each entry of a file is in what replaces it, in
personality/, dropped by the review or raced. `CompressedIsCarried`: an
episode of the batch is in the draft of its file, or a later one took its place;
after the commit this becomes `MarkedIsWritten`. The lemmas on `Entries`
(`AppendEntries`, `ConcatEntries`, `AfterEntries`, `PickedEntries`) say what the
operations on files do to the set of their entries.

### Only model-checked

Liveness needs fairness and ENABLED, which the prover does not have: `TimedJobEnds`,
`InterruptedIsReviewed`, `CanceledTaskIsFreed`, `ApprovedSettles`, `ChatIsFreed`
and `QueuedIsStarted` are checked by TLC on the instances of section 3. The
violated properties of section 6 are, of course, not theorems. Each inductive
invariant was checked by TLC on the instance of its component's run before it was
proved.

## 6. Findings

1. **An addendum attached while a job runs is lost** (`AgentRuntime_addenda`).
   `_run_worker` saves DONE, or FAILED after a time-out, from the copy taken
   before the worker ran (`runtime.py:356`, `:302`).
2. **Recovery precedes ownership** (`SecondBot_live_job`). A second bot moves the
   running jobs of a live one to NEEDS_REVIEW before it is turned away
   (`bot/main.py:4224` and `:4902`).
3. **An early stop() is lost** (`DaemonApprovals_stop`). `start()` sets
   `_running = True` after an await (`daemon/main.py:174`), and `on_shutdown`
   then waits for the daemon for ever.
4. **A failed apology strands the queue** (`ChatTurns_tail`). If the apology for
   a failed queued message cannot be sent, the rest of the queue waits until
   another message arrives (`bot/main.py:3640`).

## 7. Not modelled

* LLM prompts, parsing, rendering, retrieval, dashboards, collectors and the
  external backends: data and I/O with no shared control of their own. They
  appear as nondeterministic results or as calls that return, raise or hang.
* Tearing of a single JSON file: `save` replaces the file as a whole.
* The daemon's idle maintenance and the priorities among the three streams: the
  model reads any subset of the queued signals in any order.
* Budgets and memory staging inside the runtime are one suspension that changes
  no job. `max_active_per_chat` is compared only when a job is created as
  RUNNING, which no caller does.
* A missing worker (`runtime.py:286`, a KeyError after the save and before the
  try): no profile built by `main()` has one.
* Chats are independent, so one chat is modelled; a message without a chat id
  bypasses the queue.
* Specs and runs: the hourly and daily caps (they fail open and are windows of
  time: the model lets them say anything), a slug that is planned twice on one
  day, a worktree name that repeats because a pid does, `/spec list`, `show` and
  `edit`, foreground runs (the bot never wires them). Of the room: transcripts,
  goals, summaries and `is_open`.
* Maintenance: a standalone consolidation script on the same workspace; what the
  self-coding cycle proposes.
* The skill gate: which skill is chosen and what the classifier answers are left
  open; the offers of `skills/chat_response` (a learning or a dream to confirm)
  have a store of their own and are left out.
* Memory: the contents of the index MEMORY.md, reinforcement, the text of a
  synthesis, the emotional log; `handle_explicit_rejection`, which writes to a
  committed file; two consolidations at once, which `OneConsolidation` allows
  only after an overrun; a staging file that cannot be read.

## 8. Plan

Done: `JobLifecycle`, `AgentRuntime`, `SecondBot`, `DaemonApprovals`,
`ProcessGuard`, `ChatTurns`; `SpecContract`, `SpecRuns`, `CodeRoom`,
`Maintenance`, `SkillApprovals`, `Consolidation`; the proofs of all of them.

Left, in this order:

1. `Maintenance` and `Consolidation` composed, so that a consolidation whose lock
   was reclaimed meets the next one in `.pending/` and in the staging files; with
   `handle_explicit_rejection` beside them.
2. The offers of `skills/chat_response` and the proposals of
   `skills/autonomous_self_coding`: armed before their question is delivered,
   answered across an await.
3. The album collector of `bot/middleware` and the registry of external skills.
4. The anti-loop window of `daemon/safety.py` and `budget_policy.py` as pure
   operators against a reference definition.
5. An abstract approval contract ("pending, approved, settled, with at most one
   run per claim") implemented by `DaemonApprovals`, as `JobLifecycle` is by
   `AgentRuntime`.

Proofs to add: the approval contract of item 5, once it is stated. Every invariant
and action property that a run checks is proved; liveness stays with TLC.
