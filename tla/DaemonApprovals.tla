--------------------------- MODULE DaemonApprovals --------------------------
(***************************************************************************)
(* The daemon's approval gate: signals read from Redis Streams become      *)
(* pending actions (daemon/main.py, daemon/stream.py), the owner's replies *)
(* approve or reject them (bot/middleware/daemon_approval.py), and the     *)
(* daemon loop claims, executes and settles the approved ones              *)
(* (daemon/main.py, daemon/pending_action.py).                             *)
(*                                                                         *)
(* Every ApprovalStore method is one database transaction, hence one       *)
(* action; daemons, replies and crashes interleave between transactions.   *)
(* A signal is delivered to one daemon once (XREADGROUP with ">"), so it   *)
(* makes at most one pending action, and the action carries its name.      *)
(* A step that raises and a process that dies are faults.                  *)
(***************************************************************************)
EXTENDS Naturals, Sequences, FiniteSets

CONSTANTS
  Signals,      \* signals, and the pending action each may become
  Daemons,      \* daemon processes that share the database
  Replies,      \* owner replies that can be handled at the same time
  FetchLimit,   \* get_approved(limit=...)
  MaxFaults,    \* bound: crashes and raised exceptions
  MaxOverruns,  \* bound: times an action is found claimed for too long
  None

ASSUME ApprovalsAssumption ==
  /\ FetchLimit \in Nat \ {0} /\ MaxFaults \in Nat /\ MaxOverruns \in Nat
  /\ None \notin Signals
  /\ IsFiniteSet(Daemons)

VARIABLES
  signal,    \* where a signal stands in its stream
  status,    \* PendingAction.status, "absent" before creation
  sent,      \* actions whose notification reached the owner
  created,   \* actions by created_at
  overdue,   \* actions claimed longer ago than recover_stuck's timeout
  pc,        \* where each daemon's loop stands
  running,   \* ZhvushaDaemon._running
  asked,     \* stop() was called on this daemon
  batch,     \* signals read and not yet processed
  fetched,   \* approved actions fetched and not yet tried
  current,   \* the action being notified about or executed
  ok,        \* ToolResult.success
  reply,     \* the pending action a reply is being classified for
  runs,      \* history: how often the tool ran for an action
  overruns,  \* history: how often a claim of an action became overdue
  faults

storeVars  == <<status, overdue, created>>
loopVars   == <<pc, running, asked, batch, fetched, current, ok>>
countVars  == <<runs, overruns, faults>>
vars == <<signal, sent, reply, storeVars, loopVars, countVars>>

Final  == {"rejected", "executed", "failed"}
Status == {"absent", "pending", "approved", "executing"} \cup Final
PC == {"down", "starting", "waiting", "signals", "notifying", "acking",
       "fetching", "claiming", "executing", "marking", "failing"}

TypeOK ==
  /\ signal \in [Signals -> {"unsent", "queued", "taken", "acked"}]
  /\ status \in [Signals -> Status]
  /\ sent \subseteq Signals
  /\ created \in Seq(Signals)
  /\ overdue \subseteq Signals
  /\ pc \in [Daemons -> PC]
  /\ running \in [Daemons -> BOOLEAN]
  /\ asked \in [Daemons -> BOOLEAN]
  /\ batch \in [Daemons -> SUBSET Signals]
  /\ fetched \in [Daemons -> SUBSET Signals]
  /\ current \in [Daemons -> Signals \cup {None}]
  /\ ok \in [Daemons -> BOOLEAN]
  /\ reply \in [Replies -> Signals \cup {None}]
  /\ runs \in [Signals -> Nat]
  /\ overruns \in [Signals -> Nat]
  /\ faults \in 0..MaxFaults

Init ==
  /\ signal = [s \in Signals |-> "unsent"]
  /\ status = [s \in Signals |-> "absent"]
  /\ sent = {} /\ created = <<>> /\ overdue = {}
  /\ pc = [d \in Daemons |-> "down"]
  /\ running = [d \in Daemons |-> FALSE]
  /\ asked = [d \in Daemons |-> FALSE]
  /\ batch = [d \in Daemons |-> {}]
  /\ fetched = [d \in Daemons |-> {}]
  /\ current = [d \in Daemons |-> None]
  /\ ok = [d \in Daemons |-> FALSE]
  /\ reply = [r \in Replies |-> None]
  /\ runs = [s \in Signals |-> 0]
  /\ overruns = [s \in Signals |-> 0]
  /\ faults = 0

At(d, here) == pc[d] = here
Goto(d, there) == pc' = [pc EXCEPT ![d] = there]
Fault == faults < MaxFaults /\ faults' = faults + 1

-----------------------------------------------------------------------------
(* The store: each operator is the effect of one UPDATE ... WHERE. *)

\* Mutants: the classifier's token is stored; a WHERE clause is missing.
ResolveWithToken(a, s) ==
  LET token == IF s = "approved" THEN "approve" ELSE "reject"
  IN  status' = IF status[a] = "pending"
                THEN [status EXCEPT ![a] = token] ELSE status
ResolveAnyStatus(a, s) == status' = [status EXCEPT ![a] = s]
ClaimAnyStatus(a) ==
  /\ status[a] # "rejected"
  /\ status' = [status EXCEPT ![a] = "executing"]
SettleAnyStatus(a, s) ==
  /\ status' = [status EXCEPT ![a] = s]
  /\ overdue' = overdue \ {a}

\* set_status: WHERE status = pending.
Resolve(a, s) ==
  status' = IF status[a] = "pending" THEN [status EXCEPT ![a] = s] ELSE status

\* mark_executing: WHERE status = approved.  Enabled when it claims the row.
ClaimRow(a) ==
  /\ status[a] = "approved"
  /\ status' = [status EXCEPT ![a] = "executing"]

\* mark_executed: WHERE status = executing, whoever claimed it.
Settle(a, s) ==
  IF status[a] = "executing"
  THEN /\ status' = [status EXCEPT ![a] = s]
       /\ overdue' = overdue \ {a}
  ELSE UNCHANGED <<status, overdue>>

\* Mutant: nothing is reset.
StuckNone == {}

\* recover_stuck: the executing rows claimed before the cutoff.
Stuck == {a \in Signals : status[a] = "executing" /\ a \in overdue}

\* The order of created_at.
Before(a, b) ==
  \E i, j \in DOMAIN created : i < j /\ created[i] = a /\ created[j] = b

\* get_approved: the oldest approved rows, at most FetchLimit.
OldestApproved ==
  LET approved == {a \in Signals : status[a] = "approved"}
  IN  {a \in approved :
         Cardinality({b \in approved : Before(b, a)}) < FetchLimit}

-----------------------------------------------------------------------------
(* The owner's replies. *)

\* SignalStream.push by a producer.
Push(s) ==
  /\ signal[s] = "unsent"
  /\ signal' = [signal EXCEPT ![s] = "queued"]
  /\ UNCHANGED <<sent, reply, storeVars, loopVars, countVars>>

\* __call__ up to the classifier: the action is looked up by message id, or by
\* the #id in the text while the message id is not stored, and is pending.
BeginReply(r, a) ==
  /\ reply[r] = None
  /\ a \in sent
  /\ status[a] = "pending"
  /\ reply' = [reply EXCEPT ![r] = a]
  /\ UNCHANGED <<signal, sent, storeVars, loopVars, countVars>>

\* _apply_intent after the classifier's await.
ApplyIntent(r, s) ==
  /\ reply[r] # None
  /\ Resolve(reply[r], s)
  /\ reply' = [reply EXCEPT ![r] = None]
  /\ UNCHANGED <<signal, sent, overdue, created, loopVars, countVars>>

\* The reply is unclear, the classifier fails, or the bot dies.
DropReply(r) ==
  /\ reply[r] # None
  /\ reply' = [reply EXCEPT ![r] = None]
  /\ UNCHANGED <<signal, sent, storeVars, loopVars, countVars>>

-----------------------------------------------------------------------------
(* The daemon loop. *)

\* create_task(daemon.start()).
Launch(d) ==
  /\ At(d, "down")
  /\ Goto(d, "starting")
  /\ UNCHANGED <<signal, sent, reply, storeVars, countVars,
                 running, asked, batch, fetched, current, ok>>

\* start(): after ensure_groups, _running = True and the loop begins.
EnterLoop(d) ==
  /\ At(d, "starting")
  /\ Goto(d, "waiting")
  /\ running' = [running EXCEPT ![d] = TRUE]
  /\ UNCHANGED <<signal, sent, reply, storeVars, countVars,
                 asked, batch, fetched, current, ok>>

\* stop(): clears _running and wakes the ticker.
Stop(d) ==
  /\ ~At(d, "down") /\ ~asked[d]
  /\ running' = [running EXCEPT ![d] = FALSE]
  /\ asked' = [asked EXCEPT ![d] = TRUE]
  /\ UNCHANGED <<signal, sent, reply, storeVars, countVars,
                 pc, batch, fetched, current, ok>>

\* wait_for_next_tick, then read_priority: some of the queued signals, since a
\* stream whose read fails is skipped.  Their order is any.
ReadSignals(d, some) ==
  /\ At(d, "waiting")
  /\ batch' = [batch EXCEPT ![d] = some]
  /\ signal' = [s \in Signals |-> IF s \in some THEN "taken" ELSE signal[s]]
  /\ Goto(d, "signals")
  /\ UNCHANGED <<sent, reply, storeVars, countVars,
                 running, asked, fetched, current, ok>>

\* _process_signal when no approval is needed: blocked, ignored, executed at
\* once, or failed; all of these paths end in an ack.
HandleSignal(d, s) ==
  /\ At(d, "signals") /\ s \in batch[d]
  /\ current' = [current EXCEPT ![d] = s]
  /\ batch' = [batch EXCEPT ![d] = @ \ {s}]
  /\ Goto(d, "acking")
  /\ UNCHANGED <<signal, sent, reply, storeVars, countVars,
                 running, asked, fetched, ok>>

\* _process_signal when approval is needed: ApprovalStore.create.
CreateAction(d, s) ==
  /\ At(d, "signals") /\ s \in batch[d]
  /\ current' = [current EXCEPT ![d] = s]
  /\ batch' = [batch EXCEPT ![d] = @ \ {s}]
  /\ status' = [status EXCEPT ![s] = "pending"]
  /\ created' = Append(created, s)
  /\ Goto(d, "notifying")
  /\ UNCHANGED <<signal, sent, reply, overdue, countVars,
                 running, asked, fetched, ok>>

\* The notification; a failed one is only logged.
Notify(d, reached) ==
  /\ At(d, "notifying")
  /\ sent' = IF reached THEN sent \cup {current[d]} ELSE sent
  /\ Goto(d, "acking")
  /\ UNCHANGED <<signal, reply, storeVars, countVars,
                 running, asked, batch, fetched, current, ok>>

\* XACK.
Ack(d) ==
  /\ At(d, "acking")
  /\ signal' = [signal EXCEPT ![current[d]] = "acked"]
  /\ current' = [current EXCEPT ![d] = None]
  /\ Goto(d, "signals")
  /\ UNCHANGED <<sent, reply, storeVars, countVars,
                 running, asked, batch, fetched, ok>>

\* _execute_approved_actions: recover_stuck when RECOVER_INTERVAL has passed.
RecoverStuck(d) ==
  /\ At(d, "signals") /\ batch[d] = {}
  /\ status' = [a \in Signals |-> IF a \in Stuck THEN "approved" ELSE status[a]]
  /\ overdue' = overdue \ Stuck
  /\ Goto(d, "fetching")
  /\ UNCHANGED <<signal, sent, reply, created, countVars,
                 running, asked, batch, fetched, current, ok>>

\* ... and when it has not, or when it raises, which is only logged.
SkipRecovery(d) ==
  /\ At(d, "signals") /\ batch[d] = {}
  /\ Goto(d, "fetching")
  /\ UNCHANGED <<signal, sent, reply, storeVars, countVars,
                 running, asked, batch, fetched, current, ok>>

FetchApproved(d) ==
  /\ At(d, "fetching")
  /\ fetched' = [fetched EXCEPT ![d] = OldestApproved]
  /\ Goto(d, "claiming")
  /\ UNCHANGED <<signal, sent, reply, storeVars, countVars,
                 running, asked, batch, current, ok>>

\* The for loop takes the fetched actions in their order.
TakeFetched(d, a) ==
  /\ At(d, "claiming") /\ a \in fetched[d]
  /\ \A b \in fetched[d] : ~Before(b, a)
  /\ fetched' = [fetched EXCEPT ![d] = @ \ {a}]

\* mark_executing on the next fetched action.
Claim(d, a) ==
  /\ TakeFetched(d, a)
  /\ ClaimRow(a)
  /\ current' = [current EXCEPT ![d] = a]
  /\ Goto(d, "executing")
  /\ UNCHANGED <<signal, sent, reply, overdue, created, countVars,
                 running, asked, batch, ok>>

\* It was not claimed: continue.
SkipClaimed(d, a) ==
  /\ TakeFetched(d, a)
  /\ status[a] # "approved"
  /\ UNCHANGED <<signal, sent, reply, storeVars, countVars,
                 pc, running, asked, batch, current, ok>>

\* ToolRegistry.execute, which turns every exception into a failed result.
Execute(d, success) ==
  /\ At(d, "executing")
  /\ runs' = [runs EXCEPT ![current[d]] = @ + 1]
  /\ ok' = [ok EXCEPT ![d] = success]
  /\ Goto(d, "marking")
  /\ UNCHANGED <<signal, sent, reply, storeVars, overruns, faults,
                 running, asked, batch, fetched, current>>

\* mark_executed with the tool's result.
MarkExecuted(d) ==
  /\ At(d, "marking")
  /\ Settle(current[d], IF ok[d] THEN "executed" ELSE "failed")
  /\ current' = [current EXCEPT ![d] = None]
  /\ Goto(d, "claiming")
  /\ UNCHANGED <<signal, sent, reply, created, countVars,
                 running, asked, batch, fetched, ok>>

\* The except branch: mark_executed(success=False).
MarkFailed(d) ==
  /\ At(d, "failing")
  /\ Settle(current[d], "failed")
  /\ current' = [current EXCEPT ![d] = None]
  /\ Goto(d, "claiming")
  /\ UNCHANGED <<signal, sent, reply, created, countVars,
                 running, asked, batch, fetched, ok>>

\* The iteration is over: back to the ticker, or out of the loop.
EndIteration(d) ==
  /\ At(d, "claiming") /\ fetched[d] = {}
  /\ Goto(d, IF running[d] THEN "waiting" ELSE "down")
  /\ asked' = [asked EXCEPT ![d] = @ /\ running[d]]
  /\ UNCHANGED <<signal, sent, reply, storeVars, countVars,
                 running, batch, fetched, current, ok>>

-----------------------------------------------------------------------------
(* Faults and time. *)

\* XACK raises, and so does the one in the except branch: only logged.
AckRaises(d) ==
  /\ At(d, "acking") /\ Fault
  /\ current' = [current EXCEPT ![d] = None]
  /\ Goto(d, "signals")
  /\ UNCHANGED <<signal, sent, reply, storeVars, runs, overruns,
                 running, asked, batch, fetched, ok>>

\* get_approved raises: logged, the iteration ends with nothing to try.
FetchRaises(d) ==
  /\ At(d, "fetching") /\ Fault
  /\ Goto(d, "claiming")
  /\ UNCHANGED <<signal, sent, reply, storeVars, runs, overruns,
                 running, asked, batch, fetched, current, ok>>

\* mark_executing raises, before or after its commit.
ClaimRaises(d, a) ==
  /\ TakeFetched(d, a) /\ Fault
  /\ ClaimRow(a) \/ UNCHANGED status
  /\ current' = [current EXCEPT ![d] = a]
  /\ Goto(d, "failing")
  /\ UNCHANGED <<signal, sent, reply, overdue, created, runs, overruns,
                 running, asked, batch, ok>>

\* mark_executed raises (the row unchanged), or the audit record after it does.
MarkRaises(d) ==
  /\ At(d, "marking") /\ Fault
  /\ \/ Settle(current[d], IF ok[d] THEN "executed" ELSE "failed")
     \/ UNCHANGED <<status, overdue>>
  /\ Goto(d, "failing")
  /\ UNCHANGED <<signal, sent, reply, created, runs, overruns,
                 running, asked, batch, fetched, current, ok>>

\* mark_executed in the except branch raises too: only logged.
MarkFailedRaises(d) ==
  /\ At(d, "failing") /\ Fault
  /\ current' = [current EXCEPT ![d] = None]
  /\ Goto(d, "claiming")
  /\ UNCHANGED <<signal, sent, reply, storeVars, runs, overruns,
                 running, asked, batch, fetched, ok>>

\* The process dies; what it held in memory is gone.
Crash(d) ==
  /\ ~At(d, "down") /\ Fault
  /\ Goto(d, "down")
  /\ running' = [running EXCEPT ![d] = FALSE]
  /\ asked' = [asked EXCEPT ![d] = FALSE]
  /\ batch' = [batch EXCEPT ![d] = {}]
  /\ fetched' = [fetched EXCEPT ![d] = {}]
  /\ current' = [current EXCEPT ![d] = None]
  /\ UNCHANGED <<signal, sent, reply, storeVars, runs, overruns, ok>>

\* Ten minutes pass since an action was claimed.
Overrun(a) ==
  /\ status[a] = "executing" /\ a \notin overdue
  /\ overruns[a] < MaxOverruns
  /\ overdue' = overdue \cup {a}
  /\ overruns' = [overruns EXCEPT ![a] = @ + 1]
  /\ UNCHANGED <<signal, sent, reply, status, created, loopVars, runs, faults>>

LoopStep(d) ==
  \/ Launch(d) \/ EnterLoop(d)
  \/ \E some \in SUBSET {s \in Signals : signal[s] = "queued"} :
       ReadSignals(d, some)
  \/ \E s \in Signals : HandleSignal(d, s) \/ CreateAction(d, s)
  \/ \E reached \in BOOLEAN : Notify(d, reached)
  \/ Ack(d)
  \/ RecoverStuck(d) \/ SkipRecovery(d) \/ FetchApproved(d)
  \/ \E a \in Signals : Claim(d, a) \/ SkipClaimed(d, a)
  \/ \E success \in BOOLEAN : Execute(d, success)
  \/ MarkExecuted(d) \/ MarkFailed(d) \/ EndIteration(d)

FaultStep(d) ==
  \/ AckRaises(d) \/ FetchRaises(d)
  \/ \E a \in Signals : ClaimRaises(d, a)
  \/ MarkRaises(d) \/ MarkFailedRaises(d)
  \/ Crash(d)

Next ==
  \/ \E d \in Daemons : LoopStep(d) \/ FaultStep(d) \/ Stop(d)
  \/ \E s \in Signals : Push(s) \/ Overrun(s)
  \/ \E r \in Replies :
       \/ \E a \in Signals : BeginReply(r, a)
       \/ \E s \in {"approved", "rejected"} : ApplyIntent(r, s)
       \/ DropReply(r)

Spec == Init /\ [][Next]_vars

\* The loop keeps taking steps, the process is restarted when it is down,
\* ten minutes pass, and recover_stuck's interval passes again and again.
FairSpec ==
  /\ Spec
  /\ \A d \in Daemons : WF_vars(LoopStep(d)) /\ SF_vars(RecoverStuck(d))
  /\ \A a \in Signals : WF_vars(Overrun(a))

-----------------------------------------------------------------------------
(* Properties. *)

Holders(a) ==
  {d \in Daemons : current[d] = a /\ pc[d] = "executing"}

\* An action the owner rejected never ran and is not about to run, whatever the
\* order in which concurrent replies are classified (daemon_approval.py).
RejectedNeverRuns ==
  \A a \in Signals : status[a] = "rejected" => runs[a] = 0 /\ Holders(a) = {}

\* A tool runs again, or is about to, only for a claim that really was older
\* than the timeout: mark_executing is an exclusive claim of one daemon, and
\* recover_stuck leaves fresh claims alone, with any number of daemons.
RepeatsNeedOverrun ==
  \A a \in Signals :
    runs[a] + Cardinality(Holders(a)) <= 1 + overruns[a]

\* Rejected, executed and failed are final: a late reply, a stale claimant or a
\* recovery never reopens or rewrites a settled action.
SettledIsFinal ==
  [][\A a \in Signals : status[a] \in Final => status'[a] = status[a]]_vars

\* Every approved action is executed or failed in the end, although the daemon
\* may die or its database calls may raise at any step of it.
ApprovedSettles ==
  \A a \in Signals : status[a] = "approved" ~> status[a] \in {"executed", "failed"}

\* stop() ends the loop ("Signal the daemon to stop.").
StopEndsLoop == \A d \in Daemons : asked[d] ~> At(d, "down")
=============================================================================
