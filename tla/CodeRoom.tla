------------------------------ MODULE CodeRoom ------------------------------
(***************************************************************************)
(* The working room /code of one user over the runs of specs:              *)
(* skills/chat_self_coding/, agent_runtime/bridge.py.                      *)
(*                                                                         *)
(* A message loads the room from Redis and its handler goes on with that   *)
(* copy: through the transcript, the intent classifier, the discussion or  *)
(* the architect.  What the handler saves in the end is the copy.  A       *)
(* background run saves its verdict in the room when it ends, in the       *)
(* middle of a message or not.  The messages of a chat are handled one at  *)
(* a time (ChatTurns).  A load with only its save after it is one step.    *)
(*                                                                         *)
(* Whether the room intercepts messages (is_open), its transcript, goal    *)
(* and summaries are left out.                                             *)
(***************************************************************************)
EXTENDS SpecRuns

VARIABLES
  room,  \* ChatSelfCodingState in Redis
  turn   \* the message being handled and the copy it holds

roomVars == <<room, turn>>
allVars == <<vars, roomVars>>
specVars == <<file, run, treeVars, countVars>>  \* all but orders

Stages == {"none", "idle", "drafting", "pending_approval", "running", "done"}

NoRoom == [stage |-> "none", slug |-> None, resume |-> None, recovery |-> None]
Fresh == [NoRoom EXCEPT !.stage = "idle"]
Quiet == [pc |-> "idle", copy |-> NoRoom]

Rooms == [stage : Stages, slug : Specs \cup {None}, resume : Runs \cup {None},
          recovery : {None, "create_spec", "run_spec"}]

Turns == [pc : {"idle", "handling", "drafting"}, copy : Rooms]

RoomTypeOK == room \in Rooms /\ turn \in Turns

RoomInit ==
  /\ Init
  /\ room = NoRoom \/ \E s \in Specs :
       /\ file[s].status = "pending_approval"
       /\ room = [Fresh EXCEPT !.stage = "pending_approval", !.slug = s]
  /\ turn = Quiet

-----------------------------------------------------------------------------
(* Messages. *)

Message == turn.pc = "idle" /\ Order

\* The day of the Redis key passes, or a load finds a draft that is older than
\* fifteen minutes and clears it.
Expire ==
  /\ room.stage # "none"
  /\ room' = NoRoom
  /\ UNCHANGED <<vars, turn>>

\* /code.
Enter ==
  /\ Message
  /\ room.stage = "none"
  /\ room' = Fresh
  /\ UNCHANGED <<specVars, turn>>

\* /clear; the archive of the session and /complete.
ClearOrComplete ==
  /\ Message
  /\ room.stage # "none"
  /\ room' \in {Fresh, NoRoom}
  /\ UNCHANGED <<specVars, turn>>

\* _handle_create up to the architect.
Drafting(copy) ==
  /\ turn' = [pc |-> "drafting", copy |-> [copy EXCEPT !.stage = "drafting"]]
  /\ room' = turn'.copy
  /\ UNCHANGED specVars

\* A message of a dialogue about code opens a room, or a closed one, and is its
\* first task.
DialogueStarts ==
  /\ Message
  /\ Drafting(Fresh)

\* Everything else goes on with a copy of the room.
Hear ==
  /\ Message
  /\ room.stage # "none"
  /\ turn' = [pc |-> "handling", copy |-> room]
  /\ UNCHANGED <<specVars, room>>

-----------------------------------------------------------------------------
(* The handlers, on the copy they were given. *)

\* _run_implementation: a job in the background, or create_job raises and
\* leaves the room as it was just saved.
RunInBackground(copy) ==
  /\ \/ \E r \in Runs : Started(r, copy.slug, copy.resume, TRUE)
     \/ UNCHANGED run
  /\ UNCHANGED <<treeVars, countVars>>

\* _handle_approve: /spec approve never refuses, and the run follows.
HandleApprove(copy) ==
  /\ copy.stage = "pending_approval" /\ copy.slug # None
  /\ file' = Approved(copy.slug)
  /\ room' = [copy EXCEPT !.stage = "running"]
  /\ RunInBackground(copy)

\* _handle_run: the stage is not asked for.
HandleRun(copy) ==
  /\ copy.slug # None
  /\ room' = [copy EXCEPT !.stage = "running"]
  /\ RunInBackground(copy)
  /\ UNCHANGED file

\* _handle_reject: any stage, and whatever /spec reject answers.
HandleReject(copy) ==
  /\ copy.slug # None
  /\ file' = Rejected(copy.slug)
  /\ room' = [copy EXCEPT !.stage = "idle", !.slug = None]
  /\ UNCHANGED <<run, treeVars, countVars>>

\* _handle_merge: the change is on the branch already.
HandleMerge(copy) ==
  /\ copy.stage = "done" /\ file[copy.slug].status = "done"
  /\ room' = [copy EXCEPT !.stage = "idle", !.slug = None]
  /\ UNCHANGED specVars

\* A discussion's answer, an exit: the copy is saved.
SaveCopy(copy) ==
  /\ room' = copy
  /\ UNCHANGED specVars

\* A status, a plan shown, a request with nothing to act on.
SaveNothing == UNCHANGED <<specVars, room>>

\* compact: the recovery and the resumable worktree are forgotten.
HandleCompact(copy) ==
  /\ room' = [copy EXCEPT !.resume = None, !.recovery = None]
  /\ UNCHANGED specVars

\* "implement <slug>".
ExplicitSlug(copy, s) ==
  /\ file[s].status # "absent"
  /\ HandleApprove([copy EXCEPT !.stage = "pending_approval", !.slug = s,
                                !.recovery = None])

\* "go on" after a run that failed.
RecoveryResumes(copy) ==
  LET clean == [copy EXCEPT !.stage = "pending_approval", !.recovery = None] IN
  /\ copy.recovery = "run_spec"
  /\ IF clean.slug # None THEN HandleApprove(clean) ELSE SaveCopy(clean)

\* What the words, the classifier and the state of the copy lead to.
Handled ==
  /\ LoopFree /\ turn.pc = "handling"
  /\ \/ HandleApprove(turn.copy) \/ HandleRun(turn.copy)
     \/ HandleReject(turn.copy) \/ HandleMerge(turn.copy)
     \/ HandleCompact(turn.copy) \/ RecoveryResumes(turn.copy)
     \/ \E s \in Specs : ExplicitSlug(turn.copy, s)
     \/ SaveCopy(turn.copy) \/ SaveNothing
  /\ turn' = Quiet
  /\ UNCHANGED orders

\* A plan is asked for, a new task forgets the worktree; or "go on" after a
\* plan that failed.
CreateBegins ==
  /\ LoopFree /\ turn.pc = "handling"
  /\ \/ Drafting(IF turn.copy.slug # None
                 THEN [turn.copy EXCEPT !.resume = None] ELSE turn.copy)
     \/ /\ turn.copy.recovery = "create_spec"
        /\ Drafting([turn.copy EXCEPT !.recovery = None])
  /\ UNCHANGED orders

\* The plan is written and becomes the room's.
CreateEnds ==
  /\ turn.pc = "drafting"
  /\ \E s \in Specs :
       /\ Draft(s)
       /\ room' = [turn.copy EXCEPT !.stage = "pending_approval", !.slug = s,
                                    !.recovery = None]
  /\ turn' = Quiet
  /\ UNCHANGED <<run, treeVars, countVars, orders>>

CreateFails ==
  /\ LoopFree /\ turn.pc = "drafting"
  /\ room' = [turn.copy EXCEPT !.stage = "idle", !.slug = None,
                               !.recovery = "create_spec"]
  /\ turn' = Quiet
  /\ UNCHANGED vars

-----------------------------------------------------------------------------
(* A run's verdict: the completion of _make_implementation_completion. *)

\* The room after the verdict of run r.
Verdict(r) ==
  IF run[r].ok
  THEN [room EXCEPT !.stage = "done", !.resume = None, !.recovery = None]
  ELSE [room EXCEPT !.stage = "pending_approval", !.recovery = "run_spec",
                    !.resume = IF run[r].tree \in trees THEN run[r].tree ELSE @]

\* Mutants: the verdict is for whatever plan the room has now; a success is not
\* saved.
DeliverToAnyPlan(r) ==
  /\ At(r, "over") /\ run[r].room
  /\ run' = [run EXCEPT ![r] = Closed(r)]
  /\ room' = IF room.stage = "none" THEN room ELSE Verdict(r)
  /\ UNCHANGED <<file, treeVars, restVars, turn>>
DeliverFailuresOnly(r) ==
  /\ At(r, "over") /\ run[r].room
  /\ run' = [run EXCEPT ![r] = Closed(r)]
  /\ room' = IF room.slug = run[r].spec /\ ~run[r].ok THEN Verdict(r) ELSE room
  /\ UNCHANGED <<file, treeVars, restVars, turn>>

\* A room that is gone or has another plan by now is left alone.
Deliver(r) ==
  /\ At(r, "over") /\ run[r].room
  /\ run' = [run EXCEPT ![r] = Closed(r)]
  /\ room' = IF room.slug = run[r].spec THEN Verdict(r) ELSE room
  /\ UNCHANGED <<file, treeVars, restVars, turn>>

\* The room is in Redis, the message and the completions are not.
CrashWithRoom ==
  /\ Crash
  /\ turn' = Quiet
  /\ UNCHANGED room

Turn ==
  \/ Expire \/ Enter \/ ClearOrComplete \/ DialogueStarts \/ Hear
  \/ Handled \/ CreateBegins \/ CreateEnds \/ CreateFails

RoomNext ==
  \/ Turn
  \/ \E r \in Runs : Deliver(r)
  \/ \E r \in Runs : RunStep(r) /\ UNCHANGED roomVars
  \/ Command /\ UNCHANGED roomVars
  \/ StartBySlash /\ UNCHANGED roomVars
  \/ CrashWithRoom

RoomSpec == RoomInit /\ [][RoomNext]_allVars

-----------------------------------------------------------------------------
(* Properties. *)

\* A room whose run will never tell it anything.
Stuck ==
  /\ room.stage = "running"
  /\ ~\E r \in Runs : /\ run[r].room /\ run[r].spec = room.slug
                      /\ run[r].pc \in InCycle \cup {"queued", "over"}

\* A room is left running without a run that will report to it by a restart,
\* or by a message that saves it as running and creates no job: the job is
\* refused, or the saved copy is older than the verdict.  No order of verdicts,
\* cancellations, new plans and resumed runs does it.
CreatesNoJob == run' = run /\ <<turn, orders>>' # <<turn, orders>>

RunningRoomHasItsRun ==
  [][~Stuck /\ Stuck' => crashes' > crashes \/ CreatesNoJob]_allVars

\* A room that says its plan is done is right about it: a change made for that
\* plan is on the branch, even if the room has had other plans since the run
\* started or the message that saved it was slow.
DoneRoomIsRight ==
  \A state \in {room, turn.copy} : state.stage = "done" =>
    \E r \in landed : run[r].spec = state.slug
=============================================================================
