------------------------------ MODULE SecondBot ------------------------------
(***************************************************************************)
(* A second bot process started on the workspace of a bot that is up.      *)
(* bot/main.py recovers running jobs (4224) before it asks for process     *)
(* ownership (4902): the newcomer rewrites the first bot's jobs, and only  *)
(* then learns that it may not run, or, if the first bot is gone by then,  *)
(* takes over.  recover_running_jobs lists jobs once and saves each from   *)
(* the copy it listed.                                                     *)
(***************************************************************************)
EXTENDS AgentRuntime

VARIABLES
  second,    \* the newcomer: "out" or "recovering"
  toReview,  \* listed jobs it has still to save
  seen       \* followups and artifacts of the copies it listed

secondVars == <<second, toReview, seen>>
sharedVars == <<vars, secondVars>>

SharedInit ==
  /\ Init
  /\ second = "out"
  /\ toReview = {}
  /\ seen = [j \in Jobs |-> {}]

\* store.list_by_status((RUNNING, WAITING_USER)) in the new process.
SecondLists ==
  /\ second = "out" /\ phase = "up"
  /\ second' = "recovering"
  /\ toReview' = Interrupted
  /\ seen' = [j \in Jobs |-> IF j \in Interrupted THEN addenda[j] ELSE {}]
  /\ UNCHANGED vars

\* One iteration of the loop: the listed copy is saved over the record.
SecondReviews(j) ==
  /\ second = "recovering"
  /\ j \in toReview
  /\ status' = [status EXCEPT ![j] = "needs_review"]
  /\ addenda' = [addenda EXCEPT ![j] = seen[j]]
  /\ outcome' = [outcome EXCEPT ![j] = Append(@, "recovered")]
  /\ toReview' = toReview \ {j}
  /\ UNCHANGED <<fp, acked, pend, runVars, phase, second, seen>>

SecondLeaves ==
  /\ second' = "out"
  /\ seen' = [j \in Jobs |-> {}]
  /\ UNCHANGED toReview

\* _LiveProcessOwnershipConflictError: the first bot holds the lease.
SecondStops ==
  /\ second = "recovering" /\ toReview = {}
  /\ phase # "down"
  /\ SecondLeaves
  /\ UNCHANGED vars

\* The lease is free or stale: the newcomer acquires it and serves.
SecondTakesOver ==
  /\ second = "recovering" /\ toReview = {}
  /\ phase = "down"
  /\ phase' = "up"
  /\ SecondLeaves
  /\ UNCHANGED <<storeVars, eventVars, pend, runVars>>

\* While the newcomer starts, nobody starts a third process.
FirstStep == Next /\ (second = "out" \/ phase # "down") /\ UNCHANGED secondVars

SharedNext ==
  \/ FirstStep
  \/ SecondLists
  \/ \E j \in Jobs : SecondReviews(j)
  \/ SecondStops
  \/ SecondTakesOver

SharedSpec == SharedInit /\ [][SharedNext]_sharedVars

-----------------------------------------------------------------------------
\* recover_running_jobs, runtime.py:259: "Move orphaned running jobs into
\* needs_review after bot restart."  A job a live coroutine works on is no
\* orphan and is not moved.
OnlyOrphansReviewed ==
  [][\A j \in Jobs :
       status[j] = "running" /\ status'[j] = "needs_review" =>
         ~ \E r \in Runs : target[r] = j /\ pc[r] \in Live]_sharedVars

=============================================================================
