---------------------------- MODULE JobLifecycle ----------------------------
(***************************************************************************)
(* What AgentRuntime promises about the status of durable jobs, without    *)
(* coroutines, events or processes: a job is created waiting, is started,  *)
(* is closed, and stays closed.  The one exception the code makes is a     *)
(* profile timeout, which may still turn a closed job into a failed one.   *)
(***************************************************************************)
CONSTANTS Jobs, Fingerprints, Timed, None

VARIABLES status, fp

Waiting  == {"queued", "awaiting_input"}
Active   == Waiting \cup {"running", "waiting_user"}
Terminal == {"done", "failed", "canceled", "needs_review"}

Init ==
  /\ status = [j \in Jobs |-> "absent"]
  /\ fp = [j \in Jobs |-> None]

Become(j, s) == status' = [status EXCEPT ![j] = s]

\* A fingerprint has one active job at a time.
Create(j, f) ==
  /\ status[j] = "absent"
  /\ ~ \E i \in Jobs : status[i] \in Active /\ fp[i] = f
  /\ \E s \in Waiting : Become(j, s)
  /\ fp' = [fp EXCEPT ![j] = f]

Start(j) ==
  /\ status[j] \in Waiting
  /\ Become(j, "running")
  /\ UNCHANGED fp

\* Only work that was started has an outcome or can be interrupted.
Close(j) ==
  /\ status[j] = "running"
  /\ \E s \in {"done", "failed", "needs_review"} : Become(j, s)
  /\ UNCHANGED fp

Cancel(j) ==
  /\ status[j] \in Active
  /\ Become(j, "canceled")
  /\ UNCHANGED fp

LateTimeout(j) ==
  /\ status[j] \in Terminal
  /\ fp[j] \in Timed
  /\ Become(j, "failed")
  /\ UNCHANGED fp

Next ==
  \E j \in Jobs :
    \/ \E f \in Fingerprints : Create(j, f)
    \/ Start(j)
    \/ Close(j)
    \/ Cancel(j)
    \/ LateTimeout(j)

Spec == Init /\ [][Next]_<<status, fp>>

=============================================================================
