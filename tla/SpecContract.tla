---------------------------- MODULE SpecContract ----------------------------
(***************************************************************************)
(* What running approved specs promises, without worktrees, editors and    *)
(* gates: a run is authorised while its spec is approved; a change reaches *)
(* the live branch only from an authorised run, and once; and besides the  *)
(* owner only an authorised run changes the status of its spec, to "done"  *)
(* only when its own change is on the branch.                              *)
(*                                                                         *)
(* Not promised, because the code does not keep it: that a run stops when  *)
(* its spec is rejected meanwhile, and that one spec has one run.          *)
(***************************************************************************)
CONSTANTS Specs, Runs, None

VARIABLES
  status,      \* of each spec
  authorised,  \* the spec a run may change the branch for
  landed       \* the runs whose change is on the branch

vars == <<status, authorised, landed>>

Init ==
  /\ status \in [Specs -> {"absent", "pending_approval"}]
  /\ authorised = [r \in Runs |-> None]
  /\ landed = {}

\* The architect writes specs; the owner decides on one or on a bundle.
Decide(S, from, to) ==
  /\ \A s \in S : status[s] \in from
  /\ status' = [s \in Specs |-> IF s \in S THEN to ELSE status[s]]
  /\ UNCHANGED <<authorised, landed>>

Decided(S) ==
  \/ Decide(S, {"absent"}, "pending_approval")
  \/ Decide(S, {"pending_approval", "failed"}, "approved")
  \/ Decide(S, {"pending_approval", "approved"}, "rejected")

Authorise(r, s) ==
  /\ authorised[r] = None /\ r \notin landed
  /\ status[s] = "approved"
  /\ authorised' = [authorised EXCEPT ![r] = s]
  /\ UNCHANGED <<status, landed>>

Land(r) ==
  /\ authorised[r] # None /\ r \notin landed
  /\ landed' = landed \cup {r}
  /\ UNCHANGED <<status, authorised>>

\* A verdict, with which the run may end.
Settle(r, verdict) ==
  /\ authorised[r] # None
  /\ verdict = "done" => r \in landed
  /\ status' = [status EXCEPT ![authorised[r]] = verdict]
  /\ authorised' \in {authorised, [authorised EXCEPT ![r] = None]}
  /\ UNCHANGED landed

\* Runs end without a verdict: refused, cancelled, or lost with the process.
Disband(R) ==
  /\ authorised' = [r \in Runs |-> IF r \in R THEN None ELSE authorised[r]]
  /\ UNCHANGED <<status, landed>>

Next ==
  \/ \E S \in SUBSET Specs : Decided(S)
  \/ \E r \in Runs :
       \/ \E s \in Specs : Authorise(r, s)
       \/ Land(r)
       \/ \E verdict \in {"done", "failed"} : Settle(r, verdict)
  \/ \E R \in SUBSET Runs : Disband(R)

Spec == Init /\ [][Next]_vars
=============================================================================
