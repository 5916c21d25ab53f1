--------------------------- MODULE SkillApprovals ---------------------------
(***************************************************************************)
(* The gate every skill is invoked through: skills/invocation.py with the  *)
(* pending decision of one user, chat and mode.                            *)
(*                                                                         *)
(* The messages of the chat come one at a time (ChatTurns), each through   *)
(* the classifiers and the handlers it is routed to; a skill that executes *)
(* may send a command of its own through the gate.  Which skill is chosen  *)
(* is left open, as are the words that approve, decline or change a plan.  *)
(***************************************************************************)
EXTENDS Naturals

CONSTANTS
  Questions,     \* decisions the owner is asked for
  MaxCommands,   \* bound: commands sent by executing skills
  MaxStoreLosses,  \* bound: restarts
  Nothing        \* no decision

ASSUME QuestionsAssumption ==
  /\ Nothing \notin Questions
  /\ MaxCommands \in Nat /\ MaxStoreLosses \in Nat

VARIABLES
  slot,      \* InMemorySkillApprovalStore
  handling,  \* the message being handled
  fate,      \* history: what became of each decision
  commands,  \* history
  losses     \* history

approvalVars == <<slot, handling, fate, commands, losses>>

Final == {"approved", "declined", "revised", "superseded", "replaced", "lost"}
Waiting == [pc |-> "waiting", pending |-> Nothing, granted |-> FALSE]

ApprovalsTypeOK ==
  /\ slot \in Questions \cup {Nothing}
  /\ handling \in
       [pc : {"waiting", "resolving", "routing", "preparing", "executing"},
        pending : Questions \cup {Nothing}, granted : BOOLEAN]
  /\ fate \in [Questions -> {"none", "open"} \cup Final]
  /\ commands \in 0..MaxCommands /\ losses \in 0..MaxStoreLosses

ApprovalsInit ==
  /\ slot = Nothing
  /\ handling = Waiting
  /\ fate = [d \in Questions |-> "none"]
  /\ commands = 0 /\ losses = 0

To(pc) == handling' = [handling EXCEPT !.pc = pc]

\* The decision is popped; what becomes of the message is left to the caller.
Pop(what) ==
  /\ handling.pc = "resolving"
  /\ slot' = Nothing
  /\ fate' = [fate EXCEPT ![handling.pending] = what]
  /\ UNCHANGED <<commands, losses>>

restOfGate == <<fate, commands, losses>>

-----------------------------------------------------------------------------

\* dispatch: a pending decision is resolved first.
Dispatch ==
  /\ handling.pc = "waiting"
  /\ handling' = [pc |-> IF slot = Nothing THEN "routing" ELSE "resolving",
                  pending |-> slot, granted |-> FALSE]
  /\ UNCHANGED <<slot, restOfGate>>

\* A message of the goal loop's operator is routed past the decision.
PassBy ==
  /\ handling.pc = "resolving"
  /\ To("routing")
  /\ UNCHANGED <<slot, restOfGate>>

\* Mutant: the old plan is left to be overwritten by the new one.
ReviseWithoutPop ==
  /\ handling.pc = "resolving"
  /\ fate' = [fate EXCEPT ![handling.pending] = "revised"]
  /\ To("preparing")
  /\ UNCHANGED <<slot, commands, losses>>

\* The skill makes another plan of the answer.
Revise == Pop("revised") /\ To("preparing")

\* Another skill claims the message with high confidence.
Supersede == Pop("superseded") /\ To("routing")

\* No, or later: a decision that is put off is forgotten as well.
Decline == Pop("declined") /\ handling' = Waiting

\* Yes: the skill is executed with the message it was asked for, and commands
\* it sends are granted with it.
ApprovePending ==
  /\ Pop("approved")
  /\ handling' = [handling EXCEPT !.pc = "executing", !.granted = TRUE]

\* invoke_command, invoke_named_skill: a skill that needs no approval, or has
\* it, or no skill at all.
RunDirect ==
  /\ handling.pc = "routing"
  /\ To("executing")
  /\ UNCHANGED <<slot, restOfGate>>

\* _requires_approval.
NeedsApproval ==
  /\ handling.pc = "routing" /\ ~handling.granted
  /\ To("preparing")
  /\ UNCHANGED <<slot, restOfGate>>

\* _request_approval_for_plan: the question replaces what is stored.  It is put
\* into words by chat_response, a skill that executes.
Ask ==
  /\ handling.pc = "preparing"
  /\ \E d \in Questions :
       /\ fate[d] = "none"
       /\ fate' = [[x \in Questions |-> IF x = slot THEN "replaced" ELSE fate[x]]
                     EXCEPT ![d] = "open"]
       /\ slot' = d
  /\ To("executing")
  /\ UNCHANGED <<commands, losses>>

\* The plan lacks input of the user, or its dry run fails: nothing is stored.
AskNothing ==
  /\ handling.pc = "preparing"
  /\ To("executing")
  /\ UNCHANGED <<slot, restOfGate>>

\* The skill sends a command through the gate.
Send ==
  /\ handling.pc = "executing" /\ commands < MaxCommands
  /\ commands' = commands + 1
  /\ To("routing")
  /\ UNCHANGED <<slot, fate, losses>>

\* The message is answered: the skill has executed or raised, or the words were
\* no decision and the owner is asked again.
Answered ==
  /\ handling.pc # "waiting"
  /\ handling' = Waiting
  /\ UNCHANGED <<slot, restOfGate>>

\* The store is memory.
LoseStore ==
  /\ losses < MaxStoreLosses
  /\ losses' = losses + 1
  /\ slot' = Nothing
  /\ handling' = Waiting
  /\ fate' = [d \in Questions |-> IF d = slot THEN "lost" ELSE fate[d]]
  /\ UNCHANGED commands

ApprovalsNext ==
  \/ Dispatch \/ PassBy \/ Revise \/ Supersede \/ Decline
  \/ ApprovePending
  \/ RunDirect \/ NeedsApproval \/ Ask \/ AskNothing \/ Send \/ Answered
  \/ LoseStore

ApprovalsSpec == ApprovalsInit /\ [][ApprovalsNext]_approvalVars

-----------------------------------------------------------------------------

\* What became of a decision is final: a plan that was carried out, declined,
\* put off, changed or overtaken by another task is never carried out later,
\* although a "yes" is taken for whatever the store holds at that time.
FateIsFinal ==
  [][\A d \in Questions : fate[d] \in Final => fate'[d] = fate[d]]_approvalVars
=============================================================================
