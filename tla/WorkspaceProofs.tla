--------------------------- MODULE WorkspaceProofs ---------------------------
(***************************************************************************)
(* The skill gate, and the four parts of MCWorkspace taken together,       *)
(* proved with TLAPS for any constants.                                    *)
(*                                                                         *)
(* The gate looks at the store when a message comes in and pops it after   *)
(* the classifiers have answered.  SlotIsOpen and ResolvesTheSlot say why  *)
(* it pops what it has looked at: whatever waits in the store is open, and *)
(* only the message that resolves it touches it meanwhile.                 *)
(*                                                                         *)
(* WorkspaceIsItsParts says that what is checked on the composition is a   *)
(* behaviour of each part, so that every theorem about a part holds of it. *)
(***************************************************************************)
EXTENDS MCWorkspace, CodeRoomProofs, MaintenanceProofs, ConsolidationProofs

\* What the store holds is the one decision that is open.
SlotIsOpen == \A d \in Questions : fate[d] = "open" <=> d = slot

ResolvesTheSlot ==
  handling.pc = "resolving" => slot # Nothing /\ handling.pending = slot

GateInv == ApprovalsTypeOK /\ SlotIsOpen /\ ResolvesTheSlot

LEMMA InitGateInv ==
  ASSUME ApprovalsInit
  PROVE  GateInv
BY QuestionsAssumption
DEF ApprovalsInit, Waiting, GateInv, ApprovalsTypeOK, SlotIsOpen, ResolvesTheSlot,
    QuestionsAssumption

\* A message that moves on keeps the decision it looked at.
LEMMA MoveFacts ==
  ASSUME GateInv, NEW pc \in {"routing", "preparing", "executing"}, To(pc)
  PROVE  /\ handling' \in
             [pc : {"waiting", "resolving", "routing", "preparing", "executing"},
              pending : Questions \cup {Nothing}, granted : BOOLEAN]
         /\ ResolvesTheSlot'
BY DEF GateInv, ApprovalsTypeOK, To, ResolvesTheSlot

\* The answer of the owner takes the decision out of the store and closes it.
LEMMA PopStep ==
  ASSUME GateInv, Revise \/ Supersede \/ Decline \/ ApprovePending
  PROVE  /\ GateInv'
         /\ handling.pending = slot /\ slot \in Questions
         /\ \E what \in Final : fate' = [fate EXCEPT ![slot] = what]
<1>. USE QuestionsAssumption DEF QuestionsAssumption, GateInv
<1>1. PICK what \in Final : Pop(what)
  BY DEF Revise, Supersede, Decline, ApprovePending, Final
<1>2. /\ handling.pending = slot /\ slot \in Questions /\ slot' = Nothing
      /\ fate' = [fate EXCEPT ![slot] = what]
      /\ UNCHANGED <<commands, losses>>
  BY <1>1 DEF Pop, ResolvesTheSlot, ApprovalsTypeOK
<1>3. /\ handling' \in
          [pc : {"waiting", "resolving", "routing", "preparing", "executing"},
           pending : Questions \cup {Nothing}, granted : BOOLEAN]
      /\ ResolvesTheSlot'
  <2>1. CASE Revise \/ Supersede
    BY <2>1, MoveFacts DEF Revise, Supersede
  <2>2. CASE Decline
    BY <2>2 DEF Decline, Waiting, ResolvesTheSlot
  <2>3. CASE ApprovePending
    <3>1. handling' = [handling EXCEPT !.pc = "executing", !.granted = TRUE]
      BY <2>3 DEF ApprovePending
    <3>. QED
      BY <3>1 DEF ApprovalsTypeOK, ResolvesTheSlot
  <2>. QED
    BY <2>1, <2>2, <2>3
<1>4. ApprovalsTypeOK'
  BY <1>2, <1>3 DEF ApprovalsTypeOK
<1>5. SlotIsOpen'
  BY <1>2 DEF ApprovalsTypeOK, SlotIsOpen, Final
<1>. QED
  BY <1>2, <1>3, <1>4, <1>5

\* A new question closes the one it replaces.
LEMMA AskStep ==
  ASSUME GateInv, Ask
  PROVE  /\ GateInv'
         /\ \A d \in Questions : fate[d] \in Final => fate'[d] = fate[d]
<1>. USE QuestionsAssumption DEF QuestionsAssumption, GateInv
<1>1. PICK d \in Questions :
        /\ fate[d] = "none"
        /\ fate' = [[x \in Questions |-> IF x = slot THEN "replaced" ELSE fate[x]]
                     EXCEPT ![d] = "open"]
        /\ slot' = d
  BY DEF Ask
<1>2. To("executing") /\ UNCHANGED <<commands, losses>>
  BY DEF Ask
<1>3. /\ fate' \in [Questions -> {"none", "open"} \cup Final]
      /\ fate'[d] = "open"
      /\ \A x \in Questions \ {d} :
           fate'[x] = IF x = slot THEN "replaced" ELSE fate[x]
  BY <1>1 DEF ApprovalsTypeOK, Final
<1>4. ApprovalsTypeOK' /\ ResolvesTheSlot'
  BY <1>1, <1>2, <1>3, MoveFacts DEF ApprovalsTypeOK
<1>5. SlotIsOpen'
  BY <1>1, <1>3 DEF SlotIsOpen
<1>6. \A x \in Questions : fate[x] \in Final => fate'[x] = fate[x]
  BY <1>1, <1>3 DEF SlotIsOpen, Final
<1>. QED
  BY <1>4, <1>5, <1>6

\* The steps that leave the store alone.
LEMMA QuietStep ==
  ASSUME GateInv,
         \/ Dispatch \/ PassBy \/ RunDirect \/ NeedsApproval \/ AskNothing \/ Send
         \/ Answered \/ UNCHANGED approvalVars
  PROVE  GateInv' /\ UNCHANGED fate
<1>. USE QuestionsAssumption DEF QuestionsAssumption, GateInv
<1>1. UNCHANGED <<slot, fate, losses>>
  BY DEF Dispatch, PassBy, RunDirect, NeedsApproval, AskNothing, Send, Answered,
     approvalVars, restOfGate
<1>2. commands' \in 0..MaxCommands
  BY DEF Dispatch, PassBy, RunDirect, NeedsApproval, AskNothing, Send, Answered,
     approvalVars, restOfGate, ApprovalsTypeOK
<1>3. /\ handling' \in
          [pc : {"waiting", "resolving", "routing", "preparing", "executing"},
           pending : Questions \cup {Nothing}, granted : BOOLEAN]
      /\ ResolvesTheSlot'
  <2>1. CASE Dispatch
    <3>1. CASE slot = Nothing
      BY <1>1, <2>1, <3>1 DEF Dispatch, ResolvesTheSlot
    <3>2. CASE slot # Nothing
      BY <1>1, <2>1, <3>2 DEF Dispatch, ResolvesTheSlot, ApprovalsTypeOK
    <3>. QED
      BY <3>1, <3>2
  <2>2. CASE PassBy \/ RunDirect \/ NeedsApproval \/ AskNothing \/ Send
    BY <2>2, MoveFacts DEF PassBy, RunDirect, NeedsApproval, AskNothing, Send
  <2>3. CASE Answered
    BY <2>3 DEF Answered, Waiting, ResolvesTheSlot
  <2>4. CASE UNCHANGED approvalVars
    BY <2>4 DEF approvalVars, ApprovalsTypeOK, ResolvesTheSlot
  <2>. QED
    BY <2>1, <2>2, <2>3, <2>4
<1>4. ApprovalsTypeOK' /\ SlotIsOpen'
  BY <1>1, <1>2, <1>3 DEF ApprovalsTypeOK, SlotIsOpen
<1>. QED
  BY <1>1, <1>3, <1>4

LEMMA LossStep ==
  ASSUME GateInv, LoseStore
  PROVE  /\ GateInv'
         /\ \A d \in Questions : fate[d] \in Final => fate'[d] = fate[d]
<1>. USE QuestionsAssumption DEF QuestionsAssumption, GateInv
<1>1. ApprovalsTypeOK'
  BY DEF LoseStore, ApprovalsTypeOK, Waiting, Final
<1>2. SlotIsOpen' /\ ResolvesTheSlot'
  BY DEF LoseStore, SlotIsOpen, ResolvesTheSlot, Waiting, ApprovalsTypeOK
<1>3. \A d \in Questions : fate[d] \in Final => fate'[d] = fate[d]
  BY DEF LoseStore, SlotIsOpen, Final
<1>. QED
  BY <1>1, <1>2, <1>3

LEMMA GateStep ==
  ASSUME GateInv, [ApprovalsNext]_approvalVars
  PROVE  /\ GateInv'
         /\ \A d \in Questions : fate[d] \in Final => fate'[d] = fate[d]
<1>1. CASE Revise \/ Supersede \/ Decline \/ ApprovePending
  <2>1. PICK what \in Final : fate' = [fate EXCEPT ![slot] = what]
    BY <1>1, PopStep
  <2>2. GateInv' /\ slot \in Questions /\ fate[slot] = "open"
    BY <1>1, PopStep DEF GateInv, SlotIsOpen
  <2>. QED
    BY <2>1, <2>2 DEF GateInv, ApprovalsTypeOK, Final
<1>. QED
  BY <1>1, AskStep, QuietStep, LossStep DEF ApprovalsNext

-----------------------------------------------------------------------------
(* What is proved. *)

\* The invariant behind the theorem below, through messages that pass the
\* decision by, commands that executing skills send and the loss of the store.
THEOREM GateInvariant == ApprovalsSpec => []GateInv
BY InitGateInv, GateStep, PTL DEF ApprovalsSpec

\* What became of a decision is final (invocation.py): a "yes" never carries out
\* a plan that was carried out, declined, changed, overtaken or lost before,
\* although it says nothing about which plan it means.
THEOREM FatesAreFinal == ApprovalsSpec => FateIsFinal
<1>1. GateInv /\ [ApprovalsNext]_approvalVars
        => [\A d \in Questions :
              fate[d] \in Final => fate'[d] = fate[d]]_approvalVars
  BY GateStep
<1>. QED
  BY <1>1, GateInvariant, PTL DEF ApprovalsSpec, FateIsFinal

-----------------------------------------------------------------------------
(* The four parts together. *)

\* The decisions, the one in the store and the message that is handled keep
\* their types.
THEOREM GateTypes == ApprovalsSpec => []ApprovalsTypeOK
<1>1. GateInv => ApprovalsTypeOK
  BY DEF GateInv
<1>. QED
  BY <1>1, GateInvariant, PTL

\* The composition adds bounds to its parts and nothing else: whatever it
\* does, each part does a step of its own or none.
THEOREM WorkspaceIsItsParts ==
  WorkspaceSpec =>
    RoomSpec /\ MaintenanceSpec /\ ApprovalsSpec /\ ConsolidationSpec
<1>1. WorkspaceInit =>
        RoomInit /\ MaintenanceInit /\ ApprovalsInit /\ ConsolidationInit
  BY DEF WorkspaceInit
<1>2. [WorkspaceNext]_WorkspaceVars => [RoomNext]_allVars
  BY DEF WorkspaceNext, WorkspaceVars
<1>3. [WorkspaceNext]_WorkspaceVars => [MaintenanceNext]_maintenanceVars
  BY DEF WorkspaceNext, WorkspaceVars
<1>4. [WorkspaceNext]_WorkspaceVars => [ApprovalsNext]_approvalVars
  BY DEF WorkspaceNext, WorkspaceVars
<1>5. [WorkspaceNext]_WorkspaceVars => [ConsolidationNext]_consolidationVars
  BY DEF WorkspaceNext, WorkspaceVars
<1>. QED
  BY <1>1, <1>2, <1>3, <1>4, <1>5, PTL
     DEF WorkspaceSpec, RoomSpec, MaintenanceSpec, ApprovalsSpec, ConsolidationSpec

\* Every variable of the four parts keeps its type.
THEOREM WorkspaceTypes == WorkspaceSpec => []WorkspaceTypeOK
<1>1. /\ TypeOK /\ RoomTypeOK
      /\ MaintenanceTypeOK /\ ApprovalsTypeOK /\ ConsolidationTypeOK
      => WorkspaceTypeOK
  BY DEF WorkspaceTypeOK
<1>. QED
  BY <1>1, WorkspaceIsItsParts, RoomTypes, MaintenanceTypes, GateTypes,
     ConsolidationTypes, PTL

=============================================================================
