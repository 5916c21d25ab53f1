----------------------- MODULE DaemonApprovalsProofs ------------------------
(***************************************************************************)
(* The approval gate for any number of signals, daemons and replies and    *)
(* any numbers of faults and overruns, proved with TLAPS: what the owner   *)
(* rejected never runs, a tool runs again only for a claim that was older  *)
(* than the timeout, and what is settled stays settled.                    *)
(*                                                                         *)
(* None of the three is inductive.  A rejected action must not have run    *)
(* before (Untried), so a pending one must not either; an action that is   *)
(* open again must have paid for its claim with an overrun (PaidClaims);   *)
(* and a signal in a batch must not have made its action yet (FreshBatch). *)
(***************************************************************************)
EXTENDS DaemonApprovals, FiniteSetTheorems, TLAPS

\* Where the daemon works on one action or signal.
Busy == {"notifying", "acking", "executing", "marking", "failing"}

BusyHasCurrent ==
  \A d \in Daemons : pc[d] \in Busy => current[d] \in Signals

\* A signal that was not read has no action and is in no batch.
UnreadIsNew ==
  \A s \in Signals : signal[s] \in {"unsent", "queued"} =>
    status[s] = "absent" /\ \A d \in Daemons : s \notin batch[d]

\* A signal in a batch is in that one only, and made no action yet.
FreshBatch ==
  \A d \in Daemons : \A s \in batch[d] :
    status[s] = "absent" /\ \A e \in Daemons : s \in batch[e] => e = d

OverdueIsClaimed == \A a \in overdue : status[a] = "executing"

FlowOK == BusyHasCurrent /\ UnreadIsNew /\ FreshBatch /\ OverdueIsClaimed

\* What the owner has not approved yet, or has rejected, no daemon ever tried.
Untried ==
  \A a \in Signals : status[a] \in {"absent", "pending", "rejected"} =>
    runs[a] = 0 /\ Holders(a) = {}

\* Runs done or about to be done.
Claims(a) == runs[a] + Cardinality(Holders(a))

\* An action that may be claimed, or that recovery may open again, has had no
\* more claims than overruns.
PaidClaims ==
  \A a \in Signals :
    /\ Claims(a) <= 1 + overruns[a]
    /\ status[a] \in {"absent", "pending", "approved"} \/ a \in overdue =>
         Claims(a) <= overruns[a]

IInv == TypeOK /\ FlowOK /\ Untried /\ PaidClaims

-----------------------------------------------------------------------------
(* Types and the flow of a signal. *)

\* Every step keeps the types.
LEMMA TypeStep ==
  ASSUME IInv, [Next]_vars
  PROVE  TypeOK'
<1>. USE ApprovalsAssumption DEF IInv, TypeOK, Status, Final, PC, storeVars, loopVars, countVars
<1>1. ASSUME NEW d \in Daemons, Launch(d)
      PROVE  TypeOK'
  BY <1>1 DEF Launch, At, Goto
<1>2. ASSUME NEW d \in Daemons, EnterLoop(d)
      PROVE  TypeOK'
  BY <1>2 DEF EnterLoop, At, Goto
<1>3. ASSUME NEW d \in Daemons, Stop(d)
      PROVE  TypeOK'
  BY <1>3 DEF Stop, At, Goto
<1>4. ASSUME NEW d \in Daemons, \E some \in SUBSET {s \in Signals : signal[s] = "queued"} : ReadSignals(d, some)
      PROVE  TypeOK'
  BY <1>4 DEF ReadSignals, At, Goto
<1>5. ASSUME NEW d \in Daemons, \E s \in Signals : HandleSignal(d, s)
      PROVE  TypeOK'
  BY <1>5 DEF HandleSignal, At, Goto
<1>6. ASSUME NEW d \in Daemons, \E s \in Signals : CreateAction(d, s)
      PROVE  TypeOK'
  BY <1>6 DEF CreateAction, At, Goto
<1>7. ASSUME NEW d \in Daemons, \E reached \in BOOLEAN : Notify(d, reached)
      PROVE  TypeOK'
  BY <1>7 DEF Notify, At, Goto, FlowOK, BusyHasCurrent, Busy
<1>8. ASSUME NEW d \in Daemons, Ack(d)
      PROVE  TypeOK'
  BY <1>8 DEF Ack, At, Goto
<1>9. ASSUME NEW d \in Daemons, RecoverStuck(d)
      PROVE  TypeOK'
  BY <1>9 DEF RecoverStuck, Stuck, At, Goto
<1>10. ASSUME NEW d \in Daemons, SkipRecovery(d)
      PROVE  TypeOK'
  BY <1>10 DEF SkipRecovery, At, Goto
<1>11. ASSUME NEW d \in Daemons, FetchApproved(d)
      PROVE  TypeOK'
  BY <1>11 DEF FetchApproved, OldestApproved, At, Goto
<1>12. ASSUME NEW d \in Daemons, \E a \in Signals : Claim(d, a)
      PROVE  TypeOK'
  BY <1>12 DEF Claim, TakeFetched, ClaimRow, At, Goto
<1>13. ASSUME NEW d \in Daemons, \E a \in Signals : SkipClaimed(d, a)
      PROVE  TypeOK'
  BY <1>13 DEF SkipClaimed, TakeFetched, At, Goto
<1>14. ASSUME NEW d \in Daemons, \E success \in BOOLEAN : Execute(d, success)
      PROVE  TypeOK'
  BY <1>14 DEF Execute, At, Goto, FlowOK, BusyHasCurrent, Busy
<1>15. ASSUME NEW d \in Daemons, MarkExecuted(d)
      PROVE  TypeOK'
  <2>1. status' \in [Signals -> Status] /\ overdue' \subseteq Signals
    <3>1. CASE ok[d]
      BY <1>15, <3>1 DEF MarkExecuted, Settle
    <3>2. CASE ~ok[d]
      BY <1>15, <3>2 DEF MarkExecuted, Settle
    <3>. QED
      BY <3>1, <3>2
  <2>2. /\ pc' \in [Daemons -> PC]
        /\ current' \in [Daemons -> Signals \cup {None}]
    BY <1>15 DEF MarkExecuted, Goto
  <2>. QED
    BY <1>15, <2>1, <2>2 DEF MarkExecuted
<1>16. ASSUME NEW d \in Daemons, MarkFailed(d)
      PROVE  TypeOK'
  BY <1>16 DEF MarkFailed, Settle, At, Goto
<1>17. ASSUME NEW d \in Daemons, EndIteration(d)
      PROVE  TypeOK'
  BY <1>17 DEF EndIteration, At, Goto
<1>18. ASSUME NEW d \in Daemons, AckRaises(d)
      PROVE  TypeOK'
  BY <1>18 DEF AckRaises, Fault, At, Goto
<1>19. ASSUME NEW d \in Daemons, FetchRaises(d)
      PROVE  TypeOK'
  BY <1>19 DEF FetchRaises, Fault, At, Goto
<1>20. ASSUME NEW d \in Daemons, \E a \in Signals : ClaimRaises(d, a)
      PROVE  TypeOK'
  BY <1>20 DEF ClaimRaises, TakeFetched, ClaimRow, Fault, At, Goto
<1>21. ASSUME NEW d \in Daemons, MarkRaises(d)
      PROVE  TypeOK'
  BY <1>21 DEF MarkRaises, Settle, Fault, At, Goto
<1>22. ASSUME NEW d \in Daemons, MarkFailedRaises(d)
      PROVE  TypeOK'
  BY <1>22 DEF MarkFailedRaises, Fault, At, Goto
<1>23. ASSUME NEW d \in Daemons, Crash(d)
      PROVE  TypeOK'
  BY <1>23 DEF Crash, Fault, At, Goto
<1>24. ASSUME \E s \in Signals : Push(s)
      PROVE  TypeOK'
  BY <1>24 DEF Push
<1>25. ASSUME \E s \in Signals : Overrun(s)
      PROVE  TypeOK'
  BY <1>25 DEF Overrun
<1>26. ASSUME \E r \in Replies, a \in Signals : BeginReply(r, a)
      PROVE  TypeOK'
  BY <1>26 DEF BeginReply
<1>27. ASSUME \E r \in Replies, s \in {"approved", "rejected"} : ApplyIntent(r, s)
      PROVE  TypeOK'
  BY <1>27 DEF ApplyIntent, Resolve
<1>28. ASSUME \E r \in Replies : DropReply(r)
      PROVE  TypeOK'
  BY <1>28 DEF DropReply
<1>29. ASSUME UNCHANGED vars
      PROVE  TypeOK'
  BY <1>29 DEF vars
<1>. QED
  BY <1>1, <1>2, <1>3, <1>4, <1>5, <1>6, <1>7, <1>8, <1>9, <1>10, <1>11, <1>12, <1>13, <1>14, <1>15, <1>16, <1>17, <1>18, <1>19, <1>20, <1>21, <1>22, <1>23, <1>24, <1>25, <1>26, <1>27, <1>28, <1>29 DEF Next, LoopStep, FaultStep

\* Every step keeps what is known of signals on their way to an action.
LEMMA FlowStep ==
  ASSUME IInv, [Next]_vars
  PROVE  FlowOK'
<1>. USE ApprovalsAssumption DEF IInv, TypeOK, Status, Final, PC, FlowOK, BusyHasCurrent, UnreadIsNew,
  FreshBatch, OverdueIsClaimed, Busy, storeVars, loopVars, countVars
<1>1. ASSUME NEW d \in Daemons, Launch(d)
      PROVE  FlowOK'
  BY <1>1 DEF Launch, At, Goto
<1>2. ASSUME NEW d \in Daemons, EnterLoop(d)
      PROVE  FlowOK'
  BY <1>2 DEF EnterLoop, At, Goto
<1>3. ASSUME NEW d \in Daemons, Stop(d)
      PROVE  FlowOK'
  BY <1>3 DEF Stop, At, Goto
<1>4. ASSUME NEW d \in Daemons, \E some \in SUBSET {s \in Signals : signal[s] = "queued"} : ReadSignals(d, some)
      PROVE  FlowOK'
  BY <1>4 DEF ReadSignals, At, Goto
<1>5. ASSUME NEW d \in Daemons, \E s \in Signals : HandleSignal(d, s)
      PROVE  FlowOK'
  BY <1>5 DEF HandleSignal, At, Goto
<1>6. ASSUME NEW d \in Daemons, \E s \in Signals : CreateAction(d, s)
      PROVE  FlowOK'
  BY <1>6 DEF CreateAction, At, Goto
<1>7. ASSUME NEW d \in Daemons, \E reached \in BOOLEAN : Notify(d, reached)
      PROVE  FlowOK'
  BY <1>7 DEF Notify, At, Goto
<1>8. ASSUME NEW d \in Daemons, Ack(d)
      PROVE  FlowOK'
  BY <1>8 DEF Ack, At, Goto
<1>9. ASSUME NEW d \in Daemons, RecoverStuck(d)
      PROVE  FlowOK'
  BY <1>9 DEF RecoverStuck, Stuck, At, Goto
<1>10. ASSUME NEW d \in Daemons, SkipRecovery(d)
      PROVE  FlowOK'
  BY <1>10 DEF SkipRecovery, At, Goto
<1>11. ASSUME NEW d \in Daemons, FetchApproved(d)
      PROVE  FlowOK'
  BY <1>11 DEF FetchApproved, OldestApproved, At, Goto
<1>12. ASSUME NEW d \in Daemons, \E a \in Signals : Claim(d, a)
      PROVE  FlowOK'
  BY <1>12 DEF Claim, TakeFetched, ClaimRow, At, Goto
<1>13. ASSUME NEW d \in Daemons, \E a \in Signals : SkipClaimed(d, a)
      PROVE  FlowOK'
  BY <1>13 DEF SkipClaimed, TakeFetched, At, Goto
<1>14. ASSUME NEW d \in Daemons, \E success \in BOOLEAN : Execute(d, success)
      PROVE  FlowOK'
  BY <1>14 DEF Execute, At, Goto
<1>15. ASSUME NEW d \in Daemons, MarkExecuted(d)
      PROVE  FlowOK'
  BY <1>15 DEF MarkExecuted, Settle, At, Goto
<1>16. ASSUME NEW d \in Daemons, MarkFailed(d)
      PROVE  FlowOK'
  BY <1>16 DEF MarkFailed, Settle, At, Goto
<1>17. ASSUME NEW d \in Daemons, EndIteration(d)
      PROVE  FlowOK'
  BY <1>17 DEF EndIteration, At, Goto
<1>18. ASSUME NEW d \in Daemons, AckRaises(d)
      PROVE  FlowOK'
  BY <1>18 DEF AckRaises, Fault, At, Goto
<1>19. ASSUME NEW d \in Daemons, FetchRaises(d)
      PROVE  FlowOK'
  BY <1>19 DEF FetchRaises, Fault, At, Goto
<1>20. ASSUME NEW d \in Daemons, \E a \in Signals : ClaimRaises(d, a)
      PROVE  FlowOK'
  BY <1>20 DEF ClaimRaises, TakeFetched, ClaimRow, Fault, At, Goto
<1>21. ASSUME NEW d \in Daemons, MarkRaises(d)
      PROVE  FlowOK'
  BY <1>21 DEF MarkRaises, Settle, Fault, At, Goto
<1>22. ASSUME NEW d \in Daemons, MarkFailedRaises(d)
      PROVE  FlowOK'
  BY <1>22 DEF MarkFailedRaises, Fault, At, Goto
<1>23. ASSUME NEW d \in Daemons, Crash(d)
      PROVE  FlowOK'
  BY <1>23 DEF Crash, Fault, At, Goto
<1>24. ASSUME \E s \in Signals : Push(s)
      PROVE  FlowOK'
  BY <1>24 DEF Push
<1>25. ASSUME \E s \in Signals : Overrun(s)
      PROVE  FlowOK'
  BY <1>25 DEF Overrun
<1>26. ASSUME \E r \in Replies, a \in Signals : BeginReply(r, a)
      PROVE  FlowOK'
  BY <1>26 DEF BeginReply
<1>27. ASSUME \E r \in Replies, s \in {"approved", "rejected"} : ApplyIntent(r, s)
      PROVE  FlowOK'
  BY <1>27 DEF ApplyIntent, Resolve
<1>28. ASSUME \E r \in Replies : DropReply(r)
      PROVE  FlowOK'
  BY <1>28 DEF DropReply
<1>29. ASSUME UNCHANGED vars
      PROVE  FlowOK'
  BY <1>29 DEF vars
<1>. QED
  BY <1>1, <1>2, <1>3, <1>4, <1>5, <1>6, <1>7, <1>8, <1>9, <1>10, <1>11, <1>12, <1>13, <1>14, <1>15, <1>16, <1>17, <1>18, <1>19, <1>20, <1>21, <1>22, <1>23, <1>24, <1>25, <1>26, <1>27, <1>28, <1>29 DEF Next, LoopStep, FaultStep

-----------------------------------------------------------------------------
(* Counting the daemons that hold an action. *)

\* Daemons are finitely many, and so are those that hold an action.
LEMMA HoldersCount ==
  ASSUME NEW S \in SUBSET Daemons
  PROVE  IsFiniteSet(S) /\ Cardinality(S) \in Nat
BY ApprovalsAssumption, FS_Subset, FS_CardinalityType DEF ApprovalsAssumption

\* A step of one daemon changes the holders by that daemon at most.
LEMMA OthersHold ==
  ASSUME NEW d \in Daemons, NEW a \in Signals,
         \A e \in Daemons \ {d} : pc'[e] = pc[e] /\ current'[e] = current[e]
  PROVE  Holders(a)' \ {d} = Holders(a) \ {d}
BY DEF Holders

\* What a step leaves alone that starts no tool and ends none.
SameClaims ==
  /\ UNCHANGED <<runs, overruns>>
  /\ \A a \in Signals : Holders(a)' = Holders(a)

\* A daemon that is not at a tool before or after its step holds no more and
\* no fewer actions than before.
LEMMA CalmDaemon ==
  ASSUME NEW d \in Daemons, UNCHANGED <<runs, overruns>>,
         pc[d] # "executing", pc'[d] # "executing",
         \A e \in Daemons \ {d} : pc'[e] = pc[e] /\ current'[e] = current[e]
  PROVE  SameClaims
<1>. SUFFICES ASSUME NEW a \in Signals
              PROVE  Holders(a)' = Holders(a)
  BY DEF SameClaims
<1>1. d \notin Holders(a) /\ d \notin Holders(a)'
  BY DEF Holders
<1>. QED
  BY <1>1, OthersHold

\* The steps around the tool leave the counts alone.
LEMMA CalmStep ==
  ASSUME IInv, NEW d \in Daemons, LoopStep(d) \/ FaultStep(d),
         ~\E a \in Signals : Claim(d, a),
         ~\E success \in BOOLEAN : Execute(d, success),
         ~Crash(d)
  PROVE  SameClaims
<1>. USE DEF IInv, TypeOK, PC, storeVars, loopVars, countVars
<1> DEFINE Calm ==
         /\ UNCHANGED <<runs, overruns>>
         /\ pc[d] # "executing" /\ pc'[d] # "executing"
         /\ \A e \in Daemons \ {d} : pc'[e] = pc[e] /\ current'[e] = current[e]
<1>1. CASE Launch(d)
  <2>. Calm
    BY <1>1 DEF Launch, At, Goto
  <2>. QED
    BY CalmDaemon
<1>2. CASE EnterLoop(d)
  <2>. Calm
    BY <1>2 DEF EnterLoop, At, Goto
  <2>. QED
    BY CalmDaemon
<1>3. CASE \E some \in SUBSET {s \in Signals : signal[s] = "queued"} : ReadSignals(d, some)
  <2>. Calm
    BY <1>3 DEF ReadSignals, At, Goto
  <2>. QED
    BY CalmDaemon
<1>4. CASE \E s \in Signals : HandleSignal(d, s)
  <2>. Calm
    BY <1>4 DEF HandleSignal, At, Goto
  <2>. QED
    BY CalmDaemon
<1>5. CASE \E s \in Signals : CreateAction(d, s)
  <2>. Calm
    BY <1>5 DEF CreateAction, At, Goto
  <2>. QED
    BY CalmDaemon
<1>6. CASE \E reached \in BOOLEAN : Notify(d, reached)
  <2>. Calm
    BY <1>6 DEF Notify, At, Goto
  <2>. QED
    BY CalmDaemon
<1>7. CASE Ack(d)
  <2>. Calm
    BY <1>7 DEF Ack, At, Goto
  <2>. QED
    BY CalmDaemon
<1>8. CASE RecoverStuck(d)
  <2>. Calm
    BY <1>8 DEF RecoverStuck, At, Goto
  <2>. QED
    BY CalmDaemon
<1>9. CASE SkipRecovery(d)
  <2>. Calm
    BY <1>9 DEF SkipRecovery, At, Goto
  <2>. QED
    BY CalmDaemon
<1>10. CASE FetchApproved(d)
  <2>. Calm
    BY <1>10 DEF FetchApproved, At, Goto
  <2>. QED
    BY CalmDaemon
<1>11. CASE \E a \in Signals : SkipClaimed(d, a)
  <2>. Calm
    BY <1>11 DEF SkipClaimed, TakeFetched, At, Goto
  <2>. QED
    BY CalmDaemon
<1>12. CASE MarkExecuted(d)
  <2>. Calm
    BY <1>12 DEF MarkExecuted, At, Goto
  <2>. QED
    BY CalmDaemon
<1>13. CASE MarkFailed(d)
  <2>. Calm
    BY <1>13 DEF MarkFailed, At, Goto
  <2>. QED
    BY CalmDaemon
<1>14. CASE EndIteration(d)
  <2>. Calm
    BY <1>14 DEF EndIteration, At, Goto
  <2>. QED
    BY CalmDaemon
<1>15. CASE AckRaises(d)
  <2>. Calm
    BY <1>15 DEF AckRaises, At, Goto
  <2>. QED
    BY CalmDaemon
<1>16. CASE FetchRaises(d)
  <2>. Calm
    BY <1>16 DEF FetchRaises, At, Goto
  <2>. QED
    BY CalmDaemon
<1>17. CASE \E a \in Signals : ClaimRaises(d, a)
  <2>. Calm
    BY <1>17 DEF ClaimRaises, TakeFetched, At, Goto
  <2>. QED
    BY CalmDaemon
<1>18. CASE MarkRaises(d)
  <2>. Calm
    BY <1>18 DEF MarkRaises, At, Goto
  <2>. QED
    BY CalmDaemon
<1>19. CASE MarkFailedRaises(d)
  <2>. Calm
    BY <1>19 DEF MarkFailedRaises, At, Goto
  <2>. QED
    BY CalmDaemon
<1>. QED
  BY <1>1, <1>2, <1>3, <1>4, <1>5, <1>6, <1>7, <1>8, <1>9, <1>10, <1>11, <1>12, <1>13, <1>14, <1>15, <1>16, <1>17, <1>18, <1>19 DEF LoopStep, FaultStep

\* An action that may be claimed now or after a recovery.
Open(a) == status[a] \in {"absent", "pending", "approved"} \/ a \in overdue

\* No action becomes untried or open again by a step that moves rows only.
MovesForward ==
  \A a \in Signals :
    /\ status'[a] \in {"absent", "pending", "rejected"} =>
         status[a] \in {"absent", "pending", "rejected"}
    /\ Open(a)' => Open(a)

\* Such a step that leaves the counts alone keeps what is known of them.
LEMMA ForwardKeepsCounts ==
  ASSUME IInv, SameClaims, MovesForward
  PROVE  Untried' /\ PaidClaims'
<1>1. \A a \in Signals : Claims(a)' = Claims(a)
  BY DEF SameClaims, Claims
<1>2. Untried'
  BY DEF IInv, Untried, SameClaims, MovesForward
<1>3. PaidClaims'
  BY <1>1 DEF IInv, PaidClaims, SameClaims, MovesForward, Open
<1>. QED
  BY <1>2, <1>3

\* The steps around the tool reopen nothing: recovery only returns to approved
\* what is overdue, and a claim is never overdue at first.
LEMMA CalmStepMovesForward ==
  ASSUME IInv, NEW d \in Daemons, LoopStep(d) \/ FaultStep(d),
         ~\E a \in Signals : Claim(d, a),
         ~\E success \in BOOLEAN : Execute(d, success),
         ~Crash(d)
  PROVE  MovesForward
<1>. USE DEF IInv, TypeOK, Status, Final, FlowOK, FreshBatch, OverdueIsClaimed,
             MovesForward, Open, storeVars, loopVars, countVars
<1>1. CASE \E s \in Signals : CreateAction(d, s)
  BY <1>1 DEF CreateAction
<1>2. CASE RecoverStuck(d)
  BY <1>2 DEF RecoverStuck, Stuck
<1>3. CASE MarkExecuted(d)
  BY <1>3 DEF MarkExecuted, Settle
<1>4. CASE MarkFailed(d)
  BY <1>4 DEF MarkFailed, Settle
<1>5. CASE \E a \in Signals : ClaimRaises(d, a)
  BY <1>5 DEF ClaimRaises, ClaimRow
<1>6. CASE MarkRaises(d)
  BY <1>6 DEF MarkRaises, Settle
<1>7. CASE UNCHANGED <<status, overdue>>
  BY <1>7
<1>. QED
  BY <1>1, <1>2, <1>3, <1>4, <1>5, <1>6, <1>7
     DEF LoopStep, FaultStep, Launch, EnterLoop, ReadSignals, HandleSignal, Notify, Ack, SkipRecovery,
           FetchApproved, SkipClaimed, EndIteration, AckRaises, FetchRaises,
           MarkFailedRaises

-----------------------------------------------------------------------------
(* The steps that start a tool, end it or forget it. *)

\* A claim adds one daemon to the holders of an approved action, which has an
\* overrun to spare for it.
LEMMA ClaimCounts ==
  ASSUME IInv, NEW d \in Daemons, NEW a \in Signals, Claim(d, a)
  PROVE  Untried' /\ PaidClaims'
<1>. USE DEF IInv, TypeOK, FlowOK, OverdueIsClaimed, Open, storeVars, countVars
<1>1. /\ UNCHANGED <<runs, overruns, overdue>>
      /\ status[a] = "approved" /\ status' = [status EXCEPT ![a] = "executing"]
      /\ pc[d] = "claiming" /\ pc' = [pc EXCEPT ![d] = "executing"]
      /\ current' = [current EXCEPT ![d] = a]
  BY DEF Claim, TakeFetched, ClaimRow, At, Goto
<1>2. \A x \in Signals \ {a} : Holders(x)' = Holders(x)
  BY <1>1 DEF Holders
<1>3. Holders(a)' = Holders(a) \cup {d} /\ d \notin Holders(a)
  BY <1>1 DEF Holders
<1>4. Cardinality(Holders(a)') = Cardinality(Holders(a)) + 1
  <2>1. Holders(a) \in SUBSET Daemons
    BY DEF Holders
  <2>2. IsFiniteSet(Holders(a))
    BY <2>1, HoldersCount
  <2>3. Cardinality(Holders(a) \cup {d}) = Cardinality(Holders(a)) + 1
    BY <1>3, <2>2, FS_AddElement
  <2>. QED
    BY <1>3, <2>3
<1>5. Claims(a)' = Claims(a) + 1 /\ Claims(a) \in Nat
  <2>1. Holders(a) \in SUBSET Daemons
    BY DEF Holders
  <2>2. Cardinality(Holders(a)) \in Nat /\ runs[a] \in Nat
    BY <2>1, HoldersCount
  <2>. QED
    BY <1>1, <1>4, <2>2 DEF Claims
<1>6. \A x \in Signals \ {a} : Claims(x)' = Claims(x)
  BY <1>1, <1>2 DEF Claims
<1>7. Untried'
  BY <1>1, <1>2 DEF Untried
<1>8. PaidClaims'
  <2>. SUFFICES ASSUME NEW x \in Signals
                PROVE  /\ Claims(x)' <= 1 + overruns'[x]
                       /\ Open(x)' => Claims(x)' <= overruns'[x]
    BY DEF PaidClaims
  <2>1. CASE x = a
    BY <1>1, <1>5, <2>1 DEF PaidClaims
  <2>2. CASE x # a
    BY <1>1, <1>6, <2>2 DEF PaidClaims
  <2>. QED
    BY <2>1, <2>2
<1>. QED
  BY <1>7, <1>8

\* A tool that ran is one run more and one holder less.
LEMMA ExecuteCounts ==
  ASSUME IInv, NEW d \in Daemons, NEW success \in BOOLEAN, Execute(d, success)
  PROVE  Untried' /\ PaidClaims'
<1>. USE DEF IInv, TypeOK, FlowOK, BusyHasCurrent, Busy, storeVars
<1>0. PICK a \in Signals : a = current[d]
  BY DEF Execute, At
<1>1. /\ UNCHANGED <<status, overdue, overruns, current>>
      /\ runs' = [runs EXCEPT ![a] = @ + 1]
      /\ pc[d] = "executing" /\ pc' = [pc EXCEPT ![d] = "marking"]
  BY <1>0 DEF Execute, At, Goto
<1>2. \A x \in Signals \ {a} : Holders(x)' = Holders(x)
  BY <1>0, <1>1 DEF Holders
<1>3. Holders(a)' = Holders(a) \ {d} /\ d \in Holders(a)
  BY <1>0, <1>1 DEF Holders
<1>4. Cardinality(Holders(a)') = Cardinality(Holders(a)) - 1
  <2>1. Holders(a) \in SUBSET Daemons
    BY DEF Holders
  <2>2. IsFiniteSet(Holders(a))
    BY <2>1, HoldersCount
  <2>3. Cardinality(Holders(a) \ {d}) = Cardinality(Holders(a)) - 1
    BY <1>3, <2>2, FS_RemoveElement
  <2>. QED
    BY <1>3, <2>3
<1>5. Claims(a)' = Claims(a)
  <2>1. Holders(a) \in SUBSET Daemons
    BY DEF Holders
  <2>2. Cardinality(Holders(a)) \in Nat /\ runs[a] \in Nat
    BY <2>1, HoldersCount
  <2>3. runs'[a] = runs[a] + 1
    BY <1>1
  <2>. QED
    BY <1>4, <2>2, <2>3 DEF Claims
<1>6. \A x \in Signals : Claims(x)' = Claims(x)
  BY <1>1, <1>2, <1>5 DEF Claims
<1>7. status[a] \notin {"absent", "pending", "rejected"}
  BY <1>1, <1>3 DEF Untried
<1>8. Untried'
  BY <1>1, <1>2, <1>7 DEF Untried
<1>9. PaidClaims'
  BY <1>1, <1>6 DEF PaidClaims
<1>. QED
  BY <1>8, <1>9

\* A crash only loses a holder.
LEMMA CrashCounts ==
  ASSUME IInv, NEW d \in Daemons, Crash(d)
  PROVE  Untried' /\ PaidClaims'
<1>. USE DEF IInv, TypeOK, storeVars
<1>1. /\ UNCHANGED <<status, overdue, overruns, runs>>
      /\ pc' = [pc EXCEPT ![d] = "down"]
      /\ current' = [current EXCEPT ![d] = None]
  BY DEF Crash, At, Goto
<1>2. \A x \in Signals : Holders(x)' \subseteq Holders(x)
  BY <1>1 DEF Holders
<1>3. \A x \in Signals : Claims(x)' <= Claims(x) /\ Claims(x)' \in Nat /\ Claims(x) \in Nat
  <2>. SUFFICES ASSUME NEW x \in Signals
                PROVE  Claims(x)' <= Claims(x) /\ Claims(x)' \in Nat /\ Claims(x) \in Nat
    OBVIOUS
  <2>1. Holders(x) \in SUBSET Daemons /\ Holders(x)' \in SUBSET Holders(x)
    BY <1>2 DEF Holders
  <2>2. /\ Cardinality(Holders(x)') <= Cardinality(Holders(x))
        /\ Cardinality(Holders(x)') \in Nat /\ Cardinality(Holders(x)) \in Nat
    BY <2>1, HoldersCount, FS_Subset
  <2>. QED
    BY <1>1, <2>2 DEF Claims
<1>4. Untried'
  BY <1>1, <1>2 DEF Untried
<1>5. PaidClaims'
  BY <1>1, <1>3 DEF PaidClaims
<1>. QED
  BY <1>4, <1>5

\* An overrun pays for the claim it is about.
LEMMA OverrunCounts ==
  ASSUME IInv, NEW a \in Signals, Overrun(a)
  PROVE  Untried' /\ PaidClaims'
<1>. USE DEF IInv, TypeOK, loopVars
<1>1. /\ UNCHANGED <<status, runs, pc, current>>
      /\ status[a] = "executing" /\ a \notin overdue
      /\ overdue' = overdue \cup {a}
      /\ overruns' = [overruns EXCEPT ![a] = @ + 1]
  BY DEF Overrun
<1>2. \A x \in Signals : Holders(x)' = Holders(x)
  BY <1>1 DEF Holders
<1>3. \A x \in Signals : Claims(x)' = Claims(x) /\ Claims(x) \in Nat
  <2>. SUFFICES ASSUME NEW x \in Signals
                PROVE  Claims(x)' = Claims(x) /\ Claims(x) \in Nat
    OBVIOUS
  <2>1. Holders(x) \in SUBSET Daemons
    BY DEF Holders
  <2>2. Cardinality(Holders(x)) \in Nat /\ runs[x] \in Nat
    BY <2>1, HoldersCount
  <2>. QED
    BY <1>1, <1>2, <2>2 DEF Claims
<1>4. Untried'
  BY <1>1, <1>2 DEF Untried
<1>5. PaidClaims'
  BY <1>1, <1>3 DEF PaidClaims
<1>. QED
  BY <1>4, <1>5

-----------------------------------------------------------------------------
(* The theorems. *)

\* The steps of producers, of the owner's replies and of stop() move a row
\* from pending only.
LEMMA OutsideStep ==
  ASSUME IInv,
         \/ \E d \in Daemons : Stop(d)
         \/ \E s \in Signals : Push(s)
         \/ \E r \in Replies, a \in Signals : BeginReply(r, a)
         \/ \E r \in Replies, s \in {"approved", "rejected"} : ApplyIntent(r, s)
         \/ \E r \in Replies : DropReply(r)
         \/ UNCHANGED vars
  PROVE  Untried' /\ PaidClaims'
<1>1. UNCHANGED <<pc, current, runs, overruns, overdue>>
  BY DEF Stop, Push, BeginReply, ApplyIntent, DropReply, vars, storeVars, loopVars,
         countVars
<1>2. SameClaims
  BY <1>1 DEF SameClaims, Holders
<1>3. UNCHANGED status
        \/ \E a \in Signals, s \in {"approved", "rejected"} : Resolve(a, s)
  BY DEF Stop, Push, BeginReply, ApplyIntent, DropReply, vars, storeVars, IInv, TypeOK
<1>4. MovesForward
  BY <1>1, <1>3 DEF MovesForward, Open, Resolve, IInv, TypeOK
<1>. QED
  BY <1>2, <1>4, ForwardKeepsCounts

\* IInv is inductive.
THEOREM ApprovalsInvariant == Spec => []IInv
<1>1. Init => IInv
  <2>. SUFFICES ASSUME Init
                PROVE  IInv
    OBVIOUS
  <2>1. TypeOK
    BY ApprovalsAssumption
       DEF Init, TypeOK, Status, Final, PC, ApprovalsAssumption
  <2>2. FlowOK
    BY DEF Init, FlowOK, BusyHasCurrent, UnreadIsNew, FreshBatch,
           OverdueIsClaimed, Busy
  <2>3. \A a \in Signals : Holders(a) = {}
    BY DEF Init, Holders
  <2>4. Untried
    BY <2>3 DEF Init, Untried
  <2>5. \A a \in Signals : Claims(a) = 0 /\ overruns[a] = 0
    <3>1. Cardinality({}) = 0
      BY FS_EmptySet
    <3>2. \A a \in Signals : runs[a] = 0 /\ overruns[a] = 0
      BY DEF Init
    <3>3. \A a \in Signals : Cardinality(Holders(a)) = 0
      BY <2>3, <3>1
    <3>. QED
      BY <3>2, <3>3 DEF Claims
  <2>6. PaidClaims
    BY <2>5 DEF PaidClaims
  <2>. QED
    BY <2>1, <2>2, <2>4, <2>6 DEF IInv
<1>2. IInv /\ [Next]_vars => IInv'
  <2>. SUFFICES ASSUME IInv, [Next]_vars
                PROVE  Untried' /\ PaidClaims'
    BY TypeStep, FlowStep DEF IInv
  <2>1. ASSUME NEW d \in Daemons, LoopStep(d) \/ FaultStep(d)
        PROVE  Untried' /\ PaidClaims'
    BY <2>1, ClaimCounts, ExecuteCounts, CrashCounts, CalmStep,
       CalmStepMovesForward, ForwardKeepsCounts
  <2>2. CASE \E s \in Signals : Overrun(s)
    BY <2>2, OverrunCounts
  <2>. QED
    BY <2>1, <2>2, OutsideStep DEF Next
<1>. QED
  BY <1>1, <1>2, PTL DEF Spec

\* The store, the loops and the replies stay within their types.
THEOREM ApprovalsTypes == Spec => []TypeOK
<1>1. IInv => TypeOK
  BY DEF IInv
<1>. QED
  BY <1>1, ApprovalsInvariant, PTL

\* The owner's no is final for the tools as well: an action the owner rejected
\* never ran and no daemon holds it, however replies and claims interleave.
THEOREM RejectedIsSafe == Spec => []RejectedNeverRuns
<1>1. IInv => RejectedNeverRuns
  BY DEF IInv, Untried, RejectedNeverRuns
<1>. QED
  BY <1>1, ApprovalsInvariant, PTL

\* A tool runs again only for a claim older than the timeout, with any number
\* of daemons on the database and crashes among them.
THEOREM RepeatsArePaid == Spec => []RepeatsNeedOverrun
<1>1. IInv => RepeatsNeedOverrun
  BY DEF IInv, PaidClaims, Claims, RepeatsNeedOverrun
<1>. QED
  BY <1>1, ApprovalsInvariant, PTL

\* No reply, claimant or recovery rewrites a settled action.
THEOREM SettledStays == Spec => SettledIsFinal
<1>1. IInv /\ [Next]_vars
        => [\A a \in Signals : status[a] \in Final => status'[a] = status[a]]_vars
  <2>. SUFFICES ASSUME IInv, [Next]_vars, NEW a \in Signals, status[a] \in Final
                PROVE  status'[a] = status[a]
    OBVIOUS
  <2>. USE DEF IInv, TypeOK, Final, FlowOK, FreshBatch
  <2>1. CASE UNCHANGED status
    BY <2>1
  <2>2. CASE \E d \in Daemons, s \in Signals : CreateAction(d, s)
    BY <2>2 DEF CreateAction
  <2>3. CASE \E d \in Daemons : RecoverStuck(d)
    BY <2>3 DEF RecoverStuck, Stuck
  <2>4. CASE \E d \in Daemons, x \in Signals : Claim(d, x) \/ ClaimRaises(d, x)
    BY <2>4 DEF Claim, ClaimRaises, ClaimRow
  <2>5. CASE \E d \in Daemons : MarkExecuted(d) \/ MarkFailed(d) \/ MarkRaises(d)
    BY <2>5 DEF MarkExecuted, MarkFailed, MarkRaises, Settle
  <2>6. CASE \E r \in Replies, s \in {"approved", "rejected"} : ApplyIntent(r, s)
    BY <2>6 DEF ApplyIntent, Resolve
  <2>. QED
    BY <2>1, <2>2, <2>3, <2>4, <2>5, <2>6
       DEF Next, LoopStep, FaultStep, vars, storeVars, Stop, Push, Overrun,
           BeginReply, DropReply, Launch, EnterLoop, ReadSignals, HandleSignal,
           Notify, Ack, SkipRecovery, FetchApproved, SkipClaimed, Execute,
           EndIteration, AckRaises, FetchRaises, MarkFailedRaises, Crash
<1>. QED
  BY <1>1, ApprovalsInvariant, PTL DEF Spec, SettledIsFinal
=============================================================================
