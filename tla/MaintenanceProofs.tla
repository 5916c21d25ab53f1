------------------------- MODULE MaintenanceProofs -------------------------
(***************************************************************************)
(* The maintenance windows for any number of mornings and crashes, any     *)
(* length of the clock and any values of the four intervals, proved with   *)
(* TLAPS.                                                                  *)
(*                                                                         *)
(* OneConsolidation is not inductive: once the lock is gone, the next      *)
(* morning consolidates and no overrun is counted.  LockIsCounted says why *)
(* that is right: a lock that is gone although somebody consolidates was   *)
(* removed by a consolidation that had been overrun before.                *)
(* RunIsRecorded says that the state file is never behind the decision,    *)
(* whichever of the later writes failed, and MarkerIsKept that a marker    *)
(* stays as long as its own morning, whoever else ends.                    *)
(***************************************************************************)
EXTENDS Maintenance, FiniteSetTheorems, TLAPS

NotBegun == {m \in Mornings : session[m] \in {"none", "opening"}}

\* Every overrun had a morning of its own, and there are no more mornings.
OverrunsAreMornings == overruns + Cardinality(NotBegun) <= LastMorning

LockIsCounted ==
  Cardinality(Consolidating) <= IF lock.at = Never THEN overruns ELSE overruns + 1

\* The marker of an open morning says when it began.
MarkerIsKept ==
  \A m \in Mornings :
    /\ session[m] \in Open => marker[m] = marked[m]
    /\ session[m] = "none" => marked[m] = Never /\ marker[m] = Never

\* The last run in the file is not before the last decision.
RunIsRecorded ==
  admitted # Never =>
    lastRun # Never /\ admitted <= lastRun /\ lastRun <= now

MaintenanceInv ==
  /\ MaintenanceTypeOK
  /\ OverrunsAreMornings
  /\ LockIsCounted
  /\ MarkerIsKept
  /\ RunIsRecorded

-----------------------------------------------------------------------------
(* Counting mornings. *)

LEMMA FiniteMornings ==
  ASSUME NEW S \in SUBSET Mornings
  PROVE  IsFiniteSet(S) /\ Cardinality(S) \in Nat
<1>1. IsFiniteSet(Mornings)
  BY FS_Interval, MaintenanceAssumption DEF Mornings, MaintenanceAssumption
<1>2. IsFiniteSet(S)
  BY <1>1, FS_Subset
<1>. QED
  BY <1>2, FS_CardinalityType

LEMMA OneMore ==
  ASSUME NEW S \in SUBSET Mornings, NEW m \in Mornings, m \notin S
  PROVE  Cardinality(S \cup {m}) = Cardinality(S) + 1
BY FiniteMornings, FS_AddElement

LEMMA OneLess ==
  ASSUME NEW S \in SUBSET Mornings, NEW m \in S
  PROVE  Cardinality(S \ {m}) = Cardinality(S) - 1
BY FiniteMornings, FS_RemoveElement

\* What a morning that goes on to its next stage changes in the two counts.
LEMMA MoveCounts ==
  ASSUME MaintenanceTypeOK, NEW m \in Mornings,
         NEW from \in {"none", "opening", "consolidating", "collecting"},
         NEW to \in {"opening", "consolidating", "collecting", "over"},
         Move(m, from, to)
  PROVE  /\ Cardinality(Consolidating) \in Nat /\ Cardinality(NotBegun) \in Nat
         /\ Cardinality(Consolidating') \in Nat /\ Cardinality(NotBegun') \in Nat
         /\ to = "consolidating" /\ from # "consolidating" =>
              Cardinality(Consolidating') = Cardinality(Consolidating) + 1
         /\ to # "consolidating" /\ from = "consolidating" =>
              Cardinality(Consolidating') = Cardinality(Consolidating) - 1
         /\ to # "consolidating" /\ from # "consolidating" =>
              Consolidating' = Consolidating
         /\ from = "opening" /\ to # "opening" =>
              Cardinality(NotBegun') = Cardinality(NotBegun) - 1
         /\ from = "none" /\ to = "opening" => NotBegun' = NotBegun
         /\ from \in {"consolidating", "collecting"}
              /\ to \in {"collecting", "over"} => NotBegun' = NotBegun
<1>. USE DEF MaintenanceTypeOK, Move
<1>1. /\ Consolidating \in SUBSET Mornings /\ NotBegun \in SUBSET Mornings
      /\ Consolidating' \in SUBSET Mornings /\ NotBegun' \in SUBSET Mornings
  BY DEF Consolidating, NotBegun
<1>2. /\ Cardinality(Consolidating) \in Nat /\ Cardinality(NotBegun) \in Nat
      /\ Cardinality(Consolidating') \in Nat /\ Cardinality(NotBegun') \in Nat
  BY <1>1, FiniteMornings
<1>3. ASSUME to = "consolidating", from # "consolidating"
      PROVE  Cardinality(Consolidating') = Cardinality(Consolidating) + 1
  <2>1. Consolidating' = Consolidating \cup {m} /\ m \notin Consolidating
    BY <1>3 DEF Consolidating
  <2>. QED
    BY <1>1, <2>1, OneMore
<1>4. ASSUME to # "consolidating", from = "consolidating"
      PROVE  Cardinality(Consolidating') = Cardinality(Consolidating) - 1
  <2>1. Consolidating' = Consolidating \ {m} /\ m \in Consolidating
    BY <1>4 DEF Consolidating
  <2>. QED
    BY <1>1, <2>1, OneLess
<1>5. ASSUME to # "consolidating", from # "consolidating"
      PROVE  Consolidating' = Consolidating
  BY <1>5 DEF Consolidating
<1>6. ASSUME from = "opening", to # "opening"
      PROVE  Cardinality(NotBegun') = Cardinality(NotBegun) - 1
  <2>1. NotBegun' = NotBegun \ {m} /\ m \in NotBegun
    BY <1>6 DEF NotBegun
  <2>. QED
    BY <1>1, <2>1, OneLess
<1>7. ASSUME \/ from = "none" /\ to = "opening"
             \/ from \in {"consolidating", "collecting"}
                  /\ to \in {"collecting", "over"}
      PROVE  NotBegun' = NotBegun
  BY <1>7 DEF NotBegun
<1>. QED
  BY <1>2, <1>3, <1>4, <1>5, <1>6, <1>7

-----------------------------------------------------------------------------
(* The inductive invariant. *)

LEMMA InitMaintenanceInv ==
  ASSUME MaintenanceInit
  PROVE  MaintenanceInv
<1>. USE MaintenanceAssumption DEF MaintenanceAssumption, MaintenanceInit
<1>1. MaintenanceTypeOK
  BY DEF MaintenanceTypeOK, Times, NoLock
<1>2. Consolidating = {} /\ NotBegun = Mornings
  BY DEF Consolidating, NotBegun
<1>3. Cardinality(Consolidating) = 0 /\ Cardinality(NotBegun) = LastMorning
  BY <1>2, FS_EmptySet, FS_Interval DEF Mornings
<1>4. OverrunsAreMornings
  BY <1>3 DEF OverrunsAreMornings
<1>5. LockIsCounted
  BY <1>3 DEF LockIsCounted, NoLock
<1>6. MarkerIsKept /\ RunIsRecorded
  BY DEF MarkerIsKept, RunIsRecorded, Open
<1>. QED
  BY <1>1, <1>4, <1>5, <1>6 DEF MaintenanceInv

\* The steps that leave the mornings and the lock alone.
LEMMA WorkStep ==
  ASSUME MaintenanceInv, UNCHANGED sessionVars, MaintenanceTypeOK', RunIsRecorded'
  PROVE  MaintenanceInv'
<1>1. Consolidating' = Consolidating /\ NotBegun' = NotBegun
  BY DEF sessionVars, Consolidating, NotBegun
<1>2. OverrunsAreMornings'
  BY <1>1 DEF MaintenanceInv, OverrunsAreMornings, sessionVars
<1>3. LockIsCounted'
  BY <1>1 DEF MaintenanceInv, LockIsCounted, sessionVars
<1>4. MarkerIsKept'
  BY DEF MaintenanceInv, MarkerIsKept, sessionVars
<1>. QED
  BY <1>2, <1>3, <1>4 DEF MaintenanceInv

\* The steps of a morning leave the cycle alone.
LEMMA SessionStep ==
  ASSUME MaintenanceInv, UNCHANGED <<now, workVars>>,
         MaintenanceTypeOK', OverrunsAreMornings', LockIsCounted', MarkerIsKept'
  PROVE  MaintenanceInv'
<1>1. RunIsRecorded'
  BY DEF MaintenanceInv, RunIsRecorded, workVars
<1>. QED
  BY <1>1 DEF MaintenanceInv

LEMMA TimeStep ==
  ASSUME MaintenanceInv, Tick \/ UserActs
  PROVE  MaintenanceInv'
<1>. USE MaintenanceAssumption DEF MaintenanceAssumption, MaintenanceInv
<1>1. UNCHANGED sessionVars
  BY DEF Tick, UserActs
<1>2. MaintenanceTypeOK'
  BY DEF Tick, UserActs, MaintenanceTypeOK, Times, sessionVars, workVars
<1>3. RunIsRecorded'
  BY DEF Tick, UserActs, RunIsRecorded, MaintenanceTypeOK, Times, workVars
<1>. QED
  BY <1>1, <1>2, <1>3, WorkStep

LEMMA CycleStep ==
  ASSUME MaintenanceInv, Admit \/ StartJob \/ CycleEnds
  PROVE  MaintenanceInv'
<1>. USE MaintenanceAssumption DEF MaintenanceAssumption, MaintenanceInv
<1>1. UNCHANGED sessionVars
  BY DEF Admit, StartJob, CycleEnds
<1>2. MaintenanceTypeOK'
  BY DEF Admit, StartJob, CycleEnds, MaintenanceTypeOK, Times, sessionVars
<1>3. RunIsRecorded'
  BY DEF Admit, StartJob, CycleEnds, RunIsRecorded, MaintenanceTypeOK, Times
<1>. QED
  BY <1>1, <1>2, <1>3, WorkStep

LEMMA MorningBeginStep ==
  ASSUME MaintenanceInv, NEW m \in Mornings, BeginMarked(m) \/ BeginByChat(m)
  PROVE  MaintenanceInv'
<1>. USE MaintenanceAssumption DEF MaintenanceAssumption, MaintenanceInv
<1>1. /\ Move(m, "none", "opening") /\ UNCHANGED <<now, lock, overruns, workVars>>
  BY DEF BeginMarked, BeginByChat, BeginsNext
<1>2. MaintenanceTypeOK'
  BY <1>1 DEF BeginMarked, BeginByChat, MaintenanceTypeOK, Times, Move, Open,
     workVars
<1>3. Consolidating' = Consolidating /\ NotBegun' = NotBegun
  BY <1>1, MoveCounts
<1>4. OverrunsAreMornings' /\ LockIsCounted'
  BY <1>1, <1>3 DEF OverrunsAreMornings, LockIsCounted
<1>5. MarkerIsKept'
  BY <1>1 DEF BeginMarked, BeginByChat, Move, MarkerIsKept, MaintenanceTypeOK, Open
<1>. QED
  BY <1>1, <1>2, <1>4, <1>5, SessionStep

LEMMA ConsolidateStep ==
  ASSUME MaintenanceInv, NEW m \in Mornings, Consolidate(m)
  PROVE  MaintenanceInv'
<1>. USE MaintenanceAssumption DEF MaintenanceAssumption, MaintenanceInv
<1>1. /\ Move(m, "opening", "consolidating")
      /\ UNCHANGED <<now, marked, marker, workVars, activity, restarts>>
      /\ lock' = [alive |-> TRUE, at |-> now]
  BY DEF Consolidate
<1>2. /\ Cardinality(Consolidating) \in Nat /\ Cardinality(NotBegun') \in Nat
      /\ Cardinality(NotBegun) \in Nat
      /\ Cardinality(Consolidating') = Cardinality(Consolidating) + 1
      /\ Cardinality(NotBegun') = Cardinality(NotBegun) - 1
  BY <1>1, MoveCounts
<1>3. overruns \in Nat /\ overruns' \in {overruns, overruns + 1}
  BY DEF Consolidate, MaintenanceTypeOK
<1>4. OverrunsAreMornings'
  BY <1>2, <1>3 DEF OverrunsAreMornings
<1>5. LockIsCounted'
  <2>1. lock'.at # Never
    BY <1>1 DEF MaintenanceTypeOK
  <2>2. Consolidating = {} => Cardinality(Consolidating) = 0
    BY FS_EmptySet
  <2>3. Cardinality(Consolidating) <= overruns'
    BY <1>2, <1>3, <2>2 DEF LockIsCounted, Consolidate
  <2>. QED
    BY <1>2, <1>3, <2>1, <2>3 DEF LockIsCounted
<1>6. MaintenanceTypeOK'
  <2>1. overruns' \in 0..LastMorning
    BY <1>2, <1>3, <1>4 DEF OverrunsAreMornings
  <2>. QED
    BY <1>1, <2>1 DEF MaintenanceTypeOK, Times, Move, Open, workVars
<1>7. MarkerIsKept'
  BY <1>1 DEF Move, MarkerIsKept, MaintenanceTypeOK, Open
<1>. QED
  BY <1>1, <1>4, <1>5, <1>6, <1>7, SessionStep

LEMMA SkipStep ==
  ASSUME MaintenanceInv, NEW m \in Mornings, SkipConsolidation(m)
  PROVE  MaintenanceInv'
<1>. USE MaintenanceAssumption DEF MaintenanceAssumption, MaintenanceInv
<1>1. /\ Move(m, "opening", "collecting")
      /\ UNCHANGED <<now, marked, marker, lock, overruns, workVars, activity,
                     restarts>>
  BY DEF SkipConsolidation
<1>2. /\ Cardinality(NotBegun) \in Nat /\ Cardinality(NotBegun') \in Nat
      /\ Cardinality(NotBegun') = Cardinality(NotBegun) - 1
      /\ Consolidating' = Consolidating
  BY <1>1, MoveCounts
<1>3. MaintenanceTypeOK'
  BY <1>1 DEF MaintenanceTypeOK, Move, Open, workVars
<1>4. OverrunsAreMornings' /\ LockIsCounted'
  BY <1>1, <1>2 DEF OverrunsAreMornings, LockIsCounted, MaintenanceTypeOK
<1>5. MarkerIsKept'
  BY <1>1 DEF Move, MarkerIsKept, MaintenanceTypeOK, Open
<1>. QED
  BY <1>1, <1>3, <1>4, <1>5, SessionStep

\* Whoever ends takes the lock away: one consolidation less, and from now on
\* one less than the overruns allow.
LEMMA ConsolidationEndStep ==
  ASSUME MaintenanceInv, NEW m \in Mornings, ConsolidationEnds(m)
  PROVE  MaintenanceInv'
<1>. USE MaintenanceAssumption DEF MaintenanceAssumption, MaintenanceInv
<1>1. /\ Move(m, "consolidating", "collecting")
      /\ lock' = NoLock
      /\ UNCHANGED <<now, marked, marker, overruns, workVars, activity, restarts>>
  BY DEF ConsolidationEnds
<1>2. /\ Cardinality(Consolidating) \in Nat /\ NotBegun' = NotBegun
      /\ Cardinality(Consolidating') = Cardinality(Consolidating) - 1
  BY <1>1, MoveCounts
<1>3. MaintenanceTypeOK'
  BY <1>1 DEF MaintenanceTypeOK, Move, Open, workVars, NoLock, Times
<1>4. OverrunsAreMornings'
  BY <1>1, <1>2 DEF OverrunsAreMornings
<1>5. LockIsCounted'
  BY <1>1, <1>2 DEF LockIsCounted, MaintenanceTypeOK, NoLock
<1>6. MarkerIsKept'
  BY <1>1 DEF Move, MarkerIsKept, MaintenanceTypeOK, Open
<1>. QED
  BY <1>1, <1>3, <1>4, <1>5, <1>6, SessionStep

LEMMA SessionEndStep ==
  ASSUME MaintenanceInv, NEW m \in Mornings, SessionEnds(m)
  PROVE  MaintenanceInv'
<1>. USE MaintenanceAssumption DEF MaintenanceAssumption, MaintenanceInv
<1>1. /\ Move(m, "collecting", "over")
      /\ marker' = [marker EXCEPT ![m] = Never]
      /\ UNCHANGED <<now, marked, lock, overruns, workVars, activity, restarts>>
  BY DEF SessionEnds
<1>2. Consolidating' = Consolidating /\ NotBegun' = NotBegun
  BY <1>1, MoveCounts
<1>3. MaintenanceTypeOK'
  BY <1>1 DEF MaintenanceTypeOK, Move, Open, workVars, Times
<1>4. OverrunsAreMornings' /\ LockIsCounted'
  BY <1>1, <1>2 DEF OverrunsAreMornings, LockIsCounted
<1>5. MarkerIsKept'
  BY <1>1 DEF Move, MarkerIsKept, MaintenanceTypeOK, Open
<1>. QED
  BY <1>1, <1>3, <1>4, <1>5, SessionStep

\* Nobody consolidates after a crash, and the mornings that had begun are over.
LEMMA MorningCrashStep ==
  ASSUME MaintenanceInv, MaintenanceCrash
  PROVE  MaintenanceInv'
<1>. USE MaintenanceAssumption DEF MaintenanceAssumption, MaintenanceInv
<1>1. MaintenanceTypeOK'
  <2>1. session' \in [Mornings -> Open \cup {"none", "over"}]
    BY DEF MaintenanceCrash, MaintenanceTypeOK
  <2>2. PICK alive \in BOOLEAN :
          lock' = [lock EXCEPT !.alive = lock.at # Never /\ alive]
    BY DEF MaintenanceCrash
  <2>3. lock' \in [alive : BOOLEAN, at : Times]
    BY <2>2 DEF MaintenanceTypeOK
  <2>. QED
    BY <2>1, <2>3 DEF MaintenanceCrash, MaintenanceTypeOK
<1>2. Consolidating' = {}
  BY DEF MaintenanceCrash, Consolidating, Open, MaintenanceTypeOK
<1>3. NotBegun' \in SUBSET Mornings
  BY DEF NotBegun
<1>4. Cardinality(Consolidating') = 0
  BY <1>2, FS_EmptySet
<1>5. Cardinality(NotBegun') <= LastMorning
  <2>1. IsFiniteSet(Mornings) /\ Cardinality(Mornings) = LastMorning
    BY FS_Interval DEF Mornings
  <2>2. Cardinality(NotBegun') <= Cardinality(Mornings)
    BY <1>3, <2>1, FS_Subset
  <2>. QED
    BY <2>1, <2>2
<1>6. overruns' = 0
  BY DEF MaintenanceCrash
<1>7. OverrunsAreMornings'
  BY <1>3, <1>5, <1>6, FiniteMornings DEF OverrunsAreMornings
<1>8. LockIsCounted'
  BY <1>4, <1>6 DEF LockIsCounted
<1>9. MarkerIsKept' /\ RunIsRecorded'
  BY DEF MaintenanceCrash, MarkerIsKept, RunIsRecorded, MaintenanceTypeOK, Open
<1>. QED
  BY <1>1, <1>7, <1>8, <1>9

LEMMA NextMaintenanceInv ==
  ASSUME MaintenanceInv, [MaintenanceNext]_maintenanceVars
  PROVE  MaintenanceInv'
<1>1. CASE MaintenanceNext
  BY <1>1, TimeStep, CycleStep, MorningBeginStep, ConsolidateStep, SkipStep,
     ConsolidationEndStep, SessionEndStep, MorningCrashStep DEF MaintenanceNext
<1>2. CASE UNCHANGED maintenanceVars
  <2>1. UNCHANGED sessionVars /\ MaintenanceTypeOK' /\ RunIsRecorded'
    BY <1>2 DEF maintenanceVars, sessionVars, MaintenanceInv, MaintenanceTypeOK, Times,
       RunIsRecorded
  <2>. QED
    BY <2>1, WorkStep
<1>. QED
  BY <1>1, <1>2

-----------------------------------------------------------------------------
(* What is proved. *)

\* The invariant behind everything below: the two counts of mornings, the
\* marker of each open morning and the record of the last run hold after every
\* step of the guard, the loop and the lock.
THEOREM MaintenanceInvariant == MaintenanceSpec => []MaintenanceInv
BY InitMaintenanceInv, NextMaintenanceInv, PTL DEF MaintenanceSpec

\* The files, the stages and the counters keep the values the code gives them;
\* in particular a lock is reclaimed at most once for every morning.
THEOREM MaintenanceTypes == MaintenanceSpec => []MaintenanceTypeOK
<1>1. MaintenanceInv => MaintenanceTypeOK
  BY DEF MaintenanceInv
<1>. QED
  BY <1>1, MaintenanceInvariant, PTL

\* However many mornings overlap, and whoever removes whose lock, two
\* consolidations run at a time only after an overrun for each (try_acquire and
\* release of consolidation_lock.py).
THEOREM OneAtATime == MaintenanceSpec => []OneConsolidation
<1>1. MaintenanceInv => OneConsolidation
  <2>1. Consolidating \in SUBSET Mornings
    BY DEF Consolidating
  <2>2. Cardinality(Consolidating) \in Nat
    BY <2>1, FiniteMornings
  <2>. QED
    BY <2>2, MaintenanceAssumption
    DEF MaintenanceInv, LockIsCounted, OneConsolidation, MaintenanceTypeOK,
        MaintenanceAssumption
<1>. QED
  BY <1>1, MaintenanceInvariant, PTL

\* The autonomous loop is let in only at a distance: from every marked morning
\* younger than its marker's time, and from the decision before, whatever
\* failed, ended or crashed in between (maintenance_guard.py, should_run).
THEOREM DistanceIsKept == MaintenanceSpec => SelfWorkKeepsDistance
<1>1. MaintenanceInv /\ [MaintenanceNext]_maintenanceVars
        => [work = "sleeping" /\ work' = "admitted" =>
              /\ \A m \in Mornings : session[m] \in Open /\ marked[m] # Never =>
                   Age(marked[m]) > Ttl
              /\ admitted # Never => Age(admitted) >= Throttle]_maintenanceVars
  <2>. USE MaintenanceAssumption
       DEF MaintenanceAssumption, MaintenanceInv, MaintenanceTypeOK, Times
  <2>1. SUFFICES ASSUME MaintenanceInv, MaintenanceNext, work = "sleeping", work' = "admitted"
                 PROVE  /\ \A m \in Mornings :
                             session[m] \in Open /\ marked[m] # Never =>
                               Age(marked[m]) > Ttl
                        /\ admitted # Never => Age(admitted) >= Throttle
    BY DEF maintenanceVars
  <2>2. ShouldRun
    BY <2>1
    DEF MaintenanceNext, Tick, UserActs, BeginMarked, BeginByChat, Consolidate,
        SkipConsolidation, ConsolidationEnds, SessionEnds, Admit, StartJob,
        CycleEnds, MaintenanceCrash, workVars
  <2>3. ASSUME NEW m \in Mornings, session[m] \in Open, marked[m] # Never
        PROVE  Age(marked[m]) > Ttl
    <3>1. marker[m] = marked[m]
      BY <2>1, <2>3 DEF MarkerIsKept
    <3>2. marked[m] \in Nat /\ now \in Nat
      BY <2>1, <2>3
    <3>. QED
      BY <2>2, <2>3, <3>1, <3>2 DEF ShouldRun, MorningIsActive, Age
  <2>4. ASSUME admitted # Never
        PROVE  Age(admitted) >= Throttle
    BY <2>1, <2>2, <2>4 DEF ShouldRun, Age, RunIsRecorded
  <2>. QED
    BY <2>3, <2>4
<1>. QED
  BY <1>1, MaintenanceInvariant, PTL DEF MaintenanceSpec, SelfWorkKeepsDistance
=============================================================================
