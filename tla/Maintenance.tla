---------------------------- MODULE Maintenance ----------------------------
(***************************************************************************)
(* The maintenance windows of one bot: bot/maintenance_guard.py, the       *)
(* autonomous self-coding loop of bot/main.py, the /morning handler and    *)
(* the consolidation it starts under memory/consolidation_lock.py.         *)
(*                                                                         *)
(* The files hold times and a clock advances: each morning writes a marker *)
(* of its own, the lock file carries the pid and its mtime, the state file *)
(* the last run.  A decision is made and its file written between two      *)
(* awaits of one event loop.  After a restart the pid in the lock may be   *)
(* that of a live process again, the bot's own for one.                    *)
(***************************************************************************)
EXTENDS Naturals, FiniteSets

CONSTANTS
  LastMorning,  \* bound: the sessions, numbered as they begin
  Throttle,  \* autonomous_self_coding_restart_throttle_seconds
  Ttl,       \* _DEFAULT_MORNING_MARKER_TTL_SECONDS
  Stale,     \* _STALE_SECONDS
  Idle,      \* autonomous_self_coding_user_idle_seconds
  MaxNow,    \* bound: the clock
  MaxMorningCrashes,  \* bound: crashes of the process
  Never      \* no time

ASSUME MaintenanceAssumption ==
  /\ LastMorning \in Nat /\ MaxNow \in Nat /\ MaxMorningCrashes \in Nat
  /\ Throttle \in Nat /\ Ttl \in Nat /\ Stale \in Nat /\ Idle \in Nat
  /\ Never \notin Nat

VARIABLES
  now,
  session,   \* the stage of each morning
  marked,    \* history: when each morning with a marker began
  marker,    \* each marker file: started_at
  lock,      \* the lock file: whether its pid is alive, and its mtime
  lastRun,   \* last_run_at in the state file
  activity,  \* last_user_activity_at
  work,      \* the autonomous cycle
  restarts,  \* history
  overruns,  \* history: reclaims from a consolidation that still runs
  admitted   \* history: when a cycle was last let in

maintenanceVars == <<now, session, marked, marker, lock, lastRun, activity,
                     work, restarts, overruns, admitted>>
sessionVars == <<session, marked, marker, lock, overruns>>
workVars == <<lastRun, work, admitted>>

Mornings == 1..LastMorning
Times == 0..MaxNow \cup {Never}
Open == {"opening", "consolidating", "collecting"}
NoLock == [alive |-> FALSE, at |-> Never]

MaintenanceTypeOK ==
  /\ now \in 0..MaxNow
  /\ session \in [Mornings -> Open \cup {"none", "over"}]
  /\ marked \in [Mornings -> Times] /\ marker \in [Mornings -> Times]
  /\ lock \in [alive : BOOLEAN, at : Times]
  /\ lastRun \in Times /\ activity \in Times /\ admitted \in Times
  /\ work \in {"sleeping", "admitted", "working"}
  /\ restarts \in 0..MaxMorningCrashes /\ overruns \in 0..LastMorning

MaintenanceInit ==
  /\ now = 0
  /\ session = [m \in Mornings |-> "none"]
  /\ marked = [m \in Mornings |-> Never] /\ marker = marked
  /\ lock = NoLock
  /\ lastRun = Never /\ activity = Never /\ admitted = Never
  /\ work = "sleeping"
  /\ restarts = 0 /\ overruns = 0

Age(t) == now - t

Move(m, from, to) ==
  /\ session[m] = from
  /\ session' = [session EXCEPT ![m] = to]

BeginsNext(m) ==
  /\ Move(m, "none", "opening")
  /\ \A earlier \in 1..(m - 1) : session[earlier] # "none"

Consolidating == {m \in Mornings : session[m] = "consolidating"}

-----------------------------------------------------------------------------
(* Mornings. *)

Tick ==
  /\ now < MaxNow
  /\ now' = now + 1
  /\ UNCHANGED <<sessionVars, workVars, activity, restarts>>

UserActs ==
  /\ activity' = now
  /\ UNCHANGED <<now, sessionVars, workVars, restarts>>

\* MorningMaintenanceGuard.active: the command is refused when its marker cannot
\* be written.
BeginMarked(m) ==
  /\ BeginsNext(m)
  /\ marked' = [marked EXCEPT ![m] = now]
  /\ marker' = [marker EXCEPT ![m] = now]
  /\ UNCHANGED <<now, lock, overruns, workVars, activity, restarts>>

\* Words in the chat start the same skill without a marker.
BeginByChat(m) ==
  /\ BeginsNext(m)
  /\ activity' = now
  /\ UNCHANGED <<now, marked, marker, lock, overruns, workVars, restarts>>

\* A lock whose holder is alive and which is not stale.
Held == lock.at # Never /\ lock.alive /\ Age(lock.at) < Stale

\* try_acquire: there is no lock, a dead one or a stale one.
Consolidate(m) ==
  /\ ~Held
  /\ Move(m, "opening", "consolidating")
  /\ lock' = [alive |-> TRUE, at |-> now]
  /\ overruns' = IF lock.at # Never /\ Consolidating # {} THEN overruns + 1
                 ELSE overruns
  /\ UNCHANGED <<now, marked, marker, workVars, activity, restarts>>

\* Mutant: a lock that was not acquired is released too.
SkipAndRelease(m) ==
  /\ Move(m, "opening", "collecting")
  /\ lock' = NoLock
  /\ UNCHANGED <<now, marked, marker, overruns, workVars, activity, restarts>>

\* No engine, or the lock is held: the session goes on without.
SkipConsolidation(m) ==
  /\ Move(m, "opening", "collecting")
  /\ UNCHANGED <<now, marked, marker, lock, overruns, workVars, activity, restarts>>

\* release() unlinks the lock file, whoever wrote it.
ConsolidationEnds(m) ==
  /\ Move(m, "consolidating", "collecting")
  /\ lock' = NoLock
  /\ UNCHANGED <<now, marked, marker, overruns, workVars, activity, restarts>>

\* Mutant: one marker for all, the first to end removes it.
SharedMarkerEnds(m) ==
  /\ Move(m, "collecting", "over")
  /\ marker' = [x \in Mornings |-> IF marked[m] # Never THEN Never ELSE marker[x]]
  /\ UNCHANGED <<now, marked, lock, overruns, workVars, activity, restarts>>

\* The morning removes its own marker, if it has one.
SessionEnds(m) ==
  /\ Move(m, "collecting", "over")
  /\ marker' = [marker EXCEPT ![m] = Never]
  /\ UNCHANGED <<now, marked, lock, overruns, workVars, activity, restarts>>

-----------------------------------------------------------------------------
(* The autonomous loop. *)

\* MorningMaintenanceGuard.is_active.
MorningIsActive ==
  \E m \in Mornings : marker[m] # Never /\ Age(marker[m]) <= Ttl

\* AutonomousSelfCodingRuntimeGuard.should_run: unknown activity means no.
ShouldRun ==
  /\ ~MorningIsActive
  /\ activity # Never /\ Age(activity) >= Idle
  /\ lastRun # Never => Age(lastRun) >= Throttle

\* record_run(status="started") follows the decision at once; a write that fails
\* skips the cycle.
Admit ==
  /\ work = "sleeping"
  /\ ShouldRun
  /\ work' = "admitted"
  /\ lastRun' = now
  /\ admitted' = now
  /\ UNCHANGED <<now, sessionVars, activity, restarts>>

\* run_once finds no self-work job that is active and starts one.
StartJob ==
  /\ work = "admitted"
  /\ work' = "working"
  /\ UNCHANGED <<now, sessionVars, lastRun, admitted, activity, restarts>>

\* The cycle skipped, failed, was cancelled or waited for its job.  The last
\* write may fail.
CycleEnds ==
  /\ work \in {"admitted", "working"}
  /\ work' = "sleeping"
  /\ lastRun' \in {now, lastRun}
  /\ UNCHANGED <<now, sessionVars, admitted, activity, restarts>>

-----------------------------------------------------------------------------

\* The files stay.
MaintenanceCrash ==
  /\ restarts < MaxMorningCrashes
  /\ restarts' = restarts + 1
  /\ session' = [m \in Mornings |-> IF session[m] \in Open THEN "over"
                                    ELSE session[m]]
  /\ work' = "sleeping"
  /\ overruns' = 0
  /\ \E alive \in BOOLEAN :
       lock' = [lock EXCEPT !.alive = lock.at # Never /\ alive]
  /\ UNCHANGED <<now, marked, marker, lastRun, admitted, activity>>

MaintenanceNext ==
  \/ Tick \/ UserActs
  \/ \E m \in Mornings :
       \/ BeginMarked(m) \/ BeginByChat(m)
       \/ Consolidate(m) \/ SkipConsolidation(m) \/ ConsolidationEnds(m)
       \/ SessionEnds(m)
  \/ Admit \/ StartJob \/ CycleEnds
  \/ MaintenanceCrash

MaintenanceSpec == MaintenanceInit /\ [][MaintenanceNext]_maintenanceVars

-----------------------------------------------------------------------------
(* Properties. *)

\* Two consolidations run at a time only when one of them outlived the lock's
\* hour, and never more than one for each that did, although release() may
\* remove the lock of another, and although a restart may find its own pid in
\* the lock of the process before.
OneConsolidation == Cardinality(Consolidating) <= 1 + overruns

\* Self-work is let in only when no marked morning runs that is younger than
\* its marker's time, and when the throttle has passed since it was let in
\* last: through mornings that overlap, cycles that fail and restarts.
SelfWorkKeepsDistance ==
  [][work = "sleeping" /\ work' = "admitted" =>
       /\ \A m \in Mornings : session[m] \in Open /\ marked[m] # Never =>
            Age(marked[m]) > Ttl
       /\ admitted # Never => Age(admitted) >= Throttle]_maintenanceVars
=============================================================================
