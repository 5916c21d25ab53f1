---------------------------- MODULE ProcessGuard ----------------------------
(***************************************************************************)
(* Live process ownership: the lease file of core/process_guard.py and the *)
(* two programs that take leases from it, the bot (bot/main.py, one lease  *)
(* per service it embeds) and the standalone daemon (daemon/main.py).      *)
(*                                                                         *)
(* Each guard operation holds an flock on the lease file, so it is one     *)
(* action; starting programs interleave between operations.  A process is  *)
(* one start of a program.  The operating system may give the pid of a     *)
(* dead process to a new one or to an unrelated program.                   *)
(*                                                                         *)
(* heartbeat() only refreshes a time that nothing but a report reads, and  *)
(* its caller only logs a failure, so it changes nothing here.             *)
(***************************************************************************)
EXTENDS Naturals, Sequences, SequencesExt

CONSTANTS
  Bots,         \* starts of the bot
  Standalones,  \* starts of the standalone daemon
  BotServices,  \* _live_process_services: the same tuple in every bot
  Pids,
  None

Procs == Bots \cup Standalones
Services == Range(BotServices) \cup {"daemon"}

ASSUME GuardAssumption ==
  /\ Bots \cap Standalones = {}
  /\ BotServices \in Seq(Services) \ {<<>>} /\ IsInjective(BotServices)
  /\ None \notin Procs \cup Pids \cup [owner : Procs, pid : Pids]

VARIABLES
  lease,  \* the file: the owner and pid recorded for each service
  pc,     \* where each start stands
  pid,    \* the pid of a live process
  held,   \* how many of its services a process acquired and did not release
  alien   \* pids of unrelated programs

vars == <<lease, pc, pid, held, alien>>

Alive == {"acquiring", "serving", "rolling_back", "releasing"}
Over  == {"refused", "stopped", "crashed"}

TypeOK ==
  /\ lease \in [Services -> [owner : Procs, pid : Pids] \cup {None}]
  /\ pc \in [Procs -> {"new"} \cup Alive \cup Over]
  /\ pid \in [Procs -> Pids \cup {None}]
  /\ held \in [Procs -> 0..Len(BotServices)]
  /\ alien \subseteq Pids

Init ==
  /\ lease = [s \in Services |-> None]
  /\ pc = [p \in Procs |-> "new"]
  /\ pid = [p \in Procs |-> None]
  /\ held = [p \in Procs |-> 0]
  /\ alien = {}

\* Mutant: the services come from a set, whose order differs between runs.
ServicesInSetOrder(p) ==
  CASE p \in Standalones -> <<"daemon">>
    [] p = (CHOOSE b \in Bots : TRUE) -> Reverse(BotServices)
    [] OTHER -> BotServices

\* _live_process_services; the standalone daemon takes one lease.
ServicesOf(p) == IF p \in Bots THEN BotServices ELSE <<"daemon">>

Taken == {pid[p] : p \in Procs} \cup alien

\* _pid_is_alive: some process has the pid, whichever it is.
PidIsAlive(n) == n \in Taken

-----------------------------------------------------------------------------
(* The guard. *)

\* Mutant: the pid in the lease is not looked at.
MayTakeAny(s) == TRUE

\* acquire: no lease, or one whose pid is dead.
MayTake(s) == lease[s] # None => ~PidIsAlive(lease[s].pid)

\* release: only the owner's lease is dropped.
Dropped(p, s) ==
  IF lease[s] # None /\ lease[s].owner = p
  THEN [lease EXCEPT ![s] = None] ELSE lease

-----------------------------------------------------------------------------
(* The processes. *)

Start(p, n) ==
  /\ pc[p] = "new"
  /\ n \notin Taken
  /\ pid' = [pid EXCEPT ![p] = n]
  /\ pc' = [pc EXCEPT ![p] = "acquiring"]
  /\ UNCHANGED <<lease, held, alien>>

\* Mutant: the lease is written without the default os.getpid().
AcquireWithoutPid(p) ==
  /\ pc[p] = "acquiring"
  /\ LET s == ServicesOf(p)[held[p] + 1] IN
       /\ MayTake(s)
       /\ lease' = [lease EXCEPT ![s] = [owner |-> p, pid |-> None]]
  /\ held' = [held EXCEPT ![p] = @ + 1]
  /\ pc' = [pc EXCEPT ![p] = IF held[p] + 1 = Len(ServicesOf(p))
                             THEN "serving" ELSE "acquiring"]
  /\ UNCHANGED <<pid, alien>>

\* _acquire_live_process_ownership, one service of its loop.
Acquire(p) ==
  /\ pc[p] = "acquiring"
  /\ LET s == ServicesOf(p)[held[p] + 1] IN
       /\ MayTake(s)
       /\ lease' = [lease EXCEPT ![s] = [owner |-> p, pid |-> pid[p]]]
  /\ held' = [held EXCEPT ![p] = @ + 1]
  /\ pc' = [pc EXCEPT ![p] = IF held[p] + 1 = Len(ServicesOf(p))
                             THEN "serving" ELSE "acquiring"]
  /\ UNCHANGED <<pid, alien>>

\* It is already owned: give back what was acquired, then end the startup.
Refused(p) ==
  /\ pc[p] = "acquiring"
  /\ ~MayTake(ServicesOf(p)[held[p] + 1])
  /\ pc' = [pc EXCEPT ![p] = "rolling_back"]
  /\ UNCHANGED <<lease, pid, held, alien>>

\* start_polling returned: the finally clause releases the leases.
Shutdown(p) ==
  /\ pc[p] = "serving"
  /\ pc' = [pc EXCEPT ![p] = "releasing"]
  /\ UNCHANGED <<lease, pid, held, alien>>

\* One release of the rollback or of the shutdown, in reverse order.
ReleaseOne(p) ==
  /\ pc[p] \in {"rolling_back", "releasing"}
  /\ held[p] > 0
  /\ lease' = Dropped(p, ServicesOf(p)[held[p]])
  /\ held' = [held EXCEPT ![p] = @ - 1]
  /\ UNCHANGED <<pc, pid, alien>>

\* Mutant: the process ends without giving its leases back first.
ExitUnreleased(p) ==
  /\ pc[p] \in {"rolling_back", "releasing"}
  /\ pc' = [pc EXCEPT ![p] =
              IF pc[p] = "rolling_back" THEN "refused" ELSE "stopped"]
  /\ pid' = [pid EXCEPT ![p] = None]
  /\ UNCHANGED <<lease, held, alien>>

\* Resources are closed and the process ends.
Exit(p) ==
  /\ pc[p] \in {"rolling_back", "releasing"}
  /\ held[p] = 0
  /\ pc' = [pc EXCEPT ![p] =
              IF pc[p] = "rolling_back" THEN "refused" ELSE "stopped"]
  /\ pid' = [pid EXCEPT ![p] = None]
  /\ UNCHANGED <<lease, held, alien>>

\* The process is killed; its leases stay in the file.
Crash(p) ==
  /\ pc[p] \in Alive
  /\ pc' = [pc EXCEPT ![p] = "crashed"]
  /\ pid' = [pid EXCEPT ![p] = None]
  /\ held' = [held EXCEPT ![p] = 0]
  /\ UNCHANGED <<lease, alien>>

\* An unrelated program starts or ends.
AlienStarts(n) ==
  /\ n \notin Taken
  /\ alien' = alien \cup {n}
  /\ UNCHANGED <<lease, pc, pid, held>>
AlienEnds(n) ==
  /\ n \in alien
  /\ alien' = alien \ {n}
  /\ UNCHANGED <<lease, pc, pid, held>>

Next ==
  \/ \E p \in Procs :
       \/ \E n \in Pids : Start(p, n)
       \/ Acquire(p) \/ Refused(p) \/ Shutdown(p) \/ ReleaseOne(p) \/ Exit(p)
       \/ Crash(p)
  \/ \E n \in Pids : AlienStarts(n) \/ AlienEnds(n)

Spec == Init /\ [][Next]_vars

-----------------------------------------------------------------------------
(* Properties. *)

Holds(p, s) == \E i \in 1..held[p] : ServicesOf(p)[i] = s

\* No service has two live holders, whatever the order in which bots and
\* daemons start, roll back, crash and restart and whatever pids are recycled
\* ("reject duplicate live owners", process_guard.py).
OneHolder ==
  \A p, q \in Procs : \A s \in Services :
    Holds(p, s) /\ Holds(q, s) => p = q

\* A live holder's lease is in the file under its name: no other start, and no
\* rollback of one, takes or drops the lease of a running service.
LeaseIsKept ==
  \A p \in Procs : \A s \in Services :
    Holds(p, s) => lease[s] # None /\ lease[s].owner = p

\* Programs that start together do not all refuse each other: when every start
\* ended in serving or refused, and one did start, somebody serves.
SomebodyServes ==
  (\A p \in Procs : pc[p] \in {"new", "serving", "refused"})
    => (\A p \in Procs : pc[p] = "new") \/ (\E p \in Procs : pc[p] = "serving")

\* A start that gave up holds nothing and a clean shutdown leaves no lease, so
\* only a crash leaves one behind.
OnlyCrashesLeaveLeases ==
  \A s \in Services : lease[s] # None =>
    pc[lease[s].owner] \in Alive \cup {"crashed"}
=============================================================================
