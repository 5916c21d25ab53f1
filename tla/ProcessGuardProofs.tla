------------------------- MODULE ProcessGuardProofs -------------------------
(***************************************************************************)
(* Process ownership for any number of bots, standalone daemons, services  *)
(* and pids, proved with TLAPS.                                            *)
(*                                                                         *)
(* OneHolder says nothing about the file, which is all that a start looks  *)
(* at.  HeldInFile ties the two: what a process holds is in the file under *)
(* its name and its live pid, so no other start may take it.  OwnedIsHeld  *)
(* is the converse: a lease in the file is held, unless its owner crashed. *)
(* StartsAreOrdered is why starts do not all refuse each other: every bot  *)
(* takes its services in the same order and a daemon takes only one.       *)
(***************************************************************************)
EXTENDS ProcessGuard, TLAPS

\* A process holds leases only while it lives, has a pid as long as it lives,
\* and has more to take as long as it is acquiring.
ProcessesOK ==
  \A p \in Procs :
    /\ pc[p] \in Alive => pid[p] \in Pids
    /\ pc[p] \notin Alive => held[p] = 0
    /\ held[p] <= Len(ServicesOf(p))
    /\ pc[p] \in {"acquiring", "rolling_back"} => held[p] < Len(ServicesOf(p))

HeldInFile ==
  \A p \in Procs : \A i \in 1..held[p] :
    LET s == ServicesOf(p)[i] IN
    lease[s] # None /\ lease[s].owner = p /\ lease[s].pid = pid[p]

OwnedIsHeld ==
  \A s \in Services : lease[s] # None =>
    pc[lease[s].owner] = "crashed" \/ Holds(lease[s].owner, s)

\* No process was killed or told to stop.
Undisturbed ==
  \A p \in Procs : pc[p] \notin {"crashed", "releasing", "stopped"}

\* A refused start had somebody before it who serves or is on its way.
StartsAreOrdered ==
  Undisturbed /\ (\E p \in Procs : pc[p] \in {"rolling_back", "refused"}) =>
    \E q \in Procs :
      pc[q] = "serving" \/ (q \in Bots /\ pc[q] = "acquiring" /\ held[q] > 0)

IInv == TypeOK /\ ProcessesOK /\ HeldInFile /\ OwnedIsHeld /\ StartsAreOrdered

-----------------------------------------------------------------------------
(* Services. *)

\* Every program takes at least one service, and none of them twice.
LEMMA ServiceFacts ==
  ASSUME NEW p \in Procs
  PROVE  /\ Len(ServicesOf(p)) \in Nat /\ Len(BotServices) \in Nat
         /\ Len(ServicesOf(p)) > 0
         /\ Len(ServicesOf(p)) <= Len(BotServices)
         /\ \A i \in 1..Len(ServicesOf(p)) : ServicesOf(p)[i] \in Services
         /\ \A i, j \in 1..Len(ServicesOf(p)) :
              ServicesOf(p)[i] = ServicesOf(p)[j] => i = j
<1>. USE GuardAssumption DEF GuardAssumption
<1>1. /\ BotServices \in Seq(Services) /\ Len(BotServices) \in Nat
      /\ Len(BotServices) > 0
      /\ DOMAIN BotServices = 1..Len(BotServices)
  OBVIOUS
<1>2. CASE p \in Bots
  <2>1. ServicesOf(p) = BotServices
    BY <1>2 DEF ServicesOf
  <2>. QED
    BY <1>1, <2>1 DEF IsInjective
<1>3. CASE p \notin Bots
  <2>1. ServicesOf(p) = <<"daemon">>
    BY <1>3 DEF ServicesOf
  <2>2. "daemon" \in Services
    BY DEF Services
  <2>. QED
    BY <1>1, <2>1, <2>2
<1>. QED
  BY <1>2, <1>3

\* A daemon that is still acquiring holds nothing, and so does one that was
\* refused: it takes one service only.
LEMMA DaemonTakesOne ==
  ASSUME NEW p \in Procs \ Bots
  PROVE  Len(ServicesOf(p)) = 1 /\ ServicesOf(p)[1] = "daemon"
BY DEF ServicesOf

-----------------------------------------------------------------------------
(* What the file says while a process lives. *)

\* What is held is recorded under a live pid, so no other start may take it.
LEMMA HeldIsTaken ==
  ASSUME IInv, NEW p \in Procs, NEW i \in 1..held[p]
  PROVE  ~MayTake(ServicesOf(p)[i])
<1>1. /\ lease[ServicesOf(p)[i]] # None
      /\ lease[ServicesOf(p)[i]].pid = pid[p]
  BY DEF IInv, HeldInFile
<1>. QED
  BY <1>1 DEF MayTake, PidIsAlive, Taken

\* A process holds services of its own list.
LEMMA HeldAreServices ==
  ASSUME IInv, NEW p \in Procs, NEW i \in 1..held[p]
  PROVE  i \in 1..Len(ServicesOf(p)) /\ ServicesOf(p)[i] \in Services
BY ServiceFacts DEF IInv, TypeOK, ProcessesOK

\* The service a start asks for next.
LEMMA NextService ==
  ASSUME IInv, NEW p \in Procs, pc[p] = "acquiring"
  PROVE  held[p] + 1 \in 1..Len(ServicesOf(p))
BY ServiceFacts DEF IInv, TypeOK, ProcessesOK

-----------------------------------------------------------------------------
(* The steps. *)

\* Every step keeps the types.
LEMMA TypeStep ==
  ASSUME IInv, [Next]_vars
  PROVE  TypeOK'
<1>. USE DEF IInv, TypeOK, ProcessesOK, Alive, Over
<1>1. ASSUME NEW p \in Procs, NEW n \in Pids, Start(p, n)
      PROVE  TypeOK'
  BY <1>1 DEF Start
<1>2. ASSUME NEW p \in Procs, Acquire(p)
      PROVE  TypeOK'
  <2>1. held[p] + 1 \in 1..Len(ServicesOf(p)) /\ pc[p] = "acquiring"
    BY <1>2, NextService DEF Acquire
  <2>2. PICK s \in Services : lease' = [lease EXCEPT ![s] = [owner |-> p, pid |-> pid[p]]]
    BY <1>2, <2>1, ServiceFacts DEF Acquire
  <2>3. lease' \in [Services -> [owner : Procs, pid : Pids] \cup {None}]
    BY <2>1, <2>2
  <2>4. held' \in [Procs -> 0..Len(BotServices)]
    BY <1>2, <2>1, ServiceFacts DEF Acquire
  <2>. QED
    BY <1>2, <2>3, <2>4 DEF Acquire
<1>3. ASSUME NEW p \in Procs, Refused(p) \/ Shutdown(p)
      PROVE  TypeOK'
  BY <1>3 DEF Refused, Shutdown
<1>4. ASSUME NEW p \in Procs, ReleaseOne(p)
      PROVE  TypeOK'
  <2>1. lease' \in [Services -> [owner : Procs, pid : Pids] \cup {None}]
    <3>. DEFINE s == ServicesOf(p)[held[p]]
    <3>1. lease' = lease \/ lease' = [lease EXCEPT ![s] = None]
      BY <1>4, Zenon DEF ReleaseOne, Dropped
    <3>. HIDE DEF s
    <3>. QED
      BY <3>1
  <2>2. held' \in [Procs -> 0..Len(BotServices)]
    BY <1>4, ServiceFacts DEF ReleaseOne
  <2>. QED
    BY <1>4, <2>1, <2>2 DEF ReleaseOne
<1>5. ASSUME NEW p \in Procs, Exit(p) \/ Crash(p)
      PROVE  TypeOK'
  <2>1. /\ pc' \in [Procs -> {"new"} \cup Alive \cup Over]
        /\ pid' \in [Procs -> Pids \cup {None}]
    BY <1>5 DEF Exit, Crash
  <2>2. held' \in [Procs -> 0..Len(BotServices)]
    <3>1. Len(BotServices) \in Nat
      BY ServiceFacts
    <3>2. held' = held \/ held' = [held EXCEPT ![p] = 0]
      BY <1>5 DEF Exit, Crash
    <3>. QED
      BY <3>1, <3>2
  <2>. QED
    BY <1>5, <2>1, <2>2 DEF Exit, Crash
<1>6. ASSUME NEW n \in Pids, AlienStarts(n) \/ AlienEnds(n)
      PROVE  TypeOK'
  BY <1>6 DEF AlienStarts, AlienEnds
<1>7. ASSUME UNCHANGED vars
      PROVE  TypeOK'
  BY <1>7 DEF vars
<1>. QED
  BY <1>1, <1>2, <1>3, <1>4, <1>5, <1>6, <1>7 DEF Next

\* Every step keeps what is known of each process by itself.
LEMMA ProcessStep ==
  ASSUME IInv, [Next]_vars
  PROVE  ProcessesOK'
<1>. USE ServiceFacts DEF IInv, TypeOK, ProcessesOK, Alive
<1>1. ASSUME NEW p \in Procs, NEW n \in Pids, Start(p, n)
      PROVE  ProcessesOK'
  BY <1>1 DEF Start
<1>2. ASSUME NEW p \in Procs, Acquire(p)
      PROVE  ProcessesOK'
  BY <1>2 DEF Acquire
<1>3. ASSUME NEW p \in Procs, Refused(p) \/ Shutdown(p)
      PROVE  ProcessesOK'
  BY <1>3 DEF Refused, Shutdown
<1>4. ASSUME NEW p \in Procs, ReleaseOne(p)
      PROVE  ProcessesOK'
  BY <1>4 DEF ReleaseOne
<1>5. ASSUME NEW p \in Procs, Exit(p) \/ Crash(p)
      PROVE  ProcessesOK'
  <2>1. pc'[p] \in {"refused", "stopped", "crashed"} /\ held'[p] = 0
    BY <1>5 DEF Exit, Crash
  <2>2. \A q \in Procs \ {p} :
          pc'[q] = pc[q] /\ pid'[q] = pid[q] /\ held'[q] = held[q]
    BY <1>5 DEF Exit, Crash
  <2>. QED
    BY <2>1, <2>2
<1>6. ASSUME NEW n \in Pids, AlienStarts(n) \/ AlienEnds(n)
      PROVE  ProcessesOK'
  BY <1>6 DEF AlienStarts, AlienEnds
<1>7. ASSUME UNCHANGED vars
      PROVE  ProcessesOK'
  BY <1>7 DEF vars
<1>. QED
  BY <1>1, <1>2, <1>3, <1>4, <1>5, <1>6, <1>7 DEF Next

\* The guard gives a service only to a start that finds it free, and a release
\* drops the lease of the one who releases: what the others hold stays.
LEMMA FileStep ==
  ASSUME IInv, [Next]_vars
  PROVE  HeldInFile'
<1>. USE ServiceFacts DEF IInv, TypeOK, ProcessesOK, HeldInFile, Alive
<1>1. ASSUME NEW p \in Procs, NEW n \in Pids, Start(p, n)
      PROVE  HeldInFile'
  <2>1. UNCHANGED <<lease, held>> /\ held[p] = 0
    BY <1>1 DEF Start
  <2>2. \A q \in Procs \ {p} : pid'[q] = pid[q]
    BY <1>1 DEF Start
  <2>. QED
    BY <2>1, <2>2
<1>2. ASSUME NEW p \in Procs, Acquire(p)
      PROVE  HeldInFile'
  <2>. DEFINE s0 == ServicesOf(p)[held[p] + 1]
             new == [owner |-> p, pid |-> pid[p]]
  <2>1. /\ pc[p] = "acquiring" /\ MayTake(s0)
        /\ lease' = [lease EXCEPT ![s0] = new]
        /\ held' = [held EXCEPT ![p] = held[p] + 1]
        /\ UNCHANGED pid
    BY <1>2 DEF Acquire
  <2>2. s0 \in Services /\ new # None /\ new.owner = p /\ new.pid = pid[p]
    <3>1. held[p] + 1 \in 1..Len(ServicesOf(p)) /\ pid[p] \in Pids
      BY <2>1, NextService
    <3>. QED
      BY <3>1, GuardAssumption DEF GuardAssumption
  <2>. SUFFICES ASSUME NEW q \in Procs, NEW i \in 1..held'[q]
                PROVE  /\ lease'[ServicesOf(q)[i]] # None
                       /\ lease'[ServicesOf(q)[i]].owner = q
                       /\ lease'[ServicesOf(q)[i]].pid = pid'[q]
    OBVIOUS
  <2>3. CASE q = p /\ i = held[p] + 1
    BY <2>1, <2>2, <2>3
  <2>4. CASE ~(q = p /\ i = held[p] + 1)
    <3>1. i \in 1..held[q]
      BY <2>1, <2>4
    <3>2. ServicesOf(q)[i] \in Services /\ ServicesOf(q)[i] # s0
      BY <2>1, <3>1, HeldIsTaken, HeldAreServices
    <3>3. lease'[ServicesOf(q)[i]] = lease[ServicesOf(q)[i]]
      BY <2>1, <3>2
    <3>. QED
      BY <2>1, <3>1, <3>3
  <2>. QED
    BY <2>3, <2>4
<1>3. ASSUME NEW p \in Procs, Refused(p) \/ Shutdown(p)
      PROVE  HeldInFile'
  BY <1>3 DEF Refused, Shutdown
<1>4. ASSUME NEW p \in Procs, ReleaseOne(p)
      PROVE  HeldInFile'
  <2>. DEFINE s0 == ServicesOf(p)[held[p]]
  <2>1. /\ held[p] \in 1..held[p]
        /\ held' = [held EXCEPT ![p] = held[p] - 1]
        /\ UNCHANGED pid
    BY <1>4 DEF ReleaseOne
  <2>2. lease' = [lease EXCEPT ![s0] = None] \/ lease' = lease
    BY <1>4, Zenon DEF ReleaseOne, Dropped
  <2>. SUFFICES ASSUME NEW q \in Procs, NEW i \in 1..held'[q]
                PROVE  /\ lease'[ServicesOf(q)[i]] # None
                       /\ lease'[ServicesOf(q)[i]].owner = q
                       /\ lease'[ServicesOf(q)[i]].pid = pid'[q]
    OBVIOUS
  <2>3. i \in 1..held[q] /\ (q = p => i # held[p])
    BY <2>1
  <2>4. ServicesOf(q)[i] # s0
    <3>1. CASE q = p
      BY <2>1, <2>3, <3>1, HeldAreServices
    <3>2. CASE q # p
      BY <2>1, <2>3, <3>2
    <3>. QED
      BY <3>1, <3>2
  <2>5. lease'[ServicesOf(q)[i]] = lease[ServicesOf(q)[i]]
    BY <2>2, <2>3, <2>4, HeldAreServices
  <2>. QED
    BY <2>1, <2>3, <2>5
<1>5. ASSUME NEW p \in Procs, Exit(p) \/ Crash(p)
      PROVE  HeldInFile'
  <2>1. UNCHANGED lease /\ held'[p] = 0
    BY <1>5 DEF Exit, Crash
  <2>2. \A q \in Procs \ {p} : pid'[q] = pid[q] /\ held'[q] = held[q]
    BY <1>5 DEF Exit, Crash
  <2>. QED
    BY <2>1, <2>2
<1>6. ASSUME NEW n \in Pids, AlienStarts(n) \/ AlienEnds(n)
      PROVE  HeldInFile'
  BY <1>6 DEF AlienStarts, AlienEnds
<1>7. ASSUME UNCHANGED vars
      PROVE  HeldInFile'
  BY <1>7 DEF vars
<1>. QED
  BY <1>1, <1>2, <1>3, <1>4, <1>5, <1>6, <1>7 DEF Next

\* A lease stays in the file only as long as its owner holds it, unless the
\* owner crashes.
LEMMA OwnerStep ==
  ASSUME IInv, [Next]_vars
  PROVE  OwnedIsHeld'
<1>. USE ServiceFacts DEF IInv, TypeOK, ProcessesOK, OwnedIsHeld, Holds, Alive
<1>1. ASSUME NEW p \in Procs, NEW n \in Pids, Start(p, n)
      PROVE  OwnedIsHeld'
  <2>1. /\ UNCHANGED <<lease, held>>
        /\ \A q \in Procs : pc[q] = "crashed" => pc'[q] = "crashed"
    BY <1>1 DEF Start
  <2>. QED
    BY <2>1
<1>2. ASSUME NEW p \in Procs, Acquire(p)
      PROVE  OwnedIsHeld'
  <2>. DEFINE s0 == ServicesOf(p)[held[p] + 1]
             new == [owner |-> p, pid |-> pid[p]]
  <2>1. /\ pc[p] = "acquiring" /\ s0 \in Services
        /\ lease' = [lease EXCEPT ![s0] = new]
        /\ held' = [held EXCEPT ![p] = held[p] + 1]
        /\ \A q \in Procs : pc[q] = "crashed" => pc'[q] = "crashed"
    BY <1>2, NextService DEF Acquire
  <2>2. \A q \in Procs, s \in Services : Holds(q, s) => Holds(q, s)'
    BY <2>1
  <2>. SUFFICES ASSUME NEW s \in Services, lease'[s] # None,
                       NEW o \in Procs, o = lease'[s].owner
                PROVE  pc'[o] = "crashed" \/ Holds(o, s)'
    BY TypeStep
  <2>3. CASE s = s0
    <3>1. o = p
      BY <2>1, <2>3
    <3>2. held[p] + 1 \in 1..held'[p]
      BY <2>1
    <3>. QED
      BY <2>3, <3>1, <3>2
  <2>4. CASE s # s0
    <3>1. lease'[s] = lease[s]
      BY <2>1, <2>4
    <3>. QED
      BY <2>1, <2>2, <3>1
  <2>. QED
    BY <2>3, <2>4
<1>3. ASSUME NEW p \in Procs, Refused(p) \/ Shutdown(p)
      PROVE  OwnedIsHeld'
  <2>1. /\ UNCHANGED <<lease, held>>
        /\ \A q \in Procs : pc[q] = "crashed" => pc'[q] = "crashed"
    BY <1>3 DEF Refused, Shutdown
  <2>. QED
    BY <2>1
<1>4. ASSUME NEW p \in Procs, ReleaseOne(p)
      PROVE  OwnedIsHeld'
  <2>. DEFINE s0 == ServicesOf(p)[held[p]]
  <2>1. /\ held[p] \in 1..held[p] /\ s0 \in Services
        /\ held' = [held EXCEPT ![p] = held[p] - 1]
        /\ UNCHANGED pc
    BY <1>4, HeldAreServices DEF ReleaseOne
  <2>2. \A s \in Services : lease'[s] # None => lease'[s] = lease[s]
    <3>1. lease' = [lease EXCEPT ![s0] = None] \/ lease' = lease
      BY <1>4, Zenon DEF ReleaseOne, Dropped
    <3>. QED
      BY <2>1, <3>1
  <2>3. lease'[s0] # None => lease'[s0].owner # p
    <3>1. CASE lease[s0] # None /\ lease[s0].owner = p
      <4>1. lease' = [lease EXCEPT ![s0] = None]
        BY <1>4, <3>1 DEF ReleaseOne, Dropped
      <4>. QED
        BY <2>1, <4>1
    <3>2. CASE ~(lease[s0] # None /\ lease[s0].owner = p)
      BY <2>1, <2>2, <3>2
    <3>. QED
      BY <3>1, <3>2
  <2>. SUFFICES ASSUME NEW s \in Services, lease'[s] # None,
                       NEW o \in Procs, o = lease'[s].owner
                PROVE  pc'[o] = "crashed" \/ Holds(o, s)'
    BY TypeStep
  <2>4. lease'[s] = lease[s]
    BY <2>2
  <2>5. CASE o # p
    BY <2>1, <2>4, <2>5
  <2>6. CASE o = p
    <3>1. s # s0
      BY <2>3, <2>4, <2>6
    <3>. QED
      BY <2>1, <2>4, <2>6, <3>1
  <2>. QED
    BY <2>5, <2>6
<1>5. ASSUME NEW p \in Procs, Exit(p) \/ Crash(p)
      PROVE  OwnedIsHeld'
  BY <1>5 DEF Exit, Crash
<1>6. ASSUME NEW n \in Pids, AlienStarts(n) \/ AlienEnds(n)
      PROVE  OwnedIsHeld'
  BY <1>6 DEF AlienStarts, AlienEnds
<1>7. ASSUME UNCHANGED vars
      PROVE  OwnedIsHeld'
  BY <1>7 DEF vars
<1>. QED
  BY <1>1, <1>2, <1>3, <1>4, <1>5, <1>6, <1>7 DEF Next

\* Two who hold a service are one, since the file names one owner.
LEMMA HoldersAreOne ==
  ASSUME IInv
  PROVE  OneHolder
BY DEF IInv, HeldInFile, OneHolder, Holds

\* Whoever makes a start give up, somebody else serves or goes on acquiring: if
\* it is itself about to give up, then because of a third one.  A bot that has
\* its first service is never stopped by another bot.
LEMMA RefusalHasCause ==
  ASSUME IInv, Undisturbed, NEW p \in Procs, Refused(p)
  PROVE  \E q \in Procs \ {p} :
           pc[q] = "serving" \/ (q \in Bots /\ pc[q] = "acquiring" /\ held[q] > 0)
<1>. USE ServiceFacts DEF IInv, TypeOK, ProcessesOK, Alive
<1>. DEFINE s == ServicesOf(p)[held[p] + 1]
<1>1. pc[p] = "acquiring" /\ s \in Services /\ lease[s] # None
  BY NextService DEF Refused, MayTake
<1>. HIDE DEF s
<1>2. PICK o \in Procs : o = lease[s].owner
  BY <1>1
<1>3. PICK i \in 1..held[o] : ServicesOf(o)[i] = s
  BY <1>1, <1>2 DEF OwnedIsHeld, Undisturbed, Holds
<1>4. o # p
  BY <1>1, <1>3, NextService, HeldAreServices DEF s
<1>5. held[o] > 0 /\ pc[o] \in {"acquiring", "serving", "rolling_back"}
  BY <1>3 DEF Undisturbed
<1>6. pc[o] # "serving" => o \in Bots
  BY <1>5, DaemonTakesOne
<1>7. CASE pc[o] \in {"acquiring", "serving"}
  BY <1>4, <1>5, <1>6, <1>7
<1>8. CASE pc[o] = "rolling_back"
  <2>1. PICK q \in Procs :
          pc[q] = "serving" \/ (q \in Bots /\ pc[q] = "acquiring" /\ held[q] > 0)
    BY <1>8 DEF StartsAreOrdered
  <2>2. q # p
    <3>. SUFFICES ASSUME q = p
                  PROVE  FALSE
      OBVIOUS
    <3>1. p \in Bots /\ held[p] > 0
      BY <1>1, <2>1
    <3>2. ServicesOf(p) = BotServices /\ ServicesOf(o) = BotServices
      BY <1>6, <1>8, <3>1 DEF ServicesOf
    <3>3. 1 \in 1..held[p] /\ 1 \in 1..held[o]
      BY <1>5, <3>1
    <3>. QED
      BY <1>4, <3>2, <3>3 DEF HeldInFile
  <2>. QED
    BY <2>1, <2>2
<1>. QED
  BY <1>5, <1>7, <1>8

\* Every step keeps a cause for the starts that gave up.
LEMMA OrderStep ==
  ASSUME IInv, [Next]_vars
  PROVE  StartsAreOrdered'
<1>. USE DEF IInv, TypeOK, ProcessesOK, StartsAreOrdered, Undisturbed
<1>1. ASSUME NEW p \in Procs, NEW n \in Pids, Start(p, n)
      PROVE  StartsAreOrdered'
  BY <1>1 DEF Start
<1>2. ASSUME NEW p \in Procs, Acquire(p)
      PROVE  StartsAreOrdered'
  BY <1>2 DEF Acquire
<1>3. ASSUME NEW p \in Procs, Refused(p)
      PROVE  StartsAreOrdered'
  <2>. SUFFICES ASSUME Undisturbed'
                PROVE  StartsAreOrdered'
    OBVIOUS
  <2>1. Undisturbed
    BY <1>3 DEF Refused
  <2>2. PICK q \in Procs \ {p} :
          pc[q] = "serving" \/ (q \in Bots /\ pc[q] = "acquiring" /\ held[q] > 0)
    BY <1>3, <2>1, RefusalHasCause
  <2>. QED
    BY <1>3, <2>2 DEF Refused
<1>4. ASSUME NEW p \in Procs, Shutdown(p) \/ Crash(p)
      PROVE  StartsAreOrdered'
  BY <1>4 DEF Shutdown, Crash
<1>5. ASSUME NEW p \in Procs, ReleaseOne(p)
      PROVE  StartsAreOrdered'
  BY <1>5 DEF ReleaseOne
<1>6. ASSUME NEW p \in Procs, Exit(p)
      PROVE  StartsAreOrdered'
  BY <1>6 DEF Exit
<1>7. ASSUME NEW n \in Pids, AlienStarts(n) \/ AlienEnds(n)
      PROVE  StartsAreOrdered'
  BY <1>7 DEF AlienStarts, AlienEnds
<1>8. ASSUME UNCHANGED vars
      PROVE  StartsAreOrdered'
  BY <1>8 DEF vars
<1>. QED
  BY <1>1, <1>2, <1>3, <1>4, <1>5, <1>6, <1>7, <1>8 DEF Next

-----------------------------------------------------------------------------
(* The theorems. *)

\* IInv is inductive.
THEOREM GuardInvariant == Spec => []IInv
<1>1. Init => IInv
  BY ServiceFacts, GuardAssumption
     DEF Init, IInv, TypeOK, ProcessesOK, HeldInFile, OwnedIsHeld, StartsAreOrdered,
         Alive, GuardAssumption
<1>2. IInv /\ [Next]_vars => IInv'
  BY TypeStep, ProcessStep, FileStep, OwnerStep, OrderStep DEF IInv
<1>. QED
  BY <1>1, <1>2, PTL DEF Spec

\* The lease file and the processes stay within their types.
THEOREM GuardTypes == Spec => []TypeOK
<1>1. IInv => TypeOK
  BY DEF IInv
<1>. QED
  BY <1>1, GuardInvariant, PTL

\* "Reject duplicate live owners": no service ever has two live holders.
THEOREM NoTwoHolders == Spec => []OneHolder
BY GuardInvariant, HoldersAreOne, PTL

\* No start and no rollback takes or drops the lease of a running service.
THEOREM RunningLeaseIsKept == Spec => []LeaseIsKept
<1>1. IInv => LeaseIsKept
  BY DEF IInv, HeldInFile, LeaseIsKept, Holds
<1>. QED
  BY <1>1, GuardInvariant, PTL

\* A start that gave up and a process that ended in order leave no lease.
THEOREM CleanEndLeavesNoLease == Spec => []OnlyCrashesLeaveLeases
<1>1. IInv => OnlyCrashesLeaveLeases
  BY DEF IInv, TypeOK, ProcessesOK, OwnedIsHeld, Holds, OnlyCrashesLeaveLeases
<1>. QED
  BY <1>1, GuardInvariant, PTL

\* Starts do not all refuse each other, however many there are.
THEOREM StartsDoNotAllFail == Spec => []SomebodyServes
<1>1. IInv => SomebodyServes
  BY DEF IInv, TypeOK, StartsAreOrdered, Undisturbed, SomebodyServes
<1>. QED
  BY <1>1, GuardInvariant, PTL
=============================================================================
