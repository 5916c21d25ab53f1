--------------------------- MODULE CodeRoomProofs ---------------------------
(***************************************************************************)
(* The working room and its runs for any number of specs, runs, attempts,  *)
(* orders and crashes, proved with TLAPS: a room or a file that says done  *)
(* has its commit on the branch, what lands was reviewed, a room that says *)
(* running has a run, and the runs implement SpecContract.                 *)
(*                                                                         *)
(* None of these preserves itself.  RunsOK says what has to be true of     *)
(* a run wherever it stands: from the cherry-pick on its change is on the  *)
(* branch, and a run whose change is there never starts again.  WorksOK    *)
(* says what a run has in its worktree: its own edits, those of its last   *)
(* attempt only, and nobody else's unless two runs share the worktree.     *)
(***************************************************************************)
EXTENDS CodeRoom, TLAPS

RunOK(r) ==
  /\ run[r].pc # "none" => run[r].spec \in Specs
  /\ run[r].pc \in InCycle => run[r].tree \in Runs
  /\ run[r].pc = "repair" => run[r].attempt < MaxAttempts
  /\ run[r].pc \in {"applied", "reporting"} => r \in landed
  /\ run[r].pc = "over" /\ run[r].ok => r \in landed
  /\ r \in landed =>
       run[r].pc \in {"applied", "reporting", "failing", "over", "closed"}

RunsOK == \A r \in Runs : RunOK(r)

CoreInv == TypeOK /\ RunsOK /\ DoneHasItsCommit

RoomInv == CoreInv /\ RoomTypeOK /\ DoneRoomIsRight

\* What no step takes back.
LandedKept ==
  /\ landed \subseteq landed'
  /\ \A x \in landed : run'[x].spec = run[x].spec

ContractStep == [Contract!Next]_(Contract!vars)

CoreStep == CoreInv' /\ LandedKept /\ ContractStep

\* The stages of a cycle before the cherry-pick.
Early == {"prepared", "editing", "gate", "review", "repair"}

\* The stages in which a run has its own attempt to answer for.
Working == Early \cup {"applied"}

\* No run with a cycle is in the worktree of this one.
Alone(r) ==
  \A x \in Runs \ {r} : run[x].pc \in InCycle => run[x].tree # run[r].tree

\* The worktree and the commit hold the edits of the last attempt alone.
OwnWork(r) ==
  /\ run[r].pc \in {"prepared", "editing"} => dirty[run[r].tree] = {}
  /\ run[r].pc = "gate" => dirty[run[r].tree] \subseteq {<<r, run[r].attempt>>}
  /\ run[r].pc \in {"review", "applied"} => run[r].commit = {<<r, run[r].attempt>>}

WorkOK(r) ==
  /\ run[r].pc = "queued" => run[r].tree = None
  /\ run[r].pc \in Working /\ ~run[r].shared => Alone(r) /\ OwnWork(r)

WorksOK == \A r \in Runs : WorkOK(r)

-----------------------------------------------------------------------------
(* Records of runs. *)

\* A queued run, a run that begins, a closed run and a decided one are records
\* of runs.
LEMMA RecordTypes ==
  ASSUME TypeOK, NEW r \in Runs, NEW pc \in PCs
  PROVE  /\ NoRun \in RunRecords
         /\ Closed(r) \in RunRecords
         /\ Decided(r, pc) \in RunRecords
         /\ run[r] \in RunRecords
<1>1. run[r] \in RunRecords
  BY DEF TypeOK
<1>2. NoRun \in RunRecords
  BY SpecRunsAssumption DEF RunRecords, NoRun, PCs
<1>3. Closed(r) \in RunRecords
  BY <1>1, <1>2 DEF RunRecords, Closed, PCs
<1>4. Decided(r, pc) \in RunRecords
  BY <1>1, <1>3 DEF RunRecords, Decided
<1>. QED
  BY <1>1, <1>2, <1>3, <1>4

\* The fields of the records a run is replaced by.
LEMMA Fields ==
  ASSUME TypeOK, NEW r \in Runs, NEW pc \in PCs
  PROVE  /\ Closed(r).pc = "closed" /\ Closed(r).spec = run[r].spec
         /\ Decided(r, pc).pc = pc /\ Decided(r, pc).spec = run[r].spec
         /\ Decided(r, pc).tree = run[r].tree
  BY RecordTypes DEF RunRecords, NoRun, Closed, Decided

\* What the end of a run leaves of its record, and of all the others.
LEMMA OverEffect ==
  ASSUME TypeOK, NEW r \in Runs, NEW ok \in BOOLEAN, Over(r, ok)
  PROVE  /\ run' \in [Runs -> RunRecords]
         /\ \A x \in Runs \ {r} : run'[x] = run[x]
         /\ run'[r].pc \in {"over", "closed"}
         /\ run'[r].spec = run[r].spec
         /\ run'[r].pc = "over" => run'[r].ok = ok
<1> DEFINE new == IF run[r].room THEN [Decided(r, "over") EXCEPT !.ok = ok]
                  ELSE Closed(r)
<1>1. "over" \in PCs
  BY DEF PCs
<1>2. /\ new \in RunRecords
      /\ new.pc \in {"over", "closed"}
      /\ new.spec = run[r].spec
      /\ new.pc = "over" => new.ok = ok
  <2>1. CASE run[r].room
    <3> DEFINE old == Decided(r, "over")
    <3>1. /\ old \in RunRecords
          /\ old.pc = "over" /\ old.spec = run[r].spec
      BY <1>1, RecordTypes, Fields
    <3>2. new = [old EXCEPT !.ok = ok]
      BY <2>1
    <3> HIDE DEF new, old
    <3>. QED
      BY <3>1, <3>2 DEF RunRecords
  <2>2. CASE ~run[r].room
    <3>1. new = Closed(r)
      BY <2>2
    <3> HIDE DEF new
    <3>. QED
      BY <1>1, <3>1, RecordTypes, Fields
  <2>. QED
    BY <2>1, <2>2
<1>3. run' = [run EXCEPT ![r] = new]
  BY DEF Over
<1> HIDE DEF new
<1>. QED
  BY <1>2, <1>3 DEF TypeOK

\* The editor adds edits to the worktree of its run and to no other.
LEMMA EditedType ==
  ASSUME TypeOK, NEW r \in Runs, Edited(r)
  PROVE  dirty' \in [Runs -> SUBSET Edits]
<1> DEFINE t == run[r].tree
           new == IF t \in trees THEN dirty[t] \cup {<<r, run[r].attempt>>}
                  ELSE dirty[t]
<1>1. dirty' = [dirty EXCEPT ![t] = new]
  BY DEF Edited
<1>2. run[r].attempt \in 1..MaxAttempts
  BY DEF TypeOK, RunRecords
<1>3. <<r, run[r].attempt>> \in Edits
  BY <1>2 DEF Edits
<1>4. t \in Runs => new \in SUBSET Edits
  BY <1>3 DEF TypeOK
<1> HIDE DEF new, t
<1>. QED
  BY <1>1, <1>4 DEF TypeOK

-----------------------------------------------------------------------------
(* How the invariants are kept when one run changes. *)

\* When one record changes, what every run had to satisfy has to be shown for
\* that one.
LEMMA OneRun ==
  ASSUME RunsOK, NEW r \in Runs, RunOK(r)',
         \A x \in Runs \ {r} : run'[x] = run[x],
         landed \subseteq landed', landed' \subseteq landed \cup {r}
  PROVE  RunsOK'
<1> SUFFICES ASSUME NEW x \in Runs PROVE RunOK(x)'
  BY DEF RunsOK
<1>1. CASE x = r
  BY <1>1
<1>2. CASE x # r
  <2>1. RunOK(x) /\ run'[x] = run[x] /\ (x \in landed' <=> x \in landed)
    BY <1>2 DEF RunsOK
  <2>. QED
    BY <2>1 DEF RunOK
<1>. QED
  BY <1>1, <1>2

\* A spec keeps its commit when the landed runs are kept with the specs they
\* are for.
LEMMA DoneKept ==
  ASSUME DoneHasItsCommit, LandedKept,
         \A s \in Specs : file'[s].status = "done" =>
           \/ file'[s] = file[s]
           \/ file'[s].sha \in landed' /\ run'[file'[s].sha].spec = s
  PROVE  DoneHasItsCommit'
<1> SUFFICES ASSUME NEW s \in Specs, file'[s].status = "done"
             PROVE  file'[s].sha \in landed' /\ run'[file'[s].sha].spec = s
  BY DEF DoneHasItsCommit
<1>1. CASE file'[s] = file[s]
  BY <1>1 DEF DoneHasItsCommit, LandedKept
<1>. QED
  BY <1>1

-----------------------------------------------------------------------------
(* The steps of the contract, told in the words of the runs. *)

Authorised(r) == IF run[r].pc \in InCycle THEN run[r].spec ELSE None

\* A step that leaves the statuses, the authorised runs and the branch alone is
\* a stutter of the contract.
LEMMA ContractStutters ==
  ASSUME \A s \in Specs : file'[s].status = file[s].status,
         \A r \in Runs : Authorised(r)' = Authorised(r),
         landed' = landed
  PROVE  ContractStep
<1>1. StatusOf' = StatusOf
  BY DEF StatusOf
<1>2. AuthorisedFor' = AuthorisedFor
  BY DEF AuthorisedFor, Authorised
<1>. QED
  BY <1>1, <1>2 DEF ContractStep, Contract!vars

StatusDecided(S, from, to) ==
  /\ \A s \in S : file[s].status \in from
  /\ \A s \in Specs : file'[s].status = IF s \in S THEN to ELSE file[s].status

\* A decision of the owner on a set of specs is one of the contract.
LEMMA ContractDecides ==
  ASSUME NEW S \in SUBSET Specs,
         \/ StatusDecided(S, {"absent"}, "pending_approval")
         \/ StatusDecided(S, {"pending_approval", "failed"}, "approved")
         \/ StatusDecided(S, {"pending_approval", "approved"}, "rejected"),
         \A r \in Runs : Authorised(r)' = Authorised(r),
         landed' = landed
  PROVE  ContractStep
<1>1. ASSUME NEW from, NEW to, StatusDecided(S, from, to)
      PROVE  Contract!Decide(S, from, to)
  <2>1. StatusOf' = [s \in Specs |-> IF s \in S THEN to ELSE StatusOf[s]]
    BY <1>1 DEF StatusOf, StatusDecided
  <2>2. AuthorisedFor' = AuthorisedFor
    BY DEF AuthorisedFor, Authorised
  <2>. QED
    BY <1>1, <2>1, <2>2 DEF Contract!Decide, StatusOf, StatusDecided
<1>2. Contract!Decided(S)
  BY <1>1 DEF Contract!Decided
<1>. QED
  BY <1>2 DEF ContractStep, Contract!Next

\* A run that passes the status gate is authorised in the contract.
LEMMA ContractAuthorises ==
  ASSUME NEW r \in Runs, NEW s \in Specs,
         Authorised(r) = None, r \notin landed, file[s].status = "approved",
         Authorised(r)' = s,
         \A x \in Runs \ {r} : Authorised(x)' = Authorised(x),
         file' = file, landed' = landed
  PROVE  ContractStep
<1>1. StatusOf' = StatusOf
  BY DEF StatusOf
<1>2. AuthorisedFor' = [AuthorisedFor EXCEPT ![r] = s]
  BY DEF AuthorisedFor, Authorised
<1>3. Contract!Authorise(r, s)
  BY <1>1, <1>2 DEF Contract!Authorise, StatusOf, AuthorisedFor, Authorised
<1>. QED
  BY <1>3 DEF ContractStep, Contract!Next

\* The cherry-pick lands the change in the contract.
LEMMA ContractLands ==
  ASSUME NEW r \in Runs, Authorised(r) # None, r \notin landed,
         landed' = landed \cup {r},
         \A x \in Runs : Authorised(x)' = Authorised(x), file' = file
  PROVE  ContractStep
<1>1. StatusOf' = StatusOf
  BY DEF StatusOf
<1>2. AuthorisedFor' = AuthorisedFor
  BY DEF AuthorisedFor, Authorised
<1>3. Contract!Land(r)
  BY <1>1, <1>2 DEF Contract!Land, AuthorisedFor, Authorised
<1>. QED
  BY <1>3 DEF ContractStep, Contract!Next

\* A verdict saved by an authorised run settles its spec in the contract.
LEMMA ContractSettles ==
  ASSUME NEW r \in Runs, NEW verdict \in {"done", "failed"},
         Authorised(r) \in Specs, verdict = "done" => r \in landed,
         \A s \in Specs : file'[s].status = IF s = Authorised(r) THEN verdict
                                            ELSE file[s].status,
         Authorised(r)' \in {Authorised(r), None},
         \A x \in Runs \ {r} : Authorised(x)' = Authorised(x),
         landed' = landed
  PROVE  ContractStep
<1>1. AuthorisedFor[r] = Authorised(r)
  BY DEF AuthorisedFor, Authorised
<1>2. StatusOf' = [StatusOf EXCEPT ![AuthorisedFor[r]] = verdict]
  BY <1>1 DEF StatusOf
<1>3. AuthorisedFor' \in {AuthorisedFor, [AuthorisedFor EXCEPT ![r] = None]}
  <2>1. AuthorisedFor' = [x \in Runs |-> Authorised(x)']
    BY DEF AuthorisedFor, Authorised
  <2>2. AuthorisedFor = [x \in Runs |-> Authorised(x)]
    BY DEF AuthorisedFor, Authorised
  <2>. QED
    BY <2>1, <2>2
<1>4. Contract!Settle(r, verdict)
  BY <1>1, <1>2, <1>3, SpecRunsAssumption DEF Contract!Settle
<1>. QED
  BY <1>4 DEF ContractStep, Contract!Next

\* Runs that end without a verdict are disbanded in the contract.
LEMMA ContractDisbands ==
  ASSUME NEW R \in SUBSET Runs,
         \A s \in Specs : file'[s].status = file[s].status,
         \A x \in Runs : Authorised(x)' = IF x \in R THEN None ELSE Authorised(x),
         landed' = landed
  PROVE  ContractStep
<1>1. StatusOf' = StatusOf
  BY DEF StatusOf
<1>2. AuthorisedFor' = [x \in Runs |-> IF x \in R THEN None ELSE AuthorisedFor[x]]
  BY DEF AuthorisedFor, Authorised
<1>3. Contract!Disband(R)
  BY <1>1, <1>2 DEF Contract!Disband
<1>. QED
  BY <1>3 DEF ContractStep, Contract!Next

-----------------------------------------------------------------------------
(* A run's steps, grouped by what they do to the run. *)

\* A run moves on before the cherry-pick.
LEMMA EarlyStep ==
  ASSUME CoreInv, NEW r \in Runs, TypeOK',
         run[r].pc \in Early, run'[r].pc \in Early,
         run'[r].spec = run[r].spec, run'[r].tree = run[r].tree,
         run'[r].pc = "repair" => run'[r].attempt < MaxAttempts,
         \A x \in Runs \ {r} : run'[x] = run[x],
         file' = file, landed' = landed
  PROVE  CoreStep
<1>1. RunOK(r) /\ TypeOK
  BY DEF CoreInv, RunsOK
<1>2. RunOK(r)'
  BY <1>1 DEF RunOK, Early, InCycle
<1>3. RunsOK'
  BY <1>2, OneRun DEF CoreInv
<1>4. LandedKept
  BY <1>1 DEF LandedKept, TypeOK
<1>5. DoneHasItsCommit'
  BY <1>4, DoneKept DEF CoreInv
<1>6. ContractStep
  <2>1. Authorised(r)' = Authorised(r)
    BY DEF Authorised, Early, InCycle
  <2>2. \A x \in Runs : Authorised(x)' = Authorised(x)
    BY <2>1 DEF Authorised
  <2>. QED
    BY <2>2, ContractStutters
<1>. QED
  BY <1>3, <1>4, <1>5, <1>6 DEF CoreStep, CoreInv

\* The cycle fails.
LEMMA FailStep ==
  ASSUME CoreInv, NEW r \in Runs, run[r].pc \in InCycle, FailCycle(r),
         trees' \subseteq Runs, dirty' \in [Runs -> SUBSET Edits],
         UNCHANGED restVars
  PROVE  CoreStep
<1>1. RunOK(r) /\ TypeOK
  BY DEF CoreInv, RunsOK
<1>2. run[r].spec \in Specs /\ run[r].tree \in Runs
  BY <1>1 DEF RunOK, InCycle
<1>3. /\ landed' = landed
      /\ orders' = orders /\ crashes' = crashes
  BY DEF restVars
<1>4. /\ run' \in [Runs -> RunRecords]
      /\ \A x \in Runs \ {r} : run'[x] = run[x]
      /\ run'[r].pc = "failing" /\ run'[r].spec = run[r].spec
      /\ run'[r].tree = run[r].tree
  <2>1. "failing" \in PCs
    BY DEF PCs, InCycle
  <2>2. /\ Decided(r, "failing") \in RunRecords
        /\ Decided(r, "failing").pc = "failing"
        /\ Decided(r, "failing").spec = run[r].spec
        /\ Decided(r, "failing").tree = run[r].tree
    BY <1>1, <2>1, RecordTypes, Fields
  <2>. QED
    BY <1>1, <2>2 DEF FailCycle, TypeOK
<1>5. file' = [file EXCEPT ![run[r].spec] = [status |-> "failed", sha |-> None]]
  BY DEF FailCycle, SaveVerdict
<1>6. TypeOK'
  BY <1>1, <1>2, <1>3, <1>4, <1>5 DEF TypeOK, FileRecords, Statuses
<1>7. RunsOK'
  <2>1. RunOK(r)'
    BY <1>2, <1>4 DEF RunOK, InCycle
  <2>. QED
    BY <2>1, <1>3, <1>4, OneRun DEF CoreInv
<1>8. LandedKept
  BY <1>1, <1>3, <1>4 DEF LandedKept, TypeOK
<1>9. DoneHasItsCommit'
  BY <1>1, <1>2, <1>5, <1>8, DoneKept DEF CoreInv, TypeOK
<1>10. ContractStep
  <2>1. Authorised(r) = run[r].spec /\ Authorised(r)' = run[r].spec
    BY <1>4 DEF Authorised, InCycle
  <2>2. \A x \in Runs \ {r} : Authorised(x)' = Authorised(x)
    BY <1>4 DEF Authorised
  <2>3. \A s \in Specs : file'[s].status = IF s = Authorised(r) THEN "failed"
                                          ELSE file[s].status
    BY <1>1, <1>2, <1>5, <2>1 DEF TypeOK
  <2>. QED
    BY <1>2, <1>3, <2>1, <2>2, <2>3, ContractSettles
<1>. QED
  BY <1>6, <1>7, <1>8, <1>9, <1>10 DEF CoreStep, CoreInv

\* The run ends, and leaves the files alone.
LEMMA OverStep ==
  ASSUME CoreInv, NEW r \in Runs, NEW ok \in BOOLEAN, Over(r, ok),
         run[r].pc # "none", ok => r \in landed, file' = file,
         trees' \subseteq Runs, dirty' \in [Runs -> SUBSET Edits],
         UNCHANGED restVars
  PROVE  CoreStep
<1>1. RunOK(r) /\ TypeOK
  BY DEF CoreInv, RunsOK
<1>2. run[r].spec \in Specs
  BY <1>1 DEF RunOK
<1>3. /\ landed' = landed
      /\ orders' = orders /\ crashes' = crashes
  BY DEF restVars
<1>4. /\ run' \in [Runs -> RunRecords]
      /\ \A x \in Runs \ {r} : run'[x] = run[x]
      /\ run'[r].pc \in {"over", "closed"}
      /\ run'[r].spec = run[r].spec
      /\ run'[r].pc = "over" => run'[r].ok = ok
  BY <1>1, OverEffect
<1>5. TypeOK'
  BY <1>1, <1>3, <1>4 DEF TypeOK
<1>6. RunsOK'
  <2>1. RunOK(r)'
    BY <1>2, <1>3, <1>4 DEF RunOK, InCycle
  <2>. QED
    BY <2>1, <1>3, <1>4, OneRun DEF CoreInv
<1>7. LandedKept
  BY <1>1, <1>3, <1>4 DEF LandedKept, TypeOK
<1>8. DoneHasItsCommit'
  BY <1>7, DoneKept DEF CoreInv
<1>9. ContractStep
  <2>1. \A x \in Runs : Authorised(x)' = IF x \in {r} THEN None ELSE Authorised(x)
    BY <1>4 DEF Authorised, InCycle
  <2>. QED
    BY <1>3, <2>1, ContractDisbands
<1>. QED
  BY <1>5, <1>6, <1>7, <1>8, <1>9 DEF CoreStep, CoreInv

-----------------------------------------------------------------------------
(* Each step of a run. *)

\* A worktree is opened: for this run, and beside those that are in it.
BeginsIn(r, t) ==
  /\ trees' = trees \cup {t} /\ dirty' = [dirty EXCEPT ![t] = {}]
  /\ run' \in [Runs -> RunRecords]
  /\ run'[r].pc = "prepared" /\ run'[r].spec = run[r].spec
  /\ run'[r].tree = t /\ run'[r].shared = (Users(t) # {})
  /\ run'[r].room = run[r].room
  /\ \A x \in Runs \ {r} :
       /\ run'[x].pc = run[x].pc /\ run'[x].spec = run[x].spec
       /\ run'[x].tree = run[x].tree /\ run'[x].attempt = run[x].attempt
       /\ run'[x].commit = run[x].commit /\ run'[x].ok = run[x].ok
       /\ run'[x].shared = (run[x].shared \/ x \in Users(t))
       /\ run'[x].room = run[x].room

LEMMA BeginEffect ==
  ASSUME TypeOK, NEW r \in Runs, Begin(r)
  PROVE  \E t \in Runs : BeginsIn(r, t)
<1> DEFINE t == IF run[r].resume \in trees THEN run[r].resume ELSE r
           opened == [run[r] EXCEPT !.pc = "prepared", !.tree = t,
                                    !.resume = None, !.shared = Users(t) # {}]
           beside(x) == [run[x] EXCEPT !.shared = @ \/ x \in Users(t)]
<1>1. t \in Runs
  BY DEF TypeOK
<1>2. /\ run' = [x \in Runs |-> IF x = r THEN opened ELSE beside(x)]
      /\ trees' = trees \cup {t}
      /\ dirty' = [dirty EXCEPT ![t] = {}]
  BY DEF Begin, OpenTree, Reset
<1>3. /\ opened \in RunRecords /\ opened.pc = "prepared"
      /\ opened.spec = run[r].spec /\ opened.tree = t
      /\ opened.shared = (Users(t) # {}) /\ opened.room = run[r].room
  <2>1. run[r] \in RunRecords
    BY DEF TypeOK
  <2>2. (Users(t) # {}) \in BOOLEAN
    OBVIOUS
  <2> HIDE DEF t
  <2>. QED
    BY <1>1, <2>1, <2>2 DEF RunRecords, PCs, InCycle
<1>4. ASSUME NEW x \in Runs
      PROVE  /\ beside(x) \in RunRecords /\ beside(x).pc = run[x].pc
             /\ beside(x).spec = run[x].spec /\ beside(x).tree = run[x].tree
             /\ beside(x).attempt = run[x].attempt
             /\ beside(x).commit = run[x].commit /\ beside(x).ok = run[x].ok
             /\ beside(x).shared = (run[x].shared \/ x \in Users(t))
             /\ beside(x).room = run[x].room
  <2>1. run[x] \in RunRecords
    BY DEF TypeOK
  <2>2. (run[x].shared \/ x \in Users(t)) \in BOOLEAN
    OBVIOUS
  <2>3. beside(x) = [run[x] EXCEPT !.shared = run[x].shared \/ x \in Users(t)]
    OBVIOUS
  <2> HIDE DEF beside, t
  <2>. QED
    BY <2>1, <2>2, <2>3 DEF RunRecords
<1> HIDE DEF t, opened, beside
<1>5. run' \in [Runs -> RunRecords]
  BY <1>2, <1>3, <1>4
<1>6. BeginsIn(r, t)
  BY <1>1, <1>2, <1>3, <1>4, <1>5 DEF BeginsIn
<1>. QED
  BY <1>1, <1>6

\* The status gate and the worktree: the only step that authorises a run.
LEMMA BeginStep ==
  ASSUME CoreInv, NEW r \in Runs, Begin(r)
  PROVE  CoreStep
<1>1. RunOK(r) /\ TypeOK /\ run[r].pc = "queued"
  BY DEF CoreInv, RunsOK, Begin, At
<1>2. run[r].spec \in Specs /\ r \notin landed
  BY <1>1 DEF RunOK
<1>3. /\ file' = file /\ landed' = landed
      /\ orders' = orders /\ crashes' = crashes
      /\ file[run[r].spec].status = "approved"
  BY DEF Begin, restVars
<1>. PICK t \in Runs : BeginsIn(r, t)
  BY <1>1, BeginEffect
<1>4. /\ trees' = trees \cup {t} /\ dirty' = [dirty EXCEPT ![t] = {}]
      /\ run' \in [Runs -> RunRecords]
      /\ run'[r].pc = "prepared" /\ run'[r].spec = run[r].spec /\ run'[r].tree = t
      /\ \A x \in Runs \ {r} :
           /\ run'[x].pc = run[x].pc /\ run'[x].spec = run[x].spec
           /\ run'[x].tree = run[x].tree /\ run'[x].attempt = run[x].attempt
           /\ run'[x].ok = run[x].ok
  BY DEF BeginsIn
<1>5. TypeOK'
  BY <1>1, <1>3, <1>4 DEF TypeOK
<1>6. RunsOK'
  <2> SUFFICES ASSUME NEW x \in Runs PROVE RunOK(x)'
    BY DEF RunsOK
  <2>1. CASE x = r
    BY <2>1, <1>2, <1>3, <1>4 DEF RunOK
  <2>2. CASE x # r
    <3>1. RunOK(x)
      BY DEF CoreInv, RunsOK
    <3>. QED
      BY <2>2, <3>1, <1>3, <1>4 DEF RunOK
  <2>. QED
    BY <2>1, <2>2
<1>7. LandedKept
  BY <1>1, <1>3, <1>4 DEF LandedKept, TypeOK
<1>8. DoneHasItsCommit'
  BY <1>3, <1>7, DoneKept DEF CoreInv
<1>9. ContractStep
  <2>1. Authorised(r) = None /\ Authorised(r)' = run[r].spec
    BY <1>1, <1>4 DEF Authorised, InCycle
  <2>2. \A x \in Runs \ {r} : Authorised(x)' = Authorised(x)
    BY <1>4 DEF Authorised
  <2>. QED
    BY <1>2, <1>3, <2>1, <2>2, ContractAuthorises
<1>. QED
  BY <1>5, <1>6, <1>7, <1>8, <1>9 DEF CoreStep, CoreInv

\* InvokeEditor, EditorReturns, CommitPasses, Repair and a refusal with a repair left.
LEMMA EarlySteps ==
  ASSUME CoreInv, NEW r \in Runs,
         \/ InvokeEditor(r) \/ EditorReturns(r) \/ CommitPasses(r) \/ Repair(r)
         \/ GateRefuses(r) /\ run[r].attempt < MaxAttempts
  PROVE  CoreStep
<1>1. RunOK(r) /\ TypeOK /\ run[r] \in RunRecords
  BY DEF CoreInv, RunsOK, TypeOK
<1>2. run[r].pc \in Early => run[r].tree \in Runs
  BY <1>1 DEF RunOK, Early, InCycle
<1>3. CASE InvokeEditor(r)
  <2>1. run[r].pc = "prepared" /\ run' = [run EXCEPT ![r].pc = "editing"]
    BY <1>3 DEF InvokeEditor, At, Goto
  <2>2. /\ file' = file /\ trees' = trees /\ dirty' = dirty /\ landed' = landed
        /\ orders' = orders /\ crashes' = crashes
    BY <1>3 DEF InvokeEditor, treeVars, restVars
  <2>3. TypeOK'
    BY <1>1, <2>1, <2>2 DEF TypeOK, RunRecords, PCs, InCycle
  <2>. QED
    BY <1>1, <2>1, <2>2, <2>3, EarlyStep DEF TypeOK, RunRecords, Early
<1>4. CASE EditorReturns(r)
  <2>1. run[r].pc = "editing" /\ run' = [run EXCEPT ![r].pc = "gate"]
    BY <1>4 DEF EditorReturns, At, Goto
  <2>2. /\ file' = file /\ trees' = trees /\ landed' = landed
        /\ orders' = orders /\ crashes' = crashes
    BY <1>4 DEF EditorReturns, restVars
  <2>3. dirty' \in [Runs -> SUBSET Edits]
    BY <1>1, <1>4, EditedType DEF EditorReturns
  <2>4. TypeOK'
    BY <1>1, <2>1, <2>2, <2>3 DEF TypeOK, RunRecords, PCs, InCycle
  <2>. QED
    BY <1>1, <2>1, <2>2, <2>4, EarlyStep DEF TypeOK, RunRecords, Early
<1>5. CASE CommitPasses(r)
  <2>1. /\ run[r].pc = "gate" /\ run[r].tree \in trees
        /\ run' = [run EXCEPT ![r].pc = "review", ![r].commit = dirty[run[r].tree]]
        /\ dirty' = [dirty EXCEPT ![run[r].tree] = {}]
    BY <1>5 DEF CommitPasses, At, Reset
  <2>2. /\ file' = file /\ trees' = trees /\ landed' = landed
        /\ orders' = orders /\ crashes' = crashes
    BY <1>5 DEF CommitPasses, restVars
  <2>3. dirty[run[r].tree] \in SUBSET Edits
    BY <1>1, <2>1 DEF TypeOK
  <2>4. TypeOK'
    BY <1>1, <2>1, <2>2, <2>3 DEF TypeOK, RunRecords, PCs, InCycle
  <2>. QED
    BY <1>1, <2>1, <2>2, <2>4, EarlyStep DEF TypeOK, RunRecords, Early
<1>6. CASE Repair(r)
  <2>1. /\ run[r].pc = "repair"
        /\ run' = [run EXCEPT ![r].pc = "editing", ![r].attempt = @ + 1]
        /\ dirty' = [dirty EXCEPT ![run[r].tree] = {}]
    BY <1>6 DEF Repair, At, Reset
  <2>2. /\ file' = file /\ trees' = trees /\ landed' = landed
        /\ orders' = orders /\ crashes' = crashes
    BY <1>6 DEF Repair, restVars
  <2>3. run[r].attempt + 1 \in 1..MaxAttempts
    BY <1>1, <2>1, SpecRunsAssumption DEF RunOK, RunRecords
  <2>4. TypeOK'
    BY <1>1, <2>1, <2>2, <2>3 DEF TypeOK, RunRecords, PCs, InCycle
  <2>. QED
    BY <1>1, <2>1, <2>2, <2>4, EarlyStep DEF TypeOK, RunRecords, Early
<1>7. CASE GateRefuses(r) /\ run[r].attempt < MaxAttempts
  <2>1. /\ run[r].pc \in {"gate", "review"}
        /\ run' = [run EXCEPT ![r].pc = "repair"] /\ file' = file
    BY <1>7 DEF GateRefuses, At, Goto
  <2>2. /\ trees' = trees /\ dirty' = dirty /\ landed' = landed
        /\ orders' = orders /\ crashes' = crashes
    BY <1>7 DEF GateRefuses, restVars, treeVars
  <2>3. TypeOK'
    BY <1>1, <2>1, <2>2 DEF TypeOK, RunRecords, PCs, InCycle
  <2>. QED
    BY <1>1, <1>7, <2>1, <2>2, <2>3, EarlyStep DEF TypeOK, RunRecords, Early
<1>. QED
  BY <1>3, <1>4, <1>5, <1>6, <1>7

\* The editor, a gate, git or the live environment ends the cycle.
LEMMA FailSteps ==
  ASSUME CoreInv, NEW r \in Runs,
         \/ EditorFails(r) \/ GitRefuses(r) \/ EnvRefused(r)
         \/ GateRefuses(r) /\ ~(run[r].attempt < MaxAttempts)
  PROVE  CoreStep
<1>1. TypeOK
  BY DEF CoreInv
<1>2. run[r].pc \in InCycle /\ FailCycle(r) /\ UNCHANGED restVars
  BY DEF EditorFails, GitRefuses, EnvRefused, GateRefuses, At, InCycle
<1>3. trees' \subseteq Runs
  BY <1>1 DEF EditorFails, GitRefuses, EnvRefused, GateRefuses, treeVars, TypeOK
<1>4. dirty' \in [Runs -> SUBSET Edits]
  <2>1. CASE EditorFails(r)
    BY <1>1, <2>1, EditedType DEF EditorFails
  <2>2. CASE GitRefuses(r) \/ EnvRefused(r) \/ GateRefuses(r)
    BY <1>1, <2>2 DEF GitRefuses, EnvRefused, GateRefuses, treeVars, TypeOK
  <2>. QED
    BY <2>1, <2>2
<1>. QED
  BY <1>2, <1>3, <1>4, FailStep

\* The cherry-pick.
LEMMA ApplyStep ==
  ASSUME CoreInv, NEW r \in Runs, Apply(r)
  PROVE  CoreStep
<1>1. RunOK(r) /\ TypeOK /\ run[r] \in RunRecords /\ run[r].pc = "review"
  BY DEF CoreInv, RunsOK, TypeOK, Apply, At
<1>2. run[r].spec \in Specs /\ run[r].tree \in Runs /\ r \notin landed
  BY <1>1 DEF RunOK, InCycle
<1>3. /\ run' = [run EXCEPT ![r].pc = "applied"] /\ landed' = landed \cup {r}
      /\ file' = file /\ trees' = trees /\ dirty' = dirty
      /\ orders' = orders /\ crashes' = crashes
  BY DEF Apply, Goto, treeVars
<1>4. /\ run'[r].pc = "applied" /\ run'[r].spec = run[r].spec
      /\ run'[r].tree = run[r].tree
      /\ \A x \in Runs \ {r} : run'[x] = run[x]
  BY <1>1, <1>3 DEF TypeOK, RunRecords
<1>5. TypeOK'
  BY <1>1, <1>3 DEF TypeOK, RunRecords, PCs, InCycle
<1>6. RunsOK'
  <2>1. RunOK(r)'
    BY <1>2, <1>3, <1>4 DEF RunOK
  <2>. QED
    BY <2>1, <1>3, <1>4, OneRun DEF CoreInv
<1>7. LandedKept
  BY <1>1, <1>3, <1>4 DEF LandedKept, TypeOK
<1>8. DoneHasItsCommit'
  BY <1>3, <1>7, DoneKept DEF CoreInv
<1>9. ContractStep
  <2>1. Authorised(r) = run[r].spec /\ Authorised(r)' = run[r].spec
    BY <1>1, <1>4 DEF Authorised, InCycle
  <2>2. \A x \in Runs : Authorised(x)' = Authorised(x)
    BY <1>4, <2>1 DEF Authorised
  <2>. QED
    BY <1>2, <1>3, <2>1, <2>2, SpecRunsAssumption, ContractLands
<1>. QED
  BY <1>5, <1>6, <1>7, <1>8, <1>9 DEF CoreStep, CoreInv

\* The file says done, whether or not that is committed.
LEMMA DoneSteps ==
  ASSUME CoreInv, NEW r \in Runs, MarkDone(r) \/ MarkDoneUncommitted(r)
  PROVE  CoreStep
<1>1. RunOK(r) /\ TypeOK /\ run[r].pc = "applied"
  BY DEF CoreInv, RunsOK, MarkDone, MarkDoneUncommitted, At
<1>2. run[r].spec \in Specs /\ run[r].tree \in Runs /\ r \in landed
  BY <1>1 DEF RunOK, InCycle
<1>3. /\ landed' = landed
      /\ orders' = orders /\ crashes' = crashes
  BY DEF MarkDone, MarkDoneUncommitted, restVars
<1>4. file' = [file EXCEPT ![run[r].spec] = [status |-> "done", sha |-> r]]
  BY DEF MarkDone, MarkDoneUncommitted, SaveVerdict
<1>5. trees' \subseteq Runs /\ dirty' \in [Runs -> SUBSET Edits]
  BY <1>1 DEF MarkDone, MarkDoneUncommitted, Cleanup, treeVars, TypeOK
<1>6. /\ run' \in [Runs -> RunRecords]
      /\ \A x \in Runs \ {r} : run'[x] = run[x]
      /\ run'[r].pc \in {"reporting", "over", "closed"}
      /\ run'[r].spec = run[r].spec
      /\ run'[r].pc = "reporting" => run'[r].tree = run[r].tree
  <2>1. CASE MarkDone(r)
    <3>1. "reporting" \in PCs
      BY DEF PCs, InCycle
    <3>2. /\ Decided(r, "reporting") \in RunRecords
          /\ Decided(r, "reporting").pc = "reporting"
          /\ Decided(r, "reporting").spec = run[r].spec
          /\ Decided(r, "reporting").tree = run[r].tree
      BY <1>1, <3>1, RecordTypes, Fields
    <3>. QED
      BY <1>1, <2>1, <3>2 DEF MarkDone, TypeOK
  <2>2. CASE MarkDoneUncommitted(r)
    BY <1>1, <2>2, OverEffect DEF MarkDoneUncommitted
  <2>. QED
    BY <2>1, <2>2
<1>7. TypeOK'
  BY <1>1, <1>2, <1>3, <1>4, <1>5, <1>6 DEF TypeOK, FileRecords, Statuses
<1>8. RunsOK'
  <2>1. RunOK(r)'
    BY <1>2, <1>3, <1>6 DEF RunOK, InCycle
  <2>. QED
    BY <2>1, <1>3, <1>6, OneRun DEF CoreInv
<1>9. LandedKept
  BY <1>1, <1>3, <1>6 DEF LandedKept, TypeOK
<1>10. DoneHasItsCommit'
  BY <1>1, <1>2, <1>3, <1>4, <1>6, <1>9, DoneKept DEF CoreInv, TypeOK
<1>11. ContractStep
  <2>1. Authorised(r) = run[r].spec /\ Authorised(r)' \in {run[r].spec, None}
    BY <1>1, <1>6 DEF Authorised, InCycle
  <2>2. \A x \in Runs \ {r} : Authorised(x)' = Authorised(x)
    BY <1>6 DEF Authorised
  <2>3. \A s \in Specs : file'[s].status = IF s = Authorised(r) THEN "done"
                                          ELSE file[s].status
    BY <1>1, <1>2, <1>4, <2>1 DEF TypeOK
  <2>. QED
    BY <1>2, <1>3, <2>1, <2>2, <2>3, ContractSettles
<1>. QED
  BY <1>7, <1>8, <1>9, <1>10, <1>11 DEF CoreStep, CoreInv

\* The failure is noted once more in the spec, when there is a worktree.
LEMMA ReportFailureStep ==
  ASSUME CoreInv, NEW r \in Runs, ReportFailure(r)
  PROVE  CoreStep
<1>1. RunOK(r) /\ TypeOK /\ run[r].pc = "failing"
  BY DEF CoreInv, RunsOK, ReportFailure, At
<1>2. run[r].spec \in Specs
  BY <1>1 DEF RunOK
<1>3. /\ landed' = landed /\ orders' = orders
      /\ crashes' = crashes /\ trees' = trees /\ dirty' = dirty
  BY DEF ReportFailure, restVars, treeVars
<1>4. /\ run' \in [Runs -> RunRecords]
      /\ \A x \in Runs \ {r} : run'[x] = run[x]
      /\ run'[r].pc \in {"over", "closed"}
      /\ run'[r].spec = run[r].spec
      /\ run'[r].pc = "over" => run'[r].ok = FALSE
  BY <1>1, OverEffect DEF ReportFailure
<1>5. \/ file' = file
      \/ file' = [file EXCEPT ![run[r].spec] = [status |-> "failed", sha |-> None]]
  BY DEF ReportFailure, SaveVerdict
<1>6. TypeOK'
  BY <1>1, <1>2, <1>3, <1>4, <1>5 DEF TypeOK, FileRecords, Statuses
<1>7. RunsOK'
  <2>1. RunOK(r)'
    BY <1>2, <1>3, <1>4 DEF RunOK, InCycle
  <2>. QED
    BY <2>1, <1>3, <1>4, OneRun DEF CoreInv
<1>8. LandedKept
  BY <1>1, <1>3, <1>4 DEF LandedKept, TypeOK
<1>9. DoneHasItsCommit'
  BY <1>1, <1>2, <1>5, <1>8, DoneKept DEF CoreInv, TypeOK
<1>10. ContractStep
  <2>1. Authorised(r) = run[r].spec /\ Authorised(r)' = None
    BY <1>1, <1>4 DEF Authorised, InCycle
  <2>2. \A x \in Runs \ {r} : Authorised(x)' = Authorised(x)
    BY <1>4 DEF Authorised
  <2>3. CASE file' = file
    <3>1. \A x \in Runs : Authorised(x)' = IF x \in {r} THEN None ELSE Authorised(x)
      BY <2>1, <2>2
    <3>. QED
      BY <1>3, <2>3, <3>1, ContractDisbands
  <2>4. CASE file' # file
    <3>1. \A s \in Specs : file'[s].status = IF s = Authorised(r) THEN "failed"
                                            ELSE file[s].status
      BY <1>1, <1>2, <1>5, <2>1, <2>4 DEF TypeOK
    <3>. QED
      BY <1>2, <1>3, <2>1, <2>2, <3>1, ContractSettles
  <2>. QED
    BY <2>3, <2>4
<1>. QED
  BY <1>6, <1>7, <1>8, <1>9, <1>10 DEF CoreStep, CoreInv

\* A run that is turned away, cancelled or has reported its success.
LEMMA OverSteps ==
  ASSUME CoreInv, NEW r \in Runs,
         TurnedAway(r) \/ ReportSuccess(r) \/ CancelRun(r)
  PROVE  CoreStep
<1>1. RunOK(r) /\ TypeOK
  BY DEF CoreInv, RunsOK
<1>2. /\ run[r].pc # "none" /\ file' = file
      /\ trees' \subseteq Runs /\ dirty' \in [Runs -> SUBSET Edits]
  BY <1>1 DEF TurnedAway, ReportSuccess, CancelRun, At, Cleanup, treeVars,
              TypeOK, InCycle
<1>3. UNCHANGED restVars
  BY DEF TurnedAway, ReportSuccess, CancelRun
<1>4. \/ Over(r, FALSE)
      \/ Over(r, TRUE) /\ r \in landed
  BY <1>1 DEF TurnedAway, ReportSuccess, CancelRun, At, RunOK
<1>. QED
  BY <1>2, <1>3, <1>4, OverStep

\* Every step of a run keeps the core invariant and the contract.
LEMMA RunSteps ==
  ASSUME CoreInv, NEW r \in Runs, RunStep(r)
  PROVE  CoreStep
  BY BeginStep, EarlySteps, FailSteps, ApplyStep, DoneSteps, ReportFailureStep,
     OverSteps DEF RunStep

-----------------------------------------------------------------------------
(* The owner's decisions and the runs they start. *)

OwnerDecides(S, from, to) ==
  /\ file' \in [Specs -> FileRecords]
  /\ \A s \in S : file[s].status \in from
  /\ \A s \in Specs : IF s \in S THEN file'[s].status = to
                      ELSE file'[s] = file[s]

FilesDecided ==
  \E S \in SUBSET Specs :
    \/ OwnerDecides(S, {"absent"}, "pending_approval")
    \/ OwnerDecides(S, {"pending_approval", "failed"}, "approved")
    \/ OwnerDecides(S, {"pending_approval", "approved"}, "rejected")

RunsStarted ==
  /\ run' \in [Runs -> RunRecords]
  /\ \A r \in Runs :
       \/ run'[r] = run[r]
       \/ /\ run[r].pc = "none"
          /\ run'[r].pc = "queued" /\ run'[r].spec \in Specs

RestKept ==
  /\ trees' = trees /\ dirty' = dirty /\ landed' = landed
  /\ crashes' = crashes
  /\ orders' \in 0..MaxOrders

\* What the owner and the architect may do to the files and the runs keeps the
\* core invariant and the contract.
LEMMA OwnerStep ==
  ASSUME CoreInv, FilesDecided, RunsStarted, RestKept
  PROVE  CoreStep
<1>1. TypeOK /\ RunsOK
  BY DEF CoreInv
<1>2. PICK S \in SUBSET Specs :
        \/ OwnerDecides(S, {"absent"}, "pending_approval")
        \/ OwnerDecides(S, {"pending_approval", "failed"}, "approved")
        \/ OwnerDecides(S, {"pending_approval", "approved"}, "rejected")
  BY DEF FilesDecided
<1>3. TypeOK'
  BY <1>1, <1>2 DEF TypeOK, RunsStarted, RestKept, OwnerDecides
<1>4. RunsOK'
  <2> SUFFICES ASSUME NEW r \in Runs PROVE RunOK(r)'
    BY DEF RunsOK
  <2>1. RunOK(r)
    BY <1>1 DEF RunsOK
  <2>. QED
    BY <2>1 DEF RunOK, RunsStarted, RestKept, InCycle
<1>5. LandedKept
  <2> SUFFICES ASSUME NEW x \in landed PROVE run'[x].spec = run[x].spec
    BY DEF LandedKept, RestKept
  <2>1. x \in Runs /\ run[x].pc # "none"
    BY <1>1 DEF TypeOK, RunsOK, RunOK
  <2>. QED
    BY <2>1 DEF RunsStarted
<1>6. DoneHasItsCommit'
  BY <1>2, <1>5, DoneKept DEF CoreInv, OwnerDecides
<1>7. ContractStep
  <2>1. \A r \in Runs : Authorised(r)' = Authorised(r)
    BY DEF RunsStarted, Authorised, InCycle
  <2>2. landed' = landed
    BY DEF RestKept
  <2>3. ASSUME NEW from, NEW to, OwnerDecides(S, from, to)
        PROVE  StatusDecided(S, from, to)
    BY <2>3 DEF OwnerDecides, StatusDecided
  <2>. QED
    BY <1>2, <2>1, <2>2, <2>3, ContractDecides
<1>. QED
  BY <1>3, <1>4, <1>5, <1>6, <1>7 DEF CoreStep, CoreInv

\* Each way to write a spec is a decision on a set of specs.
LEMMA FileEffects ==
  ASSUME TypeOK, NEW s \in Specs,
         \/ file' = file \/ Draft(s) \/ file' = Approved(s) \/ file' = Rejected(s)
  PROVE  FilesDecided
<1>1. CASE file' = file
  <2>1. OwnerDecides({}, {"absent"}, "pending_approval")
    BY <1>1 DEF OwnerDecides, TypeOK
  <2>. QED
    BY <2>1 DEF FilesDecided
<1>2. CASE Draft(s)
  <2>1. OwnerDecides({s}, {"absent"}, "pending_approval")
    BY <1>2 DEF Draft, OwnerDecides, TypeOK, FileRecords, Statuses
  <2>. QED
    BY <2>1 DEF FilesDecided
<1>3. CASE file' = Approved(s) /\ file' # file
  <2>1. OwnerDecides({s}, {"pending_approval", "failed"}, "approved")
    BY <1>3 DEF Approved, OwnerDecides, TypeOK, FileRecords, Statuses
  <2>. QED
    BY <2>1 DEF FilesDecided
<1>4. CASE file' = Rejected(s) /\ file' # file
  <2>1. OwnerDecides({s}, {"pending_approval", "approved"}, "rejected")
    BY <1>4 DEF Rejected, OwnerDecides, TypeOK, FileRecords, Statuses
  <2>. QED
    BY <2>1 DEF FilesDecided
<1>. QED
  BY <1>1, <1>2, <1>3, <1>4

\* A bundle is approved as a set.
LEMMA BundleEffect ==
  ASSUME TypeOK, NEW S \in SUBSET Specs, ApproveBundle(S)
  PROVE  FilesDecided
<1>1. OwnerDecides(S, {"pending_approval", "failed"}, "approved")
  BY DEF ApproveBundle, OwnerDecides, TypeOK, FileRecords, Statuses
<1>. QED
  BY <1>1 DEF FilesDecided

\* A run that is started is queued, and nothing else changes.
LEMMA StartEffect ==
  ASSUME TypeOK, NEW r \in Runs, NEW s \in Specs, NEW resume \in Runs \cup {None},
         NEW forRoom \in BOOLEAN, Started(r, s, resume, forRoom)
  PROVE  RunsStarted
<1> DEFINE new == [NoRun EXCEPT !.pc = "queued", !.spec = s, !.resume = resume,
                                !.room = forRoom]
<1>1. "queued" \in PCs /\ NoRun \in RunRecords
  BY RecordTypes DEF PCs
<1>2. new \in RunRecords /\ new.pc = "queued" /\ new.spec = s
  BY <1>1 DEF RunRecords
<1>3. run[r].pc = "none" /\ run' = [run EXCEPT ![r] = new]
  BY DEF Started
<1> HIDE DEF new
<1>. QED
  BY <1>2, <1>3 DEF RunsStarted, TypeOK

\* The slash commands.
LEMMA CommandStep ==
  ASSUME CoreInv, Command \/ StartBySlash
  PROVE  CoreStep
<1>1. TypeOK
  BY DEF CoreInv
<1>2. RestKept
  <2>1. orders < MaxOrders /\ orders' = orders + 1
    BY DEF Command, StartBySlash, Order
  <2>2. orders' \in 0..MaxOrders
    BY <1>1, <2>1, SpecRunsAssumption DEF TypeOK
  <2>3. UNCHANGED <<treeVars, countVars>>
    BY DEF Command, StartBySlash
  <2>. QED
    BY <2>2, <2>3 DEF RestKept, treeVars, countVars
<1>3. FilesDecided
  <2>1. CASE Command
    <3>1. CASE \E s \in Specs : Draft(s) \/ Approve(s) \/ Reject(s)
      BY <1>1, <3>1, FileEffects DEF Approve, Reject
    <3>2. CASE \E S \in SUBSET Specs : ApproveBundle(S)
      BY <1>1, <3>2, BundleEffect
    <3>. QED
      BY <2>1, <3>1, <3>2 DEF Command
  <2>2. CASE StartBySlash
    BY <1>1, <2>2, FileEffects DEF StartBySlash
  <2>. QED
    BY <2>1, <2>2
<1>4. RunsStarted
  <2>1. CASE Command
    BY <1>1, <2>1 DEF Command, RunsStarted, TypeOK
  <2>2. CASE StartBySlash
    BY <1>1, <2>2, StartEffect DEF StartBySlash
  <2>. QED
    BY <2>1, <2>2
<1>. QED
  BY <1>2, <1>3, <1>4, OwnerStep

\* A crash closes every run that was on its way.
LEMMA CrashStep ==
  ASSUME CoreInv, Crash
  PROVE  CoreStep
<1> DEFINE Lost == {r \in Runs : run[r].pc \in InCycle \cup {"queued", "over"}}
<1>1. TypeOK /\ RunsOK
  BY DEF CoreInv
<1>2. /\ file' = file /\ trees' = trees /\ dirty' = dirty /\ landed' = landed
      /\ orders' = orders
      /\ crashes' \in 0..MaxCrashes
  BY <1>1, SpecRunsAssumption DEF Crash, treeVars, TypeOK
<1>3. run' = [r \in Runs |-> IF r \in Lost THEN Closed(r) ELSE run[r]]
  BY DEF Crash
<1>4. \A r \in Runs : Closed(r) \in RunRecords /\ Closed(r).pc = "closed"
                      /\ Closed(r).spec = run[r].spec
  <2>1. "closed" \in PCs
    BY DEF PCs
  <2>. QED
    BY <1>1, <2>1, RecordTypes, Fields
<1>5. TypeOK'
  BY <1>1, <1>2, <1>3, <1>4 DEF TypeOK
<1>6. RunsOK'
  <2> SUFFICES ASSUME NEW r \in Runs PROVE RunOK(r)'
    BY DEF RunsOK
  <2>1. RunOK(r)
    BY <1>1 DEF RunsOK
  <2>2. CASE r \in Lost
    BY <2>1, <2>2, <1>2, <1>3, <1>4 DEF RunOK, InCycle
  <2>3. CASE r \notin Lost
    BY <2>1, <2>3, <1>2, <1>3 DEF RunOK
  <2>. QED
    BY <2>2, <2>3
<1>7. LandedKept
  BY <1>1, <1>2, <1>3, <1>4 DEF LandedKept, TypeOK
<1>8. DoneHasItsCommit'
  BY <1>2, <1>7, DoneKept DEF CoreInv
<1>9. ContractStep
  <2>1. \A r \in Runs : Authorised(r)' = IF r \in Lost THEN None ELSE Authorised(r)
    BY <1>3, <1>4 DEF Authorised, InCycle
  <2>2. Lost \in SUBSET Runs
    OBVIOUS
  <2> HIDE DEF Lost
  <2>. QED
    BY <1>2, <2>1, <2>2, ContractDisbands
<1>. QED
  BY <1>5, <1>6, <1>7, <1>8, <1>9 DEF CoreStep, CoreInv

-----------------------------------------------------------------------------
(* The room. *)

\* A room that says done says it of a slug that a room said it of before, or
\* of one with a change on the branch.
StillRight(state) ==
  state.stage = "done" =>
    \/ state.slug = room.slug /\ room.stage = "done"
    \/ state.slug = turn.copy.slug /\ turn.copy.stage = "done"
    \/ \E r \in landed' : run'[r].spec = state.slug

\* A room stays right when the landed runs are kept with the specs they are
\* for.
LEMMA RoomKept ==
  ASSUME RoomInv, CoreStep, room' \in Rooms, turn' \in Turns,
         StillRight(room'), StillRight(turn'.copy)
  PROVE  RoomInv' /\ ContractStep
<1>1. DoneRoomIsRight'
  <2> SUFFICES ASSUME NEW state \in {room', turn'.copy}, state.stage = "done"
               PROVE  \E r \in landed' : run'[r].spec = state.slug
    BY DEF DoneRoomIsRight
  <2>1. StillRight(state)
    OBVIOUS
  <2>2. ASSUME NEW old \in {room, turn.copy}, old.stage = "done"
        PROVE  \E r \in landed' : run'[r].spec = old.slug
    BY <2>2 DEF RoomInv, DoneRoomIsRight, CoreStep, LandedKept
  <2>. QED
    BY <2>1, <2>2 DEF StillRight
<1>. QED
  BY <1>1 DEF RoomInv, CoreStep, RoomTypeOK

\* Steps of the runs and commands that leave the room alone.
LEMMA RoomUntouched ==
  ASSUME RoomInv, CoreStep, UNCHANGED roomVars
  PROVE  RoomInv' /\ ContractStep
<1>1. room' = room /\ turn' = turn
  BY DEF roomVars
<1>2. StillRight(room') /\ StillRight(turn'.copy)
  BY <1>1 DEF StillRight
<1>. QED
  BY <1>1, <1>2, RoomKept DEF RoomInv, RoomTypeOK

\* Nothing outside the room changes, orders aside.
LEMMA NothingDecided ==
  ASSUME CoreInv, orders' \in 0..MaxOrders,
         UNCHANGED <<file, run, trees, dirty, landed, crashes>>
  PROVE  CoreStep
<1>1. FilesDecided
  <2>1. OwnerDecides({}, {"absent"}, "pending_approval")
    BY DEF OwnerDecides, CoreInv, TypeOK
  <2>. QED
    BY <2>1 DEF FilesDecided
<1>2. RunsStarted /\ RestKept
  BY DEF RunsStarted, RestKept, CoreInv, TypeOK
<1>. QED
  BY <1>1, <1>2, OwnerStep

\* Counting an order changes nothing the invariant speaks of.
LEMMA OrdersCounted ==
  ASSUME RoomInv, Message \/ orders' = orders
  PROVE  orders' \in 0..MaxOrders
<1>1. orders \in 0..MaxOrders
  BY DEF RoomInv, CoreInv, TypeOK
<1>2. CASE orders' = orders
  BY <1>1, <1>2
<1>3. CASE Message
  <2>1. orders < MaxOrders /\ orders' = orders + 1
    BY <1>3 DEF Message, Order
  <2>. QED
    BY <1>1, <2>1, SpecRunsAssumption
<1>. QED
  BY <1>2, <1>3

\* The rooms the handlers save have the type of a room.
LEMMA RoomRecords ==
  ASSUME RoomInv
  PROVE  /\ room \in Rooms /\ turn \in Turns /\ turn.copy \in Rooms
         /\ NoRoom \in Rooms /\ Fresh \in Rooms /\ Quiet \in Turns
         /\ NoRoom.stage # "done" /\ Fresh.stage # "done"
         /\ Quiet.copy = NoRoom
<1>1. NoRoom \in Rooms /\ Fresh \in Rooms
  BY DEF NoRoom, Fresh, Rooms, Stages
<1>. QED
  BY <1>1 DEF RoomInv, RoomTypeOK, Turns, Quiet, NoRoom, Fresh

\* The room expires, or a message opens, clears or only loads it.
LEMMA LoadedSteps ==
  ASSUME RoomInv, Expire \/ Enter \/ ClearOrComplete \/ Hear
  PROVE  RoomInv' /\ ContractStep
<1>1. CoreStep
  <2>1. UNCHANGED <<file, run, trees, dirty, landed, crashes>>
    BY DEF Expire, Enter, ClearOrComplete, Hear, specVars, vars, treeVars, countVars
  <2>2. Message \/ orders' = orders
    BY DEF Expire, Enter, ClearOrComplete, Hear, vars
  <2>. QED
    BY <2>1, <2>2, OrdersCounted, NothingDecided DEF RoomInv
<1>2. CASE Expire \/ Enter \/ ClearOrComplete
  <2>1. room' \in {Fresh, NoRoom} /\ turn' = turn
    BY <1>2 DEF Expire, Enter, ClearOrComplete
  <2>2. StillRight(room') /\ StillRight(turn'.copy)
    BY <2>1, RoomRecords DEF StillRight
  <2>. QED
    BY <1>1, <2>1, <2>2, RoomRecords, RoomKept
<1>3. CASE Hear
  <2>1. room' = room /\ turn' = [pc |-> "handling", copy |-> room]
    BY <1>3 DEF Hear
  <2>2. turn' \in Turns /\ turn'.copy = room
    BY <2>1, RoomRecords DEF Turns
  <2>3. StillRight(room') /\ StillRight(turn'.copy)
    BY <2>1, <2>2 DEF StillRight
  <2>. QED
    BY <1>1, <2>1, <2>2, <2>3, RoomRecords, RoomKept
<1>. QED
  BY <1>2, <1>3

\* A job that is created for a plan of the room, or refused.
LEMMA BackgroundEffect ==
  ASSUME RoomInv, NEW copy \in Rooms, copy.slug \in Specs, RunInBackground(copy),
         orders' \in 0..MaxOrders
  PROVE  RunsStarted /\ RestKept
<1>1. TypeOK
  BY DEF RoomInv, CoreInv
<1>2. RestKept
  BY DEF RunInBackground, RestKept, treeVars, countVars
<1>3. copy.resume \in Runs \cup {None}
  BY DEF Rooms
<1>4. RunsStarted
  <2>1. CASE UNCHANGED run
    BY <1>1, <2>1 DEF RunsStarted, TypeOK
  <2>2. CASE \E r \in Runs : Started(r, copy.slug, copy.resume, TRUE)
    BY <1>1, <1>3, <2>2, StartEffect
  <2>. QED
    BY <2>1, <2>2 DEF RunInBackground
<1>. QED
  BY <1>2, <1>4

\* What the handlers do to the specs, the runs and the room.
LEMMA HandlerSteps ==
  ASSUME RoomInv, NEW copy \in Rooms, StillRight(copy), orders' \in 0..MaxOrders,
         \/ HandleApprove(copy) \/ HandleRun(copy) \/ HandleReject(copy)
         \/ HandleMerge(copy) \/ HandleCompact(copy)
         \/ SaveCopy(copy) \/ SaveNothing
  PROVE  CoreStep /\ room' \in Rooms /\ StillRight(room')
<1>1. TypeOK /\ CoreInv
  BY DEF RoomInv, CoreInv
<1>2. copy.slug # None => copy.slug \in Specs
  BY DEF Rooms
<1>3. CASE HandleApprove(copy)
  <2>1. copy.slug \in Specs
    BY <1>2, <1>3 DEF HandleApprove
  <2>2. FilesDecided
    BY <1>1, <1>3, <2>1, FileEffects DEF HandleApprove
  <2>3. RunsStarted /\ RestKept
    BY <1>3, <2>1, BackgroundEffect DEF HandleApprove
  <2>4. room' \in Rooms /\ room'.stage = "running"
    BY <1>3 DEF HandleApprove, Rooms, Stages
  <2>. QED
    BY <1>1, <2>2, <2>3, <2>4, OwnerStep DEF StillRight
<1>4. CASE HandleRun(copy)
  <2>1. copy.slug \in Specs
    BY <1>2, <1>4 DEF HandleRun
  <2>2. FilesDecided
    BY <1>1, <1>4, <2>1, FileEffects DEF HandleRun
  <2>3. RunsStarted /\ RestKept
    BY <1>4, <2>1, BackgroundEffect DEF HandleRun
  <2>4. room' \in Rooms /\ room'.stage = "running"
    BY <1>4 DEF HandleRun, Rooms, Stages
  <2>. QED
    BY <1>1, <2>2, <2>3, <2>4, OwnerStep DEF StillRight
<1>5. CASE HandleReject(copy)
  <2>1. copy.slug \in Specs
    BY <1>2, <1>5 DEF HandleReject
  <2>2. FilesDecided
    BY <1>1, <1>5, <2>1, FileEffects DEF HandleReject
  <2>3. RunsStarted /\ RestKept
    BY <1>1, <1>5 DEF HandleReject, RunsStarted, RestKept, treeVars, countVars, TypeOK
  <2>4. room' \in Rooms /\ room'.stage = "idle"
    BY <1>5 DEF HandleReject, Rooms, Stages
  <2>. QED
    BY <1>1, <2>2, <2>3, <2>4, OwnerStep DEF StillRight
<1>6. CASE \/ HandleMerge(copy) \/ HandleCompact(copy)
           \/ SaveCopy(copy) \/ SaveNothing
  <2>1. CoreStep
    BY <1>1, <1>6, NothingDecided
       DEF HandleMerge, HandleCompact, SaveCopy, SaveNothing,
           specVars, treeVars, countVars
  <2>2. room' \in Rooms
    BY <1>6, RoomRecords
       DEF HandleMerge, HandleCompact, SaveCopy, SaveNothing, Rooms, Stages
  <2>3. StillRight(room')
    <3>1. CASE HandleMerge(copy)
      <4>1. room'.stage = "idle"
        BY <3>1 DEF HandleMerge, Rooms
      <4>. QED
        BY <4>1 DEF StillRight
    <3>2. CASE HandleCompact(copy)
      <4>1. room'.stage = copy.stage /\ room'.slug = copy.slug
        BY <3>2 DEF HandleCompact, Rooms
      <4>. QED
        BY <4>1 DEF StillRight
    <3>3. CASE SaveCopy(copy)
      BY <3>3 DEF SaveCopy
    <3>4. CASE SaveNothing
      BY <3>4 DEF SaveNothing, StillRight
    <3>. QED
      BY <1>6, <3>1, <3>2, <3>3, <3>4
  <2>. QED
    BY <2>1, <2>2, <2>3
<1>. QED
  BY <1>3, <1>4, <1>5, <1>6

\* The handlers that put a plan up for approval first.
LEMMA PendingSteps ==
  ASSUME RoomInv, NEW copy \in Rooms, orders' \in 0..MaxOrders,
         RecoveryResumes(copy) \/ \E s \in Specs : ExplicitSlug(copy, s)
  PROVE  CoreStep /\ room' \in Rooms /\ StillRight(room')
<1>1. ASSUME NEW plan \in Rooms, plan.stage = "pending_approval",
             HandleApprove(plan) \/ SaveCopy(plan)
      PROVE  CoreStep /\ room' \in Rooms /\ StillRight(room')
  <2>1. StillRight(plan)
    BY <1>1 DEF StillRight
  <2>. QED
    BY <1>1, <2>1, HandlerSteps
<1>2. CASE RecoveryResumes(copy)
  <2> DEFINE plan == [copy EXCEPT !.stage = "pending_approval", !.recovery = None]
  <2>1. plan \in Rooms /\ plan.stage = "pending_approval"
    BY DEF Rooms, Stages
  <2>2. HandleApprove(plan) \/ SaveCopy(plan)
    BY <1>2 DEF RecoveryResumes
  <2> HIDE DEF plan
  <2>. QED
    BY <1>1, <2>1, <2>2
<1>3. ASSUME NEW s \in Specs, ExplicitSlug(copy, s)
      PROVE  CoreStep /\ room' \in Rooms /\ StillRight(room')
  <2> DEFINE plan == [copy EXCEPT !.stage = "pending_approval", !.slug = s,
                                  !.recovery = None]
  <2>1. plan \in Rooms /\ plan.stage = "pending_approval"
    BY DEF Rooms, Stages
  <2>2. HandleApprove(plan)
    BY <1>3 DEF ExplicitSlug
  <2> HIDE DEF plan
  <2>. QED
    BY <1>1, <2>1, <2>2
<1>. QED
  BY <1>2, <1>3

\* The end of a message.
LEMMA HandledStep ==
  ASSUME RoomInv, Handled
  PROVE  RoomInv' /\ ContractStep
<1>1. StillRight(turn.copy)
  BY DEF StillRight
<1>2. orders' \in 0..MaxOrders
  BY OrdersCounted DEF Handled
<1>3. CoreStep /\ room' \in Rooms /\ StillRight(room')
  BY <1>1, <1>2, RoomRecords, HandlerSteps, PendingSteps DEF Handled
<1>4. turn' \in Turns /\ StillRight(turn'.copy)
  BY RoomRecords DEF Handled, StillRight
<1>. QED
  BY <1>3, <1>4, RoomKept

\* The architect is given a copy of the room that says so.
LEMMA DraftingStep ==
  ASSUME RoomInv, NEW copy \in Rooms, Drafting(copy), orders' \in 0..MaxOrders
  PROVE  RoomInv' /\ ContractStep
<1> DEFINE new == [copy EXCEPT !.stage = "drafting"]
<1>1. new \in Rooms /\ new.stage = "drafting"
  BY DEF Rooms, Stages
<1>2. turn' = [pc |-> "drafting", copy |-> new] /\ room' = turn'.copy
  BY DEF Drafting
<1> HIDE DEF new
<1>3. turn' \in Turns /\ room' \in Rooms /\ turn'.copy = new /\ room' = new
  BY <1>1, <1>2 DEF Turns
<1>4. StillRight(room') /\ StillRight(turn'.copy)
  BY <1>1, <1>3 DEF StillRight
<1>5. CoreStep
  BY NothingDecided DEF Drafting, specVars, treeVars, countVars, RoomInv
<1>. QED
  BY <1>3, <1>4, <1>5, RoomKept

\* A plan that is begun, in a room or with a new one, and ends.
LEMMA CreateSteps ==
  ASSUME RoomInv, DialogueStarts \/ CreateBegins \/ CreateEnds \/ CreateFails
  PROVE  RoomInv' /\ ContractStep
<1>1. TypeOK /\ CoreInv /\ turn.copy \in Rooms
  BY RoomRecords DEF RoomInv, CoreInv
<1>2. CASE CreateBegins
  <2>1. orders' \in 0..MaxOrders
    BY <1>2, OrdersCounted DEF CreateBegins
  <2>2. /\ [turn.copy EXCEPT !.resume = None] \in Rooms
        /\ [turn.copy EXCEPT !.recovery = None] \in Rooms
    BY <1>1 DEF Rooms
  <2>3. PICK copy \in Rooms : Drafting(copy)
    BY <1>1, <1>2, <2>2 DEF CreateBegins
  <2>. QED
    BY <2>1, <2>3, DraftingStep
<1>3. CASE CreateEnds
  <2>1. PICK s \in Specs :
          /\ Draft(s)
          /\ room' = [turn.copy EXCEPT !.stage = "pending_approval", !.slug = s,
                                       !.recovery = None]
    BY <1>3 DEF CreateEnds
  <2>2. FilesDecided
    BY <1>1, <2>1, FileEffects
  <2>3. orders' \in 0..MaxOrders
    BY <1>3, OrdersCounted DEF CreateEnds
  <2>4. RunsStarted /\ RestKept
    BY <1>1, <1>3, <2>3 DEF CreateEnds, RunsStarted, RestKept, treeVars, countVars, TypeOK
  <2>5. room' \in Rooms /\ room'.stage = "pending_approval"
    BY <1>1, <2>1 DEF Rooms, Stages
  <2>6. turn' \in Turns /\ StillRight(turn'.copy) /\ StillRight(room')
    BY <1>3, <2>5, RoomRecords DEF CreateEnds, StillRight
  <2>. QED
    BY <1>1, <2>2, <2>4, <2>5, <2>6, OwnerStep, RoomKept
<1>4. CASE CreateFails
  <2>1. orders' \in 0..MaxOrders
    BY <1>4, OrdersCounted DEF CreateFails, vars
  <2>2. CoreStep
    BY <1>1, <1>4, <2>1, NothingDecided DEF CreateFails, vars
  <2>3. room' \in Rooms /\ room'.stage = "idle"
    BY <1>1, <1>4 DEF CreateFails, Rooms, Stages
  <2>4. turn' \in Turns /\ StillRight(turn'.copy) /\ StillRight(room')
    BY <1>4, <2>3, RoomRecords DEF CreateFails, StillRight
  <2>. QED
    BY <2>2, <2>3, <2>4, RoomKept
<1>5. CASE DialogueStarts
  <2>1. Fresh \in Rooms /\ Drafting(Fresh)
    BY <1>5, RoomRecords DEF DialogueStarts
  <2>2. orders' \in 0..MaxOrders
    BY <1>5, OrdersCounted DEF DialogueStarts
  <2>. QED
    BY <2>1, <2>2, DraftingStep
<1>. QED
  BY <1>2, <1>3, <1>4, <1>5

\* A verdict reaches the room, or what is left of it.
LEMMA DeliverStep ==
  ASSUME RoomInv, NEW r \in Runs, Deliver(r)
  PROVE  RoomInv' /\ ContractStep
<1>1. CoreInv /\ TypeOK /\ RunOK(r) /\ run[r] \in RunRecords
  BY DEF RoomInv, CoreInv, RunsOK, TypeOK
<1>2. run[r].pc = "over" /\ run[r].spec \in Specs
  BY <1>1 DEF Deliver, At, RunOK
<1>3. /\ file' = file /\ trees' = trees /\ dirty' = dirty /\ landed' = landed
      /\ orders' = orders /\ crashes' = crashes
      /\ turn' = turn
  BY DEF Deliver, treeVars, restVars
<1>4. /\ run' \in [Runs -> RunRecords]
      /\ \A x \in Runs \ {r} : run'[x] = run[x]
      /\ run'[r].pc = "closed" /\ run'[r].spec = run[r].spec
  <2>1. "closed" \in PCs
    BY DEF PCs
  <2>2. Closed(r) \in RunRecords /\ Closed(r).pc = "closed"
        /\ Closed(r).spec = run[r].spec
    BY <1>1, <2>1, RecordTypes, Fields
  <2>. QED
    BY <1>1, <2>2 DEF Deliver, TypeOK
<1>5. LandedKept
  BY <1>1, <1>3, <1>4 DEF LandedKept, TypeOK
<1>6. CoreStep
  <2>1. TypeOK'
    BY <1>1, <1>3, <1>4 DEF TypeOK
  <2>2. RunOK(r)'
    BY <1>2, <1>3, <1>4 DEF RunOK, InCycle
  <2>3. RunsOK'
    BY <1>1, <1>3, <1>4, <2>2, OneRun DEF CoreInv
  <2>4. DoneHasItsCommit'
    BY <1>1, <1>3, <1>5, DoneKept DEF CoreInv
  <2>5. \A x \in Runs : Authorised(x)' = Authorised(x)
    BY <1>2, <1>4 DEF Authorised, InCycle
  <2>6. ContractStep
    BY <1>3, <2>5, ContractStutters
  <2>. QED
    BY <1>5, <2>1, <2>3, <2>4, <2>6 DEF CoreStep, CoreInv
<1>7. StillRight(turn'.copy)
  BY <1>3 DEF StillRight
<1>8. CASE room' = room
  BY <1>3, <1>6, <1>7, <1>8, RoomRecords, RoomKept DEF StillRight
<1>9. CASE room.slug = run[r].spec /\ room' = Verdict(r)
  <2>1. CASE run[r].ok
    <3>1. room' = [room EXCEPT !.stage = "done", !.resume = None, !.recovery = None]
      BY <1>9, <2>1 DEF Verdict
    <3>2. room' \in Rooms /\ room'.slug = run[r].spec
      BY <1>9, <3>1, RoomRecords DEF Rooms, Stages
    <3>3. r \in landed' /\ run'[r].spec = room'.slug
      BY <1>1, <1>2, <1>3, <1>4, <2>1, <3>2 DEF RunOK
    <3>4. StillRight(room')
      BY <3>3 DEF StillRight
    <3>. QED
      BY <1>3, <1>6, <1>7, <3>2, <3>4, RoomRecords, RoomKept
  <2>2. CASE ~run[r].ok
    <3>1. room' = [room EXCEPT !.stage = "pending_approval", !.recovery = "run_spec",
                     !.resume = IF run[r].tree \in trees THEN run[r].tree ELSE @]
      BY <1>9, <2>2 DEF Verdict
    <3>2. room' \in Rooms /\ room'.stage = "pending_approval"
      BY <1>1, <3>1, RoomRecords DEF Rooms, Stages, RunRecords, TypeOK
    <3>3. StillRight(room')
      BY <3>2 DEF StillRight
    <3>. QED
      BY <1>3, <1>6, <1>7, <3>2, <3>3, RoomRecords, RoomKept
  <2>. QED
    BY <2>1, <2>2
<1>. QED
  BY <1>8, <1>9 DEF Deliver

\* A crash forgets the message and keeps the room.
LEMMA CrashWithRoomStep ==
  ASSUME RoomInv, CrashWithRoom
  PROVE  RoomInv' /\ ContractStep
<1>1. CoreStep
  BY CrashStep DEF CrashWithRoom, RoomInv
<1>2. room' = room /\ turn' = Quiet
  BY DEF CrashWithRoom
<1>3. StillRight(room') /\ StillRight(turn'.copy)
  BY <1>2, RoomRecords DEF StillRight
<1>. QED
  BY <1>1, <1>2, <1>3, RoomRecords, RoomKept

\* Every step of the room and of the runs keeps the invariant and the contract.
LEMMA StepRoomInv ==
  ASSUME RoomInv, [RoomNext]_allVars
  PROVE  RoomInv' /\ ContractStep
<1>1. CASE Turn
  BY <1>1, LoadedSteps, HandledStep, CreateSteps DEF Turn
<1>2. CASE \E r \in Runs : Deliver(r)
  BY <1>2, DeliverStep
<1>3. CASE \E r \in Runs : RunStep(r) /\ UNCHANGED roomVars
  BY <1>3, RunSteps, RoomUntouched DEF RoomInv
<1>4. CASE (Command \/ StartBySlash) /\ UNCHANGED roomVars
  BY <1>4, CommandStep, RoomUntouched DEF RoomInv
<1>5. CASE CrashWithRoom
  BY <1>5, CrashWithRoomStep
<1>6. CASE UNCHANGED allVars
  <2>1. CoreStep
    BY <1>6, OrdersCounted, NothingDecided DEF allVars, vars, RoomInv
  <2>. QED
    BY <1>6, <2>1, RoomUntouched DEF allVars
<1>. QED
  BY <1>1, <1>2, <1>3, <1>4, <1>5, <1>6 DEF RoomNext

\* The invariant holds at the start.
LEMMA InitRoomInv ==
  ASSUME RoomInit
  PROVE  RoomInv /\ Contract!Init
<1>1. /\ file \in [Specs -> [status : {"absent", "pending_approval"}, sha : {None}]]
      /\ run = [r \in Runs |-> NoRun] /\ trees = {} /\ landed = {}
      /\ dirty = [r \in Runs |-> {}]
      /\ orders = 0 /\ crashes = 0
  BY DEF RoomInit, Init
<1>2. NoRun \in RunRecords /\ NoRun.pc = "none"
  BY SpecRunsAssumption DEF NoRun, RunRecords, PCs
<1>3. TypeOK
  BY <1>1, <1>2, SpecRunsAssumption DEF TypeOK, FileRecords, Statuses
<1>4. RunsOK
  BY <1>1, <1>2 DEF RunsOK, RunOK, InCycle
<1>5. DoneHasItsCommit
  BY <1>1 DEF DoneHasItsCommit
<1>6. NoRoom \in Rooms /\ NoRoom.stage # "done"
  BY DEF NoRoom, Rooms, Stages
<1>7. room \in Rooms /\ room.stage # "done"
  BY <1>6 DEF RoomInit, NoRoom, Fresh, Rooms, Stages
<1>8. turn \in Turns /\ turn.copy = NoRoom
  BY <1>6 DEF RoomInit, Quiet, Turns
<1>9. RoomTypeOK /\ DoneRoomIsRight
  BY <1>6, <1>7, <1>8 DEF RoomTypeOK, DoneRoomIsRight
<1>10. Contract!Init
  <2>1. StatusOf \in [Specs -> {"absent", "pending_approval"}]
    BY <1>1 DEF StatusOf
  <2>2. AuthorisedFor = [r \in Runs |-> None]
    BY <1>1, <1>2 DEF AuthorisedFor, InCycle
  <2>. QED
    BY <1>1, <2>1, <2>2 DEF Contract!Init
<1>. QED
  BY <1>3, <1>4, <1>5, <1>9, <1>10 DEF RoomInv, CoreInv

-----------------------------------------------------------------------------
(* The work a run answers for. *)

\* One record changes and the run does not enter a cycle: its work has to be
\* shown to be its own, that of the others is in other worktrees.
LEMMA OneRunWorks ==
  ASSUME CoreInv, WorksOK, NEW r \in Runs,
         \A x \in Runs \ {r} : run'[x] = run[x],
         \A t \in Runs : dirty'[t] = dirty[t] \/ (run[r].pc \in InCycle /\ t = run[r].tree),
         run'[r].pc \in InCycle => run[r].pc \in InCycle /\ run'[r].tree = run[r].tree,
         run'[r].pc = "queued" => run'[r].tree = None,
         run'[r].pc \in Working /\ ~run'[r].shared =>
           run[r].pc \in Working /\ ~run[r].shared /\ OwnWork(r)'
  PROVE  WorksOK'
<1> SUFFICES ASSUME NEW x \in Runs PROVE WorkOK(x)'
  BY DEF WorksOK
<1>1. Working \subseteq InCycle
  BY DEF Working, Early, InCycle
<1>2. WorkOK(x) /\ RunOK(x)
  BY DEF WorksOK, CoreInv, RunsOK
<1>3. CASE x = r
  <2> SUFFICES ASSUME run'[r].pc \in Working, ~run'[r].shared
               PROVE  Alone(r)'
    BY <1>3 DEF WorkOK
  <2>1. Alone(r) /\ run'[r].tree = run[r].tree
    BY <1>1, <1>2, <1>3 DEF WorkOK
  <2>. QED
    BY <2>1 DEF Alone
<1>4. CASE x # r
  <2>1. run'[x] = run[x]
    BY <1>4
  <2> SUFFICES ASSUME run[x].pc \in Working, ~run[x].shared
               PROVE  Alone(x)' /\ OwnWork(x)'
    BY <1>2, <2>1 DEF WorkOK
  <2>2. Alone(x) /\ OwnWork(x) /\ run[x].tree \in Runs
    BY <1>1, <1>2 DEF WorkOK, RunOK
  <2>3. Alone(x)'
    <3> SUFFICES ASSUME NEW y \in Runs \ {x}, run'[y].pc \in InCycle
                 PROVE  run'[y].tree # run'[x].tree
      BY DEF Alone
    <3>1. run[y].pc \in InCycle /\ run'[y].tree = run[y].tree
      OBVIOUS
    <3>. QED
      BY <2>1, <2>2, <3>1 DEF Alone
  <2>4. dirty'[run[x].tree] = dirty[run[x].tree]
    BY <1>4, <2>2 DEF Alone
  <2>. QED
    BY <2>1, <2>2, <2>3, <2>4 DEF OwnWork
<1>. QED
  BY <1>3, <1>4

\* The editor works in the worktree of its run, and git cleans no other.
LEMMA OneWorktree ==
  ASSUME CoreInv, WorksOK, NEW r \in Runs, run[r].pc \in InCycle \cup {"queued"},
         \/ dirty' = dirty \/ Edited(r) \/ Reset(run[r].tree) \/ Cleanup(r)
  PROVE  \A t \in Runs :
           dirty'[t] = dirty[t] \/ (run[r].pc \in InCycle /\ t = run[r].tree)
<1>1. CASE run[r].pc \in InCycle
  BY <1>1 DEF Edited, Reset, Cleanup, CoreInv, TypeOK
<1>2. CASE run[r].pc = "queued"
  <2>1. run[r].tree = None /\ None \notin Runs
    BY <1>2, SpecRunsAssumption DEF WorksOK, WorkOK
  <2>2. dirty \in [Runs -> SUBSET Edits]
    BY DEF CoreInv, TypeOK
  <2>. QED
    BY <2>1, <2>2 DEF Edited, Reset, Cleanup
<1>. QED
  BY <1>1, <1>2

\* InvokeEditor, EditorReturns, CommitPasses, Repair, a refusal with a repair
\* left and Apply: what is in the worktree and in the commit is the attempt's.
LEMMA CycleWorks ==
  ASSUME CoreInv, WorksOK, NEW r \in Runs,
         \/ InvokeEditor(r) \/ EditorReturns(r) \/ CommitPasses(r) \/ Repair(r)
         \/ Apply(r) \/ (GateRefuses(r) /\ run[r].attempt < MaxAttempts)
  PROVE  WorksOK'
<1>1. /\ run[r] \in RunRecords /\ run \in [Runs -> RunRecords]
      /\ dirty \in [Runs -> SUBSET Edits] /\ run[r].attempt \in Nat
      /\ RunOK(r) /\ WorkOK(r)
  BY SpecRunsAssumption DEF CoreInv, TypeOK, RunsOK, WorksOK, RunRecords
<1>2. run[r].pc \in Early
  BY DEF InvokeEditor, EditorReturns, CommitPasses, Repair, Apply, GateRefuses, At,
         Early
<1>3. run[r].pc \in InCycle /\ run[r].pc \in Working /\ run[r].tree \in Runs
  BY <1>1, <1>2 DEF Early, InCycle, Working, RunOK
<1>4. ASSUME NEW new, run' = [run EXCEPT ![r] = new],
             new.pc \in Working, new.tree = run[r].tree, new.shared = run[r].shared,
             \/ dirty' = dirty \/ Edited(r) \/ Reset(run[r].tree),
             OwnWork(r) => OwnWork(r)'
      PROVE  WorksOK'
  <2>1. run'[r] = new /\ \A x \in Runs \ {r} : run'[x] = run[x]
    BY <1>1, <1>4
  <2>2. \A t \in Runs : dirty'[t] = dirty[t] \/ (run[r].pc \in InCycle /\ t = run[r].tree)
    BY <1>3, <1>4, OneWorktree
  <2>3. run'[r].pc # "queued"
    BY <1>4, <2>1 DEF Working, Early
  <2>4. ~run[r].shared => OwnWork(r)'
    BY <1>1, <1>3, <1>4 DEF WorkOK
  <2>. QED
    BY <1>3, <1>4, <2>1, <2>2, <2>3, <2>4, OneRunWorks
<1>5. CASE InvokeEditor(r)
  <2> DEFINE new == [run[r] EXCEPT !.pc = "editing"]
  <2>1. /\ run' = [run EXCEPT ![r] = new] /\ dirty' = dirty /\ run[r].pc = "prepared"
    BY <1>5 DEF InvokeEditor, At, Goto, treeVars
  <2>2. /\ new.pc = "editing" /\ new.tree = run[r].tree /\ new.shared = run[r].shared
    BY <1>1 DEF RunRecords
  <2> HIDE DEF new
  <2>3. OwnWork(r) => OwnWork(r)'
    BY <1>1, <2>1, <2>2 DEF OwnWork
  <2>4. new.pc \in Working
    BY <2>2 DEF Working, Early
  <2>. QED
    BY <1>4, <2>1, <2>2, <2>3, <2>4
<1>6. CASE EditorReturns(r)
  <2> DEFINE new == [run[r] EXCEPT !.pc = "gate"]
  <2>1. /\ run' = [run EXCEPT ![r] = new] /\ Edited(r) /\ run[r].pc = "editing"
    BY <1>6 DEF EditorReturns, At, Goto
  <2>2. /\ new.pc = "gate" /\ new.tree = run[r].tree /\ new.shared = run[r].shared
        /\ new.attempt = run[r].attempt
    BY <1>1 DEF RunRecords
  <2> HIDE DEF new
  <2>3. dirty'[run[r].tree] \subseteq dirty[run[r].tree] \cup {<<r, run[r].attempt>>}
    BY <1>1, <1>3, <2>1 DEF Edited
  <2>4. OwnWork(r) => OwnWork(r)'
    BY <1>1, <2>1, <2>2, <2>3 DEF OwnWork
  <2>5. new.pc \in Working
    BY <2>2 DEF Working, Early
  <2>. QED
    BY <1>4, <2>1, <2>2, <2>4, <2>5
<1>7. CASE CommitPasses(r)
  <2> DEFINE new == [run[r] EXCEPT !.pc = "review", !.commit = dirty[run[r].tree]]
  <2>1. /\ run' = [run EXCEPT ![r] = new] /\ Reset(run[r].tree) /\ run[r].pc = "gate"
        /\ dirty[run[r].tree] # {}
    BY <1>1, <1>7 DEF CommitPasses, At
  <2>2. /\ new.pc = "review" /\ new.tree = run[r].tree /\ new.shared = run[r].shared
        /\ new.attempt = run[r].attempt /\ new.commit = dirty[run[r].tree]
    BY <1>1 DEF RunRecords
  <2> HIDE DEF new
  <2>3. OwnWork(r) => OwnWork(r)'
    BY <1>1, <2>1, <2>2 DEF OwnWork
  <2>4. new.pc \in Working
    BY <2>2 DEF Working, Early
  <2>. QED
    BY <1>4, <2>1, <2>2, <2>3, <2>4
<1>8. CASE Repair(r)
  <2> DEFINE new == [run[r] EXCEPT !.pc = "editing", !.attempt = run[r].attempt + 1]
  <2>1. /\ run' = [run EXCEPT ![r] = new] /\ Reset(run[r].tree) /\ run[r].pc = "repair"
    BY <1>1, <1>8 DEF Repair, At
  <2>2. /\ new.pc = "editing" /\ new.tree = run[r].tree /\ new.shared = run[r].shared
    BY <1>1 DEF RunRecords
  <2> HIDE DEF new
  <2>3. dirty'[run[r].tree] = {}
    BY <1>1, <1>3, <2>1 DEF Reset
  <2>4. OwnWork(r)'
    BY <1>1, <2>1, <2>2, <2>3 DEF OwnWork
  <2>5. new.pc \in Working
    BY <2>2 DEF Working, Early
  <2>. QED
    BY <1>4, <2>1, <2>2, <2>4, <2>5
<1>9. CASE Apply(r)
  <2> DEFINE new == [run[r] EXCEPT !.pc = "applied"]
  <2>1. /\ run' = [run EXCEPT ![r] = new] /\ dirty' = dirty /\ run[r].pc = "review"
    BY <1>9 DEF Apply, At, Goto, treeVars
  <2>2. /\ new.pc = "applied" /\ new.tree = run[r].tree /\ new.shared = run[r].shared
        /\ new.attempt = run[r].attempt /\ new.commit = run[r].commit
    BY <1>1 DEF RunRecords
  <2> HIDE DEF new
  <2>3. OwnWork(r) => OwnWork(r)'
    BY <1>1, <2>1, <2>2 DEF OwnWork
  <2>4. new.pc \in Working
    BY <2>2 DEF Working
  <2>. QED
    BY <1>4, <2>1, <2>2, <2>3, <2>4
<1>10. CASE GateRefuses(r) /\ run[r].attempt < MaxAttempts
  <2> DEFINE new == [run[r] EXCEPT !.pc = "repair"]
  <2>1. /\ run' = [run EXCEPT ![r] = new] /\ dirty' = dirty
    BY <1>10 DEF GateRefuses, Goto, treeVars
  <2>2. /\ new.pc = "repair" /\ new.tree = run[r].tree /\ new.shared = run[r].shared
    BY <1>1 DEF RunRecords
  <2> HIDE DEF new
  <2>3. OwnWork(r)'
    BY <1>1, <2>1, <2>2 DEF OwnWork
  <2>4. new.pc \in Working
    BY <2>2 DEF Working, Early
  <2>. QED
    BY <1>4, <2>1, <2>2, <2>3, <2>4
<1>. QED
  BY <1>5, <1>6, <1>7, <1>8, <1>9, <1>10

\* The work of a run that has its verdict, or is turned away, is nobody's.
LEMMA EndWorks ==
  ASSUME CoreInv, WorksOK, NEW r \in Runs,
         \/ TurnedAway(r) \/ EditorFails(r) \/ GitRefuses(r) \/ EnvRefused(r)
         \/ (GateRefuses(r) /\ ~(run[r].attempt < MaxAttempts))
         \/ MarkDone(r) \/ MarkDoneUncommitted(r)
         \/ ReportSuccess(r) \/ ReportFailure(r) \/ CancelRun(r)
  PROVE  WorksOK'
<1>1. TypeOK /\ run \in [Runs -> RunRecords]
  BY DEF CoreInv, TypeOK
<1>2. run[r].pc \in InCycle \cup {"queued"}
  BY DEF TurnedAway, EditorFails, GitRefuses, EnvRefused, GateRefuses, MarkDone,
         MarkDoneUncommitted, ReportSuccess, ReportFailure, CancelRun, At, InCycle
<1>3. \/ dirty' = dirty \/ Edited(r) \/ Reset(run[r].tree) \/ Cleanup(r)
  BY DEF TurnedAway, EditorFails, GitRefuses, EnvRefused, GateRefuses, MarkDone,
         MarkDoneUncommitted, ReportSuccess, ReportFailure, CancelRun, treeVars
<1>4. \/ Over(r, TRUE) \/ Over(r, FALSE)
      \/ /\ run[r].pc \in InCycle
         /\ \E pc \in {"failing", "reporting"} : run' = [run EXCEPT ![r] = Decided(r, pc)]
  BY DEF TurnedAway, EditorFails, GitRefuses, EnvRefused, GateRefuses, MarkDone,
         MarkDoneUncommitted, ReportSuccess, ReportFailure, CancelRun, FailCycle, At,
         InCycle
<1>5. /\ \A x \in Runs \ {r} : run'[x] = run[x]
      /\ run'[r].pc \in {"failing", "reporting", "over", "closed"}
      /\ run'[r].pc \in InCycle => run[r].pc \in InCycle /\ run'[r].tree = run[r].tree
  <2>1. CASE Over(r, TRUE) \/ Over(r, FALSE)
    BY <1>1, <2>1, OverEffect DEF InCycle
  <2>2. ASSUME NEW pc \in {"failing", "reporting"}, run[r].pc \in InCycle,
               run' = [run EXCEPT ![r] = Decided(r, pc)]
        PROVE  /\ \A x \in Runs \ {r} : run'[x] = run[x]
               /\ run'[r].pc = pc /\ run'[r].tree = run[r].tree
    <3>1. pc \in PCs
      BY DEF PCs, InCycle
    <3>. QED
      BY <1>1, <2>2, <3>1, Fields
  <2>. QED
    BY <1>4, <2>1, <2>2
<1>6. run'[r].pc \notin Working /\ run'[r].pc # "queued"
  BY <1>5 DEF Working, Early
<1>7. \A t \in Runs : dirty'[t] = dirty[t] \/ (run[r].pc \in InCycle /\ t = run[r].tree)
  BY <1>2, <1>3, OneWorktree
<1>. QED
  BY <1>5, <1>6, <1>7, OneRunWorks

\* A run that is alone in its worktree finds it clean; those that were there are
\* shared from then on.
LEMMA BeginWorks ==
  ASSUME CoreInv, WorksOK, NEW r \in Runs, Begin(r)
  PROVE  WorksOK'
<1>. PICK t \in Runs : BeginsIn(r, t)
  BY BeginEffect DEF CoreInv
<1>1. /\ dirty' = [dirty EXCEPT ![t] = {}]
      /\ run'[r].pc = "prepared"
      /\ run'[r].tree = t /\ run'[r].shared = (Users(t) # {})
      /\ \A x \in Runs \ {r} :
           /\ run'[x].pc = run[x].pc
           /\ run'[x].tree = run[x].tree /\ run'[x].attempt = run[x].attempt
           /\ run'[x].commit = run[x].commit
           /\ run'[x].shared = (run[x].shared \/ x \in Users(t))
  BY DEF BeginsIn
<1>2. dirty'[t] = {} /\ \A u \in Runs \ {t} : dirty'[u] = dirty[u]
  BY <1>1 DEF CoreInv, TypeOK
<1>3. Working \subseteq InCycle /\ "queued" \notin InCycle /\ run[r].pc = "queued"
  BY DEF Working, Early, InCycle, Begin, At
<1> SUFFICES ASSUME NEW x \in Runs PROVE WorkOK(x)'
  BY DEF WorksOK
<1>4. CASE x = r
  <2> SUFFICES ASSUME Users(t) = {}
               PROVE  Alone(r)' /\ OwnWork(r)'
    BY <1>1, <1>4 DEF WorkOK
  <2>1. Alone(r)'
    BY <1>1 DEF Alone, Users
  <2>2. OwnWork(r)'
    BY <1>1, <1>2 DEF OwnWork
  <2>. QED
    BY <2>1, <2>2
<1>5. CASE x # r
  <2>1. WorkOK(x) /\ RunOK(x)
    BY DEF WorksOK, CoreInv, RunsOK
  <2>2. run'[x].pc = "queued" => run'[x].tree = None
    BY <1>1, <1>5, <2>1 DEF WorkOK
  <2>3. ASSUME run'[x].pc \in Working, ~run'[x].shared
        PROVE  Alone(x)' /\ OwnWork(x)'
    <3>1. run[x].pc \in Working /\ run[x].tree = run'[x].tree
      BY <1>1, <1>5, <2>3
    <3>2. ~run[x].shared /\ x \notin Users(t)
      BY <1>1, <1>5, <2>3
    <3>3. Alone(x) /\ OwnWork(x) /\ run[x].tree \in Runs /\ run[x].tree # t
      BY <1>3, <2>1, <3>1, <3>2 DEF WorkOK, RunOK, Users
    <3>4. Alone(x)'
      BY <1>1, <1>5, <3>1, <3>3 DEF Alone
    <3>5. OwnWork(x)'
      BY <1>1, <1>2, <1>5, <3>1, <3>3 DEF OwnWork
    <3>. QED
      BY <3>4, <3>5
  <2>. QED
    BY <2>2, <2>3 DEF WorkOK
<1>. QED
  BY <1>4, <1>5

\* Outside of the runs, a run is started, closed or left alone.
LEMMA OtherWorks ==
  ASSUME WorksOK, dirty' = dirty,
         \A r \in Runs : \/ run'[r] = run[r] \/ run'[r].pc = "closed"
                         \/ run'[r].pc = "queued" /\ run'[r].tree = None
  PROVE  WorksOK'
<1> SUFFICES ASSUME NEW r \in Runs PROVE WorkOK(r)'
  BY DEF WorksOK
<1>1. WorkOK(r)
  BY DEF WorksOK
<1>2. CASE run'[r] = run[r]
  <2>1. Alone(r) => Alone(r)'
    BY <1>2 DEF Alone, InCycle
  <2>2. OwnWork(r) => OwnWork(r)'
    BY <1>2 DEF OwnWork
  <2>. QED
    BY <1>1, <1>2, <2>1, <2>2 DEF WorkOK
<1>3. CASE run'[r].pc = "closed" \/ (run'[r].pc = "queued" /\ run'[r].tree = None)
  BY <1>3 DEF WorkOK, Working, Early
<1>. QED
  BY <1>2, <1>3

\* A run that is started has no worktree yet, and waits for the room or not.
LEMMA StartedRun ==
  ASSUME TypeOK, NEW r \in Runs, NEW s \in Specs, NEW resume \in Runs \cup {None},
         NEW forRoom \in BOOLEAN, Started(r, s, resume, forRoom)
  PROVE  /\ run[r].pc = "none" /\ \A x \in Runs \ {r} : run'[x] = run[x]
         /\ run'[r].pc = "queued" /\ run'[r].tree = None
         /\ run'[r].spec = s /\ run'[r].room = forRoom
<1> DEFINE new == [NoRun EXCEPT !.pc = "queued", !.spec = s, !.resume = resume,
                                !.room = forRoom]
<1>1. new.pc = "queued" /\ new.tree = None /\ new.spec = s /\ new.room = forRoom
  BY DEF NoRun
<1>2. run[r].pc = "none" /\ run' = [run EXCEPT ![r] = new]
  BY DEF Started
<1> HIDE DEF new
<1>. QED
  BY <1>1, <1>2 DEF TypeOK

\* A message creates at most one run, for the plan the room has then.
RoomStarts ==
  \E r \in Runs, s \in Specs, resume \in Runs \cup {None} :
    Started(r, s, resume, TRUE) /\ room'.slug = s

LEMMA HandlersStart ==
  ASSUME NEW copy \in Rooms,
         \/ HandleApprove(copy) \/ HandleRun(copy) \/ HandleReject(copy)
         \/ HandleMerge(copy) \/ HandleCompact(copy)
         \/ SaveCopy(copy) \/ SaveNothing
  PROVE  dirty' = dirty /\ (run' = run \/ RoomStarts)
<1>1. CASE HandleApprove(copy) \/ HandleRun(copy)
  <2>1. copy.slug \in Specs /\ copy.resume \in Runs \cup {None}
    BY <1>1 DEF HandleApprove, HandleRun, Rooms
  <2>2. room'.slug = copy.slug
    BY <1>1 DEF HandleApprove, HandleRun, Rooms
  <2>3. RunInBackground(copy)
    BY <1>1 DEF HandleApprove, HandleRun
  <2>. QED
    BY <2>1, <2>2, <2>3 DEF RunInBackground, RoomStarts, treeVars
<1>2. CASE ~(HandleApprove(copy) \/ HandleRun(copy))
  BY <1>2 DEF HandleReject, HandleMerge, HandleCompact, SaveCopy, SaveNothing, specVars,
     treeVars
<1>. QED
  BY <1>1, <1>2

LEMMA TurnsStart ==
  ASSUME RoomTypeOK, Turn
  PROVE  dirty' = dirty /\ (run' = run \/ RoomStarts)
<1>1. turn.copy \in Rooms
  BY DEF RoomTypeOK, Turns
<1>2. CASE Handled
  <2>1. ASSUME NEW s \in Specs, ExplicitSlug(turn.copy, s)
        PROVE  dirty' = dirty /\ (run' = run \/ RoomStarts)
    <3> DEFINE plan == [turn.copy EXCEPT !.stage = "pending_approval", !.slug = s,
                                         !.recovery = None]
    <3>1. plan \in Rooms
      BY <1>1 DEF Rooms, Stages
    <3>2. HandleApprove(plan)
      BY <2>1 DEF ExplicitSlug
    <3> HIDE DEF plan
    <3>. QED
      BY <3>1, <3>2, HandlersStart
  <2>2. CASE RecoveryResumes(turn.copy)
    <3> DEFINE plan == [turn.copy EXCEPT !.stage = "pending_approval", !.recovery = None]
    <3>1. plan \in Rooms
      BY <1>1 DEF Rooms, Stages
    <3>2. HandleApprove(plan) \/ SaveCopy(plan)
      BY <2>2 DEF RecoveryResumes
    <3> HIDE DEF plan
    <3>. QED
      BY <3>1, <3>2, HandlersStart
  <2>. QED
    BY <1>1, <1>2, <2>1, <2>2, HandlersStart DEF Handled
<1>3. CASE Expire \/ CreateFails
  BY <1>3 DEF Expire, CreateFails, vars
<1>4. CASE \/ Enter \/ ClearOrComplete \/ DialogueStarts \/ Hear \/ CreateBegins
           \/ CreateEnds
  BY <1>4
  DEF Enter, ClearOrComplete, DialogueStarts, Hear, CreateBegins, CreateEnds, Drafting,
      specVars, treeVars
<1>. QED
  BY <1>2, <1>3, <1>4 DEF Turn

\* What a run answers for stays its own work in every step.
LEMMA StepWorks ==
  ASSUME RoomInv, WorksOK, [RoomNext]_allVars
  PROVE  WorksOK'
<1>1. CoreInv /\ TypeOK /\ RoomTypeOK
  BY DEF RoomInv, CoreInv
<1>2. CASE Turn
  <2>1. dirty' = dirty /\ (run' = run \/ RoomStarts)
    BY <1>1, <1>2, TurnsStart
  <2>2. CASE run' = run
    BY <2>1, <2>2, OtherWorks
  <2>3. CASE RoomStarts
    BY <1>1, <2>1, <2>3, StartedRun, OtherWorks DEF RoomStarts
  <2>. QED
    BY <2>1, <2>2, <2>3
<1>3. ASSUME NEW r \in Runs, Deliver(r)
      PROVE  WorksOK'
  <2>1. dirty' = dirty /\ run' = [run EXCEPT ![r] = Closed(r)]
    BY <1>3 DEF Deliver, treeVars
  <2>2. "closed" \in PCs
    BY DEF PCs
  <2>3. Closed(r).pc = "closed"
    BY <1>1, <2>2, Fields
  <2>. QED
    BY <1>1, <2>1, <2>3, OtherWorks DEF TypeOK
<1>4. ASSUME NEW r \in Runs, RunStep(r)
      PROVE  WorksOK'
  BY <1>1, <1>4, BeginWorks, CycleWorks, EndWorks DEF RunStep
<1>5. CASE Command
  BY <1>5, OtherWorks DEF Command, treeVars
<1>6. CASE StartBySlash
  <2>1. PICK r \in Runs, s \in Specs : Started(r, s, None, FALSE)
    BY <1>6 DEF StartBySlash
  <2>2. dirty' = dirty
    BY <1>6 DEF StartBySlash, treeVars
  <2>. QED
    BY <1>1, <2>1, <2>2, StartedRun, OtherWorks
<1>7. CASE CrashWithRoom
  <2>1. "closed" \in PCs
    BY DEF PCs
  <2>2. \A r \in Runs : Closed(r).pc = "closed"
    BY <1>1, <2>1, Fields
  <2>. QED
    BY <1>1, <1>7, <2>2, OtherWorks DEF CrashWithRoom, Crash, treeVars, TypeOK
<1>8. CASE UNCHANGED allVars
  BY <1>8, OtherWorks DEF allVars, vars
<1>. QED
  BY <1>2, <1>3, <1>4, <1>5, <1>6, <1>7, <1>8 DEF RoomNext

-----------------------------------------------------------------------------
(* The run a running room waits for. *)

\* A run that will still report to the room.
Reports(r) == run[r].room /\ run[r].pc \in InCycle \cup {"queued", "over"}

\* A run keeps who it reports to and what for until it has reported.
LEMMA ReportsOn ==
  ASSUME CoreInv, NEW r \in Runs, RunStep(r), NEW x \in Runs, Reports(x)
  PROVE  Reports(x)' /\ run'[x].spec = run[x].spec
<1>1. /\ TypeOK /\ run \in [Runs -> RunRecords] /\ run[x] \in RunRecords
  BY DEF CoreInv, TypeOK
<1>2. ASSUME NEW pc \in {"editing", "gate", "repair", "applied"},
             run' = [run EXCEPT ![r].pc = pc]
      PROVE  Reports(x)' /\ run'[x].spec = run[x].spec
  BY <1>1, <1>2 DEF Reports, RunRecords, InCycle
<1>3. ASSUME NEW pc \in {"failing", "reporting"}, run' = [run EXCEPT ![r] = Decided(r, pc)]
      PROVE  Reports(x)' /\ run'[x].spec = run[x].spec
  <2>1. /\ Decided(r, pc).pc = pc /\ Decided(r, pc).spec = run[r].spec
        /\ Decided(r, pc).room = run[r].room
    BY <1>1 DEF Decided, Closed, NoRun
  <2>. QED
    BY <1>1, <1>3, <2>1 DEF Reports, InCycle
<1>4. ASSUME NEW ok \in BOOLEAN, Over(r, ok)
      PROVE  Reports(x)' /\ run'[x].spec = run[x].spec
  <2>1. CASE x # r
    BY <1>1, <1>4, <2>1, OverEffect DEF Reports
  <2>2. CASE x = r
    <3> DEFINE new == [Decided(r, "over") EXCEPT !.ok = ok]
    <3>1. new.pc = "over" /\ new.spec = run[r].spec /\ new.room = run[r].room
      BY DEF Decided, Closed, NoRun
    <3>2. run' = [run EXCEPT ![r] = new]
      BY <1>4, <2>2 DEF Over, Reports
    <3> HIDE DEF new
    <3>. QED
      BY <1>1, <2>2, <3>1, <3>2 DEF Reports
  <2>. QED
    BY <2>1, <2>2
<1>5. CASE Begin(r)
  <2>. PICK t \in Runs : BeginsIn(r, t)
    BY <1>1, <1>5, BeginEffect
  <2>. QED
    BY DEF BeginsIn, Reports, InCycle
<1>6. CASE CommitPasses(r)
  BY <1>1, <1>6 DEF CommitPasses, Reports, RunRecords, InCycle
<1>7. CASE Repair(r)
  BY <1>1, <1>7 DEF Repair, Reports, RunRecords, InCycle
<1>8. CASE InvokeEditor(r) \/ EditorReturns(r) \/ Apply(r)
  BY <1>2, <1>8 DEF InvokeEditor, EditorReturns, Apply, Goto
<1>9. CASE GateRefuses(r)
  BY <1>2, <1>3, <1>9 DEF GateRefuses, Goto, FailCycle
<1>10. CASE EditorFails(r) \/ GitRefuses(r) \/ EnvRefused(r) \/ MarkDone(r)
  BY <1>3, <1>10 DEF EditorFails, GitRefuses, EnvRefused, FailCycle, MarkDone
<1>11. CASE \/ TurnedAway(r) \/ MarkDoneUncommitted(r) \/ ReportSuccess(r)
            \/ ReportFailure(r) \/ CancelRun(r)
  BY <1>4, <1>11
  DEF TurnedAway, MarkDoneUncommitted, ReportSuccess, ReportFailure, CancelRun
<1>. QED
  BY <1>5, <1>6, <1>7, <1>8, <1>9, <1>10, <1>11 DEF RunStep

\* Among those that do not create a run, no message leaves a room running that
\* did not say so.
LEMMA QuietTurns ==
  ASSUME RoomInv, Turn, run' = run, <<turn, orders>>' = <<turn, orders>>
  PROVE  room'.stage # "running"
<1>1. turn' = turn /\ orders' = orders /\ orders \in Nat
  BY SpecRunsAssumption DEF RoomInv, CoreInv, TypeOK
<1>2. Quiet.pc = "idle"
  BY DEF Quiet
<1>3. Expire \/ CreateFails
  <2>1. ~Message
    BY <1>1 DEF Message, Order
  <2>2. ~Enter /\ ~ClearOrComplete /\ ~DialogueStarts /\ ~Hear
    BY <2>1 DEF Enter, ClearOrComplete, DialogueStarts, Hear
  <2>3. ~Handled
    BY <1>1, <1>2 DEF Handled
  <2>4. ~CreateEnds
    BY <1>1, <1>2 DEF CreateEnds
  <2>5. ~CreateBegins
    BY <1>1 DEF CreateBegins, Drafting
  <2>. QED
    BY <2>2, <2>3, <2>4, <2>5 DEF Turn
<1>4. CASE Expire
  BY <1>4 DEF Expire, NoRoom
<1>5. CASE CreateFails
  BY <1>1, <1>2, <1>5 DEF CreateFails
<1>. QED
  BY <1>3, <1>4, <1>5

\* A room that is running keeps the run it waits for in every step but those the
\* property names.
LEMMA RoomWaits ==
  ASSUME RoomInv, [RoomNext]_allVars, ~Stuck, Stuck'
  PROVE  crashes' > crashes \/ CreatesNoJob
<1>. SUFFICES ASSUME ~CreatesNoJob, ~(crashes' > crashes)
              PROVE  FALSE
  OBVIOUS
<1>1. CoreInv /\ TypeOK /\ RoomTypeOK
  BY DEF RoomInv, CoreInv
<1>2. /\ room'.stage = "running"
      /\ \A x \in Runs : Reports(x)' => run'[x].spec # room'.slug
  BY DEF Stuck, Reports
<1>3. room.stage = "running" => \E x \in Runs : Reports(x) /\ run[x].spec = room.slug
  BY DEF Stuck, Reports
<1>4. ~UNCHANGED allVars
  <2>1. CASE UNCHANGED allVars
    BY <1>2, <1>3, <2>1 DEF allVars, roomVars, vars, Reports
  <2>. QED
    BY <2>1
<1>5. ASSUME room' = room,
             \A x \in Runs : Reports(x) => Reports(x)' /\ run'[x].spec = run[x].spec
      PROVE  FALSE
  BY <1>2, <1>3, <1>5
<1>6. CASE Turn
  <2>1. run' = run \/ RoomStarts
    BY <1>1, <1>6, TurnsStart
  <2>2. CASE RoomStarts
    BY <1>1, <1>2, <2>2, StartedRun DEF RoomStarts, Reports
  <2>3. CASE run' = run
    BY <1>2, <1>6, <2>3, QuietTurns DEF CreatesNoJob
  <2>. QED
    BY <2>1, <2>2, <2>3
<1>7. ASSUME NEW r \in Runs, Deliver(r)
      PROVE  FALSE
  <2>1. CASE room.slug = run[r].spec
    BY <1>1, <1>2, <1>7, <2>1 DEF Deliver, Verdict, RoomTypeOK, Rooms
  <2>2. CASE room.slug # run[r].spec
    <3>1. room' = room /\ \A x \in Runs \ {r} : run'[x] = run[x]
      BY <1>1, <1>7, <2>2 DEF Deliver, TypeOK
    <3>. QED
      BY <1>2, <1>3, <2>2, <3>1 DEF Reports
  <2>. QED
    BY <2>1, <2>2
<1>8. ASSUME NEW r \in Runs, RunStep(r), UNCHANGED roomVars
      PROVE  FALSE
  BY <1>1, <1>5, <1>8, ReportsOn DEF roomVars
<1>9. CASE Command /\ UNCHANGED roomVars
  BY <1>5, <1>9 DEF Command, roomVars, Reports
<1>10. CASE StartBySlash /\ UNCHANGED roomVars
  <2>1. PICK r \in Runs, s \in Specs : Started(r, s, None, FALSE)
    BY <1>10 DEF StartBySlash
  <2>2. run[r].pc = "none" /\ \A x \in Runs \ {r} : run'[x] = run[x]
    BY <1>1, <2>1, StartedRun
  <2>. QED
    BY <1>5, <1>10, <2>2 DEF roomVars, Reports, InCycle
<1>11. CASE CrashWithRoom
  BY <1>1, <1>11, SpecRunsAssumption DEF CrashWithRoom, Crash, TypeOK
<1>. QED
  BY <1>4, <1>6, <1>7, <1>8, <1>9, <1>10, <1>11 DEF RoomNext

-----------------------------------------------------------------------------

\* The invariant holds always.
LEMMA RoomInvariant == RoomSpec => []RoomInv
<1>1. RoomInit => RoomInv
  BY InitRoomInv
<1>2. RoomInv /\ [RoomNext]_allVars => RoomInv'
  BY StepRoomInv
<1>. QED
  BY <1>1, <1>2, PTL DEF RoomSpec

\* The specs, the runs, the room and the message being handled keep to their
\* types, whatever the bounds.
THEOREM RoomTypes == RoomSpec => [](TypeOK /\ RoomTypeOK)
<1>1. RoomInv => TypeOK /\ RoomTypeOK
  BY DEF RoomInv, CoreInv
<1>. QED
  BY <1>1, RoomInvariant, PTL

\* A spec that says done names a commit on the branch that was made for it.
THEOREM DoneSpecsHaveCommits == RoomSpec => []DoneHasItsCommit
<1>1. RoomInv => DoneHasItsCommit
  BY DEF RoomInv, CoreInv
<1>. QED
  BY <1>1, RoomInvariant, PTL

\* A room that says done is right about the plan it has, and so is the copy a
\* message holds.
THEOREM DoneRoomsAreRight == RoomSpec => []DoneRoomIsRight
<1>1. RoomInv => DoneRoomIsRight
  BY DEF RoomInv
<1>. QED
  BY <1>1, RoomInvariant, PTL

\* The working room and the runs of specs implement SpecContract: only a run
\* that passed the status gate lands a change or writes a verdict, and each
\* lands at most one.
THEOREM RoomKeepsContract == RoomSpec => KeepsContract
<1>1. RoomInit => Contract!Init
  BY InitRoomInv
<1>2. RoomInv /\ [RoomNext]_allVars => [Contract!Next]_(Contract!vars)
  BY StepRoomInv DEF ContractStep
<1>. QED
  BY <1>1, <1>2, RoomInvariant, PTL DEF RoomSpec, KeepsContract, Contract!Spec

\* What apply_commit lands is the work of the last attempt of its run alone, the
\* one the gates saw, unless two runs were in the worktree at the same time.
THEOREM ReviewedWorkLands == RoomSpec => []LandsWhatWasReviewed
<1>1. RoomInit => WorksOK
  <2>1. ASSUME RoomInit
        PROVE  \A r \in Runs : run[r].pc = "none"
    BY <2>1 DEF RoomInit, Init, NoRun
  <2>. QED
    BY <2>1 DEF WorksOK, WorkOK, Working, Early
<1>2. RoomInv /\ WorksOK /\ [RoomNext]_allVars => WorksOK'
  BY StepWorks
<1>3. WorksOK => LandsWhatWasReviewed
  BY DEF WorksOK, WorkOK, OwnWork, Working, LandsWhatWasReviewed
<1>. QED
  BY <1>1, <1>2, <1>3, RoomInvariant, PTL DEF RoomSpec

\* A room is left running without a run that will report to it by a restart or by
\* a message that creates no job, and in no other way.
THEOREM RoomsKeepTheirRuns == RoomSpec => RunningRoomHasItsRun
<1>1. RoomInv /\ [RoomNext]_allVars =>
        [~Stuck /\ Stuck' => crashes' > crashes \/ CreatesNoJob]_allVars
  BY RoomWaits
<1>. QED
  BY <1>1, RoomInvariant, PTL DEF RoomSpec, RunningRoomHasItsRun
=============================================================================
