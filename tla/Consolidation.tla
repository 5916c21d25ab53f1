--------------------------- MODULE Consolidation ---------------------------
(***************************************************************************)
(* What the bot learns and how a morning makes memory of it:               *)
(* memory/learning_staging.py appends signals to two staging files,        *)
(* memory/consolidation.py compresses episodes and reviews the signals     *)
(* into personality/ by way of the directory .pending/.                    *)
(*                                                                         *)
(* Signals are appended from threads, so an append comes between any two   *)
(* steps of a run, those between two awaits included.  One run at a time:  *)
(* see Maintenance for the lock that says so.  A file is a sequence of     *)
(* entries and its size their number; what a file of personality/ says is  *)
(* a set of marks.  That reading a file fails is left out.                 *)
(***************************************************************************)
EXTENDS Naturals, FiniteSets, Sequences

CONSTANTS
  LastSignal,  \* bound: signals, numbered as they are staged
  LastEpisode, \* bound: episodes, numbered by their score, the highest first
  Topics,      \* files of personality/
  MaxRuns,     \* bound: runs of the engine
  Missing      \* no file

VARIABLES
  immediate,    \* learnings_immediate.md
  deferred,     \* learnings_pending.md
  staged,       \* history: the signals appended to either
  raced,        \* history: those whose file was being rewritten
  settled,      \* history: those a review dropped for good
  consolidated, \* the episodes marked so
  into,         \* history: where each episode was last compressed to
  drafts,       \* .pending/
  personality,  \* personality/
  engine        \* the run

stagingVars == <<immediate, deferred, staged, raced, settled>>
consolidationVars ==
  <<stagingVars, consolidated, into, drafts, personality, engine>>

Signals == 1..LastSignal
Episodes == 1..LastEpisode

Marks == ({"episode"} \X Episodes) \cup ({"signal"} \X Signals)

ASSUME ConsolidationAssumption ==
  /\ LastSignal \in Nat /\ LastEpisode \in Nat /\ MaxRuns \in Nat
  /\ Missing \notin Topics /\ \A content \in SUBSET Marks : content # Missing

NoDrafts == [t \in Topics |-> Missing]
Nowhere == [topic |-> Missing, run |-> 0]

\* `sizes`, `kept`, `dropped` and `tails` are what a review hands from one step
\* to the next, `review` whether there is anything to clean up after it.
Resting(n) ==
  [pc |-> "resting", run |-> n, batch |-> {}, todo |-> {}, review |-> FALSE,
   sizes |-> <<0, 0>>, kept |-> <<>>, dropped |-> {}, tails |-> <<<<>>, <<>>>>]

ConsolidationInit ==
  /\ immediate = <<>> /\ deferred = <<>>
  /\ staged = {} /\ raced = {} /\ settled = {}
  /\ consolidated = {}
  /\ into = [e \in Episodes |-> Nowhere]
  /\ drafts = NoDrafts
  /\ personality = [t \in Topics |-> {}]
  /\ engine = Resting(0)

Entries(file) == {file[i] : i \in DOMAIN file}

ConsolidationTypeOK ==
  /\ Entries(immediate) \cup Entries(deferred) \subseteq staged
  /\ staged \subseteq Signals
  /\ raced \subseteq staged /\ settled \subseteq staged
  /\ consolidated \subseteq Episodes
  /\ into \in [Episodes -> [topic : Topics \cup {Missing}, run : 0..MaxRuns]]
  /\ drafts \in [Topics -> (SUBSET Marks) \cup {Missing}]
  /\ personality \in [Topics -> SUBSET Marks]
  /\ engine.pc \in {"resting", "gathering", "compressing", "parsing",
                    "reviewing", "committing", "reading", "rewriting",
                    "draining", "marking"}

-----------------------------------------------------------------------------
(* Meanwhile. *)

\* StagingWriter.append of a signal that is not in the file yet.
Stage(s) ==
  /\ s \notin staged /\ 1..(s - 1) \subseteq staged
  /\ staged' = staged \cup {s}
  /\ \/ /\ immediate' = Append(immediate, s)
        /\ raced' = IF engine.pc \in {"rewriting", "draining"}
                    THEN raced \cup {s} ELSE raced
        /\ UNCHANGED deferred
     \/ /\ deferred' = Append(deferred, s)
        /\ raced' = IF engine.pc = "rewriting" THEN raced \cup {s} ELSE raced
        /\ UNCHANGED immediate
  /\ UNCHANGED <<settled, consolidated, into, drafts, personality, engine>>

-----------------------------------------------------------------------------
(* The run, up to its commit. *)

\* What an interrupted run has left is removed.
StartRun ==
  /\ engine.pc = "resting" /\ engine.run < MaxRuns
  /\ engine' = [Resting(engine.run + 1) EXCEPT !.pc = "gathering"]
  /\ drafts' = NoDrafts
  /\ into' = [e \in Episodes |-> IF e \in consolidated THEN into[e] ELSE Nowhere]
  /\ UNCHANGED <<stagingVars, consolidated, personality>>

\* _phase_gather: some of the episodes.  Those that are yet to come, that wait
\* for their enrichment or that score low are left for another morning.
Gather ==
  /\ engine.pc = "gathering"
  /\ \E batch \in SUBSET (Episodes \ consolidated) :
       engine' = [engine EXCEPT !.pc = "compressing", !.batch = batch,
                                !.todo = batch]
  /\ UNCHANGED <<stagingVars, consolidated, into, drafts, personality>>

\* What a phase reads: the draft if there is one.
Current(t) == IF drafts[t] # Missing THEN drafts[t] ELSE personality[t]

\* _phase_consolidate for one episode: it is appended to what the committed
\* file says, or to nothing; or it is sensitive or not worth a file.
Compress(e) ==
  /\ engine.pc = "compressing" /\ e \in engine.todo
  /\ \A other \in engine.todo : e <= other
  /\ engine' = [engine EXCEPT !.todo = @ \ {e}]
  /\ \E t \in Topics \cup {Missing} :
       /\ into' = [into EXCEPT ![e] = [topic |-> t, run |-> engine.run]]
       /\ drafts' = IF t = Missing THEN drafts
                    ELSE [drafts EXCEPT ![t] =
                            personality[t] \cup {<<"episode", e>>}]
  /\ UNCHANGED <<stagingVars, consolidated, personality>>

\* The sizes are taken before the files are read.
TakeSizes ==
  /\ engine.pc = "compressing" /\ engine.todo = {}
  /\ engine' = [engine EXCEPT !.pc = "parsing",
                              !.sizes = <<Len(immediate), Len(deferred)>>]
  /\ UNCHANGED <<stagingVars, consolidated, into, drafts, personality>>

\* Nothing to review: nothing is cleaned up.
NothingStaged ==
  /\ engine.pc = "parsing"
  /\ immediate \o deferred = <<>>
  /\ engine' = [engine EXCEPT !.pc = "committing"]
  /\ UNCHANGED <<stagingVars, consolidated, into, drafts, personality>>

\* What is read: the strategist decides on it.
Parse ==
  /\ engine.pc = "parsing"
  /\ immediate \o deferred # <<>>
  /\ engine' = [engine EXCEPT !.pc = "reviewing", !.kept = immediate \o deferred]
  /\ UNCHANGED <<stagingVars, consolidated, into, drafts, personality>>

\* The entries at some positions, in any order.
Picks(seq, P) ==
  {[i \in DOMAIN order |-> seq[order[i]]] :
     order \in {f \in [1..Cardinality(P) -> P] :
                 \A p \in P : \E i \in DOMAIN f : f[i] = p}}

\* Mutant: a signal is merged into the committed file.
ReviewOverDrafts ==
  /\ engine.pc = "reviewing"
  /\ \E t \in Topics :
       /\ drafts' = [drafts EXCEPT ![t] =
                       personality[t] \cup ({"signal"} \X Entries(engine.kept))]
       /\ engine' = [engine EXCEPT !.pc = "committing", !.review = TRUE,
                                   !.kept = <<>>]
  /\ UNCHANGED <<stagingVars, consolidated, into, personality>>

\* Each entry is merged or promoted into a topic, held, or dropped: by the
\* strategist, for its age, or because the decision is not valid.  What cannot
\* be parsed and what is too much for one review comes first of what is held.
Review ==
  /\ engine.pc = "reviewing"
  /\ \E where \in [DOMAIN engine.kept -> Topics \cup {"hold", "drop"}] :
       LET At(t) == {i \in DOMAIN engine.kept : where[i] = t}
           To(t) == {engine.kept[i] : i \in At(t)}
       IN \E held \in Picks(engine.kept, At("hold")) :
            /\ drafts' = [t \in Topics |->
                 IF At(t) = {} THEN drafts[t]
                 ELSE Current(t) \cup ({"signal"} \X To(t))]
            /\ engine' = [engine EXCEPT !.pc = "committing", !.review = TRUE,
                                        !.kept = held, !.dropped = To("drop")]
  /\ UNCHANGED <<stagingVars, consolidated, into, personality>>

\* The strategist fails or answers nonsense: the files stay.
ReviewFails ==
  /\ engine.pc = "reviewing"
  /\ engine' = [engine EXCEPT !.pc = "committing", !.kept = <<>>]
  /\ UNCHANGED <<stagingVars, consolidated, into, drafts, personality>>

-----------------------------------------------------------------------------
(* The commit and what follows it. *)

\* personality/ after the drafts of some topics were moved.
Moved(T) == [t \in Topics |-> IF t \in T /\ drafts[t] # Missing
                              THEN drafts[t] ELSE personality[t]]

\* _phase_prune_index, _commit_pending.
Commit ==
  /\ engine.pc = "committing"
  /\ personality' = Moved(Topics)
  /\ drafts' = NoDrafts
  /\ engine' = [engine EXCEPT !.pc = IF engine.review THEN "reading"
                                     ELSE "marking"]
  /\ UNCHANGED <<stagingVars, consolidated, into>>

\* The run raises or the process dies, in the middle of the commit or anywhere
\* else.  An error removes the drafts, a crash does not.
Interrupted ==
  /\ engine.pc # "resting"
  /\ engine' = Resting(engine.run)
  /\ IF engine.pc = "committing"
     THEN \E T \in SUBSET Topics : personality' = Moved(T)
     ELSE UNCHANGED personality
  /\ drafts' \in {drafts, NoDrafts}
  /\ UNCHANGED <<stagingVars, consolidated, into>>

After(file, size) == SubSeq(file, size + 1, Len(file))

\* Mutant: what was appended during the review is not looked for.
ReadNoTails ==
  /\ engine.pc = "reading"
  /\ settled' = settled \cup engine.dropped
  /\ engine' = [engine EXCEPT !.pc = "rewriting", !.sizes = <<0, 0>>, !.dropped = {}]
  /\ UNCHANGED <<immediate, deferred, staged, raced, consolidated, into, drafts,
                 personality>>

\* _apply_staging_cleanup: the ends of both files, ...
ReadTails ==
  /\ engine.pc = "reading"
  /\ settled' = settled \cup engine.dropped
  /\ engine' = [engine EXCEPT !.pc = "rewriting", !.sizes = <<0, 0>>, !.dropped = {},
                  !.tails = <<After(immediate, engine.sizes[1]),
                              After(deferred, engine.sizes[2])>>]
  /\ UNCHANGED <<immediate, deferred, staged, raced, consolidated, into, drafts,
                 personality>>

\* ... the held signals and what came later, ...
RewriteDeferred ==
  /\ engine.pc = "rewriting"
  /\ deferred' = engine.kept \o engine.tails[2]
  /\ engine' = [engine EXCEPT !.pc = "draining", !.kept = <<>>]
  /\ UNCHANGED <<immediate, staged, raced, settled, consolidated, into, drafts,
                 personality>>

\* ... and only what came later.
DrainImmediate ==
  /\ engine.pc = "draining"
  /\ immediate' = engine.tails[1]
  /\ engine' = [Resting(engine.run) EXCEPT !.pc = "marking", !.batch = engine.batch]
  /\ UNCHANGED <<deferred, staged, raced, settled, consolidated, into, drafts,
                 personality>>

\* A file cannot be written; that is only logged.
CleanupFails ==
  /\ engine.pc \in {"rewriting", "draining"}
  /\ engine' = [Resting(engine.run) EXCEPT !.pc = "marking", !.batch = engine.batch]
  /\ UNCHANGED <<stagingVars, consolidated, into, drafts, personality>>

\* mark_consolidated, in one transaction.
Mark ==
  /\ engine.pc = "marking"
  /\ consolidated' = consolidated \cup engine.batch
  /\ engine' = Resting(engine.run)
  /\ UNCHANGED <<stagingVars, into, drafts, personality>>

ConsolidationNext ==
  \/ \E e \in Episodes : Compress(e)
  \/ \E s \in Signals : Stage(s)
  \/ StartRun \/ Gather \/ TakeSizes
  \/ NothingStaged \/ Parse \/ Review \/ ReviewFails
  \/ Commit \/ Interrupted
  \/ ReadTails \/ RewriteDeferred \/ DrainImmediate \/ CleanupFails
  \/ Mark

ConsolidationSpec ==
  ConsolidationInit /\ [][ConsolidationNext]_consolidationVars

-----------------------------------------------------------------------------
(* Properties. *)

\* A signal that was staged is in a staging file or in personality/ until a
\* review drops it: through reviews that fail, commits that are interrupted and
\* appends during all of it.  The one exception is an append that falls between
\* the reading and the rewriting of its file.
SignalsAreKept ==
  \A s \in staged \ (raced \cup settled) :
    \/ s \in Entries(immediate) \cup Entries(deferred)
    \/ \E t \in Topics : <<"signal", s>> \in personality[t]

\* An episode that is marked as consolidated is in the file it was compressed
\* to, whatever reviews, failed runs and later mornings wrote there.  The one
\* exception is a later episode of the same run that went to the same file: it
\* is appended to the committed file, not to the draft.
ConsolidatedIsWritten ==
  \A e \in consolidated : into[e].topic # Missing =>
    \/ <<"episode", e>> \in personality[into[e].topic]
    \/ \E later \in Episodes : later > e /\ into[later] = into[e]
=============================================================================
