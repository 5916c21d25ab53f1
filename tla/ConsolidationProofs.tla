------------------------ MODULE ConsolidationProofs ------------------------
(***************************************************************************)
(* Memory consolidation for any number of signals, episodes, topics and    *)
(* runs, proved with TLAPS.                                                *)
(*                                                                         *)
(* The properties speak of the files between two steps; the invariant says *)
(* what the run carries in between.  ReadIsCarried: what the sizes say was *)
(* read is held, dropped or drafted until the files are rewritten, and     *)
(* RewriteLosesNothing, DrainLosesNothing: then nothing is in a file that  *)
(* is not somewhere else too.  CompressedIsCarried: an episode of the      *)
(* batch is in the draft of its topic, or a later one took its place.      *)
(***************************************************************************)
EXTENDS Consolidation, FiniteSetTheorems, TLAPS

-----------------------------------------------------------------------------
(* What the run is made of. *)

Engines ==
  [pc : {"resting", "gathering", "compressing", "parsing", "reviewing",
         "committing", "reading", "rewriting", "draining", "marking"},
   run : 0..MaxRuns, batch : SUBSET Episodes, todo : SUBSET Episodes,
   review : BOOLEAN, sizes : Nat \X Nat, kept : Seq(Signals),
   dropped : SUBSET Signals, tails : Seq(Signals) \X Seq(Signals)]

EngineOK ==
  /\ engine \in Engines
  /\ engine.review => engine.pc \in {"committing", "reading", "rewriting", "draining"}

\* The sizes are of use only from the time they are taken to the reading.
SizesAreZero ==
  engine.pc \in {"rewriting", "draining"} => engine.sizes = <<0, 0>>

FilesOK ==
  /\ SizesAreZero
  /\ immediate \in Seq(Signals) /\ deferred \in Seq(Signals)
  /\ engine.sizes[1] <= Len(immediate) /\ engine.sizes[2] <= Len(deferred)

\* A draft says at least what the committed file says; there is none once the
\* drafts were moved.
DraftsOK ==
  /\ \A t \in Topics : drafts[t] # Missing => personality[t] \subseteq drafts[t]
  /\ engine.pc \in {"reading", "rewriting", "draining", "marking"} =>
       drafts = NoDrafts

BatchOK ==
  /\ engine.batch \cap consolidated = {}
  /\ engine.todo \subseteq engine.batch
  /\ engine.todo # {} => engine.pc = "compressing"
  /\ \A done \in engine.batch \ engine.todo :
       /\ into[done].run = engine.run
       /\ \A e \in engine.todo : done < e

-----------------------------------------------------------------------------
(* Signals. *)

InPersonality == {s \in Signals : \E t \in Topics : <<"signal", s>> \in personality[t]}
InDrafts == {s \in Signals : \E t \in Topics : <<"signal", s>> \in Current(t)}

\* What the files held when their sizes were taken.
Sized == {immediate[i] : i \in 1..engine.sizes[1]}
           \cup {deferred[i] : i \in 1..engine.sizes[2]}

ReadIsCarried ==
  /\ engine.pc = "reviewing" => Sized \subseteq Entries(engine.kept)
  /\ engine.pc = "committing" /\ engine.review =>
       Sized \subseteq Entries(engine.kept) \cup engine.dropped \cup InDrafts
  /\ engine.pc = "reading" =>
       Sized \subseteq Entries(engine.kept) \cup engine.dropped \cup InPersonality

Gone == raced \cup settled \cup InPersonality

RewriteLosesNothing ==
  engine.pc = "rewriting" =>
    /\ Entries(immediate)
         \subseteq Entries(engine.tails[1]) \cup Entries(engine.kept) \cup Gone
    /\ Entries(deferred)
         \subseteq Entries(engine.tails[2]) \cup Entries(engine.kept) \cup Gone

DrainLosesNothing ==
  engine.pc = "draining" =>
    Entries(immediate)
      \subseteq Entries(engine.tails[1]) \cup Entries(deferred) \cup Gone

\* What the run carries was staged.
CarriedWasStaged ==
  /\ Entries(engine.kept) \cup engine.dropped \subseteq staged
  /\ Entries(engine.tails[1]) \cup Entries(engine.tails[2]) \subseteq staged

-----------------------------------------------------------------------------
(* Episodes. *)

\* The episode is in a version of its topic, or one of `peers` took its place.
Written(e, content, peers) ==
  into[e].topic # Missing =>
    \/ <<"episode", e>> \in content
    \/ \E later \in peers : later > e /\ into[later] = into[e]

CompressedIsCarried ==
  \A e \in engine.batch \ engine.todo :
    Written(e, Current(into[e].topic), engine.batch \ engine.todo)

MarkedIsWritten ==
  \A e \in consolidated : Written(e, personality[into[e].topic], consolidated)

Types == ConsolidationTypeOK /\ EngineOK /\ FilesOK

SignalInv ==
  /\ CarriedWasStaged
  /\ ReadIsCarried /\ RewriteLosesNothing /\ DrainLosesNothing
  /\ SignalsAreKept

EpisodeInv == DraftsOK /\ BatchOK /\ CompressedIsCarried /\ MarkedIsWritten

ConsolidationInv == Types /\ SignalInv /\ EpisodeInv

-----------------------------------------------------------------------------
(* Files. *)

LEMMA AppendEntries ==
  ASSUME NEW S, NEW q \in Seq(S), NEW s \in S
  PROVE  /\ Append(q, s) \in Seq(S) /\ Len(Append(q, s)) = Len(q) + 1
         /\ Entries(Append(q, s)) = Entries(q) \cup {s}
         /\ \A i \in 1..Len(q) : Append(q, s)[i] = q[i]
<1>1. /\ Append(q, s) \in Seq(S) /\ Len(Append(q, s)) = Len(q) + 1
      /\ DOMAIN q = 1..Len(q) /\ Len(q) \in Nat
      /\ DOMAIN Append(q, s) = 1..(Len(q) + 1)
      /\ \A i \in 1..Len(q) : Append(q, s)[i] = q[i]
      /\ Append(q, s)[Len(q) + 1] = s
  OBVIOUS
<1>2. Entries(Append(q, s)) = Entries(q) \cup {s}
  BY <1>1 DEF Entries
<1>. QED
  BY <1>1, <1>2

LEMMA ConcatEntries ==
  ASSUME NEW S, NEW p \in Seq(S), NEW q \in Seq(S)
  PROVE  /\ p \o q \in Seq(S)
         /\ Entries(p \o q) = Entries(p) \cup Entries(q)
<1>1. /\ p \o q \in Seq(S) /\ Len(p) \in Nat /\ Len(q) \in Nat
      /\ DOMAIN p = 1..Len(p) /\ DOMAIN q = 1..Len(q)
      /\ DOMAIN (p \o q) = 1..(Len(p) + Len(q))
      /\ \A i \in 1..Len(p) : (p \o q)[i] = p[i]
      /\ \A i \in 1..(Len(p) + Len(q)) : i > Len(p) => (p \o q)[i] = q[i - Len(p)]
  OBVIOUS
<1>2. Entries(p \o q) \subseteq Entries(p) \cup Entries(q)
  <2>. SUFFICES ASSUME NEW i \in 1..(Len(p) + Len(q))
                PROVE  (p \o q)[i] \in Entries(p) \cup Entries(q)
    BY <1>1 DEF Entries
  <2>1. CASE i <= Len(p)
    BY <1>1, <2>1 DEF Entries
  <2>2. CASE i > Len(p)
    <3>1. i - Len(p) \in 1..Len(q) /\ (p \o q)[i] = q[i - Len(p)]
      BY <1>1, <2>2
    <3>. QED
      BY <1>1, <3>1 DEF Entries
  <2>. QED
    BY <1>1, <2>1, <2>2
<1>3. Entries(p) \subseteq Entries(p \o q)
  BY <1>1 DEF Entries
<1>4. Entries(q) \subseteq Entries(p \o q)
  <2>. SUFFICES ASSUME NEW j \in 1..Len(q)
                PROVE  q[j] \in Entries(p \o q)
    BY <1>1 DEF Entries
  <2>1. /\ j + Len(p) \in 1..(Len(p) + Len(q))
        /\ (p \o q)[j + Len(p)] = q[(j + Len(p)) - Len(p)]
    BY <1>1
  <2>2. (j + Len(p)) - Len(p) = j
    BY <1>1
  <2>. QED
    BY <1>1, <2>1, <2>2 DEF Entries
<1>. QED
  BY <1>1, <1>2, <1>3, <1>4

\* A file is what it held at some size and what came after.
LEMMA AfterEntries ==
  ASSUME NEW S, NEW q \in Seq(S), NEW n \in 0..Len(q)
  PROVE  /\ After(q, n) \in Seq(S)
         /\ Entries(After(q, n)) \subseteq Entries(q)
         /\ Entries(q) = {q[i] : i \in 1..n} \cup Entries(After(q, n))
<1>1. /\ Len(q) \in Nat /\ DOMAIN q = 1..Len(q)
      /\ After(q, n) \in Seq(S)
      /\ DOMAIN After(q, n) = 1..(Len(q) - n)
      /\ \A i \in 1..(Len(q) - n) : After(q, n)[i] = q[i + n]
  BY DEF After
<1>2. Entries(After(q, n)) \subseteq Entries(q)
  <2>. SUFFICES ASSUME NEW i \in 1..(Len(q) - n)
                PROVE  q[i + n] \in Entries(q)
    BY <1>1 DEF Entries
  <2>1. i + n \in 1..Len(q)
    BY <1>1
  <2>. QED
    BY <1>1, <2>1 DEF Entries
<1>3. {q[i] : i \in 1..n} \subseteq Entries(q)
  BY <1>1 DEF Entries
<1>4. ASSUME NEW i \in 1..Len(q), i > n
      PROVE  q[i] \in Entries(After(q, n))
  <2>1. i - n \in 1..(Len(q) - n) /\ (i - n) + n = i
    BY <1>1, <1>4
  <2>. QED
    BY <1>1, <2>1 DEF Entries
<1>5. Entries(q) \subseteq {q[i] : i \in 1..n} \cup Entries(After(q, n))
  <2>. SUFFICES ASSUME NEW i \in 1..Len(q)
                PROVE  q[i] \in {q[j] : j \in 1..n} \cup Entries(After(q, n))
    BY <1>1 DEF Entries
  <2>1. CASE i <= n
    BY <2>1
  <2>2. CASE i > n
    BY <1>4, <2>2
  <2>. QED
    BY <1>1, <2>1, <2>2
<1>. QED
  BY <1>1, <1>2, <1>3, <1>5

LEMMA PickedEntries ==
  ASSUME NEW S, NEW q \in Seq(S), NEW P \in SUBSET DOMAIN q,
         NEW picked \in Picks(q, P)
  PROVE  picked \in Seq(S) /\ Entries(picked) = {q[i] : i \in P}
<1>1. Len(q) \in Nat /\ DOMAIN q = 1..Len(q) /\ \A i \in DOMAIN q : q[i] \in S
  OBVIOUS
<1>2. IsFiniteSet(DOMAIN q)
  BY <1>1, FS_Interval
<1>3. Cardinality(P) \in Nat
  BY <1>2, FS_Subset, FS_CardinalityType
<1>4. PICK order \in [1..Cardinality(P) -> P] :
        /\ \A p \in P : \E i \in DOMAIN order : order[i] = p
        /\ picked = [i \in DOMAIN order |-> q[order[i]]]
  BY DEF Picks
<1>5. DOMAIN picked = 1..Cardinality(P) /\ \A i \in DOMAIN picked : picked[i] \in S
  BY <1>1, <1>4
<1>6. picked \in Seq(S)
  BY <1>3, <1>4, <1>5
<1>7. Entries(picked) = {q[i] : i \in P}
  BY <1>4 DEF Entries
<1>. QED
  BY <1>6, <1>7

LEMMA NothingInNothing == Entries(<<>>) = {}
BY DEF Entries

LEMMA RestingFacts ==
  ASSUME NEW n \in 0..MaxRuns
  PROVE  /\ Resting(n) \in Engines
         /\ Resting(n).pc = "resting" /\ Resting(n).run = n
         /\ Resting(n).batch = {} /\ Resting(n).todo = {}
         /\ ~Resting(n).review /\ Resting(n).sizes = <<0, 0>>
         /\ Resting(n).kept = <<>> /\ Resting(n).dropped = {}
         /\ Resting(n).tails = <<<<>>, <<>>>>
<1>1. /\ Resting(n).pc = "resting" /\ Resting(n).run = n
      /\ Resting(n).batch = {} /\ Resting(n).todo = {}
      /\ ~Resting(n).review /\ Resting(n).sizes = <<0, 0>>
      /\ Resting(n).kept = <<>> /\ Resting(n).dropped = {}
      /\ Resting(n).tails = <<<<>>, <<>>>>
  BY DEF Resting
<1>2. <<>> \in Seq(Signals) /\ <<0, 0>> \in Nat \X Nat
  OBVIOUS
<1>3. <<<<>>, <<>>>> \in Seq(Signals) \X Seq(Signals)
  BY <1>2
<1>4. Resting(n) \in Engines
  BY <1>2, <1>3 DEF Resting, Engines
<1>. QED
  BY <1>1, <1>4

-----------------------------------------------------------------------------
(* The invariant holds at first. *)

LEMMA InitConsolidationInv ==
  ASSUME ConsolidationInit
  PROVE  ConsolidationInv
<1>. USE ConsolidationAssumption DEF ConsolidationAssumption, ConsolidationInit
<1>1. /\ engine \in Engines /\ engine.pc = "resting" /\ engine.run = 0
      /\ engine.batch = {} /\ engine.todo = {} /\ ~engine.review
      /\ engine.sizes = <<0, 0>> /\ engine.kept = <<>> /\ engine.dropped = {}
      /\ engine.tails = <<<<>>, <<>>>>
  BY RestingFacts
<1>2. /\ Entries(immediate) = {} /\ Entries(deferred) = {} /\ Entries(engine.kept) = {}
      /\ Entries(engine.tails[1]) = {} /\ Entries(engine.tails[2]) = {}
  BY <1>1, NothingInNothing
<1>3. ConsolidationTypeOK
  <2>1. into \in [Episodes -> [topic : Topics \cup {Missing}, run : 0..MaxRuns]]
    BY DEF Nowhere
  <2>. QED
    BY <1>1, <1>2, <2>1 DEF ConsolidationTypeOK, NoDrafts
<1>4. EngineOK /\ FilesOK
  BY <1>1 DEF EngineOK, FilesOK, SizesAreZero
<1>5. SignalInv
  BY <1>1, <1>2
  DEF SignalInv, CarriedWasStaged, ReadIsCarried, RewriteLosesNothing,
      DrainLosesNothing, SignalsAreKept
<1>6. EpisodeInv
  BY <1>1
  DEF EpisodeInv, DraftsOK, NoDrafts, BatchOK, CompressedIsCarried, MarkedIsWritten
<1>. QED
  BY <1>3, <1>4, <1>5, <1>6 DEF ConsolidationInv, Types

-----------------------------------------------------------------------------
(* Types. *)

\* The steps after which the files are what they were and nothing was read.
LEMMA TypesKept ==
  ASSUME Types, EngineOK', UNCHANGED stagingVars,
         engine'.sizes \in {engine.sizes, <<0, 0>>, <<Len(immediate), Len(deferred)>>},
         engine'.pc \notin {"rewriting", "draining"},
         consolidated' \subseteq Episodes,
         into' \in [Episodes -> [topic : Topics \cup {Missing}, run : 0..MaxRuns]],
         drafts' \in [Topics -> (SUBSET Marks) \cup {Missing}],
         personality' \in [Topics -> SUBSET Marks]
  PROVE  Types'
<1>. USE DEF Types, stagingVars
<1>1. ConsolidationTypeOK'
  BY DEF ConsolidationTypeOK, EngineOK, Engines
<1>2. FilesOK'
  <2>1. Len(immediate) \in Nat /\ Len(deferred) \in Nat
    BY DEF FilesOK
  <2>. QED
    BY <2>1 DEF FilesOK, SizesAreZero
<1>. QED
  BY <1>1, <1>2

LEMMA StageTypes ==
  ASSUME ConsolidationInv, NEW s \in Signals, Stage(s)
  PROVE  /\ Types' /\ UNCHANGED <<settled, consolidated, into, drafts, personality, engine>>
         /\ staged' = staged \cup {s}
         /\ raced \subseteq raced' /\ raced' \subseteq raced \cup {s}
         /\ \/ /\ immediate' = Append(immediate, s) /\ deferred' = deferred
               /\ Entries(immediate') = Entries(immediate) \cup {s}
               /\ engine.pc \in {"rewriting", "draining"} => s \in raced'
            \/ /\ deferred' = Append(deferred, s) /\ immediate' = immediate
               /\ Entries(deferred') = Entries(deferred) \cup {s}
               /\ engine.pc = "rewriting" => s \in raced'
<1>. USE DEF ConsolidationInv, Types
<1>1. /\ immediate \in Seq(Signals) /\ deferred \in Seq(Signals)
      /\ engine.sizes[1] \in Nat /\ engine.sizes[2] \in Nat
      /\ Len(immediate) \in Nat /\ Len(deferred) \in Nat
  BY DEF FilesOK, EngineOK, Engines
<1>2. /\ UNCHANGED <<settled, consolidated, into, drafts, personality, engine>>
      /\ staged' = staged \cup {s}
      /\ raced \subseteq raced' /\ raced' \subseteq raced \cup {s}
  BY DEF Stage
<1>3. \/ /\ immediate' = Append(immediate, s) /\ deferred' = deferred
         /\ engine.pc \in {"rewriting", "draining"} => s \in raced'
      \/ /\ deferred' = Append(deferred, s) /\ immediate' = immediate
         /\ engine.pc = "rewriting" => s \in raced'
  BY DEF Stage
<1>4. /\ Append(immediate, s) \in Seq(Signals) /\ Append(deferred, s) \in Seq(Signals)
      /\ Len(Append(immediate, s)) = Len(immediate) + 1
      /\ Len(Append(deferred, s)) = Len(deferred) + 1
      /\ Entries(Append(immediate, s)) = Entries(immediate) \cup {s}
      /\ Entries(Append(deferred, s)) = Entries(deferred) \cup {s}
  BY <1>1, AppendEntries
<1>5. FilesOK'
  <2>1. engine' = engine /\ immediate' \in Seq(Signals) /\ deferred' \in Seq(Signals)
    BY <1>1, <1>2, <1>3, <1>4
  <2>2. Len(immediate) <= Len(immediate') /\ Len(deferred) <= Len(deferred')
    BY <1>1, <1>3, <1>4
  <2>3. Len(immediate') \in Nat /\ Len(deferred') \in Nat
    BY <2>1
  <2>. QED
    BY <1>1, <2>1, <2>2, <2>3 DEF FilesOK, SizesAreZero
<1>6. EngineOK'
  BY <1>2 DEF EngineOK
<1>7. ConsolidationTypeOK'
  BY <1>2, <1>3, <1>4 DEF ConsolidationTypeOK
<1>. QED
  BY <1>2, <1>3, <1>4, <1>5, <1>6, <1>7

-----------------------------------------------------------------------------
(* What most steps leave alone. *)

LEMMA SignalsAreKeptAs ==
  ASSUME ConsolidationTypeOK
  PROVE  SignalsAreKept <=>
           staged \subseteq Entries(immediate) \cup Entries(deferred) \cup Gone
BY DEF ConsolidationTypeOK, SignalsAreKept, Gone, InPersonality

\* Steps outside of a review and its cleanup.
LEMMA QuietSignals ==
  ASSUME ConsolidationInv, ConsolidationTypeOK', UNCHANGED stagingVars,
         InPersonality \subseteq InPersonality', CarriedWasStaged', ~engine'.review,
         engine'.pc \notin {"reviewing", "reading", "rewriting", "draining"}
  PROVE  SignalInv'
<1>1. /\ UNCHANGED <<immediate, deferred, staged, raced, settled>>
      /\ Gone \subseteq Gone'
  BY DEF stagingVars, Gone
<1>2. SignalsAreKept
  BY DEF ConsolidationInv, SignalInv
<1>3. ConsolidationTypeOK
  BY DEF ConsolidationInv, Types
<1>4. staged \subseteq Entries(immediate) \cup Entries(deferred) \cup Gone
  BY <1>2, <1>3, SignalsAreKeptAs
<1>5. staged' \subseteq Entries(immediate') \cup Entries(deferred') \cup Gone'
  BY <1>1, <1>4
<1>6. SignalsAreKept'
  BY <1>5 DEF ConsolidationTypeOK, SignalsAreKept, Gone, InPersonality
<1>. QED
  BY <1>6 DEF SignalInv, ReadIsCarried, RewriteLosesNothing, DrainLosesNothing

\* Steps that neither compress nor write.
LEMMA QuietEpisodes ==
  ASSUME ConsolidationInv, UNCHANGED <<consolidated, into, drafts, personality>>,
         engine'.run = engine.run, engine'.batch = engine.batch,
         engine'.todo = engine.todo,
         engine.todo # {} => engine'.pc = "compressing",
         engine'.pc \in {"reading", "rewriting", "draining", "marking"} =>
           \/ engine.pc \in {"reading", "rewriting", "draining", "marking"}
           \/ drafts = NoDrafts
  PROVE  EpisodeInv'
<1>. USE DEF ConsolidationInv, EpisodeInv
<1>1. DraftsOK'
  BY DEF DraftsOK, NoDrafts
<1>2. BatchOK'
  BY DEF BatchOK
<1>3. CompressedIsCarried'
  BY DEF CompressedIsCarried, Written, Current
<1>4. MarkedIsWritten'
  BY DEF MarkedIsWritten, Written
<1>. QED
  BY <1>1, <1>2, <1>3, <1>4

-----------------------------------------------------------------------------
(* Meanwhile. *)

\* A signal comes to the end of its file.  While the files are rewritten that is
\* too late, and counted as such.
LEMMA StageStep ==
  ASSUME ConsolidationInv, NEW s \in Signals, Stage(s)
  PROVE  ConsolidationInv'
<1>1. /\ Types' /\ Types
      /\ UNCHANGED <<settled, consolidated, into, drafts, personality, engine>>
      /\ staged' = staged \cup {s} /\ raced \subseteq raced'
  BY StageTypes DEF ConsolidationInv
<1>2. \/ /\ immediate' = Append(immediate, s) /\ deferred' = deferred
         /\ Entries(immediate') = Entries(immediate) \cup {s}
         /\ engine.pc \in {"rewriting", "draining"} => s \in raced'
      \/ /\ deferred' = Append(deferred, s) /\ immediate' = immediate
         /\ Entries(deferred') = Entries(deferred) \cup {s}
         /\ engine.pc = "rewriting" => s \in raced'
  BY StageTypes
<1>3. Gone \subseteq Gone' /\ (s \in raced' => s \in Gone')
  BY <1>1 DEF Gone, InPersonality
<1>4. CarriedWasStaged'
  BY <1>1 DEF ConsolidationInv, SignalInv, CarriedWasStaged
<1>5. Sized' = Sized
  <2>1. /\ immediate \in Seq(Signals) /\ deferred \in Seq(Signals)
        /\ engine.sizes[1] \in Nat /\ engine.sizes[2] \in Nat
        /\ engine.sizes[1] <= Len(immediate) /\ engine.sizes[2] <= Len(deferred)
    BY <1>1 DEF Types, FilesOK, EngineOK, Engines
  <2>2. \A i \in 1..engine.sizes[1] : immediate'[i] = immediate[i]
    BY <1>2, <2>1, AppendEntries
  <2>3. \A i \in 1..engine.sizes[2] : deferred'[i] = deferred[i]
    BY <1>2, <2>1, AppendEntries
  <2>. QED
    BY <1>1, <2>2, <2>3 DEF Sized
<1>6. ReadIsCarried'
  BY <1>1, <1>5 DEF ConsolidationInv, SignalInv, ReadIsCarried, InDrafts, InPersonality, Current
<1>7. RewriteLosesNothing'
  BY <1>1, <1>2, <1>3 DEF ConsolidationInv, SignalInv, RewriteLosesNothing
<1>8. DrainLosesNothing'
  BY <1>1, <1>2, <1>3 DEF ConsolidationInv, SignalInv, DrainLosesNothing
<1>9. SignalsAreKept'
  <2>1. staged \subseteq Entries(immediate) \cup Entries(deferred) \cup Gone
    BY <1>1, SignalsAreKeptAs DEF ConsolidationInv, SignalInv, Types
  <2>2. staged' \subseteq Entries(immediate') \cup Entries(deferred') \cup Gone'
    BY <1>1, <1>2, <1>3, <2>1
  <2>. QED
    BY <1>1, <2>2 DEF Types, ConsolidationTypeOK, SignalsAreKept, Gone, InPersonality
<1>10. EpisodeInv'
  BY <1>1, QuietEpisodes DEF ConsolidationInv, EpisodeInv, BatchOK
<1>. QED
  BY <1>1, <1>4, <1>6, <1>7, <1>8, <1>9, <1>10 DEF ConsolidationInv, SignalInv
-----------------------------------------------------------------------------
(* The run, up to its commit. *)

LEMMA StartRunStep ==
  ASSUME ConsolidationInv, StartRun
  PROVE  ConsolidationInv'
<1>. USE ConsolidationAssumption DEF ConsolidationAssumption
<1>1. /\ engine.run + 1 \in 0..MaxRuns
      /\ engine' = [Resting(engine.run + 1) EXCEPT !.pc = "gathering"]
      /\ drafts' = NoDrafts
      /\ into' = [e \in Episodes |-> IF e \in consolidated THEN into[e] ELSE Nowhere]
      /\ UNCHANGED <<stagingVars, consolidated, personality>>
  BY DEF StartRun, ConsolidationInv, Types, EngineOK, Engines
<1>2. /\ engine' \in Engines /\ engine'.pc = "gathering"
      /\ engine'.run = engine.run + 1 /\ engine'.batch = {} /\ engine'.todo = {}
      /\ ~engine'.review /\ engine'.sizes = <<0, 0>>
      /\ engine'.kept = <<>> /\ engine'.dropped = {}
      /\ engine'.tails = <<<<>>, <<>>>>
  <2>1. PICK n \in 0..MaxRuns : n = engine.run + 1
    BY <1>1
  <2>2. engine' = [Resting(n) EXCEPT !.pc = "gathering"]
    BY <1>1, <2>1
  <2>. QED
    BY <2>1, <2>2, RestingFacts DEF Engines
<1>3. into' \in [Episodes -> [topic : Topics \cup {Missing}, run : 0..MaxRuns]]
  <2>1. Nowhere \in [topic : Topics \cup {Missing}, run : 0..MaxRuns]
    BY DEF Nowhere
  <2>. QED
    BY <1>1, <2>1 DEF ConsolidationInv, Types, ConsolidationTypeOK
<1>4. Types'
  <2>1. EngineOK'
    BY <1>2 DEF EngineOK
  <2>2. drafts' \in [Topics -> (SUBSET Marks) \cup {Missing}]
    BY <1>1 DEF NoDrafts
  <2>. QED
    BY <1>1, <1>2, <1>3, <2>1, <2>2, TypesKept DEF ConsolidationInv, Types, ConsolidationTypeOK
<1>5. SignalInv'
  <2>1. CarriedWasStaged'
    BY <1>2, NothingInNothing DEF CarriedWasStaged
  <2>2. InPersonality' = InPersonality
    BY <1>1 DEF InPersonality
  <2>. QED
    BY <1>1, <1>2, <1>4, <2>1, <2>2, QuietSignals DEF Types
<1>6. EpisodeInv'
  <2>1. DraftsOK' /\ BatchOK' /\ CompressedIsCarried'
    BY <1>1, <1>2 DEF DraftsOK, NoDrafts, BatchOK, CompressedIsCarried
  <2>2. \A e \in consolidated : into'[e] = into[e]
    BY <1>1 DEF ConsolidationInv, Types, ConsolidationTypeOK
  <2>3. MarkedIsWritten'
    <3>. SUFFICES ASSUME NEW e \in consolidated
                  PROVE  Written(e, personality[into[e].topic], consolidated)'
      BY <1>1 DEF MarkedIsWritten
    <3>1. Written(e, personality[into[e].topic], consolidated)
      BY DEF ConsolidationInv, EpisodeInv, MarkedIsWritten
    <3>. QED
      BY <1>1, <2>2, <3>1 DEF Written
  <2>. QED
    BY <2>1, <2>3 DEF EpisodeInv
<1>. QED
  BY <1>4, <1>5, <1>6 DEF ConsolidationInv

LEMMA GatherStep ==
  ASSUME ConsolidationInv, Gather
  PROVE  ConsolidationInv'
<1>1. PICK batch \in SUBSET (Episodes \ consolidated) :
        engine' = [engine EXCEPT !.pc = "compressing", !.batch = batch, !.todo = batch]
  BY DEF Gather
<1>2. /\ engine.pc = "gathering"
      /\ UNCHANGED <<stagingVars, consolidated, into, drafts, personality>>
  BY DEF Gather
<1>3. engine \in Engines /\ ~engine.review
  BY <1>2 DEF ConsolidationInv, Types, EngineOK
<1>4. /\ engine' \in Engines /\ engine'.pc = "compressing"
      /\ engine'.run = engine.run /\ engine'.batch = batch /\ engine'.todo = batch
      /\ ~engine'.review /\ engine'.sizes = engine.sizes
      /\ engine'.kept = engine.kept /\ engine'.dropped = engine.dropped
      /\ engine'.tails = engine.tails
  BY <1>1, <1>3 DEF Engines
<1>5. Types'
  BY <1>2, <1>4, TypesKept DEF ConsolidationInv, Types, ConsolidationTypeOK, EngineOK
<1>6. SignalInv'
  <2>1. CarriedWasStaged' /\ InPersonality' = InPersonality
    BY <1>2, <1>4
    DEF ConsolidationInv, SignalInv, CarriedWasStaged, stagingVars, InPersonality
  <2>. QED
    BY <1>2, <1>4, <1>5, <2>1, QuietSignals DEF Types
<1>7. EpisodeInv'
  <2>1. BatchOK' /\ CompressedIsCarried'
    BY <1>2, <1>4 DEF BatchOK, CompressedIsCarried
  <2>2. DraftsOK' /\ MarkedIsWritten'
    BY <1>2, <1>4 DEF ConsolidationInv, EpisodeInv, DraftsOK, MarkedIsWritten, Written
  <2>. QED
    BY <2>1, <2>2 DEF EpisodeInv
<1>. QED
  BY <1>5, <1>6, <1>7 DEF ConsolidationInv

\* The steps that only look at the files or give the review up.
LEMMA LookStep ==
  ASSUME ConsolidationInv, TakeSizes \/ NothingStaged \/ ReviewFails
  PROVE  ConsolidationInv'
<1>1. /\ engine.pc \in {"compressing", "parsing", "reviewing"} /\ engine.todo = {}
      /\ UNCHANGED <<stagingVars, consolidated, into, drafts, personality>>
  BY DEF TakeSizes, NothingStaged, ReviewFails, ConsolidationInv, EpisodeInv, BatchOK
<1>2. engine \in Engines /\ ~engine.review /\ Len(immediate) \in Nat /\ Len(deferred) \in Nat
  BY <1>1 DEF ConsolidationInv, Types, EngineOK, FilesOK
<1>3. /\ engine' \in Engines /\ engine'.pc \in {"parsing", "committing"}
      /\ engine'.run = engine.run /\ engine'.batch = engine.batch
      /\ engine'.todo = engine.todo /\ ~engine'.review
      /\ engine'.sizes \in {engine.sizes, <<Len(immediate), Len(deferred)>>}
      /\ engine'.kept \in {engine.kept, <<>>} /\ engine'.dropped = engine.dropped
      /\ engine'.tails = engine.tails
  <2>1. <<>> \in Seq(Signals)
    OBVIOUS
  <2>2. CASE TakeSizes
    BY <1>2, <2>2 DEF TakeSizes, Engines
  <2>3. CASE NothingStaged
    BY <1>2, <2>3 DEF NothingStaged, Engines
  <2>4. CASE ReviewFails
    BY <1>2, <2>1, <2>4 DEF ReviewFails, Engines
  <2>. QED
    BY <2>2, <2>3, <2>4
<1>4. Types'
  BY <1>1, <1>3, TypesKept DEF ConsolidationInv, Types, ConsolidationTypeOK, EngineOK
<1>5. SignalInv'
  <2>1. CarriedWasStaged' /\ InPersonality' = InPersonality
    BY <1>1, <1>3, NothingInNothing
    DEF ConsolidationInv, SignalInv, CarriedWasStaged, stagingVars, InPersonality
  <2>. QED
    BY <1>1, <1>3, <1>4, <2>1, QuietSignals DEF Types
<1>6. EpisodeInv'
  BY <1>1, <1>3, QuietEpisodes
<1>. QED
  BY <1>4, <1>5, <1>6 DEF ConsolidationInv

\* The whole of both files is read, and they were no longer when they were sized.
LEMMA ParseStep ==
  ASSUME ConsolidationInv, Parse
  PROVE  ConsolidationInv'
<1>1. /\ engine.pc = "parsing"
      /\ engine' = [engine EXCEPT !.pc = "reviewing", !.kept = immediate \o deferred]
      /\ UNCHANGED <<stagingVars, consolidated, into, drafts, personality>>
  BY DEF Parse
<1>2. /\ engine \in Engines /\ ~engine.review /\ engine.todo = {}
      /\ immediate \in Seq(Signals) /\ deferred \in Seq(Signals)
      /\ engine.sizes[1] \in 0..Len(immediate) /\ engine.sizes[2] \in 0..Len(deferred)
  BY <1>1 DEF ConsolidationInv, Types, EngineOK, FilesOK, Engines, EpisodeInv, BatchOK
<1>3. /\ immediate \o deferred \in Seq(Signals)
      /\ Entries(immediate \o deferred) = Entries(immediate) \cup Entries(deferred)
  BY <1>2, ConcatEntries
<1>4. /\ engine' \in Engines /\ engine'.pc = "reviewing"
      /\ engine'.run = engine.run /\ engine'.batch = engine.batch
      /\ engine'.todo = engine.todo /\ ~engine'.review
      /\ engine'.sizes = engine.sizes /\ engine'.kept = immediate \o deferred
      /\ engine'.dropped = engine.dropped /\ engine'.tails = engine.tails
  BY <1>1, <1>2, <1>3 DEF Engines
<1>5. Types'
  BY <1>1, <1>4, TypesKept DEF ConsolidationInv, Types, ConsolidationTypeOK, EngineOK
<1>6. CarriedWasStaged'
  BY <1>1, <1>3, <1>4
  DEF ConsolidationInv, SignalInv, CarriedWasStaged, Types, ConsolidationTypeOK, stagingVars
<1>7. ReadIsCarried'
  <2>1. Sized \subseteq Entries(immediate) \cup Entries(deferred)
    BY <1>2, AfterEntries DEF Sized
  <2>2. Sized' = Sized
    BY <1>1, <1>4 DEF Sized, stagingVars
  <2>. QED
    BY <1>3, <1>4, <2>1, <2>2 DEF ReadIsCarried
<1>8. RewriteLosesNothing' /\ DrainLosesNothing' /\ SignalsAreKept'
  BY <1>1, <1>4
  DEF RewriteLosesNothing, DrainLosesNothing, ConsolidationInv, SignalInv, SignalsAreKept,
      stagingVars
<1>9. EpisodeInv'
  BY <1>1, <1>2, <1>4, QuietEpisodes
<1>. QED
  BY <1>5, <1>6, <1>7, <1>8, <1>9 DEF ConsolidationInv, SignalInv

\* An episode that was compressed to the same file is overwritten in the draft,
\* and this one has taken its place.
LEMMA CompressStep ==
  ASSUME ConsolidationInv, NEW e \in Episodes, Compress(e)
  PROVE  ConsolidationInv'
<1>. USE ConsolidationAssumption DEF ConsolidationAssumption
<1>1. /\ engine.pc = "compressing" /\ e \in engine.todo
      /\ \A other \in engine.todo : e <= other
      /\ engine' = [engine EXCEPT !.todo = engine.todo \ {e}]
      /\ UNCHANGED <<stagingVars, consolidated, personality>>
  BY DEF Compress
<1>2. PICK t \in Topics \cup {Missing} :
        /\ into' = [into EXCEPT ![e] = [topic |-> t, run |-> engine.run]]
        /\ drafts' = IF t = Missing THEN drafts
                     ELSE [drafts EXCEPT ![t] = personality[t] \cup {<<"episode", e>>}]
  BY DEF Compress
<1>3. /\ engine \in Engines /\ ~engine.review
      /\ into \in [Episodes -> [topic : Topics \cup {Missing}, run : 0..MaxRuns]]
      /\ drafts \in [Topics -> (SUBSET Marks) \cup {Missing}]
      /\ personality \in [Topics -> SUBSET Marks]
      /\ engine.todo \subseteq engine.batch /\ engine.batch \cap consolidated = {}
  BY <1>1 DEF ConsolidationInv, Types, EngineOK, ConsolidationTypeOK, EpisodeInv, BatchOK
<1>4. /\ engine' \in Engines /\ engine'.pc = "compressing"
      /\ engine'.run = engine.run /\ engine'.batch = engine.batch
      /\ engine'.todo = engine.todo \ {e} /\ ~engine'.review
      /\ engine'.sizes = engine.sizes /\ engine'.kept = engine.kept
      /\ engine'.dropped = engine.dropped /\ engine'.tails = engine.tails
  BY <1>1, <1>3 DEF Engines
<1>5. /\ engine.run \in 0..MaxRuns
      /\ into' \in [Episodes -> [topic : Topics \cup {Missing}, run : 0..MaxRuns]]
      /\ into'[e].topic = t /\ into'[e].run = engine.run
      /\ \A d \in Episodes \ {e} : into'[d] = into[d]
  <2>1. engine.run \in 0..MaxRuns
    BY <1>3 DEF Engines
  <2>. QED
    BY <1>2, <1>3, <2>1
<1>6. /\ drafts' \in [Topics -> (SUBSET Marks) \cup {Missing}]
      /\ t # Missing => drafts'[t] = personality[t] \cup {<<"episode", e>>}
      /\ \A u \in Topics \ {t} : drafts'[u] = drafts[u]
  <2>1. CASE t = Missing
    BY <1>2, <1>3, <2>1
  <2>2. CASE t # Missing
    <3>1. t \in Topics
      BY <2>2
    <3>2. personality[t] \cup {<<"episode", e>>} \in SUBSET Marks
      BY <1>3, <3>1 DEF Marks
    <3>. QED
      BY <1>2, <1>3, <2>2, <3>1, <3>2
  <2>. QED
    BY <2>1, <2>2
<1>7. Types'
  BY <1>1, <1>4, <1>5, <1>6, TypesKept DEF ConsolidationInv, Types, ConsolidationTypeOK, EngineOK
<1>8. SignalInv'
  <2>1. CarriedWasStaged' /\ InPersonality' = InPersonality
    BY <1>1, <1>4 DEF ConsolidationInv, SignalInv, CarriedWasStaged, stagingVars, InPersonality
  <2>. QED
    BY <1>1, <1>4, <1>7, <2>1, QuietSignals DEF Types
<1>9. DraftsOK'
  BY <1>1, <1>4, <1>6 DEF ConsolidationInv, EpisodeInv, DraftsOK
<1>10. \A d \in engine.batch \ engine.todo :
         /\ d \in Episodes /\ d < e /\ into'[d] = into[d] /\ into[d].run = engine.run
  BY <1>1, <1>3, <1>5 DEF ConsolidationInv, EpisodeInv, BatchOK, Engines
<1>11. engine'.batch \ engine'.todo = (engine.batch \ engine.todo) \cup {e}
  BY <1>1, <1>3, <1>4
<1>12. BatchOK'
  <2>1. \A other \in engine'.todo : e < other
    <3>1. engine.todo \subseteq Episodes
      BY <1>3 DEF Engines
    <3>2. \A other \in engine'.todo : other \in Episodes /\ e <= other /\ other # e
      BY <1>1, <1>4, <3>1
    <3>. QED
      BY <3>2 DEF Episodes
  <2>2. \A d \in engine.batch \ engine.todo : \A other \in engine'.todo : d < other
    BY <1>4 DEF ConsolidationInv, EpisodeInv, BatchOK
  <2>3. engine'.batch \cap consolidated' = {} /\ engine'.todo \subseteq engine'.batch
    BY <1>1, <1>4 DEF ConsolidationInv, EpisodeInv, BatchOK
  <2>4. \A done \in engine'.batch \ engine'.todo : into'[done].run = engine'.run
    BY <1>3, <1>4, <1>5, <1>10, <1>11
  <2>5. \A done \in engine'.batch \ engine'.todo : \A other \in engine'.todo : done < other
    BY <1>11, <2>1, <2>2
  <2>. QED
    BY <1>4, <2>3, <2>4, <2>5 DEF BatchOK
<1>13. ASSUME NEW d \in engine'.batch \ engine'.todo, into'[d].topic # Missing
       PROVE  \/ <<"episode", d>> \in Current(into[d].topic)'
              \/ \E later \in engine'.batch \ engine'.todo :
                   later > d /\ into'[later] = into'[d]
  <2>1. CASE d = e
    <3>1. t \in Topics /\ drafts'[t] = personality[t] \cup {<<"episode", e>>}
          /\ drafts'[t] # Missing
      BY <1>3, <1>5, <1>6, <1>13, <2>1 DEF Marks
    <3>. QED
      BY <1>1, <1>5, <2>1, <3>1 DEF Current
  <2>2. CASE d # e /\ into[d].topic = t
    <3>1. d \in Episodes /\ into'[d] = into[d] /\ into[d].run = engine.run /\ e > d
      BY <1>10, <1>11, <1>13, <2>2, <1>3 DEF Engines, Episodes
    <3>2. into'[e] = into'[d]
      BY <1>2, <1>3, <1>5, <2>2, <3>1
    <3>. QED
      BY <1>11, <3>1, <3>2
  <2>3. CASE d # e /\ into[d].topic # t
    <3>1. /\ d \in Episodes /\ into'[d] = into[d] /\ d \in engine.batch \ engine.todo
          /\ into[d].topic \in Topics \ {t}
      BY <1>3, <1>10, <1>11, <1>13, <2>3
    <3>2. Written(d, Current(into[d].topic), engine.batch \ engine.todo)
      BY <3>1 DEF ConsolidationInv, EpisodeInv, CompressedIsCarried
    <3>3. CASE <<"episode", d>> \in Current(into[d].topic)
      BY <1>1, <1>6, <3>1, <3>3 DEF Current
    <3>4. CASE \E later \in engine.batch \ engine.todo :
                 later > d /\ into[later] = into[d]
      BY <1>10, <1>11, <3>1, <3>4
    <3>. QED
      BY <1>13, <3>1, <3>2, <3>3, <3>4 DEF Written
  <2>. QED
    BY <2>1, <2>2, <2>3
<1>14. CompressedIsCarried'
  BY <1>13 DEF CompressedIsCarried, Written
<1>15. MarkedIsWritten'
  <2>1. \A d \in consolidated : d \in Episodes /\ into'[d] = into[d]
    BY <1>1, <1>3, <1>5 DEF ConsolidationInv, Types, ConsolidationTypeOK
  <2>. QED
    BY <1>1, <2>1 DEF ConsolidationInv, EpisodeInv, MarkedIsWritten, Written
<1>. QED
  BY <1>7, <1>8, <1>9, <1>12, <1>14, <1>15 DEF ConsolidationInv, EpisodeInv
\* What a phase would read says at least what the committed file says.
LEMMA CurrentFacts ==
  ASSUME ConsolidationInv, NEW t \in Topics
  PROVE  /\ Current(t) \in SUBSET Marks /\ personality[t] \subseteq Current(t)
         /\ Current(t) # Missing
         /\ drafts[t] # Missing => Current(t) = drafts[t]
<1>1. /\ drafts[t] \in (SUBSET Marks) \cup {Missing} /\ personality[t] \in SUBSET Marks
      /\ drafts[t] # Missing => personality[t] \subseteq drafts[t]
  BY DEF ConsolidationInv, Types, ConsolidationTypeOK, EpisodeInv, DraftsOK
<1>. QED
  BY <1>1, ConsolidationAssumption DEF Current, ConsolidationAssumption

LEMMA ReviewStep ==
  ASSUME ConsolidationInv, Review
  PROVE  ConsolidationInv'
<1>. DEFINE At(where, t) == {i \in DOMAIN engine.kept : where[i] = t}
<1>. DEFINE To(where, t) == {engine.kept[i] : i \in At(where, t)}
<1>1. PICK where \in [DOMAIN engine.kept -> Topics \cup {"hold", "drop"}] :
        \E held \in Picks(engine.kept, At(where, "hold")) :
          /\ drafts' = [t \in Topics |->
               IF At(where, t) = {} THEN drafts[t]
               ELSE Current(t) \cup ({"signal"} \X To(where, t))]
          /\ engine' = [engine EXCEPT !.pc = "committing", !.review = TRUE,
                                      !.kept = held, !.dropped = To(where, "drop")]
  BY DEF Review
<1>2. PICK held \in Picks(engine.kept, At(where, "hold")) :
        /\ drafts' = [t \in Topics |->
             IF At(where, t) = {} THEN drafts[t]
             ELSE Current(t) \cup ({"signal"} \X To(where, t))]
        /\ engine' = [engine EXCEPT !.pc = "committing", !.review = TRUE,
                                    !.kept = held, !.dropped = To(where, "drop")]
  BY <1>1
<1>3. /\ engine.pc = "reviewing"
      /\ UNCHANGED <<stagingVars, consolidated, into, personality>>
  BY DEF Review
<1>4. /\ engine \in Engines /\ engine.kept \in Seq(Signals)
      /\ Entries(engine.kept) \subseteq staged
      /\ drafts \in [Topics -> (SUBSET Marks) \cup {Missing}]
      /\ engine.todo = {}
  BY <1>3 DEF ConsolidationInv, Types, EngineOK, Engines, ConsolidationTypeOK, SignalInv,
     CarriedWasStaged, EpisodeInv, BatchOK
<1>5. \A i \in DOMAIN engine.kept : engine.kept[i] \in Signals
  BY <1>4
<1>6. held \in Seq(Signals) /\ Entries(held) = To(where, "hold")
  BY <1>2, <1>4, PickedEntries
<1>7. \A t : To(where, t) \subseteq Entries(engine.kept) /\ To(where, t) \subseteq Signals
  BY <1>5 DEF Entries
<1>8. Entries(engine.kept) \subseteq
        To(where, "hold") \cup To(where, "drop") \cup UNION {To(where, t) : t \in Topics}
  <2>. SUFFICES ASSUME NEW i \in DOMAIN engine.kept
                PROVE  engine.kept[i] \in To(where, "hold") \cup To(where, "drop")
                                         \cup UNION {To(where, t) : t \in Topics}
    BY DEF Entries
  <2>1. where[i] \in Topics \cup {"hold", "drop"} /\ i \in At(where, where[i])
    OBVIOUS
  <2>2. engine.kept[i] \in To(where, where[i])
    BY <2>1
  <2>. QED
    BY <2>1, <2>2
<1>9. \A t \in Topics :
        drafts'[t] = IF At(where, t) = {} THEN drafts[t]
                     ELSE Current(t) \cup ({"signal"} \X To(where, t))
  BY <1>2
<1>10. \A t \in Topics : To(where, t) = {} <=> At(where, t) = {}
  OBVIOUS
<1>. HIDE DEF At, To
<1>11. /\ engine' \in Engines /\ engine'.pc = "committing"
       /\ engine'.run = engine.run /\ engine'.batch = engine.batch
       /\ engine'.todo = engine.todo /\ engine'.review
       /\ engine'.sizes = engine.sizes /\ engine'.kept = held
       /\ engine'.dropped = To(where, "drop") /\ engine'.tails = engine.tails
  BY <1>2, <1>4, <1>6, <1>7 DEF Engines
<1>12. \A t \in Topics :
         /\ drafts'[t] \in (SUBSET Marks) \cup {Missing}
         /\ drafts'[t] # Missing => personality[t] \subseteq drafts'[t]
         /\ Current(t) \subseteq Current(t)'
         /\ \A s \in To(where, t) : <<"signal", s>> \in Current(t)'
  <2>. TAKE t \in Topics
  <2>1. CASE At(where, t) = {}
    <3>1. drafts'[t] = drafts[t] /\ Current(t)' = Current(t) /\ To(where, t) = {}
      BY <1>3, <1>9, <1>10, <2>1 DEF Current
    <3>. QED
      BY <1>4, <3>1 DEF ConsolidationInv, EpisodeInv, DraftsOK
  <2>2. CASE At(where, t) # {}
    <3>1. drafts'[t] = Current(t) \cup ({"signal"} \X To(where, t))
      BY <1>9, <2>2
    <3>2. Current(t) \in SUBSET Marks /\ personality[t] \subseteq Current(t)
      BY CurrentFacts
    <3>3. {"signal"} \X To(where, t) \subseteq Marks
      BY <1>7 DEF Marks
    <3>4. drafts'[t] \in SUBSET Marks
      BY <3>1, <3>2, <3>3
    <3>5. drafts'[t] # Missing
      BY <3>4, ConsolidationAssumption DEF ConsolidationAssumption
    <3>6. Current(t)' = drafts'[t]
      BY <3>5 DEF Current
    <3>. QED
      BY <3>1, <3>2, <3>4, <3>6
  <2>. QED
    BY <2>1, <2>2
<1>13. Types'
  <2>1. drafts' \in [Topics -> (SUBSET Marks) \cup {Missing}]
    <3>1. DOMAIN drafts' = Topics /\ drafts' = [t \in Topics |-> drafts'[t]]
      BY <1>2
    <3>. QED
      BY <1>12, <3>1
  <2>2. EngineOK'
    BY <1>11 DEF EngineOK
  <2>. QED
    BY <1>3, <1>11, <2>1, <2>2, TypesKept DEF ConsolidationInv, Types, ConsolidationTypeOK
<1>14. CarriedWasStaged'
  BY <1>3, <1>4, <1>6, <1>7, <1>11
  DEF ConsolidationInv, SignalInv, CarriedWasStaged, stagingVars
<1>15. ReadIsCarried'
  <2>1. Sized' = Sized /\ Sized \subseteq Entries(engine.kept)
    BY <1>3, <1>11 DEF Sized, stagingVars, ConsolidationInv, SignalInv, ReadIsCarried
  <2>2. UNION {To(where, t) : t \in Topics} \subseteq InDrafts'
    BY <1>7, <1>12 DEF InDrafts
  <2>3. Sized' \subseteq Entries(engine'.kept) \cup engine'.dropped \cup InDrafts'
    BY <1>6, <1>8, <1>11, <2>1, <2>2
  <2>. QED
    BY <1>11, <2>3 DEF ReadIsCarried
<1>16. RewriteLosesNothing' /\ DrainLosesNothing' /\ SignalsAreKept'
  BY <1>3, <1>11
  DEF RewriteLosesNothing, DrainLosesNothing, ConsolidationInv, SignalInv, SignalsAreKept,
      stagingVars
<1>17. DraftsOK' /\ BatchOK'
  BY <1>3, <1>4, <1>11, <1>12 DEF ConsolidationInv, EpisodeInv, DraftsOK, BatchOK
<1>18. CompressedIsCarried'
  <2>1. \A d \in engine.batch : into[d].topic \in Topics \cup {Missing}
    BY <1>4 DEF ConsolidationInv, Types, ConsolidationTypeOK, Engines
  <2>. QED
    BY <1>3, <1>11, <1>12, <2>1
    DEF ConsolidationInv, EpisodeInv, CompressedIsCarried, Written
<1>19. MarkedIsWritten'
  BY <1>3 DEF ConsolidationInv, EpisodeInv, MarkedIsWritten, Written
<1>. QED
  BY <1>13, <1>14, <1>15, <1>16, <1>17, <1>18, <1>19
  DEF ConsolidationInv, SignalInv, EpisodeInv
-----------------------------------------------------------------------------
(* The commit and what follows it. *)

\* Moving drafts, all of them or some, never takes a mark out of personality/.
LEMMA MovedFacts ==
  ASSUME ConsolidationInv, NEW T \in SUBSET Topics
  PROVE  /\ Moved(T) \in [Topics -> SUBSET Marks]
         /\ \A t \in Topics :
              /\ personality[t] \subseteq Moved(T)[t]
              /\ drafts[t] # Missing => Moved(T)[t] \subseteq drafts[t]
         /\ \A t \in T : Moved(T)[t] = Current(t)
<1>1. personality \in [Topics -> SUBSET Marks]
  BY DEF ConsolidationInv, Types, ConsolidationTypeOK
<1>2. \A t \in Topics : Moved(T)[t] = IF t \in T THEN Current(t) ELSE personality[t]
  BY DEF Moved, Current
<1>3. \A t \in Topics : Moved(T)[t] \in SUBSET Marks
  BY <1>1, <1>2, CurrentFacts
<1>4. Moved(T) \in [Topics -> SUBSET Marks]
  BY <1>3 DEF Moved
<1>. QED
  BY <1>2, <1>4, CurrentFacts

LEMMA CommitStep ==
  ASSUME ConsolidationInv, Commit
  PROVE  ConsolidationInv'
<1>1. /\ engine.pc = "committing" /\ drafts' = NoDrafts
      /\ personality' = Moved(Topics)
      /\ engine' = [engine EXCEPT !.pc = IF engine.review THEN "reading" ELSE "marking"]
      /\ UNCHANGED <<stagingVars, consolidated, into>>
  BY DEF Commit
<1>2. engine \in Engines /\ engine.todo = {}
  BY <1>1 DEF ConsolidationInv, Types, EngineOK, EpisodeInv, BatchOK
<1>3. /\ engine' \in Engines
      /\ engine.review => engine'.pc = "reading"
      /\ ~engine.review => engine'.pc = "marking"
      /\ engine'.run = engine.run /\ engine'.batch = engine.batch
      /\ engine'.todo = engine.todo /\ engine'.review = engine.review
      /\ engine'.sizes = engine.sizes /\ engine'.kept = engine.kept
      /\ engine'.dropped = engine.dropped /\ engine'.tails = engine.tails
  <2>1. CASE engine.review
    <3>1. engine' = [engine EXCEPT !.pc = "reading"]
      BY <1>1, <2>1
    <3>. QED
      BY <1>2, <2>1, <3>1 DEF Engines
  <2>2. CASE ~engine.review
    <3>1. engine' = [engine EXCEPT !.pc = "marking"]
      BY <1>1, <2>2
    <3>. QED
      BY <1>2, <2>2, <3>1 DEF Engines
  <2>. QED
    BY <2>1, <2>2
<1>4. /\ personality' \in [Topics -> SUBSET Marks]
      /\ \A t \in Topics :
           personality[t] \subseteq personality'[t] /\ personality'[t] = Current(t)
  <2>1. Topics \in SUBSET Topics
    OBVIOUS
  <2>2. /\ Moved(Topics) \in [Topics -> SUBSET Marks]
        /\ \A t \in Topics :
             personality[t] \subseteq Moved(Topics)[t] /\ Moved(Topics)[t] = Current(t)
    BY <2>1, MovedFacts
  <2>3. personality' = Moved(Topics)
    BY <1>1
  <2>. QED
    BY <2>2, <2>3
<1>5. Types'
  <2>1. EngineOK'
    BY <1>3 DEF EngineOK
  <2>2. drafts' \in [Topics -> (SUBSET Marks) \cup {Missing}]
    BY <1>1 DEF NoDrafts
  <2>. QED
    BY <1>1, <1>3, <1>4, <2>1, <2>2, TypesKept DEF ConsolidationInv, Types, ConsolidationTypeOK
<1>6. CarriedWasStaged'
  BY <1>1, <1>3 DEF ConsolidationInv, SignalInv, CarriedWasStaged, stagingVars
<1>7. InPersonality \subseteq InPersonality' /\ InDrafts \subseteq InPersonality'
  BY <1>4 DEF InPersonality, InDrafts
<1>8. SignalInv'
  <2>1. CASE ~engine.review
    BY <1>1, <1>3, <1>5, <1>6, <1>7, <2>1, QuietSignals DEF Types
  <2>2. CASE engine.review
    <3>1. Sized' = Sized
      BY <1>1, <1>3 DEF Sized, stagingVars
    <3>2. ReadIsCarried'
      BY <1>1, <1>3, <1>7, <2>2, <3>1 DEF ConsolidationInv, SignalInv, ReadIsCarried
    <3>3. RewriteLosesNothing' /\ DrainLosesNothing'
      BY <1>3, <2>2 DEF RewriteLosesNothing, DrainLosesNothing
    <3>4. SignalsAreKept'
      <4>1. staged \subseteq Entries(immediate) \cup Entries(deferred) \cup Gone
        BY SignalsAreKeptAs DEF ConsolidationInv, SignalInv, Types
      <4>2. staged' \subseteq Entries(immediate') \cup Entries(deferred') \cup Gone'
        BY <1>1, <1>7, <4>1 DEF Gone, stagingVars
      <4>. QED
        BY <1>5, <4>2
        DEF Types, ConsolidationTypeOK, SignalsAreKept, Gone, InPersonality
    <3>. QED
      BY <1>6, <3>2, <3>3, <3>4 DEF SignalInv
  <2>. QED
    BY <2>1, <2>2
<1>9. \A t \in Topics : Current(t)' = Current(t)
  BY <1>1, <1>4 DEF Current, NoDrafts
<1>10. DraftsOK' /\ BatchOK'
  BY <1>1, <1>2, <1>3 DEF ConsolidationInv, EpisodeInv, DraftsOK, NoDrafts, BatchOK
<1>11. CompressedIsCarried'
  <2>1. \A d \in engine.batch : into[d].topic \in Topics \cup {Missing}
    BY <1>2 DEF ConsolidationInv, Types, ConsolidationTypeOK, Engines
  <2>. QED
    BY <1>1, <1>3, <1>9, <2>1 DEF ConsolidationInv, EpisodeInv, CompressedIsCarried, Written
<1>12. MarkedIsWritten'
  <2>1. \A d \in consolidated : into[d].topic \in Topics \cup {Missing}
    BY DEF ConsolidationInv, Types, ConsolidationTypeOK
  <2>. QED
    BY <1>1, <1>4, <2>1 DEF ConsolidationInv, EpisodeInv, MarkedIsWritten, Written
<1>. QED
  BY <1>5, <1>8, <1>10, <1>11, <1>12 DEF ConsolidationInv, EpisodeInv

\* A run that is interrupted carries nothing on, and some drafts may be moved.
LEMMA InterruptedStep ==
  ASSUME ConsolidationInv, Interrupted
  PROVE  ConsolidationInv'
<1>1. /\ engine' = Resting(engine.run) /\ engine.run \in 0..MaxRuns
      /\ drafts' \in {drafts, NoDrafts}
      /\ UNCHANGED <<stagingVars, consolidated, into>>
  BY DEF Interrupted, ConsolidationInv, Types, EngineOK, Engines
<1>2. PICK T \in SUBSET Topics : personality' = Moved(T)
  <2>1. CASE engine.pc = "committing"
    BY <2>1 DEF Interrupted
  <2>2. CASE engine.pc # "committing"
    <3>1. personality' = personality
      BY <2>2 DEF Interrupted
    <3>2. Moved({}) = personality
      BY DEF Moved, ConsolidationInv, Types, ConsolidationTypeOK
    <3>. QED
      BY <3>1, <3>2
  <2>. QED
    BY <2>1, <2>2
<1>3. /\ engine' \in Engines /\ engine'.pc = "resting"
      /\ engine'.run = engine.run /\ engine'.batch = {} /\ engine'.todo = {}
      /\ ~engine'.review /\ engine'.sizes = <<0, 0>>
      /\ engine'.kept = <<>> /\ engine'.dropped = {}
      /\ engine'.tails = <<<<>>, <<>>>>
  BY <1>1, RestingFacts
<1>4. /\ personality' \in [Topics -> SUBSET Marks]
      /\ \A t \in Topics : personality[t] \subseteq personality'[t]
      /\ \A t \in Topics : drafts[t] # Missing => personality'[t] \subseteq drafts[t]
  <2>1. /\ Moved(T) \in [Topics -> SUBSET Marks]
        /\ \A t \in Topics :
             /\ personality[t] \subseteq Moved(T)[t]
             /\ drafts[t] # Missing => Moved(T)[t] \subseteq drafts[t]
    BY MovedFacts
  <2>. QED
    BY <1>2, <2>1
<1>5. Types'
  <2>1. EngineOK'
    BY <1>3 DEF EngineOK
  <2>2. drafts' \in [Topics -> (SUBSET Marks) \cup {Missing}]
    BY <1>1 DEF NoDrafts, ConsolidationInv, Types, ConsolidationTypeOK
  <2>. QED
    BY <1>1, <1>3, <1>4, <2>1, <2>2, TypesKept DEF ConsolidationInv, Types, ConsolidationTypeOK
<1>6. SignalInv'
  <2>1. CarriedWasStaged'
    BY <1>3, NothingInNothing DEF CarriedWasStaged
  <2>2. InPersonality \subseteq InPersonality'
    BY <1>4 DEF InPersonality
  <2>. QED
    BY <1>1, <1>3, <1>5, <2>1, <2>2, QuietSignals DEF Types
<1>7. DraftsOK' /\ BatchOK' /\ CompressedIsCarried'
  BY <1>1, <1>3, <1>4
  DEF ConsolidationInv, EpisodeInv, DraftsOK, NoDrafts, BatchOK, CompressedIsCarried
<1>8. MarkedIsWritten'
  <2>1. \A d \in consolidated : into[d].topic \in Topics \cup {Missing}
    BY DEF ConsolidationInv, Types, ConsolidationTypeOK
  <2>. QED
    BY <1>1, <1>4, <2>1 DEF ConsolidationInv, EpisodeInv, MarkedIsWritten, Written
<1>. QED
  BY <1>5, <1>6, <1>7, <1>8 DEF ConsolidationInv, EpisodeInv
\* What was dropped is settled now, and what came after the sizes is read.
LEMMA ReadTailsStep ==
  ASSUME ConsolidationInv, ReadTails
  PROVE  ConsolidationInv'
<1>. DEFINE tails == <<After(immediate, engine.sizes[1]), After(deferred, engine.sizes[2])>>
<1>1. /\ engine.pc = "reading" /\ settled' = settled \cup engine.dropped
      /\ engine' = [engine EXCEPT !.pc = "rewriting", !.sizes = <<0, 0>>,
                                  !.dropped = {}, !.tails = tails]
      /\ UNCHANGED <<immediate, deferred, staged, raced, consolidated, into, drafts,
                     personality>>
  BY DEF ReadTails
<1>2. /\ engine \in Engines /\ engine.todo = {}
      /\ immediate \in Seq(Signals) /\ deferred \in Seq(Signals)
      /\ engine.sizes[1] \in 0..Len(immediate) /\ engine.sizes[2] \in 0..Len(deferred)
  BY <1>1 DEF ConsolidationInv, Types, EngineOK, FilesOK, Engines, EpisodeInv, BatchOK
<1>3. /\ tails[1] \in Seq(Signals) /\ tails[2] \in Seq(Signals)
      /\ Entries(tails[1]) \subseteq Entries(immediate)
      /\ Entries(tails[2]) \subseteq Entries(deferred)
      /\ Entries(immediate) \subseteq Sized \cup Entries(tails[1])
      /\ Entries(deferred) \subseteq Sized \cup Entries(tails[2])
  <2>1. /\ tails[1] \in Seq(Signals)
        /\ Entries(tails[1]) \subseteq Entries(immediate)
        /\ Entries(immediate) = {immediate[i] : i \in 1..engine.sizes[1]}
                                   \cup Entries(tails[1])
    BY <1>2, AfterEntries
  <2>2. /\ tails[2] \in Seq(Signals)
        /\ Entries(tails[2]) \subseteq Entries(deferred)
        /\ Entries(deferred) = {deferred[i] : i \in 1..engine.sizes[2]}
                                  \cup Entries(tails[2])
    BY <1>2, AfterEntries
  <2>. HIDE DEF tails
  <2>. QED
    BY <2>1, <2>2 DEF Sized
<1>. HIDE DEF tails
<1>4. tails \in Seq(Signals) \X Seq(Signals)
  BY <1>3 DEF tails
<1>5. /\ engine' \in Engines /\ engine'.pc = "rewriting"
      /\ engine'.run = engine.run /\ engine'.batch = engine.batch
      /\ engine'.todo = engine.todo /\ engine'.review = engine.review
      /\ engine'.sizes = <<0, 0>> /\ engine'.kept = engine.kept
      /\ engine'.dropped = {} /\ engine'.tails = tails
  BY <1>1, <1>2, <1>4 DEF Engines
<1>6. Types'
  <2>1. ConsolidationTypeOK'
    BY <1>1, <1>5
    DEF ConsolidationInv, Types, ConsolidationTypeOK, SignalInv, CarriedWasStaged
  <2>2. EngineOK'
    BY <1>5 DEF EngineOK
  <2>3. FilesOK'
    <3>1. Len(immediate) \in Nat /\ Len(deferred) \in Nat
      BY <1>2
    <3>. QED
      BY <1>1, <1>2, <1>5, <3>1 DEF FilesOK, SizesAreZero
  <2>. QED
    BY <2>1, <2>2, <2>3 DEF Types
<1>7. CarriedWasStaged'
  BY <1>1, <1>3, <1>5
  DEF ConsolidationInv, SignalInv, CarriedWasStaged, Types, ConsolidationTypeOK
<1>8. ReadIsCarried' /\ DrainLosesNothing'
  BY <1>5 DEF ReadIsCarried, DrainLosesNothing
<1>9. /\ Gone \subseteq Gone' /\ engine.dropped \subseteq Gone'
      /\ InPersonality \subseteq Gone'
  BY <1>1 DEF Gone, InPersonality
<1>10. RewriteLosesNothing'
  <2>1. Sized \subseteq Entries(engine.kept) \cup engine.dropped \cup InPersonality
    BY <1>1 DEF ConsolidationInv, SignalInv, ReadIsCarried
  <2>2. /\ Entries(immediate') \subseteq Entries(tails[1]) \cup Entries(engine.kept) \cup Gone'
        /\ Entries(deferred') \subseteq Entries(tails[2]) \cup Entries(engine.kept) \cup Gone'
    BY <1>1, <1>3, <1>9, <2>1
  <2>. QED
    BY <1>5, <2>2 DEF RewriteLosesNothing
<1>11. SignalsAreKept'
  <2>1. staged \subseteq Entries(immediate) \cup Entries(deferred) \cup Gone
    BY SignalsAreKeptAs DEF ConsolidationInv, SignalInv, Types
  <2>2. staged' \subseteq Entries(immediate') \cup Entries(deferred') \cup Gone'
    BY <1>1, <1>9, <2>1
  <2>. QED
    BY <1>6, <2>2
    DEF Types, ConsolidationTypeOK, SignalsAreKept, Gone, InPersonality
<1>12. EpisodeInv'
  BY <1>1, <1>2, <1>5, QuietEpisodes
<1>. QED
  BY <1>6, <1>7, <1>8, <1>10, <1>11, <1>12 DEF ConsolidationInv, SignalInv

\* What was held goes to the end of the review, what came later after it.
LEMMA RewriteStep ==
  ASSUME ConsolidationInv, RewriteDeferred
  PROVE  ConsolidationInv'
<1>1. /\ engine.pc = "rewriting" /\ deferred' = engine.kept \o engine.tails[2]
      /\ engine' = [engine EXCEPT !.pc = "draining", !.kept = <<>>]
      /\ UNCHANGED <<immediate, staged, raced, settled, consolidated, into, drafts,
                     personality>>
  BY DEF RewriteDeferred
<1>2. /\ engine \in Engines /\ engine.todo = {} /\ engine.kept \in Seq(Signals)
      /\ engine.tails[2] \in Seq(Signals)
  BY <1>1 DEF ConsolidationInv, Types, EngineOK, Engines, EpisodeInv, BatchOK
<1>3. /\ deferred' \in Seq(Signals)
      /\ Entries(deferred') = Entries(engine.kept) \cup Entries(engine.tails[2])
  BY <1>1, <1>2, ConcatEntries
<1>4. /\ engine' \in Engines /\ engine'.pc = "draining"
      /\ engine'.run = engine.run /\ engine'.batch = engine.batch
      /\ engine'.todo = engine.todo /\ engine'.review = engine.review
      /\ engine'.sizes = engine.sizes /\ engine'.kept = <<>>
      /\ engine'.dropped = engine.dropped /\ engine'.tails = engine.tails
  <2>1. <<>> \in Seq(Signals)
    OBVIOUS
  <2>. QED
    BY <1>1, <1>2, <2>1 DEF Engines
<1>5. ConsolidationTypeOK'
  BY <1>1, <1>3, <1>4
  DEF ConsolidationInv, Types, ConsolidationTypeOK, SignalInv, CarriedWasStaged
<1>6. Types'
  <2>1. EngineOK'
    BY <1>4 DEF EngineOK
  <2>2. FilesOK'
    <3>1. engine.sizes = <<0, 0>>
      BY <1>1 DEF ConsolidationInv, Types, FilesOK, SizesAreZero
    <3>2. Len(immediate) \in Nat /\ Len(deferred') \in Nat
      BY <1>3 DEF ConsolidationInv, Types, FilesOK
    <3>3. engine'.sizes[1] = 0 /\ engine'.sizes[2] = 0 /\ SizesAreZero'
      BY <1>4, <3>1 DEF SizesAreZero
    <3>4. immediate' = immediate /\ immediate \in Seq(Signals)
      BY <1>1 DEF ConsolidationInv, Types, FilesOK
    <3>. QED
      BY <1>3, <3>2, <3>3, <3>4 DEF FilesOK
  <2>. QED
    BY <1>5, <2>1, <2>2 DEF Types
<1>7. CarriedWasStaged'
  BY <1>1, <1>4, NothingInNothing DEF ConsolidationInv, SignalInv, CarriedWasStaged
<1>8. ReadIsCarried' /\ RewriteLosesNothing'
  BY <1>4 DEF ReadIsCarried, RewriteLosesNothing
<1>9. Gone' = Gone
  BY <1>1 DEF Gone, InPersonality
<1>10. /\ Entries(immediate)
            \subseteq Entries(engine.tails[1]) \cup Entries(engine.kept) \cup Gone
       /\ Entries(deferred)
            \subseteq Entries(engine.tails[2]) \cup Entries(engine.kept) \cup Gone
  BY <1>1 DEF ConsolidationInv, SignalInv, RewriteLosesNothing
<1>11. DrainLosesNothing'
  BY <1>1, <1>3, <1>4, <1>9, <1>10 DEF DrainLosesNothing
<1>12. SignalsAreKept'
  <2>1. staged \subseteq Entries(immediate) \cup Entries(deferred) \cup Gone
    BY SignalsAreKeptAs DEF ConsolidationInv, SignalInv, Types
  <2>2. staged' \subseteq Entries(immediate') \cup Entries(deferred') \cup Gone'
    BY <1>1, <1>3, <1>9, <1>10, <2>1
  <2>. QED
    BY <1>5, <2>2 DEF ConsolidationTypeOK, SignalsAreKept, Gone, InPersonality
<1>13. EpisodeInv'
  BY <1>1, <1>2, <1>4, QuietEpisodes
<1>. QED
  BY <1>6, <1>7, <1>8, <1>11, <1>12, <1>13 DEF ConsolidationInv, SignalInv

LEMMA DrainStep ==
  ASSUME ConsolidationInv, DrainImmediate
  PROVE  ConsolidationInv'
<1>1. /\ engine.pc = "draining" /\ immediate' = engine.tails[1]
      /\ engine' = [Resting(engine.run) EXCEPT !.pc = "marking", !.batch = engine.batch]
      /\ UNCHANGED <<deferred, staged, raced, settled, consolidated, into, drafts,
                     personality>>
  BY DEF DrainImmediate
<1>2. /\ engine \in Engines /\ engine.todo = {} /\ engine.run \in 0..MaxRuns
      /\ engine.batch \in SUBSET Episodes /\ engine.tails[1] \in Seq(Signals)
  BY <1>1 DEF ConsolidationInv, Types, EngineOK, Engines, EpisodeInv, BatchOK
<1>3. /\ engine' \in Engines /\ engine'.pc = "marking"
      /\ engine'.run = engine.run /\ engine'.batch = engine.batch
      /\ engine'.todo = {} /\ ~engine'.review
      /\ engine'.sizes = <<0, 0>> /\ engine'.kept = <<>>
      /\ engine'.dropped = {} /\ engine'.tails = <<<<>>, <<>>>>
  BY <1>1, <1>2, RestingFacts DEF Engines
<1>4. ConsolidationTypeOK'
  BY <1>1, <1>3 DEF ConsolidationInv, Types, ConsolidationTypeOK, SignalInv, CarriedWasStaged
<1>5. Types'
  <2>1. EngineOK'
    BY <1>3 DEF EngineOK
  <2>2. FilesOK'
    BY <1>1, <1>2, <1>3 DEF FilesOK, SizesAreZero, ConsolidationInv, Types
  <2>. QED
    BY <1>4, <2>1, <2>2 DEF Types
<1>6. CarriedWasStaged'
  BY <1>3, NothingInNothing DEF CarriedWasStaged
<1>7. ReadIsCarried' /\ RewriteLosesNothing' /\ DrainLosesNothing'
  BY <1>3 DEF ReadIsCarried, RewriteLosesNothing, DrainLosesNothing
<1>8. SignalsAreKept'
  <2>1. staged \subseteq Entries(immediate) \cup Entries(deferred) \cup Gone
    BY SignalsAreKeptAs DEF ConsolidationInv, SignalInv, Types
  <2>2. Entries(immediate)
          \subseteq Entries(engine.tails[1]) \cup Entries(deferred) \cup Gone
    BY <1>1 DEF ConsolidationInv, SignalInv, DrainLosesNothing
  <2>3. Gone' = Gone
    BY <1>1 DEF Gone, InPersonality
  <2>4. staged' \subseteq Entries(immediate') \cup Entries(deferred') \cup Gone'
    BY <1>1, <2>1, <2>2, <2>3
  <2>. QED
    BY <1>4, <2>4 DEF ConsolidationTypeOK, SignalsAreKept, Gone, InPersonality
<1>9. EpisodeInv'
  BY <1>1, <1>2, <1>3, QuietEpisodes
<1>. QED
  BY <1>5, <1>6, <1>7, <1>8, <1>9 DEF ConsolidationInv, SignalInv

LEMMA CleanupFailsStep ==
  ASSUME ConsolidationInv, CleanupFails
  PROVE  ConsolidationInv'
<1>1. /\ engine.pc \in {"rewriting", "draining"}
      /\ engine' = [Resting(engine.run) EXCEPT !.pc = "marking", !.batch = engine.batch]
      /\ UNCHANGED <<stagingVars, consolidated, into, drafts, personality>>
  BY DEF CleanupFails
<1>2. /\ engine \in Engines /\ engine.todo = {} /\ engine.run \in 0..MaxRuns
      /\ engine.batch \in SUBSET Episodes
  BY <1>1 DEF ConsolidationInv, Types, EngineOK, Engines, EpisodeInv, BatchOK
<1>3. /\ engine' \in Engines /\ engine'.pc = "marking"
      /\ engine'.run = engine.run /\ engine'.batch = engine.batch
      /\ engine'.todo = {} /\ ~engine'.review
      /\ engine'.sizes = <<0, 0>> /\ engine'.kept = <<>>
      /\ engine'.dropped = {} /\ engine'.tails = <<<<>>, <<>>>>
  BY <1>1, <1>2, RestingFacts DEF Engines
<1>4. Types'
  BY <1>1, <1>3, TypesKept DEF ConsolidationInv, Types, ConsolidationTypeOK, EngineOK
<1>5. SignalInv'
  <2>1. CarriedWasStaged' /\ InPersonality' = InPersonality
    BY <1>1, <1>3, NothingInNothing DEF CarriedWasStaged, InPersonality
  <2>. QED
    BY <1>1, <1>3, <1>4, <2>1, QuietSignals DEF Types
<1>6. EpisodeInv'
  BY <1>1, <1>2, <1>3, QuietEpisodes
<1>. QED
  BY <1>4, <1>5, <1>6 DEF ConsolidationInv

\* The batch is marked: its episodes are where the run has put them.
LEMMA MarkStep ==
  ASSUME ConsolidationInv, Mark
  PROVE  ConsolidationInv'
<1>1. /\ engine.pc = "marking" /\ consolidated' = consolidated \cup engine.batch
      /\ engine' = Resting(engine.run)
      /\ UNCHANGED <<stagingVars, into, drafts, personality>>
  BY DEF Mark
<1>2. /\ engine \in Engines /\ engine.todo = {} /\ engine.run \in 0..MaxRuns
      /\ engine.batch \in SUBSET Episodes /\ drafts = NoDrafts
  BY <1>1 DEF ConsolidationInv, Types, EngineOK, Engines, EpisodeInv, BatchOK, DraftsOK
<1>3. /\ engine' \in Engines /\ engine'.pc = "resting"
      /\ engine'.run = engine.run /\ engine'.batch = {}
      /\ engine'.todo = {} /\ ~engine'.review
      /\ engine'.sizes = <<0, 0>> /\ engine'.kept = <<>>
      /\ engine'.dropped = {} /\ engine'.tails = <<<<>>, <<>>>>
  BY <1>1, <1>2, RestingFacts
<1>4. Types'
  <2>1. EngineOK' /\ consolidated' \subseteq Episodes
    BY <1>1, <1>2, <1>3 DEF EngineOK, ConsolidationInv, Types, ConsolidationTypeOK
  <2>. QED
    BY <1>1, <1>3, <2>1, TypesKept DEF ConsolidationInv, Types, ConsolidationTypeOK
<1>5. SignalInv'
  <2>1. CarriedWasStaged' /\ InPersonality' = InPersonality
    BY <1>1, <1>3, NothingInNothing DEF CarriedWasStaged, InPersonality
  <2>. QED
    BY <1>1, <1>3, <1>4, <2>1, QuietSignals DEF Types
<1>6. DraftsOK' /\ BatchOK' /\ CompressedIsCarried'
  BY <1>1, <1>2, <1>3
  DEF ConsolidationInv, EpisodeInv, DraftsOK, NoDrafts, BatchOK, CompressedIsCarried
<1>7. MarkedIsWritten'
  <2>1. ASSUME NEW d \in engine.batch
        PROVE  Written(d, personality[into[d].topic], engine.batch)
    <3>1. Written(d, Current(into[d].topic), engine.batch)
      BY <1>2, <2>1 DEF ConsolidationInv, EpisodeInv, CompressedIsCarried
    <3>2. into[d].topic \in Topics \cup {Missing}
      BY <1>2, <2>1 DEF ConsolidationInv, Types, ConsolidationTypeOK
    <3>3. into[d].topic # Missing => Current(into[d].topic) = personality[into[d].topic]
      BY <1>2, <3>2 DEF Current, NoDrafts
    <3>. QED
      BY <3>1, <3>3 DEF Written
  <2>. QED
    BY <1>1, <2>1 DEF ConsolidationInv, EpisodeInv, MarkedIsWritten, Written
<1>. QED
  BY <1>4, <1>5, <1>6, <1>7 DEF ConsolidationInv, EpisodeInv

LEMMA NextConsolidationInv ==
  ASSUME ConsolidationInv, [ConsolidationNext]_consolidationVars
  PROVE  ConsolidationInv'
<1>1. CASE UNCHANGED consolidationVars
  <2>1. UNCHANGED <<immediate, deferred, staged, raced, settled, consolidated, into,
                    drafts, personality, engine>>
    BY <1>1 DEF consolidationVars, stagingVars
  <2>2. Types'
    BY <2>1 DEF ConsolidationInv, Types, ConsolidationTypeOK, EngineOK, FilesOK, SizesAreZero
  <2>3. SignalInv'
    BY <2>1
    DEF ConsolidationInv, SignalInv, CarriedWasStaged, ReadIsCarried, Sized, InDrafts, Current,
        RewriteLosesNothing, DrainLosesNothing, Gone, InPersonality, SignalsAreKept
  <2>4. EpisodeInv'
    BY <2>1
    DEF ConsolidationInv, EpisodeInv, DraftsOK, BatchOK, CompressedIsCarried, Current,
        MarkedIsWritten, Written
  <2>. QED
    BY <2>2, <2>3, <2>4 DEF ConsolidationInv
<1>. QED
  BY <1>1, StageStep, StartRunStep, GatherStep, CompressStep, LookStep, ParseStep,
     ReviewStep, CommitStep, InterruptedStep, ReadTailsStep, RewriteStep, DrainStep,
     CleanupFailsStep, MarkStep
  DEF ConsolidationNext

-----------------------------------------------------------------------------
(* What is proved. *)

\* Every reachable state of a morning's memory satisfies the invariant: what
\* _phase_review has read and _phase_consolidate has compressed is carried, from
\* step to step of the run, to the files or to .pending/.
THEOREM ConsolidationInvariant == ConsolidationSpec => []ConsolidationInv
<1>1. ConsolidationInit => ConsolidationInv
  BY InitConsolidationInv
<1>2. ConsolidationInv /\ [ConsolidationNext]_consolidationVars => ConsolidationInv'
  BY NextConsolidationInv
<1>. QED
  BY <1>1, <1>2, PTL DEF ConsolidationSpec

\* Only staged signals are in the staging files, and drafts and personality/ say
\* only what was staged or compressed.
THEOREM ConsolidationTypes == ConsolidationSpec => []ConsolidationTypeOK
<1>1. ConsolidationInv => ConsolidationTypeOK
  BY DEF ConsolidationInv, Types
<1>. QED
  BY <1>1, ConsolidationInvariant, PTL

\* StagingWriter.append and _apply_staging_cleanup lose no signal but those that
\* come between the reading and the rewriting of their file: it is in a staging
\* file or in personality/ until a review drops it.
THEOREM SignalsStay == ConsolidationSpec => []SignalsAreKept
<1>1. ConsolidationInv => SignalsAreKept
  BY DEF ConsolidationInv, SignalInv
<1>. QED
  BY <1>1, ConsolidationInvariant, PTL

\* mark_consolidated marks an episode that _commit_pending has moved to the file
\* it was compressed to, or a later one of its run has taken its place there.
THEOREM MarkedEpisodesAreWritten == ConsolidationSpec => []ConsolidatedIsWritten
<1>1. ASSUME ConsolidationInv
      PROVE  ConsolidatedIsWritten
  <2>1. consolidated \subseteq Episodes
    BY <1>1 DEF ConsolidationInv, Types, ConsolidationTypeOK
  <2>2. MarkedIsWritten
    BY <1>1 DEF ConsolidationInv, EpisodeInv
  <2>. QED
    BY <2>1, <2>2 DEF ConsolidatedIsWritten, MarkedIsWritten, Written
<1>. QED
  BY <1>1, ConsolidationInvariant, PTL
=============================================================================
