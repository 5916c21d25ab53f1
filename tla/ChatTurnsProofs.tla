-------------------------- MODULE ChatTurnsProofs --------------------------
(***************************************************************************)
(* The turns of a chat for any set of messages, finite or not, and any     *)
(* bounds, proved with TLAPS.                                              *)
(*                                                                         *)
(* That one message is handled at a time says nothing about a task that    *)
(* has lost the chat to another and goes on.  RoguesAreCounted counts      *)
(* those: an active chat is owned by a task that is not over, and every    *)
(* other task that has not given up was overrun.  Distinct says that a     *)
(* queued message waits at one place of one queue, so that the task that   *)
(* takes it from there is the only one to handle it.                       *)
(***************************************************************************)
EXTENDS ChatTurns, FiniteSetTheorems, TLAPS

OwnerIsAtWork ==
  /\ chat.owner # None => pc[chat.owner] \in Owning
  /\ chat.old => chat.owner # None

\* The tasks that have not given the chat up although it is not theirs.
Rogues == {m \in Messages : pc[m] \in Owning /\ m # chat.owner}

RoguesAreCounted ==
  /\ IsFiniteSet(Rogues)
  /\ Cardinality(Rogues) + (IF chat.old THEN 1 ELSE 0) <= overruns

\* The queues of a chat hold each message once.
Distinct(c) ==
  /\ IsInjective(c.addenda) /\ IsInjective(c.pending)
  /\ Range(c.addenda) \cap Range(c.pending) = {}

\* A message that has not been looked at has no fate.
NewHasNoFate ==
  \A m \in Messages : pc[m] \in {"new", "classifying"} => fate[m] = "none"

\* A task that handles has a message to handle.
WorkersHaveWork == \A m \in Working : work[m] \in Messages

IInv ==
  /\ TypeOK
  /\ OwnerIsAtWork
  /\ RoguesAreCounted
  /\ Distinct(chat)
  /\ NewHasNoFate
  /\ AcceptedIsKept
  /\ WorkersHaveWork
  /\ HandledOnce
-----------------------------------------------------------------------------
(* Queues. *)

LEMMA AppendOnce ==
  ASSUME NEW S, NEW q \in Seq(S), NEW m \in S
  PROVE  /\ Append(q, m) \in Seq(S)
         /\ Range(Append(q, m)) = Range(q) \cup {m}
         /\ IsInjective(q) /\ m \notin Range(q) => IsInjective(Append(q, m))
<1>1. /\ Append(q, m) \in Seq(S) /\ Len(Append(q, m)) = Len(q) + 1
      /\ DOMAIN q = 1..Len(q) /\ Len(q) \in Nat
      /\ DOMAIN Append(q, m) = 1..(Len(q) + 1)
      /\ \A i \in 1..Len(q) : Append(q, m)[i] = q[i]
      /\ Append(q, m)[Len(q) + 1] = m
  OBVIOUS
<1>2. Range(Append(q, m)) = Range(q) \cup {m}
  BY <1>1 DEF Range
<1>3. ASSUME IsInjective(q), m \notin Range(q)
      PROVE  IsInjective(Append(q, m))
  BY <1>1, <1>3 DEF IsInjective, Range
<1>. QED
  BY <1>1, <1>2, <1>3

LEMMA TailOnce ==
  ASSUME NEW S, NEW q \in Seq(S), q # <<>>, IsInjective(q)
  PROVE  /\ Head(q) \in Range(q) /\ Head(q) \in S
         /\ Tail(q) \in Seq(S)
         /\ Range(Tail(q)) = Range(q) \ {Head(q)}
         /\ IsInjective(Tail(q))
<1>1. /\ Tail(q) \in Seq(S) /\ Len(q) \in Nat /\ Len(q) > 0
      /\ DOMAIN q = 1..Len(q) /\ DOMAIN Tail(q) = 1..(Len(q) - 1)
      /\ \A i \in 1..(Len(q) - 1) : Tail(q)[i] = q[i + 1]
      /\ Head(q) = q[1] /\ \A i \in 1..Len(q) : q[i] \in S
  OBVIOUS
<1>2. Range(Tail(q)) \subseteq Range(q) \ {Head(q)}
  BY <1>1 DEF Range, IsInjective
<1>3. ASSUME NEW i \in DOMAIN q, q[i] # Head(q)
      PROVE  q[i] \in Range(Tail(q))
  <2>1. i - 1 \in DOMAIN Tail(q) /\ Tail(q)[i - 1] = q[i]
    BY <1>1, <1>3
  <2>. QED
    BY <2>1 DEF Range
<1>4. Range(Tail(q)) = Range(q) \ {Head(q)}
  BY <1>2, <1>3 DEF Range
<1>5. IsInjective(Tail(q))
  BY <1>1 DEF IsInjective
<1>6. Head(q) \in Range(q)
  BY <1>1 DEF Range
<1>. QED
  BY <1>1, <1>4, <1>5, <1>6

LEMMA EmptyQueue ==
  ASSUME NEW S, NEW q \in Seq(S)
  PROVE  q = <<>> <=> Range(q) = {}
<1>1. ASSUME q # <<>>
      PROVE  q[1] \in Range(q)
  BY <1>1 DEF Range
<1>2. Range(<<>>) = {}
  BY DEF Range
<1>. QED
  BY <1>1, <1>2

\* What pop_next takes leaves the queues, and nothing else does.
LEMMA PopFacts ==
  ASSUME TypeOK, Distinct(chat), Queued(chat) # {},
         NEW next, next = PopNext(chat)
  PROVE  /\ next.msg \in Queued(chat) /\ next.msg \in Messages
         /\ next.rest \in [owner : Messages \cup {None}, old : BOOLEAN,
                           addenda : Seq(Messages), pending : Seq(Messages)]
         /\ Queued(next.rest) = Queued(chat) \ {next.msg}
         /\ Distinct(next.rest)
<1>. USE DEF TypeOK, Queued, Distinct
<1>1. chat.addenda \in Seq(Messages) /\ chat.pending \in Seq(Messages)
  OBVIOUS
<1>2. CASE chat.addenda # <<>>
  <2>1. /\ next.msg = Head(chat.addenda)
        /\ next.rest = [chat EXCEPT !.addenda = Tail(chat.addenda)]
    BY <1>2 DEF PopNext
  <2>2. /\ Head(chat.addenda) \in Range(chat.addenda)
        /\ Head(chat.addenda) \in Messages
        /\ Tail(chat.addenda) \in Seq(Messages)
        /\ Range(Tail(chat.addenda)) = Range(chat.addenda) \ {Head(chat.addenda)}
        /\ IsInjective(Tail(chat.addenda))
    BY <1>1, <1>2, TailOnce
  <2>3. /\ next.rest.addenda = Tail(chat.addenda)
        /\ next.rest.pending = chat.pending
    BY <2>1
  <2>4. next.rest \in [owner : Messages \cup {None}, old : BOOLEAN,
                      addenda : Seq(Messages), pending : Seq(Messages)]
    BY <2>1, <2>2
  <2>. QED
    BY <2>1, <2>2, <2>3, <2>4
<1>3. CASE chat.addenda = <<>>
  <2>1. /\ next.msg = Head(chat.pending)
        /\ next.rest = [chat EXCEPT !.pending = Tail(chat.pending)]
    BY <1>3 DEF PopNext
  <2>2. Range(chat.addenda) = {} /\ chat.pending # <<>>
    BY <1>1, <1>3, EmptyQueue
  <2>3. /\ Head(chat.pending) \in Range(chat.pending)
        /\ Head(chat.pending) \in Messages
        /\ Tail(chat.pending) \in Seq(Messages)
        /\ Range(Tail(chat.pending)) = Range(chat.pending) \ {Head(chat.pending)}
        /\ IsInjective(Tail(chat.pending))
    BY <1>1, <2>2, TailOnce
  <2>4. /\ next.rest.pending = Tail(chat.pending)
        /\ next.rest.addenda = chat.addenda
    BY <2>1
  <2>5. next.rest \in [owner : Messages \cup {None}, old : BOOLEAN,
                      addenda : Seq(Messages), pending : Seq(Messages)]
    BY <2>1, <2>3
  <2>. QED
    BY <2>1, <2>2, <2>3, <2>4, <2>5
<1>. QED
  BY <1>2, <1>3

-----------------------------------------------------------------------------
(* Rogues. *)

\* A state is stale only by its age.
LEMMA StaleIsOld ==
  ASSUME IInv
  PROVE  Stale <=> chat.old
BY DEF IInv, TypeOK, OwnerIsAtWork, Stale, Owning

LEMMA RoguesShrink ==
  ASSUME RoguesAreCounted, overruns \in Nat, overruns' = overruns,
         Rogues' \subseteq Rogues, chat.old' => chat.old
  PROVE  RoguesAreCounted'
<1>1. /\ IsFiniteSet(Rogues') /\ Cardinality(Rogues') <= Cardinality(Rogues)
      /\ Cardinality(Rogues) \in Nat /\ Cardinality(Rogues') \in Nat
  BY FS_Subset, FS_CardinalityType DEF RoguesAreCounted
<1>. QED
  BY <1>1 DEF RoguesAreCounted

\* Who takes over an old chat makes a rogue of its owner and starts anew.
LEMMA RoguesGrow ==
  ASSUME RoguesAreCounted, overruns \in Nat, overruns' = overruns,
         Rogues' \subseteq Rogues \cup {chat.owner}, chat.old, chat.old' = FALSE
  PROVE  RoguesAreCounted'
<1>1. IsFiniteSet(Rogues) /\ Cardinality(Rogues) \in Nat
  BY FS_CardinalityType DEF RoguesAreCounted
<1>2. /\ IsFiniteSet(Rogues \cup {chat.owner})
      /\ Cardinality(Rogues \cup {chat.owner})
            \in {Cardinality(Rogues), Cardinality(Rogues) + 1}
  BY <1>1, FS_AddElement
<1>3. /\ IsFiniteSet(Rogues')
      /\ Cardinality(Rogues') <= Cardinality(Rogues \cup {chat.owner})
      /\ Cardinality(Rogues') \in Nat
  BY <1>2, FS_Subset, FS_CardinalityType
<1>. QED
  BY <1>1, <1>2, <1>3 DEF RoguesAreCounted
-----------------------------------------------------------------------------
(* The inductive invariant. *)

LEMMA InitInv ==
  ASSUME Init
  PROVE  IInv
<1>. USE ChatAssumption DEF ChatAssumption, Init, Idle
<1>1. TypeOK
  BY DEF TypeOK
<1>2. Range(<<>>) = {} /\ IsInjective(<<>>)
  BY DEF Range, IsInjective
<1>3. Queued(chat) = {} /\ Distinct(chat)
  BY <1>2 DEF Queued, Distinct
<1>4. Rogues = {}
  BY DEF Rogues, Owning
<1>5. IsFiniteSet(Rogues) /\ Cardinality(Rogues) = 0
  BY <1>4, FS_EmptySet
<1>6. RoguesAreCounted
  BY <1>5 DEF RoguesAreCounted
<1>7. OwnerIsAtWork /\ NewHasNoFate
  BY DEF OwnerIsAtWork, NewHasNoFate
<1>8. AcceptedIsKept
  BY <1>3 DEF AcceptedIsKept
<1>9. HandledOnce /\ WorkersHaveWork
  BY DEF HandledOnce, WorkersHaveWork, Working
<1>. QED
  BY <1>1, <1>3, <1>6, <1>7, <1>8, <1>9 DEF IInv

\* The chat is free, or free because it is old: the message gets the turn and
\* is in no queue, the queues of a stale state are gone.
LEMMA TakeTurnStep ==
  ASSUME IInv, NEW m \in Messages, pc[m] \in {"new", "classifying"},
         Current.owner = None, TakeTurn(m), UNCHANGED countVars
  PROVE  IInv'
<1>. USE ChatAssumption DEF ChatAssumption, IInv
<1>. DEFINE rest == IF chat.old THEN Idle ELSE chat
<1>. DEFINE before == [x \in Messages |-> IF chat.old /\ x \in Queued(chat)
                                          THEN "dropped" ELSE fate[x]]
<1>1. /\ chat' = [rest EXCEPT !.owner = m, !.old = FALSE]
      /\ work' = [work EXCEPT ![m] = m]
      /\ pc' = [pc EXCEPT ![m] = "turn"]
  BY StaleIsOld DEF TakeTurn, Current, OwnedBy
<1>2. fate' = [before EXCEPT ![m] = "started"]
  <2>1. before = Discarded
    BY StaleIsOld DEF Discarded, TypeOK
  <2>. QED
    BY <2>1 DEF TakeTurn
<1>3. /\ rest \in [owner : Messages \cup {None}, old : BOOLEAN,
                   addenda : Seq(Messages), pending : Seq(Messages)]
      /\ Distinct(rest)
      /\ Queued(rest) = IF chat.old THEN {} ELSE Queued(chat)
  <2>1. CASE chat.old
    <3>1. rest = Idle
      BY <2>1
    <3>2. IsInjective(<<>>) /\ Range(<<>>) = {}
      BY DEF IsInjective, Range
    <3>3. <<>> \in Seq(Messages)
      OBVIOUS
    <3>. QED
      BY <2>1, <3>1, <3>2, <3>3 DEF Idle, Distinct, Queued
  <2>2. CASE ~chat.old
    BY <2>2 DEF TypeOK
  <2>. QED
    BY <2>1, <2>2
<1>4. /\ chat'.owner = m /\ chat'.old = FALSE /\ Queued(chat') = Queued(rest)
      /\ Distinct(chat')
      /\ chat' \in [owner : Messages \cup {None}, old : BOOLEAN,
                    addenda : Seq(Messages), pending : Seq(Messages)]
  BY <1>1, <1>3 DEF Distinct, Queued
<1>5. /\ before \in [Messages -> {"none", "status", "refused", "queued", "dropped",
                                  "started", "handled", "failed"}]
      /\ fate[m] = "none" /\ m \notin Queued(chat)
  BY DEF TypeOK, NewHasNoFate, AcceptedIsKept
<1>6. ~chat.old => chat.owner = None
  BY StaleIsOld DEF Current
<1>. HIDE DEF rest, before
<1>7. TypeOK'
  <2>1. UNCHANGED <<failures, overruns>>
    BY DEF countVars
  <2>. QED
    BY <1>1, <1>2, <1>4, <1>5, <2>1 DEF TypeOK, Owning
<1>8. OwnerIsAtWork'
  BY <1>1, <1>4 DEF OwnerIsAtWork, TypeOK, Owning
<1>9. RoguesAreCounted'
  <2>1. overruns \in Nat /\ overruns' = overruns
    BY DEF TypeOK, countVars
  <2>2. Rogues' \subseteq Rogues \cup {chat.owner}
    BY <1>1, <1>4 DEF Rogues, TypeOK
  <2>3. ~chat.old => Rogues' \subseteq Rogues
    BY <1>1, <1>4, <1>6 DEF Rogues, TypeOK
  <2>. QED
    BY <1>4, <2>1, <2>2, <2>3, RoguesShrink, RoguesGrow DEF TypeOK
<1>10. NewHasNoFate'
  BY <1>1, <1>2 DEF NewHasNoFate, AcceptedIsKept, TypeOK, before
<1>11. AcceptedIsKept'
  <2>1. chat.old => overruns > 0
    <3>1. Cardinality(Rogues) \in Nat
      BY FS_CardinalityType DEF RoguesAreCounted
    <3>. QED
      BY <3>1 DEF RoguesAreCounted, TypeOK
  <2>. QED
    BY <1>2, <1>3, <1>4, <1>5, <2>1
    DEF AcceptedIsKept, TypeOK, before, countVars
<1>12. HandledOnce' /\ WorkersHaveWork'
  <2>1. Working' = Working \cup {m} /\ m \notin Working
    BY <1>1 DEF Working, TypeOK
  <2>2. \A n \in Working : /\ work[n] # m /\ work'[n] = work[n]
                           /\ work[n] \in Messages
                           /\ fate[work[n]] = "started"
                           /\ fate'[work[n]] = "started"
    <3>. TAKE n \in Working
    <3>1. n \in Messages /\ n # m /\ fate[work[n]] = "started"
      BY <2>1 DEF HandledOnce, Working, TypeOK
    <3>2. work[n] \in Messages
      BY DEF WorkersHaveWork
    <3>3. fate'[work[n]] = "started"
      <4>1. work[n] \notin Queued(chat) /\ work[n] # m
        BY <1>5, <3>1, <3>2 DEF AcceptedIsKept
      <4>2. before[work[n]] = "started"
        BY <3>1, <3>2, <4>1 DEF before
      <4>. QED
        BY <1>2, <1>5, <3>2, <4>1, <4>2
    <3>4. work[n] # m /\ work'[n] = work[n]
      BY <1>1, <1>5, <3>1 DEF TypeOK
    <3>. QED
      BY <3>1, <3>2, <3>3, <3>4
  <2>3. work'[m] = m /\ fate'[m] = "started"
    BY <1>1, <1>2, <1>5 DEF TypeOK
  <2>. QED
    BY <2>1, <2>2, <2>3 DEF HandledOnce, WorkersHaveWork
<1>. QED
  BY <1>4, <1>7, <1>8, <1>9, <1>10, <1>11, <1>12
\* The chat is busy: the message is answered, refused or queued, and the task
\* is over.
LEMMA DeferStep ==
  ASSUME IInv, NEW m \in Messages, pc[m] \in {"new", "classifying"},
         Current.owner # None, NEW kind \in Kinds, Defer(m, kind),
         UNCHANGED countVars
  PROVE  IInv'
<1>. USE ChatAssumption DEF ChatAssumption, IInv
<1>1. ~chat.old /\ chat.owner # None
  BY StaleIsOld DEF Current, Idle
<1>2. /\ pc' = [pc EXCEPT ![m] = "over"]
      /\ UNCHANGED <<work, failures, overruns>>
  BY DEF Defer, countVars
<1>3. /\ fate[m] = "none" /\ m \notin Queued(chat)
      /\ m \notin Range(chat.addenda) /\ m \notin Range(chat.pending)
      /\ m # chat.owner
  BY <1>1 DEF NewHasNoFate, AcceptedIsKept, OwnerIsAtWork, Owning, Queued
<1>4. PICK f \in {"status", "refused", "queued"} :
        fate' = [fate EXCEPT ![m] = f]
  BY DEF Defer, Kinds
<1>5. /\ chat'.owner = chat.owner /\ chat'.old = chat.old
      /\ chat' \in [owner : Messages \cup {None}, old : BOOLEAN,
                    addenda : Seq(Messages), pending : Seq(Messages)]
      /\ Distinct(chat')
      /\ Queued(chat') = Queued(chat) \cup (IF f = "queued" THEN {m} ELSE {})
  <2>. USE DEF TypeOK, Distinct, Queued
  <2>3. /\ chat.addenda \in Seq(Messages) /\ chat.pending \in Seq(Messages)
        /\ IsInjective(chat.addenda) /\ IsInjective(chat.pending)
    OBVIOUS
  <2>1. CASE f # "queued"
    <3>1. chat' = chat
      BY <1>4, <2>1 DEF Defer, Kinds
    <3>. QED
      BY <2>1, <3>1
  <2>2. CASE f = "queued"
    <3>1. \/ chat' = [chat EXCEPT !.addenda = Append(chat.addenda, m)]
          \/ chat' = [chat EXCEPT !.pending = Append(chat.pending, m)]
      BY <1>4, <2>2 DEF Defer, Kinds
    <3>2. CASE chat' = [chat EXCEPT !.addenda = Append(chat.addenda, m)]
      <4>1. /\ Append(chat.addenda, m) \in Seq(Messages)
            /\ Range(Append(chat.addenda, m)) = Range(chat.addenda) \cup {m}
            /\ IsInjective(Append(chat.addenda, m))
        BY <1>3, <2>3, AppendOnce
      <4>2. chat'.addenda = Append(chat.addenda, m) /\ chat'.pending = chat.pending
        BY <3>2
      <4>3. /\ chat'.owner = chat.owner /\ chat'.old = chat.old
            /\ chat' \in [owner : Messages \cup {None}, old : BOOLEAN,
                          addenda : Seq(Messages), pending : Seq(Messages)]
        BY <3>2, <4>1
      <4>4. Distinct(chat')
        BY <1>3, <4>1, <4>2
      <4>5. Queued(chat') = Queued(chat) \cup {m}
        BY <4>1, <4>2
      <4>. QED
        BY <2>2, <4>3, <4>4, <4>5
    <3>3. CASE chat' = [chat EXCEPT !.pending = Append(chat.pending, m)]
      <4>1. /\ Append(chat.pending, m) \in Seq(Messages)
            /\ Range(Append(chat.pending, m)) = Range(chat.pending) \cup {m}
            /\ IsInjective(Append(chat.pending, m))
        BY <1>3, <2>3, AppendOnce
      <4>2. chat'.pending = Append(chat.pending, m) /\ chat'.addenda = chat.addenda
        BY <3>3
      <4>3. /\ chat'.owner = chat.owner /\ chat'.old = chat.old
            /\ chat' \in [owner : Messages \cup {None}, old : BOOLEAN,
                          addenda : Seq(Messages), pending : Seq(Messages)]
        BY <3>3, <4>1
      <4>4. Distinct(chat')
        BY <1>3, <4>1, <4>2
      <4>5. Queued(chat') = Queued(chat) \cup {m}
        BY <4>1, <4>2
      <4>. QED
        BY <2>2, <4>3, <4>4, <4>5
    <3>. QED
      BY <3>1, <3>2, <3>3
  <2>. QED
    BY <2>1, <2>2
<1>6. TypeOK'
  BY <1>2, <1>4, <1>5 DEF TypeOK
<1>7. Working' = Working
  BY <1>2 DEF Working, TypeOK
<1>8. OwnerIsAtWork'
  BY <1>2, <1>3, <1>5 DEF OwnerIsAtWork, TypeOK
<1>9. RoguesAreCounted'
  <2>1. Rogues' = Rogues
    BY <1>2, <1>5 DEF Rogues, TypeOK, Owning
  <2>. QED
    BY <1>2, <1>5, <2>1 DEF RoguesAreCounted
<1>10. NewHasNoFate'
  BY <1>2, <1>4 DEF NewHasNoFate, TypeOK
<1>11. AcceptedIsKept'
  BY <1>2, <1>3, <1>4, <1>5 DEF AcceptedIsKept, TypeOK
<1>12. WorkersHaveWork' /\ HandledOnce'
  <2>1. \A n \in Working : work[n] # m /\ work[n] \in Messages
    BY <1>3 DEF WorkersHaveWork, HandledOnce, Working
  <2>2. \A n \in Working : fate'[work[n]] = fate[work[n]]
    BY <1>4, <2>1 DEF TypeOK
  <2>. QED
    BY <1>2, <1>7, <2>2 DEF WorkersHaveWork, HandledOnce, Working
<1>. QED
  BY <1>5, <1>6, <1>8, <1>9, <1>10, <1>11, <1>12

\* The steps of a task that is at work on the chat: what it handles gets its
\* fate, and the chat stays as it is.
LEMMA HandledStep ==
  ASSUME IInv, NEW m \in Messages,
         HandlingDone(m) \/ TailFails(m) \/ TurnFails(m)
  PROVE  IInv'
<1>. USE ChatAssumption DEF ChatAssumption, IInv
<1>1. PICK f \in {"handled", "failed"} : fate' = [fate EXCEPT ![work[m]] = f]
  BY DEF HandlingDone, TailFails, TurnFails
<1>2. PICK next \in {"draining", "releasing"} : pc' = [pc EXCEPT ![m] = next]
  BY DEF HandlingDone, TailFails, TurnFails
<1>3. /\ work' = [work EXCEPT ![m] = None]
      /\ UNCHANGED <<chat, overruns>>
      /\ failures' \in 0..MaxFailures
      /\ pc[m] \in {"turn", "tail"}
  BY DEF HandlingDone, TailFails, TurnFails, countVars, TypeOK
<1>4. m \in Working /\ work[m] \in Messages /\ fate[work[m]] = "started"
  BY <1>3 DEF Working, WorkersHaveWork, HandledOnce
<1>5. TypeOK'
  BY <1>1, <1>2, <1>3, <1>4 DEF TypeOK, Owning
<1>6. OwnerIsAtWork'
  BY <1>2, <1>3 DEF OwnerIsAtWork, TypeOK, Owning
<1>7. RoguesAreCounted'
  <2>1. Rogues' = Rogues
    BY <1>2, <1>3 DEF Rogues, TypeOK, Owning
  <2>. QED
    BY <1>3, <2>1 DEF RoguesAreCounted
<1>8. Distinct(chat)'
  BY <1>3
<1>9. NewHasNoFate'
  <2>1. ASSUME NEW x \in Messages, pc'[x] \in {"new", "classifying"}
        PROVE  fate'[x] = "none"
    <3>1. pc[x] \in {"new", "classifying"}
      BY <1>2, <2>1 DEF TypeOK
    <3>. QED
      BY <1>1, <1>4, <3>1 DEF NewHasNoFate, TypeOK
  <2>. QED
    BY <2>1 DEF NewHasNoFate
<1>10. AcceptedIsKept'
  BY <1>1, <1>3, <1>4 DEF AcceptedIsKept, TypeOK
<1>11. WorkersHaveWork' /\ HandledOnce'
  <2>1. Working' = Working \ {m}
    BY <1>2, <1>3 DEF Working, TypeOK
  <2>2. \A n \in Working' : /\ n \in Messages /\ n \in Working /\ n # m
                            /\ work'[n] = work[n] /\ work[n] # work[m]
    BY <1>3, <1>4, <2>1 DEF HandledOnce, Working, TypeOK
  <2>3. \A n \in Working' : /\ work[n] \in Messages
                            /\ fate'[work[n]] = fate[work[n]]
    BY <1>1, <1>4, <2>2 DEF WorkersHaveWork, TypeOK
  <2>. QED
    BY <2>2, <2>3 DEF WorkersHaveWork, HandledOnce
<1>. QED
  BY <1>5, <1>6, <1>7, <1>8, <1>9, <1>10, <1>11
LEMMA UnclearStep ==
  ASSUME IInv, NEW m \in Messages, ArriveUnclear(m)
  PROVE  IInv'
<1>. USE DEF IInv
<1>1. /\ pc[m] = "new" /\ pc' = [pc EXCEPT ![m] = "classifying"]
      /\ UNCHANGED <<chat, work, fate, failures, overruns>>
  BY DEF ArriveUnclear, countVars
<1>2. TypeOK'
  BY <1>1 DEF TypeOK
<1>3. OwnerIsAtWork'
  BY <1>1 DEF OwnerIsAtWork, TypeOK, Owning
<1>4. RoguesAreCounted'
  <2>1. Rogues' = Rogues
    BY <1>1 DEF Rogues, TypeOK, Owning
  <2>. QED
    BY <1>1, <2>1 DEF RoguesAreCounted
<1>5. Distinct(chat)' /\ AcceptedIsKept'
  BY <1>1 DEF AcceptedIsKept
<1>6. NewHasNoFate'
  BY <1>1 DEF NewHasNoFate, TypeOK
<1>7. WorkersHaveWork' /\ HandledOnce'
  <2>1. Working' = Working
    BY <1>1 DEF Working, TypeOK
  <2>. QED
    BY <1>1, <2>1 DEF WorkersHaveWork, HandledOnce
<1>. QED
  BY <1>2, <1>3, <1>4, <1>5, <1>6, <1>7

\* The task takes a message out of the queues, from a chat that is its own or
\* nobody's: a rogue that finds the chat free is no rogue any longer.
LEMMA DrainNextStep ==
  ASSUME IInv, NEW m \in Messages, DrainNext(m)
  PROVE  IInv'
<1>. USE ChatAssumption DEF ChatAssumption, IInv
<1>1. PICK next : next = PopNext(chat)
  OBVIOUS
<1>2. /\ pc[m] = "draining" /\ pc' = [pc EXCEPT ![m] = "tail"]
      /\ chat.owner \in {m, None} /\ Queued(chat) # {}
      /\ chat' = [next.rest EXCEPT !.owner = m, !.old = FALSE]
      /\ work' = [work EXCEPT ![m] = next.msg]
      /\ fate' = [fate EXCEPT ![next.msg] = "started"]
      /\ UNCHANGED <<failures, overruns>>
  BY <1>1 DEF DrainNext, OwnedByTask, OwnedBy, countVars
<1>3. /\ next.msg \in Queued(chat) /\ next.msg \in Messages
      /\ next.rest \in [owner : Messages \cup {None}, old : BOOLEAN,
                        addenda : Seq(Messages), pending : Seq(Messages)]
      /\ Queued(next.rest) = Queued(chat) \ {next.msg}
      /\ Distinct(next.rest)
  BY <1>1, <1>2, PopFacts
<1>4. /\ chat'.owner = m /\ chat'.old = FALSE
      /\ chat'.addenda = next.rest.addenda /\ chat'.pending = next.rest.pending
      /\ chat' \in [owner : Messages \cup {None}, old : BOOLEAN,
                    addenda : Seq(Messages), pending : Seq(Messages)]
  BY <1>2, <1>3
<1>5. Queued(chat') = Queued(chat) \ {next.msg} /\ Distinct(chat')
  BY <1>3, <1>4 DEF Queued, Distinct
<1>6. fate[next.msg] = "queued"
  BY <1>3 DEF AcceptedIsKept
<1>7. TypeOK'
  BY <1>2, <1>3, <1>4 DEF TypeOK, Owning
<1>8. OwnerIsAtWork'
  BY <1>2, <1>4 DEF OwnerIsAtWork, TypeOK, Owning
<1>9. RoguesAreCounted'
  <2>1. Rogues' \subseteq Rogues
    BY <1>2, <1>4 DEF Rogues, TypeOK
  <2>2. overruns \in Nat
    BY DEF TypeOK
  <2>. QED
    BY <1>2, <1>4, <2>1, <2>2, RoguesShrink
<1>10. NewHasNoFate'
  BY <1>2, <1>3, <1>6 DEF NewHasNoFate, TypeOK
<1>11. AcceptedIsKept'
  BY <1>2, <1>3, <1>5 DEF AcceptedIsKept, TypeOK
<1>12. WorkersHaveWork' /\ HandledOnce'
  <2>1. Working' = Working \cup {m} /\ m \notin Working
    BY <1>2 DEF Working, TypeOK
  <2>2. \A n \in Working : /\ n \in Messages /\ n # m /\ work[n] \in Messages
                           /\ fate[work[n]] = "started"
    BY <2>1 DEF WorkersHaveWork, HandledOnce, Working
  <2>3. \A n \in Working : /\ work'[n] = work[n] /\ work[n] # next.msg
                           /\ fate'[work[n]] = "started"
    BY <1>2, <1>3, <1>6, <2>2 DEF TypeOK
  <2>4. work'[m] = next.msg /\ fate'[next.msg] = "started"
    BY <1>2, <1>3 DEF TypeOK
  <2>5. WorkersHaveWork'
    BY <1>3, <2>1, <2>2, <2>3, <2>4 DEF WorkersHaveWork
  <2>6. HandledOnce'
    BY <2>1, <2>2, <2>3, <2>4 DEF HandledOnce
  <2>. QED
    BY <2>5, <2>6
<1>. QED
  BY <1>5, <1>7, <1>8, <1>9, <1>10, <1>11, <1>12

\* The task gives the chat up, or leaves it to the task that has it by now.
LEMMA LeaveStep ==
  ASSUME IInv, NEW m \in Messages, DrainEnds(m) \/ Release(m)
  PROVE  IInv'
<1>. USE ChatAssumption DEF ChatAssumption, IInv
<1>1. /\ pc[m] \in {"draining", "releasing"} /\ pc' = [pc EXCEPT ![m] = "over"]
      /\ UNCHANGED <<work, fate, failures, overruns>>
  BY DEF DrainEnds, Release, countVars
<1>2. /\ chat' \in [owner : Messages \cup {None}, old : BOOLEAN,
                    addenda : Seq(Messages), pending : Seq(Messages)]
      /\ Queued(chat') = Queued(chat) /\ Distinct(chat')
      /\ \/ chat.owner \in {m, None} /\ chat'.owner = None /\ chat'.old = FALSE
         \/ chat.owner \notin {m, None} /\ chat' = chat
  <2>1. CASE chat.owner \notin {m, None}
    BY <2>1 DEF DrainEnds, Release, OwnedByTask, TypeOK
  <2>2. CASE chat.owner \in {m, None} /\ DrainEnds(m)
    <3>1. chat' = Idle /\ Queued(chat) = {}
      BY <2>2 DEF DrainEnds, OwnedByTask
    <3>2. <<>> \in Seq(Messages) /\ Range(<<>>) = {} /\ IsInjective(<<>>)
      BY DEF Range, IsInjective
    <3>. QED
      BY <2>2, <3>1, <3>2 DEF Idle, Queued, Distinct
  <2>3. CASE chat.owner \in {m, None} /\ Release(m)
    <3>1. chat' = [chat EXCEPT !.owner = None, !.old = FALSE]
      BY <2>3 DEF Release, OwnedByTask
    <3>. QED
      BY <2>3, <3>1 DEF TypeOK, Queued, Distinct
  <2>. QED
    BY <2>1, <2>2, <2>3
<1>3. TypeOK'
  BY <1>1, <1>2 DEF TypeOK
<1>4. OwnerIsAtWork'
  BY <1>1, <1>2 DEF OwnerIsAtWork, TypeOK
<1>5. RoguesAreCounted'
  <2>1. Rogues' \subseteq Rogues
    BY <1>1, <1>2 DEF Rogues, TypeOK, Owning
  <2>2. overruns \in Nat /\ (chat'.old => chat.old)
    BY <1>2 DEF TypeOK
  <2>. QED
    BY <1>1, <2>1, <2>2, RoguesShrink
<1>6. NewHasNoFate' /\ AcceptedIsKept'
  BY <1>1, <1>2 DEF NewHasNoFate, AcceptedIsKept, TypeOK
<1>7. WorkersHaveWork' /\ HandledOnce'
  <2>1. Working' = Working
    BY <1>1 DEF Working, TypeOK
  <2>. QED
    BY <1>1, <2>1 DEF WorkersHaveWork, HandledOnce
<1>. QED
  BY <1>2, <1>3, <1>4, <1>5, <1>6, <1>7

LEMMA OverrunStep ==
  ASSUME IInv, Overrun
  PROVE  IInv'
<1>. USE ChatAssumption DEF ChatAssumption, IInv
<1>1. /\ chat.owner # None /\ ~chat.old /\ chat' = [chat EXCEPT !.old = TRUE]
      /\ overruns < MaxOverruns /\ overruns' = overruns + 1
      /\ UNCHANGED <<pc, work, fate, failures>>
  BY DEF Overrun
<1>2. TypeOK'
  <2>1. chat' \in [owner : Messages \cup {None}, old : BOOLEAN,
                  addenda : Seq(Messages), pending : Seq(Messages)]
    BY <1>1 DEF TypeOK
  <2>2. overruns' \in 0..MaxOverruns
    BY <1>1 DEF TypeOK
  <2>. QED
    BY <1>1, <2>1, <2>2 DEF TypeOK
<1>3. /\ chat'.owner = chat.owner /\ chat'.old = TRUE
      /\ Queued(chat') = Queued(chat) /\ Distinct(chat')
  BY <1>1 DEF TypeOK, Queued, Distinct
<1>4. OwnerIsAtWork'
  BY <1>1, <1>3 DEF OwnerIsAtWork
<1>5. RoguesAreCounted'
  <2>1. Rogues' = Rogues
    BY <1>1, <1>3 DEF Rogues
  <2>2. Cardinality(Rogues) \in Nat
    BY FS_CardinalityType DEF RoguesAreCounted
  <2>. QED
    BY <1>1, <1>3, <2>1, <2>2 DEF RoguesAreCounted, TypeOK
<1>6. NewHasNoFate' /\ AcceptedIsKept'
  BY <1>1, <1>3 DEF NewHasNoFate, AcceptedIsKept, TypeOK
<1>7. WorkersHaveWork' /\ HandledOnce'
  BY <1>1 DEF WorkersHaveWork, HandledOnce, Working
<1>. QED
  BY <1>2, <1>3, <1>4, <1>5, <1>6, <1>7

LEMMA NextInv ==
  ASSUME IInv, [Next]_vars
  PROVE  IInv'
<1>1. ASSUME NEW m \in Messages, Arrive(m)
      PROVE  IInv'
  <2>1. pc[m] \in {"new", "classifying"} /\ UNCHANGED countVars
    BY <1>1 DEF Arrive
  <2>2. CASE Current.owner = None
    BY <1>1, <2>1, <2>2, TakeTurnStep DEF Arrive
  <2>3. CASE Current.owner # None
    <3>1. PICK kind \in Kinds : Defer(m, kind)
      BY <1>1, <2>3 DEF Arrive, Kinds
    <3>. QED
      BY <2>1, <2>3, <3>1, DeferStep
  <2>. QED
    BY <2>2, <2>3
<1>2. ASSUME NEW m \in Messages, NEW kind \in Kinds, Classified(m, kind)
      PROVE  IInv'
  <2>1. pc[m] \in {"new", "classifying"} /\ UNCHANGED countVars
    BY <1>2 DEF Classified
  <2>2. CASE Current.owner = None
    BY <1>2, <2>1, <2>2, TakeTurnStep DEF Classified
  <2>3. CASE Current.owner # None
    BY <1>2, <2>1, <2>3, DeferStep DEF Classified
  <2>. QED
    BY <2>2, <2>3
<1>3. CASE UNCHANGED vars
  <2>1. /\ UNCHANGED <<chat, pc, work, fate, failures, overruns>>
        /\ Rogues' = Rogues /\ Working' = Working
    BY <1>3 DEF vars, Rogues, Working
  <2>. QED
    BY <2>1
    DEF IInv, TypeOK, OwnerIsAtWork, RoguesAreCounted, NewHasNoFate,
        AcceptedIsKept, WorkersHaveWork, HandledOnce
<1>. QED
  BY <1>1, <1>2, <1>3, UnclearStep, HandledStep, DrainNextStep, LeaveStep,
     OverrunStep DEF Next, TaskStep

-----------------------------------------------------------------------------
(* What is proved. *)

\* The invariant behind everything below: the queues, the owner of the chat and
\* the tasks that lost it hold together after every critical section under
\* _CHAT_BUSY_LOCK.
THEOREM ChatInvariant == Spec => []IInv
BY InitInv, NextInv, PTL DEF Spec

\* The busy state and the tasks keep the values the code gives them.
THEOREM ChatTypes == Spec => []TypeOK
<1>1. IInv => TypeOK
  BY DEF IInv
<1>. QED
  BY <1>1, ChatInvariant, PTL

\* Messages of a chat are handled one at a time, but for turns that grew older
\* than fifteen minutes, one more for each: neither the re-check after the
\* classifier nor a task that is late lets anybody else in.
THEOREM TurnsAreSingle == Spec => []OneTurnAtATime
<1>1. IInv => OneTurnAtATime
  <2>. SUFFICES ASSUME IInv
                PROVE  OneTurnAtATime
    OBVIOUS
  <2>1. Working \subseteq Rogues \cup {chat.owner}
    BY DEF Working, Rogues, Owning
  <2>2. IsFiniteSet(Rogues) /\ Cardinality(Rogues) \in Nat
    BY FS_CardinalityType DEF IInv, RoguesAreCounted
  <2>3. /\ IsFiniteSet(Rogues \cup {chat.owner})
        /\ Cardinality(Rogues \cup {chat.owner})
              \in {Cardinality(Rogues), Cardinality(Rogues) + 1}
    BY <2>2, FS_AddElement
  <2>4. /\ Cardinality(Working) <= Cardinality(Rogues \cup {chat.owner})
        /\ Cardinality(Working) \in Nat
    BY <2>1, <2>3, FS_Subset, FS_CardinalityType
  <2>5. overruns \in Nat
    BY ChatAssumption DEF IInv, TypeOK, ChatAssumption
  <2>. QED
    BY <2>2, <2>3, <2>4, <2>5 DEF IInv, RoguesAreCounted, OneTurnAtATime
<1>. QED
  BY <1>1, ChatInvariant, PTL

\* What was accepted into a queue waits there until it is started, and is lost
\* only with a state that was discarded as stale.
THEOREM AcceptedStays == Spec => []AcceptedIsKept
<1>1. IInv => AcceptedIsKept
  BY DEF IInv
<1>. QED
  BY <1>1, ChatInvariant, PTL

\* No message is handled by two tasks, nor again once it was handled, even
\* while tasks overlap after an overrun.
THEOREM HandledByOne == Spec => []HandledOnce
<1>1. IInv => HandledOnce
  BY DEF IInv
<1>. QED
  BY <1>1, ChatInvariant, PTL
=============================================================================
