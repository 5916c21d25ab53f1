----------------------------- MODULE ChatTurns ------------------------------
(***************************************************************************)
(* The turns of one chat in bot/main.py: which incoming message is handled *)
(* now, which is queued behind the running turn, how the running turn      *)
(* drains the queue and how it gives the chat up.                          *)
(*                                                                         *)
(* Every critical section under _CHAT_BUSY_LOCK is free of awaits, so it   *)
(* is one action; the suspensions are the busy classifier, the handling of *)
(* a message and the sending of its answer.  A task handles the message it *)
(* was started for and then the queued ones, and carries that message's    *)
(* name.  An inactive chat with empty queues has no entry in               *)
(* _active_response_by_chat; it is the state Idle here.                    *)
(***************************************************************************)
EXTENDS Naturals, Sequences, FiniteSets, Functions

CONSTANTS
  Messages,     \* messages, and the tasks started for them
  MaxQueue,     \* _BUSY_QUEUE_MAX_MESSAGES
  MaxFailures,  \* bound: handlings that raise
  MaxOverruns,  \* bound: times a turn becomes older than 15 minutes
  None

ASSUME ChatAssumption ==
  /\ None \notin Messages
  /\ MaxQueue \in Nat /\ MaxFailures \in Nat /\ MaxOverruns \in Nat

VARIABLES
  chat,      \* _ChatBusyState; inactive when it has no owner
  pc,        \* where each task stands
  work,      \* the message a task is handling
  fate,      \* history: what became of each message
  failures,  \* history
  overruns   \* history

vars == <<chat, pc, work, fate, failures, overruns>>
countVars == <<failures, overruns>>

Kinds == {"status", "addendum", "new_topic"}
Owning == {"turn", "draining", "tail", "releasing"}
Idle == [owner |-> None, old |-> FALSE, addenda |-> <<>>, pending |-> <<>>]

TypeOK ==
  /\ chat \in [owner : Messages \cup {None}, old : BOOLEAN,
               addenda : Seq(Messages), pending : Seq(Messages)]
  /\ pc \in [Messages -> {"new", "classifying", "over"} \cup Owning]
  /\ work \in [Messages -> Messages \cup {None}]
  /\ fate \in [Messages -> {"none", "status", "refused", "queued", "dropped",
                            "started", "handled", "failed"}]
  /\ failures \in 0..MaxFailures
  /\ overruns \in 0..MaxOverruns

Init ==
  /\ chat = Idle
  /\ pc = [m \in Messages |-> "new"]
  /\ work = [m \in Messages |-> None]
  /\ fate = [m \in Messages |-> "none"]
  /\ failures = 0 /\ overruns = 0

-----------------------------------------------------------------------------
(* The busy state. *)

Queued(c) == Range(c.addenda) \cup Range(c.pending)

\* Mutant: active_since is not set.
OwnedByUndated(c, m) == [c EXCEPT !.owner = m, !.old = None]

\* _mark_chat_busy_active_locked: a new owner and a new active_since.
OwnedBy(c, m) == [c EXCEPT !.owner = m, !.old = FALSE]

\* _is_chat_busy_state_stale.
Stale == chat.owner # None /\ (chat.old \/ pc[chat.owner] = "over")

\* _get_chat_busy_state_locked: a stale state is discarded with its queues.
Current == IF Stale THEN Idle ELSE chat

\* What happens to messages in a discarded state.
Discarded == IF Stale
             THEN [m \in Messages |-> IF m \in Queued(chat) THEN "dropped"
                                      ELSE fate[m]]
             ELSE fate

HasRoom(c) == Len(c.addenda) + Len(c.pending) < MaxQueue

\* _chat_busy_state_owned_by_current_task: an inactive chat is anyone's.
OwnedByTask(m) == chat.owner \in {m, None}

\* Mutant: the next message is read without being removed.
PeekNext(c) ==
  IF c.addenda # <<>> THEN [msg |-> Head(c.addenda), rest |-> c]
  ELSE [msg |-> Head(c.pending), rest |-> c]

\* _ChatBusyState.pop_next, for a chat with a queued message.
PopNext(c) ==
  IF c.addenda # <<>>
  THEN [msg |-> Head(c.addenda), rest |-> [c EXCEPT !.addenda = Tail(@)]]
  ELSE [msg |-> Head(c.pending), rest |-> [c EXCEPT !.pending = Tail(@)]]

-----------------------------------------------------------------------------
(* Reserving a turn: _reserve_chat_turn_or_defer. *)

TakeTurn(m) ==
  /\ chat' = OwnedBy(Current, m)
  /\ work' = [work EXCEPT ![m] = m]
  /\ fate' = [Discarded EXCEPT ![m] = "started"]
  /\ pc' = [pc EXCEPT ![m] = "turn"]

\* _defer_busy_message_locked, in an active chat that is not stale.
Defer(m, kind) ==
  /\ pc' = [pc EXCEPT ![m] = "over"]
  /\ UNCHANGED work
  /\ CASE kind = "status" ->
            /\ fate' = [fate EXCEPT ![m] = "status"]
            /\ UNCHANGED chat
       [] kind # "status" /\ ~HasRoom(chat) ->
            /\ fate' = [fate EXCEPT ![m] = "refused"]
            /\ UNCHANGED chat
       [] kind = "addendum" /\ HasRoom(chat) ->
            /\ fate' = [fate EXCEPT ![m] = "queued"]
            /\ chat' = [chat EXCEPT !.addenda = Append(@, m)]
       [] kind = "new_topic" /\ HasRoom(chat) ->
            /\ fate' = [fate EXCEPT ![m] = "queued"]
            /\ chat' = [chat EXCEPT !.pending = Append(@, m)]

\* The first critical section: the chat is free, or the message is clear.
Arrive(m) ==
  /\ pc[m] = "new"
  /\ IF Current.owner = None THEN TakeTurn(m)
     ELSE \E kind \in {"status", "addendum"} : Defer(m, kind)
  /\ UNCHANGED countVars

\* The first critical section: the message goes to the worker classifier.
ArriveUnclear(m) ==
  /\ pc[m] = "new" /\ Current.owner # None
  /\ pc' = [pc EXCEPT ![m] = "classifying"]
  /\ UNCHANGED <<chat, work, fate, countVars>>

\* Mutant: that the chat was busy before the classifier is still believed.
ClassifiedUnchecked(m, kind) ==
  /\ pc[m] = "classifying"
  /\ Defer(m, kind)
  /\ UNCHANGED countVars

\* The second critical section, after the classifier or its time-out.
Classified(m, kind) ==
  /\ pc[m] = "classifying"
  /\ IF Current.owner = None THEN TakeTurn(m) ELSE Defer(m, kind)
  /\ UNCHANGED countVars

-----------------------------------------------------------------------------
(* A turn: _process_incoming_chat_text and _drain_queued_chat_messages. *)

HandlingDone(m) ==
  /\ pc[m] \in {"turn", "tail"}
  /\ fate' = [fate EXCEPT ![work[m]] = "handled"]
  /\ work' = [work EXCEPT ![m] = None]
  /\ pc' = [pc EXCEPT ![m] = "draining"]
  /\ UNCHANGED <<chat, countVars>>

\* The handling of a queued message raises and the apology is sent.
TailFails(m) ==
  /\ pc[m] = "tail" /\ failures < MaxFailures
  /\ failures' = failures + 1
  /\ fate' = [fate EXCEPT ![work[m]] = "failed"]
  /\ work' = [work EXCEPT ![m] = None]
  /\ pc' = [pc EXCEPT ![m] = "draining"]
  /\ UNCHANGED <<chat, overruns>>

\* The handling of the task's own message raises, or the apology for a queued
\* one does: the finally clause releases the chat.
TurnFails(m) ==
  /\ pc[m] \in {"turn", "tail"} /\ failures < MaxFailures
  /\ failures' = failures + 1
  /\ fate' = [fate EXCEPT ![work[m]] = "failed"]
  /\ work' = [work EXCEPT ![m] = None]
  /\ pc' = [pc EXCEPT ![m] = "releasing"]
  /\ UNCHANGED <<chat, overruns>>

\* Mutant: the chat is not marked active for the queued message.
DrainNextUnmarked(m) ==
  /\ pc[m] = "draining"
  /\ OwnedByTask(m) /\ Queued(chat) # {}
  /\ LET next == PopNext(chat) IN
       /\ chat' = [next.rest EXCEPT !.owner = None]
       /\ work' = [work EXCEPT ![m] = next.msg]
       /\ fate' = [fate EXCEPT ![next.msg] = "started"]
  /\ pc' = [pc EXCEPT ![m] = "tail"]
  /\ UNCHANGED countVars

\* _next_queued_chat_message finds one.
DrainNext(m) ==
  /\ pc[m] = "draining"
  /\ OwnedByTask(m) /\ Queued(chat) # {}
  /\ LET next == PopNext(chat) IN
       /\ chat' = OwnedBy(next.rest, m)
       /\ work' = [work EXCEPT ![m] = next.msg]
       /\ fate' = [fate EXCEPT ![next.msg] = "started"]
  /\ pc' = [pc EXCEPT ![m] = "tail"]
  /\ UNCHANGED countVars

\* It finds none, or the chat is another task's by now.
DrainEnds(m) ==
  /\ pc[m] = "draining"
  /\ ~OwnedByTask(m) \/ Queued(chat) = {}
  /\ chat' = IF OwnedByTask(m) THEN Idle ELSE chat
  /\ pc' = [pc EXCEPT ![m] = "over"]
  /\ UNCHANGED <<work, fate, countVars>>

\* Mutants: the entry is popped whatever it holds; the chat is not released.
ReleaseAndPop(m) ==
  /\ pc[m] = "releasing"
  /\ chat' = IF OwnedByTask(m) THEN Idle ELSE chat
  /\ pc' = [pc EXCEPT ![m] = "over"]
  /\ UNCHANGED <<work, fate, countVars>>
NoRelease(m) ==
  /\ pc[m] = "releasing"
  /\ pc' = [pc EXCEPT ![m] = "over"]
  /\ UNCHANGED <<chat, work, fate, countVars>>

\* _release_chat_turn: what is queued stays queued.
Release(m) ==
  /\ pc[m] = "releasing"
  /\ chat' = IF OwnedByTask(m) THEN [chat EXCEPT !.owner = None, !.old = FALSE]
             ELSE chat
  /\ pc' = [pc EXCEPT ![m] = "over"]
  /\ UNCHANGED <<work, fate, countVars>>

\* Fifteen minutes pass since active_since.
Overrun ==
  /\ chat.owner # None /\ ~chat.old
  /\ overruns < MaxOverruns
  /\ chat' = [chat EXCEPT !.old = TRUE]
  /\ overruns' = overruns + 1
  /\ UNCHANGED <<pc, work, fate, failures>>

TaskStep(m) ==
  \/ \E kind \in Kinds : Classified(m, kind)
  \/ HandlingDone(m) \/ TailFails(m) \/ TurnFails(m)
  \/ DrainNext(m) \/ DrainEnds(m) \/ Release(m)

Next ==
  \/ \E m \in Messages : Arrive(m) \/ ArriveUnclear(m) \/ TaskStep(m)
  \/ Overrun

Spec == Init /\ [][Next]_vars

\* A started task goes on: the classifier has a time-out, and a handling
\* returns or raises.
FairSpec == Spec /\ \A m \in Messages : WF_vars(TaskStep(m))

-----------------------------------------------------------------------------
(* Properties. *)

Working == {m \in Messages : pc[m] \in {"turn", "tail"}}

\* Two messages of a chat are handled at the same time only after a turn grew
\* older than fifteen minutes, one more for each: the re-check after the
\* classifier and the ownership test of a late task let nobody else in.
OneTurnAtATime == Cardinality(Working) <= 1 + overruns

\* A message that was accepted into the queue stays there until it is started,
\* unless the whole state is discarded as stale, and that needs an overrun.
AcceptedIsKept ==
  \A m \in Messages :
    /\ fate[m] = "queued" <=> m \in Queued(chat)
    /\ fate[m] = "dropped" => overruns > 0

\* No message is handled by two tasks, nor again once it was handled.
HandledOnce ==
  \A m \in Messages :
    /\ \A n \in Working \ {m} : m \in Working => work[m] # work[n]
    /\ m \in Working => fate[work[m]] = "started"

\* A busy chat becomes free again.
ChatIsFreed == chat.owner # None ~> chat.owner = None

\* While nothing raises, every queued message leaves the queue.
QueuedIsStarted ==
  [](failures = 0)
    => \A m \in Messages : fate[m] = "queued" ~> fate[m] # "queued"

\* The apology for a queued message that failed promises that the next one is
\* tried all the same (bot/main.py:3644, in Russian).
QueuedIsTried == \A m \in Messages : fate[m] = "queued" ~> fate[m] # "queued"
=============================================================================
