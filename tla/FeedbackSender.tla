---------------------------- MODULE FeedbackSender ----------------------------
(***************************************************************************)
(* The feedback sender (feedbacksender.rs): set_controller_state, called   *)
(* by the threads of the user interface, and the thread that tells the     *)
(* console.  A packet tells the sticks and the motion as they are; keys    *)
(* are told as a history of events, of which every packet repeats the      *)
(* newest ones that were told before.                                      *)
(*                                                                         *)
(* A key is anything whose change makes one event: a button, a trigger, a  *)
(* touch slot.  Sticks and motion are one value.  Events are numbered.     *)
(* Whether 200 ms are over since the last state is a choice where the code *)
(* reads the clock, except after a wait, which ends when they are over.    *)
(***************************************************************************)
EXTENDS Naturals, Sequences, FiniteSets

CONSTANTS Sticks,     \* the positions of sticks and motion
          Keys,       \* what makes events
          QueueSize,  \* FEEDBACK_HISTORY_PACKET_QUEUE_SIZE
          BufSize,    \* FEEDBACK_HISTORY_BUFFER_SIZE
          Resend,     \* FEEDBACK_HISTORY_RESEND_EVENT_COUNT
          Calls,      \* bound: how many calls change the state
          Losses      \* bound: how many packets the network loses

ASSUME FeedbackAssumption ==
  /\ QueueSize \in Nat \ {0} /\ Resend \in Nat /\ BufSize \in Nat /\ Resend < BufSize
  /\ Calls \in Nat /\ Losses \in Nat /\ IsFiniteSet(Keys) /\ Sticks # {}

Seqs == INSTANCE SequencesExt

ControllerState == [sticks : Sticks, keys : SUBSET Keys]
Idle == [sticks |-> CHOOSE s \in Sticks : TRUE, keys |-> {}]

VARIABLES
  inner,    \* state, prev (controller_state_prev: its sticks), changed, stop, buf
            \* (the history, newest first), packets (the queue of history packets)
  thread,   \* place: "top", "state", "history", "relock", "over"; now (state_now),
            \* send (send_feedback_state), packet (at most one history packet)
  console,  \* what reached the console: sticks, events
  sent,     \* the sticks that were sent last
  news,     \* news[k]: the events that history packet k is the first to carry
  dropped,  \* the history packets that were lost or thrown out of the queue
  losses    \* packets the network lost
vars == <<inner, thread, console, sent, news, dropped, losses>>

Packet == [k : Nat, events : Seq(Nat)]
TypeOK ==
  /\ inner.state \in ControllerState /\ inner.prev \in Sticks
  /\ inner.changed \in BOOLEAN /\ inner.stop \in BOOLEAN
  /\ inner.buf \in Seq(Nat) /\ Len(inner.buf) <= Resend
  /\ inner.packets \in Seq(Packet) /\ Len(inner.packets) <= QueueSize
  /\ thread.place \in {"top", "state", "history", "relock", "over"}
  /\ thread.now \in Sticks /\ thread.send \in BOOLEAN
  /\ thread.packet \in Seq(Packet) /\ Len(thread.packet) <= 1

Init ==
  /\ inner = [state |-> Idle, prev |-> Idle.sticks, changed |-> FALSE, stop |-> FALSE,
              buf |-> <<>>, packets |-> <<>>]
  /\ thread = [place |-> "top", now |-> Idle.sticks, send |-> FALSE, packet |-> <<>>]
  /\ console = [sticks |-> Idle.sticks, events |-> {}]
  /\ sent = Idle.sticks /\ news = <<>> /\ dropped = {} /\ losses = 0
-----------------------------------------------------------------------------
(* set_controller_state *)

Made == UNION Seqs!ToSet(news)  \* the events so far

\* record_history: an event for every key that changed, each pushed at the front of a
\* buffer that forgets its oldest.
NewEvents(state) ==
  LET changes == Cardinality((inner.state.keys \ state.keys) \cup (state.keys \ inner.state.keys))
  IN  (Cardinality(Made) + 1) .. (Cardinality(Made) + changes)

Pushed(events) ==
  LET n   == Cardinality(events)
      all == [i \in 1 .. n |-> Cardinality(Made) + n + 1 - i] \o inner.buf
  IN  SubSeq(all, 1, IF Len(all) < BufSize THEN Len(all) ELSE BufSize)

\* A plausible bug: all of the history is cleared.
KeptNothing(buf) == <<>>

\* How much of the history stays for the next packet.
Kept(buf) == SubSeq(buf, 1, IF Len(buf) < Resend THEN Len(buf) ELSE Resend)

\* A full ring of packets lets its oldest go.
Queued(packet) ==
  IF Len(inner.packets) < QueueSize THEN Append(inner.packets, packet)
  ELSE Append(Tail(inner.packets), packet)

Overflowing == IF Len(inner.packets) < QueueSize THEN {} ELSE {Head(inner.packets).k}

\* flush_history_locked, if anything was recorded.
SetControllerState(state) ==
  /\ ~inner.stop /\ state # inner.state /\ Len(news) < Calls
  /\ LET events == NewEvents(state)
         buf == Pushed(events)
         changed == [inner EXCEPT !.state = state, !.changed = TRUE]
     IN  \/ events = {} /\ inner' = changed /\ news' = Append(news, {}) /\ UNCHANGED dropped
         \/ /\ events # {}
            /\ inner' = [changed EXCEPT !.packets = Queued([k |-> Len(news) + 1, events |-> buf]),
                                        !.buf = Kept(buf)]
            /\ dropped' = dropped \cup Overflowing
            /\ news' = Append(news, events)
  /\ UNCHANGED <<thread, console, sent, losses>>

\* Drop: the thread is asked to stop, and joined.
Drop ==
  /\ ~inner.stop /\ inner' = [inner EXCEPT !.stop = TRUE]
  /\ UNCHANGED <<thread, console, sent, news, dropped, losses>>
-----------------------------------------------------------------------------
(* The thread *)

\* A plausible bug: the sticks are only sent when they change.
StateDueOnChange(due) == inner.changed /\ inner.state.sticks # inner.prev

\* A change that leaves the sticks alone sends no state, not even one that is due.
StateDue(due) == IF inner.changed THEN inner.state.sticks # inner.prev ELSE due

\* One round under the lock, which is let go before anything is sent.
Decide ==
  /\ thread.place = "top" /\ ~inner.stop
  /\ \E due \in BOOLEAN :
       /\ due \/ inner.changed \/ inner.packets # <<>>
       /\ LET take == IF inner.packets = <<>> THEN 0 ELSE 1
          IN  /\ thread' = [place |-> "state", now |-> inner.state.sticks, send |-> StateDue(due),
                            packet |-> SubSeq(inner.packets, 1, take)]
              /\ inner' = [inner EXCEPT !.changed = FALSE,
                             !.packets = SubSeq(@, take + 1, Len(@))]
  /\ UNCHANGED <<console, sent, news, dropped, losses>>

Stop ==
  /\ thread.place = "top" /\ inner.stop
  /\ thread' = [thread EXCEPT !.place = "over"]
  /\ UNCHANGED <<inner, console, sent, news, dropped, losses>>

Lose == losses < Losses /\ losses' = losses + 1

\* An error of the socket is logged, like a loss it changes nothing here.
SendState ==
  /\ thread.place = "state" /\ thread' = [thread EXCEPT !.place = "history"]
  /\ \/ thread.send /\ sent' = thread.now
        /\ \/ console' = [console EXCEPT !.sticks = thread.now] /\ UNCHANGED losses
           \/ Lose /\ UNCHANGED console
     \/ ~thread.send /\ UNCHANGED <<sent, console, losses>>
  /\ UNCHANGED <<inner, news, dropped>>

SendHistory ==
  /\ thread.place = "history" /\ thread' = [thread EXCEPT !.place = "relock", !.packet = <<>>]
  /\ \/ /\ thread.packet # <<>>
        /\ \/ /\ console' = [console EXCEPT !.events = @ \cup Seqs!ToSet(thread.packet[1].events)]
              /\ UNCHANGED <<dropped, losses>>
           \/ Lose /\ dropped' = dropped \cup {thread.packet[1].k} /\ UNCHANGED console
     \/ thread.packet = <<>> /\ UNCHANGED <<console, dropped, losses>>
  /\ UNCHANGED <<inner, sent, news>>

\* A plausible bug: what counts as sent is read after the lock was taken again.
SentNow == inner.state.sticks

SentThen == thread.now

Relock ==
  /\ thread.place = "relock" /\ thread' = [thread EXCEPT !.place = "top"]
  /\ inner' = IF thread.send THEN [inner EXCEPT !.prev = SentThen] ELSE inner
  /\ UNCHANGED <<console, sent, news, dropped, losses>>

Thread == Decide \/ Stop \/ SendState \/ SendHistory \/ Relock

Next == (\E s \in ControllerState : SetControllerState(s)) \/ Drop \/ Thread

\* The thread runs, and its waits end after 200 ms.
Spec == Init /\ [][Next]_vars /\ WF_vars(Thread)
-----------------------------------------------------------------------------
\* When the thread has no change left to look at, the sticks that it sent last are the
\* sticks of the controller: no change is swallowed by comparing it with a state that
\* came while the lock was let go.
StateSettles ==
  thread.place = "top" /\ ~inner.changed => sent = inner.state.sticks

Carried(packets) == UNION {Seqs!ToSet(p.events) : p \in Seqs!ToSet(packets)}

\* One history packet that is lost, or thrown out of a full queue, costs no event: the
\* events it was the first to carry are repeated by the next one, if it had no more of
\* them than are repeated and the next one leaves the room.
NoEventForgotten ==
  \A k \in DOMAIN news :
    \/ news[k] \subseteq console.events \cup Carried(inner.packets)
                         \cup Carried(thread.packet) \cup Seqs!ToSet(inner.buf)
    \/ Cardinality(news[k]) > Resend
    \/ /\ k \in dropped
       /\ \E next \in dropped \cup {n \in DOMAIN news : Cardinality(news[n]) + Resend > BufSize} :
            next > k /\ \A between \in (k + 1) .. (next - 1) : news[between] = {}

\* However many states are lost, the console gets the sticks as the controller left
\* them, because they are sent again every 200 ms.
ConsoleFollows == <>[](console.sticks = inner.state.sticks \/ inner.stop)
=============================================================================
