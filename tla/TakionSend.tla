----------------------------- MODULE TakionSend -----------------------------
(***************************************************************************)
(* The data messages a Takion connection sends (takion.rs and              *)
(* takionsendbuffer.rs): any thread takes a sequence number, sends its     *)
(* packet and puts it into the send buffer, each under its own lock and    *)
(* none across two of them; the send buffer thread repeats what is not     *)
(* acknowledged and gives up after some tries; the receive thread takes    *)
(* out what the console acknowledges.                                      *)
(*                                                                         *)
(* The console is external: it acknowledges cumulatively what it received  *)
(* without a gap.  Time passes in ticks; the buffer stores times, the      *)
(* model the ticks since (age), and the ticks since the send buffer thread *)
(* read the clock (lag).                                                   *)
(***************************************************************************)
EXTENDS SeqNum, Retain, FiniteSets

CONSTANTS Senders,       \* the threads that send messages
          Messages,      \* bound: how many messages are sent
          FirstSeq,      \* seq_num_local at the start
          BufferSize,    \* TAKION_SEND_BUFFER_SIZE
          TriesMax,      \* TAKION_DATA_RESEND_TRIES_MAX
          ResendTimeout, \* TAKION_DATA_RESEND_TIMEOUT_MS, in ticks
          MaxLag,        \* bound: ticks between reading the clock and the lock
          MaxFailures,   \* bound: how many sends the socket refuses
          None

ASSUME MessagesAssumption ==
  /\ Messages \in Nat /\ Messages < SeqHalf /\ FirstSeq \in SeqNums
  /\ BufferSize \in Nat /\ TriesMax \in Nat /\ ResendTimeout \in Nat
  /\ MaxLag \in Nat /\ MaxFailures \in Nat
  /\ None \notin 1 .. Messages

SeqOf(n) == SeqAdd(FirstSeq, n - 1)
AgeMax   == ResendTimeout + MaxLag + 1
Packet   == [n : 1 .. Messages, tries : 0 .. TriesMax, age : 0 .. AgeMax]

VARIABLES taken,      \* how many sequence numbers were taken
          pc,         \* per sender: "idle", "send" or "add"
          holds,      \* per sender: the message it is about
          buffer,     \* send_buffer.packets
          rpc,        \* the send buffer thread: "wait", "scan" or "send"
          lag,        \* ticks since it read the clock
          toResend,   \* what it is about to send
          net,        \* packets on their way to the console
          received,   \* console: the messages that arrived
          acks,       \* cumulative acks on their way to us
          acked,      \* the messages for which DataAck was fired
          failures,   \* how many sends failed
          abandoned   \* history: failed, refused by the buffer or given up
vars == <<taken, pc, holds, buffer, rpc, lag, toResend, net, received, acks, acked,
          failures, abandoned>>
sender  == <<taken, pc, holds, failures>>
thread  == <<rpc, lag, toResend>>
console == <<received, acks>>

Buffered == {buffer[i].n : i \in DOMAIN buffer}

TypeOK ==
  /\ taken \in 0 .. Messages
  /\ pc \in [Senders -> {"idle", "send", "add"}]
  /\ holds \in [Senders -> 1 .. Messages \cup {None}]
  /\ buffer \in Seq(Packet) /\ Len(buffer) <= BufferSize
  /\ rpc \in {"wait", "scan", "send"} /\ lag \in 0 .. MaxLag
  /\ toResend \subseteq 1 .. Messages
  /\ net \subseteq 1 .. Messages /\ received \subseteq 1 .. Messages
  /\ acks \subseteq 1 .. Messages /\ acked \subseteq 1 .. Messages
  /\ failures \in 0 .. MaxFailures /\ abandoned \subseteq 1 .. Messages

Init == /\ taken = 0
        /\ pc = [t \in Senders |-> "idle"] /\ holds = [t \in Senders |-> None]
        /\ buffer = <<>>
        /\ rpc = "wait" /\ lag = 0 /\ toResend = {}
        /\ net = {} /\ received = {} /\ acks = {} /\ acked = {}
        /\ failures = 0 /\ abandoned = {}
-----------------------------------------------------------------------------
(* send_message_data on thread t *)

TakeSeqNum(t) ==
  /\ pc[t] = "idle" /\ taken < Messages
  /\ taken' = taken + 1
  /\ pc' = [pc EXCEPT ![t] = "send"]
  /\ holds' = [holds EXCEPT ![t] = taken + 1]
  /\ UNCHANGED <<buffer, thread, net, console, acked, failures, abandoned>>

SendPacket(t) ==
  /\ pc[t] = "send"
  /\ net' = net \cup {holds[t]}
  /\ pc' = [pc EXCEPT ![t] = "add"]
  /\ UNCHANGED <<taken, holds, buffer, thread, console, acked, failures, abandoned>>

\* The number is used up all the same and the packet is not buffered.
SendFails(t) ==
  /\ pc[t] = "send" /\ failures < MaxFailures
  /\ failures' = failures + 1
  /\ pc' = [pc EXCEPT ![t] = "idle"]
  /\ holds' = [holds EXCEPT ![t] = None]
  /\ abandoned' = abandoned \cup {holds[t]}
  /\ UNCHANGED <<taken, buffer, thread, net, console, acked>>

\* TakionSendBuffer::add; an overflow is only logged.
AddToBuffer(t) ==
  /\ pc[t] = "add"
  /\ pc' = [pc EXCEPT ![t] = "idle"]
  /\ holds' = [holds EXCEPT ![t] = None]
  /\ IF Len(buffer) < BufferSize
     THEN /\ buffer' = Append(buffer, [n |-> holds[t], tries |-> 0, age |-> 0])
          /\ UNCHANGED abandoned
     ELSE /\ abandoned' = abandoned \cup {holds[t]}
          /\ UNCHANGED buffer
  /\ UNCHANGED <<taken, thread, net, console, acked, failures>>
-----------------------------------------------------------------------------
(* The send buffer thread *)

\* A plausible bug: the ack takes out what comes after it.
CoversLater(a, n) == ~SeqLt(SeqOf(n), SeqOf(a))

\* The packets an ack of a takes out of the buffer.
Covers(a, n) == n = a \/ SeqLt(SeqOf(n), SeqOf(a))

Uncovered(a, packets) == Retained(packets, {i \in DOMAIN packets : ~Covers(a, packets[i].n)})

\* Unsigned: a packet stored after the clock was read looks infinitely old.
Expired(p) == p.age - lag > ResendTimeout \/ p.age < lag

\* A plausible bug: the tries are not counted.
ScanStepNotCounting(s) ==
  LET p == s.buffer[s.i]
  IN IF s.i > Len(s.buffer) THEN s
     ELSE IF ~Expired(p) THEN [s EXCEPT !.i = @ + 1]
     ELSE [s EXCEPT !.buffer[s.i].age = lag, !.resend = @ \cup {p.n}, !.i = @ + 1]

\* One iteration of take_expired_resends at index s.i.  Giving up takes out every
\* older packet as well and leaves the index where it is.
ScanStep(s) ==
  LET p == s.buffer[s.i]
  IN IF s.i > Len(s.buffer) THEN s
     ELSE IF ~Expired(p) THEN [s EXCEPT !.i = @ + 1]
     ELSE IF p.tries >= TriesMax
     THEN [s EXCEPT !.buffer = Uncovered(p.n, @),
                    !.gone = @ \cup {n \in Buffered : Covers(p.n, n)}]
     ELSE [s EXCEPT !.buffer[s.i] = [p EXCEPT !.tries = @ + 1, !.age = lag],
                    !.resend = @ \cup {p.n}, !.i = @ + 1]

Scanned ==
  LET after[k \in 0 .. Len(buffer)] ==
        IF k = 0 THEN [buffer |-> buffer, i |-> 1, resend |-> {}, gone |-> {}]
        ELSE ScanStep(after[k - 1])
  IN after[Len(buffer)]

\* A bounded wait, over early or late, while the buffer holds something.
WakeUp ==
  /\ rpc = "wait" /\ buffer # <<>>
  /\ rpc' = "scan"
  /\ UNCHANGED <<sender, buffer, lag, toResend, net, console, acked, abandoned>>

Scan ==
  /\ rpc = "scan"
  /\ rpc' = "send" /\ lag' = 0
  /\ buffer' = Scanned.buffer
  /\ toResend' = Scanned.resend
  /\ abandoned' = abandoned \cup Scanned.gone
  /\ UNCHANGED <<sender, net, console, acked>>

Resend ==
  /\ rpc = "send"
  /\ rpc' = "wait" /\ toResend' = {}
  /\ net' = net \cup toResend
  /\ UNCHANGED <<sender, buffer, lag, console, acked, abandoned>>
-----------------------------------------------------------------------------
(* The receive thread, the console, the network and the time *)

\* takion_handle_packet_message_data_ack
HandleAck(a) ==
  /\ a \in acks
  /\ acks' = acks \ {a}
  /\ buffer' = Uncovered(a, buffer)
  /\ acked' = acked \cup {n \in Buffered : Covers(a, n)}
  /\ UNCHANGED <<sender, thread, net, received, failures, abandoned>>

InOrder == {n \in received : 1 .. n \subseteq received}

\* The console acknowledges when more is complete; whether it acknowledges a
\* repetition is left open.
ConsoleReceive(n) ==
  /\ n \in net
  /\ net' = net \ {n}
  /\ received' = received \cup {n}
  /\ \/ /\ InOrder' # {} /\ acks' = acks \cup {Cardinality(InOrder')}
     \/ /\ InOrder' = InOrder /\ UNCHANGED acks
  /\ UNCHANGED <<sender, buffer, thread, acked, abandoned>>

Lose == /\ \/ \E n \in net : net' = net \ {n} /\ UNCHANGED acks
           \/ \E a \in acks : acks' = acks \ {a} /\ UNCHANGED net
        /\ UNCHANGED <<sender, buffer, thread, received, acked, abandoned>>

Older(p) == [p EXCEPT !.age = IF @ < AgeMax THEN @ + 1 ELSE @]

Tick == /\ buffer # <<>>
        /\ rpc = "scan" => lag < MaxLag
        /\ lag' = IF rpc = "scan" THEN lag + 1 ELSE lag
        /\ buffer' = [i \in DOMAIN buffer |-> Older(buffer[i])]
        /\ UNCHANGED <<sender, rpc, toResend, net, console, acked, abandoned>>

Next == \/ \E t \in Senders : TakeSeqNum(t) \/ SendPacket(t) \/ SendFails(t) \/ AddToBuffer(t)
        \/ WakeUp \/ Scan \/ Resend
        \/ \E a \in acks : HandleAck(a)
        \/ \E n \in net : ConsoleReceive(n)
        \/ Lose \/ Tick

\* Time passes and the send buffer thread runs; its steps are enabled by rpc alone.
Fairness ==
  /\ <>[](buffer # <<>> /\ (rpc = "scan" => lag < MaxLag)
          /\ \E i \in DOMAIN buffer : buffer[i].age < AgeMax) => []<><<Tick>>_vars
  /\ <>[](rpc = "wait" /\ buffer # <<>>) => []<><<WakeUp>>_vars
  /\ <>[](rpc = "scan") => []<><<Scan>>_vars
  /\ <>[](rpc = "send") => []<><<Resend>>_vars

Spec == Init /\ [][Next]_vars /\ Fairness
-----------------------------------------------------------------------------
\* Until the console has a message and all before it, DataAck is not fired for it, and we
\* can still repeat it: it is in the buffer or in its sender's hands. Else its send failed,
\* the full buffer refused it (what is logged only, the caller is told that it was sent), or
\* it was given up after its tries together with everything older. No interleaving of two
\* senders, an ack and the send buffer thread takes it out of the buffer early.
NothingForgotten ==
  \A n \in 1 .. taken :
    \/ 1 .. n \subseteq received
    \/ n \notin acked /\ (n \in Buffered \cup abandoned \/ \E t \in Senders : holds[t] = n)

\* No packet stays in the buffer for ever, also when its ack came before the
\* sender put it there and is never repeated.
BufferDrains == \A n \in 1 .. Messages : n \in Buffered ~> n \notin Buffered

\* take_expired_resends repeats what was last sent more than the timeout ago.
NoEarlyResend ==
  [][Scan => \A i \in DOMAIN buffer :
       buffer[i].n \in toResend' => buffer[i].age > ResendTimeout]_vars
=============================================================================
