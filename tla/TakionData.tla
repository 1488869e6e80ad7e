----------------------------- MODULE TakionData -----------------------------
(***************************************************************************)
(* The data messages a Takion connection receives (crates/chiaki-core/src/ *)
(* takion.rs): the console sends numbered messages over UDP and repeats    *)
(* them until they are acknowledged; the receive thread checks their MAC   *)
(* once it has a key, sorts them in a reorder queue, hands them to the     *)
(* callback in order and acknowledges the last one it pulled.              *)
(*                                                                         *)
(* The console is external: only what the code relies on is assumed, that  *)
(* it repeats what is not acknowledged and honours cumulative acks.  A     *)
(* message is its number n, sent under the sequence number of its place.   *)
(***************************************************************************)
EXTENDS ReorderQueueOps, Sequences

CONSTANTS Messages,     \* bound: how many messages the console sends
          FirstSeq,     \* initial_seq_num of the INIT_ACK
          Bang,         \* the message whose handler installs the keys
          MaxDamaged    \* bound: how many packets arrive damaged

ASSUME MessagesAssumption ==
  /\ Messages \in Nat /\ Messages < SeqHalf
  /\ FirstSeq \in SeqNums
  /\ Bang \in 1 .. Messages
  /\ MaxDamaged \in Nat

Packets == [n : 1 .. Messages, intact : BOOLEAN]
Intact(n) == [n |-> n, intact |-> TRUE]
SeqOf(n)  == SeqAdd(FirstSeq, n - 1)

ASSUME NoUserAssumption == NoUser \notin Packets

VARIABLES clean,       \* whether this network damages nothing
          sent,        \* console: how many messages it sent
          unacked,     \* console: the messages it keeps repeating
          net,         \* packets on their way to us
          acks,        \* cumulative acks on their way to the console
          damaged,     \* how many packets were damaged
          q,           \* data_queue
          crypt,       \* gkcrypt_remote is set
          crypt_available,  \* the receive thread noticed it
          fired        \* the packets handed to the callback, in order
vars == <<clean, sent, unacked, net, acks, damaged, q, crypt, crypt_available, fired>>
console == <<clean, sent, unacked, damaged>>

TypeOK ==
  /\ clean \in BOOLEAN
  /\ sent \in 0 .. Messages /\ unacked \subseteq 1 .. Messages
  /\ net \subseteq Packets /\ acks \subseteq SeqNums
  /\ damaged \in 0 .. MaxDamaged
  /\ q \in [begin : SeqNums, count : 0 .. QSize,
            slots : [SlotIds -> [set : BOOLEAN, user : Packets \cup {NoUser}]]]
  /\ crypt \in BOOLEAN /\ crypt_available \in BOOLEAN
  /\ fired \in Seq(Packets)

Init == /\ clean \in BOOLEAN
        /\ sent = 0 /\ unacked = {} /\ net = {} /\ acks = {} /\ damaged = 0
        /\ q = NewQueue(FirstSeq)
        /\ crypt = FALSE /\ crypt_available = FALSE
        /\ fired = <<>>
-----------------------------------------------------------------------------
(* The console and the network. *)

ConsoleSend ==
  /\ sent < Messages
  /\ sent' = sent + 1
  /\ unacked' = unacked \cup {sent + 1}
  /\ net' = net \cup {Intact(sent + 1)}
  /\ UNCHANGED <<clean, acks, damaged, q, crypt, crypt_available, fired>>

ConsoleResend(n) ==
  /\ n \in unacked
  /\ net' = net \cup {Intact(n)}
  /\ UNCHANGED <<console, acks, q, crypt, crypt_available, fired>>

ConsoleAcked(a) ==
  /\ a \in acks
  /\ acks' = acks \ {a}
  /\ unacked' = {n \in unacked : SeqGt(SeqOf(n), a)}
  /\ UNCHANGED <<clean, sent, net, damaged, q, crypt, crypt_available, fired>>

Lose ==
  /\ \/ \E p \in net : net' = net \ {p} /\ UNCHANGED acks
     \/ \E a \in acks : acks' = acks \ {a} /\ UNCHANGED net
  /\ UNCHANGED <<console, q, crypt, crypt_available, fired>>

Damage(n) ==
  /\ ~clean /\ damaged < MaxDamaged
  /\ Intact(n) \in net
  /\ net' = net \cup {[n |-> n, intact |-> FALSE]}
  /\ damaged' = damaged + 1
  /\ UNCHANGED <<clean, sent, unacked, acks, q, crypt, crypt_available, fired>>
-----------------------------------------------------------------------------
(* The receive thread. *)

\* What the console sent after its BANG carries a MAC.
MacValid(p) == p.intact /\ p.n > Bang

\* A plausible bug: what cannot be pulled yet is acknowledged, too.
AcksEagerly(w) == IF w.count = 0 THEN {} ELSE {At(w, w.count - 1)}

\* if ack { send_message_data_ack(seq_num) }
Acks(w) == IF Run(w) = 0 THEN {} ELSE {At(w, Run(w) - 1)}

\* takion_handle_packet_message_data with takion_flush_data_queue.  The callback
\* installs the keys when it is handed the BANG.
HandleData(p) ==
  LET w == Push(q, SeqOf(p.n), p, "End").queue
  IN /\ q' = Drained(w)
     /\ fired' = fired \o Taken(w)
     /\ acks' = acks \cup Acks(w)
     /\ crypt' = (crypt \/ \E i \in DOMAIN Taken(w) : Taken(w)[i].n = Bang)

\* One datagram, which the network may deliver again: the MAC check, then the
\* handler.  The loop rechecks the queue before it receives on.
Receive(p, again) ==
  /\ crypt => crypt_available
  /\ p \in net
  /\ net' = IF again THEN net ELSE net \ {p}
  /\ IF crypt /\ ~MacValid(p) THEN UNCHANGED <<q, fired, acks, crypt>> ELSE HandleData(p)
  /\ UNCHANGED <<console, crypt_available>>

InvalidIn(w) == {i \in Offsets(w) : SlotAt(w, i).user # NoUser /\ ~MacValid(SlotAt(w, i).user)}

\* A plausible bug: the recheck ends before the last packet.
RecheckedShort(w) ==
  [w EXCEPT !.slots = [k \in SlotIds |->
     IF \E i \in InvalidIn(w) : i < w.count - 1 /\ k = Idx(At(w, i))
     THEN [w.slots[k] EXCEPT !.user = NoUser] ELSE w.slots[k]]]

\* Every packet in the queue is checked again and drop_at is called for those
\* that fail; the window shrinks only when the last one is among them.
Rechecked(w) ==
  LET last  == w.count - 1
      inner == InvalidIn(w) \ {last}
      rest  == [w EXCEPT !.slots = [k \in SlotIds |->
                  IF \E i \in inner : k = Idx(At(w, i))
                  THEN [w.slots[k] EXCEPT !.user = NoUser] ELSE w.slots[k]]]
  IN IF last \in InvalidIn(w) THEN DropAt(rest, last).queue ELSE rest

Recheck ==
  /\ crypt /\ ~crypt_available
  /\ crypt_available' = TRUE
  /\ q' = Rechecked(q)
  /\ UNCHANGED <<console, net, acks, crypt, fired>>

Next == \/ ConsoleSend
        \/ \E n \in 1 .. Messages : ConsoleResend(n) \/ Damage(n)
        \/ \E a \in acks : ConsoleAcked(a)
        \/ Lose
        \/ \E p \in Packets, again \in BOOLEAN : Receive(p, again)
        \/ Recheck

\* The console repeats what it keeps, a message repeated for ever gets through
\* some day (strong fairness of Receive, written out with its guard), and the
\* receive thread runs.
Fairness ==
  /\ \A n \in 1 .. Messages :
       /\ WF_vars(ConsoleResend(n))
       /\ []<>((crypt => crypt_available) /\ Intact(n) \in net)
            => []<><<\E again \in BOOLEAN : Receive(Intact(n), again)>>_vars
  /\ WF_vars(Recheck)

Spec == Init /\ [][Next]_vars /\ Fairness
-----------------------------------------------------------------------------
\* The channel this direction implements over a network that damages nothing: what
\* the callback was handed is what was sent, in order and without gap or repetition,
\* and the console drops only what was handed on.  (The other network is mapped to
\* a channel that stays empty.)
Channel == INSTANCE MessageChannel WITH
             sent <- IF clean THEN sent ELSE 0,
             delivered <- IF clean THEN [i \in DOMAIN fired |-> fired[i].n] ELSE <<>>,
             forgotten <- IF clean THEN sent - Cardinality(unacked) ELSE 0

ImplementsChannel == Channel!Spec

\* Every message the console sent is handed to the callback some day, whatever
\* was lost, repeated or refused by a full queue on the way: again and again the
\* callback has all that was sent until then.
EverythingFired == []<>(clean => Len(fired) = sent)

\* The recheck drops nothing that the console sent as it should: its messages up
\* to the BANG carry no MAC, and none of them is still queued when the keys come.
RecheckSparesConsole ==
  [][Recheck => \A p \in Held(q) : p.intact => p \in Held(q')]_vars

\* Once the receive thread has noticed the keys, nothing damaged reaches the
\* callback, whether it arrives then or was queued behind a gap before.
NothingDamagedFired ==
  [][crypt_available =>
       \A i \in DOMAIN fired' \ DOMAIN fired : fired'[i].intact]_vars

\* The callback is handed the messages in order, each at most once, even when
\* damaged packets took the place of some.
FiredInOrder ==
  \A i, j \in DOMAIN fired : i < j => fired[i].n < fired[j].n
=============================================================================
