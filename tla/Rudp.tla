-------------------------------- MODULE Rudp --------------------------------
(***************************************************************************)
(* The reliable layer of a remote connection (chiaki-remote/src/rudp.rs    *)
(* and rudpsendbuffer.rs) as the session and the ctrl connection use it:   *)
(* first the session thread, then the ctrl thread runs a series of         *)
(* requests over it, each repeated until its answer comes; then the ctrl   *)
(* thread sends its messages and reads what arrives, the session thread    *)
(* sends one message to switch, and the send buffer thread repeats what is  *)
(* not acknowledged.                                                       *)
(*                                                                         *)
(* The console is external: it answers every request, and acknowledges     *)
(* cumulatively, by the counter after the last message of a row without a  *)
(* gap.  The network loses, delays and reorders.  How old a packet is may  *)
(* be anything when the send buffer thread looks at it.                     *)
(***************************************************************************)
EXTENDS SeqNum, Retain, FiniteSets

CONSTANTS Tries,         \* how often send_recv sends a request
          MaxTroubles,   \* bound: how many answers are lost or late
          FirstCounter,  \* where the handshakes leave the counter
          Messages,      \* bound: how many messages are sent
          BufferSize,    \* RUDP_SEND_BUFFER_SIZE
          TriesMax,      \* RUDP_DATA_RESEND_TRIES_MAX
          MaxFailures    \* bound: how many sends the socket refuses

\* rudp_start_session, rudp_send_recv_http_header and rudp_finish on the session
\* thread; rudp_ctrl_start_session and rudp_send_recv_http_header on the ctrl thread.
Stages == <<"init", "cookie", "http", "finish", "init", "cookie", "http">>
Kinds  == {"init", "cookie", "http", "finish"}

\* The counter of the n-th message since then.
CounterOf(n) == SeqAdd(FirstCounter, n - 1)

Threads == {"ctrl", "session"}
Nothing == 0

VARIABLES
  place,     \* "handshake", "loop", "failed" after all its tries, or "broken" at one of them
  request,   \* send_recv: stage, tries so far, and whether it waits for an answer
  answers,   \* per kind: how many answers are on their way to us
  troubles,  \* history: late, how many waits ended with an answer on its way, and lost,
             \* answers to the present request that got lost or came too short
  counted,   \* how many counters were taken since the handshakes
  doing,     \* per thread: "idle", "key", "send", "push" or "over"
  inHand,    \* per thread: the message it is about, and its key in the buffer
  packets,   \* RudpSendBuffer.packets
  scan,      \* the send buffer thread: "wait", "scan" or "give_up", its index and the key
  arrived,   \* console: the messages that arrived
  sent, confirmed, \* messages and acknowledgments that may arrive from now on, or never
  refusals,  \* how many sends failed
  abandons,  \* history: failed, refused by the buffer or given up
  wiped      \* history: taken out by a message of a type that is not known
vars == <<place, request, answers, troubles, counted, doing, inHand, packets, scan,
          arrived, sent, confirmed, refusals, abandons, wiped>>
handshake == <<place, request, answers, troubles>>
senders   == <<counted, doing, inHand, refusals>>
console   == <<sent, arrived, confirmed>>
sending   == <<senders, packets, scan, console, abandons, wiped>>

Init ==
  /\ place = "handshake" /\ request = [stage |-> 1, tries |-> 0, waiting |-> FALSE]
  /\ answers = [k \in Kinds |-> 0] /\ troubles = [late |-> 0, lost |-> 0]
  /\ counted = 0 /\ doing = [t \in Threads |-> "idle"]
  /\ inHand = [t \in Threads |-> [n |-> Nothing, key |-> 0]]
  /\ packets = <<>> /\ scan = [at |-> "wait", i |-> 1, key |-> 0]
  /\ arrived = {} /\ sent = {} /\ confirmed = {}
  /\ refusals = 0 /\ abandons = {} /\ wiped = {}
-----------------------------------------------------------------------------
(* send_recv *)

Kind     == Stages[request.stage]
Handling == place = "handshake" /\ request.waiting
NextTry  == request' = [request EXCEPT !.waiting = FALSE]
Bounded  == troubles.late + troubles.lost < MaxTroubles

\* Whatever is on its way when a wait ends without it comes late.
Lateness  == IF \E k \in Kinds : answers[k] > 0 THEN troubles.late + 1 ELSE troubles.late
MayBeLate == Lateness = troubles.late \/ Bounded

\* What is still on its way then is one of the unknown messages of ReceiveUnknown.
EnterLoop ==
  /\ place' = "loop" /\ request' = [stage |-> 1, tries |-> 0, waiting |-> FALSE]
  /\ answers' = [k \in Kinds |-> 0] /\ troubles' = [late |-> 0, lost |-> 0]

NextStage(onTheWay, late) ==
  IF request.stage = Len(Stages) THEN EnterLoop
  ELSE /\ request' = [stage |-> request.stage + 1, tries |-> 0, waiting |-> FALSE]
       /\ answers' = onTheWay /\ troubles' = [late |-> late, lost |-> 0]
       /\ UNCHANGED place

SendRequest ==
  /\ place = "handshake" /\ ~request.waiting /\ request.tries < Tries
  /\ request' = [request EXCEPT !.tries = @ + 1, !.waiting = TRUE]
  /\ \/ answers' = [answers EXCEPT ![Kind] = @ + 1] /\ UNCHANGED troubles
     \/ Bounded /\ troubles' = [troubles EXCEPT !.lost = @ + 1] /\ UNCHANGED answers
  /\ UNCHANGED <<place, sending>>

\* A plausible bug: an answer to another request ends it.
FailsOnOthers(k, rest) ==
  IF k = Kind THEN NextStage(rest, troubles.late)
  ELSE place' = "failed" /\ answers' = rest /\ UNCHANGED <<request, troubles>>

\* An answer to another request costs a try, and so does one with too little in it, which
\* the one that finishes accepts.
Judged(k, rest) ==
  \/ k = Kind /\ NextStage(rest, troubles.late)
  \/ k # Kind /\ NextTry /\ answers' = rest /\ UNCHANGED <<place, troubles>>
  \/ /\ k = Kind /\ Kind # "finish" /\ Bounded /\ NextTry /\ answers' = rest
     /\ troubles' = [troubles EXCEPT !.lost = @ + 1] /\ UNCHANGED place

\* select_recv
ReceiveAnswer(k) ==
  /\ Handling /\ answers[k] > 0
  /\ Judged(k, [answers EXCEPT ![k] = @ - 1])
  /\ UNCHANGED sending

WaitRunsOut ==
  /\ Handling /\ MayBeLate /\ NextTry
  /\ troubles' = [troubles EXCEPT !.late = Lateness]
  /\ UNCHANGED <<place, answers, sending>>

\* A failed request ends the handshake, only the one that finishes may fail.
Fails(how, late) ==
  IF Kind = "finish" THEN NextStage(answers, late)
  ELSE place' = how /\ UNCHANGED <<request, answers, troubles>>

\* The socket fails, the stop pipe is set, a datagram has 8 bytes at most or does not parse,
\* or the header that was asked for is empty or too long: no further try is made.
ReceiveFails == Handling /\ MayBeLate /\ Fails("broken", Lateness) /\ UNCHANGED sending

OutOfTries ==
  /\ place = "handshake" /\ ~request.waiting /\ request.tries = Tries
  /\ Fails("failed", troubles.late) /\ UNCHANGED sending

Handshake == \/ SendRequest \/ (\E k \in Kinds : ReceiveAnswer(k))
             \/ WaitRunsOut \/ ReceiveFails \/ OutOfTries
-----------------------------------------------------------------------------
(* send_ctrl_message on the ctrl thread, and the switch on the session thread *)

Goes(t, from, to) == place = "loop" /\ doing[t] = from /\ doing' = [doing EXCEPT ![t] = to]
Done(t) == IF t = "ctrl" THEN "idle" ELSE "over"
Free(t) == inHand' = [inHand EXCEPT ![t] = [n |-> Nothing, key |-> 0]]

\* get_then_increase_counter
TakeCounter(t) ==
  /\ Goes(t, "idle", "key") /\ counted < Messages
  /\ counted' = counted + 1 /\ inHand' = [inHand EXCEPT ![t].n = counted + 1]
  /\ UNCHANGED <<handshake, packets, scan, refusals, console, abandons, wiped>>

\* A plausible bug: the packet is stored under its own counter.
OwnCounter(t) == CounterOf(inHand[t].n)

\* local_counter(): another thread may have counted one in between.
KeyOf(t) == CounterOf(counted + 1)

ReadKey(t) ==
  /\ Goes(t, "key", "send")
  /\ inHand' = [inHand EXCEPT ![t].key = KeyOf(t)]
  /\ UNCHANGED <<handshake, counted, packets, scan, refusals, console, abandons, wiped>>

Send(t) ==
  /\ Goes(t, "send", "push")
  /\ sent' = sent \cup {inHand[t].n}
  /\ UNCHANGED <<handshake, counted, inHand, packets, scan, arrived, confirmed, refusals, abandons, wiped>>

SendFails(t) ==
  /\ Goes(t, "send", Done(t)) /\ Free(t)
  /\ refusals < MaxFailures /\ refusals' = refusals + 1
  /\ abandons' = abandons \cup {inHand[t].n}
  /\ UNCHANGED <<handshake, counted, packets, scan, wiped, console>>

\* A full buffer and a key that is there already refuse it.
Push(t) ==
  /\ Goes(t, "push", Done(t)) /\ Free(t)
  /\ \/ /\ Len(packets) < BufferSize /\ \A i \in DOMAIN packets : packets[i].key # inHand[t].key
        /\ packets' = Append(packets, [n |-> inHand[t].n, key |-> inHand[t].key, tries |-> 0])
        /\ UNCHANGED abandons
     \/ /\ Len(packets) >= BufferSize \/ \E i \in DOMAIN packets : packets[i].key = inHand[t].key
        /\ abandons' = abandons \cup {inHand[t].n}
        /\ UNCHANGED packets
  /\ UNCHANGED <<handshake, counted, scan, refusals, console, wiped>>

SendMessage(t) == TakeCounter(t) \/ ReadKey(t) \/ Send(t) \/ SendFails(t) \/ Push(t)
-----------------------------------------------------------------------------
(* The ctrl thread receives *)

Covers(key, p) == p.key = key \/ SeqLt(p.key, key)
Without(key)   == Retained(packets, {i \in DOMAIN packets : ~Covers(key, packets[i])})
Covered(key)   == {packets[i].n : i \in {j \in DOMAIN packets : Covers(key, packets[j])}}

Reading == place = "loop" /\ doing["ctrl"] = "idle"

ReceiveAck(key) ==
  /\ Reading /\ key \in confirmed
  /\ packets' = Without(key)
  /\ UNCHANGED <<handshake, senders, scan, abandons, console, wiped>>

\* A message of any other type, and an answer to a request that comes only now, takes
\* out what the counter 0 acknowledges.
ReceiveUnknown ==
  /\ Reading
  /\ packets' = Without(0) /\ wiped' = wiped \cup Covered(0)
  /\ UNCHANGED <<handshake, senders, scan, abandons, console>>
-----------------------------------------------------------------------------
(* The send buffer thread *)

WakeUp ==
  /\ scan.at = "wait" /\ packets # <<>>
  /\ scan' = [scan EXCEPT !.at = "scan", !.i = 1]
  /\ UNCHANGED <<handshake, senders, packets, abandons, console, wiped>>

\* From index i to the end, or to a packet that is given up, with the lock held; old
\* are the packets that look old enough.
Scan(old) ==
  /\ scan.at = "scan"
  /\ LET seen(i)    == i >= scan.i /\ i \in old
         givenUp    == {i \in DOMAIN packets : seen(i) /\ packets[i].tries >= TriesMax}
         repeats(i) == seen(i) /\ \A g \in givenUp : i < g
     IN /\ packets' = [i \in DOMAIN packets |->
                        IF repeats(i) THEN [packets[i] EXCEPT !.tries = @ + 1] ELSE packets[i]]
        /\ sent' = sent \cup {packets[i].n : i \in {j \in DOMAIN packets : repeats(j)}}
        /\ \/ givenUp = {} /\ scan' = [scan EXCEPT !.at = "wait", !.i = 1]
           \/ \E g \in givenUp : /\ \A h \in givenUp : g <= h
                                 /\ scan' = [at |-> "give_up", i |-> g, key |-> packets[g].key]
  /\ UNCHANGED <<handshake, senders, arrived, confirmed, abandons, wiped>>

\* The lock is let go and counted again; everything older goes as well.
GiveUp ==
  /\ scan.at = "give_up"
  /\ packets' = Without(scan.key) /\ abandons' = abandons \cup Covered(scan.key)
  /\ scan' = [at |-> "scan", i |-> IF scan.i > 1 THEN scan.i - 1 ELSE 1, key |-> 0]
  /\ UNCHANGED <<handshake, senders, wiped, console>>
-----------------------------------------------------------------------------
(* The console and the network *)

ConsoleReceive(n) ==
  /\ n \in sent \ arrived /\ arrived' = arrived \cup {n}
  /\ LET row == {k \in arrived' : 1 .. k \subseteq arrived'}
     IN confirmed' = IF row = {} THEN confirmed ELSE confirmed \cup {CounterOf(Cardinality(row) + 1)}
  /\ UNCHANGED <<handshake, senders, packets, scan, sent, abandons, wiped>>

Next == \/ Handshake
        \/ \E t \in Threads : SendMessage(t)
        \/ \E key \in confirmed : ReceiveAck(key)
        \/ ReceiveUnknown
        \/ WakeUp \/ (\E old \in SUBSET DOMAIN packets : Scan(old)) \/ GiveUp
        \/ \E n \in sent : ConsoleReceive(n)

Spec == Init /\ [][Next]_vars
-----------------------------------------------------------------------------
\* The buffer stays within its size, and no packet is repeated more often than allowed.
TypeOK ==
  /\ place \in {"handshake", "loop", "failed", "broken"}
  /\ request \in [stage : 1 .. Len(Stages), tries : 0 .. Tries, waiting : BOOLEAN]
  /\ answers \in [Kinds -> Nat] /\ troubles \in [late : Nat, lost : Nat]
  /\ counted \in 0 .. Messages
  /\ doing \in [Threads -> {"idle", "key", "send", "push", "over"}]
  /\ inHand \in [Threads -> [n : 0 .. Messages, key : Nat]]
  /\ packets \in Seq([n : 1 .. Messages, key : Nat, tries : 0 .. TriesMax])
  /\ Len(packets) <= BufferSize
  /\ scan \in [at : {"wait", "scan", "give_up"}, i : Nat \ {0}, key : Nat]
  /\ sent \subseteq 1 .. Messages /\ arrived \subseteq sent /\ confirmed \subseteq Nat
  /\ abandons \subseteq 1 .. Messages /\ wiped \subseteq 1 .. Messages
  /\ refusals \in 0 .. MaxFailures

\* An answer that comes late is counted for one to a later request and costs it a try,
\* which leaves its own answer over for the request after it. That does not add up: a
\* request runs out of tries only when as many answers were late, in all of them, or lost
\* or too short, in this one, as there are tries. (An error that is no timeout ends a
\* request at once, however many tries are left; of that it says nothing.)
LateAnswersAreOutlived == place = "failed" => troubles.late + troubles.lost >= Tries

\* Until the console has a message and all before it, we can still repeat it: it is in the
\* buffer or in the hands of the thread that sends it. Else its send failed, the buffer
\* refused it (it was full or had the key), or it was given up after its tries together
\* with everything older; or a message of an unknown type took it out, which happens only
\* when the counter is beyond half of its space. No acknowledgment takes out what was not
\* received, also when two threads read the counter after each other's messages.
NothingForgotten ==
  \A n \in 1 .. counted :
    \/ 1 .. n \subseteq arrived
    \/ n \in abandons \cup {packets[i].n : i \in DOMAIN packets} \cup {inHand[t].n : t \in Threads}
    \/ n \in wiped /\ FirstCounter + counted > SeqHalf
=============================================================================
