----------------------------- MODULE Holepunch -----------------------------
(***************************************************************************)
(* The remote connection of chiaki-remote/src/holepunch.rs: the thread     *)
(* that makes a session at PSN and punches a hole for the control and one  *)
(* for the data connection, the WebSocket thread that queues the           *)
(* notifications of PSN for it, and the user who may cancel.               *)
(*                                                                         *)
(* PSN and the console are external: what they say arrives over the        *)
(* WebSocket in the order it was said, an OFFER that was not answered yet  *)
(* may be said again, and a console may terminate.  What the client posts  *)
(* arrives at once; a post that fails may have arrived all the same.       *)
(* Candidates, STUN and UPnP only decide whether a step succeeds.          *)
(***************************************************************************)
EXTENDS Naturals, Sequences, FiniteSets

CONSTANTS Repeats,  \* bound: how often the console repeats an OFFER
          Quits     \* BOOLEAN: whether PSN or the console may end the session

Seqs == INSTANCE SequencesExt

Ports == {"ctrl", "data"}

\* A notification: type as parse_notification_type gives it; for a session message
\* its action, the hole it is about and the request it answers.
Note(type, action, port, id) == [type |-> type, action |-> action, port |-> port, id |-> id]
Message(action, port, id) == Note("message", action, port, id)

VARIABLES
  main,   \* the connecting thread: pc, port of the hole, msg taken, the ids of requests
  bits,   \* SessionState
  flags,  \* StopFlags and the stop pipe: main, ws, pipe
  notif,  \* NotifQueue
  ws,     \* the WebSocket thread: pc and the frame it works on
  user,   \* "idle", "canceling" with the session in hand, "canceled"
  held,   \* BOOLEAN: a handle of the session is held outside of the WebSocket thread
  net,    \* from PSN to the WebSocket
  said,   \* history: what PSN and the console have said
  heard,  \* history: what has arrived there from us
  lost    \* history: holes whose OFFER the WebSocket thread gave up
vars == <<main, bits, flags, notif, ws, user, held, net, said, heard, lost>>
psn == <<net, said, heard>>

Waits == {"await_open", "await_created", "await_joined",
          "await_offer", "await_result", "await_accept"}
Over == main.pc \in {"failed", "done"}

TypeOK ==
  /\ main.pc \in Waits \cup
       {"fqdn", "session", "offer", "offering", "start", "take_offer", "ack_offer", "send_offer",
        "probe", "probing", "accept", "ack_accept", "establish", "reply", "replying", "between",
        "failed", "done"}
  /\ main.port \in Ports /\ main.ours \in BOOLEAN /\ main.next \in Nat /\ main.req \in Nat
  /\ flags \in [main : BOOLEAN, ws : BOOLEAN, pipe : BOOLEAN]
  /\ ws.pc \in {"none", "connect", "recv", "ack", "push", "over"}
  /\ user \in {"idle", "canceling", "canceled"} /\ held \in BOOLEAN /\ lost \subseteq Ports

Init ==
  /\ main = [pc |-> "fqdn", port |-> "ctrl", msg |-> "ctrl", ours |-> FALSE, next |-> 1, req |-> 0]
  /\ bits = {} /\ notif = <<>> /\ user = "idle" /\ held = TRUE
  /\ flags = [main |-> FALSE, ws |-> FALSE, pipe |-> FALSE]
  /\ ws = [pc |-> "none", msg |-> Note("", "", "", 0)]
  /\ net = <<>> /\ said = {} /\ heard = {} /\ lost = {}

At(pc) == main.pc = pc
Goto(pc) == main' = [main EXCEPT !.pc = pc]
Fail == Goto("failed")

\* check_cancel before the thread goes on as m: a cancel is taken back when it is seen.
Checked(m) ==
  IF flags.main THEN Fail /\ flags' = [flags EXCEPT !.main = FALSE]
  ELSE main' = m /\ UNCHANGED flags

\* A post: it arrives, or an error is returned whether it arrived or not.
Posts(what) == heard' = heard \cup {what}
PostFails(what) == heard' \in {heard, heard \cup {what}}
-----------------------------------------------------------------------------
(* create() *)

GetFqdn ==
  /\ At("fqdn")
  /\ \/ /\ Checked([main EXCEPT !.pc = "await_open"])
        /\ ws' = IF flags.main THEN ws ELSE [ws EXCEPT !.pc = "connect"]
     \/ Fail /\ UNCHANGED <<flags, ws>>
  /\ UNCHANGED <<bits, notif, user, held, lost, psn>>

\* Looks every 500 ms, at most 30 s.
AwaitOpen ==
  /\ At("await_open")
  /\ \/ "ws_open" \in bits /\ Checked([main EXCEPT !.pc = "session"])
     \/ "ws_open" \notin bits /\ Fail /\ flags' \in {flags, [flags EXCEPT !.main = FALSE]}
  /\ UNCHANGED <<bits, notif, ws, user, held, lost, psn>>

CreateSession ==
  /\ At("session")
  /\ \/ Posts(<<"create">>) /\ Checked([main EXCEPT !.pc = "await_created"])
     \/ PostFails(<<"create">>) /\ Fail /\ UNCHANGED flags
  /\ UNCHANGED <<bits, notif, ws, user, held, net, said, lost>>

-----------------------------------------------------------------------------
(* wait_for_notification and its callers *)

\* The notification a wait takes off the queue: the first one of these types.
Found(types) ==
  {i \in 1 .. Len(notif) :
     notif[i].type \in types /\ \A j \in 1 .. i - 1 : notif[j].type \notin types}

TypesOf(pc) ==
  CASE pc = "await_created" -> {"created", "joined"}
    [] pc = "await_joined"  -> {"joined", "custom"}
    [] OTHER                -> {"message"}

\* The queue was looked at in vain: time is up, or the cancel is seen.
WaitEnds ==
  /\ main.pc \in Waits \ {"await_open"} /\ Found(TypesOf(main.pc)) = {}
  /\ Fail /\ flags' \in {flags, [flags EXCEPT !.main = FALSE]}
  /\ UNCHANGED <<bits, notif, ws, user, held, lost, psn>>

\* create() and start() wait until both of their notifications were there. One that
\* lacks its fields, or names another member than the console, ends them.
AwaitBoth(pc, bitOf, next) ==
  /\ At(pc)
  /\ \E i \in Found(TypesOf(pc)) :
       /\ notif' = Seqs!RemoveAt(notif, i)
       /\ \/ /\ bits' = bits \cup {bitOf[notif[i].type]}
             /\ Checked([main EXCEPT !.pc = IF {bitOf[t] : t \in DOMAIN bitOf} \subseteq bits' THEN next
                                            ELSE pc])
          \/ Fail /\ UNCHANGED <<bits, flags>>
  /\ UNCHANGED <<ws, user, held, lost, psn>>

AwaitCreated == AwaitBoth("await_created",
                          [created |-> "created", joined |-> "client_joined"], "offer")

AwaitJoined == AwaitBoth("await_joined",
                         [joined |-> "console_joined", custom |-> "custom_data1"], "await_offer")

\* wait_for_session_message: a message that is not waited for is dropped.
AwaitMessage(pc, matches(_), m(_)) ==
  /\ At(pc)
  /\ \E i \in Found({"message"}) :
       /\ notif' = Seqs!RemoveAt(notif, i)
       /\ IF notif[i].action = "TERMINATE"
          THEN Fail /\ flags' = [flags EXCEPT !.main = FALSE]
          ELSE Checked(IF matches(notif[i]) THEN m(notif[i]) ELSE main)
  /\ UNCHANGED <<bits, ws, user, held, lost, psn>>
-----------------------------------------------------------------------------
(* create_offer() and start() *)

\* The sockets, STUN and UPnP are asked under the main lock; the id of the message is
\* replaced later.
CreateOffer ==
  /\ At("offer") /\ main' = [main EXCEPT !.pc = "offering", !.next = @ + 1]
  /\ UNCHANGED <<bits, flags, notif, ws, user, held, lost, psn>>

\* The control hole is given up with its offer; the session goes on without an offer
\* for the data hole.
OfferCreated ==
  /\ At("offering")
  /\ LET next == IF main.port = "ctrl" THEN "start" ELSE "await_offer"
     IN \/ main' = [main EXCEPT !.pc = next, !.ours = TRUE]
        \/ main' = [main EXCEPT !.pc = IF main.port = "ctrl" THEN "failed" ELSE next,
                                !.ours = FALSE]
  /\ UNCHANGED <<bits, flags, notif, ws, user, held, lost, psn>>

Start ==
  /\ At("start")
  /\ \/ Posts(<<"start">>) /\ Checked([main EXCEPT !.pc = "await_joined"])
     \/ PostFails(<<"start">>) /\ Fail /\ UNCHANGED flags
  /\ UNCHANGED <<bits, notif, ws, user, held, net, said, lost>>
-----------------------------------------------------------------------------
(* punch_hole(port) *)

IsOffer(n) == n.action = "OFFER"
IsAccept(n) == n.action = "ACCEPT"

\* A plausible bug: any RESULT is the one for our offer.
AcksAnything(n) == n.action = "RESULT"

AcksOurs(n) == n.action = "RESULT" /\ n.id = main.req

AwaitOffer ==
  AwaitMessage("await_offer", IsOffer,
               LAMBDA n : [main EXCEPT !.pc = "take_offer", !.msg = n.port])

OfferBit(port) == IF port = "ctrl" THEN "ctrl_offer" ELSE "data_offer"

\* From here on the WebSocket thread answers what is repeated.
TakeOffer ==
  /\ At("take_offer") /\ Goto("ack_offer")
  /\ bits' = bits \cup {OfferBit(main.port)}
  /\ UNCHANGED <<flags, notif, ws, user, held, lost, psn>>

AckOffer ==
  /\ At("ack_offer")
  /\ \/ /\ Posts(<<"RESULT", "OFFER", main.msg>>)
        /\ Checked([main EXCEPT !.pc = "send_offer"])
     \/ PostFails(<<"RESULT", "OFFER", main.msg>>) /\ Fail /\ UNCHANGED flags
  /\ UNCHANGED <<bits, notif, ws, user, held, net, said, lost>>

\* The outcome of this post is not looked at, and there may be no offer to send.
SendOffer ==
  /\ At("send_offer")
  /\ main' = [main EXCEPT !.pc = "await_result", !.req = main.next, !.next = @ + 1]
  /\ IF main.ours THEN PostFails(<<"OFFER", main.port, main.next>>) ELSE UNCHANGED heard
  /\ UNCHANGED <<bits, flags, notif, ws, user, held, net, said, lost>>

AwaitResult ==
  AwaitMessage("await_result", AcksOurs, LAMBDA n : [main EXCEPT !.pc = "probe"])

\* check_candidates, under the main lock: requests to all candidates until one answers.
CheckCandidates ==
  /\ At("probe") /\ Goto("probing")
  /\ UNCHANGED <<bits, flags, notif, ws, user, held, lost, psn>>

\* The stop pipe is looked at every 10 ms; nobody may answer.
CandidatesChecked ==
  /\ At("probing")
  /\ \/ ~flags.pipe /\ Checked([main EXCEPT !.pc = "accept"])
     \/ Fail /\ UNCHANGED flags
  /\ UNCHANGED <<bits, notif, ws, user, held, lost, psn>>

SendAccept ==
  /\ At("accept")
  /\ \/ /\ Posts(<<"ACCEPT", main.port, main.req>>)
        /\ Checked([main EXCEPT !.pc = "await_accept", !.next = @ + 1])
     \/ PostFails(<<"ACCEPT", main.port, main.req>>) /\ Fail /\ UNCHANGED flags
  /\ UNCHANGED <<bits, notif, ws, user, held, net, said, lost>>

AwaitAccept ==
  AwaitMessage("await_accept", IsAccept,
               LAMBDA n : [main EXCEPT !.pc = "ack_accept", !.msg = n.port])

AckAccept ==
  /\ At("ack_accept")
  /\ \/ Posts(<<"RESULT", "ACCEPT", main.msg>>) /\ Checked([main EXCEPT !.pc = "establish"])
     \/ PostFails(<<"RESULT", "ACCEPT", main.msg>>) /\ Fail /\ UNCHANGED flags
  /\ UNCHANGED <<bits, notif, ws, user, held, net, said, lost>>

Established(port) == IF port = "ctrl" THEN "ctrl_established" ELSE "data_established"

\* A cancel may have come since the flag was looked at. The socket may not be doubled.
Establish ==
  /\ At("establish") /\ (Goto("reply") \/ Fail)
  /\ bits' = bits \cup {Established(main.port)}
  /\ UNCHANGED <<flags, notif, ws, user, held, lost, psn>>

\* The flag is looked at, and the stop pipe ...
Reply ==
  /\ At("reply")
  /\ \/ ~flags.pipe /\ Checked([main EXCEPT !.pc = "replying"])
     \/ Fail /\ flags' \in {flags, [flags EXCEPT !.main = FALSE]}
  /\ UNCHANGED <<bits, notif, ws, user, held, lost, psn>>

\* ... which is not looked at while the last requests of the console are waited for and
\* answered; the offer is forgotten.
Replied ==
  /\ At("replying")
  /\ \/ main' = [main EXCEPT !.pc = IF main.port = "ctrl" THEN "between" ELSE "done",
                             !.ours = FALSE]
     \/ Fail
  /\ UNCHANGED <<bits, flags, notif, ws, user, held, lost, psn>>

\* The session is started over the first hole and asks for the second; or it ends.
NextHole ==
  /\ At("between")
  /\ \/ main' = [main EXCEPT !.pc = "offer", !.port = "data"]
     \/ Goto("done")
  /\ UNCHANGED <<bits, flags, notif, ws, user, held, lost, psn>>

Main == \/ GetFqdn \/ AwaitOpen \/ CreateSession \/ AwaitCreated \/ WaitEnds
        \/ AwaitJoined \/ CreateOffer \/ OfferCreated \/ Start
        \/ AwaitOffer \/ TakeOffer \/ AckOffer \/ SendOffer \/ AwaitResult \/ CheckCandidates
        \/ CandidatesChecked \/ SendAccept \/ AwaitAccept \/ AckAccept \/ Establish
        \/ Reply \/ Replied \/ NextHole

MainLocked == main.pc \in {"offering", "probing"}
-----------------------------------------------------------------------------
(* websocket_thread_func *)

WsConnect ==
  /\ ws.pc = "connect"
  /\ \/ ws' = [ws EXCEPT !.pc = "recv"] /\ bits' = bits \cup {"ws_open"}
     \/ ws' = [ws EXCEPT !.pc = "over"] /\ bits' = bits \cup {"ws_failed"}
  /\ UNCHANGED <<main, flags, notif, user, held, lost, psn>>

\* Nobody is waiting for an OFFER.
AnswersOffers ==
  \/ "ctrl_offer" \in bits /\ "ctrl_established" \notin bits
  \/ "data_offer" \in bits

WsReceive ==
  /\ ws.pc = "recv" /\ net # <<>>
  /\ net' = Tail(net)
  /\ ws' = [pc |-> IF AnswersOffers /\ IsOffer(Head(net)) THEN "ack" ELSE "push",
            msg |-> Head(net)]
  /\ UNCHANGED <<main, bits, flags, notif, user, held, said, heard, lost>>

\* A plausible bug: what was answered here is not queued.
WsAckIsEnough ==
  /\ ws.pc = "ack" /\ ~MainLocked
  /\ Posts(<<"RESULT", "OFFER", ws.msg.port>>) /\ ws' = [ws EXCEPT !.pc = "recv"]
  /\ UNCHANGED <<main, bits, flags, notif, user, held, net, said, lost>>

\* The post needs the main lock for a moment; if it fails the message is given up.
WsAck ==
  /\ ws.pc = "ack" /\ ~MainLocked
  /\ \/ /\ Posts(<<"RESULT", "OFFER", ws.msg.port>>) /\ ws' = [ws EXCEPT !.pc = "push"]
        /\ UNCHANGED lost
     \/ /\ PostFails(<<"RESULT", "OFFER", ws.msg.port>>) /\ ws' = [ws EXCEPT !.pc = "recv"]
        /\ lost' = lost \cup {ws.msg.port}
  /\ UNCHANGED <<main, bits, flags, notif, user, held, net, said>>

WsPush ==
  /\ ws.pc = "push"
  /\ notif' = Append(notif, ws.msg)
  /\ ws' = [ws EXCEPT !.pc = IF ws.msg.type = "deleted" THEN "over" ELSE "recv"]
  /\ UNCHANGED <<main, bits, flags, user, held, lost, psn>>

WsStop ==
  /\ ws.pc = "recv" /\ flags.ws
  /\ ws' = [ws EXCEPT !.pc = "over"]
  /\ UNCHANGED <<main, bits, flags, notif, user, held, lost, psn>>

\* No PONG in time, a failed read or write, a close frame.
WsBreaks ==
  /\ ws.pc = "recv"
  /\ ws' = [ws EXCEPT !.pc = "over"]
  /\ UNCHANGED <<main, bits, flags, notif, user, held, lost, psn>>
-----------------------------------------------------------------------------
(* The user and the handles *)

\* stop_current takes the session only while the first hole is being punched ...
TakePending ==
  /\ user = "idle" /\ ~Over /\ main.port = "ctrl" /\ main.pc # "between"
  /\ user' = "canceling"
  /\ UNCHANGED <<main, bits, flags, notif, ws, held, lost, psn>>

\* A plausible bug: main_thread_cancel(false), which leaves the WebSocket thread.
CancelMainOnly ==
  /\ user = "canceling" /\ user' = "canceled"
  /\ flags' = [flags EXCEPT !.main = TRUE]
  /\ UNCHANGED <<main, bits, notif, ws, held, lost, psn>>

\* ... and calls main_thread_cancel(true) then.
Cancel ==
  /\ user = "canceling" /\ user' = "canceled"
  /\ flags' = [main |-> TRUE, ws |-> TRUE, pipe |-> TRUE]
  /\ UNCHANGED <<main, bits, notif, ws, held, lost, psn>>

\* Drop of the last handle outside: the thread is stopped only if no other reference
\* is left, and the WebSocket thread has one.
DropHandle ==
  /\ Over /\ user # "canceling" /\ held
  /\ held' = FALSE
  /\ flags' = IF ws.pc \in {"none", "over"} THEN [flags EXCEPT !.ws = TRUE, !.pipe = TRUE]
              ELSE flags
  /\ UNCHANGED <<main, bits, notif, ws, user, lost, psn>>
-----------------------------------------------------------------------------
(* PSN and the console *)

\* said remembers what was said, the notification only what it carries.
Says(what, n) ==
  /\ what \notin said /\ said' = said \cup {what} /\ net' = Append(net, n)
  /\ UNCHANGED <<main, bits, flags, notif, ws, user, held, heard, lost>>

PsnSays ==
  \/ <<"create">> \in heard /\ Says(<<"created">>, Note("created", "", "", 0))
  \/ <<"create">> \in heard /\ Says(<<"client">>, Note("joined", "", "", 0))
  \/ <<"start">> \in heard /\ Says(<<"console">>, Note("joined", "", "", 0))
  \/ <<"start">> \in heard /\ Says(<<"custom">>, Note("custom", "", "", 0))

\* Bound: a console that repeats an OFFER does not end the session as well.
PsnQuits ==
  /\ Quits /\ <<"start">> \in heard
  /\ \A port \in Ports : <<"OFFER", port, 1>> \notin said
  /\ \/ Says(<<"quit">>, Note("deleted", "", "", 0))
     \/ Says(<<"quit">>, Message("TERMINATE", "", 0))

\* Our OFFER was taken; the OFFER of the console is not repeated after that.
Taken(port) == <<"RESULT", port, "OFFER">> \in said

ConsoleOffers(port) ==
  /\ IF port = "ctrl" THEN <<"start">> \in heard ELSE <<"RESULT", "ACCEPT", "ctrl">> \in heard
  /\ ~Taken(port)
  /\ \E k \in 0 .. IF <<"quit">> \in said THEN 0 ELSE Repeats :
                             /\ k > 0 => <<"OFFER", port, k - 1>> \in said
                             /\ Says(<<"OFFER", port, k>>, Message("OFFER", port, 0))

\* An OFFER and an ACCEPT of ours have the same id, and so have the answers.
ConsoleAnswers(port) ==
  \E what \in heard :
    /\ what[1] \in {"OFFER", "ACCEPT"} /\ what[2] = port
    /\ Says(<<"RESULT", port, what[1]>>, Message("RESULT", port, what[3]))

ConsoleAccepts(port) ==
  /\ Taken(port)
  /\ Says(<<"ACCEPT", port>>, Message("ACCEPT", port, 0))

External == \/ PsnSays \/ PsnQuits
            \/ \E port \in Ports : \/ ConsoleOffers(port) \/ ConsoleAnswers(port)
                                   \/ ConsoleAccepts(port)

WsThread == WsConnect \/ WsReceive \/ WsAck \/ WsPush \/ WsStop

\* Never both: who has taken the session cancels it, and drops it then.
LetGo == Cancel \/ DropHandle

Next == Main \/ WsThread \/ WsBreaks \/ TakePending \/ LetGo \/ External

\* Both threads go on: every wait and every read has a time limit. The thread of the
\* user that has taken the session cancels it, and the handles are dropped.
Spec == Init /\ [][Next]_vars
        /\ WF_vars(Main) /\ WF_vars(WsThread) /\ WF_vars(WsStop)
        /\ WF_vars(LetGo)
-----------------------------------------------------------------------------
\* The OFFER the client punches a hole for is the one the console made for this hole,
\* however often the console repeated the one before, and the console has taken the
\* OFFER of the client before its candidates are tried; a hole is established only if
\* both have accepted.
HoleIsAgreed ==
  /\ main.pc \in {"take_offer", "ack_offer", "send_offer", "await_result", "ack_accept", "establish"}
       => main.msg = main.port
  /\ main.pc \in {"probe", "probing", "accept", "await_accept", "ack_accept", "establish"}
       => Taken(main.port)
  /\ \A port \in Ports : Established(port) \in bits =>
       <<"ACCEPT", port>> \in said /\ <<"RESULT", "ACCEPT", port>> \in heard

Queued(port) ==
  \E n \in Seqs!ToSet(notif \o net) \cup (IF ws.pc \in {"ack", "push"} THEN {ws.msg} ELSE {}) :
    IsOffer(n) /\ n.port = port

\* While the connection is being made no OFFER of the console is lost between the two
\* threads, one of which may answer it before the other waits for it: it is queued until
\* its hole takes it, unless the WebSocket thread could not post its answer. And once its
\* hole has taken it, it is answered, or that is the next thing the connecting thread does,
\* while the WebSocket thread may answer a repeated one before.
NoOfferLost ==
  \A port \in Ports :
    ~Over => /\ <<"OFFER", port, 0>> \in said =>
                  \/ Queued(port) \/ OfferBit(port) \in bits
                  \/ main.pc = "take_offer" /\ main.port = port
                  \/ port \in lost
             /\ OfferBit(port) \in bits =>
                  \/ <<"RESULT", "OFFER", port>> \in heard
                  \/ main.pc = "ack_offer" /\ main.port = port

\* What the connecting thread does only after it has looked at the flag.
AfterLook == {"await_open", "session", "await_created", "await_joined", "take_offer", "send_offer",
              "probe", "accept", "await_accept", "ack_accept", "establish", "replying"}

\* After a cancel the connecting thread gets past no other look at the flag, although the
\* look that sees it takes it back: a hole is established, or handed on, after a cancel only
\* if the cancel came between the last look and that. Both threads end, whatever they are
\* waiting for.
CancelEndsBoth ==
  /\ [][user = "canceled" /\ main'.pc \in AfterLook => main'.pc = main.pc]_vars
  /\ user = "canceled" ~> Over /\ ws.pc \in {"none", "over"}

\* holepunch.rs:1786 says of Drop, when the last handle is dropped: stop the WebSocket
\* thread.
DropEndsWs == ~held ~> ws.pc \in {"none", "over"}
=============================================================================
