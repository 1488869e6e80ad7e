-------------------------- MODULE StreamConnection --------------------------
(***************************************************************************)
(* StreamConnection (crates/chiaki-core/src/streamconnection.rs) with the  *)
(* thread life of its Takion: the session thread in run(), the Takion      *)
(* receive thread in takion_cb, and stop() from any other thread, around   *)
(* the state mutex and its condition.                                      *)
(*                                                                         *)
(* One action per critical section of the state mutex.  A wait with a      *)
(* timeout may run out whenever its predicate is false.  The console is    *)
(* external; its messages arrive in order (module TakionData).             *)
(***************************************************************************)
EXTENDS Naturals, Sequences, FiniteSets

CONSTANTS MaxMessages,     \* bound: how many messages the console sends
          StopInCallback   \* whether the session's callback calls stop()

ASSUME MaxMessagesAssumption == MaxMessages \in Nat /\ StopInCallback \in BOOLEAN

\* A BANG or STREAMINFO that is accepted, one that is refused, DISCONNECT, others.
Kinds  == {"bang", "badbang", "info", "badinfo", "disconnect", "other"}
States == {"idle", "takion_connect", "expect_bang", "expect_streaminfo"}
Steps  == {"start", "connect", "spawn", "publish", "congestion", "wait_connect",
           "check_connect", "big", "wait_bang", "check_bang", "bang_finished", "switch",
           "early", "info_finished", "wait_info", "check_info", "info_arrived", "feedback",
           "go_idle", "connected", "idle", "stop_feedback", "finish", "result", "teardown", "free",
           "drop", "join", "done"}
Results == {"none", "ok", "canceled", "disconnected", "failed"}
Holders == {"run", "shared", "self", "audio", "congestion", "feedback", "recv"}

VARIABLES
  pc,          \* where run() is
  result,      \* what it will return
  state, state_finished, state_failed, should_stop, remote_disconnected,
  early,       \* streaminfo_early_buf: "none" or the kind of the message
  mutex,       \* who holds the state mutex across steps, or "nobody"
  takion,      \* the receive thread: "none", "handshake", "loop", "dead"
  recv,        \* in the STREAMINFO handler: "no", "header", "clone", "send", "stuck"
  stop_pipe,   \* stop() of the StopPipe was called
  holders,     \* who holds an Arc<Takion>
  closer,      \* the thread that dropped the last one, and so joins
  inbox,       \* messages that arrived, in order
  sentKinds,   \* what the console sent
  asked,       \* BIG was sent
  crypt,       \* set_crypt was called
  ready,       \* STREAMINFO was accepted and answered
  receivers,   \* the receivers exist
  connected    \* SessionEvent::Connected was fired
vars == <<pc, result, state, state_finished, state_failed, should_stop, remote_disconnected,
          early, mutex, takion, recv, stop_pipe, holders, closer, inbox, sentKinds, asked,
          crypt, ready, receivers, connected>>
scState   == <<state, state_finished, state_failed, remote_disconnected, early>>
wire      == <<inbox, sentKinds>>
lifetime  == <<takion, recv, stop_pipe, holders, closer>>
outcome   == <<asked, crypt, ready, receivers, connected>>

TypeOK ==
  /\ pc \in Steps /\ result \in Results
  /\ state \in States /\ state_finished \in BOOLEAN /\ state_failed \in BOOLEAN
  /\ should_stop \in BOOLEAN /\ remote_disconnected \in BOOLEAN /\ stop_pipe \in BOOLEAN
  /\ asked \in BOOLEAN /\ crypt \in BOOLEAN /\ ready \in BOOLEAN
  /\ receivers \in BOOLEAN /\ connected \in BOOLEAN
  /\ early \in {"none", "info", "badinfo"}
  /\ mutex \in {"nobody", "recv"}
  /\ takion \in {"none", "handshake", "loop", "dead"}
  /\ recv \in {"no", "header", "clone", "send", "stuck"}
  /\ holders \subseteq Holders /\ closer \in {"nobody", "run", "recv"}
  /\ inbox \in Seq(Kinds) /\ sentKinds \in Seq(Kinds)

Init ==
  /\ pc = "start" /\ result = "none"
  /\ state = "idle" /\ state_finished = FALSE /\ state_failed = FALSE
  /\ should_stop = FALSE /\ remote_disconnected = FALSE /\ early = "none"
  /\ mutex = "nobody" /\ takion = "none" /\ recv = "no" /\ stop_pipe = FALSE
  /\ holders = {} /\ closer = "nobody" /\ inbox = <<>> /\ sentKinds = <<>>
  /\ asked = FALSE /\ crypt = FALSE /\ ready = FALSE /\ receivers = FALSE /\ connected = FALSE
-----------------------------------------------------------------------------
(* run() on the session thread *)

\* A plausible bug: the predicate forgets a stop.
WokenUnlessStopped == state_finished \/ remote_disconnected

\* The predicate of state_cond_timedwait; state_failed is no part of it.
Woken == state_finished \/ should_stop \/ remote_disconnected

\* A plausible bug: state_finished of the phase before is kept.
EnterStillFinished(s) ==
  /\ state' = s /\ state_failed' = FALSE
  /\ UNCHANGED <<state_finished, remote_disconnected, early>>

\* The next phase, its flags reset, in one critical section.
Enter(s) == /\ state' = s /\ state_finished' = FALSE /\ state_failed' = FALSE
            /\ UNCHANGED <<remote_disconnected, early>>

Go(from, to) == pc = from /\ pc' = to
Give(r)      == result' = r

Start ==
  /\ mutex = "nobody"
  /\ IF should_stop THEN Go("start", "done") /\ Give("canceled") /\ UNCHANGED receivers
     ELSE Go("start", "connect") /\ receivers' = TRUE /\ UNCHANGED result
  /\ UNCHANGED <<scState, should_stop, mutex, lifetime, wire, asked, crypt, ready, connected>>

Connect ==
  /\ mutex = "nobody" /\ Go("connect", "spawn")
  /\ Enter("takion_connect")
  /\ UNCHANGED <<result, should_stop, mutex, lifetime, wire, outcome>>

\* Takion::connect: socket and receive thread.
Spawn ==
  /\ \/ /\ Go("spawn", "publish") /\ UNCHANGED result
        /\ takion' = "handshake" /\ holders' = {"run"}
     \/ /\ Go("spawn", "teardown") /\ Give("failed")
        /\ UNCHANGED <<takion, holders>>
  /\ UNCHANGED <<scState, should_stop, mutex, recv, stop_pipe, closer, wire, outcome>>

Publish ==
  /\ Go("publish", "congestion")
  /\ holders' = holders \cup {"shared", "self", "audio"}
  /\ UNCHANGED <<result, scState, should_stop, mutex, takion, recv, stop_pipe, closer, wire,
                 outcome>>

StartCongestionControl ==
  /\ \/ Go("congestion", "wait_connect") /\ holders' = holders \cup {"congestion"}
        /\ UNCHANGED result
     \/ Go("congestion", "teardown") /\ Give("failed") /\ UNCHANGED holders
  /\ UNCHANGED <<scState, should_stop, mutex, takion, recv, stop_pipe, closer, wire, outcome>>

\* A plausible bug: the waits have no timeout.
WaitForever ==
  /\ mutex = "nobody" /\ Woken
  /\ \E next \in {<<"wait_connect", "check_connect">>, <<"wait_bang", "check_bang">>,
                  <<"wait_info", "check_info">>} : Go(next[1], next[2])
  /\ Give("none")
  /\ UNCHANGED <<scState, should_stop, mutex, lifetime, wire, outcome>>

\* The three waits, with the outcome of the wait kept in result until it is used.
Wait ==
  /\ mutex = "nobody"
  /\ \/ Go("wait_connect", "check_connect")
     \/ Go("wait_bang", "check_bang")
     \/ Go("wait_info", "check_info")
  /\ Give(IF Woken THEN "none" ELSE "failed")
  /\ UNCHANGED <<scState, should_stop, mutex, lifetime, wire, outcome>>

\* CHECK_STOP(close_takion), then the outcome of the wait.
CheckConnect ==
  /\ mutex = "nobody"
  /\ IF should_stop THEN Go("check_connect", "teardown") /\ Give("ok")
     ELSE IF result = "failed" THEN Go("check_connect", "teardown") /\ UNCHANGED result
     ELSE Go("check_connect", "big") /\ UNCHANGED result
  /\ IF pc' = "big" THEN Enter("expect_bang") ELSE UNCHANGED scState
  /\ UNCHANGED <<should_stop, mutex, lifetime, wire, outcome>>

SendBig ==
  /\ \/ Go("big", "wait_bang") /\ asked' = TRUE /\ UNCHANGED result
     \/ Go("big", "finish") /\ Give("failed") /\ UNCHANGED asked
  /\ UNCHANGED <<scState, should_stop, mutex, lifetime, wire, crypt, ready, receivers, connected>>

\* CHECK_STOP(disconnect); a timeout is only logged here.
CheckStop ==
  /\ mutex = "nobody"
  /\ \E next \in {<<"check_bang", "bang_finished">>, <<"check_info", "info_arrived">>} :
       IF should_stop THEN Go(next[1], "finish") /\ Give("canceled")
       ELSE Go(next[1], next[2]) /\ Give("none")
  /\ UNCHANGED <<scState, should_stop, mutex, lifetime, wire, outcome>>

\* if !state_finished: three places that look at it again, under the lock.
Finished(from, to, otherwise, r) ==
  IF state_finished THEN Go(from, to) /\ UNCHANGED result
  ELSE Go(from, otherwise) /\ Give(r)

CheckFinished ==
  /\ mutex = "nobody"
  /\ \/ Finished("bang_finished", "switch", "finish", "failed")
     \/ Finished("info_finished", "feedback", "wait_info", "none")
     \/ Finished("info_arrived", "feedback", "finish", "failed")
  /\ UNCHANGED <<scState, should_stop, mutex, lifetime, wire, outcome>>

\* Next state, and streaminfo_early_buf.take() in the same critical section.
SwitchToStreaminfo ==
  /\ mutex = "nobody"
  /\ Go("switch", IF early = "none" THEN "info_finished" ELSE "early")
  /\ state' = "expect_streaminfo" /\ state_finished' = FALSE /\ state_failed' = FALSE
  /\ result' = "none"
  /\ UNCHANGED <<remote_disconnected, early, should_stop, mutex, lifetime, wire, outcome>>

\* The handler on the session thread; the mutex keeps everybody else out.
ProcessEarly ==
  /\ mutex = "nobody" /\ Go("early", "info_finished")
  /\ early' = "none"
  /\ \/ /\ early = "info" /\ state_finished' = TRUE /\ ready' = TRUE /\ UNCHANGED state_failed
     \/ /\ state_failed' = TRUE /\ UNCHANGED <<state_finished, ready>>
  /\ UNCHANGED <<result, state, remote_disconnected, should_stop, mutex, lifetime, wire,
                 asked, crypt, receivers, connected>>

StartFeedback ==
  /\ \/ Go("feedback", "go_idle") /\ holders' = holders \cup {"feedback"} /\ UNCHANGED result
     \/ Go("feedback", "finish") /\ Give("failed") /\ UNCHANGED holders
  /\ UNCHANGED <<scState, should_stop, mutex, takion, recv, stop_pipe, closer, wire, outcome>>

GoIdle ==
  /\ mutex = "nobody" /\ Go("go_idle", "connected")
  /\ Enter("idle")
  /\ UNCHANGED <<result, should_stop, mutex, lifetime, wire, outcome>>

FireConnected ==
  /\ Go("connected", "idle")
  /\ connected' = TRUE
  /\ UNCHANGED <<result, scState, should_stop, mutex, lifetime, wire, asked, crypt, ready, receivers>>

\* A timeout only sends a heartbeat.
LeaveIdle ==
  /\ mutex = "nobody" /\ Woken /\ Go("idle", "stop_feedback") /\ Give("ok")
  /\ UNCHANGED <<scState, should_stop, mutex, lifetime, wire, outcome>>

StopFeedback ==
  /\ Go("stop_feedback", "finish")
  /\ holders' = holders \ {"feedback"}
  /\ UNCHANGED <<result, scState, should_stop, mutex, takion, recv, stop_pipe, closer, wire,
                 outcome>>

\* The first one, and the message to the console.
ForgetEarly ==
  /\ mutex = "nobody" /\ Go("finish", "result")
  /\ early' = "none"
  /\ UNCHANGED <<result, state, state_finished, state_failed, remote_disconnected, should_stop,
                 mutex, lifetime, wire, outcome>>

\* finish_disconnect, after its first critical section.
Finish ==
  /\ mutex = "nobody" /\ Go("result", "teardown")
  /\ Give(IF should_stop THEN "canceled"
          ELSE IF remote_disconnected THEN "disconnected" ELSE result)
  /\ UNCHANGED <<scState, should_stop, mutex, lifetime, wire, outcome>>

\* teardown up to the receivers.  Arc::into_inner finds the Arc of run itself, so
\* that nothing is closed here.
Teardown ==
  /\ Go("teardown", "free")
  /\ holders' = holders \ {"congestion", "shared", "self", "audio"}
  /\ UNCHANGED <<result, scState, should_stop, mutex, takion, recv, stop_pipe, closer, wire,
                 outcome>>

\* A plausible bug: the receivers are freed without the state mutex.
FreeUnlocked ==
  /\ Go("free", "drop")
  /\ receivers' = FALSE
  /\ UNCHANGED <<result, scState, should_stop, mutex, lifetime, wire, asked, crypt, ready,
                 connected>>

\* The end of teardown, under the state mutex.
FreeReceivers ==
  /\ mutex = "nobody" /\ Go("free", "drop")
  /\ receivers' = FALSE
  /\ UNCHANGED <<result, scState, should_stop, mutex, lifetime, wire, asked, crypt, ready,
                 connected>>

\* run's own Arc goes; whoever drops the last one closes: stop pipe, then join.
DropRun ==
  /\ pc = "drop"
  /\ holders' = holders \ {"run"}
  /\ IF holders = {"run"}
     THEN pc' = "join" /\ closer' = "run" /\ stop_pipe' = TRUE
     ELSE pc' = "done" /\ UNCHANGED <<closer, stop_pipe>>
  /\ UNCHANGED <<result, scState, should_stop, mutex, takion, recv, wire, outcome>>

Join ==
  /\ takion = "dead" /\ Go("join", "done")
  /\ UNCHANGED <<result, scState, should_stop, mutex, lifetime, wire, outcome>>

Run == \/ Start \/ Connect \/ Spawn \/ Publish \/ StartCongestionControl \/ Wait
       \/ CheckConnect \/ SendBig \/ CheckStop \/ CheckFinished \/ SwitchToStreaminfo
       \/ ProcessEarly \/ StartFeedback \/ GoIdle \/ FireConnected \/ LeaveIdle
       \/ StopFeedback \/ ForgetEarly \/ Finish \/ Teardown \/ FreeReceivers \/ DropRun \/ Join
-----------------------------------------------------------------------------
(* stop(), the console and the receive thread *)

Stop ==
  /\ mutex = "nobody" /\ ~should_stop
  /\ should_stop' = TRUE
  /\ UNCHANGED <<pc, result, scState, mutex, lifetime, wire, outcome>>

\* It answers the BIG with a BANG and that with a STREAMINFO, and may disconnect.
ConsoleSend(k) ==
  /\ takion = "loop" /\ Len(sentKinds) < MaxMessages
  /\ k \in {"bang", "badbang"} => asked
  /\ k \in {"info", "badinfo"} => \E i \in DOMAIN sentKinds : sentKinds[i] = "bang"
  /\ inbox' = Append(inbox, k)
  /\ sentKinds' = Append(sentKinds, k)
  /\ UNCHANGED <<pc, result, scState, should_stop, mutex, lifetime, outcome>>

HandshakeDone ==
  /\ takion = "handshake" /\ mutex = "nobody"
  /\ takion' = "loop"
  /\ IF state = "takion_connect"
     THEN state_finished' = TRUE /\ state_failed' = FALSE
     ELSE UNCHANGED <<state_finished, state_failed>>
  /\ UNCHANGED <<pc, result, state, remote_disconnected, early, should_stop, mutex, recv,
                 stop_pipe, holders, closer, wire, outcome>>

\* No event tells of it.
HandshakeFails ==
  /\ takion = "handshake"
  /\ takion' = "dead"
  /\ UNCHANGED <<pc, result, scState, should_stop, mutex, recv, stop_pipe, holders, closer,
                 wire, outcome>>

\* The loop ends on the stop pipe or on a socket error and fires Disconnect, which
\* counts in the first state only.
LoopEnds ==
  /\ takion = "loop" /\ recv = "no" /\ mutex = "nobody"
  /\ takion' = "dead"
  /\ IF state = "takion_connect"
     THEN state_finished' = FALSE /\ state_failed' = TRUE
     ELSE UNCHANGED <<state_finished, state_failed>>
  /\ UNCHANGED <<pc, result, state, remote_disconnected, early, should_stop, mutex, recv,
                 stop_pipe, holders, closer, wire, outcome>>

\* The next message, for the handler of the state it meets.
Receive(k, in) ==
  /\ takion = "loop" /\ recv = "no" /\ mutex = "nobody"
  /\ inbox # <<>> /\ Head(inbox) = k /\ state \in in
  /\ inbox' = Tail(inbox)
  /\ UNCHANGED <<pc, result, should_stop, sentKinds, takion, stop_pipe, holders, closer,
                 asked, receivers, connected>>

\* DISCONNECT is heard in every state.
ReceiveDisconnect ==
  /\ Receive("disconnect", States)
  /\ remote_disconnected' = TRUE
  /\ UNCHANGED <<state, state_finished, state_failed, early, mutex, recv, crypt, ready>>

\* stream_connection_takion_data_expect_bang
ReceiveBang ==
  /\ Receive("bang", {"expect_bang"})
  /\ \/ /\ state_finished' = TRUE /\ UNCHANGED state_failed
        /\ crypt' = IF "shared" \in holders THEN TRUE ELSE crypt
     \/ /\ state_failed' = TRUE /\ UNCHANGED <<state_finished, crypt>>
  /\ UNCHANGED <<state, remote_disconnected, early, mutex, recv, ready>>

ReceiveBadBang ==
  /\ Receive("badbang", {"expect_bang"})
  /\ state_failed' = TRUE
  /\ UNCHANGED <<state, state_finished, remote_disconnected, early, mutex, recv, crypt, ready>>

\* A STREAMINFO that overtakes the switch to its state is kept, the first one.
ReceiveEarly ==
  /\ \E k \in {"info", "badinfo"} :
       /\ Receive(k, {"expect_bang"})
       /\ early' = IF early = "none" THEN k ELSE early
  /\ UNCHANGED <<state, state_finished, state_failed, remote_disconnected, mutex, recv, crypt,
                 ready>>

\* stream_connection_takion_data_expect_streaminfo: the audio header goes to the
\* session's callback while the state mutex is held.
ReceiveInfo ==
  /\ Receive("info", {"expect_streaminfo"})
  /\ mutex' = "recv" /\ recv' = "header"
  /\ UNCHANGED <<scState, crypt, ready>>

ReceiveBadInfo ==
  /\ Receive("badinfo", {"expect_streaminfo"})
  /\ state_failed' = TRUE
  /\ UNCHANGED <<state, state_finished, remote_disconnected, early, mutex, recv, crypt, ready>>

\* Everything else is read and forgotten.
ReceiveIgnored ==
  /\ \/ Receive("other", States)
     \/ \E k \in {"bang", "badbang"} : Receive(k, States \ {"expect_bang"})
     \/ \E k \in {"info", "badinfo"} : Receive(k, {"idle", "takion_connect"})
  /\ UNCHANGED <<scState, mutex, recv, crypt, ready>>

\* stop() in the callback waits for the mutex that is held here.
HeaderCallback ==
  /\ recv = "header"
  /\ recv' = IF StopInCallback THEN "stuck" ELSE "clone"
  /\ UNCHANGED <<pc, result, scState, should_stop, mutex, takion, stop_pipe, holders, closer,
                 wire, outcome>>

\* let takion = lock(&shared.takion).clone()
CloneTakion ==
  /\ recv = "clone"
  /\ recv' = "send"
  /\ holders' = IF "shared" \in holders THEN holders \cup {"recv"} ELSE holders
  /\ UNCHANGED <<pc, result, scState, should_stop, mutex, takion, stop_pipe, closer, wire, outcome>>

\* The three answers, then the handler's own Arc and the mutex go.
AnswerInfo ==
  /\ recv = "send"
  /\ \/ /\ "recv" \in holders /\ state_finished' = TRUE /\ ready' = TRUE /\ UNCHANGED state_failed
     \/ /\ state_failed' = TRUE /\ UNCHANGED <<state_finished, ready>>
  /\ recv' = "no" /\ mutex' = "nobody"
  /\ holders' = holders \ {"recv"}
  /\ closer' = IF holders = {"recv"} THEN "recv" ELSE closer
  /\ UNCHANGED <<pc, result, state, remote_disconnected, early, should_stop, takion,
                 stop_pipe, wire, asked, crypt, receivers, connected>>

Handlers == \/ ReceiveDisconnect \/ ReceiveBang \/ ReceiveBadBang \/ ReceiveEarly
            \/ ReceiveInfo \/ ReceiveBadInfo \/ ReceiveIgnored
            \/ HeaderCallback \/ CloneTakion \/ AnswerInfo

Next == \/ Run \/ Stop \/ \E k \in Kinds : ConsoleSend(k)
        \/ HandshakeDone \/ HandshakeFails \/ LoopEnds \/ Handlers

\* The session thread runs and its waits time out; the receive thread handles
\* what arrived and ends when it is told to.
Fairness == /\ WF_vars(Run) /\ WF_vars(Handlers)
            /\ WF_vars(stop_pipe /\ (HandshakeFails \/ LoopEnds))

Spec == Init /\ [][Next]_vars /\ Fairness
-----------------------------------------------------------------------------
\* The session is told it is connected only when the keys are installed and the
\* STREAMINFO was accepted and answered, and both before the feedback starts:
\* no stale state_finished of an earlier phase lets run() pass a wait.
ConnectedMeansReady ==
  /\ connected => crypt /\ ready
  /\ pc = "feedback" => crypt /\ ready
  /\ pc = "switch" => crypt

\* What run() returns is true: it was stopped, or the console disconnected, and
\* it claims a plain success only for a stop during the connect.
ResultHonest ==
  pc = "done" => /\ result \in {"ok", "canceled"} => should_stop
                 /\ result = "disconnected" => remote_disconnected
                 /\ result # "none"

\* When run() is done the receive thread is, too, and no callback comes after it;
\* the thread never ends up joining itself by dropping the last Arc<Takion>.
JoinedByRun == /\ closer # "recv"
               /\ pc = "done" => takion \in {"none", "dead"} /\ holders = {} /\ ~receivers

\* run() ends after a stop and after the console's DISCONNECT, wherever it is.
StopEnds == should_stop \/ remote_disconnected ~> pc = "done"

\* The handshake does not wait for ever for a console that is silent or refuses.
ConnectsOrFails == <>(pc \in {"idle", "done"})

\* "Kann aus jedem Thread gerufen werden": stop() comes back, from a callback, too.
StopFromAnyThread == recv # "stuck"
=============================================================================
