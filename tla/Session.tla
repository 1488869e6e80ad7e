------------------------------ MODULE Session ------------------------------
(***************************************************************************)
(* Session (crates/chiaki-core/src/session.rs) with its Ctrl (ctrl.rs):    *)
(* the session thread going through its phases, the ctrl thread with its   *)
(* connection to the console, and the application, which stops the session *)
(* and enters PINs from its own threads.                                   *)
(*                                                                         *)
(* One action per critical section of the state mutex; a timed wait may    *)
(* end at any time.  Senkusha and StreamConnection::run are one step each  *)
(* (module StreamConnection opens the second one).                         *)
(***************************************************************************)
EXTENDS Naturals, Sequences

CONSTANT MaxMessages   \* bound: how many ctrl messages the console sends

ASSUME MaxMessagesAssumption == MaxMessages \in Nat

\* QuitReason, the ones of one cause taken together: no reason, Stopped, those of the
\* session request and the registration, of Ctrl, of the stream, and the shutdown.
Reasons == {"none", "stopped", "request", "ctrl", "stream", "shutdown"}
Steps == {"start", "regist", "request", "create", "wait_ctrl", "check_ctrl", "ctrl_ok",
          "pin_check", "pin_ask", "pin_wait", "pin_woken", "pin_take", "pin_forward",
          "wait_login", "check_login", "punch", "wait_punched", "check_punched", "sid_check",
          "fallback", "fallback_emit", "fallback_write", "senkusha", "senkusha_stop",
          "senkusha_ctrl", "switch", "wait_switch", "check_switch", "stream", "blame",
          "stop_ctrl", "take_ctrl", "join", "quit", "done"}
CtrlSteps == {"none", "connect", "failed", "frames", "sid_emit", "sid_write", "drain", "pin",
              "check", "recv", "dead"}

VARIABLES
  path,       \* "lan", or over the internet: "psn", "psn_auto" (auto_regist)
  pc,         \* where the session thread is
  attempt,    \* the session requests made
  should_stop, ctrl_failed, ctrl_session_id_received, ctrl_login_pin_requested,
  stream_connection_switch_received, quit_reason,
  login_pin,  \* login_pin and login_pin_entered: the prompt it answers, 0 for none
  pin,        \* the PIN the session thread took
  session_id, \* "none", "console" or "fallback"
  handle,     \* whether the Arc<Mutex<Option<Ctrl>>> holds the Ctrl
  ctrl,       \* where the ctrl thread is
  offered,    \* the session id it is handling
  ctrl_stop, session_id_received, login_pin_requested,   \* Ctrl's own
  mailbox,    \* Ctrl's login_pin
  received,   \* how many messages it handled
  asks,       \* how many of them asked for a PIN
  pins,       \* the PINs the console got
  stopping,   \* how far stop() is: "no", "flag", "done"
  prompts, answered,   \* LoginPinRequest events, and how many the user answered
  quit,       \* the reason in the Quit event, "no" before it
  told,       \* check_stop saw the stop
  bed         \* goto_bed: "no", "queued" for the ctrl thread, "sent", "lost", "refused"
shared  == <<should_stop, ctrl_failed, ctrl_session_id_received, ctrl_login_pin_requested,
             stream_connection_switch_received, quit_reason, login_pin>>
ctrlOwn == <<ctrl, offered, login_pin_requested, received, asks>>
mail    == <<mailbox, pins>>
app     == <<stopping, prompts, answered, bed>>
thread  == <<pc, attempt, pin, handle, quit, told>>
vars == <<path, thread, shared, session_id, ctrlOwn, ctrl_stop, session_id_received, mail, app>>

TypeOK ==
  /\ path \in {"lan", "psn", "psn_auto"} /\ pc \in Steps /\ attempt \in 1..3
  /\ should_stop \in BOOLEAN /\ ctrl_failed \in BOOLEAN /\ ctrl_stop \in BOOLEAN
  /\ ctrl_session_id_received \in BOOLEAN /\ ctrl_login_pin_requested \in BOOLEAN
  /\ stream_connection_switch_received \in BOOLEAN /\ session_id_received \in BOOLEAN
  /\ login_pin_requested \in BOOLEAN /\ handle \in BOOLEAN /\ told \in BOOLEAN
  /\ quit_reason \in Reasons /\ quit \in Reasons \cup {"no"}
  /\ session_id \in {"none", "console", "fallback"} /\ offered \in {"console", "fallback"}
  /\ ctrl \in CtrlSteps /\ received \in 0..MaxMessages /\ asks \in 0..received
  /\ prompts \in 0..MaxMessages /\ login_pin \in 0..prompts /\ pin \in 0..prompts
  /\ mailbox \in 0..prompts /\ answered \in 0..prompts
  /\ pins \in Seq(1..prompts) /\ stopping \in {"no", "flag", "done"}
  /\ bed \in {"no", "queued", "sent", "lost", "refused"}

Init ==
  /\ path \in {"lan", "psn", "psn_auto"} /\ pc = "start" /\ attempt = 1
  /\ should_stop = FALSE /\ ctrl_failed = FALSE /\ ctrl_session_id_received = FALSE
  /\ ctrl_login_pin_requested = FALSE /\ stream_connection_switch_received = FALSE
  /\ quit_reason = "none" /\ login_pin = 0 /\ pin = 0 /\ session_id = "none"
  /\ handle = FALSE /\ ctrl = "none" /\ offered = "console" /\ ctrl_stop = FALSE
  /\ session_id_received = FALSE /\ login_pin_requested = FALSE /\ mailbox = 0
  /\ received = 0 /\ asks = 0 /\ pins = <<>> /\ stopping = "no"
  /\ prompts = 0 /\ answered = 0 /\ quit = "no" /\ told = FALSE /\ bed = "no"
-----------------------------------------------------------------------------
(* The session thread *)

Go(from, to) == pc = from /\ pc' = to
Because(r)   == quit_reason' = r
Stays == <<path, session_id, ctrlOwn, ctrl_stop, session_id_received, mail, app>>
Flags == <<should_stop, ctrl_failed, ctrl_session_id_received, ctrl_login_pin_requested,
           stream_connection_switch_received, login_pin>>

\* A step that moves on and at most gives a reason.
Step(from, to, r) == /\ Go(from, to) /\ Because(r)
                     /\ UNCHANGED <<Stays, Flags, attempt, pin, handle, quit, told>>

Start ==
  IF should_stop THEN Step("start", "quit", "stopped")
  ELSE Step("start", IF path = "lan" THEN "request" ELSE "regist", quit_reason)

\* The registration over PSN, synchronous here.
RegistOk ==
  /\ IF path = "psn_auto" THEN Go("regist", "quit") /\ Because("stopped")
     ELSE Go("regist", "request") /\ UNCHANGED quit_reason
  /\ UNCHANGED <<Stays, Flags, attempt, pin, handle, quit, told>>

RegistFails ==
  /\ Go("regist", "quit") /\ Because("request") /\ should_stop' = TRUE
  /\ UNCHANGED <<Stays, ctrl_failed, ctrl_session_id_received, ctrl_login_pin_requested,
                 stream_connection_switch_received, login_pin, attempt, pin, handle, quit, told>>

\* What connecting leaves as the reason: an address that failed before the one that
\* answered has left its own.
Connected == IF path = "lan" THEN {quit_reason, "request", "none"} ELSE {quit_reason}

RequestOk ==
  \E r \in Connected :
    /\ Go("request", "create") /\ Because(r) /\ attempt' = 1
    /\ UNCHANGED <<Stays, Flags, pin, handle, quit, told>>

\* The console wants another RP-Version: once more with its own, and at last with the
\* one reported before, even if the second answer was not understood.
RequestMismatch ==
  /\ attempt < 3 /\ pc = "request"
  /\ \E r \in Connected \cup {"request"} :
       /\ Because(r) /\ attempt' = attempt + 1
       /\ IF r = "request" /\ attempt = 1 THEN pc' \in {"request", "quit"} ELSE UNCHANGED pc
  /\ UNCHANGED <<Stays, Flags, pin, handle, quit, told>>

RequestFails ==
  \E r \in {"request"} \cup (IF path = "lan" THEN {} ELSE {quit_reason}) :
    Step("request", "quit", r)

RequestCanceled == stopping = "done" /\ Step("request", "quit", "stopped")

\* The Ctrl is made and started; or it is not made, or its thread is refused.
Create ==
  /\ pc = "create"
  /\ \/ ctrl' = "connect" /\ pc' = "wait_ctrl" /\ handle' = TRUE
     \/ ctrl' = ctrl /\ pc' = "quit" /\ handle' \in BOOLEAN
  /\ UNCHANGED <<shared, path, session_id, offered, login_pin_requested, received, asks,
                 ctrl_stop, session_id_received, mail, app, attempt, pin, quit, told>>

\* wait_state_timeout with a time limit.
Wait ==
  \E w \in {<<"wait_ctrl", "check_ctrl">>, <<"wait_login", "check_login">>,
            <<"wait_punched", "check_punched">>, <<"wait_switch", "check_switch">>} :
    Step(w[1], w[2], quit_reason)

\* check_stop and what its caller does with the answer.
CheckStop ==
  \E c \in {<<"check_ctrl", "ctrl_ok">>, <<"check_login", "pin_check">>,
            <<"check_punched", "sid_check">>} :
    /\ IF should_stop THEN Go(c[1], "stop_ctrl") /\ Because("stopped")
       ELSE Go(c[1], c[2]) /\ UNCHANGED quit_reason
    /\ told' = (told \/ should_stop)
    /\ UNCHANGED <<Stays, Flags, attempt, pin, handle, quit>>

CtrlOk == Step("ctrl_ok", IF ctrl_failed THEN "blame" ELSE "pin_check", quit_reason)

\* The head of the PIN loop; after it, the second connection over PSN.
PinCheck ==
  Step("pin_check", IF ctrl_login_pin_requested THEN "pin_ask"
                    ELSE IF path = "lan" THEN "sid_check" ELSE "punch", quit_reason)

PinAsk ==
  /\ Go("pin_ask", "pin_wait")
  /\ ctrl_login_pin_requested' = FALSE /\ prompts' = prompts + 1
  /\ UNCHANGED <<path, session_id, ctrlOwn, ctrl_stop, session_id_received, mail, should_stop,
                 ctrl_failed, ctrl_session_id_received, stream_connection_switch_received,
                 quit_reason, login_pin, stopping, answered, bed, attempt, pin, handle, quit,
                 told>>

\* Plausible bugs: the wait without a time limit misses a stop, or a dead ctrl.
PinWaitUnlessStopped == (login_pin # 0 \/ ctrl_failed) /\ Step("pin_wait", "pin_woken", quit_reason)
PinWaitUnlessFailed  == (login_pin # 0 \/ should_stop) /\ Step("pin_wait", "pin_woken", quit_reason)

PinWait ==
  (login_pin # 0 \/ should_stop \/ ctrl_failed) /\ Step("pin_wait", "pin_woken", quit_reason)

PinWoken ==
  Step("pin_woken", IF should_stop THEN "stop_ctrl" ELSE IF ctrl_failed THEN "blame"
                    ELSE "pin_take", quit_reason)

\* A plausible bug: the PIN stays where it is.
PinTakeCopy ==
  /\ Go("pin_take", IF login_pin = 0 THEN "blame" ELSE "pin_forward")
  /\ pin' = login_pin
  /\ UNCHANGED <<Stays, shared, attempt, handle, quit, told>>

PinTake ==
  /\ Go("pin_take", IF login_pin = 0 THEN "blame" ELSE "pin_forward")
  /\ pin' = login_pin /\ login_pin' = 0
  /\ UNCHANGED <<Stays, should_stop, ctrl_failed, ctrl_session_id_received,
                 ctrl_login_pin_requested, stream_connection_switch_received, quit_reason,
                 attempt, handle, quit, told>>

\* Ctrl::set_login_pin
PinForward ==
  /\ Go("pin_forward", "wait_login")
  /\ mailbox' = pin /\ pin' = 0
  /\ UNCHANGED <<shared, path, session_id, ctrlOwn, ctrl_stop, session_id_received, pins,
                 app, attempt, handle, quit, told>>

Punch == \E to \in {"stop_ctrl", "wait_punched"} : Step("punch", to, quit_reason)

SidCheck == Step("sid_check", IF ctrl_session_id_received THEN "senkusha" ELSE "fallback", quit_reason)

\* Ctrl::set_fallback_session_id reads its flag ...
Fallback == Step("fallback", IF session_id_received THEN "blame" ELSE "fallback_emit", quit_reason)

\* ... sets it and reports the id, which is ignored when there is one ...
FallbackEmit ==
  /\ Go("fallback_emit", "fallback_write")
  /\ session_id_received' = TRUE /\ ctrl_session_id_received' = TRUE
  /\ session_id' = IF ctrl_session_id_received THEN session_id ELSE "fallback"
  /\ UNCHANGED <<path, ctrlOwn, ctrl_stop, mail, app, should_stop, ctrl_failed,
                 ctrl_login_pin_requested, stream_connection_switch_received, quit_reason,
                 login_pin, attempt, pin, handle, quit, told>>

\* ... and the session thread writes it once more and has the features enabled,
\* which fails when the ctrl thread is gone.
FallbackWrite ==
  /\ Go("fallback_write", IF ctrl = "dead" THEN "blame" ELSE "senkusha")
  /\ session_id' = "fallback"
  /\ UNCHANGED <<shared, path, ctrlOwn, ctrl_stop, session_id_received, mail, app,
                 attempt, pin, handle, quit, told>>

\* Senkusha does not hear of a stop; what it measures, or that it failed, does not
\* matter here.
Senkusha     == Step("senkusha", "senkusha_stop", quit_reason)
SenkushaStop == Step("senkusha_stop", IF should_stop THEN "stop_ctrl" ELSE "senkusha_ctrl", quit_reason)

SenkushaCtrl ==
  Step("senkusha_ctrl", IF ctrl_failed THEN "stop_ctrl"
                        ELSE IF path = "lan" THEN "stream" ELSE "switch", quit_reason)

Switch == \E to \in {"stop_ctrl", "wait_switch"} : Step("switch", to, quit_reason)

CheckSwitch ==
  Step("check_switch", IF stream_connection_switch_received /\ ~should_stop THEN "stream"
                       ELSE "stop_ctrl", quit_reason)

\* StreamConnection::run returns: after stop() it always does, with Canceled.
StreamStopped == stopping = "done" /\ Step("stream", "stop_ctrl", "stopped")

StreamEnds == \E r \in {"shutdown", "stream"} : Step("stream", "stop_ctrl", r)

\* ctrl_failed(): a reason if nobody gave one.
Blame == Step("blame", "stop_ctrl", IF quit_reason = "none" THEN "ctrl" ELSE quit_reason)

\* stop_and_join_ctrl
StopCtrl ==
  /\ Go("stop_ctrl", "take_ctrl") /\ ctrl_stop' = TRUE
  /\ UNCHANGED <<shared, path, session_id, ctrlOwn, session_id_received, mail, app, attempt,
                 pin, handle, quit, told>>

TakeCtrl ==
  /\ Go("take_ctrl", "join") /\ handle' = FALSE
  /\ UNCHANGED <<Stays, shared, attempt, pin, quit, told>>

\* A plausible bug: the thread is told to stop, and not joined.
JoinNever == Step("join", "quit", quit_reason)

Join == ctrl = "dead" /\ Step("join", "quit", quit_reason)

QuitEvent ==
  /\ Go("quit", "done") /\ quit' = quit_reason
  /\ UNCHANGED <<Stays, shared, attempt, pin, handle, told>>

SessionThread ==
  \/ Start \/ RegistOk \/ RegistFails \/ RequestOk \/ RequestMismatch \/ RequestFails
  \/ RequestCanceled \/ Create \/ Wait \/ CheckStop \/ CtrlOk \/ PinCheck \/ PinAsk \/ PinWait
  \/ PinWoken \/ PinTake \/ PinForward \/ Punch \/ SidCheck \/ Fallback \/ FallbackEmit
  \/ FallbackWrite \/ Senkusha \/ SenkushaStop \/ SenkushaCtrl \/ Switch \/ CheckSwitch
  \/ StreamStopped \/ Blame \/ StopCtrl \/ TakeCtrl \/ Join \/ QuitEvent
-----------------------------------------------------------------------------
(* The ctrl thread *)

CtrlGo(from, to) == ctrl = from /\ ctrl' = to
CtrlStays == <<path, thread, ctrl_stop, app>>

\* make_ctrl_event_cb for CtrlEvent::Quit
Fail(r) == /\ quit_reason' = r /\ ctrl_failed' = TRUE
           /\ UNCHANGED <<should_stop, ctrl_session_id_received, ctrl_login_pin_requested,
                          stream_connection_switch_received, login_pin>>
CtrlQuiet == UNCHANGED <<CtrlStays, session_id, offered, login_pin_requested, received, asks,
                         session_id_received, mail>>

\* connect_and_handshake; a stop makes it fail, too, with the reason of a failure.
CtrlConnects == CtrlGo("connect", "frames") /\ UNCHANGED shared /\ CtrlQuiet
CtrlRefused ==
  /\ CtrlGo("connect", "failed") /\ CtrlQuiet
  /\ \/ path = "lan" /\ Fail("ctrl")
     \/ UNCHANGED shared
CtrlFailed == CtrlGo("failed", "dead") /\ CtrlQuiet /\ Fail("ctrl")

\* One message of the console.
Frame == /\ ctrl \in {"recv", "frames"} /\ received < MaxMessages /\ received' = received + 1
         /\ UNCHANGED <<CtrlStays, session_id, session_id_received, mail>>

\* An id that does not pass validation is replaced.
FrameSessionId ==
  /\ Frame
  /\ \E id \in {"console", "fallback"} :
       IF session_id_received THEN ctrl' = "frames" /\ UNCHANGED offered
       ELSE ctrl' = "sid_emit" /\ offered' = id
  /\ UNCHANGED <<shared, login_pin_requested, asks>>

SidEmit ==
  /\ CtrlGo("sid_emit", IF ctrl_session_id_received THEN "frames" ELSE "sid_write")
  /\ session_id_received' = TRUE /\ ctrl_session_id_received' = TRUE
  /\ UNCHANGED <<CtrlStays, session_id, offered, login_pin_requested, received, asks, mail,
                 should_stop, ctrl_failed, ctrl_login_pin_requested,
                 stream_connection_switch_received, quit_reason, login_pin>>

\* The id is stored after its flag, outside the state mutex.
SidWrite ==
  /\ CtrlGo("sid_write", "frames")
  /\ session_id' = offered /\ offered' = "console"
  /\ UNCHANGED <<CtrlStays, shared, login_pin_requested, received, asks,
                 session_id_received, mail>>

\* make_ctrl_event_cb for CtrlEvent::LoginPinRequested
LoginPinRequested ==
  IF ctrl_session_id_received THEN Fail("ctrl") /\ UNCHANGED asks
  ELSE /\ ctrl_login_pin_requested' = TRUE /\ asks' = asks + 1
       /\ UNCHANGED <<should_stop, ctrl_failed, ctrl_session_id_received,
                      stream_connection_switch_received, quit_reason, login_pin>>

FrameLoginPinReq ==
  /\ Frame /\ ctrl' = "frames" /\ login_pin_requested' = TRUE
  /\ IF session_id_received THEN Fail("ctrl") /\ UNCHANGED asks ELSE LoginPinRequested
  /\ UNCHANGED offered

FrameLogin ==
  /\ Frame /\ ctrl' = "frames" /\ UNCHANGED offered
  /\ \/ login_pin_requested' = FALSE /\ UNCHANGED <<shared, asks>>
     \/ login_pin_requested /\ LoginPinRequested /\ UNCHANGED login_pin_requested

FrameSwitch ==
  /\ Frame /\ ctrl' = "frames"
  /\ stream_connection_switch_received' = TRUE
  /\ UNCHANGED <<offered, login_pin_requested, asks, should_stop, ctrl_failed, quit_reason,
                 ctrl_session_id_received, ctrl_login_pin_requested, login_pin>>

FrameOverflow == CtrlGo("frames", "dead") /\ Fail("ctrl") /\ CtrlQuiet
FramesDone    == CtrlGo("frames", "drain") /\ UNCHANGED shared /\ CtrlQuiet

\* A send may fail, and nobody looks at the result.  send_fully gives up at once when
\* the stop pipe is set; RUDP does not look at it.
Sends == path # "lan" \/ ~ctrl_stop

Drain ==
  /\ CtrlGo("drain", "pin")
  /\ bed' \in IF bed # "queued" THEN {bed} ELSE IF Sends THEN {"sent", "lost"} ELSE {"lost"}
  /\ UNCHANGED <<path, thread, ctrl_stop, shared, session_id, offered, login_pin_requested,
                 received, asks, session_id_received, mail, stopping, prompts, answered>>

CtrlPin ==
  /\ CtrlGo("pin", IF mailbox = 0 THEN "check" ELSE "frames")
  /\ mailbox' = 0
  /\ pins' \in {pins} \cup (IF mailbox # 0 /\ Sends THEN {Append(pins, mailbox)} ELSE {})
  /\ UNCHANGED <<CtrlStays, shared, session_id, offered, login_pin_requested, received, asks,
                 session_id_received>>

CtrlCheck == CtrlGo("check", IF ctrl_stop THEN "dead" ELSE "recv") /\ UNCHANGED shared /\ CtrlQuiet

\* Nothing came in RECV_POLL, the console closed, or the receive failed.
RecvNothing == CtrlGo("recv", "frames") /\ UNCHANGED shared /\ CtrlQuiet
RecvEof     == path = "lan" /\ CtrlGo("recv", "dead") /\ UNCHANGED shared /\ CtrlQuiet
RecvFails   == CtrlGo("recv", "dead") /\ Fail("ctrl") /\ CtrlQuiet
RecvFinish  == path # "lan" /\ CtrlGo("recv", "frames") /\ Fail("ctrl") /\ CtrlQuiet

CtrlThread ==
  \/ CtrlConnects \/ CtrlRefused \/ CtrlFailed \/ FrameSessionId \/ SidEmit \/ SidWrite
  \/ FrameLoginPinReq \/ FrameLogin \/ FrameSwitch \/ FrameOverflow \/ FramesDone \/ Drain
  \/ CtrlPin \/ CtrlCheck \/ RecvNothing \/ RecvEof \/ RecvFails \/ RecvFinish
-----------------------------------------------------------------------------
(* The application *)

AppStays == <<path, thread, session_id, ctrlOwn, ctrl_stop, session_id_received, mail>>

\* Session::stop: the flag, then the stop pipe and the stream connection.
StopCall ==
  /\ \/ stopping = "no" /\ stopping' = "flag"
     \/ stopping = "flag" /\ stopping' = "done"
  /\ should_stop' = TRUE
  /\ UNCHANGED <<AppStays, ctrl_failed, ctrl_session_id_received,
                 ctrl_login_pin_requested, stream_connection_switch_received, quit_reason,
                 login_pin, prompts, answered, bed>>

\* set_login_pin, once for every LoginPinRequest: the dialog closes with it.
EnterPin ==
  /\ answered < prompts
  /\ answered' = prompts /\ login_pin' = prompts
  /\ UNCHANGED <<AppStays, should_stop, ctrl_failed, ctrl_session_id_received,
                 ctrl_login_pin_requested, stream_connection_switch_received, quit_reason,
                 stopping, prompts, bed>>

\* Session::goto_bed
Bed == /\ bed = "no"
       /\ IF handle /\ ctrl # "dead"
          THEN bed' = "queued" ELSE bed' = "refused"
       /\ UNCHANGED <<AppStays, shared, stopping, prompts, answered>>

\* The button of the panel, while the stream runs.
BedButton == pc = "stream" /\ stopping = "no" /\ Bed

\* The handler of the Quit event, set to send the console to sleep: a session that
\* the user stopped is not the current one any more.
BedAtQuit == quit \in {"stopped", "shutdown"} /\ stopping = "no" /\ path # "psn_auto" /\ Bed

Next == SessionThread \/ StreamEnds \/ CtrlThread \/ StopCall \/ EnterPin \/ BedButton \/ BedAtQuit

\* The threads run and waits time out; a call of stop() comes to its end.  The user
\* need not enter a PIN, nor the console end the stream.
Fairness == WF_vars(SessionThread) /\ WF_vars(CtrlThread) /\ WF_vars(stopping # "no" /\ StopCall)

Spec == Init /\ [][Next]_vars /\ Fairness
-----------------------------------------------------------------------------
\* After the Quit event no thread is left that could fire another event: every way
\* out of session_thread_func that started the ctrl thread has joined it.
NothingAfterQuit == quit # "no" => ctrl \in {"none", "dead"}

\* The user is asked no more often than the console asked, and a PIN goes to the
\* console for one prompt only, the prompts in order: none of a former prompt
\* answers the next one.
PinsAnswerPrompts == /\ prompts <= asks
                     /\ \A i, j \in DOMAIN pins : i < j => pins[i] < pins[j]

\* The stream starts only with a session id and, over PSN, after the console's ACK.
StreamNeedsSession ==
  pc = "stream" => ctrl_session_id_received
                   /\ (path # "lan" => stream_connection_switch_received)

\* A stop ends the session in every phase.
StopQuits == []<>(should_stop => pc = "done")

\* A ctrl thread that fails before the stream starts ends the session, also while the
\* user is asked for a PIN and does not answer.
BeforeStream == Steps \ {"switch", "wait_switch", "check_switch", "stream"}
CtrlFailureQuits == ctrl_failed /\ pc \in BeforeStream ~> pc = "done"

\* Whatever the session waits for, a user that stops it or a ctrl thread that fails
\* brings it to its end.
AskedEnds == StopQuits /\ CtrlFailureQuits

\* "check_stop ... setzt den Quit-Reason auf Stopped": a stop seen there is what the
\* Quit event tells.
StopIsToldAsStop == told /\ quit # "no" => quit = "stopped"

\* "hier idempotent nachziehen": the id that the session has is not replaced.
SessionIdKept == [][session_id # "none" => session_id' = session_id]_session_id

\* "fährt "sleep" die Konsole automatisch in den Ruhemodus": at a clean quit the
\* message finds a ctrl.
SleepAtQuit == quit \in {"stopped", "shutdown"} => bed # "refused"
=============================================================================
