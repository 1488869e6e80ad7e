--------------------------- MODULE SessionProofs ---------------------------
(***************************************************************************)
(* Session for every number of messages of the console: the Quit event is  *)
(* the last one, a PIN answers one prompt, and the stream starts only with *)
(* what it needs.                                                          *)
(***************************************************************************)
EXTENDS Session, SequenceTheorems, TLAPS
-----------------------------------------------------------------------------
\* The steps of the session thread before there is a ctrl thread, and those that are
\* reached only once that has ended.
BeforeCtrl == {"start", "regist", "request", "create"}
AfterJoin  == {"quit", "done"}

\* Every way out that started the ctrl thread goes through the join.
CtrlJoined ==
  /\ pc \in BeforeCtrl => ctrl = "none"
  /\ pc \in AfterJoin => ctrl \in {"none", "dead"}
  /\ quit # "no" => pc = "done"

\* A request of the console is answered by one prompt.
PromptsAsked ==
  /\ prompts + (IF ctrl_login_pin_requested THEN 1 ELSE 0) <= asks
  /\ pc = "pin_ask" => ctrl_login_pin_requested

\* A PIN on its way is in one place: with the application, the session thread, Ctrl or
\* the console.  The newer ones are behind the older ones.
InOrder ==
  /\ pin # 0 <=> pc = "pin_forward"
  /\ login_pin <= answered
  /\ login_pin # 0 => pin < login_pin /\ mailbox < login_pin
  /\ pin # 0 => mailbox < pin /\ pin <= answered
  /\ mailbox <= answered
  /\ \A i \in DOMAIN pins :
       /\ pins[i] <= answered
       /\ login_pin # 0 => pins[i] < login_pin
       /\ pin # 0 => pins[i] < pin
       /\ mailbox # 0 => pins[i] < mailbox

PinsRise == \A i, j \in DOMAIN pins : i < j => pins[i] < pins[j]

\* What the session thread has seen by the steps before the stream.
SeenBefore ==
  /\ pc \in {"fallback_write", "senkusha", "senkusha_stop", "senkusha_ctrl", "switch",
             "wait_switch", "check_switch", "stream"} => ctrl_session_id_received
  /\ pc = "stream" /\ path # "lan" => stream_connection_switch_received

IInv == /\ TypeOK /\ CtrlJoined /\ PromptsAsked /\ InOrder /\ PinsRise /\ SeenBefore
-----------------------------------------------------------------------------
LEMMA SessionInit == Init => IInv
  <1> SUFFICES ASSUME Init PROVE IInv
    OBVIOUS
  <1>1. <<>> \in Seq(1..0)
    OBVIOUS
  <1>2. TypeOK
    <2>1. pins \in Seq(1..prompts) /\ prompts \in 0..MaxMessages /\ received \in 0..MaxMessages
      BY <1>1, MaxMessagesAssumption DEF Init
    <2>2. pc \in Steps /\ ctrl \in CtrlSteps /\ quit_reason \in Reasons
          /\ quit \in Reasons \cup {"no"}
      BY DEF Init, Steps, CtrlSteps, Reasons
    <2>3. attempt \in 1..3 /\ asks \in 0..received /\ login_pin \in 0..prompts
          /\ pin \in 0..prompts /\ mailbox \in 0..prompts /\ answered \in 0..prompts
      BY DEF Init
    <2>4. QED
      BY <2>1, <2>2, <2>3 DEF Init, TypeOK
  <1>3. CtrlJoined /\ PromptsAsked /\ InOrder /\ PinsRise /\ SeenBefore
    BY DEF Init, CtrlJoined, PromptsAsked, InOrder, PinsRise, SeenBefore, BeforeCtrl, AfterJoin
  <1>4. QED
    BY <1>2, <1>3 DEF IInv

LEMMA StepTypes ==
  ASSUME IInv, Next
  PROVE  pc' \in Steps /\ ctrl' \in CtrlSteps
  <1> USE DEF Go, Because, Stays, Flags, Step, CtrlGo, CtrlStays, CtrlQuiet, Fail, Frame, AppStays,
              shared, ctrlOwn, mail, app, thread, Bed, LoginPinRequested
  <1>1. CASE Start \/ RegistOk \/ RegistFails \/ RequestOk \/ RequestMismatch \/ RequestFails \/
           RequestCanceled \/ Create \/ Wait \/ CheckStop \/ CtrlOk \/ PinCheck \/ PinAsk \/
           PinWait \/ PinWoken \/ PinTake
    BY <1>1 DEF Start, RegistOk, RegistFails, RequestOk, RequestMismatch, RequestFails,
               RequestCanceled, Create, Wait, CheckStop, CtrlOk, PinCheck, PinAsk, PinWait,
               PinWoken, PinTake, IInv, TypeOK, Steps, CtrlSteps, LoginPinRequested
  <1>2. CASE PinForward \/ Punch \/ SidCheck \/ Fallback \/ FallbackEmit \/ FallbackWrite \/
           Senkusha \/ SenkushaStop \/ SenkushaCtrl \/ Switch \/ CheckSwitch \/ StreamStopped \/
           StreamEnds \/ Blame \/ StopCtrl \/ TakeCtrl \/ Join \/ QuitEvent
    BY <1>2 DEF PinForward, Punch, SidCheck, Fallback, FallbackEmit, FallbackWrite, Senkusha,
               SenkushaStop, SenkushaCtrl, Switch, CheckSwitch, StreamStopped, StreamEnds, Blame,
               StopCtrl, TakeCtrl, Join, QuitEvent, IInv, TypeOK, Steps, CtrlSteps,
               LoginPinRequested
  <1>3. CASE CtrlConnects \/ CtrlRefused \/ CtrlFailed \/ FrameSessionId \/ SidEmit \/ SidWrite \/
           FrameLoginPinReq \/ FrameLogin \/ FrameSwitch \/ FrameOverflow \/ FramesDone \/ Drain
           \/ CtrlPin \/ CtrlCheck \/ RecvNothing \/ RecvEof \/ RecvFails \/ RecvFinish
    BY <1>3 DEF CtrlConnects, CtrlRefused, CtrlFailed, FrameSessionId, SidEmit, SidWrite,
               FrameLoginPinReq, FrameLogin, FrameSwitch, FrameOverflow, FramesDone, Drain,
               CtrlPin, CtrlCheck, RecvNothing, RecvEof, RecvFails, RecvFinish, IInv, TypeOK,
               Steps, CtrlSteps, LoginPinRequested
  <1>4. CASE StopCall \/ EnterPin \/ BedButton \/ BedAtQuit
    BY <1>4 DEF StopCall, EnterPin, BedButton, BedAtQuit, IInv, TypeOK, Steps, CtrlSteps,
               LoginPinRequested
  <1>5. QED
    BY <1>1, <1>2, <1>3, <1>4 DEF Next, SessionThread, CtrlThread

LEMMA FlagTypes ==
  ASSUME IInv, Next
  PROVE  /\ should_stop' \in BOOLEAN /\ ctrl_failed' \in BOOLEAN /\ ctrl_stop' \in BOOLEAN
         /\ ctrl_session_id_received' \in BOOLEAN /\ ctrl_login_pin_requested' \in BOOLEAN
         /\ stream_connection_switch_received' \in BOOLEAN
  <1> USE DEF Go, Because, Stays, Flags, Step, CtrlGo, CtrlStays, CtrlQuiet, Fail, Frame, AppStays,
              shared, ctrlOwn, mail, app, thread, Bed, LoginPinRequested
  <1>1. CASE Start \/ RegistOk \/ RegistFails \/ RequestOk \/ RequestMismatch \/ RequestFails \/
           RequestCanceled \/ Create \/ Wait \/ CheckStop \/ CtrlOk \/ PinCheck \/ PinAsk \/
           PinWait \/ PinWoken \/ PinTake
    BY <1>1 DEF Start, RegistOk, RegistFails, RequestOk, RequestMismatch, RequestFails,
               RequestCanceled, Create, Wait, CheckStop, CtrlOk, PinCheck, PinAsk, PinWait,
               PinWoken, PinTake, IInv, TypeOK
  <1>2. CASE PinForward \/ Punch \/ SidCheck \/ Fallback \/ FallbackEmit \/ FallbackWrite \/
           Senkusha \/ SenkushaStop \/ SenkushaCtrl \/ Switch \/ CheckSwitch \/ StreamStopped \/
           StreamEnds \/ Blame \/ StopCtrl \/ TakeCtrl \/ Join \/ QuitEvent
    BY <1>2 DEF PinForward, Punch, SidCheck, Fallback, FallbackEmit, FallbackWrite, Senkusha,
               SenkushaStop, SenkushaCtrl, Switch, CheckSwitch, StreamStopped, StreamEnds, Blame,
               StopCtrl, TakeCtrl, Join, QuitEvent, IInv, TypeOK
  <1>3. CASE CtrlConnects \/ CtrlRefused \/ CtrlFailed \/ FrameSessionId \/ SidEmit \/ SidWrite \/
           FrameLoginPinReq \/ FrameLogin \/ FrameSwitch \/ FrameOverflow \/ FramesDone \/ Drain
           \/ CtrlPin \/ CtrlCheck \/ RecvNothing \/ RecvEof \/ RecvFails \/ RecvFinish
    BY <1>3 DEF CtrlConnects, CtrlRefused, CtrlFailed, FrameSessionId, SidEmit, SidWrite,
               FrameLoginPinReq, FrameLogin, FrameSwitch, FrameOverflow, FramesDone, Drain,
               CtrlPin, CtrlCheck, RecvNothing, RecvEof, RecvFails, RecvFinish, IInv, TypeOK
  <1>4. CASE StopCall \/ EnterPin \/ BedButton \/ BedAtQuit
    BY <1>4 DEF StopCall, EnterPin, BedButton, BedAtQuit, IInv, TypeOK
  <1>5. QED
    BY <1>1, <1>2, <1>3, <1>4 DEF Next, SessionThread, CtrlThread

LEMMA OwnTypes ==
  ASSUME IInv, Next
  PROVE  /\ session_id_received' \in BOOLEAN
         /\ login_pin_requested' \in BOOLEAN /\ handle' \in BOOLEAN /\ told' \in BOOLEAN
  <1> USE DEF Go, Because, Stays, Flags, Step, CtrlGo, CtrlStays, CtrlQuiet, Fail, Frame, AppStays,
              shared, ctrlOwn, mail, app, thread, Bed, LoginPinRequested
  <1>1. CASE Start \/ RegistOk \/ RegistFails \/ RequestOk \/ RequestMismatch \/ RequestFails \/
           RequestCanceled \/ Create \/ Wait \/ CheckStop \/ CtrlOk \/ PinCheck \/ PinAsk \/
           PinWait \/ PinWoken \/ PinTake
    BY <1>1 DEF Start, RegistOk, RegistFails, RequestOk, RequestMismatch, RequestFails,
               RequestCanceled, Create, Wait, CheckStop, CtrlOk, PinCheck, PinAsk, PinWait,
               PinWoken, PinTake, IInv, TypeOK
  <1>2. CASE PinForward \/ Punch \/ SidCheck \/ Fallback \/ FallbackEmit \/ FallbackWrite \/
           Senkusha \/ SenkushaStop \/ SenkushaCtrl \/ Switch \/ CheckSwitch \/ StreamStopped \/
           StreamEnds \/ Blame \/ StopCtrl \/ TakeCtrl \/ Join \/ QuitEvent
    BY <1>2 DEF PinForward, Punch, SidCheck, Fallback, FallbackEmit, FallbackWrite, Senkusha,
               SenkushaStop, SenkushaCtrl, Switch, CheckSwitch, StreamStopped, StreamEnds, Blame,
               StopCtrl, TakeCtrl, Join, QuitEvent, IInv, TypeOK
  <1>3. CASE CtrlConnects \/ CtrlRefused \/ CtrlFailed \/ FrameSessionId \/ SidEmit \/ SidWrite \/
           FrameLoginPinReq \/ FrameLogin \/ FrameSwitch \/ FrameOverflow \/ FramesDone \/ Drain
           \/ CtrlPin \/ CtrlCheck \/ RecvNothing \/ RecvEof \/ RecvFails \/ RecvFinish
    BY <1>3 DEF CtrlConnects, CtrlRefused, CtrlFailed, FrameSessionId, SidEmit, SidWrite,
               FrameLoginPinReq, FrameLogin, FrameSwitch, FrameOverflow, FramesDone, Drain,
               CtrlPin, CtrlCheck, RecvNothing, RecvEof, RecvFails, RecvFinish, IInv, TypeOK
  <1>4. CASE StopCall \/ EnterPin \/ BedButton \/ BedAtQuit
    BY <1>4 DEF StopCall, EnterPin, BedButton, BedAtQuit, IInv, TypeOK
  <1>5. QED
    BY <1>1, <1>2, <1>3, <1>4 DEF Next, SessionThread, CtrlThread

LEMMA ReasonTypes ==
  ASSUME IInv, Next
  PROVE  /\ quit_reason' \in Reasons /\ quit' \in Reasons \cup {"no"}
         /\ session_id' \in {"none", "console", "fallback"} /\ offered' \in {"console", "fallback"}
  <1> USE DEF Go, Because, Stays, Flags, Step, CtrlGo, CtrlStays, CtrlQuiet, Fail, Frame, AppStays,
              shared, ctrlOwn, mail, app, thread, Bed, LoginPinRequested
  <1>1. CASE Start \/ RegistOk \/ RegistFails \/ RequestOk \/ RequestMismatch \/ RequestFails \/
           RequestCanceled \/ Create \/ Wait \/ CheckStop \/ CtrlOk \/ PinCheck \/ PinAsk \/
           PinWait \/ PinWoken \/ PinTake
    BY <1>1 DEF Start, RegistOk, RegistFails, RequestOk, RequestMismatch, RequestFails,
               RequestCanceled, Create, Wait, CheckStop, CtrlOk, PinCheck, PinAsk, PinWait,
               PinWoken, PinTake, IInv, TypeOK, Reasons, Connected
  <1>2. CASE PinForward \/ Punch \/ SidCheck \/ Fallback \/ FallbackEmit \/ FallbackWrite \/
           Senkusha \/ SenkushaStop \/ SenkushaCtrl \/ Switch \/ CheckSwitch \/ StreamStopped \/
           StreamEnds \/ Blame \/ StopCtrl \/ TakeCtrl \/ Join \/ QuitEvent
    BY <1>2 DEF PinForward, Punch, SidCheck, Fallback, FallbackEmit, FallbackWrite, Senkusha,
               SenkushaStop, SenkushaCtrl, Switch, CheckSwitch, StreamStopped, StreamEnds, Blame,
               StopCtrl, TakeCtrl, Join, QuitEvent, IInv, TypeOK, Reasons, Connected
  <1>3. CASE CtrlConnects \/ CtrlRefused \/ CtrlFailed \/ FrameSessionId \/ SidEmit \/ SidWrite \/
           FrameLoginPinReq \/ FrameLogin \/ FrameSwitch \/ FrameOverflow \/ FramesDone \/ Drain
           \/ CtrlPin \/ CtrlCheck \/ RecvNothing \/ RecvEof \/ RecvFails \/ RecvFinish
    BY <1>3 DEF CtrlConnects, CtrlRefused, CtrlFailed, FrameSessionId, SidEmit, SidWrite,
               FrameLoginPinReq, FrameLogin, FrameSwitch, FrameOverflow, FramesDone, Drain,
               CtrlPin, CtrlCheck, RecvNothing, RecvEof, RecvFails, RecvFinish, IInv, TypeOK,
               Reasons, Connected
  <1>4. CASE StopCall \/ EnterPin \/ BedButton \/ BedAtQuit
    BY <1>4 DEF StopCall, EnterPin, BedButton, BedAtQuit, IInv, TypeOK, Reasons, Connected
  <1>5. QED
    BY <1>1, <1>2, <1>3, <1>4 DEF Next, SessionThread, CtrlThread

LEMMA RestTypes ==
  ASSUME IInv, Next
  PROVE  /\ path' \in {"lan", "psn", "psn_auto"} /\ attempt' \in 1..3
         /\ stopping' \in {"no", "flag", "done"}
         /\ bed' \in {"no", "queued", "sent", "lost", "refused"}
  <1> USE DEF Go, Because, Stays, Flags, Step, CtrlGo, CtrlStays, CtrlQuiet, Fail, Frame, AppStays,
              shared, ctrlOwn, mail, app, thread, Bed, LoginPinRequested
  <1>1. CASE Start \/ RegistOk \/ RegistFails \/ RequestOk \/ RequestMismatch \/ RequestFails \/
           RequestCanceled \/ Create \/ Wait \/ CheckStop \/ CtrlOk \/ PinCheck \/ PinAsk \/
           PinWait \/ PinWoken \/ PinTake
    BY <1>1 DEF Start, RegistOk, RegistFails, RequestOk, RequestMismatch, RequestFails,
               RequestCanceled, Create, Wait, CheckStop, CtrlOk, PinCheck, PinAsk, PinWait,
               PinWoken, PinTake, IInv, TypeOK
  <1>2. CASE PinForward \/ Punch \/ SidCheck \/ Fallback \/ FallbackEmit \/ FallbackWrite \/
           Senkusha \/ SenkushaStop \/ SenkushaCtrl \/ Switch \/ CheckSwitch \/ StreamStopped \/
           StreamEnds \/ Blame \/ StopCtrl \/ TakeCtrl \/ Join \/ QuitEvent
    BY <1>2 DEF PinForward, Punch, SidCheck, Fallback, FallbackEmit, FallbackWrite, Senkusha,
               SenkushaStop, SenkushaCtrl, Switch, CheckSwitch, StreamStopped, StreamEnds, Blame,
               StopCtrl, TakeCtrl, Join, QuitEvent, IInv, TypeOK
  <1>3. CASE CtrlConnects \/ CtrlRefused \/ CtrlFailed \/ FrameSessionId \/ SidEmit \/ SidWrite \/
           FrameLoginPinReq \/ FrameLogin \/ FrameSwitch \/ FrameOverflow \/ FramesDone \/ Drain
           \/ CtrlPin \/ CtrlCheck \/ RecvNothing \/ RecvEof \/ RecvFails \/ RecvFinish
    BY <1>3 DEF CtrlConnects, CtrlRefused, CtrlFailed, FrameSessionId, SidEmit, SidWrite,
               FrameLoginPinReq, FrameLogin, FrameSwitch, FrameOverflow, FramesDone, Drain,
               CtrlPin, CtrlCheck, RecvNothing, RecvEof, RecvFails, RecvFinish, IInv, TypeOK
  <1>4. CASE StopCall \/ EnterPin \/ BedButton \/ BedAtQuit
    BY <1>4 DEF StopCall, EnterPin, BedButton, BedAtQuit, IInv, TypeOK
  <1>5. QED
    BY <1>1, <1>2, <1>3, <1>4 DEF Next, SessionThread, CtrlThread

LEMMA CtrlJoinedNext ==
  ASSUME IInv, Next
  PROVE  CtrlJoined'
  <1> USE DEF Go, Because, Stays, Flags, Step, CtrlGo, CtrlStays, CtrlQuiet, Fail, Frame, AppStays,
              shared, ctrlOwn, mail, app, thread, Bed, LoginPinRequested
  <1>1. CASE Start \/ RegistOk \/ RegistFails \/ RequestOk \/ RequestMismatch \/ RequestFails \/
           RequestCanceled \/ Create \/ Wait \/ CheckStop \/ CtrlOk \/ PinCheck \/ PinAsk \/
           PinWait \/ PinWoken \/ PinTake
    BY <1>1 DEF Start, RegistOk, RegistFails, RequestOk, RequestMismatch, RequestFails,
               RequestCanceled, Create, Wait, CheckStop, CtrlOk, PinCheck, PinAsk, PinWait,
               PinWoken, PinTake, IInv, CtrlJoined, BeforeCtrl, AfterJoin
  <1>2. CASE PinForward \/ Punch \/ SidCheck \/ Fallback \/ FallbackEmit \/ FallbackWrite \/
           Senkusha \/ SenkushaStop \/ SenkushaCtrl \/ Switch \/ CheckSwitch \/ StreamStopped \/
           StreamEnds \/ Blame \/ StopCtrl \/ TakeCtrl \/ Join \/ QuitEvent
    BY <1>2 DEF PinForward, Punch, SidCheck, Fallback, FallbackEmit, FallbackWrite, Senkusha,
               SenkushaStop, SenkushaCtrl, Switch, CheckSwitch, StreamStopped, StreamEnds, Blame,
               StopCtrl, TakeCtrl, Join, QuitEvent, IInv, CtrlJoined, BeforeCtrl, AfterJoin
  <1>3. CASE CtrlConnects \/ CtrlRefused \/ CtrlFailed \/ FrameSessionId \/ SidEmit \/ SidWrite \/
           FrameLoginPinReq \/ FrameLogin \/ FrameSwitch \/ FrameOverflow \/ FramesDone \/ Drain
           \/ CtrlPin \/ CtrlCheck \/ RecvNothing \/ RecvEof \/ RecvFails \/ RecvFinish
    BY <1>3 DEF CtrlConnects, CtrlRefused, CtrlFailed, FrameSessionId, SidEmit, SidWrite,
               FrameLoginPinReq, FrameLogin, FrameSwitch, FrameOverflow, FramesDone, Drain,
               CtrlPin, CtrlCheck, RecvNothing, RecvEof, RecvFails, RecvFinish, IInv, CtrlJoined,
               BeforeCtrl, AfterJoin
  <1>4. CASE StopCall \/ EnterPin \/ BedButton \/ BedAtQuit
    BY <1>4 DEF StopCall, EnterPin, BedButton, BedAtQuit, IInv, CtrlJoined, BeforeCtrl, AfterJoin
  <1>5. QED
    BY <1>1, <1>2, <1>3, <1>4 DEF Next, SessionThread, CtrlThread

LEMMA PromptsAskedNext ==
  ASSUME IInv, Next
  PROVE  PromptsAsked'
  <1> USE DEF Go, Because, Stays, Flags, Step, CtrlGo, CtrlStays, CtrlQuiet, Fail, Frame, AppStays,
              shared, ctrlOwn, mail, app, thread, Bed, LoginPinRequested
  <1>1. CASE Start \/ RegistOk \/ RegistFails \/ RequestOk \/ RequestMismatch \/ RequestFails \/
           RequestCanceled \/ Create \/ Wait \/ CheckStop \/ CtrlOk \/ PinCheck \/ PinAsk \/
           PinWait \/ PinWoken \/ PinTake
    BY <1>1 DEF Start, RegistOk, RegistFails, RequestOk, RequestMismatch, RequestFails,
               RequestCanceled, Create, Wait, CheckStop, CtrlOk, PinCheck, PinAsk, PinWait,
               PinWoken, PinTake, IInv, TypeOK, PromptsAsked
  <1>2. CASE PinForward \/ Punch \/ SidCheck \/ Fallback \/ FallbackEmit \/ FallbackWrite \/
           Senkusha \/ SenkushaStop \/ SenkushaCtrl \/ Switch \/ CheckSwitch \/ StreamStopped \/
           StreamEnds \/ Blame \/ StopCtrl \/ TakeCtrl \/ Join \/ QuitEvent
    BY <1>2 DEF PinForward, Punch, SidCheck, Fallback, FallbackEmit, FallbackWrite, Senkusha,
               SenkushaStop, SenkushaCtrl, Switch, CheckSwitch, StreamStopped, StreamEnds, Blame,
               StopCtrl, TakeCtrl, Join, QuitEvent, IInv, TypeOK, PromptsAsked
  <1>3. CASE CtrlConnects \/ CtrlRefused \/ CtrlFailed \/ FrameSessionId \/ SidEmit \/ SidWrite \/
           FrameLoginPinReq \/ FrameLogin \/ FrameSwitch \/ FrameOverflow \/ FramesDone \/ Drain
           \/ CtrlPin \/ CtrlCheck \/ RecvNothing \/ RecvEof \/ RecvFails \/ RecvFinish
    BY <1>3 DEF CtrlConnects, CtrlRefused, CtrlFailed, FrameSessionId, SidEmit, SidWrite,
               FrameLoginPinReq, FrameLogin, FrameSwitch, FrameOverflow, FramesDone, Drain,
               CtrlPin, CtrlCheck, RecvNothing, RecvEof, RecvFails, RecvFinish, IInv, TypeOK,
               PromptsAsked
  <1>4. CASE StopCall \/ EnterPin \/ BedButton \/ BedAtQuit
    BY <1>4 DEF StopCall, EnterPin, BedButton, BedAtQuit, IInv, TypeOK, PromptsAsked
  <1>5. QED
    BY <1>1, <1>2, <1>3, <1>4 DEF Next, SessionThread, CtrlThread

LEMMA SeenBeforeNext ==
  ASSUME IInv, Next
  PROVE  SeenBefore'
  <1> USE DEF Go, Because, Stays, Flags, Step, CtrlGo, CtrlStays, CtrlQuiet, Fail, Frame, AppStays,
              shared, ctrlOwn, mail, app, thread, Bed, LoginPinRequested
  <1>1. CASE Start \/ RegistOk \/ RegistFails \/ RequestOk \/ RequestMismatch \/ RequestFails \/
           RequestCanceled \/ Create \/ Wait \/ CheckStop \/ CtrlOk \/ PinCheck \/ PinAsk \/
           PinWait \/ PinWoken \/ PinTake
    BY <1>1 DEF Start, RegistOk, RegistFails, RequestOk, RequestMismatch, RequestFails,
               RequestCanceled, Create, Wait, CheckStop, CtrlOk, PinCheck, PinAsk, PinWait,
               PinWoken, PinTake, IInv, SeenBefore
  <1>2. CASE PinForward \/ Punch \/ SidCheck \/ Fallback \/ FallbackEmit \/ FallbackWrite \/
           Senkusha \/ SenkushaStop \/ SenkushaCtrl \/ Switch \/ CheckSwitch \/ StreamStopped \/
           StreamEnds \/ Blame \/ StopCtrl \/ TakeCtrl \/ Join \/ QuitEvent
    BY <1>2 DEF PinForward, Punch, SidCheck, Fallback, FallbackEmit, FallbackWrite, Senkusha,
               SenkushaStop, SenkushaCtrl, Switch, CheckSwitch, StreamStopped, StreamEnds, Blame,
               StopCtrl, TakeCtrl, Join, QuitEvent, IInv, SeenBefore
  <1>3. CASE CtrlConnects \/ CtrlRefused \/ CtrlFailed \/ FrameSessionId \/ SidEmit \/ SidWrite \/
           FrameLoginPinReq \/ FrameLogin \/ FrameSwitch \/ FrameOverflow \/ FramesDone \/ Drain
           \/ CtrlPin \/ CtrlCheck \/ RecvNothing \/ RecvEof \/ RecvFails \/ RecvFinish
    BY <1>3 DEF CtrlConnects, CtrlRefused, CtrlFailed, FrameSessionId, SidEmit, SidWrite,
               FrameLoginPinReq, FrameLogin, FrameSwitch, FrameOverflow, FramesDone, Drain,
               CtrlPin, CtrlCheck, RecvNothing, RecvEof, RecvFails, RecvFinish, IInv, SeenBefore
  <1>4. CASE StopCall \/ EnterPin \/ BedButton \/ BedAtQuit
    BY <1>4 DEF StopCall, EnterPin, BedButton, BedAtQuit, IInv, SeenBefore
  <1>5. QED
    BY <1>1, <1>2, <1>3, <1>4 DEF Next, SessionThread, CtrlThread

LEMMA CountTypes ==
  ASSUME IInv, Next
  PROVE  /\ received' \in 0..MaxMessages /\ asks' \in 0..received'
         /\ prompts' >= prompts /\ prompts' \in Nat
  <1> USE DEF Go, Because, Stays, Flags, Step, CtrlGo, CtrlStays, CtrlQuiet, Fail, Frame, AppStays,
              shared, ctrlOwn, mail, app, thread, Bed, LoginPinRequested
  <1>1. CASE Start \/ RegistOk \/ RegistFails \/ RequestOk \/ RequestMismatch \/ RequestFails \/
           RequestCanceled \/ Create \/ Wait \/ CheckStop \/ CtrlOk \/ PinCheck \/ PinAsk \/
           PinWait \/ PinWoken \/ PinTake
    BY <1>1 DEF Start, RegistOk, RegistFails, RequestOk, RequestMismatch, RequestFails,
               RequestCanceled, Create, Wait, CheckStop, CtrlOk, PinCheck, PinAsk, PinWait,
               PinWoken, PinTake, IInv, TypeOK
  <1>2. CASE PinForward \/ Punch \/ SidCheck \/ Fallback \/ FallbackEmit \/ FallbackWrite \/
           Senkusha \/ SenkushaStop \/ SenkushaCtrl \/ Switch \/ CheckSwitch \/ StreamStopped \/
           StreamEnds \/ Blame \/ StopCtrl \/ TakeCtrl \/ Join \/ QuitEvent
    BY <1>2 DEF PinForward, Punch, SidCheck, Fallback, FallbackEmit, FallbackWrite, Senkusha,
               SenkushaStop, SenkushaCtrl, Switch, CheckSwitch, StreamStopped, StreamEnds, Blame,
               StopCtrl, TakeCtrl, Join, QuitEvent, IInv, TypeOK
  <1>3. CASE FrameSessionId \/ FrameLoginPinReq \/ FrameLogin \/ FrameSwitch
    BY <1>3, MaxMessagesAssumption DEF FrameSessionId, FrameLoginPinReq, FrameLogin, FrameSwitch,
               IInv, TypeOK
  <1>4. CASE CtrlConnects \/ CtrlRefused \/ CtrlFailed \/ SidEmit \/ SidWrite \/ FrameOverflow \/
           FramesDone \/ Drain \/ CtrlPin \/ CtrlCheck \/ RecvNothing \/ RecvEof \/ RecvFails \/
           RecvFinish
    BY <1>4 DEF CtrlConnects, CtrlRefused, CtrlFailed, SidEmit, SidWrite, FrameOverflow,
               FramesDone, Drain, CtrlPin, CtrlCheck, RecvNothing, RecvEof, RecvFails, RecvFinish,
               IInv, TypeOK
  <1>5. CASE StopCall \/ EnterPin \/ BedButton \/ BedAtQuit
    BY <1>5 DEF StopCall, EnterPin, BedButton, BedAtQuit, IInv, TypeOK
  <1>6. QED
    BY <1>1, <1>2, <1>3, <1>4, <1>5 DEF Next, SessionThread, CtrlThread

\* The console has got one PIN more, or what it had.
LEMMA PinSent ==
  ASSUME IInv, CtrlPin
  PROVE  /\ mailbox' = 0
         /\ UNCHANGED <<prompts, answered, login_pin, pin, pc>>
         /\ \/ pins' = pins
            \/ /\ mailbox # 0 /\ DOMAIN pins = 1..Len(pins) /\ DOMAIN pins' = 1..(Len(pins) + 1)
               /\ Len(pins) \in Nat
               /\ pins' \in Seq(1..prompts)
               /\ pins'[Len(pins) + 1] = mailbox
               /\ \A i \in 1..Len(pins) : pins'[i] = pins[i]
  <1>1. pins \in Seq(1..prompts) /\ mailbox \in 0..prompts
    BY DEF IInv, TypeOK
  <1>2. /\ mailbox' = 0 /\ UNCHANGED <<prompts, answered, login_pin, pin, pc>>
        /\ pins' = pins \/ (mailbox # 0 /\ pins' = Append(pins, mailbox))
    BY DEF CtrlPin, CtrlGo, CtrlStays, app, thread, shared
  <1>3. CASE mailbox # 0 /\ pins' = Append(pins, mailbox)
    <2>1. mailbox \in 1..prompts /\ DOMAIN pins = 1..Len(pins) /\ Len(pins) \in Nat
      BY <1>1, <1>3, LenProperties
    <2>2. /\ pins' \in Seq(1..prompts) /\ Len(pins') = Len(pins) + 1
          /\ pins'[Len(pins) + 1] = mailbox /\ \A i \in 1..Len(pins) : pins'[i] = pins[i]
      BY <1>1, <1>3, <2>1, AppendProperties
    <2>3. DOMAIN pins' = 1..Len(pins')
      BY <2>2, LenProperties
    <2>4. QED
      BY <1>2, <1>3, <2>1, <2>2, <2>3
  <1>4. QED
    BY <1>2, <1>3

LEMMA InOrderNext ==
  ASSUME IInv, Next
  PROVE  InOrder'
  <1> USE DEF Go, Because, Stays, Flags, Step, CtrlGo, CtrlStays, CtrlQuiet, Fail, Frame, AppStays,
              shared, ctrlOwn, mail, app, thread, Bed, LoginPinRequested
  <1>1. CASE Start \/ RegistOk \/ RegistFails \/ RequestOk \/ RequestMismatch \/ RequestFails \/
           RequestCanceled \/ Create \/ Wait \/ CheckStop \/ CtrlOk \/ PinCheck \/ PinAsk \/
           PinWait \/ PinWoken \/ PinTake
    BY <1>1 DEF Start, RegistOk, RegistFails, RequestOk, RequestMismatch, RequestFails,
               RequestCanceled, Create, Wait, CheckStop, CtrlOk, PinCheck, PinAsk, PinWait,
               PinWoken, PinTake, IInv, TypeOK, InOrder
  <1>2. CASE PinForward \/ Punch \/ SidCheck \/ Fallback \/ FallbackEmit \/ FallbackWrite \/
           Senkusha \/ SenkushaStop \/ SenkushaCtrl \/ Switch \/ CheckSwitch \/ StreamStopped \/
           StreamEnds \/ Blame \/ StopCtrl \/ TakeCtrl \/ Join \/ QuitEvent
    BY <1>2 DEF PinForward, Punch, SidCheck, Fallback, FallbackEmit, FallbackWrite, Senkusha,
               SenkushaStop, SenkushaCtrl, Switch, CheckSwitch, StreamStopped, StreamEnds, Blame,
               StopCtrl, TakeCtrl, Join, QuitEvent, IInv, TypeOK, InOrder
  <1>3. CASE CtrlConnects \/ CtrlRefused \/ CtrlFailed \/ FrameSessionId \/ SidEmit \/ SidWrite \/
           FrameLoginPinReq \/ FrameLogin \/ FrameSwitch \/ FrameOverflow \/ FramesDone \/ Drain
           \/ CtrlCheck \/ RecvNothing \/ RecvEof \/ RecvFails \/ RecvFinish
    BY <1>3 DEF CtrlConnects, CtrlRefused, CtrlFailed, FrameSessionId, SidEmit, SidWrite,
               FrameLoginPinReq, FrameLogin, FrameSwitch, FrameOverflow, FramesDone, Drain,
               CtrlCheck, RecvNothing, RecvEof, RecvFails, RecvFinish, IInv, TypeOK, InOrder
  <1>4. CASE CtrlPin
    <2>1. CASE pins' = pins
      BY <1>4, <2>1, PinSent DEF IInv, TypeOK, InOrder
    <2>2. CASE pins' # pins
      <3>1. ASSUME NEW i \in DOMAIN pins'
            PROVE  /\ pins'[i] <= answered
                   /\ login_pin # 0 => pins'[i] < login_pin
                   /\ pin # 0 => pins'[i] < pin
        <4>1. CASE i = Len(pins) + 1
          BY <1>4, <2>2, <4>1, PinSent DEF IInv, InOrder
        <4>2. CASE i # Len(pins) + 1
          <5>1. i \in DOMAIN pins /\ pins'[i] = pins[i]
            BY <1>4, <2>2, <3>1, <4>2, PinSent
          <5>2. QED
            BY <5>1 DEF IInv, InOrder
        <4>3. QED
          BY <4>1, <4>2
      <3>2. QED
        BY <1>4, <3>1, PinSent DEF IInv, TypeOK, InOrder
    <2>3. QED
      BY <2>1, <2>2
  <1>5. CASE StopCall \/ EnterPin \/ BedButton \/ BedAtQuit
    BY <1>5 DEF StopCall, EnterPin, BedButton, BedAtQuit, IInv, TypeOK, InOrder
  <1>6. QED
    BY <1>1, <1>2, <1>3, <1>4, <1>5 DEF Next, SessionThread, CtrlThread

LEMMA PinsRiseNext ==
  ASSUME IInv, Next
  PROVE  PinsRise'
  <1> USE DEF Go, Because, Stays, Flags, Step, CtrlGo, CtrlStays, CtrlQuiet, Fail, Frame, AppStays,
              shared, ctrlOwn, mail, app, thread, Bed, LoginPinRequested
  <1>1. CASE Start \/ RegistOk \/ RegistFails \/ RequestOk \/ RequestMismatch \/ RequestFails \/
           RequestCanceled \/ Create \/ Wait \/ CheckStop \/ CtrlOk \/ PinCheck \/ PinAsk \/
           PinWait \/ PinWoken \/ PinTake
    BY <1>1 DEF Start, RegistOk, RegistFails, RequestOk, RequestMismatch, RequestFails,
               RequestCanceled, Create, Wait, CheckStop, CtrlOk, PinCheck, PinAsk, PinWait,
               PinWoken, PinTake, IInv, TypeOK, InOrder, PinsRise
  <1>2. CASE PinForward \/ Punch \/ SidCheck \/ Fallback \/ FallbackEmit \/ FallbackWrite \/
           Senkusha \/ SenkushaStop \/ SenkushaCtrl \/ Switch \/ CheckSwitch \/ StreamStopped \/
           StreamEnds \/ Blame \/ StopCtrl \/ TakeCtrl \/ Join \/ QuitEvent
    BY <1>2 DEF PinForward, Punch, SidCheck, Fallback, FallbackEmit, FallbackWrite, Senkusha,
               SenkushaStop, SenkushaCtrl, Switch, CheckSwitch, StreamStopped, StreamEnds, Blame,
               StopCtrl, TakeCtrl, Join, QuitEvent, IInv, TypeOK, InOrder, PinsRise
  <1>3. CASE CtrlConnects \/ CtrlRefused \/ CtrlFailed \/ FrameSessionId \/ SidEmit \/ SidWrite \/
           FrameLoginPinReq \/ FrameLogin \/ FrameSwitch \/ FrameOverflow \/ FramesDone \/ Drain
           \/ CtrlCheck \/ RecvNothing \/ RecvEof \/ RecvFails \/ RecvFinish
    BY <1>3 DEF CtrlConnects, CtrlRefused, CtrlFailed, FrameSessionId, SidEmit, SidWrite,
               FrameLoginPinReq, FrameLogin, FrameSwitch, FrameOverflow, FramesDone, Drain,
               CtrlCheck, RecvNothing, RecvEof, RecvFails, RecvFinish, IInv, TypeOK, InOrder,
               PinsRise
  <1>4. CASE CtrlPin
    <2>1. CASE pins' = pins
      BY <2>1 DEF IInv, PinsRise
    <2>2. CASE pins' # pins
      <3>1. ASSUME NEW i \in DOMAIN pins', NEW j \in DOMAIN pins', i < j
            PROVE  pins'[i] < pins'[j]
        <4>1. i \in DOMAIN pins /\ pins'[i] = pins[i]
          BY <1>4, <2>2, <3>1, PinSent
        <4>2. CASE j = Len(pins) + 1
          BY <1>4, <2>2, <4>1, <4>2, PinSent DEF IInv, InOrder
        <4>3. CASE j # Len(pins) + 1
          <5>1. j \in DOMAIN pins /\ pins'[j] = pins[j]
            BY <1>4, <2>2, <3>1, <4>3, PinSent
          <5>2. QED
            BY <3>1, <4>1, <5>1 DEF IInv, PinsRise
        <4>4. QED
          BY <4>2, <4>3
      <3>2. QED
        BY <3>1 DEF PinsRise
    <2>3. QED
      BY <2>1, <2>2
  <1>5. CASE StopCall \/ EnterPin \/ BedButton \/ BedAtQuit
    BY <1>5 DEF StopCall, EnterPin, BedButton, BedAtQuit, IInv, TypeOK, InOrder, PinsRise
  <1>6. QED
    BY <1>1, <1>2, <1>3, <1>4, <1>5 DEF Next, SessionThread, CtrlThread

LEMMA PinTypes ==
  ASSUME IInv, Next
  PROVE  /\ login_pin' \in 0..prompts' /\ pin' \in 0..prompts'
         /\ mailbox' \in 0..prompts' /\ answered' \in 0..prompts'
  <1> USE DEF Go, Because, Stays, Flags, Step, CtrlGo, CtrlStays, CtrlQuiet, Fail, Frame, AppStays,
              shared, ctrlOwn, mail, app, thread, Bed, LoginPinRequested
  <1>1. CASE Start \/ RegistOk \/ RegistFails \/ RequestOk \/ RequestMismatch \/ RequestFails \/
           RequestCanceled \/ Create \/ Wait \/ CheckStop \/ CtrlOk \/ PinCheck \/ PinAsk \/
           PinWait \/ PinWoken \/ PinTake
    BY <1>1 DEF Start, RegistOk, RegistFails, RequestOk, RequestMismatch, RequestFails,
               RequestCanceled, Create, Wait, CheckStop, CtrlOk, PinCheck, PinAsk, PinWait,
               PinWoken, PinTake, IInv, TypeOK
  <1>2. CASE PinForward \/ Punch \/ SidCheck \/ Fallback \/ FallbackEmit \/ FallbackWrite \/
           Senkusha \/ SenkushaStop \/ SenkushaCtrl \/ Switch \/ CheckSwitch \/ StreamStopped \/
           StreamEnds \/ Blame \/ StopCtrl \/ TakeCtrl \/ Join \/ QuitEvent
    BY <1>2 DEF PinForward, Punch, SidCheck, Fallback, FallbackEmit, FallbackWrite, Senkusha,
               SenkushaStop, SenkushaCtrl, Switch, CheckSwitch, StreamStopped, StreamEnds, Blame,
               StopCtrl, TakeCtrl, Join, QuitEvent, IInv, TypeOK
  <1>3. CASE CtrlConnects \/ CtrlRefused \/ CtrlFailed \/ FrameSessionId \/ SidEmit \/ SidWrite \/
           FrameLoginPinReq \/ FrameLogin \/ FrameSwitch \/ FrameOverflow \/ FramesDone \/ Drain
           \/ CtrlPin \/ CtrlCheck \/ RecvNothing \/ RecvEof \/ RecvFails \/ RecvFinish
    BY <1>3 DEF CtrlConnects, CtrlRefused, CtrlFailed, FrameSessionId, SidEmit, SidWrite,
               FrameLoginPinReq, FrameLogin, FrameSwitch, FrameOverflow, FramesDone, Drain,
               CtrlPin, CtrlCheck, RecvNothing, RecvEof, RecvFails, RecvFinish, IInv, TypeOK
  <1>4. CASE StopCall \/ EnterPin \/ BedButton \/ BedAtQuit
    BY <1>4 DEF StopCall, EnterPin, BedButton, BedAtQuit, IInv, TypeOK
  <1>5. QED
    BY <1>1, <1>2, <1>3, <1>4 DEF Next, SessionThread, CtrlThread

\* More prompts allow what fewer allowed.
LEMMA PinsGrow ==
  ASSUME IInv, Next
  PROVE  pins \in Seq(1..prompts')
  <1>1. pins \in Seq(1..prompts) /\ 1..prompts \subseteq 1..prompts'
    BY CountTypes DEF IInv, TypeOK
  <1>2. QED
    BY <1>1, SeqMonotonic

LEMMA PinsTypes ==
  ASSUME IInv, Next
  PROVE  pins' \in Seq(1..prompts')
  <1> USE DEF Go, Because, Stays, Flags, Step, CtrlGo, CtrlStays, CtrlQuiet, Fail, Frame, AppStays,
              shared, ctrlOwn, mail, app, thread, Bed, LoginPinRequested
  <1>1. CASE SessionThread \/ StreamEnds
    <2>1. pins' = pins
      BY <1>1 DEF SessionThread, Start, RegistOk, RegistFails, RequestOk, RequestMismatch,
                 RequestFails, RequestCanceled, Create, Wait, CheckStop, CtrlOk, PinCheck, PinAsk,
                 PinWait, PinWoken, PinTake, PinForward, Punch, SidCheck, Fallback, FallbackEmit,
                 FallbackWrite, Senkusha, SenkushaStop, SenkushaCtrl, Switch, CheckSwitch,
                 StreamStopped, StreamEnds, Blame, StopCtrl, TakeCtrl, Join, QuitEvent
    <2>2. QED
      BY <2>1, PinsGrow
  <1>2. CASE CtrlConnects \/ CtrlRefused \/ CtrlFailed \/ FrameSessionId \/ SidEmit \/ SidWrite \/
           FrameLoginPinReq \/ FrameLogin \/ FrameSwitch \/ FrameOverflow \/ FramesDone \/ Drain
           \/ CtrlCheck \/ RecvNothing \/ RecvEof \/ RecvFails \/ RecvFinish
    <2>1. pins' = pins
      BY <1>2 DEF CtrlConnects, CtrlRefused, CtrlFailed, FrameSessionId, SidEmit, SidWrite,
                 FrameLoginPinReq, FrameLogin, FrameSwitch, FrameOverflow, FramesDone, Drain,
                 CtrlCheck, RecvNothing, RecvEof, RecvFails, RecvFinish
    <2>2. QED
      BY <2>1, PinsGrow
  <1>3. CASE CtrlPin
    <2>1. pins \in Seq(1..prompts)
      BY DEF IInv, TypeOK
    <2>2. QED
      BY <1>3, <2>1, PinSent
  <1>4. CASE StopCall \/ EnterPin \/ BedButton \/ BedAtQuit
    <2>1. pins' = pins
      BY <1>4 DEF StopCall, EnterPin, BedButton, BedAtQuit
    <2>2. QED
      BY <2>1, PinsGrow
  <1>5. QED
    BY <1>1, <1>2, <1>3, <1>4 DEF Next, CtrlThread

LEMMA TypeNext ==
  ASSUME IInv, Next
  PROVE  TypeOK'
  <1>1. prompts' \in 0..MaxMessages
    <2>1. prompts' <= asks'
      BY PromptsAskedNext, CountTypes DEF PromptsAsked
    <2>2. QED
      BY <2>1, CountTypes, MaxMessagesAssumption
  <1>2. QED
    BY <1>1, StepTypes, FlagTypes, OwnTypes, ReasonTypes, RestTypes, CountTypes, PinTypes, PinsTypes
       DEF TypeOK

\* The invariant is a conjunction; each step keeps each conjunct.
LEMMA SessionNext ==
  ASSUME IInv, [Next]_vars
  PROVE  IInv'
  <1>1. CASE Next
    BY <1>1, TypeNext, CtrlJoinedNext, PromptsAskedNext, InOrderNext, PinsRiseNext, SeenBeforeNext
       DEF IInv
  <1>2. CASE UNCHANGED vars
    BY <1>2 DEF vars, thread, shared, ctrlOwn, mail, app, IInv, TypeOK, CtrlJoined, PromptsAsked,
                InOrder, PinsRise, SeenBefore
  <1>3. QED
    BY <1>1, <1>2

\* The variables keep their types, however many messages the console sends.
THEOREM SessionTypes == Spec => []TypeOK
  <1>1. IInv => TypeOK
    BY DEF IInv
  <1>2. QED
    BY <1>1, SessionInit, SessionNext, PTL DEF Spec

\* No event follows the Quit event: every way out of session_thread_func that started the
\* ctrl thread has joined it.
THEOREM NothingFollowsQuit == Spec => []NothingAfterQuit
  <1>1. IInv => NothingAfterQuit
    BY DEF IInv, CtrlJoined, AfterJoin, NothingAfterQuit
  <1>2. QED
    BY <1>1, SessionInit, SessionNext, PTL DEF Spec

\* However often the console asks and whenever the user answers, nobody is prompted unasked
\* and no PIN of a former prompt answers a later one.
THEOREM PinsAlwaysAnswer == Spec => []PinsAnswerPrompts
  <1>1. IInv => PinsAnswerPrompts
    BY DEF IInv, TypeOK, PromptsAsked, PinsRise, PinsAnswerPrompts
  <1>2. QED
    BY <1>1, SessionInit, SessionNext, PTL DEF Spec

\* The stream is never started without a session id, nor over PSN before the console has
\* acknowledged the switch.
THEOREM StreamHasSession == Spec => []StreamNeedsSession
  <1>1. IInv => StreamNeedsSession
    BY DEF IInv, SeenBefore, StreamNeedsSession
  <1>2. QED
    BY <1>1, SessionInit, SessionNext, PTL DEF Spec
=============================================================================
