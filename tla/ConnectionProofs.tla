-------------------------- MODULE ConnectionProofs --------------------------
(***************************************************************************)
(* The ways to a console for every value of the constants, each first by   *)
(* itself and then as Connection runs them.                                *)
(*                                                                         *)
(* Registration: the registrations are kept.  The settings alone keep them *)
(* (an inductive invariant), and the attempts, the wizard and the command  *)
(* line do nothing to the settings that the settings do not allow (a step  *)
(* simulation).  StreamConnection: run() says Connected only when the keys *)
(* are installed and the STREAMINFO was answered, and when it is done      *)
(* nothing of its Takion is left.  Senkusha: the MTU found is the path's.  *)
(* Holepunch: for any number of repeated OFFERs, with any order of the two *)
(* threads, the user, PSN and the console, the holes are agreed on and no  *)
(* OFFER is lost between the threads.                                      *)
(***************************************************************************)
EXTENDS Connection, SequenceTheorems, TLAPS
-----------------------------------------------------------------------------
(* Registration *)

\* Type correctness is part of the invariant: what a save writes is a record with the
\* fields that are read later.
Kept == RegistryTypeOK /\ ProfileKept

LEMMA EmptyIsStore == Empty \in Stores /\ None \in [Consoles -> Keys \cup {0}]
  <1>1. None \in [Consoles -> Keys \cup {0}]
    BY DEF None
  <1>2. QED
    BY <1>1 DEF Empty, Stores, Profiles

LEMMA KeptInit == RegistryInit => Kept
  <1>1. Empty.registered = None
    BY DEF Empty
  <1>2. QED
    BY <1>1, EmptyIsStore DEF RegistryInit, Kept, RegistryTypeOK, ProfileKept

\* A save, whether it succeeds, leaves the file right if it says so.
LEMMA SaveKeeps ==
  ASSUME Kept, NEW s \in Stores, Saves(s) \/ SaveFails(s)
  PROVE  /\ file' \in Stores /\ saved' \in BOOLEAN
         /\ saved' => file' = s
  BY EmptyIsStore DEF Kept, RegistryTypeOK, Saves, SaveFails

\* A change of the registered consoles makes the list in memory the one of the profile.
LEMMA RegisterKeeps ==
  ASSUME Kept, NEW registered \in [Consoles -> Keys \cup {0}], Register(registered),
         Saves(store') \/ SaveFails(store')
  PROVE  Kept'
  <1>1. /\ store' \in Stores /\ store'.registered = own'
        /\ memory' = own' /\ own' \in [Consoles -> Keys \cup {0}]
        /\ astray' \in BOOLEAN /\ backup' = backup
    BY DEF Kept, RegistryTypeOK, Register, Stores
  <1>2. /\ file' \in Stores /\ saved' \in BOOLEAN
        /\ saved' => file' = store'
    BY <1>1, SaveKeeps
  <1>3. QED
    BY <1>1, <1>2 DEF Kept, RegistryTypeOK, ProfileKept

\* An import of a file that is there, or none: Missing would wipe the list.
LEMMA ImportsKeep ==
  ASSUME Kept, Missing = FALSE, ImportOwn \/ ImportInto
  PROVE  Kept'
  <1>1. CASE ImportOwn
    <2>1. /\ backup \in Stores /\ own' = backup.registered /\ backup' = backup
      BY <1>1 DEF ImportOwn, Kept, RegistryTypeOK
    <2>2. /\ store' \in Stores /\ store'.registered = own' /\ memory' = own'
          /\ own' \in [Consoles -> Keys \cup {0}] /\ astray' \in BOOLEAN
      BY <1>1, <2>1 DEF ImportOwn, Stores, Profiles
    <2>3. Saves(store') \/ SaveFails(store')
      BY <1>1 DEF ImportOwn
    <2>4. /\ file' \in Stores /\ saved' \in BOOLEAN
          /\ saved' => file' = store'
      BY <2>2, <2>3, SaveKeeps
    <2>5. RegistryTypeOK'
      BY <2>1, <2>2, <2>4 DEF Kept, RegistryTypeOK
    <2>6. ProfileKept'
      BY <2>2, <2>4 DEF ProfileKept
    <2>7. QED
      BY <2>5, <2>6 DEF Kept
  <1>2. CASE ImportInto
    <2>1. backup # NoBackup
      BY <1>2 DEF ImportInto, NoBackup
    <2> /\ backup \in Stores /\ backup' = backup /\ own' = own
        /\ memory' = backup.registered /\ astray' = TRUE
        /\ memory' \in [Consoles -> Keys \cup {0}]
      BY <1>2, <2>1 DEF ImportInto, Kept, RegistryTypeOK, Stores
    <2>2. store' \in Stores /\ store'.registered = own'
      BY <1>2 DEF ImportInto, Kept, RegistryTypeOK, ProfileKept, Stores, Profiles
    <2>3. /\ file' \in Stores /\ saved' \in BOOLEAN
          /\ saved' => file'.registered = own'
      <3>1. CASE Saves(store') \/ SaveFails(store')
        BY <3>1, <2>2, SaveKeeps
      <3>2. CASE UNCHANGED <<store, file, saved>>
        BY <3>2 DEF Kept, RegistryTypeOK, ProfileKept
      <3>3. QED
        BY <1>2, <3>1, <3>2 DEF ImportInto
    <2>4. RegistryTypeOK'
      BY <2>2, <2>3 DEF Kept, RegistryTypeOK
    <2>5. ProfileKept'
      BY <2>2, <2>3 DEF ProfileKept
    <2>6. QED
      BY <2>4, <2>5 DEF Kept
  <1>3. QED
    BY <1>1, <1>2

\* The operations on profiles, the export, and a restart.
LEMMA OthersKeep ==
  ASSUME Kept,
         \/ ChangeOther \/ (\E p \in Profiles : SetCurrent(p))
         \/ DeleteProfile \/ Export \/ Restart
  PROVE  Kept'
  <1>1. CASE ChangeOther
    <2>1. /\ file' \in Stores /\ saved' \in BOOLEAN
          /\ saved' => file' = store
      <3>1. store \in Stores /\ (Saves(store) \/ SaveFails(store))
        BY <1>1 DEF ChangeOther, Kept, RegistryTypeOK
      <3>2. QED
        BY <3>1, SaveKeeps
    <2>2. RegistryTypeOK'
      BY <1>1, <2>1 DEF ChangeOther, Kept, RegistryTypeOK
    <2>3. ProfileKept'
      BY <1>1, <2>1 DEF ChangeOther, Kept, ProfileKept
    <2>4. QED
      BY <2>2, <2>3 DEF Kept
  <1>2. CASE \E p \in Profiles : SetCurrent(p)
    <2>1. PICK p \in Profiles : SetCurrent(p)
      BY <1>2
    <2>2. store' \in Stores /\ store'.registered = store.registered
      BY <2>1 DEF SetCurrent, Kept, RegistryTypeOK, Stores
    <2>3. /\ file' \in Stores /\ saved' \in BOOLEAN
          /\ saved' => file' = store'
      BY <2>1, <2>2, SaveKeeps DEF SetCurrent
    <2>4. RegistryTypeOK'
      BY <2>1, <2>2, <2>3 DEF SetCurrent, Kept, RegistryTypeOK
    <2>5. ProfileKept'
      BY <2>1, <2>2, <2>3 DEF SetCurrent, Kept, ProfileKept
    <2>6. QED
      BY <2>4, <2>5 DEF Kept
  <1>3. CASE DeleteProfile
    <2>1. /\ memory' \in [Consoles -> Keys \cup {0}] /\ astray' \in BOOLEAN
          /\ own' = own
          /\ ~astray' => memory' = store.registered
      BY <1>3, EmptyIsStore DEF DeleteProfile, Reload, Kept, RegistryTypeOK, ProfileKept, Stores
    <2>2. QED
      BY <1>3, <2>1 DEF DeleteProfile, Kept, RegistryTypeOK, ProfileKept
  <1>4. CASE Export
    BY <1>4 DEF Export, Kept, RegistryTypeOK, ProfileKept
  <1>5. CASE Restart
    BY <1>5 DEF Restart, Kept, RegistryTypeOK, ProfileKept, Stores
  <1>6. QED
    BY <1>1, <1>2, <1>3, <1>4, <1>5

LEMMA KeptNext ==
  ASSUME Kept, Missing = FALSE, [RegistryNext]_registryVars
  PROVE  Kept'
  <1>1. CASE \E c \in Consoles, key \in Keys : AddSaved(c, key) \/ AddUnsaved(c, key)
    <2>1. PICK c \in Consoles, key \in Keys : AddSaved(c, key) \/ AddUnsaved(c, key)
      BY <1>1
    <2>2. [memory EXCEPT ![c] = key] \in [Consoles -> Keys \cup {0}]
      BY DEF Kept, RegistryTypeOK
    <2>3. QED
      BY <2>1, <2>2, RegisterKeeps DEF AddSaved, AddUnsaved, Add
  <1>2. CASE \E c \in Consoles : Remove(c) \/ Rename(c)
    <2>1. PICK c \in Consoles : Remove(c) \/ Rename(c)
      BY <1>2
    <2>2. /\ [memory EXCEPT ![c] = 0] \in [Consoles -> Keys \cup {0}]
          /\ memory \in [Consoles -> Keys \cup {0}]
      BY DEF Kept, RegistryTypeOK
    <2>3. QED
      BY <2>1, <2>2, RegisterKeeps DEF Remove, Rename
  <1>3. CASE ImportOwn \/ ImportInto
    BY <1>3, ImportsKeep
  <1>4. CASE ChangeOther \/ (\E p \in Profiles : SetCurrent(p)) \/ DeleteProfile \/ Export \/ Restart
    BY <1>4, OthersKeep
  <1>5. CASE UNCHANGED registryVars
    BY <1>5 DEF registryVars, Kept, RegistryTypeOK, ProfileKept
  <1>6. QED
    BY <1>1, <1>2, <1>3, <1>4, <1>5 DEF RegistryNext, User

\* What the user registered is kept: in the list the pages show unless it went astray,
\* and on the disk after every save that succeeded.
THEOREM RegistryKeeps ==
  ASSUME Missing = FALSE
  PROVE  RegistrySpec => []ProfileKept
  <1>1. RegistryInit => Kept
    BY KeptInit
  <1>2. Kept /\ [RegistryNext]_registryVars => Kept'
    BY KeptNext
  <1>3. Kept => ProfileKept
    BY DEF Kept
  <1>4. QED
    BY <1>1, <1>2, <1>3, PTL DEF RegistrySpec
-----------------------------------------------------------------------------
\* What an attempt, the wizard or the command line does to the settings is an operation
\* of the settings, or nothing: an attempt registers under a key of its own.
LEMMA FlowStep ==
  ASSUME Attempts \in Nat, 1 .. Attempts + 1 \subseteq Keys, FlowNext
  PROVE  [RegistryNext]_registryVars
  <1>1. CASE \E a \in Flows : Passes(a) \/ Ends(a) \/ Tell(a) \/ JoinThread(a)
    BY <1>1 DEF Passes, Ends, Tell, JoinThread
  <1>2. CASE \E a \in Flows : Store(a)
    <2>1. PICK a \in Flows : Store(a)
      BY <1>2
    <2>2. a \in Keys
      BY <2>1 DEF Store, Flows, Cli
    <2>3. QED
      BY <2>1, <2>2 DEF Store, RegistryNext
  <1>3. CASE Open \/ Forward \/ RegisterButton \/ Back \/ Close \/ RunCli \/ StopCli
    BY <1>3 DEF Open, Forward, RegisterButton, Back, Close, RunCli, StopCli, Begin
  <1>4. CASE Elsewhere
    BY <1>4 DEF Elsewhere, RegistryNext
  <1>5. CASE Again
    BY <1>5 DEF Again, RegistryNext
  <1>6. QED
    BY <1>1, <1>2, <1>3, <1>4, <1>5 DEF FlowNext, Thread

\* Registering consoles implements the settings: whatever the attempts, the wizard, the
\* streams and the restarts do is a behaviour of Registry.
THEOREM FlowImplements ==
  ASSUME Attempts \in Nat, 1 .. Attempts + 1 \subseteq Keys
  PROVE  FlowSpec => RegistrySpec
  <1>1. FlowInit => RegistryInit
    BY DEF FlowInit
  <1>2. [FlowNext]_flowVars => [RegistryNext]_registryVars
    BY FlowStep DEF flowVars, registryVars
  <1>3. QED
    BY <1>1, <1>2, PTL DEF FlowSpec, RegistrySpec

\* So the registrations that attempts make are kept.
THEOREM FlowKeeps ==
  ASSUME Attempts \in Nat, 1 .. Attempts + 1 \subseteq Keys, Missing = FALSE
  PROVE  FlowSpec => []ProfileKept
  BY FlowImplements, RegistryKeeps, PTL
-----------------------------------------------------------------------------
(* StreamConnection *)

\* The steps of run() by the state they leave the connection in, those after
\* finish_disconnect apart: there the state is the one in which run() gave up.
ConnectSteps == {"spawn", "publish", "congestion", "wait_connect", "check_connect"}
BangSteps    == {"big", "wait_bang", "check_bang", "bang_finished", "switch"}
InfoSteps    == {"early", "info_finished", "wait_info", "check_info", "info_arrived",
                 "feedback", "go_idle"}
IdleSteps    == {"connected", "idle", "stop_feedback"}
EndSteps     == {"finish", "result"}

\* The steps during which the members are published in shared.
SharedSteps == {"congestion", "wait_connect", "check_connect"} \cup BangSteps \cup InfoSteps
                 \cup IdleSteps \cup EndSteps

\* The state is that of the step, so that no message is taken for one of another phase.
StateOfStep ==
  /\ pc \in {"start", "connect"} => state = "idle"
  /\ pc \in ConnectSteps => state = "takion_connect"
  /\ pc \in BangSteps    => state = "expect_bang"
  /\ pc \in InfoSteps    => state = "expect_streaminfo"
  /\ pc \in IdleSteps    => state = "idle"

\* The flag that ends the wait of a phase is raised by its message only, which has
\* done its work by then.
FinishedMeansDone ==
  /\ pc \in BangSteps /\ state_finished => crypt
  /\ pc = "switch" => crypt
  /\ pc \in InfoSteps \cup IdleSteps => crypt
  /\ pc \in InfoSteps /\ state_finished => ready
  /\ pc \in {"feedback", "go_idle"} \cup IdleSteps => ready
  /\ connected => crypt /\ ready

\* The receive thread has the mutex while it is inside the STREAMINFO handler, which
\* it enters in one state only, and its own Arc for one step of it.
HandlerLocks ==
  /\ recv # "no" => mutex = "recv" /\ takion = "loop" /\ state = "expect_streaminfo"
  /\ mutex = "recv" => recv # "no"
  /\ "recv" \in holders => recv = "send"

\* Who has an Arc<Takion> at which step.
HeldBySteps ==
  /\ {"shared", "self", "audio", "congestion"} \cap holders # {} =>
       pc \in SharedSteps \cup {"teardown"}
  /\ pc \in SharedSteps => "shared" \in holders
  /\ "feedback" \in holders => pc \in {"go_idle"} \cup IdleSteps
  /\ takion # "none" /\ pc \notin {"join", "done"} => "run" \in holders
  /\ takion = "none" => pc \in {"start", "connect", "spawn", "teardown", "free", "drop", "done"}
                        /\ holders = {}
  /\ pc \in {"start", "connect", "spawn"} => takion = "none"
  /\ pc = "drop" => "recv" \notin holders
  /\ pc \in {"join", "done"} => holders = {}

\* The end of teardown.
LeftBehind ==
  /\ closer # "recv"
  /\ pc \in {"drop", "join", "done"} => ~receivers
  /\ pc = "start" => ~receivers
  /\ pc = "done" => takion \in {"none", "dead"}

IInv == /\ TypeOK /\ StateOfStep /\ FinishedMeansDone /\ HandlerLocks /\ HeldBySteps
        /\ LeftBehind

-----------------------------------------------------------------------------
\* The invariant is a conjunction; each step keeps each conjunct.
LEMMA StreamInit == Init => IInv
  <1>1. Init => TypeOK
    <2>1. <<>> \in Seq(Kinds)
      OBVIOUS
    <2>2. Init => pc \in Steps /\ result \in Results /\ state \in States /\ holders \subseteq Holders
      BY DEF Init, Steps, States, Results
    <2>3. QED
      BY <2>1, <2>2 DEF Init, TypeOK
  <1>2. Init => StateOfStep /\ FinishedMeansDone /\ HandlerLocks /\ HeldBySteps /\ LeftBehind
    BY DEF Init, StateOfStep, FinishedMeansDone, HandlerLocks, HeldBySteps, LeftBehind,
           ConnectSteps, BangSteps, InfoSteps, IdleSteps, EndSteps, SharedSteps
  <1>3. QED
    BY <1>1, <1>2 DEF IInv

LEMMA StepTypes ==
  ASSUME TypeOK, Next
  PROVE  pc' \in Steps /\ state' \in States /\ result' \in Results
  <1> USE DEF Go, Give, Enter, Finished, Receive, scState, wire, lifetime, outcome
  <1>1. CASE Start \/ Connect \/ Spawn \/ Publish \/ StartCongestionControl \/ Wait \/
           CheckConnect
    BY <1>1 DEF Start, Connect, Spawn, Publish, StartCongestionControl, Wait,
          CheckConnect, TypeOK, Steps, States, Results
  <1>2. CASE SendBig \/ CheckStop \/ CheckFinished \/ SwitchToStreaminfo \/ ProcessEarly
           \/ StartFeedback
    BY <1>2 DEF SendBig, CheckStop, CheckFinished, SwitchToStreaminfo, ProcessEarly,
          StartFeedback, TypeOK, Steps, States, Results
  <1>3. CASE GoIdle \/ FireConnected \/ LeaveIdle \/ StopFeedback \/ ForgetEarly \/
           Finish
    BY <1>3 DEF GoIdle, FireConnected, LeaveIdle, StopFeedback, ForgetEarly, Finish,
          TypeOK, Steps, States, Results
  <1>4. CASE Teardown \/ FreeReceivers \/ DropRun \/ Join
    BY <1>4 DEF Teardown, FreeReceivers, DropRun, Join, TypeOK, Steps, States, Results
  <1>5. CASE Stop \/ (\E k \in Kinds : ConsoleSend(k)) \/ HandshakeDone \/
           HandshakeFails \/ LoopEnds
    BY <1>5 DEF Stop, ConsoleSend, HandshakeDone, HandshakeFails, LoopEnds, TypeOK,
          Steps, States, Results
  <1>6. CASE ReceiveDisconnect \/ ReceiveBang \/ ReceiveBadBang \/ ReceiveEarly \/
           ReceiveInfo \/ ReceiveBadInfo \/ ReceiveIgnored
    BY <1>6 DEF ReceiveDisconnect, ReceiveBang, ReceiveBadBang, ReceiveEarly,
          ReceiveInfo, ReceiveBadInfo, ReceiveIgnored, TypeOK, Steps, States, Results
  <1>7. CASE HeaderCallback \/ CloneTakion \/ AnswerInfo
    BY <1>7 DEF HeaderCallback, CloneTakion, AnswerInfo, TypeOK, Steps, States, Results
  <1>8. QED
    BY <1>1, <1>2, <1>3, <1>4, <1>5, <1>6, <1>7 DEF Next, Run, Handlers

LEMMA FlagTypes ==
  ASSUME TypeOK, Next
  PROVE  /\ state_finished' \in BOOLEAN /\ state_failed' \in BOOLEAN
         /\ should_stop' \in BOOLEAN /\ remote_disconnected' \in BOOLEAN
         /\ stop_pipe' \in BOOLEAN
  <1> USE DEF Go, Give, Enter, Finished, Receive, scState, wire, lifetime, outcome
  <1>1. CASE Start \/ Connect \/ Spawn \/ Publish \/ StartCongestionControl \/ Wait \/
           CheckConnect
    BY <1>1 DEF Start, Connect, Spawn, Publish, StartCongestionControl, Wait,
          CheckConnect, TypeOK
  <1>2. CASE SendBig \/ CheckStop \/ CheckFinished \/ SwitchToStreaminfo \/ ProcessEarly
           \/ StartFeedback
    BY <1>2 DEF SendBig, CheckStop, CheckFinished, SwitchToStreaminfo, ProcessEarly,
          StartFeedback, TypeOK
  <1>3. CASE GoIdle \/ FireConnected \/ LeaveIdle \/ StopFeedback \/ ForgetEarly \/
           Finish
    BY <1>3 DEF GoIdle, FireConnected, LeaveIdle, StopFeedback, ForgetEarly, Finish,
          TypeOK
  <1>4. CASE Teardown \/ FreeReceivers \/ DropRun \/ Join
    BY <1>4 DEF Teardown, FreeReceivers, DropRun, Join, TypeOK
  <1>5. CASE Stop \/ (\E k \in Kinds : ConsoleSend(k)) \/ HandshakeDone \/
           HandshakeFails \/ LoopEnds
    BY <1>5 DEF Stop, ConsoleSend, HandshakeDone, HandshakeFails, LoopEnds, TypeOK
  <1>6. CASE ReceiveDisconnect \/ ReceiveBang \/ ReceiveBadBang \/ ReceiveEarly \/
           ReceiveInfo \/ ReceiveBadInfo \/ ReceiveIgnored
    BY <1>6 DEF ReceiveDisconnect, ReceiveBang, ReceiveBadBang, ReceiveEarly,
          ReceiveInfo, ReceiveBadInfo, ReceiveIgnored, TypeOK
  <1>7. CASE HeaderCallback \/ CloneTakion \/ AnswerInfo
    BY <1>7 DEF HeaderCallback, CloneTakion, AnswerInfo, TypeOK
  <1>8. QED
    BY <1>1, <1>2, <1>3, <1>4, <1>5, <1>6, <1>7 DEF Next, Run, Handlers

LEMMA OutcomeTypes ==
  ASSUME TypeOK, Next
  PROVE  /\ asked' \in BOOLEAN /\ crypt' \in BOOLEAN /\ ready' \in BOOLEAN
         /\ receivers' \in BOOLEAN /\ connected' \in BOOLEAN
  <1> USE DEF Go, Give, Enter, Finished, Receive, scState, wire, lifetime, outcome
  <1>1. CASE Start \/ Connect \/ Spawn \/ Publish \/ StartCongestionControl \/ Wait \/
           CheckConnect
    BY <1>1 DEF Start, Connect, Spawn, Publish, StartCongestionControl, Wait,
          CheckConnect, TypeOK
  <1>2. CASE SendBig \/ CheckStop \/ CheckFinished \/ SwitchToStreaminfo \/ ProcessEarly
           \/ StartFeedback
    BY <1>2 DEF SendBig, CheckStop, CheckFinished, SwitchToStreaminfo, ProcessEarly,
          StartFeedback, TypeOK
  <1>3. CASE GoIdle \/ FireConnected \/ LeaveIdle \/ StopFeedback \/ ForgetEarly \/
           Finish
    BY <1>3 DEF GoIdle, FireConnected, LeaveIdle, StopFeedback, ForgetEarly, Finish,
          TypeOK
  <1>4. CASE Teardown \/ FreeReceivers \/ DropRun \/ Join
    BY <1>4 DEF Teardown, FreeReceivers, DropRun, Join, TypeOK
  <1>5. CASE Stop \/ (\E k \in Kinds : ConsoleSend(k)) \/ HandshakeDone \/
           HandshakeFails \/ LoopEnds
    BY <1>5 DEF Stop, ConsoleSend, HandshakeDone, HandshakeFails, LoopEnds, TypeOK
  <1>6. CASE ReceiveDisconnect \/ ReceiveBang \/ ReceiveBadBang \/ ReceiveEarly \/
           ReceiveInfo \/ ReceiveBadInfo \/ ReceiveIgnored
    BY <1>6 DEF ReceiveDisconnect, ReceiveBang, ReceiveBadBang, ReceiveEarly,
          ReceiveInfo, ReceiveBadInfo, ReceiveIgnored, TypeOK
  <1>7. CASE HeaderCallback \/ CloneTakion \/ AnswerInfo
    BY <1>7 DEF HeaderCallback, CloneTakion, AnswerInfo, TypeOK
  <1>8. QED
    BY <1>1, <1>2, <1>3, <1>4, <1>5, <1>6, <1>7 DEF Next, Run, Handlers

LEMMA ThreadTypes ==
  ASSUME TypeOK, Next
  PROVE  /\ early' \in {"none", "info", "badinfo"} /\ mutex' \in {"nobody", "recv"}
         /\ takion' \in {"none", "handshake", "loop", "dead"}
         /\ recv' \in {"no", "header", "clone", "send", "stuck"}
         /\ closer' \in {"nobody", "run", "recv"}
  <1> USE DEF Go, Give, Enter, Finished, Receive, scState, wire, lifetime, outcome
  <1>1. CASE Start \/ Connect \/ Spawn \/ Publish \/ StartCongestionControl \/ Wait \/
           CheckConnect
    BY <1>1 DEF Start, Connect, Spawn, Publish, StartCongestionControl, Wait,
          CheckConnect, TypeOK
  <1>2. CASE SendBig \/ CheckStop \/ CheckFinished \/ SwitchToStreaminfo \/ ProcessEarly
           \/ StartFeedback
    BY <1>2 DEF SendBig, CheckStop, CheckFinished, SwitchToStreaminfo, ProcessEarly,
          StartFeedback, TypeOK
  <1>3. CASE GoIdle \/ FireConnected \/ LeaveIdle \/ StopFeedback \/ ForgetEarly \/
           Finish
    BY <1>3 DEF GoIdle, FireConnected, LeaveIdle, StopFeedback, ForgetEarly, Finish,
          TypeOK
  <1>4. CASE Teardown \/ FreeReceivers \/ DropRun \/ Join
    BY <1>4 DEF Teardown, FreeReceivers, DropRun, Join, TypeOK
  <1>5. CASE Stop \/ (\E k \in Kinds : ConsoleSend(k)) \/ HandshakeDone \/
           HandshakeFails \/ LoopEnds
    BY <1>5 DEF Stop, ConsoleSend, HandshakeDone, HandshakeFails, LoopEnds, TypeOK
  <1>6. CASE ReceiveDisconnect \/ ReceiveBang \/ ReceiveBadBang \/ ReceiveEarly \/
           ReceiveInfo \/ ReceiveBadInfo \/ ReceiveIgnored
    BY <1>6 DEF ReceiveDisconnect, ReceiveBang, ReceiveBadBang, ReceiveEarly,
          ReceiveInfo, ReceiveBadInfo, ReceiveIgnored, TypeOK
  <1>7. CASE HeaderCallback \/ CloneTakion \/ AnswerInfo
    BY <1>7 DEF HeaderCallback, CloneTakion, AnswerInfo, TypeOK
  <1>8. QED
    BY <1>1, <1>2, <1>3, <1>4, <1>5, <1>6, <1>7 DEF Next, Run, Handlers

LEMMA HolderTypes ==
  ASSUME TypeOK, Next
  PROVE  holders' \subseteq Holders
  <1> USE DEF Go, Give, Enter, Finished, Receive, scState, wire, lifetime, outcome
  <1>1. CASE Start \/ Connect \/ Spawn \/ Publish \/ StartCongestionControl \/ Wait \/
           CheckConnect
    BY <1>1 DEF Start, Connect, Spawn, Publish, StartCongestionControl, Wait,
          CheckConnect, TypeOK, Holders
  <1>2. CASE SendBig \/ CheckStop \/ CheckFinished \/ SwitchToStreaminfo \/ ProcessEarly
           \/ StartFeedback
    BY <1>2 DEF SendBig, CheckStop, CheckFinished, SwitchToStreaminfo, ProcessEarly,
          StartFeedback, TypeOK, Holders
  <1>3. CASE GoIdle \/ FireConnected \/ LeaveIdle \/ StopFeedback \/ ForgetEarly \/
           Finish
    BY <1>3 DEF GoIdle, FireConnected, LeaveIdle, StopFeedback, ForgetEarly, Finish,
          TypeOK, Holders
  <1>4. CASE Teardown \/ FreeReceivers \/ DropRun \/ Join
    BY <1>4 DEF Teardown, FreeReceivers, DropRun, Join, TypeOK, Holders
  <1>5. CASE Stop \/ (\E k \in Kinds : ConsoleSend(k)) \/ HandshakeDone \/
           HandshakeFails \/ LoopEnds
    BY <1>5 DEF Stop, ConsoleSend, HandshakeDone, HandshakeFails, LoopEnds, TypeOK,
          Holders
  <1>6. CASE ReceiveDisconnect \/ ReceiveBang \/ ReceiveBadBang \/ ReceiveEarly \/
           ReceiveInfo \/ ReceiveBadInfo \/ ReceiveIgnored
    BY <1>6 DEF ReceiveDisconnect, ReceiveBang, ReceiveBadBang, ReceiveEarly,
          ReceiveInfo, ReceiveBadInfo, ReceiveIgnored, TypeOK, Holders
  <1>7. CASE HeaderCallback \/ CloneTakion \/ AnswerInfo
    BY <1>7 DEF HeaderCallback, CloneTakion, AnswerInfo, TypeOK, Holders
  <1>8. QED
    BY <1>1, <1>2, <1>3, <1>4, <1>5, <1>6, <1>7 DEF Next, Run, Handlers

LEMMA WireTypes ==
  ASSUME TypeOK, Next
  PROVE  inbox' \in Seq(Kinds) /\ sentKinds' \in Seq(Kinds)
  <1> USE DEF Go, Give, Enter, Finished, Receive, scState, wire, lifetime, outcome
  <1>1. CASE Start \/ Connect \/ Spawn \/ Publish \/ StartCongestionControl \/ Wait \/
           CheckConnect
    BY <1>1 DEF Start, Connect, Spawn, Publish, StartCongestionControl, Wait,
          CheckConnect, TypeOK
  <1>2. CASE SendBig \/ CheckStop \/ CheckFinished \/ SwitchToStreaminfo \/ ProcessEarly
           \/ StartFeedback
    BY <1>2 DEF SendBig, CheckStop, CheckFinished, SwitchToStreaminfo, ProcessEarly,
          StartFeedback, TypeOK
  <1>3. CASE GoIdle \/ FireConnected \/ LeaveIdle \/ StopFeedback \/ ForgetEarly \/
           Finish
    BY <1>3 DEF GoIdle, FireConnected, LeaveIdle, StopFeedback, ForgetEarly, Finish,
          TypeOK
  <1>4. CASE Teardown \/ FreeReceivers \/ DropRun \/ Join
    BY <1>4 DEF Teardown, FreeReceivers, DropRun, Join, TypeOK
  <1>5. CASE Stop \/ (\E k \in Kinds : ConsoleSend(k)) \/ HandshakeDone \/
           HandshakeFails \/ LoopEnds
    <2>1. ASSUME NEW k \in Kinds, ConsoleSend(k)
          PROVE  inbox' \in Seq(Kinds) /\ sentKinds' \in Seq(Kinds)
      BY <2>1 DEF ConsoleSend, TypeOK
    <2>2. CASE Stop \/ HandshakeDone \/ HandshakeFails \/ LoopEnds
      BY <2>2 DEF Stop, HandshakeDone, HandshakeFails, LoopEnds, TypeOK
    <2>3. QED
      BY <1>5, <2>1, <2>2
  <1>6. CASE ReceiveDisconnect \/ ReceiveBang \/ ReceiveBadBang \/ ReceiveEarly \/
           ReceiveInfo \/ ReceiveBadInfo \/ ReceiveIgnored
    <2>1. \E k \in Kinds, in \in SUBSET States : Receive(k, in)
      BY <1>6 DEF ReceiveDisconnect, ReceiveBang, ReceiveBadBang, ReceiveEarly, ReceiveInfo,
               ReceiveBadInfo, ReceiveIgnored, Kinds, States
    <2>2. QED
      BY <2>1 DEF TypeOK
  <1>7. CASE HeaderCallback \/ CloneTakion \/ AnswerInfo
    BY <1>7 DEF HeaderCallback, CloneTakion, AnswerInfo, TypeOK
  <1>8. QED
    BY <1>1, <1>2, <1>3, <1>4, <1>5, <1>6, <1>7 DEF Next, Run, Handlers

LEMMA TypeNext == ASSUME TypeOK, Next PROVE TypeOK'
  BY StepTypes, FlagTypes, OutcomeTypes, ThreadTypes, HolderTypes, WireTypes DEF TypeOK

LEMMA StateOfStepNext ==
  ASSUME IInv, Next
  PROVE  StateOfStep'
  <1> USE DEF Go, Give, Enter, Finished, Receive, scState, wire, lifetime, outcome
  <1>1. CASE Start \/ Connect \/ Spawn \/ Publish \/ StartCongestionControl \/ Wait \/
           CheckConnect
    BY <1>1 DEF Start, Connect, Spawn, Publish, StartCongestionControl, Wait,
          CheckConnect, IInv, StateOfStep, HandlerLocks, ConnectSteps, BangSteps,
          InfoSteps, IdleSteps, EndSteps, SharedSteps
  <1>2. CASE SendBig \/ CheckStop \/ CheckFinished \/ SwitchToStreaminfo \/ ProcessEarly
           \/ StartFeedback
    BY <1>2 DEF SendBig, CheckStop, CheckFinished, SwitchToStreaminfo, ProcessEarly,
          StartFeedback, IInv, StateOfStep, HandlerLocks, ConnectSteps, BangSteps,
          InfoSteps, IdleSteps, EndSteps, SharedSteps
  <1>3. CASE GoIdle \/ FireConnected \/ LeaveIdle \/ StopFeedback \/ ForgetEarly \/
           Finish
    BY <1>3 DEF GoIdle, FireConnected, LeaveIdle, StopFeedback, ForgetEarly, Finish,
          IInv, StateOfStep, HandlerLocks, ConnectSteps, BangSteps, InfoSteps,
          IdleSteps, EndSteps, SharedSteps
  <1>4. CASE Teardown \/ FreeReceivers \/ DropRun \/ Join
    BY <1>4 DEF Teardown, FreeReceivers, DropRun, Join, IInv, StateOfStep, HandlerLocks,
          ConnectSteps, BangSteps, InfoSteps, IdleSteps, EndSteps, SharedSteps
  <1>5. CASE Stop \/ (\E k \in Kinds : ConsoleSend(k)) \/ HandshakeDone \/
           HandshakeFails \/ LoopEnds
    BY <1>5 DEF Stop, ConsoleSend, HandshakeDone, HandshakeFails, LoopEnds, IInv,
          StateOfStep, HandlerLocks, ConnectSteps, BangSteps, InfoSteps, IdleSteps,
          EndSteps, SharedSteps
  <1>6. CASE ReceiveDisconnect \/ ReceiveBang \/ ReceiveBadBang \/ ReceiveEarly \/
           ReceiveInfo \/ ReceiveBadInfo \/ ReceiveIgnored
    BY <1>6 DEF ReceiveDisconnect, ReceiveBang, ReceiveBadBang, ReceiveEarly,
          ReceiveInfo, ReceiveBadInfo, ReceiveIgnored, IInv, StateOfStep, HandlerLocks,
          ConnectSteps, BangSteps, InfoSteps, IdleSteps, EndSteps, SharedSteps
  <1>7. CASE HeaderCallback \/ CloneTakion \/ AnswerInfo
    BY <1>7 DEF HeaderCallback, CloneTakion, AnswerInfo, IInv, StateOfStep,
          HandlerLocks, ConnectSteps, BangSteps, InfoSteps, IdleSteps, EndSteps,
          SharedSteps
  <1>8. QED
    BY <1>1, <1>2, <1>3, <1>4, <1>5, <1>6, <1>7 DEF Next, Run, Handlers

LEMMA FinishedMeansDoneNext ==
  ASSUME IInv, Next
  PROVE  FinishedMeansDone'
  <1> USE DEF Go, Give, Enter, Finished, Receive, scState, wire, lifetime, outcome
  <1>1. CASE Start \/ Connect \/ Spawn \/ Publish \/ StartCongestionControl \/ Wait \/
           CheckConnect
    BY <1>1 DEF Start, Connect, Spawn, Publish, StartCongestionControl, Wait,
          CheckConnect, IInv, StateOfStep, FinishedMeansDone, HandlerLocks, HeldBySteps,
          ConnectSteps, BangSteps, InfoSteps, IdleSteps, EndSteps, SharedSteps
  <1>2. CASE SendBig \/ CheckStop \/ CheckFinished \/ SwitchToStreaminfo \/ ProcessEarly
           \/ StartFeedback
    BY <1>2 DEF SendBig, CheckStop, CheckFinished, SwitchToStreaminfo, ProcessEarly,
          StartFeedback, IInv, StateOfStep, FinishedMeansDone, HandlerLocks,
          HeldBySteps, ConnectSteps, BangSteps, InfoSteps, IdleSteps, EndSteps,
          SharedSteps
  <1>3. CASE GoIdle \/ FireConnected \/ LeaveIdle \/ StopFeedback \/ ForgetEarly \/
           Finish
    BY <1>3 DEF GoIdle, FireConnected, LeaveIdle, StopFeedback, ForgetEarly, Finish,
          IInv, StateOfStep, FinishedMeansDone, HandlerLocks, HeldBySteps, ConnectSteps,
          BangSteps, InfoSteps, IdleSteps, EndSteps, SharedSteps
  <1>4. CASE Teardown \/ FreeReceivers \/ DropRun \/ Join
    BY <1>4 DEF Teardown, FreeReceivers, DropRun, Join, IInv, StateOfStep,
          FinishedMeansDone, HandlerLocks, HeldBySteps, ConnectSteps, BangSteps,
          InfoSteps, IdleSteps, EndSteps, SharedSteps
  <1>5. CASE Stop \/ (\E k \in Kinds : ConsoleSend(k)) \/ HandshakeDone \/
           HandshakeFails \/ LoopEnds
    BY <1>5 DEF Stop, ConsoleSend, HandshakeDone, HandshakeFails, LoopEnds, IInv,
          StateOfStep, FinishedMeansDone, HandlerLocks, HeldBySteps, ConnectSteps,
          BangSteps, InfoSteps, IdleSteps, EndSteps, SharedSteps
  <1>6. CASE ReceiveDisconnect \/ ReceiveBang \/ ReceiveBadBang \/ ReceiveEarly \/
           ReceiveInfo \/ ReceiveBadInfo \/ ReceiveIgnored
    <2>1. CASE ReceiveBang
      <3>1. /\ pc' = pc /\ ready' = ready /\ connected' = connected
            /\ state = "expect_bang" /\ (crypt => crypt')
        <4>1. crypt \in BOOLEAN
          BY DEF IInv, TypeOK
        <4>2. crypt' = TRUE \/ crypt' = crypt
          BY <2>1 DEF ReceiveBang
        <4>3. pc' = pc /\ ready' = ready /\ connected' = connected /\ state = "expect_bang"
          BY <2>1 DEF ReceiveBang
        <4>4. QED
          BY <4>1, <4>2, <4>3
      <3>2. state_finished' => crypt' \/ (state_finished /\ crypt' = crypt) \/ "shared" \notin holders
        BY <2>1 DEF ReceiveBang
      <3>3. pc \in BangSteps => "shared" \in holders
        BY DEF IInv, HeldBySteps, SharedSteps
      <3>4. pc \notin InfoSteps
        BY <3>1 DEF IInv, StateOfStep
      <3>5. QED
        BY <3>1, <3>2, <3>3, <3>4 DEF IInv, FinishedMeansDone, InfoSteps, IdleSteps
    <2>2. CASE ReceiveDisconnect \/ ReceiveBadBang \/ ReceiveEarly \/ ReceiveInfo
                 \/ ReceiveBadInfo \/ ReceiveIgnored
      BY <2>2 DEF ReceiveDisconnect, ReceiveBadBang, ReceiveEarly, ReceiveInfo,
                  ReceiveBadInfo, ReceiveIgnored, IInv, FinishedMeansDone
    <2>3. QED
      BY <1>6, <2>1, <2>2
  <1>7. CASE HeaderCallback \/ CloneTakion \/ AnswerInfo
    BY <1>7 DEF HeaderCallback, CloneTakion, AnswerInfo, IInv, StateOfStep,
          FinishedMeansDone, HandlerLocks, HeldBySteps, ConnectSteps, BangSteps,
          InfoSteps, IdleSteps, EndSteps, SharedSteps
  <1>8. QED
    BY <1>1, <1>2, <1>3, <1>4, <1>5, <1>6, <1>7 DEF Next, Run, Handlers

LEMMA HandlerLocksNext ==
  ASSUME IInv, Next
  PROVE  HandlerLocks'
  <1> USE DEF Go, Give, Enter, Finished, Receive, scState, wire, lifetime, outcome
  <1>1. CASE Start \/ Connect \/ Spawn \/ Publish \/ StartCongestionControl \/ Wait \/
           CheckConnect
    BY <1>1 DEF Start, Connect, Spawn, Publish, StartCongestionControl, Wait,
          CheckConnect, IInv, StateOfStep, HandlerLocks, HeldBySteps, ConnectSteps,
          BangSteps, InfoSteps, IdleSteps, EndSteps, SharedSteps
  <1>2. CASE SendBig \/ CheckStop \/ CheckFinished \/ SwitchToStreaminfo \/ ProcessEarly
           \/ StartFeedback
    BY <1>2 DEF SendBig, CheckStop, CheckFinished, SwitchToStreaminfo, ProcessEarly,
          StartFeedback, IInv, StateOfStep, HandlerLocks, HeldBySteps, ConnectSteps,
          BangSteps, InfoSteps, IdleSteps, EndSteps, SharedSteps
  <1>3. CASE GoIdle \/ FireConnected \/ LeaveIdle \/ StopFeedback \/ ForgetEarly \/
           Finish
    BY <1>3 DEF GoIdle, FireConnected, LeaveIdle, StopFeedback, ForgetEarly, Finish,
          IInv, StateOfStep, HandlerLocks, HeldBySteps, ConnectSteps, BangSteps,
          InfoSteps, IdleSteps, EndSteps, SharedSteps
  <1>4. CASE Teardown \/ FreeReceivers \/ DropRun \/ Join
    BY <1>4 DEF Teardown, FreeReceivers, DropRun, Join, IInv, StateOfStep, HandlerLocks,
          HeldBySteps, ConnectSteps, BangSteps, InfoSteps, IdleSteps, EndSteps,
          SharedSteps
  <1>5. CASE Stop \/ (\E k \in Kinds : ConsoleSend(k)) \/ HandshakeDone \/
           HandshakeFails \/ LoopEnds
    BY <1>5 DEF Stop, ConsoleSend, HandshakeDone, HandshakeFails, LoopEnds, IInv,
          StateOfStep, HandlerLocks, HeldBySteps, ConnectSteps, BangSteps, InfoSteps,
          IdleSteps, EndSteps, SharedSteps
  <1>6. CASE ReceiveDisconnect \/ ReceiveBang \/ ReceiveBadBang \/ ReceiveEarly \/
           ReceiveInfo \/ ReceiveBadInfo \/ ReceiveIgnored
    BY <1>6 DEF ReceiveDisconnect, ReceiveBang, ReceiveBadBang, ReceiveEarly,
          ReceiveInfo, ReceiveBadInfo, ReceiveIgnored, IInv, StateOfStep, HandlerLocks,
          HeldBySteps, ConnectSteps, BangSteps, InfoSteps, IdleSteps, EndSteps,
          SharedSteps
  <1>7. CASE HeaderCallback \/ CloneTakion \/ AnswerInfo
    BY <1>7 DEF HeaderCallback, CloneTakion, AnswerInfo, IInv, StateOfStep,
          HandlerLocks, HeldBySteps, ConnectSteps, BangSteps, InfoSteps, IdleSteps,
          EndSteps, SharedSteps
  <1>8. QED
    BY <1>1, <1>2, <1>3, <1>4, <1>5, <1>6, <1>7 DEF Next, Run, Handlers

\* At the end of teardown nobody but run() has an Arc.
LEMMA OnlyRunHolds ==
  ASSUME IInv, pc = "drop"
  PROVE  holders = IF takion = "none" THEN {} ELSE {"run"}
  <1>1. holders \subseteq {"run"}
    BY DEF IInv, TypeOK, Holders, HeldBySteps, SharedSteps, ConnectSteps, BangSteps, InfoSteps,
           IdleSteps, EndSteps
  <1>2. QED
    BY <1>1 DEF IInv, HeldBySteps

LEMMA HeldByStepsNext ==
  ASSUME IInv, Next
  PROVE  HeldBySteps'
  <1> USE DEF Go, Give, Enter, Finished, Receive, scState, wire, lifetime, outcome
  <1>1. CASE Start \/ Connect \/ Spawn \/ Publish \/ StartCongestionControl \/ Wait \/
           CheckConnect
    BY <1>1 DEF Start, Connect, Spawn, Publish, StartCongestionControl, Wait,
          CheckConnect, IInv, StateOfStep, HandlerLocks, HeldBySteps, ConnectSteps,
          BangSteps, InfoSteps, IdleSteps, EndSteps, SharedSteps
  <1>2. CASE SendBig \/ CheckStop \/ CheckFinished \/ SwitchToStreaminfo \/ ProcessEarly
           \/ StartFeedback
    BY <1>2 DEF SendBig, CheckStop, CheckFinished, SwitchToStreaminfo, ProcessEarly,
          StartFeedback, IInv, StateOfStep, HandlerLocks, HeldBySteps, ConnectSteps,
          BangSteps, InfoSteps, IdleSteps, EndSteps, SharedSteps
  <1>3. CASE GoIdle \/ FireConnected \/ LeaveIdle \/ StopFeedback \/ ForgetEarly \/
           Finish
    BY <1>3 DEF GoIdle, FireConnected, LeaveIdle, StopFeedback, ForgetEarly, Finish,
          IInv, StateOfStep, HandlerLocks, HeldBySteps, ConnectSteps, BangSteps,
          InfoSteps, IdleSteps, EndSteps, SharedSteps
  <1>4. CASE Teardown \/ FreeReceivers \/ DropRun \/ Join
    <2>1. CASE Teardown \/ FreeReceivers \/ Join
      BY <2>1 DEF Teardown, FreeReceivers, Join, IInv, HandlerLocks, HeldBySteps,
                  LeftBehind, ConnectSteps, BangSteps, InfoSteps, IdleSteps, EndSteps, SharedSteps
    <2>2. CASE DropRun
      BY <2>2, OnlyRunHolds DEF DropRun, IInv, HandlerLocks, HeldBySteps, LeftBehind,
                  ConnectSteps, BangSteps, InfoSteps, IdleSteps, EndSteps, SharedSteps
    <2>3. QED
      BY <1>4, <2>1, <2>2
  <1>5. CASE Stop \/ (\E k \in Kinds : ConsoleSend(k)) \/ HandshakeDone \/
           HandshakeFails \/ LoopEnds
    BY <1>5 DEF Stop, ConsoleSend, HandshakeDone, HandshakeFails, LoopEnds, IInv,
          StateOfStep, HandlerLocks, HeldBySteps, ConnectSteps, BangSteps, InfoSteps,
          IdleSteps, EndSteps, SharedSteps
  <1>6. CASE ReceiveDisconnect \/ ReceiveBang \/ ReceiveBadBang \/ ReceiveEarly \/
           ReceiveInfo \/ ReceiveBadInfo \/ ReceiveIgnored
    BY <1>6 DEF ReceiveDisconnect, ReceiveBang, ReceiveBadBang, ReceiveEarly,
          ReceiveInfo, ReceiveBadInfo, ReceiveIgnored, IInv, StateOfStep, HandlerLocks,
          HeldBySteps, ConnectSteps, BangSteps, InfoSteps, IdleSteps, EndSteps,
          SharedSteps
  <1>7. CASE HeaderCallback \/ CloneTakion \/ AnswerInfo
    BY <1>7 DEF HeaderCallback, CloneTakion, AnswerInfo, IInv, StateOfStep,
          HandlerLocks, HeldBySteps, ConnectSteps, BangSteps, InfoSteps, IdleSteps,
          EndSteps, SharedSteps
  <1>8. QED
    BY <1>1, <1>2, <1>3, <1>4, <1>5, <1>6, <1>7 DEF Next, Run, Handlers

LEMMA LeftBehindNext ==
  ASSUME IInv, Next
  PROVE  LeftBehind'
  <1> USE DEF Go, Give, Enter, Finished, Receive, scState, wire, lifetime, outcome
  <1>1. CASE Start \/ Connect \/ Spawn \/ Publish \/ StartCongestionControl \/ Wait \/
           CheckConnect
    BY <1>1 DEF Start, Connect, Spawn, Publish, StartCongestionControl, Wait,
          CheckConnect, IInv, StateOfStep, HandlerLocks, HeldBySteps, LeftBehind,
          ConnectSteps, BangSteps, InfoSteps, IdleSteps, EndSteps, SharedSteps
  <1>2. CASE SendBig \/ CheckStop \/ CheckFinished \/ SwitchToStreaminfo \/ ProcessEarly
           \/ StartFeedback
    BY <1>2 DEF SendBig, CheckStop, CheckFinished, SwitchToStreaminfo, ProcessEarly,
          StartFeedback, IInv, StateOfStep, HandlerLocks, HeldBySteps, LeftBehind,
          ConnectSteps, BangSteps, InfoSteps, IdleSteps, EndSteps, SharedSteps
  <1>3. CASE GoIdle \/ FireConnected \/ LeaveIdle \/ StopFeedback \/ ForgetEarly \/
           Finish
    BY <1>3 DEF GoIdle, FireConnected, LeaveIdle, StopFeedback, ForgetEarly, Finish,
          IInv, StateOfStep, HandlerLocks, HeldBySteps, LeftBehind, ConnectSteps,
          BangSteps, InfoSteps, IdleSteps, EndSteps, SharedSteps
  <1>4. CASE Teardown \/ FreeReceivers \/ DropRun \/ Join
    <2>1. CASE Teardown \/ FreeReceivers \/ Join
      BY <2>1 DEF Teardown, FreeReceivers, Join, IInv, HandlerLocks, HeldBySteps,
                  LeftBehind, ConnectSteps, BangSteps, InfoSteps, IdleSteps, EndSteps, SharedSteps
    <2>2. CASE DropRun
      BY <2>2, OnlyRunHolds DEF DropRun, IInv, HandlerLocks, HeldBySteps, LeftBehind,
                  ConnectSteps, BangSteps, InfoSteps, IdleSteps, EndSteps, SharedSteps
    <2>3. QED
      BY <1>4, <2>1, <2>2
  <1>5. CASE Stop \/ (\E k \in Kinds : ConsoleSend(k)) \/ HandshakeDone \/
           HandshakeFails \/ LoopEnds
    BY <1>5 DEF Stop, ConsoleSend, HandshakeDone, HandshakeFails, LoopEnds, IInv,
          StateOfStep, HandlerLocks, HeldBySteps, LeftBehind, ConnectSteps, BangSteps,
          InfoSteps, IdleSteps, EndSteps, SharedSteps
  <1>6. CASE ReceiveDisconnect \/ ReceiveBang \/ ReceiveBadBang \/ ReceiveEarly \/
           ReceiveInfo \/ ReceiveBadInfo \/ ReceiveIgnored
    <2>1. pc' = pc /\ closer' = closer /\ receivers' = receivers /\ takion' = takion
      BY <1>6 DEF ReceiveDisconnect, ReceiveBang, ReceiveBadBang, ReceiveEarly, ReceiveInfo,
                  ReceiveBadInfo, ReceiveIgnored
    <2>2. QED
      BY <2>1 DEF IInv, LeftBehind
  <1>7. CASE HeaderCallback \/ CloneTakion \/ AnswerInfo
    BY <1>7 DEF HeaderCallback, CloneTakion, AnswerInfo, IInv, StateOfStep,
          HandlerLocks, HeldBySteps, LeftBehind, ConnectSteps, BangSteps, InfoSteps,
          IdleSteps, EndSteps, SharedSteps
  <1>8. QED
    BY <1>1, <1>2, <1>3, <1>4, <1>5, <1>6, <1>7 DEF Next, Run, Handlers

LEMMA StreamNext ==
  ASSUME IInv, [Next]_vars
  PROVE  IInv'
  <1>1. CASE Next
    BY <1>1, TypeNext, StateOfStepNext, FinishedMeansDoneNext, HandlerLocksNext,
       HeldByStepsNext, LeftBehindNext DEF IInv
  <1>2. CASE UNCHANGED vars
    BY <1>2 DEF vars, IInv, TypeOK, StateOfStep, FinishedMeansDone, HandlerLocks, HeldBySteps,
                LeftBehind
  <1>3. QED
    BY <1>1, <1>2

LEMMA StreamSafe == IInv => ConnectedMeansReady /\ JoinedByRun
  BY DEF IInv, FinishedMeansDone, HeldBySteps, LeftBehind, ConnectedMeansReady, JoinedByRun,
         InfoSteps, IdleSteps

\* The variables keep their types, whatever the console sends and how often.
THEOREM StreamTypes == Spec => []TypeOK
  <1>1. IInv => TypeOK
    BY DEF IInv
  <1>2. QED
    BY <1>1, StreamInit, StreamNext, PTL DEF Spec

\* The session is told it is connected only after the keys were installed and the
\* STREAMINFO was accepted and answered, and no member that starts later starts before.
THEOREM StreamIsReady == Spec => []ConnectedMeansReady
  BY StreamInit, StreamNext, StreamSafe, PTL DEF Spec

\* run() leaves no receive thread, no Arc<Takion> and no receiver behind, and the receive
\* thread never has to join itself.
THEOREM StreamIsJoined == Spec => []JoinedByRun
  BY StreamInit, StreamNext, StreamSafe, PTL DEF Spec

-----------------------------------------------------------------------------
\* What a result claims is so: plainly stopped, or told so by the console.
Honest == /\ result \in {"ok", "canceled"} => should_stop
          /\ result = "disconnected" => remote_disconnected
          /\ result # "none"

\* What result holds on the way there: what a wait found until it is used, then the reason
\* to leave, which finish_disconnect replaces.  The idle loop is not left for the flag
\* of a phase, since no handler raises one there.
HonestSoFar ==
  /\ pc \in {"start", "connect", "connected", "idle"} \cup ConnectSteps \cup BangSteps
            \cup InfoSteps => result \in {"none", "failed"}
  /\ pc \in {"connected", "idle"} => ~state_finished
  /\ pc \in {"stop_feedback", "finish", "result"} =>
       /\ result \in {"ok", "canceled", "failed"}
       /\ result = "ok" => should_stop \/ remote_disconnected
       /\ result = "canceled" => should_stop
  /\ pc \in {"teardown", "free", "drop", "join", "done"} => Honest

\* Every step of every thread keeps it.
LEMMA HonestNext ==
  ASSUME IInv, HonestSoFar, [Next]_vars
  PROVE  HonestSoFar'
  <1> USE DEF Go, Give, Enter, Finished, Receive, scState, wire, lifetime, outcome, Woken
  <1>1. CASE Start \/ Connect \/ Spawn \/ Publish \/ StartCongestionControl
    BY <1>1 DEF Start, Connect, Spawn, Publish, StartCongestionControl, IInv,
          StateOfStep, HandlerLocks, Honest, HonestSoFar, ConnectSteps, BangSteps,
          InfoSteps, IdleSteps
  <1>2. CASE Wait \/ CheckConnect \/ SendBig
    BY <1>2 DEF Wait, CheckConnect, SendBig, IInv, StateOfStep, HandlerLocks, Honest,
          HonestSoFar, ConnectSteps, BangSteps, InfoSteps, IdleSteps
  <1>3. CASE CheckStop \/ CheckFinished
    BY <1>3 DEF CheckStop, CheckFinished, IInv, StateOfStep, HandlerLocks, Honest,
          HonestSoFar, ConnectSteps, BangSteps, InfoSteps, IdleSteps
  <1>4. CASE SwitchToStreaminfo \/ ProcessEarly \/ StartFeedback
    BY <1>4 DEF SwitchToStreaminfo, ProcessEarly, StartFeedback, IInv, StateOfStep,
          HandlerLocks, Honest, HonestSoFar, ConnectSteps, BangSteps, InfoSteps,
          IdleSteps
  <1>5. CASE GoIdle \/ FireConnected \/ LeaveIdle \/ StopFeedback
    BY <1>5 DEF GoIdle, FireConnected, LeaveIdle, StopFeedback, IInv, StateOfStep,
          HandlerLocks, Honest, HonestSoFar, ConnectSteps, BangSteps, InfoSteps,
          IdleSteps
  <1>6. CASE ForgetEarly \/ Finish \/ Teardown \/ FreeReceivers \/ DropRun \/ Join
    BY <1>6 DEF ForgetEarly, Finish, Teardown, FreeReceivers, DropRun, Join, IInv,
          StateOfStep, HandlerLocks, Honest, HonestSoFar, ConnectSteps, BangSteps,
          InfoSteps, IdleSteps
  <1>7. CASE Stop \/ HandshakeDone \/ HandshakeFails \/ LoopEnds
    BY <1>7 DEF Stop, HandshakeDone, HandshakeFails, LoopEnds, IInv, StateOfStep,
          HandlerLocks, Honest, HonestSoFar, ConnectSteps, BangSteps, InfoSteps,
          IdleSteps
  <1>8. CASE ReceiveDisconnect
    BY <1>8 DEF ReceiveDisconnect, IInv, StateOfStep, HandlerLocks, Honest, HonestSoFar,
          ConnectSteps, BangSteps, InfoSteps, IdleSteps
  <1>9. CASE ReceiveBang \/ ReceiveBadBang
    BY <1>9 DEF ReceiveBang, ReceiveBadBang, IInv, StateOfStep, HandlerLocks, Honest,
          HonestSoFar, ConnectSteps, BangSteps, InfoSteps, IdleSteps
  <1>10. CASE ReceiveEarly \/ ReceiveInfo
    BY <1>10 DEF ReceiveEarly, ReceiveInfo, IInv, StateOfStep, HandlerLocks, Honest,
          HonestSoFar, ConnectSteps, BangSteps, InfoSteps, IdleSteps
  <1>11. CASE ReceiveBadInfo \/ ReceiveIgnored
    BY <1>11 DEF ReceiveBadInfo, ReceiveIgnored, IInv, StateOfStep, HandlerLocks,
          Honest, HonestSoFar, ConnectSteps, BangSteps, InfoSteps, IdleSteps
  <1>12. CASE HeaderCallback \/ CloneTakion \/ AnswerInfo
    BY <1>12 DEF HeaderCallback, CloneTakion, AnswerInfo, IInv, StateOfStep,
          HandlerLocks, Honest, HonestSoFar, ConnectSteps, BangSteps, InfoSteps,
          IdleSteps
  <1>13. CASE \E k \in Kinds : ConsoleSend(k)
    BY <1>13 DEF ConsoleSend, IInv, StateOfStep, HandlerLocks, Honest, HonestSoFar,
          ConnectSteps, BangSteps, InfoSteps, IdleSteps
  <1>14. CASE UNCHANGED vars
    BY <1>14 DEF vars, IInv, StateOfStep, HandlerLocks, Honest, HonestSoFar,
          ConnectSteps, BangSteps, InfoSteps, IdleSteps
  <1>15. QED
    BY <1>1, <1>2, <1>3, <1>4, <1>5, <1>6, <1>7, <1>8, <1>9, <1>10, <1>11, <1>12, <1>13,
       <1>14 DEF Next, Run, Handlers

\* What run() returns is true: it was stopped, or the console disconnected, and it claims
\* a plain success only for a stop during the connect.
THEOREM StreamIsHonest == Spec => []ResultHonest
  <1>1. Init => HonestSoFar
    BY DEF Init, HonestSoFar, ConnectSteps, BangSteps, InfoSteps
  <1>2. HonestSoFar => ResultHonest
    BY DEF HonestSoFar, Honest, ResultHonest
  <1>3. QED
    BY <1>1, <1>2, StreamInit, StreamNext, HonestNext, PTL DEF Spec

-----------------------------------------------------------------------------
(* StreamConnection after the test and beside the other ways *)

\* The stream connection has not begun while the test runs.
AllInv == IInv /\ (test # Dropped => pc = "start")

LEMMA AllInit == InitAll => AllInv
  BY StreamInit DEF InitAll, AllInv, Init

LEMMA HandOverKeeps ==
  ASSUME AllInv, HandOver
  PROVE  AllInv'
  <1>1. pc = "start" /\ test' = Dropped
    BY DEF HandOver, AllInv
  <1>2. CASE should_stop
    <2>1. pc' = "done" /\ result' = "canceled"
          /\ UNCHANGED <<state, state_finished, state_failed, remote_disconnected, early,
                         should_stop, mutex, takion, recv, stop_pipe, holders, closer, inbox,
                         sentKinds, asked, crypt, ready, receivers, connected>>
      BY <1>2 DEF HandOver, scState, lifetime, wire, outcome
    <2>2. TypeOK'
      BY <2>1 DEF AllInv, IInv, TypeOK, Steps, Results
    <2>3. StateOfStep' /\ FinishedMeansDone' /\ HandlerLocks' /\ HeldBySteps' /\ LeftBehind'
      BY <1>1, <2>1 DEF AllInv, IInv, StateOfStep, FinishedMeansDone, HandlerLocks, HeldBySteps,
                        LeftBehind, ConnectSteps, BangSteps, InfoSteps, IdleSteps, EndSteps,
                        SharedSteps
    <2>4. QED
      BY <1>1, <2>2, <2>3 DEF AllInv, IInv
  <1>3. CASE ~should_stop
    <2>1. UNCHANGED vars
      BY <1>3 DEF HandOver, scState, lifetime, wire, outcome, vars
    <2>2. QED
      BY <1>1, <2>1, StreamNext DEF AllInv
  <1>4. QED
    BY <1>2, <1>3

LEMMA AllNext ==
  ASSUME AllInv, [NextAll]_allVars
  PROVE  AllInv'
  <1>1. CASE HandOver
    BY <1>1, HandOverKeeps
  <1>2. CASE StreamStep
    <2>1. Next /\ test' = test /\ test = Dropped
      BY <1>2 DEF StreamStep, senkusha
    <2>2. QED
      BY <2>1, StreamNext DEF AllInv
  <1>3. CASE StopInTest
    <2>1. Stop /\ test' = test /\ pc' = pc
      BY <1>3 DEF StopInTest, senkusha, Stop
    <2>2. QED
      BY <2>1, StreamNext DEF AllInv, Next
  <1>4. CASE TestStep
    <2>1. UNCHANGED vars /\ test # Dropped
      BY <1>4 DEF TestStep
    <2>2. QED
      BY <2>1, StreamNext DEF AllInv, vars
  <1>5. CASE HoleStep \/ RegisterStep \/ UNCHANGED allVars
    <2>1. UNCHANGED vars /\ test' = test
      BY <1>5 DEF HoleStep, RegisterStep, allVars, senkusha
    <2>2. QED
      BY <2>1, StreamNext DEF AllInv, vars
  <1>6. QED
    BY <1>1, <1>2, <1>3, <1>4, <1>5 DEF NextAll, SessionStep

\* The same of a stream connection that a test precedes, with a stop during the test.
THEOREM AlwaysReady == SpecAll => []ConnectedMeansReady
  <1>1. AllInv => ConnectedMeansReady
    BY StreamSafe DEF AllInv
  <1>2. QED
    BY <1>1, AllInit, AllNext, PTL DEF SpecAll

THEOREM AlwaysJoined == SpecAll => []JoinedByRun
  <1>1. AllInv => JoinedByRun
    BY StreamSafe DEF AllInv
  <1>2. QED
    BY <1>1, AllInit, AllNext, PTL DEF SpecAll

\* And the registrations are kept, on the way that is about them and on the others.
THEOREM AlwaysKept ==
  ASSUME Missing = FALSE
  PROVE  SpecAll => []ProfileKept
  <1>1. InitAll => Kept
    BY KeptInit DEF InitAll, FlowInit
  <1>2. ASSUME Kept, [NextAll]_allVars
        PROVE  Kept'
    <2>1. [FlowNext]_flowVars
      BY <1>2 DEF NextAll, SessionStep, HoleStep, RegisterStep, allVars
    <2>2. [RegistryNext]_registryVars
      BY <2>1, FlowStep, RegistrationAssumption DEF flowVars, registryVars
    <2>3. QED
      BY <1>2, <2>2, KeptNext
  <1>3. Kept => ProfileKept
    BY DEF Kept
  <1>4. QED
    BY <1>1, <1>2, <1>3, PTL DEF SpecAll
-----------------------------------------------------------------------------
(* Senkusha: the search for the MTU *)

Searching == {"mtu_in", "mtu_out"}

\* The troubles cannot have used up the attempts for a size.
Exact == troubles < Retries

\* The limit lies between min and max, unless max was never tried.
SearchesRight ==
  /\ test.phase = "mtu_in" =>
       /\ test.min <= test.cur /\ test.cur <= test.max /\ test.min <= path.in
       /\ Exact => path.in < test.max \/ (test.cur = MtuMax /\ test.max = MtuMax)
  /\ test.phase = "mtu_out" =>
       /\ test.min <= test.cur /\ test.cur <= test.max /\ test.min <= path.out
       /\ Exact => /\ path.out < test.max \/ test.max = MtuMax
                   /\ path.in = MtuMax /\ path.out = MtuMax => test.cur = MtuMax
                   /\ path.in < MtuMax => test.cur < MtuMax

Limit == IF path.out = MtuMax /\ path.in < MtuMax THEN MtuMax - 1 ELSE path.out

\* What a search found stays true to its end.
FoundRight ==
  /\ test.phase \in {"client_mtu", "mtu_out", "last", "bye"} \/ test.result = "ok" =>
       test.in <= path.in /\ (Exact => test.in = path.in)
  /\ test.phase \in {"last", "bye"} \/ test.result = "ok" =>
       test.min <= path.out /\ (Exact => test.min = Limit)
  /\ test.result = "none" <=> test.phase # "done"

\* The answers under way are to requests that were sent, and one to the last request
\* only if that passed.
AnswersMatch ==
  /\ \A r \in replies : r.n <= test.asked
  /\ test.phase \in Searching =>
       /\ test.step \in {"ask", "send", "await"}
       /\ test.step = "send" => ~shared.finished /\ \A r \in replies : r.n < test.asked
       /\ test.step # "ask" => /\ shared.state = Test!Awaited[test.phase]
                               /\ test.phase = "mtu_in" => shared.mtu_id = test.asked
                               /\ test.phase = "mtu_out" => shared.tag = test.asked
       /\ test.step = "await" /\ (shared.finished \/ \E r \in replies : r.n = test.asked) =>
            Test!Passes

\* An attempt with a size that passes fails by a trouble only.
TriesCost ==
  test.phase \in Searching /\ Test!Passes =>
    /\ troubles >= test.attempt
    /\ test.step = "await" => \/ shared.finished \/ troubles >= test.attempt + 1
                              \/ \E r \in replies : Test!Accepts(shared, r)

\* Each ping is counted once, and a pong is of a ping.
PingsLeft ==
  /\ test.phase \in {"connect", "version", "big", "echo_on"} => test.pings = 0
  /\ test.phase = "ping" => test.pings < Pings
  /\ test.pongs <= test.pings

TestInv == /\ Test!TypeOK /\ PingsLeft /\ SearchesRight /\ FoundRight /\ AnswersMatch
           /\ TriesCost

TestRunning == test # Dropped => TestInv

\* The values of test.
Tests == [phase : DOMAIN Test!Awaited \cup {"bye", "done"},
          step : {"ask", "send", "expect", "await"}, asked : Nat,
          min : Test!Sizes, max : Test!Sizes, cur : Test!Sizes, attempt : 0 .. Retries,
          pings : 0 .. Pings, pongs : 0 .. Pings,
          in : Test!Sizes, result : {"none", "ok", "failed"}]

\* The middle of an interval that is not yet decided lies inside it.
LEMMA Middle ==
  ASSUME NEW lo \in Nat, NEW hi \in Nat, lo <= hi
  PROVE  /\ lo + (hi - lo) \div 2 \in lo .. hi
         /\ hi - lo > 1 => lo < lo + (hi - lo) \div 2 /\ lo + (hi - lo) \div 2 < hi
  OBVIOUS

\* What one decided size makes of the search.
LEMMA HalveDoes ==
  ASSUME NEW t \in Tests, NEW ok \in BOOLEAN, t.phase \in Searching,
         t.min <= t.cur, t.cur <= t.max,
         NEW lo, lo = IF ok THEN t.cur ELSE t.min,
         NEW hi, hi = IF ok THEN t.max ELSE t.cur,
         NEW h, h = Test!Halve(t, ok)
  PROVE  /\ h \in Tests /\ h.asked = t.asked /\ h.result = t.result /\ h.step = "ask"
         /\ hi - lo <= 1 => /\ t.phase = "mtu_in" => h.phase = "client_mtu" /\ h.in = lo
                            /\ t.phase = "mtu_out" => /\ h.phase = "last" /\ h.min = lo
                                                      /\ h.in = t.in
         /\ hi - lo > 1 => /\ h.phase = t.phase /\ h.min = lo /\ h.max = hi /\ h.in = t.in
                           /\ lo < h.cur /\ h.cur < hi /\ h.attempt = 0
  <1> DEFINE mid == lo + (hi - lo) \div 2
             r == [t EXCEPT !.min = lo, !.max = hi, !.cur = mid, !.attempt = 0, !.step = "ask"]
  <1>1. t.min \in Nat /\ t.max \in Nat /\ t.cur \in Nat /\ lo \in Nat /\ hi \in Nat /\ lo <= hi
        /\ lo \in Test!Sizes /\ hi \in Test!Sizes
    BY SenkushaAssumption DEF Tests, Test!Sizes
  <1>2. mid \in lo .. hi /\ (hi - lo > 1 => lo < mid /\ mid < hi)
    BY <1>1, Middle
  <1>3. mid \in Test!Sizes
    BY <1>1, <1>2, SenkushaAssumption DEF Test!Sizes
  <1> HIDE DEF mid
  <1>4. h = IF Test!Searched(r) THEN Test!EndSearch(r) ELSE r
    BY DEF Test!Halve, mid, Tests, Searching
  <1>5. r \in Tests /\ r.min = lo /\ r.max = hi /\ r.cur = mid /\ r.attempt = 0 /\ r.step = "ask"
        /\ r.phase = t.phase /\ r.in = t.in /\ r.asked = t.asked /\ r.result = t.result
    <2>1. DOMAIN t = DOMAIN r /\ 0 \in 0 .. Retries
      BY SenkushaAssumption DEF Tests
    <2>2. r.min = lo /\ r.max = hi /\ r.cur = mid /\ r.attempt = 0 /\ r.step = "ask"
        /\ r.phase = t.phase /\ r.in = t.in /\ r.asked = t.asked /\ r.result = t.result
        /\ r.pings = t.pings /\ r.pongs = t.pongs
      BY DEF Tests
    <2>3. r \in Tests
      BY <1>1, <1>3, <2>1 DEF Tests
    <2>4. QED
      BY <2>2, <2>3
  <1> HIDE DEF r
  <1>6. Test!Searched(r) <=> hi - lo <= 1
    BY <1>5 DEF Test!Searched
  <1>7. CASE hi - lo <= 1
    <2>1. CASE t.phase = "mtu_in"
      <3>1. h = [r EXCEPT !.phase = "client_mtu", !.step = "ask", !.in = lo]
        BY <1>4, <1>5, <1>6, <1>7, <2>1 DEF Test!EndSearch, Test!Enter
      <3>2. QED
        <4>1. "client_mtu" \in DOMAIN Test!Awaited
          BY DEF Test!Awaited
        <4>2. h \in Tests
          BY <1>1, <1>5, <3>1, <4>1 DEF Tests
        <4>3. h.phase = "client_mtu" /\ h.step = "ask" /\ h.min = r.min /\ h.asked = r.asked
              /\ h.result = r.result /\ h.in = lo
          BY <1>5, <3>1 DEF Tests
        <4>4. QED
          BY <1>1, <1>5, <1>7, <2>1, <4>2, <4>3
    <2>2. CASE t.phase = "mtu_out"
      <3>1. h = [r EXCEPT !.phase = "last", !.step = "ask"]
        BY <1>4, <1>5, <1>6, <1>7, <2>2 DEF Test!EndSearch, Test!Enter
      <3>2. QED
        <4>1. "last" \in DOMAIN Test!Awaited
          BY DEF Test!Awaited
        <4>2. h \in Tests
          BY <1>1, <1>5, <3>1, <4>1 DEF Tests
        <4>3. h.phase = "last" /\ h.step = "ask" /\ h.min = r.min /\ h.asked = r.asked
              /\ h.result = r.result /\ h.in = r.in
          BY <1>5, <3>1 DEF Tests
        <4>4. QED
          BY <1>1, <1>5, <1>7, <2>2, <4>2, <4>3
    <2>3. QED
      BY <2>1, <2>2 DEF Searching
  <1>8. CASE hi - lo > 1
    BY <1>1, <1>2, <1>4, <1>5, <1>6, <1>8
  <1>9. QED
    BY <1>1, <1>7, <1>8

\* What an answer, or a wait in vain, makes of the other phases.
LEMMA OthersDo ==
  ASSUME NEW t \in Tests, t.phase \in DOMAIN Test!Awaited, t.phase \notin Searching,
         t.phase \in {"connect", "version", "big", "echo_on"} => t.pings = 0,
         t.phase = "ping" => t.pings < Pings, t.pongs <= t.pings,
         NEW a, a = Test!AfterAnswer(t) \/ a = Test!AfterTimeout(t) \/ a = Test!Fail(t)
  PROVE  /\ a \in Tests /\ a.asked = t.asked /\ a.in = t.in
         /\ IF a.phase = "done" THEN a.result = "failed"
            ELSE a.result = t.result /\ a.step = "ask" /\ a.phase \notin {"connect", "client_mtu", "last"}
         /\ a.phase = "mtu_in" => /\ a.min = MtuMin /\ a.max = MtuMax /\ a.cur = MtuMax
                                  /\ a.attempt = 0
         /\ a.phase = "mtu_out" => /\ a.min = MtuMin /\ a.max = MtuMax /\ a.cur = t.in
                                   /\ a.attempt = 0 /\ t.phase = "client_mtu"
         /\ a.phase = "bye" => t.phase = "last" /\ a.min = t.min
         /\ a.phase \in {"version", "big", "echo_on"} => a.pings = 0
         /\ a.phase = "ping" => a.pings < Pings
         /\ a.pongs <= a.pings
  <1> USE SenkushaAssumption
  <1>1. \A p \in {"version", "big", "echo_on", "ping", "echo_off", "mtu_in", "mtu_out", "bye", "done"} :
          p \in DOMAIN Test!Awaited \cup {"bye", "done"}
    BY DEF Test!Awaited
  <1>2. MtuMin \in Test!Sizes /\ MtuMax \in Test!Sizes /\ t.in \in Test!Sizes /\ 0 \in 0 .. Retries
    BY DEF Test!Sizes, Tests
  <1>3. CASE a = Test!Fail(t)
    BY <1>1, <1>3 DEF Test!Fail, Tests
  <1>4. CASE t.phase = "ping" /\ a # Test!Fail(t)
    <2>1. PICK pong \in BOOLEAN : a = Test!Pinged(t, pong)
      BY <1>4 DEF Test!AfterAnswer, Test!AfterTimeout
    <2> DEFINE next == IF t.pings + 1 = Pings THEN "echo_off" ELSE "ping"
               more == IF pong THEN t.pongs + 1 ELSE t.pongs
    <2>2. a = [t EXCEPT !.pings = @ + 1, !.pongs = more, !.phase = next, !.step = "ask"]
      BY <2>1 DEF Test!Pinged, Test!Enter, Tests
    <2>3. t.pings + 1 \in 0 .. Pings /\ more \in 0 .. Pings /\ more <= t.pings + 1
      BY <1>4 DEF Tests
    <2>4. next \in {"echo_off", "ping"} /\ (next = "ping" => t.pings + 1 < Pings)
      BY <2>3
    <2> HIDE DEF next, more
    <2>5. a \in Tests
      BY <1>1, <2>2, <2>3, <2>4 DEF Tests
    <2>6. QED
      BY <1>4, <2>2, <2>3, <2>4, <2>5 DEF Tests
  <1>5. CASE t.phase = "echo_off" /\ a # Test!Fail(t)
    <2>1. a = [t EXCEPT !.phase = "mtu_in", !.step = "ask", !.min = MtuMin, !.max = MtuMax,
                        !.cur = MtuMax, !.attempt = 0]
      BY <1>5 DEF Test!AfterAnswer, Test!AfterTimeout, Test!StartSearch, Test!Enter, Test!Measuring, Tests
    <2>2. QED
      BY <1>1, <1>2, <1>5, <2>1 DEF Tests
  <1>6. CASE t.phase = "client_mtu" /\ a # Test!Fail(t)
    <2>1. a = [t EXCEPT !.phase = "mtu_out", !.step = "ask", !.min = MtuMin, !.max = MtuMax,
                        !.cur = t.in, !.attempt = 0]
      BY <1>6 DEF Test!AfterAnswer, Test!AfterTimeout, Test!StartSearch, Test!Enter, Test!Measuring, Tests
    <2>2. QED
      BY <1>1, <1>2, <1>6, <2>1 DEF Tests
  <1>7. CASE t.phase \in {"connect", "version", "big", "echo_on", "last"} /\ a # Test!Fail(t)
    <2>1. PICK p \in {"version", "big", "echo_on", "ping", "bye"} :
            /\ a = [t EXCEPT !.phase = p, !.step = "ask"]
            /\ p = "bye" <=> t.phase = "last"
      BY <1>7 DEF Test!AfterAnswer, Test!AfterTimeout, Test!Enter, Test!Measuring
    <2>2. a \in Tests
      BY <1>1, <2>1 DEF Tests
    <2>3. /\ a.phase = p /\ a.step = "ask" /\ a.pings = t.pings /\ a.pongs = t.pongs
          /\ a.min = t.min /\ a.in = t.in /\ a.asked = t.asked /\ a.result = t.result
      BY <2>1 DEF Tests
    <2>4. QED
      BY <1>7, <2>1, <2>2, <2>3
  <1>8. t.phase \in {"ping", "echo_off", "client_mtu", "connect", "version", "big", "echo_on", "last"}
    BY DEF Test!Awaited, Searching
  <1>9. QED
    BY <1>3, <1>4, <1>5, <1>6, <1>7, <1>8

LEMMA TestInit == Test!Init => TestInv
  <1> SUFFICES ASSUME Test!Init PROVE TestInv
    OBVIOUS
  <1> USE SenkushaAssumption
  <1>1. /\ "connect" \in DOMAIN Test!Awaited \cup {"bye", "done"}
        /\ MtuMin \in Test!Sizes /\ MtuMax \in Test!Sizes
        /\ 0 \in 0 .. Retries /\ 0 \in 0 .. Pings /\ 0 \in 0 .. MaxTroubles
    BY DEF Test!Awaited, Test!Sizes
  <1>2. test \in Tests
    BY <1>1 DEF Test!Init, Tests
  <1>3. Test!TypeOK
    BY <1>1, <1>2 DEF Test!Init, Test!TypeOK, Tests
  <1>4. test.phase = "connect" /\ test.result = "none" /\ test.pings = 0 /\ test.pongs = 0
        /\ replies = {}
    BY DEF Test!Init
  <1>5. QED
    BY <1>3, <1>4 DEF TestInv, PingsLeft, SearchesRight, FoundRight, AnswersMatch, TriesCost,
                      Searching

\* The parts of the type invariant.
LEMMA TestTypes ==
  ASSUME TestInv
  PROVE  /\ test \in Tests /\ troubles \in 0 .. MaxTroubles /\ path.in \in Test!Sizes
         /\ path.out \in Test!Sizes
         /\ MtuMin \in Nat /\ MtuMax \in Nat /\ Retries \in Nat /\ Test!Sizes \subseteq Nat
         /\ test.min \in Nat /\ test.max \in Nat /\ test.cur \in Nat /\ test.in \in Nat
         /\ test.asked \in Nat /\ test.attempt \in Nat /\ troubles \in Nat
         /\ shared.finished \in BOOLEAN
  BY SenkushaAssumption DEF TestInv, Test!TypeOK, Tests, Test!Sizes

\* What is asserted about sizes that are tried says nothing of the other phases.
LEMMA OtherMoves ==
  ASSUME TestInv, test.phase \in DOMAIN Test!Awaited, test.phase \notin Searching,
         test' = Test!AfterAnswer(test) \/ test' = Test!AfterTimeout(test)
           \/ test' = Test!Fail(test),
         troubles' \in 0 .. MaxTroubles, troubles' >= troubles,
         UNCHANGED <<shared, replies, path>>
  PROVE  TestInv'
  <1> USE SenkushaAssumption
  <1>1. test \in Tests
    BY TestTypes
  <1>2. (test.phase \in {"connect", "version", "big", "echo_on"} => test.pings = 0)
        /\ (test.phase = "ping" => test.pings < Pings) /\ test.pongs <= test.pings
    BY DEF TestInv, PingsLeft
  <1> DEFINE a == test'
  <1>3. /\ a \in Tests /\ a.asked = test.asked /\ a.in = test.in
        /\ IF a.phase = "done" THEN a.result = "failed"
            ELSE a.result = test.result /\ a.step = "ask" /\ a.phase \notin {"connect", "client_mtu", "last"}
        /\ a.phase = "mtu_in" => /\ a.min = MtuMin /\ a.max = MtuMax /\ a.cur = MtuMax
                                 /\ a.attempt = 0
        /\ a.phase = "mtu_out" => /\ a.min = MtuMin /\ a.max = MtuMax /\ a.cur = test.in
                                  /\ a.attempt = 0 /\ test.phase = "client_mtu"
        /\ a.phase = "bye" => test.phase = "last" /\ a.min = test.min
        /\ a.phase \in {"version", "big", "echo_on"} => a.pings = 0
        /\ a.phase = "ping" => a.pings < Pings
        /\ a.pongs <= a.pings
    BY <1>1, <1>2, OthersDo
  <1>4. Test!TypeOK'
    BY <1>3 DEF TestInv, Test!TypeOK, Tests, Test!Sizes
  <1>5. PingsLeft'
    BY <1>3 DEF PingsLeft
  <1>6. MtuMin <= path.in /\ MtuMin <= path.out /\ path.in <= MtuMax /\ path.out <= MtuMax
        /\ test.in \in MtuMin .. MtuMax
    BY TestTypes DEF Tests, Test!Sizes
  <1>7. FoundRight'
    BY <1>3, TestTypes DEF TestInv, FoundRight, Exact, Limit, Test!Awaited
  <1>8. SearchesRight'
    BY <1>3, <1>6, TestTypes DEF TestInv, FoundRight, SearchesRight, Exact
  <1>9. AnswersMatch'
    BY <1>3 DEF TestInv, AnswersMatch, Searching
  <1>10. TriesCost'
    BY <1>3, TestTypes DEF TriesCost, Searching
  <1>11. QED
    BY <1>4, <1>5, <1>7, <1>8, <1>9, <1>10 DEF TestInv

\* A size that is decided the right way round narrows the search around the limit.
LEMMA SizeDecided ==
  ASSUME TestInv, test.phase \in Searching, NEW ok \in BOOLEAN, test' = Test!Halve(test, ok),
         ok => Test!Passes, ~ok /\ Exact' => ~Test!Passes,
         troubles' \in 0 .. MaxTroubles, troubles' >= troubles,
         UNCHANGED <<shared, replies, path>>
  PROVE  TestInv'
  <1> USE SenkushaAssumption
  <1> DEFINE lo == IF ok THEN test.cur ELSE test.min
             hi == IF ok THEN test.max ELSE test.cur
  <1>1. test \in Tests /\ test.min <= test.cur /\ test.cur <= test.max
    BY TestTypes DEF TestInv, SearchesRight, Searching
  <1>2. /\ test' \in Tests /\ test'.asked = test.asked /\ test'.result = test.result
        /\ test'.step = "ask"
        /\ hi - lo <= 1 => /\ test.phase = "mtu_in" => test'.phase = "client_mtu" /\ test'.in = lo
                           /\ test.phase = "mtu_out" => /\ test'.phase = "last" /\ test'.min = lo
                                                        /\ test'.in = test.in
        /\ hi - lo > 1 => /\ test'.phase = test.phase /\ test'.min = lo /\ test'.max = hi
                          /\ test'.in = test.in
                          /\ lo < test'.cur /\ test'.cur < hi /\ test'.attempt = 0
    BY <1>1, HalveDoes
  <1>3. /\ lo \in Nat /\ hi \in Nat /\ hi <= MtuMax
        /\ path.in \in Nat /\ path.out \in Nat /\ path.in <= MtuMax /\ path.out <= MtuMax
        /\ test'.cur \in Nat /\ test'.min \in Nat /\ test'.in \in Nat
        /\ path' = path /\ test.phase \in {"mtu_in", "mtu_out"} /\ MtuMax \in Nat
    <2>1. test.max <= MtuMax /\ test.cur <= MtuMax /\ path.in <= MtuMax /\ path.out <= MtuMax
          /\ Test!Sizes \subseteq Nat
      BY TestTypes DEF Tests, Test!Sizes
    <2>2. test'.cur \in Test!Sizes /\ test'.min \in Test!Sizes /\ test'.in \in Test!Sizes
      BY <1>2 DEF Tests
    <2>3. QED
      BY <2>1, <2>2, TestTypes DEF Searching
  <1>4. Test!TypeOK'
    BY <1>2 DEF TestInv, Test!TypeOK, Tests, Test!Sizes
  <1>5. PingsLeft'
    <2>1. test'.pongs = test.pongs /\ test'.pings = test.pings
      BY <1>1 DEF Test!Halve, Test!EndSearch, Test!Enter, Tests
    <2>2. QED
      BY <1>2, <1>3, <2>1 DEF TestInv, PingsLeft
  <1>6. Exact' => Exact
    BY TestTypes DEF Exact
  <1>7. test.phase = "mtu_in" =>
          /\ lo <= path.in
          /\ Exact' => path.in < hi \/ (lo = MtuMax /\ hi = MtuMax)
    BY <1>3, <1>6, TestTypes DEF TestInv, SearchesRight, Test!Passes, Exact
  <1>8. test.phase = "mtu_out" =>
          /\ lo <= path.out
          /\ Exact' => /\ path.out < hi \/ hi = MtuMax
                       /\ path.in = MtuMax /\ path.out = MtuMax => lo = MtuMax
                       /\ path.in < MtuMax => lo < MtuMax
                       /\ hi = MtuMax /\ path.in = MtuMax /\ path.out < MtuMax => path.out < hi
    BY <1>3, <1>6, TestTypes DEF TestInv, SearchesRight, Test!Passes, Exact
  <1> HIDE DEF lo, hi
  <1>9. SearchesRight'
    <2>1. CASE hi - lo > 1
      <3>1. test'.phase = "mtu_in" =>
              test'.min <= test'.cur /\ test'.cur <= test'.max /\ test'.min <= path'.in
              /\ (Exact' => path'.in < test'.max \/ (test'.cur = MtuMax /\ test'.max = MtuMax))
        BY <1>2, <1>3, <1>7, <2>1
      <3>2. test'.phase = "mtu_out" =>
              test'.min <= test'.cur /\ test'.cur <= test'.max /\ test'.min <= path'.out
              /\ (Exact' => /\ path'.out < test'.max \/ test'.max = MtuMax
                            /\ path'.in = MtuMax /\ path'.out = MtuMax => test'.cur = MtuMax
                            /\ path'.in < MtuMax => test'.cur < MtuMax)
        BY <1>2, <1>3, <1>8, <2>1
      <3>3. QED
        BY <3>1, <3>2 DEF SearchesRight
    <2>2. CASE hi - lo <= 1
      BY <1>2, <1>3, <2>2 DEF SearchesRight
    <2>3. QED
      BY <1>3, <2>1, <2>2
  <1>10. test.result = "none" /\ (test.phase = "mtu_out" => test.in <= path.in /\ (Exact => test.in = path.in))
    BY DEF TestInv, FoundRight, Searching
  <1>11. FoundRight'
    <2>1. CASE hi - lo > 1
      BY <1>2, <1>3, <1>6, <1>10, <2>1 DEF FoundRight
    <2>2. CASE hi - lo <= 1 /\ test.phase = "mtu_in"
      BY <1>2, <1>3, <1>7, <1>10, <2>2 DEF FoundRight
    <2>3. CASE hi - lo <= 1 /\ test.phase = "mtu_out"
      BY <1>2, <1>3, <1>6, <1>8, <1>10, <2>3 DEF FoundRight, Limit
    <2>4. QED
      BY <1>3, <2>1, <2>2, <2>3
  <1>12. AnswersMatch'
    BY <1>2 DEF TestInv, AnswersMatch, Searching
  <1>13. TriesCost'
    <2>1. CASE hi - lo > 1
      BY <1>2, <2>1, TestTypes DEF TriesCost
    <2>2. CASE hi - lo <= 1
      BY <1>2, <1>3, <2>2 DEF TriesCost, Searching
    <2>3. QED
      BY <1>3, <2>1, <2>2
  <1>14. QED
    BY <1>4, <1>5, <1>9, <1>11, <1>12, <1>13 DEF TestInv

LEMMA SizeTimedOut ==
  ASSUME TestInv, test.phase \in Searching, test' = Test!AfterTimeout(test),
         test.step \in {"send", "await"}, Test!Passes => troubles' >= test.attempt + 1,
         troubles' \in 0 .. MaxTroubles, troubles' >= troubles,
         UNCHANGED <<shared, replies, path>>
  PROVE  TestInv'
  <1> USE SenkushaAssumption
  <1>1. CASE test.attempt + 1 < Retries
    <2>1. test' = [test EXCEPT !.attempt = @ + 1, !.step = "ask"]
      BY <1>1 DEF Test!AfterTimeout, Test!Measuring, Searching
    <2>2. test.attempt + 1 \in 0 .. Retries /\ test \in Tests
      BY <1>1, TestTypes
    <2>3. test' \in Tests
      BY <2>1, <2>2 DEF Tests
    <2>4. /\ test'.phase = test.phase /\ test'.step = "ask" /\ test'.asked = test.asked
          /\ test'.min = test.min /\ test'.max = test.max /\ test'.cur = test.cur
          /\ test'.attempt = test.attempt + 1 /\ test'.in = test.in
          /\ test'.pings = test.pings /\ test'.pongs = test.pongs /\ test'.result = test.result
      BY <2>1, <2>2 DEF Tests
    <2>5. Exact' => Exact
      BY TestTypes DEF Exact
    <2>6. Test!TypeOK' /\ PingsLeft'
      BY <2>3, <2>4 DEF TestInv, Test!TypeOK, Tests, Test!Sizes, PingsLeft
    <2>7. SearchesRight' /\ FoundRight'
      BY <2>4, <2>5 DEF TestInv, SearchesRight, FoundRight, Limit
    <2>8. AnswersMatch' /\ TriesCost'
      BY <2>4 DEF TestInv, AnswersMatch, TriesCost, Test!Passes
    <2>9. QED
      BY <2>6, <2>7, <2>8 DEF TestInv
  <1>2. CASE ~(test.attempt + 1 < Retries)
    <2>1. test' = Test!Halve(test, FALSE)
      BY <1>2 DEF Test!AfterTimeout, Test!Measuring, Searching
    <2>2. Exact' => ~Test!Passes
      BY <1>2, TestTypes DEF Exact
    <2>3. QED
      BY <2>1, <2>2, SizeDecided
  <1>3. QED
    BY <1>1, <1>2

\* A step of run() that leaves the phase as it is, and everything of the search.
LEMMA StepOnly ==
  ASSUME TestInv, NEW step \in {"ask", "send", "expect", "await"}, NEW n \in Nat,
         test' = [test EXCEPT !.step = step, !.asked = n],
         troubles' \in 0 .. MaxTroubles, troubles' >= troubles, path' = path
  PROVE  /\ test' \in Tests /\ PingsLeft' /\ SearchesRight' /\ FoundRight'
         /\ test'.phase = test.phase /\ test'.step = step /\ test'.asked = n
         /\ test'.attempt = test.attempt /\ (Test!Passes' <=> Test!Passes)
  <1>1. test \in Tests
    BY TestTypes
  <1>2. /\ test' \in Tests /\ test'.phase = test.phase /\ test'.step = step
        /\ test'.asked = n
    BY <1>1 DEF Tests
  <1>3. /\ test'.min = test.min /\ test'.max = test.max /\ test'.cur = test.cur
        /\ test'.attempt = test.attempt /\ test'.in = test.in
        /\ test'.pings = test.pings /\ test'.pongs = test.pongs /\ test'.result = test.result
    BY <1>1 DEF Tests
  <1>4. Exact' => Exact
    BY TestTypes DEF Exact
  <1>5. PingsLeft' /\ SearchesRight' /\ FoundRight'
    BY <1>2, <1>3, <1>4 DEF TestInv, PingsLeft, SearchesRight, FoundRight, Limit
  <1>6. QED
    BY <1>2, <1>3, <1>5 DEF Test!Passes

LEMMA AskKeeps ==
  ASSUME TestInv, Test!Ask
  PROVE  TestInv'
  <1> DEFINE n == test.asked + 1
             s == Test!Awaited[test.phase]
  <1>1. test' = [test EXCEPT !.step = "send", !.asked = n]
        /\ UNCHANGED <<replies, path, troubles>> /\ n \in Nat
    BY TestTypes DEF Test!Ask, Tests
  <1>2. /\ test' \in Tests /\ PingsLeft' /\ SearchesRight' /\ FoundRight'
        /\ test'.phase = test.phase /\ test'.step = "send" /\ test'.asked = n
        /\ test'.attempt = test.attempt /\ (Test!Passes' <=> Test!Passes)
    <2>1. troubles' \in 0 .. MaxTroubles /\ troubles' >= troubles /\ path' = path
      BY <1>1, TestTypes
    <2> HIDE DEF n
    <2>2. QED
      BY <1>1, <2>1, StepOnly
  <1>3. shared' = [shared EXCEPT !.state = s, !.finished = FALSE,
                                 !.tag = IF s = "pong" THEN n ELSE @,
                                 !.mtu_id = IF s \in {"mtu", "client_mtu"} THEN n ELSE @]
    BY DEF Test!Ask
  <1>4. s \in {"connected", "protocol_ack", "bang", "data_ack", "pong", "mtu", "client_mtu"}
        /\ (test.phase = "mtu_in" => s = "mtu") /\ (test.phase = "mtu_out" => s = "pong")
    BY DEF Test!Ask, Test!Awaited
  <1>5. Test!TypeOK'
    BY <1>1, <1>2, <1>3, <1>4 DEF TestInv, Test!TypeOK, Tests, Test!Sizes
  <1>6. shared'.finished = FALSE /\ shared'.state = s
        /\ (test.phase = "mtu_in" => shared'.mtu_id = n) /\ (test.phase = "mtu_out" => shared'.tag = n)
    BY <1>3, <1>4 DEF TestInv, Test!TypeOK
  <1>7. AnswersMatch'
    BY <1>1, <1>2, <1>6, TestTypes DEF TestInv, AnswersMatch, Test!TypeOK
  <1>8. TriesCost'
    BY <1>1, <1>2 DEF TestInv, TriesCost
  <1>9. QED
    BY <1>2, <1>5, <1>7, <1>8 DEF TestInv

\* Awaited names a state for each phase, and one that the callback knows.
LEMMA AwaitedStates ==
  ASSUME NEW p \in DOMAIN Test!Awaited
  PROVE  /\ Test!Awaited[p] \in {"connected", "protocol_ack", "bang", "data_ack", "pong", "mtu",
                                 "client_mtu"}
         /\ p = "mtu_in" => Test!Awaited[p] = "mtu"
         /\ p = "mtu_out" => Test!Awaited[p] = "pong"
  BY DEF Test!Awaited

LEMMA SendKeeps ==
  ASSUME TestInv, NEW gone \in BOOLEAN, Test!Send(gone)
  PROVE  TestInv'
  <1> DEFINE step == IF Test!Awaited[test.phase] = "data_ack" THEN "expect" ELSE "await"
             r == [kind |-> Test!Awaited[test.phase], n |-> test.asked]
  <1>1. /\ test' = [test EXCEPT !.step = step] /\ shared' = shared /\ path' = path
        /\ test.step = "send" /\ test.phase \in DOMAIN Test!Awaited
        /\ troubles' = IF gone THEN troubles + 1 ELSE troubles
        /\ replies' = IF gone \/ ~Test!Passes THEN replies ELSE replies \cup {r}
        /\ gone => Test!Passes /\ test.phase \in Test!Measuring /\ troubles < MaxTroubles
    BY DEF Test!Send
  <1>2. test' = [test EXCEPT !.step = step, !.asked = test.asked]
    BY <1>1, TestTypes DEF Tests
  <1>3. troubles' \in 0 .. MaxTroubles /\ troubles' >= troubles
    BY <1>1, TestTypes, SenkushaAssumption
  <1>4. /\ test' \in Tests /\ PingsLeft' /\ SearchesRight' /\ FoundRight'
        /\ test'.phase = test.phase /\ test'.step = step /\ test'.asked = test.asked
        /\ test'.attempt = test.attempt /\ (Test!Passes' <=> Test!Passes)
    <2>1. step \in {"ask", "send", "expect", "await"} /\ test.asked \in Nat
      BY TestTypes
    <2> HIDE DEF step
    <2>2. QED
      BY <1>1, <1>2, <1>3, <2>1, StepOnly
  <1>5. r \in [kind : {Test!Awaited[p] : p \in DOMAIN Test!Awaited}, n : Nat]
    BY <1>1, TestTypes
  <1>6. Test!TypeOK'
    BY <1>1, <1>3, <1>4, <1>5 DEF TestInv, Test!TypeOK, Tests, Test!Sizes
  <1>7. CASE test.phase \in Searching
    <2>1. step = "await" /\ ~shared.finished /\ (\A q \in replies : q.n < test.asked)
          /\ shared.state = Test!Awaited[test.phase]
          /\ (test.phase = "mtu_in" => shared.mtu_id = test.asked)
          /\ (test.phase = "mtu_out" => shared.tag = test.asked)
      BY <1>1, <1>7, AwaitedStates DEF TestInv, AnswersMatch, Searching
    <2>2. r.kind = Test!Awaited[test.phase] /\ r.n = test.asked
      OBVIOUS
    <2>3. Test!Accepts(shared, r)
      BY <1>1, <1>7, <2>1, <2>2, AwaitedStates DEF Test!Accepts, Searching
    <2> HIDE DEF step, r
    <2>4. AnswersMatch'
      BY <1>1, <1>4, <1>7, <2>1, <2>2, TestTypes DEF TestInv, AnswersMatch
    <2>5. Test!Passes => troubles' >= test.attempt + 1 \/ r \in replies'
      BY <1>1, <1>7, TestTypes DEF TestInv, TriesCost
    <2>6. TriesCost'
      BY <1>1, <1>3, <1>4, <2>3, <2>5, TestTypes DEF TestInv, TriesCost
    <2>7. QED
      BY <1>4, <1>6, <2>4, <2>6 DEF TestInv
  <1>8. CASE test.phase \notin Searching
    <2> HIDE DEF step
    <2>1. AnswersMatch'
      BY <1>1, <1>4, <1>8, TestTypes DEF TestInv, AnswersMatch
    <2>2. TriesCost'
      BY <1>4, <1>8 DEF TriesCost
    <2>3. QED
      BY <1>4, <1>6, <2>1, <2>2 DEF TestInv
  <1>9. QED
    BY <1>7, <1>8

LEMMA ExpectAckKeeps ==
  ASSUME TestInv, Test!ExpectAck
  PROVE  TestInv'
  <1>1. /\ test' = [test EXCEPT !.step = "await"] /\ shared' = [shared EXCEPT !.acked = test.asked]
        /\ UNCHANGED <<replies, path, troubles>> /\ test.step = "expect"
    BY DEF Test!ExpectAck
  <1>2. test' = [test EXCEPT !.step = "await", !.asked = test.asked]
    BY <1>1, TestTypes DEF Tests
  <1>3. /\ test' \in Tests /\ PingsLeft' /\ SearchesRight' /\ FoundRight'
        /\ test'.phase = test.phase /\ test'.step = "await" /\ test'.asked = test.asked
        /\ test'.attempt = test.attempt /\ (Test!Passes' <=> Test!Passes)
    <2>1. troubles' \in 0 .. MaxTroubles /\ troubles' >= troubles /\ path' = path
          /\ test.asked \in Nat
      BY <1>1, TestTypes
    <2>2. QED
      BY <1>2, <2>1, StepOnly
  <1>4. test.phase \notin Searching
    BY <1>1 DEF TestInv, AnswersMatch
  <1>5. Test!TypeOK'
    BY <1>1, <1>3, TestTypes DEF TestInv, Test!TypeOK, Tests, Test!Sizes
  <1>6. AnswersMatch' /\ TriesCost'
    BY <1>1, <1>3, <1>4 DEF TestInv, AnswersMatch, TriesCost
  <1>7. QED
    BY <1>3, <1>5, <1>6 DEF TestInv

LEMMA FailureKeeps ==
  ASSUME TestInv, Test!SendFails \/ Test!TimedOut
  PROVE  TestInv'
  <1>1. /\ test.phase \in DOMAIN Test!Awaited /\ test.step \in {"send", "await"}
        /\ UNCHANGED <<shared, replies, path>>
        /\ troubles' \in 0 .. MaxTroubles /\ troubles' >= troubles
    BY TestTypes, SenkushaAssumption DEF Test!SendFails, Test!TimedOut
  <1>2. CASE test.phase \in Searching
    <2>1. CASE Test!TimedOut
      <3>1. Test!Passes => troubles' >= test.attempt + 1
        BY <1>2, <2>1, TestTypes
           DEF TestInv, TriesCost, Test!TimedOut, Test!Measuring, Searching
      <3>2. test' = Test!AfterTimeout(test)
        BY <2>1 DEF Test!TimedOut
      <3>3. QED
        BY <1>1, <1>2, <3>1, <3>2, SizeTimedOut
    <2>2. CASE Test!SendFails /\ test.phase = "mtu_out"
      <3>1. Test!Passes => troubles' >= test.attempt + 1
        BY <1>2, <2>2, TestTypes DEF TestInv, TriesCost, Test!SendFails
      <3>2. test' = Test!AfterTimeout(test)
        BY <2>2 DEF Test!SendFails
      <3>3. QED
        BY <1>1, <1>2, <3>1, <3>2, SizeTimedOut
    <2>3. CASE Test!SendFails /\ test.phase = "mtu_in"
      <3>1. test' = [test EXCEPT !.phase = "done", !.result = "failed"]
        BY <2>3 DEF Test!SendFails, Test!Fail
      <3>2. "done" \in DOMAIN Test!Awaited \cup {"bye", "done"} /\ test \in Tests
        BY TestTypes
      <3>3. test' \in Tests
        BY <3>1, <3>2 DEF Tests
      <3>4. test'.phase = "done" /\ test'.result = "failed" /\ test'.asked = test.asked
            /\ test'.pongs = test.pongs /\ test'.pings = test.pings
        BY <3>1, <3>2 DEF Tests
      <3>5. Test!TypeOK'
        BY <1>1, <3>3 DEF TestInv, Test!TypeOK, Tests, Test!Sizes
      <3>6. PingsLeft' /\ SearchesRight' /\ FoundRight' /\ AnswersMatch' /\ TriesCost'
        BY <1>1, <3>4 DEF TestInv, PingsLeft, SearchesRight, FoundRight, AnswersMatch,
                          TriesCost, Searching
      <3>7. QED
        BY <3>5, <3>6 DEF TestInv
    <2>4. QED
      BY <1>2, <2>1, <2>2, <2>3 DEF Searching
  <1>3. CASE test.phase \notin Searching
    <2>1. test' = Test!AfterTimeout(test) \/ test' = Test!Fail(test)
      BY <1>3 DEF Test!SendFails, Test!TimedOut
    <2>2. QED
      BY <1>1, <1>3, <2>1, OtherMoves
  <1>4. QED
    BY <1>2, <1>3

LEMMA AnsweredKeeps ==
  ASSUME TestInv, Test!Answered
  PROVE  TestInv'
  <1>1. /\ test.phase \in DOMAIN Test!Awaited /\ test.step = "await" /\ shared.finished
        /\ test' = Test!AfterAnswer(test) /\ UNCHANGED <<shared, replies, path, troubles>>
    BY DEF Test!Answered
  <1>2. troubles' \in 0 .. MaxTroubles /\ troubles' >= troubles
    BY <1>1, TestTypes
  <1>3. CASE test.phase \in Searching
    <2>1. Test!Passes
      BY <1>1, <1>3 DEF TestInv, AnswersMatch
    <2>2. test' = Test!Halve(test, TRUE)
      BY <1>1, <1>3 DEF Test!AfterAnswer, Searching
    <2>3. QED
      BY <1>1, <1>2, <1>3, <2>1, <2>2, SizeDecided
  <1>4. CASE test.phase \notin Searching
    BY <1>1, <1>2, <1>4, OtherMoves
  <1>5. QED
    BY <1>3, <1>4

LEMMA DisconnectKeeps ==
  ASSUME TestInv, Test!Disconnect
  PROVE  TestInv'
  <1>1. /\ test' = [test EXCEPT !.phase = "done", !.result = "ok"] /\ test.phase = "bye"
        /\ UNCHANGED <<shared, replies, path, troubles>>
    BY DEF Test!Disconnect
  <1>2. test' \in Tests
    BY <1>1, TestTypes DEF Tests
  <1>3. /\ test'.phase = "done" /\ test'.result = "ok" /\ test'.asked = test.asked
        /\ test'.in = test.in /\ test'.min = test.min
        /\ test'.pongs = test.pongs /\ test'.pings = test.pings
    BY <1>1, TestTypes DEF Tests
  <1>4. Test!TypeOK'
    BY <1>1, <1>2 DEF TestInv, Test!TypeOK, Tests, Test!Sizes
  <1>5. PingsLeft' /\ SearchesRight' /\ FoundRight' /\ AnswersMatch' /\ TriesCost'
    BY <1>1, <1>3 DEF TestInv, PingsLeft, SearchesRight, FoundRight, Exact, Limit, AnswersMatch,
                      TriesCost, Searching
  <1>6. QED
    BY <1>4, <1>5 DEF TestInv

LEMMA DeliverKeeps ==
  ASSUME TestInv, NEW r \in replies, NEW again \in BOOLEAN, Test!Deliver(r, again)
  PROVE  TestInv'
  <1>1. /\ test' = test /\ path' = path
        /\ troubles' = IF again THEN troubles + 1 ELSE troubles
        /\ again => troubles < MaxTroubles
        /\ replies' = IF again THEN replies ELSE replies \ {r}
        /\ shared' = IF Test!Accepts(shared, r) THEN [shared EXCEPT !.finished = TRUE] ELSE shared
    BY DEF Test!Deliver
  <1>2. troubles' \in 0 .. MaxTroubles /\ troubles' >= troubles
    BY <1>1, TestTypes, SenkushaAssumption
  <1>3. /\ shared'.state = shared.state /\ shared'.tag = shared.tag
        /\ shared'.mtu_id = shared.mtu_id /\ shared'.acked = shared.acked
        /\ shared'.finished = (shared.finished \/ Test!Accepts(shared, r))
    <2>1. DOMAIN shared = {"state", "finished", "acked", "tag", "mtu_id"}
      BY DEF TestInv, Test!TypeOK
    <2>2. CASE Test!Accepts(shared, r)
      BY <1>1, <2>1, <2>2
    <2>3. CASE ~Test!Accepts(shared, r)
      BY <1>1, <2>1, <2>3, TestTypes
    <2>4. QED
      BY <2>2, <2>3
  <1>4. Exact' => Exact
    BY <1>2, TestTypes DEF Exact
  <1>5. Test!TypeOK'
    <2>1. shared' \in [state : {"idle", "connected", "protocol_ack", "bang", "data_ack", "pong",
                                "mtu", "client_mtu"},
                       finished : BOOLEAN, acked : Nat, tag : Nat, mtu_id : Nat]
      BY <1>1 DEF TestInv, Test!TypeOK
    <2>2. replies' \subseteq replies
      BY <1>1
    <2>3. QED
      BY <1>1, <1>2, <2>1, <2>2 DEF TestInv, Test!TypeOK, Test!Sizes
  <1>6. PingsLeft' /\ SearchesRight' /\ FoundRight'
    BY <1>1, <1>4 DEF TestInv, PingsLeft, SearchesRight, FoundRight, Limit
  <1>7. AnswersMatch'
    <2>1. test.phase \in Searching /\ test.step # "ask" /\ Test!Accepts(shared, r) => r.n = test.asked
      BY AwaitedStates DEF TestInv, AnswersMatch, Test!Accepts, Searching, Test!Awaited
    <2>2. replies' \subseteq replies /\ (Test!Passes' <=> Test!Passes)
      BY <1>1 DEF Test!Passes
    <2>3. r.n \in Nat /\ test.asked \in Nat
      BY TestTypes DEF TestInv, Test!TypeOK
    <2>4. QED
      BY <1>1, <1>3, <2>1, <2>2, <2>3 DEF TestInv, AnswersMatch
  <1>8. TriesCost'
    <2>1. Test!Passes' <=> Test!Passes
      BY <1>1 DEF Test!Passes
    <2>2. \A q : Test!Accepts(shared, q) <=> Test!Accepts(shared', q)
      BY <1>3 DEF Test!Accepts
    <2>3. \A q \in replies : q \in replies' \/ q = r
      BY <1>1
    <2>4. QED
      BY <1>1, <1>2, <1>3, <2>1, <2>2, <2>3, TestTypes DEF TestInv, TriesCost
  <1>9. QED
    BY <1>5, <1>6, <1>7, <1>8 DEF TestInv

LEMMA TestNext ==
  ASSUME TestInv, Test!Next
  PROVE  TestInv'
  <1>1. CASE Test!RunTest
    BY <1>1, AskKeeps, SendKeeps, ExpectAckKeeps, FailureKeeps, AnsweredKeeps, DisconnectKeeps
       DEF Test!RunTest
  <1>2. CASE \E r \in replies, again \in BOOLEAN : Test!Deliver(r, again)
    BY <1>2, DeliverKeeps
  <1>3. QED
    BY <1>1, <1>2 DEF Test!Next

LEMMA TestSafe == TestInv => Test!MtuIsThePaths
  BY DEF TestInv, FoundRight, Exact, Limit, Test!MtuIsThePaths

LEMMA TestRunningNext ==
  ASSUME TestRunning, [NextAll]_allVars
  PROVE  TestRunning'
  <1>1. CASE TestStep
    BY <1>1, TestNext DEF TestStep, TestRunning
  <1>2. CASE HandOver
    BY <1>2 DEF HandOver, TestRunning
  <1>3. CASE UNCHANGED senkusha
    <2>1. /\ test' = test /\ shared' = shared /\ replies' = replies /\ path' = path
          /\ troubles' = troubles
      BY <1>3 DEF senkusha
    <2>2. TestInv => TestInv'
      BY <2>1 DEF TestInv, Test!TypeOK, PingsLeft, SearchesRight, FoundRight, Exact, Limit,
                  AnswersMatch, TriesCost, Test!Passes
    <2>3. QED
      BY <2>1, <2>2 DEF TestRunning
  <1>4. QED
    BY <1>1, <1>2, <1>3
       DEF NextAll, SessionStep, StreamStep, StopInTest, HoleStep, RegisterStep, allVars

\* What the connection test found is the path's MTU, however many sizes it tries, whatever is
\* lost, late or repeated, and whether or not it is stopped.
THEOREM MtuIsRight == SpecAll => []MtuIsThePaths
  <1>1. InitAll => TestRunning
    BY TestInit DEF InitAll, NoTest, TestRunning
  <1>2. TestRunning => MtuIsThePaths
    BY TestSafe DEF TestRunning, MtuIsThePaths
  <1>3. QED
    BY <1>1, <1>2, TestRunningNext, PTL DEF SpecAll
-----------------------------------------------------------------------------
(* Holepunch: the invariant.  It is about everything that is on its way to     *)
(* the connecting thread, in the order in which it was said: the queue, what   *)
(* the WebSocket thread has in hand, and the socket.  What the thread takes    *)
(* for the answer to its hole is that, because what belongs to the first hole  *)
(* has gone when the second one is punched (Gone), because it was said in      *)
(* turn (InTurn), and because what is said of the second one answers what the  *)
(* thread says of it only then (Arriving).                                     *)

\* What is on its way to the connecting thread, the oldest first.
InHand == IF ws.pc \in {"ack", "push"} THEN <<ws.msg>> ELSE <<>>
Stream == notif \o InHand \o net

Ports == Hole!Ports

\* What PSN and the console send; a message is about a hole unless it ends the session.
Notes == [type : {"created", "joined", "custom", "deleted"}, action : {""}, port : {""}, id : {0}]
         \cup [type : {"message"}, action : {"TERMINATE"}, port : {""}, id : {0}]
         \cup [type : {"message"}, action : {"OFFER", "RESULT", "ACCEPT"}, port : Ports, id : Nat]

\* Before the first frame there is none.
Silence == Hole!Note("", "", "", 0)

\* What has an id and is answered, and all that can be heard.
Asked == {"OFFER", "ACCEPT"}
Letters == {<<"create">>, <<"start">>} \cup ({"RESULT"} \X Asked \X Ports)
           \cup (Asked \X Ports \X Nat)

HoleSteps == Hole!Waits \cup
  {"fqdn", "session", "offer", "offering", "start", "take_offer", "ack_offer", "send_offer",
   "probe", "probing", "accept", "ack_accept", "establish", "reply", "replying", "between",
   "failed", "done"}

HoleTypes ==
  /\ main \in [pc : HoleSteps, port : Ports, msg : Ports, ours : BOOLEAN, next : Nat, req : Nat]
  /\ flags \in [main : BOOLEAN, ws : BOOLEAN, pipe : BOOLEAN]
  /\ ws \in [pc : {"none", "connect", "recv", "ack", "push", "over"}, msg : Notes \cup {Silence}]
  /\ ws.pc \in {"ack", "push"} => ws.msg \in Notes
  /\ ws.pc = "ack" => ws.msg.action = "OFFER"
  /\ notif \in Seq(Notes) /\ net \in Seq(Notes)
  /\ heard \subseteq Letters
  /\ user \in {"idle", "canceling", "canceled"} /\ held \in BOOLEAN /\ lost \subseteq Ports

\* The steps of a hole from its probes on, from the ACCEPT of the console on, from our
\* OFFER on, from the answer to the OFFER of the console on, and from its taking on.
ProbeSteps == {"probe", "probing", "accept", "await_accept", "ack_accept", "establish",
               "reply", "replying", "between"}
HoleEndSteps   == {"ack_accept", "establish", "reply", "replying", "between"}
SentSteps  == ProbeSteps \cup {"await_result"}
AckedSteps == SentSteps \cup {"send_offer"}
TakenSteps == AckedSteps \cup {"ack_offer"}

\* The data hole is the second one.
OnData == main.port = "data"
Passed(steps) == OnData \/ main.pc \in steps

\* Only the OFFER and the ACCEPT for one hole have the same id; so an answer with the id of
\* the request at hand is about the hole at hand.
Requests ==
  /\ main.req < main.next
  /\ \A a \in Asked, p \in Ports, id \in Nat : <<a, p, id>> \in heard =>
       /\ id <= main.req
       /\ p = "data" => OnData
       /\ OnData /\ main.pc \in SentSteps /\ p = "ctrl" => id < main.req

\* Our OFFER is taken only after it was made, and accepted only after it was taken.
Answers ==
  \A p \in Ports :
    /\ Hole!Taken(p) => \E id \in Nat : <<"OFFER", p, id>> \in heard
    /\ \A id \in Nat : <<"ACCEPT", p, id>> \in heard => Hole!Taken(p)

\* What is on its way was said for a reason.
Arriving(s) ==
  \A i \in DOMAIN s :
    /\ s[i].action = "OFFER" /\ s[i].port = "data" => <<"RESULT", "ACCEPT", "ctrl">> \in heard
    /\ s[i].action = "RESULT" => /\ Hole!Taken(s[i].port)
                                 /\ \E a \in Asked : <<a, s[i].port, s[i].id>> \in heard
    /\ s[i].action = "ACCEPT" => Hole!Taken(s[i].port) /\ <<"ACCEPT", s[i].port>> \in said

\* The OFFER of the console is not repeated after it took ours, and it accepts once.
InTurn(s) ==
  \A i, j \in DOMAIN s : i < j =>
    /\ s[i].action = "RESULT" /\ s[j].action = "OFFER" => s[i].port # s[j].port
    /\ s[i].action = "ACCEPT" /\ s[j].action = "ACCEPT" => s[i].port # s[j].port

\* What the first hole was about does not come any more when the thread is past it.
Gone(s) ==
  ~Hole!Over =>
  /\ Passed(ProbeSteps) => /\ Hole!Taken("ctrl")
                           /\ \A i \in DOMAIN s : ~(s[i].action = "OFFER" /\ s[i].port = "ctrl")
  /\ Passed(HoleEndSteps) => /\ <<"ACCEPT", "ctrl">> \in said
                         /\ \A i \in DOMAIN s : ~(s[i].action = "ACCEPT" /\ s[i].port = "ctrl")

\* The thread has what its step builds on.
Agreed ==
  ~Hole!Over =>
  /\ main.pc \in TakenSteps \cup {"take_offer"} => main.msg = main.port
  /\ main.pc \in ProbeSteps => Hole!Taken(main.port)
  /\ <<"RESULT", "ACCEPT", "ctrl">> \in heard => Passed({"establish", "reply", "replying", "between"})
  /\ main.pc \in HoleEndSteps => <<"ACCEPT", main.port>> \in said
  /\ main.pc = "establish" => <<"RESULT", "ACCEPT", main.port>> \in heard

Punched ==
  \A p \in Ports : Hole!Established(p) \in bits =>
     <<"ACCEPT", p>> \in said /\ <<"RESULT", "ACCEPT", p>> \in heard

\* A bit says that an OFFER was taken; it was answered, or that is the next step.
Acked ==
  ~Hole!Over =>
  /\ Passed(TakenSteps) => "ctrl_offer" \in bits
  /\ OnData /\ main.pc \in TakenSteps => "data_offer" \in bits
  /\ \A p \in Ports : Hole!OfferBit(p) \in bits =>
       \/ <<"RESULT", "OFFER", p>> \in heard
       \/ main.pc = "ack_offer" /\ main.port = p

\* An OFFER that was said is on its way, or taken, or was given up with its answer.
Offered(s) ==
  ~Hole!Over => \A p \in Ports : <<"OFFER", p, 0>> \in said =>
     \/ \E i \in DOMAIN s : s[i].action = "OFFER" /\ s[i].port = p
     \/ Hole!OfferBit(p) \in bits
     \/ main.pc = "take_offer" /\ main.port = p
     \/ p \in lost

\* The WebSocket thread is made once.
Fresh == main.pc = "fqdn" => ws.pc = "none"

HInv == /\ HoleTypes /\ Fresh /\ Requests /\ Answers /\ Agreed /\ Punched /\ Acked
        /\ Arriving(Stream) /\ InTurn(Stream) /\ Gone(Stream) /\ Offered(Stream)

-----------------------------------------------------------------------------
(* Sequences of notifications *)

\* t is s without its element i.
Removed(s, i, t) ==
  /\ Len(t) = Len(s) - 1
  /\ \A j \in 1 .. Len(t) : t[j] = s[IF j < i THEN j ELSE j + 1]

LEMMA RemoveAtIs ==
  ASSUME NEW T, NEW s \in Seq(T), NEW i \in 1 .. Len(s)
  PROVE  Hole!Seqs!RemoveAt(s, i) \in Seq(T) /\ Removed(s, i, Hole!Seqs!RemoveAt(s, i))
  <1> DEFINE a == SubSeq(s, 1, i - 1)
             b == SubSeq(s, i + 1, Len(s))
  <1>1. /\ a \in Seq(T) /\ Len(a) = i - 1
        /\ \A j \in 1 .. i - 1 : a[j] = s[j]
    OBVIOUS
  <1>2. /\ b \in Seq(T) /\ Len(b) = Len(s) - i
        /\ \A j \in 1 .. Len(s) - i : b[j] = s[j + i]
    OBVIOUS
  <1> HIDE DEF a, b
  <1>3. /\ a \o b \in Seq(T) /\ Len(a \o b) = Len(a) + Len(b)
        /\ \A j \in 1 .. Len(a) + Len(b) :
              (a \o b)[j] = IF j <= Len(a) THEN a[j] ELSE b[j - Len(a)]
    BY <1>1, <1>2, ConcatProperties
  <1>4. Len(s) \in Nat
    OBVIOUS
  <1>5. ASSUME NEW j \in 1 .. Len(s) - 1
        PROVE  (a \o b)[j] = s[IF j < i THEN j ELSE j + 1]
    <2>1. CASE j < i
      BY <1>1, <1>2, <1>3, <1>4, <2>1
    <2>2. CASE ~(j < i)
      <3>1. j - (i - 1) \in 1 .. Len(s) - i /\ (j - (i - 1)) + i = j + 1
        BY <1>4, <2>2
      <3>2. b[j - (i - 1)] = s[j + 1]
        BY <1>2, <3>1
      <3>3. QED
        BY <1>1, <1>2, <1>3, <1>4, <2>2, <3>2
    <2>3. QED
      BY <2>1, <2>2
  <1>6. Hole!Seqs!RemoveAt(s, i) = a \o b
    BY DEF Hole!Seqs!RemoveAt, a, b
  <1>7. Len(a \o b) = Len(s) - 1
    BY <1>1, <1>2, <1>3, <1>4
  <1> QED BY <1>3, <1>5, <1>6, <1>7 DEF Removed

\* What follows an element does not matter to its removal.
LEMMA RemovedBefore ==
  ASSUME NEW T, NEW s \in Seq(T), NEW t \in Seq(T), NEW u \in Seq(T), NEW i \in 1 .. Len(s),
         Removed(s, i, t)
  PROVE  Removed(s \o u, i, t \o u)
  <1>1. Len(s) \in Nat /\ Len(u) \in Nat /\ Len(t) \in Nat /\ Len(t) = Len(s) - 1
    BY LenProperties DEF Removed
  <1>2. /\ Len(s \o u) = Len(s) + Len(u)
        /\ \A j \in 1 .. Len(s) + Len(u) :
              (s \o u)[j] = IF j <= Len(s) THEN s[j] ELSE u[j - Len(s)]
    BY ConcatProperties
  <1>3. /\ Len(t \o u) = Len(t) + Len(u)
        /\ \A j \in 1 .. Len(t) + Len(u) :
              (t \o u)[j] = IF j <= Len(t) THEN t[j] ELSE u[j - Len(t)]
    BY ConcatProperties
  <1>4. ASSUME NEW j \in 1 .. Len(t) + Len(u)
        PROVE  (t \o u)[j] = (s \o u)[IF j < i THEN j ELSE j + 1]
    <2>1. CASE j <= Len(t)
      <3>1. t[j] = s[IF j < i THEN j ELSE j + 1]
        BY <2>1, <1>1 DEF Removed
      <3>2. QED
        BY <1>1, <1>2, <1>3, <2>1, <3>1
    <2>2. CASE j > Len(t)
      <3>1. j + 1 \in 1 .. Len(s) + Len(u) /\ j + 1 > Len(s) /\ j - Len(t) = (j + 1) - Len(s)
              /\ ~(j < i)
        BY <1>1, <2>2
      <3>2. (s \o u)[j + 1] = u[(j + 1) - Len(s)]
        BY <1>1, <1>2, <3>1
      <3>3. (t \o u)[j] = u[j - Len(t)]
        BY <1>1, <1>3, <2>2
      <3>4. QED
        BY <3>1, <3>2, <3>3
    <2>3. QED
      BY <1>1, <2>1, <2>2
  <1> QED BY <1>1, <1>2, <1>3, <1>4 DEF Removed

\* A notification is one element of a sequence.
LEMMA OneIs ==
  ASSUME NEW T, NEW n \in T
  PROVE  <<n>> \in Seq(T) /\ Len(<<n>>) = 1 /\ <<n>>[1] = n
  OBVIOUS

\* What is on its way is a sequence of notifications and begins with the queue.
LEMMA StreamType ==
  ASSUME HoleTypes
  PROVE  /\ InHand \in Seq(Notes) /\ notif \o InHand \in Seq(Notes) /\ Stream \in Seq(Notes)
         /\ Len(Stream) = Len(notif) + Len(InHand) + Len(net)
         /\ \A i \in 1 .. Len(notif) : Stream[i] = notif[i]
  <1>1. notif \in Seq(Notes) /\ net \in Seq(Notes) /\ InHand \in Seq(Notes)
    BY OneIs, EmptySeq DEF HoleTypes, InHand
  <1>2. Len(notif) \in Nat /\ Len(InHand) \in Nat /\ Len(net) \in Nat
    BY <1>1, LenProperties
  <1> DEFINE q == notif \o InHand
  <1>3. ASSUME NEW a \in Seq(Notes), NEW b \in Seq(Notes)
        PROVE  /\ a \o b \in Seq(Notes) /\ Len(a \o b) = Len(a) + Len(b)
               /\ \A i \in 1 .. Len(a) + Len(b) : (a \o b)[i]
                    = IF i <= Len(a) THEN a[i] ELSE b[i - Len(a)]
    BY ConcatProperties
  <1>4. /\ q \in Seq(Notes) /\ Len(q) = Len(notif) + Len(InHand)
        /\ \A i \in 1 .. Len(notif) + Len(InHand) : q[i]
             = IF i <= Len(notif) THEN notif[i] ELSE InHand[i - Len(notif)]
    BY <1>1, <1>3
  <1>5. Stream = q \o net
    BY DEF Stream
  <1> HIDE DEF q
  <1>6. /\ q \o net \in Seq(Notes) /\ Len(q \o net) = Len(q) + Len(net)
        /\ \A i \in 1 .. Len(q) + Len(net) : (q \o net)[i]
             = IF i <= Len(q) THEN q[i] ELSE net[i - Len(q)]
    BY <1>1, <1>4, <1>3
  <1> QED BY <1>1, <1>2, <1>4, <1>5, <1>6 DEF q

(* What the steps do to it. *)

\* The concatenation of two sequences, element by element.
LEMMA Concats ==
  ASSUME NEW T, NEW a \in Seq(T), NEW b \in Seq(T)
  PROVE  /\ a \o b \in Seq(T) /\ Len(a \o b) = Len(a) + Len(b)
         /\ \A i \in 1 .. Len(a) + Len(b) : (a \o b)[i] = IF i <= Len(a) THEN a[i] ELSE b[i - Len(a)]
  BY ConcatProperties

\* A frame that is read, and a notification that is queued, stay on their way.
LEMMA StreamOfReceive ==
  ASSUME HoleTypes, HoleTypes', Hole!WsReceive
  PROVE  Stream' = Stream
  <1>1. /\ ws.pc = "recv" /\ net # <<>> /\ net' = Tail(net) /\ notif' = notif
        /\ ws'.pc \in {"ack", "push"} /\ ws'.msg = Head(net)
    BY DEF Hole!WsReceive
  <1>2. InHand = <<>> /\ InHand' = <<Head(net)>>
    BY <1>1 DEF InHand
  <1>3. notif \in Seq(Notes) /\ net \in Seq(Notes) /\ Tail(net) \in Seq(Notes) /\ Head(net) \in Notes
    BY <1>1, HeadTailProperties DEF HoleTypes
  <1>4. <<Head(net)>> \o Tail(net) = net
    BY <1>1, <1>3
  <1>5. <<Head(net)>> \in Seq(Notes)
    BY <1>3, OneIs
  <1>6. (notif \o <<Head(net)>>) \o Tail(net) = notif \o (<<Head(net)>> \o Tail(net))
    BY <1>3, <1>5, ConcatAssociative
  <1>7. notif \o <<>> = notif
    BY <1>3, ConcatEmptySeq
  <1> QED BY <1>1, <1>2, <1>4, <1>6, <1>7 DEF Stream

LEMMA StreamOfPush ==
  ASSUME HoleTypes, Hole!WsPush
  PROVE  Stream' = Stream
  <1>1. /\ ws.pc = "push" /\ net' = net /\ notif' = Append(notif, ws.msg)
        /\ ws'.pc \in {"over", "recv"}
    BY DEF Hole!WsPush, Hole!psn, HoleTypes
  <1>2. InHand = <<ws.msg>> /\ InHand' = <<>>
    BY <1>1 DEF InHand
  <1>3. notif \in Seq(Notes) /\ ws.msg \in Notes
    BY <1>1 DEF HoleTypes
  <1>4. Append(notif, ws.msg) = notif \o <<ws.msg>> /\ Append(notif, ws.msg) \in Seq(Notes)
    BY <1>3
  <1>5. Append(notif, ws.msg) \o <<>> = Append(notif, ws.msg)
    BY <1>4, ConcatEmptySeq
  <1> QED BY <1>1, <1>2, <1>4, <1>5 DEF Stream

\* The WebSocket thread drops what it has in hand only when its answer failed.
LEMMA StreamOfGivenUp ==
  ASSUME HoleTypes, ws.pc = "ack", ws'.pc = "recv", notif' = notif, net' = net
  PROVE  Removed(Stream, Len(notif) + 1, Stream') /\ Len(notif) + 1 \in 1 .. Len(Stream)
         /\ Stream[Len(notif) + 1] = ws.msg /\ Stream' \in Seq(Notes)
  <1>1. InHand = <<ws.msg>> /\ InHand' = <<>>
    BY DEF InHand
  <1>2. notif \in Seq(Notes) /\ net \in Seq(Notes) /\ ws.msg \in Notes
    BY DEF HoleTypes
  <1> DEFINE q == notif \o <<ws.msg>>
  <1>3. q \in Seq(Notes) /\ Len(q) = Len(notif) + 1 /\ q[Len(notif) + 1] = ws.msg
        /\ \A j \in 1 .. Len(notif) : q[j] = notif[j]
    <2>1. q = Append(notif, ws.msg)
      BY <1>2
    <2>2. QED
      BY <1>2, <2>1
  <1>4. Len(notif) \in Nat /\ Len(net) \in Nat
    BY <1>2, LenProperties
  <1>5. Removed(q, Len(notif) + 1, notif)
    BY <1>3, <1>4 DEF Removed
  <1>6. Stream = q \o net
    BY <1>1 DEF Stream
  <1>7. Stream' = notif \o net
    BY <1>1, <1>2, ConcatEmptySeq DEF Stream
  <1> HIDE DEF q
  <1>8. Removed(q \o net, Len(notif) + 1, notif \o net)
    BY <1>2, <1>3, <1>4, <1>5, RemovedBefore
  <1>9. /\ Len(q \o net) = Len(q) + Len(net)
        /\ \A i \in 1 .. Len(q) + Len(net) : (q \o net)[i]
             = IF i <= Len(q) THEN q[i] ELSE net[i - Len(q)]
    BY <1>2, <1>3, Concats
  <1>10. notif \o net \in Seq(Notes)
    BY <1>2, Concats
  <1> QED BY <1>3, <1>4, <1>6, <1>7, <1>8, <1>9, <1>10

\* The connecting thread takes one notification out of the queue.
LEMMA StreamOfTake ==
  ASSUME HoleTypes, NEW i \in 1 .. Len(notif), notif' = Hole!Seqs!RemoveAt(notif, i),
         ws' = ws, net' = net
  PROVE  /\ Removed(Stream, i, Stream') /\ i \in 1 .. Len(Stream) /\ Stream[i] = notif[i]
         /\ Stream' \in Seq(Notes)
  <1>1. notif \in Seq(Notes) /\ InHand \in Seq(Notes) /\ net \in Seq(Notes) /\ InHand' = InHand
    BY StreamType DEF HoleTypes, InHand
  <1>2. notif' \in Seq(Notes) /\ Removed(notif, i, notif')
    BY <1>1, RemoveAtIs
  <1>3. Removed(notif \o InHand, i, notif' \o InHand)
    BY <1>1, <1>2, RemovedBefore
  <1>4. /\ notif \o InHand \in Seq(Notes) /\ notif' \o InHand \in Seq(Notes)
        /\ Len(notif \o InHand) = Len(notif) + Len(InHand)
    BY <1>1, <1>2, Concats
  <1>5. Len(notif) \in Nat /\ Len(InHand) \in Nat /\ Len(net) \in Nat
    BY <1>1, LenProperties
  <1>6. i \in 1 .. Len(notif \o InHand)
    BY <1>4, <1>5
  <1>7. Removed((notif \o InHand) \o net, i, (notif' \o InHand) \o net)
    BY <1>1, <1>3, <1>4, <1>6, RemovedBefore
  <1>8. Stream' = (notif' \o InHand) \o net
    BY <1>1 DEF Stream
  <1>9. (notif' \o InHand) \o net \in Seq(Notes)
    BY <1>1, <1>4, Concats
  <1> QED BY <1>5, <1>7, <1>8, <1>9, StreamType DEF Stream

\* What PSN or the console says comes last.
LEMMA StreamOfSaid ==
  ASSUME HoleTypes, NEW n \in Notes, net' = Append(net, n), ws' = ws, notif' = notif
  PROVE  Stream' = Append(Stream, n)
  <1>1. notif \in Seq(Notes) /\ InHand \in Seq(Notes) /\ net \in Seq(Notes) /\ InHand' = InHand
    BY StreamType DEF HoleTypes, InHand
  <1>2. notif \o InHand \in Seq(Notes) /\ <<n>> \in Seq(Notes)
    BY <1>1, Concats, OneIs
  <1>3. net' = net \o <<n>>
    BY <1>1
  <1>4. (notif \o InHand) \o (net \o <<n>>) = ((notif \o InHand) \o net) \o <<n>>
    BY <1>1, <1>2, ConcatAssociative
  <1>5. (notif \o InHand) \o net \in Seq(Notes)
    BY <1>1, <1>2, Concats
  <1>6. ((notif \o InHand) \o net) \o <<n>> = Append((notif \o InHand) \o net, n)
    BY <1>5
  <1> QED BY <1>1, <1>3, <1>4, <1>6 DEF Stream

-----------------------------------------------------------------------------
\* There is nothing on its way at first.
LEMMA NoElements == DOMAIN <<>> = {}
  <1>1. <<>> \in Seq(Notes) /\ Len(<<>>) = 0
    BY EmptySeq
  <1>2. DOMAIN <<>> = 1 .. 0
    BY <1>1, LenProperties
  <1>3. 1 .. 0 = {}
    OBVIOUS
  <1> QED BY <1>2, <1>3

LEMMA HoleInit == Hole!Init => HInv
  <1> SUFFICES ASSUME Hole!Init PROVE HInv
    OBVIOUS
  <1> USE DEF Hole!Init
  <1>1. Stream = <<>>
    BY EmptySeq, ConcatEmptySeq DEF Stream, InHand
  <1>2. HoleTypes
    BY EmptySeq, ConcatEmptySeq DEF HoleTypes, Letters, HoleSteps, Silence, Hole!Ports, Ports,
       Hole!Waits
  <1>3. Requests
    <2>1. heard = {} /\ main.req = 0 /\ main.next = 1
      OBVIOUS
    <2> HIDE DEF Hole!Init
    <2> QED BY <2>1 DEF Requests
  <1>4. Answers
    BY DEF Answers, Hole!Taken
  <1>5. Agreed
    BY DEF Agreed, ProbeSteps, HoleEndSteps, TakenSteps, AckedSteps, SentSteps
  <1>6. Punched
    BY DEF Punched
  <1>7. Acked
    BY DEF Acked, Passed, OnData, TakenSteps, AckedSteps, SentSteps, ProbeSteps
  <1>8. Fresh
    BY DEF Fresh
  <1>9. DOMAIN Stream = {}
    BY <1>1, NoElements
  <1>10. Arriving(Stream) /\ InTurn(Stream)
    BY <1>9 DEF Arriving, InTurn
  <1>11. Gone(Stream)
    BY <1>1 DEF Gone, Passed, OnData, ProbeSteps, HoleEndSteps
  <1>12. Offered(Stream)
    BY <1>1 DEF Offered
  <1> QED BY <1>2, <1>3, <1>5, <1>6, <1>7, <1>10, <1>11, <1>12, <1>4, <1>8 DEF HInv

\* The steps of the connecting thread that take nothing off the queue: those that post
\* or say that an OFFER was taken or a hole is established, and those that do neither.
Posting == \/ Hole!CreateSession \/ Hole!Start \/ Hole!TakeOffer \/ Hole!AckOffer
           \/ Hole!SendOffer \/ Hole!SendAccept \/ Hole!AckAccept \/ Hole!Establish
Idle == \/ Hole!GetFqdn \/ Hole!AwaitOpen \/ Hole!WaitEnds \/ Hole!CreateOffer
        \/ Hole!OfferCreated \/ Hole!CheckCandidates \/ Hole!CandidatesChecked
        \/ Hole!Reply \/ Hole!Replied \/ Hole!NextHole
Quiet == Idle \/ Posting

\* The waits that find something.
Awaits == \/ Hole!AwaitCreated \/ Hole!AwaitJoined \/ Hole!AwaitOffer
          \/ Hole!AwaitResult \/ Hole!AwaitAccept

MainTypes(m) ==
  m \in [pc : HoleSteps, port : Ports, msg : Ports, ours : BOOLEAN, next : Nat, req : Nat]

\* The types, action by action.
LEMMA QuietTypes ==
  ASSUME HoleTypes, Quiet
  PROVE  HoleTypes'
  <1>1. main' \in [pc : HoleSteps, port : Ports, msg : Ports, ours : BOOLEAN, next : Nat, req : Nat]
    <2>1. main.next + 1 \in Nat /\ main \in [pc : HoleSteps, port : Ports, msg : Ports,
            ours : BOOLEAN, next : Nat, req : Nat]
      BY DEF HoleTypes
    <2> USE <2>1 DEF HoleSteps, Hole!Waits, Ports, Hole!Ports, Hole!Fail, Hole!Goto, Hole!Checked
    <2>2. CASE Hole!CreateSession
      BY <2>2 DEF Hole!CreateSession
    <2>3. CASE Hole!CreateOffer
      BY <2>3 DEF Hole!CreateOffer
    <2>4. CASE Hole!OfferCreated
      BY <2>4 DEF Hole!OfferCreated
    <2>5. CASE Hole!Start
      BY <2>5 DEF Hole!Start
    <2>6. CASE Hole!AckOffer
      BY <2>6 DEF Hole!AckOffer
    <2>7. CASE Hole!SendOffer
      BY <2>7 DEF Hole!SendOffer
    <2>8. CASE Hole!CheckCandidates
      BY <2>8 DEF Hole!CheckCandidates
    <2>9. CASE Hole!CandidatesChecked
      BY <2>9 DEF Hole!CandidatesChecked
    <2>10. CASE Hole!SendAccept
      BY <2>10 DEF Hole!SendAccept
    <2>11. CASE Hole!AckAccept
      BY <2>11 DEF Hole!AckAccept
    <2>12. CASE Hole!Establish
      BY <2>12 DEF Hole!Establish
    <2>13. CASE Hole!Reply
      BY <2>13 DEF Hole!Reply
    <2>14. CASE Hole!NextHole
      BY <2>14 DEF Hole!NextHole
    <2>15. CASE Hole!AwaitOpen
      BY <2>15 DEF Hole!AwaitOpen
    <2>16. CASE Hole!WaitEnds
      BY <2>16 DEF Hole!WaitEnds
    <2>17. CASE Hole!GetFqdn
      BY <2>17 DEF Hole!GetFqdn
    <2>18. CASE Hole!TakeOffer
      BY <2>18 DEF Hole!TakeOffer
    <2>19. CASE Hole!Replied
      BY <2>19 DEF Hole!Replied
    <2> QED BY <2>2, <2>3, <2>4, <2>5, <2>6, <2>7, <2>8, <2>9, <2>10, <2>11, <2>12, <2>13, <2>14,
               <2>15, <2>16, <2>17, <2>18, <2>19 DEF Quiet, Idle, Posting
  <1>2. flags' \in [main : BOOLEAN, ws : BOOLEAN, pipe : BOOLEAN]
    BY DEF Quiet, Idle, Posting, HoleTypes, Hole!CreateSession, Hole!CreateOffer, Hole!OfferCreated,
       Hole!Start, Hole!TakeOffer, Hole!AckOffer, Hole!SendOffer, Hole!CheckCandidates,
       Hole!CandidatesChecked, Hole!SendAccept, Hole!AckAccept, Hole!Establish, Hole!Reply,
       Hole!Replied, Hole!NextHole, Hole!AwaitOpen, Hole!WaitEnds, Hole!GetFqdn, Hole!Checked, Hole!Fail, Hole!Goto, Hole!At
  <1>3. /\ ws' = ws \/ ws' = [ws EXCEPT !.pc = "connect"]
        /\ UNCHANGED <<notif, net, said, user, held, lost>>
    BY DEF Quiet, Idle, Posting, Hole!CreateSession, Hole!CreateOffer, Hole!OfferCreated, Hole!Start,
       Hole!TakeOffer, Hole!AckOffer, Hole!SendOffer, Hole!CheckCandidates, Hole!CandidatesChecked,
       Hole!SendAccept, Hole!AckAccept, Hole!Establish, Hole!Reply, Hole!Replied, Hole!NextHole,
       Hole!AwaitOpen, Hole!WaitEnds, Hole!GetFqdn, Hole!psn
  <1>4. /\ ws' \in [pc : {"none", "connect", "recv", "ack", "push", "over"},
             msg : Notes \cup {Silence}]
        /\ ws'.pc \in {"ack", "push"} => ws'.msg \in Notes
        /\ ws'.pc = "ack" => ws'.msg.action = "OFFER"
    BY <1>3 DEF HoleTypes
  <1>5. heard' \subseteq Letters
    BY DEF Quiet, Idle, Posting, HoleTypes, Letters, Asked, Ports, Hole!CreateSession,
       Hole!CreateOffer, Hole!OfferCreated, Hole!Start, Hole!TakeOffer, Hole!AckOffer, Hole!SendOffer,
       Hole!CheckCandidates, Hole!CandidatesChecked, Hole!SendAccept, Hole!AckAccept, Hole!Establish,
       Hole!Reply, Hole!Replied, Hole!NextHole, Hole!AwaitOpen, Hole!WaitEnds, Hole!GetFqdn, Hole!psn, Hole!Posts,
       Hole!PostFails
  <1> QED BY <1>1, <1>2, <1>3, <1>4, <1>5 DEF HoleTypes

\* What a wait takes is a notification of the type it waits for, and the first one.
AwaitTaken(i) ==
  /\ notif' = Hole!Seqs!RemoveAt(notif, i)
  /\ main.pc \notin {"await_created", "await_joined"} =>
       /\ notif[i].type = "message"
       /\ \A j \in 1 .. i - 1 : notif[j].type # "message"
       /\ notif[i].action = "TERMINATE" => main'.pc = "failed"
  /\ main.pc = "await_offer" =>
       \/ main' = [main EXCEPT !.pc = "failed"]
       \/ notif[i].action = "OFFER" /\ main' = [main EXCEPT !.pc = "take_offer", !.msg = notif[i].port]
       \/ notif[i].action # "OFFER" /\ main' = main
  /\ main.pc = "await_result" =>
       \/ main' = [main EXCEPT !.pc = "failed"]
       \/ notif[i].action = "RESULT" /\ notif[i].id = main.req /\ main' = [main EXCEPT !.pc = "probe"]
       \/ ~(notif[i].action = "RESULT" /\ notif[i].id = main.req) /\ main' = main
  /\ main.pc = "await_accept" =>
       \/ main' = [main EXCEPT !.pc = "failed"]
       \/ notif[i].action = "ACCEPT" /\ main' = [main EXCEPT !.pc = "ack_accept",
            !.msg = notif[i].port]
       \/ notif[i].action # "ACCEPT" /\ main' = main
  /\ main.pc \in {"await_created", "await_joined"} => notif[i].type # "message"
  /\ main.pc = "await_created" =>
       main' \in {[main EXCEPT !.pc = c] : c \in {"failed", "offer", "await_created"}}
  /\ main.pc = "await_joined" =>
       main' \in {[main EXCEPT !.pc = c] : c \in {"failed", "await_offer", "await_joined"}}

\* What a wait does: it takes a notification, and goes on only with what it waits for.
LEMMA AwaitTakes ==
  ASSUME HoleTypes, Awaits
  PROVE  \E i \in 1 .. Len(notif) : AwaitTaken(i)
  <1> USE DEF AwaitTaken, HoleTypes, Hole!Checked, Hole!Fail, Hole!Goto, Hole!At, Hole!Found,
         Hole!TypesOf
  <1>1. CASE Hole!AwaitCreated
    BY <1>1 DEF Hole!AwaitCreated, Hole!AwaitBoth
  <1>2. CASE Hole!AwaitJoined
    BY <1>2 DEF Hole!AwaitJoined, Hole!AwaitBoth
  <1>3. CASE Hole!AwaitOffer
    BY <1>3 DEF Hole!AwaitOffer, Hole!AwaitMessage, Hole!IsOffer
  <1>4. CASE Hole!AwaitResult
    BY <1>4 DEF Hole!AwaitResult, Hole!AwaitMessage, Hole!AcksOurs
  <1>5. CASE Hole!AwaitAccept
    BY <1>5 DEF Hole!AwaitAccept, Hole!AwaitMessage, Hole!IsAccept
  <1> HIDE DEF AwaitTaken
  <1> QED BY <1>1, <1>2, <1>3, <1>4, <1>5 DEF Awaits

LEMMA AwaitTypes ==
  ASSUME HoleTypes, Awaits
  PROVE  HoleTypes'
  <1>1. UNCHANGED <<ws, net, said, heard, user, held, lost>>
          /\ flags' \in [main : BOOLEAN, ws : BOOLEAN, pipe : BOOLEAN]
    BY DEF Awaits, Hole!AwaitCreated, Hole!AwaitJoined, Hole!AwaitOffer, Hole!AwaitResult,
       Hole!AwaitAccept, Hole!AwaitMessage, Hole!AwaitBoth, Hole!psn, Hole!Checked, HoleTypes
  <1>2. notif \in Seq(Notes) /\ \A i \in 1 .. Len(notif) : notif[i] \in Notes
    BY DEF HoleTypes
  <1>3. PICK i \in 1 .. Len(notif) : AwaitTaken(i)
    BY AwaitTakes
  <1>4. notif' \in Seq(Notes)
    BY <1>2, <1>3, RemoveAtIs DEF AwaitTaken
  <1>5. main.pc \in {"await_created", "await_joined", "await_offer", "await_result", "await_accept"}
    BY DEF Awaits, Hole!AwaitCreated, Hole!AwaitJoined, Hole!AwaitOffer, Hole!AwaitResult,
       Hole!AwaitAccept, Hole!AwaitMessage, Hole!AwaitBoth, Hole!At
  <1>6. notif[i].action \in Asked => notif[i].port \in Ports
    BY <1>2, <1>3 DEF Notes, Asked
  <1>7. MainTypes(main')
    <2> USE <1>3, <1>6 DEF HoleTypes, MainTypes, AwaitTaken, HoleSteps, Hole!Waits, Asked
    <2>1. CASE main.pc = "await_created" BY <2>1
    <2>2. CASE main.pc = "await_joined" BY <2>2
    <2>3. CASE main.pc = "await_offer" BY <2>3
    <2>4. CASE main.pc = "await_result" BY <2>4
    <2>5. CASE main.pc = "await_accept" BY <2>5
    <2> QED BY <1>5, <2>1, <2>2, <2>3, <2>4, <2>5
  <1> QED BY <1>1, <1>4, <1>7 DEF HoleTypes, MainTypes

LEMMA OtherTypes ==
  ASSUME HoleTypes, Hole!WsThread \/ Hole!WsBreaks \/ Hole!TakePending \/ Hole!LetGo
  PROVE  HoleTypes'
  <1> USE DEF Hole!WsThread, Hole!WsBreaks, Hole!TakePending, Hole!LetGo, Hole!Cancel,
         Hole!DropHandle, Hole!WsConnect, Hole!WsReceive, Hole!WsAck, Hole!WsPush, Hole!WsStop,
         HoleTypes, Hole!psn
  <1>1. ws.pc = "ack" => ws.msg.port \in Ports
    BY DEF Notes
  <1>2. UNCHANGED main /\ user' \in {"idle", "canceling", "canceled"} /\ held' \in BOOLEAN
    OBVIOUS
  <1>3. flags' \in [main : BOOLEAN, ws : BOOLEAN, pipe : BOOLEAN]
    <2>1. \/ flags' = flags \/ flags' = [main |-> TRUE, ws |-> TRUE, pipe |-> TRUE]
          \/ flags' = [flags EXCEPT !.ws = TRUE, !.pipe = TRUE]
      OBVIOUS
    <2>2. flags \in [main : BOOLEAN, ws : BOOLEAN, pipe : BOOLEAN]
      OBVIOUS
    <2> HIDE DEF HoleTypes, Hole!WsThread, Hole!WsBreaks, Hole!TakePending, Hole!LetGo
    <2>3. [flags EXCEPT !.ws = TRUE, !.pipe = TRUE] \in [main : BOOLEAN, ws : BOOLEAN, pipe : BOOLEAN]
      BY <2>2
    <2>4. [main |-> TRUE, ws |-> TRUE, pipe |-> TRUE] \in [main : BOOLEAN, ws : BOOLEAN,
            pipe : BOOLEAN]
      OBVIOUS
    <2> QED BY <2>1, <2>2, <2>3, <2>4
  <1>4. lost' \subseteq Ports
    BY <1>1
  <1>5. net # <<>> => Head(net) \in Notes /\ Tail(net) \in Seq(Notes)
    BY HeadTailProperties
  <1>6. ws' \in [pc : {"none", "connect", "recv", "ack", "push", "over"}, msg : Notes \cup {Silence}]
    BY <1>5
  <1>7. /\ ws'.pc \in {"ack", "push"} => ws'.msg \in Notes
        /\ ws'.pc = "ack" => ws'.msg.action = "OFFER"
    BY <1>5 DEF Hole!IsOffer
  <1>8. notif' \in Seq(Notes) /\ net' \in Seq(Notes)
    <2>1. CASE Hole!WsPush
      <3>1. notif' = Append(notif, ws.msg) /\ ws.msg \in Notes /\ net' = net
              /\ notif \in Seq(Notes) /\ net \in Seq(Notes)
        BY <2>1
      <3> HIDE DEF HoleTypes, Hole!WsPush
      <3> QED BY <3>1
    <2>2. CASE Hole!WsReceive
      BY <1>5, <2>2
    <2>3. CASE ~(Hole!WsPush \/ Hole!WsReceive)
      BY <2>3
    <2> QED BY <2>1, <2>2, <2>3
  <1>9. heard' \subseteq Letters
    BY <1>1 DEF Letters, Asked, Hole!Posts, Hole!PostFails
  <1> HIDE DEF Hole!WsThread, Hole!WsBreaks, Hole!TakePending, Hole!LetGo
  <1> QED BY <1>2, <1>6, <1>9, <1>4, <1>8, <1>3, <1>7

\* What is said: nothing new about a hole, an OFFER, an answer to what was heard, an ACCEPT.
Reason(what, n) ==
  \/ /\ what \in {<<"created">>, <<"client">>, <<"console">>, <<"custom">>, <<"quit">>}
     /\ n.action \in {"", "TERMINATE"}
  \/ \E p \in Ports, k \in Nat :
       /\ what = <<"OFFER", p, k>> /\ n.action = "OFFER" /\ n.port = p
       /\ ~Hole!Taken(p) /\ (p = "data" => <<"RESULT", "ACCEPT", "ctrl">> \in heard)
  \/ \E p \in Ports, a \in Asked, id \in Nat :
       /\ what = <<"RESULT", p, a>> /\ n.action = "RESULT" /\ n.port = p /\ n.id = id
       /\ <<a, p, id>> \in heard
  \/ \E p \in Ports :
       /\ what = <<"ACCEPT", p>> /\ n.action = "ACCEPT" /\ n.port = p /\ Hole!Taken(p)
ConsoleSays(what, n) == n \in Notes /\ Hole!Says(what, n) /\ Reason(what, n)

LEMMA NotesAre ==
  /\ \A t \in {"created", "joined", "custom", "deleted"} :
       Hole!Note(t, "", "", 0) \in Notes /\ Hole!Note(t, "", "", 0).action = ""
  /\ Hole!Message("TERMINATE", "", 0) \in Notes /\ Hole!Message("TERMINATE", "",
       0).action = "TERMINATE"
  /\ \A a \in {"OFFER", "RESULT", "ACCEPT"}, p \in Ports, id \in Nat :
       /\ Hole!Message(a, p, id) \in Notes /\ Hole!Message(a, p, id).action = a
       /\ Hole!Message(a, p, id).port = p /\ Hole!Message(a, p, id).id = id
  BY DEF Notes, Hole!Note, Hole!Message

\* Whatever PSN and the console do is to say something new.
LEMMA ExternalSays ==
  ASSUME HoleTypes, Hole!External
  PROVE  \E what, n : ConsoleSays(what, n)
  <1> USE DEF ConsoleSays
  <1>1. CASE Hole!PsnSays
    <2>1. PICK t \in {"created", "joined", "custom"}, w \in {"created", "client", "console",
                 "custom"} :
            Hole!Says(<<w>>, Hole!Note(t, "", "", 0))
      BY <1>1 DEF Hole!PsnSays
    <2>2. Reason(<<w>>, Hole!Note(t, "", "", 0))
      <3>1. <<w>> \in {<<"created">>, <<"client">>, <<"console">>, <<"custom">>, <<"quit">>}
        OBVIOUS
      <3>2. Hole!Note(t, "", "", 0).action = ""
        BY DEF Hole!Message, Hole!Note
      <3> QED BY <3>1, <3>2 DEF Reason
    <2>3. ConsoleSays(<<w>>, Hole!Note(t, "", "", 0))
      BY <2>1, <2>2, NotesAre
    <2> QED BY <2>3
  <1>2. CASE Hole!PsnQuits
    <2>1. PICK n \in {Hole!Note("deleted", "", "", 0), Hole!Message("TERMINATE", "", 0)} :
            Hole!Says(<<"quit">>, n)
      BY <1>2 DEF Hole!PsnQuits
    <2>2. Reason(<<"quit">>, n)
      BY NotesAre DEF Reason
    <2>3. ConsoleSays(<<"quit">>, n)
      BY <2>1, <2>2, NotesAre
    <2> QED BY <2>3
  <1>3. ASSUME NEW p \in Ports, Hole!ConsoleOffers(p)
        PROVE  \E what, n : ConsoleSays(what, n)
    <2>1. PICK k \in Nat : Hole!Says(<<"OFFER", p, k>>, Hole!Message("OFFER", p, 0))
      <3>1. PICK k \in 0 .. IF <<"quit">> \in said THEN 0 ELSE Repeats : Hole!Says(<<"OFFER", p, k>>,
                   Hole!Message("OFFER", p, 0))
        BY <1>3 DEF Hole!ConsoleOffers
      <3>2. k \in Nat
        BY HolepunchAssumption
      <3> QED BY <3>1, <3>2
    <2>2. ~Hole!Taken(p) /\ (p = "data" => <<"RESULT", "ACCEPT", "ctrl">> \in heard)
      BY <1>3 DEF Hole!ConsoleOffers
    <2>3. Reason(<<"OFFER", p, k>>, Hole!Message("OFFER", p, 0))
      <3>1. Hole!Message("OFFER", p, 0).action = "OFFER" /\ Hole!Message("OFFER", p, 0).port = p
        BY DEF Hole!Message, Hole!Note
      <3> QED BY <2>2, <3>1 DEF Reason
    <2>4. ConsoleSays(<<"OFFER", p, k>>, Hole!Message("OFFER", p, 0))
      BY <2>1, <2>3, NotesAre
    <2> QED BY <2>4
  <1>4. ASSUME NEW p \in Ports, Hole!ConsoleAnswers(p)
        PROVE  \E what, n : ConsoleSays(what, n)
    <2>1. PICK what \in heard :
            /\ what[1] \in Asked /\ what[2] = p
            /\ Hole!Says(<<"RESULT", p, what[1]>>, Hole!Message("RESULT", p, what[3]))
      BY <1>4 DEF Hole!ConsoleAnswers, Asked
    <2>2. what \in Asked \X Ports \X Nat
      BY <2>1 DEF HoleTypes, Letters, Asked
    <2>3. what[3] \in Nat /\ what = <<what[1], what[2], what[3]>>
      BY <2>2
    <2>4. <<what[1], p, what[3]>> \in heard
      BY <2>1, <2>3
    <2>5. Reason(<<"RESULT", p, what[1]>>, Hole!Message("RESULT", p, what[3]))
      <3>1. /\ Hole!Message("RESULT", p, what[3]).action = "RESULT"
                 /\ Hole!Message("RESULT", p, what[3]).port = p
            /\ Hole!Message("RESULT", p, what[3]).id = what[3]
        BY DEF Hole!Message, Hole!Note
      <3> QED BY <2>1, <2>3, <2>4, <3>1 DEF Reason
    <2>6. ConsoleSays(<<"RESULT", p, what[1]>>, Hole!Message("RESULT", p, what[3]))
      BY <2>1, <2>3, <2>5, NotesAre
    <2> QED BY <2>6
  <1>5. ASSUME NEW p \in Ports, Hole!ConsoleAccepts(p)
        PROVE  \E what, n : ConsoleSays(what, n)
    <2>1. Hole!Says(<<"ACCEPT", p>>, Hole!Message("ACCEPT", p, 0)) /\ Hole!Taken(p)
      BY <1>5 DEF Hole!ConsoleAccepts
    <2>2. Reason(<<"ACCEPT", p>>, Hole!Message("ACCEPT", p, 0))
      <3>1. Hole!Message("ACCEPT", p, 0).action = "ACCEPT" /\ Hole!Message("ACCEPT", p, 0).port = p
        BY DEF Hole!Message, Hole!Note
      <3> QED BY <2>1, <3>1 DEF Reason
    <2>3. ConsoleSays(<<"ACCEPT", p>>, Hole!Message("ACCEPT", p, 0))
      BY <2>1, <2>2, NotesAre
    <2> QED BY <2>3
  <1> HIDE DEF ConsoleSays
  <1> QED BY <1>1, <1>2, <1>3, <1>4, <1>5 DEF Hole!External, Ports

LEMMA SaidTypes ==
  ASSUME HoleTypes, NEW what, NEW n, ConsoleSays(what, n)
  PROVE  HoleTypes'
  <1>1. net' \in Seq(Notes)
    BY DEF HoleTypes, ConsoleSays, Hole!Says
  <1> QED BY <1>1 DEF HoleTypes, ConsoleSays, Hole!Says

-----------------------------------------------------------------------------
(* Removing a notification, adding one. *)

\* The elements that remain, with their places before.
LEMMA RemovedFrom ==
  ASSUME NEW s \in Seq(Notes), NEW t \in Seq(Notes), NEW i \in 1 .. Len(s), Removed(s, i, t)
  PROVE  \E f \in [DOMAIN t -> DOMAIN s] :
           /\ \A j \in DOMAIN t : t[j] = s[f[j]] /\ f[j] # i
           /\ \A j, k \in DOMAIN t : j < k => f[j] < f[k]
  <1> DEFINE f == [j \in DOMAIN t |-> IF j < i THEN j ELSE j + 1]
  <1>1. Len(s) \in Nat /\ DOMAIN s = 1 .. Len(s) /\ DOMAIN t = 1 .. Len(s) - 1
    BY LenProperties DEF Removed
  <1>2. f \in [DOMAIN t -> DOMAIN s]
    BY <1>1
  <1>3. \A j \in DOMAIN t : t[j] = s[f[j]] /\ f[j] # i
    BY <1>1 DEF Removed
  <1>4. \A j, k \in DOMAIN t : j < k => f[j] < f[k]
    BY <1>1
  <1> QED BY <1>2, <1>3, <1>4

LEMMA RemovedElements ==
  ASSUME NEW s \in Seq(Notes), NEW t \in Seq(Notes), NEW i \in 1 .. Len(s), Removed(s, i, t)
  PROVE  \A j \in DOMAIN t : \E k \in DOMAIN s : t[j] = s[k] /\ (k < i \/ i < k)
  <1>1. PICK f \in [DOMAIN t -> DOMAIN s] : \A j \in DOMAIN t : t[j] = s[f[j]] /\ f[j] # i
    BY RemovedFrom
  <1>2. \A j \in DOMAIN t : f[j] \in DOMAIN s /\ (f[j] < i \/ i < f[j])
    BY <1>1, LenProperties
  <1> QED BY <1>1, <1>2

\* The three facts about what is on its way hold of what remains.
LEMMA RemovedKeeps ==
  ASSUME NEW s \in Seq(Notes), NEW t \in Seq(Notes), NEW i \in 1 .. Len(s), Removed(s, i, t)
  PROVE  /\ Arriving(s) => Arriving(t)
         /\ InTurn(s) => InTurn(t)
         /\ Gone(s) => Gone(t)
  <1>1. PICK f \in [DOMAIN t -> DOMAIN s] :
           /\ \A j \in DOMAIN t : t[j] = s[f[j]] /\ f[j] # i
           /\ \A j, k \in DOMAIN t : j < k => f[j] < f[k]
    BY RemovedFrom
  <1>2. \A j \in DOMAIN t : f[j] \in DOMAIN s
    OBVIOUS
  <1>3. Arriving(s) => Arriving(t)
    BY <1>1, <1>2 DEF Arriving
  <1>4. InTurn(s) => InTurn(t)
    BY <1>1, <1>2 DEF InTurn
  <1>5. Gone(s) => Gone(t)
    BY <1>1, <1>2 DEF Gone
  <1> QED BY <1>3, <1>4, <1>5

\* The notification that is left out is the only one that is not there any more.
LEMMA RemovedLeaves ==
  ASSUME NEW s \in Seq(Notes), NEW t \in Seq(Notes), NEW i \in 1 .. Len(s), Removed(s, i, t),
         NEW j \in DOMAIN s, j # i
  PROVE  \E k \in DOMAIN t : t[k] = s[j]
  <1>1. Len(s) \in Nat /\ DOMAIN s = 1 .. Len(s) /\ DOMAIN t = 1 .. Len(s) - 1
    BY LenProperties DEF Removed
  <1>2. CASE j < i
    <2>1. j \in DOMAIN t
      BY <1>1, <1>2
    <2> QED BY <1>1, <1>2, <2>1 DEF Removed
  <1>3. CASE j > i
    <2>1. j - 1 \in DOMAIN t /\ ~(j - 1 < i) /\ (j - 1) + 1 = j
      BY <1>1, <1>3
    <2> QED BY <1>1, <1>3, <2>1 DEF Removed
  <1> QED BY <1>1, <1>2, <1>3

LEMMA RemovedOffered ==
  ASSUME NEW s \in Seq(Notes), NEW t \in Seq(Notes), NEW i \in 1 .. Len(s), Removed(s, i, t),
         Offered(s), s[i].action # "OFFER"
  PROVE  Offered(t)
  BY RemovedLeaves DEF Offered

(* The steps that leave the connecting thread alone. *)

\* What such a step may change that the connecting thread depends on.
WsEffect ==
  /\ UNCHANGED <<main, said>> /\ lost \subseteq lost'
  /\ \/ heard' = heard \/ \E p \in Ports : heard' = heard \cup {<<"RESULT", "OFFER", p>>}
  /\ bits' \in {bits, bits \cup {"ws_open"}, bits \cup {"ws_failed"}}

\* The invariant does not depend on anything else the WebSocket thread and the user change.
LEMMA WsKeepsThread ==
  ASSUME HInv, WsEffect
  PROVE  /\ Requests' /\ Answers' /\ Agreed' /\ Punched' /\ Acked'
         /\ Arriving(Stream') => Arriving(Stream)'
         /\ InTurn(Stream') => InTurn(Stream)'
         /\ Gone(Stream') => Gone(Stream)'
         /\ Offered(Stream') => Offered(Stream)'
  <1> USE DEF HInv, WsEffect
  <1>1. heard \subseteq heard'
    OBVIOUS
  <1>2. \A a \in Asked, p \in Ports, id \in Nat : <<a, p, id>> \in heard' <=> <<a, p, id>> \in heard
    BY DEF Asked
  <1>3. \A p \in Ports : <<"RESULT", "ACCEPT", p>> \in heard' <=> <<"RESULT", "ACCEPT", p>> \in heard
    OBVIOUS
  <1>4. \A p \in Ports : /\ Hole!Established(p) \in bits' <=> Hole!Established(p) \in bits
                         /\ Hole!OfferBit(p) \in bits' <=> Hole!OfferBit(p) \in bits
    BY DEF Hole!Established, Hole!OfferBit
  <1>5. Requests'
    BY <1>2 DEF Requests, OnData
  <1>6. Answers'
    BY <1>2 DEF Answers, Hole!Taken, Asked
  <1>7. Agreed'
    BY <1>3 DEF Agreed, Passed, OnData, Hole!Taken, Hole!Over, Ports, Hole!Ports
  <1>8. Punched'
    BY <1>1, <1>4 DEF Punched
  <1>9. Acked'
    BY <1>1, <1>4 DEF Acked, Passed, OnData, Hole!Over, Hole!OfferBit, Ports, Hole!Ports
  <1>10. Arriving(Stream') => Arriving(Stream)'
    BY <1>1, <1>2 DEF Arriving, Hole!Taken
  <1>11. InTurn(Stream') => InTurn(Stream)'
    BY DEF InTurn
  <1>12. Gone(Stream') => Gone(Stream)'
    BY DEF Gone, Passed, OnData, Hole!Taken, Hole!Over
  <1>13. Offered(Stream') => Offered(Stream)'
    BY <1>4 DEF Offered, Hole!Over
  <1> HIDE DEF HInv, WsEffect
  <1> QED BY <1>5, <1>6, <1>7, <1>8, <1>9, <1>10, <1>11, <1>12, <1>13

\* The WebSocket thread, the user, the handles.
LEMMA WsKeeps ==
  ASSUME HInv, Hole!WsThread \/ Hole!WsBreaks \/ Hole!TakePending \/ Hole!LetGo
  PROVE  HInv'
  <1>1. HoleTypes'
    BY OtherTypes DEF HInv
  <1>2. WsEffect
    BY DEF HInv, HoleTypes, Notes, WsEffect, Hole!WsThread, Hole!WsBreaks, Hole!TakePending,
       Hole!LetGo, Hole!Cancel, Hole!DropHandle, Hole!WsConnect, Hole!WsReceive, Hole!WsAck,
       Hole!WsPush, Hole!WsStop, Hole!Posts, Hole!PostFails, Hole!psn
  <1>3. /\ Arriving(Stream) /\ InTurn(Stream) /\ Gone(Stream) /\ Offered(Stream)
        /\ HoleTypes
    BY DEF HInv
  <1>4. Fresh'
    BY <1>2 DEF HInv, Fresh, WsEffect, Hole!WsThread, Hole!WsBreaks, Hole!TakePending, Hole!LetGo,
       Hole!Cancel, Hole!DropHandle, Hole!WsConnect, Hole!WsReceive, Hole!WsAck, Hole!WsPush,
       Hole!WsStop
  <1>5. CASE Stream' = Stream
    BY <1>1, <1>2, <1>3, <1>5, <1>4, WsKeepsThread DEF HInv
  <1>6. CASE Stream' # Stream
    <2>1. ~Hole!WsReceive /\ ~Hole!WsPush
      BY <1>1, <1>3, <1>6, StreamOfReceive, StreamOfPush
    <2>2. Hole!WsAck /\ ws'.pc # "push"
      <3>1. ASSUME net' = net, notif' = notif, InHand' = InHand
            PROVE  FALSE
        BY <1>6, <3>1 DEF Stream
      <3>2. CASE Hole!WsConnect \/ Hole!WsStop \/ Hole!WsBreaks
        BY <1>3, <3>1, <3>2 DEF HoleTypes, InHand, Hole!WsConnect, Hole!WsStop, Hole!WsBreaks,
           Hole!psn
      <3>3. CASE Hole!TakePending \/ Hole!LetGo
        BY <3>1, <3>3 DEF InHand, Hole!TakePending, Hole!LetGo, Hole!Cancel, Hole!DropHandle, Hole!psn
      <3>4. CASE Hole!WsAck
        BY <1>3, <3>1, <3>4 DEF HoleTypes, InHand, Hole!WsAck
      <3> QED BY <2>1, <3>2, <3>3, <3>4 DEF Hole!WsThread
    <2>3. ws.pc = "ack" /\ ws'.pc = "recv" /\ notif' = notif /\ net' = net
            /\ lost' = lost \cup {ws.msg.port}
      BY <1>3, <2>2 DEF Hole!WsAck, HoleTypes
    <2>4. /\ Removed(Stream, Len(notif) + 1, Stream') /\ Len(notif) + 1 \in 1 .. Len(Stream)
          /\ Stream[Len(notif) + 1] = ws.msg /\ Stream' \in Seq(Notes)
      BY <1>3, <2>3, StreamOfGivenUp
    <2>5. Stream \in Seq(Notes)
      BY <1>3, StreamType
    <2>6. Arriving(Stream') /\ InTurn(Stream') /\ Gone(Stream')
      BY <1>3, <2>4, <2>5, RemovedKeeps
    <2>7. Arriving(Stream)' /\ InTurn(Stream)' /\ Gone(Stream)'
      BY <1>2, <2>6, WsKeepsThread
    <2>8. Offered(Stream)'
      <3>1. ASSUME NEW p \in Ports, p # ws.msg.port, NEW j \in DOMAIN Stream,
                   Stream[j].action = "OFFER" /\ Stream[j].port = p
            PROVE  \E k \in DOMAIN Stream' : Stream'[k].action = "OFFER" /\ Stream'[k].port = p
        BY <2>4, <2>5, <3>1, RemovedLeaves
      <3> QED BY <1>2, <1>3, <2>3, <3>1 DEF Offered, WsEffect, Hole!Over
    <2> QED BY <1>1, <1>2, <1>4, <2>7, <2>8, WsKeepsThread DEF HInv
  <1> QED BY <1>5, <1>6

(* What PSN and the console say. *)

\* An OFFER is said only while ours was not taken, an ACCEPT only once, after ours was taken;
\* so each comes in its turn.
LEMMA SaysKeeps ==
  ASSUME HInv, NEW what, NEW n, ConsoleSays(what, n)
  PROVE  HInv'
  <1>1. HoleTypes /\ HoleTypes' /\ n \in Notes /\ Reason(what, n)
    BY SaidTypes DEF HInv, ConsoleSays
  <1>2. /\ what \notin said /\ said' = said \cup {what}
        /\ UNCHANGED <<main, bits, heard, lost>>
    BY DEF ConsoleSays, Hole!Says
  <1>3. Stream' = Append(Stream, n)
    BY <1>1, StreamOfSaid DEF ConsoleSays, Hole!Says
  <1>4. /\ DOMAIN Stream = 1 .. Len(Stream) /\ DOMAIN Stream' = 1 .. Len(Stream) + 1
        /\ \A i \in DOMAIN Stream : Stream'[i] = Stream[i] /\ i \in DOMAIN Stream'
        /\ \A i \in DOMAIN Stream' : i \in DOMAIN Stream \/ (i = Len(Stream) + 1 /\ Stream'[i] = n)
        /\ Stream'[Len(Stream) + 1] = n /\ Len(Stream) \in Nat
    <2>1. Stream \in Seq(Notes)
      BY <1>1, StreamType
    <2>2. /\ Len(Stream) \in Nat /\ DOMAIN Stream = 1 .. Len(Stream)
          /\ Append(Stream, n) \in Seq(Notes) /\ Len(Append(Stream, n)) = Len(Stream) + 1
          /\ \A i \in 1 .. Len(Stream) : Append(Stream, n)[i] = Stream[i]
          /\ Append(Stream, n)[Len(Stream) + 1] = n
      BY <1>1, <2>1, AppendProperties, LenProperties
    <2>3. DOMAIN Append(Stream, n) = 1 .. Len(Stream) + 1
      BY <2>2, LenProperties
    <2>4. \A i \in 1 .. Len(Stream) + 1 : i \in 1 .. Len(Stream) \/ i = Len(Stream) + 1
      BY <2>2
    <2>5. \A i \in 1 .. Len(Stream) : i \in 1 .. Len(Stream) + 1
      BY <2>2
    <2>6. DOMAIN Stream' = 1 .. Len(Stream) + 1 /\ Stream'[Len(Stream) + 1] = n
      BY <1>3, <2>2, <2>3
    <2>7. \A i \in DOMAIN Stream : Stream'[i] = Stream[i] /\ i \in DOMAIN Stream'
      BY <1>3, <2>2, <2>5, <2>6
    <2>8. \A i \in DOMAIN Stream' : i \in DOMAIN Stream \/ (i = Len(Stream) + 1 /\ Stream'[i] = n)
      <3> SUFFICES ASSUME NEW i \in DOMAIN Stream', i \notin DOMAIN Stream
                   PROVE  i = Len(Stream) + 1
        BY <2>6
      <3> QED BY <2>2, <2>4, <2>6
    <2> QED BY <2>2, <2>6, <2>7, <2>8
  <1>5. Requests' /\ Acked'
    BY <1>2 DEF HInv, Requests, Acked, OnData, Passed, Hole!Over
  <1>6. \A p \in Ports : Hole!Taken(p) => Hole!Taken(p)'
    BY <1>2 DEF Hole!Taken
  <1>7. Answers'
    <2>1. ASSUME NEW p \in Ports, Hole!Taken(p)', ~Hole!Taken(p)
          PROVE  \E id \in Nat : <<"OFFER", p, id>> \in heard
      <3>1. what = <<"RESULT", p, "OFFER">>
        BY <1>2, <2>1 DEF Hole!Taken
      <3> QED BY <1>1, <3>1 DEF Reason, Asked
    <2> QED BY <1>2, <1>6, <2>1 DEF HInv, Answers
  <1>8. Agreed'
    BY <1>2, <1>6, <1>1 DEF HInv, Agreed, Passed, OnData, Hole!Over, HoleTypes
  <1>9. Punched'
    BY <1>2 DEF HInv, Punched
  <1>10. n.action = "RESULT" => /\ Hole!Taken(n.port)' /\ n.port \in Ports
                                /\ \E a \in Asked : <<a, n.port, n.id>> \in heard
    <2>1. SUFFICES ASSUME n.action = "RESULT" PROVE /\ Hole!Taken(n.port)' /\ n.port \in Ports
                                /\ \E a \in Asked : <<a, n.port, n.id>> \in heard
      OBVIOUS
    <2>2. PICK p \in Ports, a \in Asked, id \in Nat :
            /\ what = <<"RESULT", p, a>> /\ n.port = p /\ n.id = id
            /\ <<a, p, id>> \in heard
      BY <1>1, <2>1 DEF Reason
    <2>3. CASE a = "OFFER"
      BY <1>2, <2>2, <2>3 DEF Hole!Taken
    <2>4. CASE a = "ACCEPT"
      <3>1. Hole!Taken(p)
        BY <2>2, <2>4 DEF HInv, Answers
      <3> QED BY <1>6, <2>2, <3>1
    <2> QED BY <2>2, <2>3, <2>4 DEF Asked
  <1>11. n.action = "OFFER" => /\ n.port \in Ports /\ ~Hole!Taken(n.port)
                               /\ n.port = "data" => <<"RESULT", "ACCEPT", "ctrl">> \in heard
    BY <1>1 DEF Reason
  <1>12. n.action = "ACCEPT" => /\ n.port \in Ports /\ Hole!Taken(n.port)
           /\ what = <<"ACCEPT", n.port>>
    BY <1>1 DEF Reason
  <1>13. Arriving(Stream)'
    <2>1. ASSUME NEW i \in DOMAIN Stream, NEW m, m = Stream[i]
          PROVE  /\ m.action = "OFFER" /\ m.port = "data" => <<"RESULT", "ACCEPT", "ctrl">> \in heard
                 /\ m.action = "RESULT" => /\ Hole!Taken(m.port)'
                                          /\ \E a \in Asked : <<a, m.port, m.id>> \in heard
                 /\ m.action = "ACCEPT" => Hole!Taken(m.port)' /\ <<"ACCEPT", m.port>> \in said'
      BY <1>2, <2>1 DEF HInv, Arriving, Hole!Taken
    <2>2. /\ n.action = "OFFER" /\ n.port = "data" => <<"RESULT", "ACCEPT", "ctrl">> \in heard
          /\ n.action = "ACCEPT" => Hole!Taken(n.port)' /\ <<"ACCEPT", n.port>> \in said'
      BY <1>2, <1>6, <1>11, <1>12
    <2> QED BY <1>2, <1>4, <1>10, <2>1, <2>2 DEF Arriving
  <1>14. InTurn(Stream)'
    <2>1. ASSUME NEW i \in DOMAIN Stream
          PROVE  /\ ~(Stream[i].action = "RESULT" /\ n.action = "OFFER" /\ Stream[i].port = n.port)
                 /\ ~(Stream[i].action = "ACCEPT" /\ n.action = "ACCEPT" /\ Stream[i].port = n.port)
      BY <1>2, <1>11, <1>12 DEF HInv, Arriving
    <2> QED BY <1>4, <2>1 DEF HInv, InTurn
  <1>15. Gone(Stream)'
    BY <1>2, <1>4, <1>6, <1>11, <1>12 DEF HInv, Gone, Passed, OnData, Hole!Over, Ports, Hole!Ports
  <1>16. Offered(Stream)'
    <2>1. ASSUME NEW p \in Ports, <<"OFFER", p, 0>> \in said', <<"OFFER", p, 0>> \notin said
          PROVE  n.action = "OFFER" /\ n.port = p
      <3>1. what = <<"OFFER", p, 0>>
        BY <1>2, <2>1
      <3> QED BY <1>1, <3>1 DEF Reason
    <2> QED BY <1>2, <1>4, <2>1 DEF HInv, Offered, Hole!Over
  <1>17. Fresh'
    BY DEF HInv, Fresh, ConsoleSays, Hole!Says
  <1> QED BY <1>1, <1>5, <1>7, <1>8, <1>9, <1>13, <1>14, <1>15, <1>16, <1>17 DEF HInv

(* What the connecting thread takes. *)

\* What is taken is the first message.
LEMMA FirstTaken ==
  ASSUME HInv, NEW i \in 1 .. Len(notif), AwaitTaken(i),
         main.pc \notin {"await_created", "await_joined"}, NEW j \in DOMAIN Stream, j < i
  PROVE  Stream[j].action \notin {"OFFER", "RESULT", "ACCEPT"}
  <1>1. HoleTypes
    BY DEF HInv
  <1>2. Stream \in Seq(Notes) /\ \A k \in 1 .. Len(notif) : Stream[k] = notif[k]
    BY <1>1, StreamType
  <1>3. j \in 1 .. i - 1 /\ j \in 1 .. Len(notif) /\ Stream[j] \in Notes
    BY <1>2, LenProperties
  <1>4. Stream[j].type # "message"
    BY <1>2, <1>3 DEF AwaitTaken
  <1> QED BY <1>3, <1>4 DEF Notes

\* The OFFER, RESULT or ACCEPT that a wait takes is the one for the hole at hand: one for the
\* other hole is gone (Gone), or was not said yet (Arriving), or answers another request.
LEMMA AwaitKeeps ==
  ASSUME HInv, Awaits
  PROVE  HInv'
  <1>1. HoleTypes /\ HoleTypes'
    BY AwaitTypes DEF HInv
  <1>2. UNCHANGED <<ws, net, said, heard, lost>>
    BY DEF Awaits, Hole!AwaitCreated, Hole!AwaitJoined, Hole!AwaitOffer, Hole!AwaitResult,
       Hole!AwaitAccept, Hole!AwaitMessage, Hole!AwaitBoth, Hole!psn
  <1>3. \A p \in Ports : /\ Hole!Established(p) \in bits' <=> Hole!Established(p) \in bits
                         /\ Hole!OfferBit(p) \in bits' <=> Hole!OfferBit(p) \in bits
    <2>1. bits' = bits \/ \E b \in {"created", "client_joined", "console_joined", "custom_data1"} :
            bits' = bits \cup {b}
      <3>1. CASE Hole!AwaitCreated
        BY <3>1 DEF Hole!AwaitCreated, Hole!AwaitBoth, Hole!Found, Hole!TypesOf, Hole!At
      <3>2. CASE Hole!AwaitJoined
        BY <3>2 DEF Hole!AwaitJoined, Hole!AwaitBoth, Hole!Found, Hole!TypesOf, Hole!At
      <3>3. CASE Hole!AwaitOffer \/ Hole!AwaitResult \/ Hole!AwaitAccept
        BY <3>3 DEF Hole!AwaitOffer, Hole!AwaitResult, Hole!AwaitAccept, Hole!AwaitMessage
      <3> QED BY <3>1, <3>2, <3>3 DEF Awaits
    <2> QED BY <2>1 DEF Hole!Established, Hole!OfferBit
  <1>4. main.pc \in {"await_created", "await_joined", "await_offer", "await_result", "await_accept"}
    BY DEF Awaits, Hole!AwaitCreated, Hole!AwaitJoined, Hole!AwaitOffer, Hole!AwaitResult,
       Hole!AwaitAccept, Hole!AwaitMessage, Hole!AwaitBoth, Hole!At
  <1>5. PICK i \in 1 .. Len(notif) : AwaitTaken(i)
    BY <1>1, AwaitTakes
  <1>6. /\ Removed(Stream, i, Stream') /\ i \in 1 .. Len(Stream) /\ Stream[i] = notif[i]
        /\ Stream' \in Seq(Notes) /\ Stream \in Seq(Notes) /\ DOMAIN Stream = 1 .. Len(Stream)
    BY <1>1, <1>2, <1>5, StreamOfTake, StreamType, LenProperties DEF AwaitTaken
  <1> DEFINE n == notif[i]
  <1>7. n \in Notes /\ (n.action \in {"OFFER", "RESULT", "ACCEPT"}
          => n.port \in Ports /\ n.type = "message")
    <2>1. n \in Notes
      BY <1>1 DEF HoleTypes
    <2> HIDE DEF n
    <2> QED BY <2>1 DEF Notes
  <1>8. /\ n.action = "OFFER" /\ n.port = "data" => <<"RESULT", "ACCEPT", "ctrl">> \in heard
        /\ n.action = "RESULT" => Hole!Taken(n.port) /\ \E a \in Asked : <<a, n.port, n.id>> \in heard
        /\ n.action = "ACCEPT" => Hole!Taken(n.port) /\ <<"ACCEPT", n.port>> \in said
    BY <1>6 DEF HInv, Arriving
  <1>9. ~Hole!Over
    BY <1>4 DEF Hole!Over
  <1>10. n.action = "OFFER" /\ main.pc = "await_offer" => n.port = main.port
    BY <1>1, <1>6, <1>7, <1>8, <1>9 DEF HInv, HoleTypes, Agreed, Gone, Passed, OnData, Ports,
       Hole!Ports
  <1>11. n.action = "RESULT" /\ n.id = main.req /\ main.pc = "await_result" => n.port = main.port
    <2> SUFFICES ASSUME n.action = "RESULT", n.id = main.req, main.pc = "await_result"
                 PROVE  n.port = main.port
      OBVIOUS
    <2>1. PICK a \in Asked : <<a, n.port, main.req>> \in heard
      BY <1>8
    <2>2. n.port \in Ports /\ main.req \in Nat /\ main.port \in Ports
      BY <1>1, <1>7 DEF HoleTypes
    <2>3. /\ n.port = "data" => OnData
          /\ OnData /\ n.port = "ctrl" => main.req < main.req
      BY <2>1, <2>2 DEF HInv, Requests, SentSteps
    <2> QED BY <2>2, <2>3 DEF OnData, Ports, Hole!Ports
  <1>12. n.action = "ACCEPT" /\ main.pc = "await_accept" => n.port = main.port
    <2> SUFFICES ASSUME n.action = "ACCEPT", main.pc = "await_accept"
                 PROVE  n.port = main.port
      OBVIOUS
    <2>1. n.port \in Ports /\ main.port \in Ports
      BY <1>1, <1>7 DEF HoleTypes
    <2>2. PICK id \in Nat : <<"OFFER", n.port, id>> \in heard
      BY <1>8, <2>1 DEF HInv, Answers
    <2>3. n.port = "data" => OnData
      BY <2>2, <2>1 DEF HInv, Requests, Asked
    <2>4. n.port = "ctrl" => ~OnData
      BY <1>6, <1>9 DEF HInv, Gone, Passed
    <2> QED BY <2>1, <2>3, <2>4 DEF OnData, Ports, Hole!Ports
  <1> HIDE DEF n
  <1>13. \/ main' = [main EXCEPT !.pc = "failed"]
         \/ /\ main.pc \in {"await_created", "await_joined"} /\ n.type # "message"
            /\ \E c \in {"offer", "await_created", "await_offer", "await_joined"} :
                 main' = [main EXCEPT !.pc = c]
         \/ main' = main /\ main.pc \in {"await_offer", "await_result", "await_accept"}
              /\ n.type = "message"
            /\ (n.action = "OFFER" => main.pc # "await_offer")
         \/ main.pc = "await_offer" /\ n.action = "OFFER"
              /\ main' = [main EXCEPT !.pc = "take_offer", !.msg = main.port]
         \/ main.pc = "await_result" /\ n.action = "RESULT" /\ n.port = main.port
              /\ main' = [main EXCEPT !.pc = "probe"]
         \/ main.pc = "await_accept" /\ n.action = "ACCEPT" /\ n.port = main.port
            /\ main' = [main EXCEPT !.pc = "ack_accept", !.msg = main.port]
    BY <1>4, <1>5, <1>10, <1>11, <1>12 DEF n, AwaitTaken
  <1>14. Answers'
    BY <1>2 DEF HInv, Answers, Hole!Taken
  <1>15. Agreed'
    <2> USE <1>1, <1>2, <1>8, <1>9 DEF HInv, HoleTypes, Agreed, Passed, OnData, Hole!Over,
           Hole!Taken, TakenSteps, AckedSteps, SentSteps, ProbeSteps, HoleEndSteps
    <2>1. CASE main' = [main EXCEPT !.pc = "failed"]
      BY <2>1
    <2>2. CASE main.pc \in {"await_created", "await_joined"}
      BY <1>13, <2>2
    <2>3. CASE main' = main
      BY <2>3
    <2>4. CASE main.pc = "await_offer" /\ main' = [main EXCEPT !.pc = "take_offer", !.msg = main.port]
      BY <2>4
    <2>5. CASE main.pc = "await_result" /\ n.action = "RESULT" /\ n.port = main.port
                 /\ main' = [main EXCEPT !.pc = "probe"]
      BY <2>5
    <2>6. CASE main.pc = "await_accept" /\ n.action = "ACCEPT" /\ n.port = main.port
            /\ main' = [main EXCEPT !.pc = "ack_accept", !.msg = main.port]
      BY <2>6
    <2> QED BY <1>13, <2>1, <2>2, <2>3, <2>4, <2>5, <2>6
  <1>16. Punched'
    BY <1>2, <1>3 DEF HInv, Punched
  <1>17. /\ main'.port = main.port /\ main'.req = main.req /\ main'.next = main.next
         /\ \/ main'.pc \in {"failed", "offer", "await_created", "await_offer", "await_joined",
                 "take_offer"}
            \/ main'.pc = main.pc
            \/ main.pc = "await_result" /\ main'.pc = "probe"
            \/ main.pc = "await_accept" /\ main'.pc = "ack_accept"
    <2>1. main \in [pc : HoleSteps, port : Ports, msg : Ports, ours : BOOLEAN, next : Nat, req : Nat]
      BY <1>1 DEF HoleTypes
    <2>2. CASE main' = [main EXCEPT !.pc = "failed"]
      BY <2>1, <2>2
    <2>3. CASE \E c \in {"offer", "await_created", "await_offer", "await_joined"} :
                 main' = [main EXCEPT !.pc = c]
      BY <2>1, <2>3
    <2>4. CASE main' = main
      BY <2>4
    <2>5. CASE main' = [main EXCEPT !.pc = "take_offer", !.msg = main.port]
      BY <2>1, <2>5
    <2>6. CASE main.pc = "await_result" /\ main' = [main EXCEPT !.pc = "probe"]
      BY <2>1, <2>6
    <2>7. CASE main.pc = "await_accept" /\ main' = [main EXCEPT !.pc = "ack_accept",
                 !.msg = main.port]
      BY <2>1, <2>7
    <2> QED BY <1>13, <2>2, <2>3, <2>4, <2>5, <2>6, <2>7
  <1>18. Acked'
    <2> SUFFICES ASSUME ~Hole!Over' PROVE Acked'
      BY DEF Acked
    <2>1. main'.pc \in TakenSteps => main.pc \in TakenSteps
      BY <1>17 DEF TakenSteps, AckedSteps, SentSteps, ProbeSteps
    <2>2. \A p \in Ports : Hole!OfferBit(p) \in bits' <=> Hole!OfferBit(p) \in bits
      BY <1>3
    <2>3. /\ "ctrl_offer" \in bits' <=> "ctrl_offer" \in bits
          /\ "data_offer" \in bits' <=> "data_offer" \in bits
      BY <2>2 DEF Hole!OfferBit, Ports, Hole!Ports
    <2>4. main.pc # "ack_offer"
      BY <1>4
    <2> QED BY <1>2, <1>9, <1>17, <2>1, <2>2, <2>3, <2>4 DEF HInv, Acked, Passed, OnData
  <1>19. Requests'
    <2>1. main'.pc \in SentSteps => main.pc \in SentSteps
      BY <1>17 DEF SentSteps, ProbeSteps
    <2> QED BY <1>2, <1>17, <2>1 DEF HInv, Requests, OnData
  <1>20. Arriving(Stream') /\ InTurn(Stream') /\ Gone(Stream')
    BY <1>6, RemovedKeeps DEF HInv
  <1>21. Arriving(Stream)' /\ InTurn(Stream)'
    BY <1>2, <1>20 DEF Arriving, InTurn, Hole!Taken
  <1>22. \A j \in DOMAIN Stream : n.type = "message" /\ j < i =>
            Stream[j].action \notin {"OFFER", "RESULT", "ACCEPT"}
    BY <1>5, FirstTaken DEF AwaitTaken, n
  <1>23. \A j \in DOMAIN Stream' : \E k \in DOMAIN Stream : Stream'[j] = Stream[k] /\ (k < i \/ i < k)
    BY <1>6, RemovedElements
  <1>24. Gone(Stream)'
    <2>1. CASE main.pc = "await_result" /\ n.action = "RESULT" /\ n.port = main.port
                 /\ main' = [main EXCEPT !.pc = "probe"]
      <3>1. \A k \in DOMAIN Stream : i < k => ~(Stream[k].action = "OFFER" /\ Stream[k].port = n.port)
        BY <1>6, <2>1 DEF HInv, InTurn, n
      <3>2. Hole!Taken(main.port)
        BY <1>8, <2>1
      <3>3. \A j \in DOMAIN Stream' : ~(Stream'[j].action = "OFFER" /\ Stream'[j].port = n.port)
        BY <1>7, <1>22, <1>23, <2>1, <3>1
      <3>4. main'.pc = "probe" /\ main'.port = main.port
        BY <1>1, <2>1 DEF HoleTypes
      <3>5. main.port \in Ports
        BY <1>1 DEF HoleTypes
      <3>6. CASE main.port = "data"
        BY <1>2, <1>9, <1>20, <3>4, <3>6 DEF Gone, Passed, OnData, Hole!Taken
      <3>7. CASE main.port = "ctrl"
        BY <1>2, <1>9, <1>20, <2>1, <3>2, <3>3, <3>4, <3>7 DEF Gone, Passed, OnData, Hole!Over,
           Hole!Taken, ProbeSteps, HoleEndSteps
      <3> QED BY <3>5, <3>6, <3>7 DEF Ports, Hole!Ports
    <2>2. CASE main.pc = "await_accept" /\ n.action = "ACCEPT" /\ n.port = main.port
            /\ main' = [main EXCEPT !.pc = "ack_accept", !.msg = main.port]
      <3>1. \A k \in DOMAIN Stream : i < k => ~(Stream[k].action = "ACCEPT"
              /\ Stream[k].port = n.port)
        BY <1>6, <2>2 DEF HInv, InTurn, n
      <3>2. \A j \in DOMAIN Stream' : ~(Stream'[j].action = "ACCEPT" /\ Stream'[j].port = n.port)
        BY <1>7, <1>22, <1>23, <2>2, <3>1
      <3>3. main'.pc = "ack_accept" /\ main'.port = main.port
        BY <1>1, <2>2 DEF HoleTypes
      <3>4. main.port \in Ports
        BY <1>1 DEF HoleTypes
      <3>5. CASE main.port = "data"
        BY <1>2, <1>9, <1>20, <3>3, <3>5 DEF Gone, Passed, OnData, Hole!Taken
      <3>6. CASE main.port = "ctrl"
        BY <1>2, <1>8, <1>9, <1>20, <2>2, <3>2, <3>3, <3>6 DEF Gone, Passed, OnData, Hole!Over,
           Hole!Taken, ProbeSteps, HoleEndSteps
      <3> QED BY <3>4, <3>5, <3>6 DEF Ports, Hole!Ports
    <2>3. CASE \/ main' = [main EXCEPT !.pc = "failed"]
                    \/ main.pc \in {"await_created", "await_joined", "await_offer"}
               \/ main' = main
      BY <1>1, <1>2, <1>13, <1>20, <2>3 DEF HoleTypes, Gone, Passed, OnData, Hole!Over, Hole!Taken,
         ProbeSteps, HoleEndSteps, Ports, Hole!Ports
    <2> QED BY <1>13, <2>1, <2>2, <2>3
  <1>25. Offered(Stream)'
    <2>1. CASE main' = [main EXCEPT !.pc = "failed"]
      BY <1>1, <2>1 DEF HoleTypes, Offered, Hole!Over
    <2>2. CASE n.action # "OFFER"
      <3>1. Offered(Stream')
        BY <1>6, <2>2, RemovedOffered DEF HInv, n
      <3> QED BY <1>1, <1>2, <1>3, <1>4, <1>13, <2>2, <3>1 DEF HoleTypes, Offered, Hole!Over
    <2>3. CASE n.action = "OFFER" /\ main' # [main EXCEPT !.pc = "failed"]
      <3>1. \/ main.pc = "await_offer" /\ main' = [main EXCEPT !.pc = "take_offer",
                 !.msg = main.port] /\ n.port = main.port
            \/ main' = main /\ main.pc \in {"await_result", "await_accept"}
        BY <1>4, <1>7, <1>10, <1>13, <2>3
      <3>2. main' = main => Hole!OfferBit(n.port) \in bits
        <4> SUFFICES ASSUME main.pc \in {"await_result", "await_accept"}
                     PROVE  Hole!OfferBit(n.port) \in bits
          BY <1>1, <3>1 DEF HoleTypes
        <4>1. /\ main.pc \in TakenSteps
              /\ main.pc \notin {"establish", "reply", "replying", "between"}
              /\ main.port \in Ports /\ n.port \in Ports
          BY <1>1, <1>7, <2>3 DEF HoleTypes, TakenSteps, AckedSteps, SentSteps, ProbeSteps
        <4>2. n.port = "data" => OnData
          BY <1>8, <1>9, <2>3, <4>1 DEF HInv, Agreed, Passed
        <4>3. "ctrl_offer" \in bits /\ (OnData => "data_offer" \in bits)
          BY <1>9, <4>1 DEF HInv, Acked, Passed
        <4> QED BY <4>1, <4>2, <4>3 DEF Ports, Hole!Ports, Hole!OfferBit
      <3>3. ASSUME NEW p \in Ports, p # n.port, NEW j \in DOMAIN Stream, Stream[j].action = "OFFER",
                     Stream[j].port = p
            PROVE  \E k \in DOMAIN Stream' : Stream'[k].action = "OFFER" /\ Stream'[k].port = p
        <4>1. j # i
          BY <1>6, <3>3 DEF n
        <4> QED BY <1>6, <3>3, <4>1, RemovedLeaves
      <3>4. main'.port = main.port /\ ~Hole!Over' /\ (main' = main \/ main'.pc = "take_offer")
        BY <1>1, <1>9, <3>1 DEF HoleTypes, Hole!Over
      <3> QED BY <1>2, <1>3, <1>9, <3>1, <3>2, <3>3, <3>4, <1>7, <2>3 DEF HInv, Offered
    <2> QED BY <2>1, <2>2, <2>3
  <1>26. Fresh'
    BY <1>1, <1>4, <1>13 DEF HoleTypes, Fresh
  <1> QED BY <1>1, <1>14, <1>15, <1>16, <1>18, <1>24, <1>25, <1>19, <1>21, <1>26 DEF HInv

(* The other steps of the connecting thread. *)

\* The other steps of the thread leave what is on its way alone.
LEMMA QuietHeard ==
  ASSUME HInv, Quiet
  PROVE  /\ UNCHANGED <<notif, net, said, lost>> /\ Stream' = Stream /\ heard \subseteq heard'
  <1>1. UNCHANGED <<notif, net, said, lost>> /\ (ws' = ws \/ (ws.pc = "none" /\ ws'.pc = "connect"))
    <2>1. CASE Idle
      BY <2>1 DEF Idle, HInv, Fresh, HoleTypes, Hole!At, Hole!psn, Hole!CreateOffer,
         Hole!OfferCreated, Hole!AwaitOpen, Hole!WaitEnds, Hole!GetFqdn, Hole!CheckCandidates,
         Hole!CandidatesChecked, Hole!Reply, Hole!Replied, Hole!NextHole
    <2>2. CASE Posting
      BY <2>2 DEF Posting, Hole!psn, Hole!CreateSession, Hole!Start, Hole!TakeOffer, Hole!AckOffer,
         Hole!SendOffer, Hole!SendAccept, Hole!AckAccept, Hole!Establish
    <2> QED BY <2>1, <2>2 DEF Quiet, Idle, Posting
  <1>2. heard \subseteq heard'
    <2>1. CASE Idle
      BY <2>1 DEF Idle, Hole!psn, Hole!CreateOffer, Hole!OfferCreated, Hole!AwaitOpen, Hole!WaitEnds,
         Hole!GetFqdn, Hole!CheckCandidates, Hole!CandidatesChecked, Hole!Reply, Hole!Replied,
         Hole!NextHole
    <2>2. CASE Posting
      BY <2>2 DEF Posting, Hole!psn, Hole!Posts, Hole!PostFails, Hole!CreateSession, Hole!Start,
         Hole!TakeOffer, Hole!AckOffer, Hole!SendOffer, Hole!SendAccept, Hole!AckAccept,
         Hole!Establish
    <2> QED BY <2>1, <2>2 DEF Quiet, Idle, Posting
  <1> QED BY <1>1, <1>2 DEF InHand, Stream

\* Most of them change the step only.
LEMMA IdleKeeps ==
  ASSUME HInv, Idle
  PROVE  HInv'
  <1>1. Quiet
    BY DEF Quiet, Idle, Posting
  <1>2. HoleTypes /\ HoleTypes'
    BY <1>1, QuietTypes DEF HInv
  <1>3. UNCHANGED <<said, lost, heard, bits>> /\ Stream' = Stream
    BY <1>1, QuietHeard DEF Idle, Hole!psn, Hole!CreateOffer, Hole!OfferCreated, Hole!AwaitOpen,
       Hole!WaitEnds, Hole!GetFqdn, Hole!CheckCandidates, Hole!CandidatesChecked, Hole!Reply,
       Hole!Replied, Hole!NextHole
  <1>4. /\ main'.req = main.req /\ main'.next >= main.next /\ main'.msg = main.msg
        /\ \/ main'.pc \in {"failed", "done"} /\ main'.port = main.port
           \/ main'.port = main.port /\ <<main.pc, main'.pc>> \in
                 {<<"fqdn", "await_open">>, <<"await_open", "session">>, <<"offer", "offering">>,
                   <<"offering", "await_offer">>, <<"offering", "start">>,
                  <<"probe", "probing">>, <<"probing", "accept">>, <<"reply", "replying">>,
                  <<"replying", "between">>}
           \/ main'.port = "data" /\ main.pc = "between" /\ main'.pc = "offer"
    <2>1. main \in [pc : HoleSteps, port : Ports, msg : Ports, ours : BOOLEAN, next : Nat, req : Nat]
      BY <1>2 DEF HoleTypes
    <2>2. CASE Hole!CreateOffer
      <3>1. main.pc = "offer" /\ (main' = [main EXCEPT !.pc = "offering", !.next = @ + 1])
        BY <2>2 DEF Hole!CreateOffer, Hole!At, Hole!Checked, Hole!Fail, Hole!Goto
      <3>2. CASE main' = [main EXCEPT !.pc = "offering", !.next = @ + 1]
        BY <2>1, <3>1, <3>2
      <3> QED BY <3>1, <3>2
    <2>3. CASE Hole!OfferCreated
      <3>1. main.pc = "offering" /\ (main' = [main EXCEPT !.pc = "start", !.ours = TRUE]
              \/ main' = [main EXCEPT !.pc = "await_offer", !.ours = TRUE]
              \/ main' = [main EXCEPT !.pc = "failed", !.ours = FALSE]
              \/ main' = [main EXCEPT !.pc = "await_offer", !.ours = FALSE])
        BY <2>3 DEF Hole!OfferCreated, Hole!At, Hole!Checked, Hole!Fail, Hole!Goto
      <3>2. CASE main' = [main EXCEPT !.pc = "start", !.ours = TRUE]
        BY <2>1, <3>1, <3>2
      <3>3. CASE main' = [main EXCEPT !.pc = "await_offer", !.ours = TRUE]
        BY <2>1, <3>1, <3>3
      <3>4. CASE main' = [main EXCEPT !.pc = "failed", !.ours = FALSE]
        BY <2>1, <3>1, <3>4
      <3>5. CASE main' = [main EXCEPT !.pc = "await_offer", !.ours = FALSE]
        BY <2>1, <3>1, <3>5
      <3> QED BY <3>1, <3>2, <3>3, <3>4, <3>5
    <2>4. CASE Hole!AwaitOpen
      <3>1. main.pc = "await_open" /\ (main' = [main EXCEPT !.pc = "session"]
              \/ main' = [main EXCEPT !.pc = "failed"])
        BY <2>4 DEF Hole!AwaitOpen, Hole!At, Hole!Checked, Hole!Fail, Hole!Goto
      <3>2. CASE main' = [main EXCEPT !.pc = "session"]
        BY <2>1, <3>1, <3>2
      <3>3. CASE main' = [main EXCEPT !.pc = "failed"]
        BY <2>1, <3>1, <3>3
      <3> QED BY <3>1, <3>2, <3>3
    <2>5. CASE Hole!WaitEnds
      BY <2>1, <2>5 DEF Hole!WaitEnds, Hole!Fail, Hole!Goto
    <2>6. CASE Hole!GetFqdn
      <3>1. main.pc = "fqdn" /\ (main' = [main EXCEPT !.pc = "await_open"]
              \/ main' = [main EXCEPT !.pc = "failed"])
        BY <2>6 DEF Hole!GetFqdn, Hole!At, Hole!Checked, Hole!Fail, Hole!Goto
      <3>2. CASE main' = [main EXCEPT !.pc = "await_open"]
        BY <2>1, <3>1, <3>2
      <3>3. CASE main' = [main EXCEPT !.pc = "failed"]
        BY <2>1, <3>1, <3>3
      <3> QED BY <3>1, <3>2, <3>3
    <2>7. CASE Hole!CheckCandidates
      <3>1. main.pc = "probe" /\ (main' = [main EXCEPT !.pc = "probing"])
        BY <2>7 DEF Hole!CheckCandidates, Hole!At, Hole!Checked, Hole!Fail, Hole!Goto
      <3>2. CASE main' = [main EXCEPT !.pc = "probing"]
        BY <2>1, <3>1, <3>2
      <3> QED BY <3>1, <3>2
    <2>8. CASE Hole!CandidatesChecked
      <3>1. main.pc = "probing" /\ (main' = [main EXCEPT !.pc = "accept"]
              \/ main' = [main EXCEPT !.pc = "failed"])
        BY <2>8 DEF Hole!CandidatesChecked, Hole!At, Hole!Checked, Hole!Fail, Hole!Goto
      <3>2. CASE main' = [main EXCEPT !.pc = "accept"]
        BY <2>1, <3>1, <3>2
      <3>3. CASE main' = [main EXCEPT !.pc = "failed"]
        BY <2>1, <3>1, <3>3
      <3> QED BY <3>1, <3>2, <3>3
    <2>9. CASE Hole!Reply
      <3>1. main.pc = "reply" /\ (main' = [main EXCEPT !.pc = "replying"]
              \/ main' = [main EXCEPT !.pc = "failed"])
        BY <2>9 DEF Hole!Reply, Hole!At, Hole!Checked, Hole!Fail, Hole!Goto
      <3>2. CASE main' = [main EXCEPT !.pc = "replying"]
        BY <2>1, <3>1, <3>2
      <3>3. CASE main' = [main EXCEPT !.pc = "failed"]
        BY <2>1, <3>1, <3>3
      <3> QED BY <3>1, <3>2, <3>3
    <2>10. CASE Hole!NextHole
      <3>1. main.pc = "between" /\ (main' = [main EXCEPT !.pc = "offer", !.port = "data"]
              \/ main' = [main EXCEPT !.pc = "done"])
        BY <2>10 DEF Hole!NextHole, Hole!At, Hole!Checked, Hole!Fail, Hole!Goto
      <3>2. CASE main' = [main EXCEPT !.pc = "offer", !.port = "data"]
        BY <2>1, <3>1, <3>2
      <3>3. CASE main' = [main EXCEPT !.pc = "done"]
        BY <2>1, <3>1, <3>3
      <3> QED BY <3>1, <3>2, <3>3
    <2>11. CASE Hole!Replied
      <3>1. main.pc = "replying" /\ (main' = [main EXCEPT !.pc = "between", !.ours = FALSE]
              \/ main' = [main EXCEPT !.pc = "done", !.ours = FALSE]
              \/ main' = [main EXCEPT !.pc = "failed"])
        BY <2>11 DEF Hole!Replied, Hole!At, Hole!Fail, Hole!Goto
      <3>2. CASE main' = [main EXCEPT !.pc = "between", !.ours = FALSE]
        BY <2>1, <3>1, <3>2
      <3>3. CASE main' = [main EXCEPT !.pc = "done", !.ours = FALSE]
        BY <2>1, <3>1, <3>3
      <3>4. CASE main' = [main EXCEPT !.pc = "failed"]
        BY <2>1, <3>1, <3>4
      <3> QED BY <3>1, <3>2, <3>3, <3>4
    <2> QED BY <2>2, <2>3, <2>4, <2>5, <2>6, <2>7, <2>8, <2>9, <2>10, <2>11 DEF Idle
  <1>5. Fresh'
    BY <1>4 DEF Fresh
  <1>6. Requests'
    BY <1>2, <1>3, <1>4 DEF HInv, HoleTypes, Requests, OnData, SentSteps, ProbeSteps
  <1>7. Answers' /\ Punched' /\ InTurn(Stream)' /\ Arriving(Stream)'
    BY <1>3 DEF HInv, Answers, Punched, InTurn, Arriving, Hole!Taken
  <1>8. Agreed'
    BY <1>2, <1>3, <1>4 DEF HInv, HoleTypes, Agreed, Passed, OnData, TakenSteps, AckedSteps,
       SentSteps, ProbeSteps, HoleEndSteps, Hole!Over, Hole!Taken
  <1>9. Acked'
    BY <1>2, <1>3, <1>4 DEF HInv, HoleTypes, Acked, Passed, OnData, TakenSteps, AckedSteps,
       SentSteps, ProbeSteps, Hole!Over
  <1>10. Gone(Stream)'
    BY <1>2, <1>3, <1>4 DEF HInv, HoleTypes, Gone, Passed, OnData, ProbeSteps, HoleEndSteps, Hole!Over,
       Hole!Taken
  <1>11. Offered(Stream)'
    BY <1>2, <1>3, <1>4 DEF HInv, HoleTypes, Offered, Hole!Over
  <1> QED BY <1>2, <1>5, <1>6, <1>7, <1>8, <1>9, <1>10, <1>11 DEF HInv

\* A post is heard before the thread goes on; bits are set in between.
LEMMA PostingKeeps ==
  ASSUME HInv, Posting
  PROVE  HInv'
  <1>1. Quiet
    BY DEF Quiet, Idle, Posting
  <1>2. HoleTypes /\ HoleTypes'
    BY <1>1, QuietTypes DEF HInv
  <1>3. UNCHANGED <<said, lost>> /\ Stream' = Stream /\ heard \subseteq heard'
    BY <1>1, QuietHeard
  <1>4. Arriving(Stream)'
    BY <1>3 DEF HInv, Arriving, Hole!Taken
  <1>5. InTurn(Stream)'
    BY <1>3 DEF HInv, InTurn
  <1>6. /\ main'.port = main.port
         /\ \/ /\ main.pc \in {"session", "start"} /\ main'.pc \in {"failed", "await_created",
                    "await_joined"}
               /\ main'.req = main.req /\ main'.next = main.next /\ bits' = bits
               /\ heard' \in {heard, heard \cup {<<"create">>}, heard \cup {<<"start">>}}
            \/ /\ main.pc = "take_offer" /\ main'.pc = "ack_offer" /\ main'.msg = main.msg
               /\ main'.req = main.req /\ main'.next = main.next /\ heard' = heard
               /\ bits' = bits \cup {Hole!OfferBit(main.port)}
            \/ /\ main.pc = "ack_offer" /\ main'.msg = main.msg
               /\ main'.req = main.req /\ main'.next = main.next /\ bits' = bits
               /\ \/ main'.pc = "failed"
                  \/ main'.pc = "send_offer" /\ heard' = heard \cup {<<"RESULT", "OFFER", main.msg>>}
               /\ heard' \in {heard, heard \cup {<<"RESULT", "OFFER", main.msg>>}}
            \/ /\ main.pc = "send_offer" /\ main'.pc = "await_result" /\ main'.msg = main.msg
               /\ main'.req = main.next /\ main'.next = main.next + 1 /\ bits' = bits
               /\ heard' \in {heard, heard \cup {<<"OFFER", main.port, main.next>>}}
            \/ /\ main.pc = "accept" /\ main'.pc \in {"failed", "await_accept"}
                    /\ main'.msg = main.msg
               /\ main'.req = main.req /\ main'.next \in {main.next, main.next + 1} /\ bits' = bits
               /\ heard' \in {heard, heard \cup {<<"ACCEPT", main.port, main.req>>}}
            \/ /\ main.pc = "ack_accept" /\ main'.msg = main.msg
               /\ main'.req = main.req /\ main'.next = main.next /\ bits' = bits
               /\ \/ main'.pc = "failed"
                  \/ main'.pc = "establish" /\ heard' = heard \cup {<<"RESULT", "ACCEPT", main.msg>>}
               /\ heard' \in {heard, heard \cup {<<"RESULT", "ACCEPT", main.msg>>}}
            \/ /\ main.pc = "establish" /\ main'.pc \in {"failed", "reply"} /\ main'.msg = main.msg
               /\ main'.req = main.req /\ main'.next = main.next
               /\ bits' = bits \cup {Hole!Established(main.port)} /\ heard' = heard
    <2> USE <1>2 DEF HoleTypes, Hole!Checked, Hole!Fail, Hole!Goto, Hole!At, Hole!Posts,
           Hole!PostFails
    <2>1. CASE Hole!CreateSession
      BY <2>1 DEF Hole!CreateSession
    <2>2. CASE Hole!Start
      BY <2>2 DEF Hole!Start
    <2>3. CASE Hole!AckOffer
      BY <2>3 DEF Hole!AckOffer
    <2>4. CASE Hole!SendOffer
      BY <2>4 DEF Hole!SendOffer
    <2>5. CASE Hole!SendAccept
      BY <2>5 DEF Hole!SendAccept
    <2>6. CASE Hole!AckAccept
      BY <2>6 DEF Hole!AckAccept
    <2>7. CASE Hole!Establish
      <3>1. /\ main.pc = "establish" /\ heard' = heard
            /\ bits' = bits \cup {Hole!Established(main.port)}
        BY <2>7 DEF Hole!Establish, Hole!psn
      <3>2. CASE main' = [main EXCEPT !.pc = "reply"]
        BY <3>1, <3>2
      <3>3. CASE main' = [main EXCEPT !.pc = "failed"]
        BY <3>1, <3>3
      <3> QED BY <2>7, <3>2, <3>3 DEF Hole!Establish
    <2>8. CASE Hole!TakeOffer
      BY <2>8 DEF Hole!TakeOffer, Hole!psn
    <2> QED BY <2>1, <2>2, <2>3, <2>4, <2>5, <2>6, <2>7, <2>8 DEF Posting
  <1>7. main.port \in Ports /\ main.req \in Nat /\ main.next \in Nat
    BY <1>2 DEF HoleTypes
  <1>8. ASSUME NEW a \in Asked, NEW p \in Ports, NEW id \in Nat, <<a, p, id>> \in heard'
         PROVE  \/ <<a, p, id>> \in heard
                \/ main.pc = "send_offer" /\ a = "OFFER" /\ p = main.port /\ id = main'.req
                \/ main.pc = "accept" /\ a = "ACCEPT" /\ p = main.port /\ id = main'.req
    BY <1>6, <1>8 DEF Asked
  <1>9. ASSUME NEW p \in Ports
         PROVE  /\ Hole!Established(p) \in bits' =>
                     Hole!Established(p) \in bits \/ (main.pc = "establish" /\ p = main.port)
                /\ Hole!OfferBit(p) \in bits' => Hole!OfferBit(p) \in bits
                     \/ (main.pc = "take_offer" /\ p = main.port)
    BY <1>6, <1>7 DEF Hole!Established, Hole!OfferBit, Ports, Hole!Ports
  <1>10. bits \subseteq bits'
    BY <1>6
  <1>11. Requests'
    <2>1. main'.req < main'.next
      BY <1>6, <1>7 DEF HInv, Requests
    <2>2. ASSUME NEW a \in Asked, NEW p \in Ports, NEW id \in Nat, <<a, p, id>> \in heard'
          PROVE  /\ id <= main'.req
                 /\ p = "data" => OnData'
                 /\ OnData' /\ main'.pc \in SentSteps /\ p = "ctrl" => id < main'.req
      <3>1. main'.req \in Nat /\ main.req <= main'.req
        BY <1>6, <1>7 DEF HInv, Requests
      <3>2. CASE <<a, p, id>> \in heard
        <4>1. /\ id <= main.req
              /\ p = "data" => OnData
              /\ OnData /\ main.pc \in SentSteps /\ p = "ctrl" => id < main.req
          BY <3>2 DEF HInv, Requests
        <4>2. OnData' <=> OnData
          BY <1>6 DEF OnData
        <4>3. main'.pc \in SentSteps => (main.pc \in SentSteps
                /\ main'.req = main.req) \/ main'.req > main.req
          BY <1>6, <1>7 DEF HInv, Requests, SentSteps, ProbeSteps
        <4> QED BY <1>7, <3>1, <4>1, <4>2, <4>3
      <3>3. CASE p = main.port /\ id = main'.req
        <4>1. OnData' <=> p = "data"
          BY <1>6, <3>3 DEF OnData
        <4> QED BY <3>1, <3>3, <4>1
      <3> QED BY <1>8, <2>2, <3>2, <3>3
    <2> QED BY <2>1, <2>2 DEF Requests
  <1>12. Answers'
    <2>1. \A p \in Ports : Hole!Taken(p)' <=> Hole!Taken(p)
      BY <1>3 DEF Hole!Taken
    <2>2. main.pc = "accept" => Hole!Taken(main.port)
      BY DEF HInv, Agreed, ProbeSteps, Hole!Over
    <2>3. ASSUME NEW p \in Ports, NEW id \in Nat, <<"ACCEPT", p, id>> \in heard'
          PROVE  Hole!Taken(p)'
      <3>1. <<"ACCEPT", p, id>> \in heard \/ (main.pc = "accept" /\ p = main.port)
        BY <1>8, <2>3 DEF Asked
      <3> QED BY <2>1, <2>2, <3>1 DEF HInv, Answers
    <2> QED BY <1>3, <2>1, <2>3 DEF HInv, Answers
  <1>13. Punched'
    <2>1. main.pc = "establish" => <<"ACCEPT", main.port>> \in said
            /\ <<"RESULT", "ACCEPT", main.port>> \in heard
      BY DEF HInv, Agreed, HoleEndSteps, Hole!Over
    <2> QED BY <1>3, <1>9, <2>1 DEF HInv, Punched
  <1>14. Acked'
    <2> SUFFICES ASSUME ~Hole!Over' PROVE Acked'
      BY DEF Acked
    <2>1. ~Hole!Over /\ main'.port = main.port
      BY <1>6 DEF Hole!Over
    <2>2. ASSUME NEW p \in Ports, Hole!OfferBit(p) \in bits'
          PROVE  \/ <<"RESULT", "OFFER", p>> \in heard'
                 \/ main'.pc = "ack_offer" /\ main'.port = p
      <3>1. CASE <<"RESULT", "OFFER", p>> \in heard
        BY <1>3, <3>1
      <3>2. CASE main.pc = "ack_offer" /\ main.port = p
        <4>1. main.msg = main.port
          BY <2>1, <3>2 DEF HInv, Agreed, TakenSteps
        <4> QED BY <1>6, <2>1, <3>2, <4>1 DEF Hole!Over
      <3>3. CASE main.pc = "take_offer" /\ p = main.port
        BY <1>6, <3>3
      <3>4. Hole!OfferBit(p) \in bits \/ (main.pc = "take_offer" /\ p = main.port)
        BY <1>9, <2>2
      <3> QED BY <2>1, <3>1, <3>2, <3>3, <3>4 DEF HInv, Acked
    <2>3. main'.pc \in TakenSteps => main.pc \in TakenSteps \/ (main.pc = "take_offer"
            /\ Hole!OfferBit(main.port) \in bits')
      BY <1>6, <2>1 DEF TakenSteps, AckedSteps, SentSteps, ProbeSteps, Hole!Over
    <2>4. "ctrl_offer" \in bits' \/ ~Passed(TakenSteps)'
      BY <1>7, <1>10, <2>1, <2>3 DEF HInv, Acked, Passed, OnData, Ports, Hole!Ports, Hole!OfferBit
    <2>5. OnData' /\ main'.pc \in TakenSteps => "data_offer" \in bits'
      BY <1>10, <2>1, <2>3 DEF HInv, Acked, OnData, Hole!OfferBit
    <2> QED BY <2>2, <2>4, <2>5 DEF Acked
  <1> USE <1>3, <1>6, <1>7
  <1>15. Fresh'
    BY DEF Fresh
  <1>16. Agreed'
    BY DEF HInv, Agreed, Passed, OnData, TakenSteps, AckedSteps, SentSteps, ProbeSteps,
       HoleEndSteps, Hole!Over, Hole!Taken
  <1>17. Gone(Stream)'
    BY DEF HInv, Gone, Passed, OnData, ProbeSteps, HoleEndSteps, Hole!Over, Hole!Taken
  <1>18. Offered(Stream)'
    BY DEF HInv, Offered, Hole!Over
  <1> QED BY <1>2, <1>15, <1>11, <1>12, <1>16, <1>13, <1>14, <1>4, <1>5, <1>17, <1>18 DEF HInv

\* The invariant is inductive ...
LEMMA HoleNext == HInv /\ [Hole!Next]_holeVars => HInv'
  <1> SUFFICES ASSUME HInv, [Hole!Next]_holeVars PROVE HInv'
    OBVIOUS
  <1>1. CASE Hole!Main
    BY <1>1, IdleKeeps, PostingKeeps, AwaitKeeps DEF Hole!Main, Idle, Posting, Awaits
  <1>2. CASE Hole!WsThread \/ Hole!WsBreaks \/ Hole!TakePending \/ Hole!LetGo
    BY <1>2, WsKeeps
  <1>3. CASE Hole!External
    <2>1. PICK what, n : ConsoleSays(what, n)
      BY <1>3, ExternalSays DEF HInv
    <2> QED BY <2>1, SaysKeeps
  <1>4. CASE UNCHANGED holeVars
    <2>1. HoleTypes' /\ Fresh' /\ Stream' = Stream
      BY <1>4 DEF HInv, HoleTypes, Fresh, Stream, InHand, holeVars
    <2>2. Requests' /\ Answers' /\ Agreed' /\ Punched' /\ Acked'
      BY <1>4 DEF HInv, Requests, Answers, Agreed, Punched, Acked, Passed, OnData, Hole!Over,
         Hole!Taken, holeVars
    <2>3. Arriving(Stream)' /\ InTurn(Stream)'
      BY <1>4, <2>1 DEF HInv, Arriving, InTurn, Hole!Taken, holeVars
    <2>4. Gone(Stream)' /\ Offered(Stream)'
      BY <1>4, <2>1 DEF HInv, Gone, Offered, Passed, OnData, Hole!Over, Hole!Taken, holeVars
    <2> QED BY <2>1, <2>2, <2>3, <2>4 DEF HInv
  <1> QED BY <1>1, <1>2, <1>3, <1>4 DEF Hole!Next

\* ... and implies both properties: the first is part of it, ...
LEMMA HoleAgreed == HInv => Hole!HoleIsAgreed
  BY DEF HInv, Agreed, Punched, Hole!HoleIsAgreed, TakenSteps, AckedSteps, SentSteps, ProbeSteps,
     HoleEndSteps, Ports, Hole!Over

\* ... and what is on its way is in the queue, in hand, or in the socket.
LEMMA StreamIsQueued ==
  ASSUME HoleTypes, NEW i \in DOMAIN Stream, NEW p, Stream[i].action = "OFFER", Stream[i].port = p
  PROVE  Hole!Queued(p)
  <1>1. notif \in Seq(Notes) /\ net \in Seq(Notes) /\ InHand \in Seq(Notes)
    BY StreamType DEF HoleTypes
  <1>2. Len(notif) \in Nat /\ Len(InHand) \in Nat /\ Len(net) \in Nat
    BY <1>1, LenProperties
  <1>3. /\ notif \o InHand \in Seq(Notes) /\ Len(notif \o InHand) = Len(notif) + Len(InHand)
        /\ \A k \in 1 .. Len(notif) + Len(InHand) :
             (notif \o InHand)[k] = IF k <= Len(notif) THEN notif[k] ELSE InHand[k - Len(notif)]
    BY <1>1, Concats
  <1>4. /\ Len(Stream) = Len(notif) + Len(InHand) + Len(net) /\ Stream \in Seq(Notes)
        /\ \A k \in 1 .. Len(notif) + Len(InHand) + Len(net) :
             Stream[k] = IF k <= Len(notif) + Len(InHand) THEN (notif \o InHand)[k]
                         ELSE net[k - (Len(notif) + Len(InHand))]
    BY <1>1, <1>3, Concats DEF Stream
  <1>5. /\ notif \o net \in Seq(Notes) /\ Len(notif \o net) = Len(notif) + Len(net)
        /\ \A k \in 1 .. Len(notif) + Len(net) :
             (notif \o net)[k] = IF k <= Len(notif) THEN notif[k] ELSE net[k - Len(notif)]
    BY <1>1, Concats
  <1>6. i \in 1 .. Len(notif) + Len(InHand) + Len(net)
    BY <1>4, LenProperties
  <1>7. DOMAIN (notif \o net) = 1 .. Len(notif) + Len(net)
    BY <1>5, LenProperties
  <1>8. \/ \E k \in DOMAIN (notif \o net) : (notif \o net)[k] = Stream[i]
        \/ ws.pc \in {"ack", "push"} /\ Stream[i] = ws.msg
    <2>1. CASE i <= Len(notif)
      <3>1. Stream[i] = notif[i]
        BY <1>2, <1>3, <1>4, <1>6, <2>1
      <3>2. i \in 1 .. Len(notif) + Len(net) /\ (notif \o net)[i] = notif[i]
        BY <1>2, <1>5, <1>6, <2>1
      <3> QED BY <1>7, <3>1, <3>2
    <2>2. CASE i > Len(notif) /\ i <= Len(notif) + Len(InHand)
      <3>1. Stream[i] = InHand[i - Len(notif)] /\ i - Len(notif) \in 1 .. Len(InHand)
        BY <1>2, <1>3, <1>4, <1>6, <2>2
      <3>2. ws.pc \in {"ack", "push"} /\ Len(InHand) = 1 /\ InHand[1] = ws.msg
        BY <1>2, <3>1 DEF InHand
      <3>3. i - Len(notif) = 1
        BY <3>1, <3>2
      <3> QED BY <3>1, <3>2, <3>3
    <2>3. CASE i > Len(notif) + Len(InHand)
      <3>1. Stream[i] = net[i - (Len(notif) + Len(InHand))]
        BY <1>2, <1>4, <1>6, <2>3
      <3>2. /\ i - Len(InHand) \in 1 .. Len(notif) + Len(net) /\ i - Len(InHand) > Len(notif)
            /\ (i - Len(InHand)) - Len(notif) = i - (Len(notif) + Len(InHand))
        BY <1>2, <1>6, <2>3
      <3>3. (notif \o net)[i - Len(InHand)] = net[(i - Len(InHand)) - Len(notif)]
        BY <1>2, <1>5, <3>2
      <3> QED BY <1>7, <3>1, <3>2, <3>3
    <2> QED BY <1>2, <1>6, <2>1, <2>2, <2>3
  <1> QED BY <1>8 DEF Hole!Queued, Hole!Seqs!ToSet, Hole!IsOffer

LEMMA HoleKept == HInv => Hole!NoOfferLost
  BY StreamIsQueued DEF HInv, Offered, Acked, Hole!NoOfferLost, Ports

-----------------------------------------------------------------------------
LEMMA HoleStepKeeps == HInv /\ [NextAll]_allVars => HInv'
  <1>1. [NextAll]_allVars => [Hole!Next]_holeVars
    BY DEF NextAll, SessionStep, HoleStep, RegisterStep, allVars
  <1> QED BY <1>1, HoleNext

\* The OFFER a hole is punched for is the console's for that hole, however often the one
\* before was repeated; its candidates are tried only when the console has taken ours; and
\* a hole is established only if both have accepted (punch_hole).
THEOREM HolesAreAgreed == SpecAll => []HoleIsAgreed
  <1>1. InitAll => HInv
    BY HoleInit DEF InitAll
  <1>2. HInv => HoleIsAgreed
    BY HoleAgreed DEF HoleIsAgreed
  <1> QED BY <1>1, <1>2, HoleStepKeeps, PTL DEF SpecAll

\* While the connection is being made, no OFFER of the console is lost between the thread
\* that reads the WebSocket, which may answer it, and the thread that waits for it; and
\* one that is taken is answered before the thread goes on (websocket_thread_func,
\* punch_hole).
THEOREM OffersAreKept == SpecAll => []NoOfferLost
  <1>1. InitAll => HInv
    BY HoleInit DEF InitAll
  <1>2. HInv => NoOfferLost
    BY HoleKept DEF NoOfferLost
  <1> QED BY <1>1, <1>2, HoleStepKeeps, PTL DEF SpecAll
=============================================================================
