------------------------------- MODULE Client -------------------------------
(***************************************************************************)
(* Six parts of the client that work beside the stream: the feedback       *)
(* sender, the sessions of the user interface, the two directions of       *)
(* sound, the search for consoles and the way of a frame to the screen.    *)
(* They share no state, so that a behaviour moves one of them only.        *)
(***************************************************************************)
EXTENDS FeedbackSender

CONSTANTS Attempts, Remote,                            \* SessionManager
          Buffer, Sizes, Periods, LastSample,          \* AudioOutput
          Frame, RingFrames, MicSizes, LastCaptured, Mutes,  \* Microphone
          Consoles, Roaming, HostsMax, DropPings,      \* Discovery
          Frames, Intra, SlotSize, Gpus                \* Picture

ASSUME AttemptsAssumption == Attempts \in Nat \ {0} /\ Remote \subseteq 1 .. Attempts

ASSUME SoundAssumption ==
  /\ Buffer \in Nat /\ Sizes \subseteq Nat /\ Periods \subseteq Nat
  /\ Frame \in Nat \ {0} /\ RingFrames \in Nat /\ MicSizes \subseteq Nat

VARIABLES
  part,  \* the part that moves
  page, home, attempts, conn, lock, current, pending, shared, stopper, media, queue,
  decode, device, drain, life, pushed, heard, overflowed,
  ring, muted, stop, capture, micDrain, chunk, tail, frames, owner, captured, mutes, lost,
  receiving, hosts, silent, copy, events, notified, shown, since,
  gpu, input, slot, decoding, decoder, bridge, sink, canvas, screen, missed

\* A console is in standby or ready; those that roam may answer from another address.
Answers == [id : Consoles, addr : {"home"}, ready : BOOLEAN]
             \cup [id : Roaming, addr : {"elsewhere"}, ready : {TRUE}]

Sessions == INSTANCE SessionManager
Sound    == INSTANCE AudioOutput
Mic      == INSTANCE Microphone
              WITH Sizes <- MicSizes, LastSample <- LastCaptured, drain <- micDrain
Finder   == INSTANCE Discovery
Picture  == INSTANCE Picture WITH media <- decoding, page <- canvas

sessionVars == <<page, home, attempts, conn, lock, current, pending, shared, stopper, media, queue>>
soundVars   == <<decode, device, drain, life, pushed, heard, overflowed>>
micVars     == <<ring, muted, stop, capture, micDrain, chunk, tail, frames, owner, captured,
                 mutes, lost>>
finderVars  == <<receiving, hosts, silent, copy, events, notified, shown, since>>
pictureVars == <<gpu, input, slot, decoding, decoder, bridge, sink, canvas, screen, missed>>
allVars     == <<part, vars, sessionVars, soundVars, micVars, finderVars, pictureVars>>

InitClient ==
  /\ part \in {"feedback", "sessions", "sound", "microphone", "consoles", "pictures"}
  /\ Init /\ Sessions!Init /\ Sound!Init /\ Mic!Init /\ Finder!Init /\ Picture!Init
  /\ part # "pictures" => gpu = "none" /\ decoder.kind = "none"

FeedbackStep == part = "feedback" /\ Next
                /\ UNCHANGED <<part, sessionVars, soundVars, micVars, finderVars, pictureVars>>
SessionsStep == part = "sessions" /\ Sessions!Next
                /\ UNCHANGED <<part, vars, soundVars, micVars, finderVars, pictureVars>>
SoundStep    == part = "sound" /\ Sound!Next
                /\ UNCHANGED <<part, vars, sessionVars, micVars, finderVars, pictureVars>>
MicStep      == part = "microphone" /\ Mic!Next
                /\ UNCHANGED <<part, vars, sessionVars, soundVars, finderVars, pictureVars>>
FinderStep   == part = "consoles" /\ Finder!Next
                /\ UNCHANGED <<part, vars, sessionVars, soundVars, micVars, pictureVars>>
PictureStep  == part = "pictures" /\ Picture!Next
                /\ UNCHANGED <<part, vars, sessionVars, soundVars, micVars, finderVars>>

NextClient == \/ FeedbackStep \/ SessionsStep \/ SoundStep
              \/ MicStep \/ FinderStep \/ PictureStep

\* The fairness of the part that moves, action by action.
Fairness ==
  /\ WF_vars(part = "feedback" /\ Thread)
  /\ WF_soundVars(part = "sound" /\ Sound!DrainStep)
  /\ WF_sessionVars(part = "sessions" /\ Sessions!HandleQuit)
  /\ WF_sessionVars(part = "sessions" /\ Sessions!GoHome)
  /\ \A i \in 1 .. Attempts :
       /\ WF_sessionVars(part = "sessions" /\ Sessions!Connect(i))
       /\ WF_sessionVars(part = "sessions" /\ Sessions!Stopper(i))
       /\ WF_sessionVars(part = "sessions" /\ shared[i].core = "stopping" /\ Sessions!CoreEnds(i))
       /\ WF_sessionVars(part = "sessions" /\ Sessions!MediaEnds(i))
  /\ WF_micVars(part = "microphone" /\ Mic!PushCaptured)
  /\ WF_micVars(part = "microphone" /\ Mic!DrainStep)
  /\ WF_micVars(part = "microphone" /\ Mic!DropStep)
  /\ WF_finderVars(part = "consoles" /\ Finder!Ping)
  /\ WF_finderVars(part = "consoles" /\ Finder!ApplyEvents)
  /\ WF_finderVars(part = "consoles" /\ Finder!Draw)
  /\ WF_pictureVars(part = "pictures" /\ Picture!Media)
  /\ WF_pictureVars(part = "pictures" /\ Picture!Render)
  /\ WF_pictureVars(part = "pictures" /\ Picture!Paint)
  /\ WF_pictureVars(part = "pictures" /\ Picture!DropSink)

SpecClient == InitClient /\ [][NextClient]_allVars /\ Fairness
-----------------------------------------------------------------------------
NothingAfterDone == Sessions!NothingAfterDone
StopCompletes    == Sessions!StopCompletes

NeverBack        == Picture!NeverBack
PictureFollows   == Picture!PictureFollows

\* Nothing the player does is swallowed between the threads: a state that counts as
\* sent was sent, and one lost history packet costs no key event.
InputArrives == StateSettles /\ NoEventForgotten

\* Sound keeps its order between threads that hand it on: what is heard is what the
\* audio thread pushed, what is sent is what the microphone captured, without a
\* repetition and without a gap besides what full rings and muting throw away and what
\* the encoder refuses.
SoundInOrder == Sound!HeardIsPushed /\ Mic!SentAsCaptured

\* The two drain threads do not miss what was pushed for them: after any silence
\* enough samples make the output play, and the ring of the microphone empties.
DrainsServe == Sound!DrainServes /\ Mic!RingEmpties

\* The page shows the consoles that the service knows, a console leaves the list only
\* after its silence, and when all are silent the page becomes empty.
ConsolesFollow == Finder!HostsFollow
=============================================================================
