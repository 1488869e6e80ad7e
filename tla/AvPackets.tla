----------------------------- MODULE AvPackets -----------------------------
(***************************************************************************)
(* What becomes of the packets of media on the receive thread: their key   *)
(* positions and their key stream (KeyStream), video packets through the   *)
(* reorder queue (TakionAv), audio and haptics packets straight to their   *)
(* receivers (AudioReceiver).  The three share no state, so that a         *)
(* behaviour moves one of them only.                                       *)
(***************************************************************************)
EXTENDS KeyStream, TakionAv

CONSTANTS LastAudio, FirstFrames, Source, Fec, Prefill, BufferSize, NoCall, Concealed

VARIABLES part,  \* the part that moves
          first, haptics, audioNet, audio, avCall, heard, headers

Audio == INSTANCE AudioReceiver WITH LastPacket <- LastAudio, net <- audioNet, call <- avCall

ASSUME AudioAssumption ==
  /\ NoCall \notin Audio!Calls
  /\ LastAudio \in Nat /\ FirstFrames \subseteq Audio!SeqNums
  /\ Source \in Nat \ {0} /\ Fec \in Nat /\ LastAudio * Source + Fec < SeqHalf
  /\ Prefill \in Nat \ {0} /\ BufferSize \in Nat /\ Prefill <= BufferSize

audioVars == <<first, haptics, audioNet, audio, avCall, heard, headers>>
allVars   == <<part, vars, videoVars, audioVars>>

InitAv == /\ part \in {"keys", "video", "audio"}
          /\ Init /\ VideoInit /\ Audio!Init
          /\ part # "audio" => first = 0 /\ ~haptics

KeysStep  == part = "keys" /\ Next /\ UNCHANGED <<part, videoVars, audioVars>>
VideoStep == part = "video" /\ VideoNext /\ UNCHANGED <<part, vars, audioVars>>
AudioStep == part = "audio" /\ Audio!Next /\ UNCHANGED <<part, vars, videoVars>>

SpecAv == /\ InitAv /\ [][KeysStep \/ VideoStep \/ AudioStep]_allVars
          /\ WF_vars(part = "keys" /\ Prepare)
          /\ WF_vars(part = "keys" /\ Publish)
          /\ WF_vars(part = "keys" /\ EndThread)
          /\ VideoFairness
-----------------------------------------------------------------------------
\* When requests pause, the ring fills and gets half a ring ahead of them (the
\* condition the thread waits for).
RingCatchesUp == <>[](part # "keys" \/ stop \/ (Full /\ last <= min + Size \div 2))

\* What the sinks of sound are given: each frame once under its own index and in
\* order, and none is held back between packets once it plays, whatever was lost.
SoundArrives == Audio!HeardInOrder /\ Audio!NothingHeldBack
=============================================================================
