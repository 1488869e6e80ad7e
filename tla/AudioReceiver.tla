--------------------------- MODULE AudioReceiver ---------------------------
(***************************************************************************)
(* The audio and haptics packets of a stream (crates/chiaki-core/src/      *)
(* audioreceiver.rs): a packet brings Source frames from its own number on *)
(* and repeats the Fec frames before it.  Audio frames go through a jitter *)
(* buffer that starts to play when Prefill are there and conceals what is  *)
(* missing; haptics frames are played at once if they are newer.           *)
(*                                                                         *)
(* Frames are numbered by integers from 0 as the console makes them, under *)
(* the wrapping index they carry.  All that is under way lies within half  *)
(* the space of the indices, so that serial comparison orders it and the   *)
(* slots of the buffer are a set.                                          *)
(***************************************************************************)
EXTENDS SeqNum, Sequences, FiniteSets

CONSTANTS LastPacket,   \* bound: how many packets the console sends
          FirstFrames,  \* the indices frame 0 may have
          Source, Fec,  \* units of a packet
          Prefill,      \* AUDIO_JITTER_PREFILL
          BufferSize,   \* AUDIO_JITTER_BUFFER_SIZE
          NoCall, Concealed

Packets == 1 .. LastPacket
AudioUnits   == 0 .. Source + Fec - 1

VARIABLES first,    \* the index of frame 0; 0 when the stream has just begun
          haptics,  \* whether this is the haptics receiver
          net,      \* packets that may still arrive
          audio,    \* AudioReceiverState
          call,     \* av_packet in progress: its packet, unit, whether the unit is still
                    \* to be stored, and frame_index_startup as it read it
          heard,    \* what the sink was given since the last header
          headers   \* stream_info was called
audioVars == <<first, haptics, net, audio, call, heard, headers>>

\* The console: which frame a unit holds, and the index of a frame.
FrameOf(p, i)  == IF i < Source THEN (p - 1) * Source + i ELSE (p - 1) * Source + i - Source - Fec
IndexOf(f)     == (first + f) % SeqMod
PacketIndex(p) == IndexOf((p - 1) * Source)

Slots == [index : SeqNums, frame : -Fec .. LastPacket * Source]

Calls == [packet : Packets, unit : AudioUnits, fresh : BOOLEAN, startup : BOOLEAN]

TypeOK ==
  /\ first \in FirstFrames /\ haptics \in BOOLEAN /\ net \subseteq Packets
  /\ audio \in [prev : SeqNums, next : SeqNums, valid : BOOLEAN, started : BOOLEAN,
                startup : BOOLEAN, jitter : SUBSET Slots]
  /\ Cardinality(audio.jitter) <= BufferSize
  /\ call = NoCall \/ call \in Calls
  /\ headers \in BOOLEAN

Reset == [prev |-> 0, next |-> 0, valid |-> FALSE, started |-> FALSE, startup |-> TRUE,
          jitter |-> {}]

Init == /\ first \in FirstFrames /\ haptics \in BOOLEAN /\ net = Packets
        /\ audio = Reset /\ call = NoCall /\ heard = <<>> /\ headers = FALSE
-----------------------------------------------------------------------------
(* The jitter buffer *)

Oldest(b) == CHOOSE s \in b : \A t \in b : ~SeqLt(t.index, s.index)
Newest(b) == CHOOSE s \in b : \A t \in b : ~SeqGt(t.index, s.index)

\* store_audio_frame_locked: a full buffer gives up its newest frame, for an older one.
CanStore(b, s) == /\ \A t \in b : t.index # s.index
                  /\ Cardinality(b) = BufferSize => SeqLt(s.index, Newest(b).index)
Stored(b, s)   == (IF Cardinality(b) = BufferSize THEN b \ {Newest(b)} ELSE b) \cup {s}

StartPlayback(a) ==
  IF ~a.started /\ Cardinality(a.jitter) >= Prefill
  THEN [a EXCEPT !.next = Oldest(a.jitter).index, !.valid = TRUE, !.started = TRUE] ELSE a

Playing(a) == a.started /\ a.valid
Due(a)     == {s \in a.jitter : s.index = a.next}
Advance(a) == [a EXCEPT !.prev = a.next, !.next = SeqAdd(a.next, 1)]

\* A plausible bug: even a few buffered frames wait until the newest is far ahead.
ConcealsWithLookahead(a) ==
  /\ Playing(a) /\ Due(a) = {} /\ a.jitter # {}
  /\ SeqGt(Newest(a.jitter).index, SeqAdd(a.next, Prefill - 1))

\* The next frame is missing, and newer ones wait for it.
Conceals(a) ==
  /\ Playing(a) /\ Due(a) = {} /\ a.jitter # {}
  /\ SeqGt(Oldest(a.jitter).index, a.next)
  /\ Cardinality(a.jitter) >= Prefill =>
       SeqGt(Newest(a.jitter).index, SeqAdd(a.next, Prefill - 1))
-----------------------------------------------------------------------------
(* av_packet on the receive thread; frame() takes the lock for each frame it
   presents and gives it to the sink outside *)

\* A plausible bug: the FEC units are counted from the packet's own frame.
UnitIndexAfter(p, i) ==
  IF i < Source THEN SeqAdd(PacketIndex(p), i)
  ELSE SeqAdd(PacketIndex(p), SeqMod - Fec + i - Source + 1)

\* frame_index of a unit.
UnitIndex(p, i) == IF i < Source THEN SeqAdd(PacketIndex(p), i)
                   ELSE SeqAdd(PacketIndex(p), SeqMod - Fec + i - Source)

\* Before the numbers have gone through half their space, frames before 0 do not exist.
Skipped(c) == c.unit >= Source /\ c.startup /\ PacketIndex(c.packet) + c.unit - Source < Fec + 1

Slot == [index |-> UnitIndex(call.packet, call.unit), frame |-> FrameOf(call.packet, call.unit)]

NextUnit == call' = IF call.unit + 1 \in AudioUnits
                    THEN [call EXCEPT !.unit = @ + 1, !.fresh = TRUE] ELSE NoCall

Hear(index, frame) == heard' = Append(heard, [index |-> index, frame |-> frame])

\* A packet, which may come again.
Arrive(p, again) ==
  /\ call = NoCall /\ p \in net
  /\ net' = IF again THEN net ELSE net \ {p}
  /\ audio' = [audio EXCEPT !.startup = @ /\ PacketIndex(p) <= SeqHalf]
  /\ call' = [packet |-> p, unit |-> 0, fresh |-> TRUE, startup |-> audio'.startup]
  /\ UNCHANGED <<first, haptics, heard, headers>>

Lose(p) == /\ p \in net
           /\ net' = net \ {p}
           /\ UNCHANGED <<first, haptics, audio, call, heard, headers>>

Handling == call # NoCall /\ ~Skipped(call)

SkipUnit == /\ call # NoCall /\ Skipped(call) /\ NextUnit
            /\ UNCHANGED <<first, haptics, net, audio, heard, headers>>

HapticsUnit ==
  /\ haptics /\ Handling /\ NextUnit
  /\ IF SeqGt(Slot.index, audio.prev)
     THEN audio' = [audio EXCEPT !.prev = Slot.index] /\ Hear(Slot.index, Slot.frame)
     ELSE UNCHANGED <<audio, heard>>
  /\ UNCHANGED <<first, haptics, net, headers>>

\* A frame that is past or already there.
Refused == /\ call.fresh
           /\ \/ audio.valid /\ SeqLt(Slot.index, audio.next)
              \/ ~CanStore(audio.jitter, Slot)

\* With the new frame stored, and the playback started if there are enough.
Ready == StartPlayback(IF call.fresh THEN [audio EXCEPT !.jitter = Stored(@, Slot)] ELSE audio)

Unchanged == UNCHANGED <<first, haptics, net, headers>>

RefuseUnit == /\ ~haptics /\ Handling /\ Refused /\ NextUnit
              /\ UNCHANGED <<audio, heard>> /\ Unchanged

PlayFrame ==
  /\ ~haptics /\ Handling /\ ~Refused /\ Playing(Ready) /\ Due(Ready) # {}
  /\ \E s \in Due(Ready) : /\ audio' = Advance([Ready EXCEPT !.jitter = @ \ {s}])
                           /\ Hear(Ready.next, s.frame)
  /\ call' = [call EXCEPT !.fresh = FALSE] /\ Unchanged

ConcealFrame ==
  /\ ~haptics /\ Handling /\ ~Refused /\ Conceals(Ready)
  /\ audio' = Advance(Ready) /\ Hear(Ready.next, Concealed)
  /\ call' = [call EXCEPT !.fresh = FALSE] /\ Unchanged

UnitDone ==
  /\ ~haptics /\ Handling /\ ~Refused
  /\ ~(Playing(Ready) /\ Due(Ready) # {}) /\ ~Conceals(Ready)
  /\ audio' = Ready /\ NextUnit /\ UNCHANGED heard /\ Unchanged

\* The header of the STREAMINFO, from the receive thread or, for an early one,
\* from the session thread; the haptics receiver gets none.
StreamInfo ==
  /\ ~haptics /\ ~headers
  /\ audio' = Reset /\ heard' = <<>> /\ headers' = TRUE
  /\ UNCHANGED <<first, haptics, net, call>>

Next == \/ \E p \in Packets, again \in BOOLEAN : Arrive(p, again)
        \/ \E p \in Packets : Lose(p)
        \/ SkipUnit \/ HapticsUnit \/ RefuseUnit \/ PlayFrame \/ ConcealFrame \/ UnitDone
        \/ StreamInfo

Spec == Init /\ [][Next]_audioVars
-----------------------------------------------------------------------------
\* The sink gets each frame under its own index, none that does not exist, and
\* in order: audio without a gap, each frame once, heard or concealed.
HeardInOrder ==
  /\ \A i \in DOMAIN heard :
       heard[i].frame # Concealed => /\ heard[i].index = IndexOf(heard[i].frame)
                                     /\ first = 0 => heard[i].frame >= 0
  /\ \A i \in DOMAIN heard \ {1} :
       IF haptics THEN SeqGt(heard[i].index, heard[i - 1].index)
       ELSE heard[i].index = SeqAdd(heard[i - 1].index, 1)

\* Once it plays no frame is held back between packets, whatever was lost: the
\* sound never lags behind what arrived, and the buffer is never full.
NothingHeldBack == call = NoCall /\ audio.started => audio.jitter = {}

\* "Eine FEC-Unit belegt damit genau den Jitter-Slot des (evtl. verlorenen)
\* Frames": no frame is concealed that a unit of the packet at hand holds.
FecFillsTheGap ==
  [][\A i \in AudioUnits :
       ConcealFrame /\ FrameOf(call.packet, i) >= 0 =>
         UnitIndex(call.packet, i) # Ready.next]_audioVars
=============================================================================
