------------------------------ MODULE Picture ------------------------------
(***************************************************************************)
(* From the frames of the stream to the screen: the VideoSlot of           *)
(* backend/sessions.rs, the media thread that decodes (media::run), and    *)
(* what shows the pictures: the render thread of the GPU sink              *)
(* (chiaki-render/src/gpu_sink.rs) with its mailbox of one frame, or the   *)
(* presenter (presenter.rs) that the page draws from.                      *)
(*                                                                         *)
(* Frames are numbered as the bridge gets them.  A picture is the number   *)
(* of its frame; 0 is none yet.  The decoder, super resolution and the     *)
(* device are external: each of their calls may fail.                      *)
(***************************************************************************)
EXTENDS Naturals, Sequences

CONSTANTS Frames,    \* bound: how many frames come
          Intra,     \* those that need no earlier one
          SlotSize,  \* VIDEO_SLOT_CAP
          Gpus       \* the paths connect() may choose: "none", "d3d11", "cuda"

VARIABLES
  gpu,      \* the path of this session
  input,    \* the bridge: sent, wakes (MediaCmd::Video in the channel), open
  slot,     \* VideoSlot
  media,    \* the media thread: its place, the picture at hand, gpu_active
  decoder,  \* what it makes: "raw" pictures, "cpu" ones or "none"; primed: one was intra
  bridge,   \* super resolution with the CUDA bridge: "fresh", "up", "half", "off"
  sink,     \* mail, the two textures and their source, lost, stopping; the render thread
  page,     \* the presenter's queue
  screen,   \* the picture that was shown last
  missed    \* history: the last frame that did not become a picture
pictureVars == <<gpu, input, slot, media, decoder, bridge, sink, page, screen, missed>>

Nothing  == [kind |-> "none", n |-> 0]
Pictures == 0 .. Frames

TypeOK ==
  /\ gpu \in Gpus
  /\ input \in [sent : Pictures, wakes : Pictures, open : BOOLEAN]
  /\ slot \in Seq(1 .. Frames) /\ Len(slot) <= SlotSize
  /\ media \in [at : {"wait", "pop", "write", "submit", "look", "give", "over"},
                hand : Pictures, active : BOOLEAN]
  /\ decoder \in [kind : {"raw", "cpu", "none"}, primed : BOOLEAN]
  /\ bridge \in {"fresh", "up", "half", "off"}
  /\ sink \in [mail : [kind : {"none", "cpu", "d3d11", "rgba"}, n : Pictures],
               nv12 : Pictures, rgba : Pictures, source : {"nv12", "rgba"},
               lost : BOOLEAN, stopping : BOOLEAN, thread : {"get", "draw", "over"}]
  /\ page \in Pictures /\ screen \in Pictures /\ missed \in Pictures

\* A decoder whose raw output fails is made without it, and that may fail, too.
Init ==
  /\ gpu \in Gpus
  /\ input = [sent |-> 0, wakes |-> 0, open |-> TRUE]
  /\ slot = <<>>
  /\ media = [at |-> "wait", hand |-> 0, active |-> FALSE]
  /\ decoder \in [kind : {"cpu", "none"} \cup (IF gpu = "none" THEN {} ELSE {"raw"}),
                  primed : {FALSE}]
  /\ bridge = IF gpu = "cuda" THEN "fresh" ELSE "off"
  /\ sink = [mail |-> Nothing, nv12 |-> 0, rgba |-> 0, source |-> "nv12",
             lost |-> FALSE, stopping |-> FALSE,
             thread |-> IF gpu = "none" THEN "over" ELSE "get"]
  /\ page = 0 /\ screen = 0 /\ missed = 0

Later(n)  == IF n > missed THEN n ELSE missed
Misses(n) == missed' = Later(n)
-----------------------------------------------------------------------------
(* BridgeCallbacks::video_frame on the receive thread *)

\* A plausible bug: the newest frame comes first, and stays there.
PushedFirst(frames, n) == IF Len(frames) = SlotSize THEN <<n>> \o Tail(frames)
                          ELSE <<n>> \o frames

\* push: the oldest make room.
Pushed(frames, n) == LET all == Append(frames, n)
                     IN IF Len(all) > SlotSize THEN Tail(all) ELSE all

VideoFrame ==
  /\ input.open /\ input.sent < Frames
  /\ input' = [input EXCEPT !.sent = @ + 1, !.wakes = @ + 1]
  /\ slot' = Pushed(slot, input.sent + 1)
  /\ UNCHANGED <<gpu, media, decoder, bridge, sink, page, screen, missed>>
-----------------------------------------------------------------------------
(* media::run *)

MediaGoes(from, to) == media.at = from /\ media' = [media EXCEPT !.at = to]

\* recv_timeout: a command, 5 ms, or the channel is closed.
Wake ==
  /\ \/ input.wakes > 0 /\ input' = [input EXCEPT !.wakes = @ - 1] /\ MediaGoes("wait", "pop")
     \/ input.wakes = 0 /\ input.open /\ slot # <<>> /\ MediaGoes("wait", "pop") /\ UNCHANGED input
     \/ input.wakes = 0 /\ ~input.open /\ MediaGoes("wait", "over") /\ UNCHANGED input
  /\ UNCHANGED <<gpu, slot, decoder, bridge, sink, page, screen, missed>>

PopFrame == /\ slot # <<>> /\ slot' = Tail(slot)
            /\ media.at = "pop"

SlotEmpty == /\ slot = <<>> /\ MediaGoes("pop", "look")
             /\ UNCHANGED <<gpu, input, slot, decoder, bridge, sink, page, screen, missed>>

\* Without a decoder a pass throws one frame away.
NoDecoder ==
  /\ PopFrame /\ decoder.kind = "none" /\ Misses(Head(slot)) /\ MediaGoes("pop", "look")
  /\ UNCHANGED <<gpu, input, decoder, bridge, sink, page, screen>>

\* decode_sample: before an intra frame, or after an error, there is no picture.
NoPicture ==
  /\ PopFrame /\ decoder.kind # "none" /\ Misses(Head(slot))
  /\ \/ Head(slot) \notin Intra /\ UNCHANGED decoder
     \/ Head(slot) \in Intra /\ decoder' = [decoder EXCEPT !.primed = TRUE]
  /\ UNCHANGED <<gpu, input, media, bridge, sink, page, screen>>

\* decode_sample returns a picture.
Decodes == PopFrame /\ (decoder.kind = "raw" \/ decoder.kind = "cpu")
                    /\ (decoder.primed \/ Head(slot) \in Intra)
Primed  == decoder' = [decoder EXCEPT !.primed = TRUE]
CudaRaw == gpu = "cuda" /\ decoder.kind = "raw"

\* The newest picture of the pass is kept for its end; of the raw CUDA ones those
\* for which the bridge could not be built.
Keep ==
  /\ Decodes /\ Primed
  /\ \/ ~CudaRaw /\ UNCHANGED bridge
     \/ CudaRaw /\ bridge \in {"fresh", "half"} /\ bridge' = "half"
  /\ media' = [media EXCEPT !.hand = Head(slot)]
  /\ UNCHANGED <<gpu, input, sink, page, screen, missed>>

\* Any other raw CUDA picture is upscaled and written at once, under the interop_lock.
Upscale ==
  /\ Decodes /\ Primed /\ CudaRaw /\ bridge \in {"fresh", "up"} /\ bridge' = "up"
  /\ \/ media' = [media EXCEPT !.at = "write", !.hand = Head(slot)] /\ UNCHANGED missed
     \/ Misses(Head(slot)) /\ UNCHANGED media
  /\ UNCHANGED <<gpu, input, sink, page, screen>>

\* Super resolution refuses: a new decoder without raw output, the picture is lost.
Rebuild ==
  /\ Decodes /\ CudaRaw /\ bridge = "fresh" /\ bridge' = "off"
  /\ decoder' \in [kind : {"cpu", "none"}, primed : {FALSE}]
  /\ Misses(Head(slot)) /\ media' = [media EXCEPT !.at = "wait", !.hand = 0]
  /\ UNCHANGED <<gpu, input, sink, page, screen>>

\* write_from, then the lock is let go.
Write ==
  /\ \/ MediaGoes("write", "submit") /\ sink' = [sink EXCEPT !.rgba = media.hand]
        /\ UNCHANGED missed
     \/ /\ media.at = "write" /\ media' = [media EXCEPT !.at = "pop", !.hand = 0]
        /\ Misses(media.hand) /\ UNCHANGED sink
  /\ UNCHANGED <<gpu, input, slot, decoder, bridge, page, screen>>

\* submit_*: the mailbox keeps the newest, unless the sink is being stopped.
Mailed(kind) == IF sink.stopping THEN sink
                ELSE [sink EXCEPT !.mail = [kind |-> kind, n |-> media.hand]]

SubmitRgba ==
  /\ media.at = "submit" /\ media' = [media EXCEPT !.at = "pop", !.hand = 0]
  /\ sink' = Mailed("rgba")
  /\ UNCHANGED <<gpu, input, slot, decoder, bridge, page, screen, missed>>

\* A plausible bug: the sink counts as active after it was lost.
StillActive == gpu # "none"

SinkActive == gpu # "none" /\ ~sink.lost

\* gpu_active is read once, before the picture is given away.
Look ==
  /\ media.at = "look"
  /\ media' = [media EXCEPT !.at = IF media.hand = 0 THEN "wait" ELSE "give",
                            !.active = SinkActive]
  /\ UNCHANGED <<gpu, input, slot, decoder, bridge, sink, page, screen, missed>>

\* A raw D3D11 picture goes to the sink, whatever became of it; a raw CUDA one
\* cannot be shown. A picture in memory goes to the sink or to the presenter.
Give ==
  /\ media.at = "give" /\ media' = [media EXCEPT !.at = "wait", !.hand = 0]
  /\ \/ /\ decoder.kind = "raw" /\ gpu = "d3d11" /\ sink' = Mailed("d3d11")
        /\ UNCHANGED <<page, missed>>
     \/ /\ decoder.kind = "raw" /\ gpu = "cuda" /\ Misses(media.hand)
        /\ UNCHANGED <<sink, page>>
     \/ /\ decoder.kind = "cpu" /\ media.active /\ sink' = Mailed("cpu")
        /\ UNCHANGED <<page, missed>>
     \/ /\ decoder.kind = "cpu" /\ ~media.active /\ UNCHANGED sink
        /\ \/ page' = media.hand /\ UNCHANGED missed
           \/ Misses(media.hand) /\ UNCHANGED page
  /\ UNCHANGED <<gpu, input, slot, decoder, bridge, screen>>

Media == \/ Wake \/ SlotEmpty \/ NoDecoder \/ NoPicture \/ Keep \/ Upscale \/ Rebuild
         \/ Write \/ SubmitRgba \/ Look \/ Give
-----------------------------------------------------------------------------
(* render_thread *)

Content(s) == IF s.source = "rgba" THEN s.rgba ELSE s.nv12

\* handle_cpu_frame, handle_d3d11_frame: into the texture of the sink.
Uploaded(s) == [s EXCEPT !.nv12 = s.mail.n, !.source = "nv12", !.mail = Nothing, !.thread = "draw"]
Ready(s)    == [s EXCEPT !.source = "rgba", !.mail = Nothing, !.thread = "draw"]

\* The newest picture that goes down with the sink: on its way, in the mail or drawn.
Undrawn(s) == IF media.at = "give" THEN media.hand
              ELSE IF s.mail.kind # "none" THEN s.mail.n
              ELSE IF s.thread = "draw" THEN Content(s) ELSE 0

SeeStopping ==
  /\ sink.thread = "get" /\ sink.stopping /\ sink' = [sink EXCEPT !.thread = "over"]
  /\ UNCHANGED <<gpu, input, slot, media, decoder, bridge, page, screen, missed>>

\* A frame or the timer: the mail is taken. After a resize the source is drawn at
\* once, without the interop_lock.
Message ==
  /\ sink.thread = "get" /\ ~sink.stopping
  /\ \/ sink.mail.kind \in {"cpu", "d3d11"} /\ sink' = Uploaded(sink) /\ UNCHANGED missed
     \/ /\ sink.mail.kind \in {"cpu", "d3d11"} /\ sink' = [sink EXCEPT !.mail = Nothing]
        /\ Misses(sink.mail.n)
     \/ sink.mail.kind = "rgba" /\ sink' = Ready(sink) /\ UNCHANGED missed
     \/ sink.mail.kind = "none" /\ UNCHANGED <<sink, missed>>
  /\ \E resized \in BOOLEAN : screen' = IF resized THEN Content(sink') ELSE screen
  /\ UNCHANGED <<gpu, input, slot, media, decoder, bridge, page>>

Loses(s) == [s EXCEPT !.lost = TRUE, !.thread = "over"]

\* follow_tick finds the device removed.
DeviceRemoved ==
  /\ sink.thread = "get" /\ ~sink.stopping
  /\ sink' = Loses(sink) /\ Misses(Undrawn(sink))
  /\ UNCHANGED <<gpu, input, slot, media, decoder, bridge, page, screen>>

\* A picture of the bridge is drawn with the interop_lock held.
Draw ==
  /\ sink.thread = "draw"
  /\ sink.source = "rgba" => media.at # "write"
  /\ \/ /\ screen' = Content(sink) /\ sink' = [sink EXCEPT !.thread = "get"]
        /\ UNCHANGED missed
     \/ /\ sink' = [sink EXCEPT !.thread = "get"] /\ Misses(Content(sink)) /\ UNCHANGED screen
     \/ sink' = Loses(sink) /\ Misses(Undrawn(sink)) /\ UNCHANGED screen
  /\ UNCHANGED <<gpu, input, slot, media, decoder, bridge, page>>

Render == SeeStopping \/ Message \/ DeviceRemoved \/ Draw
-----------------------------------------------------------------------------
(* The page, and the thread that stops the session *)

\* take_image, where there is no sink or it is lost.
Paint ==
  /\ ~SinkActive /\ page # 0
  /\ screen' = page /\ page' = 0
  /\ UNCHANGED <<gpu, input, slot, media, decoder, bridge, sink, missed>>

\* The core has ended; the channel is closed, and the sink dropped, without
\* waiting for the media thread.
CloseChannel ==
  /\ input.open /\ input' = [input EXCEPT !.open = FALSE]
  /\ UNCHANGED <<gpu, slot, media, decoder, bridge, sink, page, screen, missed>>

DropSink ==
  /\ ~input.open /\ ~sink.stopping /\ sink' = [sink EXCEPT !.stopping = TRUE]
  /\ UNCHANGED <<gpu, input, slot, media, decoder, bridge, page, screen, missed>>

Next == VideoFrame \/ Media \/ Render \/ Paint \/ CloseChannel \/ DropSink

\* The threads run, the window is painted again and again; frames need not come,
\* the session need not stop, the device need not be lost.
Fairness == /\ WF_pictureVars(Media) /\ WF_pictureVars(Render)
            /\ WF_pictureVars(Paint) /\ WF_pictureVars(DropSink)
Spec == Init /\ [][Next]_pictureVars /\ Fairness
-----------------------------------------------------------------------------
\* The picture never jumps back, through the slot, the mailbox, the two textures,
\* the redraw after a resize and the change to the presenter when the device is lost.
NeverBack == [][screen' >= screen]_pictureVars

Outcome(n) == input.sent > n \/ screen = n \/ missed = n \/ ~input.open

\* When the stream pauses, its newest frame is on the screen, unless a call that may
\* fail took it: no lost wake-up, full slot, overwritten mail or rebuilt decoder
\* leaves an older picture there, nor does a lost device while pictures are made in
\* memory. At the end of the session both threads end.
PictureFollows ==
  /\ \A n \in 1 .. Frames :
       input.sent = n ~> Outcome(n) \/ (sink.lost /\ decoder.kind = "raw")
  /\ ~input.open ~> media.at = "over" /\ sink.thread = "over"

\* What the head of gpu_sink.rs says of a lost device: the media thread falls back to
\* the presenter. It does so only for pictures in memory.
LostFallsBack == \A n \in 1 .. Frames : sink.lost /\ input.sent = n ~> Outcome(n)
=============================================================================
