----------------------------- MODULE Microphone -----------------------------
(***************************************************************************)
(* The microphone (chiaki-media/src/audio/input.rs) as the media thread    *)
(* uses it: the callback of the device puts what it captures into a ring,  *)
(* a drain thread cuts it into frames that are encoded and sent, the media *)
(* thread mutes, unmutes and drops the microphone.                         *)
(*                                                                         *)
(* Samples are numbered.  The ring is the sequence of what it holds; since *)
(* a chunk ends where the ring wraps, it may be any first part of it.      *)
(***************************************************************************)
EXTENDS Naturals, Sequences

CONSTANTS Frame,       \* samples of a frame
          RingFrames,  \* how many frames the ring holds
          Sizes,       \* how many samples one callback may bring
          LastSample,  \* bound: how many samples are captured
          Mutes        \* bound: how often the user mutes or unmutes

Seqs == INSTANCE SequencesExt

VARIABLES
  ring,      \* MicShared: ring, muted and stop
  muted,
  stop,
  capture,   \* what the callback is about to push
  drain,     \* the drain thread: "look", "pop" (it holds the lock), "wait", "feed", "encode",
             \* "over"
  chunk,     \* what it took out
  tail,      \* MicAccumulator: the beginning of a frame, and what it was just fed
  frames,    \* the samples that were sent, frame by frame
  owner,     \* "open"; in drop: "notify", "join"; "closed"
  captured,  \* how many samples were captured
  mutes,     \* how often the user muted or unmuted
  lost       \* history: captured while muted, thrown out by a full ring, or not encoded
vars == <<ring, muted, stop, capture, drain, chunk, tail, frames, owner, captured, mutes, lost>>
callback == <<capture, captured>>
thread   == <<chunk, tail, frames>>
control  == <<muted, stop, owner, mutes>>

Init ==
  /\ ring = <<>> /\ muted = FALSE /\ stop = FALSE
  /\ capture = <<>> /\ drain = "look" /\ chunk = <<>> /\ tail = <<>> /\ frames = <<>>
  /\ owner = "open" /\ captured = 0 /\ mutes = 0 /\ lost = {}

Capacity == Frame * RingFrames
-----------------------------------------------------------------------------
(* The callback *)

Capture(n) ==
  /\ owner # "closed" /\ capture = <<>>
  /\ captured + n <= LastSample /\ captured' = captured + n
  /\ LET samples == [i \in 1 .. n |-> captured + i]
     IN \/ /\ stop \/ muted
           /\ lost' = lost \cup Seqs!ToSet(samples) /\ UNCHANGED capture
        \/ /\ ~stop /\ ~muted
           /\ capture' = samples /\ UNCHANGED lost
  /\ UNCHANGED <<ring, control, drain, thread>>

\* A plausible bug: only a push into an empty ring is thought to need waking.
NotifiedFromSecond == IF drain = "wait" /\ ring # <<>> THEN "look" ELSE drain

\* notify_one
Notified == IF drain = "wait" THEN "look" ELSE drain

\* MicRing::push: the oldest make room.
PushCaptured ==
  /\ capture # <<>> /\ drain # "pop"
  /\ LET all == ring \o capture
         out == IF Len(all) > Capacity THEN Len(all) - Capacity ELSE 0
     IN /\ ring' = SubSeq(all, out + 1, Len(all))
        /\ lost' = lost \cup Seqs!ToSet(SubSeq(all, 1, out))
  /\ capture' = <<>> /\ drain' = Notified
  /\ UNCHANGED <<control, thread, captured>>
-----------------------------------------------------------------------------
(* The drain thread *)

\* pop_chunk_blocking takes the lock and looks at stop.
Look ==
  /\ drain = "look" /\ drain' = IF stop THEN "over" ELSE "pop"
  /\ UNCHANGED <<ring, control, callback, thread, lost>>

\* It waits, and lets the lock go, when the ring is empty.
Pop ==
  /\ drain = "pop"
  /\ \/ ring = <<>> /\ drain' = "wait" /\ UNCHANGED <<ring, chunk>>
     \/ \E n \in DOMAIN ring : /\ chunk' = SubSeq(ring, 1, n)
                               /\ ring' = SubSeq(ring, n + 1, Len(ring))
                               /\ drain' = "feed"
  /\ UNCHANGED <<control, callback, tail, frames, lost>>

\* MicAccumulator::feed cuts what it has into frames and keeps what is left.
FirstFrame(samples) == SubSeq(samples, 1, Frame)
Remaining(samples)  == SubSeq(samples, Frame + 1, Len(samples))

\* Muted, the chunk is dropped.
Feed ==
  /\ drain = "feed" /\ chunk' = <<>>
  /\ \/ muted /\ drain' = "look" /\ lost' = lost \cup Seqs!ToSet(chunk) /\ UNCHANGED tail
     \/ ~muted /\ drain' = "encode" /\ tail' = tail \o chunk /\ UNCHANGED lost
  /\ UNCHANGED <<ring, frames, control, callback>>

\* One frame after the other; one that cannot be encoded is passed over.
Encode ==
  /\ drain = "encode"
  /\ \/ Len(tail) < Frame /\ drain' = "look" /\ UNCHANGED <<tail, frames, lost>>
     \/ /\ Len(tail) >= Frame /\ UNCHANGED drain
        /\ tail' = Remaining(tail)
        /\ \/ frames' = frames \o FirstFrame(tail) /\ UNCHANGED lost
           \/ lost' = lost \cup Seqs!ToSet(FirstFrame(tail)) /\ UNCHANGED frames
  /\ UNCHANGED <<ring, chunk, control, callback>>

DrainStep == Look \/ Pop \/ Feed \/ Encode
-----------------------------------------------------------------------------
(* The media thread *)

SetMuted ==
  /\ owner = "open" /\ mutes < Mutes /\ mutes' = mutes + 1 /\ muted' = ~muted
  /\ UNCHANGED <<ring, stop, owner, drain, callback, thread, lost>>

Drop ==
  /\ owner = "open" /\ owner' = "notify" /\ stop' = TRUE
  /\ UNCHANGED <<ring, muted, mutes, drain, callback, thread, lost>>

NotifyAll ==
  /\ owner = "notify" /\ owner' = "join" /\ drain' = Notified
  /\ UNCHANGED <<ring, muted, stop, mutes, callback, thread, lost>>

\* After the thread was joined the stream ends, and with it the callback.
Join ==
  /\ owner = "join" /\ drain = "over" /\ owner' = "closed"
  /\ UNCHANGED <<ring, muted, stop, mutes, drain, callback, thread, lost>>

DropStep == NotifyAll \/ Join

Next == (\E n \in Sizes : Capture(n)) \/ PushCaptured \/ DrainStep \/ SetMuted \/ Drop \/ DropStep

Fairness == WF_vars(PushCaptured) /\ WF_vars(DrainStep) /\ WF_vars(DropStep)
Spec     == Init /\ [][Next]_vars /\ Fairness
-----------------------------------------------------------------------------
\* From the callback through the ring and the drain thread, which forget some while
\* muted, while the ring is full, or with a frame that cannot be encoded, samples are
\* sent in the order they were captured, none twice and none besides those left out, and
\* the thread keeps less than a frame back.
SentAsCaptured ==
  LET all == frames \o tail \o chunk \o ring \o capture
  IN /\ \A i \in 1 .. Len(all) - 1 : all[i] < all[i + 1]
     /\ Seqs!ToSet(all) = (1 .. captured) \ lost
     /\ drain # "encode" => Len(tail) < Frame

\* What the callback captured does not stay in the ring, however its pushes and the
\* looks of the drain thread follow each other.
RingEmpties == ring # <<>> ~> (ring = <<>> \/ stop)

\* Dropping the microphone ends the drain thread and returns.
DropEnds == owner = "notify" ~> owner = "closed"
=============================================================================
