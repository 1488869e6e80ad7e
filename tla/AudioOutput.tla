---------------------------- MODULE AudioOutput ----------------------------
(***************************************************************************)
(* The audio output (chiaki-media/src/audio/output.rs): the audio thread   *)
(* pushes samples into a first ring, the drain thread moves them into a    *)
(* second one, and the callback of the device plays from that.             *)
(*                                                                         *)
(* Samples are numbered.  A ring is the sequence of what it holds; where   *)
(* it wraps is left out.  The device calls back again and again.           *)
(***************************************************************************)
EXTENDS Naturals, Sequences

CONSTANTS Buffer,     \* audio_buffer_size in samples
          Sizes,      \* how many samples one push may bring
          Periods,    \* how many samples one callback may ask for
          LastSample  \* bound: how many samples are pushed

Seqs == INSTANCE SequencesExt

VARIABLES
  decode,     \* decode_ring
  device,     \* device_ring: its samples and primed
  drain,      \* the drain thread: place, want and what it took out (scratch)
  life,       \* "open", "stopped" (the output is being dropped), "closed" (no callback)
  pushed,     \* how many samples were pushed
  heard,      \* history: the samples played
  overflowed  \* history: the samples that the first ring threw out
vars == <<decode, device, drain, life, pushed, heard, overflowed>>

Capacity == 8 * Buffer

\* Where the drain thread stops filling the second ring.
Target == 2 * Buffer

\* Where the callback starts playing.
Prefill == 2 * Buffer

Init ==
  /\ decode = <<>> /\ device = [samples |-> <<>>, primed |-> FALSE]
  /\ drain = [at |-> "top", want |-> 0, hand |-> <<>>]
  /\ life = "open" /\ pushed = 0 /\ heard = <<>> /\ overflowed = {}
-----------------------------------------------------------------------------
(* SampleRing *)

\* push: the oldest make room.
ThrownOut(samples) == IF Len(samples) > Capacity THEN Len(samples) - Capacity ELSE 0
Newest(samples)    == SubSeq(samples, ThrownOut(samples) + 1, Len(samples))

\* pop and pull
AtMost(n, samples) == IF n < Len(samples) THEN n ELSE Len(samples)
First(n, samples)  == SubSeq(samples, 1, AtMost(n, samples))
Rest(n, samples)   == SubSeq(samples, AtMost(n, samples) + 1, Len(samples))
-----------------------------------------------------------------------------
Push(n) ==
  /\ life = "open" /\ pushed + n <= LastSample /\ pushed' = pushed + n
  /\ LET all == decode \o [i \in 1 .. n |-> pushed + i]
     IN /\ decode' = Newest(all)
        /\ overflowed' = overflowed \cup Seqs!ToSet(SubSeq(all, 1, ThrownOut(all)))
  /\ UNCHANGED <<device, drain, life, heard>>

\* drop stores stop; the stream ends after it.
Stop  == life = "open" /\ life' = "stopped" /\ UNCHANGED <<decode, device, drain, pushed, heard, overflowed>>
Close == life = "stopped" /\ life' = "closed" /\ UNCHANGED <<decode, device, drain, pushed, heard, overflowed>>

\* The callback: a ring that was played empty has to fill up again first.
Play(n) ==
  /\ life # "closed" /\ (device.primed \/ Len(device.samples) >= Prefill)
  /\ heard' = heard \o First(n, device.samples)
  /\ LET rest == Rest(n, device.samples)
     IN device' = [samples |-> rest, primed |-> device.primed /\ rest # <<>>]
  /\ UNCHANGED <<decode, drain, life, pushed, overflowed>>
-----------------------------------------------------------------------------
(* The drain thread *)

DrainGoes(from, to) == drain.at = from /\ drain' = [drain EXCEPT !.at = to]

LookAtStop ==
  /\ \/ life = "open" /\ DrainGoes("top", "fill")
     \/ life # "open" /\ DrainGoes("top", "over")
  /\ UNCHANGED <<decode, device, life, pushed, heard, overflowed>>

\* A plausible bug: what is still there is not taken into account.
WholeTarget == Target

Missing == Target - Len(device.samples)

ReadFill ==
  /\ drain.at = "fill"
  /\ \/ Len(device.samples) >= Target /\ DrainGoes("fill", "check")
     \/ /\ Len(device.samples) < Target
        /\ drain' = [drain EXCEPT !.at = "pop", !.want = Missing]
  /\ UNCHANGED <<decode, device, life, pushed, heard, overflowed>>

Pop ==
  /\ \/ decode = <<>> /\ DrainGoes("pop", "check") /\ UNCHANGED decode
     \/ /\ decode # <<>> /\ drain.at = "pop"
        /\ drain' = [drain EXCEPT !.at = "push", !.hand = First(drain.want, decode)]
        /\ decode' = Rest(drain.want, decode)
  /\ UNCHANGED <<device, life, pushed, heard, overflowed>>

PushOn ==
  /\ drain.at = "push" /\ drain' = [drain EXCEPT !.at = "fill", !.hand = <<>>]
  /\ LET all == Newest(device.samples \o drain.hand)
     IN device' = [samples |-> all, primed |-> device.primed \/ Len(all) >= Prefill]
  /\ UNCHANGED <<decode, life, pushed, heard, overflowed>>

\* While there is more than the second ring takes, the thread does not wait at all.
Check ==
  /\ \/ decode = <<>> /\ DrainGoes("check", "wait")
     \/ decode # <<>> /\ DrainGoes("check", "top")
  /\ UNCHANGED <<decode, device, life, pushed, heard, overflowed>>

\* By a push, by the drop, or after 20 ms.
WakeUp ==
  DrainGoes("wait", "top") /\ UNCHANGED <<decode, device, life, pushed, heard, overflowed>>

DrainStep == LookAtStop \/ ReadFill \/ Pop \/ PushOn \/ Check \/ WakeUp

Next == (\E n \in Sizes : Push(n)) \/ (\E n \in Periods : Play(n)) \/ Stop \/ Close \/ DrainStep

Fairness == WF_vars(DrainStep)
Spec     == Init /\ [][Next]_vars /\ Fairness
-----------------------------------------------------------------------------
\* Through both rings and the hands of the drain thread, samples are played in the
\* order they were pushed and none twice; only a full first ring loses any, and the
\* second never holds more than its target, however the callback and the thread overlap.
HeardIsPushed ==
  LET all == heard \o device.samples \o drain.hand \o decode
  IN /\ \A i \in 1 .. Len(all) - 1 : all[i] < all[i + 1]
     /\ Seqs!ToSet(all) = (1 .. pushed) \ overflowed
     /\ Len(device.samples) <= Target

\* Enough samples start the sound again after any silence, and the thread ends with
\* the output.
DrainServes ==
  /\ (life = "open" /\ Len(device.samples \o drain.hand \o decode) >= 2 * Buffer)
       ~> (life # "open" \/ device.primed)
  /\ life # "open" ~> drain.at = "over"

\* What the comment at push says of more than three buffers: all that was queued is
\* thrown away. It does not hold; a burst stays queued, and late, for good.
BacklogIsDiscarded ==
  [][pushed' > pushed /\ Len(device.samples \o decode) > 3 * Buffer
       => Seqs!ToSet(decode') \cap (1 .. pushed) = {}]_vars
=============================================================================
