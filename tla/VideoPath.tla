----------------------------- MODULE VideoPath -----------------------------
(***************************************************************************)
(* From video packets to the decoder (videoreceiver.rs, frameprocessor.rs) *)
(* with the packet statistics (packetstats.rs) that the congestion control *)
(* thread (congestioncontrol.rs) takes and resets beside them.             *)
(*                                                                         *)
(* The packets come in the order of their numbers, some never (module      *)
(* TakionAv).  The console numbers its frames 1 .. Frames; on the wire a   *)
(* frame has a wrapping 16-bit index.  A frame is cut into source units    *)
(* and FEC units; what is in it is abstracted to the slice the bitstream   *)
(* parser finds.  Counters for display (frames_lost, stream_stats) are     *)
(* left out.                                                               *)
(***************************************************************************)
EXTENDS SeqNum, Sequences, FiniteSets

CONSTANTS Frames,       \* bound: how many frames the console sends
          FirstFrame,   \* the frame_index of the first one
          Shapes,       \* [src, fec] a frame may be cut into
          References,   \* reference_frame values the console uses: below RefSlots, or
          NoReference,  \* 0xff
          RefSlots,     \* reference_frames.len(), 16
          Profiles,     \* adaptive stream indices of the STREAMINFO
          BadProfile    \* an index beyond them

ASSUME FramesAssumption ==
  /\ Frames \in Nat /\ Frames < SeqHalf /\ FirstFrame \in SeqNums
  /\ \A s \in Shapes : s.src \in Nat \ {0} /\ s.fec \in Nat
  /\ RefSlots \in Nat \ {0} /\ RefSlots <= SeqHalf
  /\ References \subseteq 0 .. RefSlots - 1 \cup {NoReference}
  /\ NoReference \notin 0 .. RefSlots /\ BadProfile \notin Profiles

Seqs == INSTANCE SequencesExt

IndexOf(n) == SeqAdd(FirstFrame, n - 1)

\* I slices, P slices with their reference, and what the parser does not know.
Slices == [type : {"I"}, ref : {NoReference}]
          \cup [type : {"P"}, ref : References]
          \cup [type : {"unknown"}, ref : {NoReference}]

Frame == [n : 1 .. Frames, shape : Shapes, slice : Slices,
          profile : Profiles \cup {BadProfile}]
NoFrame == [n |-> 0]
UnitsOf(f) == f.shape.src + f.shape.fec

\* The index of nothing.
None == -1

VARIABLES
  frame,   \* console: the frame it is sending
  unit,    \* console: the unit it sends next
  rx,      \* VideoReceiverState, waiting_for_idr and the FrameProcessor
  stats,   \* PacketStats: gen_received, gen_lost
  log      \* history, see below
vars == <<frame, unit, rx, stats, log>>

\* rx: cur, prev, complete: frame_index_cur, _prev, _prev_complete; refs: the
\* reference_frames that are set, newest first; profile: profile_cur; fp: the frame
\* processor (of: the frame whose units it holds; src, fec: units expected; got:
\* the slots in use).
\* log: last: the frame given to the decoder last; accepted: those it took; header:
\* the profile of the last header given; asked: an IDR frame was asked for and no I
\* slice came since; units, expected: units put and expected that no report of the
\* congestion control has covered; reported:
\* the frames reported to the console as corrupt; faults: what a frame given to the
\* decoder ever lacked (Faults).
TypeOK ==
  /\ frame \in Frame \cup {NoFrame}
  /\ unit \in Nat
  /\ {rx.cur, rx.prev} \subseteq SeqNums \cup {None} /\ rx.complete \in SeqNums
  /\ rx.refs \in Seq(SeqNums) /\ Len(rx.refs) <= RefSlots
  /\ rx.waiting \in BOOLEAN /\ rx.profile \in Profiles \cup {None}
  /\ rx.fp.of \in Frame \cup {NoFrame} /\ rx.fp.got \subseteq 0 .. rx.fp.src + rx.fp.fec - 1
  /\ stats.received \in Nat /\ stats.lost \in Nat

Init ==
  /\ frame = NoFrame /\ unit = 0
  /\ rx = [cur |-> None, prev |-> None, complete |-> 0, refs |-> <<>>, waiting |-> FALSE,
           profile |-> None, fp |-> [of |-> NoFrame, src |-> 0, fec |-> 0, got |-> {}]]
  /\ stats = [received |-> 0, lost |-> 0]
  /\ log = [last |-> 0, accepted |-> {}, header |-> None, asked |-> FALSE,
            units |-> 0, expected |-> 0, reported |-> {}, faults |-> {}]
-----------------------------------------------------------------------------
(* FrameProcessor *)

\* alloc_frame: a frame without FEC units gets a slot for one all the same.
AllocFrame(f) == [of |-> f, src |-> f.shape.src,
                  fec |-> IF f.shape.fec < 1 THEN 1 ELSE f.shape.fec, got |-> {}]

PutUnit(fp, u) == [fp EXCEPT !.got = @ \cup {u}]

SourceGot(fp) == fp.got \cap 0 .. fp.src - 1

FlushPossible(fp) == Cardinality(fp.got) >= fp.src

\* A plausible bug: one erasure more than there are FEC units is accepted.
FlushResultOptimistic(fp) ==
  IF fp.src = 0 THEN "failed"
  ELSE IF Cardinality(SourceGot(fp)) = fp.src THEN "success"
  ELSE IF Cardinality(fp.got) + 1 >= fp.src THEN "fec_success" ELSE "fec_failed"

\* flush and fec: decoding needs as many units as there are source units.
FlushResult(fp) ==
  IF fp.src = 0 THEN "failed"
  ELSE IF Cardinality(SourceGot(fp)) = fp.src THEN "success"
  ELSE IF Cardinality(fp.got) >= fp.src THEN "fec_success" ELSE "fec_failed"
-----------------------------------------------------------------------------
(* VideoReceiver::flush_frame, on s = [rx, log], with what the surroundings    *)
(* answer in e: idr: the IDR request was sent; rewrite: the slice could be     *)
(* rewritten; takes: the decoder took the frame                                *)

Answers == [idr : BOOLEAN, rewrite : BOOLEAN, takes : BOOLEAN]

Expected(s) == SeqAdd(s.rx.complete, 1)

\* The frames of the console with an index in from .. to.
InRange(from, to) == {n \in 1 .. Frames : SeqDist(from, IndexOf(n)) <= SeqDist(from, to)}

SendCorrupt(s, from, to) == [s EXCEPT !.log.reported = @ \cup InRange(from, to)]

\* Only once until an I slice comes, and again when the request could not be sent.
AskForIdr(s, e) ==
  IF s.rx.waiting \/ ~e.idr THEN s
  ELSE [s EXCEPT !.rx.waiting = TRUE, !.log.asked = TRUE]

FecFailed(s, e) ==
  [AskForIdr(SendCorrupt(s, Expected(s), s.rx.cur), e) EXCEPT !.rx.prev = s.rx.cur]

RefIndex(s, distance) ==
  SeqAdd(s.rx.cur, SeqMod - ((distance + 1) % SeqMod))

HaveRef(s, distance) == RefIndex(s, distance) \in Seqs!ToSet(s.rx.refs)

\* The nearest older frame that is there.
Substitutes(s) ==
  {i \in s.rx.fp.of.slice.ref + 1 .. RefSlots - 1 :
     HaveRef(s, i) /\ \A j \in s.rx.fp.of.slice.ref + 1 .. i - 1 : ~HaveRef(s, j)}

AddRef(refs, index) == SubSeq(<<index>> \o refs, 1,
                              IF Len(refs) < RefSlots THEN Len(refs) + 1 ELSE RefSlots)

\* What is wrong with the frame at hand, given with the reference at this distance.
Faults(s, distance) ==
  LET f == s.rx.fp.of
  IN {k \in {"torn", "again", "header", "reference", "blind"} :
        \/ k = "torn"   /\ Cardinality(s.rx.fp.got) < f.shape.src
        \/ k = "again"  /\ f.n <= s.log.last
        \/ k = "header" /\ s.log.header # f.profile
        \/ k = "reference" /\ distance # NoReference
                           /\ f.n - distance - 1 \notin s.log.accepted
        \/ k = "blind"  /\ f.slice.type = "P" /\ s.log.asked}

\* video_sample, with the outcome for the bookkeeping.
Given(s, distance) ==
  [rx |-> [s.rx EXCEPT !.prev = s.rx.cur],
   log |-> [s.log EXCEPT !.last = s.rx.fp.of.n, !.faults = @ \cup Faults(s, distance)]]

\* The frame goes to the decoder, with the reference at this distance.
Give(s, e, distance) ==
  LET given == Given(s, distance)
  IN IF ~e.takes THEN given
     ELSE [rx |-> [given.rx EXCEPT !.refs = AddRef(@, s.rx.cur), !.complete = s.rx.cur],
           log |-> [given.log EXCEPT !.accepted = @ \cup {s.rx.fp.of.n}]]

\* frame_index_prev moves on, frame_index_prev_complete does not.
GiveUp(s) == [s EXCEPT !.rx.prev = s.rx.cur]

FlushP(s, e) ==
  LET ref == s.rx.fp.of.slice.ref
  IN IF ref = NoReference \/ HaveRef(s, ref) THEN Give(s, e, ref)
     ELSE IF e.rewrite /\ Substitutes(s) # {}
     THEN Give(s, e, CHOOSE i \in Substitutes(s) : TRUE)
     ELSE GiveUp(s)

FlushFrame(s, e) ==
  LET type   == s.rx.fp.of.slice.type
      result == FlushResult(s.rx.fp)
  IN IF result = "failed" THEN s
     ELSE IF result = "fec_failed" THEN FecFailed(s, e)
     ELSE IF type = "unknown" THEN Give(s, e, NoReference)
     ELSE IF type = "I"
     THEN Give([rx |-> [s.rx EXCEPT !.waiting = FALSE],
                log |-> [s.log EXCEPT !.asked = FALSE]], e, NoReference)
     ELSE IF s.rx.waiting THEN GiveUp(s)
     ELSE FlushP(s, e)
-----------------------------------------------------------------------------
(* VideoReceiver::av_packet *)

\* The header of another profile goes to the decoder at once.
SwitchProfile(s, p) ==
  IF s.rx.profile = p THEN s
  ELSE [rx |-> [s.rx EXCEPT !.profile = p], log |-> [s.log EXCEPT !.header = p]]

\* A plausible bug: only a jump of the frame index counts as missing.
ReportJumps(s, index) ==
  IF s.rx.cur # None /\ SeqGt(index, SeqAdd(s.rx.cur, 1))
  THEN SendCorrupt(s, Expected(s), SeqAdd(index, SeqMod - 1)) ELSE s

ReportMissing(s, index) ==
  IF SeqGt(index, Expected(s)) /\ ~(index = 1 /\ s.rx.cur = None)
  THEN SendCorrupt(s, Expected(s), SeqAdd(index, SeqMod - 1)) ELSE s

IsNext(s, index) == s.rx.cur = None \/ SeqGt(index, s.rx.cur)

\* A new frame: the one before is flushed if it was not, then what is missing since
\* the last complete one is reported.
StartFrame(s, f, e) ==
  LET flushed  == IF s.rx.cur # None /\ s.rx.prev # s.rx.cur THEN FlushFrame(s, e) ELSE s
      reported == ReportMissing(flushed, IndexOf(f.n))
      fp       == AllocFrame(f)
  IN [rx |-> [reported.rx EXCEPT !.cur = IndexOf(f.n), !.fp = fp],
      log |-> [reported.log EXCEPT !.expected = @ + fp.src + fp.fec]]

AvPacket(s, f, u, e1, e2) ==
  LET switched == SwitchProfile(s, f.profile)
      started  == IF IsNext(switched, IndexOf(f.n)) THEN StartFrame(switched, f, e1)
                  ELSE switched
      put      == [rx |-> [started.rx EXCEPT !.fp = PutUnit(@, u)],
                   log |-> [started.log EXCEPT !.units = @ + 1]]
      old      == s.rx.cur # None /\ SeqLt(IndexOf(f.n), s.rx.cur)
  IN IF old \/ f.profile = BadProfile THEN s
     ELSE IF put.rx.cur # put.rx.prev /\ (FlushPossible(put.rx.fp) \/ u = UnitsOf(f) - 1)
     THEN FlushFrame(put, e2) ELSE put

\* A plausible bug: it is reported when the frame has arrived, with the counts of
\* the new one.
PushGenerationLate(before, after) == [received |-> stats.received + Cardinality(after.got),
                                      lost |-> stats.lost + after.src + after.fec
                                               - Cardinality(after.got)]

\* report_packet_stats: the frame before, whatever became of it.
PushGeneration(before, after) == [received |-> stats.received + Cardinality(before.got),
                                  lost |-> stats.lost + before.src + before.fec
                                           - Cardinality(before.got)]

\* One packet, under the state mutex.
Receive ==
  /\ frame # NoFrame /\ unit < UnitsOf(frame)
  /\ unit' = unit + 1
  /\ \E e \in Answers, idrBefore \in BOOLEAN :
       LET s == AvPacket([rx |-> rx, log |-> log], frame, unit,
                         [e EXCEPT !.idr = idrBefore], e)
       IN rx' = s.rx /\ log' = s.log
  /\ stats' = IF frame.profile # BadProfile /\ IsNext([rx |-> rx], IndexOf(frame.n))
              THEN PushGeneration(rx.fp, rx'.fp) ELSE stats
  /\ UNCHANGED frame
-----------------------------------------------------------------------------
(* The console, the network and the congestion control thread *)

ConsoleNextFrame(f) ==
  /\ frame # NoFrame => unit = UnitsOf(frame)
  /\ f.n = frame.n + 1
  /\ frame' = f /\ unit' = 0
  /\ UNCHANGED <<rx, stats, log>>

Lose ==
  /\ frame # NoFrame /\ unit < UnitsOf(frame)
  /\ unit' = unit + 1
  /\ UNCHANGED <<frame, rx, stats, log>>

\* Every 200 ms: get(true) reads and resets under the lock, then the packet is sent.
Congestion ==
  /\ stats # [received |-> 0, lost |-> 0]
  /\ log' = [log EXCEPT !.units = @ - stats.received,
                        !.expected = @ - stats.received - stats.lost]
  /\ stats' = [received |-> 0, lost |-> 0]
  /\ UNCHANGED <<frame, unit, rx>>

Next == \/ \E f \in Frame : ConsoleNextFrame(f)
        \/ Receive \/ Lose \/ Congestion

Spec == Init /\ [][Next]_vars
-----------------------------------------------------------------------------
\* What the decoder gets is whole, by itself or by FEC, each frame at most once and
\* in the order the console sent them, also across the turn of the frame numbers.
GivenWholeInOrder == log.faults \cap {"torn", "again"} = {}

\* A P slice reaches the decoder only with a reference the decoder has taken, the
\* one the console chose or the one that was put in its place.
ReferencesAreThere == "reference" \notin log.faults

\* The decoder never gets a frame under the header of another profile, although the
\* header of the next profile is handed over before the frame before it is flushed:
\* whatever can be decoded at all was flushed with its last necessary unit.
HeaderMatchesFrame == "header" \notin log.faults

\* Between the request for an IDR frame and the next I slice no P slice is decoded.
WaitsForIdr == "blind" \notin log.faults

\* The four together: no loss of units, frames, requests or references, no refusal of
\* the decoder and no switch of the profile makes it decode what it cannot.
DecoderIsServed ==
  GivenWholeInOrder /\ ReferencesAreThere /\ HeaderMatchesFrame /\ WaitsForIdr

\* Since the first frame that was decoded, every frame before the one that is being
\* put together was decoded or reported to the console as missing.
MissingIsReported ==
  rx.fp.of # NoFrame =>
    \A n \in 1 .. rx.fp.of.n - 1 :
      (\E k \in log.accepted : k < n) => n \in log.accepted \cup log.reported

\* The two threads that use the statistics count every unit of the closed frames
\* once, as received or as lost, and the lost ones never fall below zero.
UnitsCountedOnce ==
  /\ stats.received + Cardinality(rx.fp.got) = log.units
  /\ stats.received + stats.lost + rx.fp.src + rx.fp.fec
       = log.expected
  /\ stats.lost >= 0
=============================================================================
