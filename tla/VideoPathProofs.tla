--------------------------- MODULE VideoPathProofs ---------------------------
(***************************************************************************)
(* The video path for every value of the constants: any number of frames,  *)
(* cut in any way, with any references, any packets lost, any answers of   *)
(* the surroundings and any turn of the 16-bit frame numbers.              *)
(*                                                                         *)
(* Good says what holds of the receiver and its history between any two    *)
(* steps inside av_packet; every helper of it keeps Good (CorruptKeeps to  *)
(* PutKeeps).  The decoder is served because a frame that is still to be   *)
(* flushed when the next one starts cannot be decoded (Idle), and because  *)
(* the indices of the references lead back to frames that were taken       *)
(* (DistanceIs).  The units add up because no unit is put twice: what is   *)
(* there of the frame that is being sent came before the next unit (Inv).  *)
(***************************************************************************)
EXTENDS VideoPath, SequenceTheorems, FiniteSetTheorems, TLAPS
-----------------------------------------------------------------------------
Profiled == Profiles \cup {None}
Indices  == SeqNums \cup {None}
Numbers  == 1 .. Frames
Holding  == [of : Frame \cup {NoFrame}, src : Nat, fec : Nat, got : SUBSET Nat]
Refs     == {q \in Seq(SeqNums) : Len(q) <= RefSlots}
Receiver == [cur : Indices, prev : Indices, complete : SeqNums, refs : Refs,
             waiting : BOOLEAN, profile : Profiled, fp : Holding]
History  == [last : 0 .. Frames, accepted : SUBSET Numbers, header : Profiled, asked : BOOLEAN,
             units : Int, expected : Int, reported : SUBSET Numbers,
             faults : SUBSET {"torn", "again", "header", "reference", "blind"}]
State    == [rx : Receiver, log : History]

-----------------------------------------------------------------------------
(* Frame numbers and their indices *)

LEMMA IndexType ==
  ASSUME NEW n \in Numbers
  PROVE  IndexOf(n) \in SeqNums
BY FramesAssumption, SeqHalfAssumption DEF Numbers, IndexOf, SeqAdd, SeqNums, SeqMod

\* Later frames have later indices: less than half of the space is used.
LEMMA IndexOrder ==
  ASSUME NEW n \in Numbers, NEW m \in Numbers
  PROVE  /\ SeqLt(IndexOf(n), IndexOf(m)) <=> n < m
         /\ SeqGt(IndexOf(n), IndexOf(m)) <=> n > m
         /\ IndexOf(n) = IndexOf(m) <=> n = m
BY FramesAssumption, SeqHalfAssumption
   DEF Numbers, IndexOf, SeqAdd, SeqLt, SeqGt, SeqNums, SeqMod

LEMMA IndexNext ==
  ASSUME NEW n \in Numbers, NEW m \in Numbers, n < m
  PROVE  /\ SeqGt(IndexOf(m), SeqAdd(IndexOf(n), 1)) <=> n + 1 < m
         /\ SeqAdd(IndexOf(n), 1) = IndexOf(n + 1)
         /\ SeqAdd(IndexOf(m), SeqMod - 1) = IndexOf(m - 1)
BY FramesAssumption, SeqHalfAssumption
   DEF Numbers, IndexOf, SeqAdd, SeqLt, SeqGt, SeqNums, SeqMod

LEMMA RangeIs ==
  ASSUME NEW n \in Numbers, NEW m \in Numbers, NEW k \in n .. m
  PROVE  k \in InRange(IndexOf(n), IndexOf(m))
BY FramesAssumption, SeqHalfAssumption
   DEF Numbers, IndexOf, InRange, SeqAdd, SeqDist, SeqNums, SeqMod

\* The reference at a distance, in frame numbers.
LEMMA DistanceIs ==
  ASSUME NEW n \in Numbers, NEW k \in Numbers, NEW d \in 0 .. RefSlots - 1,
         SeqAdd(IndexOf(n), SeqMod - ((d + 1) % SeqMod)) = IndexOf(k)
  PROVE  k = n - d - 1
<1>1. d + 1 \in 0 .. SeqMod - 1 BY FramesAssumption, SeqHalfAssumption DEF SeqMod
<1>2. (d + 1) % SeqMod = d + 1
  <2> DEFINE x == d + 1
             m == SeqMod
  <2>1. x \in 0 .. m - 1 /\ m \in Nat \ {0} BY <1>1, SeqHalfAssumption DEF SeqMod
  <2> HIDE DEF x, m
  <2>2. x % m = x BY <2>1
  <2> QED BY <2>2 DEF x, m
<1>3. SeqAdd(IndexOf(n), SeqMod - (d + 1)) = IndexOf(k) BY <1>2
<1> QED BY <1>1, <1>3, FramesAssumption, SeqHalfAssumption
        DEF Numbers, IndexOf, SeqAdd, SeqNums, SeqMod

-----------------------------------------------------------------------------
(* The frame at hand *)

HoldingGood(fp) ==
  /\ fp \in Holding /\ fp.got \subseteq 0 .. fp.src + fp.fec - 1
  /\ fp.of # NoFrame =>
       fp.of \in Frame /\ fp.src = fp.of.shape.src
       /\ fp.fec = IF fp.of.shape.fec < 1 THEN 1 ELSE fp.of.shape.fec
  /\ fp.of = NoFrame => fp.src = 0 /\ fp.fec = 0

LEMMA FrameIs ==
  ASSUME NEW f \in Frame
  PROVE  /\ f.n \in Numbers /\ f # NoFrame /\ f.profile \in Profiles \cup {BadProfile}
         /\ f.shape.src \in Nat \ {0} /\ f.shape.fec \in Nat /\ f.slice \in Slices
         /\ f.slice.ref \in References \cup {NoReference}
<1>1. f.n \in Numbers /\ f.shape \in Shapes /\ f.slice \in Slices
      /\ f.profile \in Profiles \cup {BadProfile}
  BY DEF Frame, Numbers
<1>2. f # NoFrame
  <2>1. f.n # 0 BY <1>1 DEF Numbers
  <2> QED BY <2>1 DEF NoFrame
<1>3. \A x \in Slices : x.ref \in References \cup {NoReference} BY DEF Slices
<1> QED BY <1>1, <1>2, <1>3, FramesAssumption

LEMMA GotSize ==
  ASSUME NEW fp, HoldingGood(fp)
  PROVE  /\ IsFiniteSet(fp.got) /\ Cardinality(fp.got) \in 0 .. fp.src + fp.fec
         /\ Cardinality(SourceGot(fp)) \in Nat /\ Cardinality(SourceGot(fp)) <= Cardinality(fp.got)
<1> DEFINE n == fp.src + fp.fec
           slots == 0 .. n - 1
<1>1. n \in Nat /\ n - 1 \in Int /\ 0 \in Int BY DEF HoldingGood, Holding
<1>0. fp.got \subseteq slots
  <2>1. fp.src \in Nat /\ fp.fec \in Nat BY DEF HoldingGood, Holding
  <2>2. fp.src + (fp.fec - 1) = n - 1 BY <2>1
  <2> QED BY <2>2 DEF HoldingGood
<1> HIDE DEF n
<1>2. IsFiniteSet(slots) /\ Cardinality(slots) = IF 0 > n - 1 THEN 0 ELSE (n - 1) - 0 + 1
  BY <1>1, FS_Interval
<1>3. fp.got \in SUBSET slots BY <1>0
<1> HIDE DEF slots
<1>4. IsFiniteSet(fp.got) /\ Cardinality(fp.got) <= Cardinality(slots) BY <1>2, <1>3, FS_Subset
<1>5. SourceGot(fp) \in SUBSET fp.got BY DEF SourceGot
<1>6. IsFiniteSet(SourceGot(fp)) /\ Cardinality(SourceGot(fp)) <= Cardinality(fp.got)
  BY <1>4, <1>5, FS_Subset
<1>7. Cardinality(fp.got) \in Nat /\ Cardinality(SourceGot(fp)) \in Nat
  BY <1>4, <1>6, FS_CardinalityType
<1>8. Cardinality(fp.got) <= n BY <1>1, <1>2, <1>4, <1>7
<1> QED BY <1>1, <1>4, <1>6, <1>7, <1>8 DEF n

\* A frame can be decoded exactly when there are as many units as source units.
LEMMA ResultIs ==
  ASSUME NEW fp, HoldingGood(fp), fp.of # NoFrame
  PROVE  /\ FlushPossible(fp) => FlushResult(fp) \in {"success", "fec_success"}
         /\ ~FlushPossible(fp) => FlushResult(fp) = "fec_failed"
         /\ fp.src \in Nat \ {0}
<1>1. fp.src \in Nat \ {0} BY FrameIs DEF HoldingGood
<1>2. Cardinality(fp.got) \in Nat /\ Cardinality(SourceGot(fp)) \in Nat
      /\ Cardinality(SourceGot(fp)) <= Cardinality(fp.got)
  BY GotSize, <1>1 DEF HoldingGood, Holding
<1> QED BY <1>1, <1>2 DEF FlushPossible, FlushResult

-----------------------------------------------------------------------------
(* Flushing *)

\* The frame at hand has the index that is current.
AtHand(s) == /\ HoldingGood(s.rx.fp)
             /\ s.rx.cur = None <=> s.rx.fp.of = NoFrame
             /\ s.rx.fp.of # NoFrame => s.rx.cur = IndexOf(s.rx.fp.of.n)

Open(s) == s.rx.prev # s.rx.cur

\* Frames are given in turn, and the one at hand once.
InTurn(s) == /\ s.log.last <= s.rx.fp.of.n
             /\ s.rx.fp.of # NoFrame /\ Open(s) => s.log.last < s.rx.fp.of.n

\* A reference that is kept was taken.
RefsTaken(s) == \A i \in 1 .. Len(s.rx.refs) : \E k \in s.log.accepted : s.rx.refs[i] = IndexOf(k)

\* The last complete frame is the newest that was taken.
Newest(s) == s.log.accepted # {} =>
  \E c \in s.log.accepted : /\ s.rx.complete = IndexOf(c) /\ c <= s.rx.fp.of.n
                            /\ \A k \in s.log.accepted : k <= c

Reported(s) == \A n \in 1 .. s.rx.fp.of.n - 1 :
  (\E k \in s.log.accepted : k < n) => n \in s.log.accepted \cup s.log.reported

Good(s) == /\ s \in State /\ AtHand(s) /\ InTurn(s) /\ RefsTaken(s) /\ Newest(s) /\ Reported(s)
           /\ s.log.header = s.rx.profile
           /\ s.log.asked => s.rx.waiting
           /\ s.log.faults = {}

\* What flushing leaves as it is.
Same(r, s) == /\ r.rx.cur = s.rx.cur /\ r.rx.fp = s.rx.fp /\ r.rx.profile = s.rx.profile
              /\ r.log.units = s.log.units /\ r.log.expected = s.log.expected

LEMMA CorruptKeeps ==
  ASSUME NEW s, Good(s), NEW from, NEW to
  PROVE  LET r == SendCorrupt(s, from, to)
         IN Good(r) /\ Same(r, s) /\ r.rx = s.rx /\ r.log.last = s.log.last
            /\ r.log.accepted = s.log.accepted
            /\ r.log.reported = s.log.reported \cup InRange(from, to)
<1> DEFINE x == s.log.reported \cup InRange(from, to)
           r == SendCorrupt(s, from, to)
<1>1. s \in State BY DEF Good
<1>2. r = [rx |-> s.rx, log |-> [s.log EXCEPT !.reported = x]] BY <1>1 DEF SendCorrupt, State
<1>3. x \in SUBSET Numbers BY <1>1 DEF State, History, InRange, Numbers
<1>4. x = s.log.reported \cup InRange(from, to) OBVIOUS
<1> HIDE DEF r, x
<1>5. /\ r \in State /\ r.rx = s.rx /\ r.log.reported = x /\ r.log.last = s.log.last
      /\ r.log.accepted = s.log.accepted /\ r.log.header = s.log.header
      /\ r.log.asked = s.log.asked /\ r.log.faults = s.log.faults
      /\ r.log.units = s.log.units /\ r.log.expected = s.log.expected
  BY <1>1, <1>2, <1>3 DEF State, History
<1>6. Good(r)
  BY <1>4, <1>5 DEF Good, AtHand, InTurn, Open, RefsTaken, Newest, Reported
<1> QED BY <1>4, <1>5, <1>6 DEF Same, r

LEMMA AskKeeps ==
  ASSUME NEW s, Good(s), NEW e
  PROVE  LET r == AskForIdr(s, e)
         IN Good(r) /\ Same(r, s) /\ r.log.last = s.log.last
<1> DEFINE r == AskForIdr(s, e)
<1>1. s \in State BY DEF Good
<1>2. CASE r = s BY <1>2 DEF Same
<1>3. CASE r = [rx |-> [s.rx EXCEPT !.waiting = TRUE], log |-> [s.log EXCEPT !.asked = TRUE]]
  <2> HIDE DEF r
  <2>1. /\ r.rx.cur = s.rx.cur /\ r.rx.prev = s.rx.prev /\ r.rx.complete = s.rx.complete
        /\ r.rx.refs = s.rx.refs /\ r.rx.waiting = TRUE /\ r.rx.profile = s.rx.profile
        /\ r.rx.fp = s.rx.fp
        /\ r.log.last = s.log.last /\ r.log.accepted = s.log.accepted
        /\ r.log.header = s.log.header /\ r.log.faults = s.log.faults
        /\ r.log.units = s.log.units /\ r.log.expected = s.log.expected
        /\ r.log.reported = s.log.reported
    BY <1>1, <1>3 DEF State, Receiver, History
  <2>2. r \in State BY <1>1, <1>3 DEF State, Receiver, History
  <2>3. Good(r)
    BY <2>1, <2>2 DEF Good, AtHand, InTurn, Open, RefsTaken, Newest, Reported
  <2> QED BY <2>1, <2>3 DEF Same, r
<1>4. r = s \/ r = [rx |-> [s.rx EXCEPT !.waiting = TRUE], log |-> [s.log EXCEPT !.asked = TRUE]]
  BY <1>1 DEF AskForIdr, State
<1> QED BY <1>2, <1>3, <1>4

\* frame_index_prev moves on.
LEMMA CloseKeeps ==
  ASSUME NEW s, Good(s)
  PROVE  LET r == [s EXCEPT !.rx.prev = s.rx.cur]
         IN Good(r) /\ Same(r, s) /\ ~Open(r) /\ r.log = s.log
<1> DEFINE r == [s EXCEPT !.rx.prev = s.rx.cur]
<1>1. s \in State BY DEF Good
<1>2. r = [rx |-> [s.rx EXCEPT !.prev = s.rx.cur], log |-> s.log] BY <1>1 DEF State
<1> HIDE DEF r
<1>3. /\ r.rx.cur = s.rx.cur /\ r.rx.prev = s.rx.cur /\ r.rx.complete = s.rx.complete
      /\ r.rx.refs = s.rx.refs /\ r.rx.waiting = s.rx.waiting /\ r.rx.profile = s.rx.profile
      /\ r.rx.fp = s.rx.fp /\ r.log = s.log
  BY <1>1, <1>2 DEF State, Receiver
<1>4. r \in State BY <1>1, <1>2 DEF State, Receiver
<1>5. Good(r) BY <1>3, <1>4 DEF Good, AtHand, InTurn, Open, RefsTaken, Newest, Reported
<1> QED BY <1>3, <1>5 DEF Same, Open, r

\* What is known of the frame at hand when it is flushed.
Flushing(s) == /\ s.rx.fp.of # NoFrame /\ Open(s)
               /\ FlushPossible(s.rx.fp) => s.log.header = s.rx.fp.of.profile

\* The frame is given whole, for the first time, under its header, with a reference that
\* was taken, and it is not blind.
LEMMA NoFaults ==
  ASSUME NEW s, Good(s), Flushing(s), FlushPossible(s.rx.fp),
         NEW d, d = NoReference \/ s.rx.fp.of.n - d - 1 \in s.log.accepted,
         s.rx.fp.of.slice.type = "P" => ~s.log.asked
  PROVE  Faults(s, d) = {}
<1> DEFINE f == s.rx.fp.of
<1>1. f \in Frame /\ HoldingGood(s.rx.fp) BY DEF Good, AtHand, HoldingGood, Flushing
<1>2. f.shape.src = s.rx.fp.src /\ s.rx.fp.src \in Nat BY <1>1 DEF HoldingGood, Holding, Flushing
<1>3. Cardinality(s.rx.fp.got) \in Nat BY <1>1, <1>2, GotSize DEF HoldingGood, Holding
<1>4. ~(Cardinality(s.rx.fp.got) < f.shape.src) BY <1>2, <1>3 DEF FlushPossible
<1>5. f.n \in Nat /\ s.log.last \in Nat
  BY <1>1, FrameIs, FramesAssumption DEF Good, State, History, Numbers
<1>6. ~(f.n <= s.log.last) BY <1>5 DEF Good, InTurn, Flushing
<1>7. s.log.header = f.profile BY DEF Flushing
<1> HIDE DEF f
<1>8. Faults(s, d) = {k \in {"torn", "again", "header", "reference", "blind"} :
        \/ k = "torn"   /\ Cardinality(s.rx.fp.got) < f.shape.src
        \/ k = "again"  /\ f.n <= s.log.last
        \/ k = "header" /\ s.log.header # f.profile
        \/ k = "reference" /\ d # NoReference /\ f.n - d - 1 \notin s.log.accepted
        \/ k = "blind"  /\ f.slice.type = "P" /\ s.log.asked}
  BY DEF Faults, f
<1>9. (d = NoReference \/ f.n - d - 1 \in s.log.accepted) /\ ~(f.slice.type = "P" /\ s.log.asked)
  BY DEF f
<1> QED BY <1>4, <1>6, <1>7, <1>8, <1>9

LEMMA GivenKeeps ==
  ASSUME NEW s, Good(s), Flushing(s), NEW d, Faults(s, d) = {}
  PROVE  LET r == Given(s, d)
         IN Good(r) /\ Same(r, s) /\ ~Open(r) /\ r.log.accepted = s.log.accepted
            /\ r.rx.refs = s.rx.refs /\ r.log.reported = s.log.reported
<1> DEFINE r == Given(s, d)
           n == s.rx.fp.of.n
<1>1. s \in State BY DEF Good
<1>2. r = [rx |-> [s.rx EXCEPT !.prev = s.rx.cur], log |-> [s.log EXCEPT !.last = n, !.faults = @ \cup {}]]
  BY DEF Given
<1>3. n \in Numbers BY FrameIs DEF Good, AtHand, HoldingGood, Flushing
<1> HIDE DEF r, n
<1>4. /\ r.rx.cur = s.rx.cur /\ r.rx.prev = s.rx.cur /\ r.rx.complete = s.rx.complete
      /\ r.rx.refs = s.rx.refs /\ r.rx.waiting = s.rx.waiting /\ r.rx.profile = s.rx.profile
      /\ r.rx.fp = s.rx.fp
      /\ r.log.last = n /\ r.log.accepted = s.log.accepted
      /\ r.log.header = s.log.header /\ r.log.faults = s.log.faults /\ r.log.asked = s.log.asked
      /\ r.log.units = s.log.units /\ r.log.expected = s.log.expected
      /\ r.log.reported = s.log.reported
  BY <1>1, <1>2 DEF State, Receiver, History
<1>5. r \in State
  <2>1. n \in 0 .. Frames BY <1>3, FramesAssumption DEF Numbers
  <2>2. r = [rx |-> [s.rx EXCEPT !.prev = s.rx.cur], log |-> [s.log EXCEPT !.last = n, !.faults = @]]
    BY <1>1, <1>2 DEF State, History
  <2>3. [s.rx EXCEPT !.prev = s.rx.cur] \in Receiver BY <1>1 DEF State, Receiver
  <2>4. [s.log EXCEPT !.last = n, !.faults = @] \in History BY <1>1, <2>1 DEF State, History
  <2> QED BY <2>2, <2>3, <2>4 DEF State
<1>6. InTurn(r) BY <1>3, <1>4 DEF InTurn, Open, n, Numbers
<1>7. Good(r) BY <1>4, <1>5, <1>6 DEF Good, AtHand, Open, RefsTaken, Newest, Reported
<1> QED BY <1>4, <1>7 DEF Same, Open, r

\* The newest reference comes first, the oldest goes when there is no room.
LEMMA AddRefIs ==
  ASSUME NEW refs \in Seq(SeqNums), NEW x \in SeqNums
  PROVE  LET r == AddRef(refs, x)
         IN r \in Refs
            /\ \A i \in 1 .. Len(r) : r[i] = x \/ \E j \in 1 .. Len(refs) : r[i] = refs[j]
<1> DEFINE t == <<x>> \o refs
           m == IF Len(refs) < RefSlots THEN Len(refs) + 1 ELSE RefSlots
           r == AddRef(refs, x)
<1>1. Len(refs) \in Nat BY LenProperties
<1>2. t \in Seq(SeqNums) /\ Len(t) = 1 + Len(refs)
      /\ \A i \in 1 .. Len(t) : t[i] = IF i = 1 THEN x ELSE refs[i - 1]
  BY <1>1
<1>3. m \in 1 .. Len(t) BY <1>1, <1>2, FramesAssumption
<1>4. r = SubSeq(t, 1, m) BY DEF AddRef
<1> HIDE DEF t, m, r
<1>5. r \in Seq(SeqNums) /\ Len(r) = m /\ \A i \in 1 .. m : r[i] = t[i] BY <1>1, <1>2, <1>3, <1>4
<1>6. ASSUME NEW i \in 1 .. Len(r) PROVE r[i] = x \/ \E j \in 1 .. Len(refs) : r[i] = refs[j]
  <2>1. CASE i = 1 BY <2>1, <1>2, <1>3, <1>5
  <2>2. CASE i # 1
    <3>1. i - 1 \in 1 .. Len(refs) /\ r[i] = refs[i - 1] BY <2>2, <1>1, <1>2, <1>3, <1>5
    <3> QED BY <3>1
  <2> QED BY <2>1, <2>2
<1>7. r \in Refs
  <2>1. m <= RefSlots BY <1>1, FramesAssumption DEF m
  <2> QED BY <1>5, <2>1 DEF Refs
<1> QED BY <1>6, <1>7 DEF r

LEMMA GiveKeeps ==
  ASSUME NEW s, Good(s), Flushing(s), NEW d, Faults(s, d) = {}, NEW e \in Answers
  PROVE  LET r == Give(s, e, d) IN Good(r) /\ Same(r, s) /\ ~Open(r)
<1> DEFINE g == Given(s, d)
           r == Give(s, e, d)
           n == s.rx.fp.of.n
           refs == AddRef(g.rx.refs, s.rx.cur)
           accepted == g.log.accepted \cup {n}
<1>1. /\ Good(g) /\ Same(g, s) /\ ~Open(g) /\ g.log.accepted = s.log.accepted
      /\ g.rx.refs = s.rx.refs /\ g.log.reported = s.log.reported
  BY GivenKeeps
<1>2. CASE ~e.takes
  <2>1. r = g BY <1>2 DEF Give
  <2> HIDE DEF r, g
  <2> QED BY <2>1, <1>1 DEF r
<1>3. CASE e.takes
  <2>1. r = [rx |-> [g.rx EXCEPT !.refs = refs, !.complete = s.rx.cur],
             log |-> [g.log EXCEPT !.accepted = accepted]]
    BY <1>3 DEF Give
  <2>2. g \in State /\ s \in State BY <1>1 DEF Good
  <2>3. n \in Numbers /\ s.rx.cur = IndexOf(n) /\ g.rx.cur = s.rx.cur /\ g.rx.fp = s.rx.fp
        /\ g.rx.prev = g.rx.cur
    BY <1>1, FrameIs DEF Good, AtHand, HoldingGood, Flushing, Same, Open
  <2>4. IndexOf(n) \in SeqNums BY <2>3, IndexType
  <2>5. g.rx.refs \in Seq(SeqNums) BY <2>2 DEF State, Receiver, Refs
  <2>6. refs \in Refs
        /\ \A i \in 1 .. Len(refs) :
             refs[i] = IndexOf(n) \/ \E j \in 1 .. Len(g.rx.refs) : refs[i] = g.rx.refs[j]
    <3> DEFINE old == g.rx.refs
               x   == s.rx.cur
    <3>1. old \in Seq(SeqNums) /\ x \in SeqNums /\ x = IndexOf(n) BY <2>3, <2>4, <2>5
    <3>2. refs = AddRef(old, x) OBVIOUS
    <3> HIDE DEF old, x, refs, n
    <3>3. refs \in Refs /\ \A i \in 1 .. Len(refs) : refs[i] = x \/ \E j \in 1 .. Len(old) : refs[i] = old[j]
      BY <3>1, <3>2, AddRefIs
    <3> QED BY <3>1, <3>3 DEF old
  <2>7. accepted \in SUBSET Numbers BY <2>2, <2>3 DEF State, History
  <2>8. accepted = g.log.accepted \cup {n} OBVIOUS
  <2>9. g.rx.fp.of.n = n BY <2>3
  <2> HIDE DEF r, g, refs, accepted, n
  <2>10. /\ r.rx.cur = g.rx.cur /\ r.rx.prev = g.rx.prev /\ r.rx.complete = IndexOf(n)
         /\ r.rx.refs = refs /\ r.rx.waiting = g.rx.waiting /\ r.rx.profile = g.rx.profile
         /\ r.rx.fp = g.rx.fp
         /\ r.log.last = g.log.last /\ r.log.accepted = accepted
         /\ r.log.header = g.log.header /\ r.log.faults = g.log.faults /\ r.log.asked = g.log.asked
         /\ r.log.units = g.log.units /\ r.log.expected = g.log.expected
         /\ r.log.reported = g.log.reported
    BY <2>1, <2>2, <2>3 DEF State, Receiver, History
  <2>11. r \in State
    <3>1. s.rx.cur \in SeqNums BY <2>3, <2>4
    <3> QED BY <2>1, <2>2, <2>6, <2>7, <3>1 DEF State, Receiver, History
  <2>12. RefsTaken(r)
    <3>1. ASSUME NEW i \in 1 .. Len(refs) PROVE \E k \in accepted : refs[i] = IndexOf(k)
      <4>1. CASE refs[i] = IndexOf(n) BY <4>1, <2>8
      <4>2. CASE \E j \in 1 .. Len(g.rx.refs) : refs[i] = g.rx.refs[j]
        BY <4>2, <1>1, <2>8 DEF Good, RefsTaken
      <4> QED BY <2>6, <4>1, <4>2
    <3> QED BY <3>1, <2>10 DEF RefsTaken
  <2>13. \A k \in accepted : k <= n
    <3>1. ASSUME NEW k \in g.log.accepted PROVE k <= n
      <4>1. PICK c \in g.log.accepted : c <= n /\ k <= c BY <1>1, <2>9 DEF Good, Newest
      <4>2. c \in Nat /\ k \in Nat /\ n \in Nat BY <2>2, <2>3 DEF State, History, Numbers
      <4> QED BY <4>1, <4>2
    <3> QED BY <3>1, <2>3, <2>8 DEF Numbers
  <2>14. Newest(r) BY <2>3, <2>8, <2>9, <2>10, <2>13 DEF Newest, Numbers
  <2>15. Reported(r)
    <3>1. ASSUME NEW m \in 1 .. n - 1, \E k \in accepted : k < m PROVE m \in accepted \cup g.log.reported
      <4>1. PICK k \in accepted : k < m BY <3>1
      <4>2. k # n BY <4>1, <2>3 DEF Numbers
      <4>3. k \in g.log.accepted BY <4>1, <4>2, <2>8
      <4>4. m \in g.log.accepted \cup g.log.reported BY <4>1, <4>3, <1>1, <2>9 DEF Good, Reported
      <4> QED BY <4>4, <2>8
    <3> QED BY <3>1, <2>9, <2>10 DEF Reported
  <2>16. Good(r)
    BY <1>1, <2>10, <2>11, <2>12, <2>14, <2>15 DEF Good, AtHand, InTurn, Open
  <2> QED BY <1>1, <2>10, <2>16 DEF Same, Open, r
<1> QED BY <1>2, <1>3 DEF Answers

\* A reference that is there was taken.
LEMMA HaveIs ==
  ASSUME NEW s, Good(s), Flushing(s), NEW d \in 0 .. RefSlots - 1, HaveRef(s, d)
  PROVE  s.rx.fp.of.n - d - 1 \in s.log.accepted
<1> DEFINE n == s.rx.fp.of.n
<1>1. n \in Numbers /\ s.rx.cur = IndexOf(n)
  BY FrameIs DEF Good, AtHand, HoldingGood, Flushing
<1>2. s.rx.refs \in Seq(SeqNums) /\ s.log.accepted \subseteq Numbers
  BY DEF Good, State, Receiver, History, Refs
<1>3. PICK i \in DOMAIN s.rx.refs : s.rx.refs[i] = RefIndex(s, d)
  BY DEF HaveRef, Seqs!ToSet
<1>4. i \in 1 .. Len(s.rx.refs) BY <1>2, <1>3
<1>5. PICK k \in s.log.accepted : IndexOf(k) = RefIndex(s, d)
  BY <1>3, <1>4 DEF Good, RefsTaken
<1>6. SeqAdd(IndexOf(n), SeqMod - ((d + 1) % SeqMod)) = IndexOf(k) BY <1>1, <1>5 DEF RefIndex
<1>7. k = n - d - 1
  <2> k \in Numbers BY <1>2
  <2> HIDE DEF n
  <2> QED BY <1>1, <1>6, DistanceIs
<1> QED BY <1>7

LEMMA FlushKeeps ==
  ASSUME NEW s, Good(s), Flushing(s), NEW e \in Answers
  PROVE  LET r == FlushFrame(s, e) IN Good(r) /\ Same(r, s) /\ ~Open(r)
<1> DEFINE f == s.rx.fp.of
           r == FlushFrame(s, e)
<1>1. f \in Frame /\ HoldingGood(s.rx.fp) /\ s \in State
  BY DEF Good, AtHand, HoldingGood, Flushing
<1>2. /\ FlushPossible(s.rx.fp) => FlushResult(s.rx.fp) \in {"success", "fec_success"}
      /\ ~FlushPossible(s.rx.fp) => FlushResult(s.rx.fp) = "fec_failed"
  BY <1>1, ResultIs DEF Flushing
<1>3. CASE ~FlushPossible(s.rx.fp)
  <2> DEFINE c == SendCorrupt(s, Expected(s), s.rx.cur)
             a == AskForIdr(c, e)
  <2>1. Good(c) /\ Same(c, s) BY CorruptKeeps
  <2> HIDE DEF c
  <2>2. Good(a) /\ Same(a, c) BY <2>1, AskKeeps
  <2> HIDE DEF a
  <2> DEFINE b == [a EXCEPT !.rx.prev = a.rx.cur]
  <2>3. Good(b) /\ Same(b, a) /\ ~Open(b) BY <2>2, CloseKeeps
  <2>4. r = b BY <1>2, <1>3, <2>1, <2>2 DEF FlushFrame, FecFailed, Same, a, c
  <2> HIDE DEF b, r
  <2>5. Same(b, s) BY <2>1, <2>2, <2>3 DEF Same
  <2> QED BY <2>3, <2>4, <2>5 DEF r
<1>4. CASE FlushPossible(s.rx.fp) /\ f.slice.type = "unknown"
  <2>1. r = Give(s, e, NoReference) BY <1>2, <1>4 DEF FlushFrame
  <2>2. Faults(s, NoReference) = {} BY <1>4, NoFaults
  <2> QED BY <2>1, <2>2, GiveKeeps
<1>5. CASE FlushPossible(s.rx.fp) /\ f.slice.type = "I"
  <2> DEFINE c == [rx |-> [s.rx EXCEPT !.waiting = FALSE], log |-> [s.log EXCEPT !.asked = FALSE]]
  <2>1. r = Give(c, e, NoReference) BY <1>2, <1>5 DEF FlushFrame
  <2>2. c = [rx |-> [s.rx EXCEPT !.waiting = FALSE], log |-> [s.log EXCEPT !.asked = FALSE]]
    OBVIOUS
  <2> HIDE DEF c
  <2>3. /\ c.rx.cur = s.rx.cur /\ c.rx.prev = s.rx.prev /\ c.rx.complete = s.rx.complete
        /\ c.rx.refs = s.rx.refs /\ c.rx.waiting = FALSE /\ c.rx.profile = s.rx.profile
        /\ c.rx.fp = s.rx.fp
        /\ c.log.last = s.log.last /\ c.log.accepted = s.log.accepted
        /\ c.log.header = s.log.header /\ c.log.faults = s.log.faults /\ c.log.asked = FALSE
        /\ c.log.units = s.log.units /\ c.log.expected = s.log.expected
        /\ c.log.reported = s.log.reported
    BY <1>1, <2>2 DEF State, Receiver, History
  <2>4. c \in State BY <1>1, <2>2 DEF State, Receiver, History
  <2>5. Good(c)
    BY <2>3, <2>4 DEF Good, AtHand, InTurn, Open, RefsTaken, Newest, Reported
  <2>6. Flushing(c) /\ Same(c, s) BY <2>3 DEF Flushing, Open, Same
  <2>7. FlushPossible(c.rx.fp) /\ c.rx.fp.of.slice.type = "I" BY <1>5, <2>3
  <2>8. Faults(c, NoReference) = {}
    <3>1. ~(c.rx.fp.of.slice.type = "P") BY <2>7
    <3> QED BY <2>5, <2>6, <2>7, <3>1, NoFaults
  <2> DEFINE g == Give(c, e, NoReference)
  <2>9. Good(g) /\ Same(g, c) /\ ~Open(g) BY <2>5, <2>6, <2>8, GiveKeeps
  <2> HIDE DEF g
  <2>10. Same(g, s) BY <2>6, <2>9 DEF Same
  <2> QED BY <2>1, <2>9, <2>10 DEF g
<1> DEFINE up == [s EXCEPT !.rx.prev = s.rx.cur]
<1>6. Good(up) /\ Same(up, s) /\ ~Open(up) BY CloseKeeps
<1>7. CASE FlushPossible(s.rx.fp) /\ f.slice.type = "P" /\ s.rx.waiting
  <2>1. r = up BY <1>2, <1>7 DEF FlushFrame, GiveUp
  <2> QED BY <1>6, <2>1
<1>8. CASE FlushPossible(s.rx.fp) /\ f.slice.type = "P" /\ ~s.rx.waiting
  <2> DEFINE ref == f.slice.ref
  <2>1. ~s.log.asked BY <1>8 DEF Good
  <2>2. r = FlushP(s, e) BY <1>2, <1>8 DEF FlushFrame
  <2>3. ref \in 0 .. RefSlots - 1 \cup {NoReference} BY <1>1, FrameIs, FramesAssumption
  <2>4. CASE ref = NoReference
    <3>1. r = Give(s, e, NoReference) BY <2>2, <2>4 DEF FlushP
    <3>2. Faults(s, NoReference) = {} BY <1>8, <2>1, NoFaults
    <3> QED BY <3>1, <3>2, GiveKeeps
  <2>5. CASE ref # NoReference /\ HaveRef(s, ref)
    <3>1. r = Give(s, e, ref) BY <2>2, <2>5 DEF FlushP
    <3>2. f.n - ref - 1 \in s.log.accepted BY <2>3, <2>5, HaveIs
    <3>3. Faults(s, ref) = {} BY <1>8, <2>1, <3>2, NoFaults
    <3> QED BY <3>1, <3>3, GiveKeeps
  <2>6. CASE ~(ref = NoReference \/ HaveRef(s, ref)) /\ e.rewrite /\ Substitutes(s) # {}
    <3> DEFINE i == CHOOSE i \in Substitutes(s) : TRUE
    <3>1. r = Give(s, e, i) BY <2>2, <2>6 DEF FlushP
    <3>2. i \in Substitutes(s) BY <2>6
    <3> HIDE DEF i
    <3>3. i \in ref + 1 .. RefSlots - 1 /\ HaveRef(s, i) BY <3>2 DEF Substitutes
    <3>6. i \in 0 .. RefSlots - 1
      <4> HIDE DEF ref
      <4> QED BY <2>3, <2>6, <3>3, FramesAssumption
    <3>4. f.n - i - 1 \in s.log.accepted BY <3>3, <3>6, HaveIs
    <3>5. Faults(s, i) = {} BY <1>8, <2>1, <3>4, NoFaults
    <3> QED BY <3>1, <3>5, GiveKeeps
  <2>7. CASE ~(ref = NoReference \/ HaveRef(s, ref)) /\ ~(e.rewrite /\ Substitutes(s) # {})
    <3>1. r = up BY <2>2, <2>7 DEF FlushP, GiveUp
    <3> QED BY <1>6, <3>1
  <2> QED BY <2>4, <2>5, <2>6, <2>7
<1>9. f.slice.type \in {"I", "P", "unknown"} BY <1>1, FrameIs DEF Slices
<1> QED BY <1>3, <1>4, <1>5, <1>7, <1>8, <1>9

-----------------------------------------------------------------------------
(* av_packet *)

LEMMA SwitchKeeps ==
  ASSUME NEW s, Good(s), NEW p \in Profiles
  PROVE  LET r == SwitchProfile(s, p)
         IN /\ Good(r) /\ r.log.header = p
            /\ r.rx.cur = s.rx.cur /\ r.rx.prev = s.rx.prev /\ r.rx.fp = s.rx.fp
            /\ r.log.units = s.log.units /\ r.log.expected = s.log.expected
<1> DEFINE r == SwitchProfile(s, p)
<1>1. s \in State /\ s.log.header = s.rx.profile BY DEF Good
<1>2. CASE s.rx.profile = p BY <1>1, <1>2 DEF SwitchProfile
<1>3. CASE s.rx.profile # p
  <2>1. r = [rx |-> [s.rx EXCEPT !.profile = p], log |-> [s.log EXCEPT !.header = p]]
    BY <1>3 DEF SwitchProfile
  <2> HIDE DEF r
  <2>2. /\ r.rx.cur = s.rx.cur /\ r.rx.prev = s.rx.prev /\ r.rx.complete = s.rx.complete
        /\ r.rx.refs = s.rx.refs /\ r.rx.waiting = s.rx.waiting /\ r.rx.profile = p
        /\ r.rx.fp = s.rx.fp
        /\ r.log.last = s.log.last /\ r.log.accepted = s.log.accepted
        /\ r.log.header = p /\ r.log.faults = s.log.faults /\ r.log.asked = s.log.asked
        /\ r.log.units = s.log.units /\ r.log.expected = s.log.expected
        /\ r.log.reported = s.log.reported
    BY <1>1, <2>1 DEF State, Receiver, History
  <2>3. r \in State
    <3>1. p \in Profiled BY DEF Profiled
    <3>2. [s.rx EXCEPT !.profile = p] \in Receiver BY <1>1, <3>1 DEF State, Receiver
    <3>3. [s.log EXCEPT !.header = p] \in History BY <1>1, <3>1 DEF State, History
    <3> QED BY <2>1, <3>2, <3>3 DEF State
  <2>4. Good(r) BY <2>2, <2>3 DEF Good, AtHand, InTurn, Open, RefsTaken, Newest, Reported
  <2> QED BY <2>2, <2>4 DEF r
<1> QED BY <1>2, <1>3

\* A frame that is still to be flushed cannot be decoded.
Idle(s) == s.rx.fp.of # NoFrame /\ Open(s) => ~FlushPossible(s.rx.fp)

LEMMA NewestBefore ==
  ASSUME NEW s, Good(s)
  PROVE  /\ s.log.accepted \subseteq Numbers /\ s.log.reported \subseteq Numbers
         /\ s.rx.fp.of.n \in 0 .. Frames
         /\ s.log.accepted # {} => s.rx.fp.of # NoFrame
<1>1. s \in State BY DEF Good
<1>2. s.log.accepted \subseteq Numbers /\ s.log.reported \subseteq Numbers
  BY <1>1 DEF State, History
<1>3. s.rx.fp.of.n \in 0 .. Frames
  <2>1. s.rx.fp.of \in Frame \cup {NoFrame} BY <1>1 DEF State, Receiver, Holding
  <2>2. CASE s.rx.fp.of \in Frame BY <2>2, FrameIs, FramesAssumption DEF Numbers
  <2>3. CASE s.rx.fp.of = NoFrame BY <2>3, FramesAssumption DEF NoFrame
  <2> QED BY <2>1, <2>2, <2>3
<1>4. ASSUME s.log.accepted # {}, s.rx.fp.of = NoFrame PROVE FALSE
  <2>1. PICK c \in s.log.accepted : c <= s.rx.fp.of.n BY <1>4 DEF Good, Newest
  <2> QED BY <1>2, <1>4, <2>1 DEF NoFrame, Numbers
<1> QED BY <1>2, <1>3, <1>4

\* What is missing before the frame m is reported.
LEMMA MissingKeeps ==
  ASSUME NEW s, Good(s), NEW m \in Numbers, s.rx.fp.of.n < m
  PROVE  LET r == ReportMissing(s, IndexOf(m))
         IN /\ Good(r) /\ Same(r, s) /\ r.rx = s.rx /\ r.log.last = s.log.last
            /\ r.log.accepted = s.log.accepted
            /\ \A n \in 1 .. m - 1 :
                 (\E k \in s.log.accepted : k < n) => n \in s.log.accepted \cup r.log.reported
<1> DEFINE index == IndexOf(m)
           from  == Expected(s)
           to    == SeqAdd(index, SeqMod - 1)
           c     == SendCorrupt(s, from, to)
           r     == ReportMissing(s, index)
           reports == SeqGt(index, from) /\ ~(index = 1 /\ s.rx.cur = None)
<1>1. /\ Good(c) /\ Same(c, s) /\ c.rx = s.rx /\ c.log.last = s.log.last
      /\ c.log.accepted = s.log.accepted
      /\ c.log.reported = s.log.reported \cup InRange(from, to)
  BY CorruptKeeps
<1>2. r = IF reports THEN c ELSE s BY DEF ReportMissing
<1> DEFINE old == s.rx.fp.of.n
<1>4. /\ s.log.accepted \subseteq Numbers /\ s.log.reported \subseteq Numbers
      /\ old \in 0 .. Frames
      /\ s.log.accepted # {} => s.rx.cur # None
  BY NewestBefore DEF Good, AtHand
<1>5. ASSUME NEW n \in 1 .. m - 1, NEW k \in s.log.accepted, k < n
      PROVE  n \in s.log.accepted \cup r.log.reported
  <2>1. PICK a \in s.log.accepted : /\ s.rx.complete = IndexOf(a) /\ a <= old
                                    /\ \A j \in s.log.accepted : j <= a
    BY <1>5 DEF Good, Newest
  <2>2. a \in Numbers /\ a < m BY <1>4, <2>1 DEF Numbers
  <2>3. from = IndexOf(a + 1) /\ to = IndexOf(m - 1) /\ (SeqGt(index, from) <=> a + 1 < m)
    BY <2>1, <2>2, IndexNext DEF Expected
  <2>4. s.log.reported \subseteq r.log.reported BY <1>1, <1>2
  <2>5. n \in Nat /\ a \in Nat /\ m \in Nat /\ old \in Nat /\ m <= Frames
    BY <1>4, <2>2, FramesAssumption DEF Numbers
  <2>6. CASE n = a BY <2>1, <2>6
  <2>7. CASE n < a
    <3>1. n \in 1 .. old - 1
      <4> HIDE DEF old
      <4> QED BY <2>1, <2>5, <2>7
    <3> QED BY <1>5, <2>4, <3>1 DEF Good, Reported
  <2>8. CASE n > a
    <3>1. a + 1 \in Numbers /\ m - 1 \in Numbers /\ n \in a + 1 .. m - 1 /\ a + 1 < m
      <4>1. n <= m - 1 BY <2>5
      <4>2. a \in 1 .. Frames BY <2>2 DEF Numbers
      <4> QED BY <2>5, <2>8, <4>1, <4>2, FramesAssumption DEF Numbers
    <3>2. n \in InRange(from, to)
      <4> HIDE DEF from, to
      <4> QED BY <2>3, <3>1, RangeIs
    <3>3. s.rx.cur # None BY <1>4, <1>5
    <3>4. reports BY <2>3, <3>1, <3>3
    <3> QED BY <1>1, <1>2, <3>2, <3>4
  <2> QED BY <2>5, <2>6, <2>7, <2>8
<1>6. Good(r) /\ Same(r, s) /\ r.rx = s.rx /\ r.log.last = s.log.last
      /\ r.log.accepted = s.log.accepted
  BY <1>1, <1>2 DEF Same
<1> QED BY <1>5, <1>6

LEMMA AllocIs ==
  ASSUME NEW f \in Frame
  PROVE  /\ HoldingGood(AllocFrame(f)) /\ AllocFrame(f).of = f /\ AllocFrame(f).got = {}
         /\ UnitsOf(f) <= AllocFrame(f).src + AllocFrame(f).fec
         /\ AllocFrame(f).src \in Nat \ {0} /\ AllocFrame(f).fec \in Nat
<1> DEFINE fec == IF f.shape.fec < 1 THEN 1 ELSE f.shape.fec
           fp  == AllocFrame(f)
<1>1. f.shape.src \in Nat \ {0} /\ f.shape.fec \in Nat /\ f # NoFrame BY FrameIs
<1>2. fp = [of |-> f, src |-> f.shape.src, fec |-> fec, got |-> {}] BY DEF AllocFrame
<1>3. fec \in Nat /\ f.shape.fec <= fec BY <1>1
<1>4. fp \in Holding BY <1>1, <1>2, <1>3 DEF Holding
<1>5. HoldingGood(fp) BY <1>1, <1>2, <1>4 DEF HoldingGood
<1> QED BY <1>1, <1>2, <1>3, <1>5 DEF UnitsOf

LEMMA StartKeeps ==
  ASSUME NEW s, Good(s), Idle(s), NEW e \in Answers, NEW f \in Frame, s.rx.fp.of.n < f.n,
         s.log.header = f.profile
  PROVE  LET r == StartFrame(s, f, e)
         IN /\ Good(r) /\ r.rx.cur = IndexOf(f.n) /\ r.rx.fp = AllocFrame(f)
            /\ r.log.header = f.profile /\ r.log.units = s.log.units
            /\ r.log.expected = s.log.expected + AllocFrame(f).src + AllocFrame(f).fec
<1> DEFINE a  == IF s.rx.cur # None /\ s.rx.prev # s.rx.cur THEN FlushFrame(s, e) ELSE s
           m  == f.n
           b  == ReportMissing(a, IndexOf(m))
           fp == AllocFrame(f)
           r  == StartFrame(s, f, e)
           x  == b.log.expected + fp.src + fp.fec
<1>1. Good(a) /\ Same(a, s)
  <2>1. CASE s.rx.cur # None /\ s.rx.prev # s.rx.cur
    <3>1. Flushing(s) BY <2>1 DEF Flushing, Good, AtHand, Idle, Open
    <3> QED BY <2>1, <3>1, FlushKeeps
  <2>2. CASE ~(s.rx.cur # None /\ s.rx.prev # s.rx.cur) BY <2>2 DEF Same
  <2> QED BY <2>1, <2>2
<1>2. m \in Numbers /\ f # NoFrame BY FrameIs
<1>3. a.rx.fp.of.n < m BY <1>1 DEF Same
<1> HIDE DEF a
<1>4. /\ Good(b) /\ Same(b, a) /\ b.rx = a.rx /\ b.log.last = a.log.last
      /\ b.log.accepted = a.log.accepted
      /\ \A n \in 1 .. m - 1 :
           (\E k \in a.log.accepted : k < n) => n \in a.log.accepted \cup b.log.reported
  <2> HIDE DEF m
  <2> QED BY <1>1, <1>2, <1>3, MissingKeeps
<1>5. HoldingGood(fp) /\ fp.of = f /\ fp.got = {} /\ fp.src \in Nat /\ fp.fec \in Nat BY AllocIs
<1>6. r = [rx |-> [b.rx EXCEPT !.cur = IndexOf(m), !.fp = fp],
           log |-> [b.log EXCEPT !.expected = x]]
  BY DEF StartFrame, a
<1>7. b \in State BY <1>4 DEF Good
<1>8. b.log.expected \in Int BY <1>7 DEF State, History
<1>9. x \in Int BY <1>5, <1>8
<1>10. IndexOf(m) \in SeqNums
  <2> HIDE DEF m
  <2> QED BY <1>2, IndexType
<1>16. s.log.header = b.log.header BY <1>1, <1>4 DEF Same, Good
<1>17. x = s.log.expected + fp.src + fp.fec /\ b.log.units = s.log.units BY <1>1, <1>4 DEF Same
<1>18. fp = AllocFrame(f) OBVIOUS
<1> HIDE DEF b, r, fp, x
<1>11. /\ r.rx.cur = IndexOf(m) /\ r.rx.prev = b.rx.prev /\ r.rx.complete = b.rx.complete
       /\ r.rx.refs = b.rx.refs /\ r.rx.waiting = b.rx.waiting /\ r.rx.profile = b.rx.profile
       /\ r.rx.fp = fp
       /\ r.log.last = b.log.last /\ r.log.accepted = b.log.accepted
       /\ r.log.header = b.log.header /\ r.log.faults = b.log.faults /\ r.log.asked = b.log.asked
       /\ r.log.units = b.log.units /\ r.log.expected = x
       /\ r.log.reported = b.log.reported
  BY <1>6, <1>7 DEF State, Receiver, History
<1>12. r \in State
  <2>1. fp \in Holding BY <1>5 DEF HoldingGood
  <2>2. IndexOf(m) \in Indices BY <1>10 DEF Indices
  <2>3. [b.rx EXCEPT !.cur = IndexOf(m), !.fp = fp] \in Receiver
    BY <1>7, <2>1, <2>2 DEF State, Receiver
  <2>4. [b.log EXCEPT !.expected = x] \in History BY <1>7, <1>9 DEF State, History
  <2> QED BY <1>6, <2>3, <2>4 DEF State
<1>13. AtHand(r)
  <2>1. IndexOf(m) # None BY <1>10, SeqHalfAssumption DEF SeqNums, None
  <2> QED BY <1>2, <1>5, <1>11, <2>1 DEF AtHand
<1> DEFINE old == b.rx.fp.of.n
<1>14. old \in Nat /\ old < m /\ m \in Nat /\ b.log.last \in Nat /\ b.log.accepted \subseteq Nat
  BY <1>2, <1>3, <1>4, <1>7, NewestBefore, FramesAssumption DEF State, History, Numbers
<1>15. InTurn(r) /\ Newest(r)
  <2>1. r.rx.fp.of.n = m BY <1>5, <1>11
  <2>2. b.log.last < m
    <3>1. b.log.last <= old BY <1>4 DEF Good, InTurn
    <3> HIDE DEF old, m
    <3> QED BY <1>14, <3>1
  <2>3. InTurn(r) BY <1>11, <1>14, <2>1, <2>2 DEF InTurn
  <2>4. ASSUME r.log.accepted # {}
        PROVE  \E c \in r.log.accepted : /\ r.rx.complete = IndexOf(c) /\ c <= m
                                         /\ \A k \in r.log.accepted : k <= c
    <3>1. PICK c \in b.log.accepted : /\ b.rx.complete = IndexOf(c) /\ c <= old
                                      /\ \A k \in b.log.accepted : k <= c
      BY <1>4, <1>11, <2>4 DEF Good, Newest
    <3>2. c <= m
      <4> HIDE DEF old, m
      <4> QED BY <1>14, <3>1
    <3> QED BY <1>11, <3>1, <3>2
  <2>5. Newest(r) BY <2>1, <2>4 DEF Newest
  <2> QED BY <2>3, <2>5
<1>19. Reported(r) /\ RefsTaken(r)
  <2>1. r.rx.fp.of.n = m BY <1>5, <1>11
  <2>2. Reported(r) BY <1>4, <1>11, <2>1 DEF Reported
  <2>3. RefsTaken(r) BY <1>4, <1>11 DEF Good, RefsTaken
  <2> QED BY <2>2, <2>3
<1>20. Good(r) BY <1>4, <1>11, <1>12, <1>13, <1>15, <1>19 DEF Good
<1> QED BY <1>11, <1>16, <1>17, <1>18, <1>20 DEF r, m

LEMMA PutKeeps ==
  ASSUME NEW s, Good(s), s.rx.fp.of # NoFrame, NEW u \in 0 .. UnitsOf(s.rx.fp.of) - 1
  PROVE  LET r == [rx |-> [s.rx EXCEPT !.fp = PutUnit(@, u)], log |-> [s.log EXCEPT !.units = @ + 1]]
         IN /\ Good(r) /\ r.rx.cur = s.rx.cur /\ r.rx.fp = PutUnit(s.rx.fp, u)
            /\ r.rx.fp.of = s.rx.fp.of
            /\ r.log.header = s.log.header /\ r.log.units = s.log.units + 1
            /\ r.log.expected = s.log.expected
<1> DEFINE fp  == s.rx.fp
           p   == PutUnit(fp, u)
           got == fp.got \cup {u}
           x   == s.log.units + 1
           r   == [rx |-> [s.rx EXCEPT !.fp = p], log |-> [s.log EXCEPT !.units = x]]
<1>1. s \in State /\ HoldingGood(fp) BY DEF Good, AtHand
<1>2. p = [fp EXCEPT !.got = got] BY DEF PutUnit
<1>3. fp.of \in Frame /\ fp.src \in Nat /\ fp.fec \in Nat /\ fp.of.shape.fec \in Nat
      /\ fp.src = fp.of.shape.src /\ fp.fec >= fp.of.shape.fec
  BY <1>1, FrameIs DEF HoldingGood, Holding
<1>4. got \subseteq 0 .. fp.src + fp.fec - 1 /\ got \subseteq Nat
  <2>1. fp.got \subseteq 0 .. fp.src + fp.fec - 1 BY <1>1 DEF HoldingGood
  <2>2. u \in 0 .. fp.src + fp.fec - 1 BY <1>3 DEF UnitsOf
  <2> QED BY <2>1, <2>2
<1>5. /\ p.of = fp.of /\ p.src = fp.src /\ p.fec = fp.fec /\ p.got = got /\ p \in Holding
  <2> HIDE DEF got, p, fp
  <2>1. fp \in Holding BY <1>1 DEF HoldingGood
  <2> QED BY <1>2, <1>4, <2>1 DEF Holding
<1>6. HoldingGood(p) BY <1>1, <1>4, <1>5 DEF HoldingGood
<1>7. x \in Int BY <1>1 DEF State, History
<1> HIDE DEF p, x
<1>8. /\ r.rx.cur = s.rx.cur /\ r.rx.prev = s.rx.prev /\ r.rx.complete = s.rx.complete
      /\ r.rx.refs = s.rx.refs /\ r.rx.waiting = s.rx.waiting /\ r.rx.profile = s.rx.profile
      /\ r.rx.fp = p
      /\ r.log.last = s.log.last /\ r.log.accepted = s.log.accepted
      /\ r.log.header = s.log.header /\ r.log.faults = s.log.faults /\ r.log.asked = s.log.asked
      /\ r.log.units = x /\ r.log.expected = s.log.expected
      /\ r.log.reported = s.log.reported
  BY <1>1 DEF State, Receiver, History
<1>9. r \in State
  <2>1. [s.rx EXCEPT !.fp = p] \in Receiver BY <1>1, <1>5 DEF State, Receiver
  <2>2. [s.log EXCEPT !.units = x] \in History BY <1>1, <1>7 DEF State, History
  <2> QED BY <2>1, <2>2 DEF State
<1> DEFINE q == r
<1>10. q = r OBVIOUS
<1> HIDE DEF r
<1>11. Good(r)
  <2> HIDE DEF q
  <2>1. r.rx.fp.of = s.rx.fp.of BY <1>5, <1>8
  <2> QED BY <1>1, <1>6, <1>8, <1>9, <2>1 DEF Good, AtHand, InTurn, Open, RefsTaken, Newest, Reported
<1> QED BY <1>5, <1>8, <1>11 DEF r, p, x

\* Which packets start a frame: those of a later frame than the one at hand.
LEMMA NextIs ==
  ASSUME NEW s, Good(s), NEW m \in Numbers
  PROVE  IsNext(s, IndexOf(m)) <=> s.rx.fp.of.n < m
<1>1. CASE s.rx.fp.of = NoFrame
  <2>1. s.rx.cur = None BY <1>1 DEF Good, AtHand
  <2> QED BY <1>1, <2>1 DEF IsNext, NoFrame, Numbers
<1>2. CASE s.rx.fp.of # NoFrame
  <2>1. s.rx.fp.of.n \in Numbers /\ s.rx.cur = IndexOf(s.rx.fp.of.n) /\ s.rx.cur # None
    BY <1>2, FrameIs DEF Good, AtHand, HoldingGood
  <2>2. SeqGt(IndexOf(m), IndexOf(s.rx.fp.of.n)) <=> m > s.rx.fp.of.n BY <2>1, IndexOrder
  <2> QED BY <2>1, <2>2 DEF IsNext, Numbers
<1> QED BY <1>1, <1>2

LEMMA PacketKeeps ==
  ASSUME NEW s, Good(s), Idle(s), NEW f \in Frame, NEW u \in 0 .. UnitsOf(f) - 1,
         s.rx.fp.of.n <= f.n, s.rx.fp.of.n = f.n => s.rx.fp.of = f,
         NEW e1 \in Answers, NEW e2 \in Answers
  PROVE  LET r == AvPacket(s, f, u, e1, e2)
         IN /\ Good(r) /\ Idle(r)
            /\ f.profile = BadProfile => r = s
            /\ f.profile # BadProfile /\ s.rx.fp.of.n < f.n =>
                 /\ r.rx.fp = PutUnit(AllocFrame(f), u) /\ r.log.units = s.log.units + 1
                 /\ r.log.expected = s.log.expected + AllocFrame(f).src + AllocFrame(f).fec
            /\ f.profile # BadProfile /\ s.rx.fp.of.n = f.n =>
                 /\ r.rx.fp = PutUnit(s.rx.fp, u) /\ r.log.units = s.log.units + 1
                 /\ r.log.expected = s.log.expected
<1> DEFINE a == SwitchProfile(s, f.profile)
           b == IF IsNext(a, IndexOf(f.n)) THEN StartFrame(a, f, e1) ELSE a
           c == [rx |-> [b.rx EXCEPT !.fp = PutUnit(@, u)], log |-> [b.log EXCEPT !.units = @ + 1]]
           r == AvPacket(s, f, u, e1, e2)
           n == s.rx.fp.of.n
<1>1. f.n \in Numbers /\ n \in 0 .. Frames /\ f.n \in Nat /\ n \in Nat /\ f # NoFrame
      /\ f.profile \in Profiles \cup {BadProfile}
  BY FrameIs, NewestBefore, FramesAssumption DEF Numbers
<1>2. CASE f.profile = BadProfile
  <2>1. r = s BY <1>2 DEF AvPacket
  <2> QED BY <1>2, <2>1
<1>3. CASE f.profile # BadProfile
  <2>1. ~(s.rx.cur # None /\ SeqLt(IndexOf(f.n), s.rx.cur))
    <3>1. ASSUME s.rx.cur # None, SeqLt(IndexOf(f.n), s.rx.cur) PROVE FALSE
      <4>1. n \in Numbers /\ s.rx.cur = IndexOf(n)
        BY <3>1, FrameIs DEF Good, AtHand, HoldingGood
      <4>2. SeqLt(IndexOf(f.n), IndexOf(n)) <=> f.n < n
        <5> DEFINE m == f.n
        <5>1. m \in Numbers BY <1>1
        <5> HIDE DEF m, n
        <5>2. SeqLt(IndexOf(m), IndexOf(n)) <=> m < n BY <4>1, <5>1, IndexOrder
        <5> QED BY <5>2 DEF m
      <4> QED BY <1>1, <3>1, <4>1, <4>2
    <3> QED BY <3>1
  <2>2. r = IF c.rx.cur # c.rx.prev /\ (FlushPossible(c.rx.fp) \/ u = UnitsOf(f) - 1)
            THEN FlushFrame(c, e2) ELSE c
    BY <1>3, <2>1 DEF AvPacket
  <2> HIDE DEF r
  <2>3. /\ Good(a) /\ a.log.header = f.profile
        /\ a.rx.cur = s.rx.cur /\ a.rx.prev = s.rx.prev /\ a.rx.fp = s.rx.fp
        /\ a.log.units = s.log.units /\ a.log.expected = s.log.expected
    BY <1>1, <1>3, SwitchKeeps
  <2> HIDE DEF a
  <2>4. Idle(a) BY <2>3 DEF Idle, Open
  <2>5. IsNext(a, IndexOf(f.n)) <=> n < f.n
    <3> DEFINE m == f.n
    <3>1. m \in Numbers BY <1>1
    <3> HIDE DEF m
    <3>2. IsNext(a, IndexOf(m)) <=> a.rx.fp.of.n < m BY <2>3, <3>1, NextIs
    <3> QED BY <2>3, <3>2 DEF m
  <2>6. /\ Good(b) /\ b.rx.fp.of = f /\ b.log.header = f.profile
        /\ b.log.units = s.log.units
        /\ n < f.n => /\ b.rx.fp = AllocFrame(f)
                      /\ b.log.expected = s.log.expected + AllocFrame(f).src + AllocFrame(f).fec
        /\ n = f.n => b.rx.fp = s.rx.fp /\ b.log.expected = s.log.expected
    <3>1. CASE n < f.n
      <4>1. b = StartFrame(a, f, e1) BY <2>5, <3>1
      <4>2. /\ Good(b) /\ b.rx.fp = AllocFrame(f)
            /\ b.log.header = f.profile /\ b.log.units = a.log.units
            /\ b.log.expected = a.log.expected + AllocFrame(f).src + AllocFrame(f).fec
        <5>1. a.rx.fp.of.n < f.n BY <2>3, <3>1
        <5> HIDE DEF b
        <5> QED BY <2>3, <2>4, <4>1, <5>1, StartKeeps
      <4>3. AllocFrame(f).of = f BY AllocIs
      <4> HIDE DEF b, n
      <4> QED BY <1>1, <2>3, <3>1, <4>2, <4>3
    <3>2. CASE n = f.n
      <4>1. b = a BY <1>1, <2>5, <3>2
      <4>2. s.rx.fp.of = f BY <3>2
      <4> HIDE DEF b
      <4>3. ~(n < f.n) BY <1>1, <3>2
      <4> QED BY <2>3, <4>1, <4>2, <4>3
    <3> HIDE DEF b
    <3> QED BY <1>1, <3>1, <3>2
  <2> HIDE DEF b
  <2>7. /\ Good(c) /\ c.rx.fp = PutUnit(b.rx.fp, u) /\ c.rx.fp.of = f
        /\ c.log.header = f.profile /\ c.log.units = s.log.units + 1
        /\ c.log.expected = b.log.expected
    <3>1. b.rx.fp.of # NoFrame BY <1>1, <2>6
    <3>2. u \in 0 .. UnitsOf(b.rx.fp.of) - 1 BY <2>6
    <3> QED BY <2>6, <3>1, <3>2, PutKeeps
  <2> HIDE DEF c
  <2>8. Good(r) /\ Idle(r) /\ r.rx.fp = c.rx.fp /\ r.log.units = c.log.units
        /\ r.log.expected = c.log.expected
    <3>1. CASE c.rx.cur # c.rx.prev /\ (FlushPossible(c.rx.fp) \/ u = UnitsOf(f) - 1)
      <4>1. Flushing(c) BY <1>1, <2>7, <3>1 DEF Flushing, Open
      <4>2. r = FlushFrame(c, e2) BY <2>2, <3>1
      <4>3. Good(r) /\ Same(r, c) /\ ~Open(r) BY <2>7, <4>1, <4>2, FlushKeeps
      <4> QED BY <4>3 DEF Same, Idle
    <3>2. CASE ~(c.rx.cur # c.rx.prev /\ (FlushPossible(c.rx.fp) \/ u = UnitsOf(f) - 1))
      <4>1. r = c BY <2>2, <3>2
      <4> QED BY <2>7, <3>2, <4>1 DEF Idle, Open
    <3> QED BY <3>1, <3>2
  <2>9. n < f.n \/ n = f.n BY <1>1
  <2> HIDE DEF n
  <2>10. /\ n < f.n => /\ r.rx.fp = PutUnit(AllocFrame(f), u) /\ r.log.units = s.log.units + 1
                       /\ r.log.expected = s.log.expected + AllocFrame(f).src + AllocFrame(f).fec
         /\ n = f.n => /\ r.rx.fp = PutUnit(s.rx.fp, u) /\ r.log.units = s.log.units + 1
                       /\ r.log.expected = s.log.expected
    BY <2>6, <2>7, <2>8
  <2> QED BY <1>3, <2>8, <2>10 DEF r, n
<1> QED BY <1>2, <1>3

-----------------------------------------------------------------------------
(* The specification *)

At == [rx |-> rx, log |-> log]

Inv ==
  /\ frame \in Frame \cup {NoFrame} /\ unit \in Nat
  /\ stats \in [received : Nat, lost : Nat]
  /\ Good(At) /\ Idle(At)
  /\ rx.fp.of.n <= frame.n
  /\ rx.fp.of # NoFrame /\ rx.fp.of.n = frame.n =>
       rx.fp.of = frame /\ rx.fp.got \subseteq 0 .. unit - 1
  /\ UnitsCountedOnce

LEMMA InitInv == Init => Inv
<1> SUFFICES ASSUME Init PROVE Inv OBVIOUS
<1>1. /\ At.rx = [cur |-> None, prev |-> None, complete |-> 0, refs |-> <<>>, waiting |-> FALSE,
                  profile |-> None, fp |-> [of |-> NoFrame, src |-> 0, fec |-> 0, got |-> {}]]
      /\ At.log = [last |-> 0, accepted |-> {}, header |-> None, asked |-> FALSE,
                   units |-> 0, expected |-> 0, reported |-> {}, faults |-> {}]
      /\ At = [rx |-> At.rx, log |-> At.log]
  BY DEF Init, At
<1>2. At \in State /\ At.rx.fp \in Holding
  <2>1. At.rx.fp \in Holding /\ At.rx.refs \in Refs
    <3>1. <<>> \in Seq(SeqNums) /\ Len(<<>>) = 0 OBVIOUS
    <3> QED BY <1>1, <3>1, FramesAssumption DEF Holding, Refs
  <2>2. At.rx \in Receiver
    BY <1>1, <2>1, SeqHalfAssumption DEF Receiver, Indices, Profiled, SeqNums, SeqMod
  <2>3. At.log \in History BY <1>1, FramesAssumption DEF History, Profiled
  <2> QED BY <1>1, <2>1, <2>2, <2>3 DEF State
<1>3. AtHand(At) BY <1>1, <1>2 DEF AtHand, HoldingGood, State, Receiver
<1>4. Good(At)
  BY <1>1, <1>2, <1>3 DEF Good, InTurn, Open, RefsTaken, Newest, Reported, NoFrame
<1>5. Idle(At) BY <1>1 DEF Idle
<1>6. UnitsCountedOnce
  <2>1. Cardinality({}) = 0 BY FS_EmptySet
  <2>2. rx.fp.got = {} /\ rx.fp.src = 0 /\ rx.fp.fec = 0 /\ stats.received = 0 /\ stats.lost = 0
        /\ log.units = 0 /\ log.expected = 0
    BY DEF Init
  <2>3. Cardinality(rx.fp.got) = 0 BY <2>1, <2>2
  <2> QED BY <2>2, <2>3 DEF UnitsCountedOnce
<1> QED BY <1>1, <1>4, <1>5, <1>6 DEF Init, Inv, At, NoFrame

LEMMA ReceiveKeeps ==
  ASSUME Inv, Receive
  PROVE  Inv'
<1>1. PICK e \in Answers, idrBefore \in BOOLEAN :
        LET s == AvPacket(At, frame, unit, [e EXCEPT !.idr = idrBefore], e)
        IN rx' = s.rx /\ log' = s.log
  BY DEF Receive, At
<1> DEFINE e1 == [e EXCEPT !.idr = idrBefore]
           r  == AvPacket(At, frame, unit, e1, e)
           n  == rx.fp.of.n
           fp == AllocFrame(frame)
<1>2. frame \in Frame /\ unit \in 0 .. UnitsOf(frame) - 1 /\ unit \in Nat
  <2>1. frame \in Frame /\ unit \in Nat /\ unit < UnitsOf(frame) BY DEF Inv, Receive
  <2>2. UnitsOf(frame) \in Nat BY <2>1, FrameIs DEF UnitsOf
  <2> QED BY <2>1, <2>2
<1>3. e1 \in Answers BY DEF Answers
<1>4. Good(At) /\ Idle(At) /\ At.rx = rx /\ At.log = log BY DEF Inv, At
<1>5. At.rx.fp.of.n <= frame.n /\ (At.rx.fp.of.n = frame.n => At.rx.fp.of = frame)
  <2>1. frame.n # 0 BY <1>2, FrameIs DEF Numbers
  <2> QED BY <1>4, <2>1 DEF Inv, NoFrame
<1>6. /\ Good(r) /\ Idle(r)
      /\ frame.profile = BadProfile => r = At
      /\ frame.profile # BadProfile /\ n < frame.n =>
           /\ r.rx.fp = PutUnit(fp, unit) /\ r.log.units = log.units + 1
           /\ r.log.expected = log.expected + fp.src + fp.fec
      /\ frame.profile # BadProfile /\ n = frame.n =>
           /\ r.rx.fp = PutUnit(rx.fp, unit) /\ r.log.units = log.units + 1
           /\ r.log.expected = log.expected
  <2> HIDE DEF e1, fp
  <2>1. /\ Good(r) /\ Idle(r)
        /\ frame.profile = BadProfile => r = At
        /\ frame.profile # BadProfile /\ At.rx.fp.of.n < frame.n =>
             /\ r.rx.fp = PutUnit(AllocFrame(frame), unit) /\ r.log.units = At.log.units + 1
             /\ r.log.expected = At.log.expected + AllocFrame(frame).src + AllocFrame(frame).fec
        /\ frame.profile # BadProfile /\ At.rx.fp.of.n = frame.n =>
             /\ r.rx.fp = PutUnit(At.rx.fp, unit) /\ r.log.units = At.log.units + 1
             /\ r.log.expected = At.log.expected
    BY <1>2, <1>3, <1>4, <1>5, PacketKeeps
  <2> HIDE DEF r
  <2> QED BY <1>4, <2>1 DEF fp
<1>7. rx' = r.rx /\ log' = r.log BY <1>1 DEF At
<1>8. n \in Nat /\ frame.n \in Nat /\ n <= frame.n
  BY <1>2, <1>4, <1>5, FrameIs, NewestBefore, FramesAssumption DEF Numbers
<1>9. stats' = IF frame.profile # BadProfile /\ n < frame.n THEN PushGeneration(rx.fp, rx'.fp) ELSE stats
  <2>1. IsNext([rx |-> rx], IndexOf(frame.n)) <=> IsNext(At, IndexOf(frame.n)) BY <1>4 DEF IsNext
  <2>2. frame.n \in Numbers BY <1>2, FrameIs
  <2> DEFINE m == frame.n
  <2>3. IsNext(At, IndexOf(m)) <=> n < m
    <3> HIDE DEF m
    <3>1. IsNext(At, IndexOf(m)) <=> At.rx.fp.of.n < m BY <1>4, <2>2, NextIs DEF m
    <3> QED BY <1>4, <3>1
  <2> QED BY <2>1, <2>3 DEF Receive
<1>10. unit' = unit + 1 /\ frame' = frame BY DEF Receive
<1>11. stats \in [received : Nat, lost : Nat] /\ log.units \in Int /\ log.expected \in Int
       /\ HoldingGood(rx.fp) /\ rx.fp \in Holding /\ Good(At)
  BY <1>4 DEF Inv, Good, State, History, AtHand, HoldingGood
<1>12. /\ IsFiniteSet(rx.fp.got) /\ Cardinality(rx.fp.got) \in 0 .. rx.fp.src + rx.fp.fec
       /\ rx.fp.src \in Nat /\ rx.fp.fec \in Nat
  <2>1. rx.fp.src \in Nat /\ rx.fp.fec \in Nat BY <1>11 DEF Holding
  <2> DEFINE p == rx.fp
  <2>2. HoldingGood(p) BY <1>11
  <2> HIDE DEF p
  <2>3. IsFiniteSet(p.got) /\ Cardinality(p.got) \in 0 .. p.src + p.fec BY <2>2, GotSize
  <2> QED BY <2>1, <2>3 DEF p
<1>13. r \in State /\ At' = r
  <2>1. r \in State BY <1>6 DEF Good
  <2> HIDE DEF r
  <2>2. r = [rx |-> r.rx, log |-> r.log] BY <2>1 DEF State
  <2> QED BY <1>7, <2>1, <2>2 DEF At
<1>14. Good(At') /\ Idle(At') BY <1>6, <1>13
<1>15. frame.profile # BadProfile =>
         (n < frame.n => fp.got = {} /\ fp.of = frame /\ fp.src \in Nat /\ fp.fec \in Nat)
  BY <1>2, AllocIs
<1> HIDE DEF r, fp, n
<1>16. CASE frame.profile = BadProfile
  <2>1. rx' = rx /\ log' = log /\ stats' = stats BY <1>4, <1>6, <1>7, <1>9, <1>16
  <2>2. 0 .. unit - 1 \subseteq 0 .. unit + 1 - 1 BY <1>2
  <2> QED BY <1>2, <1>10, <1>14, <2>1, <2>2 DEF Inv, UnitsCountedOnce
<1>17. CASE frame.profile # BadProfile /\ n < frame.n
  <2>1. rx'.fp = PutUnit(fp, unit) /\ log'.units = log.units + 1
        /\ log'.expected = log.expected + fp.src + fp.fec
    BY <1>6, <1>7, <1>17
  <2>2. fp = [of |-> frame, src |-> fp.src, fec |-> fp.fec, got |-> {}] BY DEF fp, AllocFrame
  <2>3. rx'.fp.got = {unit} /\ rx'.fp.of = frame /\ rx'.fp.src = fp.src /\ rx'.fp.fec = fp.fec
    BY <2>1, <2>2 DEF PutUnit
  <2>4. Cardinality(rx'.fp.got) = 1 BY <2>3, FS_Singleton
  <2>5. stats' = PushGeneration(rx.fp, rx'.fp) BY <1>9, <1>17
  <2> DEFINE g == Cardinality(rx.fp.got)
             l == stats.lost + rx.fp.src + rx.fp.fec - g
  <2>6. stats'.received = stats.received + g /\ stats'.lost = l
        /\ stats' = [received |-> stats.received + g, lost |-> l]
    BY <2>5 DEF PushGeneration
  <2>7. stats.received \in Nat /\ stats.lost \in Nat /\ g \in Nat /\ g <= rx.fp.src + rx.fp.fec
    BY <1>11, <1>12
  <2>8. l \in Nat
    <3> HIDE DEF g
    <3> QED BY <1>12, <2>7
  <2>9. stats' \in [received : Nat, lost : Nat]
    <3> HIDE DEF l, g
    <3> QED BY <2>6, <2>7, <2>8
  <2>10. stats.received + g = log.units /\ stats.received + stats.lost + rx.fp.src + rx.fp.fec = log.expected
    BY DEF Inv, UnitsCountedOnce
  <2>11. UnitsCountedOnce'
    <3>1. stats'.received + 1 = log'.units /\ stats'.lost >= 0
      <4> HIDE DEF l, g
      <4> QED BY <2>1, <2>6, <2>7, <2>8, <2>10
    <3>2. stats'.received + stats'.lost + fp.src + fp.fec = log'.expected
      <4> HIDE DEF g
      <4> QED BY <1>11, <1>12, <1>15, <1>17, <2>1, <2>6, <2>7, <2>10
    <3> QED BY <2>3, <2>4, <3>1, <3>2 DEF UnitsCountedOnce
  <2>12. {unit} \subseteq 0 .. unit + 1 - 1 BY <1>2
  <2> QED BY <1>2, <1>8, <1>10, <1>14, <2>3, <2>9, <2>11, <2>12 DEF Inv
<1>18. CASE frame.profile # BadProfile /\ n = frame.n
  <2>1. rx'.fp = PutUnit(rx.fp, unit) /\ log'.units = log.units + 1 /\ log'.expected = log.expected
    BY <1>6, <1>7, <1>18
  <2>2. rx'.fp.got = rx.fp.got \cup {unit} /\ rx'.fp.of = rx.fp.of
        /\ rx'.fp.src = rx.fp.src /\ rx'.fp.fec = rx.fp.fec
    BY <1>11, <2>1 DEF PutUnit, Holding
  <2>3. rx.fp.of = frame BY <1>4, <1>5, <1>18 DEF n
  <2>4. rx.fp.got \subseteq 0 .. unit - 1
    <3>1. frame # NoFrame BY <1>2, FrameIs
    <3> QED BY <2>3, <3>1 DEF Inv
  <2>5. unit \notin rx.fp.got BY <1>2, <2>4
  <2>6. Cardinality(rx'.fp.got) = Cardinality(rx.fp.got) + 1 BY <1>12, <2>2, <2>5, FS_AddElement
  <2>7. stats' = stats
    <3>1. ~(n < frame.n) BY <1>8, <1>18
    <3> QED BY <1>9, <3>1
  <2>8. UnitsCountedOnce'
    <3>1. Cardinality(rx.fp.got) \in Int /\ stats.received \in Int BY <1>11, <1>12
    <3>2. stats.received + Cardinality(rx.fp.got) = log.units
          /\ stats.received + stats.lost + rx.fp.src + rx.fp.fec = log.expected /\ stats.lost >= 0
      BY DEF Inv, UnitsCountedOnce
    <3>3. stats.received + (Cardinality(rx.fp.got) + 1) = log.units + 1 BY <3>1, <3>2
    <3> QED BY <2>1, <2>2, <2>6, <2>7, <3>2, <3>3 DEF UnitsCountedOnce
  <2>9. rx.fp.got \cup {unit} \subseteq 0 .. unit + 1 - 1 BY <1>2, <2>4
  <2> QED BY <1>2, <1>8, <1>10, <1>11, <1>14, <2>2, <2>3, <2>7, <2>8, <2>9 DEF Inv
<1> QED BY <1>8, <1>16, <1>17, <1>18

LEMMA OthersKeep ==
  ASSUME Inv, Lose \/ Congestion \/ (\E f \in Frame : ConsoleNextFrame(f)) \/ UNCHANGED vars
  PROVE  Inv'
<1>1. /\ frame \in Frame \cup {NoFrame} /\ unit \in Nat /\ stats \in [received : Nat, lost : Nat]
      /\ Good(At) /\ Idle(At) /\ UnitsCountedOnce
      /\ rx.fp.of.n <= frame.n
      /\ rx.fp.of # NoFrame /\ rx.fp.of.n = frame.n =>
           rx.fp.of = frame /\ rx.fp.got \subseteq 0 .. unit - 1
  BY DEF Inv
<1>2. CASE Lose
  <2>1. 0 .. unit - 1 \subseteq 0 .. unit + 1 - 1 BY <1>1
  <2> QED BY <1>1, <1>2, <2>1 DEF Lose, Inv, At, UnitsCountedOnce
<1>3. CASE Congestion
  <2> DEFINE units    == log.units - stats.received
             expected == log.expected - stats.received - stats.lost
  <2>1. log' = [log EXCEPT !.units = units, !.expected = expected]
        /\ stats' = [received |-> 0, lost |-> 0] /\ UNCHANGED <<frame, unit, rx>>
    BY <1>3 DEF Congestion
  <2>2. At \in State /\ At = [rx |-> rx, log |-> log] BY <1>1 DEF Good, At
  <2>3. rx \in Receiver /\ log \in History BY <2>2 DEF State
  <2>4. log.units \in Int /\ log.expected \in Int /\ stats.received \in Int /\ stats.lost \in Int
    BY <1>1, <2>3 DEF History
  <2>5. units \in Int /\ expected \in Int BY <2>4
  <2> DEFINE r == At'
  <2>6. r = [rx |-> rx, log |-> [log EXCEPT !.units = units, !.expected = expected]] BY <2>1 DEF At
  <2> HIDE DEF units, expected, r
  <2>7. /\ r.rx = rx
        /\ r.log.last = log.last /\ r.log.accepted = log.accepted
        /\ r.log.header = log.header /\ r.log.faults = log.faults /\ r.log.asked = log.asked
        /\ r.log.units = units /\ r.log.expected = expected
        /\ r.log.reported = log.reported
    BY <2>3, <2>6 DEF History
  <2>8. r \in State
    <3>1. [log EXCEPT !.units = units, !.expected = expected] \in History BY <2>3, <2>5 DEF History
    <3> QED BY <2>3, <2>6, <3>1 DEF State
  <2>9. Good(r)
    <3>1. At.rx = rx /\ At.log = log BY <2>2
    <3> QED BY <1>1, <2>7, <2>8, <3>1 DEF Good, AtHand, InTurn, Open, RefsTaken, Newest, Reported
  <2>10. Idle(r)
    <3>1. At.rx = rx BY <2>2
    <3> QED BY <1>1, <2>7, <3>1 DEF Idle, Open
  <2>11. UnitsCountedOnce'
    <3> DEFINE g == Cardinality(rx.fp.got)
    <3>1. stats.received + g = log.units /\ g \in Int
      <4>1. HoldingGood(rx.fp) /\ rx.fp \in Holding BY <1>1, <2>2 DEF Good, AtHand, HoldingGood
      <4> DEFINE p == rx.fp
      <4>2. HoldingGood(p) /\ p.src \in Nat /\ p.fec \in Nat BY <4>1 DEF Holding
      <4> HIDE DEF p
      <4>3. Cardinality(p.got) \in 0 .. p.src + p.fec BY <4>2, GotSize
      <4>4. Cardinality(p.got) \in Int BY <4>2, <4>3
      <4> QED BY <1>1, <4>4 DEF UnitsCountedOnce, p
    <3>2. rx.fp.src \in Int /\ rx.fp.fec \in Int BY <2>3 DEF Receiver, Holding
    <3>3. stats.received + stats.lost + rx.fp.src + rx.fp.fec = log.expected BY <1>1 DEF UnitsCountedOnce
    <3> HIDE DEF g
    <3>4. 0 + g = units /\ 0 + 0 + rx.fp.src + rx.fp.fec = expected
      BY <2>4, <3>1, <3>2, <3>3 DEF units, expected
    <3>5. r.log = log' BY DEF r, At
    <3>6. log'.units = units /\ log'.expected = expected BY <2>7, <3>5
    <3> QED BY <2>1, <3>4, <3>6 DEF UnitsCountedOnce, g
  <2> QED BY <1>1, <2>1, <2>9, <2>10, <2>11 DEF Inv, r
<1>4. ASSUME NEW f \in Frame, ConsoleNextFrame(f) PROVE Inv'
  <2>1. f.n = frame.n + 1 /\ frame' = f /\ unit' = 0 /\ UNCHANGED <<rx, stats, log>>
    BY <1>4 DEF ConsoleNextFrame
  <2>2. rx.fp.of.n \in Nat
    <3>1. At.rx.fp.of.n \in 0 .. Frames BY <1>1, NewestBefore
    <3> QED BY <3>1, FramesAssumption DEF At
  <2>3. frame.n \in Nat BY <1>1, FrameIs, FramesAssumption DEF NoFrame, Numbers
  <2>4. rx.fp.of.n <= f.n /\ rx.fp.of.n # f.n BY <1>1, <2>1, <2>2, <2>3
  <2>5. At' = At BY <2>1 DEF At
  <2> QED BY <1>1, <1>4, <2>1, <2>4, <2>5 DEF Inv, UnitsCountedOnce
<1>5. CASE UNCHANGED vars
  BY <1>1, <1>5 DEF vars, Inv, At, UnitsCountedOnce
<1> QED BY <1>2, <1>3, <1>4, <1>5

LEMMA InvHolds == Spec => []Inv
<1>1. Inv /\ [Next]_vars => Inv'
  BY ReceiveKeeps, OthersKeep DEF Next
<1> QED BY InitInv, <1>1, PTL DEF Spec

LEMMA InvIsEnough == Inv => TypeOK /\ DecoderIsServed /\ MissingIsReported /\ UnitsCountedOnce
<1> SUFFICES ASSUME Inv PROVE TypeOK /\ DecoderIsServed /\ MissingIsReported /\ UnitsCountedOnce
  OBVIOUS
<1>1. Good(At) /\ At.rx = rx /\ At.log = log BY DEF Inv, At
<1>2. rx \in Receiver /\ HoldingGood(rx.fp) /\ rx.fp \in Holding
  BY <1>1 DEF Good, State, AtHand, HoldingGood
<1>3. TypeOK
  <2>1. {rx.cur, rx.prev} \subseteq SeqNums \cup {None} /\ rx.complete \in SeqNums
        /\ rx.waiting \in BOOLEAN /\ rx.profile \in Profiles \cup {None}
    BY <1>2 DEF Receiver, Indices, Profiled
  <2>2. rx.refs \in Seq(SeqNums) /\ Len(rx.refs) <= RefSlots BY <1>2 DEF Receiver, Refs
  <2>3. rx.fp.of \in Frame \cup {NoFrame} /\ rx.fp.got \subseteq 0 .. rx.fp.src + rx.fp.fec - 1
    BY <1>2 DEF HoldingGood, Holding
  <2> QED BY <2>1, <2>2, <2>3 DEF Inv, TypeOK
<1>4. DecoderIsServed
  BY <1>1 DEF Good, DecoderIsServed, GivenWholeInOrder, ReferencesAreThere, HeaderMatchesFrame, WaitsForIdr
<1>5. MissingIsReported BY <1>1 DEF Good, Reported, MissingIsReported
<1> QED BY <1>3, <1>4, <1>5 DEF Inv

\* The receiver keeps its types: what av_packet holds of a frame is of that frame, and the
\* reference list never exceeds the code's sixteen places.
THEOREM VideoTypes == Spec => []TypeOK
BY InvHolds, InvIsEnough, PTL

\* flush_frame, for any number of frames cut in any way: what the decoder is given is whole
\* or repaired, newer than all before, under the header of its profile, refers to frames
\* that were given, and no P slice is among it while an IDR frame is awaited.
THEOREM TheDecoderIsServed == Spec => []DecoderIsServed
BY InvHolds, InvIsEnough, PTL

\* report_corrupt_frame and its callers: every frame since the first that the decoder took
\* was taken as well or reported to the console.
THEOREM TheMissingIsReported == Spec => []MissingIsReported
BY InvHolds, InvIsEnough, PTL

\* The packet statistics that the video path adds to and the congestion thread takes and
\* resets: every unit that came is counted once, every unit of a flushed frame expected once.
THEOREM EveryUnitIsCounted == Spec => []UnitsCountedOnce
BY InvHolds, InvIsEnough, PTL
=============================================================================
