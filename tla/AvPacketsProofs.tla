--------------------------- MODULE AvPacketsProofs ---------------------------
(***************************************************************************)
(* What the receive thread does with the packets of media, for every size, *)
(* number width and number of packets.                                     *)
(*                                                                         *)
(* KeyStream: the ring holds the key stream byte for byte, every accepted  *)
(* packet is deciphered with the stream of its own position, and no        *)
(* undamaged packet that is near the last one is refused.  The inductive   *)
(* invariant adds that the ring moves in whole chunks, so that a chunk     *)
(* never runs over the end of the buffer (Aligned), and that the chunk the *)
(* thread generates without the lock still follows the ring when it is     *)
(* published (Follows).                                                    *)
(*                                                                         *)
(* TakionAv: a gap in the video packets is waited for once, and packets    *)
(* are handed on in order.  Between two datagrams a wait is running        *)
(* exactly when a packet is buffered behind a gap, and it is for the gap   *)
(* at the head (Settled), which holds because a window never ends with an  *)
(* empty slot (EndsSet, of ReorderQueueProofs).                            *)
(*                                                                         *)
(* AudioReceiver: each frame is heard once, under its own index, in order, *)
(* and none is held back while sound plays.  The inductive invariant       *)
(* numbers the slots of the jitter buffer, less than half the number space *)
(* apart, and says which call at work may still find frames waiting.       *)
(***************************************************************************)
EXTENDS AvPackets, ReorderQueueProofs, SequenceTheorems, FiniteSetTheorems

\* The ring moves in whole chunks, and begins at a whole block.
Aligned == /\ \E c \in 0 .. Chunks : populated = c * Chunk
           /\ \E c \in 0 .. Chunks - 1 : start = c * Chunk
           /\ \E c \in Nat : min = c * Block

\* The chunk generated without the lock is the one that follows the ring.
Follows == thread = "generating" =>
             /\ ~Full
             /\ chunk.offset = (start + populated) % Size
             /\ chunk.pos = min + populated

\* What a packet carries is the position it was sent with; the GMAC key is that of its index.
Kept == /\ \A pk \in pending : pk.pos = pk.sent
        /\ gmac.key = gmac.index

\* The inductive invariant of KeyStream.
IInv == TypeOK /\ Aligned /\ RingIsStream /\ Follows /\ Kept

-----------------------------------------------------------------------------
(* Sizes and offsets.                                                      *)

\* The sizes of the ring are whole numbers of blocks.
LEMMA Sizes ==
  /\ Chunk \in Nat \ {0} /\ Size \in Nat \ {0} /\ Chunk <= Size
  /\ Size = Chunks * Chunk
  /\ KeyMod \in Nat \ {0}
<1>1. Chunk \in Nat \ {0} BY KeyStreamAssumption DEF Chunk
<1>2. Size = Chunk \/ Size >= Chunk + Chunk
  <2>1. CASE Chunks = 1 BY <2>1, <1>1 DEF Size
  <2>2. CASE Chunks # 1
    <3>1. 1 * Chunk + Chunk <= Chunks * Chunk
      BY <2>2, <1>1, MultipleStep, KeyStreamAssumption
    <3> QED BY <3>1, <1>1 DEF Size
  <2> QED BY <2>1, <2>2
<1>3. Size \in Nat BY <1>1, KeyStreamAssumption DEF Size
<1> QED BY <1>1, <1>2, <1>3, KeyStreamAssumption DEF Size, KeyMod

\* The remainder of a position at most one turn past the end.
LEMMA RingTurn == \A x \in 0 .. 2 * Size - 1 : x % Size = IF x < Size THEN x ELSE x - Size
<1>1. Size \in Nat \ {0} BY Sizes
<1> QED BY <1>1, ModTurn, Zenon

\* A chunk that lies behind a ring that is not full fits before the end.
LEMMA ChunkFits ==
  ASSUME TypeOK, Aligned, ~Full
  PROVE  LET o == (start + populated) % Size
         IN /\ populated + Chunk <= Size
            /\ o \in 0 .. Size - Chunk
            /\ o = IF start + populated < Size THEN start + populated
                   ELSE start + populated - Size
<1> DEFINE o == (start + populated) % Size
<1>1. start \in 0 .. Size - 1 /\ populated \in 0 .. Size BY DEF TypeOK
<1>2. PICK c \in 0 .. Chunks : populated = c * Chunk BY DEF Aligned
<1>3. PICK d \in 0 .. Chunks - 1 : start = d * Chunk BY DEF Aligned
<1>4. c < Chunks BY <1>2, Sizes, KeyStreamAssumption DEF Full
<1>5. populated + Chunk <= Size BY <1>2, <1>4, MultipleStep, Sizes, KeyStreamAssumption
<1>6. start + Chunk <= Size BY <1>3, MultipleStep, Sizes, KeyStreamAssumption
<1>7. o = IF start + populated < Size THEN start + populated ELSE start + populated - Size
  <2>1. start + populated \in 0 .. 2 * Size - 1 BY <1>1, <1>5, Sizes
  <2>2. Size \in Nat \ {0} BY Sizes
  <2> QED BY <1>1, <2>1, <2>2, RingTurn
<1>8. start + populated < Size => start + populated + Chunk <= Size
  <2>1. HAVE start + populated < Size
  <2>2. start + populated = (c + d) * Chunk BY <1>2, <1>3, Sizes, KeyStreamAssumption
  <2>3. c + d < Chunks
    <3>1. SUFFICES ASSUME c + d >= Chunks PROVE FALSE BY KeyStreamAssumption
    <3>2. CASE c + d = Chunks BY <3>2, <2>1, <2>2, Sizes
    <3>3. CASE c + d > Chunks
      <4>1. Chunks * Chunk + Chunk <= (c + d) * Chunk
        BY <3>3, MultipleStep, Sizes, KeyStreamAssumption
      <4> QED BY <4>1, <2>1, <2>2, <1>1, Sizes
    <3> QED BY <3>1, <3>2, <3>3, KeyStreamAssumption
  <2>4. (c + d) * Chunk + Chunk <= Chunks * Chunk
    BY <2>3, MultipleStep, Sizes, KeyStreamAssumption
  <2> QED BY <2>2, <2>4, Sizes
<1> HIDE DEF o
<1>9. o \in 0 .. Size - Chunk BY <1>1, <1>5, <1>6, <1>7, <1>8, Sizes
<1> QED BY <1>5, <1>7, <1>9 DEF o

\* Where a byte of the ring lies.
LEMMA Place ==
  ASSUME TypeOK, NEW k \in 0 .. Size
  PROVE  (k + start) % Size = IF k + start < Size THEN k + start ELSE k + start - Size
<1>1. start \in 0 .. Size - 1 BY DEF TypeOK
<1>2. k + start \in 0 .. 2 * Size - 1 BY <1>1, Sizes
<1>3. Size \in Nat \ {0} BY Sizes
<1> QED BY <1>1, <1>2, <1>3, RingTurn

\* A stream generated from the start of a block is the stream.
LEMMA GenerateRight ==
  ASSUME NEW c \in Nat, NEW n \in Nat, NEW i \in 0 .. n - 1
  PROVE  Generate(c * Block, n)[i] = c * Block + i
<1>1. (c * Block + 0) \div Block = c BY DivModUnique, KeyStreamAssumption
<1>2. (c * Block) \div Block = c BY <1>1, KeyStreamAssumption
<1> QED BY <1>2, KeyStreamAssumption DEF Generate

-----------------------------------------------------------------------------
(* Positions: KeyState and the GMAC key.                                   *)

\* The low half of a position that is near the last one leads back to it.
LEMMA RequestPosNear ==
  ASSUME NEW a \in Nat, NEW p \in Nat, p - a \in 1 - KeyHalf .. KeyHalf - 1
  PROVE  RequestPos(a, p % KeyMod) = p
<1> DEFINE ha == a \div KeyMod
           la == a % KeyMod
           hp == p \div KeyMod
           lp == p % KeyMod
           d  == hp - ha
<1>1. /\ ha \in Nat /\ la \in 0 .. KeyMod - 1 /\ a = KeyMod * ha + la
      /\ hp \in Nat /\ lp \in 0 .. KeyMod - 1 /\ p = KeyMod * hp + lp
  <2>1. KeyMod \in Nat \ {0} BY Sizes
  <2> QED BY <2>1, DivMod
<1>2. KeyMod = 2 * KeyHalf /\ KeyHalf \in Nat \ {0} BY KeyStreamAssumption DEF KeyMod
<1> HIDE DEF ha, la, hp, lp
<1>3. p - a = KeyMod * d + (lp - la) /\ d \in Int BY <1>1, <1>2
<1>4. d \in -1 .. 1
  <2>1. CASE d >= 2
    <3>1. KeyMod * d >= KeyMod * 2 BY <2>1, <1>2, <1>3
    <3> QED BY <3>1, <1>1, <1>2, <1>3
  <2>2. CASE d <= -2
    <3>1. KeyMod * d <= KeyMod * (-2) BY <2>2, <1>2, <1>3
    <3> QED BY <3>1, <1>1, <1>2, <1>3
  <2> QED BY <2>1, <2>2, <1>3
<1>5. KeyMod * hp = hp * KeyMod BY <1>1, <1>2
<1>6. RequestPos(a, lp) =
        (IF KeyGt(lp, la) /\ lp < la THEN ha + 1
         ELSE IF KeyLt(lp, la) /\ lp > la /\ ha # 0 THEN ha - 1 ELSE ha) * KeyMod + lp
  BY DEF RequestPos, ha, la
<1>7. CASE d = 0
  <2>1. hp = ha /\ lp - la \in 1 - KeyHalf .. KeyHalf - 1 BY <1>7, <1>1, <1>2, <1>3
  <2>2. ~(KeyGt(lp, la) /\ lp < la) /\ ~(KeyLt(lp, la) /\ lp > la)
    BY <2>1, <1>1, <1>2 DEF KeyGt, KeyLt
  <2>3. RequestPos(a, lp) = ha * KeyMod + lp BY <2>2, <1>6
  <2> QED BY <2>1, <2>3, <1>1, <1>5 DEF lp
<1>8. CASE d = 1
  <2>1. hp = ha + 1 /\ lp - la < -KeyHalf BY <1>8, <1>1, <1>2, <1>3
  <2>2. KeyGt(lp, la) /\ lp < la BY <2>1, <1>1, <1>2 DEF KeyGt
  <2>3. RequestPos(a, lp) = hp * KeyMod + lp BY <2>1, <2>2, <1>6
  <2> QED BY <2>3, <1>1, <1>5 DEF lp
<1>9. CASE d = -1
  <2>1. hp = ha - 1 /\ lp - la > KeyHalf /\ ha # 0 BY <1>9, <1>1, <1>2, <1>3
  <2>2. KeyLt(lp, la) /\ lp > la /\ ~(lp < la) BY <2>1, <1>1, <1>2 DEF KeyLt
  <2>3. RequestPos(a, lp) = hp * KeyMod + lp BY <2>1, <2>2, <1>6
  <2> QED BY <2>3, <1>1, <1>5 DEF lp
<1> QED BY <1>3, <1>4, <1>7, <1>8, <1>9

\* A rebuilt position is a number again.
LEMMA RequestPosType ==
  ASSUME NEW a \in Nat, NEW low \in 0 .. KeyMod - 1
  PROVE  RequestPos(a, low) \in Nat
<1>1. KeyMod \in Nat \ {0} BY Sizes
<1>2. a \div KeyMod \in Nat BY <1>1, DivMod
<1> DEFINE h == a \div KeyMod
<1> HIDE DEF h
<1>3. h \in Nat BY <1>2 DEF h
<1>4. PICK t \in Nat : RequestPos(a, low) = t * KeyMod + low
  <2>1. RequestPos(a, low) =
          (IF KeyGt(low, a % KeyMod) /\ low < a % KeyMod THEN h + 1
           ELSE IF KeyLt(low, a % KeyMod) /\ low > a % KeyMod /\ h # 0 THEN h - 1
           ELSE h) * KeyMod + low
    BY DEF RequestPos, h
  <2> QED BY <2>1, <1>3
<1>5. t * KeyMod \in Nat BY <1>1
<1> QED BY <1>4, <1>5

LEMMA KeyIndexType == ASSUME NEW p \in Nat PROVE KeyIndex(p) \in Nat
<1>1. (IF p = 0 THEN 0 ELSE p - 1) \in Nat OBVIOUS
<1> QED BY <1>1, DivMod, KeyStreamAssumption DEF KeyIndex

LEMMA GmacKeyRight ==
  ASSUME gmac.key = gmac.index, NEW p
  PROVE  GmacKey(gmac, p) = KeyIndex(p)
BY DEF GmacKey

LEMMA GmacAfterKept ==
  ASSUME TypeOK, Kept, NEW p \in Nat
  PROVE  /\ GmacAfter(gmac, p) \in [index : Nat, key : Nat]
         /\ GmacAfter(gmac, p).key = GmacAfter(gmac, p).index
BY KeyIndexType DEF GmacAfter, TypeOK, Kept

-----------------------------------------------------------------------------
(* The ring as the thread moves it.                                        *)

\* The chunk in progress overwrites no byte the ring offers.
LEMMA PublishSpares ==
  ASSUME TypeOK, Aligned, Follows, thread = "generating", NEW k \in 0 .. populated - 1
  PROVE  /\ (k + start) % Size \in 0 .. Size - 1
         /\ (k + start) % Size \notin chunk.offset .. chunk.offset + Chunk - 1
<1>1. start \in 0 .. Size - 1 /\ populated \in 0 .. Size BY DEF TypeOK
<1>2. /\ populated + Chunk <= Size
      /\ chunk.offset \in 0 .. Size - Chunk
      /\ chunk.offset = IF start + populated < Size THEN start + populated
                        ELSE start + populated - Size
  BY ChunkFits DEF Follows
<1>3. (k + start) % Size = IF k + start < Size THEN k + start ELSE k + start - Size
  <2>1. k \in 0 .. Size BY <1>1, Sizes
  <2> QED BY <2>1, Place
<1> DEFINE o == (k + start) % Size
           c == chunk.offset
<1> HIDE DEF o, c
<1>4. o = IF k + start < Size THEN k + start ELSE k + start - Size BY <1>3 DEF o
<1>5. /\ c \in 0 .. Size - Chunk
      /\ c = IF start + populated < Size THEN start + populated ELSE start + populated - Size
  BY <1>2 DEF c
<1>6. o \in 0 .. Size - 1 /\ o \notin c .. c + Chunk - 1
  BY <1>1, <1>2, <1>4, <1>5, Sizes
<1> QED BY <1>6 DEF o, c

\* And fills the bytes behind them, in one piece.
LEMMA PublishFills ==
  ASSUME TypeOK, Aligned, Follows, thread = "generating", NEW j \in 0 .. Chunk - 1
  PROVE  /\ (populated + j + start) % Size = chunk.offset + j
         /\ chunk.offset + j \in 0 .. Size - 1
<1>1. start \in 0 .. Size - 1 /\ populated \in 0 .. Size BY DEF TypeOK
<1>2. /\ populated + Chunk <= Size
      /\ chunk.offset \in 0 .. Size - Chunk
      /\ chunk.offset = IF start + populated < Size THEN start + populated
                        ELSE start + populated - Size
  BY ChunkFits DEF Follows
<1> DEFINE k == populated + j
           c == chunk.offset
<1>3. k \in 0 .. Size /\ k = populated + j BY <1>1, <1>2, Sizes
<1>4. (k + start) % Size = IF k + start < Size THEN k + start ELSE k + start - Size
  <2> HIDE DEF k
  <2> QED BY <1>3, Place
<1>5. /\ c \in 0 .. Size - Chunk
      /\ c = IF start + populated < Size THEN start + populated ELSE start + populated - Size
  BY <1>2
<1> HIDE DEF k, c
<1>6. (k + start) % Size = c + j /\ c + j \in 0 .. Size - 1
  BY <1>1, <1>2, <1>3, <1>4, <1>5, Sizes
<1> QED BY <1>6 DEF k, c

\* A block boundary stays one when whole chunks are added.
LEMMA MinAligned ==
  ASSUME NEW m \in Nat, NEW c \in Nat, m = c * Block, NEW d \in Nat
  PROVE  \E e \in Nat : m + d * Chunk = e * Block
<1>1. d * Chunk = (d * ChunkBlocks) * Block BY KeyStreamAssumption DEF Chunk
<1>2. d * ChunkBlocks \in Nat BY KeyStreamAssumption
<1> DEFINE f == d * ChunkBlocks
<1> HIDE DEF f
<1>3. m + f * Block = (c + f) * Block BY <1>2, KeyStreamAssumption DEF f
<1> QED BY <1>1, <1>2, <1>3 DEF f

LEMMA SkipAheadKeeps ==
  ASSUME IInv, SkipAhead, UNCHANGED buf
  PROVE  /\ min' \in Nat /\ populated' \in 0 .. Size /\ start' \in 0 .. Size - 1
         /\ Aligned' /\ RingIsStream' /\ ~Full'
<1>1. last \div Chunk \in Nat BY DivMod, Sizes DEF IInv, TypeOK
<1> DEFINE q == last \div Chunk
<1> HIDE DEF q
<1>2. q \in Nat /\ min' = q * Chunk /\ start' = 0 /\ populated' = 0
  BY <1>1 DEF q, SkipAhead
<1>3. min' \in Nat BY <1>2, Sizes
<1>4. \E e \in Nat : min' = e * Block
  <2>1. 0 = 0 * Block BY KeyStreamAssumption
  <2>2. PICK e \in Nat : 0 + q * Chunk = e * Block BY <2>1, <1>2, MinAligned
  <2> QED BY <2>2, <1>2, Sizes
<1>5. Aligned'
  <2>1. populated' = 0 * Chunk /\ start' = 0 * Chunk BY <1>2, Sizes
  <2> QED BY <2>1, <1>4, KeyStreamAssumption DEF Aligned
<1>6. RingIsStream' BY <1>2, <1>3 DEF RingIsStream
<1> QED BY <1>2, <1>3, <1>5, <1>6, Sizes DEF Full

LEMMA SlideKeeps ==
  ASSUME IInv, Slide, Full, UNCHANGED buf
  PROVE  /\ min' \in Nat /\ populated' \in 0 .. Size /\ start' \in 0 .. Size - 1
         /\ Aligned' /\ RingIsStream' /\ ~Full'
<1>1. /\ start \in 0 .. Size - 1 /\ min \in Nat /\ populated = Size
      /\ min' = min + Chunk /\ populated' = Size - Chunk
  BY DEF IInv, TypeOK, Full, Slide
<1>2. PICK d \in 0 .. Chunks - 1 : start = d * Chunk BY DEF IInv, Aligned
<1>3. start + Chunk <= Size BY <1>2, MultipleStep, Sizes, KeyStreamAssumption
<1>4. start' = IF start + Chunk < Size THEN start + Chunk ELSE 0
  <2>1. (Chunk + start) % Size =
          IF Chunk + start < Size THEN Chunk + start ELSE Chunk + start - Size
    BY Place, Sizes DEF IInv
  <2>2. Chunk + start = start + Chunk BY <1>1, Sizes
  <2> QED BY <2>1, <2>2, <1>1, <1>3, Sizes DEF Slide
<1>5. Aligned'
  <2>1. \E c \in 0 .. Chunks : populated' = c * Chunk
    <3>1. populated' = (Chunks - 1) * Chunk BY <1>1, Sizes, KeyStreamAssumption
    <3> QED BY <3>1, KeyStreamAssumption
  <2>2. \E c \in 0 .. Chunks - 1 : start' = c * Chunk
    <3>1. CASE start + Chunk < Size
      <4>1. start' = (d + 1) * Chunk BY <3>1, <1>2, <1>4, Sizes
      <4>2. d + 1 # Chunks BY <3>1, <4>1, <1>4, Sizes
      <4> QED BY <4>1, <4>2, <1>2, KeyStreamAssumption
    <3>2. CASE ~(start + Chunk < Size)
      <4>1. start' = 0 * Chunk BY <3>2, <1>4, Sizes
      <4> QED BY <4>1, KeyStreamAssumption
    <3> QED BY <3>1, <3>2
  <2>3. \E c \in Nat : min' = c * Block
    <3>1. PICK c \in Nat : min = c * Block BY DEF IInv, Aligned
    <3>2. PICK e \in Nat : min + 1 * Chunk = e * Block BY <3>1, <1>1, MinAligned
    <3> QED BY <3>2, <1>1, Sizes
  <2> QED BY <2>1, <2>2, <2>3 DEF Aligned
<1>6. RingIsStream'
  <2>1. SUFFICES ASSUME NEW pos \in min + Chunk .. min + Size - 1
                 PROVE  buf[(pos - (min + Chunk) + start') % Size] = pos
    BY <1>1, Sizes DEF RingIsStream
  <2> DEFINE k == pos - min
             j == pos - (min + Chunk)
  <2>2. k \in Chunk .. Size - 1 /\ j = k - Chunk BY <1>1, Sizes
  <2>3. buf[(k + start) % Size] = pos
    BY <1>1, <2>1, Sizes DEF IInv, RingIsStream
  <2> HIDE DEF k, j
  <2>4. (k + start) % Size = IF k + start < Size THEN k + start ELSE k + start - Size
    BY <2>2, Place, Sizes DEF IInv
  <2> DEFINE x == j + start'
  <2>5. x \in 0 .. 2 * Size - 1 /\ x = j + start'
    BY <2>2, <1>1, <1>3, <1>4, Sizes
  <2> HIDE DEF x
  <2>6. x % Size = IF x < Size THEN x ELSE x - Size BY <2>5, RingTurn
  <2>7. x % Size = (k + start) % Size
    BY <2>2, <2>4, <2>5, <2>6, <1>1, <1>3, <1>4, Sizes
  <2> QED BY <2>3, <2>7 DEF j, x
<1> QED BY <1>1, <1>3, <1>4, <1>5, <1>6, Sizes DEF Full

-----------------------------------------------------------------------------
(* The inductive invariant.                                                *)

LEMMA Initially == ASSUME Init PROVE IInv
<1>1. 0 = 0 * Chunk /\ 0 = 0 * Block BY Sizes, KeyStreamAssumption
<1>2. Aligned BY <1>1, KeyStreamAssumption DEF Init, Aligned
<1>3. TypeOK
  <2>1. 0 \in 0 .. Size /\ 0 \in 0 .. Size - 1 BY Sizes
  <2> QED BY <2>1 DEF Init, TypeOK
<1>4. RingIsStream /\ Follows /\ Kept BY DEF Init, RingIsStream, Follows, Kept
<1> QED BY <1>2, <1>3, <1>4 DEF IInv

\* What the receiving thread does leaves the ring alone.
LEMMA ReceiverSteps ==
  ASSUME IInv, UNCHANGED <<min, populated, start, buf, thread, chunk>>
  PROVE  Aligned' /\ RingIsStream' /\ Follows'
BY DEF IInv, Aligned, RingIsStream, Follows, Full

LEMMA ReceiveKeeps ==
  ASSUME IInv, NEW p \in 0 .. MaxPos, NEW n \in 1 .. MaxLen, Receive(p, n)
  PROVE  IInv'
<1>1. p \in Nat /\ prev \in Nat BY KeyStreamAssumption DEF IInv, TypeOK
<1>2. p % KeyMod \in 0 .. KeyMod - 1
  <2>1. KeyMod \in Nat \ {0} BY Sizes
  <2> QED BY <2>1, <1>1, DivMod
<1>3. RequestPos(prev, p % KeyMod) \in Nat BY <1>1, <1>2, RequestPosType
<1>4. RequestPos(p, p % KeyMod) = p
  <2>1. p - p \in 1 - KeyHalf .. KeyHalf - 1 BY <1>1, KeyStreamAssumption
  <2> QED BY <2>1, <1>1, RequestPosNear
<1>5. /\ gmac' \in [index : Nat, key : Nat] /\ gmac'.key = gmac'.index
  BY <1>3, GmacAfterKept DEF IInv, Receive
<1>6. UNCHANGED <<min, populated, start, buf, last, stop, thread, chunk>> BY DEF Receive
<1>7. CASE MacMatches(p)
  <2>1. RequestPos(prev, p % KeyMod) = p BY <1>7 DEF MacMatches
  <2>2. prev' = p /\ pending' = pending \cup {[sent |-> p, pos |-> p, len |-> n]}
    BY <1>7, <1>4, <2>1 DEF Receive
  <2>3. [sent |-> p, pos |-> p, len |-> n] \in Packet BY <1>1 DEF Packet
  <2>4. TypeOK' /\ Kept'
    BY <1>1, <1>5, <1>6, <2>2, <2>3 DEF IInv, TypeOK, Kept
  <2> QED BY <2>4, <1>6, ReceiverSteps DEF IInv
<1>8. CASE ~MacMatches(p)
  <2>1. UNCHANGED <<prev, pending>> BY <1>8 DEF Receive
  <2>2. TypeOK' /\ Kept' BY <1>5, <1>6, <2>1 DEF IInv, TypeOK, Kept
  <2> QED BY <2>2, <1>6, ReceiverSteps DEF IInv
<1> QED BY <1>7, <1>8

LEMMA ReceiveDamagedKeeps ==
  ASSUME IInv, NEW low \in 0 .. KeyMod - 1, ReceiveDamaged(low)
  PROVE  IInv'
<1>1. RequestPos(prev, low) \in Nat BY RequestPosType DEF IInv, TypeOK
<1>2. gmac' \in [index : Nat, key : Nat] /\ gmac'.key = gmac'.index
  BY <1>1, GmacAfterKept DEF IInv, ReceiveDamaged
<1>3. UNCHANGED <<min, populated, start, buf, last, stop, thread, chunk, prev, pending>>
  BY DEF ReceiveDamaged
<1>4. TypeOK' /\ Kept' BY <1>2, <1>3 DEF IInv, TypeOK, Kept
<1> QED BY <1>3, <1>4, ReceiverSteps DEF IInv

\* The blocks a packet's payload lies in: where they start, and that they hold it.
LEMMA Blocks ==
  ASSUME NEW p \in Nat, NEW n \in Nat
  PROVE  /\ \E c \in Nat : From(p) = c * Block
         /\ From(p) \in Nat /\ FullSize(p, n) \in Nat
         /\ Padding(p) \in Nat /\ From(p) + Padding(p) = p
         /\ Padding(p) + n <= FullSize(p, n)
<1>1. Block \in Nat \ {0} BY KeyStreamAssumption
<1>2. /\ p \div Block \in Nat /\ p % Block \in 0 .. Block - 1
      /\ p = Block * (p \div Block) + (p % Block)
  BY <1>1, DivMod
<1> DEFINE q == p \div Block
           r == p % Block
<1> HIDE DEF q, r
<1>3. q \in Nat /\ r \in 0 .. Block - 1 /\ p = Block * q + r BY <1>2 DEF q, r
<1>4. Padding(p) = r /\ From(p) = q * Block
  <2>1. Padding(p) = r BY DEF Padding, r
  <2>2. Block * q = q * Block BY <1>1, <1>3
  <2>3. q * Block \in Nat BY <1>1, <1>3
  <2> QED BY <2>1, <2>2, <2>3, <1>1, <1>3 DEF From
<1>5. q * Block \in Nat /\ Block * q = q * Block BY <1>1, <1>3
<1> DEFINE x == r + n + Block - 1
           u == x \div Block
<1>6. x \in Nat BY <1>1, <1>3
<1>7. u \in Nat /\ x % Block \in 0 .. Block - 1 /\ x = Block * u + (x % Block)
  <2> HIDE DEF x
  <2> QED BY <1>1, <1>6, DivMod
<1>8. FullSize(p, n) = u * Block BY <1>4 DEF FullSize
<1>9. x = r + n + Block - 1 OBVIOUS
<1> HIDE DEF x, u
<1>10. u * Block \in Nat /\ Block * u = u * Block BY <1>1, <1>7
<1>11. r + n <= u * Block BY <1>1, <1>3, <1>7, <1>9, <1>10
<1> QED BY <1>3, <1>4, <1>5, <1>8, <1>10, <1>11

LEMMA DecryptKeeps ==
  ASSUME IInv, NEW pk \in pending, Decrypt(pk)
  PROVE  IInv'
<1>1. pk \in Packet BY DEF IInv, TypeOK
<1>2. pk.pos + Block \in Nat /\ pk.len \in Nat
  BY <1>1, KeyStreamAssumption DEF Packet
<1>3. last' \in Nat
  <2>1. From(pk.pos + Block) \in Nat /\ FullSize(pk.pos + Block, pk.len) \in Nat
    BY <1>2, Blocks
  <2> QED BY <2>1 DEF Decrypt, IInv, TypeOK
<1>4. TypeOK' /\ Kept' BY <1>3 DEF Decrypt, IInv, TypeOK, Kept
<1>5. UNCHANGED <<min, populated, start, buf, thread, chunk>> BY DEF Decrypt
<1> QED BY <1>4, <1>5, ReceiverSteps DEF IInv

LEMMA PrepareKeeps == ASSUME IInv, Prepare PROVE IInv'
<1>1. UNCHANGED <<buf, last, stop, prev, gmac, pending>> /\ thread' = "generating"
  BY DEF Prepare
<1>2. /\ min' \in Nat /\ populated' \in 0 .. Size /\ start' \in 0 .. Size - 1
      /\ Aligned' /\ RingIsStream' /\ ~Full'
  <2>1. CASE Beyond
    <3>1. SkipAhead BY <2>1 DEF Prepare
    <3> QED BY <3>1, <1>1, SkipAheadKeeps
  <2>2. CASE ~Beyond /\ Full
    <3>1. Slide BY <2>2 DEF Prepare
    <3> QED BY <3>1, <2>2, <1>1, SlideKeeps
  <2>3. CASE ~Beyond /\ ~Full
    <3>1. UNCHANGED <<min, start, populated>> BY <2>3 DEF Prepare
    <3> QED BY <3>1, <2>3, <1>1 DEF IInv, TypeOK, Aligned, RingIsStream, Full
  <2> QED BY <2>1, <2>2, <2>3
<1>3. chunk' = [offset |-> (start' + populated') % Size, pos |-> min' + populated']
  BY DEF Prepare
<1>4. (start' + populated') % Size \in 0 .. Size - 1 /\ min' + populated' \in Nat
  <2> DEFINE a == start'
             b == populated'
             m == min'
  <2>1. Size \in Nat \ {0} BY Sizes
  <2>2. b \in 0 .. Size /\ a \in 0 .. Size - 1 /\ m \in Nat BY <1>2
  <2> HIDE DEF a, b, m
  <2>3. a + b \in Nat /\ m + b \in Nat BY <2>1, <2>2
  <2>4. (a + b) % Size \in 0 .. Size - 1 BY <2>1, <2>3, DivMod
  <2> QED BY <2>3, <2>4 DEF a, b, m
<1>5. TypeOK'
  <2>1. chunk' \in [offset : 0 .. Size - 1, pos : Nat] BY <1>3, <1>4
  <2> QED BY <2>1, <1>1, <1>2 DEF IInv, TypeOK
<1>6. Follows' BY <1>1, <1>2, <1>3 DEF Follows
<1>7. Kept' BY <1>1 DEF IInv, Kept
<1> QED BY <1>2, <1>5, <1>6, <1>7 DEF IInv

LEMMA PublishKeeps == ASSUME IInv, Publish PROVE IInv'
<1>1. /\ UNCHANGED <<min, start, last, stop, chunk, prev, gmac, pending>>
      /\ thread = "generating" /\ thread' = "waiting" /\ populated' = populated + Chunk
      /\ TypeOK /\ Aligned /\ RingIsStream /\ Follows /\ ~Full
  BY DEF Publish, IInv, Follows
<1>2. /\ start \in 0 .. Size - 1 /\ populated \in 0 .. Size /\ min \in Nat
      /\ populated + Chunk <= Size
  BY <1>1, ChunkFits DEF TypeOK
<1>3. PICK c \in 0 .. Chunks : populated = c * Chunk BY <1>1 DEF Aligned
<1>4. c < Chunks BY <1>1, <1>3, Sizes, KeyStreamAssumption DEF Full
<1>5. Aligned'
  <2>1. populated' = (c + 1) * Chunk BY <1>1, <1>3, Sizes, KeyStreamAssumption
  <2>2. c + 1 \in 0 .. Chunks BY <1>4, KeyStreamAssumption
  <2> QED BY <2>1, <2>2, <1>1 DEF Aligned
<1>6. chunk.pos = min + populated BY <1>1 DEF Follows
<1>7. PICK e \in Nat : chunk.pos = e * Block
  <2>1. PICK f \in Nat : min = f * Block BY <1>1 DEF Aligned
  <2>2. c \in Nat BY KeyStreamAssumption
  <2> QED BY <2>1, <2>2, <1>2, <1>3, <1>6, MinAligned
<1>8. \A j \in 0 .. Chunk - 1 : Generate(chunk.pos, Chunk)[j] = chunk.pos + j
  BY <1>7, GenerateRight, Sizes
<1>9. \A o \in 0 .. Size - 1 :
        buf'[o] = IF o \in chunk.offset .. chunk.offset + Chunk - 1
                  THEN Generate(chunk.pos, Chunk)[o - chunk.offset] ELSE buf[o]
  BY <1>1 DEF Publish, TypeOK
<1>10. chunk.offset \in 0 .. Size - 1 /\ chunk.pos \in Nat BY <1>1 DEF TypeOK
<1>11. buf' \in [0 .. Size - 1 -> Nat \cup {Unset}]
  <2>1. \A o \in 0 .. Size - 1 : buf'[o] \in Nat \cup {Unset}
    <3>1. TAKE o \in 0 .. Size - 1
    <3>2. CASE o \in chunk.offset .. chunk.offset + Chunk - 1
      <4>1. o - chunk.offset \in 0 .. Chunk - 1 BY <3>2, <1>10, Sizes
      <4>2. buf'[o] = chunk.pos + (o - chunk.offset) BY <3>2, <4>1, <1>8, <1>9
      <4> QED BY <4>1, <4>2, <1>10, Sizes
    <3>3. CASE o \notin chunk.offset .. chunk.offset + Chunk - 1
      <4>1. buf'[o] = buf[o] BY <3>3, <1>9
      <4> QED BY <4>1, <1>1 DEF TypeOK
    <3> QED BY <3>2, <3>3
  <2>2. DOMAIN buf = 0 .. Size - 1 BY <1>1 DEF TypeOK
  <2>3. buf' = [o \in 0 .. Size - 1 |-> buf'[o]] BY <2>2 DEF Publish
  <2> QED BY <2>1, <2>3
<1>12. RingIsStream'
  <2>1. SUFFICES ASSUME NEW pos \in min .. min + (populated + Chunk) - 1
                 PROVE  buf'[(pos - min + start) % Size] = pos
    BY <1>1 DEF RingIsStream
  <2> DEFINE k == pos - min
  <2>2. k \in 0 .. populated + Chunk - 1 /\ pos = min + k BY <1>2, Sizes
  <2>3. CASE k < populated
    <3>1. k \in 0 .. populated - 1 /\ pos \in min .. min + populated - 1
      BY <2>2, <2>3, <1>2, Sizes
    <3>2. buf[(k + start) % Size] = pos BY <3>1, <1>1 DEF RingIsStream
    <3> HIDE DEF k
    <3>3. /\ (k + start) % Size \in 0 .. Size - 1
          /\ (k + start) % Size \notin chunk.offset .. chunk.offset + Chunk - 1
      BY <3>1, <1>1, PublishSpares
    <3>4. buf'[(k + start) % Size] = buf[(k + start) % Size] BY <3>3, <1>9
    <3> QED BY <3>2, <3>4 DEF k
  <2>4. CASE k >= populated
    <3> DEFINE j == k - populated
    <3> HIDE DEF k
    <3>1. j \in 0 .. Chunk - 1 /\ k = populated + j BY <2>2, <2>4, <1>2, Sizes
    <3> HIDE DEF j
    <3>2. /\ (populated + j + start) % Size = chunk.offset + j
          /\ chunk.offset + j \in 0 .. Size - 1
      BY <3>1, <1>1, PublishFills
    <3>3. buf'[chunk.offset + j] = Generate(chunk.pos, Chunk)[j]
      <4>1. /\ chunk.offset + j \in chunk.offset .. chunk.offset + Chunk - 1
            /\ (chunk.offset + j) - chunk.offset = j
        BY <3>1, <1>10, Sizes
      <4> QED BY <4>1, <3>2, <1>9
    <3>4. buf'[chunk.offset + j] = pos BY <3>1, <3>3, <1>2, <1>6, <1>8, <2>2
    <3>5. (k + start) % Size = chunk.offset + j BY <3>1, <3>2
    <3> QED BY <3>4, <3>5 DEF k
  <2> QED BY <2>2, <2>3, <2>4, <1>2, Sizes
<1>13. TypeOK' BY <1>1, <1>2, <1>11, Sizes DEF TypeOK
<1>14. Follows' /\ Kept' BY <1>1 DEF Follows, IInv, Kept
<1> QED BY <1>5, <1>12, <1>13, <1>14 DEF IInv

LEMMA Preserved == ASSUME IInv, [Next]_vars PROVE IInv'
<1>1. CASE \E p \in 0 .. MaxPos, n \in 1 .. MaxLen : Receive(p, n) BY <1>1, ReceiveKeeps
<1>2. CASE \E low \in 0 .. KeyMod - 1 : ReceiveDamaged(low) BY <1>2, ReceiveDamagedKeeps
<1>3. CASE \E pk \in pending : Decrypt(pk) BY <1>3, DecryptKeeps
<1>4. CASE Drop
  <2>1. TypeOK' /\ Kept' BY <1>4 DEF Drop, IInv, TypeOK, Kept
  <2> QED BY <1>4, <2>1, ReceiverSteps DEF Drop, IInv
<1>5. CASE Prepare BY <1>5, PrepareKeeps
<1>6. CASE Publish BY <1>6, PublishKeeps
<1>7. CASE EndThread
  BY <1>7 DEF EndThread, IInv, TypeOK, Aligned, RingIsStream, Follows, Kept
<1>8. CASE UNCHANGED vars
  <2>1. TypeOK' /\ Kept' BY <1>8 DEF vars, IInv, TypeOK, Kept
  <2> QED BY <1>8, <2>1, ReceiverSteps DEF vars, IInv
<1> QED BY <1>1, <1>2, <1>3, <1>4, <1>5, <1>6, <1>7, <1>8 DEF Next

LEMMA Invariant == Spec => []IInv
<1>1. Init => IInv BY Initially
<1>2. IInv /\ [Next]_vars => IInv' BY Preserved
<1> QED BY <1>1, <1>2, PTL DEF Spec

-----------------------------------------------------------------------------
(* The theorems.                                                           *)

\* The state keeps its types: the ring never claims more than the buffer holds
\* and no offset leaves it, however the thread slides and skips.
THEOREM KeyTypes == Spec => []TypeOK
<1>1. IInv => TypeOK BY DEF IInv
<1> QED BY <1>1, Invariant, PTL

\* What the ring offers is the key stream, also while a chunk is generated
\* without the lock (key_buf_thread_func, get_key_stream).
THEOREM RingAlwaysStream == Spec => []RingIsStream
<1>1. IInv => RingIsStream BY DEF IInv
<1> QED BY <1>1, Invariant, PTL

\* A request inside the ring, wherever it crosses the end of the buffer.
LEMMA FromRingRight ==
  ASSUME IInv, NEW pos \in Nat, NEW n \in Nat, InRing(pos, n), NEW i \in 0 .. n - 1
  PROVE  FromRing(pos, n)[i] = pos + i
<1>1. /\ start \in 0 .. Size - 1 /\ populated \in 0 .. Size /\ min \in Nat /\ TypeOK
      /\ RingIsStream /\ min <= pos /\ pos + n < min + populated
  BY DEF IInv, TypeOK, InRing
<1> DEFINE a == pos - min
           b == a + i
           from == (a + start) % Size
<1>2. /\ a \in 0 .. Size /\ a \in 0 .. Size - 1 /\ b \in 0 .. Size /\ b \in 0 .. Size - 1
      /\ b = a + i /\ pos + i = min + b /\ pos + i \in min .. min + populated - 1
  BY <1>1, Sizes
<1>3. FromRing(pos, n)[i] =
        IF from + i < Size THEN buf[from + i] ELSE buf[from + i - Size]
  BY DEF FromRing
<1>4. buf[((pos + i) - min + start) % Size] = pos + i BY <1>1, <1>2 DEF RingIsStream
<1>5. (pos + i) - min = b BY <1>1, <1>2
<1> HIDE DEF a, b
<1>6. from = IF a + start < Size THEN a + start ELSE a + start - Size
  BY <1>1, <1>2, Place
<1>7. (b + start) % Size = IF b + start < Size THEN b + start ELSE b + start - Size
  BY <1>1, <1>2, Place
<1> HIDE DEF from
<1>8. (b + start) % Size = IF from + i < Size THEN from + i ELSE from + i - Size
  BY <1>1, <1>2, <1>6, <1>7, Sizes
<1> QED BY <1>3, <1>4, <1>5, <1>8

\* Out of the ring or generated, a request that starts with a block gets its stream.
LEMMA GetRight ==
  ASSUME IInv, NEW c \in Nat, NEW n \in Nat, NEW i \in 0 .. n - 1
  PROVE  GetKeyStream(c * Block, n)[i] = c * Block + i
<1>1. c * Block \in Nat BY KeyStreamAssumption
<1>2. CASE InRing(c * Block, n) BY <1>1, <1>2, FromRingRight DEF GetKeyStream
<1>3. CASE ~InRing(c * Block, n) BY <1>3, GenerateRight DEF GetKeyStream
<1> QED BY <1>2, <1>3

LEMMA DecipheringRight ==
  ASSUME IInv, NEW pos \in Nat, NEW n \in Nat
  PROVE  Deciphering(pos, n) = [i \in 0 .. n - 1 |-> pos + i]
<1> DEFINE f == From(pos)
           full == FullSize(pos, n)
           pad == Padding(pos)
<1>1. PICK c \in Nat : f = c * Block BY Blocks
<1>2. /\ f \in Nat /\ full \in Nat /\ pad \in Nat /\ f + pad = pos /\ pad + n <= full
  BY Blocks
<1>3. Deciphering(pos, n) = [i \in 0 .. n - 1 |-> GetKeyStream(f, full)[pad + i]]
  BY DEF Deciphering
<1> HIDE DEF f, full, pad
<1>4. ASSUME NEW i \in 0 .. n - 1 PROVE GetKeyStream(f, full)[pad + i] = pos + i
  <2>1. pad + i \in 0 .. full - 1 BY <1>2
  <2>2. GetKeyStream(f, full)[pad + i] = f + (pad + i) BY <2>1, <1>1, <1>2, GetRight
  <2> QED BY <2>2, <1>2
<1> QED BY <1>3, <1>4

\* Every packet that was accepted is deciphered with the stream the console
\* enciphered it with, whenever its turn comes (decrypt).
THEOREM AlwaysRightStream == Spec => []RightStream
<1>1. IInv => RightStream
  <2>1. SUFFICES ASSUME IInv, NEW pk \in pending
                 PROVE  Deciphering(pk.pos + Block, pk.len) =
                          [i \in 0 .. pk.len - 1 |-> pk.sent + Block + i]
    BY DEF RightStream
  <2>2. /\ pk \in Packet /\ pk.pos = pk.sent
    BY <2>1 DEF IInv, TypeOK, Kept
  <2>3. pk.pos + Block \in Nat /\ pk.len \in Nat
    BY <2>2, KeyStreamAssumption DEF Packet
  <2> QED BY <2>1, <2>2, <2>3, DecipheringRight
<1> QED BY <1>1, Invariant, PTL

\* No undamaged packet that is near the last one is refused, whatever order
\* packets, damaged packets and GMAC keys come in (request_pos, gmac).
THEOREM AlwaysNearAccepted == Spec => []NearAccepted
<1>1. IInv => NearAccepted
  <2>1. SUFFICES ASSUME IInv, NEW p \in 0 .. MaxPos, p - prev \in 1 - KeyHalf .. KeyHalf - 1
                 PROVE  MacMatches(p)
    BY DEF NearAccepted
  <2>2. p \in Nat /\ prev \in Nat BY <2>1, KeyStreamAssumption DEF IInv, TypeOK
  <2>3. RequestPos(prev, p % KeyMod) = p BY <2>1, <2>2, RequestPosNear
  <2>4. GmacKey(gmac, p) = KeyIndex(p) BY <2>1, GmacKeyRight DEF IInv, Kept
  <2> QED BY <2>3, <2>4 DEF MacMatches
<1> QED BY <1>1, Invariant, PTL

-----------------------------------------------------------------------------
(* TakionAv: the queue of video packets and its wait.                      *)

\* Behind a gap there is a packet, which a skip makes the head.
LEMMA SkipEnds ==
  ASSUME NEW num, Numbers(num),
         NEW w, Tidy(w, num), EndsSet(w), Occupied(w), w.count > 0
  PROVE  LET i == FirstBuffered(w)
             r == SkipHead(w, i)
         IN /\ i \in Offsets(w)
            /\ Tidy(r, num) /\ EndsSet(r) /\ Occupied(r)
            /\ r.begin = At(w, i)
            /\ r.count > 0 /\ SlotAt(r, 0).set
<1> DEFINE i == FirstBuffered(w)
           r == SkipHead(w, i)
           T == {j \in Offsets(w) : Peek(w, j) # NoUser}
<1>1. /\ w \in Queues(num) /\ w.begin \in SeqNums /\ w.count \in 0 .. QSize
      /\ QSize \in Nat /\ QSize > 1 /\ QSize < SeqHalf /\ SeqHalf \in Nat
      /\ SeqMod = 2 * SeqHalf
  BY QSizeAssumption, SeqHalfAssumption DEF Tidy, Queues, SeqMod
<1>2. \A j \in 0 .. QSize : Idx(At(w, j)) \in SlotIds BY <1>1, SlotAtType
<1>3. w.count - 1 \in T
  <2>1. w.count - 1 \in Offsets(w) /\ w.count - 1 \in 0 .. QSize /\ w.count - 1 < w.count
    BY <1>1 DEF Offsets
  <2>2. SlotAt(w, w.count - 1).set BY DEF EndsSet
  <2>3. SlotAt(w, w.count - 1).user # NoUser BY <2>1, <2>2, <1>2 DEF Occupied, SlotAt
  <2> QED BY <2>1, <2>2, <2>3 DEF Peek
<1>4. T \subseteq Nat BY <1>1 DEF Offsets
<1> HIDE DEF T
<1>5. PICK m \in T : \A j \in T : m <= j BY <1>3, <1>4, NatMin
<1>6. m \in Offsets(w) /\ Peek(w, m) # NoUser BY <1>5 DEF T
<1>7. ASSUME NEW j \in 0 .. m - 1 PROVE Peek(w, j) = NoUser
  <2>1. j \in Offsets(w) /\ j \notin T BY <1>1, <1>5, <1>6 DEF Offsets
  <2> QED BY <2>1 DEF T
<1>8. /\ i \in Offsets(w) /\ Peek(w, i) # NoUser
      /\ \A j \in 0 .. i - 1 : Peek(w, j) = NoUser
  BY <1>6, <1>7 DEF FirstBuffered
<1> HIDE DEF i
<1>9. Tidy(r, num) BY <1>8, TidySkip
<1>10. r.begin = At(w, i) /\ r.count = w.count - i /\ r.slots = w.slots
  BY <1>1 DEF SkipHead, Queues
<1>11. i \in 0 .. w.count - 1 BY <1>8 DEF Offsets
<1>12. r.count > 0 BY <1>1, <1>10, <1>11
<1>13. ASSUME NEW j \in Nat, i + j < w.count PROVE SlotAt(r, j) = SlotAt(w, i + j)
  <2>1. i \in 0 .. SeqMod - 1 /\ j \in 0 .. SeqMod - 1 /\ i + j <= SeqMod
    BY <1>1, <1>11, <1>13
  <2>2. At(r, j) = At(w, i + j) BY <2>1, <1>1, <1>10, SeqAddTwice DEF At
  <2> QED BY <2>2, <1>10 DEF SlotAt
<1>14. SlotAt(r, 0).set
  <2>1. i + 0 = i /\ i + 0 < w.count BY <1>1, <1>11
  <2>2. SlotAt(w, i).set BY <1>8 DEF Peek
  <2> QED BY <2>1, <2>2, <1>13
<1>15. EndsSet(r)
  <2>1. r.count - 1 \in Nat /\ i + (r.count - 1) = w.count - 1 /\ i + (r.count - 1) < w.count
    BY <1>1, <1>10, <1>11
  <2>2. SlotAt(r, r.count - 1) = SlotAt(w, w.count - 1) BY <2>1, <1>13
  <2> QED BY <2>2 DEF EndsSet
<1>16. Occupied(r) BY <1>10 DEF Occupied
<1> HIDE DEF r
<1> QED BY <1>8, <1>9, <1>10, <1>12, <1>14, <1>15, <1>16 DEF i, r

\* The number each packet is pushed under.
PacketNumber == [n \in VideoPackets |-> IndexOf(n)]

\* What the queue's record may hold: the types of VideoTypeOK.
AvStates == [started : BOOLEAN, q : Queues(PacketNumber),
             wait : 0 .. Timeout + 1 \cup {Off}, waitSeq : SeqNums, fired : Seq(VideoPackets)]

\* Between two calls: a tidy window that ends with a packet, every slot set with one in it.
Whole(w) == Tidy(w, PacketNumber) /\ EndsSet(w) /\ Occupied(w)

\* Between two datagrams: a wait is running exactly when something is buffered, behind a
\* gap, and it is for that gap.
Settled(s) == /\ s.wait # Off <=> s.q.count > 0
              /\ s.q.count > 0 => ~SlotAt(s.q, 0).set
              /\ s.wait # Off => s.waitSeq = s.q.begin

\* PacketNumber numbers the packets.
LEMMA PacketNumbers == Numbers(PacketNumber) /\ DOMAIN PacketNumber = VideoPackets
<1>1. ASSUME NEW n \in VideoPackets PROVE IndexOf(n) \in SeqNums
  BY VideoAssumption, SeqHalfAssumption DEF VideoPackets, IndexOf, SeqAdd, SeqNums, SeqMod
<1> QED BY <1>1, VideoAssumption DEF PacketNumber, Numbers, VideoPackets

\* The fields of a state of the queue.
LEMMA AvFields ==
  ASSUME NEW s \in AvStates
  PROVE  /\ s.q \in Queues(PacketNumber) /\ s.q.begin \in SeqNums /\ s.q.count \in Nat
         /\ s.wait \in 0 .. Timeout + 1 \cup {Off} /\ s.waitSeq \in SeqNums
         /\ s.fired \in Seq(VideoPackets) /\ Len(s.fired) \in Nat /\ s.started \in BOOLEAN
BY QSizeAssumption DEF AvStates, Queues

\* What pulling until nothing comes leaves: no head, or a missing one; a wait that ran
\* stops when something was pulled.
LEMMA PullAllIs ==
  ASSUME NEW s \in AvStates, Whole(s.q)
  PROVE  LET p == PullAll(s)
         IN /\ p \in AvStates /\ Whole(p.q) /\ p.waitSeq = s.waitSeq /\ p.started = s.started
            /\ p.q.count > 0 => ~SlotAt(p.q, 0).set
            /\ Run(s.q) \in Nat /\ Len(p.fired) = Len(s.fired) + Run(s.q)
            /\ Run(s.q) = 0 => p.q = s.q /\ p.fired = s.fired /\ p.wait = s.wait
            /\ Run(s.q) > 0 => p.wait = Off
            /\ s.q.count > 0 /\ SlotAt(s.q, 0).set => Run(s.q) > 0
<1> DEFINE p == PullAll(s)
           k == Run(s.q)
<1>1. /\ s.q \in Queues(PacketNumber) /\ s.q.count \in Nat /\ s.fired \in Seq(VideoPackets)
      /\ Numbers(PacketNumber) /\ DOMAIN PacketNumber = VideoPackets
      /\ Tidy(s.q, PacketNumber)
  BY AvFields, PacketNumbers DEF Whole
<1>2. k \in Nat BY <1>1, RunIs
<1>3. Taken(s.q) \in Seq(VideoPackets) /\ Len(Taken(s.q)) = k BY <1>1, TakenIs
<1>4. Whole(Drained(s.q))
  <2>1. \E n : Tidy(Drained(s.q), PacketNumber) BY <1>1, DrainedIs
  <2> QED BY <2>1, <1>1, DrainedEnds DEF Whole
<1>5. /\ Drained(s.q).count > 0 => ~SlotAt(Drained(s.q), 0).set
      /\ k = 0 => Drained(s.q) = s.q
      /\ PullMoves(s.q) <=> k > 0
  BY <1>1, DrainedEnds DEF Whole
<1> HIDE DEF k
<1>6. p = [s EXCEPT !.q = Drained(s.q), !.fired = @ \o Taken(s.q),
                    !.wait = IF k > 0 THEN Off ELSE @] BY DEF PullAll, k
<1>7. Drained(s.q) \in Queues(PacketNumber) BY <1>4 DEF Whole, Tidy
<1> HIDE DEF p
<1>8. /\ p.q = Drained(s.q) /\ p.fired = s.fired \o Taken(s.q)
      /\ p.wait = IF k > 0 THEN Off ELSE s.wait
      /\ p.waitSeq = s.waitSeq /\ p.started = s.started
  BY <1>6 DEF AvStates
<1>9. p.fired \in Seq(VideoPackets) /\ Len(p.fired) = Len(s.fired) + k
  BY <1>1, <1>3, <1>8, ConcatProperties
<1>10. k = 0 => p.fired = s.fired
  <2>1. k = 0 => Taken(s.q) = << >> BY <1>3, EmptySeq
  <2> QED BY <2>1, <1>1, <1>8, ConcatEmptySeq
<1>11. p \in AvStates BY <1>6, <1>7, <1>9, <1>8 DEF AvStates
<1>12. s.q.count > 0 /\ SlotAt(s.q, 0).set => k > 0 BY <1>5 DEF PullMoves
<1>13. k > 0 => p.wait = Off BY <1>8
<1>14. k = 0 => p.wait = s.wait BY <1>8
<1>15. k = 0 => p.q = s.q BY <1>5, <1>8
<1>16. p.q.count > 0 => ~SlotAt(p.q, 0).set BY <1>5, <1>8
<1>17. Whole(p.q) BY <1>4, <1>8
<1> QED BY <1>2, <1>8, <1>9, <1>10, <1>11, <1>12, <1>13, <1>14, <1>15, <1>16, <1>17 DEF k, p

\* The wait for a head, which goes on when the head moved on.
LEMMA TrackHeadIs ==
  ASSUME NEW s \in AvStates
  PROVE  LET t == TrackHead(s)
         IN /\ t \in AvStates /\ t.q = s.q /\ t.fired = s.fired /\ t.started = s.started
            /\ t.wait \in 0 .. Timeout + 1 /\ t.waitSeq = s.q.begin
            /\ s.wait = Off => t.wait = 0
            /\ s.wait # Off /\ (s.q.begin = s.waitSeq \/ SeqGt(s.q.begin, s.waitSeq)) =>
                 t.wait = s.wait
<1>1. /\ s.q.begin \in SeqNums /\ s.wait \in 0 .. Timeout + 1 \cup {Off}
      /\ Timeout \in Nat /\ Off \notin Nat
  BY AvFields, VideoAssumption
<1>0. 0 \in 0 .. Timeout + 1 BY <1>1
<1>2. /\ StartWait(s) \in AvStates /\ StartWait(s).q = s.q /\ StartWait(s).fired = s.fired
      /\ StartWait(s).started = s.started
      /\ StartWait(s).wait = 0 /\ StartWait(s).waitSeq = s.q.begin
  BY <1>0, <1>1 DEF StartWait, AvStates
<1> DEFINE m == [s EXCEPT !.waitSeq = s.q.begin]
<1>3. /\ m \in AvStates /\ m.q = s.q /\ m.fired = s.fired /\ m.started = s.started
      /\ m.wait = s.wait /\ m.waitSeq = s.q.begin
  BY <1>1 DEF AvStates
<1>4. TrackHead(s) = IF s.wait = Off THEN StartWait(s)
                     ELSE IF s.q.begin = s.waitSeq THEN s
                     ELSE IF SeqGt(s.q.begin, s.waitSeq) THEN m
                     ELSE StartWait(s) BY DEF TrackHead
<1> HIDE DEF m
<1> QED BY <1>0, <1>1, <1>2, <1>3, <1>4

\* A skip leaves a head that is there.
LEMMA SkipIs ==
  ASSUME NEW s \in AvStates, Whole(s.q), s.q.count > 0
  PROVE  LET r == SkipToBuffered(s)
         IN /\ r \in AvStates /\ Whole(r.q) /\ r.wait = Off /\ r.fired = s.fired
            /\ r.started = s.started
            /\ r.q.count > 0 /\ SlotAt(r.q, 0).set
<1> DEFINE w == SkipHead(s.q, FirstBuffered(s.q))
<1>1. Tidy(w, PacketNumber) /\ EndsSet(w) /\ Occupied(w) /\ w.count > 0 /\ SlotAt(w, 0).set
  BY PacketNumbers, SkipEnds DEF Whole
<1>2. w \in Queues(PacketNumber) BY <1>1 DEF Tidy
<1> HIDE DEF w
<1>3. SkipToBuffered(s) = [s EXCEPT !.q = w, !.wait = Off] BY DEF SkipToBuffered, w
<1> QED BY <1>1, <1>2, <1>3 DEF AvStates, Whole

\* What a flush leaves, and what it does to a wait that is running.
LEMMA FlushIs ==
  ASSUME NEW s \in AvStates, Whole(s.q), s.q.count = 0 => s.wait = Off
  PROVE  LET r == Flush(s)
         IN /\ r \in AvStates /\ Whole(r.q) /\ Settled(r) /\ r.started = s.started
            /\ r.fired = s.fired \/ Len(r.fired) > Len(s.fired)
            /\ s.q.count > 0 /\ SlotAt(s.q, 0).set => Len(r.fired) > Len(s.fired)
            /\ s.wait # Off /\ s.waitSeq = s.q.begin /\ s.wait > Timeout =>
                 Len(r.fired) > Len(s.fired)
            /\ /\ s.wait # Off /\ r.wait # Off /\ r.fired = s.fired
               /\ s.q.begin = s.waitSeq \/ SeqGt(s.q.begin, s.waitSeq)
               => r.wait = s.wait
<1> DEFINE p == PullAll(s)
           t == TrackHead(p)
           b == PullAll(SkipToBuffered(t))
           r == Flush(s)
<1>1. Timeout \in Nat /\ Off \notin Nat BY VideoAssumption
<1>2. /\ p \in AvStates /\ Whole(p.q) /\ p.waitSeq = s.waitSeq /\ p.started = s.started
      /\ p.q.count > 0 => ~SlotAt(p.q, 0).set
      /\ Run(s.q) \in Nat /\ Len(p.fired) = Len(s.fired) + Run(s.q)
      /\ Run(s.q) = 0 => p.q = s.q /\ p.fired = s.fired /\ p.wait = s.wait
      /\ Run(s.q) > 0 => p.wait = Off
      /\ s.q.count > 0 /\ SlotAt(s.q, 0).set => Run(s.q) > 0
  BY PullAllIs
<1> HIDE DEF p
<1>3. /\ t \in AvStates /\ t.q = p.q /\ t.fired = p.fired /\ t.started = p.started
      /\ t.wait \in 0 .. Timeout + 1 /\ t.waitSeq = p.q.begin
      /\ p.wait = Off => t.wait = 0
      /\ p.wait # Off /\ (p.q.begin = p.waitSeq \/ SeqGt(p.q.begin, p.waitSeq)) =>
           t.wait = p.wait
  BY <1>2, TrackHeadIs
<1> HIDE DEF t
<1>4. /\ Len(s.fired) \in Nat /\ p.q.count \in Nat /\ s.q.count \in Nat
      /\ s.wait \in 0 .. Timeout + 1 \cup {Off}
  BY <1>2, AvFields
<1>5. r = IF p.q.count = 0 THEN p
          ELSE IF t.wait <= Timeout THEN t
          ELSE IF b.q.count = 0 THEN b
          ELSE TrackHead(b) BY DEF Flush, p, t
<1> HIDE DEF r
<1>6. CASE p.q.count = 0
  <2>1. r = p BY <1>5, <1>6
  <2>2. Run(s.q) = 0 => p.wait = Off /\ s.q.count = 0 BY <1>2, <1>6
  <2>3. p.wait = Off BY <1>2, <2>2
  <2>4. Settled(p) BY <1>6, <2>3 DEF Settled
  <2>5. Run(s.q) > 0 => Len(p.fired) > Len(s.fired) BY <1>2, <1>4
  <2>6. s.wait # Off => Run(s.q) > 0 BY <1>2, <1>6
  <2> HIDE DEF r
  <2> QED BY <2>1, <2>3, <2>4, <2>5, <2>6, <1>2 DEF r
<1>7. CASE p.q.count # 0 /\ t.wait <= Timeout
  <2>1. r = t BY <1>5, <1>7
  <2>2. Settled(t) BY <1>1, <1>2, <1>3, <1>4, <1>7 DEF Settled
  <2>3. Run(s.q) > 0 => Len(t.fired) > Len(s.fired) BY <1>2, <1>3, <1>4
  <2>4. ASSUME Run(s.q) = 0, s.wait # Off, s.q.begin = s.waitSeq \/ SeqGt(s.q.begin, s.waitSeq)
        PROVE  t.wait = s.wait
    BY <2>4, <1>2, <1>3
  <2>5. Run(s.q) = 0 => t.fired = s.fired BY <1>2, <1>3
  <2>6. Run(s.q) = 0 \/ Run(s.q) > 0 BY <1>2
  <2>7. t.fired = s.fired => Run(s.q) = 0 BY <2>3, <2>6, <1>4
  <2>8. s.wait # Off /\ s.waitSeq = s.q.begin /\ s.wait > Timeout => Run(s.q) > 0
    <3>1. SUFFICES ASSUME s.wait # Off, s.waitSeq = s.q.begin, s.wait > Timeout, Run(s.q) = 0
                   PROVE FALSE BY <2>6
    <3>2. t.wait = s.wait BY <3>1, <2>4
    <3>3. t.wait \in Nat BY <1>3, <1>1
    <3> QED BY <3>1, <3>2, <3>3, <1>7, <1>1
  <2> QED BY <2>1, <2>2, <2>3, <2>4, <2>5, <2>6, <2>7, <2>8, <1>2, <1>3 DEF r
<1>8. CASE p.q.count # 0 /\ ~(t.wait <= Timeout)
  <2> DEFINE k == SkipToBuffered(t)
  <2>1. p.wait # Off BY <1>1, <1>3, <1>8
  <2>2. Run(s.q) = 0 BY <1>2, <2>1
  <2>3. t.q.count > 0 /\ Whole(t.q) BY <1>2, <1>3, <1>4, <1>8
  <2>4. /\ k \in AvStates /\ Whole(k.q) /\ k.wait = Off /\ k.fired = t.fired
        /\ k.started = t.started /\ k.q.count > 0 /\ SlotAt(k.q, 0).set
    BY <2>3, <1>3, SkipIs
  <2> HIDE DEF k
  <2>5. b = PullAll(k) BY DEF k
  <2> HIDE DEF b
  <2>6. /\ b \in AvStates /\ Whole(b.q) /\ b.started = k.started
        /\ b.q.count > 0 => ~SlotAt(b.q, 0).set
        /\ Run(k.q) \in Nat /\ Len(b.fired) = Len(k.fired) + Run(k.q)
        /\ Run(k.q) > 0 /\ b.wait = Off
    BY <2>4, <2>5, PullAllIs
  <2>7. Len(b.fired) > Len(s.fired) BY <2>2, <2>4, <2>6, <1>2, <1>3, <1>4
  <2>8. b.q.count \in Nat BY <2>6, AvFields
  <2>9. CASE b.q.count = 0
    <3>1. r = b BY <1>5, <1>8, <2>9
    <3>2. Settled(b) BY <2>6, <2>9 DEF Settled
    <3>3. b.started = s.started BY <2>4, <2>6, <1>2, <1>3
    <3> QED BY <3>1, <3>2, <3>3, <2>6, <2>7, <1>4 DEF r
  <2>10. CASE b.q.count # 0
    <3> DEFINE h == TrackHead(b)
    <3>1. r = h BY <1>5, <1>8, <2>10
    <3>2. /\ h \in AvStates /\ h.q = b.q /\ h.fired = b.fired /\ h.started = b.started
          /\ h.wait \in 0 .. Timeout + 1 /\ h.waitSeq = b.q.begin
      BY <2>6, TrackHeadIs
    <3> HIDE DEF h
    <3>3. Settled(h) BY <1>1, <2>6, <2>8, <2>10, <3>2 DEF Settled
    <3>4. h.started = s.started BY <2>4, <2>6, <3>2, <1>2, <1>3
    <3> QED BY <3>1, <3>2, <3>3, <3>4, <2>6, <2>7, <1>4 DEF r
  <2> QED BY <2>9, <2>10
<1> QED BY <1>6, <1>7, <1>8 DEF r

\* The inductive invariant of the video queue's wait.
VideoInv == /\ videoNet \subseteq VideoPackets /\ crypt \in BOOLEAN
            /\ postponed \in Seq(VideoPackets)
            /\ av \in AvStates /\ Whole(av.q) /\ Settled(av)
            /\ ~av.started => av.wait = Off

\* The number of an offset is later than the head's.
LEMMA OffsetIsLater ==
  ASSUME NEW b \in SeqNums, NEW n \in 0 .. QSize
  PROVE  SeqAdd(b, n) = b \/ SeqGt(SeqAdd(b, n), b)
BY SeqHalfAssumption, QSizeAssumption DEF SeqAdd, SeqGt, SeqLt, SeqNums, SeqMod

\* What a push leaves in a whole queue.
LEMMA PushIsWhole ==
  ASSUME NEW w, Whole(w), NEW p \in VideoPackets
  PROVE  LET r == Push(w, IndexOf(p), p, "Begin").queue
         IN /\ Whole(r)
            /\ w.count > 0 =>
                 /\ r.count > 0
                 /\ \/ SlotAt(r, 0).set
                    \/ r.begin = w.begin \/ SeqGt(r.begin, w.begin)
<1> DEFINE r == Push(w, IndexOf(p), p, "Begin").queue
<1>1. /\ Numbers(PacketNumber) /\ p \in DOMAIN PacketNumber /\ IndexOf(p) = PacketNumber[p]
      /\ Tidy(w, PacketNumber) /\ EndsSet(w) /\ Occupied(w)
  BY PacketNumbers DEF PacketNumber, Whole
<1>2. r = Push(w, PacketNumber[p], p, "Begin").queue BY <1>1
<1> HIDE DEF r
<1>3. Tidy(r, PacketNumber) BY <1>1, <1>2, TidyPush
<1>4. /\ EndsSet(r)
      /\ w.count > 0 => /\ r.count > 0
                        /\ SlotAt(r, 0).set \/ \E n \in 0 .. w.count : r.begin = At(w, n)
  BY <1>1, <1>2, PushEnds DEF Tidy, Queues
<1>5. Occupied(r)
  <2>1. \A k \in SlotIds : r.slots[k] \in {w.slots[k], EmptySlot, [set |-> TRUE, user |-> p]}
    BY <1>1, <1>2, PushHolds
  <2>2. p # NoUser BY <1>1 DEF Numbers
  <2> QED BY <1>1, <2>1, <2>2 DEF Occupied, EmptySlot
<1>6. ASSUME NEW n \in 0 .. w.count PROVE At(w, n) = w.begin \/ SeqGt(At(w, n), w.begin)
  <2>1. w.begin \in SeqNums /\ w.count \in 0 .. QSize BY <1>1 DEF Tidy, Queues
  <2>2. n \in 0 .. QSize BY <2>1, QSizeAssumption
  <2> QED BY <2>1, <2>2, OffsetIsLater DEF At
<1> QED BY <1>3, <1>4, <1>5, <1>6 DEF Whole, r

\* A new queue is whole and empty.
LEMMA NewIsWhole ==
  ASSUME NEW b \in SeqNums
  PROVE  Whole(NewQueue(b)) /\ NewQueue(b).count = 0
<1>1. Tidy(NewQueue(b), PacketNumber) BY PacketNumbers, TidyNew
<1>2. EndsSet(NewQueue(b)) /\ Occupied(NewQueue(b)) /\ NewQueue(b).count = 0
  BY DEF NewQueue, EndsSet, Occupied, EmptySlot
<1> QED BY <1>1, <1>2 DEF Whole

\* A packet that is handed on: what it leaves, and what it does to the wait.
LEMMA HandleAvIs ==
  ASSUME NEW s \in AvStates, Whole(s.q), Settled(s), ~s.started => s.wait = Off,
         NEW n \in VideoPackets
  PROVE  LET r == HandleAv(s, n)
         IN /\ r \in AvStates /\ Whole(r.q) /\ Settled(r) /\ r.started
            /\ s.wait # Off /\ r.wait # Off /\ r.fired = s.fired => r.wait >= s.wait
<1> DEFINE begin == IF UnitOf(n) <= IndexOf(n) THEN IndexOf(n) - UnitOf(n)
                    ELSE IndexOf(n) - UnitOf(n) + SeqMod
           ready == IF s.started THEN s
                    ELSE [s EXCEPT !.started = TRUE, !.q = NewQueue(begin),
                                   !.wait = Off, !.waitSeq = begin]
           w == Push(ready.q, IndexOf(n), n, "Begin").queue
           x == [ready EXCEPT !.q = w]
           r == Flush(x)
<1>1. begin \in SeqNums
  <2>1. IndexOf(n) \in SeqNums /\ n - 1 \in Nat
    BY PacketNumbers DEF Numbers, PacketNumber, VideoPackets
  <2>2. UnitOf(n) \in 0 .. Units - 1 BY <2>1, VideoAssumption, DivMod DEF UnitOf
  <2> QED BY <2>1, <2>2, VideoAssumption, SeqHalfAssumption DEF SeqNums, SeqMod
<1> HIDE DEF begin
<1>2. NewQueue(begin) \in Queues(PacketNumber) BY <1>1, NewIsWhole DEF Whole, Tidy
<1>3. /\ ready \in AvStates /\ Whole(ready.q) /\ ready.started
      /\ ready.q.count = 0 => ready.wait = Off
      /\ ready.wait # Off => ready.waitSeq = ready.q.begin
      /\ ready.fired = s.fired
      /\ s.wait # Off => ready.wait = s.wait
  <2>1. CASE s.started
    <3>1. s.q.count \in Nat BY AvFields
    <3> QED BY <2>1, <3>1 DEF Settled
  <2>2. CASE ~s.started
    <3>1. ready = [s EXCEPT !.started = TRUE, !.q = NewQueue(begin),
                            !.wait = Off, !.waitSeq = begin] BY <2>2
    <3> HIDE DEF ready
    <3>2. /\ ready \in AvStates /\ ready.q = NewQueue(begin) /\ ready.started
          /\ ready.wait = Off /\ ready.fired = s.fired
      BY <3>1, <1>1, <1>2 DEF AvStates
    <3>3. Whole(ready.q) BY <3>2, <1>1, NewIsWhole
    <3> QED BY <2>2, <3>2, <3>3
  <2> QED BY <2>1, <2>2
<1> HIDE DEF ready
<1>4. /\ Whole(w)
      /\ ready.q.count > 0 =>
           /\ w.count > 0
           /\ \/ SlotAt(w, 0).set
              \/ w.begin = ready.q.begin \/ SeqGt(w.begin, ready.q.begin)
  BY <1>3, PushIsWhole
<1> HIDE DEF w
<1>5. w \in Queues(PacketNumber) BY <1>4 DEF Whole, Tidy
<1>6. /\ x \in AvStates /\ x.q = w /\ x.wait = ready.wait /\ x.waitSeq = ready.waitSeq
      /\ x.fired = ready.fired /\ x.started = ready.started
  BY <1>3, <1>5 DEF AvStates
<1>7. HandleAv(s, n) = r BY DEF HandleAv, ready, x, w, begin
<1> HIDE DEF x
<1>8. ready.q.count \in Nat BY <1>3, AvFields
<1>9. ready.wait # Off => ready.q.count > 0 BY <1>3, <1>8
<1>10. x.q.count = 0 => x.wait = Off BY <1>4, <1>6, <1>9
<1>11. /\ r \in AvStates /\ Whole(r.q) /\ Settled(r) /\ r.started = x.started
       /\ r.fired = x.fired \/ Len(r.fired) > Len(x.fired)
       /\ x.q.count > 0 /\ SlotAt(x.q, 0).set => Len(r.fired) > Len(x.fired)
       /\ /\ x.wait # Off /\ r.wait # Off /\ r.fired = x.fired
          /\ x.q.begin = x.waitSeq \/ SeqGt(x.q.begin, x.waitSeq)
          => r.wait = x.wait
  BY <1>4, <1>6, <1>10, FlushIs
<1> HIDE DEF r
<1>12. ASSUME s.wait # Off, r.wait # Off, r.fired = s.fired PROVE r.wait >= s.wait
  <2>1. /\ x.wait = s.wait /\ x.wait # Off /\ r.fired = x.fired /\ ready.q.count > 0
    BY <1>12, <1>3, <1>6, <1>9
  <2>2. Len(x.fired) \in Nat BY <1>6, AvFields
  <2>3. ~SlotAt(x.q, 0).set BY <2>1, <2>2, <1>4, <1>6, <1>11
  <2>4. x.q.begin = x.waitSeq \/ SeqGt(x.q.begin, x.waitSeq)
    BY <2>1, <2>3, <1>3, <1>4, <1>6
  <2>5. r.wait = s.wait BY <2>1, <2>4, <1>11, <1>12
  <2>6. s.wait \in Int BY <1>12, AvFields
  <2> QED BY <2>5, <2>6
<1> QED BY <1>3, <1>6, <1>7, <1>11, <1>12

\* No packet has come.
LEMMA InitVideoInv == VideoInit => VideoInv
<1> SUFFICES ASSUME VideoInit PROVE VideoInv OBVIOUS
<1>1. 0 \in SeqNums BY SeqHalfAssumption DEF SeqNums, SeqMod
<1>2. Whole(NewQueue(0)) /\ NewQueue(0).count = 0 BY <1>1, NewIsWhole
<1>3. NewQueue(0) \in Queues(PacketNumber) BY <1>2 DEF Whole, Tidy
<1>4. /\ av = [started |-> FALSE, q |-> NewQueue(0), wait |-> Off, waitSeq |-> 0,
               fired |-> <<>>]
      /\ videoNet = VideoPackets /\ crypt = FALSE /\ postponed = <<>>
  BY DEF VideoInit
<1>5. av \in AvStates BY <1>1, <1>3, <1>4 DEF AvStates
<1>6. Settled(av) BY <1>2, <1>4 DEF Settled
<1>7. postponed \in Seq(VideoPackets) BY <1>4
<1> QED BY <1>2, <1>4, <1>5, <1>6, <1>7 DEF VideoInv

\* While nothing is handed on, the wait is not prolonged.
WaitKept == av.wait # Off /\ av'.wait # Off /\ av'.fired = av.fired => av'.wait >= av.wait

\* A flush after the timeout hands on a packet.
LEMMA TimeoutFires ==
  ASSUME VideoInv, TimeoutFlush, av.wait > Timeout
  PROVE  Len(av'.fired) > Len(av.fired)
<1> DEFINE s == av
           r == Flush(s)
<1>1. /\ s \in AvStates /\ Whole(s.q) /\ Settled(s) /\ s.wait # Off /\ av' = r
      /\ s.q.count > 0 /\ s.waitSeq = s.q.begin
  BY DEF VideoInv, TimeoutFlush, TimedOut, Settled
<1>2. Len(r.fired) > Len(s.fired) BY <1>1, FlushIs
<1> HIDE DEF r
<1> QED BY <1>1, <1>2

\* Any step that hands on a packet.
LEMMA HandleKeepsVideoInv ==
  ASSUME VideoInv, NEW n \in VideoPackets, av' = HandleAv(av, n),
         videoNet' \subseteq VideoPackets, crypt' \in BOOLEAN, postponed' \in Seq(VideoPackets)
  PROVE  VideoInv' /\ WaitKept
<1> DEFINE s == av
           r == HandleAv(s, n)
<1>1. s \in AvStates /\ Whole(s.q) /\ Settled(s) /\ (~s.started => s.wait = Off)
  BY DEF VideoInv
<1>2. /\ r \in AvStates /\ Whole(r.q) /\ Settled(r) /\ r.started
      /\ s.wait # Off /\ r.wait # Off /\ r.fired = s.fired => r.wait >= s.wait
  BY <1>1, HandleAvIs
<1>3. av' = r OBVIOUS
<1> HIDE DEF r
<1> QED BY <1>2, <1>3 DEF VideoInv, WaitKept, Whole, Settled, Tidy, TidySlot, EndsSet, Occupied, SlotAt

\* Every step keeps the invariant and does not prolong the wait.
LEMMA KeepsVideoInv ==
  ASSUME VideoInv, VideoNext
  PROVE  VideoInv' /\ WaitKept
<1>1. /\ av \in AvStates /\ Whole(av.q) /\ Settled(av) /\ (~av.started => av.wait = Off)
      /\ av.q.count \in Nat /\ av.wait \in 0 .. Timeout + 1 \cup {Off}
      /\ Timeout \in Nat /\ Off \notin Nat
      /\ videoNet \subseteq VideoPackets /\ crypt \in BOOLEAN /\ postponed \in Seq(VideoPackets)
  BY AvFields, VideoAssumption DEF VideoInv
<1>2. ASSUME UNCHANGED av, videoNet' \subseteq VideoPackets, crypt' \in BOOLEAN,
             postponed' \in Seq(VideoPackets)
      PROVE  VideoInv' /\ WaitKept
  <2>1. av.wait # Off => av.wait >= av.wait BY <1>1
  <2> QED BY <1>1, <1>2, <2>1 DEF VideoInv, WaitKept, Whole, Settled, Tidy, TidySlot, EndsSet,
                            Occupied, SlotAt
<1>3. ASSUME NEW n \in VideoPackets, NEW again \in BOOLEAN, ReceiveVideo(n, again)
      PROVE  VideoInv' /\ WaitKept
  <2>1. videoNet' \subseteq VideoPackets /\ crypt' \in BOOLEAN BY <1>1, <1>3 DEF ReceiveVideo
  <2>2. CASE crypt
    <3>1. av' = HandleAv(av, n) /\ postponed' = postponed BY <1>3, <2>2 DEF ReceiveVideo
    <3> QED BY <3>1, <2>1, <1>1, HandleKeepsVideoInv
  <2>3. CASE ~crypt
    <3>1. UNCHANGED av /\ postponed' = IF Len(postponed) < PostponeSize
                                      THEN Append(postponed, n) ELSE postponed
      BY <1>3, <2>3 DEF ReceiveVideo
    <3>2. postponed' \in Seq(VideoPackets) BY <3>1, <1>1, AppendProperties
    <3> QED BY <3>1, <3>2, <2>1, <1>2
  <2> QED BY <2>2, <2>3
<1>4. ASSUME NEW n \in VideoPackets, LoseVideo(n) PROVE VideoInv' /\ WaitKept
  BY <1>1, <1>2, <1>4 DEF LoseVideo
<1>5. CASE KeysInstalled BY <1>1, <1>2, <1>5 DEF KeysInstalled
<1>6. CASE FlushPostponed
  <2>1. /\ postponed # << >> /\ av' = HandleAv(av, Head(postponed))
        /\ postponed' = Tail(postponed) /\ UNCHANGED <<videoNet, crypt>>
    BY <1>6 DEF FlushPostponed
  <2>2. Head(postponed) \in VideoPackets /\ postponed' \in Seq(VideoPackets)
    BY <2>1, <1>1, HeadTailProperties
  <2> QED BY <2>1, <2>2, <1>1, HandleKeepsVideoInv
<1>7. CASE TimeoutFlush
  <2> DEFINE s == av
             r == Flush(s)
  <2>1. /\ s \in AvStates /\ Whole(s.q) /\ Settled(s) /\ s.wait # Off /\ av' = r
        /\ s.q.count > 0 /\ s.waitSeq = s.q.begin /\ (~s.started => s.wait = Off)
        /\ UNCHANGED <<videoNet, crypt, postponed>>
    BY <1>1, <1>7 DEF TimeoutFlush, TimedOut, Settled
  <2>2. /\ r \in AvStates /\ Whole(r.q) /\ Settled(r) /\ r.started = s.started
        /\ r.wait # Off /\ r.fired = s.fired => r.wait = s.wait
    BY <2>1, <1>1, FlushIs
  <2> HIDE DEF r
  <2>3. s.wait \in Int BY <1>1, <2>1
  <2>4. WaitKept BY <2>1, <2>2, <2>3 DEF WaitKept
  <2>5. VideoInv'
    BY <1>1, <2>1, <2>2 DEF VideoInv, Whole, Settled, Tidy, TidySlot, EndsSet, Occupied, SlotAt
  <2> QED BY <2>4, <2>5
<1>8. CASE Tick
  <2>1. /\ av.wait # Off /\ av.wait <= Timeout /\ av' = [av EXCEPT !.wait = @ + 1]
        /\ UNCHANGED <<videoNet, crypt, postponed>>
    BY <1>8 DEF Tick
  <2>2. av.wait + 1 \in 0 .. Timeout + 1 /\ av.wait \in Int BY <1>1, <2>1
  <2>3. /\ av' \in AvStates /\ av'.q = av.q /\ av'.wait = av.wait + 1
        /\ av'.waitSeq = av.waitSeq /\ av'.started = av.started
    BY <1>1, <2>1, <2>2 DEF AvStates
  <2>4. WaitKept BY <2>2, <2>3 DEF WaitKept
  <2>5. av'.wait # Off BY <1>1, <2>2, <2>3
  <2>6. VideoInv'
    BY <1>1, <2>1, <2>3, <2>5 DEF VideoInv, Whole, Settled, Tidy, TidySlot, EndsSet, Occupied,
                                  SlotAt
  <2> QED BY <2>4, <2>6
<1> QED BY <1>3, <1>4, <1>5, <1>6, <1>7, <1>8 DEF VideoNext

\* The packet of an index is known by it, and the serial order of two indices is the
\* order of the packets.
LEMMA IndexIsNumber ==
  ASSUME NEW a \in 1 .. LastVideo + 1, NEW b \in 1 .. LastVideo + 1
  PROVE  /\ IndexOf(a) \in SeqNums
         /\ IndexOf(a) = IndexOf(b) => a = b
         /\ b < a => SeqLt(IndexOf(b), IndexOf(a))
<1>1. /\ SeqHalf \in Nat /\ LastVideo \in Nat /\ LastVideo < SeqHalf
      /\ FirstIndex \in SeqNums /\ SeqMod = 2 * SeqHalf
  BY VideoAssumption, SeqHalfAssumption DEF SeqMod
<1>2. a - 1 \in 0 .. SeqHalf - 1 /\ b - 1 \in 0 .. SeqHalf - 1
      /\ a - 1 \in 0 .. SeqMod - 1 /\ b - 1 \in 0 .. SeqMod - 1 BY <1>1
<1>3. IndexOf(a) \in SeqNums /\ IndexOf(b) \in SeqNums BY <1>1, <1>2, SeqAddType DEF IndexOf
<1>4. IndexOf(a) = IndexOf(b) => a = b
  <2>1. HAVE IndexOf(a) = IndexOf(b)
  <2>2. SeqDist(FirstIndex, IndexOf(a)) = a - 1 /\ SeqDist(FirstIndex, IndexOf(b)) = b - 1
    BY <1>1, <1>2, SeqDistAdd DEF IndexOf
  <2> QED BY <2>1, <2>2
<1>5. b < a => SeqLt(IndexOf(b), IndexOf(a))
  <2>1. HAVE b < a
  <2>2. SeqDist(IndexOf(b), IndexOf(a)) = a - b
    BY <1>1, <1>2, <2>1, SeqDistOffsets DEF IndexOf
  <2>3. a - b \in 1 .. SeqHalf - 1 BY <2>1, <1>1
  <2> QED BY <1>3, <2>2, <2>3, SeqLtDist
<1> QED BY <1>3, <1>4, <1>5

\* Where the window is among the packets: before packet b.
Before(w, b) == b \in 1 .. LastVideo + 1 /\ w.begin = IndexOf(b)

\* The window ends among the packets, and a packet in it is the one of its offset.
LEMMA WindowIsAmong ==
  ASSUME NEW w, Whole(w), NEW b, Before(w, b)
  PROVE  /\ w.count \in Nat /\ b + w.count <= LastVideo + 1
         /\ \A i \in Offsets(w) : At(w, i) = IndexOf(b + i) /\ b + i \in VideoPackets
         /\ \A n \in 0 .. w.count : At(w, n) = IndexOf(b + n)
<1>1. /\ SeqHalf \in Nat /\ LastVideo \in Nat /\ LastVideo < SeqHalf
      /\ FirstIndex \in SeqNums /\ SeqMod = 2 * SeqHalf
      /\ QSize \in Nat /\ QSize < SeqHalf /\ w.count \in 0 .. QSize
      /\ b \in 1 .. LastVideo + 1 /\ w.begin = IndexOf(b) /\ Tidy(w, PacketNumber)
      /\ Numbers(PacketNumber) /\ DOMAIN PacketNumber = VideoPackets
      /\ w \in Queues(PacketNumber)
  BY VideoAssumption, SeqHalfAssumption, QSizeAssumption, PacketNumbers
     DEF SeqMod, Whole, Tidy, Queues, Before
<1>2. ASSUME NEW n \in 0 .. w.count PROVE At(w, n) = IndexOf(b + n)
  <2>1. b - 1 \in 0 .. SeqMod - 1 /\ n \in 0 .. SeqMod - 1 /\ (b - 1) + n <= SeqMod
        /\ (b - 1) + n = (b + n) - 1
    BY <1>1
  <2> QED BY <1>1, <2>1, SeqAddTwice DEF At, IndexOf
<1>3. ASSUME w.count > 0 PROVE b + w.count <= LastVideo + 1
  <2> DEFINE i == w.count - 1
             p == SlotAt(w, i).user
  <2>1. i \in 0 .. w.count /\ i \in 0 .. QSize /\ i \in Offsets(w) /\ SlotAt(w, i).set
    BY <1>1, <1>3 DEF Offsets, Whole, EndsSet
  <2>2. p \in DOMAIN PacketNumber \cup {NoUser} /\ Idx(At(w, i)) \in SlotIds
    BY <2>1, <1>1, SlotAtType
  <2>3. p # NoUser BY <2>1, <2>2 DEF Whole, Occupied, SlotAt
  <2>4. PacketNumber[p] = At(w, i) BY <2>1, <2>3, <1>1, WindowNumbers
  <2>5. p \in VideoPackets BY <2>2, <2>3, <1>1
  <2>6. IndexOf(p) = At(w, i) BY <2>4, <2>5 DEF PacketNumber
  <2>7. IndexOf(p) = IndexOf(b + i) BY <2>1, <2>6, <1>2
  <2> HIDE DEF i, p
  <2>8. p - 1 \in 0 .. SeqMod - 1 /\ (b + i) - 1 \in 0 .. SeqMod - 1
    BY <1>1, <1>3, <2>1, <2>5 DEF VideoPackets, i
  <2>9. SeqDist(FirstIndex, IndexOf(p)) = p - 1
        /\ SeqDist(FirstIndex, IndexOf(b + i)) = (b + i) - 1
    BY <1>1, <2>8, SeqDistAdd DEF IndexOf
  <2>10. p = b + i BY <2>7, <2>8, <2>9, <2>5, <1>1, <2>1 DEF VideoPackets
  <2> QED BY <2>10, <2>5, <1>1 DEF VideoPackets, i
<1>4. b + w.count <= LastVideo + 1 BY <1>1, <1>3
<1>5. ASSUME NEW i \in Offsets(w) PROVE At(w, i) = IndexOf(b + i) /\ b + i \in VideoPackets
  <2>1. i \in 0 .. w.count - 1 /\ i \in 0 .. w.count BY <1>1 DEF Offsets
  <2> QED BY <2>1, <1>1, <1>2, <1>4 DEF VideoPackets
<1> QED BY <1>1, <1>2, <1>4, <1>5

\* A packet at an offset of the window is the one it is expected to be.
LEMMA OffsetPacket ==
  ASSUME NEW w, Whole(w), NEW b, Before(w, b), NEW i \in Offsets(w), SlotAt(w, i).user # NoUser
  PROVE  SlotAt(w, i).user = b + i
<1> DEFINE p == SlotAt(w, i).user
<1>1. /\ Tidy(w, PacketNumber) /\ Numbers(PacketNumber) /\ DOMAIN PacketNumber = VideoPackets
      /\ w \in Queues(PacketNumber) /\ i \in 0 .. QSize
      /\ At(w, i) = IndexOf(b + i) /\ b + i \in VideoPackets
  BY PacketNumbers, WindowIsAmong, QSizeAssumption DEF Whole, Tidy, Queues, Offsets
<1>2. p \in VideoPackets BY <1>1, SlotAtType
<1>3. IndexOf(p) = IndexOf(b + i) BY <1>1, <1>2, WindowNumbers DEF PacketNumber
<1>4. p \in 1 .. LastVideo + 1 /\ b + i \in 1 .. LastVideo + 1
  BY <1>1, <1>2, VideoAssumption DEF VideoPackets
<1> HIDE DEF p
<1> QED BY <1>3, <1>4, IndexIsNumber DEF p

\* Handed on in order, and nothing that is still expected.
InOrder(f, b) == /\ \A i, j \in DOMAIN f : i < j => f[i] < f[j]
                 /\ \A i \in DOMAIN f : f[i] < b

\* What is pulled continues what was handed on, and the window moves past it.
LEMMA PullAllInOrder ==
  ASSUME NEW s \in AvStates, Whole(s.q), NEW b, Before(s.q, b), InOrder(s.fired, b)
  PROVE  LET p == PullAll(s)
         IN \E c \in Nat : c >= b /\ Before(p.q, c) /\ InOrder(p.fired, c)
<1> DEFINE p == PullAll(s)
           k == Run(s.q)
           t == Taken(s.q)
           f == s.fired
<1>1. /\ s.q \in Queues(PacketNumber) /\ s.q.count \in Nat /\ f \in Seq(VideoPackets)
      /\ Numbers(PacketNumber) /\ DOMAIN PacketNumber = VideoPackets
      /\ Tidy(s.q, PacketNumber) /\ EndsSet(s.q) /\ Occupied(s.q)
  BY AvFields, PacketNumbers DEF Whole
<1>2. k \in 0 .. s.q.count /\ Drained(s.q).begin = At(s.q, k) BY <1>1, RunIs, DrainedEnds
<1>3. /\ t \in Seq(VideoPackets) /\ Len(t) = k
      /\ \A i \in 1 .. k : t[i] \in Held(s.q) /\ PacketNumber[t[i]] = At(s.q, i - 1)
  BY <1>1, TakenIs
<1>4. p.q = Drained(s.q) /\ p.fired = f \o t BY DEF PullAll, AvStates
<1>5. /\ b \in 1 .. LastVideo + 1 /\ LastVideo \in Nat /\ b + s.q.count <= LastVideo + 1
      /\ \A n \in 0 .. s.q.count : At(s.q, n) = IndexOf(b + n)
  BY WindowIsAmong, VideoAssumption DEF Before
<1> HIDE DEF p, k, t
<1>6. ASSUME NEW i \in 1 .. k PROVE t[i] = b + i - 1
  <2>1. i - 1 \in 0 .. s.q.count /\ b + (i - 1) \in 1 .. LastVideo + 1 BY <1>1, <1>2, <1>5
  <2>2. t[i] \in VideoPackets BY <1>1, <1>3, HeldPackets
  <2>3. IndexOf(t[i]) = IndexOf(b + (i - 1)) BY <2>1, <2>2, <1>3, <1>5 DEF PacketNumber
  <2>4. t[i] \in 1 .. LastVideo + 1 BY <2>2, <1>5 DEF VideoPackets
  <2> QED BY <2>1, <2>3, <2>4, <1>5, IndexIsNumber
<1>7. Before(p.q, b + k) BY <1>1, <1>2, <1>4, <1>5 DEF Before
<1>8. /\ Len(f \o t) = Len(f) + k
      /\ \A i \in 1 .. Len(f) + k : (f \o t)[i] = IF i <= Len(f) THEN f[i] ELSE t[i - Len(f)]
  BY <1>1, <1>3, ConcatProperties
<1>9. InOrder(p.fired, b + k)
  <2> DEFINE g == p.fired
  <2>1. Len(f) \in Nat /\ k \in Nat /\ b \in Nat BY <1>1, <1>2, <1>5
  <2>2. DOMAIN g = 1 .. Len(f) + k /\ DOMAIN f = 1 .. Len(f) BY <1>1, <1>3, <1>4, <1>8
  <2>3. /\ \A i \in 1 .. Len(f) : g[i] = f[i]
        /\ \A i \in 1 .. Len(f) : f[i] \in Nat
    <3>1. \A i \in 1 .. Len(f) : f[i] \in VideoPackets BY <1>1, ElementOfSeq
    <3>2. \A i \in 1 .. Len(f) : i \in 1 .. Len(f) + k /\ i <= Len(f) BY <2>1
    <3> QED BY <3>1, <3>2, <1>4, <1>8 DEF VideoPackets
  <2>4. ASSUME NEW i \in DOMAIN g, i > Len(f) PROVE g[i] = b + (i - Len(f)) - 1
    <3>1. i - Len(f) \in 1 .. k /\ ~(i <= Len(f)) BY <2>1, <2>2, <2>4
    <3> QED BY <3>1, <2>2, <1>4, <1>6, <1>8
  <2> HIDE DEF g
  <2>5. ASSUME NEW i \in DOMAIN g PROVE g[i] < b + k
    <3>1. CASE i <= Len(f)
      <4>1. i \in DOMAIN f BY <3>1, <2>1, <2>2
      <4> QED BY <4>1, <2>1, <2>2, <2>3 DEF InOrder
    <3>2. CASE i > Len(f) BY <3>2, <2>1, <2>2, <2>4
    <3> QED BY <3>1, <3>2, <2>1, <2>2
  <2>6. ASSUME NEW i \in DOMAIN g, NEW j \in DOMAIN g, i < j PROVE g[i] < g[j]
    <3>1. CASE j <= Len(f)
      <4>1. i \in DOMAIN f /\ j \in DOMAIN f BY <3>1, <2>1, <2>2, <2>6
      <4> QED BY <4>1, <2>2, <2>3, <2>6 DEF InOrder
    <3>2. CASE i <= Len(f) /\ j > Len(f)
      <4>1. i \in DOMAIN f BY <3>2, <2>1, <2>2
      <4>2. g[i] = f[i] /\ f[i] < b /\ f[i] \in Nat BY <4>1, <2>2, <2>3 DEF InOrder
      <4>3. g[j] = b + (j - Len(f)) - 1 BY <3>2, <2>4
      <4> QED BY <3>2, <4>2, <4>3, <2>1, <2>2
    <3>3. CASE i > Len(f)
      <4>1. g[i] = b + (i - Len(f)) - 1 BY <3>3, <2>4
      <4>2. j > Len(f) BY <3>3, <2>1, <2>2, <2>6
      <4>3. g[j] = b + (j - Len(f)) - 1 BY <4>2, <2>4
      <4> QED BY <4>1, <4>3, <2>1, <2>2, <2>6
    <3> QED BY <3>1, <3>2, <3>3, <2>1, <2>2
  <2> QED BY <2>5, <2>6 DEF InOrder, g
<1>10. b + k \in Nat /\ b + k >= b BY <1>1, <1>2, <1>5
<1> QED BY <1>7, <1>9, <1>10 DEF p

\* What is before one packet is before every later one.
LEMMA InOrderLater ==
  ASSUME NEW f \in Seq(VideoPackets), NEW b \in Nat, InOrder(f, b), NEW c \in Nat, c >= b
  PROVE  InOrder(f, c)
<1>1. \A i \in 1 .. Len(f) : f[i] \in VideoPackets BY ElementOfSeq
<1>2. DOMAIN f = 1 .. Len(f) /\ b \in Nat OBVIOUS
<1>3. \A i \in DOMAIN f : f[i] \in Nat BY <1>1, <1>2 DEF VideoPackets
<1> QED BY <1>2, <1>3 DEF InOrder

\* A skip moves the window on.
LEMMA SkipInOrder ==
  ASSUME NEW s \in AvStates, Whole(s.q), s.q.count > 0,
         NEW b, Before(s.q, b), InOrder(s.fired, b)
  PROVE  LET r == SkipToBuffered(s)
         IN \E c \in Nat : c >= b /\ Before(r.q, c) /\ InOrder(r.fired, c)
<1> DEFINE i == FirstBuffered(s.q)
           r == SkipToBuffered(s)
<1>1. Numbers(PacketNumber) /\ Tidy(s.q, PacketNumber) /\ EndsSet(s.q) /\ Occupied(s.q)
  BY PacketNumbers DEF Whole
<1>2. i \in Offsets(s.q) /\ SkipHead(s.q, i).begin = At(s.q, i) BY <1>1, SkipEnds
<1>3. /\ At(s.q, i) = IndexOf(b + i) /\ b + i \in VideoPackets /\ i \in Nat
      /\ b \in Nat /\ LastVideo \in Nat /\ s.fired \in Seq(VideoPackets)
  BY <1>2, WindowIsAmong, VideoAssumption, AvFields DEF Offsets, Before
<1> HIDE DEF i
<1>4. r.q = SkipHead(s.q, i) /\ r.fired = s.fired BY DEF SkipToBuffered, AvStates, i
<1> HIDE DEF r
<1>5. Before(r.q, b + i) BY <1>2, <1>3, <1>4 DEF Before, VideoPackets
<1>6. b + i \in Nat /\ b + i >= b BY <1>3
<1> QED BY <1>3, <1>4, <1>5, <1>6, InOrderLater DEF r

\* A flush hands on in order.
LEMMA FlushInOrder ==
  ASSUME NEW s \in AvStates, Whole(s.q), NEW b, Before(s.q, b), InOrder(s.fired, b)
  PROVE  LET r == Flush(s) IN \E c : Before(r.q, c) /\ InOrder(r.fired, c)
<1> DEFINE p == PullAll(s)
           t == TrackHead(p)
           k == SkipToBuffered(t)
           e == PullAll(k)
           r == Flush(s)
<1>1. p \in AvStates /\ Whole(p.q) BY PullAllIs
<1>2. PICK c \in Nat : Before(p.q, c) /\ InOrder(p.fired, c) BY PullAllInOrder
<1> HIDE DEF p
<1>3. t \in AvStates /\ t.q = p.q /\ t.fired = p.fired BY <1>1, TrackHeadIs
<1> HIDE DEF t
<1>4. r = IF p.q.count = 0 THEN p
          ELSE IF t.wait <= Timeout THEN t
          ELSE IF e.q.count = 0 THEN e
          ELSE TrackHead(e) BY DEF Flush, p, t
<1>5. p.q.count \in Nat BY <1>1, AvFields
<1> HIDE DEF r
<1>6. CASE r = p \/ r = t BY <1>2, <1>3, <1>6 DEF r
<1>7. CASE p.q.count # 0
  <2>1. t.q.count > 0 /\ Whole(t.q) /\ Before(t.q, c) /\ InOrder(t.fired, c)
    BY <1>1, <1>2, <1>3, <1>5, <1>7
  <2>2. k \in AvStates /\ Whole(k.q) BY <1>3, <2>1, SkipIs
  <2>3. PICK d \in Nat : Before(k.q, d) /\ InOrder(k.fired, d) BY <1>3, <2>1, SkipInOrder
  <2> HIDE DEF k
  <2>4. e \in AvStates BY <2>2, PullAllIs
  <2>5. PICK g \in Nat : Before(e.q, g) /\ InOrder(e.fired, g) BY <2>2, <2>3, PullAllInOrder
  <2> HIDE DEF e
  <2>6. TrackHead(e).q = e.q /\ TrackHead(e).fired = e.fired BY <2>4, TrackHeadIs
  <2>7. r \in {p, t, e, TrackHead(e)} BY <1>4
  <2> QED BY <1>2, <1>3, <2>5, <2>6, <2>7 DEF r
<1> QED BY <1>4, <1>6, <1>7

\* A push moves the window on or leaves it where it is.
LEMMA PushInOrder ==
  ASSUME NEW w, Whole(w), NEW b, Before(w, b), NEW p \in VideoPackets
  PROVE  \E c \in Nat : c >= b /\ Before(Push(w, IndexOf(p), p, "Begin").queue, c)
<1> DEFINE r == Push(w, IndexOf(p), p, "Begin").queue
<1>1. /\ Numbers(PacketNumber) /\ p \in DOMAIN PacketNumber /\ IndexOf(p) = PacketNumber[p]
      /\ Tidy(w, PacketNumber) /\ EndsSet(w) /\ w \in Queues(PacketNumber)
      /\ DOMAIN PacketNumber = VideoPackets
      /\ b \in 1 .. LastVideo + 1 /\ w.begin = IndexOf(b) /\ LastVideo \in Nat
  BY PacketNumbers, VideoAssumption DEF PacketNumber, Whole, Tidy, Before
<1>2. r = Push(w, PacketNumber[p], p, "Begin").queue BY <1>1
<1>3. Whole(r) BY PushIsWhole
<1> HIDE DEF r
<1>4. /\ ~SeqLt(r.begin, w.begin)
      /\ \/ r.count > 0 /\ SlotAt(r, 0).set
         \/ \E n \in 0 .. w.count : r.begin = At(w, n)
         \/ r.begin = IndexOf(p)
  BY <1>1, <1>2, PushEnds, PushHolds
<1>5. ASSUME NEW c \in 1 .. LastVideo + 1, r.begin = IndexOf(c)
      PROVE  c \in Nat /\ c >= b /\ Before(r, c)
  <2>1. ~(c < b) BY <1>1, <1>4, <1>5, IndexIsNumber
  <2> QED BY <2>1, <1>1, <1>5 DEF Before
<1>6. CASE \E n \in 0 .. w.count : r.begin = At(w, n)
  <2>1. PICK n \in 0 .. w.count : r.begin = At(w, n) BY <1>6
  <2>2. r.begin = IndexOf(b + n) /\ b + n \in 1 .. LastVideo + 1
    BY <2>1, <1>1, WindowIsAmong
  <2> QED BY <2>2, <1>5 DEF r
<1>7. CASE r.begin = IndexOf(p)
  <2>1. p \in 1 .. LastVideo + 1 BY <1>1 DEF VideoPackets
  <2> QED BY <2>1, <1>5, <1>7 DEF r
<1>8. CASE r.count > 0 /\ SlotAt(r, 0).set
  <2> DEFINE u == SlotAt(r, 0).user
  <2>1. /\ r \in Queues(PacketNumber) /\ Tidy(r, PacketNumber) /\ r.begin \in SeqNums
        /\ r.count \in 0 .. QSize /\ QSize \in Nat
    BY <1>3, QSizeAssumption DEF Whole, Tidy, Queues
  <2>2. 0 \in Offsets(r) /\ 0 \in 0 .. QSize BY <2>1, <1>8 DEF Offsets
  <2>3. u \in DOMAIN PacketNumber \cup {NoUser} /\ Idx(At(r, 0)) \in SlotIds
    BY <2>1, <2>2, <1>1, SlotAtType
  <2>4. u # NoUser BY <2>3, <1>3, <1>8 DEF Whole, Occupied, SlotAt
  <2>5. PacketNumber[u] = At(r, 0) /\ u \in VideoPackets
    BY <2>1, <2>2, <2>3, <2>4, <1>1, WindowNumbers
  <2>6. At(r, 0) = r.begin BY <2>1, SeqHalfAssumption DEF At, SeqAdd, SeqNums, SeqMod
  <2> HIDE DEF u
  <2>7. r.begin = IndexOf(u) /\ u \in 1 .. LastVideo + 1
    BY <2>5, <2>6, <1>1 DEF PacketNumber, VideoPackets
  <2> QED BY <2>7, <1>5 DEF r
<1> QED BY <1>4, <1>6, <1>7, <1>8

\* The window the first packet opens begins at the first packet of its frame.
LEMMA FrameBegins ==
  ASSUME NEW n \in VideoPackets
  PROVE  LET begin == IF UnitOf(n) <= IndexOf(n) THEN IndexOf(n) - UnitOf(n)
                      ELSE IndexOf(n) - UnitOf(n) + SeqMod
         IN Before(NewQueue(begin), n - UnitOf(n))
<1> DEFINE u == UnitOf(n)
           x == IndexOf(n)
           begin == IF u <= x THEN x - u ELSE x - u + SeqMod
<1>1. /\ SeqHalf \in Nat \ {0} /\ LastVideo \in Nat /\ LastVideo < SeqHalf
      /\ FirstIndex \in Nat /\ FirstIndex < SeqMod /\ SeqMod = 2 * SeqHalf
      /\ n \in 1 .. LastVideo /\ Units \in Nat \ {0}
  BY VideoAssumption, SeqHalfAssumption DEF SeqNums, SeqMod, VideoPackets
<1>2. u \in 0 .. n - 1
  <2>1. n - 1 \in Nat BY <1>1
  <2>2. PICK x1 \in Nat : x1 = n - 1 BY <2>1
  <2>3. /\ x1 \div Units \in Nat /\ x1 % Units \in 0 .. Units - 1
        /\ x1 = Units * (x1 \div Units) + (x1 % Units)
    BY <1>1, DivMod
  <2>4. PICK q1 \in Nat : q1 = x1 \div Units BY <2>3
  <2>5. Units * q1 \in Nat BY <1>1
  <2>6. u = x1 % Units BY <2>2 DEF UnitOf
  <2> HIDE DEF u
  <2> QED BY <2>2, <2>3, <2>4, <2>5, <2>6, <1>1
<1>3. x = IF FirstIndex + (n - 1) < SeqMod THEN FirstIndex + (n - 1)
          ELSE FirstIndex + (n - 1) - SeqMod
  <2>1. FirstIndex + (n - 1) \in 0 .. 2 * SeqMod - 1 BY <1>1
  <2> QED BY <2>1, <1>1, ModTurn DEF IndexOf, SeqAdd
<1> HIDE DEF u, x
<1>4. IndexOf(n - u) = IF FirstIndex + (n - u - 1) < SeqMod THEN FirstIndex + (n - u - 1)
                       ELSE FirstIndex + (n - u - 1) - SeqMod
  <2>1. FirstIndex + (n - u - 1) \in 0 .. 2 * SeqMod - 1 BY <1>1, <1>2
  <2> QED BY <2>1, <1>1, ModTurn DEF IndexOf, SeqAdd
<1>5. begin = IndexOf(n - u) BY <1>1, <1>2, <1>3, <1>4
<1>6. NewQueue(begin).begin = begin BY DEF NewQueue
<1>7. n - u \in 1 .. LastVideo + 1 BY <1>1, <1>2
<1> HIDE DEF begin
<1> QED BY <1>5, <1>6, <1>7 DEF Before, begin, u, x

\* The inductive invariant of the order: the window is among the packets, behind all
\* that was handed on.
OrderInv == /\ VideoInv
            /\ ~av.started => av.fired = << >>
            /\ av.started => \E b : Before(av.q, b) /\ InOrder(av.fired, b)

\* A packet that is handed on keeps the order, the first one included.
LEMMA HandleInOrder ==
  ASSUME OrderInv, NEW n \in VideoPackets
  PROVE  LET r == HandleAv(av, n) IN \E c : Before(r.q, c) /\ InOrder(r.fired, c)
<1> DEFINE s == av
           begin == IF UnitOf(n) <= IndexOf(n) THEN IndexOf(n) - UnitOf(n)
                    ELSE IndexOf(n) - UnitOf(n) + SeqMod
           ready == IF s.started THEN s
                    ELSE [s EXCEPT !.started = TRUE, !.q = NewQueue(begin),
                                   !.wait = Off, !.waitSeq = begin]
           w == Push(ready.q, IndexOf(n), n, "Begin").queue
           x == [ready EXCEPT !.q = w]
           r == Flush(x)
<1>1. s \in AvStates /\ Whole(s.q) BY DEF OrderInv, VideoInv
<1>2. /\ ready \in AvStates /\ Whole(ready.q)
      /\ \E b : Before(ready.q, b) /\ InOrder(ready.fired, b)
  <2>1. CASE s.started BY <2>1, <1>1 DEF OrderInv
  <2>2. CASE ~s.started
    <3>1. ready = [s EXCEPT !.started = TRUE, !.q = NewQueue(begin),
                            !.wait = Off, !.waitSeq = begin] BY <2>2
    <3>2. Before(NewQueue(begin), n - UnitOf(n)) BY FrameBegins
    <3>3. begin \in SeqNums
      <4>1. NewQueue(begin).begin = begin BY DEF NewQueue
      <4>2. n - UnitOf(n) \in 1 .. LastVideo + 1 /\ begin = IndexOf(n - UnitOf(n))
        BY <3>2, <4>1 DEF Before
      <4> QED BY <4>2, IndexIsNumber
    <3> HIDE DEF begin
    <3>4. Whole(NewQueue(begin)) BY <3>3, NewIsWhole
    <3>5. NewQueue(begin) \in Queues(PacketNumber) BY <3>4 DEF Whole, Tidy
    <3> HIDE DEF ready
    <3>6. ready \in AvStates /\ ready.q = NewQueue(begin) /\ ready.fired = s.fired
      BY <3>1, <3>3, <3>5, <1>1 DEF AvStates
    <3>7. InOrder(ready.fired, n - UnitOf(n))
      BY <3>6, <2>2 DEF OrderInv, InOrder
    <3> QED BY <3>2, <3>4, <3>6, <3>7
  <2> QED BY <2>1, <2>2
<1> HIDE DEF ready
<1>3. PICK b : Before(ready.q, b) /\ InOrder(ready.fired, b) BY <1>2
<1>4. Whole(w) BY <1>2, PushIsWhole
<1>5. PICK c \in Nat : c >= b /\ Before(w, c) BY <1>2, <1>3, PushInOrder
<1> HIDE DEF w
<1>6. w \in Queues(PacketNumber) BY <1>4 DEF Whole, Tidy
<1>7. x \in AvStates /\ x.q = w /\ x.fired = ready.fired BY <1>2, <1>6 DEF AvStates
<1>8. b \in Nat BY <1>3, VideoAssumption DEF Before
<1>9. InOrder(x.fired, c) BY <1>3, <1>5, <1>7, <1>8, AvFields, InOrderLater
<1>10. HandleAv(s, n) = r BY DEF HandleAv, ready, x, w, begin
<1> HIDE DEF x
<1>11. \E d : Before(r.q, d) /\ InOrder(r.fired, d) BY <1>4, <1>5, <1>7, <1>9, FlushInOrder
<1> HIDE DEF r
<1> QED BY <1>10, <1>11

\* No packet has come.
LEMMA InitOrderInv == VideoInit => OrderInv
<1> SUFFICES ASSUME VideoInit PROVE OrderInv OBVIOUS
<1>1. av.started = FALSE /\ av.fired = << >> BY DEF VideoInit
<1> QED BY <1>1, InitVideoInv DEF OrderInv

\* Every step keeps the order.
LEMMA KeepsOrderInv ==
  ASSUME OrderInv, VideoNext
  PROVE  OrderInv'
<1>1. VideoInv /\ VideoInv' BY KeepsVideoInv DEF OrderInv
<1>2. ASSUME NEW n \in VideoPackets, av' = HandleAv(av, n) PROVE OrderInv'
  <2> DEFINE s == av
             r == HandleAv(s, n)
  <2>1. \E c : Before(r.q, c) /\ InOrder(r.fired, c) BY HandleInOrder
  <2>2. r.started BY <1>1, HandleAvIs DEF VideoInv
  <2>3. av' = r BY <1>2
  <2> HIDE DEF r
  <2> QED BY <1>1, <2>1, <2>2, <2>3 DEF OrderInv, Before, InOrder
<1>3. ASSUME UNCHANGED av PROVE OrderInv'
  BY <1>1, <1>3 DEF OrderInv, Before, InOrder
<1>4. ASSUME NEW n \in VideoPackets, NEW again \in BOOLEAN, ReceiveVideo(n, again)
      PROVE  OrderInv'
  BY <1>2, <1>3, <1>4 DEF ReceiveVideo
<1>5. ASSUME NEW n \in VideoPackets, LoseVideo(n) PROVE OrderInv' BY <1>3, <1>5 DEF LoseVideo
<1>6. CASE KeysInstalled BY <1>3, <1>6 DEF KeysInstalled
<1>7. CASE FlushPostponed
  <2>1. postponed \in Seq(VideoPackets) /\ postponed # << >> /\ av' = HandleAv(av, Head(postponed))
    BY <1>1, <1>7 DEF FlushPostponed, VideoInv
  <2>2. Head(postponed) \in VideoPackets BY <2>1, HeadTailProperties
  <2> QED BY <2>1, <2>2, <1>2
<1>8. CASE TimeoutFlush
  <2> DEFINE s == av
             r == Flush(s)
  <2>1. /\ s \in AvStates /\ Whole(s.q) /\ Settled(s) /\ s.wait # Off /\ av' = r /\ s.started
    BY <1>1, <1>8 DEF TimeoutFlush, TimedOut, VideoInv
  <2>2. \E c : Before(r.q, c) /\ InOrder(r.fired, c) BY <2>1, FlushInOrder DEF OrderInv
  <2>3. r.started
    <3>1. s.q.count = 0 => s.wait = Off BY <2>1 DEF Settled
    <3> QED BY <3>1, <2>1, FlushIs
  <2> HIDE DEF r
  <2> QED BY <1>1, <2>1, <2>2, <2>3 DEF OrderInv, Before, InOrder
<1>9. CASE Tick
  <2>1. av \in AvStates /\ av' = [av EXCEPT !.wait = @ + 1] BY <1>1, <1>9 DEF Tick, VideoInv
  <2>2. av'.q = av.q /\ av'.fired = av.fired /\ av'.started = av.started BY <2>1 DEF AvStates
  <2> QED BY <1>1, <2>2 DEF OrderInv, Before, InOrder
<1> QED BY <1>4, <1>5, <1>6, <1>7, <1>8, <1>9 DEF VideoNext

\* Whatever the network does and whichever part of AvPackets moves.
LEMMA AlwaysOrderInv == SpecAv => []OrderInv
<1>1. InitAv => OrderInv BY InitOrderInv DEF InitAv
<1>2. ASSUME OrderInv, [KeysStep \/ VideoStep \/ AudioStep]_allVars PROVE OrderInv'
  <2>1. CASE UNCHANGED videoVars
    BY <1>2, <2>1 DEF videoVars, OrderInv, VideoInv, Whole, Settled, Tidy, TidySlot, EndsSet,
                      Occupied, SlotAt, Before, InOrder
  <2>2. CASE VideoStep BY <1>2, <2>2, KeepsOrderInv DEF VideoStep
  <2> QED BY <1>2, <2>1, <2>2 DEF KeysStep, AudioStep, allVars
<1> QED BY <1>1, <1>2, PTL DEF SpecAv

\* A flush after the timeout hands on a packet, and while nothing is handed on the
\* wait for the missing head is not prolonged, whatever arrives and whichever head
\* is evicted ("startup and burst reordering only pay a single timeout").
THEOREM PaysOneTimeout == SpecAv => SingleTimeout
<1>1. OrderInv /\ [KeysStep \/ VideoStep \/ AudioStep]_allVars =>
        [/\ TimeoutFlush /\ av.wait > Timeout => Len(av'.fired) > Len(av.fired)
         /\ av.wait # Off /\ av'.wait # Off /\ av'.fired = av.fired
              => av'.wait >= av.wait]_videoVars
  <2>1. SUFFICES ASSUME OrderInv, [KeysStep \/ VideoStep \/ AudioStep]_allVars,
                        videoVars' # videoVars
        PROVE  /\ TimeoutFlush /\ av.wait > Timeout => Len(av'.fired) > Len(av.fired)
               /\ WaitKept
    BY DEF WaitKept
  <2>2. VideoNext BY <2>1 DEF KeysStep, VideoStep, AudioStep, allVars
  <2> QED BY <2>1, <2>2, KeepsVideoInv, TimeoutFires DEF OrderInv
<1> QED BY <1>1, AlwaysOrderInv, PTL DEF SpecAv, SingleTimeout

\* Video packets reach the frame processor in the order of their numbers, each at most
\* once, whatever was skipped, evicted, repeated or late.
THEOREM FiresInOrder == SpecAv => []FiredInOrder
<1>1. OrderInv => FiredInOrder
  <2> SUFFICES ASSUME OrderInv PROVE FiredInOrder OBVIOUS
  <2>1. CASE av.started BY <2>1 DEF OrderInv, InOrder, FiredInOrder
  <2>2. CASE ~av.started BY <2>2 DEF OrderInv, FiredInOrder
  <2> QED BY <2>1, <2>2
<1> QED BY <1>1, AlwaysOrderInv, PTL

\* A wait is running exactly when packets are buffered behind a missing head.
THEOREM WaitsForTheMissing == SpecAv => []WaitingIffBuffered
<1>1. OrderInv => WaitingIffBuffered
  BY DEF OrderInv, VideoInv, Settled, WaitingIffBuffered, PullMoves
<1> QED BY <1>1, AlwaysOrderInv, PTL

-----------------------------------------------------------------------------
(* AudioReceiver: the numbers of frames under their wrapping indices.     *)

\* Half the number space is a number.
LEMMA NumberSpace == SeqHalf \in Nat \ {0}
BY SeqHalfAssumption

\* The remainder of a number that is at most one turn away.
LEMMA Turns ==
  ASSUME NEW m \in Nat \ {0}, NEW x \in Int, 0 <= x + m, x < m + m
  PROVE  x % m = IF x < 0 THEN x + m ELSE IF x < m THEN x ELSE x - m
<1>1. CASE x < 0 BY <1>1
<1>2. CASE x >= 0 /\ x < m BY <1>2
<1>3. CASE x >= m BY <1>3
<1> QED BY <1>1, <1>2, <1>3

\* The frames the console makes, and those before the first that units name.
Frames == -Fec .. LastAudio * Source

\* The frames lie less than half the number space from the first.
LEMMA FramesAreNear ==
  /\ LastAudio * Source \in Nat
  /\ \A f, g \in Frames : f \in Int /\ g \in Int /\ f - g < SeqHalf /\ f >= - SeqHalf /\ f < SeqHalf
<1>1. LastAudio * Source \in Nat BY AudioAssumption
<1> QED BY <1>1, AudioAssumption, NumberSpace DEF Frames

\* The index of a frame, without the remainder.
LEMMA IndexIs ==
  ASSUME first \in Audio!SeqNums, NEW f \in Frames
  PROVE  /\ Audio!IndexOf(f) \in Audio!SeqNums
         /\ Audio!IndexOf(f) = IF first + f < 0 THEN first + f + 2 * SeqHalf
                               ELSE IF first + f < 2 * SeqHalf THEN first + f
                               ELSE first + f - 2 * SeqHalf
<1>1. f \in Int /\ f >= - SeqHalf /\ f < SeqHalf BY FramesAreNear
<1>2. first \in 0 .. 2 * SeqHalf - 1 BY DEF Audio!SeqNums, Audio!SeqMod
<1>3. PICK m \in Nat \ {0} : m = 2 * SeqHalf BY NumberSpace
<1>4. PICK x \in Int : x = first + f BY <1>1, <1>2
<1>5. 0 <= x + m /\ x < m + m BY <1>1, <1>2, <1>3, <1>4, NumberSpace
<1>6. x % m = IF x < 0 THEN x + m ELSE IF x < m THEN x ELSE x - m BY <1>5, Turns
<1>7. Audio!IndexOf(f) = x % m BY <1>3, <1>4 DEF Audio!IndexOf, Audio!SeqMod
<1>8. Audio!IndexOf(f) = IF x < 0 THEN x + m ELSE IF x < m THEN x ELSE x - m
  BY <1>6, <1>7
<1>9. Audio!IndexOf(f) \in Audio!SeqNums
  BY <1>3, <1>4, <1>5, <1>8 DEF Audio!SeqNums, Audio!SeqMod
<1> QED BY <1>1, <1>2, <1>3, <1>4, <1>8, <1>9, NumberSpace

\* Serial order of two indices is the order of their frames.
LEMMA IndexOrder ==
  ASSUME first \in Audio!SeqNums, NEW f \in Frames, NEW g \in Frames
  PROVE  /\ Audio!SeqLt(Audio!IndexOf(f), Audio!IndexOf(g)) <=> f < g
         /\ Audio!SeqGt(Audio!IndexOf(f), Audio!IndexOf(g)) <=> f > g
         /\ Audio!IndexOf(f) = Audio!IndexOf(g) <=> f = g
<1>1. f \in Int /\ g \in Int /\ f - g < SeqHalf /\ g - f < SeqHalf BY FramesAreNear
<1>2. first \in 0 .. 2 * SeqHalf - 1 BY DEF Audio!SeqNums, Audio!SeqMod
<1> QED BY <1>1, <1>2, NumberSpace, IndexIs DEF Audio!SeqLt, Audio!SeqGt, Audio!SeqNums, Audio!SeqMod

\* The index some frames on.
LEMMA IndexAdd ==
  ASSUME first \in Audio!SeqNums, NEW f \in Frames, NEW n \in Nat, f + n \in Frames
  PROVE  Audio!SeqAdd(Audio!IndexOf(f), n) = Audio!IndexOf(f + n)
<1>1. f \in Int /\ f + n < SeqHalf /\ f >= -SeqHalf BY FramesAreNear
<1>2. first \in 0 .. 2 * SeqHalf - 1 BY DEF Audio!SeqNums, Audio!SeqMod
<1> QED BY <1>1, <1>2, NumberSpace, IndexIs DEF Audio!SeqAdd, Audio!SeqMod

\* What a unit of a packet holds, under its index.
LEMMA UnitFacts ==
  ASSUME first \in Audio!SeqNums, NEW p \in Audio!Packets, NEW i \in Audio!AudioUnits
  PROVE  /\ (p - 1) * Source \in Frames
         /\ Audio!FrameOf(p, i) \in Frames /\ Audio!FrameOf(p, i) < LastAudio * Source
         /\ Audio!UnitIndex(p, i) = Audio!IndexOf(Audio!FrameOf(p, i))
<1> DEFINE b == (p - 1) * Source
<1>1. p \in 1 .. LastAudio /\ i \in 0 .. Source + Fec - 1 BY DEF Audio!Packets, Audio!AudioUnits
<1>2. /\ Source \in Nat \ {0} /\ Fec \in Nat /\ LastAudio \in Nat
      /\ LastAudio * Source + Fec < SeqHalf /\ SeqHalf \in Nat \ {0}
  BY AudioAssumption, SeqHalfAssumption
<1>3. b \in Nat /\ b + Source <= LastAudio * Source
  BY <1>1, <1>2, MultipleStep, p - 1 \in Nat, p - 1 < LastAudio
<1>4. LastAudio * Source \in Nat BY FramesAreNear
<1>5. b \in Frames BY <1>2, <1>3, <1>4 DEF Frames
<1>6. Audio!PacketIndex(p) = Audio!IndexOf(b) BY DEF Audio!PacketIndex
<1>7. CASE i < Source
  <2>1. Audio!FrameOf(p, i) = b + i BY <1>7 DEF Audio!FrameOf
  <2>2. i \in Nat BY <1>1, <1>2
  <2> HIDE DEF b
  <2>3. b + i \in Frames /\ b + i < LastAudio * Source
    BY <1>1, <1>2, <1>3, <1>4, <1>7, <2>2 DEF Frames
  <2>4. Audio!UnitIndex(p, i) = Audio!SeqAdd(Audio!IndexOf(b), i) BY <1>6, <1>7 DEF Audio!UnitIndex
  <2>5. @ = Audio!IndexOf(b + i) BY <1>5, <2>2, <2>3, IndexAdd
  <2> QED BY <1>5, <2>1, <2>3, <2>4, <2>5 DEF b
<1>8. CASE ~(i < Source)
  <2> DEFINE k == i - Source
  <2>1. k \in 0 .. Fec - 1 BY <1>1, <1>2, <1>8
  <2>2. Audio!FrameOf(p, i) = b + i - Source - Fec BY <1>8 DEF Audio!FrameOf
  <2>3. Audio!UnitIndex(p, i) = Audio!SeqAdd(Audio!IndexOf(b), Audio!SeqMod - Fec + i - Source)
    BY <1>6, <1>8 DEF Audio!UnitIndex
  <2>4. b + i - Source - Fec = b + k - Fec
        /\ Audio!SeqMod - Fec + i - Source = 2 * SeqHalf - Fec + k
    BY <1>1, <1>2, <1>3 DEF Audio!SeqMod
  <2> HIDE DEF b, k
  <2>5. b + k - Fec \in Frames /\ b + k - Fec < LastAudio * Source
    BY <1>2, <1>3, <1>4, <2>1 DEF Frames
  <2>6. first \in 0 .. 2 * SeqHalf - 1 BY DEF Audio!SeqNums, Audio!SeqMod
  <2>7. Audio!SeqAdd(Audio!IndexOf(b), 2 * SeqHalf - Fec + k) = Audio!IndexOf(b + k - Fec)
    BY <1>2, <1>3, <1>5, <2>1, <2>5, <2>6, IndexIs DEF Audio!SeqAdd, Audio!SeqMod
  <2> QED BY <1>5, <2>2, <2>3, <2>4, <2>5, <2>7 DEF b
<1> QED BY <1>7, <1>8

\* Of the frames before the first none is let in.
LEMMA AbsentIsSkipped ==
  ASSUME first = 0, NEW c \in Audio!Calls, c.startup, ~Audio!Skipped(c)
  PROVE  Audio!FrameOf(c.packet, c.unit) >= 0
<1>1. c.packet \in 1 .. LastAudio /\ c.unit \in 0 .. Source + Fec - 1
  BY DEF Audio!Calls, Audio!Packets, Audio!AudioUnits
<1>2. Source \in Nat \ {0} /\ Fec \in Nat /\ LastAudio \in Nat BY AudioAssumption
<1>3. first \in Audio!SeqNums BY NumberSpace DEF Audio!SeqNums, Audio!SeqMod
<1>4. (c.packet - 1) * Source \in Frames
  BY <1>1, <1>3, UnitFacts DEF Audio!Packets, Audio!AudioUnits
<1>5. (c.packet - 1) * Source \in Nat BY <1>1, <1>2
<1>6. Audio!PacketIndex(c.packet) = (c.packet - 1) * Source
  BY <1>3, <1>4, <1>5, IndexIs, FramesAreNear, NumberSpace DEF Audio!PacketIndex
<1>7. CASE c.unit < Source BY <1>1, <1>2, <1>5, <1>7 DEF Audio!FrameOf
<1>8. CASE ~(c.unit < Source)
  <2>1. ~((c.packet - 1) * Source + c.unit - Source < Fec + 1)
    BY <1>1, <1>2, <1>6, <1>8 DEF Audio!Skipped
  <2> QED BY <1>1, <1>2, <1>5, <1>8, <2>1 DEF Audio!FrameOf
<1> QED BY <1>7, <1>8

\* A slot holds a frame that exists, under its index.
Filed(s) == /\ s.frame \in Frames /\ s.frame < LastAudio * Source
            /\ s.index = Audio!IndexOf(s.frame)
            /\ first = 0 => s.frame >= 0
            
\* A jitter buffer: few slots, each filed under its own index.
Buffer(b) == /\ b \subseteq Audio!Slots /\ IsFiniteSet(b) /\ Cardinality(b) <= Prefill
             /\ \A s \in b : Filed(s)

\* The oldest and the newest slot are those of the first and the last frame.
LEMMA Extremes ==
  ASSUME first \in Audio!SeqNums, NEW b, Buffer(b), b # {}
  PROVE  /\ Audio!Oldest(b) \in b /\ \A t \in b : Audio!Oldest(b).frame <= t.frame
         /\ Audio!Newest(b) \in b /\ \A t \in b : t.frame <= Audio!Newest(b).frame
<1>1. \A s \in b : s.frame \in Frames /\ s.index = Audio!IndexOf(s.frame) BY DEF Buffer, Filed
<1>2. \A s, t \in b : /\ s.frame \in Int /\ t.frame \in Int
                      /\ Audio!SeqLt(t.index, s.index) <=> t.frame < s.frame
                      /\ Audio!SeqGt(t.index, s.index) <=> t.frame > s.frame
  BY <1>1, IndexOrder, FramesAreNear
<1>3. Fec \in Nat /\ LastAudio * Source \in Nat
      /\ \A s \in b : s.frame \in -Fec .. LastAudio * Source
  BY <1>1, AudioAssumption, FramesAreNear DEF Frames
<1>4. \E s \in b : \A t \in b : ~Audio!SeqLt(t.index, s.index)
  <2> DEFINE T == {s.frame + Fec : s \in b}
  <2>1. T \subseteq Nat /\ T # {} BY <1>3
  <2> HIDE DEF T
  <2>2. PICK x \in T : \A y \in T : x <= y BY <2>1, NatMin
  <2>3. PICK s \in b : x = s.frame + Fec BY DEF T
  <2>4. \A t \in b : s.frame + Fec <= t.frame + Fec BY <2>2, <2>3 DEF T
  <2>5. \A t \in b : ~(t.frame < s.frame) BY <2>4, <1>3, <1>2
  <2> QED BY <2>5, <1>2
<1>5. \E s \in b : \A t \in b : ~Audio!SeqGt(t.index, s.index)
  <2> DEFINE T == {LastAudio * Source - s.frame : s \in b}
  <2>1. T \subseteq Nat /\ T # {} BY <1>3
  <2> HIDE DEF T
  <2>2. PICK x \in T : \A y \in T : x <= y BY <2>1, NatMin
  <2>3. PICK s \in b : x = LastAudio * Source - s.frame BY DEF T
  <2>4. \A t \in b : LastAudio * Source - s.frame <= LastAudio * Source - t.frame
    BY <2>2, <2>3 DEF T
  <2>5. \A t \in b : ~(t.frame > s.frame) BY <2>4, <1>3, <1>2
  <2> QED BY <2>5, <1>2
<1>6. Audio!Oldest(b) \in b /\ \A t \in b : ~Audio!SeqLt(t.index, Audio!Oldest(b).index)
  BY <1>4 DEF Audio!Oldest
<1>7. Audio!Newest(b) \in b /\ \A t \in b : ~Audio!SeqGt(t.index, Audio!Newest(b).index)
  BY <1>5 DEF Audio!Newest
<1> QED BY <1>2, <1>6, <1>7

-----------------------------------------------------------------------------
\* What the receiver's record may hold.
AudioStates == [prev : Audio!SeqNums, next : Audio!SeqNums, valid : BOOLEAN,
                started : BOOLEAN, startup : BOOLEAN, jitter : SUBSET Audio!Slots]

\* The frame that is next; nothing older is kept.
Awaits(a, n) == /\ n \in Frames /\ a.next = Audio!IndexOf(n)
                /\ \A s \in a.jitter : n <= s.frame

\* What holds of the receiver's state at every turn of its loops.
Sound(a) == /\ a \in AudioStates /\ Buffer(a.jitter)
            /\ a.valid = a.started
            /\ ~a.started => Cardinality(a.jitter) < Prefill
            /\ a.started => \E n \in Frames : Awaits(a, n)
            /\ haptics => ~a.started
            /\ first = 0 => a.startup

\* While it plays, only the frame loop of a unit finds frames waiting.
Emptied == audio.started /\ (avCall = NoCall \/ avCall.fresh) => audio.jitter = {}

\* A call at work is one of av_packet's, on a unit it has not skipped.
CallRight == avCall # NoCall =>
               /\ avCall \in Audio!Calls
               /\ first = 0 => avCall.startup
               /\ ~avCall.fresh => ~Audio!Skipped(avCall)

\* What may be heard.
Heard == [index : Audio!SeqNums, frame : Frames \cup {Concealed}]

\* What was heard last is what the receiver remembers.
HeardLast == heard # <<>> =>
               LET h == heard[Len(heard)]
               IN IF haptics THEN audio.prev = h.index
                  ELSE audio.started /\ audio.next = Audio!SeqAdd(h.index, 1)

\* The inductive invariant of the audio receiver.
SoundInv == /\ first \in Audio!SeqNums /\ haptics \in BOOLEAN
            /\ Sound(audio) /\ Emptied /\ CallRight
            /\ heard \in Seq(Heard) /\ HeardLast /\ Audio!HeardInOrder

-----------------------------------------------------------------------------
\* The slot of the unit at hand.
LEMMA SlotIs ==
  ASSUME SoundInv, avCall # NoCall, ~Audio!Skipped(avCall)
  PROVE  /\ Audio!Slot \in Audio!Slots /\ Filed(Audio!Slot)
         /\ Audio!Slot.index = Audio!IndexOf(Audio!Slot.frame)
<1>1. avCall \in Audio!Calls /\ first \in Audio!SeqNums /\ (first = 0 => avCall.startup)
  BY DEF SoundInv, CallRight
<1>2. avCall.packet \in Audio!Packets /\ avCall.unit \in Audio!AudioUnits BY <1>1 DEF Audio!Calls
<1> DEFINE f == Audio!FrameOf(avCall.packet, avCall.unit)
<1>3. /\ f \in Frames /\ f < LastAudio * Source
      /\ Audio!UnitIndex(avCall.packet, avCall.unit) = Audio!IndexOf(f)
  BY <1>1, <1>2, UnitFacts
<1>4. first = 0 => f >= 0 BY <1>1, AbsentIsSkipped
<1>5. Audio!IndexOf(f) \in Audio!SeqNums BY <1>1, <1>3, IndexIs
<1> HIDE DEF f
<1>6. Audio!Slot = [index |-> Audio!IndexOf(f), frame |-> f] BY <1>3 DEF Audio!Slot, f
<1>7. Audio!Slot \in Audio!Slots BY <1>3, <1>5, <1>6 DEF Audio!Slots, Frames
<1> QED BY <1>3, <1>4, <1>6, <1>7 DEF Filed

\* The same operator under the name it has in the instance.
LEMMA SameCardinality == \A b : Audio!Cardinality(b) = Cardinality(b)
BY Zenon DEF Audio!Cardinality, Cardinality

\* One slot more than there was room for.
LEMMA BufferGrows ==
  ASSUME NEW b, Buffer(b), Cardinality(b) < Prefill, NEW s \in Audio!Slots, Filed(s)
  PROVE  Buffer(Audio!Stored(b, s)) /\ Audio!Stored(b, s) = b \cup {s}
<1>1. IsFiniteSet(b) /\ Cardinality(b) \in Nat BY FS_CardinalityType DEF Buffer
<1>2. Prefill \in Nat /\ BufferSize \in Nat /\ Prefill <= BufferSize BY AudioAssumption
<1>3. Cardinality(b) # BufferSize BY <1>1, <1>2
<1>4. Audio!Stored(b, s) = b \cup {s} BY <1>3, SameCardinality DEF Audio!Stored
<1>5. IsFiniteSet(b \cup {s}) /\ Cardinality(b \cup {s}) <= Cardinality(b) + 1
  <2>1. Cardinality(b \cup {s}) = IF s \in b THEN Cardinality(b) ELSE Cardinality(b) + 1
    BY <1>1, FS_AddElement
  <2> QED BY <1>1, <2>1, FS_AddElement
<1>6. Cardinality(b \cup {s}) <= Prefill
  <2>1. Cardinality(b \cup {s}) \in Nat BY <1>5, FS_CardinalityType
  <2> QED BY <2>1, <1>1, <1>2, <1>5
<1> QED BY <1>4, <1>5, <1>6 DEF Buffer

\* A buffer without some of its slots is one.
LEMMA BufferShrinks ==
  ASSUME NEW b, Buffer(b), NEW c, c \subseteq b
  PROVE  Buffer(c)
<1>1. IsFiniteSet(b) /\ Cardinality(b) \in Nat /\ Cardinality(b) <= Prefill
  BY FS_CardinalityType DEF Buffer
<1>2. IsFiniteSet(c) /\ Cardinality(c) <= Cardinality(b) BY <1>1, FS_Subset
<1>3. Cardinality(c) \in Nat BY <1>2, FS_CardinalityType
<1>4. Cardinality(c) <= Prefill BY <1>1, <1>2, <1>3, AudioAssumption
<1> QED BY <1>2, <1>4 DEF Buffer

\* The empty buffer.
LEMMA EmptyBuffer == Buffer({}) /\ Cardinality({}) = 0
<1>1. IsFiniteSet({}) /\ Cardinality({}) = 0 BY FS_EmptySet
<1> QED BY <1>1, AudioAssumption DEF Buffer

\* The playback starts with the oldest frame.
LEMMA StartIsSound ==
  ASSUME first \in Audio!SeqNums, ~haptics, NEW a \in AudioStates, Buffer(a.jitter),
         ~a.started, ~a.valid, first = 0 => a.startup
  PROVE  Sound(Audio!StartPlayback(a))
<1>1. Cardinality(a.jitter) \in Nat /\ Prefill \in Nat \ {0}
  BY FS_CardinalityType, AudioAssumption DEF Buffer
<1>2. CASE Cardinality(a.jitter) >= Prefill
  <2> DEFINE o == Audio!Oldest(a.jitter)
  <2>1. a.jitter # {} BY <1>1, <1>2, EmptyBuffer
  <2>2. o \in a.jitter /\ \A t \in a.jitter : o.frame <= t.frame BY <2>1, Extremes
  <2>3. o.frame \in Frames /\ o.index = Audio!IndexOf(o.frame) /\ o \in Audio!Slots
    BY <2>2 DEF Buffer, Filed
  <2>4. o.index \in Audio!SeqNums BY <2>3 DEF Audio!Slots
  <2> HIDE DEF o
  <2>5. Audio!StartPlayback(a) = [a EXCEPT !.next = o.index, !.valid = TRUE, !.started = TRUE]
    BY <1>2, SameCardinality DEF Audio!StartPlayback, o
  <2>6. PICK r : r = Audio!StartPlayback(a) OBVIOUS
  <2>7. r \in AudioStates BY <2>4, <2>5, <2>6 DEF AudioStates
  <2>8. r.jitter = a.jitter /\ r.valid = TRUE /\ r.started = TRUE /\ r.startup = a.startup
        /\ r.next = o.index
    BY <2>5, <2>6 DEF AudioStates
  <2>9. Awaits(r, o.frame) BY <2>2, <2>3, <2>8 DEF Awaits
  <2> QED BY <2>3, <2>6, <2>7, <2>8, <2>9 DEF Sound
<1>3. CASE ~(Cardinality(a.jitter) >= Prefill)
  <2>1. Audio!StartPlayback(a) = a BY <1>3, SameCardinality DEF Audio!StartPlayback
  <2>2. Cardinality(a.jitter) < Prefill BY <1>1, <1>3
  <2>3. a.valid = a.started BY DEF AudioStates
  <2> QED BY <2>1, <2>2, <2>3 DEF Sound
<1> QED BY <1>2, <1>3

\* The state in which a turn of the loop looks for frames to play.
LEMMA ReadyIsSound ==
  ASSUME SoundInv, ~haptics, Audio!Handling, ~Audio!Refused
  PROVE  /\ Sound(Audio!Ready)
         /\ audio.started => Audio!Ready.started /\ Audio!Ready.next = audio.next
<1>1. avCall # NoCall /\ ~Audio!Skipped(avCall) BY DEF Audio!Handling
<1>2. PICK s \in Audio!Slots : s = Audio!Slot /\ Filed(s) BY <1>1, SlotIs
<1>3. first \in Audio!SeqNums /\ Sound(audio) BY DEF SoundInv
<1>4. audio \in AudioStates /\ Buffer(audio.jitter) /\ audio.valid = audio.started
      /\ audio.started \in BOOLEAN /\ (first = 0 => audio.startup)
  BY <1>3 DEF Sound, AudioStates
<1> DEFINE b == Audio!Stored(audio.jitter, s)
<1> DEFINE a == [audio EXCEPT !.jitter = b]
<1>5. CASE avCall.fresh
  <2>1. Audio!Ready = Audio!StartPlayback(a) BY <1>2, <1>5 DEF Audio!Ready
  <2>2. Cardinality(audio.jitter) < Prefill
    <3>1. CASE audio.started
      <4>1. audio.jitter = {} BY <1>5, <3>1 DEF SoundInv, Emptied
      <4> QED BY <4>1, EmptyBuffer, AudioAssumption
    <3>2. CASE ~audio.started BY <1>3, <3>2 DEF Sound
    <3> QED BY <3>1, <3>2
  <2>3. Buffer(b) /\ b = audio.jitter \cup {s} BY <1>2, <1>4, <2>2, BufferGrows
  <2>4. b \subseteq Audio!Slots BY <2>3 DEF Buffer
  <2> HIDE DEF b
  <2>5. a \in AudioStates BY <1>4, <2>4 DEF AudioStates
  <2>6. a.jitter = b /\ a.valid = audio.valid /\ a.started = audio.started
        /\ a.startup = audio.startup /\ a.next = audio.next
    BY <1>4 DEF AudioStates
  <2> HIDE DEF a
  <2>7. CASE ~audio.started
    <3>1. Sound(Audio!StartPlayback(a))
      BY <1>3, <1>4, <2>3, <2>5, <2>6, <2>7, StartIsSound
    <3> QED BY <3>1, <2>1, <2>7
  <2>8. CASE audio.started
    <3>1. Audio!StartPlayback(a) = a BY <2>6, <2>8 DEF Audio!StartPlayback
    <3>2. audio.jitter = {} BY <1>5, <2>8 DEF SoundInv, Emptied
    <3>3. PICK n \in Frames : Awaits(audio, n) BY <1>3, <2>8 DEF Sound
    <3>4. ~Audio!SeqLt(s.index, audio.next)
      BY <1>2, <1>4, <1>5, <2>8 DEF Audio!Refused
    <3>5. s.frame \in Frames /\ s.index = Audio!IndexOf(s.frame) BY <1>2 DEF Filed
    <3>6. ~(s.frame < n) BY <1>3, <3>3, <3>4, <3>5, IndexOrder DEF Awaits
    <3>7. n <= s.frame BY <3>5, <3>6, FramesAreNear
    <3>8. Awaits(a, n) BY <2>3, <2>6, <3>2, <3>3, <3>7 DEF Awaits
    <3>9. Sound(a)
      BY <1>4, <2>3, <2>5, <2>6, <2>8, <3>3, <3>8 DEF Sound
    <3> QED BY <2>1, <2>6, <2>8, <3>1, <3>9
  <2> QED BY <2>7, <2>8
<1>6. CASE ~avCall.fresh
  <2>1. Audio!Ready = Audio!StartPlayback(audio) BY <1>6 DEF Audio!Ready
  <2>2. CASE audio.started
    <3>1. Audio!StartPlayback(audio) = audio BY <2>2 DEF Audio!StartPlayback
    <3> QED BY <1>3, <2>1, <2>2, <3>1
  <2>3. CASE ~audio.started
    <3>1. Sound(Audio!StartPlayback(audio)) BY <1>3, <1>4, <2>3, StartIsSound
    <3> QED BY <2>1, <2>3, <3>1
  <2> QED BY <2>2, <2>3
<1> QED BY <1>5, <1>6

-----------------------------------------------------------------------------
\* There are no more slots than frames they may hold.
LEMMA SlotsAreFew ==
  ASSUME first \in Audio!SeqNums, NEW b, Buffer(b), NEW n \in Int, NEW m \in Int, n <= m,
         \A s \in b : n < s.frame /\ s.frame <= m
  PROVE  Cardinality(b) <= m - n
<1> DEFINE f == [s \in b |-> s.frame]
<1>1. \A s \in b : s \in Audio!Slots /\ s.index = Audio!IndexOf(s.frame) /\ s.frame \in Int
  BY FramesAreNear DEF Buffer, Filed
<1>2. \A s \in b : s.frame \in n + 1 .. m BY <1>1
<1>3. \A s, t \in b : s.frame = t.frame => s = t BY <1>1 DEF Audio!Slots
<1>4. f \in Injection(b, n + 1 .. m) BY <1>2, <1>3 DEF Injection, IsInjective
<1> HIDE DEF f
<1>5. /\ IsFiniteSet(n + 1 .. m)
      /\ Cardinality(n + 1 .. m) = IF n + 1 > m THEN 0 ELSE m - (n + 1) + 1
  BY n + 1 \in Int, FS_Interval
<1>6. Cardinality(b) <= Cardinality(n + 1 .. m) BY <1>4, <1>5, FS_Injection
<1>7. Cardinality(n + 1 .. m) = m - n BY <1>5
<1> QED BY <1>6, <1>7

\* What is not played is concealed unless nothing waits: a full prefill of later
\* frames reaches beyond the prefill.
LEMMA NothingWaits ==
  ASSUME first \in Audio!SeqNums, NEW a, Sound(a), a.started, Audio!Due(a) = {},
         ~Audio!Conceals(a)
  PROVE  a.jitter = {}
<1>1. SUFFICES ASSUME a.jitter # {} PROVE FALSE OBVIOUS
<1> DEFINE o == Audio!Oldest(a.jitter)
<1> DEFINE m == Audio!Newest(a.jitter)
<1>2. Buffer(a.jitter) /\ a.valid = a.started BY DEF Sound
<1>3. PICK n \in Frames : Awaits(a, n) BY DEF Sound
<1>4. /\ o \in a.jitter /\ \A t \in a.jitter : o.frame <= t.frame
      /\ m \in a.jitter /\ \A t \in a.jitter : t.frame <= m.frame
  BY <1>1, <1>2, Extremes
<1>5. \A s \in a.jitter : s.frame \in Frames /\ s.index = Audio!IndexOf(s.frame)
                          /\ n <= s.frame /\ s.frame \in Int /\ n \in Int
  BY <1>2, <1>3, FramesAreNear DEF Buffer, Filed, Awaits
<1>6. \A s \in a.jitter : s.frame # n BY <1>3, <1>5 DEF Audio!Due, Awaits
<1>7. \A s \in a.jitter : n < s.frame BY <1>5, <1>6
<1>8. Audio!SeqGt(o.index, a.next) BY <1>3, <1>4, <1>5, <1>7, IndexOrder DEF Awaits
<1>9. /\ Cardinality(a.jitter) >= Prefill
      /\ ~Audio!SeqGt(m.index, Audio!SeqAdd(a.next, Prefill - 1))
  BY <1>1, <1>2, <1>8, SameCardinality DEF Audio!Conceals, Audio!Playing
<1> HIDE DEF o, m
<1>10. Cardinality(a.jitter) <= m.frame - n BY <1>2, <1>4, <1>5, <1>7, SlotsAreFew
<1>11. Cardinality(a.jitter) \in Nat /\ Prefill \in Nat \ {0}
  BY <1>2, FS_CardinalityType, AudioAssumption DEF Buffer
<1>12. n + (Prefill - 1) < m.frame BY <1>4, <1>5, <1>9, <1>10, <1>11
<1>13. n + (Prefill - 1) \in Frames
  BY <1>4, <1>5, <1>11, <1>12, FramesAreNear, AudioAssumption DEF Frames
<1>14. Audio!SeqAdd(a.next, Prefill - 1) = Audio!IndexOf(n + (Prefill - 1))
  BY <1>3, <1>11, <1>13, IndexAdd, Prefill - 1 \in Nat DEF Awaits
<1> QED BY <1>4, <1>5, <1>9, <1>12, <1>13, <1>14, IndexOrder

\* The next frame is behind the state that has given it away.
LEMMA AdvanceIsSound ==
  ASSUME first \in Audio!SeqNums, NEW a \in AudioStates, Buffer(a.jitter), ~haptics,
         a.started, a.valid, first = 0 => a.startup,
         NEW n \in Frames, n < LastAudio * Source, a.next = Audio!IndexOf(n),
         \A s \in a.jitter : n < s.frame
  PROVE  /\ Sound(Audio!Advance(a)) /\ Audio!Advance(a).started
         /\ Audio!Advance(a).next = Audio!SeqAdd(a.next, 1)
<1>1. n \in Int /\ n + 1 \in Frames BY FramesAreNear, AudioAssumption DEF Frames
<1>2. Audio!SeqAdd(a.next, 1) = Audio!IndexOf(n + 1) BY <1>1, IndexAdd
<1>3. Audio!SeqAdd(a.next, 1) \in Audio!SeqNums BY <1>1, <1>2, IndexIs
<1>4. PICK x : x = Audio!SeqAdd(a.next, 1) OBVIOUS
<1>5. PICK r : r = Audio!Advance(a) OBVIOUS
<1>6. r = [a EXCEPT !.prev = a.next, !.next = x] BY <1>4, <1>5 DEF Audio!Advance
<1>7. r \in AudioStates BY <1>3, <1>4, <1>6 DEF AudioStates
<1>8. r.jitter = a.jitter /\ r.started = a.started /\ r.valid = a.valid /\ r.next = x
      /\ r.startup = a.startup
  BY <1>6 DEF AudioStates
<1>9. \A s \in r.jitter : n + 1 <= s.frame
  <2>1. \A s \in a.jitter : s.frame \in Frames BY DEF Buffer, Filed
  <2>2. \A s \in a.jitter : s.frame \in Int BY <2>1, FramesAreNear
  <2>3. \A s \in a.jitter : n + 1 <= s.frame BY <1>1, <2>2
  <2> QED BY <1>8, <2>3
<1>10. Awaits(r, n + 1) BY <1>1, <1>2, <1>4, <1>8, <1>9 DEF Awaits
<1>11. a.valid = a.started BY DEF AudioStates
<1> QED BY <1>1, <1>4, <1>5, <1>7, <1>8, <1>10, <1>11 DEF Sound

\* What comes next is heard in order.
LEMMA HearsInOrder ==
  ASSUME SoundInv, first' = first, haptics' = haptics, NEW h \in Heard,
         heard' = Append(heard, h),
         h.frame # Concealed => /\ h.index = Audio!IndexOf(h.frame)
                                /\ first = 0 => h.frame >= 0,
         heard # <<>> =>
           IF haptics THEN Audio!SeqGt(h.index, heard[Len(heard)].index)
           ELSE h.index = Audio!SeqAdd(heard[Len(heard)].index, 1)
  PROVE  /\ heard' \in Seq(Heard) /\ heard'[Len(heard')] = h
         /\ Audio!HeardInOrder'
<1> DEFINE n == Len(heard)
<1>1. heard \in Seq(Heard) BY DEF SoundInv
<1>2. n \in Nat /\ DOMAIN heard = 1 .. n /\ (n # 0 => heard # <<>>) BY <1>1
<1>3. /\ heard' \in Seq(Heard) /\ Len(heard') = n + 1
      /\ \A i \in 1 .. n : heard'[i] = heard[i]
      /\ heard'[n + 1] = h
  BY <1>1, AppendProperties
<1>4. DOMAIN heard' = 1 .. n + 1 BY <1>3
<1> HIDE DEF n
<1>5. ASSUME NEW i \in DOMAIN heard', heard'[i].frame # Concealed
      PROVE  /\ heard'[i].index = Audio!IndexOf(heard'[i].frame)
             /\ first = 0 => heard'[i].frame >= 0
  <2>1. CASE i = n + 1 BY <1>3, <1>5, <2>1
  <2>2. CASE i \in 1 .. n
    BY <1>2, <1>3, <1>5, <2>2 DEF SoundInv, Audio!HeardInOrder
  <2> QED BY <1>2, <1>4, <2>1, <2>2
<1>6. ASSUME NEW i \in DOMAIN heard' \ {1}
      PROVE  IF haptics THEN Audio!SeqGt(heard'[i].index, heard'[i - 1].index)
             ELSE heard'[i].index = Audio!SeqAdd(heard'[i - 1].index, 1)
  <2>1. CASE i = n + 1
    <3>1. n # 0 /\ heard'[i - 1] = heard[n] BY <1>2, <1>3, <2>1
    <3> QED BY <1>2, <1>3, <2>1, <3>1 DEF n
  <2>2. CASE i \in 1 .. n
    <3>1. i - 1 \in 1 .. n /\ i \in DOMAIN heard \ {1} BY <1>2, <2>2
    <3> QED BY <1>3, <2>2, <3>1 DEF SoundInv, Audio!HeardInOrder
  <2> QED BY <1>2, <1>4, <2>1, <2>2
<1>7. Audio!HeardInOrder'
  BY <1>5, <1>6, first' = first, haptics' = haptics DEF Audio!HeardInOrder, Audio!IndexOf
<1> QED BY <1>3, <1>7

-----------------------------------------------------------------------------

\* The next unit is fresh.
LEMMA NextUnitFacts ==
  ASSUME SoundInv, avCall # NoCall, Audio!NextUnit, first' = first
  PROVE  CallRight' /\ (avCall' = NoCall \/ avCall'.fresh)
<1>1. avCall \in Audio!Calls /\ (first = 0 => avCall.startup) BY DEF SoundInv, CallRight
<1>2. CASE avCall.unit + 1 \in Audio!AudioUnits
  <2>1. avCall' = [avCall EXCEPT !.unit = @ + 1, !.fresh = TRUE] BY <1>2 DEF Audio!NextUnit
  <2>2. avCall' \in Audio!Calls BY <1>1, <1>2, <2>1 DEF Audio!Calls
  <2>3. avCall'.fresh = TRUE /\ avCall'.startup = avCall.startup BY <1>1, <2>1 DEF Audio!Calls
  <2> QED BY <1>1, <2>2, <2>3 DEF CallRight
<1>3. CASE ~(avCall.unit + 1 \in Audio!AudioUnits)
  <2>1. avCall' = NoCall BY <1>3 DEF Audio!NextUnit
  <2> QED BY <2>1 DEF CallRight
<1> QED BY <1>2, <1>3

\* The loop stays with its unit.
LEMMA SameUnitFacts ==
  ASSUME SoundInv, Audio!Handling, avCall' = [avCall EXCEPT !.fresh = FALSE], first' = first
  PROVE  CallRight' /\ avCall' # NoCall /\ ~avCall'.fresh
<1>1. avCall # NoCall /\ ~Audio!Skipped(avCall) BY DEF Audio!Handling
<1>2. avCall \in Audio!Calls /\ (first = 0 => avCall.startup) BY <1>1 DEF SoundInv, CallRight
<1>3. avCall' \in Audio!Calls /\ avCall'.fresh = FALSE BY <1>2 DEF Audio!Calls
<1>4. avCall'.packet = avCall.packet /\ avCall'.unit = avCall.unit
      /\ avCall'.startup = avCall.startup
  BY <1>2 DEF Audio!Calls
<1>5. avCall' # NoCall BY <1>3, AudioAssumption
<1>6. Audio!Skipped(avCall)' <=> Audio!Skipped(avCall)
  BY <1>4, first' = first DEF Audio!Skipped, Audio!PacketIndex, Audio!IndexOf
<1> QED BY <1>1, <1>2, <1>3, <1>4, <1>5, <1>6 DEF CallRight

\* Nothing is heard yet.
LEMMA SoundInit == InitAv => SoundInv
<1> SUFFICES ASSUME InitAv PROVE SoundInv OBVIOUS
<1>1. /\ first \in FirstFrames /\ haptics \in BOOLEAN /\ avCall = NoCall /\ heard = <<>>
      /\ audio = [prev |-> 0, next |-> 0, valid |-> FALSE, started |-> FALSE,
                  startup |-> TRUE, jitter |-> {}]
  BY DEF InitAv, Audio!Init, Audio!Reset
<1>2. first \in Audio!SeqNums BY <1>1, AudioAssumption
<1>3. 0 \in Audio!SeqNums BY NumberSpace DEF Audio!SeqNums, Audio!SeqMod
<1>4. audio \in AudioStates BY <1>1, <1>3 DEF AudioStates
<1>5. audio.jitter = {} /\ audio.valid = FALSE /\ audio.started = FALSE /\ audio.startup = TRUE
  BY <1>1
<1>6. Sound(audio)
  <2>1. Buffer(audio.jitter) /\ Cardinality(audio.jitter) < Prefill
    BY <1>5, EmptyBuffer, AudioAssumption
  <2> QED BY <1>4, <1>5, <2>1 DEF Sound
<1>7. Emptied /\ CallRight /\ HeardLast BY <1>1, <1>5 DEF Emptied, CallRight, HeardLast
<1>8. heard \in Seq(Heard) /\ DOMAIN heard = {} BY <1>1
<1>9. Audio!HeardInOrder BY <1>8 DEF Audio!HeardInOrder
<1> QED BY <1>1, <1>2, <1>6, <1>7, <1>8, <1>9 DEF SoundInv

\* A packet begins its call.
LEMMA SoundArrival ==
  ASSUME SoundInv, NEW p \in Audio!Packets, NEW again \in BOOLEAN, Audio!Arrive(p, again)
  PROVE  SoundInv'
<1>1. /\ avCall = NoCall /\ UNCHANGED <<first, haptics, heard>>
      /\ audio' = [audio EXCEPT !.startup = @ /\ Audio!PacketIndex(p) <= SeqHalf]
      /\ avCall' = [packet |-> p, unit |-> 0, fresh |-> TRUE, startup |-> audio'.startup]
  BY DEF Audio!Arrive
<1>2. first \in Audio!SeqNums /\ Sound(audio) /\ audio \in AudioStates BY DEF SoundInv, Sound
<1>3. PICK u \in BOOLEAN : u = (audio.startup /\ Audio!PacketIndex(p) <= SeqHalf) OBVIOUS
<1>4. audio' = [audio EXCEPT !.startup = u] BY <1>1, <1>2, <1>3 DEF AudioStates
<1>5. /\ audio' \in AudioStates /\ audio'.startup = u
      /\ audio'.prev = audio.prev /\ audio'.next = audio.next /\ audio'.valid = audio.valid
      /\ audio'.started = audio.started /\ audio'.jitter = audio.jitter
  BY <1>2, <1>4 DEF AudioStates
<1>6. first = 0 => u
  <2>1. ASSUME first = 0 PROVE Audio!PacketIndex(p) <= SeqHalf
    <3>1. 0 \in Audio!AudioUnits BY AudioAssumption DEF Audio!AudioUnits
    <3>2. (p - 1) * Source \in Frames BY <1>2, <3>1, UnitFacts
    <3>3. (p - 1) * Source \in Nat BY AudioAssumption DEF Audio!Packets
    <3> QED BY <1>2, <2>1, <3>2, <3>3, IndexIs, FramesAreNear, NumberSpace
         DEF Audio!PacketIndex
  <2> QED BY <1>2, <1>3, <2>1 DEF Sound
<1>7. Sound(audio)'
  <2>1. \A n : Awaits(audio, n)' <=> Awaits(audio, n)
    BY <1>1, <1>5 DEF Awaits, Audio!IndexOf
  <2>2. Buffer(audio.jitter)' <=> Buffer(audio.jitter)
    BY <1>1, <1>5 DEF Buffer, Filed, Audio!IndexOf
  <2> QED BY <1>1, <1>2, <1>5, <1>6, <2>1, <2>2 DEF Sound
<1>8. /\ avCall' \in Audio!Calls /\ avCall'.fresh = TRUE /\ avCall'.startup = u
  BY <1>1, <1>5, AudioAssumption DEF Audio!Calls, Audio!AudioUnits
<1>9. CallRight' BY <1>1, <1>6, <1>8 DEF CallRight
<1>10. Emptied' BY <1>1, <1>5 DEF SoundInv, Emptied
<1>11. HeardLast' BY <1>1, <1>5 DEF SoundInv, HeardLast
<1>12. Audio!HeardInOrder' BY <1>1 DEF SoundInv, Audio!HeardInOrder, Audio!IndexOf
<1> QED BY <1>1, <1>2, <1>7, <1>9, <1>10, <1>11, <1>12 DEF SoundInv

\* A state that is right stays so: the console's numbering does not change.
LEMMA SoundBecomes ==
  ASSUME NEW r, Sound(r), audio' = r, first' = first, haptics' = haptics
  PROVE  Sound(audio)'
<1>1. \A n : Awaits(audio, n)' <=> Awaits(r, n) BY DEF Awaits, Audio!IndexOf
<1>2. Buffer(audio.jitter)' <=> Buffer(r.jitter) BY DEF Buffer, Filed, Audio!IndexOf
<1> QED BY <1>1, <1>2 DEF Sound

\* What the rest of the invariant is when nothing is heard.
LEMMA SilentStep ==
  ASSUME SoundInv, UNCHANGED <<first, haptics, heard>>
  PROVE  /\ first' \in Audio!SeqNums /\ haptics' \in BOOLEAN
         /\ heard' \in Seq(Heard) /\ Audio!HeardInOrder'
<1>1. Audio!HeardInOrder' BY DEF SoundInv, Audio!HeardInOrder, Audio!IndexOf
<1> QED BY <1>1 DEF SoundInv

\* Nothing of the audio moves.
LEMMA SoundStutter ==
  ASSUME SoundInv, UNCHANGED <<first, haptics, audio, avCall, heard>>
  PROVE  SoundInv'
<1>1. PICK r : r = audio OBVIOUS
<1>2. Sound(audio)' BY <1>1, SoundBecomes DEF SoundInv
<1>3. CallRight'
  <2>1. Audio!Skipped(avCall)' <=> Audio!Skipped(avCall)
    BY DEF Audio!Skipped, Audio!PacketIndex, Audio!IndexOf
  <2> QED BY <2>1 DEF SoundInv, CallRight
<1>4. Emptied' /\ HeardLast' BY DEF SoundInv, Emptied, HeardLast
<1> QED BY <1>2, <1>3, <1>4, SilentStep DEF SoundInv

\* A unit that is not for this stream position.
LEMMA SoundSkip ==
  ASSUME SoundInv, Audio!SkipUnit \/ Audio!RefuseUnit
  PROVE  SoundInv'
<1>1. /\ avCall # NoCall /\ Audio!NextUnit /\ UNCHANGED <<first, haptics, audio, heard>>
      /\ Audio!Skipped(avCall) \/ avCall.fresh
  BY DEF Audio!SkipUnit, Audio!RefuseUnit, Audio!Handling, Audio!Refused, Audio!Unchanged
<1>2. CallRight' BY <1>1, NextUnitFacts
<1>3. avCall.fresh
  <2>1. avCall \in Audio!Calls BY <1>1 DEF SoundInv, CallRight
  <2> QED BY <1>1, <2>1 DEF SoundInv, CallRight
<1>4. PICK r : r = audio OBVIOUS
<1>5. Sound(audio)' BY <1>1, <1>4, SoundBecomes DEF SoundInv
<1>6. Emptied' BY <1>1, <1>3 DEF SoundInv, Emptied
<1>7. HeardLast' BY <1>1 DEF SoundInv, HeardLast
<1> QED BY <1>1, <1>2, <1>5, <1>6, <1>7, SilentStep DEF SoundInv

\* Haptics frames go straight to their sink.
LEMMA SoundHaptics ==
  ASSUME SoundInv, Audio!HapticsUnit
  PROVE  SoundInv'
<1>1. /\ haptics /\ avCall # NoCall /\ ~Audio!Skipped(avCall) /\ Audio!NextUnit
      /\ UNCHANGED <<first, haptics>>
  BY DEF Audio!HapticsUnit, Audio!Handling
<1>2. CallRight' BY <1>1, NextUnitFacts
<1>3. audio \in AudioStates /\ Sound(audio) /\ ~audio.started BY <1>1 DEF SoundInv, Sound
<1>4. CASE Audio!SeqGt(Audio!Slot.index, audio.prev)
  <2>1. PICK s \in Audio!Slots : s = Audio!Slot /\ Filed(s) BY <1>1, SlotIs
  <2>2. audio' = [audio EXCEPT !.prev = s.index] /\ Audio!Hear(s.index, s.frame)
    BY <1>4, <2>1 DEF Audio!HapticsUnit
  <2>3. PICK r : r = [audio EXCEPT !.prev = s.index] OBVIOUS
  <2>4. s.index \in Audio!SeqNums /\ s.frame \in Frames BY <2>1 DEF Audio!Slots, Filed
  <2>5. /\ r \in AudioStates /\ r.prev = s.index
        /\ r.next = audio.next /\ r.valid = audio.valid
        /\ r.started = audio.started /\ r.jitter = audio.jitter /\ r.startup = audio.startup
    BY <1>3, <2>3, <2>4 DEF AudioStates
  <2>6. Sound(r) BY <1>3, <2>5 DEF Sound
  <2>7. Sound(audio)' BY <1>1, <2>2, <2>3, <2>6, SoundBecomes
  <2>8. PICK h \in Heard : h = [index |-> s.index, frame |-> s.frame] BY <2>4 DEF Heard
  <2>9. heard' = Append(heard, h) BY <2>2, <2>8 DEF Audio!Hear
  <2>10. h.index = s.index /\ h.frame = s.frame BY <2>8
  <2>11. h.index = Audio!IndexOf(h.frame) /\ (first = 0 => h.frame >= 0)
    BY <2>1, <2>10 DEF Filed
  <2>12. heard # <<>> => Audio!SeqGt(h.index, heard[Len(heard)].index)
    BY <1>1, <1>4, <2>1, <2>10 DEF SoundInv, HeardLast
  <2>13. heard' \in Seq(Heard) /\ heard'[Len(heard')] = h /\ Audio!HeardInOrder'
    BY <1>1, <2>9, <2>11, <2>12, HearsInOrder
  <2>14. HeardLast' BY <1>1, <2>2, <2>3, <2>5, <2>10, <2>13 DEF HeardLast
  <2>15. Emptied' BY <1>3, <2>2, <2>3, <2>5 DEF Emptied
  <2> QED BY <1>1, <1>2, <2>7, <2>13, <2>14, <2>15 DEF SoundInv
<1>5. CASE ~Audio!SeqGt(Audio!Slot.index, audio.prev)
  <2>1. UNCHANGED <<audio, heard>> BY <1>5 DEF Audio!HapticsUnit
  <2>2. PICK r : r = audio OBVIOUS
  <2>3. Sound(audio)' BY <1>1, <1>3, <2>1, <2>2, SoundBecomes
  <2>4. Emptied' BY <1>3, <2>1 DEF Emptied
  <2>5. HeardLast' BY <1>1, <2>1 DEF SoundInv, HeardLast
  <2> QED BY <1>1, <1>2, <2>1, <2>3, <2>4, <2>5, SilentStep DEF SoundInv
<1> QED BY <1>4, <1>5

\* A frame that is played or concealed: the receiver then awaits the next one.
LEMMA SoundHeard ==
  ASSUME SoundInv, ~haptics, Audio!Handling, ~Audio!Refused, UNCHANGED <<first, haptics>>,
         NEW r, Sound(r), r.started, audio' = r, r.next = Audio!SeqAdd(Audio!Ready.next, 1),
         NEW f \in Frames \cup {Concealed}, Audio!Hear(Audio!Ready.next, f),
         f # Concealed => Audio!Ready.next = Audio!IndexOf(f) /\ (first = 0 => f >= 0),
         avCall' = [avCall EXCEPT !.fresh = FALSE]
  PROVE  SoundInv'
<1>1. PICK x : x = Audio!Ready.next OBVIOUS
<1>2. x \in Audio!SeqNums BY <1>1, ReadyIsSound DEF Sound, AudioStates
<1>3. PICK h \in Heard : h = [index |-> x, frame |-> f] BY <1>2 DEF Heard
<1>4. heard' = Append(heard, h) BY <1>1, <1>3 DEF Audio!Hear
<1>5. h.index = x /\ h.frame = f BY <1>3
<1>6. heard # <<>> => h.index = Audio!SeqAdd(heard[Len(heard)].index, 1)
  BY <1>1, <1>5, ReadyIsSound DEF SoundInv, HeardLast
<1>7. heard' \in Seq(Heard) /\ heard'[Len(heard')] = h /\ Audio!HeardInOrder'
  BY <1>1, <1>4, <1>5, <1>6, HearsInOrder
<1>8. HeardLast' BY <1>1, <1>5, <1>7 DEF HeardLast
<1>9. Sound(audio)' BY SoundBecomes
<1>10. CallRight' /\ Emptied' BY SameUnitFacts DEF Emptied
<1> QED BY <1>7, <1>8, <1>9, <1>10 DEF SoundInv

\* The frame awaited is played from the buffer.
LEMMA SoundPlay ==
  ASSUME SoundInv, Audio!PlayFrame
  PROVE  SoundInv'
<1>1. /\ ~haptics /\ Audio!Handling /\ ~Audio!Refused /\ Audio!Playing(Audio!Ready)
      /\ UNCHANGED <<first, haptics>>
      /\ avCall' = [avCall EXCEPT !.fresh = FALSE]
  BY DEF Audio!PlayFrame, Audio!Unchanged
<1>2. PICK s \in Audio!Due(Audio!Ready) :
        /\ audio' = Audio!Advance([Audio!Ready EXCEPT !.jitter = @ \ {s}])
        /\ Audio!Hear(Audio!Ready.next, s.frame)
  BY DEF Audio!PlayFrame
<1>3. PICK w : w = Audio!Ready OBVIOUS
<1>4. Sound(w) /\ w \in AudioStates /\ w.started /\ w.valid
  BY <1>1, <1>3, ReadyIsSound DEF Audio!Playing, Sound
<1>5. s \in w.jitter /\ s.index = w.next BY <1>2, <1>3 DEF Audio!Due
<1>6. PICK n \in Frames : Awaits(w, n) BY <1>4 DEF Sound
<1>7. \A t \in w.jitter : Filed(t) /\ t \in Audio!Slots /\ n <= t.frame
  BY <1>4, <1>6 DEF Sound, Buffer, Awaits
<1>8. first \in Audio!SeqNums BY DEF SoundInv
<1>9. s.frame = n BY <1>5, <1>6, <1>7, <1>8, IndexOrder DEF Filed, Awaits
<1> DEFINE b == w.jitter \ {s}
<1>10. \A t \in b : n < t.frame
  <2>1. TAKE t \in b
  <2>2. t.frame # n
    <3>1. ASSUME t.frame = n PROVE FALSE
      <4>1. t.frame = s.frame /\ t.index = s.index BY <1>5, <1>7, <1>9, <3>1 DEF Filed
      <4>2. t = s BY <1>5, <1>7, <4>1 DEF Audio!Slots
      <4> QED BY <4>2
    <3> QED BY <3>1
  <2>3. n <= t.frame /\ t.frame \in Frames BY <1>7 DEF Filed
  <2>4. n \in Int /\ t.frame \in Int BY <1>6, <2>3, FramesAreNear
  <2> QED BY <2>2, <2>3, <2>4
<1>11. Buffer(b) BY <1>4, BufferShrinks DEF Sound
<1>12. b \subseteq Audio!Slots BY <1>7
<1> HIDE DEF b
<1>13. PICK a : a = [w EXCEPT !.jitter = b] OBVIOUS
<1>14. /\ a \in AudioStates /\ a.jitter = b /\ a.next = w.next /\ a.started = w.started
       /\ a.valid = w.valid /\ a.startup = w.startup
  BY <1>4, <1>12, <1>13 DEF AudioStates
<1>15. n < LastAudio * Source /\ (first = 0 => n >= 0) BY <1>5, <1>7, <1>9 DEF Filed
<1>16. PICK r : r = Audio!Advance(a) OBVIOUS
<1>17. w.next = Audio!IndexOf(n) /\ (first = 0 => w.startup) BY <1>4, <1>6 DEF Awaits, Sound
<1>18. Sound(r) /\ r.started /\ r.next = Audio!SeqAdd(w.next, 1)
  BY <1>1, <1>4, <1>8, <1>10, <1>11, <1>14, <1>15, <1>16, <1>17, AdvanceIsSound
<1>19. audio' = r BY <1>2, <1>3, <1>13, <1>16 DEF b
<1>20. Audio!Hear(w.next, n) BY <1>2, <1>3, <1>9
<1> QED BY <1>1, <1>3, <1>15, <1>17, <1>18, <1>19, <1>20, SoundHeard

\* A missing frame is concealed.
LEMMA SoundConceal ==
  ASSUME SoundInv, Audio!ConcealFrame
  PROVE  SoundInv'
<1>1. /\ ~haptics /\ Audio!Handling /\ ~Audio!Refused /\ Audio!Conceals(Audio!Ready)
      /\ UNCHANGED <<first, haptics>>
      /\ avCall' = [avCall EXCEPT !.fresh = FALSE]
      /\ audio' = Audio!Advance(Audio!Ready) /\ Audio!Hear(Audio!Ready.next, Concealed)
  BY DEF Audio!ConcealFrame, Audio!Unchanged
<1>2. PICK w : w = Audio!Ready OBVIOUS
<1>3. Sound(w) /\ w \in AudioStates /\ w.started /\ w.valid
      /\ Audio!Due(w) = {} /\ w.jitter # {}
  BY <1>1, <1>2, ReadyIsSound DEF Audio!Conceals, Audio!Playing, Sound
<1>4. PICK n \in Frames : Awaits(w, n) BY <1>3 DEF Sound
<1>5. \A t \in w.jitter : /\ t.frame \in Frames /\ t.frame < LastAudio * Source
                          /\ t.index = Audio!IndexOf(t.frame) /\ n <= t.frame
  BY <1>3, <1>4 DEF Sound, Buffer, Filed, Awaits
<1>6. \A t \in w.jitter : t.frame # n BY <1>3, <1>4, <1>5 DEF Audio!Due, Awaits
<1>7. \A t \in w.jitter : t.frame \in Int /\ n \in Int BY <1>4, <1>5, FramesAreNear
<1>8. \A t \in w.jitter : n < t.frame BY <1>5, <1>6, <1>7
<1>9. n < LastAudio * Source BY <1>3, <1>5, <1>7, <1>8, FramesAreNear
<1>10. first \in Audio!SeqNums BY DEF SoundInv
<1>11. PICK r : r = Audio!Advance(w) OBVIOUS
<1>12. /\ w.next = Audio!IndexOf(n) /\ (first = 0 => w.startup) /\ Buffer(w.jitter)
  BY <1>3, <1>4 DEF Awaits, Sound
<1>13. Sound(r) /\ r.started /\ r.next = Audio!SeqAdd(w.next, 1)
  BY <1>1, <1>3, <1>8, <1>9, <1>10, <1>11, <1>12, AdvanceIsSound
<1> QED BY <1>1, <1>2, <1>11, <1>13, SoundHeard

\* The call goes on to its next unit, or ends.
LEMMA SoundUnitDone ==
  ASSUME SoundInv, Audio!UnitDone
  PROVE  SoundInv'
<1>1. /\ ~haptics /\ Audio!Handling /\ ~Audio!Refused
      /\ ~(Audio!Playing(Audio!Ready) /\ Audio!Due(Audio!Ready) # {})
      /\ ~Audio!Conceals(Audio!Ready)
      /\ audio' = Audio!Ready /\ Audio!NextUnit
      /\ UNCHANGED <<first, haptics, heard>>
  BY DEF Audio!UnitDone, Audio!Unchanged
<1>2. PICK w : w = Audio!Ready OBVIOUS
<1>3. Sound(w) /\ (audio.started => w.started /\ w.next = audio.next)
  BY <1>1, <1>2, ReadyIsSound
<1>4. first \in Audio!SeqNums BY DEF SoundInv
<1>5. w.started => w.jitter = {}
  <2>1. HAVE w.started
  <2>2. w.valid /\ w.started BY <1>3, <2>1 DEF Sound
  <2>3. Audio!Due(w) = {} /\ ~Audio!Conceals(w) BY <1>1, <1>2, <2>2 DEF Audio!Playing
  <2> QED BY <1>3, <1>4, <2>1, <2>3, NothingWaits
<1>6. Sound(audio)' BY <1>1, <1>2, <1>3, SoundBecomes
<1>7. Emptied' BY <1>1, <1>2, <1>5 DEF Emptied
<1>8. CallRight' BY <1>1, NextUnitFacts DEF Audio!Handling
<1>9. HeardLast' BY <1>1, <1>2, <1>3 DEF SoundInv, HeardLast
<1> QED BY <1>1, <1>6, <1>7, <1>8, <1>9, SilentStep DEF SoundInv

\* A stream header starts the receiver anew.
LEMMA SoundHeader ==
  ASSUME SoundInv, Audio!StreamInfo
  PROVE  SoundInv'
<1>1. /\ heard' = <<>> /\ UNCHANGED <<first, haptics, avCall>>
      /\ audio' = [prev |-> 0, next |-> 0, valid |-> FALSE, started |-> FALSE,
                   startup |-> TRUE, jitter |-> {}]
  BY DEF Audio!StreamInfo, Audio!Reset
<1>2. PICK r : r = audio' OBVIOUS
<1>3. 0 \in Audio!SeqNums BY NumberSpace DEF Audio!SeqNums, Audio!SeqMod
<1>4. r \in AudioStates BY <1>1, <1>2, <1>3 DEF AudioStates
<1>5. r.jitter = {} /\ r.valid = FALSE /\ r.started = FALSE /\ r.startup = TRUE
  BY <1>1, <1>2
<1>6. Sound(r)
  <2>1. Buffer(r.jitter) /\ Cardinality(r.jitter) < Prefill
    BY <1>5, EmptyBuffer, AudioAssumption
  <2> QED BY <1>4, <1>5, <2>1 DEF Sound
<1>7. Sound(audio)' BY <1>1, <1>2, <1>6, SoundBecomes
<1>8. CallRight'
  <2>1. Audio!Skipped(avCall)' <=> Audio!Skipped(avCall)
    BY <1>1 DEF Audio!Skipped, Audio!PacketIndex, Audio!IndexOf
  <2> QED BY <1>1, <2>1 DEF SoundInv, CallRight
<1>9. Emptied' /\ HeardLast' BY <1>1, <1>2, <1>5 DEF Emptied, HeardLast
<1>10. heard' \in Seq(Heard) /\ DOMAIN heard' = {} BY <1>1
<1>11. Audio!HeardInOrder' BY <1>10 DEF Audio!HeardInOrder
<1> QED BY <1>1, <1>7, <1>8, <1>9, <1>10, <1>11 DEF SoundInv

\* Every step of the receiver.
LEMMA SoundNext ==
  ASSUME SoundInv, Audio!Next
  PROVE  SoundInv'
<1>1. ASSUME NEW p \in Audio!Packets, NEW again \in BOOLEAN, Audio!Arrive(p, again)
      PROVE  SoundInv'
  BY <1>1, SoundArrival
<1>2. ASSUME NEW p \in Audio!Packets, Audio!Lose(p) PROVE SoundInv'
  BY <1>2, SoundStutter DEF Audio!Lose
<1>3. CASE Audio!SkipUnit \/ Audio!RefuseUnit BY <1>3, SoundSkip
<1>4. CASE Audio!HapticsUnit BY <1>4, SoundHaptics
<1>5. CASE Audio!PlayFrame BY <1>5, SoundPlay
<1>6. CASE Audio!ConcealFrame BY <1>6, SoundConceal
<1>7. CASE Audio!UnitDone BY <1>7, SoundUnitDone
<1>8. CASE Audio!StreamInfo BY <1>8, SoundHeader
<1> QED BY <1>1, <1>2, <1>3, <1>4, <1>5, <1>6, <1>7, <1>8 DEF Audio!Next

\* What the sinks of sound are given, and that nothing waits for its turn: the
\* property of the run, for every packet, prefill and buffer size.
THEOREM SoundIsWhole == SpecAv => []SoundArrives
<1>1. InitAv => SoundInv BY SoundInit
<1>2. ASSUME SoundInv, [KeysStep \/ VideoStep \/ AudioStep]_allVars PROVE SoundInv'
  <2>1. CASE KeysStep BY <1>2, <2>1, SoundStutter DEF KeysStep, audioVars
  <2>2. CASE VideoStep BY <1>2, <2>2, SoundStutter DEF VideoStep, audioVars
  <2>3. CASE AudioStep BY <1>2, <2>3, SoundNext DEF AudioStep
  <2>4. CASE UNCHANGED allVars BY <1>2, <2>4, SoundStutter DEF allVars, audioVars
  <2> QED BY <1>2, <2>1, <2>2, <2>3, <2>4
<1>3. SoundInv => SoundArrives
  BY DEF SoundInv, Emptied, SoundArrives, Audio!NothingHeldBack
<1> QED BY <1>1, <1>2, <1>3, PTL DEF SpecAv
==============================================================================
