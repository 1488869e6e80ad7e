------------------------------ MODULE KeyStream ------------------------------
(***************************************************************************)
(* One GKCrypt of crates/chiaki-core/src/gkcrypt.rs with the receiver that *)
(* uses it (takion.rs, streamconnection.rs): a thread keeps a ring of key   *)
(* stream ahead of the requests and generates each chunk without the lock; *)
(* a packet carries the low half of its key position, which KeyState        *)
(* completes, its MAC is taken with a key that changes every Refresh        *)
(* positions, and its payload is deciphered later, out of the ring or, when *)
(* the ring does not hold it, with a stream generated for the occasion.     *)
(*                                                                         *)
(* A byte of the key stream is the position it belongs to, a GMAC key is    *)
(* its index, and a MAC is right when both sides used the same position,    *)
(* the same key and the packet is undamaged.                                *)
(***************************************************************************)
EXTENDS Integers, FiniteSets

CONSTANTS Block,       \* GKCRYPT_BLOCK_SIZE
          ChunkBlocks, \* KEY_BUF_CHUNK_SIZE / GKCRYPT_BLOCK_SIZE
          Chunks,      \* key_buf_chunks
          KeyHalf,     \* 2^31: half of the positions a packet can name
          Refresh,     \* GMAC_KEY_REFRESH_KEY_POS
          MaxPos,      \* bound: the last position the console uses
          MaxLen,      \* bound: the longest payload
          MaxPending   \* bound: packets accepted and not yet deciphered

ASSUME KeyStreamAssumption ==
  /\ Block \in Nat \ {0} /\ ChunkBlocks \in Nat \ {0} /\ Chunks \in Nat \ {0}
  /\ KeyHalf \in Nat \ {0} /\ Refresh \in Nat \ {0}
  /\ MaxPos \in Nat /\ MaxLen \in Nat /\ MaxPending \in Nat

Chunk  == ChunkBlocks * Block
Size   == Chunks * Chunk
KeyMod == 2 * KeyHalf
Unset  == -1            \* the zeroes of a fresh buffer

Packet == [sent : 0 .. MaxPos, pos : Nat, len : 1 .. MaxLen]

VARIABLES
  min, populated, start, buf,  \* key_buf_key_pos_min, _populated, _start_offset, key_buf
  last,      \* last_key_pos: the end of the furthest request
  stop,      \* key_buf_thread_stop
  thread,    \* key_buf_thread_func: waiting, generating without the lock, or ended
  chunk,     \* its buf_offset and key_pos
  prev,      \* KeyState.prev
  gmac,      \* key_gmac_index_current and key_gmac_current
  pending    \* packets whose MAC was right and whose payload is not deciphered yet

ring == <<min, populated, start, buf>>
vars == <<min, populated, start, buf, last, stop, thread, chunk, prev, gmac, pending>>

Init == /\ min = 0 /\ populated = 0 /\ start = 0
        /\ buf = [o \in 0 .. Size - 1 |-> Unset]
        /\ last = 0 /\ stop = FALSE
        /\ thread = "waiting" /\ chunk = [offset |-> 0, pos |-> 0]
        /\ prev = 0 /\ gmac = [index |-> 0, key |-> 0]
        /\ pending = {}
-----------------------------------------------------------------------------
(* KeyState: the 64-bit position whose low half a packet carries.          *)

KeyLt(a, b) == \/ a < b /\ b - a < KeyHalf
               \/ a > b /\ a - b > KeyHalf
KeyGt(a, b) == \/ a < b /\ b - a > KeyHalf
               \/ a > b /\ a - b < KeyHalf

\* A plausible bug: a late packet from before the wrap is taken as a new one.
RequestPosForward(before, low) ==
  LET high == before \div KeyMod
  IN (IF low < before % KeyMod THEN high + 1 ELSE high) * KeyMod + low

RequestPos(before, low) ==
  LET prevLow == before % KeyMod
      high    == before \div KeyMod
      turned  == IF KeyGt(low, prevLow) /\ low < prevLow THEN high + 1
                 ELSE IF KeyLt(low, prevLow) /\ low > prevLow /\ high # 0 THEN high - 1
                 ELSE high
  IN turned * KeyMod + low
-----------------------------------------------------------------------------
(* The GMAC key of a position: the current one is kept, an older one is     *)
(* generated for the occasion.                                             *)

KeyIndex(pos) == (IF pos = 0 THEN 0 ELSE pos - 1) \div Refresh

GmacKey(g, pos)   == IF KeyIndex(pos) = g.index THEN g.key ELSE KeyIndex(pos)
GmacAfter(g, pos) == IF KeyIndex(pos) > g.index
                     THEN [index |-> KeyIndex(pos), key |-> KeyIndex(pos)]
                     ELSE g

\* takion_handle_packet_mac on the undamaged packet of position p.
MacMatches(p) ==
  LET pos == RequestPos(prev, p % KeyMod)
  IN pos = p /\ GmacKey(gmac, pos) = KeyIndex(p)
-----------------------------------------------------------------------------
(* The stream a request gets.                                              *)

\* gen_key_stream_raw counts in blocks.
Generate(pos, n) == [i \in 0 .. n - 1 |-> Block * (pos \div Block) + i]

InRing(pos, n) == min <= pos /\ pos + n < min + populated

\* The request may run over the end of the buffer and go on at its front.
FromRing(pos, n) ==
  LET first == (pos - min + start) % Size
  IN [i \in 0 .. n - 1 |->
        IF first + i < Size THEN buf[first + i] ELSE buf[first + i - Size]]

GetKeyStream(pos, n) == IF InRing(pos, n) THEN FromRing(pos, n) ELSE Generate(pos, n)

\* A plausible bug: the request starts at the payload, not at its block.
PaddingNone(pos) == 0

\* decrypt asks for whole blocks and skips what lies before the payload.
Padding(pos)      == pos % Block
FullSize(pos, n)  == ((Padding(pos) + n + Block - 1) \div Block) * Block
From(pos)         == pos - Padding(pos)
Deciphering(pos, n) ==
  [i \in 0 .. n - 1 |-> GetKeyStream(From(pos), FullSize(pos, n))[Padding(pos) + i]]
-----------------------------------------------------------------------------
(* The Takion thread.  A packet may come late, repeated, damaged or never.  *)

\* The position is completed, the MAC is checked, and only then remembered;
\* the parser completes it again.
Receive(p, n) ==
  LET pos == RequestPos(prev, p % KeyMod)
  IN /\ ~stop /\ Cardinality(pending) < MaxPending
     /\ gmac' = GmacAfter(gmac, pos)
     /\ IF MacMatches(p)
        THEN /\ prev' = pos
             /\ pending' = pending \cup
                  {[sent |-> p, pos |-> RequestPos(pos, p % KeyMod), len |-> n]}
        ELSE UNCHANGED <<prev, pending>>
     /\ UNCHANGED <<min, populated, start, buf, last, stop, thread, chunk>>

\* A damaged packet names any position; its MAC is wrong and it is dropped.
ReceiveDamaged(low) ==
  /\ ~stop
  /\ gmac' = GmacAfter(gmac, RequestPos(prev, low))
  /\ UNCHANGED <<min, populated, start, buf, last, stop, thread, chunk, prev, pending>>

\* stream_connection_takion_av: the payload starts one block after the position.
Decrypt(pk) ==
  LET pos == pk.pos + Block
      end == From(pos) + FullSize(pos, pk.len)
  IN /\ ~stop /\ pk \in pending
     /\ pending' = pending \ {pk}
     /\ last' = IF end > last THEN end ELSE last
     /\ UNCHANGED <<min, populated, start, buf, stop, thread, chunk, prev, gmac>>

\* The last reference goes.
Drop == /\ ~stop /\ stop' = TRUE
        /\ UNCHANGED <<min, populated, start, buf, last, thread, chunk, prev, gmac, pending>>
-----------------------------------------------------------------------------
(* key_buf_thread_func.                                                    *)

Beyond         == last > min + populated

\* A plausible bug: the thread waits until a request misses the ring.
ShouldGenerateBeyond == Beyond

ShouldGenerate == last > min + populated \div 2
Full           == populated = Size

SkipAhead == /\ min' = (last \div Chunk) * Chunk /\ start' = 0 /\ populated' = 0

\* A plausible bug: the ring goes on offering the chunk that is to be replaced.
SlideStillOffering == /\ start' = (start + Chunk) % Size
                      /\ min' = min + Chunk /\ populated' = populated

Slide     == /\ start' = (start + Chunk) % Size
             /\ min' = min + Chunk /\ populated' = populated - Chunk

Prepare ==
  /\ thread = "waiting" /\ ~stop /\ (~Full \/ ShouldGenerate)
  /\ CASE Beyond          -> SkipAhead
       [] ~Beyond /\ Full -> Slide
       [] OTHER           -> UNCHANGED <<min, start, populated>>
  /\ chunk' = [offset |-> (start' + populated') % Size, pos |-> min' + populated']
  /\ thread' = "generating"
  /\ UNCHANGED <<buf, last, stop, prev, gmac, pending>>

Publish ==
  /\ thread = "generating"
  /\ buf' = [o \in DOMAIN buf |->
               IF o \in chunk.offset .. chunk.offset + Chunk - 1
               THEN Generate(chunk.pos, Chunk)[o - chunk.offset] ELSE buf[o]]
  /\ populated' = populated + Chunk
  /\ thread' = "waiting"
  /\ UNCHANGED <<min, start, last, stop, chunk, prev, gmac, pending>>

EndThread == /\ thread = "waiting" /\ stop /\ thread' = "ended"
       /\ UNCHANGED <<min, populated, start, buf, last, stop, chunk, prev, gmac, pending>>

Next == \/ \E p \in 0 .. MaxPos, n \in 1 .. MaxLen : Receive(p, n)
        \/ \E low \in 0 .. KeyMod - 1 : ReceiveDamaged(low)
        \/ \E pk \in pending : Decrypt(pk)
        \/ Drop \/ Prepare \/ Publish \/ EndThread

\* The thread is scheduled; nothing is promised about packets or the drop.
Fairness == WF_vars(Prepare) /\ WF_vars(Publish) /\ WF_vars(EndThread)

Spec == Init /\ [][Next]_vars /\ Fairness
-----------------------------------------------------------------------------
TypeOK ==
  /\ min \in Nat /\ last \in Nat /\ prev \in Nat
  /\ populated \in 0 .. Size /\ start \in 0 .. Size - 1
  /\ buf \in [0 .. Size - 1 -> Nat \cup {Unset}]
  /\ stop \in BOOLEAN /\ thread \in {"waiting", "generating", "ended"}
  /\ chunk \in [offset : 0 .. Size - 1, pos : Nat]
  /\ gmac \in [index : Nat, key : Nat]
  /\ pending \subseteq Packet

\* Whenever its turn comes, and wherever the ring has moved meanwhile, a packet
\* that was accepted is deciphered with the key stream of the positions the
\* console enciphered it with (decrypt, get_key_stream, key_buf_thread_func).
RightStream ==
  \A pk \in pending :
    Deciphering(pk.pos + Block, pk.len) = [i \in 0 .. pk.len - 1 |-> pk.sent + Block + i]

\* What the ring offers is the key stream, byte for byte, at every position it
\* claims to hold, also while the thread replaces a chunk without the lock.
RingIsStream ==
  \A pos \in min .. min + populated - 1 : buf[(pos - min + start) % Size] = pos

\* An undamaged packet less than half the number space away from the last one
\* is accepted, in whatever order packets and GMAC keys come and whatever
\* damaged ones came between (KeyState::request_pos, gmac).
NearAccepted ==
  \A p \in 0 .. MaxPos : p - prev \in 1 - KeyHalf .. KeyHalf - 1 => MacMatches(p)

\* When requests pause, the ring fills and gets half a ring ahead of them (the
\* condition the thread waits for).
CatchesUp == <>[](stop \/ (Full /\ last <= min + Size \div 2))
=============================================================================
