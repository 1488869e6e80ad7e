------------------------------ MODULE TakionAv ------------------------------
(***************************************************************************)
(* The video packets a Takion connection receives (takion.rs): postponed   *)
(* until the keys are there, then sorted in a reorder queue that gives up  *)
(* its oldest, pulled in order, and, when the head stays missing longer    *)
(* than av_reorder_timeout_us, skipped to the first packet there is.       *)
(*                                                                         *)
(* Packets are numbered 1 .. LastVideo as the console sends them, under    *)
(* the wrapping 16-bit index of their place.  Time passes in ticks.        *)
(***************************************************************************)
EXTENDS ReorderQueueOps, Sequences

CONSTANTS LastVideo,     \* bound: how many video packets the console sends
          FirstIndex,    \* the packet_index of the first one
          Units,         \* units per frame: packet n is unit (n - 1) % Units
          PostponeSize,  \* TAKION_POSTPONE_PACKETS_SIZE
          Timeout,       \* av_reorder_timeout_us, in ticks
          Off            \* head_wait_start_us = 0

ASSUME VideoAssumption ==
  /\ LastVideo \in Nat /\ LastVideo < SeqHalf /\ FirstIndex \in SeqNums
  /\ Units \in Nat \ {0} /\ Units <= 2 * SeqHalf
  /\ PostponeSize \in Nat /\ Timeout \in Nat
  /\ Off \notin Nat /\ NoUser \notin 1 .. LastVideo

Seqs == INSTANCE SequencesExt

VideoPackets == 1 .. LastVideo
IndexOf(n)   == SeqAdd(FirstIndex, n - 1)
UnitOf(n)    == (n - 1) % Units

VARIABLES videoNet,   \* the packets that may still arrive
          crypt,      \* gkcrypt_remote is set
          postponed,  \* postponed_packets
          av          \* video_queue and its wait, what was dispatched
videoVars == <<videoNet, crypt, postponed, av>>

\* av: started: video_queue is Some; q; wait: the ticks since head_wait_start_us,
\* or Off; waitSeq: head_wait_seq_num; fired: the packets handed to the callback.
VideoTypeOK ==
  /\ videoNet \subseteq VideoPackets /\ crypt \in BOOLEAN
  /\ postponed \in Seq(VideoPackets) /\ Len(postponed) <= PostponeSize
  /\ av \in [started : BOOLEAN,
             q : [begin : SeqNums, count : 0 .. QSize,
                  slots : [SlotIds -> [set : BOOLEAN, user : VideoPackets \cup {NoUser}]]],
             wait : 0 .. Timeout + 1 \cup {Off}, waitSeq : SeqNums,
             fired : Seq(VideoPackets)]

VideoInit ==
  /\ videoNet = VideoPackets /\ crypt = FALSE /\ postponed = <<>>
  /\ av = [started |-> FALSE, q |-> NewQueue(0), wait |-> Off, waitSeq |-> 0, fired |-> <<>>]
-----------------------------------------------------------------------------
(* takion_av_queue_flush_with_timeout *)

\* while let Some(..) = queue.pull() { fire }
PullAll(s) == [s EXCEPT !.q = Drained(s.q), !.fired = @ \o Taken(s.q),
                        !.wait = IF Run(s.q) > 0 THEN Off ELSE @]

StartWait(s) == [s EXCEPT !.wait = 0, !.waitSeq = s.q.begin]

\* A plausible bug: a head that moved on within the loss starts a new wait.
TrackHeadRestarting(s) ==
  IF s.wait = Off \/ s.q.begin # s.waitSeq THEN StartWait(s) ELSE s

\* The head is missing: a wait begins, or follows the head that moved on in the
\* same loss, or begins anew for a different gap.
TrackHead(s) ==
  IF s.wait = Off THEN StartWait(s)
  ELSE IF s.q.begin = s.waitSeq THEN s
  ELSE IF SeqGt(s.q.begin, s.waitSeq) THEN [s EXCEPT !.waitSeq = s.q.begin]
  ELSE StartWait(s)

FirstBuffered(w) == CHOOSE i \in Offsets(w) : /\ Peek(w, i) # NoUser
                                              /\ \A j \in 0 .. i - 1 : Peek(w, j) = NoUser

SkipToBuffered(s) == [s EXCEPT !.q = SkipHead(s.q, FirstBuffered(s.q)), !.wait = Off]

\* A plausible bug: after the skip the loop ends.
FlushOnce(s) ==
  LET pulled  == PullAll(s)
      tracked == TrackHead(pulled)
  IN IF pulled.q.count = 0 THEN pulled
     ELSE IF tracked.wait <= Timeout THEN tracked
     ELSE SkipToBuffered(tracked)

\* One round ends with the queue empty or a wait running; an exhausted wait is
\* followed by a second round, behind the gap, which starts a new one.
Flush(s) ==
  LET pulled  == PullAll(s)
      tracked == TrackHead(pulled)
      behind  == PullAll(SkipToBuffered(tracked))
  IN IF pulled.q.count = 0 THEN pulled
     ELSE IF tracked.wait <= Timeout THEN tracked
     ELSE IF behind.q.count = 0 THEN behind
     ELSE TrackHead(behind)

\* takion_handle_packet_av: the first packet puts the window at the start of its
\* frame.
HandleAv(s, n) ==
  LET begin == IF UnitOf(n) <= IndexOf(n) THEN IndexOf(n) - UnitOf(n)
               ELSE IndexOf(n) - UnitOf(n) + SeqMod
      ready == IF s.started THEN s
               ELSE [s EXCEPT !.started = TRUE, !.q = NewQueue(begin),
                              !.wait = Off, !.waitSeq = begin]
  IN Flush([ready EXCEPT !.q = Push(@, IndexOf(n), n, "Begin").queue])
-----------------------------------------------------------------------------
(* The receive loop *)

\* One datagram, which the network may deliver again.  The loop hands on what was
\* postponed before it receives on.
ReceiveVideo(n, again) ==
  /\ n \in videoNet
  /\ crypt => postponed = <<>>
  /\ videoNet' = IF again THEN videoNet ELSE videoNet \ {n}
  /\ IF crypt
     THEN av' = HandleAv(av, n) /\ UNCHANGED postponed
     ELSE /\ postponed' = IF Len(postponed) < PostponeSize THEN Append(postponed, n)
                          ELSE postponed
          /\ UNCHANGED av
  /\ UNCHANGED crypt

LoseVideo(n) == /\ n \in videoNet
                /\ videoNet' = videoNet \ {n}
                /\ UNCHANGED <<crypt, postponed, av>>

\* A data message, here only by its effect: the callback installs the keys.
KeysInstalled == /\ ~crypt
                 /\ crypt' = TRUE
                 /\ UNCHANGED <<videoNet, postponed, av>>

\* One of the packets that were waiting; the loop hands on the rest before it goes on.
FlushPostponed ==
  /\ crypt /\ postponed # <<>>
  /\ av' = HandleAv(av, Head(postponed))
  /\ postponed' = Tail(postponed)
  /\ UNCHANGED <<videoNet, crypt>>

\* takion_av_queues_next_timeout_ms has run out, before or in recv.
TimedOut == /\ av.wait # Off /\ av.wait >= Timeout
            /\ crypt => postponed = <<>>

TimeoutFlush ==
  /\ TimedOut
  /\ av' = Flush(av)
  /\ UNCHANGED <<videoNet, crypt, postponed>>

\* Time passes while somebody looks at it; past the timeout it makes no
\* difference any more.
Tick ==
  /\ av.wait # Off /\ av.wait <= Timeout
  /\ av' = [av EXCEPT !.wait = @ + 1]
  /\ UNCHANGED <<videoNet, crypt, postponed>>

VideoNext ==
  \/ \E n \in VideoPackets, again \in BOOLEAN : ReceiveVideo(n, again)
  \/ \E n \in VideoPackets : LoseVideo(n)
  \/ KeysInstalled \/ FlushPostponed \/ TimeoutFlush \/ Tick

\* Time passes and the receive thread runs (weak fairness of its two steps,
\* written out with their guards); nothing has to arrive.
VideoFairness ==
  /\ WF_videoVars(Tick)
  /\ <>[](crypt /\ postponed # <<>>) => []<><<FlushPostponed>>_videoVars
  /\ <>[](TimedOut /\ av.wait > Timeout) => []<><<TimeoutFlush>>_videoVars

SpecVideo == VideoInit /\ [][VideoNext]_videoVars /\ VideoFairness
-----------------------------------------------------------------------------
\* A wait is running exactly when packets are buffered behind a missing head: a
\* wait left over from an empty queue would make the loop flush without end and
\* never receive, a buffered packet without a wait would stay for good.
WaitingIffBuffered ==
  (av.wait # Off) <=> (av.q.count > 0 /\ ~PullMoves(av.q))

\* Packets reach the frame processor in the order of their index, each at most
\* once, whatever was skipped, evicted, repeated or late.
FiredInOrder ==
  \A i, j \in DOMAIN av.fired : i < j => av.fired[i] < av.fired[j]

\* "startup and burst reordering only pay a single timeout": a flush after the
\* timeout hands on a packet, and while nothing is handed on the wait for the
\* head is not prolonged, whatever arrives and whichever head is evicted.
SingleTimeout ==
  [][/\ TimeoutFlush /\ av.wait > Timeout => Len(av'.fired) > Len(av.fired)
     /\ av.wait # Off /\ av'.wait # Off /\ av'.fired = av.fired => av'.wait >= av.wait]_videoVars

\* Every packet that waits, postponed or buffered, leaves: it is handed on or
\* given up, even if nothing arrives any more.
NobodyStuck ==
  \A n \in VideoPackets :
    /\ n \in Held(av.q) ~> n \notin Held(av.q)
    /\ crypt /\ n \in Seqs!ToSet(postponed) ~> n \notin Seqs!ToSet(postponed)
=============================================================================
