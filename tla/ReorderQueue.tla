---------------------------- MODULE ReorderQueue ----------------------------
(***************************************************************************)
(* One ReorderQueue<T> and the calls its owner, the Takion receive thread, *)
(* makes on it in any legal order.  The elements are packets [seq, copy]:  *)
(* the number they are pushed under and which transmission they are, so    *)
(* that a retransmission can be told from the packet it repeats.           *)
(***************************************************************************)
EXTENDS ReorderQueueOps

CONSTANT Copies       \* the transmissions of a number that are told apart

Elements == [seq : SeqNums, copy : Copies]

ASSUME ElementsAssumption == NoUser \notin Elements

VARIABLES queue,     \* the queue
          strategy,  \* drop_strategy, set once after new: "Begin" or "End"
          call       \* the last call: its name, the packets it took from the
                     \* caller and those it gave back, by value or drop callback
queueVars == <<queue, strategy, call>>

QueueTypes ==
  /\ queue \in [begin : SeqNums, count : 0 .. QSize,
                slots : [SlotIds -> [set : BOOLEAN, user : Elements \cup {NoUser}]]]
  /\ strategy \in {"Begin", "End"}
  /\ call \in [op : {"new", "push", "pull", "drop_at", "skip_head"},
               in : SUBSET Elements, out : SUBSET Elements]

InitQueue ==
  /\ \E start \in SeqNums : queue = NewQueue(start)
  /\ strategy \in {"Begin", "End"}
  /\ call = [op |-> "new", in |-> {}, out |-> {}]

PushPacket(p) ==
  LET r == Push(queue, p.seq, p, strategy)
  IN /\ queue' = r.queue
     /\ call' = [op |-> "push", in |-> {p}, out |-> r.dropped]
     /\ UNCHANGED strategy

PullHead ==
  /\ PullMoves(queue)
  /\ queue' = Pull(queue)
  /\ call' = [op |-> "pull", in |-> {}, out |-> {Pulled(queue)} \ {NoUser}]
  /\ UNCHANGED strategy

PullNothing ==
  /\ ~PullMoves(queue)
  /\ call' = [op |-> "pull", in |-> {}, out |-> {}]
  /\ UNCHANGED <<queue, strategy>>

DropAtOffset(i) ==
  LET r == DropAt(queue, i)
  IN /\ queue' = r.queue
     /\ call' = [op |-> "drop_at", in |-> {}, out |-> r.dropped]
     /\ UNCHANGED strategy

\* The callers skip the offsets that peek finds empty, up to the first packet.
SkipGap(n) ==
  /\ \A i \in 0 .. n - 1 : Peek(queue, i) = NoUser
  /\ Peek(queue, n) # NoUser
  /\ queue' = SkipHead(queue, n)
  /\ call' = [op |-> "skip_head", in |-> {}, out |-> {}]
  /\ UNCHANGED strategy

NextQueue ==
  \/ \E p \in Elements : PushPacket(p)
  \/ PullHead
  \/ PullNothing
  \/ \E i \in Offsets(queue) : DropAtOffset(i)
  \/ \E n \in Offsets(queue) : SkipGap(n)

SpecQueue == InitQueue /\ [][NextQueue]_queueVars
-----------------------------------------------------------------------------
\* Every packet in the ring lies in the window, under its own number and in a slot
\* whose flag is set, whatever was pushed, dropped, skipped or wrapped before: so
\* pull returns the packet of the number it reports, and none is forgotten in a slot
\* to be lost without a callback or to reappear when the ring comes round.
InPlace ==
  /\ \A i \in Offsets(queue) :
       SlotAt(queue, i).user # NoUser => SlotAt(queue, i).user.seq = At(queue, i)
  /\ \A k \in SlotIds : queue.slots[k].user # NoUser =>
       queue.slots[k].set /\ \E i \in Offsets(queue) : Idx(At(queue, i)) = k

\* Every packet a call takes is held, returned or given to the drop callback,
\* and no call loses one the queue held before (push with both strategies, pull,
\* drop_at, skip_head).
NothingLost == [][Held(queue') \cup call'.out = Held(queue) \cup call'.in]_queueVars

\* A push displaces nothing under End; under Begin it displaces only packets
\* QSize or more numbers behind the new one, so never more than it has to.  In
\* particular a retransmission never replaces the packet that arrived first.
OnlyOldestEvicted ==
  [][call'.op = "push" =>
       \A p \in Held(queue) \ Held(queue') :
         strategy = "Begin" /\ \A new \in call'.in : SeqDist(p.seq, new.seq) >= QSize]_queueVars

\* The window never moves back: nothing is expected again that was pulled,
\* skipped or given up (begin in push, pull and skip_head).
NeverBack == [][~SeqLt(queue'.begin, queue.begin)]_queueVars
=============================================================================
