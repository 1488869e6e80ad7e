--------------------------- MODULE ReorderQueueOps ---------------------------
(***************************************************************************)
(* The operations of ReorderQueue<T> (crates/chiaki-core/src/              *)
(* reorderqueue.rs) as functions on queue values, so that the queue's own  *)
(* specification and the Takion modules share them.  A queue is a record:  *)
(* the window [begin, begin + count) and a ring of QSize slots, each with  *)
(* the two fields of Entry<T>: set, and user (NoUser for the None).        *)
(*                                                                         *)
(* The loops of push and drop_at are written in closed form; the module    *)
(* MCReorderQueue checks them against literal loops.                  *)
(***************************************************************************)
EXTENDS SeqNum, FiniteSets

CONSTANTS QSize,     \* 2^size_exp
          NoUser     \* the None of Option<T>

ASSUME QSizeAssumption ==
  /\ QSize \in Nat \ {0, 1}
  /\ QSize < SeqHalf
  /\ \E k \in 1 .. SeqMod : SeqMod = k * QSize

SlotIds   == 0 .. QSize - 1
EmptySlot == [set |-> FALSE, user |-> NoUser]

Idx(s) == s % QSize

NewQueue(start) ==
  [begin |-> start, count |-> 0, slots |-> [i \in SlotIds |-> EmptySlot]]

\* The number and the slot at an offset of the window.
At(q, i)     == SeqAdd(q.begin, i)
SlotAt(q, i) == q.slots[Idx(At(q, i))]
End(q)       == At(q, q.count)

InWindow(q, s) == SeqGe(s, q.begin) /\ SeqLt(s, End(q))

\* What the window holds: one user per slot that has one.
Offsets(q) == 0 .. q.count - 1
Held(q)    == {SlotAt(q, i).user : i \in Offsets(q)} \ {NoUser}

PutAt(q, s, v) == [q EXCEPT !.slots[Idx(s)] = [set |-> TRUE, user |-> v]]

\* A plausible bug: the head is not taken out of its slot.
DropFirstKeepingSlots(q, n) == [q EXCEPT !.begin = At(q, n), !.count = q.count - n]

\* drop first until empty or enough space: the head is taken out of its slot n
\* times and begin moves on.
DropFirst(q, n) ==
  [begin |-> At(q, n), count |-> q.count - n,
   slots |-> [i \in SlotIds |-> IF \E j \in 0 .. n - 1 : i = Idx(At(q, j))
                                THEN EmptySlot ELSE q.slots[i]]]

\* move end until new_end: every slot taken into the window is reset.
ExtendTo(q, newEnd) ==
  LET n == IF SeqLt(End(q), newEnd) THEN SeqDist(End(q), newEnd) ELSE 0
  IN [q EXCEPT !.count = q.count + n,
               !.slots = [i \in SlotIds |->
                            IF \E j \in q.count .. q.count + n - 1 : i = Idx(At(q, j))
                            THEN EmptySlot ELSE q.slots[i]]]

\* The outcome of a call: the queue after it and the users the drop callback got.
Result(q, dropped) == [queue |-> q, dropped |-> dropped]

\* A plausible bug: the free space is overrated by one.
OverhangOffByOne(q, newEnd) ==
  LET totalEnd == SeqAdd(End(q), QSize - q.count + 1)
  IN IF SeqLt(totalEnd, newEnd) THEN SeqDist(totalEnd, newEnd) ELSE 0

\* How many heads have to go so that the window can reach newEnd.
Overhang(q, newEnd) ==
  LET totalEnd == SeqAdd(End(q), QSize - q.count)
  IN IF SeqLt(totalEnd, newEnd) THEN SeqDist(totalEnd, newEnd) ELSE 0

\* push, from "=> ge(seq_num, queue->end)" on.
PushBeyond(q, s, v, strategy) ==
  LET newEnd == SeqAdd(s, 1)
      over   == Overhang(q, newEnd)
      n      == IF over < q.count THEN over ELSE q.count
      gone   == DropFirst(q, n)
      room   == IF over > 0 /\ gone.count = 0 THEN [gone EXCEPT !.begin = s] ELSE gone
  IN IF over > 0 /\ strategy = "End"
     THEN Result(q, {v})
     ELSE Result(PutAt(ExtendTo(room, newEnd), s, v),
                 {SlotAt(q, i).user : i \in 0 .. n - 1} \ {NoUser})

\* A plausible bug: in the window, a slot in use is overwritten.
PushOverwriting(q, s, v, strategy) ==
  IF InWindow(q, s) THEN Result(PutAt(q, s, v), {})
  ELSE IF SeqLt(s, q.begin) THEN Result(q, {v})
  ELSE PushBeyond(q, s, v, strategy)

\* A plausible bug: the window of an empty queue moves to whatever is pushed.
PushRebasing(q, s, v, strategy) ==
  IF q.count = 0 THEN PushBeyond([q EXCEPT !.begin = s], s, v, strategy)
  ELSE IF InWindow(q, s) /\ ~q.slots[Idx(s)].set THEN Result(PutAt(q, s, v), {})
  ELSE IF SeqGe(s, End(q)) /\ ~SeqLt(s, q.begin) THEN PushBeyond(q, s, v, strategy)
  ELSE Result(q, {v})

\* push(seq_num, user).
Push(q, s, v, strategy) ==
  IF InWindow(q, s)
  THEN IF q.slots[Idx(s)].set THEN Result(q, {v}) ELSE Result(PutAt(q, s, v), {})
  ELSE IF SeqLt(s, q.begin)
  THEN Result(q, {v})
  ELSE IF SeqGe(s, End(q))
  THEN PushBeyond(q, s, v, strategy)
  ELSE IF q.count = 0 /\ strategy = "Begin"     \* half the space apart: rebase
  THEN PushBeyond([q EXCEPT !.begin = s], s, v, strategy)
  ELSE Result(q, {v})

\* pull: the guard under which begin moves, the queue after it and what it
\* returns, which is NoUser when the head is a slot that drop_at emptied.
PullMoves(q) == q.count > 0 /\ SlotAt(q, 0).set
Pulled(q)    == SlotAt(q, 0).user
Pull(q)      == DropFirst(q, 1)

\* while let Some(..) = pull(): how many calls return something, what they return
\* and the queue they leave.  A slot that drop_at emptied ends the loop with a
\* None for which begin moves on all the same.
Run(q) == CHOOSE k \in 0 .. q.count : /\ \A i \in 0 .. k - 1 : SlotAt(q, i).user # NoUser
                                      /\ k < q.count => SlotAt(q, k).user = NoUser

Taken(q)   == [i \in 1 .. Run(q) |-> SlotAt(q, i - 1).user]

Drained(q) == LET k == Run(q)
              IN DropFirst(q, IF k < q.count /\ SlotAt(q, k).set THEN k + 1 ELSE k)

\* peek(index), NoUser for the None.
Peek(q, i) == IF i < q.count /\ SlotAt(q, i).set THEN SlotAt(q, i).user ELSE NoUser

\* drop_at(index): the user leaves the slot, whose flag stays; behind the last
\* element the window shrinks to the last slot whose flag is set.
DropAt(q, i) ==
  LET taken == [q EXCEPT !.slots[Idx(At(q, i))].user = NoUser]
      left  == {n \in 1 .. q.count - 1 : SlotAt(q, n - 1).set}
      last  == IF left = {} THEN 0 ELSE CHOOSE n \in left : \A m \in left : m <= n
  IN IF i >= q.count \/ ~SlotAt(q, i).set
     THEN Result(q, {})
     ELSE Result(IF i = q.count - 1 THEN [taken EXCEPT !.count = last] ELSE taken,
                 {SlotAt(q, i).user} \ {NoUser})

\* skip_head(skipped): no callback and no slot is touched.
SkipHead(q, n) == [q EXCEPT !.begin = At(q, n), !.count = q.count - n]
=============================================================================
