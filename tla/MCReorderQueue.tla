--------------------------- MODULE MCReorderQueue ---------------------------
(* ReorderQueue for TLC, with the loops of push and drop_at spelled out. *)
EXTENDS ReorderQueue, TLC

Symmetry == Permutations(Copies)

\* while self.count > 0 && self.lt(total_end, new_end) { .. }
RECURSIVE DropLoop(_, _, _, _)
DropLoop(w, end, newEnd, dropped) ==
  IF w.count > 0 /\ SeqLt(SeqAdd(end, QSize - w.count), newEnd)
  THEN DropLoop([begin |-> SeqAdd(w.begin, 1), count |-> w.count - 1,
                 slots |-> [w.slots EXCEPT ![Idx(w.begin)] = EmptySlot]],
                end, newEnd, dropped \cup ({w.slots[Idx(w.begin)].user} \ {NoUser}))
  ELSE Result(w, dropped)

\* while self.lt(end, new_end) { .. }
RECURSIVE ExtendLoop(_, _)
ExtendLoop(w, newEnd) ==
  IF SeqLt(End(w), newEnd)
  THEN ExtendLoop([w EXCEPT !.count = w.count + 1, !.slots[Idx(End(w))] = EmptySlot], newEnd)
  ELSE w

PushBeyondLoops(w, s, v) ==
  LET newEnd == SeqAdd(s, 1)
      short  == SeqLt(SeqAdd(End(w), QSize - w.count), newEnd)
      r      == DropLoop(w, End(w), newEnd, {})
      room   == IF short /\ r.queue.count = 0 THEN [r.queue EXCEPT !.begin = s] ELSE r.queue
  IN IF short /\ strategy = "End"
     THEN Result(w, {v})
     ELSE Result(PutAt(ExtendLoop(room, newEnd), s, v), r.dropped)

\* while self.count > 0 { if set break; self.count -= 1 }
RECURSIVE ShrinkLoop(_)
ShrinkLoop(w) ==
  IF w.count > 0 /\ ~SlotAt(w, w.count - 1).set
  THEN ShrinkLoop([w EXCEPT !.count = w.count - 1])
  ELSE w

\* The closed forms of ReorderQueueOps compute what the loops of push and
\* drop_at compute, for every queue that the calls can reach.
ClosedFormsAreTheLoops ==
  /\ \A s \in SeqNums :
       SeqGe(s, End(queue)) /\ ~InWindow(queue, s) /\ ~SeqLt(s, queue.begin) =>
         PushBeyond(queue, s, NoUser, strategy) = PushBeyondLoops(queue, s, NoUser)
  /\ \A i \in Offsets(queue) :
       i = queue.count - 1 /\ SlotAt(queue, i).set =>
         DropAt(queue, i).queue =
           ShrinkLoop([queue EXCEPT !.slots[Idx(At(queue, i))].user = NoUser,
                                    !.count = queue.count - 1])
=============================================================================
