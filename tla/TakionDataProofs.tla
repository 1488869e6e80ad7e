-------------------------- MODULE TakionDataProofs --------------------------
(***************************************************************************)
(* The data messages of a Takion connection implement a reliable channel,  *)
(* and over a network that damages packets the callback still gets them in *)
(* order and, once the keys are in use, intact: for every number of        *)
(* messages below half the number space, every ring and every first        *)
(* number.                                                                 *)
(*                                                                         *)
(* The inductive invariant counts the messages again: the window begins at *)
(* the number of message NextOf(q), up to where everything was handed on   *)
(* or given up, and it ends within what was sent.                          *)
(***************************************************************************)
EXTENDS TakionData, ReorderQueueProofs, FiniteSetTheorems, SequenceTheorems

\* A packet is pushed under the number of its message.
NumberOf == [p \in Packets |-> SeqOf(p.n)]

\* The message whose number is the first of the window.
NextOf(w) == SeqDist(FirstSeq, w.begin) + 1

-----------------------------------------------------------------------------
(* The numbers of the messages.                                            *)

\* Messages are fewer than half the numbers, so that their numbers are theirs
\* alone and compare as they do.
LEMMA SeqOfNumbers ==
  ASSUME NEW n \in 1 .. Messages + 1
  PROVE  /\ SeqOf(n) \in SeqNums
         /\ SeqDist(FirstSeq, SeqOf(n)) = n - 1
BY MessagesAssumption, SeqHalfAssumption DEF SeqOf, SeqAdd, SeqDist, SeqNums, SeqMod

LEMMA SeqOfOrder ==
  ASSUME NEW n \in 1 .. Messages, NEW m \in 1 .. Messages
  PROVE  SeqGt(SeqOf(n), SeqOf(m)) <=> n > m
BY MessagesAssumption, SeqHalfAssumption DEF SeqOf, SeqAdd, SeqGt, SeqNums, SeqMod

LEMMA SeqOfAhead ==
  ASSUME NEW n \in 1 .. Messages + 1, NEW i \in Nat, n + i <= Messages + 1
  PROVE  SeqAdd(SeqOf(n), i) = SeqOf(n + i)
BY MessagesAssumption, SeqHalfAssumption DEF SeqOf, SeqAdd, SeqNums, SeqMod

LEMMA SeqOfDist ==
  ASSUME NEW n \in 1 .. Messages + 1, NEW m \in 1 .. Messages + 1
  PROVE  SeqDist(SeqOf(n), SeqOf(m)) = IF n <= m THEN m - n ELSE m - n + SeqMod
BY MessagesAssumption, SeqHalfAssumption DEF SeqOf, SeqAdd, SeqDist, SeqNums, SeqMod

LEMMA PacketNumbers ==
  /\ Numbers(NumberOf) /\ DOMAIN NumberOf = Packets
  /\ \A p \in Packets : NumberOf[p] = SeqOf(p.n)
<1>1. \A p \in Packets : SeqOf(p.n) \in SeqNums
  BY SeqOfNumbers, MessagesAssumption DEF Packets
<1> QED BY <1>1, NoUserAssumption DEF Numbers, NumberOf

\* The first number of a window, which is NextOf's.
LEMMA NextOfBegin ==
  ASSUME NEW w, w.begin \in SeqNums
  PROVE  NextOf(w) \in Nat \ {0} /\ SeqOf(NextOf(w)) = w.begin
<1>1. SeqDist(FirstSeq, w.begin) \in 0 .. SeqMod - 1 /\ SeqAdd(FirstSeq, SeqDist(FirstSeq, w.begin)) = w.begin
  BY MessagesAssumption, SeqDistType
<1>2. SeqMod \in Nat BY SeqHalfAssumption DEF SeqMod
<1>3. (SeqDist(FirstSeq, w.begin) + 1) - 1 = SeqDist(FirstSeq, w.begin) BY <1>1, <1>2
<1> QED BY <1>1, <1>2, <1>3 DEF NextOf, SeqOf

-----------------------------------------------------------------------------
(* The invariant.                                                          *)

Ordered ==
  /\ Tidy(q, NumberOf)
  /\ NextOf(q) + q.count <= sent + 1
  /\ \A p \in net : p.n <= sent
  /\ unacked \subseteq 1 .. sent
  /\ \A i \in DOMAIN fired : fired[i].n < NextOf(q)
  /\ FiredInOrder
  /\ crypt => Bang < NextOf(q)

Checked == crypt_available => crypt /\ \A p \in Held(q) : MacValid(p)

\* Every flagged slot holds a packet, and an intact one.
Filled(w) == \A k \in SlotIds : w.slots[k].set => w.slots[k].user # NoUser /\ w.slots[k].user.intact

Kept   == \E k \in 0 .. Len(fired) : unacked = k + 1 .. sent
Honest == \A a \in acks : \E m \in 1 .. Len(fired) : a = SeqOf(m)

Exact ==
  clean => /\ \A p \in net : p.intact
           /\ Filled(q)
           /\ NextOf(q) = Len(fired) + 1
           /\ \A i \in DOMAIN fired : fired[i] = Intact(i)
           /\ Kept
           /\ Honest

IInv == TypeOK /\ Ordered /\ Checked /\ Exact

-----------------------------------------------------------------------------
(* The handler of one packet.                                              *)

\* The queue after the push: the window begins where it did and ends within what was sent.
LEMMA Pushed ==
  ASSUME IInv, NEW p \in Packets, p.n <= sent
  PROVE  LET w == Push(q, SeqOf(p.n), p, "End").queue
         IN /\ Tidy(w, NumberOf)
            /\ NextOf(w) = NextOf(q) /\ NextOf(w) + w.count <= sent + 1
            /\ Held(w) \subseteq Held(q) \cup {p}
            /\ Filled(q) /\ p.intact => Filled(w)
<1> DEFINE w == Push(q, SeqOf(p.n), p, "End").queue
<1>1. /\ Tidy(q, NumberOf) /\ Numbers(NumberOf)
      /\ p \in DOMAIN NumberOf /\ NumberOf[p] = SeqOf(p.n) /\ p # NoUser
  BY PacketNumbers, NoUserAssumption DEF IInv, Ordered
<1>2. Tidy(w, NumberOf) BY <1>1, TidyPush
<1>3. /\ Held(w) \subseteq Held(q) \cup {p} /\ w.begin = q.begin
      /\ w.count \in {q.count, SeqDist(q.begin, SeqOf(p.n)) + 1}
      /\ \A k \in SlotIds : w.slots[k] \in {q.slots[k], EmptySlot, [set |-> TRUE, user |-> p]}
  <2> DEFINE r == Push(q, NumberOf[p], p, "End")
  <2>1. /\ Held(r.queue) \cup r.dropped = Held(q) \cup {p} /\ r.queue.begin = q.begin
        /\ r.queue.count \in {q.count, SeqDist(q.begin, NumberOf[p]) + 1}
        /\ \A k \in SlotIds : r.queue.slots[k] \in {q.slots[k], EmptySlot, [set |-> TRUE, user |-> p]}
    <3>1. Tidy(q, NumberOf) /\ Numbers(NumberOf) /\ p \in DOMAIN NumberOf BY <1>1
    <3> HIDE DEF NumberOf, w
    <3> QED BY <3>1, PushHolds
  <2>2. w = r.queue BY <1>1
  <2> HIDE DEF r, w
  <2> QED BY <2>1, <2>2, <1>1
<1> HIDE DEF w
<1>4. NextOf(w) = NextOf(q) BY <1>3 DEF NextOf
<1>5. NextOf(w) + w.count <= sent + 1
  <2>1. CASE w.count = q.count BY <2>1, <1>4 DEF IInv, Ordered
  <2>2. CASE w.count = SeqDist(q.begin, SeqOf(p.n)) + 1
    <3>1. NextOf(q) \in Nat \ {0} /\ SeqOf(NextOf(q)) = q.begin
      BY NextOfBegin DEF IInv, TypeOK
    <3>2. /\ q.count \in Nat /\ sent \in 0 .. Messages /\ Messages \in Nat /\ Messages < SeqHalf
          /\ QSize \in Nat /\ QSize < SeqHalf /\ SeqMod = 2 * SeqHalf /\ SeqHalf \in Nat
          /\ w.count \in 0 .. QSize /\ NextOf(q) + q.count <= sent + 1
      BY <1>2, MessagesAssumption, QSizeAssumption, SeqHalfAssumption
      DEF IInv, TypeOK, Ordered, Tidy, Queues, SeqMod
    <3>3. NextOf(q) \in 1 .. Messages + 1 /\ p.n \in 1 .. Messages + 1
      BY <3>1, <3>2 DEF Packets
    <3>4. w.count = (IF NextOf(q) <= p.n THEN p.n - NextOf(q) ELSE p.n - NextOf(q) + SeqMod) + 1
      BY <2>2, <3>1, <3>3, SeqOfDist
    <3> QED BY <3>2, <3>3, <3>4, <1>4
  <2> QED BY <2>1, <2>2, <1>3
<1>6. ASSUME Filled(q), p.intact PROVE Filled(w)
  BY <1>1, <1>3, <1>6 DEF Filled, EmptySlot
<1> QED BY <1>2, <1>3, <1>4, <1>5, <1>6 DEF w

\* What the pulls hand on: the messages from the window's first one by one; the window
\* begins behind them then, and just behind them unless a slot was emptied.
LEMMA PulledOut ==
  ASSUME NEW w, Tidy(w, NumberOf), sent \in 0 .. Messages, NextOf(w) + w.count <= sent + 1
  PROVE  /\ Tidy(Drained(w), NumberOf) /\ Held(Drained(w)) \subseteq Held(w)
         /\ NextOf(Drained(w)) + Drained(w).count <= sent + 1
         /\ NextOf(Drained(w)) \in {NextOf(w) + Run(w), NextOf(w) + Run(w) + 1}
         /\ Filled(w) => Filled(Drained(w)) /\ NextOf(Drained(w)) = NextOf(w) + Run(w)
         /\ Taken(w) \in Seq(Packets) /\ Len(Taken(w)) = Run(w) /\ Run(w) \in Nat
         /\ \A i \in 1 .. Run(w) : Taken(w)[i] \in Held(w) /\ Taken(w)[i].n = NextOf(w) + i - 1
         /\ Acks(w) = IF Run(w) = 0 THEN {} ELSE {SeqOf(NextOf(w) + Run(w) - 1)}
<1> DEFINE v == Drained(w)
           e == NextOf(w)
<1>1. /\ w \in Queues(NumberOf) /\ w.begin \in SeqNums /\ w.count \in Nat /\ w.count <= QSize
      /\ Messages \in Nat /\ sent \in Nat /\ sent <= Messages
  BY MessagesAssumption, QSizeAssumption DEF Tidy, Queues
<1>2. e \in Nat \ {0} /\ SeqOf(e) = w.begin BY <1>1, NextOfBegin
<1> HIDE DEF e
<1>3. e + w.count <= sent + 1 BY DEF e
<1>4. ASSUME NEW i \in 0 .. w.count
      PROVE  e + i \in 1 .. Messages + 1 /\ At(w, i) = SeqOf(e + i)
  <2>1. e \in 1 .. Messages + 1 /\ i \in Nat /\ e + i <= Messages + 1 BY <1>1, <1>2, <1>3
  <2> QED BY <2>1, <1>2, SeqOfAhead DEF At
<1>5. PICK n \in {Run(w), Run(w) + 1} :
        /\ n \in 0 .. w.count
        /\ n = Run(w) + 1 => SlotAt(w, Run(w)).set /\ SlotAt(w, Run(w)).user = NoUser
        /\ Tidy(v, NumberOf) /\ Held(v) \subseteq Held(w)
        /\ v.begin = At(w, n) /\ v.count = w.count - n
        /\ \A k \in SlotIds : v.slots[k] \in {w.slots[k], EmptySlot}
  BY PacketNumbers, DrainedIs
<1>6. Run(w) \in 0 .. w.count BY <1>1, PacketNumbers, RunIs
<1> HIDE DEF v
<1>7. NextOf(v) = e + n
  <2>1. e + n \in 1 .. Messages + 1 /\ v.begin = SeqOf(e + n) BY <1>4, <1>5
  <2>2. \A m \in 1 .. Messages + 1 : SeqDist(FirstSeq, SeqOf(m)) = m - 1 BY SeqOfNumbers
  <2>3. SeqDist(FirstSeq, v.begin) = (e + n) - 1 BY <2>1, <2>2
  <2> QED BY <2>1, <2>3, <1>1, <1>2 DEF NextOf
<1>8. NextOf(v) + v.count <= sent + 1 BY <1>1, <1>2, <1>3, <1>5, <1>7
<1>9. ASSUME Filled(w) PROVE Filled(v) /\ n = Run(w)
  <2>1. Filled(v) BY <1>5, <1>9 DEF Filled, EmptySlot
  <2>2. Run(w) \in 0 .. QSize BY <1>1, <1>6, QSizeAssumption
  <2>3. Idx(At(w, Run(w))) \in SlotIds BY <1>1, <2>2, SlotAtType, PacketNumbers
  <2> QED BY <2>1, <2>3, <1>5, <1>9 DEF Filled, SlotAt
<1>10. /\ Taken(w) \in Seq(Packets) /\ Len(Taken(w)) = Run(w)
       /\ \A i \in 1 .. Run(w) : Taken(w)[i] \in Held(w) /\ NumberOf[Taken(w)[i]] = At(w, i - 1)
  BY PacketNumbers, TakenIs
<1>11. ASSUME NEW i \in 1 .. Run(w) PROVE Taken(w)[i].n = e + i - 1
  <2>1. i - 1 \in 0 .. w.count /\ e + (i - 1) = e + i - 1 BY <1>1, <1>2, <1>6
  <2>2. Taken(w)[i] \in Packets BY <1>10, HeldPackets, PacketNumbers
  <2>3. Taken(w)[i].n \in 1 .. Messages + 1 BY <2>2, <1>1 DEF Packets
  <2>4. SeqOf(Taken(w)[i].n) = SeqOf(e + (i - 1)) BY <2>1, <2>2, <1>4, <1>10, PacketNumbers
  <2>5. e + (i - 1) \in 1 .. Messages + 1 BY <2>1, <1>4
  <2>6. \A m \in 1 .. Messages + 1 : SeqDist(FirstSeq, SeqOf(m)) = m - 1 BY SeqOfNumbers
  <2>7. Taken(w)[i].n - 1 = (e + (i - 1)) - 1
    BY <2>3, <2>4, <2>5, <2>6
  <2> QED BY <2>1, <2>3, <2>7, <1>2
<1>12. Acks(w) = IF Run(w) = 0 THEN {} ELSE {SeqOf(e + Run(w) - 1)}
  <2>1. CASE Run(w) = 0 BY <2>1 DEF Acks
  <2>2. CASE Run(w) # 0
    <3>1. Run(w) - 1 \in 0 .. w.count /\ e + (Run(w) - 1) = e + Run(w) - 1
      BY <2>2, <1>1, <1>2, <1>6
    <3>2. At(w, Run(w) - 1) = SeqOf(e + Run(w) - 1) BY <3>1, <1>4
    <3> QED BY <2>2, <3>2 DEF Acks
  <2> QED BY <2>1, <2>2
<1> QED BY <1>1, <1>2, <1>5, <1>6, <1>7, <1>8, <1>9, <1>10, <1>11, <1>12 DEF v, e

\* The message of a packet in the window.
LEMMA WindowMessages ==
  ASSUME IInv, NEW p \in Held(q)
  PROVE  p \in Packets /\ NextOf(q) <= p.n
<1>1. /\ Tidy(q, NumberOf) /\ q.begin \in SeqNums /\ q.count \in Nat
      /\ Messages \in Nat /\ sent \in Nat /\ sent <= Messages
      /\ NextOf(q) + q.count <= sent + 1
  BY MessagesAssumption, QSizeAssumption DEF IInv, TypeOK, Ordered
<1>2. NextOf(q) \in Nat \ {0} /\ SeqOf(NextOf(q)) = q.begin BY <1>1, NextOfBegin
<1>3. PICK i \in Offsets(q) : p = SlotAt(q, i).user /\ p # NoUser BY DEF Held
<1>4. p \in Packets /\ SeqOf(p.n) = At(q, i)
  <2>1. p \in Packets BY <1>1, HeldPackets, PacketNumbers
  <2>2. NumberOf[p] = At(q, i) BY <1>1, <1>3, WindowNumbers, PacketNumbers
  <2> QED BY <2>1, <2>2, PacketNumbers
<1> DEFINE e == NextOf(q)
<1> HIDE DEF e
<1>5. i \in 0 .. q.count - 1 /\ e \in Nat \ {0} BY <1>2, <1>3 DEF Offsets, e
<1>6. e \in 1 .. Messages + 1 /\ e + i <= Messages + 1 /\ e + i \in 1 .. Messages + 1
  BY <1>1, <1>5 DEF e
<1>7. At(q, i) = SeqOf(e + i)
  <2>1. i \in Nat BY <1>5
  <2> QED BY <2>1, <1>2, <1>6, SeqOfAhead DEF At, e
<1>8. \A m \in 1 .. Messages + 1 : SeqDist(FirstSeq, SeqOf(m)) = m - 1 BY SeqOfNumbers
<1>9. p.n \in 1 .. Messages + 1 BY <1>1, <1>4 DEF Packets
<1>10. p.n - 1 = (e + i) - 1 BY <1>4, <1>6, <1>7, <1>8, <1>9
<1>11. e <= p.n BY <1>5, <1>9, <1>10
<1> QED BY <1>4, <1>11 DEF e

\* Filled windows hold intact packets.
LEMMA FilledHeld ==
  ASSUME NEW w, Tidy(w, NumberOf), Filled(w), NEW p \in Held(w)
  PROVE  p.intact
<1>1. PICK k \in SlotIds : p = w.slots[k].user /\ p # NoUser
  BY HeldIsUsers, PacketNumbers DEF Users
<1> QED BY <1>1 DEF Tidy, TidySlot, Filled

\* The recheck keeps just the packets whose MAC is valid, and moves nothing.
LEMMA RecheckedHolds ==
  ASSUME NEW w, Tidy(w, NumberOf)
  PROVE  /\ Tidy(Rechecked(w), NumberOf)
         /\ Rechecked(w).begin = w.begin /\ Rechecked(w).count <= w.count
         /\ Held(Rechecked(w)) = {p \in Held(w) : MacValid(p)}
         /\ (\A p \in Held(w) : MacValid(p)) => Rechecked(w) = w
<1> DEFINE last  == w.count - 1
           bad   == InvalidIn(w)
           inner == bad \ {last}
           rest  == [w EXCEPT !.slots = [k \in SlotIds |->
                       IF \E i \in inner : k = Idx(At(w, i))
                       THEN [w.slots[k] EXCEPT !.user = NoUser] ELSE w.slots[k]]]
<1>1. w \in Queues(NumberOf) /\ w.count \in Nat /\ w.count <= QSize /\ QSize \in Nat
  BY QSizeAssumption DEF Tidy, Queues
<1>2. Rechecked(w) = IF last \in bad THEN DropAt(rest, last).queue ELSE rest
  BY DEF Rechecked
<1>3. \A i \in bad : i \in Offsets(w) /\ SlotAt(w, i).user # NoUser /\ ~MacValid(SlotAt(w, i).user)
  BY DEF InvalidIn
<1>4. \A i \in Offsets(w) \ bad : SlotAt(w, i).user # NoUser => MacValid(SlotAt(w, i).user)
  BY DEF InvalidIn
<1> HIDE DEF bad
<1>5. /\ rest \in Queues(NumberOf) /\ rest.begin = w.begin /\ rest.count = w.count
      /\ \A k \in SlotIds :
           rest.slots[k] = IF \E i \in inner : k = Idx(At(w, i))
                           THEN [w.slots[k] EXCEPT !.user = NoUser] ELSE w.slots[k]
  <2> HIDE DEF inner
  <2> QED BY <1>1 DEF Queues
<1>6. bad = {} => rest = w
  <2> SUFFICES ASSUME bad = {} PROVE rest = w OBVIOUS
  <2>1. rest.slots = w.slots
    <3>1. \A k \in SlotIds : rest.slots[k] = w.slots[k] BY <1>5
    <3> HIDE DEF rest
    <3> QED BY <3>1, <1>1, <1>5 DEF Queues
  <2> HIDE DEF rest
  <2> QED BY <2>1, <1>1, <1>5 DEF Queues
<1> HIDE DEF rest
<1>7. \A k \in SlotIds : /\ rest.slots[k].user \in {NoUser, w.slots[k].user}
                         /\ rest.slots[k].set = w.slots[k].set
  <2> SUFFICES ASSUME NEW k \in SlotIds
               PROVE  /\ rest.slots[k].user \in {NoUser, w.slots[k].user}
                      /\ rest.slots[k].set = w.slots[k].set
    OBVIOUS
  <2>1. w.slots[k] \in [set : BOOLEAN, user : DOMAIN NumberOf \cup {NoUser}]
    BY <1>1 DEF Queues
  <2> DEFINE none == [w.slots[k] EXCEPT !.user = NoUser]
  <2>2. none.user = NoUser /\ none.set = w.slots[k].set BY <2>1
  <2>3. rest.slots[k] \in {none, w.slots[k]} BY <1>5
  <2> HIDE DEF none
  <2> QED BY <2>2, <2>3
<1>8. Tidy(rest, NumberOf)
  BY <1>5, <1>7 DEF Tidy, TidySlot
<1>9. Held(rest) = Users(rest) /\ Held(w) = Users(w) BY <1>8, HeldIsUsers, PacketNumbers
<1>10. ASSUME NEW x \in Held(rest)
       PROVE  /\ x \in Held(w)
              /\ ~MacValid(x) => last \in bad /\ x = SlotAt(rest, last).user
  <2>1. PICK k \in SlotIds : x = rest.slots[k].user /\ x # NoUser BY <1>9, <1>10 DEF Users
  <2>2. x = w.slots[k].user BY <1>7, <2>1
  <2>3. PICK d \in 0 .. w.count - 1 : Idx(At(w, d)) = k BY <2>1, <2>2, TidyOffset, PacketNumbers
  <2>4. SlotAt(w, d).user = x /\ d \in Offsets(w) BY <2>2, <2>3 DEF SlotAt, Offsets
  <2>5. d \notin inner
    <3> SUFFICES ASSUME d \in inner PROVE FALSE OBVIOUS
    <3>1. rest.slots[k] = [w.slots[k] EXCEPT !.user = NoUser] BY <2>3, <1>5
    <3>2. rest.slots[k].user = NoUser BY <3>1, <1>1 DEF Queues
    <3> QED BY <3>2, <2>1
  <2>6. SlotAt(rest, d).user = x BY <2>1, <2>3, <1>5 DEF SlotAt, At
  <2>7. x \in Held(w) BY <2>1, <2>2, <1>9 DEF Users
  <2>8. d \in bad => d = last BY <2>5
  <2> QED BY <2>1, <2>4, <2>6, <2>7, <2>8, <1>4
<1>11. ASSUME NEW x \in Held(w), MacValid(x) PROVE x \in Held(rest)
  <2>1. PICK k \in SlotIds : x = w.slots[k].user /\ x # NoUser BY <1>9, <1>11 DEF Users
  <2>2. ASSUME NEW i \in inner, k = Idx(At(w, i)) PROVE FALSE
    <3>1. SlotAt(w, i).user = x BY <2>1, <2>2 DEF SlotAt
    <3> QED BY <3>1, <1>3, <1>11
  <2>3. rest.slots[k] = w.slots[k] BY <2>2, <1>5
  <2> QED BY <2>1, <2>3, <1>9 DEF Users
<1>12. (\A p \in Held(w) : MacValid(p)) => bad = {}
  <2> SUFFICES ASSUME \A p \in Held(w) : MacValid(p), NEW i \in bad PROVE FALSE OBVIOUS
  <2>1. SlotAt(w, i).user \in Held(w) BY <1>3 DEF Held
  <2> QED BY <2>1, <1>3
<1>13. CASE last \notin bad
  <2>1. Rechecked(w) = rest BY <1>13, <1>2
  <2>2. Held(rest) = {p \in Held(w) : MacValid(p)} BY <1>10, <1>11, <1>13
  <2> QED BY <2>1, <2>2, <1>1, <1>5, <1>6, <1>8, <1>12
<1>14. CASE last \in bad
  <2> DEFINE r == DropAt(rest, last)
  <2>1. last \in Offsets(rest) BY <1>14, <1>3, <1>5 DEF Offsets
  <2>2. /\ Tidy(r.queue, NumberOf)
        /\ Held(r.queue) \cup r.dropped = Held(rest)
        /\ Held(r.queue) \cap r.dropped = {}
        /\ r.dropped = {SlotAt(rest, last).user} \ {NoUser}
        /\ r.queue.begin = rest.begin /\ r.queue.count <= rest.count
    <3> HIDE DEF last
    <3> QED BY <2>1, <1>8, TidyDropAt, DropAtHolds, PacketNumbers
  <2>3. Rechecked(w) = r.queue BY <1>14, <1>2
  <2> HIDE DEF r
  <2>4. ASSUME NEW x \in r.dropped PROVE ~MacValid(x)
    <3>1. x = SlotAt(rest, last).user /\ x # NoUser BY <2>2, <2>4
    <3>2. last \in 0 .. QSize BY <1>1, <2>1 DEF Offsets
    <3>3. Idx(At(w, last)) \in SlotIds /\ At(rest, last) = At(w, last)
      BY <3>2, <1>1, <1>5, SlotAtType, PacketNumbers DEF At
    <3> HIDE DEF last
    <3>4. x = SlotAt(w, last).user BY <3>1, <3>3, <1>7 DEF SlotAt
    <3> QED BY <3>4, <1>3, <1>14
  <2>5. Held(r.queue) = {p \in Held(w) : MacValid(p)}
    <3>1. ASSUME NEW x \in Held(r.queue) PROVE x \in Held(w) /\ MacValid(x)
      <4>1. x \in Held(rest) /\ x \notin r.dropped BY <2>2, <3>1
      <4>2. PICK i \in Offsets(rest) : x = SlotAt(rest, i).user /\ x # NoUser BY <4>1 DEF Held
      <4> QED BY <4>1, <4>2, <1>10, <2>2
    <3>2. ASSUME NEW x \in Held(w), MacValid(x) PROVE x \in Held(r.queue)
      BY <3>2, <1>11, <2>2, <2>4
    <3> QED BY <3>1, <3>2
  <2> QED BY <2>2, <2>3, <2>5, <1>5, <1>12, <1>14
<1> QED BY <1>13, <1>14

-----------------------------------------------------------------------------
(* Every step keeps the invariant.                                         *)

LEMMA InitIInv == Init => IInv
<1> SUFFICES ASSUME Init PROVE IInv OBVIOUS
<1>1. FirstSeq \in SeqNums /\ Messages \in Nat /\ MaxDamaged \in Nat BY MessagesAssumption
<1>2. Tidy(q, NumberOf) /\ q.begin = FirstSeq /\ q.count = 0
  BY <1>1, TidyNew, PacketNumbers DEF Init, NewQueue
<1>3. NextOf(q) = 1 BY <1>1, <1>2 DEF NextOf, SeqDist, SeqNums
<1>4. fired = <<>> /\ sent = 0 /\ net = {} /\ acks = {} /\ unacked = {} /\ ~crypt /\ ~crypt_available
  BY DEF Init
<1>5. TypeOK
  <2>1. q \in Queues(NumberOf) BY <1>2 DEF Tidy
  <2>2. <<>> \in Seq(Packets) OBVIOUS
  <2>3. /\ clean \in BOOLEAN /\ sent \in 0 .. Messages /\ unacked \subseteq 1 .. Messages
        /\ net \subseteq Packets /\ acks \subseteq SeqNums /\ damaged \in 0 .. MaxDamaged
        /\ crypt \in BOOLEAN /\ crypt_available \in BOOLEAN /\ fired \in Seq(Packets)
    <3>1. clean \in BOOLEAN /\ crypt \in BOOLEAN /\ crypt_available \in BOOLEAN BY DEF Init
    <3>2. fired \in Seq(Packets) BY <2>2, <1>4
    <3>3. damaged \in 0 .. MaxDamaged BY <1>1 DEF Init
    <3>4. sent \in 0 .. Messages BY <1>1, <1>4
    <3> QED BY <3>1, <3>2, <3>3, <3>4, <1>4
  <2> QED BY <2>1, <2>3, PacketNumbers DEF TypeOK, Queues
<1>6. Ordered BY <1>2, <1>3, <1>4 DEF Ordered, FiredInOrder
<1>7. Filled(q) BY DEF Init, NewQueue, EmptySlot, Filled
<1>8. Kept
  <2>1. 0 \in 0 .. Len(fired) /\ unacked = 0 + 1 .. sent BY <1>4
  <2> QED BY <2>1 DEF Kept
<1>9. Exact BY <1>3, <1>4, <1>7, <1>8 DEF Exact, Honest
<1> QED BY <1>5, <1>4, <1>6, <1>9 DEF IInv, Checked

\* The handler of a packet whose MAC is valid or not checked yet: what is fired,
\* and the invariant.
LEMMA Handled ==
  ASSUME IInv, NEW p \in net, HandleData(p),
         crypt => crypt_available /\ MacValid(p),
         net' \subseteq net,
         UNCHANGED <<console, crypt_available>>
  PROVE  /\ IInv'
         /\ \A i \in DOMAIN fired' \ DOMAIN fired : fired'[i] \in Held(q) \cup {p}
         /\ Len(fired) <= Len(fired') /\ Len(fired) \in Nat /\ Len(fired') \in Nat
<1> DEFINE w == Push(q, SeqOf(p.n), p, "End").queue
           e == NextOf(q)
           R == Run(w)
<1>1. /\ p \in Packets /\ p.n <= sent /\ sent \in 0 .. Messages /\ fired \in Seq(Packets)
      /\ Messages \in Nat
  BY MessagesAssumption DEF IInv, TypeOK, Ordered
<1>2. /\ Tidy(w, NumberOf) /\ NextOf(w) = e /\ NextOf(w) + w.count <= sent + 1
      /\ Held(w) \subseteq Held(q) \cup {p}
      /\ Filled(q) /\ p.intact => Filled(w)
  BY <1>1, Pushed
<1>3. q' = Drained(w) /\ fired' = fired \o Taken(w) /\ acks' = acks \cup Acks(w)
  BY DEF HandleData
<1>4. crypt' = (crypt \/ \E i \in DOMAIN Taken(w) : Taken(w)[i].n = Bang)
  BY DEF HandleData
<1> HIDE DEF w
<1>5. /\ Tidy(q', NumberOf) /\ Held(q') \subseteq Held(w)
      /\ NextOf(q') + q'.count <= sent + 1
      /\ NextOf(q') \in {e + R, e + R + 1}
      /\ Filled(w) => Filled(q') /\ NextOf(q') = e + R
      /\ Taken(w) \in Seq(Packets) /\ Len(Taken(w)) = R /\ R \in Nat
      /\ \A i \in 1 .. R : Taken(w)[i] \in Held(w) /\ Taken(w)[i].n = e + i - 1
      /\ acks' = acks \cup (IF R = 0 THEN {} ELSE {SeqOf(e + R - 1)})
  BY <1>1, <1>2, <1>3, PulledOut
<1> HIDE DEF R
<1>6. e \in Nat \ {0}
  BY NextOfBegin DEF IInv, TypeOK
<1>7. e + R <= sent + 1
  <2>1. q'.count \in Nat BY <1>5, QSizeAssumption DEF Tidy, Queues
  <2> HIDE DEF e
  <2> QED BY <2>1, <1>1, <1>5, <1>6
<1> DEFINE k == Len(fired)
<1>8. /\ k \in Nat /\ Len(fired') = k + R /\ fired' \in Seq(Packets)
      /\ DOMAIN fired = 1 .. k /\ DOMAIN fired' = 1 .. k + R /\ DOMAIN Taken(w) = 1 .. R
      /\ \A i \in 1 .. k : fired'[i] = fired[i]
      /\ \A i \in k + 1 .. k + R : i - k \in 1 .. R /\ fired'[i] = Taken(w)[i - k]
  <2>1. /\ fired' \in Seq(Packets) /\ Len(fired') = k + R /\ k \in Nat
        /\ \A i \in 1 .. k + R : fired'[i] = IF i <= k THEN fired[i] ELSE Taken(w)[i - k]
    BY <1>1, <1>3, <1>5, ConcatProperties
  <2>2. DOMAIN fired = 1 .. k /\ DOMAIN fired' = 1 .. k + R /\ DOMAIN Taken(w) = 1 .. R
    BY <2>1, <1>1, <1>5, LenProperties
  <2> HIDE DEF k
  <2> QED BY <2>1, <2>2, <1>5
<1> HIDE DEF k
<1>9. /\ clean' = clean /\ sent' = sent /\ unacked' = unacked /\ damaged' = damaged
      /\ crypt_available' = crypt_available
  BY DEF console
<1>10. TypeOK'
  <2>1. q' \in Queues(NumberOf) BY <1>5 DEF Tidy
  <2>2. acks' \subseteq SeqNums
    <3>1. R # 0 => e + R - 1 \in 1 .. Messages + 1
      <4> HIDE DEF e
      <4> QED BY <1>1, <1>5, <1>6, <1>7
    <3>2. R # 0 => SeqOf(e + R - 1) \in SeqNums BY <3>1, SeqOfNumbers
    <3> QED BY <3>2, <1>5 DEF IInv, TypeOK
  <2>3. crypt' \in BOOLEAN BY <1>4
  <2>4. net' \subseteq Packets BY DEF IInv, TypeOK
  <2> QED BY <2>1, <2>2, <2>3, <2>4, <1>8, <1>9, PacketNumbers DEF IInv, TypeOK, Queues
<1>11. ASSUME NEW i \in 1 .. k + R
       PROVE  \/ i <= k /\ fired'[i] = fired[i] /\ fired[i].n < e /\ fired[i].n \in Nat
              \/ i > k /\ fired'[i].n = e + (i - k) - 1 /\ fired'[i] \in Held(w)
  <2>1. CASE i <= k
    <3>1. i \in 1 .. k BY <2>1, <1>8
    <3>2. fired[i] \in Packets BY <3>1, <1>1, <1>8
    <3> QED BY <2>1, <3>1, <3>2, <1>8 DEF IInv, Ordered, Packets
  <2>2. CASE i > k
    <3>1. i \in k + 1 .. k + R BY <2>2, <1>8
    <3> HIDE DEF e
    <3> QED BY <2>2, <3>1, <1>5, <1>8
  <2> QED BY <2>1, <2>2, <1>8
<1> HIDE DEF e
<1>12. Ordered'
  <2>1. \A i \in DOMAIN fired' : fired'[i].n < NextOf(q')
    BY <1>5, <1>6, <1>8, <1>11
  <2>2. FiredInOrder'
    <3> SUFFICES ASSUME NEW i \in 1 .. k + R, NEW j \in 1 .. k + R, i < j
                 PROVE  fired'[i].n < fired'[j].n
      BY <1>8 DEF FiredInOrder
    <3>1. CASE j <= k
      <4>1. i \in 1 .. k /\ j \in 1 .. k BY <3>1, <1>8
      <4>2. fired[i].n < fired[j].n BY <4>1, <1>8 DEF IInv, Ordered, FiredInOrder
      <4> QED BY <4>1, <4>2, <1>8
    <3>2. CASE j > k
      <4>1. ~(j <= k) BY <3>2, <1>8
      <4>2. fired'[j].n = e + (j - k) - 1 BY <4>1, <1>11
      <4>3. \/ fired'[i].n < e /\ fired'[i].n \in Nat
            \/ i > k /\ fired'[i].n = e + (i - k) - 1
        BY <1>11
      <4> QED BY <4>2, <4>3, <3>2, <1>5, <1>6, <1>8
    <3> QED BY <3>1, <3>2, <1>8
  <2>3. crypt' => Bang < NextOf(q')
    <3>1. crypt => Bang < e BY DEF IInv, Ordered, e
    <3>2. (\E i \in DOMAIN Taken(w) : Taken(w)[i].n = Bang) => Bang < e + R
      BY <1>5, <1>6, <1>8
    <3>3. Bang \in Nat BY MessagesAssumption
    <3>4. crypt' => crypt \/ \E i \in DOMAIN Taken(w) : Taken(w)[i].n = Bang BY <1>4
    <3>5. crypt' => Bang < e + R BY <3>1, <3>2, <3>3, <3>4, <1>5, <1>6
    <3> QED BY <3>3, <3>5, <1>5, <1>6
  <2>4. \A x \in net' : x.n <= sent' BY <1>9 DEF IInv, Ordered
  <2>5. unacked' \subseteq 1 .. sent' BY <1>9 DEF IInv, Ordered
  <2> QED BY <2>1, <2>2, <2>3, <2>4, <2>5, <1>5, <1>9 DEF Ordered
<1>13. Checked'
  <2> SUFFICES ASSUME crypt_available PROVE crypt' /\ \A x \in Held(q') : MacValid(x)
    BY <1>9 DEF Checked, MacValid
  <2>1. crypt /\ \A x \in Held(q) : MacValid(x) BY DEF IInv, Checked
  <2>2. \A x \in Held(q') : x \in Held(q) \cup {p} BY <1>2, <1>5
  <2>3. crypt' BY <2>1, <1>4
  <2> QED BY <2>1, <2>2, <2>3
<1>14. Exact'
  <2> SUFFICES ASSUME clean PROVE Exact' BY <1>9 DEF Exact
  <2>1. /\ \A x \in net : x.intact
        /\ Filled(q) /\ e = k + 1
        /\ \A i \in DOMAIN fired : fired[i] = Intact(i)
        /\ Kept /\ Honest
    BY DEF IInv, Exact, e, k
  <2>2. Filled(w) /\ Filled(q') /\ NextOf(q') = (k + R) + 1
    BY <2>1, <1>2, <1>5, <1>8
  <2>3. ASSUME NEW i \in 1 .. k + R PROVE fired'[i] = Intact(i)
    <3>1. CASE i <= k BY <3>1, <2>1, <1>8
    <3>2. CASE i > k
      <4>1. fired'[i].n = i /\ fired'[i] \in Held(w) BY <3>2, <2>1, <1>8, <1>11
      <4>2. fired'[i].intact BY <4>1, <2>2, <1>2, FilledHeld
      <4>3. fired'[i] \in Packets BY <1>8
      <4> QED BY <4>1, <4>2, <4>3 DEF Packets, Intact
    <3> QED BY <3>1, <3>2, <1>8
  <2>4. Kept'
    <3>1. PICK j \in 0 .. k : unacked = j + 1 .. sent BY <2>1 DEF Kept, k
    <3>2. j \in 0 .. k + R BY <1>5, <1>8
    <3> QED BY <3>1, <3>2, <1>8, <1>9 DEF Kept
  <2>5. Honest'
    <3>1. ASSUME NEW a \in acks' PROVE \E m \in 1 .. k + R : a = SeqOf(m)
      <4>1. CASE a \in acks
        <5>1. PICK m \in 1 .. k : a = SeqOf(m) BY <4>1, <2>1 DEF Honest, k
        <5>2. m \in 1 .. k + R BY <1>5, <1>8
        <5> QED BY <5>1, <5>2
      <4>2. CASE a \notin acks
        <5>1. R # 0 /\ a = SeqOf(e + R - 1) BY <4>2, <1>5
        <5>2. e + R - 1 = k + R /\ k + R \in 1 .. k + R BY <5>1, <2>1, <1>5, <1>8
        <5> QED BY <5>1, <5>2
      <4> QED BY <4>1, <4>2
    <3> QED BY <3>1, <1>8 DEF Honest
  <2>6. \A x \in net' : x.intact BY <2>1
  <2> QED BY <2>2, <2>3, <2>4, <2>5, <2>6, <1>8 DEF Exact
<1>15. \A i \in DOMAIN fired' \ DOMAIN fired : fired'[i] \in Held(q) \cup {p}
  BY <1>2, <1>8, <1>11
<1> QED BY <1>8, <1>10, <1>12, <1>13, <1>14, <1>15, <1>5 DEF IInv, k

LEMMA ReceiveStep ==
  ASSUME IInv, NEW p \in Packets, NEW again \in BOOLEAN, Receive(p, again)
  PROVE  /\ IInv'
         /\ crypt_available =>
              \A i \in DOMAIN fired' \ DOMAIN fired : fired'[i] \in Held(q) \cup {p} /\ MacValid(p)
         /\ Len(fired) <= Len(fired') /\ Len(fired) \in Nat /\ Len(fired') \in Nat
<1>1. p \in net /\ net' \subseteq net /\ (crypt => crypt_available)
  BY DEF Receive
<1>2. UNCHANGED <<console, crypt_available>> BY DEF Receive
<1>3. CASE crypt /\ ~MacValid(p)
  <2>1. UNCHANGED <<q, fired, acks, crypt>> BY <1>3 DEF Receive
  <2>2. UNCHANGED <<clean, sent, unacked, damaged, crypt_available>> BY <1>2 DEF console
  <2>3. fired \in Seq(Packets) BY DEF IInv, TypeOK
  <2>4. TypeOK' BY <2>1, <2>2, <1>1 DEF IInv, TypeOK
  <2>5. Ordered' BY <2>1, <2>2, <1>1 DEF IInv, Ordered, FiredInOrder
  <2>6. Checked' BY <2>1, <2>2 DEF IInv, Checked, MacValid
  <2>7. Exact' BY <2>1, <2>2, <1>1 DEF IInv, Exact, Kept, Honest
  <2>8. Len(fired) \in Nat BY <2>3, LenProperties
  <2> QED BY <2>1, <2>4, <2>5, <2>6, <2>7, <2>8 DEF IInv
<1>4. CASE ~(crypt /\ ~MacValid(p))
  <2>1. HandleData(p) BY <1>4 DEF Receive
  <2>2. crypt => crypt_available /\ MacValid(p) BY <1>1, <1>4
  <2>3. crypt_available => crypt BY DEF IInv, Checked
  <2> QED BY <2>1, <2>2, <2>3, <1>1, <1>2, Handled
<1> QED BY <1>3, <1>4

\* What the console sent as it should and is still queued when the keys come was sent after
\* the BANG, so the recheck spares it; on a clean network it spares everything.
LEMMA RecheckStep ==
  ASSUME IInv, Recheck
  PROVE  /\ IInv'
         /\ \A p \in Held(q) : p.intact => p \in Held(q')
<1>1. /\ crypt /\ crypt_available' = TRUE /\ q' = Rechecked(q)
      /\ UNCHANGED <<clean, sent, unacked, damaged, net, acks, crypt, fired>>
  BY DEF Recheck, console
<1>2. Tidy(q, NumberOf) BY DEF IInv, Ordered
<1>3. /\ Tidy(q', NumberOf) /\ q'.begin = q.begin /\ q'.count <= q.count
      /\ Held(q') = {p \in Held(q) : MacValid(p)}
      /\ (\A p \in Held(q) : MacValid(p)) => q' = q
  BY <1>1, <1>2, RecheckedHolds
<1>4. ASSUME NEW p \in Held(q), p.intact PROVE MacValid(p)
  <2>1. p \in Packets /\ NextOf(q) <= p.n BY WindowMessages
  <2>2. Bang < NextOf(q) /\ Bang \in Nat BY <1>1, MessagesAssumption DEF IInv, Ordered
  <2>3. NextOf(q) \in Nat BY NextOfBegin DEF IInv, TypeOK
  <2> QED BY <1>4, <2>1, <2>2, <2>3 DEF MacValid, Packets
<1>5. NextOf(q') = NextOf(q) BY <1>3 DEF NextOf
<1>6. TypeOK'
  <2>1. q' \in Queues(NumberOf) BY <1>3 DEF Tidy
  <2> QED BY <2>1, <1>1, PacketNumbers DEF IInv, TypeOK, Queues
<1>7. Ordered'
  <2>1. q.count \in Nat /\ q'.count \in Nat /\ NextOf(q) \in Nat /\ sent \in Nat
    BY <1>2, <1>3, QSizeAssumption, MessagesAssumption, NextOfBegin
    DEF Tidy, Queues, IInv, TypeOK
  <2>2. NextOf(q') + q'.count <= sent + 1 BY <2>1, <1>3, <1>5 DEF IInv, Ordered
  <2> QED BY <2>2, <1>1, <1>3, <1>5 DEF IInv, Ordered, FiredInOrder
<1>8. Checked' BY <1>1, <1>3 DEF Checked, MacValid
<1>9. Exact'
  <2> SUFFICES ASSUME clean PROVE Exact' BY <1>1 DEF Exact
  <2>1. Filled(q) BY DEF IInv, Exact
  <2>2. \A p \in Held(q) : MacValid(p) BY <2>1, <1>2, <1>4, FilledHeld
  <2>3. q' = q BY <2>2, <1>3
  <2> QED BY <2>3, <1>1 DEF IInv, Exact, Kept, Honest
<1> QED BY <1>3, <1>4, <1>6, <1>7, <1>8, <1>9 DEF IInv

\* The console and the network leave the receive thread alone.
LEMMA OutsideStep ==
  ASSUME IInv,
         \/ ConsoleSend
         \/ \E n \in 1 .. Messages : ConsoleResend(n) \/ Damage(n)
         \/ \E a \in acks : ConsoleAcked(a)
         \/ Lose
  PROVE  IInv'
<1>1. UNCHANGED <<clean, q, crypt, crypt_available, fired>>
  BY DEF ConsoleSend, ConsoleResend, Damage, ConsoleAcked, Lose, console
<1>2. Checked' BY <1>1 DEF IInv, Checked, MacValid
<1>3. /\ sent \in 0 .. Messages /\ Messages \in Nat /\ unacked \subseteq 1 .. sent
      /\ NextOf(q) + q.count <= sent + 1 /\ NextOf(q) \in Nat /\ q.count \in Nat
      /\ \A p \in net : p \in Packets /\ p.n <= sent
      /\ MaxDamaged \in Nat
  BY MessagesAssumption, QSizeAssumption, NextOfBegin DEF IInv, TypeOK, Ordered
<1>4. clean => /\ NextOf(q) = Len(fired) + 1 /\ Len(fired) \in Nat
               /\ Len(fired) <= sent
  <2>1. Len(fired) \in Nat BY LenProperties DEF IInv, TypeOK
  <2> QED BY <2>1, <1>3 DEF IInv, Exact
<1>5. CASE ConsoleSend
  <2>1. /\ sent < Messages /\ sent' = sent + 1 /\ unacked' = unacked \cup {sent + 1}
        /\ net' = net \cup {Intact(sent + 1)} /\ acks' = acks /\ damaged' = damaged
    BY <1>5 DEF ConsoleSend
  <2>2. Intact(sent + 1) \in Packets /\ Intact(sent + 1).intact /\ Intact(sent + 1).n = sent + 1
    BY <2>1, <1>3 DEF Packets, Intact
  <2>3. TypeOK' BY <2>1, <2>2, <1>1, <1>3 DEF IInv, TypeOK
  <2>4. unacked' \subseteq 1 .. sent' BY <2>1, <1>3
  <2>5. \A p \in net' : p.n <= sent' BY <2>1, <2>2, <1>3 DEF Packets
  <2>6. NextOf(q') + q'.count <= sent' + 1 BY <2>1, <1>1, <1>3
  <2>7. Ordered' BY <2>4, <2>5, <2>6, <1>1 DEF IInv, Ordered, FiredInOrder
  <2>8. ASSUME clean PROVE Kept'
    <3>1. PICK k \in 0 .. Len(fired) : unacked = k + 1 .. sent BY <2>8 DEF IInv, Exact, Kept
    <3>2. unacked' = k + 1 .. sent' BY <3>1, <2>1, <2>8, <1>3, <1>4
    <3> QED BY <3>1, <3>2, <1>1 DEF Kept
  <2>9. Exact' BY <2>1, <2>2, <2>8, <1>1 DEF IInv, Exact, Honest
  <2> QED BY <2>3, <2>7, <2>9, <1>2 DEF IInv
<1>6. CASE \E n \in 1 .. Messages : ConsoleResend(n)
  <2>1. PICK n \in unacked : net' = net \cup {Intact(n)} BY <1>6 DEF ConsoleResend
  <2>2. UNCHANGED <<sent, unacked, damaged, acks>> BY <1>6 DEF ConsoleResend, console
  <2>3. Intact(n) \in Packets /\ Intact(n).intact /\ Intact(n).n <= sent
    BY <2>1, <1>3 DEF Packets, Intact
  <2>4. TypeOK' BY <2>1, <2>2, <2>3, <1>1 DEF IInv, TypeOK
  <2>5. Ordered' BY <2>1, <2>2, <2>3, <1>1 DEF IInv, Ordered, FiredInOrder
  <2>6. Exact' BY <2>1, <2>2, <2>3, <1>1 DEF IInv, Exact, Kept, Honest
  <2> QED BY <2>4, <2>5, <2>6, <1>2 DEF IInv
<1>7. CASE \E n \in 1 .. Messages : Damage(n)
  <2>1. PICK n \in 1 .. Messages :
          /\ ~clean /\ damaged < MaxDamaged /\ damaged' = damaged + 1
          /\ Intact(n) \in net /\ net' = net \cup {[n |-> n, intact |-> FALSE]}
    BY <1>7 DEF Damage
  <2>2. UNCHANGED <<sent, unacked, acks>> BY <1>7 DEF Damage
  <2>3. Intact(n).n = n BY DEF Intact
  <2>4. [n |-> n, intact |-> FALSE] \in Packets /\ [n |-> n, intact |-> FALSE].n <= sent
    BY <2>1, <2>3, <1>3 DEF Packets
  <2>5. damaged' \in 0 .. MaxDamaged BY <2>1, <1>3 DEF IInv, TypeOK
  <2>6. net' \subseteq Packets BY <2>1, <2>4, <1>3
  <2>7. TypeOK' BY <2>2, <2>5, <2>6, <1>1 DEF IInv, TypeOK
  <2>8. Ordered' BY <2>1, <2>2, <2>4, <1>1 DEF IInv, Ordered, FiredInOrder
  <2>9. Exact' BY <2>1, <1>1 DEF Exact
  <2> QED BY <2>7, <2>8, <2>9, <1>2 DEF IInv
<1>8. CASE \E a \in acks : ConsoleAcked(a)
  <2>1. PICK a \in acks : /\ acks' = acks \ {a}
                          /\ unacked' = {n \in unacked : SeqGt(SeqOf(n), a)}
                          /\ UNCHANGED <<sent, net, damaged>>
    BY <1>8 DEF ConsoleAcked
  <2>2. TypeOK' BY <2>1, <1>1 DEF IInv, TypeOK
  <2>3. Ordered' BY <2>1, <1>1 DEF IInv, Ordered, FiredInOrder
  <2>4. ASSUME clean PROVE Kept'
    <3>1. PICK k \in 0 .. Len(fired) : unacked = k + 1 .. sent BY <2>4 DEF IInv, Exact, Kept
    <3>2. PICK m \in 1 .. Len(fired) : a = SeqOf(m) BY <2>1, <2>4 DEF IInv, Exact, Honest
    <3>3. \A n \in unacked : SeqGt(SeqOf(n), a) <=> n > m
      <4>1. \A n \in unacked : n \in 1 .. Messages BY <1>3
      <4>2. m \in 1 .. Messages BY <2>4, <1>3, <1>4
      <4> QED BY <4>1, <4>2, <3>2, SeqOfOrder
    <3>4. unacked' = {n \in k + 1 .. sent : n > m} BY <3>1, <3>3, <2>1
    <3> DEFINE j == IF m > k THEN m ELSE k
    <3>5. j \in 0 .. Len(fired) /\ unacked' = j + 1 .. sent
      BY <3>4, <2>4, <1>3, <1>4
    <3> HIDE DEF j
    <3> QED BY <3>5, <2>1, <1>1 DEF Kept
  <2>5. Exact' BY <2>1, <2>4, <1>1 DEF IInv, Exact, Honest
  <2> QED BY <2>2, <2>3, <2>5, <1>2 DEF IInv
<1>9. CASE Lose
  <2>1. net' \subseteq net /\ acks' \subseteq acks /\ UNCHANGED <<sent, unacked, damaged>>
    BY <1>9 DEF Lose, console
  <2>2. TypeOK' BY <2>1, <1>1 DEF IInv, TypeOK
  <2>3. Ordered' BY <2>1, <1>1 DEF IInv, Ordered, FiredInOrder
  <2>4. Exact' BY <2>1, <1>1 DEF IInv, Exact, Kept, Honest
  <2> QED BY <2>2, <2>3, <2>4, <1>2 DEF IInv
<1> QED BY <1>5, <1>6, <1>7, <1>8, <1>9

LEMMA NextIInv == IInv /\ [Next]_vars => IInv'
<1> SUFFICES ASSUME IInv, [Next]_vars PROVE IInv' OBVIOUS
<1>1. CASE UNCHANGED vars
  BY <1>1 DEF vars, IInv, TypeOK, Ordered, FiredInOrder, Checked, MacValid, Exact, Kept, Honest
<1>2. CASE Next BY <1>2, ReceiveStep, RecheckStep, OutsideStep DEF Next
<1> QED BY <1>1, <1>2

LEMMA AlwaysIInv == Spec => []IInv
BY InitIInv, NextIInv, PTL DEF Spec

-----------------------------------------------------------------------------
(* What follows.                                                           *)

\* The data messages keep their types.
THEOREM DataTypes == Spec => []TypeOK
BY AlwaysIInv, PTL DEF IInv

\* The callback is handed the messages in order, each at most once, even when
\* damaged packets took the place of some.
THEOREM AlwaysInOrder == Spec => []FiredInOrder
BY AlwaysIInv, PTL DEF IInv, Ordered

\* Once the receive thread has noticed the keys, nothing damaged reaches the
\* callback: neither what arrives then nor what was queued before.
THEOREM DamageIsCaught == Spec => NothingDamagedFired
<1>1. ASSUME IInv, Next, crypt_available, NEW i \in DOMAIN fired' \ DOMAIN fired
      PROVE  fired'[i].intact
  <2>1. PICK p \in Packets, again \in BOOLEAN : Receive(p, again)
    BY <1>1 DEF Next, ConsoleSend, ConsoleResend, Damage, ConsoleAcked, Lose, Recheck
  <2>2. fired'[i] \in Held(q) \cup {p} /\ MacValid(p) BY <1>1, <2>1, ReceiveStep
  <2> QED BY <1>1, <2>2 DEF IInv, Checked, MacValid
<1>2. IInv /\ [Next]_vars =>
        [crypt_available => \A i \in DOMAIN fired' \ DOMAIN fired : fired'[i].intact]_vars
  BY <1>1
<1> QED BY <1>2, AlwaysIInv, PTL DEF Spec, NothingDamagedFired

\* The recheck drops nothing that the console sent as it should.
THEOREM RecheckIsSparing == Spec => RecheckSparesConsole
<1>1. IInv /\ [Next]_vars => [Recheck => \A p \in Held(q) : p.intact => p \in Held(q')]_vars
  BY RecheckStep
<1> QED BY <1>1, AlwaysIInv, PTL DEF Spec, RecheckSparesConsole

-----------------------------------------------------------------------------
(* The refinement.                                                         *)

\* What came out of the channel and what the sender no longer keeps.
Delivered(f)     == [i \in DOMAIN f |-> f[i].n]
Forgotten(u, s)  == s - Cardinality(u)
CameOut(f, u, s) == /\ Len(f) \in 0 .. s /\ s \in 0 .. Messages
                    /\ Delivered(f) = [i \in 1 .. Len(f) |-> i]
                    /\ \E k \in 0 .. Len(f) : u = k + 1 .. s /\ Forgotten(u, s) = k

\* Over a network that damages nothing, the callback was handed 1, 2, .. up to no more
\* than what was sent, and the console forgot no more than that.
LEMMA WhatCameOut ==
  ASSUME NEW f \in Seq(Packets), NEW s \in 0 .. Messages, NEW u, NEW w,
         w \in Queues(NumberOf), NextOf(w) + w.count <= s + 1, NextOf(w) = Len(f) + 1,
         \A i \in DOMAIN f : f[i] = Intact(i),
         \E k \in 0 .. Len(f) : u = k + 1 .. s
  PROVE  CameOut(f, u, s)
<1>1. Len(f) \in Nat /\ DOMAIN f = 1 .. Len(f) /\ s \in Nat BY LenProperties
<1>2. Len(f) <= s
  <2>1. w.count \in Nat BY QSizeAssumption DEF Queues
  <2> QED BY <2>1, <1>1
<1>3. Delivered(f) = [i \in 1 .. Len(f) |-> i] BY <1>1 DEF Delivered, Intact
<1>4. PICK k \in 0 .. Len(f) : u = k + 1 .. s OBVIOUS
<1>5. k \in Nat /\ k <= s BY <1>1, <1>2
<1>6. Cardinality(k + 1 .. s) = IF k + 1 > s THEN 0 ELSE s - (k + 1) + 1
  BY <1>1, <1>5, FS_Interval
<1>7. Forgotten(u, s) = k BY <1>1, <1>4, <1>5, <1>6 DEF Forgotten
<1> QED BY <1>1, <1>2, <1>3, <1>4, <1>7 DEF CameOut

\* Every step is a step of the channel, or none.
LEMMA StepImplements ==
  IInv /\ IInv' /\ [Next]_vars => [Channel!Next]_Channel!channel
<1> SUFFICES ASSUME IInv, IInv', [Next]_vars
             PROVE  [Channel!Next]_Channel!channel
  OBVIOUS
<1>0. clean' = clean
  BY DEF Next, vars, ConsoleSend, ConsoleResend, Damage, ConsoleAcked, Lose, Receive, Recheck,
         console
<1> SUFFICES ASSUME clean PROVE [Channel!Next]_Channel!channel
  BY <1>0 DEF Channel!channel
<1>1. clean' BY <1>0
<1>2. CameOut(fired, unacked, sent)
  <2>1. q \in Queues(NumberOf) BY DEF IInv, Ordered, Tidy
  <2> QED BY <2>1, WhatCameOut DEF IInv, TypeOK, Ordered, Exact, Kept
<1>3. CameOut(fired', unacked', sent')
  <2>1. q' \in Queues(NumberOf) BY DEF IInv, Ordered, Tidy
  <2>2. NextOf(q)' = NextOf(q') BY DEF NextOf
  <2> QED BY <2>1, <2>2, <1>1, WhatCameOut DEF IInv, TypeOK, Ordered, Exact, Kept
<1> DEFINE bar(f, u, s) == <<s, Delivered(f), Forgotten(u, s)>>
<1>4. CASE ConsoleSend
  <2>1. sent < Messages /\ sent' = sent + 1 /\ unacked' = unacked \cup {sent + 1} /\ fired' = fired
    BY <1>4 DEF ConsoleSend
  <2>2. Forgotten(unacked', sent') = Forgotten(unacked, sent)
    <3>1. PICK k \in 0 .. Len(fired) : unacked = k + 1 .. sent /\ Forgotten(unacked, sent) = k
      BY <1>2 DEF CameOut
    <3>2. PICK j \in 0 .. Len(fired) : unacked' = j + 1 .. sent' /\ Forgotten(unacked', sent') = j
      BY <1>3, <2>1 DEF CameOut
    <3>3. sent \in Nat /\ Len(fired) \in Nat /\ Len(fired) <= sent BY <1>2 DEF CameOut
    <3>4. k + 1 .. sent + 1 = j + 1 .. sent + 1 BY <3>1, <3>2, <3>3, <2>1
    <3>5. j + 1 \in k + 1 .. sent + 1 /\ k + 1 \in j + 1 .. sent + 1 BY <3>3, <3>4
    <3> QED BY <3>1, <3>2, <3>3, <3>5
  <2>3. Channel!Send
    BY <2>1, <2>2, <1>1 DEF Channel!Send, Delivered, Forgotten
  <2> QED BY <2>3 DEF Channel!Next
<1>5. CASE \E a \in acks : ConsoleAcked(a)
  <2>1. sent' = sent /\ unacked' \subseteq unacked /\ fired' = fired
    BY <1>5 DEF ConsoleAcked
  <2>2. Forgotten(unacked', sent') \in {Forgotten(unacked, sent)}
          \cup (Forgotten(unacked, sent) + 1 .. Len(Delivered(fired)))
    <3>1. PICK k \in 0 .. Len(fired) : unacked = k + 1 .. sent /\ Forgotten(unacked, sent) = k
      BY <1>2 DEF CameOut
    <3>2. PICK j \in 0 .. Len(fired) : unacked' = j + 1 .. sent /\ Forgotten(unacked', sent) = j
      BY <1>3, <2>1 DEF CameOut
    <3>3. sent \in Nat /\ Len(fired) \in Nat /\ Len(fired) <= sent BY <1>2 DEF CameOut
    <3>4. j >= k
      <4> SUFFICES ASSUME j < k PROVE FALSE BY <3>1, <3>2, <3>3
      <4>1. j + 1 \in j + 1 .. sent /\ j + 1 \notin k + 1 .. sent BY <3>1, <3>2, <3>3
      <4> QED BY <4>1, <3>1, <3>2, <2>1
    <3>5. Len(Delivered(fired)) = Len(fired) BY <1>2, <3>3 DEF CameOut
    <3> QED BY <3>1, <3>2, <3>3, <3>4, <3>5, <2>1
  <2>3. CASE Forgotten(unacked', sent') = Forgotten(unacked, sent)
    BY <2>1, <2>3, <1>1 DEF Channel!channel, Delivered, Forgotten
  <2>4. CASE Forgotten(unacked', sent') # Forgotten(unacked, sent)
    <3>1. Channel!Forget
      BY <2>1, <2>2, <2>4, <1>1 DEF Channel!Forget, Delivered, Forgotten
    <3> QED BY <3>1 DEF Channel!Next
  <2> QED BY <2>3, <2>4
<1>6. CASE \E p \in Packets, again \in BOOLEAN : Receive(p, again)
  <2>1. sent' = sent /\ unacked' = unacked BY <1>6 DEF Receive, console
  <2>2. Len(fired) <= Len(fired') /\ Len(fired) \in Nat /\ Len(fired') \in Nat
    BY <1>6, ReceiveStep
  <2>3. /\ Delivered(fired) = [i \in 1 .. Len(fired) |-> i]
        /\ Delivered(fired') = [i \in 1 .. Len(fired') |-> i]
        /\ Len(fired') \in 0 .. sent /\ sent \in Nat
    BY <1>2, <1>3, <2>1 DEF CameOut
  <2>4. CASE Len(fired') = Len(fired)
    <3>1. Delivered(fired') = Delivered(fired) BY <2>3, <2>4
    <3> QED BY <3>1, <2>1, <1>1 DEF Channel!channel, Delivered, Forgotten
  <2>5. CASE Len(fired') # Len(fired)
    <3>1. Len(Delivered(fired)) = Len(fired) BY <2>2, <2>3
    <3>2. Len(fired') \in Len(Delivered(fired)) + 1 .. sent BY <3>1, <2>2, <2>3, <2>5
    <3>3. \E n \in Len(Delivered(fired)) + 1 .. sent : Delivered(fired') = [i \in 1 .. n |-> i]
      BY <3>2, <2>3
    <3>4. Channel!Deliver
      BY <3>3, <2>1, <1>1 DEF Channel!Deliver, Delivered, Forgotten
    <3> QED BY <3>4 DEF Channel!Next
  <2> QED BY <2>4, <2>5
<1>7. CASE \/ \E n \in 1 .. Messages : ConsoleResend(n) \/ Damage(n)
           \/ Lose \/ Recheck \/ UNCHANGED vars
  <2>1. UNCHANGED <<clean, sent, unacked, fired>>
    BY <1>7 DEF ConsoleResend, Damage, Lose, Recheck, vars, console
  <2> QED BY <2>1 DEF Channel!channel
<1> QED BY <1>4, <1>5, <1>6, <1>7 DEF Next

\* A console that repeats what is not acknowledged and this receive thread together are
\* the channel of MessageChannel, over a network that loses, repeats and reorders and
\* damages nothing. Of a network that damages it says nothing (the mapping is constant
\* there); what holds of that is DamageIsCaught and AlwaysInOrder.
THEOREM DataIsAChannel == Spec => ImplementsChannel
<1>1. Init => Channel!Init
  <2> SUFFICES ASSUME Init PROVE Channel!Init OBVIOUS
  <2>1. sent = 0 /\ unacked = {} /\ fired = <<>> BY DEF Init
  <2>2. Cardinality({}) = 0 BY FS_EmptySet
  <2>3. [i \in DOMAIN fired |-> fired[i].n] = <<>> BY <2>1
  <2> QED BY <2>1, <2>2, <2>3 DEF Channel!Init
<1> QED BY <1>1, AlwaysIInv, StepImplements, PTL DEF Spec, ImplementsChannel, Channel!Spec
=============================================================================
