-------------------------- MODULE ReorderQueueProofs --------------------------
(***************************************************************************)
(* Facts about the operations of a reorder queue, for any kind of packets  *)
(* and any numbers they are pushed under.  A queue is tidy when, slot by   *)
(* slot, the number of a packet leads to that slot and lies in the window; *)
(* every operation keeps it so, and what it says of a window follows       *)
(* because its numbers use different slots (IdxInjective).                 *)
(*                                                                         *)
(* The last part is about the module ReorderQueue: one queue keeps its     *)
(* types, what it holds stays in place, no call loses a packet or drops    *)
(* more than it has to, and the window never moves back, for every ring    *)
(* and number space.  The inductive invariant is Tidy.                     *)
(***************************************************************************)
EXTENDS ReorderQueue, Sequences, TLAPS, WellFoundedInduction

-----------------------------------------------------------------------------
(* Division and remainder.                                                 *)

\* A number is its quotient times the divisor plus its remainder.
LEMMA DivMod ==
  ASSUME NEW m \in Nat \ {0}, NEW x \in Nat
  PROVE  /\ x \div m \in Nat /\ x % m \in 0 .. m - 1
         /\ x = m * (x \div m) + (x % m)
OBVIOUS

\* And in no other way.
LEMMA DivModUnique ==
  ASSUME NEW m \in Nat \ {0}, NEW q \in Nat, NEW r \in 0 .. m - 1
  PROVE  /\ (q * m + r) \div m = q
         /\ (q * m + r) % m = r
OBVIOUS

\* The remainder of a number that is at most one turn too large.
LEMMA ModTurn ==
  ASSUME NEW m \in Nat \ {0}, NEW x \in 0 .. 2 * m - 1
  PROVE  x % m = IF x < m THEN x ELSE x - m
<1>1. CASE x < m BY <1>1
<1>2. CASE x >= m BY <1>2
<1> QED BY <1>1, <1>2

\* Numbers with the same remainder differ by a multiple of the modulus.
LEMMA SameRemainder ==
  ASSUME NEW m \in Nat \ {0}, NEW a \in Nat, NEW b \in Nat, a % m = b % m
  PROVE  \E k \in Int : b - a = k * m
<1> DEFINE qa == a \div m
           qb == b \div m
<1>1. a = m * qa + (a % m) /\ qa \in Int OBVIOUS
<1>2. b = m * qb + (b % m) /\ qb \in Int OBVIOUS
<1>3. b - a = (qb - qa) * m BY <1>1, <1>2
<1>4. qb - qa \in Int BY <1>1, <1>2
<1> HIDE DEF qa, qb
<1> QED BY <1>3, <1>4

\* A multiple of m less than m apart from zero is zero.
LEMMA SmallMultiple ==
  ASSUME NEW m \in Nat \ {0}, NEW k \in Int, k * m < m, -m < k * m
  PROVE  k = 0
<1>1. CASE k >= 1
  <2>1. k * m >= m BY <1>1
  <2> QED BY <2>1
<1>2. CASE k <= -1
  <2>1. k * m <= -m BY <1>2
  <2> QED BY <2>1
<1> QED BY <1>1, <1>2

\* Two multiples of m are at least m apart.
LEMMA MultipleStep ==
  ASSUME NEW m \in Nat, NEW a \in Nat, NEW b \in Nat, a < b
  PROVE  a * m + m <= b * m
<1>1. PICK d \in Nat : b = a + 1 + d BY b - a - 1 \in Nat
<1>2. b * m = a * m + m + d * m BY <1>1
<1>3. d * m \in Nat OBVIOUS
<1> QED BY <1>2, <1>3

-----------------------------------------------------------------------------
(* Serial numbers.                                                         *)

\* Wrapping addition stays in the number space.
LEMMA SeqAddType ==
  ASSUME NEW a \in SeqNums, NEW n \in 0 .. SeqMod
  PROVE  SeqAdd(a, n) \in SeqNums
BY SeqHalfAssumption DEF SeqAdd, SeqNums, SeqMod

\* The distance is the number of increments.
LEMMA SeqDistType ==
  ASSUME NEW a \in SeqNums, NEW b \in SeqNums
  PROVE  /\ SeqDist(a, b) \in 0 .. SeqMod - 1
         /\ SeqAdd(a, SeqDist(a, b)) = b
BY SeqHalfAssumption DEF SeqAdd, SeqDist, SeqNums, SeqMod

\* Moving the start closer shortens the distance.
LEMMA SeqDistStep ==
  ASSUME NEW a \in SeqNums, NEW b \in SeqNums, NEW n \in 0 .. SeqDist(a, b)
  PROVE  SeqDist(SeqAdd(a, n), b) = SeqDist(a, b) - n
BY SeqHalfAssumption DEF SeqAdd, SeqDist, SeqNums, SeqMod

\* The distance to a number a few increments away.
LEMMA SeqDistAdd ==
  ASSUME NEW a \in SeqNums, NEW n \in 0 .. SeqMod - 1
  PROVE  SeqDist(a, SeqAdd(a, n)) = n
BY SeqHalfAssumption DEF SeqAdd, SeqDist, SeqNums, SeqMod

\* The comparisons in terms of distances.
LEMMA SeqLtDist ==
  ASSUME NEW a \in SeqNums, NEW b \in SeqNums
  PROVE  /\ SeqLt(a, b) <=> SeqDist(a, b) \in 1 .. SeqHalf - 1
         /\ SeqGe(b, a) <=> SeqDist(a, b) \in 0 .. SeqHalf - 1
BY SeqHalfAssumption DEF SeqLt, SeqGe, SeqGt, SeqDist, SeqNums, SeqMod

\* Distances between offsets of one start.
LEMMA SeqDistOffsets ==
  ASSUME NEW b \in SeqNums, NEW i \in 0 .. SeqMod - 1, NEW j \in 0 .. SeqMod - 1
  PROVE  SeqDist(SeqAdd(b, i), SeqAdd(b, j)) = IF i <= j THEN j - i ELSE j - i + SeqMod
BY SeqHalfAssumption DEF SeqAdd, SeqDist, SeqNums, SeqMod

LEMMA SeqDistToNext ==
  ASSUME NEW b \in SeqNums, NEW i \in 0 .. SeqMod - 1, NEW d \in 0 .. SeqMod - 2
  PROVE  SeqDist(SeqAdd(b, i), SeqAdd(b, d + 1)) =
           IF i <= d + 1 THEN d + 1 - i ELSE d + 1 - i + SeqMod
BY SeqHalfAssumption DEF SeqAdd, SeqDist, SeqNums, SeqMod

\* Adding twice is adding the sum.
LEMMA SeqAddTwice ==
  ASSUME NEW b \in SeqNums, NEW i \in 0 .. SeqMod - 1, NEW j \in 0 .. SeqMod - 1,
         i + j <= SeqMod
  PROVE  SeqAdd(SeqAdd(b, i), j) = SeqAdd(b, i + j)
BY SeqHalfAssumption DEF SeqAdd, SeqNums, SeqMod

-----------------------------------------------------------------------------
(* The ring.                                                               *)

LEMMA IdxType == ASSUME NEW s \in SeqNums PROVE Idx(s) \in SlotIds
BY QSizeAssumption DEF Idx, SlotIds, SeqNums

\* The numbers of one window use different slots.
LEMMA IdxInjective ==
  ASSUME NEW b \in SeqNums, NEW i \in 0 .. QSize - 1, NEW j \in 0 .. QSize - 1,
         Idx(SeqAdd(b, i)) = Idx(SeqAdd(b, j))
  PROVE  i = j
<1> DEFINE x == SeqAdd(b, i)
           y == SeqAdd(b, j)
<1>1. PICK c \in 1 .. SeqMod : SeqMod = c * QSize BY QSizeAssumption
<1>2. x \in Nat /\ y \in Nat
  <2>1. i \in 0 .. SeqMod /\ j \in 0 .. SeqMod
    BY QSizeAssumption, SeqHalfAssumption DEF SeqMod
  <2>2. x \in SeqNums /\ y \in SeqNums BY <2>1, SeqAddType
  <2> QED BY <2>2, SeqHalfAssumption DEF SeqNums, SeqMod
<1>3. PICK k \in Int : y - x = k * QSize
  BY <1>2, SameRemainder, QSizeAssumption DEF Idx
<1>4. j - i = y - x \/ j - i = y - x + SeqMod \/ j - i = y - x - SeqMod
  BY SeqHalfAssumption, QSizeAssumption DEF SeqAdd, SeqNums, SeqMod
<1>5. PICK n \in Int : j - i = n * QSize
  <2> HIDE DEF x, y
  <2>1. CASE j - i = y - x BY <2>1, <1>3
  <2>2. CASE j - i = y - x + SeqMod
    <3>1. j - i = (k + c) * QSize BY <2>2, <1>1, <1>3, QSizeAssumption
    <3> QED BY <3>1
  <2>3. CASE j - i = y - x - SeqMod
    <3>1. j - i = (k - c) * QSize BY <2>3, <1>1, <1>3, QSizeAssumption
    <3> QED BY <3>1
  <2> QED BY <1>4, <2>1, <2>2, <2>3
<1>6. n = 0 BY <1>5, SmallMultiple, QSizeAssumption
<1> QED BY <1>5, <1>6, QSizeAssumption

\* A non-empty set of naturals has a least element, a bounded one a greatest.
LEMMA NatMin ==
  ASSUME NEW T, T \subseteq Nat, T # {}
  PROVE  \E x \in T : \A y \in T : x <= y
<1>1. PICK x \in T : \A y \in T : ~(<<y, x>> \in OpToRel(<, Nat))
  <2> HIDE DEF OpToRel
  <2> QED BY NatLessThanWellFounded, WFMin
<1>2. \A y \in T : ~(y < x) BY <1>1 DEF OpToRel
<1> QED BY <1>2

LEMMA BoundedMax ==
  ASSUME NEW c \in Nat, NEW T, T \subseteq 0 .. c, T # {}
  PROVE  \E x \in T : \A y \in T : y <= x
<1> DEFINE U == {c - y : y \in T}
<1>1. U \subseteq Nat /\ U # {}
  <2>1. \A y \in T : c - y \in Nat OBVIOUS
  <2> QED BY <2>1
<1> HIDE DEF U
<1>2. PICK u \in U : \A v \in U : u <= v BY <1>1, NatMin
<1>3. PICK x \in T : u = c - x BY DEF U
<1>4. ASSUME NEW y \in T PROVE y <= x
  <2>1. c - y \in U BY DEF U
  <2> QED BY <2>1, <1>2, <1>3
<1> QED BY <1>4

-----------------------------------------------------------------------------
(* The invariant of a queue value.                                         *)

\* num gives the number under which each packet is pushed.
Numbers(num) == num \in [DOMAIN num -> SeqNums] /\ NoUser \notin DOMAIN num

Queues(num) == [begin : SeqNums, count : 0 .. QSize,
                slots : [SlotIds -> [set : BOOLEAN, user : DOMAIN num \cup {NoUser}]]]

\* Every user is flagged, lies in the slot of its number and in the window.
TidySlot(w, k, num) ==
  LET p == w.slots[k].user
  IN p # NoUser => /\ w.slots[k].set
                   /\ Idx(num[p]) = k
                   /\ SeqDist(w.begin, num[p]) < w.count

Tidy(w, num) == w \in Queues(num) /\ \A k \in SlotIds : TidySlot(w, k, num)

\* A queue without packets is tidy wherever it begins.
LEMMA TidyNew ==
  ASSUME NEW num, Numbers(num), NEW s \in SeqNums
  PROVE  Tidy(NewQueue(s), num)
<1>1. 0 \in 0 .. QSize BY QSizeAssumption
<1> QED BY <1>1 DEF Tidy, TidySlot, Queues, NewQueue, EmptySlot

\* The slot at an offset and the packet in it.
LEMMA SlotAtType ==
  ASSUME NEW num, Numbers(num),
         NEW w \in Queues(num), NEW i \in 0 .. QSize
  PROVE  /\ At(w, i) \in SeqNums
         /\ Idx(At(w, i)) \in SlotIds
         /\ SlotAt(w, i) \in [set : BOOLEAN, user : DOMAIN num \cup {NoUser}]
<1>1. i \in 0 .. SeqMod BY QSizeAssumption, SeqHalfAssumption DEF SeqMod
<1>2. At(w, i) \in SeqNums BY <1>1, SeqAddType DEF At, Queues
<1> QED BY <1>2, IdxType DEF SlotAt, Queues

\* Storing a packet inside the window, in the slot of its number.
LEMMA TidyPut ==
  ASSUME NEW num, Numbers(num),
         NEW w, Tidy(w, num), NEW p \in DOMAIN num, SeqDist(w.begin, num[p]) < w.count
  PROVE  Tidy(PutAt(w, num[p], p), num)
<1>1. num[p] \in SeqNums BY DEF Numbers
<1>2. Idx(num[p]) \in SlotIds BY <1>1, IdxType
<1> DEFINE r == PutAt(w, num[p], p)
<1>3. /\ r \in Queues(num) /\ r.begin = w.begin /\ r.count = w.count
      /\ r.slots[Idx(num[p])] = [set |-> TRUE, user |-> p]
      /\ \A k \in SlotIds : k # Idx(num[p]) => r.slots[k] = w.slots[k]
  BY <1>2 DEF PutAt, Tidy, Queues
<1> HIDE DEF r
<1>4. ASSUME NEW k \in SlotIds PROVE TidySlot(r, k, num)
  <2>1. CASE k = Idx(num[p]) BY <2>1, <1>3 DEF TidySlot
  <2>2. CASE k # Idx(num[p]) BY <2>2, <1>3 DEF TidySlot, Tidy
  <2> QED BY <2>1, <2>2
<1> QED BY <1>3, <1>4 DEF Tidy, r

\* Taking the first n slots out of the window.
LEMMA TidyDropFirst ==
  ASSUME NEW num, Numbers(num),
         NEW w, Tidy(w, num), NEW n \in 0 .. w.count
  PROVE  Tidy(DropFirst(w, n), num)
<1> DEFINE r == DropFirst(w, n)
<1>1. w \in Queues(num) /\ n \in 0 .. QSize BY QSizeAssumption DEF Tidy, Queues
<1>2. At(w, n) \in SeqNums BY <1>1, SlotAtType
<1>3. /\ r \in Queues(num) /\ r.begin = At(w, n) /\ r.count = w.count - n
      /\ \A k \in SlotIds :
           r.slots[k] = IF \E j \in 0 .. n - 1 : k = Idx(At(w, j))
                        THEN EmptySlot ELSE w.slots[k]
  <2>1. w.count - n \in 0 .. QSize BY <1>1, QSizeAssumption DEF Queues
  <2> QED BY <2>1, <1>1, <1>2 DEF DropFirst, Queues, EmptySlot
<1> HIDE DEF r
<1>4. ASSUME NEW k \in SlotIds, r.slots[k].user # NoUser PROVE TidySlot(r, k, num)
  <2> DEFINE p == w.slots[k].user
             d == SeqDist(w.begin, num[p])
  <2>1. r.slots[k] = w.slots[k] /\ ~\E j \in 0 .. n - 1 : k = Idx(At(w, j))
    BY <1>3, <1>4 DEF EmptySlot
  <2>2. p \in DOMAIN num /\ num[p] \in SeqNums BY <2>1, <1>1, <1>4 DEF Queues, Numbers
  <2>3. w.slots[k].set /\ Idx(num[p]) = k /\ d < w.count
    BY <2>1, <1>4 DEF Tidy, TidySlot
  <2>4. d \in Nat /\ At(w, d) = num[p]
    BY <2>2, <1>1, SeqDistType DEF At, Queues
  <2>5. d >= n BY <2>4, <2>3, <2>1, <1>1
  <2>6. SeqDist(At(w, n), num[p]) = d - n
    BY <2>5, <2>4, <2>2, <1>1, SeqDistStep DEF At, Queues
  <2>7. d - n < w.count - n BY <2>3, <2>4, <1>1 DEF Queues
  <2> QED BY <2>1, <2>3, <2>6, <2>7, <1>3 DEF TidySlot
<1> QED BY <1>3, <1>4 DEF Tidy, TidySlot, r

\* The begin of a window without slots may be set to anything.
LEMMA TidyShift ==
  ASSUME NEW num, Numbers(num),
         NEW w, Tidy(w, num), w.count = 0, NEW s \in SeqNums
  PROVE  Tidy([w EXCEPT !.begin = s], num)
<1>1. ASSUME NEW k \in SlotIds PROVE w.slots[k].user = NoUser
  <2> SUFFICES ASSUME w.slots[k].user # NoUser PROVE FALSE OBVIOUS
  <2>1. w.slots[k].user \in DOMAIN num BY DEF Tidy, Queues
  <2>2. SeqDist(w.begin, num[w.slots[k].user]) \in 0 .. SeqMod - 1
    BY <2>1, SeqDistType DEF Numbers, Tidy, Queues
  <2>3. SeqDist(w.begin, num[w.slots[k].user]) < 0 BY DEF Tidy, TidySlot
  <2> QED BY <2>2, <2>3
<1> QED BY <1>1 DEF Tidy, TidySlot, Queues

\* Taking further slots into the window.
LEMMA TidyExtend ==
  ASSUME NEW num, Numbers(num),
         NEW w, Tidy(w, num), NEW e \in SeqNums, SeqLt(End(w), e),
         w.count + SeqDist(End(w), e) <= QSize
  PROVE  /\ Tidy(ExtendTo(w, e), num)
         /\ ExtendTo(w, e).begin = w.begin
         /\ ExtendTo(w, e).count = w.count + SeqDist(End(w), e)
<1> DEFINE n == IF SeqLt(End(w), e) THEN SeqDist(End(w), e) ELSE 0
           r == ExtendTo(w, e)
<1>0. n = SeqDist(End(w), e) OBVIOUS
<1>1. w \in Queues(num) /\ w.count \in 0 .. QSize BY DEF Tidy, Queues
<1>2. End(w) \in SeqNums BY <1>1, SlotAtType DEF End
<1>3. n \in Nat BY <1>0, <1>2, SeqDistType
<1>4. /\ r \in Queues(num) /\ r.begin = w.begin /\ r.count = w.count + n
      /\ \A k \in SlotIds : r.slots[k] = EmptySlot \/ r.slots[k] = w.slots[k]
  <2>1. w.count + n \in 0 .. QSize BY <1>0, <1>1, <1>3, QSizeAssumption
  <2>2. r = [w EXCEPT !.count = w.count + n,
               !.slots = [i \in SlotIds |->
                            IF \E j \in w.count .. w.count + n - 1 : i = Idx(At(w, j))
                            THEN EmptySlot ELSE w.slots[i]]]
    BY DEF ExtendTo
  <2> HIDE DEF r, n
  <2> QED BY <2>1, <2>2, <1>1 DEF Queues, EmptySlot
<1> HIDE DEF r
<1>5. ASSUME NEW k \in SlotIds, r.slots[k].user # NoUser PROVE TidySlot(r, k, num)
  <2>1. r.slots[k] = w.slots[k] BY <1>4, <1>5 DEF EmptySlot
  <2>2. w.slots[k].user \in DOMAIN num BY <2>1, <1>1, <1>5 DEF Queues
  <2>3. SeqDist(w.begin, num[w.slots[k].user]) \in Nat
    BY <2>2, <1>1, SeqDistType DEF Numbers, Queues
  <2> HIDE DEF n
  <2> QED BY <2>1, <2>3, <1>1, <1>3, <1>4, <1>5 DEF Tidy, TidySlot
<1> QED BY <1>0, <1>4, <1>5 DEF Tidy, TidySlot, r

-----------------------------------------------------------------------------
(* push                                                                    *)

\* How far the overhang and the window's end are from the start, for a number
\* d increments behind it.
LEMMA BeyondOffsets ==
  ASSUME NEW num, Numbers(num),
         NEW w \in Queues(num), NEW s \in SeqNums,
         ~SeqLt(s, w.begin), SeqGe(s, End(w))
  PROVE  LET d == SeqDist(w.begin, s)
         IN /\ d \in w.count .. SeqHalf
            /\ SeqAdd(s, 1) = At(w, d + 1)
            /\ Overhang(w, SeqAdd(s, 1)) = IF d >= QSize THEN d + 1 - QSize ELSE 0
<1> DEFINE d == SeqDist(w.begin, s)
<1>1. /\ w.begin \in SeqNums /\ w.count \in 0 .. QSize
      /\ QSize \in Nat /\ QSize > 1 /\ QSize < SeqHalf /\ SeqHalf \in Nat
      /\ SeqMod = 2 * SeqHalf
  BY QSizeAssumption, SeqHalfAssumption DEF Queues, SeqMod
<1>2. d \in 0 .. SeqMod - 1 /\ SeqAdd(w.begin, d) = s BY <1>1, SeqDistType
<1>3. End(w) \in SeqNums /\ End(w) = SeqAdd(w.begin, w.count)
  BY <1>1, SlotAtType DEF End, At
<1>4. d <= SeqHalf
  <2>1. SeqDist(s, w.begin) \notin 1 .. SeqHalf - 1 BY <1>1, SeqLtDist
  <2>2. SeqAdd(w.begin, 0) = w.begin BY <1>1 DEF SeqAdd, SeqNums
  <2>3. SeqDist(s, w.begin) = IF d <= 0 THEN 0 - d ELSE 0 - d + SeqMod
    <3> HIDE DEF d
    <3>1. 0 \in 0 .. SeqMod - 1 BY <1>1
    <3> QED BY <3>1, <1>1, <1>2, <2>2, SeqDistOffsets
  <2> HIDE DEF d
  <2> QED BY <2>1, <2>3, <1>1, <1>2
<1>5. w.count <= d
  <2>1. SeqDist(End(w), s) \in 0 .. SeqHalf - 1 BY <1>3, SeqLtDist
  <2>2. SeqDist(End(w), s) = IF w.count <= d THEN d - w.count ELSE d - w.count + SeqMod
    <3> HIDE DEF d
    <3>1. w.count \in 0 .. SeqMod - 1 BY <1>1
    <3> QED BY <3>1, <1>1, <1>2, <1>3, SeqDistOffsets
  <2> HIDE DEF d
  <2> QED BY <2>1, <2>2, <1>1, <1>2
<1>6. SeqAdd(s, 1) = At(w, d + 1)
  <2> HIDE DEF d
  <2>1. 1 \in 0 .. SeqMod - 1 /\ d + 1 <= SeqMod BY <1>1, <1>2
  <2> QED BY <2>1, <1>1, <1>2, SeqAddTwice DEF At
<1>7. Overhang(w, SeqAdd(s, 1)) = IF d >= QSize THEN d + 1 - QSize ELSE 0
  <2> DEFINE t == SeqAdd(End(w), QSize - w.count)
             e == SeqAdd(s, 1)
  <2>1. t = SeqAdd(w.begin, QSize)
    <3>1. /\ QSize - w.count \in 0 .. SeqMod - 1 /\ w.count \in 0 .. SeqMod - 1
          /\ w.count + (QSize - w.count) = QSize /\ QSize <= SeqMod
      BY <1>1
    <3> QED BY <3>1, <1>1, <1>3, SeqAddTwice
  <2>2. t \in SeqNums /\ e \in SeqNums
    <3>1. QSize \in 0 .. SeqMod /\ 1 \in 0 .. SeqMod BY <1>1
    <3> QED BY <3>1, <2>1, <1>1, SeqAddType
  <2> HIDE DEF d
  <2>3. SeqDist(t, e) = IF QSize <= d + 1 THEN d + 1 - QSize ELSE d + 1 - QSize + SeqMod
    <3>1. QSize \in 0 .. SeqMod - 1 /\ d \in 0 .. SeqMod - 2 BY <1>1, <1>2, <1>4
    <3>2. e = SeqAdd(w.begin, d + 1) BY <1>6 DEF At
    <3>3. SeqDist(SeqAdd(w.begin, QSize), SeqAdd(w.begin, d + 1))
            = IF QSize <= d + 1 THEN d + 1 - QSize ELSE d + 1 - QSize + SeqMod
      BY <3>1, <1>1, SeqDistToNext
    <3> HIDE DEF t, e
    <3> QED BY <3>2, <3>3, <2>1
  <2>4. Overhang(w, e) = IF SeqLt(t, e) THEN SeqDist(t, e) ELSE 0 BY DEF Overhang
  <2>5. SeqLt(t, e) <=> SeqDist(t, e) \in 1 .. SeqHalf - 1 BY <2>2, SeqLtDist
  <2> HIDE DEF t, e
  <2> QED BY <2>3, <2>4, <2>5, <1>1, <1>2, <1>4 DEF e
<1> HIDE DEF d
<1> QED BY <1>2, <1>4, <1>5, <1>6, <1>7, <1>1 DEF d

\* The window takes the new number as its last: the end meets newEnd and the
\* count stays within the ring.
LEMMA TidyAppend ==
  ASSUME NEW num, Numbers(num),
         NEW w, Tidy(w, num), NEW p \in DOMAIN num, NEW d \in w.count .. QSize - 1,
         SeqAdd(w.begin, d) = num[p]
  PROVE  Tidy(PutAt(ExtendTo(w, SeqAdd(num[p], 1)), num[p], p), num)
<1> DEFINE e == SeqAdd(num[p], 1)
<1>1. /\ w \in Queues(num) /\ w.begin \in SeqNums /\ w.count \in 0 .. QSize
      /\ QSize \in Nat /\ QSize > 1 /\ QSize < SeqHalf /\ SeqHalf \in Nat
      /\ SeqMod = 2 * SeqHalf /\ d \in Nat /\ num[p] \in SeqNums
  BY QSizeAssumption, SeqHalfAssumption DEF Tidy, Queues, SeqMod, Numbers
<1>2. e \in SeqNums /\ e = SeqAdd(w.begin, d + 1)
  <2>1. 1 \in 0 .. SeqMod - 1 /\ d \in 0 .. SeqMod - 1 /\ d + 1 <= SeqMod BY <1>1
  <2> QED BY <2>1, <1>1, SeqAddTwice, SeqAddType
<1>3. End(w) \in SeqNums /\ End(w) = SeqAdd(w.begin, w.count)
  BY <1>1, SlotAtType DEF End, At
<1>4. SeqDist(End(w), e) = d + 1 - w.count
  <2>1. w.count \in 0 .. SeqMod - 1 /\ d \in 0 .. SeqMod - 2 BY <1>1
  <2>2. SeqDist(End(w), e) = IF w.count <= d + 1 THEN d + 1 - w.count
                                                 ELSE d + 1 - w.count + SeqMod
    <3>1. SeqDist(SeqAdd(w.begin, w.count), SeqAdd(w.begin, d + 1))
            = IF w.count <= d + 1 THEN d + 1 - w.count ELSE d + 1 - w.count + SeqMod
      BY <2>1, <1>1, SeqDistToNext
    <3> HIDE DEF e
    <3> QED BY <3>1, <1>2, <1>3
  <2> QED BY <2>2, <1>1
<1>5. SeqLt(End(w), e)
  <2>1. d + 1 - w.count \in 1 .. SeqHalf - 1 BY <1>1
  <2> QED BY <2>1, <1>2, <1>3, <1>4, SeqLtDist
<1>6. /\ Tidy(ExtendTo(w, e), num) /\ ExtendTo(w, e).begin = w.begin
      /\ ExtendTo(w, e).count = d + 1
  <2>1. w.count + (d + 1 - w.count) = d + 1 /\ d + 1 <= QSize BY <1>1
  <2> QED BY <2>1, <1>2, <1>4, <1>5, TidyExtend
<1>7. SeqDist(w.begin, num[p]) = d
  <2>1. d \in 0 .. SeqMod - 1 BY <1>1
  <2> QED BY <2>1, <1>1, SeqDistAdd
<1> HIDE DEF e
<1>8. SeqDist(ExtendTo(w, e).begin, num[p]) < ExtendTo(w, e).count BY <1>6, <1>7, <1>1
<1>9. Tidy(PutAt(ExtendTo(w, e), num[p], p), num) BY <1>6, <1>8, TidyPut
<1> QED BY <1>9 DEF e

\* push behind the window: heads give way, an emptied window moves to the
\* number, and the window is extended to it.
LEMMA TidyPushBeyond ==
  ASSUME NEW num, Numbers(num),
         NEW w, Tidy(w, num), NEW p \in DOMAIN num, NEW kind,
         ~SeqLt(num[p], w.begin), SeqGe(num[p], End(w))
  PROVE  Tidy(PushBeyond(w, num[p], p, kind).queue, num)
<1> DEFINE s    == num[p]
           e    == SeqAdd(s, 1)
           d    == SeqDist(w.begin, s)
           over == Overhang(w, e)
           n    == IF over < w.count THEN over ELSE w.count
           gone == DropFirst(w, n)
           room == IF over > 0 /\ gone.count = 0 THEN [gone EXCEPT !.begin = s] ELSE gone
<1>1. /\ w \in Queues(num) /\ w.begin \in SeqNums /\ w.count \in 0 .. QSize
      /\ QSize \in Nat /\ QSize > 1 /\ QSize < SeqHalf /\ SeqHalf \in Nat
      /\ SeqMod = 2 * SeqHalf /\ s \in SeqNums
  BY QSizeAssumption, SeqHalfAssumption DEF Tidy, Queues, SeqMod, Numbers
<1>2. d \in w.count .. SeqHalf /\ over = IF d >= QSize THEN d + 1 - QSize ELSE 0
  BY <1>1, BeyondOffsets
<1>3. SeqAdd(w.begin, d) = s BY <1>1, SeqDistType
<1>4. PushBeyond(w, s, p, kind).queue =
        IF over > 0 /\ kind = "End" THEN w ELSE PutAt(ExtendTo(room, e), s, p)
  BY DEF PushBeyond, Result
<1> HIDE DEF d, over
<1>5. n \in 0 .. w.count BY <1>1, <1>2
<1>6. Tidy(gone, num) /\ gone.begin = At(w, n) /\ gone.count = w.count - n
  BY <1>5, TidyDropFirst DEF DropFirst
<1>7. Tidy(PutAt(ExtendTo(room, e), s, p), num)
  <2>1. CASE over > 0 /\ gone.count = 0
    <3>1. room = [gone EXCEPT !.begin = s] BY <2>1
    <3>2. Tidy(room, num) BY <2>1, <3>1, <1>1, <1>6, TidyShift
    <3>3. room.begin = s /\ room.count = 0
      BY <3>1, <2>1, <1>6 DEF Tidy, Queues
    <3>4. SeqAdd(s, 0) = s /\ 0 \in 0 .. QSize - 1 BY <1>1 DEF SeqAdd, SeqNums
    <3> HIDE DEF room
    <3> QED BY <3>2, <3>3, <3>4, TidyAppend
  <2>2. CASE ~(over > 0 /\ gone.count = 0)
    <3>1. room = gone BY <2>2
    <3>2. n = over /\ over <= w.count /\ d - over \in w.count - over .. QSize - 1
      BY <2>2, <1>1, <1>2, <1>6
    <3>4. gone.count = w.count - over BY <3>2, <1>6
    <3> HIDE DEF room, gone, n
    <3>3. SeqAdd(At(w, n), d - over) = s
      <4>1. n \in Int /\ d \in Int /\ 0 <= n /\ n <= w.count /\ w.count <= d /\ d <= SeqHalf
        BY <3>2, <1>1, <1>2
      <4>2. /\ n \in 0 .. SeqMod - 1 /\ d - over \in 0 .. SeqMod - 1
            /\ n + (d - over) = d /\ d <= SeqMod
        BY <3>2, <4>1, <1>1
      <4> QED BY <4>2, <1>1, <1>3, SeqAddTwice DEF At
    <3> QED BY <3>1, <3>2, <3>3, <3>4, <1>6, TidyAppend
  <2> QED BY <2>1, <2>2
<1> HIDE DEF room, e
<1> QED BY <1>4, <1>7

\* A number the comparisons put into the window lies at one of its offsets.
LEMMA InWindowOffset ==
  ASSUME NEW num, Numbers(num),
         NEW w \in Queues(num), NEW s \in SeqNums, InWindow(w, s)
  PROVE  SeqDist(w.begin, s) < w.count
<1> DEFINE d == SeqDist(w.begin, s)
<1>1. /\ w.begin \in SeqNums /\ w.count \in 0 .. QSize
      /\ QSize \in Nat /\ QSize < SeqHalf /\ SeqHalf \in Nat /\ SeqMod = 2 * SeqHalf
  BY QSizeAssumption, SeqHalfAssumption DEF Queues, SeqMod
<1>2. SeqAdd(w.begin, d) = s BY <1>1, SeqDistType
<1>3. End(w) \in SeqNums /\ End(w) = SeqAdd(w.begin, w.count)
  BY <1>1, SlotAtType DEF End, At
<1>4. d \in 0 .. SeqHalf - 1 BY <1>1, SeqLtDist DEF InWindow
<1>5. SeqDist(s, End(w)) \in 1 .. SeqHalf - 1 BY <1>3, SeqLtDist DEF InWindow
<1> HIDE DEF d
<1>6. SeqDist(s, End(w)) = IF d <= w.count THEN w.count - d ELSE w.count - d + SeqMod
  <2>1. d \in 0 .. SeqMod - 1 /\ w.count \in 0 .. SeqMod - 1 BY <1>1, <1>4
  <2> QED BY <2>1, <1>1, <1>2, <1>3, SeqDistOffsets
<1> QED BY <1>1, <1>4, <1>5, <1>6 DEF d

LEMMA TidyPush ==
  ASSUME NEW num, Numbers(num),
         NEW w, Tidy(w, num), NEW p \in DOMAIN num, NEW kind
  PROVE  Tidy(Push(w, num[p], p, kind).queue, num)
<1> DEFINE s == num[p]
           r == Push(w, s, p, kind).queue
<1>1. w \in Queues(num) /\ w.begin \in SeqNums /\ s \in SeqNums
  BY DEF Tidy, Queues, Numbers
<1>2. CASE InWindow(w, s)
  <2>1. Tidy(PutAt(w, s, p), num) BY <1>1, <1>2, InWindowOffset, TidyPut
  <2>2. r = w \/ r = PutAt(w, s, p) BY <1>2 DEF Push, Result
  <2> QED BY <2>1, <2>2
<1>3. CASE ~InWindow(w, s) /\ SeqLt(s, w.begin)
  BY <1>3 DEF Push, Result
<1>4. CASE ~InWindow(w, s) /\ ~SeqLt(s, w.begin) /\ SeqGe(s, End(w))
  BY <1>4, TidyPushBeyond DEF Push
<1>5. CASE ~InWindow(w, s) /\ ~SeqLt(s, w.begin) /\ ~SeqGe(s, End(w))
  <2> DEFINE v == [w EXCEPT !.begin = s]
  <2>1. CASE w.count = 0 /\ kind = "Begin"
    <3>1. Tidy(v, num) BY <2>1, <1>1, TidyShift
    <3>2. v.begin = s /\ v.count = 0 BY <2>1, <1>1 DEF Queues
    <3>3. End(v) = s
      BY <3>2, <1>1, SeqHalfAssumption DEF End, At, SeqAdd, SeqNums, SeqMod
    <3>4. ~SeqLt(s, v.begin) /\ SeqGe(s, End(v))
      BY <3>2, <3>3, <1>1, SeqHalfAssumption DEF SeqLt, SeqGe, SeqNums, SeqMod
    <3>5. r = PushBeyond(v, s, p, kind).queue BY <1>5, <2>1 DEF Push
    <3> HIDE DEF v, r
    <3>6. Tidy(PushBeyond(v, num[p], p, kind).queue, num)
      BY <3>1, <3>4, TidyPushBeyond
    <3> QED BY <3>5, <3>6 DEF r
  <2>2. CASE ~(w.count = 0 /\ kind = "Begin")
    BY <2>2, <1>5 DEF Push, Result
  <2> QED BY <2>1, <2>2
<1> QED BY <1>2, <1>3, <1>4, <1>5

-----------------------------------------------------------------------------
(* drop_at and skip_head                                                   *)

\* A packet of the window and its offset.
LEMMA TidyOffset ==
  ASSUME NEW num, Numbers(num),
         NEW w, Tidy(w, num), NEW k \in SlotIds, w.slots[k].user # NoUser
  PROVE  LET d == SeqDist(w.begin, num[w.slots[k].user])
         IN /\ d \in 0 .. w.count - 1
            /\ Idx(At(w, d)) = k
            /\ w.slots[k].set
            /\ num[w.slots[k].user] = At(w, d)
<1>1. num[w.slots[k].user] \in SeqNums /\ w.begin \in SeqNums /\ w.count \in Nat
  BY QSizeAssumption DEF Tidy, Queues, Numbers
<1>2. SeqDist(w.begin, num[w.slots[k].user]) \in Nat
      /\ At(w, SeqDist(w.begin, num[w.slots[k].user])) = num[w.slots[k].user]
  BY <1>1, SeqDistType DEF At
<1> QED BY <1>1, <1>2 DEF Tidy, TidySlot

LEMMA TidyDropAt ==
  ASSUME NEW num, Numbers(num),
         NEW w, Tidy(w, num), NEW i \in Offsets(w)
  PROVE  Tidy(DropAt(w, i).queue, num)
<1> DEFINE taken == [w EXCEPT !.slots[Idx(At(w, i))].user = NoUser]
           left  == {n \in 1 .. w.count - 1 : SlotAt(w, n - 1).set}
           last  == IF left = {} THEN 0 ELSE CHOOSE n \in left : \A m \in left : m <= n
           r     == DropAt(w, i).queue
<1>1. w \in Queues(num) /\ w.count \in 0 .. QSize /\ QSize \in Nat /\ i \in 0 .. QSize
  BY QSizeAssumption DEF Tidy, Queues, Offsets
<1>2. Idx(At(w, i)) \in SlotIds BY <1>1, SlotAtType
<1>3. /\ taken \in Queues(num) /\ taken.begin = w.begin /\ taken.count = w.count
      /\ taken.slots[Idx(At(w, i))].user = NoUser
      /\ \A k \in SlotIds : k # Idx(At(w, i)) => taken.slots[k] = w.slots[k]
  BY <1>1, <1>2 DEF Queues
<1>4. last \in 0 .. QSize /\ \A m \in left : m <= last
  <2>1. CASE left = {} BY <2>1, <1>1
  <2>2. CASE left # {}
    <3>1. left \subseteq 0 .. QSize BY <1>1
    <3> HIDE DEF left
    <3>2. \E x \in left : \A y \in left : y <= x BY <2>2, <3>1, <1>1, BoundedMax
    <3> QED BY <3>1, <3>2, <2>2
  <2> QED BY <2>1, <2>2
<1>5. r = w \/ r = taken \/ (r = [taken EXCEPT !.count = last] /\ i = w.count - 1)
  <2>1. DropAt(w, i) = IF i >= w.count \/ ~SlotAt(w, i).set
                       THEN Result(w, {})
                       ELSE Result(IF i = w.count - 1 THEN [taken EXCEPT !.count = last]
                                                      ELSE taken,
                                   {SlotAt(w, i).user} \ {NoUser})
    BY DEF DropAt
  <2> HIDE DEF taken, last
  <2> QED BY <2>1 DEF Result
<1> HIDE DEF taken, last, r
<1>6. ASSUME NEW k \in SlotIds, taken.slots[k].user # NoUser
      PROVE  /\ taken.slots[k] = w.slots[k] /\ w.slots[k].user # NoUser
             /\ k # Idx(At(w, i))
  BY <1>3, <1>6
<1>7. CASE r = w BY <1>7 DEF r
<1>8. CASE r = taken
  <2>1. ASSUME NEW k \in SlotIds, taken.slots[k].user # NoUser PROVE TidySlot(taken, k, num)
    BY <2>1, <1>3, <1>6 DEF Tidy, TidySlot
  <2>2. Tidy(taken, num) BY <2>1, <1>3 DEF Tidy, TidySlot
  <2> QED BY <2>2, <1>8 DEF r
<1>9. CASE r = [taken EXCEPT !.count = last] /\ i = w.count - 1
  <2>1. r \in Queues(num) /\ r.begin = w.begin /\ r.count = last /\ r.slots = taken.slots
    BY <1>9, <1>3, <1>4 DEF Queues
  <2>2. ASSUME NEW k \in SlotIds, r.slots[k].user # NoUser PROVE TidySlot(r, k, num)
    <3> DEFINE d == SeqDist(w.begin, num[w.slots[k].user])
    <3>1. /\ r.slots[k] = w.slots[k] /\ w.slots[k].user # NoUser
          /\ k # Idx(At(w, i))
      BY <2>1, <2>2, <1>6
    <3>2. d \in 0 .. w.count - 1 /\ Idx(At(w, d)) = k /\ w.slots[k].set
      BY <3>1, TidyOffset
    <3> HIDE DEF d
    <3>3. d # w.count - 1 BY <3>1, <3>2, <1>9
    <3>4. d + 1 \in 1 .. w.count - 1 /\ (d + 1) - 1 = d BY <3>2, <3>3, <1>1
    <3>5. SlotAt(w, (d + 1) - 1).set BY <3>2, <3>4 DEF SlotAt
    <3>6. d + 1 \in left BY <3>4, <3>5
    <3>7. d < last BY <3>6, <3>2, <1>1, <1>4
    <3>8. Idx(num[w.slots[k].user]) = k BY <3>1 DEF Tidy, TidySlot
    <3> QED BY <3>1, <3>2, <3>7, <3>8, <2>1 DEF TidySlot, d
  <2>3. Tidy(r, num) BY <2>1, <2>2 DEF Tidy, TidySlot
  <2> QED BY <2>3 DEF r
<1> QED BY <1>5, <1>7, <1>8, <1>9

LEMMA TidySkip ==
  ASSUME NEW num, Numbers(num),
         NEW w, Tidy(w, num), NEW n \in Offsets(w), \A i \in 0 .. n - 1 : Peek(w, i) = NoUser
  PROVE  Tidy(SkipHead(w, n), num)
<1> DEFINE r == SkipHead(w, n)
<1>1. w \in Queues(num) /\ w.count \in 0 .. QSize /\ QSize \in Nat /\ n \in 0 .. QSize
  BY QSizeAssumption DEF Tidy, Queues, Offsets
<1>2. At(w, n) \in SeqNums BY <1>1, SlotAtType
<1>3. /\ r \in Queues(num) /\ r.begin = At(w, n) /\ r.count = w.count - n
      /\ r.slots = w.slots
  <2>1. w.count - n \in 0 .. QSize BY <1>1 DEF Offsets
  <2> QED BY <2>1, <1>1, <1>2 DEF SkipHead, Queues
<1> HIDE DEF r
<1>4. ASSUME NEW k \in SlotIds, w.slots[k].user # NoUser PROVE TidySlot(r, k, num)
  <2> DEFINE d == SeqDist(w.begin, num[w.slots[k].user])
  <2>1. /\ d \in 0 .. w.count - 1 /\ Idx(At(w, d)) = k /\ w.slots[k].set
        /\ num[w.slots[k].user] \in SeqNums
    BY <1>4, <1>1, TidyOffset DEF Tidy, Queues, Numbers
  <2>2. d >= n
    <3> SUFFICES ASSUME d < n PROVE FALSE BY <2>1, <1>1
    <3> HIDE DEF d
    <3>1. d \in 0 .. n - 1 /\ d < w.count BY <2>1, <1>1
    <3>2. Peek(w, d) = w.slots[k].user BY <3>1, <2>1 DEF Peek, SlotAt
    <3> QED BY <3>1, <3>2, <1>4
  <2>3. SeqDist(At(w, n), num[w.slots[k].user]) = d - n
    <3>1. n \in 0 .. d BY <2>2, <1>1
    <3> QED BY <3>1, <2>1, <1>1, SeqDistStep DEF At, Queues
  <2>4. Idx(num[w.slots[k].user]) = k BY <1>4 DEF Tidy, TidySlot
  <2> HIDE DEF d
  <2>5. d - n < w.count - n BY <2>1, <1>1
  <2> QED BY <2>1, <2>3, <2>4, <2>5, <1>3 DEF TidySlot, d
<1> QED BY <1>3, <1>4 DEF Tidy, TidySlot, r

-----------------------------------------------------------------------------
(* What a queue holds                                                      *)

\* The packets in the ring, slot by slot.
Users(w) == {w.slots[k].user : k \in SlotIds} \ {NoUser}

\* The packet at an offset has the number of that offset.
LEMMA WindowNumbers ==
  ASSUME NEW num, Numbers(num),
         NEW w, Tidy(w, num), NEW i \in Offsets(w), SlotAt(w, i).user # NoUser
  PROVE  num[SlotAt(w, i).user] = At(w, i)
<1> DEFINE k == Idx(At(w, i))
           d == SeqDist(w.begin, num[w.slots[k].user])
<1>1. /\ w \in Queues(num) /\ w.begin \in SeqNums
      /\ w.count \in 0 .. QSize /\ QSize \in Nat /\ i \in 0 .. QSize
  BY QSizeAssumption DEF Tidy, Queues, Offsets
<1>2. k \in SlotIds /\ w.slots[k].user # NoUser BY <1>1, SlotAtType DEF SlotAt
<1>3. d \in 0 .. w.count - 1 /\ Idx(At(w, d)) = k /\ num[w.slots[k].user] = At(w, d)
  BY <1>1, <1>2, TidyOffset
<1> HIDE DEF d
<1>4. d \in 0 .. QSize - 1 /\ i \in 0 .. QSize - 1 BY <1>1, <1>3 DEF Offsets
<1>5. d = i BY <1>1, <1>3, <1>4, IdxInjective DEF At
<1> QED BY <1>3, <1>5 DEF SlotAt

\* In a tidy queue no packet is outside the window.
LEMMA HeldIsUsers ==
  ASSUME NEW num, Numbers(num),
         NEW w, Tidy(w, num)
  PROVE  Held(w) = Users(w)
<1>1. w \in Queues(num) /\ w.count \in 0 .. QSize /\ QSize \in Nat
  BY QSizeAssumption DEF Tidy, Queues
<1>2. ASSUME NEW p \in Held(w) PROVE p \in Users(w)
  <2>1. PICK i \in Offsets(w) : p = SlotAt(w, i).user /\ p # NoUser BY <1>2 DEF Held
  <2>2. i \in 0 .. QSize BY <1>1 DEF Offsets
  <2>3. Idx(At(w, i)) \in SlotIds BY <1>1, <2>2, SlotAtType
  <2> QED BY <2>1, <2>3 DEF Users, SlotAt
<1>3. ASSUME NEW p \in Users(w) PROVE p \in Held(w)
  <2>1. PICK k \in SlotIds : p = w.slots[k].user /\ p # NoUser BY <1>3 DEF Users
  <2>2. PICK d \in 0 .. w.count - 1 : Idx(At(w, d)) = k BY <2>1, TidyOffset
  <2> QED BY <2>1, <2>2 DEF Held, SlotAt, Offsets
<1> QED BY <1>2, <1>3

\* Taking the first n slots out of the window takes out just what they hold.
LEMMA DropFirstHolds ==
  ASSUME NEW num, Numbers(num),
         NEW w, Tidy(w, num), NEW n \in 0 .. w.count
  PROVE  Held(DropFirst(w, n)) \cup ({SlotAt(w, i).user : i \in 0 .. n - 1} \ {NoUser}) = Held(w)
<1> DEFINE r == DropFirst(w, n)
           D == {SlotAt(w, i).user : i \in 0 .. n - 1} \ {NoUser}
<1>1. w \in Queues(num) /\ w.count \in 0 .. QSize /\ QSize \in Nat /\ n \in 0 .. QSize
  BY QSizeAssumption DEF Tidy, Queues
<1>2. Tidy(r, num) BY TidyDropFirst
<1>3. Held(r) = Users(r) /\ Held(w) = Users(w) BY <1>2, HeldIsUsers
<1>4. \A k \in SlotIds : r.slots[k] = IF \E j \in 0 .. n - 1 : k = Idx(At(w, j))
                                      THEN EmptySlot ELSE w.slots[k]
  BY DEF DropFirst
<1> HIDE DEF r
<1>5. ASSUME NEW p \in Users(r) PROVE p \in Users(w)
  BY <1>4 DEF Users, EmptySlot
<1>6. ASSUME NEW p \in D PROVE p \in Users(w)
  <2>1. PICK i \in 0 .. n - 1 : p = SlotAt(w, i).user /\ p # NoUser BY <1>6
  <2>2. i \in 0 .. QSize BY <1>1
  <2>3. Idx(At(w, i)) \in SlotIds BY <1>1, <2>2, SlotAtType
  <2> QED BY <2>1, <2>3 DEF Users, SlotAt
<1>7. ASSUME NEW p \in Users(w) PROVE p \in Users(r) \cup D
  <2>1. PICK k \in SlotIds : p = w.slots[k].user /\ p # NoUser BY <1>7 DEF Users
  <2>2. CASE \E j \in 0 .. n - 1 : k = Idx(At(w, j)) BY <2>1, <2>2 DEF SlotAt
  <2>3. CASE ~\E j \in 0 .. n - 1 : k = Idx(At(w, j))
    <3>1. r.slots[k] = w.slots[k] BY <2>3, <1>4
    <3> QED BY <3>1, <2>1 DEF Users
  <2> QED BY <2>2, <2>3
<1> HIDE DEF D
<1> QED BY <1>3, <1>5, <1>6, <1>7 DEF r, D

\* Extending the window resets slots that hold nothing.
LEMMA ExtendHolds ==
  ASSUME NEW num, Numbers(num),
         NEW w, Tidy(w, num), NEW e \in SeqNums, SeqLt(End(w), e),
         w.count + SeqDist(End(w), e) <= QSize
  PROVE  /\ Held(ExtendTo(w, e)) = Held(w)
         /\ \A k \in SlotIds : ExtendTo(w, e).slots[k] \in {w.slots[k], EmptySlot}
         /\ \A j \in w.count .. w.count + SeqDist(End(w), e) - 1 :
              ExtendTo(w, e).slots[Idx(At(w, j))] = EmptySlot
<1> DEFINE n == SeqDist(End(w), e)
           r == ExtendTo(w, e)
<1>1. w \in Queues(num) /\ w.begin \in SeqNums /\ w.count \in 0 .. QSize /\ QSize \in Nat
  BY QSizeAssumption DEF Tidy, Queues
<1>2. End(w) \in SeqNums BY <1>1, SlotAtType DEF End
<1>3. n \in Nat /\ w.count + n <= QSize BY <1>2, SeqDistType
<1>4. Tidy(r, num) BY TidyExtend
<1>5. Held(r) = Users(r) /\ Held(w) = Users(w) BY <1>4, HeldIsUsers
<1>6. \A k \in SlotIds : r.slots[k] = IF \E j \in w.count .. w.count + n - 1 : k = Idx(At(w, j))
                                      THEN EmptySlot ELSE w.slots[k]
  <2>1. r = [w EXCEPT !.count = w.count + n,
               !.slots = [i \in SlotIds |->
                            IF \E j \in w.count .. w.count + n - 1 : i = Idx(At(w, j))
                            THEN EmptySlot ELSE w.slots[i]]]
    BY DEF ExtendTo
  <2> HIDE DEF r, n
  <2> QED BY <2>1, <1>1 DEF Queues
<1> HIDE DEF r, n
<1>7. ASSUME NEW k \in SlotIds, NEW j \in w.count .. w.count + n - 1, k = Idx(At(w, j))
      PROVE  w.slots[k].user = NoUser
  <2> SUFFICES ASSUME w.slots[k].user # NoUser PROVE FALSE OBVIOUS
  <2>1. PICK d \in 0 .. w.count - 1 : Idx(At(w, d)) = k BY TidyOffset
  <2>2. d \in 0 .. QSize - 1 /\ j \in 0 .. QSize - 1 /\ d # j BY <1>1, <1>3
  <2> QED BY <2>1, <2>2, <1>1, <1>7, IdxInjective DEF At
<1>8. \A k \in SlotIds : r.slots[k].user = w.slots[k].user BY <1>6, <1>7 DEF EmptySlot
<1>9. Users(r) = Users(w) BY <1>8 DEF Users
<1>10. \A j \in w.count .. w.count + n - 1 : Idx(At(w, j)) \in SlotIds
  BY <1>1, <1>3, SlotAtType
<1> QED BY <1>5, <1>6, <1>9, <1>10 DEF r, n

\* A packet that is stored where nothing was is held besides the others.
LEMMA PutHolds ==
  ASSUME NEW num, Numbers(num),
         NEW w, Tidy(w, num), NEW p \in DOMAIN num, SeqDist(w.begin, num[p]) < w.count,
         w.slots[Idx(num[p])].user = NoUser
  PROVE  Held(PutAt(w, num[p], p)) = Held(w) \cup {p}
<1> DEFINE r == PutAt(w, num[p], p)
<1>1. num[p] \in SeqNums /\ p # NoUser BY DEF Numbers
<1>2. Idx(num[p]) \in SlotIds BY <1>1, IdxType
<1>3. Tidy(r, num) BY TidyPut
<1>4. Held(r) = Users(r) /\ Held(w) = Users(w) BY <1>3, HeldIsUsers
<1>5. /\ r.slots[Idx(num[p])] = [set |-> TRUE, user |-> p]
      /\ \A k \in SlotIds : k # Idx(num[p]) => r.slots[k] = w.slots[k]
  BY <1>2 DEF PutAt, Tidy, Queues
<1> HIDE DEF r
<1>6. Users(r) = Users(w) \cup {p} BY <1>1, <1>2, <1>5 DEF Users
<1> QED BY <1>4, <1>6 DEF r

\* Less than half the number space ahead is not behind.
LEMMA NotBehind ==
  ASSUME NEW b \in SeqNums, NEW n \in 0 .. SeqHalf - 1
  PROVE  ~SeqLt(SeqAdd(b, n), b)
BY SeqHalfAssumption DEF SeqLt, SeqAdd, SeqNums, SeqMod

\* push of the number that becomes the window's last.
LEMMA AppendHolds ==
  ASSUME NEW num, Numbers(num),
         NEW w, Tidy(w, num), NEW p \in DOMAIN num, NEW d \in w.count .. QSize - 1,
         SeqAdd(w.begin, d) = num[p]
  PROVE  LET r == PutAt(ExtendTo(w, SeqAdd(num[p], 1)), num[p], p)
         IN /\ Held(r) = Held(w) \cup {p} /\ r.begin = w.begin /\ r.count = d + 1
            /\ \A k \in SlotIds :
                 r.slots[k] \in {w.slots[k], EmptySlot, [set |-> TRUE, user |-> p]}
<1> DEFINE e == SeqAdd(num[p], 1)
           v == ExtendTo(w, e)
<1>1. /\ w \in Queues(num) /\ w.begin \in SeqNums /\ w.count \in 0 .. QSize
      /\ QSize \in Nat /\ QSize > 1 /\ QSize < SeqHalf /\ SeqHalf \in Nat
      /\ SeqMod = 2 * SeqHalf /\ d \in Nat /\ num[p] \in SeqNums
  BY QSizeAssumption, SeqHalfAssumption DEF Tidy, Queues, SeqMod, Numbers
<1>2. e \in SeqNums /\ e = SeqAdd(w.begin, d + 1)
  <2>1. 1 \in 0 .. SeqMod - 1 /\ d \in 0 .. SeqMod - 1 /\ d + 1 <= SeqMod BY <1>1
  <2> QED BY <2>1, <1>1, SeqAddTwice, SeqAddType
<1>3. End(w) \in SeqNums /\ End(w) = SeqAdd(w.begin, w.count)
  BY <1>1, SlotAtType DEF End, At
<1>4. SeqDist(End(w), e) = d + 1 - w.count
  <2>1. w.count \in 0 .. SeqMod - 1 /\ d \in 0 .. SeqMod - 2 BY <1>1
  <2>2. SeqDist(SeqAdd(w.begin, w.count), SeqAdd(w.begin, d + 1))
          = IF w.count <= d + 1 THEN d + 1 - w.count ELSE d + 1 - w.count + SeqMod
    BY <2>1, <1>1, SeqDistToNext
  <2> HIDE DEF e
  <2> QED BY <2>2, <1>1, <1>2, <1>3
<1>5. SeqLt(End(w), e)
  <2>1. d + 1 - w.count \in 1 .. SeqHalf - 1 BY <1>1
  <2> QED BY <2>1, <1>2, <1>3, <1>4, SeqLtDist
<1>6. w.count + (d + 1 - w.count) = d + 1 /\ d + 1 <= QSize
      /\ d \in w.count .. w.count + (d + 1 - w.count) - 1
  BY <1>1
<1>7. Tidy(v, num) /\ v.begin = w.begin /\ v.count = d + 1
  BY <1>2, <1>4, <1>5, <1>6, TidyExtend
<1>8. /\ Held(v) = Held(w)
      /\ \A k \in SlotIds : v.slots[k] \in {w.slots[k], EmptySlot}
      /\ v.slots[Idx(At(w, d))] = EmptySlot
  BY <1>2, <1>4, <1>5, <1>6, ExtendHolds
<1>9. SeqDist(w.begin, num[p]) = d
  <2>1. d \in 0 .. SeqMod - 1 BY <1>1
  <2> QED BY <2>1, <1>1, SeqDistAdd
<1> HIDE DEF e, v
<1>10. v.slots[Idx(num[p])].user = NoUser BY <1>8 DEF At, EmptySlot
<1>11. SeqDist(v.begin, num[p]) < v.count BY <1>7, <1>9, <1>1
<1>12. Held(PutAt(v, num[p], p)) = Held(w) \cup {p} BY <1>7, <1>8, <1>10, <1>11, PutHolds
<1>13. /\ PutAt(v, num[p], p).begin = v.begin /\ PutAt(v, num[p], p).count = v.count
       /\ \A k \in SlotIds : PutAt(v, num[p], p).slots[k] \in {v.slots[k], [set |-> TRUE, user |-> p]}
  BY <1>1, <1>7, IdxType DEF PutAt, Tidy, Queues
<1> QED BY <1>7, <1>8, <1>12, <1>13 DEF e, v

\* push behind the window: the packet is held, what gave way to it was dropped, and the
\* window has not moved back, nor at all under End, where it may end behind the packet.
LEMMA PushBeyondHolds ==
  ASSUME NEW num, Numbers(num),
         NEW w, Tidy(w, num), NEW p \in DOMAIN num, NEW kind,
         ~SeqLt(num[p], w.begin), SeqGe(num[p], End(w))
  PROVE  LET r == PushBeyond(w, num[p], p, kind)
         IN /\ Held(r.queue) \cup r.dropped = Held(w) \cup {p}
            /\ ~SeqLt(r.queue.begin, w.begin)
            /\ kind = "End" => /\ r.queue.begin = w.begin
                               /\ r.queue.count \in {w.count, SeqDist(w.begin, num[p]) + 1}
            /\ \A k \in SlotIds :
                 r.queue.slots[k] \in {w.slots[k], EmptySlot, [set |-> TRUE, user |-> p]}
<1> DEFINE s    == num[p]
           e    == SeqAdd(s, 1)
           d    == SeqDist(w.begin, s)
           over == Overhang(w, e)
           n    == IF over < w.count THEN over ELSE w.count
           gone == DropFirst(w, n)
           room == IF over > 0 /\ gone.count = 0 THEN [gone EXCEPT !.begin = s] ELSE gone
           D    == {SlotAt(w, i).user : i \in 0 .. n - 1} \ {NoUser}
           put  == PutAt(ExtendTo(room, e), s, p)
<1>1. /\ w \in Queues(num) /\ w.begin \in SeqNums /\ w.count \in 0 .. QSize
      /\ QSize \in Nat /\ QSize > 1 /\ QSize < SeqHalf /\ SeqHalf \in Nat
      /\ SeqMod = 2 * SeqHalf /\ s \in SeqNums
  BY QSizeAssumption, SeqHalfAssumption DEF Tidy, Queues, SeqMod, Numbers
<1>2. d \in w.count .. SeqHalf /\ over = IF d >= QSize THEN d + 1 - QSize ELSE 0
  BY <1>1, BeyondOffsets
<1>3. SeqAdd(w.begin, d) = s BY <1>1, SeqDistType
<1>4. PushBeyond(w, s, p, kind) =
        IF over > 0 /\ kind = "End" THEN Result(w, {p}) ELSE Result(put, D)
  BY DEF PushBeyond
<1> HIDE DEF d, over
<1>5. n \in 0 .. w.count BY <1>1, <1>2
<1>6. /\ Tidy(gone, num) /\ gone.begin = At(w, n) /\ gone.count = w.count - n
      /\ Held(gone) \cup D = Held(w)
      /\ \A k \in SlotIds : gone.slots[k] \in {w.slots[k], EmptySlot}
  BY <1>5, TidyDropFirst, DropFirstHolds DEF DropFirst
<1> HIDE DEF D
<1>7. /\ Held(put) = Held(gone) \cup {p} /\ put.begin = room.begin
      /\ over = 0 => put.count = d + 1
      /\ \A k \in SlotIds : put.slots[k] \in {gone.slots[k], EmptySlot, [set |-> TRUE, user |-> p]}
  <2>1. CASE over > 0 /\ gone.count = 0
    <3>1. room = [gone EXCEPT !.begin = s] BY <2>1
    <3>2. Tidy(room, num) BY <2>1, <3>1, <1>1, <1>6, TidyShift
    <3>3. room.begin = s /\ room.count = 0 /\ room.slots = gone.slots
      BY <3>1, <2>1, <1>6 DEF Tidy, Queues
    <3>4. SeqAdd(s, 0) = s /\ 0 \in 0 .. QSize - 1 BY <1>1 DEF SeqAdd, SeqNums
    <3>5. Held(room) = {} /\ Held(gone) = {} BY <3>3, <2>1 DEF Held, Offsets
    <3> HIDE DEF room, gone
    <3> QED BY <2>1, <3>2, <3>3, <3>4, <3>5, AppendHolds
  <2>2. CASE ~(over > 0 /\ gone.count = 0)
    <3>1. room = gone BY <2>2
    <3>2. n = over /\ over <= w.count /\ d - over \in w.count - over .. QSize - 1
      BY <2>2, <1>1, <1>2, <1>6
    <3>4. gone.count = w.count - over BY <3>2, <1>6
    <3> HIDE DEF room, gone, n
    <3>3. SeqAdd(At(w, n), d - over) = s
      <4>1. n \in Int /\ d \in Int /\ 0 <= n /\ n <= w.count /\ w.count <= d /\ d <= SeqHalf
        BY <3>2, <1>1, <1>2
      <4>2. /\ n \in 0 .. SeqMod - 1 /\ d - over \in 0 .. SeqMod - 1
            /\ n + (d - over) = d /\ d <= SeqMod
        BY <3>2, <4>1, <1>1
      <4> QED BY <4>2, <1>1, <1>3, SeqAddTwice DEF At
    <3>5. over = 0 => d - over + 1 = d + 1 BY <3>2, <1>1, <1>2
    <3> QED BY <3>1, <3>2, <3>3, <3>4, <3>5, <1>6, AppendHolds
  <2> QED BY <2>1, <2>2
<1>8. ~SeqLt(room.begin, w.begin)
  <2>1. CASE over > 0 /\ gone.count = 0
    <3>1. room.begin = s BY <2>1, <1>6 DEF Tidy, Queues
    <3> QED BY <3>1
  <2>2. CASE ~(over > 0 /\ gone.count = 0)
    <3>1. room.begin = SeqAdd(w.begin, n) /\ n \in 0 .. SeqHalf - 1
      BY <2>2, <1>1, <1>5, <1>6 DEF At
    <3> HIDE DEF room, n
    <3> QED BY <3>1, <1>1, NotBehind
  <2> QED BY <2>1, <2>2
<1>9. over = 0 => room.begin = w.begin
  <2> SUFFICES ASSUME over = 0 PROVE room.begin = w.begin OBVIOUS
  <2>1. n = 0 BY <1>1
  <2>2. room = gone OBVIOUS
  <2>3. At(w, 0) = w.begin BY <1>1 DEF At, SeqAdd, SeqNums
  <2> HIDE DEF room, gone
  <2> QED BY <2>1, <2>2, <2>3, <1>6
<1>10. ~SeqLt(w.begin, w.begin) BY <1>1 DEF SeqLt, SeqNums
<1>11. over = 0 \/ over > 0 BY <1>1, <1>2
<1> HIDE DEF room, put, gone
<1>12. CASE over > 0 /\ kind = "End"
  BY <1>4, <1>10, <1>12 DEF Result
<1>13. CASE ~(over > 0 /\ kind = "End")
  BY <1>4, <1>6, <1>7, <1>8, <1>9, <1>11, <1>13 DEF Result, d
<1> QED BY <1>12, <1>13

\* push: the packet is held or given back, as are those it displaces; a slot is as it
\* was, empty, or the packet's.
LEMMA PushHolds ==
  ASSUME NEW num, Numbers(num),
         NEW w, Tidy(w, num), NEW p \in DOMAIN num, NEW kind
  PROVE  LET r == Push(w, num[p], p, kind)
         IN /\ Held(r.queue) \cup r.dropped = Held(w) \cup {p}
            /\ ~SeqLt(r.queue.begin, w.begin)
            /\ kind = "End" => /\ r.queue.begin = w.begin
                               /\ r.queue.count \in {w.count, SeqDist(w.begin, num[p]) + 1}
            /\ \A k \in SlotIds :
                 r.queue.slots[k] \in {w.slots[k], EmptySlot, [set |-> TRUE, user |-> p]}
<1> DEFINE s == num[p]
           r == Push(w, s, p, kind)
<1>1. w \in Queues(num) /\ w.begin \in SeqNums /\ s \in SeqNums
  BY DEF Tidy, Queues, Numbers
<1>2. ~SeqLt(w.begin, w.begin) BY <1>1, SeqHalfAssumption DEF SeqLt, SeqNums, SeqMod
<1>3. CASE r = Result(w, {p})
  BY <1>2, <1>3 DEF Result
<1>4. CASE InWindow(w, s) /\ ~w.slots[Idx(s)].set
  <2>1. r = Result(PutAt(w, s, p), {}) BY <1>4 DEF Push
  <2>2. Idx(s) \in SlotIds BY <1>1, IdxType
  <2>3. w.slots[Idx(s)].user = NoUser BY <1>4, <2>2 DEF Tidy, TidySlot
  <2>4. Held(PutAt(w, s, p)) = Held(w) \cup {p}
    BY <1>1, <1>4, <2>3, InWindowOffset, PutHolds
  <2>5. /\ PutAt(w, s, p).begin = w.begin
        /\ PutAt(w, s, p).count = w.count
        /\ \A k \in SlotIds : PutAt(w, s, p).slots[k] \in {w.slots[k], [set |-> TRUE, user |-> p]}
    BY <1>1, <2>2 DEF PutAt, Queues
  <2> HIDE DEF r
  <2>6. r.queue = PutAt(w, s, p) /\ r.dropped = {} BY <2>1 DEF Result
  <2> QED BY <2>4, <2>5, <2>6, <1>2 DEF r
<1>5. CASE ~InWindow(w, s) /\ ~SeqLt(s, w.begin) /\ SeqGe(s, End(w))
  <2>1. r = PushBeyond(w, s, p, kind) BY <1>5 DEF Push
  <2> QED BY <2>1, <1>5, PushBeyondHolds
<1>6. CASE ~InWindow(w, s) /\ ~SeqLt(s, w.begin) /\ ~SeqGe(s, End(w)) /\ w.count = 0
           /\ kind = "Begin"
  <2> DEFINE v == [w EXCEPT !.begin = s]
  <2>1. Tidy(v, num) BY <1>1, <1>6, TidyShift
  <2>2. v.begin = s /\ v.count = 0 /\ v.slots = w.slots BY <1>1, <1>6 DEF Queues
  <2>3. End(v) = s
    BY <2>2, <1>1, SeqHalfAssumption DEF End, At, SeqAdd, SeqNums, SeqMod
  <2>4. ~SeqLt(s, v.begin) /\ SeqGe(s, End(v))
    BY <2>2, <2>3, <1>1, SeqHalfAssumption DEF SeqLt, SeqGe, SeqNums, SeqMod
  <2>5. r = PushBeyond(v, s, p, kind) BY <1>6 DEF Push
  <2>6. Held(v) = {} /\ Held(w) = {} BY <1>6, <2>2 DEF Held, Offsets
  <2>7. PushBeyond(v, s, p, kind).queue.begin = s
    <3>1. SeqDist(v.begin, s) = 0 BY <2>2, <1>1 DEF SeqDist, SeqNums
    <3>2. v \in Queues(num) BY <2>1 DEF Tidy
    <3>3. Overhang(v, SeqAdd(s, 1)) = 0
      <4> HIDE DEF v
      <4>1. Overhang(v, SeqAdd(s, 1)) = IF 0 >= QSize THEN 0 + 1 - QSize ELSE 0
        BY <3>1, <3>2, <2>4, <1>1, BeyondOffsets
      <4> QED BY <4>1, QSizeAssumption
    <3>4. PushBeyond(v, s, p, kind).queue = PutAt(ExtendTo(DropFirst(v, 0), SeqAdd(s, 1)), s, p)
      BY <3>3, <2>2 DEF PushBeyond, Result
    <3>5. DropFirst(v, 0).begin = s
      BY <2>2, <1>1, SeqHalfAssumption DEF DropFirst, At, SeqAdd, SeqNums, SeqMod
    <3>6. DropFirst(v, 0).count = 0 BY <2>2 DEF DropFirst
    <3>7. 0 \in 0 .. v.count BY <2>2
    <3>8. Tidy(DropFirst(v, 0), num) BY <2>1, <3>7, TidyDropFirst
    <3>9. SeqAdd(s, 0) = s /\ 0 \in 0 .. QSize - 1
      BY <1>1, QSizeAssumption DEF SeqAdd, SeqNums
    <3> HIDE DEF v, r
    <3> QED BY <3>4, <3>5, <3>6, <3>8, <3>9, AppendHolds
  <2> HIDE DEF v, r
  <2>8. /\ Held(r.queue) \cup r.dropped = Held(v) \cup {p}
        /\ \A k \in SlotIds :
             r.queue.slots[k] \in {v.slots[k], EmptySlot, [set |-> TRUE, user |-> p]}
    BY <2>1, <2>4, <2>5, PushBeyondHolds
  <2> QED BY <2>2, <2>5, <2>6, <2>7, <2>8, <1>6 DEF r
<1>7. QED
  BY <1>3, <1>4, <1>5, <1>6 DEF Push

\* What a queue holds are packets.
LEMMA HeldPackets ==
  ASSUME NEW num, Numbers(num),
         NEW w, Tidy(w, num)
  PROVE  Held(w) \subseteq DOMAIN num
BY HeldIsUsers DEF Users, Tidy, Queues

\* A packet that push displaces was QSize or more numbers behind the new one, and
\* the strategy is not End.
LEMMA PushEvicts ==
  ASSUME NEW num, Numbers(num),
         NEW w, Tidy(w, num), NEW p \in DOMAIN num, NEW kind,
         NEW u \in Held(w), u \notin Held(Push(w, num[p], p, kind).queue)
  PROVE  kind # "End" /\ SeqDist(num[u], num[p]) >= QSize
<1> DEFINE s    == num[p]
           d    == SeqDist(w.begin, s)
           over == Overhang(w, SeqAdd(s, 1))
           n    == IF over < w.count THEN over ELSE w.count
           r    == Push(w, s, p, kind)
<1>1. /\ w \in Queues(num) /\ w.begin \in SeqNums /\ s \in SeqNums
      /\ w.count \in 0 .. QSize /\ QSize \in Nat /\ QSize > 1 /\ QSize < SeqHalf
      /\ SeqHalf \in Nat /\ SeqMod = 2 * SeqHalf
  BY QSizeAssumption, SeqHalfAssumption DEF Tidy, Queues, Numbers, SeqMod
<1>2. Held(r.queue) \cup r.dropped = Held(w) \cup {p} BY PushHolds
<1>3. u \in r.dropped BY <1>2
<1>4. r.queue # w OBVIOUS
<1>5. w.count > 0
  <2> SUFFICES ASSUME w.count = 0 PROVE FALSE BY <1>1
  <2> QED BY DEF Held, Offsets
<1>6. CASE InWindow(w, s)
  <2>1. r.dropped = {} BY <1>4, <1>6 DEF Push, Result
  <2> QED BY <2>1, <1>3
<1>7. CASE ~InWindow(w, s)
  <2>1. /\ ~SeqLt(s, w.begin) /\ SeqGe(s, End(w))
        /\ r = PushBeyond(w, s, p, kind)
    BY <1>4, <1>5, <1>7 DEF Push, Result
  <2>2. ~(over > 0 /\ kind = "End")
    BY <2>1, <1>4 DEF PushBeyond, Result
  <2>3. r.dropped = {SlotAt(w, i).user : i \in 0 .. n - 1} \ {NoUser}
    BY <2>1, <2>2 DEF PushBeyond, Result
  <2>4. d \in w.count .. SeqHalf /\ over = IF d >= QSize THEN d + 1 - QSize ELSE 0
    BY <2>1, <1>1, BeyondOffsets
  <2> HIDE DEF r, over, d
  <2>5. PICK i \in 0 .. n - 1 : u = SlotAt(w, i).user /\ u # NoUser BY <2>3, <1>3
  <2>6. over > 0 /\ d >= QSize /\ i <= d - QSize /\ i \in 0 .. QSize - 1 /\ i \in Offsets(w)
    BY <2>4, <2>5, <1>1 DEF Offsets
  <2>7. num[u] = SeqAdd(w.begin, i)
    BY <2>5, <2>6, WindowNumbers DEF At
  <2>8. i \in 0 .. SeqMod - 1 /\ d \in 0 .. SeqMod - 1 /\ i \in 0 .. d BY <2>4, <2>6, <1>1
  <2>9. SeqDist(num[u], s) = d - i BY <2>7, <2>8, <1>1, SeqDistStep DEF d
  <2> QED BY <2>2, <2>6, <2>8, <2>9, <1>1
<1> QED BY <1>6, <1>7

\* drop_at gives the packet at its offset and keeps the others.
LEMMA DropAtHolds ==
  ASSUME NEW num, Numbers(num),
         NEW w, Tidy(w, num), NEW i \in Offsets(w)
  PROVE  LET r == DropAt(w, i)
         IN /\ Held(r.queue) \cup r.dropped = Held(w)
            /\ Held(r.queue) \cap r.dropped = {}
            /\ r.dropped = {SlotAt(w, i).user} \ {NoUser}
            /\ r.queue.begin = w.begin /\ r.queue.count <= w.count
<1> DEFINE taken == [w EXCEPT !.slots[Idx(At(w, i))].user = NoUser]
           left  == {n \in 1 .. w.count - 1 : SlotAt(w, n - 1).set}
           last  == IF left = {} THEN 0 ELSE CHOOSE n \in left : \A m \in left : m <= n
           out   == {SlotAt(w, i).user} \ {NoUser}
           r     == DropAt(w, i)
<1>1. w \in Queues(num) /\ w.count \in 0 .. QSize /\ QSize \in Nat /\ i \in 0 .. QSize
  BY QSizeAssumption DEF Tidy, Queues, Offsets
<1>2. Idx(At(w, i)) \in SlotIds BY <1>1, SlotAtType
<1>3. \/ r = Result(w, {}) /\ ~SlotAt(w, i).set
      \/ r = Result(taken, out)
      \/ r = Result([taken EXCEPT !.count = last], out)
  <2>1. r = IF i >= w.count \/ ~SlotAt(w, i).set
            THEN Result(w, {})
            ELSE Result(IF i = w.count - 1 THEN [taken EXCEPT !.count = last] ELSE taken, out)
    BY DEF DropAt
  <2>2. i < w.count BY <1>1 DEF Offsets
  <2> HIDE DEF taken, last, r, out
  <2> QED BY <2>1, <2>2, <1>1
<1>4. Tidy(r.queue, num) BY TidyDropAt
<1>5. Held(r.queue) = Users(r.queue) /\ Held(w) = Users(w) BY <1>4, HeldIsUsers
<1>6. /\ taken.slots[Idx(At(w, i))].user = NoUser
      /\ taken.begin = w.begin /\ taken.count = w.count
      /\ \A k \in SlotIds : k # Idx(At(w, i)) => taken.slots[k] = w.slots[k]
  BY <1>1, <1>2 DEF Queues
<1>7. last <= w.count
  <2>1. CASE left = {} BY <2>1, <1>1
  <2>2. CASE left # {}
    <3>1. left \subseteq 0 .. QSize BY <1>1
    <3>2. \A n \in left : n <= w.count BY <1>1
    <3> HIDE DEF left
    <3>3. \E x \in left : \A y \in left : y <= x BY <2>2, <3>1, <1>1, BoundedMax
    <3> QED BY <3>2, <3>3, <2>2
  <2> QED BY <2>1, <2>2
<1>8. CASE r = Result(w, {}) /\ ~SlotAt(w, i).set
  <2>1. SlotAt(w, i).user = NoUser BY <1>2, <1>8 DEF Tidy, TidySlot, SlotAt
  <2>2. r.queue = w /\ r.dropped = {} BY <1>8 DEF Result
  <2> HIDE DEF r
  <2> QED BY <2>1, <2>2, <1>1 DEF r
<1>9. CASE r = Result(taken, out) \/ r = Result([taken EXCEPT !.count = last], out)
  <2>1. /\ r.queue.slots = taken.slots /\ r.dropped = out
        /\ r.queue.begin = w.begin /\ r.queue.count <= w.count
    <3> DEFINE cut == [taken EXCEPT !.count = last]
    <3>1. taken \in Queues(num) BY <1>1, <1>2 DEF Queues
    <3>2. /\ cut.slots = taken.slots /\ cut.begin = w.begin /\ cut.count <= w.count
          /\ taken.begin = w.begin /\ taken.count <= w.count
      <4> HIDE DEF taken, last
      <4> QED BY <1>1, <1>6, <1>7, <3>1 DEF Queues
    <3>3. r = Result(taken, out) \/ r = Result(cut, out) BY <1>9
    <3> HIDE DEF taken, last, r, out, cut
    <3> QED BY <3>2, <3>3 DEF Result
  <2> HIDE DEF taken, last, r
  <2>2. Users(r.queue) \cup out = Users(w)
    <3>1. ASSUME NEW x \in Users(r.queue) PROVE x \in Users(w)
      BY <2>1, <1>6, <1>2, <3>1 DEF Users
    <3>2. ASSUME NEW x \in Users(w) PROVE x \in Users(r.queue) \cup out
      <4>1. PICK k \in SlotIds : x = w.slots[k].user /\ x # NoUser BY <3>2 DEF Users
      <4>2. CASE k = Idx(At(w, i)) BY <4>1, <4>2 DEF SlotAt
      <4>3. CASE k # Idx(At(w, i)) BY <4>1, <4>3, <2>1, <1>6 DEF Users
      <4> QED BY <4>2, <4>3
    <3>3. out \subseteq Users(w) BY <1>2 DEF Users, SlotAt
    <3> QED BY <3>1, <3>2, <3>3
  <2>3. ASSUME NEW x \in Users(r.queue), x \in out PROVE FALSE
    <3>1. PICK k \in SlotIds : x = r.queue.slots[k].user /\ x # NoUser BY <2>3 DEF Users
    <3>2. k # Idx(At(w, i)) /\ x = w.slots[k].user BY <3>1, <2>1, <1>6
    <3>3. x = w.slots[Idx(At(w, i))].user BY <2>3 DEF SlotAt
    <3>4. Idx(num[x]) = k /\ Idx(num[x]) = Idx(At(w, i))
      BY <3>1, <3>2, <3>3, <1>2 DEF Tidy, TidySlot
    <3> QED BY <3>2, <3>4
  <2> QED BY <2>1, <2>2, <2>3, <1>5 DEF r
<1> QED BY <1>3, <1>8, <1>9

\* skip_head over offsets that peek finds empty loses nothing.
LEMMA SkipHolds ==
  ASSUME NEW num, Numbers(num),
         NEW w, Tidy(w, num), NEW n \in Offsets(w), \A i \in 0 .. n - 1 : Peek(w, i) = NoUser
  PROVE  Held(SkipHead(w, n)) = Held(w)
<1>1. Tidy(SkipHead(w, n), num) BY TidySkip
<1>2. SkipHead(w, n).slots = w.slots
  <2>1. w.count \in 0 .. QSize BY DEF Tidy, Queues
  <2> QED BY DEF SkipHead, Tidy, Queues
<1>3. Held(SkipHead(w, n)) = Users(SkipHead(w, n)) /\ Held(w) = Users(w)
  BY <1>1, HeldIsUsers
<1> QED BY <1>2, <1>3 DEF Users

\* The run of packets at the head: how long it is and what ends it.
LEMMA RunIs ==
  ASSUME NEW num, Numbers(num), NEW w \in Queues(num)
  PROVE  /\ Run(w) \in 0 .. w.count
         /\ \A i \in 0 .. Run(w) - 1 : SlotAt(w, i).user # NoUser
         /\ Run(w) < w.count => SlotAt(w, Run(w)).user = NoUser
<1> DEFINE Fits(k) == /\ \A i \in 0 .. k - 1 : SlotAt(w, i).user # NoUser
                      /\ k < w.count => SlotAt(w, k).user = NoUser
           T == {k \in 0 .. w.count - 1 : SlotAt(w, k).user = NoUser}
<1>1. w.count \in Nat BY QSizeAssumption DEF Queues
<1>2. \E k \in 0 .. w.count : Fits(k)
  <2>1. CASE T = {}
    <3>1. Fits(w.count) BY <2>1, <1>1
    <3> QED BY <3>1, <1>1
  <2>2. CASE T # {}
    <3>1. T \subseteq Nat OBVIOUS
    <3> HIDE DEF T
    <3>2. PICK k \in T : \A m \in T : k <= m BY <2>2, <3>1, NatMin
    <3>3. k \in 0 .. w.count - 1 /\ SlotAt(w, k).user = NoUser BY <3>2 DEF T
    <3>4. ASSUME NEW i \in 0 .. k - 1 PROVE SlotAt(w, i).user # NoUser
      <4>1. i \notin T BY <3>2, <3>3, <1>1
      <4> QED BY <4>1, <3>3, <1>1 DEF T
    <3> QED BY <3>3, <3>4, <1>1
  <2> QED BY <2>1, <2>2
<1> HIDE DEF T
<1> QED BY <1>2 DEF Run

\* Pulling until nothing comes takes the run off the head, and with it at most
\* one slot that drop_at emptied.
LEMMA DrainedIs ==
  ASSUME NEW num, Numbers(num), NEW w, Tidy(w, num)
  PROVE  \E n \in {Run(w), Run(w) + 1} :
           /\ n \in 0 .. w.count
           /\ n = Run(w) + 1 => SlotAt(w, Run(w)).set /\ SlotAt(w, Run(w)).user = NoUser
           /\ Tidy(Drained(w), num) /\ Held(Drained(w)) \subseteq Held(w)
           /\ Drained(w).begin = At(w, n) /\ Drained(w).count = w.count - n
           /\ \A k \in SlotIds : Drained(w).slots[k] \in {w.slots[k], EmptySlot}
<1> DEFINE n == IF Run(w) < w.count /\ SlotAt(w, Run(w)).set THEN Run(w) + 1 ELSE Run(w)
<1>1. w \in Queues(num) /\ w.count \in Nat BY QSizeAssumption DEF Tidy, Queues
<1>2. Run(w) \in 0 .. w.count /\ (Run(w) < w.count => SlotAt(w, Run(w)).user = NoUser)
  BY <1>1, RunIs
<1>3. n \in 0 .. w.count /\ n \in {Run(w), Run(w) + 1} BY <1>1, <1>2
<1>4. n = Run(w) + 1 => SlotAt(w, Run(w)).set /\ SlotAt(w, Run(w)).user = NoUser
  BY <1>1, <1>2
<1>5. Drained(w) = DropFirst(w, n) BY DEF Drained
<1> HIDE DEF n
<1>6. Tidy(Drained(w), num) /\ Held(Drained(w)) \subseteq Held(w)
  BY <1>3, <1>5, TidyDropFirst, DropFirstHolds
<1>7. /\ Drained(w).begin = At(w, n) /\ Drained(w).count = w.count - n
      /\ \A k \in SlotIds : Drained(w).slots[k] \in {w.slots[k], EmptySlot}
  BY <1>5 DEF DropFirst
<1> QED BY <1>3, <1>4, <1>6, <1>7

\* What the pulls return: packets of the window, under its numbers one by one.
LEMMA TakenIs ==
  ASSUME NEW num, Numbers(num), NEW w, Tidy(w, num)
  PROVE  /\ Taken(w) \in Seq(DOMAIN num) /\ Len(Taken(w)) = Run(w)
         /\ \A i \in 1 .. Run(w) : Taken(w)[i] \in Held(w) /\ num[Taken(w)[i]] = At(w, i - 1)
<1>1. w \in Queues(num) /\ w.count \in Nat BY QSizeAssumption DEF Tidy, Queues
<1>2. Run(w) \in 0 .. w.count /\ \A i \in 0 .. Run(w) - 1 : SlotAt(w, i).user # NoUser
  BY <1>1, RunIs
<1>3. ASSUME NEW i \in 1 .. Run(w)
      PROVE  /\ Taken(w)[i] = SlotAt(w, i - 1).user
             /\ SlotAt(w, i - 1).user \in Held(w)
             /\ num[SlotAt(w, i - 1).user] = At(w, i - 1)
  <2>1. i - 1 \in Offsets(w) /\ i - 1 \in 0 .. Run(w) - 1 BY <1>1, <1>2 DEF Offsets
  <2>2. SlotAt(w, i - 1).user # NoUser BY <1>2, <2>1
  <2> QED BY <2>1, <2>2, WindowNumbers DEF Held, Taken
<1>4. \A i \in 1 .. Run(w) : SlotAt(w, i - 1).user \in DOMAIN num BY <1>3, HeldPackets
<1>5. Taken(w) \in [1 .. Run(w) -> DOMAIN num] BY <1>4 DEF Taken
<1>6. Run(w) \in Nat BY <1>1, <1>2
<1>7. Taken(w) \in Seq(DOMAIN num) /\ Len(Taken(w)) = Run(w)
  <2> HIDE DEF Taken
  <2> QED BY <1>5, <1>6
<1> QED BY <1>3, <1>7

-----------------------------------------------------------------------------
(* The ends of a window: what push and pull leave first and last.          *)

\* What is put behind the window is its last, and in an empty window its head.
LEMMA AppendEnds ==
  ASSUME NEW num, Numbers(num),
         NEW w, Tidy(w, num), NEW p \in DOMAIN num, NEW d \in w.count .. QSize - 1,
         SeqAdd(w.begin, d) = num[p]
  PROVE  LET r == PutAt(ExtendTo(w, SeqAdd(num[p], 1)), num[p], p)
         IN r.begin = w.begin /\ r.count = d + 1 /\ SlotAt(r, d).set
<1> DEFINE v == ExtendTo(w, SeqAdd(num[p], 1))
           r == PutAt(v, num[p], p)
<1>1. w \in Queues(num) /\ num[p] \in SeqNums BY DEF Tidy, Numbers
<1>2. r.begin = w.begin /\ r.count = d + 1 BY AppendHolds
<1>3. Idx(num[p]) \in SlotIds BY <1>1, IdxType
<1>4. v.slots \in [SlotIds -> [set : BOOLEAN, user : DOMAIN num \cup {NoUser}]]
  BY <1>1 DEF ExtendTo, Queues, EmptySlot
<1>5. r.slots[Idx(num[p])] = [set |-> TRUE, user |-> p]
  <2>1. r = [v EXCEPT !.slots[Idx(num[p])] = [set |-> TRUE, user |-> p]] BY DEF PutAt
  <2>2. DOMAIN v = {"begin", "count", "slots"} BY <1>1 DEF ExtendTo, Queues
  <2> HIDE DEF v, r
  <2> QED BY <2>1, <2>2, <1>3, <1>4
<1> HIDE DEF r
<1>6. SlotAt(r, d).set BY <1>2, <1>5 DEF SlotAt, At
<1> QED BY <1>2, <1>6 DEF r

\* The last slot of a window is never an empty one.
EndsSet(w) == w.count > 0 => SlotAt(w, w.count - 1).set

\* push behind the window: the packet is the last; the window begins within what it was,
\* or with the packet.
LEMMA PushBeyondEnds ==
  ASSUME NEW num, Numbers(num),
         NEW w, Tidy(w, num), NEW p \in DOMAIN num,
         ~SeqLt(num[p], w.begin), SeqGe(num[p], End(w))
  PROVE  LET r == PushBeyond(w, num[p], p, "Begin").queue
         IN /\ r.count > 0 /\ SlotAt(r, r.count - 1).set
            /\ SlotAt(r, 0).set \/ \E n \in 0 .. w.count : r.begin = At(w, n)
<1> DEFINE s    == num[p]
           e    == SeqAdd(s, 1)
           d    == SeqDist(w.begin, s)
           over == Overhang(w, e)
           n    == IF over < w.count THEN over ELSE w.count
           gone == DropFirst(w, n)
           room == IF over > 0 /\ gone.count = 0 THEN [gone EXCEPT !.begin = s] ELSE gone
           put  == PutAt(ExtendTo(room, e), s, p)
<1>1. /\ w \in Queues(num) /\ w.begin \in SeqNums /\ w.count \in 0 .. QSize
      /\ QSize \in Nat /\ QSize > 1 /\ QSize < SeqHalf /\ SeqHalf \in Nat
      /\ SeqMod = 2 * SeqHalf /\ s \in SeqNums
  BY QSizeAssumption, SeqHalfAssumption DEF Tidy, Queues, SeqMod, Numbers
<1>2. d \in w.count .. SeqHalf /\ over = IF d >= QSize THEN d + 1 - QSize ELSE 0
  BY <1>1, BeyondOffsets
<1>3. SeqAdd(w.begin, d) = s BY <1>1, SeqDistType
<1>4. PushBeyond(w, s, p, "Begin").queue = put BY DEF PushBeyond, Result
<1> HIDE DEF d, over
<1>5. n \in 0 .. w.count BY <1>1, <1>2
<1>6. /\ Tidy(gone, num) /\ gone.begin = At(w, n) /\ gone.count = w.count - n
  BY <1>5, TidyDropFirst DEF DropFirst
<1>7. CASE over > 0 /\ gone.count = 0
  <2>1. room = [gone EXCEPT !.begin = s] BY <1>7
  <2>2. Tidy(room, num) BY <1>7, <2>1, <1>1, <1>6, TidyShift
  <2>3. room.begin = s /\ room.count = 0
    BY <2>1, <1>7, <1>6 DEF Tidy, Queues
  <2>4. SeqAdd(s, 0) = s /\ 0 \in 0 .. QSize - 1 BY <1>1 DEF SeqAdd, SeqNums
  <2> HIDE DEF room, gone
  <2>5. put.count = 0 + 1 /\ SlotAt(put, 0).set BY <2>2, <2>3, <2>4, AppendEnds
  <2> HIDE DEF put
  <2> QED BY <1>4, <2>5
<1>8. CASE ~(over > 0 /\ gone.count = 0)
  <2>1. room = gone BY <1>8
  <2>2. n = over /\ over <= w.count /\ d - over \in w.count - over .. QSize - 1
    BY <1>8, <1>1, <1>2, <1>6
  <2>4. gone.count = w.count - over BY <2>2, <1>6
  <2> HIDE DEF room, gone, n
  <2>3. SeqAdd(At(w, n), d - over) = s
    <3>1. n \in Int /\ d \in Int /\ 0 <= n /\ n <= w.count /\ w.count <= d /\ d <= SeqHalf
      BY <2>2, <1>1, <1>2
    <3>2. /\ n \in 0 .. SeqMod - 1 /\ d - over \in 0 .. SeqMod - 1
          /\ n + (d - over) = d /\ d <= SeqMod
      BY <2>2, <3>1, <1>1
    <3> QED BY <3>2, <1>1, <1>3, SeqAddTwice DEF At
  <2>5. /\ put.begin = room.begin /\ put.count = (d - over) + 1 /\ SlotAt(put, d - over).set
    BY <2>1, <2>2, <2>3, <2>4, <1>6, AppendEnds
  <2>6. put.begin = At(w, n) BY <2>1, <2>5, <1>6
  <2>7. d - over \in Nat /\ n \in 0 .. w.count BY <2>2, <1>1, <1>2
  <2> HIDE DEF put
  <2>8. put.count - 1 = d - over /\ put.count > 0 BY <2>5, <2>7
  <2> QED BY <1>4, <2>5, <2>6, <2>7, <2>8
<1> QED BY <1>7, <1>8

\* push: a window that was not empty does not become so, and begins where it did or later,
\* unless it begins with a packet.
LEMMA PushEnds ==
  ASSUME NEW num, Numbers(num),
         NEW w, Tidy(w, num), EndsSet(w), NEW p \in DOMAIN num
  PROVE  LET r == Push(w, num[p], p, "Begin").queue
         IN /\ EndsSet(r)
            /\ w.count > 0 => r.count > 0
            /\ \/ r.count > 0 /\ SlotAt(r, 0).set
               \/ \E n \in 0 .. w.count : r.begin = At(w, n)
               \/ w.count = 0 /\ r.begin = num[p]
<1> DEFINE s == num[p]
           r == Push(w, s, p, "Begin").queue
<1>1. w \in Queues(num) /\ w.begin \in SeqNums /\ s \in SeqNums /\ w.count \in 0 .. QSize
      /\ QSize \in Nat
  BY QSizeAssumption DEF Tidy, Queues, Numbers
<1>2. At(w, 0) = w.begin BY <1>1, SeqHalfAssumption DEF At, SeqAdd, SeqNums, SeqMod
<1>3. CASE r = w BY <1>1, <1>2, <1>3
<1>4. CASE InWindow(w, s) /\ ~w.slots[Idx(s)].set
  <2>1. r = PutAt(w, s, p) BY <1>4 DEF Push, Result
  <2>2. Idx(s) \in SlotIds BY <1>1, IdxType
  <2> HIDE DEF r
  <2>3. /\ r.begin = w.begin /\ r.count = w.count
        /\ \A k \in SlotIds : r.slots[k] = IF k = Idx(s) THEN [set |-> TRUE, user |-> p]
                                           ELSE w.slots[k]
    BY <1>1, <2>1, <2>2 DEF PutAt, Queues
  <2>4. EndsSet(r)
    <3>1. SUFFICES ASSUME r.count > 0 PROVE SlotAt(r, r.count - 1).set BY DEF EndsSet
    <3>2. w.count - 1 \in 0 .. QSize BY <1>1, <2>3, <3>1
    <3>3. Idx(At(w, w.count - 1)) \in SlotIds BY <1>1, <3>2, SlotAtType
    <3>4. SlotAt(w, w.count - 1).set BY <2>3, <3>1 DEF EndsSet
    <3> QED BY <2>3, <3>3, <3>4 DEF SlotAt, At, EndsSet
  <2> QED BY <1>1, <1>2, <2>3, <2>4 DEF r
<1>5. CASE ~InWindow(w, s) /\ ~SeqLt(s, w.begin) /\ SeqGe(s, End(w))
  <2>1. r = PushBeyond(w, s, p, "Begin").queue BY <1>5 DEF Push
  <2> QED BY <2>1, <1>5, PushBeyondEnds DEF EndsSet
<1>6. CASE ~InWindow(w, s) /\ ~SeqLt(s, w.begin) /\ ~SeqGe(s, End(w)) /\ w.count = 0
  <2> DEFINE v == [w EXCEPT !.begin = s]
  <2>1. Tidy(v, num) BY <1>1, <1>6, TidyShift
  <2>2. v.begin = s /\ v.count = 0 BY <1>1, <1>6 DEF Queues
  <2>3. End(v) = s
    BY <2>2, <1>1, SeqHalfAssumption DEF End, At, SeqAdd, SeqNums, SeqMod
  <2>4. ~SeqLt(s, v.begin) /\ SeqGe(s, End(v))
    BY <2>2, <2>3, <1>1, SeqHalfAssumption DEF SeqLt, SeqGe, SeqNums, SeqMod
  <2>5. r = PushBeyond(v, s, p, "Begin").queue BY <1>6 DEF Push
  <2> HIDE DEF v, r
  <2>6. /\ r.count > 0 /\ SlotAt(r, r.count - 1).set
        /\ SlotAt(r, 0).set \/ \E n \in 0 .. v.count : r.begin = At(v, n)
    BY <2>1, <2>4, <2>5, PushBeyondEnds
  <2>7. SlotAt(r, 0).set \/ r.begin = s
    <3>1. At(v, 0) = s BY <2>2, <2>3 DEF End
    <3> QED BY <2>2, <2>6, <3>1
  <2> QED BY <1>6, <2>6, <2>7 DEF EndsSet, r
<1>7. r = w \/ (InWindow(w, s) /\ ~w.slots[Idx(s)].set)
      \/ (~InWindow(w, s) /\ ~SeqLt(s, w.begin) /\ SeqGe(s, End(w)))
      \/ (~InWindow(w, s) /\ ~SeqLt(s, w.begin) /\ ~SeqGe(s, End(w)) /\ w.count = 0)
  BY DEF Push, Result
<1> HIDE DEF r
<1> QED BY <1>3, <1>4, <1>5, <1>6, <1>7 DEF r

\* A slot whose flag is set holds a packet.
Occupied(w) == \A k \in SlotIds : w.slots[k].set => w.slots[k].user # NoUser

\* pull until nothing comes: what is left begins with a gap, and nothing happens to a
\* window that begins with one.
LEMMA DrainedEnds ==
  ASSUME NEW num, Numbers(num),
         NEW w, Tidy(w, num), EndsSet(w), Occupied(w)
  PROVE  /\ EndsSet(Drained(w)) /\ Occupied(Drained(w))
         /\ Drained(w).count = w.count - Run(w)
         /\ Drained(w).begin = At(w, Run(w))
         /\ Drained(w).count > 0 => ~SlotAt(Drained(w), 0).set
         /\ Run(w) = 0 => Drained(w) = w
         /\ PullMoves(w) <=> Run(w) > 0
<1> DEFINE k == Run(w)
           r == Drained(w)
<1>1. /\ w \in Queues(num) /\ w.begin \in SeqNums /\ w.count \in 0 .. QSize
      /\ QSize \in Nat /\ QSize > 1 /\ QSize < SeqHalf /\ SeqHalf \in Nat
      /\ SeqMod = 2 * SeqHalf
  BY QSizeAssumption, SeqHalfAssumption DEF Tidy, Queues, SeqMod
<1>2. /\ k \in 0 .. w.count
      /\ \A i \in 0 .. k - 1 : SlotAt(w, i).user # NoUser
      /\ k < w.count => SlotAt(w, k).user = NoUser
  BY <1>1, RunIs
<1>3. \A i \in 0 .. QSize : Idx(At(w, i)) \in SlotIds BY <1>1, SlotAtType
<1>4. k < w.count => ~SlotAt(w, k).set
  BY <1>1, <1>2, <1>3 DEF Occupied, SlotAt
<1>5. r = DropFirst(w, k) BY <1>2, <1>4 DEF Drained
<1> HIDE DEF k, r
<1>6. /\ r.begin = At(w, k) /\ r.count = w.count - k
      /\ \A j \in SlotIds : r.slots[j] = IF \E i \in 0 .. k - 1 : j = Idx(At(w, i))
                                         THEN EmptySlot ELSE w.slots[j]
  BY <1>5 DEF DropFirst
<1>7. ASSUME NEW i \in Nat, k + i < w.count PROVE SlotAt(r, i) = SlotAt(w, k + i)
  <2>1. /\ k \in 0 .. SeqMod - 1 /\ i \in 0 .. SeqMod - 1 /\ k + i <= SeqMod
        /\ k + i \in 0 .. QSize - 1
    BY <1>1, <1>2, <1>7
  <2>2. At(r, i) = At(w, k + i) BY <2>1, <1>1, <1>6, SeqAddTwice DEF At
  <2>3. ~\E j \in 0 .. k - 1 : Idx(At(w, k + i)) = Idx(At(w, j))
    <3>1. SUFFICES ASSUME NEW j \in 0 .. k - 1, Idx(At(w, k + i)) = Idx(At(w, j)) PROVE FALSE
      OBVIOUS
    <3>2. j \in 0 .. QSize - 1 /\ j # k + i BY <1>1, <1>2
    <3> QED BY <3>1, <3>2, <2>1, <1>1, IdxInjective DEF At
  <2>4. Idx(At(w, k + i)) \in SlotIds BY <1>3, <2>1, <1>1
  <2> QED BY <2>2, <2>3, <2>4, <1>6 DEF SlotAt
<1>8. EndsSet(r)
  <2>1. SUFFICES ASSUME r.count > 0 PROVE SlotAt(r, r.count - 1).set BY DEF EndsSet
  <2>2. r.count - 1 \in Nat /\ k + (r.count - 1) < w.count /\ k + (r.count - 1) = w.count - 1
        /\ w.count > 0
    BY <2>1, <1>1, <1>2, <1>6
  <2>3. SlotAt(r, r.count - 1) = SlotAt(w, w.count - 1) BY <2>2, <1>7
  <2> QED BY <2>2, <2>3 DEF EndsSet
<1>9. Occupied(r) BY <1>6 DEF Occupied, EmptySlot
<1>10. r.count > 0 => ~SlotAt(r, 0).set
  <2>1. HAVE r.count > 0
  <2>2. k < w.count /\ k + 0 = k BY <2>1, <1>1, <1>2, <1>6
  <2>3. SlotAt(r, 0) = SlotAt(w, k + 0) BY <2>2, <1>7
  <2> QED BY <2>2, <2>3, <1>4
<1>11. k = 0 => r = w
  <2>1. HAVE k = 0
  <2>2. At(w, 0) = w.begin BY <1>1, SeqHalfAssumption DEF At, SeqAdd, SeqNums, SeqMod
  <2>3. r = [begin |-> At(w, k), count |-> w.count - k,
             slots |-> [j \in SlotIds |-> IF \E i \in 0 .. k - 1 : j = Idx(At(w, i))
                                          THEN EmptySlot ELSE w.slots[j]]]
    BY <1>5 DEF DropFirst
  <2>4. /\ r.begin = w.begin /\ r.count = w.count
        /\ r.slots = w.slots
    <3>1. w.slots \in [SlotIds -> [set : BOOLEAN, user : DOMAIN num \cup {NoUser}]]
      BY <1>1 DEF Queues
    <3>2. r.slots = [j \in SlotIds |-> w.slots[j]] BY <2>1, <2>3
    <3>3. r.slots = w.slots BY <3>1, <3>2
    <3> QED BY <2>1, <2>2, <3>3, <1>1, <1>6
  <2>5. r \in [begin : {r.begin}, count : {r.count}, slots : {r.slots}] BY <2>3
  <2>6. w \in [begin : {w.begin}, count : {w.count}, slots : {w.slots}] BY <1>1 DEF Queues
  <2> QED BY <2>4, <2>5, <2>6
<1>12. PullMoves(w) <=> k > 0
  <2>1. w.count > 0 => (SlotAt(w, 0).set <=> SlotAt(w, 0).user # NoUser)
    <3>1. Idx(At(w, 0)) \in SlotIds BY <1>1, <1>3
    <3> QED BY <3>1 DEF Occupied, SlotAt, Tidy, TidySlot
  <2>2. w.count > 0 /\ k = 0 => SlotAt(w, 0).user = NoUser BY <1>1, <1>2
  <2>3. k > 0 => w.count > 0 /\ SlotAt(w, 0).user # NoUser BY <1>1, <1>2
  <2>4. k = 0 \/ k > 0 BY <1>1, <1>2
  <2> QED BY <2>1, <2>2, <2>3, <2>4, <1>1 DEF PullMoves
<1> QED BY <1>6, <1>8, <1>9, <1>10, <1>11, <1>12 DEF k, r

-----------------------------------------------------------------------------
(* One queue and its callers.                                              *)

\* A packet is pushed under the number it carries.
ElementNumber == [p \in Elements |-> p.seq]

LEMMA ElementNumbers ==
  /\ Numbers(ElementNumber) /\ DOMAIN ElementNumber = Elements
  /\ \A p \in Elements : ElementNumber[p] = p.seq
BY ElementsAssumption DEF Numbers, ElementNumber, Elements

QueueInv == QueueTypes /\ Tidy(queue, ElementNumber)

LEMMA InitQueueInv == InitQueue => QueueInv
<1> SUFFICES ASSUME InitQueue PROVE QueueInv OBVIOUS
<1>1. PICK s \in SeqNums : queue = NewQueue(s) BY DEF InitQueue
<1>2. Tidy(queue, ElementNumber) BY <1>1, TidyNew, ElementNumbers
<1>3. call = [op |-> "new", in |-> {}, out |-> {}] /\ strategy \in {"Begin", "End"}
  BY DEF InitQueue
<1> QED BY <1>2, <1>3, ElementNumbers DEF QueueInv, QueueTypes, Tidy, Queues

\* What a step leaves: a tidy queue, whose window has not moved back and which
\* with what was given back makes up what was there and what was taken.
Accounted == /\ Tidy(queue', ElementNumber)
             /\ Held(queue') \cup call'.out = Held(queue) \cup call'.in
             /\ ~SeqLt(queue'.begin, queue.begin)

LEMMA PushAccounted ==
  ASSUME QueueInv, NEW p \in Elements, PushPacket(p)
  PROVE  Accounted
<1>1. /\ Tidy(queue, ElementNumber) /\ Numbers(ElementNumber)
      /\ p \in DOMAIN ElementNumber /\ ElementNumber[p] = p.seq
  BY ElementNumbers DEF QueueInv
<1>2. Tidy(Push(queue, p.seq, p, strategy).queue, ElementNumber) BY <1>1, TidyPush
<1>3. LET r == Push(queue, p.seq, p, strategy)
      IN Held(r.queue) \cup r.dropped = Held(queue) \cup {p} /\ ~SeqLt(r.queue.begin, queue.begin)
  BY <1>1, PushHolds
<1> QED BY <1>2, <1>3 DEF PushPacket, Accounted

\* begin moves on by no more than the window is long.
LEMMA MovesOn ==
  ASSUME QueueInv, NEW n \in 0 .. queue.count
  PROVE  ~SeqLt(At(queue, n), queue.begin)
<1>1. queue.begin \in SeqNums /\ n \in 0 .. SeqHalf - 1
  BY QSizeAssumption, SeqHalfAssumption DEF QueueInv, QueueTypes
<1> QED BY <1>1, NotBehind DEF At

LEMMA PullAccounted ==
  ASSUME QueueInv, PullHead
  PROVE  Accounted
<1>1. 1 \in 0 .. queue.count BY DEF QueueInv, QueueTypes, PullHead, PullMoves
<1>2. Tidy(queue, ElementNumber) /\ Numbers(ElementNumber) BY ElementNumbers DEF QueueInv
<1>3. /\ queue' = DropFirst(queue, 1)
      /\ call'.in = {} /\ call'.out = {SlotAt(queue, 0).user} \ {NoUser}
  BY DEF PullHead, Pull, Pulled
<1>4. {SlotAt(queue, i).user : i \in 0 .. 1 - 1} = {SlotAt(queue, 0).user}
  <2>1. 0 .. 1 - 1 = {0} OBVIOUS
  <2> QED BY <2>1
<1>5. Held(queue') \cup call'.out = Held(queue) BY <1>1, <1>2, <1>3, <1>4, DropFirstHolds
<1>6. Tidy(queue', ElementNumber) BY <1>1, <1>2, <1>3, TidyDropFirst
<1>7. queue'.begin = At(queue, 1) BY <1>3 DEF DropFirst
<1> QED BY <1>1, <1>3, <1>5, <1>6, <1>7, MovesOn DEF Accounted

LEMMA DropAccounted ==
  ASSUME QueueInv, NEW i \in Offsets(queue), DropAtOffset(i)
  PROVE  Accounted
<1>1. Tidy(queue, ElementNumber) /\ Numbers(ElementNumber) BY ElementNumbers DEF QueueInv
<1>2. Tidy(queue', ElementNumber) BY <1>1, TidyDropAt DEF DropAtOffset
<1>3. LET r == DropAt(queue, i)
      IN Held(r.queue) \cup r.dropped = Held(queue) /\ r.queue.begin = queue.begin
  BY <1>1, DropAtHolds
<1>4. queue.begin \in SeqNums /\ ~SeqLt(queue.begin, queue.begin)
  BY SeqHalfAssumption DEF QueueInv, QueueTypes, SeqLt, SeqNums, SeqMod
<1> QED BY <1>2, <1>3, <1>4 DEF DropAtOffset, Accounted

LEMMA SkipAccounted ==
  ASSUME QueueInv, NEW n \in Offsets(queue), SkipGap(n)
  PROVE  Accounted
<1>1. Tidy(queue, ElementNumber) /\ Numbers(ElementNumber) BY ElementNumbers DEF QueueInv
<1>2. n \in 0 .. queue.count BY QSizeAssumption DEF QueueInv, QueueTypes, Offsets
<1>3. queue' = SkipHead(queue, n) /\ call'.in = {} /\ call'.out = {} BY DEF SkipGap
<1>4. Tidy(queue', ElementNumber) BY <1>1, TidySkip DEF SkipGap
<1>5. Held(queue') = Held(queue) BY <1>1, SkipHolds DEF SkipGap
<1>6. queue'.begin = At(queue, n) BY <1>3 DEF SkipHead, QueueInv, QueueTypes
<1> QED BY <1>2, <1>3, <1>4, <1>5, <1>6, MovesOn DEF Accounted

LEMMA QueueAccounted == QueueInv /\ NextQueue => Accounted
<1> SUFFICES ASSUME QueueInv, NextQueue PROVE Accounted OBVIOUS
<1>1. CASE PullNothing
  <2>1. queue.begin \in SeqNums /\ ~SeqLt(queue.begin, queue.begin)
    BY SeqHalfAssumption DEF QueueInv, QueueTypes, SeqLt, SeqNums, SeqMod
  <2> QED BY <1>1, <2>1 DEF PullNothing, Accounted, QueueInv
<1> QED BY <1>1, PushAccounted, PullAccounted, DropAccounted, SkipAccounted DEF NextQueue

\* The packets a call gives back are packets of the window or the new one.
LEMMA NextQueueInv == QueueInv /\ [NextQueue]_queueVars => QueueInv'
<1> SUFFICES ASSUME QueueInv, [NextQueue]_queueVars PROVE QueueInv' OBVIOUS
<1>1. CASE UNCHANGED queueVars BY <1>1 DEF queueVars, QueueInv, QueueTypes
<1>2. CASE NextQueue
  <2>1. Accounted BY <1>2, QueueAccounted
  <2>2. strategy' \in {"Begin", "End"}
    BY <1>2 DEF QueueInv, QueueTypes, NextQueue, PushPacket, PullHead, PullNothing,
                DropAtOffset, SkipGap
  <2>3. /\ call' = [op |-> call'.op, in |-> call'.in, out |-> call'.out]
        /\ call'.op \in {"new", "push", "pull", "drop_at", "skip_head"}
        /\ call'.in \subseteq Elements
    BY <1>2 DEF NextQueue, PushPacket, PullHead, PullNothing, DropAtOffset, SkipGap
  <2>4. Held(queue) \subseteq Elements BY HeldPackets, ElementNumbers DEF QueueInv
  <2>5. call'.out \subseteq Elements BY <2>1, <2>3, <2>4 DEF Accounted
  <2>6. queue' \in Queues(ElementNumber) BY <2>1 DEF Accounted, Tidy
  <2> HIDE DEF Elements
  <2> QED BY <2>1, <2>2, <2>3, <2>5, <2>6, ElementNumbers
          DEF Accounted, QueueInv, QueueTypes, Queues
<1> QED BY <1>1, <1>2

LEMMA AlwaysQueueInv == SpecQueue => []QueueInv
BY InitQueueInv, NextQueueInv, PTL DEF SpecQueue

\* The queue keeps its types: in particular count never exceeds the ring, which
\* is what the assert!s of push and pull demand.
THEOREM TypeCorrect == SpecQueue => []QueueTypes
BY AlwaysQueueInv, PTL DEF QueueInv

\* Every packet in the ring lies in the window, under its own number, flag set.
THEOREM AlwaysInPlace == SpecQueue => []InPlace
<1>1. QueueInv => \A k \in SlotIds : queue.slots[k].user # NoUser =>
                       queue.slots[k].set /\ \E i \in Offsets(queue) : Idx(At(queue, i)) = k
  BY TidyOffset, ElementNumbers DEF QueueInv, Offsets
<1>2. ASSUME QueueInv, NEW i \in Offsets(queue), SlotAt(queue, i).user # NoUser
      PROVE  SlotAt(queue, i).user.seq = At(queue, i)
  <2>1. Tidy(queue, ElementNumber) BY <1>2 DEF QueueInv
  <2>2. ElementNumber[SlotAt(queue, i).user] = At(queue, i)
    BY <1>2, <2>1, WindowNumbers, ElementNumbers
  <2>3. SlotAt(queue, i).user \in Held(queue) BY <1>2 DEF Held
  <2>4. SlotAt(queue, i).user \in Elements BY <2>1, <2>3, HeldPackets, ElementNumbers
  <2> QED BY <2>2, <2>4, ElementNumbers
<1>3. QueueInv => InPlace
  BY <1>1, <1>2 DEF InPlace
<1> QED BY <1>3, AlwaysQueueInv, PTL

\* Every packet a call takes is held, returned or given to the drop callback,
\* and no call loses one the queue held before.
THEOREM NothingIsLost == SpecQueue => NothingLost
<1>1. QueueInv /\ [NextQueue]_queueVars =>
        [Held(queue') \cup call'.out = Held(queue) \cup call'.in]_queueVars
  BY QueueAccounted DEF Accounted
<1> QED BY <1>1, AlwaysQueueInv, PTL DEF SpecQueue, NothingLost

\* The window never moves back, half the number space included.
THEOREM NeverMovesBack == SpecQueue => NeverBack
<1>1. QueueInv /\ [NextQueue]_queueVars => [~SeqLt(queue'.begin, queue.begin)]_queueVars
  BY QueueAccounted DEF Accounted
<1> QED BY <1>1, AlwaysQueueInv, PTL DEF SpecQueue, NeverBack

\* A push displaces nothing under End, and under Begin only packets QSize or more
\* numbers behind the new one.
THEOREM EvictsOnlyOldest == SpecQueue => OnlyOldestEvicted
<1>1. ASSUME QueueInv, NextQueue, call'.op = "push",
             NEW u \in Held(queue) \ Held(queue')
      PROVE  /\ strategy = "Begin"
             /\ \A new \in call'.in : SeqDist(u.seq, new.seq) >= QSize
  <2>1. PICK p \in Elements : PushPacket(p)
    BY <1>1 DEF NextQueue, PullHead, PullNothing, DropAtOffset, SkipGap
  <2>2. /\ Tidy(queue, ElementNumber) /\ Numbers(ElementNumber)
        /\ p \in DOMAIN ElementNumber /\ ElementNumber[p] = p.seq
    BY <1>1, ElementNumbers DEF QueueInv
  <2>3. u \in Elements BY <1>1, <2>2, HeldPackets, ElementNumbers
  <2>4. u \notin Held(Push(queue, ElementNumber[p], p, strategy).queue) /\ call'.in = {p}
    BY <1>1, <2>1, <2>2 DEF PushPacket
  <2>5. strategy # "End" /\ SeqDist(ElementNumber[u], ElementNumber[p]) >= QSize
    BY <1>1, <2>2, <2>4, PushEvicts
  <2> QED BY <1>1, <2>2, <2>3, <2>4, <2>5, ElementNumbers DEF QueueInv, QueueTypes
<1>2. QueueInv /\ [NextQueue]_queueVars =>
        [call'.op = "push" =>
           \A p \in Held(queue) \ Held(queue') :
             strategy = "Begin" /\ \A new \in call'.in : SeqDist(p.seq, new.seq) >= QSize]_queueVars
  BY <1>1
<1> QED BY <1>2, AlwaysQueueInv, PTL DEF SpecQueue, OnlyOldestEvicted
=============================================================================
