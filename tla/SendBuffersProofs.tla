------------------------- MODULE SendBuffersProofs -------------------------
(***************************************************************************)
(* The two send buffers (takionsendbuffer.rs, rudpsendbuffer.rs), for any  *)
(* number of senders and messages and with any order of the senders, the   *)
(* send buffer thread, the acks and the time: a message that is not        *)
(* confirmed is kept, or was refused or given up.  And the requests over   *)
(* RUDP (send_recv of rudp.rs) run out of tries only when as many answers  *)
(* were late or lost as there are tries.                                   *)
(*                                                                         *)
(* The first part is about the recursions of the model, Vec::retain and    *)
(* the scan of take_expired_resends.  The provers have no induction over   *)
(* the numbers, but they know that a set of numbers that is not empty has  *)
(* a least one, and the least step at which something fails has one before *)
(* it at which it does not.                                                *)
(***************************************************************************)
EXTENDS SendBuffers, SequenceTheorems, FiniteSetTheorems, WellFoundedInduction, TLAPS
-----------------------------------------------------------------------------
(* Recursions over numbers *)

LEMMA NatMin ==
  ASSUME NEW T, T \subseteq Nat, T # {}
  PROVE  \E x \in T : \A y \in T : x <= y
<1>1. PICK x \in T : \A y \in T : ~(<<y, x>> \in OpToRel(<, Nat))
  <2> HIDE DEF OpToRel
  <2> QED BY NatLessThanWellFounded, WFMin
<1>2. \A y \in T : ~(y < x) BY <1>1 DEF OpToRel
<1> QED BY <1>2

\* Whatever holds of the first of the steps 0 .. N and passes from each to the next
\* holds of the last.
LEMMA StepByStep ==
  ASSUME NEW N \in Nat, NEW good, good \subseteq 0 .. N, 0 \in good,
         \A k \in 1 .. N : k - 1 \in good => k \in good
  PROVE  good = 0 .. N
<1> SUFFICES ASSUME (0 .. N) \ good # {} PROVE FALSE OBVIOUS
<1> DEFINE bad == (0 .. N) \ good
<1>0. bad \subseteq Nat /\ bad # {} OBVIOUS
<1>1. PICK x \in bad : \A y \in bad : x <= y
  <2> HIDE DEF bad
  <2> QED BY <1>0, NatMin
<1>2. x \in 1 .. N /\ x - 1 \notin bad /\ x - 1 \in 0 .. N BY <1>1
<1> QED BY <1>1, <1>2

\* A recursion over 0 .. N that stays in a set has a value at each of them.
Steps(N, S) == [1 .. N -> [S -> S]]
Iteration(N, S, s0, step, f) ==
  f \in [0 .. N -> S] /\ f[0] = s0 /\ \A k \in 1 .. N : f[k] = step[k][f[k - 1]]

LEMMA Iterates ==
  ASSUME NEW N \in Nat, NEW S, NEW s0 \in S, NEW step \in Steps(N, S)
  PROVE  \E f : Iteration(N, S, s0, step, f)
<1> DEFINE Upto(n) == \E f \in [0 .. n -> S] :
                        f[0] = s0 /\ \A k \in 1 .. n : f[k] = step[k][f[k - 1]]
           good == {n \in 0 .. N : Upto(n)}
<1>1. Upto(0)
  <2> DEFINE f == [k \in 0 .. 0 |-> s0]
  <2>1. f \in [0 .. 0 -> S] /\ f[0] = s0 /\ 1 .. 0 = {} OBVIOUS
  <2> HIDE DEF f
  <2> QED BY <2>1
<1>2. ASSUME NEW n \in 1 .. N, Upto(n - 1) PROVE Upto(n)
  <2>1. PICK f \in [0 .. n - 1 -> S] :
          f[0] = s0 /\ \A k \in 1 .. n - 1 : f[k] = step[k][f[k - 1]]
    BY <1>2
  <2> DEFINE g == [k \in 0 .. n |-> IF k < n THEN f[k] ELSE step[n][f[n - 1]]]
  <2>2. f[n - 1] \in S /\ step[n] \in [S -> S] BY <2>1 DEF Steps
  <2>3. g \in [0 .. n -> S]
    <3>1. \A k \in 0 .. n : k < n => f[k] \in S BY <2>1
    <3>2. step[n][f[n - 1]] \in S BY <2>2
    <3> QED BY <3>1, <3>2
  <2>4. g[0] = s0 BY <2>1
  <2>5. ASSUME NEW k \in 1 .. n PROVE g[k] = step[k][g[k - 1]]
    <3>1. g[k - 1] = f[k - 1] OBVIOUS
    <3>2. CASE k < n BY <3>1, <3>2, <2>1
    <3>3. CASE k = n BY <3>1, <3>3
    <3> QED BY <3>2, <3>3
  <2> HIDE DEF g
  <2> QED BY <2>3, <2>4, <2>5
<1>3. good = 0 .. N
  <2>1. good \subseteq 0 .. N /\ 0 \in good BY <1>1
  <2>2. ASSUME NEW k \in 1 .. N, k - 1 \in good PROVE k \in good
    <3> HIDE DEF Upto
    <3> QED BY <2>2, <1>2
  <2> HIDE DEF good
  <2> QED BY <2>1, <2>2, StepByStep
<1> HIDE DEF Upto
<1>4. Upto(N) BY <1>3
<1> QED BY <1>4 DEF Upto, Iteration

\* Retaining keeps elements at kept places and no others.
LEMMA RetainedIs ==
  ASSUME NEW S, NEW s \in Seq(S), NEW places
  PROVE  LET r == Retained(s, places)
         IN /\ r \in Seq(S) /\ Len(r) <= Len(s)
            /\ \A i \in 1 .. Len(r) : \E j \in 1 .. Len(s) : j \in places /\ r[i] = s[j]
            /\ \A j \in 1 .. Len(s) : j \in places => \E i \in 1 .. Len(r) : r[i] = s[j]
<1> DEFINE N == Len(s)
           T == Seq(S)
           e == <<>>
           step == [k \in 1 .. N |-> [x \in T |-> IF k \in places THEN Append(x, s[k]) ELSE x]]
           Rec(f) == f = [k \in 0 .. N |->
                        IF k = 0 THEN <<>>
                        ELSE IF k \in places THEN Append(f[k - 1], s[k]) ELSE f[k - 1]]
<1>1. N \in Nat /\ DOMAIN s = 1 .. N /\ \A k \in 1 .. N : s[k] \in S
  BY LenProperties, ElementOfSeq
<1>2. e \in T BY EmptySeq
<1>3. step \in Steps(N, T)
  <2>1. \A k \in 1 .. N, x \in T : Append(x, s[k]) \in T BY <1>1, AppendProperties
  <2> QED BY <2>1 DEF Steps
<1>4. PICK f : Iteration(N, T, e, step, f)
  <2> HIDE DEF step, T, e, N
  <2> QED BY <1>1, <1>2, <1>3, Iterates
<1>5. ASSUME NEW k \in 1 .. N
      PROVE  f[k] = IF k \in places THEN Append(f[k - 1], s[k]) ELSE f[k - 1]
  <2>1. f[k - 1] \in T
    <3> HIDE DEF T, N
    <3> QED BY <1>1, <1>4 DEF Iteration
  <2>2. f[k] = step[k][f[k - 1]]
    <3> HIDE DEF T, N, step
    <3> QED BY <1>4 DEF Iteration
  <2> HIDE DEF T
  <2> QED BY <2>1, <2>2
<1> DEFINE F == [k \in 0 .. N |->
                  IF k = 0 THEN <<>>
                  ELSE IF k \in places THEN Append(f[k - 1], s[k]) ELSE f[k - 1]]
<1>6. Rec(f)
  <2>1. f = [k \in 0 .. N |-> f[k]] BY <1>4 DEF Iteration
  <2>2. f[0] = <<>> BY <1>4 DEF Iteration
  <2>3. \A k \in 0 .. N : f[k] = F[k]
    <3>1. ASSUME NEW k \in 0 .. N PROVE f[k] = F[k]
      <4>1. CASE k = 0 BY <4>1, <2>2
      <4>2. CASE k # 0
        <5>1. k \in 1 .. N BY <4>2, <1>1
        <5> HIDE DEF N
        <5> QED BY <5>1, <4>2, <1>5
      <4> QED BY <4>1, <4>2
    <3> QED BY <3>1
  <2>4. F = [k \in 0 .. N |-> F[k]] OBVIOUS
  <2>5. f = F
    <3> HIDE DEF F
    <3> QED BY <2>1, <2>3, <2>4
  <2> QED BY <2>5
<1> DEFINE left == CHOOSE g : Rec(g)
<1>7. Rec(left) BY <1>6
<1>8. Retained(s, places) = left[N] BY DEF Retained
<1> HIDE DEF left
<1>9. left[0] = <<>> BY <1>1, <1>7
<1>10. ASSUME NEW k \in 1 .. N
       PROVE  left[k] = IF k \in places THEN Append(left[k - 1], s[k]) ELSE left[k - 1]
  <2>1. k \in 0 .. N /\ k # 0 BY <1>1
  <2> QED BY <1>7, <2>1
<1> HIDE DEF Rec, step, F, N
<1> DEFINE Is(k) ==
             /\ left[k] \in Seq(S) /\ Len(left[k]) <= k
             /\ \A i \in 1 .. Len(left[k]) : \E j \in 1 .. k : j \in places /\ left[k][i] = s[j]
             /\ \A j \in 1 .. k : j \in places => \E i \in 1 .. Len(left[k]) : left[k][i] = s[j]
           good == {k \in 0 .. N : Is(k)}
<1>11. Is(0) BY <1>9, EmptySeq
<1>12. ASSUME NEW k \in 1 .. N, Is(k - 1) PROVE Is(k)
  <2>1. left[k - 1] \in Seq(S) /\ Len(left[k - 1]) \in Nat BY <1>12, LenProperties
  <2>2. CASE k \notin places
    <3>1. left[k] = left[k - 1] BY <2>2, <1>10
    <3> QED BY <3>1, <2>2, <1>1, <1>12, <2>1
  <2>3. CASE k \in places
    <3>1. left[k] = Append(left[k - 1], s[k]) BY <2>3, <1>10
    <3> DEFINE m == Len(left[k - 1])
               a == left[k - 1]
               b == left[k]
    <3>2. /\ b \in Seq(S) /\ Len(b) = m + 1
          /\ b[m + 1] = s[k] /\ \A i \in 1 .. m : b[i] = a[i]
      BY <3>1, <2>1, <1>1, AppendProperties
    <3>3. m \in Nat /\ m <= k - 1 BY <1>12, <2>1
    <3>4. \A i \in 1 .. m : \E j \in 1 .. k - 1 : j \in places /\ a[i] = s[j] BY <1>12
    <3>5. \A j \in 1 .. k - 1 : j \in places => \E i \in 1 .. m : a[i] = s[j] BY <1>12
    <3> HIDE DEF m, a, b
    <3>6. \A i \in 1 .. Len(b) : \E j \in 1 .. k : j \in places /\ b[i] = s[j]
      BY <3>2, <3>3, <3>4, <2>3, <1>1
    <3>7. \A j \in 1 .. k : j \in places => \E i \in 1 .. Len(b) : b[i] = s[j]
      BY <3>2, <3>3, <3>5, <1>1
    <3> QED BY <3>2, <3>3, <3>6, <3>7, <1>1 DEF b
  <2> QED BY <2>2, <2>3
<1>13. good = 0 .. N
  <2>1. good \subseteq 0 .. N /\ 0 \in good BY <1>1, <1>11
  <2>2. ASSUME NEW k \in 1 .. N, k - 1 \in good PROVE k \in good
    <3> HIDE DEF Is
    <3> QED BY <2>2, <1>12
  <2> HIDE DEF good
  <2> QED BY <1>1, <2>1, <2>2, StepByStep
<1> HIDE DEF Is
<1>14. Is(N) BY <1>1, <1>13
<1> QED BY <1>1, <1>8, <1>14 DEF Is, N
-----------------------------------------------------------------------------
\* What is received without a gap is a row 1 .. m, and m is how many that are.
LEMMA RowIs ==
  ASSUME NEW M \in Nat, NEW R \in SUBSET (1 .. M)
  PROVE  LET row == {n \in R : 1 .. n \subseteq R}
         IN /\ Cardinality(row) \in 0 .. M /\ 1 .. Cardinality(row) \subseteq R
            /\ row # {} => Cardinality(row) \in 1 .. M
<1> DEFINE absent == {n \in Nat \ {0} : n \notin R}
           row == {n \in R : 1 .. n \subseteq R}
<1>1. absent \subseteq Nat /\ M + 1 \in absent OBVIOUS
<1>2. PICK x \in absent : \A y \in absent : x <= y
  <2> HIDE DEF absent
  <2> QED BY <1>1, NatMin
<1>3. x \in 1 .. M + 1 /\ x \notin R /\ \A y \in 1 .. x - 1 : y \in R BY <1>1, <1>2
<1>4. row = 1 .. x - 1
  <2>1. ASSUME NEW n \in row PROVE n \in 1 .. x - 1
    <3>1. n \in 1 .. M /\ 1 .. n \subseteq R OBVIOUS
    <3>2. x \notin 1 .. n BY <3>1, <1>3
    <3> QED BY <3>1, <3>2, <1>3
  <2>2. ASSUME NEW n \in 1 .. x - 1 PROVE n \in row
    <3>1. n \in R /\ \A y \in 1 .. n : y \in 1 .. x - 1 BY <1>3
    <3> QED BY <3>1, <1>3
  <2> QED BY <2>1, <2>2
<1>5. Cardinality(1 .. x - 1) = x - 1
  <2>1. 1 \in Int /\ x - 1 \in Int BY <1>3
  <2>2. Cardinality(1 .. x - 1) = IF 1 > x - 1 THEN 0 ELSE (x - 1) - 1 + 1 BY <2>1, FS_Interval
  <2> QED BY <2>2, <1>3
<1> DEFINE c == Cardinality(row)
<1>6. c = x - 1 BY <1>4, <1>5
<1>7. c \in 0 .. M /\ (row # {} => c \in 1 .. M) BY <1>3, <1>4, <1>6
<1>8. 1 .. c \subseteq R BY <1>3, <1>6
<1> QED BY <1>7, <1>8, Zenon
-----------------------------------------------------------------------------
(* Takion *)

\* An ack covers messages up to its own only: less than half the numbers are used.
LEMMA CoversOlder ==
  ASSUME NEW a \in 1 .. Messages, NEW n \in 1 .. Messages, Covers(a, n)
  PROVE  n <= a
BY MessagesAssumption, SeqHalfAssumption
   DEF Covers, SeqOf, SeqAdd, SeqLt, SeqNums, SeqMod

LEMMA UncoveredIs ==
  ASSUME NEW b \in Seq(Packet), NEW a
  PROVE  /\ Uncovered(a, b) \in Seq(Packet) /\ Len(Uncovered(a, b)) <= Len(b)
         /\ \A i \in 1 .. Len(Uncovered(a, b)) : \E j \in 1 .. Len(b) : Uncovered(a, b)[i] = b[j]
         /\ \A j \in 1 .. Len(b) : \/ Covers(a, b[j].n)
                                   \/ \E i \in 1 .. Len(Uncovered(a, b)) : Uncovered(a, b)[i] = b[j]
<1> DEFINE places == {i \in DOMAIN b : ~Covers(a, b[i].n)}
<1>1. DOMAIN b = 1 .. Len(b) BY LenProperties
<1>2. Uncovered(a, b) = Retained(b, places) BY DEF Uncovered
<1>3. \A j \in 1 .. Len(b) : j \in places \/ Covers(a, b[j].n) BY <1>1
<1> HIDE DEF places
<1> QED BY <1>2, <1>3, RetainedIs

\* What a scan has made of the buffer so far: no packet has gone unnoticed.
Scans == {s \in [buffer : Seq(Packet), i : Nat \ {0},
                 resend : SUBSET (1 .. Messages), gone : SUBSET (1 .. Messages)] :
            /\ Len(s.buffer) <= BufferSize
            /\ \A n \in Buffered : n \in s.gone \/ \E k \in 1 .. Len(s.buffer) : s.buffer[k].n = n}

BufferType == buffer \in Seq(Packet) /\ Len(buffer) <= BufferSize /\ lag \in 0 .. MaxLag

LEMMA BufferedIs ==
  ASSUME buffer \in Seq(Packet)
  PROVE  Buffered = {buffer[i].n : i \in 1 .. Len(buffer)} /\ Buffered \subseteq 1 .. Messages
<1>1. DOMAIN buffer = 1 .. Len(buffer) /\ \A i \in 1 .. Len(buffer) : buffer[i] \in Packet
  BY LenProperties, ElementOfSeq
<1>2. \A p \in Packet : p.n \in 1 .. Messages BY DEF Packet
<1> QED BY <1>1, <1>2 DEF Buffered

LEMMA ScanStepStays ==
  ASSUME BufferType, NEW s \in Scans
  PROVE  ScanStep(s) \in Scans
<1> DEFINE p == s.buffer[s.i]
           R == [buffer : Seq(Packet), i : Nat \ {0},
                 resend : SUBSET (1 .. Messages), gone : SUBSET (1 .. Messages)]
<1>1. s \in R /\ Len(s.buffer) <= BufferSize BY DEF Scans
<1>2. s.buffer \in Seq(Packet) /\ Len(s.buffer) \in Nat /\ s.i \in Nat \ {0}
  BY <1>1, LenProperties
<1>3. CASE s.i > Len(s.buffer) BY <1>3 DEF ScanStep
<1>4. CASE s.i <= Len(s.buffer) /\ ~Expired(p)
  <2>1. ScanStep(s) = [s EXCEPT !.i = @ + 1] BY <1>2, <1>4 DEF ScanStep
  <2> QED BY <2>1, <1>2 DEF Scans
<1>5. CASE s.i <= Len(s.buffer) /\ Expired(p) /\ p.tries >= TriesMax
  <2> DEFINE b == Uncovered(p.n, s.buffer)
             g == {n \in Buffered : Covers(p.n, n)}
  <2>1. ScanStep(s) = [s EXCEPT !.buffer = b, !.gone = @ \cup g] BY <1>2, <1>5 DEF ScanStep
  <2>2. b \in Seq(Packet) /\ Len(b) <= Len(s.buffer) /\ Len(b) \in Nat
    BY <1>2, UncoveredIs, LenProperties
  <2>3. g \subseteq 1 .. Messages BY BufferedIs DEF BufferType
  <2>4. ASSUME NEW n \in Buffered
        PROVE  n \in s.gone \cup g \/ \E k \in 1 .. Len(b) : b[k].n = n
    <3>1. CASE n \in s.gone BY <3>1
    <3>2. CASE \E k \in 1 .. Len(s.buffer) : s.buffer[k].n = n
      <4>1. PICK k \in 1 .. Len(s.buffer) : s.buffer[k].n = n BY <3>2
      <4>2. CASE Covers(p.n, s.buffer[k].n) BY <4>1, <4>2
      <4>3. CASE \E i \in 1 .. Len(b) : b[i] = s.buffer[k] BY <4>1, <4>3
      <4> HIDE DEF p
      <4> QED BY <4>2, <4>3, <1>2, UncoveredIs
    <3> QED BY <3>1, <3>2 DEF Scans
  <2> HIDE DEF b, g
  <2>5. ScanStep(s) \in R /\ ScanStep(s).buffer = b /\ ScanStep(s).gone = s.gone \cup g
    BY <2>1, <2>2, <2>3, <1>1
  <2>6. Len(b) <= BufferSize BY <2>2, <1>1, <1>2, MessagesAssumption
  <2> HIDE DEF R
  <2> QED BY <2>4, <2>5, <2>6 DEF Scans, R
<1>6. CASE s.i <= Len(s.buffer) /\ Expired(p) /\ ~(p.tries >= TriesMax)
  <2> DEFINE q == [p EXCEPT !.tries = @ + 1, !.age = lag]
             b == [s.buffer EXCEPT ![s.i] = q]
  <2>1. p \in Packet BY <1>2, <1>6, ElementOfSeq
  <2>2. q \in Packet /\ q.n = p.n
    <3>1. p.tries \in 0 .. TriesMax /\ p.n \in 1 .. Messages BY <2>1 DEF Packet
    <3>2. p.tries + 1 \in 0 .. TriesMax BY <3>1, <1>6, MessagesAssumption
    <3>3. lag \in 0 .. AgeMax BY MessagesAssumption DEF AgeMax, BufferType
    <3> HIDE DEF p
    <3> QED BY <2>1, <3>1, <3>2, <3>3 DEF Packet
  <2>3. ScanStep(s) = [s EXCEPT !.buffer = b, !.resend = @ \cup {p.n}, !.i = @ + 1]
    BY <1>2, <1>6, <1>1 DEF ScanStep
  <2>4. /\ b \in Seq(Packet) /\ Len(b) = Len(s.buffer)
        /\ \A k \in 1 .. Len(s.buffer) : b[k].n = s.buffer[k].n
    <3>1. s.i \in 1 .. Len(s.buffer) BY <1>2, <1>6
    <3> HIDE DEF q
    <3>2. b \in Seq(Packet) /\ Len(b) = Len(s.buffer) BY <3>1, <1>2, <2>2, ExceptSeq, LenProperties
    <3>3. DOMAIN s.buffer = 1 .. Len(s.buffer) BY <1>2, LenProperties
    <3> QED BY <3>1, <3>2, <3>3, <2>2
  <2>5. p.n \in 1 .. Messages BY <2>1 DEF Packet
  <2> DEFINE again == s.resend \cup {p.n}
             next == s.i + 1
  <2>6. again \in SUBSET (1 .. Messages) /\ next \in Nat \ {0} BY <2>5, <1>1
  <2>9. ScanStep(s) = [s EXCEPT !.buffer = b, !.resend = again, !.i = next] BY <2>3
  <2> HIDE DEF b, q, p, again, next
  <2>10. /\ ScanStep(s) \in R /\ ScanStep(s).buffer = b /\ ScanStep(s).gone = s.gone
    BY <2>9, <2>4, <2>6, <1>1
  <2>7. \A n \in Buffered : n \in s.gone \/ \E k \in 1 .. Len(b) : b[k].n = n
    BY <2>4 DEF Scans
  <2>8. Len(b) <= BufferSize BY <2>4, <1>1
  <2> HIDE DEF R
  <2> QED BY <2>10, <2>7, <2>8 DEF Scans, R
<1> QED BY <1>2, <1>3, <1>4, <1>5, <1>6

\* A scan loses no packet, whichever it repeats and gives up.
LEMMA ScannedIs ==
  ASSUME BufferType
  PROVE  Scanned \in Scans
<1> DEFINE N == Len(buffer)
           s0 == [buffer |-> buffer, i |-> 1, resend |-> {}, gone |-> {}]
           step == [k \in 1 .. N |-> [s \in Scans |-> ScanStep(s)]]
           F(f) == [k \in 0 .. N |-> IF k = 0 THEN s0 ELSE ScanStep(f[k - 1])]
<1>1. N \in Nat BY LenProperties DEF BufferType
<1>2. s0 \in Scans
  <2>1. \A n \in Buffered : \E k \in 1 .. Len(buffer) : buffer[k].n = n
    BY BufferedIs DEF BufferType
  <2> QED BY <2>1 DEF Scans, BufferType
<1>3. step \in Steps(N, Scans) BY ScanStepStays DEF Steps
<1>4. PICK f : Iteration(N, Scans, s0, step, f)
  <2> HIDE DEF N, s0, step
  <2> QED BY <1>1, <1>2, <1>3, Iterates
<1> HIDE DEF s0
<1>5. ASSUME NEW k \in 1 .. N PROVE f[k] = ScanStep(f[k - 1])
  <2>1. f[k - 1] \in Scans
    <3> HIDE DEF N
    <3> QED BY <1>1, <1>4 DEF Iteration
  <2>2. f[k] = step[k][f[k - 1]]
    <3> HIDE DEF N, step
    <3> QED BY <1>4 DEF Iteration
  <2> QED BY <2>1, <2>2
<1>6. f = F(f)
  <2>1. f = [k \in 0 .. N |-> f[k]] BY <1>4 DEF Iteration
  <2>2. f[0] = s0 BY <1>4 DEF Iteration
  <2>3. \A k \in 0 .. N : f[k] = F(f)[k]
    <3>1. ASSUME NEW k \in 0 .. N PROVE f[k] = F(f)[k]
      <4>1. CASE k = 0 BY <4>1, <2>2
      <4>2. CASE k # 0
        <5>1. k \in 1 .. N BY <4>2, <1>1
        <5> HIDE DEF N
        <5> QED BY <5>1, <4>2, <1>5
      <4> QED BY <4>1, <4>2
    <3> QED BY <3>1
  <2>4. F(f) = [k \in 0 .. N |-> F(f)[k]] OBVIOUS
  <2> HIDE DEF F
  <2> QED BY <2>1, <2>3, <2>4
<1> DEFINE after == CHOOSE g : g = F(g)
<1>7. after = F(after)
  <2> HIDE DEF F
  <2> QED BY <1>6
<1>8. Scanned = after[N] BY DEF Scanned, s0
<1> HIDE DEF after
<1>9. after[0] = s0 BY <1>1, <1>7
<1>10. ASSUME NEW k \in 1 .. N PROVE after[k] = ScanStep(after[k - 1])
  <2>1. k \in 0 .. N /\ k # 0 BY <1>1
  <2> QED BY <1>7, <2>1
<1> DEFINE good == {k \in 0 .. N : after[k] \in Scans}
<1>11. good = 0 .. N
  <2> HIDE DEF N, F
  <2>1. good \subseteq 0 .. N /\ 0 \in good BY <1>1, <1>2, <1>9
  <2>2. ASSUME NEW k \in 1 .. N, k - 1 \in good PROVE k \in good
    BY <1>1, <1>10, <2>2, ScanStepStays
  <2> HIDE DEF good
  <2> QED BY <1>1, <2>1, <2>2, StepByStep
<1>12. N \in good BY <1>1, <1>11
<1> QED BY <1>8, <1>12
-----------------------------------------------------------------------------
(* Takion: the invariant *)

\* An ack on its way, or one that was handled, is of a message whose row is complete.
Confirmed == \A a \in acks \cup acked : 1 .. a \subseteq received

\* A sender has a message in its hands from its number to the buffer.
Busy == \A t \in Senders : pc[t] = "idle" <=> holds[t] = None

Kept(n) == 1 .. n \subseteq received \/ n \in Buffered \cup abandoned \/ \E t \in Senders : holds[t] = n

TakionInv == TypeOK /\ Busy /\ Confirmed /\ \A n \in 1 .. taken : Kept(n)

LEMMA TakionInit == ASSUME Init PROVE TakionInv
<1>1. <<>> \in Seq(Packet) /\ Len(<<>>) = 0 BY EmptySeq
<1> QED BY <1>1, MessagesAssumption DEF Init, TakionInv, TypeOK, Busy, Confirmed

\* The steps of the senders.
LEMMA SendersKeep ==
  ASSUME TakionInv, NEW t \in Senders, TakeSeqNum(t) \/ SendPacket(t) \/ SendFails(t) \/ AddToBuffer(t)
  PROVE  TakionInv'
<1> USE DEF sender, thread, console
<1>0. TypeOK /\ Busy /\ Confirmed /\ (\A n \in 1 .. taken : Kept(n)) BY DEF TakionInv
<1>1. pc[t] # "idle" => holds[t] \in 1 .. Messages BY <1>0 DEF TypeOK, Busy
<1>2. CASE TakeSeqNum(t)
  <2>1. TypeOK' BY <1>0, <1>2, MessagesAssumption DEF TypeOK, TakeSeqNum
  <2>2. Busy' BY <1>0, <1>2, MessagesAssumption DEF TypeOK, TakeSeqNum, Busy
  <2>3. Confirmed' BY <1>0, <1>2 DEF TakeSeqNum, Confirmed
  <2>4. ASSUME NEW n \in 1 .. taken' PROVE Kept(n)'
    <3>1. CASE n = taken + 1 BY <3>1, <1>0, <1>2 DEF TypeOK, TakeSeqNum, Kept
    <3>2. CASE n # taken + 1
      <4>1. n \in 1 .. taken BY <3>2, <1>0, <1>2 DEF TypeOK, TakeSeqNum
      <4>2. holds[t] = None /\ n # None BY <4>1, <1>0, <1>2, MessagesAssumption DEF TypeOK, Busy, TakeSeqNum
      <4>3. Kept(n) BY <4>1, <1>0
      <4> QED BY <4>2, <4>3, <1>0, <1>2 DEF TypeOK, TakeSeqNum, Kept, Buffered
    <3> QED BY <3>1, <3>2
  <2> QED BY <2>1, <2>2, <2>3, <2>4 DEF TakionInv
<1>3. CASE SendPacket(t)
  <2>1. TypeOK' BY <1>0, <1>1, <1>3 DEF TypeOK, SendPacket
  <2>2. Busy' BY <1>0, <1>3 DEF TypeOK, SendPacket, Busy
  <2>3. Confirmed' BY <1>0, <1>3 DEF SendPacket, Confirmed
  <2>4. \A n \in 1 .. taken' : Kept(n)' BY <1>0, <1>3 DEF SendPacket, Kept, Buffered
  <2> QED BY <2>1, <2>2, <2>3, <2>4 DEF TakionInv
<1>4. CASE SendFails(t)
  <2>1. TypeOK'
    <3>1. pc' \in [Senders -> {"idle", "send", "add"}] /\ holds' \in [Senders -> 1 .. Messages \cup {None}]
      BY <1>0, <1>4 DEF TypeOK, SendFails
    <3>2. failures' \in 0 .. MaxFailures BY <1>0, <1>4, MessagesAssumption DEF TypeOK, SendFails
    <3>3. abandoned' \subseteq 1 .. Messages BY <1>0, <1>1, <1>4 DEF TypeOK, SendFails
    <3> QED BY <1>0, <1>4, <3>1, <3>2, <3>3 DEF TypeOK, SendFails
  <2>2. Busy' BY <1>0, <1>4 DEF TypeOK, SendFails, Busy
  <2>3. Confirmed' BY <1>0, <1>4 DEF SendFails, Confirmed
  <2>4. \A n \in 1 .. taken' : Kept(n)'
    BY <1>0, <1>4 DEF TypeOK, SendFails, Kept, Buffered
  <2> QED BY <2>1, <2>2, <2>3, <2>4 DEF TakionInv
<1>5. CASE AddToBuffer(t)
  <2> DEFINE p == [n |-> holds[t], tries |-> 0, age |-> 0]
  <2>0. holds[t] \in 1 .. Messages BY <1>1, <1>5 DEF AddToBuffer
  <2>1. p \in Packet BY <2>0, MessagesAssumption DEF Packet, AgeMax
  <2>2. buffer \in Seq(Packet) /\ Len(buffer) \in Nat BY <1>0, LenProperties DEF TypeOK
  <2>3. /\ Append(buffer, p) \in Seq(Packet) /\ Len(Append(buffer, p)) = Len(buffer) + 1
        /\ Append(buffer, p)[Len(buffer) + 1] = p
        /\ \A i \in 1 .. Len(buffer) : Append(buffer, p)[i] = buffer[i]
    BY <2>1, <2>2, AppendProperties
  <2>4. p.n = holds[t] OBVIOUS
  <2>5. \/ buffer' = Append(buffer, p) /\ abandoned' = abandoned /\ Len(buffer) < BufferSize
        \/ buffer' = buffer /\ abandoned' = abandoned \cup {holds[t]}
    BY <1>5 DEF AddToBuffer
  <2> HIDE DEF p
  <2>6. buffer' \in Seq(Packet) /\ Len(buffer') <= BufferSize
    BY <2>2, <2>3, <2>5, <1>0, MessagesAssumption DEF TypeOK
  <2>7. \A n : n \in Buffered \cup abandoned \cup {holds[t]} => n \in Buffered' \cup abandoned'
    <3>1. CASE buffer' = buffer /\ abandoned' = abandoned \cup {holds[t]} BY <3>1 DEF Buffered
    <3>2. CASE buffer' = Append(buffer, p) /\ abandoned' = abandoned
      <4>1. DOMAIN buffer' = 1 .. Len(buffer) + 1 /\ DOMAIN buffer = 1 .. Len(buffer)
        BY <2>2, <2>3, <3>2, LenProperties
      <4>2. \A i \in 1 .. Len(buffer) : buffer'[i] = buffer[i] /\ i \in DOMAIN buffer' BY <3>2, <2>2, <2>3, <4>1
      <4>3. buffer'[Len(buffer) + 1] = p /\ Len(buffer) + 1 \in DOMAIN buffer' BY <3>2, <2>2, <2>3, <4>1
      <4> QED BY <3>2, <4>1, <4>2, <4>3, <2>4 DEF Buffered
    <3> QED BY <2>5, <3>1, <3>2
  <2>8. TypeOK'
    <3>1. abandoned' \subseteq 1 .. Messages BY <2>5, <2>0, <1>0 DEF TypeOK
    <3> QED BY <1>0, <1>5, <2>6, <3>1 DEF TypeOK, AddToBuffer
  <2>9. Busy' BY <1>0, <1>5 DEF TypeOK, AddToBuffer, Busy
  <2>10. Confirmed' BY <1>0, <1>5 DEF AddToBuffer, Confirmed
  <2>11. \A n \in 1 .. taken' : Kept(n)'
    BY <1>0, <1>5, <2>7 DEF TypeOK, AddToBuffer, Kept
  <2> QED BY <2>8, <2>9, <2>10, <2>11 DEF TakionInv
<1> QED BY <1>2, <1>3, <1>4, <1>5

\* The steps of the send buffer thread.
LEMMA ThreadKeeps ==
  ASSUME TakionInv, WakeUp \/ Scan \/ Resend
  PROVE  TakionInv'
<1> USE DEF sender, thread, console
<1>0. TypeOK /\ Busy /\ Confirmed /\ (\A n \in 1 .. taken : Kept(n)) BY DEF TakionInv
<1>1. CASE WakeUp
  <2>1. TypeOK' BY <1>0, <1>1 DEF TypeOK, WakeUp
  <2> QED BY <1>0, <1>1, <2>1 DEF WakeUp, TakionInv, Busy, Confirmed, Kept, Buffered
<1>2. CASE Resend
  <2>1. TypeOK' BY <1>0, <1>2 DEF TypeOK, Resend
  <2> QED BY <1>0, <1>2, <2>1 DEF Resend, TakionInv, Busy, Confirmed, Kept, Buffered
<1>3. CASE Scan
  <2> DEFINE s == Scanned
  <2>1. s \in Scans BY <1>0, ScannedIs DEF BufferType, TypeOK
  <2>2. s.buffer \in Seq(Packet) /\ s.resend \subseteq 1 .. Messages /\ s.gone \subseteq 1 .. Messages
        /\ Len(s.buffer) <= BufferSize
        /\ \A n \in Buffered : n \in s.gone \/ \E k \in 1 .. Len(s.buffer) : s.buffer[k].n = n
    BY <2>1 DEF Scans
  <2>3. buffer' = s.buffer /\ toResend' = s.resend /\ abandoned' = abandoned \cup s.gone
    BY <1>3 DEF Scan
  <2> HIDE DEF s
  <2>4. TypeOK'
    <3>1. buffer' \in Seq(Packet) /\ Len(buffer') <= BufferSize BY <2>2, <2>3
    <3>2. toResend' \subseteq 1 .. Messages /\ abandoned' \subseteq 1 .. Messages
      BY <1>0, <2>2, <2>3 DEF TypeOK
    <3>3. rpc' \in {"wait", "scan", "send"} /\ lag' \in 0 .. MaxLag
      BY <1>3, MessagesAssumption DEF Scan
    <3> QED BY <1>0, <1>3, <3>1, <3>2, <3>3 DEF TypeOK, Scan
  <2>5. \A n \in Buffered : n \in Buffered' \cup abandoned'
    <3>1. DOMAIN buffer' = 1 .. Len(buffer') BY <2>2, <2>3, LenProperties
    <3> QED BY <2>2, <2>3, <3>1 DEF Buffered
  <2>6. Busy' /\ Confirmed' BY <1>0, <1>3 DEF Scan, Busy, Confirmed
  <2>7. \A n \in 1 .. taken' : Kept(n)' BY <1>0, <1>3, <2>3, <2>5 DEF Scan, Kept
  <2> QED BY <2>4, <2>6, <2>7 DEF TakionInv
<1> QED BY <1>1, <1>2, <1>3

\* The steps of the receive thread, the console, the network and the time.
LEMMA OthersKeep ==
  ASSUME TakionInv,
         (\E a \in acks : HandleAck(a)) \/ (\E n \in net : ConsoleReceive(n)) \/ Lose \/ Tick
  PROVE  TakionInv'
<1> USE DEF sender, thread, console
<1>0. TypeOK /\ Busy /\ Confirmed /\ (\A n \in 1 .. taken : Kept(n)) BY DEF TakionInv
<1>1. ASSUME NEW a \in acks, HandleAck(a) PROVE TakionInv'
  <2> DEFINE left == Uncovered(a, buffer)
             gone == {n \in Buffered : Covers(a, n)}
  <2>1. a \in 1 .. Messages /\ buffer \in Seq(Packet) BY <1>0 DEF TypeOK
  <2>2. left \in Seq(Packet) /\ Len(left) <= Len(buffer) /\ Len(left) \in Nat /\ Len(buffer) \in Nat
    BY <2>1, UncoveredIs, LenProperties
  <2>3. \A n \in Buffered : n \in gone \/ \E i \in 1 .. Len(left) : left[i].n = n
    <3>1. ASSUME NEW n \in Buffered PROVE n \in gone \/ \E i \in 1 .. Len(left) : left[i].n = n
      <4>1. PICK j \in 1 .. Len(buffer) : buffer[j].n = n BY <2>1, BufferedIs
      <4>2. CASE Covers(a, buffer[j].n) BY <4>1, <4>2
      <4>3. CASE \E i \in 1 .. Len(left) : left[i] = buffer[j] BY <4>1, <4>3
      <4> QED BY <4>2, <4>3, <2>1, UncoveredIs
    <3> QED BY <3>1
  <2>4. \A n \in gone : n \in 1 .. Messages /\ 1 .. n \subseteq received
    <3>1. ASSUME NEW n \in gone PROVE n \in 1 .. Messages /\ 1 .. n \subseteq received
      <4>1. n \in 1 .. Messages /\ Covers(a, n) BY <2>1, BufferedIs
      <4>2. n <= a BY <4>1, <2>1, CoversOlder
      <4>3. 1 .. a \subseteq received BY <1>0 DEF Confirmed
      <4> QED BY <4>1, <4>2, <4>3, <2>1
    <3> QED BY <3>1
  <2>5. buffer' = left /\ acked' = acked \cup gone BY <1>1 DEF HandleAck
  <2> HIDE DEF left, gone
  <2>6. TypeOK'
    <3>1. Len(left) <= BufferSize BY <2>2, <1>0, MessagesAssumption DEF TypeOK
    <3> QED BY <1>0, <1>1, <2>2, <2>4, <2>5, <3>1 DEF TypeOK, HandleAck
  <2>7. Busy' /\ Confirmed' BY <1>0, <1>1, <2>4, <2>5 DEF HandleAck, Busy, Confirmed
  <2>8. \A n \in Buffered : n \in Buffered' \/ 1 .. n \subseteq received
    <3>1. DOMAIN buffer' = 1 .. Len(buffer') BY <2>2, <2>5, LenProperties
    <3> QED BY <2>3, <2>4, <2>5, <3>1 DEF Buffered
  <2>9. \A n \in 1 .. taken' : Kept(n)' BY <1>0, <1>1, <2>8 DEF HandleAck, Kept
  <2> QED BY <2>6, <2>7, <2>9 DEF TakionInv
<1>2. ASSUME NEW n \in net, ConsoleReceive(n) PROVE TakionInv'
  <2> DEFINE row == {k \in received' : 1 .. k \subseteq received'}
             m == Cardinality(row)
  <2>1. received' \in SUBSET (1 .. Messages) /\ received \subseteq received'
    BY <1>0, <1>2 DEF TypeOK, ConsoleReceive
  <2>2. m \in 0 .. Messages /\ 1 .. m \subseteq received' /\ (row # {} => m \in 1 .. Messages)
    BY <2>1, RowIs, MessagesAssumption
  <2>3. acks' = acks \/ (row # {} /\ acks' = acks \cup {m})
    BY <1>2 DEF ConsoleReceive, InOrder
  <2> HIDE DEF m, row
  <2>4. TypeOK' BY <1>0, <1>2, <2>1, <2>2, <2>3 DEF TypeOK, ConsoleReceive
  <2>5. Confirmed'
    <3>1. acked' = acked BY <1>2 DEF ConsoleReceive
    <3> QED BY <1>0, <2>1, <2>2, <2>3, <3>1 DEF Confirmed
  <2>6. Busy' BY <1>0, <1>2 DEF ConsoleReceive, Busy
  <2>7. \A k \in 1 .. taken' : Kept(k)' BY <1>0, <1>2, <2>1 DEF ConsoleReceive, Kept, Buffered
  <2> QED BY <2>4, <2>5, <2>6, <2>7 DEF TakionInv
<1>3. CASE Lose
  <2>1. TypeOK' BY <1>0, <1>3 DEF TypeOK, Lose
  <2> QED BY <1>0, <1>3, <2>1 DEF Lose, TakionInv, Busy, Confirmed, Kept, Buffered
<1>4. CASE Tick
  <2>1. buffer \in Seq(Packet) /\ Len(buffer) \in Nat /\ DOMAIN buffer = 1 .. Len(buffer)
        /\ \A i \in 1 .. Len(buffer) : buffer[i] \in Packet
    BY <1>0, LenProperties, ElementOfSeq DEF TypeOK
  <2>2. \A p \in Packet : Older(p) \in Packet /\ Older(p).n = p.n
    BY MessagesAssumption DEF Older, Packet, AgeMax
  <2>3. buffer' = [i \in 1 .. Len(buffer) |-> Older(buffer[i])] BY <1>4, <2>1 DEF Tick
  <2>4. buffer' \in Seq(Packet) /\ Len(buffer') = Len(buffer) /\ DOMAIN buffer' = 1 .. Len(buffer)
    BY <2>1, <2>2, <2>3, IsASeq, LenProperties
  <2>5. \A n : n \in Buffered => n \in Buffered' BY <2>1, <2>2, <2>3, <2>4 DEF Buffered
  <2>6. TypeOK' BY <1>0, <1>4, <2>4, MessagesAssumption DEF TypeOK, Tick
  <2>7. Busy' /\ Confirmed' BY <1>0, <1>4 DEF Tick, Busy, Confirmed
  <2>8. \A n \in 1 .. taken' : Kept(n)' BY <1>0, <1>4, <2>5 DEF Tick, Kept
  <2> QED BY <2>6, <2>7, <2>8 DEF TakionInv
<1> QED BY <1>1, <1>2, <1>3, <1>4

LEMMA TakionKeeps == ASSUME TakionInv, [Next]_vars PROVE TakionInv'
<1>1. CASE Next BY <1>1, SendersKeep, ThreadKeeps, OthersKeep DEF Next
<1>2. CASE UNCHANGED vars
  BY <1>2 DEF vars, TakionInv, TypeOK, Busy, Confirmed, Kept, Buffered
<1> QED BY <1>1, <1>2

LEMMA TakionForgetsNothing == ASSUME TakionInv PROVE NothingForgotten
BY DEF TakionInv, NothingForgotten, Confirmed, Kept
-----------------------------------------------------------------------------
(* RUDP: the messages *)

Key(c)   == FirstCounter + c
Letters  == [n : 1 .. RudpMessages, key : Nat, tries : 0 .. RudpTriesMax]
Held     == {packets[i].n : i \in DOMAIN packets}

\* The key of the n-th message is the counter after it, or one that was counted since.
Keyed(n, key) == \E c \in n .. counted : key = Key(c)

ScanTypes == scan \in [at : {"wait", "scan", "give_up"}, i : Nat \ {0}, key : Nat]

RemoteTypes ==
  /\ counted \in 0 .. RudpMessages
  /\ doing \in [Remote!Threads -> {"idle", "key", "send", "push", "over"}]
  /\ inHand \in [Remote!Threads -> [n : 0 .. RudpMessages, key : Nat]]
  /\ packets \in Seq(Letters) /\ Len(packets) <= RudpBufferSize
  /\ ScanTypes
  /\ sent \subseteq 1 .. RudpMessages /\ arrived \subseteq sent
  /\ abandons \subseteq 1 .. RudpMessages /\ wiped \subseteq 1 .. RudpMessages
  /\ refusals \in 0 .. RudpFailures

\* A thread has a message in its hands from its counter to the buffer.
Handled ==
  \A t \in Remote!Threads :
    /\ doing[t] \in {"idle", "over"} <=> inHand[t].n = 0
    /\ inHand[t].n <= counted
    /\ doing[t] \in {"send", "push"} => Keyed(inHand[t].n, inHand[t].key)

Stored == \A i \in 1 .. Len(packets) : Keyed(packets[i].n, packets[i].key)

\* What the console acknowledges is a row that is complete.
Replied == \A key \in confirmed : \E m \in 0 .. RudpMessages : key = Key(m) /\ 1 .. m \subseteq arrived

\* A message is received with all before it, or kept, or was given up.
Remembered(n) ==
  \/ 1 .. n \subseteq arrived
  \/ n \in abandons \cup Held \cup {inHand[t].n : t \in Remote!Threads} \cup wiped

RemoteInv == /\ RemoteTypes /\ Handled /\ Stored /\ Replied
             /\ wiped # {} => Key(counted) > RudpHalf
             /\ \A n \in 1 .. counted : Remembered(n)

\* The counter stays below its space: it starts in the lower half of it.
LEMMA CounterIs ==
  ASSUME NEW n \in 1 .. RudpMessages + 1
  PROVE  Remote!CounterOf(n) = Key(n - 1) /\ Key(n - 1) \in Nat
BY RudpAssumption DEF Remote!CounterOf, Remote!SeqAdd, Remote!SeqMod, Key

LEMMA CoversKeyed ==
  ASSUME NEW m \in 0 .. RudpMessages, NEW n \in 1 .. RudpMessages, counted \in 0 .. RudpMessages,
         NEW p, p.n = n, Keyed(n, p.key), Remote!Covers(Key(m), p)
  PROVE  n <= m
BY RudpAssumption DEF Remote!Covers, Remote!SeqLt, Key, Keyed

LEMMA CoveredByZero ==
  ASSUME NEW n \in 1 .. RudpMessages, counted \in 0 .. RudpMessages,
         NEW p, Keyed(n, p.key), Remote!Covers(0, p)
  PROVE  Key(counted) > RudpHalf
BY RudpAssumption DEF Remote!Covers, Remote!SeqLt, Key, Keyed

LEMMA WithoutIs ==
  ASSUME packets \in Seq(Letters), NEW key
  PROVE  /\ Remote!Without(key) \in Seq(Letters) /\ Len(Remote!Without(key)) <= Len(packets)
         /\ Remote!Covered(key) \subseteq 1 .. RudpMessages
         /\ \A i \in 1 .. Len(Remote!Without(key)) :
              \E j \in 1 .. Len(packets) : Remote!Without(key)[i] = packets[j]
         /\ \A j \in 1 .. Len(packets) :
              \/ Remote!Covers(key, packets[j]) /\ packets[j].n \in Remote!Covered(key)
              \/ \E i \in 1 .. Len(Remote!Without(key)) : Remote!Without(key)[i] = packets[j]
<1> DEFINE places == {i \in DOMAIN packets : ~Remote!Covers(key, packets[i])}
<1>1. DOMAIN packets = 1 .. Len(packets) BY LenProperties
<1>2. Remote!Without(key) = Retained(packets, places)
  BY DEF Remote!Without, Remote!Retained, Retained
<1>3. \A j \in 1 .. Len(packets) :
        j \in places \/ (Remote!Covers(key, packets[j]) /\ packets[j].n \in Remote!Covered(key))
  <2>1. ASSUME NEW j \in 1 .. Len(packets), j \notin places
        PROVE  Remote!Covers(key, packets[j]) /\ packets[j].n \in Remote!Covered(key)
    <3>1. j \in {i \in DOMAIN packets : Remote!Covers(key, packets[i])} BY <1>1, <2>1
    <3> QED BY <3>1 DEF Remote!Covered
  <2> HIDE DEF places
  <2> QED BY <2>1, Zenon
<1> HIDE DEF places
<1>4. /\ Retained(packets, places) \in Seq(Letters) /\ Len(Retained(packets, places)) <= Len(packets)
      /\ \A i \in 1 .. Len(Retained(packets, places)) :
           \E j \in 1 .. Len(packets) : j \in places /\ Retained(packets, places)[i] = packets[j]
      /\ \A j \in 1 .. Len(packets) : j \in places =>
           \E i \in 1 .. Len(Retained(packets, places)) : Retained(packets, places)[i] = packets[j]
  <2>1. Retained(packets, places) \in Seq(Letters) /\ Len(Retained(packets, places)) <= Len(packets)
    BY RetainedIs
  <2>2. /\ \A i \in 1 .. Len(Retained(packets, places)) :
             \E j \in 1 .. Len(packets) : j \in places /\ Retained(packets, places)[i] = packets[j]
        /\ \A j \in 1 .. Len(packets) : j \in places =>
             \E i \in 1 .. Len(Retained(packets, places)) : Retained(packets, places)[i] = packets[j]
    BY RetainedIs
  <2> QED BY <2>1, <2>2
<1>5. Remote!Covered(key) \subseteq 1 .. RudpMessages
  <2>1. \A i \in DOMAIN packets : packets[i] \in Letters BY <1>1, ElementOfSeq
  <2> QED BY <2>1 DEF Remote!Covered, Letters
<1> QED BY <1>2, <1>3, <1>4, <1>5

LEMMA RemoteInit == ASSUME Remote!Init PROVE RemoteInv
<1>1. <<>> \in Seq(Letters) /\ Len(<<>>) = 0 BY EmptySeq
<1>2. Remote!Nothing = 0 BY DEF Remote!Nothing
<1>3. RemoteTypes
  <2>1. ScanTypes BY DEF Remote!Init, ScanTypes
  <2>2. packets \in Seq(Letters) /\ Len(packets) <= RudpBufferSize
    BY <1>1, RudpAssumption DEF Remote!Init
  <2>3. /\ counted \in 0 .. RudpMessages /\ refusals \in 0 .. RudpFailures
        /\ doing \in [Remote!Threads -> {"idle", "key", "send", "push", "over"}]
        /\ inHand \in [Remote!Threads -> [n : 0 .. RudpMessages, key : Nat]]
    BY <1>2, RudpAssumption DEF Remote!Init
  <2>4. sent = {} /\ arrived = {} /\ abandons = {} /\ wiped = {} BY DEF Remote!Init
  <2> QED BY <2>1, <2>2, <2>3, <2>4 DEF RemoteTypes
<1> QED BY <1>1, <1>2, <1>3, RudpAssumption DEF Remote!Init, RemoteInv, Handled, Stored, Replied

LEMMA HeldIs ==
  ASSUME packets \in Seq(Letters)
  PROVE  /\ Held = {packets[i].n : i \in 1 .. Len(packets)} /\ DOMAIN packets = 1 .. Len(packets)
         /\ Len(packets) \in Nat
         /\ \A i \in 1 .. Len(packets) : packets[i] \in Letters /\ packets[i].n \in 1 .. RudpMessages
<1>1. DOMAIN packets = 1 .. Len(packets) /\ Len(packets) \in Nat
      /\ \A i \in 1 .. Len(packets) : packets[i] \in Letters
  BY LenProperties, ElementOfSeq
<1>2. \A p \in Letters : p.n \in 1 .. RudpMessages BY DEF Letters
<1> QED BY <1>1, <1>2 DEF Held

\* What takes out packets leaves the rest as it was.
LEMMA WithoutKeeps ==
  ASSUME RemoteInv, NEW key, packets' = Remote!Without(key), UNCHANGED <<counted, doing, inHand, sent, arrived>>,
         ScanTypes', refusals' = refusals,
         abandons' \subseteq abandons \cup Remote!Covered(key),
         wiped' \subseteq wiped \cup Remote!Covered(key)
  PROVE  /\ RemoteTypes' /\ Handled' /\ Stored'
         /\ \A n \in Held : n \in Held' \cup Remote!Covered(key)
<1>0. RemoteTypes /\ Handled /\ Stored BY DEF RemoteInv
<1>1. packets \in Seq(Letters) BY <1>0 DEF RemoteTypes
<1>2. packets' \in Seq(Letters) /\ Len(packets') <= RudpBufferSize
  <2>1. packets' \in Seq(Letters) /\ Len(packets') <= Len(packets) BY <1>1, WithoutIs
  <2>2. Len(packets') \in Nat /\ Len(packets) \in Nat BY <2>1, <1>1, LenProperties
  <2> QED BY <2>1, <2>2, <1>0, RudpAssumption DEF RemoteTypes
<1>3. RemoteTypes'
  <2>1. abandons' \subseteq 1 .. RudpMessages /\ wiped' \subseteq 1 .. RudpMessages
    BY <1>0, <1>1, WithoutIs DEF RemoteTypes
  <2> QED BY <1>0, <1>2, <2>1 DEF RemoteTypes
<1>4. Handled' BY <1>0 DEF Handled, Keyed
<1>5. Stored'
  <2>1. ASSUME NEW i \in 1 .. Len(packets') PROVE Keyed(packets'[i].n, packets'[i].key)
    <3>1. PICK j \in 1 .. Len(packets) : packets'[i] = packets[j] BY <1>1, WithoutIs
    <3> QED BY <3>1, <1>0 DEF Stored
  <2> QED BY <2>1 DEF Stored, Keyed
<1>6. ASSUME NEW n \in Held PROVE n \in Held' \cup Remote!Covered(key)
  <2>1. PICK j \in 1 .. Len(packets) : n = packets[j].n BY <1>1, HeldIs
  <2>2. DOMAIN packets' = 1 .. Len(packets') BY <1>2, LenProperties
  <2>3. CASE packets[j].n \in Remote!Covered(key) BY <2>1, <2>3
  <2>4. CASE \E i \in 1 .. Len(packets') : packets'[i] = packets[j]
    BY <2>1, <2>2, <2>4 DEF Held
  <2> QED BY <2>3, <2>4, <1>1, WithoutIs
<1> QED BY <1>3, <1>4, <1>5, <1>6

LEMMA CardinalityIs == \A S : Remote!Cardinality(S) = Cardinality(S)
BY DEF Remote!Cardinality, Cardinality

LEMMA RemoteThreadsKeep ==
  ASSUME RemoteInv, NEW t \in Remote!Threads, Remote!SendMessage(t)
  PROVE  RemoteInv'
<1> USE DEF Remote!handshake, Remote!console, Remote!Goes, Remote!Free, Remote!Nothing
<1>0. /\ RemoteTypes /\ Handled /\ Stored /\ Replied /\ (wiped # {} => Key(counted) > RudpHalf)
      /\ \A n \in 1 .. counted : Remembered(n)
  BY DEF RemoteInv
<1>1. packets \in Seq(Letters) /\ Len(packets) \in Nat BY <1>0, LenProperties DEF RemoteTypes
<1>2. Remote!Done(t) \in {"idle", "over"} BY DEF Remote!Done
<1>3. inHand[t].n \in 0 .. RudpMessages BY <1>0 DEF RemoteTypes
<1>4. CASE Remote!TakeCounter(t)
  <2>1. doing' = [doing EXCEPT ![t] = "key"] /\ doing[t] = "idle" /\ counted < RudpMessages
        /\ counted' = counted + 1 /\ inHand' = [inHand EXCEPT ![t].n = counted + 1]
        /\ UNCHANGED <<packets, sent, arrived, confirmed, abandons, wiped, scan, refusals>>
    BY <1>4 DEF Remote!TakeCounter
  <2>2. counted \in 0 .. RudpMessages BY <1>0 DEF RemoteTypes
  <2>3. \A n, key : Keyed(n, key) => Keyed(n, key)' BY <2>1, <2>2 DEF Keyed
  <2>4. RemoteTypes'
    <3>1. /\ counted' \in 0 .. RudpMessages
          /\ doing' \in [Remote!Threads -> {"idle", "key", "send", "push", "over"}]
          /\ inHand' \in [Remote!Threads -> [n : 0 .. RudpMessages, key : Nat]]
      <4>1. /\ counted \in 0 .. RudpMessages
            /\ doing \in [Remote!Threads -> {"idle", "key", "send", "push", "over"}]
            /\ inHand \in [Remote!Threads -> [n : 0 .. RudpMessages, key : Nat]]
        BY <1>0 DEF RemoteTypes
      <4>2. counted + 1 \in 0 .. RudpMessages BY <2>1, <4>1, RudpAssumption
      <4>3. counted' \in 0 .. RudpMessages BY <2>1, <4>2
      <4>4. doing' \in [Remote!Threads -> {"idle", "key", "send", "push", "over"}] BY <2>1, <4>1
      <4>5. inHand' \in [Remote!Threads -> [n : 0 .. RudpMessages, key : Nat]] BY <2>1, <4>1, <4>2
      <4> QED BY <4>3, <4>4, <4>5
    <3>2. ScanTypes' BY <1>0, <2>1 DEF RemoteTypes, ScanTypes
    <3> QED BY <1>0, <2>1, <3>1, <3>2 DEF RemoteTypes
  <2>5. Handled' BY <1>0, <2>1, <2>2, <2>3 DEF Handled, RemoteTypes
  <2>6. Stored' BY <1>0, <2>1, <2>3 DEF Stored
  <2>7. Replied' BY <1>0, <2>1 DEF Replied
  <2>8. wiped' # {} => Key(counted') > RudpHalf BY <1>0, <2>1, <2>2, RudpAssumption DEF Key
  <2>9. ASSUME NEW n \in 1 .. counted' PROVE Remembered(n)'
    <3>1. CASE n = counted + 1 BY <3>1, <1>0, <2>1 DEF Remembered, RemoteTypes
    <3>2. CASE n # counted + 1
      <4>1. n \in 1 .. counted /\ Remembered(n) BY <3>2, <2>1, <2>2, <1>0
      <4>2. inHand[t].n = 0 BY <2>1, <1>0 DEF Handled
      <4> QED BY <4>1, <4>2, <1>0, <2>1 DEF Remembered, Held, RemoteTypes
    <3> QED BY <3>1, <3>2
  <2> QED BY <2>4, <2>5, <2>6, <2>7, <2>8, <2>9 DEF RemoteInv
<1>5. CASE Remote!ReadKey(t)
  <2>1. doing' = [doing EXCEPT ![t] = "send"] /\ doing[t] = "key"
        /\ inHand' = [inHand EXCEPT ![t].key = Remote!KeyOf(t)]
        /\ UNCHANGED <<counted, packets, sent, arrived, confirmed, abandons, wiped, scan, refusals>>
    BY <1>5 DEF Remote!ReadKey
  <2>2. counted \in 0 .. RudpMessages /\ inHand[t].n \in 1 .. counted
    <3>1. doing[t] \notin {"idle", "over"} BY <2>1
    <3>2. inHand[t].n # 0 /\ inHand[t].n <= counted BY <1>0, <3>1 DEF Handled
    <3> QED BY <1>0, <1>3, <3>2, RudpAssumption DEF RemoteTypes
  <2>3. Remote!KeyOf(t) = Key(counted) /\ Key(counted) \in Nat
    BY <2>2, CounterIs, RudpAssumption DEF Remote!KeyOf
  <2>4. inHand' \in [Remote!Threads -> [n : 0 .. RudpMessages, key : Nat]]
        /\ (\A u \in Remote!Threads : inHand'[u].n = inHand[u].n /\ (u # t => inHand'[u] = inHand[u]))
        /\ inHand'[t].key = Key(counted)
    BY <1>0, <2>1, <2>3 DEF RemoteTypes
  <2>5. RemoteTypes'
    <3>1. ScanTypes' BY <1>0, <2>1 DEF RemoteTypes, ScanTypes
    <3> QED BY <1>0, <2>1, <2>4, <3>1 DEF RemoteTypes
  <2>6. Handled'
    <3>1. Keyed(inHand[t].n, Key(counted)) BY <2>2 DEF Keyed
    <3> QED BY <1>0, <2>1, <2>2, <2>4, <3>1 DEF Handled, Keyed, RemoteTypes
  <2>7. Stored' /\ Replied' BY <1>0, <2>1 DEF Stored, Replied, Keyed
  <2>8. \A n \in 1 .. counted' : Remembered(n)' BY <1>0, <2>1, <2>4 DEF Remembered, Held
  <2> QED BY <1>0, <2>1, <2>5, <2>6, <2>7, <2>8 DEF RemoteInv
<1>6. CASE Remote!Send(t)
  <2>1. doing' = [doing EXCEPT ![t] = "push"] /\ doing[t] = "send" /\ sent' = sent \cup {inHand[t].n}
        /\ UNCHANGED <<counted, inHand, packets, arrived, confirmed, abandons, wiped, scan, refusals>>
    BY <1>6 DEF Remote!Send
  <2>2. inHand[t].n \in 1 .. RudpMessages
    <3>1. doing[t] \notin {"idle", "over"} BY <2>1
    <3>2. inHand[t].n # 0 BY <1>0, <3>1 DEF Handled
    <3> QED BY <1>3, <3>2, RudpAssumption
  <2>3. RemoteTypes'
    <3>1. ScanTypes' BY <1>0, <2>1 DEF RemoteTypes, ScanTypes
    <3> QED BY <1>0, <2>1, <2>2, <3>1 DEF RemoteTypes
  <2>4. Handled' BY <1>0, <2>1 DEF Handled, Keyed, RemoteTypes
  <2>5. Stored' /\ Replied' BY <1>0, <2>1 DEF Stored, Replied, Keyed
  <2>6. \A n \in 1 .. counted' : Remembered(n)' BY <1>0, <2>1 DEF Remembered, Held
  <2> QED BY <1>0, <2>1, <2>3, <2>4, <2>5, <2>6 DEF RemoteInv
<1>7. CASE Remote!SendFails(t) \/ Remote!Push(t)
  <2> DEFINE p == [n |-> inHand[t].n, key |-> inHand[t].key, tries |-> 0]
  <2>1. /\ doing' = [doing EXCEPT ![t] = Remote!Done(t)] /\ doing[t] \in {"send", "push"}
        /\ inHand' = [inHand EXCEPT ![t] = [n |-> 0, key |-> 0]]
        /\ UNCHANGED <<counted, sent, arrived, confirmed, wiped, scan>>
        /\ refusals' = refusals \/ (refusals < RudpFailures /\ refusals' = refusals + 1)
        /\ \/ packets' = packets /\ abandons' = abandons \cup {inHand[t].n}
           \/ packets' = Append(packets, p) /\ abandons' = abandons /\ Len(packets) < RudpBufferSize
    BY <1>7 DEF Remote!SendFails, Remote!Push
  <2>2. /\ inHand[t].n \in 1 .. RudpMessages /\ inHand[t].key \in Nat
        /\ Keyed(inHand[t].n, inHand[t].key)
    <3>1. doing[t] \notin {"idle", "over"} BY <2>1
    <3>2. inHand[t].n # 0 /\ Keyed(inHand[t].n, inHand[t].key) BY <1>0, <2>1, <3>1 DEF Handled
    <3> QED BY <1>0, <1>3, <3>2, RudpAssumption DEF RemoteTypes
  <2>3. p \in Letters /\ p.n = inHand[t].n /\ p.key = inHand[t].key
    BY <2>2, RudpAssumption DEF Letters
  <2> HIDE DEF p
  <2>4. /\ Append(packets, p) \in Seq(Letters) /\ Len(Append(packets, p)) = Len(packets) + 1
        /\ Append(packets, p)[Len(packets) + 1] = p
        /\ \A i \in 1 .. Len(packets) : Append(packets, p)[i] = packets[i]
    BY <2>3, <1>1, AppendProperties
  <2>5. packets' \in Seq(Letters) /\ Len(packets') <= RudpBufferSize
    <3>1. CASE packets' = packets BY <1>0, <3>1 DEF RemoteTypes
    <3>2. CASE packets' = Append(packets, p) /\ Len(packets) < RudpBufferSize
      <4>1. Len(packets) + 1 <= RudpBufferSize BY <1>1, <3>2, RudpAssumption
      <4> QED BY <2>4, <3>2, <4>1
    <3> QED BY <2>1, <3>1, <3>2
  <2>6. inHand' \in [Remote!Threads -> [n : 0 .. RudpMessages, key : Nat]]
    BY <1>0, <2>1, RudpAssumption DEF RemoteTypes
  <2>7. RemoteTypes'
    <3>1. doing' \in [Remote!Threads -> {"idle", "key", "send", "push", "over"}]
      BY <1>0, <1>2, <2>1 DEF RemoteTypes
    <3>2. abandons' \subseteq 1 .. RudpMessages BY <1>0, <2>1, <2>2 DEF RemoteTypes
    <3>3. refusals' \in 0 .. RudpFailures BY <1>0, <2>1, RudpAssumption DEF RemoteTypes
    <3>4. ScanTypes' BY <1>0, <2>1 DEF RemoteTypes, ScanTypes
    <3> QED BY <1>0, <2>1, <2>5, <2>6, <3>1, <3>2, <3>3, <3>4 DEF RemoteTypes
  <2>8. Handled' BY <1>0, <1>2, <2>1 DEF Handled, Keyed, RemoteTypes
  <2>9. Stored'
    <3>1. CASE packets' = packets BY <1>0, <2>1, <3>1 DEF Stored, Keyed
    <3>2. CASE packets' = Append(packets, p)
      <4>1. \A i \in 1 .. Len(packets') : Keyed(packets'[i].n, packets'[i].key)
        BY <1>0, <1>1, <2>2, <2>3, <2>4, <3>2 DEF Stored
      <4> QED BY <4>1, <2>1 DEF Stored, Keyed
    <3> QED BY <2>1, <3>1, <3>2
  <2>10. Replied' BY <1>0, <2>1 DEF Replied
  <2>11. \A n \in Held \cup {inHand[t].n} : n \in Held' \cup abandons'
    <3>1. CASE packets' = packets /\ abandons' = abandons \cup {inHand[t].n} BY <3>1 DEF Held
    <3>2. CASE packets' = Append(packets, p)
      <4>1. Held = {packets[i].n : i \in 1 .. Len(packets)} BY <1>1, HeldIs
      <4>2. DOMAIN packets' = 1 .. Len(packets) + 1 BY <2>4, <2>5, <3>2, LenProperties
      <4>3. \A i \in 1 .. Len(packets) : i \in DOMAIN packets' /\ packets'[i] = packets[i]
        BY <1>1, <2>4, <3>2, <4>2
      <4>4. Len(packets) + 1 \in DOMAIN packets' /\ packets'[Len(packets) + 1].n = inHand[t].n
        BY <1>1, <2>3, <2>4, <3>2, <4>2
      <4> QED BY <4>1, <4>3, <4>4 DEF Held
    <3> QED BY <2>1, <3>1, <3>2
  <2>12. abandons \subseteq abandons' BY <2>1
  <2>13. ASSUME NEW n \in 1 .. counted' PROVE Remembered(n)'
    <3>1. \A u \in Remote!Threads : u # t => inHand'[u] = inHand[u] BY <1>0, <2>1 DEF RemoteTypes
    <3>2. Remembered(n) BY <1>0, <2>1
    <3> QED BY <2>1, <2>11, <2>12, <3>1, <3>2 DEF Remembered
  <2> QED BY <1>0, <2>1, <2>7, <2>8, <2>9, <2>10, <2>13 DEF RemoteInv
<1> QED BY <1>4, <1>5, <1>6, <1>7 DEF Remote!SendMessage

LEMMA RemoteOthersKeep ==
  ASSUME RemoteInv,
         \/ \E key \in confirmed : Remote!ReceiveAck(key)
         \/ Remote!ReceiveUnknown \/ Remote!WakeUp \/ Remote!GiveUp
         \/ \E old \in SUBSET DOMAIN packets : Remote!Scan(old)
         \/ \E n \in sent : Remote!ConsoleReceive(n)
  PROVE  RemoteInv'
<1> USE DEF Remote!handshake, Remote!senders, Remote!console
<1>0. /\ RemoteTypes /\ Handled /\ Stored /\ Replied /\ (wiped # {} => Key(counted) > RudpHalf)
      /\ \A n \in 1 .. counted : Remembered(n)
  BY DEF RemoteInv
<1>1. packets \in Seq(Letters) /\ counted \in 0 .. RudpMessages BY <1>0 DEF RemoteTypes
<1>2. ASSUME NEW key \in confirmed, Remote!ReceiveAck(key) PROVE RemoteInv'
  <2>1. packets' = Remote!Without(key) /\ UNCHANGED <<counted, doing, inHand, sent, arrived>>
        /\ UNCHANGED <<confirmed, abandons, wiped, scan, refusals>>
    BY <1>2 DEF Remote!ReceiveAck
  <2>2. RemoteTypes' /\ Handled' /\ Stored' /\ \A n \in Held : n \in Held' \cup Remote!Covered(key)
    <3>1. ScanTypes' BY <1>0, <2>1 DEF RemoteTypes, ScanTypes
    <3> QED BY <2>1, <3>1, WithoutKeeps
  <2>3. PICK m \in 0 .. RudpMessages : key = Key(m) /\ 1 .. m \subseteq arrived
    BY <1>0 DEF Replied
  <2>4. ASSUME NEW n \in Remote!Covered(key) PROVE 1 .. n \subseteq arrived
    <3>1. PICK i \in DOMAIN packets : n = packets[i].n /\ Remote!Covers(key, packets[i])
      BY DEF Remote!Covered
    <3>2. n \in 1 .. RudpMessages /\ Keyed(n, packets[i].key) BY <3>1, <1>0, <1>1, HeldIs DEF Stored
    <3>3. n <= m BY <3>1, <3>2, <2>3, <1>1, CoversKeyed
    <3> QED BY <3>2, <3>3, <2>3
  <2>5. Replied' BY <1>0, <2>1 DEF Replied
  <2>6. \A n \in 1 .. counted' : Remembered(n)' BY <1>0, <2>1, <2>2, <2>4 DEF Remembered
  <2> QED BY <1>0, <2>1, <2>2, <2>5, <2>6 DEF RemoteInv
<1>3. CASE Remote!ReceiveUnknown
  <2>1. packets' = Remote!Without(0) /\ wiped' = wiped \cup Remote!Covered(0)
        /\ UNCHANGED <<counted, doing, inHand, sent, arrived>> 
        /\ UNCHANGED <<confirmed, abandons, scan, refusals>>
    BY <1>3 DEF Remote!ReceiveUnknown
  <2>2. RemoteTypes' /\ Handled' /\ Stored' /\ \A n \in Held : n \in Held' \cup Remote!Covered(0)
    <3>1. ScanTypes' BY <1>0, <2>1 DEF RemoteTypes, ScanTypes
    <3> QED BY <2>1, <3>1, WithoutKeeps
  <2>3. wiped' # {} => Key(counted') > RudpHalf
    <3>1. CASE Remote!Covered(0) = {} BY <3>1, <1>0, <2>1
    <3>2. CASE Remote!Covered(0) # {}
      <4>1. PICK i \in DOMAIN packets : Remote!Covers(0, packets[i]) BY <3>2 DEF Remote!Covered
      <4>2. packets[i].n \in 1 .. RudpMessages /\ Keyed(packets[i].n, packets[i].key)
        BY <4>1, <1>0, <1>1, HeldIs DEF Stored
      <4> QED BY <4>1, <4>2, <1>1, <2>1, CoveredByZero
    <3> QED BY <3>1, <3>2
  <2>4. Replied' BY <1>0, <2>1 DEF Replied
  <2>5. \A n \in 1 .. counted' : Remembered(n)' BY <1>0, <2>1, <2>2 DEF Remembered
  <2> QED BY <2>2, <2>3, <2>4, <2>5 DEF RemoteInv
<1>4. CASE Remote!GiveUp
  <2>1. packets' = Remote!Without(scan.key) /\ abandons' = abandons \cup Remote!Covered(scan.key)
        /\ UNCHANGED <<counted, doing, inHand, sent, arrived>> /\ UNCHANGED <<confirmed, wiped, refusals>>
        /\ scan' = [at |-> "scan", i |-> IF scan.i > 1 THEN scan.i - 1 ELSE 1, key |-> 0]
    BY <1>4 DEF Remote!GiveUp
  <2>5. ScanTypes' BY <1>0, <2>1 DEF RemoteTypes, ScanTypes
  <2>2. RemoteTypes' /\ Handled' /\ Stored' /\ \A n \in Held : n \in Held' \cup Remote!Covered(scan.key)
    BY <2>1, <2>5, WithoutKeeps
  <2>3. Replied' BY <1>0, <2>1 DEF Replied
  <2>4. \A n \in 1 .. counted' : Remembered(n)' BY <1>0, <2>1, <2>2 DEF Remembered
  <2> QED BY <1>0, <2>1, <2>2, <2>3, <2>4 DEF RemoteInv
<1>5. CASE Remote!WakeUp
  <2>1. UNCHANGED <<counted, doing, inHand, packets, sent, arrived, confirmed, abandons, wiped>>
    BY <1>5 DEF Remote!WakeUp
  <2>2. refusals' = refusals /\ scan' = [scan EXCEPT !.at = "scan", !.i = 1]
    BY <1>5 DEF Remote!WakeUp
  <2>3. ScanTypes'
    <3>1. scan \in [at : {"wait", "scan", "give_up"}, i : Nat \ {0}, key : Nat]
      BY <1>0 DEF RemoteTypes, ScanTypes
    <3>2. scan' = [at |-> "scan", i |-> 1, key |-> scan.key] BY <2>2, <3>1
    <3> QED BY <3>1, <3>2 DEF ScanTypes
  <2> QED BY <1>0, <2>1, <2>2, <2>3
      DEF RemoteInv, RemoteTypes, Handled, Stored, Replied, Keyed, Remembered, Held
<1>6. ASSUME NEW old \in SUBSET DOMAIN packets, Remote!Scan(old) PROVE RemoteInv'
  <2>1. PICK again \in SUBSET DOMAIN packets :
          /\ packets' = [i \in DOMAIN packets |->
                          IF i \in again THEN [packets[i] EXCEPT !.tries = @ + 1] ELSE packets[i]]
          /\ sent' = sent \cup {packets[i].n : i \in again}
          /\ \A i \in again : packets[i].tries < RudpTriesMax
    <3> DEFINE seen(i) == i >= scan.i /\ i \in old
               givenUp == {i \in DOMAIN packets : seen(i) /\ packets[i].tries >= RudpTriesMax}
               repeats(i) == seen(i) /\ \A g \in givenUp : i < g
               again == {j \in DOMAIN packets : repeats(j)}
    <3>1. /\ packets' = [i \in DOMAIN packets |->
                         IF repeats(i) THEN [packets[i] EXCEPT !.tries = @ + 1] ELSE packets[i]]
          /\ sent' = sent \cup {packets[i].n : i \in again}
      BY <1>6 DEF Remote!Scan
    <3>2. \A i \in DOMAIN packets : repeats(i) <=> i \in again OBVIOUS
    <3>5. ASSUME NEW i \in again PROVE packets[i].tries < RudpTriesMax
      <4>1. i \in 1 .. Len(packets) /\ Len(packets) \in Nat /\ packets[i] \in Letters
        BY <1>1, HeldIs
      <4>2. i \notin givenUp BY <4>1
      <4>3. packets[i].tries \in Nat BY <4>1 DEF Letters
      <4> QED BY <4>2, <4>3, RudpAssumption
    <3> HIDE DEF repeats
    <3>3. packets' = [i \in DOMAIN packets |->
                       IF i \in again THEN [packets[i] EXCEPT !.tries = @ + 1] ELSE packets[i]]
      BY <3>1, <3>2
    <3>4. again \in SUBSET DOMAIN packets OBVIOUS
    <3> HIDE DEF again
    <3> QED BY <3>1, <3>3, <3>4, <3>5
  <2>2. UNCHANGED <<counted, doing, inHand, arrived, confirmed, abandons, wiped, refusals>>
    BY <1>6 DEF Remote!Scan
  <2>13. ScanTypes'
    <3>1. ASSUME NEW g \in DOMAIN packets, scan' = [at |-> "give_up", i |-> g, key |-> packets[g].key]
          PROVE  ScanTypes'
      <4>1. g \in 1 .. Len(packets) /\ packets[g] \in Letters BY <1>1, HeldIs
      <4> QED BY <3>1, <4>1 DEF Letters, ScanTypes
    <3>2. \/ scan' = [scan EXCEPT !.at = "wait", !.i = 1]
          \/ \E g \in DOMAIN packets : scan' = [at |-> "give_up", i |-> g, key |-> packets[g].key]
      BY <1>6 DEF Remote!Scan
    <3>3. CASE scan' = [scan EXCEPT !.at = "wait", !.i = 1]
      <4>1. scan \in [at : {"wait", "scan", "give_up"}, i : Nat \ {0}, key : Nat]
        BY <1>0 DEF RemoteTypes, ScanTypes
      <4>2. scan' = [at |-> "wait", i |-> 1, key |-> scan.key] BY <3>3, <4>1
      <4> QED BY <4>1, <4>2 DEF ScanTypes
    <3> QED BY <3>1, <3>2, <3>3
  <2>3. /\ DOMAIN packets = 1 .. Len(packets) /\ Len(packets) \in Nat
        /\ \A i \in 1 .. Len(packets) : packets[i] \in Letters /\ packets[i].n \in 1 .. RudpMessages
    BY <1>1, HeldIs
  <2>4. \A i \in 1 .. Len(packets) : /\ packets'[i] \in Letters
                                     /\ packets'[i].n = packets[i].n /\ packets'[i].key = packets[i].key
    <3>1. \A i \in again : packets[i].tries + 1 \in 0 .. RudpTriesMax
      BY <2>1, <2>3, RudpAssumption DEF Letters
    <3> QED BY <2>1, <2>3, <3>1 DEF Letters
  <2>5. packets' = [i \in 1 .. Len(packets) |-> packets'[i]] BY <2>1, <2>3
  <2>6. packets' \in Seq(Letters) /\ Len(packets') = Len(packets) /\ DOMAIN packets' = 1 .. Len(packets)
    <3>1. packets' \in Seq(Letters) BY <2>3, <2>4, <2>5, IsASeq
    <3>2. DOMAIN packets' = 1 .. Len(packets) BY <2>1, <2>3
    <3> QED BY <3>1, <3>2, <2>3, LenProperties
  <2>7. sent' \subseteq 1 .. RudpMessages BY <1>0, <2>1, <2>3 DEF RemoteTypes
  <2>8. RemoteTypes'
    <3>1. arrived' \subseteq sent' BY <1>0, <2>1, <2>2 DEF RemoteTypes
    <3> QED BY <1>0, <2>2, <2>6, <2>7, <2>13, <3>1 DEF RemoteTypes
  <2>9. Handled' /\ Replied' BY <1>0, <2>2 DEF Handled, Replied, Keyed
  <2>10. Stored'
    <3>1. \A i \in 1 .. Len(packets') : Keyed(packets'[i].n, packets'[i].key)
      BY <1>0, <2>4, <2>6 DEF Stored
    <3> QED BY <3>1, <2>2 DEF Stored, Keyed
  <2>11. \A n : n \in Held => n \in Held' BY <2>3, <2>4, <2>6 DEF Held
  <2>12. \A n \in 1 .. counted' : Remembered(n)' BY <1>0, <2>2, <2>11 DEF Remembered
  <2> QED BY <1>0, <2>2, <2>8, <2>9, <2>10, <2>12 DEF RemoteInv
<1>7. ASSUME NEW n \in sent, Remote!ConsoleReceive(n) PROVE RemoteInv'
  <2> DEFINE row == {k \in arrived' : 1 .. k \subseteq arrived'}
             m == Cardinality(row)
  <2>1. arrived' \in SUBSET (1 .. RudpMessages) /\ arrived \subseteq arrived' /\ arrived' \subseteq sent
    BY <1>0, <1>7 DEF RemoteTypes, Remote!ConsoleReceive
  <2>2. m \in 0 .. RudpMessages /\ 1 .. m \subseteq arrived' BY <2>1, RowIs, RudpAssumption
  <2>3. confirmed' = confirmed \/ confirmed' = confirmed \cup {Remote!CounterOf(m + 1)}
    <3>1. confirmed' = IF row = {} THEN confirmed ELSE confirmed \cup {Remote!CounterOf(m + 1)}
      BY <1>7, CardinalityIs DEF Remote!ConsoleReceive
    <3> HIDE DEF m, row
    <3> QED BY <3>1
  <2>4. UNCHANGED <<counted, doing, inHand, packets, sent, abandons, wiped, scan, refusals>>
    BY <1>7 DEF Remote!ConsoleReceive
  <2> HIDE DEF m
  <2>5. Remote!CounterOf(m + 1) = Key(m)
    <3>1. m + 1 \in 1 .. RudpMessages + 1 /\ (m + 1) - 1 = m BY <2>2, RudpAssumption
    <3> QED BY <3>1, CounterIs
  <2>6. Replied'
    <3>1. ASSUME NEW key \in confirmed'
          PROVE  \E k \in 0 .. RudpMessages : key = Key(k) /\ 1 .. k \subseteq arrived'
      <4>1. CASE key \in confirmed BY <4>1, <1>0, <2>1 DEF Replied
      <4>2. CASE key = Key(m) BY <4>2, <2>2
      <4> QED BY <4>1, <4>2, <2>3, <2>5
    <3> QED BY <3>1 DEF Replied, Key
  <2>7. RemoteTypes'
    <3>1. ScanTypes' BY <1>0, <2>4 DEF RemoteTypes, ScanTypes
    <3> QED BY <1>0, <2>1, <2>4, <3>1 DEF RemoteTypes
  <2>8. Handled' /\ Stored' BY <1>0, <2>4 DEF Handled, Stored, Keyed
  <2>9. \A k \in 1 .. counted' : Remembered(k)' BY <1>0, <2>1, <2>4 DEF Remembered, Held
  <2> QED BY <1>0, <2>4, <2>6, <2>7, <2>8, <2>9 DEF RemoteInv
<1> QED BY <1>2, <1>3, <1>4, <1>5, <1>6, <1>7

LEMMA RemoteKeeps == ASSUME RemoteInv, [Remote!Next]_remoteVars PROVE RemoteInv'
<1>0. /\ RemoteTypes /\ Handled /\ Stored /\ Replied /\ (wiped # {} => Key(counted) > RudpHalf)
      /\ \A n \in 1 .. counted : Remembered(n)
  BY DEF RemoteInv
<1>1. CASE UNCHANGED <<counted, doing, inHand, packets, sent, arrived, confirmed, abandons, wiped,
                       scan, refusals>>
  <2>1. ScanTypes' BY <1>0, <1>1 DEF RemoteTypes, ScanTypes
  <2>2. RemoteTypes' BY <1>0, <1>1, <2>1 DEF RemoteTypes
  <2>3. Handled' /\ Stored' /\ Replied' BY <1>0, <1>1 DEF Handled, Stored, Replied, Keyed
  <2>4. \A n \in 1 .. counted' : Remembered(n)' BY <1>0, <1>1 DEF Remembered, Held
  <2> QED BY <1>0, <1>1, <2>2, <2>3, <2>4 DEF RemoteInv
<1>2. ASSUME Remote!Handshake PROVE UNCHANGED Remote!sending
  BY <1>2 DEF Remote!Handshake, Remote!SendRequest, Remote!ReceiveAnswer, Remote!WaitRunsOut,
              Remote!ReceiveFails, Remote!OutOfTries
<1>3. CASE Remote!Handshake \/ UNCHANGED remoteVars
  BY <1>1, <1>2, <1>3 DEF Remote!sending, Remote!senders, Remote!console, remoteVars
<1> QED BY <1>3, RemoteThreadsKeep, RemoteOthersKeep DEF Remote!Next

LEMMA RemoteForgetsNothing == ASSUME RemoteInv PROVE Remote!NothingForgotten
<1>1. \A n \in 1 .. counted : Remembered(n) /\ (n \in wiped => FirstCounter + counted > RudpHalf)
  BY DEF RemoteInv, Key
<1> QED BY <1>1 DEF Remote!NothingForgotten, Remembered, Held
-----------------------------------------------------------------------------
(* RUDP: the requests *)

\* How many answers are on their way, and how many of them are to other requests.
OnTheWay == answers["init"] + answers["cookie"] + answers["http"] + answers["finish"]
Others   == OnTheWay - answers[Remote!Kind]
Pending  == IF request.waiting THEN 1 ELSE 0

RequestTypes ==
  /\ place \in {"handshake", "loop", "failed", "broken"}
  /\ request \in [stage : 1 .. 7, tries : 0 .. Tries, waiting : BOOLEAN]
  /\ answers \in [Remote!Kinds -> Nat] /\ troubles \in [late : Nat, lost : Nat]

\* A try of this request is lost, or its answer is on its way.  An answer that is
\* on its way from before was late once, and it costs a try at most once: the tries
\* and what other answers may still cost are within the late and the lost ones.
Outlived ==
  /\ place = "handshake" =>
       /\ request.tries <= troubles.lost + answers[Remote!Kind]
       /\ OnTheWay <= troubles.late + Pending
       /\ request.tries + Others <= troubles.late + troubles.lost + Pending
  /\ place = "failed" => Tries <= troubles.late + troubles.lost

RequestInv == RequestTypes /\ Outlived

LEMMA StageIs ==
  ASSUME RequestTypes
  PROVE  /\ Len(Remote!Stages) = 7 /\ Remote!Kind \in Remote!Kinds
         /\ \A i \in 1 .. 7 : Remote!Stages[i] \in Remote!Kinds
BY DEF RequestTypes, Remote!Stages, Remote!Kind, Remote!Kinds

LEMMA OthersAre ==
  ASSUME RequestTypes
  PROVE  OnTheWay \in Nat /\ Others \in 0 .. OnTheWay /\ answers[Remote!Kind] \in Nat
<1>1. \A k \in Remote!Kinds : answers[k] \in Nat BY DEF RequestTypes
<1>2. /\ answers["init"] \in Nat /\ answers["cookie"] \in Nat
      /\ answers["http"] \in Nat /\ answers["finish"] \in Nat
  BY <1>1 DEF Remote!Kinds
<1> QED BY <1>2, StageIs DEF OnTheWay, Others, Remote!Kinds

\* One answer more or less, of one kind.
LEMMA OneMore ==
  ASSUME RequestTypes, NEW k \in Remote!Kinds, NEW d \in Int, answers[k] + d \in Nat,
         answers' = [answers EXCEPT ![k] = @ + d]
  PROVE  OnTheWay' = OnTheWay + d /\ answers' \in [Remote!Kinds -> Nat]
<1>1. /\ answers["init"] \in Nat /\ answers["cookie"] \in Nat
      /\ answers["http"] \in Nat /\ answers["finish"] \in Nat
  BY DEF RequestTypes, Remote!Kinds
<1>2. answers' \in [Remote!Kinds -> Nat] BY DEF RequestTypes
<1>3. answers'[k] = answers[k] + d /\ \A j \in Remote!Kinds : j # k => answers'[j] = answers[j]
  BY DEF RequestTypes
<1> QED BY <1>1, <1>2, <1>3 DEF OnTheWay, Remote!Kinds

\* The next request starts anew: nothing is lost, and all that is on its way was late.
LEMMA StageKeeps ==
  ASSUME RequestInv, place = "handshake", NEW onTheWay, NEW late \in Nat,
         Remote!NextStage(onTheWay, late), answers' = onTheWay => OnTheWay' <= late,
         onTheWay \in [Remote!Kinds -> Nat]
  PROVE  RequestInv'
<1> USE DEF RequestInv
<1>1. CASE request.stage = 7
  <2>1. place' = "loop" /\ request' = [stage |-> 1, tries |-> 0, waiting |-> FALSE]
        /\ answers' = [k \in Remote!Kinds |-> 0] /\ troubles' = [late |-> 0, lost |-> 0]
    BY <1>1, StageIs DEF Remote!NextStage, Remote!EnterLoop
  <2>2. request' \in [stage : 1 .. 7, tries : 0 .. Tries, waiting : BOOLEAN] BY <2>1, RudpAssumption
  <2> QED BY <2>1, <2>2 DEF RequestTypes, Outlived
<1>2. CASE request.stage # 7
  <2>1. request' = [stage |-> request.stage + 1, tries |-> 0, waiting |-> FALSE]
        /\ answers' = onTheWay /\ troubles' = [late |-> late, lost |-> 0] /\ place' = place
    BY <1>2, StageIs DEF Remote!NextStage
  <2>2. request' \in [stage : 1 .. 7, tries : 0 .. Tries, waiting : BOOLEAN]
    BY <2>1, <1>2, RudpAssumption DEF RequestTypes
  <2>3. troubles' \in [late : Nat, lost : Nat] /\ troubles'.lost = 0 /\ troubles'.late = late
    BY <2>1
  <2>4. RequestTypes' BY <2>1, <2>2, <2>3 DEF RequestTypes
  <2>5. OnTheWay' \in Nat /\ Others' \in 0 .. OnTheWay' /\ (answers[Remote!Kind])' \in Nat
    <3>1. (answers[Remote!Kind])' \in Nat /\ (Remote!Kind)' \in Remote!Kinds
      BY <2>4, StageIs DEF RequestTypes, Remote!Kind
    <3>2. \A k \in Remote!Kinds : answers'[k] \in Nat BY <2>4 DEF RequestTypes
    <3>3. /\ answers'["init"] \in Nat /\ answers'["cookie"] \in Nat
          /\ answers'["http"] \in Nat /\ answers'["finish"] \in Nat
      BY <3>2 DEF Remote!Kinds
    <3> QED BY <3>1, <3>3 DEF OnTheWay, Others, Remote!Kinds
  <2>6. OnTheWay' <= late BY <2>1
  <2>7. request'.tries = 0 /\ Pending' = 0 BY <2>1 DEF Pending
  <2>8. Outlived'
    <3>1. 0 <= 0 + (answers[Remote!Kind])' /\ 0 + Others' <= late + 0 + 0 /\ OnTheWay' <= late + 0
      <4>1. ASSUME NEW a \in Nat, NEW w \in Nat, NEW o \in 0 .. w, w <= late
            PROVE  0 <= 0 + a /\ 0 + o <= late + 0 + 0 /\ w <= late + 0
        BY <4>1
      <4> HIDE DEF Others, OnTheWay
      <4> QED BY <2>5, <2>6, <4>1
    <3> QED BY <1>2, <2>1, <2>3, <2>7, <2>5, <3>1 DEF Outlived
  <2> QED BY <2>4, <2>8
<1> QED BY <1>1, <1>2

LEMMA RequestInit == ASSUME Remote!Init PROVE RequestInv
<1>1. request \in [stage : 1 .. 7, tries : 0 .. Tries, waiting : BOOLEAN]
  BY RudpAssumption DEF Remote!Init
<1>2. RequestTypes BY <1>1 DEF Remote!Init, RequestTypes
<1>3. \A k \in Remote!Kinds : answers[k] = 0 BY DEF Remote!Init
<1>4. OnTheWay = 0 /\ answers[Remote!Kind] = 0
  BY <1>2, <1>3, StageIs DEF OnTheWay, Remote!Kinds
<1> QED BY <1>2, <1>4 DEF Remote!Init, RequestInv, Outlived, Others, Pending

LEMMA HandshakeKeeps ==
  ASSUME RequestInv, Remote!Handshake
  PROVE  RequestInv'
<1> DEFINE kind == Remote!Kind
<1>0. RequestTypes /\ Outlived BY DEF RequestInv
<1>1. /\ OnTheWay \in Nat /\ Others \in 0 .. OnTheWay /\ answers[kind] \in Nat /\ kind \in Remote!Kinds
      /\ troubles.late \in Nat /\ troubles.lost \in Nat /\ request.tries \in 0 .. Tries
      /\ Tries \in Nat
  BY <1>0, OthersAre, StageIs, RudpAssumption DEF RequestTypes
<1>2. \A k \in Remote!Kinds : answers[k] \in Nat BY <1>0 DEF RequestTypes
<1>7. /\ Remote!Lateness \in Nat
      /\ Remote!Lateness = troubles.late + 1 \/ (Remote!Lateness = troubles.late /\ OnTheWay = 0)
  <2>1. CASE \E k \in Remote!Kinds : answers[k] > 0 BY <1>1, <2>1 DEF Remote!Lateness
  <2>2. CASE \A k \in Remote!Kinds : ~(answers[k] > 0)
    <3>1. Remote!Lateness = troubles.late BY <2>2 DEF Remote!Lateness
    <3>2. \A k \in Remote!Kinds : answers[k] = 0 BY <1>2, <2>2
    <3> QED BY <1>1, <3>1, <3>2 DEF OnTheWay, Remote!Kinds
  <2> QED BY <2>1, <2>2
<1>3. CASE Remote!SendRequest
  <2>1. /\ place = "handshake" /\ ~request.waiting /\ request.tries < Tries
        /\ request' = [request EXCEPT !.tries = @ + 1, !.waiting = TRUE] /\ place' = place
        /\ \/ answers' = [answers EXCEPT ![kind] = @ + 1] /\ troubles' = troubles
           \/ troubles' = [troubles EXCEPT !.lost = @ + 1] /\ answers' = answers
    BY <1>3 DEF Remote!SendRequest
  <2>2. request' \in [stage : 1 .. 7, tries : 0 .. Tries, waiting : BOOLEAN]
        /\ request'.tries = request.tries + 1 /\ Pending = 0 /\ Pending' = 1
        /\ request'.stage = request.stage
    <3>1. request \in [stage : 1 .. 7, tries : 0 .. Tries, waiting : BOOLEAN] BY <1>0 DEF RequestTypes
    <3>2. request.tries + 1 \in 0 .. Tries BY <1>1, <2>1
    <3>3. request' \in [stage : 1 .. 7, tries : 0 .. Tries, waiting : BOOLEAN]
          /\ request'.tries = request.tries + 1 /\ request'.stage = request.stage
      BY <2>1, <3>1, <3>2
    <3>4. request'.waiting = TRUE BY <2>1, <3>1
    <3> QED BY <2>1, <3>3, <3>4 DEF Pending
  <2>3. (Remote!Kind)' = kind BY <2>2 DEF Remote!Kind
  <2> HIDE DEF kind
  <2>4. CASE answers' = [answers EXCEPT ![kind] = @ + 1] /\ troubles' = troubles
    <3>1. OnTheWay' = OnTheWay + 1 /\ answers' \in [Remote!Kinds -> Nat]
      <4>1. answers[kind] + 1 \in Nat /\ 1 \in Int BY <1>1
      <4> QED BY <1>0, <1>1, <2>4, <4>1, OneMore
    <3>2. answers'[kind] = answers[kind] + 1 BY <1>0, <1>1, <2>4 DEF RequestTypes
    <3>3. Others' = Others BY <1>1, <2>3, <3>1, <3>2 DEF Others, kind
    <3>4. RequestTypes' BY <1>0, <2>1, <2>2, <2>4, <3>1 DEF RequestTypes
    <3>5. Outlived'
      BY <1>0, <1>1, <2>1, <2>2, <2>3, <2>4, <3>1, <3>2, <3>3 DEF Outlived, kind
    <3> QED BY <3>4, <3>5 DEF RequestInv
  <2>5. CASE troubles' = [troubles EXCEPT !.lost = @ + 1] /\ answers' = answers
    <3>1. troubles' \in [late : Nat, lost : Nat] /\ troubles'.lost = troubles.lost + 1
          /\ troubles'.late = troubles.late
      BY <1>0, <1>1, <2>5 DEF RequestTypes
    <3>2. OnTheWay' = OnTheWay /\ Others' = Others BY <2>3, <2>5 DEF OnTheWay, Others, kind
    <3>3. RequestTypes' BY <1>0, <2>1, <2>2, <2>5, <3>1 DEF RequestTypes
    <3>4. Outlived'
      BY <1>0, <1>1, <2>1, <2>2, <2>3, <2>5, <3>1, <3>2 DEF Outlived, kind
    <3> QED BY <3>3, <3>4 DEF RequestInv
  <2> QED BY <2>1, <2>4, <2>5
<1>4. ASSUME NEW k \in Remote!Kinds, Remote!ReceiveAnswer(k) PROVE RequestInv'
  <2> DEFINE rest == [answers EXCEPT ![k] = @ - 1]
  <2>1. place = "handshake" /\ request.waiting /\ answers[k] > 0 /\ Remote!Judged(k, rest)
    BY <1>4 DEF Remote!ReceiveAnswer, Remote!Handling
  <2>2. rest = [answers EXCEPT ![k] = @ + (-1)] /\ answers[k] + (-1) \in Nat /\ -1 \in Int
        /\ OnTheWay + (-1) = OnTheWay - 1
    <3>1. answers[k] \in Nat /\ answers[k] > 0 BY <1>2, <2>1
    <3>2. answers[k] + (-1) = answers[k] - 1 /\ answers[k] - 1 \in Nat BY <3>1
    <3>3. OnTheWay + (-1) = OnTheWay - 1 BY <1>1
    <3>4. [answers EXCEPT ![k] = @ + (-1)] = [answers EXCEPT ![k] = @ - 1] BY <3>2, Zenon
    <3> QED BY <3>2, <3>3, <3>4
  <2>3. answers' = rest => OnTheWay' = OnTheWay - 1 /\ answers' \in [Remote!Kinds -> Nat]
    BY <1>0, <2>2, OneMore
  <2>4. rest \in [Remote!Kinds -> Nat] /\ rest[k] = answers[k] - 1
        /\ \A j \in Remote!Kinds : j # k => rest[j] = answers[j]
    BY <1>0, <1>2, <2>1 DEF RequestTypes
  <2> HIDE DEF rest
  <2>5. Pending = 1 BY <2>1 DEF Pending
  <2>6. CASE k = kind
    <3>1. CASE Remote!NextStage(rest, troubles.late)
      <4>1. answers' = rest => OnTheWay' <= troubles.late
        BY <1>0, <1>1, <2>1, <2>3, <2>5 DEF Outlived
      <4> QED BY <1>1, <2>1, <2>4, <3>1, <4>1, StageKeeps
    <3>2. CASE ~Remote!NextStage(rest, troubles.late)
      <4>1. request' = [request EXCEPT !.waiting = FALSE] /\ answers' = rest /\ place' = place
            /\ troubles' = [troubles EXCEPT !.lost = @ + 1]
        BY <2>1, <2>6, <3>2 DEF Remote!Judged, Remote!NextTry
      <4>2. request' \in [stage : 1 .. 7, tries : 0 .. Tries, waiting : BOOLEAN]
            /\ request'.tries = request.tries /\ request'.stage = request.stage /\ Pending' = 0
        BY <1>0, <4>1 DEF RequestTypes, Pending
      <4>3. troubles' \in [late : Nat, lost : Nat] /\ troubles'.lost = troubles.lost + 1
            /\ troubles'.late = troubles.late
        BY <1>0, <1>1, <4>1 DEF RequestTypes
      <4>4. (Remote!Kind)' = kind BY <4>2 DEF Remote!Kind
      <4>5. (answers[Remote!Kind])' = answers[kind] - 1 BY <2>4, <2>6, <4>1, <4>4
      <4> HIDE DEF kind
      <4>6. Others' = Others BY <1>1, <2>3, <4>1, <4>5 DEF Others, kind
      <4>7. RequestTypes' BY <1>0, <2>4, <4>1, <4>2, <4>3 DEF RequestTypes
      <4>8. Outlived'
        BY <1>0, <1>1, <2>1, <2>3, <2>5, <4>1, <4>2, <4>3, <4>5, <4>6 DEF Outlived, kind
      <4> QED BY <4>7, <4>8 DEF RequestInv
    <3> QED BY <3>1, <3>2
  <2>7. CASE k # kind
    <3>1. request' = [request EXCEPT !.waiting = FALSE] /\ answers' = rest /\ place' = place
          /\ troubles' = troubles
      BY <2>1, <2>7 DEF Remote!Judged, Remote!NextTry
    <3>2. request' \in [stage : 1 .. 7, tries : 0 .. Tries, waiting : BOOLEAN]
          /\ request'.tries = request.tries /\ request'.stage = request.stage /\ Pending' = 0
      BY <1>0, <3>1 DEF RequestTypes, Pending
    <3>3. (Remote!Kind)' = kind BY <3>2 DEF Remote!Kind
    <3>4. (answers[Remote!Kind])' = answers[kind] BY <1>1, <2>4, <2>7, <3>1, <3>3
    <3> HIDE DEF kind
    <3>5. Others' = Others - 1 BY <1>1, <2>3, <3>1, <3>4 DEF Others, kind
    <3>6. RequestTypes' BY <1>0, <2>4, <3>1, <3>2 DEF RequestTypes
    <3>7. Outlived'
      BY <1>0, <1>1, <2>1, <2>3, <2>5, <3>1, <3>2, <3>4, <3>5 DEF Outlived, kind
    <3> QED BY <3>6, <3>7 DEF RequestInv
  <2> QED BY <2>6, <2>7
<1>5. CASE Remote!WaitRunsOut
  <2>1. /\ place = "handshake" /\ request.waiting /\ request' = [request EXCEPT !.waiting = FALSE]
        /\ place' = place /\ answers' = answers
        /\ troubles' = [troubles EXCEPT !.late = Remote!Lateness]
    BY <1>5 DEF Remote!WaitRunsOut, Remote!Handling, Remote!NextTry
  <2>2. request' \in [stage : 1 .. 7, tries : 0 .. Tries, waiting : BOOLEAN]
        /\ request'.tries = request.tries /\ request'.stage = request.stage
        /\ Pending = 1 /\ Pending' = 0
    BY <1>0, <2>1 DEF RequestTypes, Pending
  <2>3. (Remote!Kind)' = kind BY <2>2 DEF Remote!Kind
  <2>4. OnTheWay' = OnTheWay /\ Others' = Others BY <2>1, <2>3 DEF OnTheWay, Others
  <2> HIDE DEF kind
  <2>5. troubles' \in [late : Nat, lost : Nat] /\ troubles'.lost = troubles.lost
        /\ troubles'.late = Remote!Lateness
    BY <1>0, <1>7, <2>1 DEF RequestTypes
  <2>6. RequestTypes' BY <1>0, <2>1, <2>2, <2>5 DEF RequestTypes
  <2>7. Outlived'
    <3> DEFINE l == Remote!Lateness
    <3>1. /\ request.tries <= troubles.lost + answers[kind] /\ OnTheWay <= troubles.late + 1
          /\ request.tries + Others <= troubles.late + troubles.lost + 1
      BY <1>0, <2>1, <2>2 DEF Outlived, kind
    <3>2. OnTheWay <= l /\ request.tries + Others <= l + troubles.lost
      <4>1. CASE l = troubles.late + 1 BY <1>1, <3>1, <4>1
      <4>2. CASE l = troubles.late /\ OnTheWay = 0
        <5>1. answers[kind] = 0 /\ Others = 0 BY <1>1, <4>2 DEF Others, kind
        <5> HIDE DEF l
        <5> QED BY <1>1, <3>1, <4>2, <5>1
      <4> QED BY <1>7, <4>1, <4>2
    <3>3. (answers[Remote!Kind])' = answers[kind] BY <2>1, <2>3
    <3>4. OnTheWay' <= troubles'.late + Pending'
          /\ request'.tries + Others' <= troubles'.late + troubles'.lost + Pending'
      <4> HIDE DEF l
      <4>1. l \in Nat /\ troubles'.late = l BY <1>7, <2>5 DEF l
      <4> QED BY <1>1, <2>2, <2>4, <2>5, <3>2, <4>1
    <3>5. request'.tries <= troubles'.lost + (answers[Remote!Kind])' BY <2>2, <2>5, <3>1, <3>3
    <3> QED BY <2>1, <3>4, <3>5 DEF Outlived
  <2> QED BY <2>6, <2>7 DEF RequestInv
<1>8. ASSUME NEW late \in Nat, NEW how \in {"failed", "broken"}, Remote!Fails(how, late),
             place = "handshake", OnTheWay <= late, how = "failed" => Tries <= troubles.late + troubles.lost
      PROVE  RequestInv'
  <2>1. CASE Remote!NextStage(answers, late)
    <3>1. answers' = answers => OnTheWay' <= late BY <1>8 DEF OnTheWay
    <3>2. answers \in [Remote!Kinds -> Nat] BY <1>0 DEF RequestTypes
    <3> QED BY <1>8, <2>1, <3>1, <3>2, StageKeeps
  <2>2. CASE place' = how /\ UNCHANGED <<request, answers, troubles>>
    <3>1. RequestTypes' BY <1>0, <1>8, <2>2 DEF RequestTypes
    <3>2. Outlived' BY <1>0, <1>1, <1>8, <2>2 DEF Outlived
    <3> QED BY <3>1, <3>2 DEF RequestInv
  <2> QED BY <1>8, <2>1, <2>2 DEF Remote!Fails
<1>9. CASE Remote!ReceiveFails
  <2>1. place = "handshake" /\ request.waiting /\ Remote!Fails("broken", Remote!Lateness)
    BY <1>9 DEF Remote!ReceiveFails, Remote!Handling
  <2>2. Pending = 1 BY <2>1 DEF Pending
  <2>3. OnTheWay <= Remote!Lateness BY <1>0, <1>1, <1>7, <2>1, <2>2 DEF Outlived
  <2> QED BY <1>7, <1>8, <2>1, <2>3
<1>6. CASE Remote!OutOfTries
  <2>1. place = "handshake" /\ ~request.waiting /\ request.tries = Tries
        /\ Remote!Fails("failed", troubles.late)
    BY <1>6 DEF Remote!OutOfTries
  <2>2. Pending = 0 BY <2>1 DEF Pending
  <2>3. OnTheWay <= troubles.late /\ Tries <= troubles.late + troubles.lost
    BY <1>0, <1>1, <2>1, <2>2 DEF Outlived
  <2> QED BY <1>1, <1>8, <2>1, <2>3
<1> QED BY <1>3, <1>4, <1>5, <1>6, <1>9 DEF Remote!Handshake

LEMMA RequestKeeps == ASSUME RequestInv, [Remote!Next]_remoteVars PROVE RequestInv'
<1>1. ASSUME UNCHANGED Remote!handshake PROVE RequestInv'
  BY <1>1 DEF Remote!handshake, RequestInv, RequestTypes, Outlived, OnTheWay, Others, Pending,
              Remote!Kind
<1>2. CASE UNCHANGED remoteVars BY <1>1, <1>2 DEF remoteVars, Remote!handshake
<1>3. ASSUME NEW t \in Remote!Threads, Remote!SendMessage(t) PROVE UNCHANGED Remote!handshake
  BY <1>3 DEF Remote!SendMessage, Remote!TakeCounter, Remote!ReadKey, Remote!Send,
              Remote!SendFails, Remote!Push
<1>4. ASSUME \/ \E key \in confirmed : Remote!ReceiveAck(key)
             \/ Remote!ReceiveUnknown \/ Remote!WakeUp \/ Remote!GiveUp
             \/ \E n \in sent : Remote!ConsoleReceive(n)
      PROVE  UNCHANGED Remote!handshake
  BY <1>4 DEF Remote!ReceiveAck, Remote!ReceiveUnknown, Remote!WakeUp, Remote!GiveUp,
              Remote!ConsoleReceive
<1>5. ASSUME NEW old \in SUBSET DOMAIN packets, Remote!Scan(old) PROVE UNCHANGED Remote!handshake
  BY <1>5 DEF Remote!Scan
<1> QED BY <1>1, <1>2, <1>3, <1>4, <1>5, HandshakeKeeps DEF Remote!Next

LEMMA RequestsAreOutlived == ASSUME RequestInv PROVE LateAnswersAreOutlived
BY RudpAssumption DEF RequestInv, RequestTypes, Outlived, LateAnswersAreOutlived,
                      Remote!LateAnswersAreOutlived

LEMMA RemoteTypesAre == ASSUME RemoteInv, RequestInv PROVE Remote!TypeOK
<1>0. RemoteTypes /\ Replied /\ RequestTypes BY DEF RemoteInv, RequestInv
<1>1. /\ place \in {"handshake", "loop", "failed", "broken"}
      /\ request \in [stage : 1 .. Len(Remote!Stages), tries : 0 .. Tries, waiting : BOOLEAN]
      /\ answers \in [Remote!Kinds -> Nat] /\ troubles \in [late : Nat, lost : Nat]
  BY <1>0, StageIs DEF RequestTypes
<1>2. confirmed \subseteq Nat BY <1>0, RudpAssumption DEF Replied, Key
<1>3. packets \in Seq([n : 1 .. RudpMessages, key : Nat, tries : 0 .. RudpTriesMax])
  BY <1>0 DEF RemoteTypes, Letters
<1>4. /\ counted \in 0 .. RudpMessages
      /\ doing \in [Remote!Threads -> {"idle", "key", "send", "push", "over"}]
      /\ inHand \in [Remote!Threads -> [n : 0 .. RudpMessages, key : Nat]]
      /\ Len(packets) <= RudpBufferSize
      /\ scan \in [at : {"wait", "scan", "give_up"}, i : Nat \ {0}, key : Nat]
      /\ sent \subseteq 1 .. RudpMessages /\ arrived \subseteq sent
      /\ abandons \subseteq 1 .. RudpMessages /\ wiped \subseteq 1 .. RudpMessages
      /\ refusals \in 0 .. RudpFailures
  BY <1>0 DEF RemoteTypes, ScanTypes
<1> QED BY <1>1, <1>2, <1>3, <1>4 DEF Remote!TypeOK
-----------------------------------------------------------------------------
(* Both layers *)

LEMMA TakionHolds == SpecEither => []TakionInv
<1>1. InitEither => TakionInv BY TakionInit DEF InitEither
<1>2. ASSUME TakionInv, [TakionStep \/ RudpStep]_allVars PROVE TakionInv'
  BY <1>2, TakionKeeps DEF TakionStep, RudpStep, allVars
<1> QED BY <1>1, <1>2, PTL DEF SpecEither

LEMMA RemoteHolds == SpecEither => [](RemoteInv /\ RequestInv)
<1>1. InitEither => RemoteInv /\ RequestInv BY RemoteInit, RequestInit DEF InitEither
<1>2. ASSUME RemoteInv, RequestInv, [TakionStep \/ RudpStep]_allVars
      PROVE  RemoteInv' /\ RequestInv'
  <2>1. [Remote!Next]_remoteVars BY <1>2 DEF TakionStep, RudpStep, allVars
  <2> QED BY <1>2, <2>1, RemoteKeeps, RequestKeeps
<1> QED BY <1>1, <1>2, PTL DEF SpecEither

\* Both senders keep their types: every thread is at a step of its send, both buffers stay
\* within their sizes, and no packet is repeated more often than allowed, also when packets
\* are given up under the scan.
THEOREM SendTypes == SpecEither => [](TypeOK /\ Remote!TypeOK)
<1>1. TakionInv => TypeOK BY DEF TakionInv
<1>2. RemoteInv /\ RequestInv => Remote!TypeOK BY RemoteTypesAre
<1> QED BY <1>1, <1>2, TakionHolds, RemoteHolds, PTL

\* NothingForgotten of Takion and of RUDP, for any number of senders and messages: what is
\* not confirmed with all before it is in the buffer or in a sender's hands, or its send
\* failed, the buffer refused it, or it was given up after its tries; or, of RUDP, a message
\* of an unknown type took it out.
THEOREM NothingIsForgotten == SpecEither => []NeitherForgets
<1>1. TakionInv /\ RemoteInv => NeitherForgets
  BY TakionForgetsNothing, RemoteForgetsNothing DEF NeitherForgets
<1> QED BY <1>1, TakionHolds, RemoteHolds, PTL

\* send_recv of RUDP, for any number of tries and of late and lost answers: a late answer
\* costs one try in all, not one of each later request, so that a request runs out of tries
\* only after as many troubles. It does not speak of requests that an error ends at once.
THEOREM LateAnswersDoNotAddUp == SpecEither => []LateAnswersAreOutlived
<1>1. RequestInv => LateAnswersAreOutlived BY RequestsAreOutlived
<1> QED BY <1>1, RemoteHolds, PTL
=============================================================================
