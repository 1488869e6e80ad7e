---------------------------- MODULE ClientProofs ----------------------------
(***************************************************************************)
(* What the parts of the client keep for every value of the constants: a   *)
(* session that reported its end stays quiet, the screen never goes back,  *)
(* sound keeps its order between the threads that hand it on, and what the *)
(* player does reaches the console.                                        *)
(*                                                                         *)
(* Each part has an inductive invariant of its own: a step of the client   *)
(* is a step of one part and leaves the state of the others alone.         *)
(***************************************************************************)
EXTENDS Client, SequenceTheorems, FiniteSetTheorems, WellFoundedInduction, TLAPS

-----------------------------------------------------------------------------
(* Sequences of samples *)

Samples(s)  == {s[i] : i \in DOMAIN s}
Rising(s)   == \A i, j \in DOMAIN s : i < j => s[i] < s[j]
Ahead(s, t) == \A x \in Samples(s), y \in Samples(t) : x < y

LEMMA SamplesAre ==
  ASSUME NEW s \in Seq(Nat)
  PROVE  Samples(s) \subseteq Nat /\ DOMAIN s = 1 .. Len(s) /\ Len(s) \in Nat
BY DEF Samples

LEMMA Joined ==
  ASSUME NEW s \in Seq(Nat), NEW t \in Seq(Nat)
  PROVE  /\ s \o t \in Seq(Nat) /\ Len(s \o t) = Len(s) + Len(t)
         /\ Samples(s \o t) = Samples(s) \cup Samples(t)
         /\ Rising(s \o t) <=> Rising(s) /\ Rising(t) /\ Ahead(s, t)
<1> DEFINE u == s \o t
<1>1. /\ u \in Seq(Nat) /\ Len(u) = Len(s) + Len(t) /\ DOMAIN u = 1 .. Len(s) + Len(t)
      /\ Len(s) \in Nat /\ Len(t) \in Nat /\ DOMAIN s = 1 .. Len(s) /\ DOMAIN t = 1 .. Len(t)
      /\ \A i \in 1 .. Len(s) + Len(t) : u[i] = IF i <= Len(s) THEN s[i] ELSE t[i - Len(s)]
  OBVIOUS
<1> HIDE DEF u
<1>2. \A i \in DOMAIN s : i \in DOMAIN u /\ u[i] = s[i] BY <1>1
<1>3. \A j \in DOMAIN t : Len(s) + j \in DOMAIN u /\ u[Len(s) + j] = t[j]
  <2> TAKE j \in DOMAIN t
  <2>1. Len(s) + j \in 1 .. Len(s) + Len(t) /\ ~(Len(s) + j <= Len(s)) /\ Len(s) + j - Len(s) = j
    BY <1>1
  <2> QED BY <1>1, <2>1
<1>4. \A i \in DOMAIN u : (i \in DOMAIN s /\ u[i] = s[i])
                          \/ (i > Len(s) /\ i - Len(s) \in DOMAIN t /\ u[i] = t[i - Len(s)])
  BY <1>1
<1>5. Samples(u) = Samples(s) \cup Samples(t) BY <1>2, <1>3, <1>4 DEF Samples
<1>6. ASSUME Rising(u) PROVE Rising(s) /\ Rising(t) /\ Ahead(s, t)
  <2>1. Rising(s) BY <1>1, <1>2, <1>6 DEF Rising
  <2>2. ASSUME NEW i \in DOMAIN t, NEW j \in DOMAIN t, i < j PROVE t[i] < t[j]
    <3>1. Len(s) + i < Len(s) + j BY <1>1, <2>2
    <3> QED BY <1>3, <1>6, <3>1 DEF Rising
  <2>3. ASSUME NEW i \in DOMAIN s, NEW j \in DOMAIN t PROVE s[i] < t[j]
    <3>1. i < Len(s) + j BY <1>1, <2>3
    <3> QED BY <1>2, <1>3, <1>6, <3>1 DEF Rising
  <2> QED BY <2>1, <2>2, <2>3 DEF Rising, Ahead, Samples
<1>7. ASSUME Rising(s), Rising(t), Ahead(s, t) PROVE Rising(u)
  <2> SUFFICES ASSUME NEW i \in DOMAIN u, NEW j \in DOMAIN u, i < j PROVE u[i] < u[j] BY DEF Rising
  <2>1. CASE i \in DOMAIN s /\ j \in DOMAIN s BY <1>2, <1>7, <2>1 DEF Rising
  <2>2. CASE i \in DOMAIN s /\ j \notin DOMAIN s BY <1>2, <1>4, <1>7, <2>2 DEF Ahead, Samples
  <2>3. CASE i \notin DOMAIN s
    <3>1. i - Len(s) \in DOMAIN t /\ u[i] = t[i - Len(s)] /\ i > Len(s) BY <1>4, <2>3
    <3>2. j - Len(s) \in DOMAIN t /\ u[j] = t[j - Len(s)] BY <1>1, <1>4, <3>1
    <3>3. i - Len(s) < j - Len(s) BY <1>1
    <3> QED BY <1>7, <3>1, <3>2, <3>3 DEF Rising
  <2> QED BY <2>1, <2>2, <2>3
<1> QED BY <1>1, <1>5, <1>6, <1>7 DEF u

LEMMA Cut ==
  ASSUME NEW s \in Seq(Nat), NEW n \in 0 .. Len(s)
  PROVE  LET a == SubSeq(s, 1, n)
             b == SubSeq(s, n + 1, Len(s))
         IN /\ a \in Seq(Nat) /\ b \in Seq(Nat) /\ Len(a) = n /\ Len(b) = Len(s) - n /\ s = a \o b
<1> DEFINE a == SubSeq(s, 1, n)
           b == SubSeq(s, n + 1, Len(s))
<1>1. Len(s) \in Nat /\ DOMAIN s = 1 .. Len(s) /\ \A i \in 1 .. Len(s) : s[i] \in Nat OBVIOUS
<1>2. a \in Seq(Nat) /\ Len(a) = n /\ \A i \in 1 .. n : a[i] = s[i] BY <1>1
<1>3. b \in Seq(Nat) /\ Len(b) = Len(s) - n /\ \A i \in 1 .. Len(s) - n : b[i] = s[n + i]
  <2> DEFINE N == Len(s)
  <2>1. /\ Len(b) = (IF n + 1 <= N THEN N - (n + 1) + 1 ELSE 0)
        /\ \A i \in 1 .. Len(b) : b[i] = s[n + 1 + i - 1]
    BY <1>1
  <2>2. N \in Nat /\ n \in 0 .. N BY <1>1
  <2>3. Len(b) = N - n /\ Len(b) \in Nat
    <3> HIDE DEF b, N
    <3> QED BY <2>1, <2>2
  <2>4. ASSUME NEW i \in 1 .. Len(b) PROVE b[i] = s[n + i] /\ b[i] \in Nat
    <3>1. n + i \in 1 .. N /\ n + 1 + i - 1 = n + i
      <4> HIDE DEF b, N
      <4> QED BY <2>2, <2>3, <2>4
    <3> QED BY <1>1, <2>1, <3>1
  <2>5. b \in Seq(Nat) BY <1>1
  <2> QED BY <2>3, <2>4, <2>5
<1> HIDE DEF a, b
<1>4. a \o b \in Seq(Nat) /\ Len(a \o b) = Len(s) /\ n \in Nat
      /\ \A i \in 1 .. Len(a) + Len(b) : (a \o b)[i] = IF i <= Len(a) THEN a[i] ELSE b[i - Len(a)]
  <2>1. Len(a \o b) = Len(a) + Len(b) /\ a \o b \in Seq(Nat) BY <1>2, <1>3, ConcatProperties
  <2>2. \A i \in 1 .. Len(a) + Len(b) : (a \o b)[i] = IF i <= Len(a) THEN a[i] ELSE b[i - Len(a)]
    BY <1>2, <1>3
  <2>3. Len(a) + Len(b) = Len(s) /\ n \in Nat BY <1>1, <1>2, <1>3
  <2> QED BY <2>1, <2>2, <2>3
<1>5. \A i \in 1 .. Len(s) : (a \o b)[i] = s[i]
  <2> TAKE i \in 1 .. Len(s)
  <2>1. i \in 1 .. Len(a) + Len(b) BY <1>1, <1>2, <1>3
  <2>2. CASE i <= n BY <1>1, <1>2, <1>4, <2>1, <2>2
  <2>3. CASE i > n
    <3>1. i - n \in 1 .. Len(s) - n /\ n + (i - n) = i BY <1>1, <1>4, <2>3
    <3>2. (a \o b)[i] = b[i - n] BY <1>2, <1>4, <2>1, <2>3
    <3> QED BY <1>3, <3>1, <3>2
  <2> QED BY <1>1, <1>4, <2>2, <2>3
<1>6. s = a \o b BY <1>4, <1>5, SeqEqual
<1> QED BY <1>2, <1>3, <1>6 DEF a, b

\* The next samples.
LEMMA Following ==
  ASSUME NEW p \in Nat, NEW n \in Nat
  PROVE  LET s == [i \in 1 .. n |-> p + i]
         IN s \in Seq(Nat) /\ Len(s) = n /\ Samples(s) = p + 1 .. p + n /\ Rising(s)
<1> DEFINE s == [i \in 1 .. n |-> p + i]
<1>1. s \in Seq(Nat) /\ Len(s) = n /\ DOMAIN s = 1 .. n /\ \A i \in 1 .. n : s[i] = p + i
  <2>1. \A i \in 1 .. n : p + i \in Nat OBVIOUS
  <2>2. s \in Seq(Nat) BY <2>1, IsASeq
  <2> QED BY <2>2
<1> HIDE DEF s
<1>2. Samples(s) = p + 1 .. p + n
  <2>1. ASSUME NEW x \in p + 1 .. p + n PROVE x \in Samples(s)
    <3>1. x - p \in 1 .. n /\ p + (x - p) = x OBVIOUS
    <3> QED BY <1>1, <3>1 DEF Samples
  <2>2. ASSUME NEW x \in Samples(s) PROVE x \in p + 1 .. p + n BY <1>1 DEF Samples
  <2> QED BY <2>1, <2>2
<1>3. Rising(s) BY <1>1 DEF Rising
<1> QED BY <1>1, <1>2, <1>3 DEF s

\* What is left when a part in the middle is thrown away.
LEMMA Thrown ==
  ASSUME NEW x \in Seq(Nat), NEW o \in Seq(Nat), NEW y \in Seq(Nat), Rising((x \o o) \o y)
  PROVE  Rising(x \o y) /\ Samples(x \o y) = Samples((x \o o) \o y) \ Samples(o)
<1>1. /\ x \o o \in Seq(Nat) /\ Samples(x \o o) = Samples(x) \cup Samples(o)
      /\ Rising(x \o o) => Rising(x) /\ Rising(o) /\ Ahead(x, o)
  BY Joined
<1>2. /\ Samples((x \o o) \o y) = Samples(x) \cup Samples(o) \cup Samples(y)
      /\ Rising(x \o o) /\ Rising(y) /\ Ahead(x \o o, y)
  BY <1>1, Joined
<1>3. Rising(x) /\ Ahead(x, o) /\ Ahead(x, y) /\ Ahead(o, y) BY <1>1, <1>2 DEF Ahead
<1>4. Rising(x \o y) /\ Samples(x \o y) = Samples(x) \cup Samples(y) BY <1>2, <1>3, Joined
<1>5. Samples(x) \subseteq Nat /\ Samples(o) \subseteq Nat /\ Samples(y) \subseteq Nat BY SamplesAre
<1>6. \A z \in Samples(o) : z \notin Samples(x) /\ z \notin Samples(y)
  <2> TAKE z \in Samples(o)
  <2>1. ~(z < z) BY <1>5
  <2> QED BY <1>3, <2>1 DEF Ahead
<1> QED BY <1>2, <1>4, <1>6

\* Moving the end of one piece to the front of the next changes nothing.
LEMMA Shifted ==
  ASSUME NEW x \in Seq(Nat), NEW a \in Seq(Nat), NEW b \in Seq(Nat)
  PROVE  x \o (a \o b) = (x \o a) \o b /\ x \o a \in Seq(Nat) /\ (x \o a) \o b \in Seq(Nat)
<1>1. x \o a \in Seq(Nat) /\ a \o b \in Seq(Nat) BY ConcatProperties
<1>2. (x \o a) \o b = x \o (a \o b) BY ConcatAssociative
<1>3. (x \o a) \o b \in Seq(Nat) BY <1>1, ConcatProperties
<1> QED BY <1>1, <1>2, <1>3

LEMMA NothingJoined ==
  ASSUME NEW x \in Seq(Nat)
  PROVE  x \o <<>> = x /\ <<>> \o x = x /\ <<>> \in Seq(Nat) /\ Len(<<>>) = 0
         /\ Samples(<<>>) = {} /\ Rising(<<>>)
BY ConcatEmptySeq, EmptySeq DEF Samples, Rising
-----------------------------------------------------------------------------
(* Sessions *)

Ends         == {"close", "quit", "flag", "over"}
Senders      == {"core", "manager", "connect"}
Quits        == [id : Sessions!Ids \cup {Sessions!NoId}, by : Senders]
SharedStates == [Sessions!Ids -> [core : {"none", "running", "stopping", "over"},
                                  stop : BOOLEAN, media : BOOLEAN, done : BOOLEAN]]

\* The threads of a session are made once, when its core runs; the core has ended when
\* it was joined, and the flag is set at the very end.
SessionInv ==
  /\ attempts \in Nat
  /\ current \in Sessions!Ids \cup {Sessions!NoId}
  /\ conn \in [Sessions!Ids -> {"none", "begin", "wake", "settings", "punch", "build", "new",
                       "spawn", "publish", "failed", "over"}]
  /\ shared \in SharedStates
  /\ stopper \in [Sessions!Ids -> {"none", "poll", "join", "close", "quit", "flag", "over"}]
  /\ queue \in Seq(Quits)
  /\ \A i \in Sessions!Ids :
       /\ i > attempts => conn[i] = "none"
       /\ stopper[i] # "none" => conn[i] \in {"publish", "over"}
       /\ stopper[i] \in Ends => shared[i].core = "over"
       /\ shared[i].done => stopper[i] = "over"

QuietAfterDone ==
  \A i \in Sessions!Ids : shared[i].done =>
       /\ shared'[i].core = "over"
       /\ \A by \in {"core", "manager"} : Sessions!Told(i, by)' => Sessions!Told(i, by)

LEMMA StopKeeps ==
  ASSUME SessionInv, Sessions!StopCurrent
  PROVE  /\ shared' \in SharedStates
         /\ current' \in Sessions!Ids \cup {Sessions!NoId}
         /\ \A i \in Sessions!Ids : shared'[i].core = shared[i].core
            /\ shared'[i].done = shared[i].done
BY DEF SessionInv, SharedStates, Sessions!StopCurrent

LEMMA SessionsInit == Sessions!Init => SessionInv
BY DEF Sessions!Init, SessionInv, SharedStates, Sessions!NoId, Ends

\* A Quit that is sent is the only new one.
LEMMA SendIs ==
  ASSUME SessionInv, NEW id \in Sessions!Ids \cup {Sessions!NoId}, NEW by \in Senders,
         Sessions!Sends(id, by)
  PROVE  /\ queue' \in Seq(Quits)
         /\ \A i \in Sessions!Ids, b \in {"core", "manager"} :
              i # id /\ Sessions!Told(i, b)' => Sessions!Told(i, b)
<1> DEFINE m == [id |-> id, by |-> by]
<1>1. m \in Quits /\ queue \in Seq(Quits) /\ queue' = Append(queue, m)
  BY DEF SessionInv, Quits, Sessions!Sends
<1>2. queue' \in Seq(Quits) /\ Len(queue') = Len(queue) + 1 /\ Len(queue) \in Nat
      /\ \A k \in 1 .. Len(queue') : queue'[k] = IF k = Len(queue) + 1 THEN m ELSE queue[k]
  <2> HIDE DEF m, Quits
  <2> QED BY <1>1
<1>3. ASSUME NEW i \in Sessions!Ids, NEW b \in {"core", "manager"}, i # id, Sessions!Told(i, b)'
      PROVE  Sessions!Told(i, b)
  <2>1. PICK k \in DOMAIN queue' : queue'[k] = [id |-> i, by |-> b]
    BY <1>3 DEF Sessions!Told, Sessions!Seqs!ToSet
  <2>2. k \in 1 .. Len(queue') BY <1>2, <2>1
  <2>3. k # Len(queue) + 1 BY <1>2, <1>3, <2>1, <2>2
  <2>4. k \in 1 .. Len(queue) /\ queue[k] = [id |-> i, by |-> b] BY <1>2, <2>1, <2>2, <2>3
  <2>5. k \in DOMAIN queue BY <1>1, <2>4
  <2> QED BY <2>4, <2>5 DEF Sessions!Told, Sessions!Seqs!ToSet
<1> QED BY <1>2, <1>3

LEMMA ConnectKeeps ==
  ASSUME SessionInv, NEW i \in Sessions!Ids, Sessions!Connect(i)
  PROVE  SessionInv' /\ QuietAfterDone
<1> USE DEF Ends, Senders, Quits, SharedStates
<1>1. CASE Sessions!Begin(i)
  BY <1>1, StopKeeps DEF SessionInv, QuietAfterDone, Sessions!Begin, Sessions!ConnGoes,
       Sessions!Told, Sessions!ui
<1>2. CASE Sessions!Woken(i) \/ Sessions!TakeSettings(i) \/ Sessions!Punched(i) \/ Sessions!Build(i)
  BY <1>2 DEF SessionInv, QuietAfterDone, Sessions!Woken, Sessions!TakeSettings, Sessions!Punched,
     Sessions!Build, Sessions!ConnGoes, Sessions!Told, Sessions!ui
<1>3. CASE Sessions!NewSession(i)
  <2>1. CASE UNCHANGED shared
    BY <1>3, <2>1 DEF SessionInv, QuietAfterDone, Sessions!NewSession, Sessions!ConnGoes,
         Sessions!Told, Sessions!ui
  <2>2. CASE conn[i] = "new" /\ conn' = [conn EXCEPT ![i] = "spawn"]
             /\ shared' = [shared EXCEPT ![i].core = "running"]
    <3>1. UNCHANGED <<page, home, attempts, lock, current, pending, stopper, media, queue>>
      BY <1>3 DEF Sessions!NewSession, Sessions!ui
    <3>2. stopper[i] = "none" BY <2>2 DEF SessionInv
    <3>3. shared' \in SharedStates
          /\ \A j \in Sessions!Ids : shared'[j].done = shared[j].done
             /\ (j # i => shared'[j] = shared[j])
      BY <2>2 DEF SessionInv
    <3>4. SessionInv' BY <2>2, <3>1, <3>2, <3>3 DEF SessionInv
    <3>5. QuietAfterDone BY <3>1, <3>2, <3>3 DEF SessionInv, QuietAfterDone, Sessions!Told
    <3> QED BY <3>4, <3>5
  <2> QED BY <1>3, <2>1, <2>2 DEF Sessions!NewSession, Sessions!ConnGoes
<1>4. CASE Sessions!SpawnThreads(i)
  BY <1>4 DEF SessionInv, QuietAfterDone, Sessions!SpawnThreads, Sessions!ConnGoes,
       Sessions!Told, Sessions!ui
<1>5. CASE Sessions!Publish(i)
  BY <1>5 DEF SessionInv, QuietAfterDone, Sessions!Publish, Sessions!ConnGoes, Sessions!Told,
       Sessions!ui
<1>6. CASE Sessions!Failed(i)
  <2>1. /\ queue' \in Seq(Quits)
        /\ \A j \in Sessions!Ids, b \in {"core", "manager"} :
              Sessions!Told(j, b)' => Sessions!Told(j, b)
    <3>1. Sessions!Sends(Sessions!NoId, "connect") BY <1>6 DEF Sessions!Failed
    <3>2. Sessions!NoId \in Sessions!Ids \cup {Sessions!NoId} /\ "connect" \in Senders OBVIOUS
    <3>3. \A j \in Sessions!Ids : j # Sessions!NoId
      BY AttemptsAssumption DEF Sessions!NoId, Sessions!Ids
    <3> HIDE DEF Sessions!NoId
    <3>4. /\ queue' \in Seq(Quits)
          /\ \A j \in Sessions!Ids, b \in {"core", "manager"} :
               j # Sessions!NoId /\ Sessions!Told(j, b)' => Sessions!Told(j, b)
      BY <3>1, <3>2, SendIs
    <3> QED BY <3>3, <3>4
  <2>2. conn' = [conn EXCEPT ![i] = "over"] /\ UNCHANGED <<attempts, current, shared, stopper>>
        /\ conn[i] = "failed"
    BY <1>6 DEF Sessions!Failed, Sessions!ConnGoes, Sessions!ui
  <2>3. SessionInv' BY <2>1, <2>2 DEF SessionInv
  <2> QED BY <2>1, <2>2, <2>3 DEF SessionInv, QuietAfterDone
<1> QED BY <1>1, <1>2, <1>3, <1>4, <1>5, <1>6 DEF Sessions!Connect

LEMMA StopperKeeps ==
  ASSUME SessionInv, NEW i \in Sessions!Ids, Sessions!Stopper(i)
  PROVE  SessionInv' /\ QuietAfterDone
<1> USE DEF Ends, Senders, Quits, SharedStates
<1>1. CASE Sessions!SeeStop(i)
  BY <1>1 DEF SessionInv, QuietAfterDone, Sessions!SeeStop, Sessions!StopperGoes, Sessions!Told,
       Sessions!ui
<1>2. CASE Sessions!JoinCore(i)
  BY <1>2 DEF SessionInv, QuietAfterDone, Sessions!JoinCore, Sessions!StopperGoes, Sessions!Told,
       Sessions!ui
<1>3. CASE Sessions!CloseMedia(i)
  BY <1>3 DEF SessionInv, QuietAfterDone, Sessions!CloseMedia, Sessions!StopperGoes,
       Sessions!Told, Sessions!ui
<1>4. CASE Sessions!TellEnd(i)
  <2>1. /\ queue' \in Seq(Quits)
        /\ \A j \in Sessions!Ids, b \in {"core", "manager"} : j # i
           /\ Sessions!Told(j, b)' => Sessions!Told(j, b)
    <3>1. Sessions!Sends(i, "manager") BY <1>4 DEF Sessions!TellEnd
    <3>2. i \in Sessions!Ids \cup {Sessions!NoId} /\ "manager" \in Senders OBVIOUS
    <3> QED BY <3>1, <3>2, SendIs
  <2>2. stopper' = [stopper EXCEPT ![i] = "flag"]
        /\ UNCHANGED <<attempts, current, shared, conn>> /\ stopper[i] = "quit"
    BY <1>4 DEF Sessions!TellEnd, Sessions!StopperGoes, Sessions!ui
  <2>3. SessionInv' BY <2>1, <2>2 DEF SessionInv
  <2> QED BY <2>1, <2>2, <2>3 DEF SessionInv, QuietAfterDone
<1>5. CASE Sessions!SetDone(i)
  BY <1>5 DEF SessionInv, QuietAfterDone, Sessions!SetDone, Sessions!StopperGoes, Sessions!Told,
       Sessions!ui
<1> QED BY <1>1, <1>2, <1>3, <1>4, <1>5 DEF Sessions!Stopper

LEMMA EndsKeep ==
  ASSUME SessionInv, NEW i \in Sessions!Ids, Sessions!CoreEnds(i) \/ Sessions!MediaEnds(i)
  PROVE  SessionInv' /\ QuietAfterDone
<1> USE DEF Ends, Senders, Quits, SharedStates
<1>1. CASE Sessions!CoreEnds(i)
  <2>1. /\ queue' \in Seq(Quits)
        /\ \A j \in Sessions!Ids, b \in {"core", "manager"} : j # i
           /\ Sessions!Told(j, b)' => Sessions!Told(j, b)
    <3>1. Sessions!Sends(i, "core") BY <1>1 DEF Sessions!CoreEnds
    <3>2. i \in Sessions!Ids \cup {Sessions!NoId} /\ "core" \in Senders OBVIOUS
    <3> QED BY <3>1, <3>2, SendIs
  <2>2. shared' = [shared EXCEPT ![i].core = "over"]
        /\ UNCHANGED <<attempts, current, stopper, conn>>
        /\ shared[i].core \in {"running", "stopping"}
    BY <1>1 DEF Sessions!CoreEnds, Sessions!ui
  <2>3. /\ shared' \in SharedStates
        /\ shared'[i].core = "over"
        /\ \A j \in Sessions!Ids : shared'[j].done = shared[j].done
           /\ (j # i => shared'[j] = shared[j])
    BY <2>2 DEF SessionInv
  <2>4. SessionInv' BY <2>1, <2>2, <2>3 DEF SessionInv
  <2>5. ~shared[i].done BY <2>2 DEF SessionInv
  <2> QED BY <2>1, <2>3, <2>4, <2>5 DEF SessionInv, QuietAfterDone
<1>2. CASE Sessions!MediaEnds(i)
  BY <1>2 DEF SessionInv, QuietAfterDone, Sessions!MediaEnds, Sessions!Told, Sessions!ui
<1> QED BY <1>1, <1>2

LEMMA UserKeeps ==
  ASSUME SessionInv,
         \/ Sessions!OpenPage \/ Sessions!Tick \/ Sessions!HandleQuit \/ Sessions!LeavePage
         \/ Sessions!Disconnect \/ Sessions!GoHome
  PROVE  SessionInv' /\ QuietAfterDone
<1> USE DEF Ends, Senders, Quits, SharedStates
<1>1. CASE Sessions!OpenPage
  BY <1>1 DEF SessionInv, QuietAfterDone, Sessions!OpenPage, Sessions!Told
<1>2. CASE Sessions!Tick
  <2>1. attempts' = attempts + 1 /\ conn' = [conn EXCEPT ![attempts + 1] = "begin"]
        /\ UNCHANGED <<current, shared, stopper, queue>>
    BY <1>2 DEF Sessions!Tick
  <2>2. attempts' \in Nat /\ \A j \in Sessions!Ids : j > attempts' => j > attempts
        /\ j # attempts + 1
    BY <2>1, AttemptsAssumption DEF SessionInv, Sessions!Ids
  <2>3. attempts + 1 \in Sessions!Ids => stopper[attempts + 1] = "none"
    <3>1. ASSUME attempts + 1 \in Sessions!Ids PROVE conn[attempts + 1] = "none"
      <4>1. attempts + 1 > attempts BY DEF SessionInv
      <4> QED BY <3>1, <4>1 DEF SessionInv
    <3> QED BY <3>1 DEF SessionInv
  <2>4. SessionInv' BY <2>1, <2>2, <2>3 DEF SessionInv
  <2> QED BY <2>1, <2>4 DEF SessionInv, QuietAfterDone, Sessions!Told
<1>3. CASE Sessions!LeavePage \/ Sessions!Disconnect
  BY <1>3, StopKeeps DEF SessionInv, QuietAfterDone, Sessions!LeavePage, Sessions!Disconnect,
       Sessions!Told, Sessions!ui
<1>4. CASE Sessions!GoHome
  <2>1. CASE Sessions!StopCurrent
    BY <1>4, <2>1, StopKeeps DEF SessionInv, QuietAfterDone, Sessions!GoHome, Sessions!Told
  <2>2. CASE UNCHANGED <<page, shared, current, pending>>
    BY <1>4, <2>2 DEF SessionInv, QuietAfterDone, Sessions!GoHome, Sessions!Told
  <2> QED BY <1>4, <2>1, <2>2 DEF Sessions!GoHome
<1>5. CASE Sessions!HandleQuit
  <2>1. queue # <<>> /\ queue' = Tail(queue) /\ UNCHANGED <<attempts, conn, stopper>>
    BY <1>5 DEF Sessions!HandleQuit
  <2>2. queue \in Seq(Quits) BY DEF SessionInv
  <2>3. queue' \in Seq(Quits) /\ Len(queue') = Len(queue) - 1 /\ Len(queue) \in Nat \ {0}
        /\ \A k \in 1 .. Len(queue') : queue'[k] = queue[k + 1]
    <3> HIDE DEF Quits
    <3> QED BY <2>1, <2>2
  <2>4. ASSUME NEW j \in Sessions!Ids, NEW b \in {"core", "manager"}, Sessions!Told(j, b)'
        PROVE Sessions!Told(j, b)
    <3>1. PICK k \in DOMAIN queue' : queue'[k] = [id |-> j, by |-> b]
      BY <2>4 DEF Sessions!Told, Sessions!Seqs!ToSet
    <3>2. k \in 1 .. Len(queue') BY <2>3, <3>1
    <3>3. k + 1 \in 1 .. Len(queue) /\ queue[k + 1] = [id |-> j, by |-> b] BY <2>3, <3>1, <3>2
    <3>4. k + 1 \in DOMAIN queue BY <2>2, <3>3
    <3> QED BY <3>3, <3>4 DEF Sessions!Told, Sessions!Seqs!ToSet
  <2>5. /\ shared' \in SharedStates
        /\ current' \in Sessions!Ids \cup {Sessions!NoId}
        /\ \A i \in Sessions!Ids : shared'[i].core = shared[i].core
           /\ shared'[i].done = shared[i].done
    <3>1. CASE Sessions!StopCurrent BY <3>1, StopKeeps
    <3>2. CASE UNCHANGED <<page, home, shared, current, pending>> BY <3>2 DEF SessionInv
    <3> QED BY <1>5, <3>1, <3>2 DEF Sessions!HandleQuit
  <2>6. SessionInv' BY <2>1, <2>3, <2>5 DEF SessionInv
  <2> QED BY <2>4, <2>5, <2>6 DEF SessionInv, QuietAfterDone
<1> QED BY <1>1, <1>2, <1>3, <1>4, <1>5

LEMMA SessionsNext == SessionInv /\ [Sessions!Next]_sessionVars => SessionInv' /\ QuietAfterDone
<1> SUFFICES ASSUME SessionInv, [Sessions!Next]_sessionVars PROVE SessionInv' /\ QuietAfterDone
  OBVIOUS
<1>1. CASE UNCHANGED sessionVars
  BY <1>1 DEF sessionVars, SessionInv, QuietAfterDone, Sessions!Told, Ends
<1>2. CASE Sessions!Next
  BY <1>2, UserKeeps, ConnectKeeps, StopperKeeps, EndsKeep DEF Sessions!Next
<1> QED BY <1>1, <1>2
-----------------------------------------------------------------------------
(* Pictures *)

Inputs   == [sent : Nat, wakes : Int, open : BOOLEAN]
Places   == {"wait", "pop", "write", "submit", "look", "give", "over"}
Hands    == [at : Places, hand : Nat, active : BOOLEAN]
Decoders == [kind : {"raw", "cpu", "none"}, primed : BOOLEAN]
Mails    == [kind : {"none", "cpu", "d3d11", "rgba"}, n : Nat]
Sinks    == [mail : Mails, nv12 : Nat, rgba : Nat, source : {"nv12", "rgba"},
             lost : BOOLEAN, stopping : BOOLEAN, thread : {"get", "draw", "over"}]

PictureTypes ==
  /\ input \in Inputs /\ slot \in Seq(Nat) /\ decoding \in Hands
  /\ decoder \in Decoders /\ sink \in Sinks /\ canvas \in Nat /\ screen \in Nat

\* A session shows its pictures one way: upscaled, through the sink, or on the page.
OneWay ==
  /\ Picture!CudaRaw => sink.nv12 = 0 /\ canvas = 0 /\ sink.mail.kind \in {"none", "rgba"}
  /\ bridge = "up" => Picture!CudaRaw
  /\ \/ sink.rgba # 0 \/ sink.mail.kind = "rgba" \/ sink.source = "rgba"
     \/ decoding.at \in {"write", "submit"}
     => bridge = "up"
  /\ gpu = "none" \/ sink.lost => sink.thread = "over"
  /\ canvas # 0 => sink.thread = "over"
  /\ decoding.at = "give" /\ ~decoding.active => sink.thread = "over"

\* What came out of the media thread.
Out == {sink.mail.n, sink.nv12, sink.rgba, canvas, screen}

\* The frames of the slot are in order, and newer than what came out of it.
SlotInRow ==
  /\ \A k \in DOMAIN slot : /\ 0 < slot[k] /\ slot[k] <= input.sent
                            /\ \A b \in Out \cup {decoding.hand} : b < slot[k]
  /\ \A j, k \in DOMAIN slot : j < k => slot[j] < slot[k]
  /\ \A b \in Out \cup {decoding.hand} : b <= input.sent

\* The picture at hand is newer than all that went on, the mail than the texture it goes to,
\* what will be drawn or painted next than what is shown.
HandInRow ==
  /\ decoding.at \in {"write", "submit", "give"} => decoding.hand # 0
  /\ decoding.hand # 0 => \A b \in Out : b <= decoding.hand
  /\ sink.mail.kind \in {"cpu", "d3d11"} => sink.nv12 <= sink.mail.n
  /\ sink.thread # "over" => screen <= Picture!Content(sink)
  /\ canvas # 0 => screen <= canvas

PictureInv == PictureTypes /\ OneWay /\ SlotInRow /\ HandInRow

LEMMA PicturesInit == Picture!Init => PictureInv
<1> SUFFICES ASSUME Picture!Init PROVE PictureInv OBVIOUS
<1>1. PictureTypes
  <2>1. input \in Inputs /\ slot \in Seq(Nat) /\ canvas \in Nat /\ screen \in Nat
    BY DEF Picture!Init, Inputs
  <2>2. decoding \in Hands BY DEF Picture!Init, Hands, Places
  <2>3. decoder \in Decoders BY DEF Picture!Init, Decoders
  <2>4. Picture!Nothing \in Mails BY DEF Picture!Nothing, Mails
  <2>5. sink \in Sinks BY <2>4 DEF Picture!Init, Sinks
  <2> QED BY <2>1, <2>2, <2>3, <2>5 DEF PictureTypes
<1>2. OneWay BY DEF Picture!Init, OneWay, Picture!CudaRaw, Picture!Nothing
<1>3. SlotInRow /\ HandInRow
  BY DEF Picture!Init, SlotInRow, HandInRow, Picture!Nothing, Picture!Content, Out
<1> QED BY <1>1, <1>2, <1>3 DEF PictureInv

\* What two updates of a record make of it.
LEMMA HandSet ==
  ASSUME decoding \in Hands, NEW a \in Places, NEW h \in Nat,
         decoding' = [decoding EXCEPT !.at = a, !.hand = h]
  PROVE  /\ decoding' \in Hands /\ decoding'.at = a /\ decoding'.hand = h
         /\ decoding'.active = decoding.active
BY DEF Hands

LEMMA InputSet ==
  ASSUME NEW d \in Inputs, NEW e, e = [d EXCEPT !.sent = @ + 1, !.wakes = @ + 1]
  PROVE  e \in Inputs /\ e.sent = d.sent + 1
<1>1. e = [sent |-> d.sent + 1, wakes |-> d.wakes + 1, open |-> d.open] BY DEF Inputs
<1>2. d.sent + 1 \in Nat /\ d.wakes + 1 \in Int /\ d.open \in BOOLEAN BY DEF Inputs
<1> QED BY <1>1, <1>2 DEF Inputs

LEMMA PlaceSet ==
  ASSUME decoding \in Hands, NEW a \in Places, decoding' = [decoding EXCEPT !.at = a]
  PROVE  /\ decoding' \in Hands /\ decoding'.at = a /\ decoding'.hand = decoding.hand
         /\ decoding'.active = decoding.active
BY DEF Hands

LEMMA PicturesAre ==
  ASSUME PictureInv
  PROVE  /\ Out \subseteq Nat /\ decoding.hand \in Nat /\ input.sent \in Nat
         /\ decoding.at \in Places /\ decoding.active \in BOOLEAN
         /\ \A k \in DOMAIN slot : slot[k] \in Nat
<1>1. sink.mail.n \in Nat /\ sink.nv12 \in Nat /\ sink.rgba \in Nat
  BY DEF PictureInv, PictureTypes, Sinks, Mails
<1>2. decoding.hand \in Nat /\ input.sent \in Nat /\ decoding.at \in Places
      /\ decoding.active \in BOOLEAN
  BY DEF PictureInv, PictureTypes, Hands, Inputs
<1>3. canvas \in Nat /\ screen \in Nat /\ slot \in Seq(Nat) BY DEF PictureInv, PictureTypes
<1>4. \A k \in DOMAIN slot : slot[k] \in Nat BY <1>3
<1> QED BY <1>1, <1>2, <1>3, <1>4 DEF Out

\* Nothing new has come out.
LEMMA RowStays ==
  ASSUME PictureInv, slot' = slot, input'.sent = input.sent,
         (Out \cup {decoding.hand})' \subseteq Out \cup {decoding.hand, 0}
  PROVE  SlotInRow'
BY PicturesAre DEF PictureInv, SlotInRow

LEMMA TailIs ==
  ASSUME NEW s \in Seq(Nat), s # <<>>
  PROVE  /\ Tail(s) \in Seq(Nat) /\ Head(s) = s[1] /\ 1 \in DOMAIN s /\ s[1] \in Nat
         /\ \A k \in DOMAIN Tail(s) : k \in Nat /\ Tail(s)[k] = s[k + 1] /\ k + 1 \in DOMAIN s
            /\ k + 1 > 1
<1>1. Len(s) \in Nat \ {0} /\ DOMAIN s = 1 .. Len(s) BY EmptySeq
<1>2. Tail(s) \in Seq(Nat) /\ Len(Tail(s)) = Len(s) - 1
      /\ \A k \in 1 .. Len(Tail(s)) : Tail(s)[k] = s[k + 1]
  BY <1>1
<1>3. DOMAIN Tail(s) = 1 .. Len(Tail(s)) BY <1>2
<1> QED BY <1>1, <1>2, <1>3

\* The frame at the head comes out; the rest stays in order behind it.
LEMMA HeadIs ==
  ASSUME PictureInv, slot # <<>>
  PROVE  /\ Head(slot) \in Nat /\ Head(slot) # 0 /\ Tail(slot) \in Seq(Nat)
         /\ \A b \in Out \cup {decoding.hand} : b < Head(slot)
<1>1. slot \in Seq(Nat) BY DEF PictureInv, PictureTypes
<1>2. Tail(slot) \in Seq(Nat) /\ Head(slot) = slot[1] /\ 1 \in DOMAIN slot /\ slot[1] \in Nat
  BY <1>1, TailIs
<1> QED BY <1>2 DEF PictureInv, SlotInRow

LEMMA RowMoves ==
  ASSUME PictureInv, slot # <<>>, slot' = Tail(slot), input'.sent = input.sent,
         (Out \cup {decoding.hand})' \subseteq Out \cup {decoding.hand, 0, Head(slot)}
  PROVE  SlotInRow'
<1>1. slot \in Seq(Nat) BY DEF PictureInv, PictureTypes
<1>2. /\ Tail(slot) \in Seq(Nat) /\ Head(slot) = slot[1] /\ 1 \in DOMAIN slot /\ slot[1] \in Nat
      /\ \A k \in DOMAIN Tail(slot) : k \in Nat /\ Tail(slot)[k] = slot[k + 1]
         /\ k + 1 \in DOMAIN slot /\ k + 1 > 1
  BY <1>1, TailIs
<1>3. \A k \in DOMAIN Tail(slot) :
        /\ 0 < Tail(slot)[k] /\ Tail(slot)[k] <= input.sent
        /\ \A b \in Out \cup {decoding.hand, 0, Head(slot)} : b < Tail(slot)[k]
  BY <1>2 DEF PictureInv, SlotInRow
<1>4. \A b \in Out \cup {decoding.hand, 0, Head(slot)} : b <= input.sent
  BY <1>2, PicturesAre DEF PictureInv, SlotInRow
<1>5. \A j, k \in DOMAIN Tail(slot) : j < k => Tail(slot)[j] < Tail(slot)[k]
  BY <1>2 DEF PictureInv, SlotInRow
<1> HIDE DEF Out
<1> QED BY <1>3, <1>4, <1>5 DEF SlotInRow

\* A frame comes into the slot, and the oldest may go.
LEMMA VideoFrameKeeps ==
  ASSUME PictureInv, Picture!VideoFrame
  PROVE  PictureInv' /\ screen' >= screen
<1> DEFINE n == input.sent + 1
           all == Append(slot, n)
           B == Out \cup {decoding.hand}
<1>1. slot \in Seq(Nat) /\ n \in Nat /\ input.sent < n /\ input.sent <= n
  BY PicturesAre DEF PictureInv, PictureTypes
<1>2. input'.sent = n /\ input' \in Inputs
  <2>1. input \in Inputs BY DEF PictureInv, PictureTypes
  <2>2. input' = [input EXCEPT !.sent = @ + 1, !.wakes = @ + 1] BY DEF Picture!VideoFrame
  <2> QED BY <2>1, <2>2, InputSet DEF n
<1> HIDE DEF n
<1>3. /\ all \in Seq(Nat) /\ all # <<>> /\ DOMAIN all = 1 .. Len(slot) + 1 /\ Len(slot) \in Nat
      /\ DOMAIN slot = 1 .. Len(slot)
      /\ \A k \in DOMAIN all : all[k] = IF k = Len(slot) + 1 THEN n ELSE slot[k]
  BY <1>1
<1> HIDE DEF all
<1>4. /\ \A k \in DOMAIN all : 0 < all[k] /\ all[k] <= n /\ \A b \in B : b < all[k]
      /\ \A j, k \in DOMAIN all : j < k => all[j] < all[k]
      /\ \A b \in B : b <= n
  <2>1. B \subseteq Nat /\ input.sent \in Nat BY PicturesAre
  <2>2. \A k \in DOMAIN slot : slot[k] \in Nat /\ 0 < slot[k] /\ slot[k] <= input.sent
        /\ \A b \in B : b < slot[k]
    BY PicturesAre DEF PictureInv, SlotInRow
  <2>3. \A j, k \in DOMAIN slot : j < k => slot[j] < slot[k] BY DEF PictureInv, SlotInRow
  <2>4. \A b \in B : b <= input.sent BY DEF PictureInv, SlotInRow
  <2> HIDE DEF B
  <2>5. \A b \in B : b < n /\ b <= n BY <1>1, <2>1, <2>4
  <2>6. ASSUME NEW k \in DOMAIN all
        PROVE  0 < all[k] /\ all[k] <= n /\ \A b \in B : b < all[k]
    <3>1. CASE k = Len(slot) + 1 BY <1>1, <1>3, <2>1, <2>5, <3>1
    <3>2. CASE k # Len(slot) + 1
      <4>1. k \in DOMAIN slot /\ all[k] = slot[k] BY <1>3, <3>2
      <4> QED BY <1>1, <2>1, <2>2, <4>1
    <3> QED BY <3>1, <3>2
  <2>7. ASSUME NEW j \in DOMAIN all, NEW k \in DOMAIN all, j < k PROVE all[j] < all[k]
    <3>1. j \in DOMAIN slot /\ all[j] = slot[j] BY <1>3, <2>7
    <3>2. CASE k = Len(slot) + 1
      <4>1. all[k] = n BY <1>3, <3>2
      <4> QED BY <1>1, <2>1, <2>2, <3>1, <4>1
    <3>3. CASE k # Len(slot) + 1
      <4>1. k \in DOMAIN slot /\ all[k] = slot[k] BY <1>3, <3>3
      <4> QED BY <2>3, <2>7, <3>1, <4>1
    <3> QED BY <3>2, <3>3
  <2> QED BY <2>5, <2>6, <2>7
<1>5. slot' \in Seq(Nat) /\ (slot' = all \/ slot' = Tail(all))
  <2>1. slot' = IF Len(all) > SlotSize THEN Tail(all) ELSE all
    BY DEF Picture!VideoFrame, Picture!Pushed, all, n
  <2> QED BY <1>3, <2>1
<1>6. /\ \A k \in DOMAIN slot' : 0 < slot'[k] /\ slot'[k] <= n /\ \A b \in B : b < slot'[k]
      /\ \A j, k \in DOMAIN slot' : j < k => slot'[j] < slot'[k]
  <2>1. CASE slot' = all BY <1>4, <2>1
  <2>2. CASE slot' = Tail(all)
    <3>1. \A k \in DOMAIN Tail(all) : k \in Nat /\ Tail(all)[k] = all[k + 1] /\ k + 1 \in DOMAIN all
      BY <1>3, TailIs
    <3> QED BY <1>4, <2>2, <3>1
  <2> QED BY <1>5, <2>1, <2>2
<1>7. UNCHANGED <<gpu, decoding, decoder, bridge, sink, canvas, screen>> BY DEF Picture!VideoFrame
<1>8. PictureTypes' BY <1>2, <1>5, <1>7 DEF PictureInv, PictureTypes
<1>9. OneWay' BY <1>7 DEF PictureInv, OneWay, Picture!CudaRaw
<1>10. SlotInRow'
  <2>1. (Out \cup {decoding.hand})' = B BY <1>7 DEF Out
  <2> HIDE DEF B
  <2> QED BY <1>2, <1>4, <1>6, <2>1 DEF SlotInRow
<1>11. HandInRow' BY <1>7 DEF PictureInv, HandInRow, Out, Picture!Content
<1> QED BY <1>7, <1>8, <1>9, <1>10, <1>11 DEF PictureInv, PictureTypes

\* The media thread goes on without a frame.
LEMMA WaitKeeps ==
  ASSUME PictureInv, Picture!Wake \/ Picture!SlotEmpty \/ Picture!Look
  PROVE  PictureInv' /\ screen' >= screen
<1>0. UNCHANGED <<gpu, slot, decoder, bridge, sink, canvas, screen>>
  BY DEF Picture!Wake, Picture!SlotEmpty, Picture!Look
<1>1. decoding \in Hands /\ input \in Inputs BY DEF PictureInv, PictureTypes
<1>2. input' \in Inputs /\ input'.sent = input.sent
  <2>1. input' = input \/ input' = [input EXCEPT !.wakes = @ - 1]
    BY DEF Picture!Wake, Picture!SlotEmpty, Picture!Look
  <2> QED BY <1>1, <2>1 DEF Inputs
<1>3. /\ decoding' \in Hands /\ decoding'.hand = decoding.hand
      /\ \/ decoding'.at \in {"wait", "pop", "look", "over"}
         \/ /\ decoding'.at = "give" /\ decoding.hand # 0
            /\ decoding'.active = Picture!SinkActive
  <2>1. CASE Picture!Wake \/ Picture!SlotEmpty
    <3>1. \E a \in {"pop", "over", "look"} : decoding' = [decoding EXCEPT !.at = a]
      BY <2>1 DEF Picture!Wake, Picture!SlotEmpty, Picture!MediaGoes
    <3>2. PICK a \in {"pop", "over", "look"} : decoding' = [decoding EXCEPT !.at = a] BY <3>1
    <3>3. a \in Places BY DEF Places
    <3> QED BY <1>1, <3>2, <3>3, PlaceSet
  <2>2. CASE Picture!Look
    <3> DEFINE a == IF decoding.hand = 0 THEN "wait" ELSE "give"
               on == Picture!SinkActive
    <3>1. a \in Places /\ on \in BOOLEAN BY DEF Places, Picture!SinkActive
    <3>2. decoding' = [decoding EXCEPT !.at = a, !.active = on] BY <2>2 DEF Picture!Look
    <3>3. a = "give" => decoding.hand # 0 OBVIOUS
    <3>4. a \in {"wait", "give"} OBVIOUS
    <3> HIDE DEF a, on
    <3>5. decoding' \in Hands /\ decoding'.at = a /\ decoding'.hand = decoding.hand
          /\ decoding'.active = on
      BY <1>1, <3>1, <3>2 DEF Hands
    <3> QED BY <3>3, <3>4, <3>5 DEF on
  <2> QED BY <2>1, <2>2
<1>4. PictureTypes' BY <1>0, <1>2, <1>3 DEF PictureInv, PictureTypes
<1>5. OneWay' BY <1>0, <1>3 DEF PictureInv, OneWay, Picture!CudaRaw, Picture!SinkActive
<1>6. SlotInRow'
  <2>1. (Out \cup {decoding.hand})' \subseteq Out \cup {decoding.hand, 0} BY <1>0, <1>3 DEF Out
  <2> QED BY <1>0, <1>2, <2>1, RowStays
<1>7. HandInRow' BY <1>0, <1>3 DEF PictureInv, HandInRow, Out, Picture!Content
<1> QED BY <1>0, <1>4, <1>5, <1>6, <1>7 DEF PictureInv, PictureTypes

LEMMA DecoderSet ==
  ASSUME decoder \in Decoders, decoder' = [decoder EXCEPT !.primed = TRUE]
  PROVE  decoder' \in Decoders /\ decoder'.kind = decoder.kind
BY DEF Decoders

\* The media thread takes a frame that does not become a picture.
LEMMA MissKeeps ==
  ASSUME PictureInv, Picture!NoDecoder \/ Picture!NoPicture \/ Picture!Rebuild
  PROVE  PictureInv' /\ screen' >= screen
<1>0. slot # <<>> /\ slot' = Tail(slot) /\ UNCHANGED <<gpu, input, sink, canvas, screen>>
  BY DEF Picture!NoDecoder, Picture!NoPicture, Picture!Rebuild, Picture!PopFrame, Picture!Decodes
<1>1. decoding \in Hands /\ decoder \in Decoders BY DEF PictureInv, PictureTypes
<1>2. /\ decoding' \in Hands /\ decoding'.hand \in {0, decoding.hand}
      /\ decoding'.at \in {"wait", "pop", "look"}
  <2>1. CASE Picture!NoDecoder
    <3>1. decoding' = [decoding EXCEPT !.at = "look"]
      BY <2>1 DEF Picture!NoDecoder, Picture!MediaGoes
    <3> QED BY <1>1, <3>1, PlaceSet DEF Places
  <2>2. CASE Picture!NoPicture
    <3>1. decoding' = decoding /\ decoding.at = "pop"
      BY <2>2 DEF Picture!NoPicture, Picture!PopFrame
    <3> QED BY <1>1, <3>1
  <2>3. CASE Picture!Rebuild
    <3>1. decoding' = [decoding EXCEPT !.at = "wait", !.hand = 0] BY <2>3 DEF Picture!Rebuild
    <3> QED BY <1>1, <3>1, HandSet DEF Places
  <2> QED BY <2>1, <2>2, <2>3
<1>3. /\ decoder' \in Decoders
      /\ Picture!CudaRaw' => Picture!CudaRaw
      /\ bridge' = "up" => Picture!CudaRaw' /\ bridge = "up"
      /\ bridge = "up" => bridge' = "up"
  <2>1. CASE Picture!NoDecoder \/ Picture!NoPicture
    <3>1. decoder' \in Decoders /\ decoder'.kind = decoder.kind /\ UNCHANGED <<gpu, bridge>>
      BY <1>1, <2>1, DecoderSet DEF Picture!NoDecoder, Picture!NoPicture
    <3> QED BY <3>1 DEF PictureInv, OneWay, Picture!CudaRaw
  <2>2. CASE Picture!Rebuild
    <3>1. decoder' \in [kind : {"cpu", "none"}, primed : {FALSE}] /\ bridge' = "off"
          /\ bridge = "fresh"
      BY <2>2 DEF Picture!Rebuild
    <3>2. decoder' \in Decoders /\ decoder'.kind \in {"cpu", "none"} BY <3>1 DEF Decoders
    <3> QED BY <3>1, <3>2 DEF Picture!CudaRaw
  <2> QED BY <2>1, <2>2
<1>4. PictureTypes' BY <1>0, <1>2, <1>3, HeadIs DEF PictureInv, PictureTypes
<1>5. OneWay' BY <1>0, <1>2, <1>3 DEF PictureInv, OneWay
<1>6. SlotInRow'
  <2>1. (Out \cup {decoding.hand})' \subseteq Out \cup {decoding.hand, 0, Head(slot)}
    BY <1>0, <1>2 DEF Out
  <2> QED BY <1>0, <2>1, RowMoves
<1>7. HandInRow' BY <1>0, <1>2 DEF PictureInv, HandInRow, Out, Picture!Content
<1> QED BY <1>0, <1>4, <1>5, <1>6, <1>7 DEF PictureInv, PictureTypes

\* The media thread takes a frame that becomes a picture.
LEMMA PictureKeeps ==
  ASSUME PictureInv, Picture!Keep \/ Picture!Upscale
  PROVE  PictureInv' /\ screen' >= screen
<1>0. /\ slot # <<>> /\ slot' = Tail(slot) /\ UNCHANGED <<gpu, input, sink, canvas, screen>>
      /\ decoder' = [decoder EXCEPT !.primed = TRUE] /\ decoding.at = "pop"
  BY DEF Picture!Keep, Picture!Upscale, Picture!PopFrame, Picture!Decodes, Picture!Primed
<1>1. decoding \in Hands /\ decoder \in Decoders BY DEF PictureInv, PictureTypes
<1>2. decoder' \in Decoders /\ Picture!CudaRaw' = Picture!CudaRaw
  BY <1>0, <1>1, DecoderSet DEF Picture!CudaRaw
<1>3. /\ decoding' \in Hands /\ decoding'.hand \in {decoding.hand, Head(slot)}
      /\ \/ decoding'.at = "pop"
         \/ decoding'.at = "write" /\ decoding'.hand = Head(slot) /\ bridge' = "up"
  <2>1. CASE Picture!Keep
    <3>1. decoding' = [decoding EXCEPT !.hand = Head(slot)] BY <2>1 DEF Picture!Keep
    <3>2. Head(slot) \in Nat BY <1>0, HeadIs
    <3> QED BY <1>0, <1>1, <3>1, <3>2 DEF Hands
  <2>2. CASE Picture!Upscale
    <3>1. bridge' = "up" BY <2>2 DEF Picture!Upscale
    <3>2. Head(slot) \in Nat /\ "write" \in Places BY <1>0, HeadIs DEF Places
    <3>3. CASE decoding' = [decoding EXCEPT !.at = "write", !.hand = Head(slot)]
      BY <1>1, <3>1, <3>2, <3>3, HandSet
    <3>4. CASE decoding' = decoding BY <1>0, <1>1, <3>4
    <3> QED BY <2>2, <3>3, <3>4 DEF Picture!Upscale
  <2> QED BY <2>1, <2>2
<1>4. /\ bridge = "up" => bridge' = "up"
      /\ bridge' = "up" => Picture!CudaRaw
  BY DEF PictureInv, OneWay, Picture!Keep, Picture!Upscale
<1>5. PictureTypes' BY <1>0, <1>2, <1>3, HeadIs DEF PictureInv, PictureTypes
<1>6. OneWay' BY <1>0, <1>2, <1>3, <1>4 DEF PictureInv, OneWay
<1>7. (Out \cup {decoding.hand})' \subseteq Out \cup {decoding.hand, 0, Head(slot)} /\ Out' = Out
  BY <1>0, <1>3 DEF Out
<1>8. SlotInRow' BY <1>0, <1>7, RowMoves
<1>9. HandInRow'
  <2>1. decoding'.hand # 0 => \A b \in Out' : b <= decoding'.hand
    BY <1>0, <1>3, <1>7, HeadIs, PicturesAre DEF PictureInv, HandInRow
  <2>2. decoding'.at \in {"write", "submit", "give"} => decoding'.hand # 0
    BY <1>0, <1>3, HeadIs
  <2> QED BY <1>0, <2>1, <2>2 DEF PictureInv, HandInRow, Picture!Content
<1> QED BY <1>0, <1>5, <1>6, <1>8, <1>9 DEF PictureInv, PictureTypes

LEMMA SinkIs ==
  ASSUME PictureInv
  PROVE  sink \in Sinks /\ decoding \in Hands /\ sink.mail \in Mails
BY DEF PictureInv, PictureTypes, Sinks

\* A picture goes into the mail, unless the sink is being stopped.
LEMMA MailedIs ==
  ASSUME PictureInv, NEW kind \in {"cpu", "d3d11", "rgba"}, sink' = Picture!Mailed(kind)
  PROVE  /\ sink' \in Sinks
            /\ UNCHANGED <<sink.nv12, sink.rgba, sink.source, sink.lost, sink.thread>>
         /\ \/ sink'.mail = sink.mail
            \/ sink'.mail.kind = kind /\ sink'.mail.n = decoding.hand
<1>1. sink \in Sinks /\ decoding.hand \in Nat BY SinkIs, PicturesAre
<1>2. CASE sink.stopping BY <1>1, <1>2 DEF Picture!Mailed
<1>3. CASE ~sink.stopping
  <2> DEFINE m == [kind |-> kind, n |-> decoding.hand]
  <2>1. m \in Mails /\ m.kind = kind /\ m.n = decoding.hand BY <1>1 DEF Mails
  <2>2. sink' = [sink EXCEPT !.mail = m] BY <1>3 DEF Picture!Mailed
  <2> HIDE DEF m
  <2>3. sink' \in Sinks /\ UNCHANGED <<sink.nv12, sink.rgba, sink.source, sink.lost, sink.thread>>
        /\ sink'.mail = m
    BY <1>1, <2>1, <2>2 DEF Sinks
  <2> QED BY <2>1, <2>3
<1> QED BY <1>2, <1>3

\* A picture of super resolution is written into the texture, or lost.
LEMMA WriteKeeps ==
  ASSUME PictureInv, Picture!Write
  PROVE  PictureInv' /\ screen' >= screen
<1>0. decoding.at = "write" /\ UNCHANGED <<gpu, input, slot, decoder, bridge, canvas, screen>>
  BY DEF Picture!Write, Picture!MediaGoes
<1>1. sink \in Sinks /\ decoding \in Hands /\ decoding.hand \in Nat BY SinkIs, PicturesAre
<1>2. decoding' \in Hands
      /\ \/ decoding'.at = "submit" /\ decoding'.hand = decoding.hand
            /\ sink' = [sink EXCEPT !.rgba = decoding.hand]
         \/ decoding'.at = "pop" /\ decoding'.hand = 0 /\ sink' = sink
  <2>1. CASE decoding' = [decoding EXCEPT !.at = "submit"]
             /\ sink' = [sink EXCEPT !.rgba = decoding.hand]
    BY <1>1, <2>1, PlaceSet DEF Places
  <2>2. CASE decoding' = [decoding EXCEPT !.at = "pop", !.hand = 0] /\ sink' = sink
    BY <1>1, <2>2, HandSet DEF Places
  <2> QED BY <2>1, <2>2 DEF Picture!Write, Picture!MediaGoes
<1>3. /\ sink' \in Sinks
      /\ UNCHANGED <<sink.nv12, sink.mail, sink.source, sink.lost, sink.thread>>
      /\ sink'.rgba \in {sink.rgba, decoding.hand}
      /\ decoding'.hand = decoding.hand \/ sink'.rgba = sink.rgba
  <2>1. CASE sink' = [sink EXCEPT !.rgba = decoding.hand] /\ decoding'.hand = decoding.hand
    BY <1>1, <2>1 DEF Sinks
  <2>2. CASE sink' = sink BY <1>1, <2>2
  <2> QED BY <1>2, <2>1, <2>2
<1>4. PictureTypes' BY <1>0, <1>2, <1>3 DEF PictureInv, PictureTypes
<1>5. OneWay' BY <1>0, <1>2, <1>3 DEF PictureInv, OneWay, Picture!CudaRaw
<1>6. (Out \cup {decoding.hand})' \subseteq Out \cup {decoding.hand, 0} BY <1>0, <1>2, <1>3 DEF Out
<1>7. SlotInRow' BY <1>0, <1>6, RowStays
<1>8. HandInRow'
  <2>1. decoding.hand # 0 /\ \A b \in Out : b <= decoding.hand BY <1>0 DEF PictureInv, HandInRow
  <2>2. decoding'.hand # 0 => \A b \in Out' : b <= decoding'.hand
    BY <1>0, <1>1, <1>2, <1>3, <2>1 DEF Out
  <2>3. sink'.thread # "over" => screen' <= Picture!Content(sink)'
    BY <1>0, <1>1, <1>3, <2>1 DEF PictureInv, HandInRow, Picture!Content, Out
  <2> QED BY <1>0, <1>2, <1>3, <2>2, <2>3 DEF PictureInv, HandInRow
<1> QED BY <1>0, <1>4, <1>5, <1>7, <1>8 DEF PictureInv, PictureTypes

\* The picture at hand is given to the sink or to the presenter, or lost.
LEMMA GiveKeeps ==
  ASSUME PictureInv, Picture!SubmitRgba \/ Picture!Give
  PROVE  PictureInv' /\ screen' >= screen
<1>0. /\ decoding.at \in {"submit", "give"}
         /\ UNCHANGED <<gpu, input, slot, decoder, bridge, screen>>
  BY DEF Picture!SubmitRgba, Picture!Give
<1>1. sink \in Sinks /\ decoding \in Hands /\ decoding.hand \in Nat BY SinkIs, PicturesAre
<1>2. decoding' \in Hands /\ decoding'.hand = 0 /\ decoding'.at \in {"pop", "wait"}
  <2>1. \E a \in {"pop", "wait"} : decoding' = [decoding EXCEPT !.at = a, !.hand = 0]
    BY DEF Picture!SubmitRgba, Picture!Give
  <2>2. PICK a \in {"pop", "wait"} : decoding' = [decoding EXCEPT !.at = a, !.hand = 0] BY <2>1
  <2>3. a \in Places /\ 0 \in Nat BY DEF Places
  <2> QED BY <1>1, <2>2, <2>3, HandSet
<1>3. \/ /\ decoding.at = "submit" /\ sink' = Picture!Mailed("rgba") /\ canvas' = canvas
      \/ /\ decoding.at = "give" /\ ~Picture!CudaRaw /\ canvas' = canvas
         /\ \E kind \in {"cpu", "d3d11"} : sink' = Picture!Mailed(kind)
      \/ sink' = sink /\ canvas' = canvas
      \/ /\ decoding.at = "give" /\ ~Picture!CudaRaw /\ ~decoding.active
         /\ sink' = sink /\ canvas' = decoding.hand
  BY DEF Picture!SubmitRgba, Picture!Give, Picture!CudaRaw
<1>4. /\ sink' \in Sinks /\ UNCHANGED <<sink.nv12, sink.rgba, sink.source, sink.lost, sink.thread>>
      /\ \/ sink'.mail = sink.mail
         \/ /\ sink'.mail.n = decoding.hand
            /\ \/ sink'.mail.kind = "rgba" /\ decoding.at = "submit"
               \/ sink'.mail.kind \in {"cpu", "d3d11"} /\ ~Picture!CudaRaw
  BY <1>1, <1>3, MailedIs
<1>5. \/ canvas' = canvas
      \/ canvas' = decoding.hand /\ ~Picture!CudaRaw /\ sink.thread = "over"
  BY <1>3 DEF PictureInv, OneWay
<1>6. PictureTypes' BY <1>0, <1>1, <1>2, <1>4, <1>5 DEF PictureInv, PictureTypes
<1>7. OneWay' BY <1>0, <1>2, <1>4, <1>5 DEF PictureInv, OneWay, Picture!CudaRaw
<1>8. (Out \cup {decoding.hand})' \subseteq Out \cup {decoding.hand, 0}
  BY <1>0, <1>2, <1>4, <1>5 DEF Out
<1>9. SlotInRow' BY <1>0, <1>8, RowStays
<1>10. HandInRow'
  <2>1. decoding.hand # 0 /\ \A b \in Out : b <= decoding.hand BY <1>0 DEF PictureInv, HandInRow
  <2>2. sink.nv12 <= decoding.hand /\ screen <= decoding.hand BY <2>1 DEF Out
  <2> QED BY <1>0, <1>2, <1>4, <1>5, <2>2 DEF PictureInv, HandInRow, Picture!Content
<1> QED BY <1>0, <1>6, <1>7, <1>9, <1>10 DEF PictureInv, PictureTypes

\* What the render thread makes of the sink.
LEMMA UploadedIs ==
  ASSUME NEW s \in Sinks, NEW e, e = Picture!Uploaded(s)
  PROVE  /\ e \in Sinks /\ e.mail.kind = "none" /\ e.mail.n = 0 /\ e.nv12 = s.mail.n
            /\ e.rgba = s.rgba
         /\ e.source = "nv12" /\ e.lost = s.lost /\ e.stopping = s.stopping /\ e.thread = "draw"
<1>1. e = [mail |-> [kind |-> "none", n |-> 0], nv12 |-> s.mail.n, rgba |-> s.rgba,
           source |-> "nv12", lost |-> s.lost, stopping |-> s.stopping, thread |-> "draw"]
  BY DEF Picture!Uploaded, Picture!Nothing, Sinks
<1>2. s.mail.n \in Nat BY DEF Sinks, Mails
<1> QED BY <1>1, <1>2 DEF Sinks, Mails

LEMMA ReadyIs ==
  ASSUME NEW s \in Sinks, NEW e, e = Picture!Ready(s)
  PROVE  /\ e \in Sinks /\ e.mail.kind = "none" /\ e.mail.n = 0 /\ e.nv12 = s.nv12
            /\ e.rgba = s.rgba
         /\ e.source = "rgba" /\ e.lost = s.lost /\ e.stopping = s.stopping /\ e.thread = "draw"
<1>1. e = [mail |-> [kind |-> "none", n |-> 0], nv12 |-> s.nv12, rgba |-> s.rgba, source |-> "rgba",
           lost |-> s.lost, stopping |-> s.stopping, thread |-> "draw"]
  BY DEF Picture!Ready, Picture!Nothing, Sinks
<1> QED BY <1>1 DEF Sinks, Mails

LEMMA LosesIs ==
  ASSUME NEW s \in Sinks, NEW e, e = Picture!Loses(s)
  PROVE  /\ e \in Sinks /\ e.mail = s.mail /\ e.nv12 = s.nv12 /\ e.rgba = s.rgba
         /\ e.source = s.source /\ e.lost /\ e.stopping = s.stopping /\ e.thread = "over"
<1>1. e = [mail |-> s.mail, nv12 |-> s.nv12, rgba |-> s.rgba, source |-> s.source,
           lost |-> TRUE, stopping |-> s.stopping, thread |-> "over"]
  BY DEF Picture!Loses, Sinks
<1> QED BY <1>1 DEF Sinks

\* Nothing is shown, and the sink at most ends.
LEMMA PictureEndsKeep ==
  ASSUME PictureInv,
         Picture!SeeStopping \/ Picture!DeviceRemoved \/ Picture!CloseChannel \/ Picture!DropSink
  PROVE  PictureInv' /\ screen' >= screen
<1>0. UNCHANGED <<gpu, slot, decoding, decoder, bridge, canvas, screen>>
  BY DEF Picture!SeeStopping, Picture!DeviceRemoved, Picture!CloseChannel, Picture!DropSink
<1>1. sink \in Sinks /\ input \in Inputs BY DEF PictureInv, PictureTypes
<1>2. input' \in Inputs /\ input'.sent = input.sent
  <2>1. input' = input \/ input' = [input EXCEPT !.open = FALSE]
    BY DEF Picture!SeeStopping, Picture!DeviceRemoved, Picture!CloseChannel, Picture!DropSink
  <2> QED BY <1>1, <2>1 DEF Inputs
<1>3. /\ sink' \in Sinks /\ UNCHANGED <<sink.mail, sink.nv12, sink.rgba, sink.source>>
      /\ sink'.thread \in {sink.thread, "over"}
         /\ (sink'.lost => sink.lost \/ sink'.thread = "over")
  <2>1. CASE sink' = sink BY <1>1, <2>1
  <2>2. CASE sink' = [sink EXCEPT !.thread = "over"] BY <1>1, <2>2 DEF Sinks
  <2>3. CASE sink' = Picture!Loses(sink) BY <1>1, <2>3, LosesIs
  <2>4. CASE sink' = [sink EXCEPT !.stopping = TRUE] BY <1>1, <2>4 DEF Sinks
  <2> QED
    BY <2>1, <2>2, <2>3, <2>4 DEF Picture!SeeStopping, Picture!DeviceRemoved,
         Picture!CloseChannel, Picture!DropSink
<1>4. PictureTypes' BY <1>0, <1>2, <1>3 DEF PictureInv, PictureTypes
<1>5. OneWay' BY <1>0, <1>3 DEF PictureInv, OneWay, Picture!CudaRaw
<1>6. (Out \cup {decoding.hand})' \subseteq Out \cup {decoding.hand, 0} BY <1>0, <1>3 DEF Out
<1>7. SlotInRow' BY <1>0, <1>2, <1>6, RowStays
<1>8. Out' = Out BY <1>0, <1>3 DEF Out
<1>9. HandInRow' BY <1>0, <1>3, <1>8 DEF PictureInv, HandInRow, Picture!Content
<1> QED BY <1>0, <1>4, <1>5, <1>7, <1>9 DEF PictureInv, PictureTypes

\* The mail is taken: what it holds is newer than what its way has shown.
LEMMA MessageKeeps ==
  ASSUME PictureInv, Picture!Message
  PROVE  PictureInv' /\ screen' >= screen
<1>0. /\ sink.thread = "get" /\ UNCHANGED <<gpu, input, slot, decoding, decoder, bridge, canvas>>
      /\ screen' \in {screen, Picture!Content(sink')}
  BY DEF Picture!Message
<1>1. sink \in Sinks /\ sink.mail \in Mails BY SinkIs
<1>2. /\ sink.mail.n \in Nat /\ sink.nv12 \in Nat /\ sink.rgba \in Nat /\ screen \in Nat
         /\ canvas \in Nat
      /\ decoding.hand \in Nat
  BY <1>1, PicturesAre DEF Sinks, Mails, PictureInv, PictureTypes
<1>3. canvas = 0 /\ gpu # "none" /\ ~sink.lost BY <1>0 DEF PictureInv, OneWay
<1>4. screen <= Picture!Content(sink) BY <1>0 DEF PictureInv, HandInRow
<1>5. /\ sink' \in Sinks /\ sink'.rgba = sink.rgba /\ sink'.lost = sink.lost
         /\ sink'.thread # "over"
      /\ \/ sink'.mail = sink.mail /\ sink'.nv12 = sink.nv12 /\ sink'.source = sink.source
         \/ /\ sink'.mail.kind = "none" /\ sink'.mail.n = 0
            /\ sink'.nv12 = sink.nv12 /\ sink'.source = sink.source
         \/ /\ sink'.mail.kind = "none" /\ sink'.mail.n = 0 /\ sink.mail.kind \in {"cpu", "d3d11"}
            /\ sink'.nv12 = sink.mail.n /\ sink'.source = "nv12"
         \/ /\ sink'.mail.kind = "none" /\ sink'.mail.n = 0 /\ sink.mail.kind = "rgba"
            /\ sink'.nv12 = sink.nv12 /\ sink'.source = "rgba"
  <2>1. CASE sink.mail.kind \in {"cpu", "d3d11"} /\ sink' = Picture!Uploaded(sink)
    BY <1>1, <2>1, UploadedIs
  <2>2. CASE sink.mail.kind \in {"cpu", "d3d11"} /\ sink' = [sink EXCEPT !.mail = Picture!Nothing]
    <3>1. Picture!Nothing \in Mails /\ Picture!Nothing.kind = "none" /\ Picture!Nothing.n = 0
      BY DEF Picture!Nothing, Mails
    <3>2. sink' \in Sinks /\ sink'.mail = Picture!Nothing
          /\ UNCHANGED <<sink.nv12, sink.rgba, sink.source, sink.lost, sink.thread>>
      BY <1>1, <2>2, <3>1 DEF Sinks
    <3> QED BY <1>0, <3>1, <3>2
  <2>3. CASE sink.mail.kind = "rgba" /\ sink' = Picture!Ready(sink) BY <1>1, <2>3, ReadyIs
  <2>4. CASE sink' = sink BY <1>0, <1>1, <2>4
  <2> QED BY <2>1, <2>2, <2>3, <2>4 DEF Picture!Message
<1>6. /\ sink.mail.kind \in {"cpu", "d3d11"} => ~Picture!CudaRaw /\ sink.source # "rgba"
         /\ sink.nv12 <= sink.mail.n
      /\ sink.mail.kind = "rgba" => bridge = "up" /\ sink.nv12 = 0
  BY <1>1 DEF PictureInv, OneWay, HandInRow
<1>7. screen <= Picture!Content(sink')
  BY <1>1, <1>2, <1>4, <1>5, <1>6 DEF Picture!Content, Sinks
<1>8. Picture!Content(sink') \in Nat /\ Picture!Content(sink') \in {sink'.nv12, sink'.rgba}
  BY <1>5 DEF Picture!Content, Sinks
<1>9. screen' \in Nat /\ screen <= screen' /\ screen' <= Picture!Content(sink')
  BY <1>0, <1>2, <1>7, <1>8
<1>10. PictureTypes' BY <1>0, <1>5, <1>9 DEF PictureInv, PictureTypes
<1>11. OneWay' BY <1>0, <1>3, <1>5, <1>6 DEF PictureInv, OneWay, Picture!CudaRaw
<1>12. Out' \subseteq Out \cup {0} BY <1>0, <1>5, <1>8 DEF Out
<1>13. SlotInRow' BY <1>0, <1>12, RowStays
<1>14. HandInRow'
  <2>1. decoding'.hand # 0 => \A b \in Out' : b <= decoding'.hand
    BY <1>0, <1>2, <1>12 DEF PictureInv, HandInRow
  <2>2. sink'.mail.kind \in {"cpu", "d3d11"} => sink'.nv12 <= sink'.mail.n
    BY <1>5 DEF PictureInv, HandInRow
  <2>3. sink'.thread # "over" => screen' <= Picture!Content(sink)'
    BY <1>9 DEF Picture!Content
  <2> QED BY <1>0, <1>3, <2>1, <2>2, <2>3 DEF PictureInv, HandInRow
<1> QED BY <1>2, <1>9, <1>10, <1>11, <1>13, <1>14 DEF PictureInv

\* What is drawn or painted is not older than what is shown.
LEMMA ShowsKeep ==
  ASSUME PictureInv, Picture!Draw \/ Picture!Paint
  PROVE  PictureInv' /\ screen' >= screen
<1>0. UNCHANGED <<gpu, input, slot, decoding, decoder, bridge>> BY DEF Picture!Draw, Picture!Paint
<1>1. sink \in Sinks /\ screen \in Nat /\ canvas \in Nat /\ decoding.hand \in Nat
  BY SinkIs, PicturesAre DEF PictureInv, PictureTypes
<1>2. Picture!Content(sink) \in Nat /\ Picture!Content(sink) \in Out
  BY <1>1 DEF Picture!Content, Out, Sinks
<1>3. /\ sink' \in Sinks /\ UNCHANGED <<sink.mail, sink.nv12, sink.rgba, sink.source>>
      /\ sink'.thread = "over" => sink.thread = "over" \/ screen' = screen
      /\ sink.thread = "over" => sink'.thread = "over"
      /\ (sink'.lost => sink.lost \/ sink'.thread = "over")
  <2>1. CASE sink' = sink BY <1>1, <2>1
  <2>2. CASE sink' = [sink EXCEPT !.thread = "get"] /\ sink.thread = "draw" BY <1>1, <2>2 DEF Sinks
  <2>3. CASE sink' = Picture!Loses(sink) /\ sink.thread = "draw" /\ screen' = screen
    BY <1>1, <2>3, LosesIs
  <2> QED BY <2>1, <2>2, <2>3 DEF Picture!Draw, Picture!Paint
<1>4. \/ screen' = screen /\ canvas' = canvas
      \/ screen' = Picture!Content(sink) /\ sink.thread = "draw" /\ canvas' = canvas
      \/ screen' = canvas /\ canvas # 0 /\ canvas' = 0
  BY DEF Picture!Draw, Picture!Paint
<1>5. screen <= screen' /\ screen' \in Out /\ screen' \in Nat /\ canvas' \in {0, canvas}
  BY <1>1, <1>2, <1>4 DEF PictureInv, HandInRow, Out
<1>6. PictureTypes' BY <1>0, <1>1, <1>3, <1>5 DEF PictureInv, PictureTypes
<1>7. OneWay' BY <1>0, <1>3, <1>5 DEF PictureInv, OneWay, Picture!CudaRaw
<1>8. Out' \subseteq Out \cup {0} BY <1>3, <1>5 DEF Out
<1>9. SlotInRow' BY <1>0, <1>8, RowStays
<1>10. HandInRow'
  <2>1. decoding'.hand # 0 => \A b \in Out' : b <= decoding'.hand
    BY <1>0, <1>1, <1>8 DEF PictureInv, HandInRow
  <2>2. Picture!Content(sink)' = Picture!Content(sink) BY <1>3 DEF Picture!Content
  <2>3. sink'.thread # "over" => screen' <= Picture!Content(sink)'
    <3> SUFFICES ASSUME sink'.thread # "over" PROVE screen' <= Picture!Content(sink) BY <2>2
    <3>1. sink.thread # "over" BY <1>3
    <3>2. canvas = 0 /\ screen <= Picture!Content(sink) BY <3>1 DEF PictureInv, OneWay, HandInRow
    <3> QED BY <1>2, <1>4, <3>2
  <2>4. canvas' # 0 => screen' <= canvas'
    <3> SUFFICES ASSUME canvas' # 0 PROVE screen' <= canvas' OBVIOUS
    <3>1. canvas' = canvas /\ canvas # 0 BY <1>5
    <3>2. sink.thread = "over" /\ screen <= canvas BY <3>1 DEF PictureInv, OneWay, HandInRow
    <3> QED BY <1>4, <3>1, <3>2
  <2> QED BY <1>0, <1>3, <2>1, <2>3, <2>4 DEF PictureInv, HandInRow
<1> QED BY <1>1, <1>5, <1>6, <1>7, <1>9, <1>10 DEF PictureInv

LEMMA PicturesNext == PictureInv /\ [Picture!Next]_pictureVars => PictureInv' /\ screen' >= screen
<1> SUFFICES ASSUME PictureInv, [Picture!Next]_pictureVars
             PROVE PictureInv' /\ screen' >= screen OBVIOUS
<1>1. CASE Picture!Next
  BY <1>1, VideoFrameKeeps, WaitKeeps, MissKeeps, PictureKeeps, WriteKeeps, GiveKeeps,
       PictureEndsKeep,
     MessageKeeps, ShowsKeep DEF Picture!Next, Picture!Media, Picture!Render
<1>2. CASE UNCHANGED pictureVars
  <2>1. UNCHANGED <<gpu, input, slot, decoding, decoder, bridge, sink, canvas, screen>>
    BY <1>2 DEF pictureVars
  <2>2. PictureTypes' BY <2>1 DEF PictureInv, PictureTypes
  <2>3. OneWay' BY <2>1 DEF PictureInv, OneWay, Picture!CudaRaw
  <2>4. SlotInRow' /\ HandInRow' BY <2>1 DEF PictureInv, SlotInRow, HandInRow, Out, Picture!Content
  <2> QED BY <2>1, <2>2, <2>3, <2>4 DEF PictureInv, PictureTypes
<1> QED BY <1>1, <1>2
-----------------------------------------------------------------------------
(* The audio output *)

Stops  == {"top", "fill", "pop", "push", "check", "wait", "over"}
Drains == [at : Stops, want : Nat, hand : Seq(Nat)]

\* What was pushed and not thrown out, in the order in which it will be heard.
Sounding == heard \o device.samples \o drain.hand \o decode

SoundTypes ==
  /\ pushed \in Nat /\ overflowed \subseteq 1 .. pushed
  /\ heard \in Seq(Nat) /\ decode \in Seq(Nat) /\ drain \in Drains
  /\ device \in [samples : Seq(Nat), primed : BOOLEAN]

\* The drain thread takes out no more than the second ring has room for, which the
\* callback only adds to.
Room ==
  /\ Len(device.samples) <= Sound!Target
  /\ drain.at = "pop" => Len(device.samples) + drain.want <= Sound!Target
  /\ drain.at = "push" => Len(device.samples) + Len(drain.hand) <= Sound!Target
  /\ drain.at # "push" => drain.hand = <<>>

SoundInv == /\ SoundTypes /\ Room
            /\ Rising(Sounding) /\ Samples(Sounding) = (1 .. pushed) \ overflowed

LEMMA SoundIsHeard == SoundInv => Sound!HeardIsPushed
<1> SUFFICES ASSUME SoundInv PROVE Sound!HeardIsPushed OBVIOUS
<1>1. Sounding \in Seq(Nat)
  BY ConcatProperties DEF SoundInv, SoundTypes, Drains, Sounding
<1>2. DOMAIN Sounding = 1 .. Len(Sounding) /\ Len(Sounding) \in Nat BY <1>1
<1>3. \A i \in 1 .. Len(Sounding) - 1 : Sounding[i] < Sounding[i + 1]
  <2> TAKE i \in 1 .. Len(Sounding) - 1
  <2>1. i \in DOMAIN Sounding /\ i + 1 \in DOMAIN Sounding /\ i < i + 1 BY <1>2
  <2> QED BY <2>1 DEF SoundInv, Rising
<1>4. Sound!Seqs!ToSet(Sounding) = (1 .. pushed) \ overflowed
  BY DEF SoundInv, Samples, Sound!Seqs!ToSet
<1>5. Len(device.samples) <= Sound!Target BY DEF SoundInv, Room
<1> QED BY <1>3, <1>4, <1>5 DEF Sound!HeardIsPushed, Sounding

LEMMA SoundInit == Sound!Init => SoundInv
<1> SUFFICES ASSUME Sound!Init PROVE SoundInv OBVIOUS
<1>1. SoundTypes BY EmptySeq DEF Sound!Init, SoundTypes, Drains, Stops
<1>2. Room BY SoundAssumption, EmptySeq DEF Sound!Init, Room, Sound!Target
<1>3. Sounding = <<>> BY NothingJoined, EmptySeq DEF Sound!Init, Sounding
<1>4. (1 .. pushed) \ overflowed = {} BY DEF Sound!Init
<1> QED BY <1>1, <1>2, <1>3, <1>4, NothingJoined, EmptySeq DEF SoundInv

LEMMA DrainAt ==
  ASSUME NEW d \in Drains, NEW a \in Stops, NEW e, e = [d EXCEPT !.at = a]
  PROVE  e \in Drains /\ e.at = a /\ e.hand = d.hand /\ e.want = d.want
BY DEF Drains, Stops

LEMMA DrainWants ==
  ASSUME drain \in Drains, NEW a \in Stops, NEW w \in Nat,
         drain' = [drain EXCEPT !.at = a, !.want = w]
  PROVE  drain' \in Drains /\ drain'.at = a /\ drain'.hand = drain.hand /\ drain'.want = w
<1>1. drain' = [at |-> a, want |-> w, hand |-> drain.hand] BY DEF Drains
<1>2. drain.hand \in Seq(Nat) BY DEF Drains
<1> QED BY <1>1, <1>2 DEF Drains, Stops

LEMMA DrainHolds ==
  ASSUME drain \in Drains, NEW a \in Stops, NEW h \in Seq(Nat),
         drain' = [drain EXCEPT !.at = a, !.hand = h]
  PROVE  drain' \in Drains /\ drain'.at = a /\ drain'.hand = h /\ drain'.want = drain.want
<1>1. drain' = [at |-> a, want |-> drain.want, hand |-> h] BY DEF Drains
<1>2. drain.want \in Nat BY DEF Drains
<1> QED BY <1>1, <1>2 DEF Drains, Stops

\* A push comes behind everything; a full ring throws out what was pushed longest ago.
LEMMA PushKeeps ==
  ASSUME SoundInv, NEW n \in Sizes, Sound!Push(n)
  PROVE  SoundInv'
<1> DEFINE new  == [i \in 1 .. n |-> pushed + i]
           all  == decode \o new
           k    == Sound!ThrownOut(all)
           out  == SubSeq(all, 1, k)
           kept == SubSeq(all, k + 1, Len(all))
           x    == heard \o device.samples \o drain.hand
<1>1. /\ pushed \in Nat /\ n \in Nat /\ decode \in Seq(Nat) /\ heard \in Seq(Nat)
      /\ device.samples \in Seq(Nat) /\ drain.hand \in Seq(Nat) /\ overflowed \subseteq 1 .. pushed
  BY SoundAssumption DEF SoundInv, SoundTypes, Drains
<1>2. /\ pushed' = pushed + n /\ decode' = kept /\ UNCHANGED <<device, drain, life, heard>>
      /\ overflowed' = overflowed \cup Samples(out)
  BY DEF Sound!Push, Sound!Newest, Sound!Seqs!ToSet, Samples
<1>3. new \in Seq(Nat) /\ Samples(new) = pushed + 1 .. pushed + n /\ Rising(new) BY <1>1, Following
<1> HIDE DEF new
<1>4. all \in Seq(Nat) /\ Len(all) \in Nat BY <1>1, <1>3, ConcatProperties
<1>5. k \in 0 .. Len(all) BY <1>4, SoundAssumption DEF Sound!ThrownOut, Sound!Capacity
<1> HIDE DEF k
<1>6. out \in Seq(Nat) /\ kept \in Seq(Nat) /\ all = out \o kept BY <1>4, <1>5, Cut
<1> HIDE DEF out, kept
<1>7. x \in Seq(Nat) BY <1>1, ConcatProperties
<1> HIDE DEF x
<1>8. /\ Sounding = x \o decode /\ Sounding \in Seq(Nat) /\ Sounding' = x \o kept
  BY <1>1, <1>2, <1>7, ConcatProperties DEF Sounding, x
<1>9. Sounding \o new = (x \o out) \o kept
  <2>1. x \o all = (x \o decode) \o new BY <1>1, <1>3, <1>7, Shifted DEF all
  <2>2. x \o (out \o kept) = (x \o out) \o kept BY <1>6, <1>7, Shifted
  <2> QED BY <1>6, <1>8, <2>1, <2>2
<1>10. Rising(Sounding \o new) /\ Samples(Sounding \o new) = (1 .. pushed + n) \ overflowed
  <2>1. Rising(Sounding) /\ Samples(Sounding) = (1 .. pushed) \ overflowed BY DEF SoundInv
  <2>2. Ahead(Sounding, new) BY <1>1, <1>3, <2>1 DEF Ahead
  <2>3. Samples(Sounding \o new) = Samples(Sounding) \cup Samples(new) /\ Rising(Sounding \o new)
    BY <1>3, <1>8, <2>1, <2>2, Joined
  <2> QED BY <1>1, <1>3, <2>1, <2>3
<1>11. Rising(Sounding') /\ Samples(Sounding') = ((1 .. pushed + n) \ overflowed) \ Samples(out)
  BY <1>6, <1>7, <1>8, <1>9, <1>10, Thrown
<1>12. Samples(out) \subseteq 1 .. pushed + n
  <2>1. x \o out \in Seq(Nat) /\ Samples(out) \subseteq Samples(x \o out) BY <1>6, <1>7, Joined
  <2>2. Samples(x \o out) \subseteq Samples((x \o out) \o kept) BY <1>6, <2>1, Joined
  <2> QED BY <1>9, <1>10, <2>1, <2>2
<1>13. SoundTypes'
  <2>1. pushed' = pushed + n /\ pushed + n \in Nat /\ 1 .. pushed \subseteq 1 .. pushed + n
    BY <1>1, <1>2
  <2>2. overflowed' \subseteq 1 .. pushed' BY <1>1, <1>2, <1>12, <2>1
  <2> QED BY <1>2, <1>6, <2>1, <2>2 DEF SoundInv, SoundTypes
<1>14. Room' BY <1>2 DEF SoundInv, Room, Sound!Target
<1>15. Samples(Sounding') = (1 .. pushed') \ overflowed' BY <1>2, <1>11
<1> HIDE DEF all
<1> QED BY <1>11, <1>13, <1>14, <1>15 DEF SoundInv, Sounding

\* The callback plays what comes first.
LEMMA PlayKeeps ==
  ASSUME SoundInv, NEW n \in Periods, Sound!Play(n)
  PROVE  SoundInv'
<1> DEFINE s == device.samples
           k == Sound!AtMost(n, s)
           a == SubSeq(s, 1, k)
           b == SubSeq(s, k + 1, Len(s))
<1>1. /\ s \in Seq(Nat) /\ heard \in Seq(Nat) /\ n \in Nat /\ Len(s) \in Nat
      /\ decode \in Seq(Nat) /\ drain.hand \in Seq(Nat) /\ drain.want \in Nat
  BY SoundAssumption DEF SoundInv, SoundTypes, Drains
<1>2. /\ heard' = heard \o a /\ UNCHANGED <<decode, drain, life, pushed, overflowed>>
      /\ device' = [samples |-> b, primed |-> device.primed /\ b # <<>>]
  BY DEF Sound!Play, Sound!First, Sound!Rest
<1>3. k \in 0 .. Len(s) BY <1>1 DEF Sound!AtMost
<1> HIDE DEF k
<1>4. a \in Seq(Nat) /\ b \in Seq(Nat) /\ s = a \o b /\ Len(b) = Len(s) - k BY <1>1, <1>3, Cut
<1> HIDE DEF a, b
<1>5. heard' \o device'.samples = heard \o s BY <1>1, <1>2, <1>4, Shifted
<1>6. Sounding' = Sounding BY <1>2, <1>5 DEF Sounding
<1>7. heard' \in Seq(Nat) /\ device' \in [samples : Seq(Nat), primed : BOOLEAN]
  <2>1. heard' \in Seq(Nat) BY <1>1, <1>2, <1>4, ConcatProperties
  <2>2. device.primed \in BOOLEAN BY DEF SoundInv, SoundTypes
  <2> QED BY <1>2, <1>4, <2>1, <2>2
<1>8. SoundTypes' BY <1>2, <1>7 DEF SoundInv, SoundTypes
<1>9. Len(device'.samples) \in Nat /\ Len(device'.samples) <= Len(s) BY <1>1, <1>2, <1>3, <1>4
<1>10. Room'
  <2>1. Sound!Target \in Nat /\ Len(drain.hand) \in Nat BY <1>1, SoundAssumption DEF Sound!Target
  <2>2. Sound!Target' = Sound!Target BY DEF Sound!Target
  <2>3. /\ Len(s) <= Sound!Target
        /\ drain.at = "pop" => Len(s) + drain.want <= Sound!Target
        /\ drain.at = "push" => Len(s) + Len(drain.hand) <= Sound!Target
        /\ drain.at # "push" => drain.hand = <<>>
    BY DEF SoundInv, Room
  <2> DEFINE l == Len(device'.samples)
  <2>4. l \in Nat /\ l <= Len(s) BY <1>9
  <2> HIDE DEF l, s
  <2>5. /\ l <= Sound!Target
        /\ drain.at = "pop" => l + drain.want <= Sound!Target
        /\ drain.at = "push" => l + Len(drain.hand) <= Sound!Target
    BY <1>1, <2>1, <2>3, <2>4
  <2> QED BY <1>2, <2>2, <2>3, <2>5 DEF Room, l
<1> QED BY <1>2, <1>6, <1>8, <1>10 DEF SoundInv

\* The drain thread moves samples from one ring to the other and changes nothing else.
LEMMA DrainKeeps ==
  ASSUME SoundInv, Sound!DrainStep
  PROVE  SoundInv'
<1>1. /\ drain \in Drains /\ device \in [samples : Seq(Nat), primed : BOOLEAN]
      /\ heard \in Seq(Nat) /\ decode \in Seq(Nat) /\ Len(device.samples) \in Nat
      /\ device.samples \in Seq(Nat) /\ drain.hand \in Seq(Nat) /\ drain.want \in Nat
  BY DEF SoundInv, SoundTypes, Drains
<1>2. Sound!Target \in Nat /\ Sound!Target <= Sound!Capacity /\ Sound!Target' = Sound!Target
  BY SoundAssumption DEF Sound!Target, Sound!Capacity
<1>3. CASE Sound!LookAtStop \/ Sound!Check \/ Sound!WakeUp
           \/ (Sound!ReadFill /\ drain'.at # "pop")
  <2>1. \E a \in {"fill", "over", "top", "wait", "check"} :
                drain.at # "push" /\ drain' = [drain EXCEPT !.at = a]
    <3>1. CASE Sound!LookAtStop BY <3>1 DEF Sound!LookAtStop, Sound!DrainGoes
    <3>2. CASE Sound!Check BY <3>2 DEF Sound!Check, Sound!DrainGoes
    <3>3. CASE Sound!WakeUp BY <3>3 DEF Sound!WakeUp, Sound!DrainGoes
    <3>4. CASE Sound!ReadFill /\ drain'.at # "pop"
      <4>1. CASE Sound!DrainGoes("fill", "check") BY <4>1 DEF Sound!DrainGoes
      <4>2. CASE drain' = [drain EXCEPT !.at = "pop", !.want = Sound!Missing]
        <5>1. drain'.at = "pop" BY <1>1, <4>2 DEF Drains
        <5> QED BY <3>4, <5>1
      <4> QED BY <3>4, <4>1, <4>2 DEF Sound!ReadFill
    <3> QED BY <1>3, <3>1, <3>2, <3>3, <3>4
  <2>2. PICK a \in {"fill", "over", "top", "wait", "check"} :
                drain.at # "push" /\ drain' = [drain EXCEPT !.at = a]
    BY <2>1
  <2>3. drain' \in Drains /\ drain'.at = a /\ drain'.hand = drain.hand
    <3>1. a \in Stops BY DEF Stops
    <3> QED BY <1>1, <2>2, <3>1, DrainAt
  <2>4. UNCHANGED <<decode, device, pushed, heard, overflowed>>
    BY <1>3 DEF Sound!LookAtStop, Sound!Check, Sound!WakeUp, Sound!ReadFill
  <2>5. SoundTypes' BY <2>3, <2>4 DEF SoundInv, SoundTypes
  <2>6. Room' BY <1>2, <2>2, <2>3, <2>4 DEF SoundInv, Room
  <2>7. Sounding' = Sounding BY <2>3, <2>4 DEF Sounding
  <2> QED BY <2>4, <2>5, <2>6, <2>7 DEF SoundInv
<1>4. CASE Sound!ReadFill /\ drain'.at = "pop"
  <2> DEFINE w == Sound!Missing
  <2>1. drain.at = "fill" BY <1>4 DEF Sound!ReadFill
  <2>2. Len(device.samples) < Sound!Target /\ drain' = [drain EXCEPT !.at = "pop", !.want = w]
    <3>1. CASE Sound!DrainGoes("fill", "check")
      <4>1. drain'.at = "check" BY <1>1, <3>1 DEF Sound!DrainGoes, Drains
      <4> QED BY <1>4, <4>1
    <3> QED BY <1>4, <3>1 DEF Sound!ReadFill
  <2>3. w \in Nat /\ Len(device.samples) + w = Sound!Target BY <1>1, <1>2, <2>2 DEF Sound!Missing
  <2> HIDE DEF w
  <2>4. drain' \in Drains /\ drain'.at = "pop" /\ drain'.hand = drain.hand /\ drain'.want = w
    <3>1. "pop" \in Stops BY DEF Stops
    <3> QED BY <1>1, <2>2, <2>3, <3>1, DrainWants, Zenon
  <2>5. UNCHANGED <<decode, device, pushed, heard, overflowed>> BY <1>4 DEF Sound!ReadFill
  <2>6. SoundTypes' BY <2>4, <2>5 DEF SoundInv, SoundTypes
  <2>7. Room' BY <1>1, <1>2, <2>1, <2>2, <2>3, <2>4, <2>5 DEF SoundInv, Room
  <2>8. Sounding' = Sounding BY <2>4, <2>5 DEF Sounding
  <2> QED BY <2>5, <2>6, <2>7, <2>8 DEF SoundInv
<1>5. CASE Sound!Pop
  <2>0. drain.at = "pop" /\ UNCHANGED <<device, pushed, heard, overflowed>>
    BY <1>5 DEF Sound!Pop, Sound!DrainGoes
  <2>1. CASE decode = <<>> /\ Sound!DrainGoes("pop", "check") /\ decode' = decode
    <3>1. drain' \in Drains /\ drain'.at = "check" /\ drain'.hand = drain.hand
      BY <1>1, <2>1, DrainAt DEF Sound!DrainGoes, Stops
    <3>2. SoundTypes' BY <2>0, <2>1, <3>1 DEF SoundInv, SoundTypes
    <3>3. Room' BY <1>2, <2>0, <2>1, <3>1 DEF SoundInv, Room
    <3>4. Sounding' = Sounding BY <2>0, <2>1, <3>1 DEF Sounding
    <3> QED BY <2>0, <3>2, <3>3, <3>4 DEF SoundInv
  <2>2. CASE decode # <<>>
    <3> DEFINE k == Sound!AtMost(drain.want, decode)
               a == SubSeq(decode, 1, k)
               b == SubSeq(decode, k + 1, Len(decode))
    <3>1. drain' = [drain EXCEPT !.at = "push", !.hand = a] /\ decode' = b
      BY <1>5, <2>2 DEF Sound!Pop, Sound!First, Sound!Rest
    <3>2. Len(decode) \in Nat /\ k \in 0 .. Len(decode) /\ k <= drain.want BY <1>1 DEF Sound!AtMost
    <3> HIDE DEF k
    <3>3. a \in Seq(Nat) /\ b \in Seq(Nat) /\ decode = a \o b /\ Len(a) = k BY <1>1, <3>2, Cut
    <3> HIDE DEF a, b
    <3>4. drain' \in Drains /\ drain'.at = "push" /\ drain'.hand = a
      <4>1. "push" \in Stops BY DEF Stops
      <4> QED BY <1>1, <3>1, <3>3, <4>1, DrainHolds, Zenon
    <3>5. SoundTypes' BY <2>0, <3>1, <3>3, <3>4 DEF SoundInv, SoundTypes
    <3>6. Room' BY <1>1, <1>2, <2>0, <3>2, <3>3, <3>4 DEF SoundInv, Room
    <3>7. Sounding' = Sounding
      <4> DEFINE x == heard \o device.samples
      <4>1. x \in Seq(Nat) BY <1>1, ConcatProperties
      <4>2. drain.hand = <<>> BY <2>0 DEF SoundInv, Room
      <4>3. x \o drain.hand = x BY <4>1, <4>2, NothingJoined
      <4>4. x \o (a \o b) = (x \o a) \o b BY <3>3, <4>1, Shifted
      <4>5. Sounding = x \o decode BY <4>3 DEF Sounding
      <4>6. Sounding' = (x \o a) \o b BY <2>0, <3>1, <3>4 DEF Sounding
      <4> QED BY <3>3, <4>4, <4>5, <4>6
    <3> QED BY <2>0, <3>5, <3>6, <3>7 DEF SoundInv
  <2> QED BY <1>5, <2>1, <2>2 DEF Sound!Pop
<1>6. CASE Sound!PushOn
  <2> DEFINE both == device.samples \o drain.hand
  <2>0. drain.at = "push" /\ UNCHANGED <<decode, pushed, heard, overflowed>>
    BY <1>6 DEF Sound!PushOn
  <2>1. drain' = [drain EXCEPT !.at = "fill", !.hand = <<>>] BY <1>6 DEF Sound!PushOn
  <2>2. both \in Seq(Nat) /\ Len(both) = Len(device.samples) + Len(drain.hand)
    BY <1>1, ConcatProperties
  <2>3. Len(both) <= Sound!Target /\ Len(both) \in Nat
    <3>1. Len(device.samples) + Len(drain.hand) <= Sound!Target BY <2>0 DEF SoundInv, Room
    <3>2. Len(drain.hand) \in Nat BY <1>1
    <3> QED BY <1>1, <2>2, <3>1, <3>2
  <2>4. device'.samples = Sound!Newest(both)
        /\ device' = [samples |-> Sound!Newest(both), primed |-> device'.primed]
           /\ device'.primed \in BOOLEAN
    <3>1. device' = [samples |-> Sound!Newest(both),
                     primed |-> device.primed \/ Len(Sound!Newest(both)) >= Sound!Prefill]
      BY <1>6 DEF Sound!PushOn
    <3>2. device.primed \in BOOLEAN BY <1>1
    <3> QED BY <3>1, <3>2
  <2> HIDE DEF both
  <2>5. Sound!Newest(both) = both
    <3>1. Sound!ThrownOut(both) = 0
      BY <1>2, <2>3, SoundAssumption DEF Sound!ThrownOut, Sound!Capacity
    <3>2. Sound!Newest(both) = SubSeq(both, 0 + 1, Len(both)) BY <3>1 DEF Sound!Newest
    <3>3. /\ SubSeq(both, 1, 0) \in Seq(Nat) /\ Len(SubSeq(both, 1, 0)) = 0
          /\ SubSeq(both, 0 + 1, Len(both)) \in Seq(Nat)
          /\ both = SubSeq(both, 1, 0) \o SubSeq(both, 0 + 1, Len(both))
      <4>1. 0 \in 0 .. Len(both) /\ Len(both) \in Nat BY <2>3
      <4> QED BY <2>2, <4>1, Cut
    <3>4. SubSeq(both, 1, 0) = <<>> BY <3>3, EmptySeq
    <3> QED BY <3>2, <3>3, <3>4, NothingJoined
  <2>6. drain' \in Drains /\ drain'.at = "fill" /\ drain'.hand = <<>>
    <3>1. "fill" \in Stops /\ <<>> \in Seq(Nat) BY EmptySeq DEF Stops
    <3> QED BY <1>1, <2>1, <3>1, DrainHolds, Zenon
  <2>7. SoundTypes' BY <2>0, <2>2, <2>4, <2>5, <2>6 DEF SoundInv, SoundTypes
  <2>8. Room' BY <1>2, <2>3, <2>4, <2>5, <2>6 DEF Room
  <2>9. Sounding' = Sounding
    <3>1. heard \o both = (heard \o device.samples) \o drain.hand
      <4> DEFINE d == device.samples
                 h == drain.hand
      <4>0. d \in Seq(Nat) /\ h \in Seq(Nat) /\ heard \in Seq(Nat) BY <1>1
      <4> HIDE DEF d, h
      <4>1. heard \o (d \o h) = (heard \o d) \o h BY <4>0, Shifted
      <4> QED BY <4>1 DEF both, d, h
    <3>2. heard \o both \in Seq(Nat) BY <1>1, <2>2, ConcatProperties
    <3>3. (heard \o both) \o <<>> = heard \o both BY <3>2, NothingJoined
    <3> QED BY <2>0, <2>4, <2>5, <2>6, <3>1, <3>3 DEF Sounding
  <2> QED BY <2>0, <2>7, <2>8, <2>9 DEF SoundInv
<1> QED BY <1>3, <1>4, <1>5, <1>6 DEF Sound!DrainStep

LEMMA SoundNext == SoundInv /\ [Sound!Next]_soundVars => SoundInv'
<1> SUFFICES ASSUME SoundInv, [Sound!Next]_soundVars PROVE SoundInv' OBVIOUS
<1>1. CASE UNCHANGED <<decode, device, drain, pushed, heard, overflowed>>
  <2>1. SoundTypes' BY <1>1 DEF SoundInv, SoundTypes
  <2>2. Room' BY <1>1 DEF SoundInv, Room, Sound!Target
  <2>3. Sounding' = Sounding BY <1>1 DEF Sounding
  <2> QED BY <1>1, <2>1, <2>2, <2>3 DEF SoundInv
<1>2. CASE UNCHANGED soundVars BY <1>1, <1>2 DEF soundVars
<1>3. CASE Sound!Stop \/ Sound!Close BY <1>1, <1>3 DEF Sound!Stop, Sound!Close
<1> QED BY <1>2, <1>3, PushKeeps, PlayKeeps, DrainKeeps DEF Sound!Next
-----------------------------------------------------------------------------
(* The microphone *)

\* What was captured and not forgotten, in the order in which it will be sent.
Speaking == frames \o tail \o chunk \o ring \o capture

MicTypes ==
  /\ captured \in Nat /\ lost \subseteq 1 .. captured
  /\ frames \in Seq(Nat) /\ tail \in Seq(Nat) /\ chunk \in Seq(Nat)
  /\ ring \in Seq(Nat) /\ capture \in Seq(Nat)
  /\ micDrain # "encode" => Len(tail) < Frame

\* The thread holds a chunk only while it feeds it to the encoder.
OneChunk == micDrain # "feed" => chunk = <<>>

MicInv == /\ MicTypes /\ OneChunk
          /\ Rising(Speaking) /\ Samples(Speaking) = (1 .. captured) \ lost

LEMMA MicIsSent == MicInv => Mic!SentAsCaptured
<1> SUFFICES ASSUME MicInv PROVE Mic!SentAsCaptured OBVIOUS
<1>1. Speaking \in Seq(Nat) BY ConcatProperties DEF MicInv, MicTypes, Speaking
<1>2. DOMAIN Speaking = 1 .. Len(Speaking) /\ Len(Speaking) \in Nat BY <1>1
<1>3. \A i \in 1 .. Len(Speaking) - 1 : Speaking[i] < Speaking[i + 1]
  <2> TAKE i \in 1 .. Len(Speaking) - 1
  <2>1. i \in DOMAIN Speaking /\ i + 1 \in DOMAIN Speaking /\ i < i + 1 BY <1>2
  <2> QED BY <2>1 DEF MicInv, Rising
<1>4. Mic!Seqs!ToSet(Speaking) = (1 .. captured) \ lost
  BY DEF MicInv, Samples, Mic!Seqs!ToSet
<1> QED BY <1>3, <1>4 DEF Mic!SentAsCaptured, Speaking, MicInv, MicTypes

LEMMA MicInit == Mic!Init => MicInv
<1> SUFFICES ASSUME Mic!Init PROVE MicInv OBVIOUS
<1>1. MicTypes BY SoundAssumption, EmptySeq DEF Mic!Init, MicTypes
<1>2. OneChunk BY DEF Mic!Init, OneChunk
<1>3. Speaking = <<>> BY NothingJoined, EmptySeq DEF Mic!Init, Speaking
<1>4. (1 .. captured) \ lost = {} BY DEF Mic!Init
<1> QED BY <1>1, <1>2, <1>3, <1>4, NothingJoined, EmptySeq DEF MicInv

\* The callback brings the next samples; muted, it forgets them.
LEMMA CaptureKeeps ==
  ASSUME MicInv, NEW n \in MicSizes, Mic!Capture(n)
  PROVE  MicInv'
<1> DEFINE new == [i \in 1 .. n |-> captured + i]
           x   == frames \o tail \o chunk \o ring
<1>1. /\ captured \in Nat /\ n \in Nat /\ lost \subseteq 1 .. captured /\ x \in Seq(Nat)
      /\ capture = <<>> /\ UNCHANGED <<ring, micDrain, chunk, tail, frames>>
         /\ captured' = captured + n
  BY SoundAssumption, ConcatProperties DEF MicInv, MicTypes, Mic!Capture, Mic!thread
<1>2. \/ lost' = lost \cup Samples(new) /\ capture' = capture
      \/ lost' = lost /\ capture' = new
  BY DEF Mic!Capture, Mic!Seqs!ToSet, Samples
<1>3. new \in Seq(Nat) /\ Samples(new) = captured + 1 .. captured + n /\ Rising(new)
  BY <1>1, Following
<1> HIDE DEF new
<1>4. Speaking = x /\ Speaking' = x \o capture'
  <2>1. x \o <<>> = x BY <1>1, NothingJoined
  <2> QED BY <1>1, <2>1 DEF Speaking
<1>5. Rising(x) /\ Samples(x) = (1 .. captured) \ lost BY <1>4 DEF MicInv
<1> HIDE DEF x
<1>6. 1 .. captured' = (1 .. captured) \cup Samples(new) /\ (1 .. captured) \cap Samples(new) = {}
  BY <1>1, <1>3
<1>7. CASE lost' = lost \cup Samples(new) /\ capture' = capture
  <2>1. Speaking' = x BY <1>1, <1>4, <1>7, NothingJoined
  <2>2. Samples(x) = (1 .. captured') \ lost' /\ lost' \subseteq 1 .. captured'
    BY <1>1, <1>5, <1>6, <1>7
  <2>3. MicTypes' BY <1>1, <1>7, <2>2 DEF MicInv, MicTypes
  <2> QED BY <1>1, <1>5, <2>1, <2>2, <2>3 DEF MicInv, OneChunk
<1>8. CASE lost' = lost /\ capture' = new
  <2>1. Ahead(x, new) BY <1>1, <1>3, <1>5 DEF Ahead
  <2>2. Rising(x \o new) /\ Samples(x \o new) = Samples(x) \cup Samples(new)
    BY <1>1, <1>3, <1>5, <2>1, Joined
  <2>3. Samples(x \o new) = (1 .. captured') \ lost' /\ lost' \subseteq 1 .. captured'
    BY <1>1, <1>5, <1>6, <1>8, <2>2
  <2>4. MicTypes' BY <1>1, <1>3, <1>8, <2>3 DEF MicInv, MicTypes
  <2> QED BY <1>1, <1>4, <1>8, <2>2, <2>3, <2>4 DEF MicInv, OneChunk
<1> QED BY <1>2, <1>7, <1>8

\* A push comes behind the ring; a full ring forgets what was captured longest ago.
LEMMA PushCapturedKeeps ==
  ASSUME MicInv, Mic!PushCaptured
  PROVE  MicInv'
<1> DEFINE x    == frames \o tail \o chunk
           all  == ring \o capture
           k    == IF Len(all) > Mic!Capacity THEN Len(all) - Mic!Capacity ELSE 0
           out  == SubSeq(all, 1, k)
           kept == SubSeq(all, k + 1, Len(all))
<1>1. /\ x \in Seq(Nat) /\ ring \in Seq(Nat) /\ capture \in Seq(Nat) /\ all \in Seq(Nat)
         /\ Len(all) \in Nat
      /\ captured \in Nat /\ lost \subseteq 1 .. captured
  BY ConcatProperties DEF MicInv, MicTypes
<1>2. /\ UNCHANGED <<chunk, tail, frames, captured>> /\ capture' = <<>> /\ ring' = kept
      /\ lost' = lost \cup Samples(out) /\ micDrain' \in {micDrain, "look"} /\ micDrain # "pop"
      /\ micDrain' = "look" => micDrain \in {"look", "wait"}
  BY DEF Mic!PushCaptured, Mic!thread, Mic!Notified, Mic!Seqs!ToSet, Samples
<1>3. k \in 0 .. Len(all)
  <2>1. Mic!Capacity \in Nat BY SoundAssumption DEF Mic!Capacity
  <2> HIDE DEF all
  <2> QED BY <1>1, <2>1
<1> HIDE DEF k, all
<1>4. out \in Seq(Nat) /\ kept \in Seq(Nat) /\ all = out \o kept BY <1>1, <1>3, Cut
<1> HIDE DEF out, kept
<1>5. Speaking = (x \o out) \o kept
  <2>0. Speaking = (x \o ring) \o capture BY DEF Speaking
  <2>1. x \in Seq(Nat) /\ ring \in Seq(Nat) /\ capture \in Seq(Nat) BY <1>1
  <2>2. out \in Seq(Nat) /\ kept \in Seq(Nat) BY <1>4
  <2> HIDE DEF x
  <2>3. (x \o ring) \o capture = x \o (ring \o capture) BY <2>1, Shifted
  <2>4. x \o (out \o kept) = (x \o out) \o kept BY <2>1, <2>2, Shifted
  <2> QED BY <1>4, <2>0, <2>3, <2>4 DEF all
<1>6. Speaking' = x \o kept
  <2>1. Speaking' = (x \o kept) \o <<>> BY <1>2 DEF Speaking
  <2>2. x \o kept \in Seq(Nat) BY <1>1, <1>4, ConcatProperties
  <2> HIDE DEF x
  <2> QED BY <2>1, <2>2, NothingJoined
<1> HIDE DEF x
<1>7. Rising((x \o out) \o kept) /\ Samples((x \o out) \o kept) = (1 .. captured) \ lost
  BY <1>5 DEF MicInv
<1>8. Rising(x \o kept) /\ Samples(x \o kept) = ((1 .. captured) \ lost) \ Samples(out)
  BY <1>1, <1>4, <1>7, Thrown
<1>9. Samples(out) \subseteq 1 .. captured
  <2>1. x \o out \in Seq(Nat) /\ Samples(out) \subseteq Samples(x \o out) BY <1>1, <1>4, Joined
  <2>2. Samples(x \o out) \subseteq Samples((x \o out) \o kept) BY <1>4, <2>1, Joined
  <2> QED BY <1>7, <2>1, <2>2
<1>10. lost' \subseteq 1 .. captured' /\ Samples(x \o kept) = (1 .. captured') \ lost'
  BY <1>1, <1>2, <1>8, <1>9
<1>11. MicTypes' BY <1>2, <1>4, <1>10, EmptySeq DEF MicInv, MicTypes
<1>12. OneChunk' BY <1>2 DEF MicInv, OneChunk
<1> QED BY <1>6, <1>8, <1>10, <1>11, <1>12 DEF MicInv

\* The thread takes the first part of the ring.
LEMMA PopKeeps ==
  ASSUME MicInv, Mic!Pop
  PROVE  MicInv'
<1>1. /\ frames \in Seq(Nat) /\ tail \in Seq(Nat) /\ ring \in Seq(Nat) /\ capture \in Seq(Nat)
      /\ micDrain = "pop" /\ chunk = <<>> /\ micDrain' \in {"wait", "feed"}
      /\ UNCHANGED <<capture, captured, tail, frames, lost>>
  BY DEF MicInv, MicTypes, OneChunk, Mic!Pop, Mic!callback
<1>2. CASE UNCHANGED <<ring, chunk>>
  <2>1. Speaking' = Speaking BY <1>1, <1>2 DEF Speaking
  <2>2. MicTypes' BY <1>1, <1>2 DEF MicInv, MicTypes
  <2>3. OneChunk' BY <1>1, <1>2 DEF OneChunk
  <2> QED BY <1>1, <2>1, <2>2, <2>3 DEF MicInv
<1>3. CASE \E n \in DOMAIN ring : /\ chunk' = SubSeq(ring, 1, n)
                                  /\ ring' = SubSeq(ring, n + 1, Len(ring))
                                  /\ micDrain' = "feed"
  <2>1. PICK n \in 0 .. Len(ring) : /\ chunk' = SubSeq(ring, 1, n)
                                    /\ ring' = SubSeq(ring, n + 1, Len(ring))
                                    /\ micDrain' = "feed"
    <3>1. DOMAIN ring \subseteq 0 .. Len(ring) BY <1>1
    <3> QED BY <1>3, <3>1
  <2>2. chunk' \in Seq(Nat) /\ ring' \in Seq(Nat) /\ ring = chunk' \o ring' BY <1>1, <2>1, Cut
  <2> DEFINE x == frames \o tail
  <2>3. x \in Seq(Nat) BY <1>1, ConcatProperties
  <2>4. Speaking = ((x \o <<>>) \o ring) \o capture BY <1>1 DEF Speaking
  <2>5. Speaking' = ((x \o chunk') \o ring') \o capture BY <1>1 DEF Speaking
  <2> HIDE DEF x
  <2>6. x \o <<>> = x BY <2>3, NothingJoined
  <2>7. x \o ring = (x \o chunk') \o ring' BY <2>2, <2>3, Shifted
  <2>8. Speaking' = Speaking BY <2>4, <2>5, <2>6, <2>7
  <2>9. MicTypes' BY <1>1, <2>2 DEF MicInv, MicTypes
  <2> QED BY <1>1, <2>1, <2>8, <2>9 DEF MicInv, OneChunk
<1> QED BY <1>2, <1>3 DEF Mic!Pop

\* The chunk comes behind the beginning of a frame; muted, it is forgotten.
LEMMA FeedKeeps ==
  ASSUME MicInv, Mic!Feed
  PROVE  MicInv'
<1> DEFINE y == ring \o capture
<1>1. /\ frames \in Seq(Nat) /\ tail \in Seq(Nat) /\ chunk \in Seq(Nat)
      /\ ring \in Seq(Nat) /\ capture \in Seq(Nat) /\ y \in Seq(Nat) /\ captured \in Nat
         /\ lost \subseteq 1 .. captured
      /\ UNCHANGED <<ring, capture, captured, frames>> /\ chunk' = <<>>
      /\ micDrain = "feed"
  BY ConcatProperties DEF MicInv, MicTypes, Mic!Feed, Mic!callback
<1>2. ASSUME NEW x \in Seq(Nat) PROVE (x \o ring) \o capture = x \o y BY <1>1, Shifted
<1>3. CASE lost' = lost \cup Samples(chunk) /\ tail' = tail /\ micDrain' = "look"
  <2> DEFINE x == frames \o tail
  <2>1. x \in Seq(Nat) /\ x \o chunk \in Seq(Nat) /\ x \o <<>> = x
    BY <1>1, ConcatProperties, NothingJoined
  <2>2. Speaking = ((x \o chunk) \o ring) \o capture BY DEF Speaking
  <2>3. Speaking' = ((x \o <<>>) \o ring) \o capture BY <1>1, <1>3 DEF Speaking
  <2> HIDE DEF x, y
  <2>4. Speaking = (x \o chunk) \o y BY <1>2, <2>1, <2>2
  <2>5. Speaking' = x \o y BY <1>2, <2>1, <2>3
  <2>6. Rising((x \o chunk) \o y) /\ Samples((x \o chunk) \o y) = (1 .. captured) \ lost
    BY <2>4 DEF MicInv
  <2>7. Rising(x \o y) /\ Samples(x \o y) = ((1 .. captured) \ lost) \ Samples(chunk)
    BY <1>1, <2>1, <2>6, Thrown
  <2>8. Samples(chunk) \subseteq 1 .. captured
    <3>1. Samples(chunk) \subseteq Samples(x \o chunk) BY <1>1, <2>1, Joined
    <3>2. x \o chunk \in Seq(Nat) /\ y \in Seq(Nat) BY <1>1, <2>1
    <3>3. Samples(x \o chunk) \subseteq Samples((x \o chunk) \o y) BY <3>2, Joined
    <3> QED BY <2>6, <3>1, <3>3
  <2>9. lost' \subseteq 1 .. captured' /\ Samples(x \o y) = (1 .. captured') \ lost'
    BY <1>1, <1>3, <2>7, <2>8
  <2>10. MicTypes' BY <1>1, <1>3, <2>9, EmptySeq DEF MicInv, MicTypes
  <2> QED BY <1>1, <2>5, <2>7, <2>9, <2>10 DEF MicInv, OneChunk
<1>4. CASE lost' = lost /\ tail' = tail \o chunk /\ micDrain' = "encode"
  <2>1. frames \in Seq(Nat) /\ tail \in Seq(Nat) /\ chunk \in Seq(Nat) BY <1>1
  <2>2. (frames \o tail) \o chunk = frames \o (tail \o chunk) BY <2>1, Shifted
  <2>3. tail \o chunk \in Seq(Nat) /\ frames \o (tail \o chunk) \in Seq(Nat)
    BY <2>1, ConcatProperties
  <2>4. (frames \o (tail \o chunk)) \o <<>> = frames \o (tail \o chunk)
    BY <2>3, NothingJoined
  <2>5. Speaking' = Speaking BY <1>1, <1>4, <2>2, <2>4 DEF Speaking
  <2>6. MicTypes' BY <1>1, <1>4, <2>3, EmptySeq DEF MicInv, MicTypes
  <2> QED BY <1>1, <1>4, <2>5, <2>6 DEF MicInv, OneChunk
<1> QED BY <1>3, <1>4 DEF Mic!Feed, Mic!Seqs!ToSet, Samples

\* A frame is sent, or passed over; less than a frame stays.
LEMMA EncodeKeeps ==
  ASSUME MicInv, Mic!Encode
  PROVE  MicInv'
<1> DEFINE a == SubSeq(tail, 1, Frame)
           b == SubSeq(tail, Frame + 1, Len(tail))
           y == ring \o capture
<1>1. /\ frames \in Seq(Nat) /\ tail \in Seq(Nat) /\ chunk = <<>> /\ chunk' = <<>>
      /\ ring \in Seq(Nat) /\ capture \in Seq(Nat) /\ y \in Seq(Nat) /\ captured \in Nat
      /\ lost \subseteq 1 .. captured /\ micDrain = "encode" /\ Len(tail) \in Nat
      /\ UNCHANGED <<ring, capture, captured>>
  BY ConcatProperties DEF MicInv, MicTypes, OneChunk, Mic!Encode, Mic!callback
<1>2. CASE Len(tail) < Frame /\ micDrain' = "look" /\ UNCHANGED <<tail, frames, lost>>
  <2>1. Speaking' = Speaking BY <1>1, <1>2 DEF Speaking
  <2>2. MicTypes' BY <1>1, <1>2, EmptySeq DEF MicInv, MicTypes
  <2> QED BY <1>1, <1>2, <2>1, <2>2 DEF MicInv, OneChunk
<1>3. ASSUME Len(tail) >= Frame, micDrain' = micDrain, tail' = b,
             \/ frames' = frames \o a /\ lost' = lost
             \/ frames' = frames /\ lost' = lost \cup Samples(a)
      PROVE  MicInv'
  <2>1. Frame \in 0 .. Len(tail) BY <1>1, <1>3, SoundAssumption
  <2>2. a \in Seq(Nat) /\ b \in Seq(Nat) /\ tail = a \o b BY <1>1, <2>1, Cut
  <2> HIDE DEF a, b
  <2>3. /\ frames \o tail = (frames \o a) \o b /\ frames \o a \in Seq(Nat)
        /\ frames \o b \in Seq(Nat) /\ frames \o tail \in Seq(Nat)
    <3>1. frames \in Seq(Nat) /\ a \in Seq(Nat) /\ b \in Seq(Nat) /\ tail \in Seq(Nat)
      BY <1>1, <2>2
    <3>2. frames \o (a \o b) = (frames \o a) \o b BY <3>1, Shifted
    <3> QED BY <2>2, <3>1, <3>2, ConcatProperties
  <2>4. ASSUME NEW x \in Seq(Nat) PROVE ((x \o <<>>) \o ring) \o capture = x \o y
    BY <1>1, NothingJoined, Shifted
  <2>5. Speaking = (frames \o tail) \o y
    <3>1. ((frames \o tail \o <<>>) \o ring) \o capture = (frames \o tail) \o y BY <2>3, <2>4
    <3> QED BY <1>1, <3>1 DEF Speaking
  <2>6. OneChunk' /\ micDrain' = "encode" BY <1>1, <1>3 DEF OneChunk
  <2>7. CASE frames' = frames \o a /\ lost' = lost
    <3>1. Speaking' = (frames \o tail) \o y
      <4>1. (frames \o a) \o b \in Seq(Nat) BY <2>3
      <4>2. ((((frames \o a) \o b) \o <<>>) \o ring) \o capture = ((frames \o a) \o b) \o y
        BY <4>1, <2>4
      <4> QED BY <1>1, <1>3, <2>3, <2>7, <4>2 DEF Speaking
    <3>2. MicTypes' BY <1>1, <1>3, <2>2, <2>3, <2>6, <2>7, EmptySeq DEF MicInv, MicTypes
    <3> QED BY <1>1, <2>5, <2>6, <2>7, <3>1, <3>2 DEF MicInv
  <2>8. CASE frames' = frames /\ lost' = lost \cup Samples(a)
    <3>1. Speaking' = (frames \o b) \o y
      <4>1. (((frames \o b) \o <<>>) \o ring) \o capture = (frames \o b) \o y BY <2>3, <2>4
      <4> QED BY <1>1, <1>3, <2>8, <4>1 DEF Speaking
    <3>2. b \o y \in Seq(Nat) /\ (frames \o b) \o y = frames \o (b \o y)
      <4>1. frames \in Seq(Nat) /\ b \in Seq(Nat) /\ y \in Seq(Nat) BY <1>1, <2>2
      <4> HIDE DEF y
      <4> QED BY <4>1, Shifted, ConcatProperties
    <3>3. Speaking = (frames \o a) \o (b \o y)
      <4>1. frames \o a \in Seq(Nat) /\ b \in Seq(Nat) /\ y \in Seq(Nat) BY <1>1, <2>2, <2>3
      <4> HIDE DEF y
      <4>2. ((frames \o a) \o b) \o y = (frames \o a) \o (b \o y) BY <4>1, Shifted
      <4> QED BY <2>3, <2>5, <4>2
    <3> DEFINE z == b \o y
    <3> HIDE DEF z
    <3>4. z \in Seq(Nat) /\ Speaking = (frames \o a) \o z /\ Speaking' = frames \o z
      BY <3>1, <3>2, <3>3 DEF z
    <3>5. Rising((frames \o a) \o z) /\ Samples((frames \o a) \o z) = (1 .. captured) \ lost
      BY <3>4 DEF MicInv
    <3>6. Rising(frames \o z) /\ Samples(frames \o z) = ((1 .. captured) \ lost) \ Samples(a)
      BY <1>1, <2>2, <3>4, <3>5, Thrown
    <3>7. Samples(a) \subseteq 1 .. captured
      <4>1. Samples(a) \subseteq Samples(frames \o a) BY <1>1, <2>2, Joined
      <4>2. Samples(frames \o a) \subseteq Samples((frames \o a) \o z) BY <2>3, <3>4, Joined
      <4> QED BY <3>5, <4>1, <4>2
    <3>8. lost' \subseteq 1 .. captured' /\ Samples(frames \o z) = (1 .. captured') \ lost'
      BY <1>1, <2>8, <3>6, <3>7
    <3>9. MicTypes' BY <1>1, <1>3, <2>2, <2>6, <2>8, <3>8, EmptySeq DEF MicInv, MicTypes
    <3> QED BY <2>6, <3>4, <3>6, <3>8, <3>9 DEF MicInv
  <2> QED BY <1>3, <2>7, <2>8
<1> QED BY <1>2, <1>3 DEF Mic!Encode, Mic!FirstFrame, Mic!Remaining, Mic!Seqs!ToSet, Samples

LEMMA MicNext == MicInv /\ [Mic!Next]_micVars => MicInv'
<1> SUFFICES ASSUME MicInv, [Mic!Next]_micVars PROVE MicInv' OBVIOUS
<1>1. CASE /\ UNCHANGED <<ring, capture, chunk, tail, frames, captured, lost>>
           /\ micDrain' = micDrain
              \/ {micDrain, micDrain'} \cap {"feed", "encode"} = {}
  <2>1. MicTypes' /\ OneChunk' BY <1>1 DEF MicInv, MicTypes, OneChunk
  <2>2. Speaking' = Speaking BY <1>1 DEF Speaking
  <2> QED BY <1>1, <2>1, <2>2 DEF MicInv
<1>2. CASE Mic!Look \/ Mic!SetMuted \/ Mic!Drop \/ Mic!DropStep \/ UNCHANGED micVars
  BY <1>1, <1>2 DEF Mic!Look, Mic!SetMuted, Mic!Drop, Mic!DropStep, Mic!NotifyAll, Mic!Join,
       Mic!Notified,
     Mic!callback, Mic!thread, Mic!control, micVars
<1> QED BY <1>2, CaptureKeeps, PushCapturedKeeps, PopKeeps, FeedKeeps, EncodeKeeps
   DEF Mic!Next, Mic!DrainStep
-----------------------------------------------------------------------------
(* The feedback sender *)

\* What is known of the sticks: prev is what was sent, except between sending and
\* taking the lock again, and what was read under the lock is sent unless it was sent
\* already.
SticksKnown ==
  /\ thread.place \in {"top", "state"} \/ ~thread.send => inner.prev = sent
  /\ thread.place = "state" /\ ~thread.send => sent = thread.now
  /\ thread.place \in {"history", "relock"} => sent = thread.now
  /\ thread.place \in {"state", "history", "relock"} /\ ~inner.changed
       => thread.now = inner.state.sticks
  /\ thread.place = "top" /\ ~inner.changed => sent = inner.state.sticks

\* The next history packet after packet j is k.
Follows(j, k, w) == j < k /\ w[k] # {} /\ \A between \in (j + 1) .. (k - 1) : w[between] = {}

\* The events tell the news of packet k, and those of the packet before it if they are
\* few and leave room.
Tells(those, k, w) ==
  /\ Cardinality(w[k]) <= BufSize => w[k] \subseteq those
  /\ Cardinality(w[k]) + Resend <= BufSize =>
       \A j \in DOMAIN w :
         Follows(j, k, w) /\ Cardinality(w[j]) <= Resend => w[j] \subseteq those

\* Packets on their way to the network.
Pending == Seqs!ToSet(inner.packets) \cup Seqs!ToSet(thread.packet)

Inners  == [state : ControllerState, prev : Sticks, changed : BOOLEAN, stop : BOOLEAN,
            buf : Seq(Nat), packets : Seq(Packet)]
Threads == [place : {"top", "state", "history", "relock", "over"}, now : Sticks,
            send : BOOLEAN, packet : Seq(Packet)]

FeedbackTypes ==
  /\ inner \in Inners /\ thread \in Threads
  /\ console \in [sticks : Sticks, events : SUBSET Nat]
  /\ news \in Seq(SUBSET Nat) /\ IsFiniteSet(Made) /\ sent \in Sticks
  /\ Len(inner.buf) <= Resend /\ Len(inner.packets) <= QueueSize /\ Len(thread.packet) <= 1
  /\ thread.place \in {"top", "relock", "over"} => thread.packet = <<>>

\* Every history packet is on its way, reached the console (which was told those) or is
\* lost (away); what is on its way tells what it has to, and the news that are told last are
\* among those that are held for the next packet.
Remembered(underway, w, away, those, held) ==
  /\ \A p \in underway : p.k \in DOMAIN w /\ Tells(Seqs!ToSet(p.events), p.k, w)
  /\ \A k \in DOMAIN w : w[k] # {} =>
       k \in away \/ Tells(those, k, w) \/ \E p \in underway : p.k = k
  /\ \A k \in DOMAIN w :
       (\A later \in (k + 1) .. Len(w) : w[later] = {}) /\ Cardinality(w[k]) <= Resend
         => w[k] \subseteq held

HistoryKept == Remembered(Pending, news, dropped, console.events, Seqs!ToSet(inner.buf))

FeedbackInv == FeedbackTypes /\ SticksKnown /\ HistoryKept

LEMMA FeedbackSettles == FeedbackInv => StateSettles
BY DEF FeedbackInv, SticksKnown, StateSettles

\* A packet on its way tells what NoEventForgotten counts as carried.
LEMMA PendingCarried ==
  ASSUME NEW p \in Pending
  PROVE  Seqs!ToSet(p.events) \subseteq Carried(inner.packets) \cup Carried(thread.packet)
BY DEF Pending, Carried

LEMMA NoLess ==
  ASSUME NEW a \in Nat, NEW b \in Nat, a <= b, ~(a < b)
  PROVE  a = b
OBVIOUS

LEMMA LeastNumber ==
  ASSUME NEW T, T \subseteq Nat, T # {}
  PROVE  \E x \in T : \A y \in T : x <= y
<1>1. PICK x \in T : \A y \in T : ~(<<y, x>> \in OpToRel(<, Nat))
  <2> HIDE DEF OpToRel
  <2> QED BY NatLessThanWellFounded, WFMin
<1>2. \A y \in T : ~(y < x) BY <1>1 DEF OpToRel
<1> QED BY <1>2

LEMMA FeedbackRemembers == FeedbackInv => NoEventForgotten
<1> DEFINE told == console.events \cup Carried(inner.packets)
                         \cup Carried(thread.packet) \cup Seqs!ToSet(inner.buf)
<1> SUFFICES ASSUME FeedbackInv, NEW k \in DOMAIN news,
                    ~(news[k] \subseteq told), ~(Cardinality(news[k]) > Resend)
             PROVE  /\ k \in dropped
                    /\ \E next \in dropped \cup {n \in DOMAIN news :
                                   Cardinality(news[n]) + Resend > BufSize} :
                         next > k /\ \A between \in (k + 1) .. (next - 1) : news[between] = {}
  BY DEF NoEventForgotten
<1>1. /\ news \in Seq(SUBSET Nat) /\ DOMAIN news = 1 .. Len(news) /\ Len(news) \in Nat
      /\ IsFiniteSet(Made)
  BY DEF FeedbackInv, FeedbackTypes
<1>2. \A n \in DOMAIN news : Cardinality(news[n]) \in Nat
  <2> TAKE n \in DOMAIN news
  <2>1. news[n] \subseteq Made BY DEF Made, Seqs!ToSet
  <2> QED BY <1>1, <2>1, FS_Subset, FS_CardinalityType
<1>3. Cardinality(news[k]) <= Resend /\ Cardinality(news[k]) <= BufSize /\ news[k] # {}
  BY <1>2, FeedbackAssumption
\* Whatever tells packet n is lost or known.
<1>4. ASSUME NEW n \in DOMAIN news, news[n] # {}, n \notin dropped
      PROVE  \E those : those \subseteq told /\ Tells(those, n, news)
  <2>1. CASE Tells(console.events, n, news) BY <2>1
  <2>2. CASE \E p \in Pending : p.k = n
    <3>1. PICK p \in Pending : p.k = n BY <2>2
    <3>2. Tells(Seqs!ToSet(p.events), n, news) BY <3>1 DEF FeedbackInv, HistoryKept, Remembered
    <3>3. Seqs!ToSet(p.events) \subseteq told BY PendingCarried
    <3> QED BY <3>2, <3>3
  <2> QED BY <1>4, <2>1, <2>2 DEF FeedbackInv, HistoryKept, Remembered
<1> HIDE DEF told
<1>5. k \in dropped BY <1>3, <1>4 DEF Tells
<1>6. \E n \in DOMAIN news : n > k /\ news[n] # {}
  <2>1. ~(\A later \in (k + 1) .. Len(news) : news[later] = {})
    <3>1. Seqs!ToSet(inner.buf) \subseteq told BY DEF told
    <3> QED BY <1>3, <3>1 DEF FeedbackInv, HistoryKept, Remembered
  <2> QED BY <1>1, <2>1
<1>7. PICK next \in DOMAIN news : Follows(k, next, news)
  <2> DEFINE S == {n \in DOMAIN news : n > k /\ news[n] # {}}
  <2>1. S \subseteq Nat /\ S # {} BY <1>1, <1>6
  <2>2. PICK m \in S : \A n \in S : m <= n
    <3> HIDE DEF S
    <3> QED BY <2>1, LeastNumber
  <2>3. ASSUME NEW b \in (k + 1) .. (m - 1) PROVE news[b] = {}
    <3>1. b \in DOMAIN news /\ b > k /\ b < m BY <1>1, <2>2
    <3>2. b \notin S BY <1>1, <2>2, <3>1
    <3> QED BY <3>1, <3>2
  <2>4. Follows(k, m, news) BY <1>1, <2>2, <2>3 DEF Follows
  <2> QED BY <2>2, <2>4
<1>8. next \in dropped \/ Cardinality(news[next]) + Resend > BufSize
  <2> SUFFICES ASSUME next \notin dropped, ~(Cardinality(news[next]) + Resend > BufSize) PROVE FALSE
    OBVIOUS
  <2>1. news[next] # {} BY <1>7 DEF Follows
  <2>2. PICK those : those \subseteq told /\ Tells(those, next, news) BY <1>4, <2>1
  <2>3. Cardinality(news[next]) + Resend <= BufSize BY <1>2, FeedbackAssumption
  <2>4. news[k] \subseteq those BY <1>3, <1>7, <2>2, <2>3 DEF Tells
  <2>5. news[k] \subseteq told BY <2>2, <2>4
  <2> QED BY <2>5
<1> QED BY <1>1, <1>5, <1>7, <1>8 DEF Follows

LEMMA FeedbackInit == Init => FeedbackInv
<1> SUFFICES ASSUME Init PROVE FeedbackInv OBVIOUS
<1>1. Idle \in ControllerState BY FeedbackAssumption DEF Idle, ControllerState
<1>2. Idle.sticks \in Sticks BY <1>1 DEF ControllerState
<1> HIDE DEF Idle
<1>3. inner \in Inners BY <1>1, <1>2, EmptySeq DEF Init, Inners
<1>4. thread \in Threads BY <1>2, EmptySeq DEF Init, Threads
<1>5. news = <<>> /\ DOMAIN news = {} /\ Made = {} BY EmptySeq DEF Init, Made, Seqs!ToSet
<1>6. FeedbackTypes
  BY <1>2, <1>3, <1>4, <1>5, EmptySeq, FS_EmptySet, FeedbackAssumption DEF Init, FeedbackTypes
<1>7. SticksKnown BY DEF Init, SticksKnown
<1>8. Pending = {} BY EmptySeq DEF Init, Pending, Seqs!ToSet
<1>9. HistoryKept BY <1>5, <1>8 DEF HistoryKept, Remembered
<1> QED BY <1>6, <1>7, <1>9 DEF FeedbackInv

\* What is told stays told when more calls come, and more events tell as much.
LEMMA TellsStays ==
  ASSUME NEW w \in Seq(SUBSET Nat), NEW e \in SUBSET Nat, NEW k \in DOMAIN w, NEW those,
         Tells(those, k, w)
  PROVE  Tells(those, k, Append(w, e))
<1> DEFINE v == Append(w, e)
<1>1. /\ DOMAIN w = 1 .. Len(w) /\ Len(w) \in Nat /\ DOMAIN v = 1 .. Len(w) + 1
      /\ \A n \in DOMAIN w : v[n] = w[n]
  OBVIOUS
<1> HIDE DEF v
<1>2. ASSUME NEW j \in DOMAIN v, Follows(j, k, v)
      PROVE  j \in DOMAIN w /\ Follows(j, k, w)
  <2>1. j \in DOMAIN w /\ j < k BY <1>1, <1>2 DEF Follows
  <2>2. \A b \in (j + 1) .. (k - 1) : b \in DOMAIN w BY <1>1, <2>1
  <2> QED BY <1>1, <1>2, <2>1, <2>2 DEF Follows
<1> QED BY <1>1, <1>2 DEF Tells, v

\* The first of a sequence.
LEMMA FirstOf ==
  ASSUME NEW s \in Seq(Nat), NEW m \in Nat
  PROVE  LET f == SubSeq(s, 1, IF Len(s) < m THEN Len(s) ELSE m)
         IN /\ f \in Seq(Nat) /\ Len(f) <= m /\ Len(f) <= Len(s)
            /\ Len(f) = m \/ f = s
            /\ DOMAIN f = 1 .. Len(f) /\ Len(f) \in Nat
            /\ \A i \in 1 .. Len(f) : f[i] = s[i]
<1> DEFINE n == IF Len(s) < m THEN Len(s) ELSE m
           f == SubSeq(s, 1, n)
<1>1. Len(s) \in Nat /\ DOMAIN s = 1 .. Len(s) /\ n \in 0 .. Len(s) /\ n <= m OBVIOUS
<1>2. n = m \/ n = Len(s) OBVIOUS
<1> HIDE DEF n
<1>3. f \in Seq(Nat) /\ Len(f) = n /\ DOMAIN f = 1 .. n /\ \A i \in 1 .. n : f[i] = s[i] BY <1>1
<1>4. n = Len(s) => f = s
  <2> SUFFICES ASSUME n = Len(s) PROVE f = s OBVIOUS
  <2> HIDE DEF f
  <2> QED BY <1>1, <1>3, SeqEqual
<1> HIDE DEF f
<1>5. Len(f) = n BY <1>3
<1>6. n <= m /\ n <= Len(s) /\ n \in Nat BY <1>1
<1>7. Len(f) = m \/ f = s BY <1>2, <1>4, <1>5
<1> QED BY <1>3, <1>5, <1>6, <1>7 DEF f, n

\* n events have their numbers after the c before them; newest first, x is where its
\* number says.
LEMMA EventNumbers ==
  ASSUME NEW c \in Nat, NEW n \in Nat \ {0}
  PROVE  LET made == (c + 1) .. (c + n)
         IN /\ Cardinality(made) = n /\ IsFiniteSet(made)
            /\ made \subseteq Nat /\ made # {}
            /\ \A x \in made : c + n + 1 - x \in 1 .. n /\ c + n + 1 - (c + n + 1 - x) = x
<1> DEFINE a == c + 1
           b == c + n
<1>1. a \in Int /\ b \in Int /\ b - a + 1 = n /\ ~(a > b) OBVIOUS
<1>2. /\ a .. b \subseteq Nat /\ a \in a .. b
      /\ \A x \in a .. b : c + n + 1 - x \in 1 .. n /\ c + n + 1 - (c + n + 1 - x) = x
  OBVIOUS
<1> HIDE DEF a, b
<1>3. IsFiniteSet(a .. b) /\ Cardinality(a .. b) = IF a > b THEN 0 ELSE b - a + 1
  BY <1>1, FS_Interval
<1>4. IsFiniteSet(a .. b) /\ Cardinality(a .. b) = n BY <1>1, <1>3
<1> QED BY <1>2, <1>4 DEF a, b

\* The next n events.
NextNumbers(made, n) == made = (Cardinality(Made) + 1) .. (Cardinality(Made) + n)

\* The events of a call are the first of its packet, what the history held is behind
\* them, and they are the first of what stays in the history.
LEMMA PushedIs ==
  ASSUME FeedbackInv, NEW n \in Nat \ {0}, NEW made,
         NextNumbers(made, n)
  PROVE  /\ Cardinality(made) = n /\ made \subseteq Nat /\ IsFiniteSet(made) /\ made # {}
         /\ Pushed(made) \in Seq(Nat)
         /\ n <= BufSize => made \subseteq Seqs!ToSet(Pushed(made))
         /\ n + Resend <= BufSize => Seqs!ToSet(inner.buf) \subseteq Seqs!ToSet(Pushed(made))
         /\ Kept(Pushed(made)) \in Seq(Nat) /\ Len(Kept(Pushed(made))) <= Resend
         /\ n <= Resend => made \subseteq Seqs!ToSet(Kept(Pushed(made)))
<1> DEFINE c   == Cardinality(Made)
           new == [i \in 1 .. n |-> c + n + 1 - i]
           buf == inner.buf
           all == new \o buf
           s   == Pushed(made)
           f   == Kept(s)
<1>1. c \in Nat BY FS_CardinalityType DEF FeedbackInv, FeedbackTypes
<1>2. buf \in Seq(Nat) /\ Len(buf) \in Nat /\ Len(buf) <= Resend /\ DOMAIN buf = 1 .. Len(buf)
  BY DEF FeedbackInv, FeedbackTypes, Inners
<1>3. BufSize \in Nat /\ Resend \in Nat /\ Resend < BufSize BY FeedbackAssumption
<1> HIDE DEF c, buf
<1>4. Cardinality(made) = n /\ IsFiniteSet(made) /\ made \subseteq Nat /\ made # {}
  BY <1>1, EventNumbers DEF c, NextNumbers
<1>5. ASSUME NEW x \in made PROVE c + n + 1 - x \in 1 .. n /\ c + n + 1 - (c + n + 1 - x) = x
  BY <1>1, EventNumbers DEF c, NextNumbers
<1>6. new \in Seq(Nat) /\ Len(new) = n /\ \A x \in made : \E i \in 1 .. n : new[i] = x
  <2>1. \A i \in 1 .. n : c + n + 1 - i \in Nat BY <1>1
  <2>2. new \in Seq(Nat) /\ Len(new) = n BY <2>1, IsASeq
  <2>3. ASSUME NEW x \in made PROVE \E i \in 1 .. n : new[i] = x BY <1>5
  <2> QED BY <2>2, <2>3
<1> HIDE DEF new
<1>7. /\ all \in Seq(Nat) /\ Len(all) = n + Len(buf) /\ Len(all) \in Nat
      /\ \A i \in 1 .. n : all[i] = new[i]
      /\ \A i \in 1 .. Len(buf) : all[n + i] = buf[i]
  <2>1. /\ all \in Seq(Nat) /\ Len(all) = Len(new) + Len(buf)
        /\ \A i \in 1 .. Len(new) + Len(buf) :
              all[i] = IF i <= Len(new) THEN new[i] ELSE buf[i - Len(new)]
    BY <1>2, <1>6, ConcatProperties
  <2>2. \A i \in 1 .. Len(buf) : n + i \in 1 .. n + Len(buf) /\ ~(n + i <= n) /\ n + i - n = i
    BY <1>2
  <2>3. \A i \in 1 .. n : i \in 1 .. n + Len(buf) /\ i <= n BY <1>2
  <2> HIDE DEF all
  <2>4. all \in Seq(Nat) /\ Len(all) = n + Len(buf) /\ Len(all) \in Nat BY <1>2, <1>6, <2>1
  <2>5. \A i \in 1 .. n + Len(buf) : all[i] = IF i <= n THEN new[i] ELSE buf[i - n]
    BY <1>6, <2>1
  <2>6. ASSUME NEW i \in 1 .. Len(buf) PROVE all[n + i] = buf[i]
    <3> DEFINE m == n + i
    <3>1. m \in 1 .. n + Len(buf) /\ ~(m <= n) /\ m - n = i BY <2>2
    <3> HIDE DEF m
    <3>2. all[m] = buf[m - n] BY <2>5, <3>1
    <3> QED BY <3>1, <3>2 DEF m
  <2>7. ASSUME NEW i \in 1 .. n PROVE all[i] = new[i] BY <2>3, <2>5
  <2> QED BY <2>4, <2>6, <2>7
<1>8. s = SubSeq(all, 1, IF Len(all) < BufSize THEN Len(all) ELSE BufSize)
  BY <1>4 DEF Pushed, new, c, buf
<1> HIDE DEF all, s
<1>9. /\ s \in Seq(Nat) /\ Len(s) <= BufSize /\ Len(s) <= Len(all) /\ (Len(s) = BufSize \/ s = all)
      /\ DOMAIN s = 1 .. Len(s) /\ Len(s) \in Nat /\ \A i \in 1 .. Len(s) : s[i] = all[i]
  BY <1>3, <1>7, <1>8, FirstOf
<1>10. Len(s) <= BufSize /\ Len(s) <= Len(all) /\ Len(s) \in Nat BY <1>9
<1>11. f = SubSeq(s, 1, IF Len(s) < Resend THEN Len(s) ELSE Resend) BY DEF Kept
<1> HIDE DEF f
<1>12. /\ f \in Seq(Nat) /\ Len(f) <= Resend /\ (Len(f) = Resend \/ f = s)
       /\ DOMAIN f = 1 .. Len(f) /\ Len(f) \in Nat /\ \A i \in 1 .. Len(f) : f[i] = s[i]
          /\ i \in 1 .. Len(s)
  <2>1. /\ f \in Seq(Nat) /\ Len(f) <= Resend /\ Len(f) <= Len(s) /\ (Len(f) = Resend \/ f = s)
        /\ DOMAIN f = 1 .. Len(f) /\ Len(f) \in Nat /\ \A i \in 1 .. Len(f) : f[i] = s[i]
    BY <1>3, <1>9, <1>11, FirstOf
  <2> QED BY <1>9, <2>1
<1>13. ASSUME NEW x \in made, n <= Len(s) PROVE x \in Seqs!ToSet(s)
  <2>1. PICK i \in 1 .. n : new[i] = x BY <1>6
  <2>2. i \in 1 .. Len(s) /\ s[i] = x BY <1>7, <1>9, <1>13, <2>1
  <2> QED BY <1>9, <2>2 DEF Seqs!ToSet
<1>14. n <= BufSize => n <= Len(s) BY <1>2, <1>7, <1>9
<1>15. ASSUME n + Resend <= BufSize PROVE Seqs!ToSet(buf) \subseteq Seqs!ToSet(s)
  <2>1. s = all
    <3>1. Len(all) <= BufSize BY <1>2, <1>3, <1>7, <1>15
    <3>2. CASE Len(s) = BufSize
      <4>1. Len(s) = Len(all)
        <5>1. Len(all) \in Nat BY <1>7
        <5>2. ~(Len(s) < Len(all)) BY <1>3, <1>10, <3>1, <3>2, <5>1
        <5> QED BY <1>10, <5>1, <5>2, NoLess
      <4> QED BY <1>7, <1>9, <4>1, SeqEqual
    <3> QED BY <1>9, <3>2
  <2>2. ASSUME NEW i \in 1 .. Len(buf) PROVE buf[i] \in Seqs!ToSet(s)
    <3>1. n + i \in 1 .. Len(s) /\ s[n + i] = buf[i] BY <1>2, <1>7, <2>1
    <3> QED BY <1>9, <3>1 DEF Seqs!ToSet
  <2> QED BY <1>2, <2>2 DEF Seqs!ToSet
<1>16. ASSUME n <= Resend, NEW x \in made PROVE x \in Seqs!ToSet(f)
  <2>1. n <= Len(f)
    <3>1. Len(f) \in Nat /\ (Len(f) = Resend \/ f = s) BY <1>12
    <3>2. CASE f = s
      <4>1. Len(s) = BufSize \/ Len(s) = Len(all) BY <1>9
      <4>2. Len(all) >= n BY <1>2, <1>7
      <4>3. n <= Len(s) BY <1>3, <1>7, <1>16, <1>10, <4>1, <4>2
      <4> QED BY <3>2, <4>3
    <3> QED BY <1>16, <3>1, <3>2
  <2>2. PICK i \in 1 .. n : new[i] = x BY <1>6
  <2>3. i \in 1 .. Len(f) BY <1>12, <2>1
  <2>4. f[i] = s[i] /\ s[i] = all[i] BY <1>9, <1>12, <2>3
  <2>5. f[i] = x BY <1>7, <2>2, <2>4
  <2> QED BY <1>12, <2>3, <2>5 DEF Seqs!ToSet
<1> QED BY <1>4, <1>9, <1>12, <1>13, <1>14, <1>15, <1>16 DEF s, f, buf

\* A call that makes no event changes nothing of what is remembered.
LEMMA NoEventRemembered ==
  ASSUME NEW w \in Seq(SUBSET Nat), NEW underway, NEW away, NEW those, NEW held,
         Remembered(underway, w, away, those, held)
  PROVE  Remembered(underway, Append(w, {}), away, those, held)
<1> DEFINE v == Append(w, {})
<1>1. /\ DOMAIN w = 1 .. Len(w) /\ Len(w) \in Nat /\ DOMAIN v = 1 .. Len(w) + 1
      /\ Len(v) = Len(w) + 1 /\ v[Len(w) + 1] = {} /\ \A n \in DOMAIN w : v[n] = w[n]
  OBVIOUS
<1>2. \A k \in DOMAIN w : \A t : Tells(t, k, w) => Tells(t, k, v) BY TellsStays
<1> HIDE DEF v
<1>3. \A k \in DOMAIN v : k \in DOMAIN w \/ k = Len(w) + 1 BY <1>1
<1>4. ASSUME NEW p \in underway
      PROVE  p.k \in DOMAIN v /\ Tells(Seqs!ToSet(p.events), p.k, v)
  <2>1. p.k \in DOMAIN w /\ Tells(Seqs!ToSet(p.events), p.k, w) BY DEF Remembered
  <2> QED BY <1>1, <1>2, <2>1
<1>5. ASSUME NEW k \in DOMAIN v, v[k] # {}
      PROVE  k \in away \/ Tells(those, k, v) \/ \E p \in underway : p.k = k
  <2>1. k \in DOMAIN w /\ w[k] # {} BY <1>1, <1>3, <1>5
  <2> QED BY <1>2, <2>1 DEF Remembered
<1>6. ASSUME NEW k \in DOMAIN v, \A later \in (k + 1) .. Len(v) : v[later] = {},
             Cardinality(v[k]) <= Resend
      PROVE  v[k] \subseteq held
  <2>1. CASE k \in DOMAIN w
    <3>1. \A later \in (k + 1) .. Len(w) : w[later] = {} BY <1>1, <1>6, <2>1
    <3>2. v[k] = w[k] BY <1>1, <2>1
    <3> QED BY <1>6, <2>1, <3>1, <3>2 DEF Remembered
  <2> QED BY <1>1, <1>3, <2>1
<1> QED BY <1>4, <1>5, <1>6 DEF Remembered, v

\* A packet for the events of a call: nothing is forgotten when it tells them, and
\* what was held, if they leave the room, and when a packet it throws out counts as lost.
LEMMA EventsRemembered ==
  ASSUME NEW w \in Seq(SUBSET Nat), NEW underway, NEW away, NEW those, NEW held,
         Remembered(underway, w, away, those, held),
         NEW e \in SUBSET Nat, e # {}, NEW packet, NEW queued, NEW gone, NEW kept,
         packet.k = Len(w) + 1, packet \in queued, queued \subseteq underway \cup {packet},
         away \subseteq gone, \A p \in underway : p \in queued \/ p.k \in gone,
         Cardinality(e) <= BufSize => e \subseteq Seqs!ToSet(packet.events),
         Cardinality(e) + Resend <= BufSize => held \subseteq Seqs!ToSet(packet.events),
         Cardinality(e) <= Resend => e \subseteq kept
  PROVE  Remembered(queued, Append(w, e), gone, those, kept)
<1> DEFINE v == Append(w, e)
           m == Len(w) + 1
           told == Seqs!ToSet(packet.events)
<1>1. /\ DOMAIN w = 1 .. Len(w) /\ Len(w) \in Nat /\ DOMAIN v = 1 .. m
      /\ Len(v) = m /\ v[m] = e /\ \A n \in DOMAIN w : v[n] = w[n]
  OBVIOUS
<1>2. \A k \in DOMAIN w : \A t : Tells(t, k, w) => Tells(t, k, v) BY TellsStays
<1> HIDE DEF v, told
<1>3. \A k \in DOMAIN v : k \in DOMAIN w \/ k = m BY <1>1
<1>4. Tells(told, m, v)
  <2>1. ASSUME Cardinality(e) + Resend <= BufSize, NEW j \in DOMAIN v, Follows(j, m, v),
               Cardinality(v[j]) <= Resend
        PROVE  v[j] \subseteq told
    <3>1. j \in DOMAIN w /\ v[j] = w[j] BY <1>1, <1>3, <2>1 DEF Follows
    <3>2. \A later \in (j + 1) .. Len(w) : w[later] = {}
      <4> TAKE later \in (j + 1) .. Len(w)
      <4>1. later \in DOMAIN w /\ later \in (j + 1) .. (m - 1) BY <1>1, <3>1
      <4> QED BY <1>1, <2>1, <4>1 DEF Follows
    <3>3. w[j] \subseteq held BY <2>1, <3>1, <3>2 DEF Remembered
    <3>4. held \subseteq told BY <2>1 DEF told
    <3> QED BY <3>1, <3>3, <3>4
  <2>2. Cardinality(v[m]) <= BufSize => v[m] \subseteq told BY <1>1 DEF told
  <2> QED BY <1>1, <2>1, <2>2 DEF Tells
<1>5. ASSUME NEW p \in queued
      PROVE  p.k \in DOMAIN v /\ Tells(Seqs!ToSet(p.events), p.k, v)
  <2>1. CASE p \in underway
    <3>1. p.k \in DOMAIN w /\ Tells(Seqs!ToSet(p.events), p.k, w) BY <2>1 DEF Remembered
    <3> QED BY <1>1, <1>2, <3>1
  <2>2. CASE p = packet BY <1>1, <1>4, <2>2 DEF told
  <2> QED BY <2>1, <2>2
<1>6. ASSUME NEW k \in DOMAIN v, v[k] # {}
      PROVE  k \in gone \/ Tells(those, k, v) \/ \E p \in queued : p.k = k
  <2>1. CASE k \in DOMAIN w
    <3>1. w[k] # {} BY <1>1, <1>6, <2>1
    <3>2. k \in away \/ Tells(those, k, w) \/ \E p \in underway : p.k = k
      BY <2>1, <3>1 DEF Remembered
    <3> QED BY <1>2, <2>1, <3>2
  <2>2. CASE k = m BY <2>2
  <2> QED BY <1>3, <2>1, <2>2
<1>7. ASSUME NEW k \in DOMAIN v, \A later \in (k + 1) .. Len(v) : v[later] = {},
             Cardinality(v[k]) <= Resend
      PROVE  v[k] \subseteq kept
  <2>1. k = m
    <3>1. ~(m \in (k + 1) .. Len(v)) BY <1>1, <1>7
    <3> QED BY <1>1, <3>1
  <2> QED BY <1>1, <1>7, <2>1
<1> QED BY <1>5, <1>6, <1>7 DEF Remembered, v

\* A packet that leaves is lost or tells the console.
LEMMA SentRemembered ==
  ASSUME NEW w, NEW underway, NEW away, NEW those, NEW held,
         Remembered(underway, w, away, those, held),
         NEW left, NEW gone, NEW more, left \subseteq underway, away \subseteq gone,
         those \subseteq more,
         \A p \in underway : p \in left \/ p.k \in gone \/ Seqs!ToSet(p.events) \subseteq more
  PROVE  Remembered(left, w, gone, more, held)
<1>1. ASSUME NEW k \in DOMAIN w, w[k] # {}
      PROVE  k \in gone \/ Tells(more, k, w) \/ \E p \in left : p.k = k
  <2>1. k \in away \/ Tells(those, k, w) \/ \E p \in underway : p.k = k BY <1>1 DEF Remembered
  <2>2. ASSUME NEW p \in underway, p.k = k, Seqs!ToSet(p.events) \subseteq more
        PROVE  Tells(more, k, w)
    <3>1. Tells(Seqs!ToSet(p.events), k, w) BY <2>2 DEF Remembered
    <3> HIDE DEF Seqs!ToSet
    <3> QED BY <2>2, <3>1 DEF Tells
  <2>3. Tells(those, k, w) => Tells(more, k, w) BY DEF Tells
  <2> QED BY <2>1, <2>2, <2>3
<1> QED BY <1>1 DEF Remembered

\* A full queue lets its oldest go for the new one.
LEMMA QueuedIs ==
  ASSUME NEW S, NEW q \in Seq(S), NEW x \in S, NEW m \in Nat \ {0}, Len(q) <= m
  PROVE  LET r == IF Len(q) < m THEN Append(q, x) ELSE Append(Tail(q), x)
         IN /\ r \in Seq(S) /\ Len(r) <= m
            /\ x \in Seqs!ToSet(r) /\ Seqs!ToSet(r) \subseteq Seqs!ToSet(q) \cup {x}
            /\ \A p \in Seqs!ToSet(q) : p \in Seqs!ToSet(r) \/ (~(Len(q) < m) /\ p = Head(q))
<1>1. Len(q) \in Nat /\ DOMAIN q = 1 .. Len(q) OBVIOUS
<1>2. CASE Len(q) < m
  <2> DEFINE r == Append(q, x)
  <2>1. /\ r \in Seq(S) /\ Len(r) = Len(q) + 1 /\ DOMAIN r = 1 .. Len(q) + 1
        /\ r[Len(q) + 1] = x /\ \A i \in 1 .. Len(q) : r[i] = q[i]
    OBVIOUS
  <2> HIDE DEF r
  <2>2. Len(r) <= m BY <1>1, <1>2, <2>1
  <2>3. x \in Seqs!ToSet(r) BY <1>1, <2>1 DEF Seqs!ToSet
  <2>4. Seqs!ToSet(r) \subseteq Seqs!ToSet(q) \cup {x} BY <1>1, <2>1 DEF Seqs!ToSet
  <2>5. Seqs!ToSet(q) \subseteq Seqs!ToSet(r)
    <3>1. \A i \in 1 .. Len(q) : i \in 1 .. Len(q) + 1 BY <1>1
    <3> QED BY <1>1, <2>1, <3>1 DEF Seqs!ToSet
  <2> QED BY <1>2, <2>1, <2>2, <2>3, <2>4, <2>5 DEF r
<1>3. CASE ~(Len(q) < m)
  <2> DEFINE t == Tail(q)
             r == Append(t, x)
  <2>1. q # <<>> /\ Len(q) = m
    <3>1. Len(q) = m BY <1>1, <1>3, NoLess
    <3>2. q # <<>> BY <3>1, EmptySeq
    <3> QED BY <3>1, <3>2
  <2>2. /\ t \in Seq(S) /\ Len(t) = Len(q) - 1 /\ Len(t) \in Nat
        /\ \A i \in 1 .. Len(t) : t[i] = q[i + 1]
    BY <2>1
  <2> HIDE DEF t
  <2>3. /\ r \in Seq(S) /\ Len(r) = Len(t) + 1 /\ DOMAIN r = 1 .. Len(t) + 1
        /\ r[Len(t) + 1] = x /\ \A i \in 1 .. Len(t) : r[i] = t[i]
    BY <2>2
  <2> HIDE DEF r
  <2>4. Len(r) <= m BY <1>1, <2>1, <2>2, <2>3
  <2>5. x \in Seqs!ToSet(r) BY <2>2, <2>3 DEF Seqs!ToSet
  <2>6. ASSUME NEW i \in 1 .. Len(t) + 1 PROVE r[i] \in Seqs!ToSet(q) \cup {x}
    <3>1. CASE i = Len(t) + 1 BY <2>3, <3>1
    <3>2. CASE i \in 1 .. Len(t)
      <4>1. r[i] = q[i + 1] /\ i + 1 \in DOMAIN q BY <1>1, <2>2, <2>3, <3>2
      <4> QED BY <4>1 DEF Seqs!ToSet
    <3> QED BY <2>2, <3>1, <3>2
  <2>7. ASSUME NEW i \in DOMAIN q PROVE q[i] \in Seqs!ToSet(r) \/ q[i] = Head(q)
    <3>1. CASE i = 1 BY <2>1, <3>1
    <3>2. CASE i # 1
      <4>1. i - 1 \in 1 .. Len(t) /\ i - 1 + 1 = i BY <1>1, <2>2, <3>2
      <4>2. t[i - 1] = q[i] BY <2>2, <4>1
      <4>3. i - 1 \in DOMAIN r /\ r[i - 1] = q[i] BY <2>2, <2>3, <4>1, <4>2
      <4> QED BY <4>3 DEF Seqs!ToSet
    <3> QED BY <3>1, <3>2
  <2>8. Seqs!ToSet(r) \subseteq Seqs!ToSet(q) \cup {x} BY <2>3, <2>6 DEF Seqs!ToSet
  <2>9. \A p \in Seqs!ToSet(q) : p \in Seqs!ToSet(r) \/ p = Head(q) BY <2>7 DEF Seqs!ToSet
  <2> QED BY <1>3, <2>3, <2>4, <2>5, <2>8, <2>9 DEF r, t
<1> QED BY <1>2, <1>3

\* What is taken from the front and what stays are the whole.
LEMMA TakenApart ==
  ASSUME NEW S, NEW q \in Seq(S), NEW t \in 0 .. Len(q)
  PROVE  LET front == SubSeq(q, 1, t)
             back  == SubSeq(q, t + 1, Len(q))
         IN /\ front \in Seq(S) /\ Len(front) = t
            /\ back \in Seq(S) /\ Len(back) <= Len(q)
            /\ Seqs!ToSet(back) \cup Seqs!ToSet(front) = Seqs!ToSet(q)
<1> DEFINE front == SubSeq(q, 1, t)
           back  == SubSeq(q, t + 1, Len(q))
<1>1. Len(q) \in Nat /\ DOMAIN q = 1 .. Len(q) /\ t \in Nat /\ t <= Len(q) OBVIOUS
<1>2. front \in Seq(S) /\ Len(front) = t /\ DOMAIN front = 1 .. t
      /\ \A i \in 1 .. t : front[i] = q[i]
  BY <1>1
<1>3. /\ back \in Seq(S) /\ Len(back) = Len(q) - t /\ DOMAIN back = 1 .. Len(q) - t
      /\ \A i \in 1 .. Len(q) - t : back[i] = q[t + i]
  <2>1. \A i \in (t + 1) .. Len(q) : q[i] \in S BY <1>1
  <2>2. /\ back \in Seq(S)
        /\ Len(back) = IF t + 1 <= Len(q) THEN Len(q) - (t + 1) + 1 ELSE 0
        /\ \A i \in 1 .. Len(q) - (t + 1) + 1 : back[i] = q[t + 1 + i - 1]
    BY <1>1, <2>1, SubSeqProperties
  <2> HIDE DEF back
  <2>3. Len(back) = Len(q) - t
    <3>1. CASE t + 1 <= Len(q)
      <4>1. Len(back) = Len(q) - (t + 1) + 1 BY <2>2, <3>1
      <4> QED BY <1>1, <4>1
    <3>2. CASE ~(t + 1 <= Len(q))
      <4>1. Len(back) = 0 BY <2>2, <3>2
      <4>2. t = Len(q)
        <5>1. ~(t < Len(q)) BY <1>1, <3>2
        <5> QED BY <1>1, <5>1, NoLess
      <4> QED BY <1>1, <4>1, <4>2
    <3> QED BY <3>1, <3>2
  <2>4. DOMAIN back = 1 .. Len(back) BY <2>2
  <2>5. \A i \in 1 .. Len(q) - t : i \in 1 .. Len(q) - (t + 1) + 1 /\ t + 1 + i - 1 = t + i BY <1>1
  <2> QED BY <2>2, <2>3, <2>4, <2>5
<1> HIDE DEF front, back
<1>4. ASSUME NEW i \in DOMAIN q PROVE q[i] \in Seqs!ToSet(back) \cup Seqs!ToSet(front)
  <2>1. CASE i <= t
    <3>1. i \in DOMAIN front /\ front[i] = q[i] BY <1>1, <1>2, <2>1
    <3> QED BY <3>1 DEF Seqs!ToSet
  <2>2. CASE ~(i <= t)
    <3>1. i - t \in 1 .. Len(q) - t /\ t + (i - t) = i BY <1>1, <2>2
    <3>2. i - t \in DOMAIN back /\ back[i - t] = q[i] BY <1>3, <3>1
    <3> QED BY <3>2 DEF Seqs!ToSet
  <2> QED BY <2>1, <2>2
<1>5. ASSUME NEW i \in DOMAIN front PROVE front[i] \in Seqs!ToSet(q)
  BY <1>1, <1>2 DEF Seqs!ToSet
<1>6. ASSUME NEW i \in DOMAIN back PROVE back[i] \in Seqs!ToSet(q)
  <2>1. back[i] = q[t + i] /\ t + i \in DOMAIN q BY <1>1, <1>3
  <2> QED BY <2>1 DEF Seqs!ToSet
<1>7. Seqs!ToSet(q) \subseteq Seqs!ToSet(back) \cup Seqs!ToSet(front) BY <1>4 DEF Seqs!ToSet
<1>8. Seqs!ToSet(front) \subseteq Seqs!ToSet(q) /\ Seqs!ToSet(back) \subseteq Seqs!ToSet(q)
  BY <1>5, <1>6 DEF Seqs!ToSet
<1>9. Seqs!ToSet(back) \cup Seqs!ToSet(front) = Seqs!ToSet(q) BY <1>7, <1>8
<1>10. Len(back) <= Len(q) BY <1>1, <1>3
<1> QED BY <1>2, <1>3, <1>9, <1>10 DEF front, back

\* The records of a state of the invariant, field by field.
LEMMA InnerFields ==
  ASSUME NEW r \in Inners
  PROVE  /\ r.state \in ControllerState /\ r.prev \in Sticks /\ r.changed \in BOOLEAN
         /\ r.stop \in BOOLEAN /\ r.buf \in Seq(Nat) /\ r.packets \in Seq(Packet)
BY DEF Inners

\* The events so far stay finite.
LEMMA MadeGrows ==
  ASSUME NEW w \in Seq(SUBSET Nat), IsFiniteSet(UNION Seqs!ToSet(w)),
         NEW e \in SUBSET Nat, IsFiniteSet(e)
  PROVE  Append(w, e) \in Seq(SUBSET Nat) /\ IsFiniteSet(UNION Seqs!ToSet(Append(w, e)))
<1> DEFINE v == Append(w, e)
<1>1. /\ DOMAIN w = 1 .. Len(w) /\ Len(w) \in Nat /\ DOMAIN v = 1 .. Len(w) + 1
      /\ v \in Seq(SUBSET Nat) /\ v[Len(w) + 1] = e /\ \A n \in DOMAIN w : v[n] = w[n]
  OBVIOUS
<1> HIDE DEF v
<1>2. Seqs!ToSet(v) \subseteq Seqs!ToSet(w) \cup {e}
  <2>1. \A n \in DOMAIN v : n \in DOMAIN w \/ n = Len(w) + 1 BY <1>1
  <2> QED BY <1>1, <2>1 DEF Seqs!ToSet
<1>3. UNION Seqs!ToSet(v) \subseteq (UNION Seqs!ToSet(w)) \cup e BY <1>2
<1>4. IsFiniteSet((UNION Seqs!ToSet(w)) \cup e) BY FS_Union
<1> QED BY <1>1, <1>3, <1>4, FS_Subset DEF v

\* The numbers of the events of a call.
LEMMA CallsEvents ==
  ASSUME FeedbackInv, NEW state \in ControllerState
  PROVE  \E n \in Nat : NextNumbers(NewEvents(state), n)
<1> DEFINE changes == (inner.state.keys \ state.keys) \cup (state.keys \ inner.state.keys)
<1>1. inner.state.keys \subseteq Keys /\ state.keys \subseteq Keys
  BY InnerFields DEF FeedbackInv, FeedbackTypes, ControllerState
<1>2. changes \subseteq Keys BY <1>1
<1> HIDE DEF changes
<1>3. Cardinality(changes) \in Nat BY <1>2, FS_Subset, FS_CardinalityType, FeedbackAssumption
<1>4. NextNumbers(NewEvents(state), Cardinality(changes))
  BY DEF NewEvents, NextNumbers, changes
<1> QED BY <1>3, <1>4

\* A state that is set while the thread is anywhere: what it is to look at has changed.
LEMMA SticksSet ==
  ASSUME SticksKnown, inner'.changed, inner'.prev = inner.prev, UNCHANGED <<thread, sent>>
  PROVE  SticksKnown'
BY DEF SticksKnown

LEMMA SetStateKeeps ==
  ASSUME FeedbackInv, NEW state \in ControllerState, SetControllerState(state)
  PROVE  FeedbackInv'
<1>0. PICK e : e = NewEvents(state) OBVIOUS
<1> DEFINE c == Cardinality(Made)
           s == Pushed(e)
           f == Kept(s)
           packet == [k |-> Len(news) + 1, events |-> s]
           queued == Queued(packet)
           changed == [inner EXCEPT !.state = state, !.changed = TRUE]
           held == Seqs!ToSet(inner.buf)
<1>1. /\ inner \in Inners /\ thread \in Threads
      /\ console \in [sticks : Sticks, events : SUBSET Nat] /\ news \in Seq(SUBSET Nat)
      /\ IsFiniteSet(UNION Seqs!ToSet(news)) /\ sent \in Sticks /\ Len(inner.buf) <= Resend
      /\ Len(inner.packets) <= QueueSize /\ Len(thread.packet) <= 1
      /\ thread.place \in {"top", "relock", "over"} => thread.packet = <<>>
      /\ SticksKnown
  BY DEF FeedbackInv, FeedbackTypes, Made
<1>2. Remembered(Pending, news, dropped, console.events, held) BY DEF FeedbackInv, HistoryKept
<1>3. PICK n \in Nat : NextNumbers(e, n) BY <1>0, CallsEvents
<1>4. c \in Nat BY FS_CardinalityType DEF FeedbackInv, FeedbackTypes
<1>5. /\ changed \in Inners /\ changed.state = state /\ changed.changed /\ changed.prev = inner.prev
      /\ changed.buf = inner.buf /\ changed.packets = inner.packets
  <2>1. inner \in Inners BY <1>1
  <2> QED BY <2>1 DEF Inners
<1>6. UNCHANGED <<thread, console, sent, losses>> BY DEF SetControllerState
<1>7. \/ e = {} /\ inner' = changed /\ news' = Append(news, {}) /\ UNCHANGED dropped
      \/ /\ e # {} /\ inner' = [changed EXCEPT !.packets = queued, !.buf = f]
         /\ dropped' = dropped \cup Overflowing /\ news' = Append(news, e)
  BY <1>0 DEF SetControllerState
<1> HIDE DEF changed
<1>8. CASE e = {}
  <2>1. inner' = changed /\ news' = Append(news, {}) /\ UNCHANGED dropped BY <1>7, <1>8
  <2>2. SticksKnown' BY <1>1, <1>5, <1>6, <2>1, SticksSet
  <2>3. FeedbackTypes'
    <3>1. news' \in Seq(SUBSET Nat) /\ IsFiniteSet(UNION Seqs!ToSet(news'))
      BY <1>1, <2>1, MadeGrows, FS_EmptySet
    <3> QED BY <1>1, <1>5, <1>6, <2>1, <3>1 DEF FeedbackTypes, Made
  <2>4. HistoryKept'
    <3>1. Pending' = Pending BY <1>5, <1>6, <2>1 DEF Pending
    <3>2. inner'.buf = inner.buf BY <1>5, <2>1
    <3>3. Remembered(Pending, news', dropped, console.events, held)
      BY <1>1, <1>2, <2>1, NoEventRemembered
    <3> QED BY <1>6, <2>1, <3>1, <3>2, <3>3 DEF HistoryKept, held
  <2> QED BY <2>2, <2>3, <2>4 DEF FeedbackInv
<1>9. CASE e # {}
  <2>1. /\ inner' = [changed EXCEPT !.packets = queued, !.buf = f]
        /\ dropped' = dropped \cup Overflowing /\ news' = Append(news, e)
    BY <1>7, <1>9
  <2>2. n \in Nat \ {0}
    <3>1. n # 0
      <4>1. SUFFICES ASSUME n = 0 PROVE FALSE OBVIOUS
      <4>2. e = (c + 1) .. (c + 0) BY <1>3, <4>1 DEF NextNumbers
      <4> HIDE DEF c
      <4>3. e = {} BY <1>4, <4>2
      <4> QED BY <1>9, <4>3
    <3> QED BY <3>1
  <2>3. /\ Cardinality(e) = n /\ e \subseteq Nat /\ IsFiniteSet(e)
        /\ s \in Seq(Nat)
        /\ n <= BufSize => e \subseteq Seqs!ToSet(s)
        /\ n + Resend <= BufSize => held \subseteq Seqs!ToSet(s)
        /\ f \in Seq(Nat) /\ Len(f) <= Resend
        /\ n <= Resend => e \subseteq Seqs!ToSet(f)
    <3> HIDE DEF s, f, held
    <3>1. /\ Cardinality(e) = n /\ e \subseteq Nat /\ IsFiniteSet(e) /\ e # {}
          /\ Pushed(e) \in Seq(Nat)
          /\ n <= BufSize => e \subseteq Seqs!ToSet(Pushed(e))
          /\ n + Resend <= BufSize => Seqs!ToSet(inner.buf) \subseteq Seqs!ToSet(Pushed(e))
          /\ Kept(Pushed(e)) \in Seq(Nat) /\ Len(Kept(Pushed(e))) <= Resend
          /\ n <= Resend => e \subseteq Seqs!ToSet(Kept(Pushed(e)))
      BY <1>3, <2>2, PushedIs
    <3> QED BY <3>1 DEF s, f, held
  <2> HIDE DEF c, s, f
  <2>4. packet \in Packet /\ packet.k = Len(news) + 1 /\ packet.events = s
    BY <1>1, <2>3 DEF Packet
  <2> HIDE DEF packet
  <2>5. /\ queued \in Seq(Packet) /\ Len(queued) <= QueueSize
        /\ packet \in Seqs!ToSet(queued)
        /\ Seqs!ToSet(queued) \subseteq Seqs!ToSet(inner.packets) \cup {packet}
        /\ \A p \in Seqs!ToSet(inner.packets) :
             p \in Seqs!ToSet(queued) \/ p.k \in Overflowing
    <3> DEFINE q == inner.packets
    <3>1. q \in Seq(Packet) /\ Len(q) <= QueueSize BY <1>1, InnerFields
    <3>2. QueueSize \in Nat \ {0} BY FeedbackAssumption
    <3>3. queued = IF Len(q) < QueueSize THEN Append(q, packet) ELSE Append(Tail(q), packet)
      BY DEF Queued
    <3>4. ~(Len(q) < QueueSize) => Head(q).k \in Overflowing BY DEF Overflowing
    <3> HIDE DEF q, queued
    <3>5. /\ queued \in Seq(Packet) /\ Len(queued) <= QueueSize
          /\ packet \in Seqs!ToSet(queued)
          /\ Seqs!ToSet(queued) \subseteq Seqs!ToSet(q) \cup {packet}
          /\ \A p \in Seqs!ToSet(q) :
               p \in Seqs!ToSet(queued) \/ (~(Len(q) < QueueSize) /\ p = Head(q))
      BY <2>4, <3>1, <3>2, <3>3, QueuedIs
    <3> QED BY <3>4, <3>5 DEF q
  <2> HIDE DEF queued
  <2>6. /\ inner' \in Inners /\ inner'.changed /\ inner'.prev = inner.prev
        /\ inner'.buf = f /\ inner'.packets = queued
    <3>1. changed.changed /\ changed.prev = inner.prev BY <1>5
    <3>2. /\ inner' \in Inners /\ inner'.changed = changed.changed /\ inner'.prev = changed.prev
          /\ inner'.buf = f /\ inner'.packets = queued
      <4>1. changed \in Inners /\ queued \in Seq(Packet) /\ f \in Seq(Nat) BY <1>5, <2>3, <2>5
      <4>2. inner' = [changed EXCEPT !.packets = queued, !.buf = f] BY <2>1 DEF f, queued
      <4> QED BY <4>1, <4>2 DEF Inners
    <3> QED BY <3>1, <3>2
  <2>7. SticksKnown' BY <1>1, <1>6, <2>6, SticksSet
  <2>8. FeedbackTypes'
    <3>1. news' \in Seq(SUBSET Nat) /\ IsFiniteSet(UNION Seqs!ToSet(news'))
      BY <1>1, <2>1, <2>3, MadeGrows
    <3>2. Len(inner'.buf) <= Resend /\ Len(inner'.packets) <= QueueSize BY <2>3, <2>5, <2>6
    <3> QED BY <1>1, <1>6, <2>6, <3>1, <3>2 DEF FeedbackTypes, Made
  <2>9. HistoryKept'
    <3> DEFINE after == Seqs!ToSet(queued) \cup Seqs!ToSet(thread.packet)
               gone  == dropped \cup Overflowing
    <3>1. Pending' = after BY <1>6, <2>6 DEF Pending
    <3>2. /\ packet \in after /\ after \subseteq Pending \cup {packet} /\ dropped \subseteq gone
          /\ \A p \in Pending : p \in after \/ p.k \in gone
      BY <2>5 DEF Pending
    <3>3. /\ Cardinality(e) <= BufSize => e \subseteq Seqs!ToSet(packet.events)
          /\ Cardinality(e) + Resend <= BufSize => held \subseteq Seqs!ToSet(packet.events)
          /\ Cardinality(e) <= Resend => e \subseteq Seqs!ToSet(f)
      BY <2>3, <2>4
    <3>4. e \in SUBSET Nat /\ e # {} /\ packet.k = Len(news) + 1 BY <1>9, <2>3, <2>4
    <3> HIDE DEF after, gone, held
    <3>5. Remembered(after, Append(news, e), gone, console.events, Seqs!ToSet(f))
      BY <1>1, <1>2, <3>2, <3>3, <3>4, EventsRemembered
    <3> QED BY <1>6, <2>1, <2>6, <3>1, <3>5 DEF HistoryKept, gone
  <2> QED BY <2>7, <2>8, <2>9 DEF FeedbackInv
<1> QED BY <1>8, <1>9

\* What the steps share that make no events: types and history of what they leave.
LEMMA QuietTypes ==
  ASSUME FeedbackTypes, UNCHANGED news, inner' \in Inners, thread' \in Threads,
         console' \in [sticks : Sticks, events : SUBSET Nat], sent' \in Sticks,
         inner'.buf = inner.buf, Len(inner'.packets) <= QueueSize, Len(thread'.packet) <= 1,
         thread'.place \in {"top", "relock", "over"} => thread'.packet = <<>>
  PROVE  FeedbackTypes'
BY DEF FeedbackTypes, Made

LEMMA QuietHistory ==
  ASSUME HistoryKept, UNCHANGED <<news, dropped>>, console'.events = console.events,
         inner'.buf = inner.buf, Pending' = Pending
  PROVE  HistoryKept'
BY DEF HistoryKept

LEMMA ThreadFields ==
  ASSUME NEW t \in Threads
  PROVE  /\ t.place \in {"top", "state", "history", "relock", "over"}
         /\ t.now \in Sticks /\ t.send \in BOOLEAN /\ t.packet \in Seq(Packet)
BY DEF Threads

LEMMA FeedbackIs ==
  ASSUME FeedbackInv
  PROVE  /\ inner \in Inners /\ thread \in Threads /\ sent \in Sticks
         /\ console \in [sticks : Sticks, events : SUBSET Nat]
         /\ Len(inner.packets) <= QueueSize /\ Len(thread.packet) <= 1
         /\ thread.place \in {"top", "relock", "over"} => thread.packet = <<>>
         /\ FeedbackTypes /\ SticksKnown /\ HistoryKept
BY DEF FeedbackInv, FeedbackTypes

LEMMA DropKeeps == FeedbackInv /\ Drop => FeedbackInv'
<1> SUFFICES ASSUME FeedbackInv, Drop PROVE FeedbackInv' OBVIOUS
<1>1. UNCHANGED <<thread, console, sent, news, dropped>> BY DEF Drop
<1>2. /\ inner' \in Inners /\ inner'.state = inner.state /\ inner'.prev = inner.prev
      /\ inner'.changed = inner.changed /\ inner'.buf = inner.buf
      /\ inner'.packets = inner.packets
  BY FeedbackIs DEF Drop, Inners
<1>3. FeedbackTypes' BY <1>1, <1>2, FeedbackIs, QuietTypes
<1>4. SticksKnown' BY <1>1, <1>2, FeedbackIs DEF SticksKnown
<1>5. Pending' = Pending BY <1>1, <1>2 DEF Pending
<1>6. HistoryKept' BY <1>1, <1>2, <1>5, FeedbackIs, QuietHistory
<1> QED BY <1>3, <1>4, <1>6 DEF FeedbackInv

LEMMA ThreadStopKeeps == FeedbackInv /\ Stop => FeedbackInv'
<1> SUFFICES ASSUME FeedbackInv, Stop PROVE FeedbackInv' OBVIOUS
<1>1. thread.place = "top" /\ UNCHANGED <<inner, console, sent, news, dropped>> BY DEF Stop
<1>2. /\ thread' \in Threads /\ thread'.place = "over" /\ thread'.send = thread.send
      /\ thread'.packet = thread.packet
  BY FeedbackIs DEF Stop, Threads
<1>3. FeedbackTypes' BY <1>1, <1>2, FeedbackIs, QuietTypes
<1>4. SticksKnown' BY <1>1, <1>2, FeedbackIs DEF SticksKnown
<1>5. Pending' = Pending BY <1>1, <1>2 DEF Pending
<1>6. HistoryKept' BY <1>1, <1>5, FeedbackIs, QuietHistory
<1> QED BY <1>3, <1>4, <1>6 DEF FeedbackInv

LEMMA RelockKeeps == FeedbackInv /\ Relock => FeedbackInv'
<1> SUFFICES ASSUME FeedbackInv, Relock PROVE FeedbackInv' OBVIOUS
<1>1. thread.place = "relock" /\ UNCHANGED <<console, sent, news, dropped>> BY DEF Relock
<1>2. /\ thread' \in Threads /\ thread'.place = "top" /\ thread'.packet = thread.packet
  BY FeedbackIs DEF Relock, Threads
<1>3. thread.now \in Sticks BY FeedbackIs, ThreadFields
<1>4. /\ inner' \in Inners /\ inner'.state = inner.state
      /\ inner'.prev = (IF thread.send THEN thread.now ELSE inner.prev)
      /\ inner'.changed = inner.changed /\ inner'.buf = inner.buf
      /\ inner'.packets = inner.packets
  BY <1>3, FeedbackIs DEF Relock, SentThen, Inners
<1>5. FeedbackTypes' BY <1>1, <1>2, <1>4, FeedbackIs, QuietTypes
<1>6. SticksKnown'
  <2>1. /\ ~thread.send => inner.prev = sent
        /\ sent = thread.now
        /\ ~inner.changed => thread.now = inner.state.sticks
    BY <1>1, FeedbackIs DEF SticksKnown
  <2>2. sent' = sent BY <1>1
  <2>3. inner'.prev = sent' BY <1>4, <2>1, <2>2
  <2>4. ~inner'.changed => sent' = inner'.state.sticks BY <1>4, <2>1, <2>2
  <2> QED BY <1>2, <2>3, <2>4 DEF SticksKnown
<1>7. Pending' = Pending BY <1>2, <1>4 DEF Pending
<1>8. HistoryKept' BY <1>1, <1>4, <1>7, FeedbackIs, QuietHistory
<1> QED BY <1>5, <1>6, <1>8 DEF FeedbackInv

LEMMA DecideKeeps == FeedbackInv /\ Decide => FeedbackInv'
<1> SUFFICES ASSUME FeedbackInv, Decide PROVE FeedbackInv' OBVIOUS
<1> DEFINE q     == inner.packets
           take  == IF q = <<>> THEN 0 ELSE 1
           front == SubSeq(q, 1, take)
           back  == SubSeq(q, take + 1, Len(q))
<1>1. thread.place = "top" /\ UNCHANGED <<console, sent, news, dropped>> BY DEF Decide
<1>2. PICK due \in BOOLEAN :
        /\ thread' = [place |-> "state", now |-> inner.state.sticks, send |-> StateDue(due),
                      packet |-> front]
        /\ inner' = [inner EXCEPT !.changed = FALSE, !.packets = back]
  BY DEF Decide
<1>3. q \in Seq(Packet) /\ take \in 0 .. Len(q) /\ take <= 1
  <2>1. q \in Seq(Packet) BY FeedbackIs, InnerFields
  <2>2. q # <<>> => Len(q) \in Nat \ {0} BY <2>1, EmptySeq
  <2>3. Len(q) \in Nat BY <2>1
  <2> QED BY <2>1, <2>2, <2>3
<1> HIDE DEF take
<1>4. /\ front \in Seq(Packet) /\ Len(front) = take
      /\ back \in Seq(Packet) /\ Len(back) <= Len(q)
      /\ Seqs!ToSet(back) \cup Seqs!ToSet(front) = Seqs!ToSet(q)
  <2> HIDE DEF q
  <2> QED BY <1>3, TakenApart
<1> HIDE DEF front, back
<1>5. /\ inner' \in Inners /\ inner'.state = inner.state /\ ~inner'.changed
      /\ inner'.prev = inner.prev /\ inner'.buf = inner.buf /\ inner'.packets = back
  <2>1. inner \in Inners BY FeedbackIs
  <2>2. inner' = [inner EXCEPT !.changed = FALSE, !.packets = back] BY <1>2
  <2> HIDE DEF q
  <2> QED BY <1>4, <2>1, <2>2 DEF Inners
<1>6. /\ thread'.place = "state" /\ thread'.now = inner.state.sticks
      /\ thread'.send = StateDue(due) /\ thread'.packet = front
  BY <1>2
<1>7. inner.state.sticks \in Sticks BY FeedbackIs, InnerFields DEF ControllerState
<1>8. thread' \in Threads
  <2>1. StateDue(due) \in BOOLEAN BY FeedbackIs, InnerFields DEF StateDue
  <2> QED BY <1>2, <1>4, <1>7, <2>1 DEF Threads
<1>9. FeedbackTypes'
  <2>1. Len(back) <= QueueSize
    <3>1. Len(q) <= QueueSize BY FeedbackIs
    <3>2. Len(back) \in Nat /\ Len(q) \in Nat /\ QueueSize \in Nat BY <1>3, <1>4, FeedbackAssumption
    <3> HIDE DEF q
    <3> QED BY <1>4, <3>1, <3>2
  <2>2. Len(front) <= 1 BY <1>3, <1>4
  <2> QED BY <1>1, <1>5, <1>6, <1>8, <2>1, <2>2, FeedbackIs, QuietTypes
<1>10. SticksKnown'
  <2>1. inner.prev = sent /\ (~inner.changed => sent = inner.state.sticks)
    BY <1>1, FeedbackIs DEF SticksKnown
  <2>2. ~thread'.send => sent = thread'.now BY <1>6, <2>1 DEF StateDue
  <2>3. sent' = sent BY <1>1
  <2> QED BY <1>5, <1>6, <2>1, <2>2, <2>3 DEF SticksKnown
<1>11. Pending' = Pending
  <2>1. thread.packet = <<>> BY <1>1, FeedbackIs
  <2>2. Seqs!ToSet(thread.packet) = {} BY <2>1 DEF Seqs!ToSet
  <2> QED BY <1>4, <1>5, <1>6, <2>2 DEF Pending
<1>12. HistoryKept' BY <1>1, <1>5, <1>11, FeedbackIs, QuietHistory
<1> QED BY <1>9, <1>10, <1>12 DEF FeedbackInv

LEMMA SendStateKeeps == FeedbackInv /\ SendState => FeedbackInv'
<1> SUFFICES ASSUME FeedbackInv, SendState PROVE FeedbackInv' OBVIOUS
<1>1. thread.place = "state" /\ UNCHANGED <<inner, news, dropped>> BY DEF SendState
<1>2. /\ thread' \in Threads /\ thread'.place = "history" /\ thread'.now = thread.now
      /\ thread'.send = thread.send /\ thread'.packet = thread.packet
  BY FeedbackIs DEF SendState, Threads
<1>3. thread.now \in Sticks /\ thread.send \in BOOLEAN BY FeedbackIs, ThreadFields
<1>4. sent' = (IF thread.send THEN thread.now ELSE sent) BY <1>3 DEF SendState
<1>5. console' = console \/ console' = [console EXCEPT !.sticks = thread.now] BY DEF SendState
<1>6. /\ console' \in [sticks : Sticks, events : SUBSET Nat] /\ console'.events = console.events
  BY <1>3, <1>5, FeedbackIs
<1>7. FeedbackTypes' BY <1>1, <1>2, <1>3, <1>4, <1>6, FeedbackIs, QuietTypes
<1>8. SticksKnown'
  <2>1. /\ inner.prev = sent /\ (~thread.send => sent = thread.now)
        /\ ~inner.changed => thread.now = inner.state.sticks
    BY <1>1, FeedbackIs DEF SticksKnown
  <2>2. sent' = thread.now BY <1>4, <2>1
  <2>3. ~thread.send => inner.prev = sent' BY <1>4, <2>1
  <2> QED BY <1>1, <1>2, <2>1, <2>2, <2>3 DEF SticksKnown
<1>9. Pending' = Pending BY <1>1, <1>2 DEF Pending
<1>10. HistoryKept' BY <1>1, <1>6, <1>9, FeedbackIs, QuietHistory
<1> QED BY <1>7, <1>8, <1>10 DEF FeedbackInv

LEMMA SendHistoryKeeps == FeedbackInv /\ SendHistory => FeedbackInv'
<1> SUFFICES ASSUME FeedbackInv, SendHistory PROVE FeedbackInv' OBVIOUS
<1> DEFINE left == Seqs!ToSet(inner.packets)
           held == Seqs!ToSet(inner.buf)
<1>1. thread.place = "history" /\ UNCHANGED <<inner, sent, news>> BY DEF SendHistory
<1>2. /\ thread' \in Threads /\ thread'.place = "relock" /\ thread'.now = thread.now
      /\ thread'.send = thread.send /\ thread'.packet = <<>>
  <2>1. thread' = [thread EXCEPT !.place = "relock", !.packet = <<>>] BY DEF SendHistory
  <2>2. <<>> \in Seq(Packet) BY EmptySeq
  <2> QED BY <2>1, <2>2, FeedbackIs DEF Threads
<1>3. SticksKnown' BY <1>1, <1>2, FeedbackIs DEF SticksKnown
<1>4. Pending' = left BY <1>1, <1>2 DEF Pending, Seqs!ToSet
<1>5. left \subseteq Pending BY DEF Pending
<1>6. /\ thread.packet \in Seq(Packet) /\ Len(thread.packet) <= 1
      /\ console \in [sticks : Sticks, events : SUBSET Nat]
      /\ Remembered(Pending, news, dropped, console.events, held)
  BY FeedbackIs, ThreadFields DEF HistoryKept
<1>7. ASSUME NEW gone, NEW more, dropped' = gone, console'.events = more,
             dropped \subseteq gone, console.events \subseteq more,
             \A p \in Seqs!ToSet(thread.packet) :
                p.k \in gone \/ Seqs!ToSet(p.events) \subseteq more
      PROVE  HistoryKept'
  <2>1. \A p \in Pending : p \in left \/ p.k \in gone \/ Seqs!ToSet(p.events) \subseteq more
    BY <1>7 DEF Pending
  <2> HIDE DEF left, held
  <2>2. Remembered(left, news, gone, more, held)
    BY <1>5, <1>6, <1>7, <2>1, SentRemembered
  <2> QED BY <1>1, <1>4, <1>7, <2>2 DEF HistoryKept, held
<1>8. ASSUME console' \in [sticks : Sticks, events : SUBSET Nat] PROVE FeedbackTypes'
  <2>1. Len(thread'.packet) <= 1 BY <1>2, EmptySeq
  <2>2. inner' = inner /\ sent' = sent BY <1>1
  <2> QED BY <1>1, <1>2, <1>8, <2>1, <2>2, FeedbackIs, QuietTypes
<1>9. CASE thread.packet = <<>>
  <2>1. UNCHANGED <<console, dropped>> BY <1>9 DEF SendHistory
  <2>2. Seqs!ToSet(thread.packet) = {} BY <1>9 DEF Seqs!ToSet
  <2>3. HistoryKept' BY <1>7, <2>1, <2>2
  <2>4. FeedbackTypes' BY <1>6, <1>8, <2>1
  <2> QED BY <1>3, <2>3, <2>4 DEF FeedbackInv
<1>10. CASE thread.packet # <<>>
  <2> DEFINE p == thread.packet[1]
             told == Seqs!ToSet(p.events)
  <2>1. p \in Packet /\ Seqs!ToSet(thread.packet) = {p}
    <3>1. Len(thread.packet) \in Nat \ {0} BY <1>6, <1>10, EmptySeq
    <3>2. Len(thread.packet) = 1
      <4>1. ~(Len(thread.packet) < 1) BY <3>1
      <4> QED BY <1>6, <3>1, <4>1, NoLess
    <3>3. DOMAIN thread.packet = {1} BY <1>6, <3>2
    <3> QED BY <1>6, <3>3 DEF Seqs!ToSet
  <2>2. told \subseteq Nat BY <2>1 DEF Packet, Seqs!ToSet
  <2>3. CASE console' = [console EXCEPT !.events = @ \cup told] /\ dropped' = dropped
    <3> HIDE DEF told
    <3>1. /\ console' \in [sticks : Sticks, events : SUBSET Nat]
          /\ console'.events = console.events \cup told
      BY <1>6, <2>2, <2>3
    <3> HIDE DEF p
    <3>2. \A x \in Seqs!ToSet(thread.packet) :
              Seqs!ToSet(x.events) \subseteq console.events \cup told
      BY <2>1 DEF told
    <3>3. HistoryKept' BY <1>7, <2>3, <3>1, <3>2
    <3> QED BY <1>3, <1>8, <3>1, <3>3 DEF FeedbackInv
  <2>4. CASE console' = console /\ dropped' = dropped \cup {p.k}
    <3> HIDE DEF p
    <3>1. \A x \in Seqs!ToSet(thread.packet) : x.k \in dropped \cup {p.k} BY <2>1
    <3>2. HistoryKept' BY <1>7, <2>4, <3>1
    <3>3. FeedbackTypes' BY <1>6, <1>8, <2>4
    <3> QED BY <1>3, <3>2, <3>3 DEF FeedbackInv
  <2> QED BY <1>10, <2>3, <2>4 DEF SendHistory
<1> QED BY <1>9, <1>10

LEMMA FeedbackNext == FeedbackInv /\ [Next]_vars => FeedbackInv'
<1> SUFFICES ASSUME FeedbackInv, [Next]_vars PROVE FeedbackInv' OBVIOUS
<1>1. CASE UNCHANGED vars
  <2>1. Pending' = Pending /\ Made' = Made BY <1>1 DEF vars, Pending, Made
  <2> QED BY <1>1, <2>1 DEF vars, FeedbackInv, FeedbackTypes, SticksKnown, HistoryKept
<1> QED
  BY <1>1, SetStateKeeps, DropKeeps, ThreadStopKeeps, RelockKeeps, DecideKeeps, SendStateKeeps,
     SendHistoryKeeps DEF Next, Thread

-----------------------------------------------------------------------------
(* The client                                                              *)

\* Every part begins in one of its initial states, and makes its own steps or none.
LEMMA PartsBegin ==
  InitClient => Init /\ Sessions!Init /\ Sound!Init /\ Mic!Init /\ Picture!Init
BY DEF InitClient

LEMMA PartsMove ==
  [NextClient]_allVars =>
    /\ [Next]_vars /\ [Sessions!Next]_sessionVars /\ [Picture!Next]_pictureVars
    /\ [Sound!Next]_soundVars /\ [Mic!Next]_micVars
BY DEF NextClient, allVars, FeedbackStep, SessionsStep, SoundStep, MicStep, FinderStep, PictureStep

ClientInv == FeedbackInv /\ SessionInv /\ PictureInv /\ SoundInv /\ MicInv

LEMMA AlwaysClientInv == SpecClient => []ClientInv
<1>1. InitClient => ClientInv
  BY PartsBegin, FeedbackInit, SessionsInit, PicturesInit, SoundInit, MicInit DEF ClientInv
<1>2. ClientInv /\ [NextClient]_allVars => ClientInv'
  BY PartsMove, FeedbackNext, SessionsNext, PicturesNext, SoundNext, MicNext DEF ClientInv
<1> QED BY <1>1, <1>2, PTL DEF SpecClient

\* A session that set stop_done has ended: its core does not run again, and no Quit of
\* it reaches the user interface any more, whatever threads of this or another session
\* do.
THEOREM DoneSessionsAreQuiet == SpecClient => NothingAfterDone
<1>1. ClientInv /\ [NextClient]_allVars =>
        [\A i \in Sessions!Ids : shared[i].done =>
           /\ shared'[i].core = "over"
           /\ \A by \in {"core", "manager"} :
                 Sessions!Told(i, by)' => Sessions!Told(i, by)]_(Sessions!vars)
  BY PartsMove, SessionsNext DEF ClientInv, QuietAfterDone
<1> QED BY <1>1, AlwaysClientInv, PTL DEF SpecClient, NothingAfterDone, Sessions!NothingAfterDone

\* What is on the screen is never replaced by an older picture, on any of the ways from
\* the decoder to the display and when the device is lost between them.
THEOREM ScreenNeverGoesBack == SpecClient => NeverBack
<1>1. ClientInv /\ [NextClient]_allVars => [screen' >= screen]_(Picture!pictureVars)
  BY PartsMove, PicturesNext DEF ClientInv
<1> QED BY <1>1, AlwaysClientInv, PTL DEF SpecClient, NeverBack, Picture!NeverBack

\* What is heard is what was pushed, what is sent is what was captured: in order, nothing
\* twice, and nothing missing but what full rings and muting threw away or the encoder
\* refused, for every size of the rings, of the frames and of what the callbacks bring and
\* ask for.
THEOREM SoundKeepsItsOrder == SpecClient => []SoundInOrder
<1>1. ClientInv => SoundInOrder BY SoundIsHeard, MicIsSent DEF ClientInv, SoundInOrder
<1> QED BY <1>1, AlwaysClientInv, PTL

\* A state of the controller that counts as sent was sent, and a history packet that is
\* lost or thrown out costs no event that the next one has the room to repeat, for every
\* size of the history and of the queue and whatever the network loses.
THEOREM InputIsKept == SpecClient => []InputArrives
<1>1. ClientInv => InputArrives
  BY FeedbackSettles, FeedbackRemembers DEF ClientInv, InputArrives
<1> QED BY <1>1, AlwaysClientInv, PTL
=============================================================================
