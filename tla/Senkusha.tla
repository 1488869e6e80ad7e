------------------------------ MODULE Senkusha ------------------------------
(***************************************************************************)
(* The connection test before the stream (crates/chiaki-core/src/          *)
(* senkusha.rs): run() on the session thread asks the console one thing    *)
(* after another over a Takion of its own, and the callback of that        *)
(* Takion's thread marks the wait finished when the answer fits.  Pings    *)
(* and MTU packets are lost, late or repeated; both MTUs are searched by   *)
(* halving, with Retries attempts for a size.                              *)
(*                                                                         *)
(* Requests are numbered; the number stands for the sequence number, the   *)
(* random tag or the id that the answer repeats.  Senkusha::stop has no    *)
(* caller and is left out.                                                 *)
(***************************************************************************)
EXTENDS Naturals

CONSTANTS MtuMin, MtuMax,  \* 576 and 1454
          Retries,         \* attempts for one size, 3
          Pings,           \* SENKUSHA_PING_COUNT_DEFAULT
          MaxTroubles      \* bound: answers lost, late or repeated

\* What each phase waits for: the SenkushaState it sets.
Awaited == [connect |-> "connected", version |-> "protocol_ack", big |-> "bang",
            echo_on |-> "data_ack", ping |-> "pong", echo_off |-> "data_ack",
            mtu_in |-> "mtu", client_mtu |-> "client_mtu", mtu_out |-> "pong",
            last |-> "data_ack"]
Measuring == {"ping", "mtu_in", "mtu_out"}

VARIABLES test,      \* run(): its phase and step, the search, the outcome
          shared,    \* SenkushaSharedState
          replies,   \* answers under way
          path,      \* the largest packet that passes, in and out
          troubles   \* how many answers were lost, late or repeated
senkushaVars == <<test, shared, replies, path, troubles>>

Sizes == MtuMin .. MtuMax

TypeOK ==
  /\ test \in [phase : DOMAIN Awaited \cup {"bye", "done"},
               step : {"ask", "send", "expect", "await"}, asked : Nat,
               min : Sizes, max : Sizes, cur : Sizes, attempt : 0 .. Retries,
               pings : 0 .. Pings, pongs : 0 .. Pings,
               in : Sizes, result : {"none", "ok", "failed"}]
  /\ shared \in [state : {"idle", "connected", "protocol_ack", "bang", "data_ack", "pong",
                          "mtu", "client_mtu"},
                 finished : BOOLEAN, acked : Nat, tag : Nat, mtu_id : Nat]
  /\ replies \subseteq [kind : {Awaited[p] : p \in DOMAIN Awaited}, n : Nat]
  /\ path \in [in : Sizes, out : Sizes] /\ troubles \in 0 .. MaxTroubles

Init ==
  /\ test = [phase |-> "connect", step |-> "ask", asked |-> 0, min |-> MtuMin, max |-> MtuMax,
             cur |-> MtuMax, attempt |-> 0, pings |-> 0, pongs |-> 0, in |-> MtuMin,
             result |-> "none"]
  /\ shared = [state |-> "idle", finished |-> FALSE, acked |-> 0, tag |-> 0, mtu_id |-> 0]
  /\ replies = {} /\ path \in [in : Sizes, out : Sizes] /\ troubles = 0
-----------------------------------------------------------------------------
(* What run() does after a wait *)

Enter(t, phase) == [t EXCEPT !.phase = phase, !.step = "ask"]
Fail(t)         == [t EXCEPT !.phase = "done", !.result = "failed"]

StartSearch(t, phase, cur) ==
  [Enter(t, phase) EXCEPT !.min = MtuMin, !.max = MtuMax, !.cur = cur, !.attempt = 0]

\* while (max - min) > 1
Searched(t) == t.max - t.min <= 1

EndSearch(t) ==
  IF t.phase = "mtu_in" THEN [Enter(t, "client_mtu") EXCEPT !.in = t.min] ELSE Enter(t, "last")

\* One size is decided; the next lies in the middle.
Halve(t, success) ==
  LET s == [t EXCEPT !.min = IF success THEN t.cur ELSE @, !.max = IF success THEN @ ELSE t.cur]
      h == [s EXCEPT !.cur = s.min + (s.max - s.min) \div 2, !.attempt = 0, !.step = "ask"]
  IN IF Searched(h) THEN EndSearch(h) ELSE h

Pinged(t, pong) ==
  LET s == [t EXCEPT !.pings = @ + 1, !.pongs = IF pong THEN @ + 1 ELSE @]
  IN Enter(s, IF s.pings = Pings THEN "echo_off" ELSE "ping")

AfterAnswer(t) ==
  CASE t.phase = "connect"    -> Enter(t, "version")
    [] t.phase = "version"    -> Enter(t, "big")
    [] t.phase = "big"        -> Enter(t, "echo_on")
    [] t.phase = "echo_on"    -> Enter(t, "ping")
    [] t.phase = "ping"       -> Pinged(t, TRUE)
    [] t.phase = "echo_off"   -> IF t.pongs = 0 THEN Fail(t)
                                 ELSE StartSearch(t, "mtu_in", MtuMax)
    [] t.phase = "client_mtu" -> StartSearch(t, "mtu_out", t.in)
    [] t.phase = "last"       -> Enter(t, "bye")
    [] OTHER                  -> Halve(t, TRUE)

AfterTimeout(t) ==
  IF t.phase = "ping" THEN Pinged(t, FALSE)
  ELSE IF t.phase \notin Measuring THEN Fail(t)
  ELSE IF t.attempt + 1 < Retries THEN [t EXCEPT !.attempt = @ + 1, !.step = "ask"]
  ELSE Halve(t, FALSE)
-----------------------------------------------------------------------------
(* run() *)

\* The state, the cleared flag and what identifies the answer, in one critical
\* section; of a data message the number is known only after it was sent.
Ask ==
  /\ test.phase \in DOMAIN Awaited /\ test.step = "ask"
  /\ test' = [test EXCEPT !.step = "send", !.asked = @ + 1]
  /\ LET n == test.asked + 1
         s == Awaited[test.phase]
     IN shared' = [shared EXCEPT !.state = s, !.finished = FALSE,
                                 !.tag = IF s = "pong" THEN n ELSE @,
                                 !.mtu_id = IF s \in {"mtu", "client_mtu"} THEN n ELSE @]
  /\ UNCHANGED <<replies, path, troubles>>

\* A packet of the size that is tried reaches the console or comes from it.
Passes == /\ test.phase = "mtu_in" => test.cur <= path.in
          /\ test.phase = "mtu_out" => test.cur <= path.out

\* The request, and with it the console's answer, which may get lost.
Send(lost) ==
  /\ test.phase \in DOMAIN Awaited /\ test.step = "send"
  /\ lost => Passes /\ test.phase \in Measuring /\ troubles < MaxTroubles
  /\ test' = [test EXCEPT !.step = IF Awaited[test.phase] = "data_ack" THEN "expect" ELSE "await"]
  /\ troubles' = IF lost THEN troubles + 1 ELSE troubles
  /\ replies' = IF lost \/ ~Passes THEN replies
                ELSE replies \cup {[kind |-> Awaited[test.phase], n |-> test.asked]}
  /\ UNCHANGED <<shared, path>>

\* Connecting or sending fails; a packet for the outbound MTU that cannot be
\* sent counts as one that was not answered.
SendFails ==
  /\ test.phase \in DOMAIN Awaited /\ test.step = "send"
  /\ test.phase = "mtu_out" /\ Passes => troubles < MaxTroubles
  /\ troubles' = IF test.phase = "mtu_out" /\ Passes THEN troubles + 1 ELSE troubles
  /\ test' = IF test.phase = "mtu_out" THEN AfterTimeout(test) ELSE Fail(test)
  /\ UNCHANGED <<shared, replies, path>>

\* data_ack_seq_num_expected, after the message is out and the lock was free.
ExpectAck ==
  /\ test.step = "expect"
  /\ test' = [test EXCEPT !.step = "await"]
  /\ shared' = [shared EXCEPT !.acked = test.asked]
  /\ UNCHANGED <<replies, path, troubles>>

Answered ==
  /\ test.phase \in DOMAIN Awaited /\ test.step = "await" /\ shared.finished
  /\ test' = AfterAnswer(test)
  /\ UNCHANGED <<shared, replies, path, troubles>>

\* A plausible bug: the answer to an earlier request counts for this one.
AcceptsAnyOf(s, r) == r.kind = s.state

\* Whether the callback takes an answer for the awaited one.
Accepts(s, r) ==
  /\ r.kind = s.state
  /\ r.kind = "data_ack" => r.n = s.acked
  /\ r.kind = "pong" => r.n = s.tag
  /\ r.kind \in {"mtu", "client_mtu"} => r.n = s.mtu_id

\* The wait runs out.  While something is measured the answer in time is the
\* rule, and one that comes too late a trouble.
TimedOut ==
  /\ test.phase \in DOMAIN Awaited /\ test.step = "await" /\ ~shared.finished
  /\ LET late == test.phase \in Measuring /\ \E r \in replies : Accepts(shared, r)
     IN /\ late => troubles < MaxTroubles
        /\ troubles' = IF late THEN troubles + 1 ELSE troubles
  /\ test' = AfterTimeout(test)
  /\ UNCHANGED <<shared, replies, path>>

\* The message is not waited for, its failure ignored; the Takion is closed.
Disconnect ==
  /\ test.phase = "bye"
  /\ test' = [test EXCEPT !.phase = "done", !.result = "ok"]
  /\ UNCHANGED <<shared, replies, path, troubles>>

RunTest == \/ Ask \/ \E lost \in BOOLEAN : Send(lost)
           \/ SendFails \/ ExpectAck \/ Answered \/ TimedOut \/ Disconnect
-----------------------------------------------------------------------------
\* The callback: an answer arrives, and may arrive again.
Deliver(r, again) ==
  /\ r \in replies /\ test.phase # "done"
  /\ again => troubles < MaxTroubles
  /\ troubles' = IF again THEN troubles + 1 ELSE troubles
  /\ replies' = IF again THEN replies ELSE replies \ {r}
  /\ shared' = IF Accepts(shared, r) THEN [shared EXCEPT !.finished = TRUE] ELSE shared
  /\ UNCHANGED <<test, path>>

DeliverAny == \E r \in replies : Deliver(r, FALSE)

Next == RunTest \/ \E r \in replies, again \in BOOLEAN : Deliver(r, again)

\* The session thread runs and its waits end; what is under way arrives.
Spec == /\ Init /\ [][Next]_senkushaVars
        /\ WF_senkushaVars(RunTest) /\ WF_senkushaVars(DeliverAny)
-----------------------------------------------------------------------------
\* No late or repeated answer to an earlier size is taken for one to the size
\* that is tried: what the test finds passes, and it is the very limit of the
\* path as long as the troubles cannot use up the attempts for a size.  (With a
\* smaller MTU in, the largest size is never tried on the way out.)
MtuIsThePaths ==
  test.result = "ok" =>
    /\ test.in <= path.in /\ test.min <= path.out
    /\ troubles < Retries =>
         /\ test.in = path.in
         /\ test.min = IF path.out = MtuMax /\ path.in < MtuMax THEN MtuMax - 1 ELSE path.out
=============================================================================
