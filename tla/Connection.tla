----------------------------- MODULE Connection -----------------------------
(***************************************************************************)
(* The three ways to a console.  It is registered first; that part is      *)
(* Registration.  A remote one is reached through PSN and a hole that is   *)
(* punched; that part is Holepunch.  And what the session thread does      *)
(* once ctrl is up (session.rs): the connection test, whatever it finds,   *)
(* and then the stream connection, while stop() may come at any time.      *)
(* Nobody stops the test: a stop waits until it is over.                   *)
(*                                                                         *)
(* They share no state, and one behaviour takes one of them.               *)
(***************************************************************************)
EXTENDS StreamConnection, Registration

CONSTANTS MtuMin, MtuMax, Retries, Pings, MaxTroubles,
          Dropped,  \* stands for a Senkusha that is gone
          Repeats, Quits

ASSUME SenkushaAssumption ==
  /\ MtuMin \in Nat /\ MtuMax \in Nat /\ MtuMin + 1 < MtuMax
  /\ Retries \in Nat \ {0} /\ Pings \in Nat \ {0} /\ MaxTroubles \in Nat

ASSUME HolepunchAssumption == Repeats \in Nat /\ Quits \in BOOLEAN

ASSUME RegistrationAssumption ==
  /\ Attempts \in Nat \ {0} /\ 1 .. Attempts + 1 \subseteq Keys /\ Missing \in BOOLEAN

VARIABLES way,
          test, shared, replies, path, troubles,
          main, bits, flags, notif, ws, user, held, net, said, heard, lost

Test == INSTANCE Senkusha
Hole == INSTANCE Holepunch

senkusha == <<test, shared, replies, path, troubles>>
streamVars == <<vars, senkusha>>
holeVars == <<main, bits, flags, notif, ws, user, held, net, said, heard, lost>>
allVars  == <<way, vars, senkusha, holeVars, flowVars>>

NoTest == /\ test = Dropped /\ shared = Dropped /\ path = Dropped
          /\ replies = {} /\ troubles = 0

InitAll ==
  /\ way \in {"stream", "remote", "register"}
  /\ Init /\ Hole!Init /\ FlowInit
  /\ IF way = "stream" THEN Test!Init ELSE NoTest
  /\ way # "register" => wizard.page = "closed"

\* The Senkusha is dropped.  A stop ends the session here, a failure does not.
HandOver ==
  /\ test # Dropped /\ test.phase = "done"
  /\ test' = Dropped /\ shared' = Dropped /\ path' = Dropped
  /\ replies' = {} /\ troubles' = 0
  /\ IF should_stop THEN pc' = "done" /\ result' = "canceled" ELSE UNCHANGED <<pc, result>>
  /\ UNCHANGED <<scState, should_stop, mutex, lifetime, wire, outcome>>

TestStep   == test # Dropped /\ Test!Next /\ UNCHANGED vars
StreamStep == test = Dropped /\ Next /\ UNCHANGED senkusha
StopInTest == test # Dropped /\ Stop /\ UNCHANGED senkusha

SessionStep ==
  /\ way = "stream" /\ (TestStep \/ HandOver \/ StreamStep \/ StopInTest)
  /\ UNCHANGED <<way, holeVars, flowVars>>

HoleStep ==
  /\ way = "remote" /\ Hole!Next
  /\ UNCHANGED <<way, vars, senkusha, flowVars>>

RegisterStep ==
  /\ way = "register" /\ FlowNext
  /\ UNCHANGED <<way, vars, senkusha, holeVars>>

NextAll == SessionStep \/ HoleStep \/ RegisterStep

\* As in the four modules, each while it runs.
FairnessAll ==
  /\ WF_senkusha(way = "stream" /\ test # Dropped /\ Test!RunTest)
  /\ WF_senkusha(way = "stream" /\ test # Dropped /\ Test!DeliverAny)
  /\ WF_streamVars(way = "stream" /\ HandOver)
  /\ WF_vars(way = "stream" /\ test = Dropped /\ Run)
  /\ WF_vars(way = "stream" /\ test = Dropped /\ Handlers)
  /\ WF_vars(way = "stream" /\ test = Dropped /\ stop_pipe /\ (HandshakeFails \/ LoopEnds))
  /\ WF_holeVars(way = "remote" /\ Hole!Main)
  /\ WF_holeVars(way = "remote" /\ Hole!WsThread)
  /\ WF_holeVars(way = "remote" /\ Hole!WsStop)
  /\ WF_holeVars(way = "remote" /\ Hole!LetGo)
  /\ \A a \in Flows :
       WF_flowVars(way = "register" /\ (Thread(a) \/ PauseOver(a)))

SpecAll == InitAll /\ [][NextAll]_allVars /\ FairnessAll
-----------------------------------------------------------------------------
\* The MTU of a test that succeeded is the path's (senkusha.rs).
MtuIsThePaths == test # Dropped => Test!MtuIsThePaths

\* A hole that was punched is for the OFFER the console made for it (holepunch.rs).
HoleIsAgreed == Hole!HoleIsAgreed

\* While the connection is made, an OFFER is there for the hole that needs it, whichever
\* thread answered it, unless the answer to it could not be posted.
NoOfferLost == Hole!NoOfferLost

\* A cancel lets the connecting thread past no further look at its flag, and ends it and the
\* WebSocket thread in whatever wait they are.
CancelEndsBoth == Hole!CancelEndsBoth

\* run() neither hangs while it connects nor outlives a stop or a disconnect, and no
\* registration hangs.
RunEnds == /\ StopEnds /\ (way = "stream" => ConnectsOrFails)
           /\ AttemptsEnd
=============================================================================
