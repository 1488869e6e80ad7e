---------------------------- MODULE SendBuffers ----------------------------
(***************************************************************************)
(* The two reliable layers side by side: Takion for the stream             *)
(* (TakionSend) and RUDP for the ctrl connection over PSN (Rudp).  They    *)
(* share no state, so that a behaviour has packets of one of them only.    *)
(***************************************************************************)
EXTENDS TakionSend

CONSTANTS RudpHalf, FirstCounter, Tries, MaxTroubles, RudpMessages, RudpBufferSize,
          RudpTriesMax, RudpFailures

ASSUME RudpAssumption ==
  /\ RudpHalf \in Nat \ {0} /\ FirstCounter \in 0 .. RudpHalf - 1
  /\ Tries \in Nat \ {0} /\ MaxTroubles \in Nat
  /\ RudpMessages \in Nat /\ RudpMessages < RudpHalf
  /\ RudpBufferSize \in Nat /\ RudpTriesMax \in Nat /\ RudpFailures \in Nat

VARIABLES isRudp, place, request, answers, troubles, counted, doing, inHand, packets, scan,
          arrived, sent, confirmed, refusals, abandons, wiped

Remote == INSTANCE Rudp WITH SeqHalf <- RudpHalf, Messages <- RudpMessages,
            BufferSize <- RudpBufferSize, TriesMax <- RudpTriesMax, MaxFailures <- RudpFailures

remoteVars == <<place, request, answers, troubles, counted, doing, inHand, packets, scan,
                arrived, sent, confirmed, refusals, abandons, wiped>>
allVars    == <<isRudp, vars, remoteVars>>

InitEither == isRudp \in BOOLEAN /\ Init /\ Remote!Init

TakionStep == ~isRudp /\ Next /\ UNCHANGED <<isRudp, remoteVars>>
RudpStep   == isRudp /\ Remote!Next /\ UNCHANGED <<isRudp, vars>>

SpecEither == InitEither /\ [][TakionStep \/ RudpStep]_allVars /\ (~isRudp => Fairness)

LateAnswersAreOutlived  == Remote!LateAnswersAreOutlived

\* Every message either layer numbered is confirmed, or waits to be sent again, or is in its
\* sender's hands. The exceptions: its send failed; the buffer refused it, which the caller
\* learns of in RUDP and not in Takion; it was given up after its tries with all older ones;
\* and in RUDP a message of an unknown type took it out, beyond half of the counters.
NeitherForgets == NothingForgotten /\ Remote!NothingForgotten
=============================================================================
