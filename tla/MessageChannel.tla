--------------------------- MODULE MessageChannel ---------------------------
(***************************************************************************)
(* What the control messages of a Takion connection promise in one         *)
(* direction: the messages 1, 2, .. come out at the other end in the order *)
(* in which they were sent, none missing and none twice, and the sender    *)
(* forgets a message only after it came out.                               *)
(***************************************************************************)
EXTENDS Naturals, Sequences

CONSTANT Messages    \* how many messages are sent at most

VARIABLES sent,       \* how many messages were sent
          delivered,  \* the messages that came out, in order
          forgotten   \* how many the sender no longer keeps for a retransmission
channel == <<sent, delivered, forgotten>>

Init == sent = 0 /\ delivered = <<>> /\ forgotten = 0

Send == /\ sent < Messages
        /\ sent' = sent + 1
        /\ UNCHANGED <<delivered, forgotten>>

Deliver == /\ \E n \in Len(delivered) + 1 .. sent : delivered' = [i \in 1 .. n |-> i]
           /\ UNCHANGED <<sent, forgotten>>

Forget == /\ forgotten' \in forgotten + 1 .. Len(delivered)
          /\ UNCHANGED <<sent, delivered>>

Next == Send \/ Deliver \/ Forget

Spec == Init /\ [][Next]_channel
=============================================================================
