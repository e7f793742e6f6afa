-------------------------- MODULE ReliableChannel --------------------------
(***************************************************************************)
(* What enet_peer_send promises for a packet flagged ENET_PACKET_FLAG_-    *)
(* RELIABLE on one channel: the receiving application gets the packets in  *)
(* the order of the calls, none twice, none missing in between, until the  *)
(* connection is given up.                                                 *)
(***************************************************************************)
EXTENDS Naturals, Sequences

VARIABLES accepted,   \* packets handed to enet_peer_send
          delivered,  \* packets returned by enet_peer_receive
          open        \* the connection has not timed out

Init == accepted = <<>> /\ delivered = <<>> /\ open = TRUE

\* A new packet is the number of the call.
Send == /\ open
        /\ accepted' = Append(accepted, Len(accepted) + 1)
        /\ UNCHANGED <<delivered, open>>

Deliver == /\ Len(delivered) < Len(accepted)
           /\ delivered' = Append(delivered, accepted[Len(delivered) + 1])
           /\ UNCHANGED <<accepted, open>>

GiveUp == open /\ open' = FALSE /\ UNCHANGED <<accepted, delivered>>

Next == Send \/ Deliver \/ GiveUp

Spec == Init /\ [][Next]_<<accepted, delivered, open>>
=============================================================================
