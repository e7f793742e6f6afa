--------------------------- MODULE EnetConnection ---------------------------
(***************************************************************************)
(* How ENet opens and ends a connection (proxy/enet/host.c, peer.c and     *)
(* protocol.c): an active host with one peer connects to a passive host    *)
(* with several peer slots, over a network that loses, duplicates and      *)
(* reorders datagrams.  Both hosts compute checksums, as both hosts of the *)
(* proxy do, so a datagram carries the connectID of its sender's peer.     *)
(*                                                                         *)
(* A datagram holds one command.  The code packs several into one, which   *)
(* only removes interleavings.  PING stands for all reliable traffic.      *)
(***************************************************************************)
EXTENDS Naturals, FiniteSets

CONSTANTS
    NumSlots,      \* peerCount of the passive host
    SessionCount,  \* session numbers: ENET_PROTOCOL_HEADER_SESSION_MASK has 2 bits
    MaxConns,      \* bound: calls of enet_host_connect
    MaxPings,      \* bound: pings of one connection at one end
    MaxNet         \* bound: datagrams in the network

ASSUME ConnectionAssumption ==
    /\ NumSlots \in Nat \ {0}
    /\ SessionCount \in Nat /\ SessionCount > 1
    /\ MaxConns \in Nat
    /\ MaxPings \in Nat /\ MaxNet \in Nat

Active    == 0                     \* the peer of the active host
Slots     == 1..NumSlots           \* the peers of the passive host
Peer      == {Active} \cup Slots
UNKNOWN   == NumSlots + 1          \* ENET_PROTOCOL_MAXIMUM_PEER_ID
NOSESSION == 2 * SessionCount - 1  \* 0xFF: its successor is session 0
Session   == 0..(SessionCount - 1) \cup {NOSESSION}

VARIABLES
    peer,        \* the ENetPeer structures
    net,         \* datagrams in the network
    older,       \* those sent before the oldest command a peer still waits for
    randomSeed,  \* of the active host: the connectIDs given out
    told,        \* connectID of the connection an application knows the peer by
    announced    \* history: connectIDs the passive application got CONNECT for

vars == <<peer, net, older, randomSeed, told, announced>>

PeerState ==
    {"DISCONNECTED", "CONNECTING", "ACKNOWLEDGING_CONNECT", "CONNECTED",
     "DISCONNECT_LATER", "DISCONNECTING", "ACKNOWLEDGING_DISCONNECT", "ZOMBIE"}

CommandType == {"CONNECT", "VERIFY_CONNECT", "PING", "DISCONNECT"}
SeqNo   == 0..(MaxPings + 2)
Command == [type : CommandType, seq : SeqNo, tried : BOOLEAN]
Ack     == [type : CommandType, seq : SeqNo]

DatagramType ==
    [to : Peer \cup {UNKNOWN}, session : Session, sum : 0..MaxConns,
     type : CommandType \cup {"ACKNOWLEDGE", "DISCONNECT_UNSEQUENCED"}, seq : SeqNo,
     from : Peer, connectID : 0..MaxConns,
     incomingSessionID : Session, outgoingSessionID : Session]

PeerRecord ==
    [state : PeerState, connectID : 0..MaxConns, outgoingPeerID : Peer \cup {UNKNOWN},
     incomingSessionID : Session, outgoingSessionID : Session, seqNo : SeqNo,
     commands : SUBSET Command, acks : SUBSET Ack]

\* Types of the variables.
TypeOK ==
    /\ peer \in [Peer -> PeerRecord]
    /\ net \subseteq DatagramType
    /\ older \in [Peer -> SUBSET net]
    /\ randomSeed \in 0..MaxConns
    /\ told \in [Peer -> 0..MaxConns]
    /\ announced \subseteq 1..MaxConns

Init ==
    /\ peer = [p \in Peer |->
                 [state |-> "DISCONNECTED", connectID |-> 0, outgoingPeerID |-> UNKNOWN,
                  incomingSessionID |-> NOSESSION, outgoingSessionID |-> NOSESSION,
                  seqNo |-> 0, commands |-> {}, acks |-> {}]]
    /\ net = {} /\ older = [p \in Peer |-> {}]
    /\ randomSeed = 0
    /\ told = [p \in Peer |-> 0] /\ announced = {}

-----------------------------------------------------------------------------
\* Operations on an ENetPeer r.

\* enet_peer_queue_outgoing_command of a command on channel 0xFF.
queue_outgoing_command(r, type) ==
    [r EXCEPT !.seqNo = @ + 1,
              !.commands = @ \cup {[type |-> type, seq |-> r.seqNo + 1, tried |-> FALSE]}]

enet_peer_reset_queues(r) == [r EXCEPT !.commands = {}, !.acks = {}]

\* Everything but the session numbers.
enet_peer_reset(r) ==
    [enet_peer_reset_queues(r) EXCEPT !.state = "DISCONNECTED", !.connectID = 0,
                                      !.outgoingPeerID = UNKNOWN, !.seqNo = 0]

\* enet_peer_disconnect of a connected peer.
RequestDisconnect(r) ==
    [queue_outgoing_command(enet_peer_reset_queues(r), "DISCONNECT")
        EXCEPT !.state = "DISCONNECTING"]

\* The datagram enet_protocol_send_outgoing_commands sends for r: the other
\* host's peer id, session and checksum once they are known.
Datagram(p, type, seq) ==
    LET r == peer[p]
        known == r.outgoingPeerID # UNKNOWN
    IN [to |-> r.outgoingPeerID,
        session |-> IF known THEN r.outgoingSessionID ELSE 0,
        sum |-> IF known THEN r.connectID ELSE 0,
        type |-> type, seq |-> seq,
        from |-> p, connectID |-> r.connectID,
        incomingSessionID |-> r.incomingSessionID,
        outgoingSessionID |-> r.outgoingSessionID]

-----------------------------------------------------------------------------
\* The network.  A peer gives a connection up after at least five seconds of
\* silence; no datagram lives that long, nor longer than the passive host holds
\* a later connection (assumptions on the network).  A session number tells a
\* connection of a slot from the one before it only: without the second
\* assumption a CONNECT and an acknowledgement that are two connections old
\* meet the number they were made for.

\* The datagrams that are gone with a connection a slot gives up in this step.
Expired == {d \in net : \E p \in Slots : /\ peer'[p].connectID # peer[p].connectID
                                         /\ d.connectID < peer[p].connectID}

Waiting(r) == \E c \in r.commands : c.tried

Ages(added) ==
    older' = [p \in Peer |->
                IF ~Waiting(peer'[p]) THEN {}
                ELSE (IF Waiting(peer[p]) THEN older[p] ELSE net) \cap (net' \ added)]

\* A datagram for which there is no room is lost.
Transmit(d) ==
    /\ net' = (net \ Expired) \cup
                 IF Cardinality((net \ Expired) \cup {d}) <= MaxNet THEN {d} ELSE {}
    /\ Ages({d})

Quiet == net' = net \ Expired /\ Ages({})

\* The datagram is consumed, or arrives again later.
Take(d) == net' \in {net \ Expired, net \ (Expired \cup {d})} /\ Ages({})

Lose ==
    /\ \E d \in net : net' = net \ {d}
    /\ UNCHANGED <<peer, randomSeed, told, announced>>
    /\ Ages({})

-----------------------------------------------------------------------------
\* Events given to the applications.

NoEvent == UNCHANGED <<told, announced>>

ConnectEvent(p) ==
    /\ told' = [told EXCEPT ![p] = peer[p].connectID]
    /\ announced' = IF p \in Slots THEN announced \cup {peer[p].connectID} ELSE announced

EndEvent(p) ==
    /\ told' = [told EXCEPT ![p] = 0]
    /\ UNCHANGED announced

-----------------------------------------------------------------------------
\* Calls of the applications.

enet_host_connect ==
    /\ peer[Active].state = "DISCONNECTED"
    /\ randomSeed < MaxConns
    /\ randomSeed' = randomSeed + 1
    /\ peer' = [peer EXCEPT ![Active] =
                  queue_outgoing_command([@ EXCEPT !.state = "CONNECTING",
                                                   !.connectID = randomSeed'], "CONNECT")]
    /\ Quiet /\ NoEvent

\* An application may call these on a peer it was told of, and the active one
\* on the peer enet_host_connect returned.
Known(p) == told[p] # 0 \/ p = Active

enet_peer_ping(p) ==
    /\ Known(p) /\ peer[p].state = "CONNECTED"
    /\ peer[p].seqNo < MaxPings + 1
    /\ peer' = [peer EXCEPT ![p] = queue_outgoing_command(@, "PING")]
    /\ Quiet /\ NoEvent /\ UNCHANGED randomSeed

\* enet_peer_disconnect: a request that waits for its answer, or, of a peer
\* that is not connected, a notice sent at once and a reset.
enet_peer_disconnect(p) ==
    /\ Known(p)
    /\ \/ /\ peer[p].state \in {"CONNECTED", "DISCONNECT_LATER"}
          /\ peer' = [peer EXCEPT ![p] = RequestDisconnect(@)]
          /\ Quiet /\ NoEvent
       \/ /\ peer[p].state \in {"CONNECTING", "ACKNOWLEDGING_CONNECT"}
          /\ peer' = [peer EXCEPT ![p] = enet_peer_reset(@)]
          /\ Transmit(Datagram(p, "DISCONNECT_UNSEQUENCED", 0))
          /\ EndEvent(p)
    /\ UNCHANGED randomSeed

\* enet_peer_disconnect_later with commands still unacknowledged; without any
\* it is enet_peer_disconnect.
enet_peer_disconnect_later(p) ==
    /\ Known(p) /\ peer[p].state = "CONNECTED"
    /\ peer[p].commands # {}
    /\ peer' = [peer EXCEPT ![p].state = "DISCONNECT_LATER"]
    /\ Quiet /\ NoEvent /\ UNCHANGED randomSeed

\* enet_peer_disconnect_now: no DISCONNECT event follows.
enet_peer_disconnect_now(p) ==
    /\ Known(p) /\ peer[p].state # "DISCONNECTED"
    /\ peer' = [peer EXCEPT ![p] = enet_peer_reset(@)]
    /\ IF peer[p].state \in {"ZOMBIE", "DISCONNECTING"}
       THEN Quiet
       ELSE Transmit(Datagram(p, "DISCONNECT_UNSEQUENCED", 0))
    /\ EndEvent(p) /\ UNCHANGED randomSeed

\* enet_peer_reset, also what enet_host_destroy does to its peers: the other
\* host is not told.
ResetPeer(p) ==
    /\ Known(p) /\ peer[p].state # "DISCONNECTED"
    /\ peer' = [peer EXCEPT ![p] = enet_peer_reset(@)]
    /\ Quiet /\ EndEvent(p) /\ UNCHANGED randomSeed

-----------------------------------------------------------------------------
\* Steps of enet_host_service that send.

Serviced(p) == peer[p].state \notin {"DISCONNECTED", "ZOMBIE"}

\* enet_protocol_send_reliable_outgoing_commands: the next command, or again
\* one that enet_protocol_check_timeouts has put back.
SendReliable(p) ==
    /\ Serviced(p)
    /\ \E c \in peer[p].commands :
          /\ \A e \in peer[p].commands : e.seq < c.seq => c.tried \/ e.tried
          /\ peer' = [peer EXCEPT ![p].commands =
                        (@ \ {c}) \cup {[c EXCEPT !.tried = TRUE]}]
          /\ Transmit(Datagram(p, c.type, c.seq))
    /\ NoEvent /\ UNCHANGED randomSeed

\* enet_protocol_send_acknowledgements: acknowledging a DISCONNECT ends the
\* connection at this end.
SendAck(p) ==
    /\ Serviced(p)
    /\ \E a \in peer[p].acks :
          /\ peer' = [peer EXCEPT ![p].acks = @ \ {a},
                                  ![p].state = IF a.type = "DISCONNECT" THEN "ZOMBIE" ELSE @]
          /\ Transmit(Datagram(p, "ACKNOWLEDGE", a.seq))
    /\ NoEvent /\ UNCHANGED randomSeed

\* enet_protocol_check_timeouts gives up, enet_protocol_notify_disconnect: the
\* application hears of it unless it never heard of the connection.
Timeout(p) ==
    /\ Serviced(p) /\ Waiting(peer[p])
    /\ peer' = [peer EXCEPT ![p] = enet_peer_reset(@)]
    /\ net' = net \ (older[p] \cup Expired) /\ Ages({})
    /\ IF peer[p].state = "ACKNOWLEDGING_CONNECT" THEN NoEvent ELSE EndEvent(p)
    /\ UNCHANGED randomSeed

\* enet_protocol_dispatch_incoming_commands: the DISCONNECT event.
Dispatch(p) ==
    /\ peer[p].state = "ZOMBIE"
    /\ peer' = [peer EXCEPT ![p] = enet_peer_reset(@)]
    /\ Quiet /\ EndEvent(p) /\ UNCHANGED randomSeed

-----------------------------------------------------------------------------
\* Steps of enet_host_service that receive.

\* The session number that follows `asked' (or the slot's own, when the other
\* host has none), different from the one the slot used last.
NextSession(asked, own) ==
    LET next == ((IF asked = NOSESSION THEN own ELSE asked) + 1) % SessionCount
    IN IF next = own THEN (next + 1) % SessionCount ELSE next

\* Faulty test: a CONNECT that was answered before is not recognised.
DuplicateConnect_Never(d) == FALSE

DuplicateConnect(d) ==
    \E p \in Slots : peer[p].state # "DISCONNECTED" /\ peer[p].connectID = d.connectID

\* enet_protocol_handle_connect: the first free slot takes the connection and
\* answers; the address of the active host is the same for all.
handle_connect(d) ==
    LET free == {p \in Slots : peer[p].state = "DISCONNECTED"}
        slot == CHOOSE p \in free : \A q \in free : p <= q
        own  == peer[slot]
    IN /\ d.to = UNKNOWN /\ d.type = "CONNECT"
       /\ ~DuplicateConnect(d) /\ free # {}
       /\ peer' = [peer EXCEPT ![slot] = queue_outgoing_command(
                     [own EXCEPT !.state = "ACKNOWLEDGING_CONNECT",
                                 !.connectID = d.connectID,
                                 !.outgoingPeerID = d.from,
                                 !.outgoingSessionID = NextSession(d.incomingSessionID,
                                                                   own.outgoingSessionID),
                                 !.incomingSessionID = NextSession(d.outgoingSessionID,
                                                                   own.incomingSessionID)],
                     "VERIFY_CONNECT")]
       /\ NoEvent

\* Faulty filter: the session number is not compared.
Accepted_AnySession(d) ==
    /\ d.to # UNKNOWN
    /\ Serviced(d.to)
    /\ d.sum = peer[d.to].connectID

\* The tests of enet_protocol_handle_incoming_commands before any command is
\* looked at: the session once it is known, and the checksum.
Accepted(d) ==
    /\ d.to # UNKNOWN
    /\ Serviced(d.to)
    /\ peer[d.to].outgoingPeerID # UNKNOWN => d.session = peer[d.to].incomingSessionID
    /\ d.sum = peer[d.to].connectID

\* Faulty acknowledgement: none in the state a DISCONNECT leads to.
Acknowledge_NotDisconnect(r, d) ==
    IF r.state \in {"DISCONNECTING", "ACKNOWLEDGING_CONNECT", "DISCONNECTED", "ZOMBIE",
                    "ACKNOWLEDGING_DISCONNECT"}
    THEN r
    ELSE [r EXCEPT !.acks = @ \cup {[type |-> d.type, seq |-> d.seq]}]

\* The acknowledgement queued after a command was handled, by the state the
\* handler has left the peer in.
Acknowledge(r, d) ==
    IF \/ r.state \in {"DISCONNECTING", "ACKNOWLEDGING_CONNECT", "DISCONNECTED", "ZOMBIE"}
       \/ r.state = "ACKNOWLEDGING_DISCONNECT" /\ d.type # "DISCONNECT"
    THEN r
    ELSE [r EXCEPT !.acks = @ \cup {[type |-> d.type, seq |-> d.seq]}]

\* enet_protocol_handle_verify_connect of a connecting peer.  The connectID is
\* the one the checksum was computed with.
Verified(r, d) ==
    [r EXCEPT !.state = "CONNECTED", !.outgoingPeerID = d.from,
              !.incomingSessionID = d.outgoingSessionID,
              !.outgoingSessionID = d.incomingSessionID,
              !.commands = {c \in @ : ~(c.seq = 1 /\ c.tried)}]

handle_verify_connect(d) ==
    LET p == d.to
    IN /\ Accepted(d) /\ d.type = "VERIFY_CONNECT"
       /\ IF peer[p].state = "CONNECTING"
          THEN /\ peer' = [peer EXCEPT ![p] = Acknowledge(Verified(@, d), d)]
               /\ ConnectEvent(p)
          ELSE /\ peer' = [peer EXCEPT ![p] = Acknowledge(@, d)]
               /\ NoEvent

handle_ping(d) ==
    /\ Accepted(d) /\ d.type = "PING"
    /\ peer[d.to].state \in {"CONNECTED", "DISCONNECT_LATER"}
    /\ peer' = [peer EXCEPT ![d.to] = Acknowledge(@, d)]
    /\ NoEvent

\* Faulty disconnection: a peer that answers a DISCONNECT is reset at once.
Disconnected_Silently(r, d) ==
    CASE r.state \in {"DISCONNECTING", "CONNECTING"} ->
            [enet_peer_reset_queues(r) EXCEPT !.state = "ZOMBIE"]
      [] r.state \in {"CONNECTED", "DISCONNECT_LATER"} /\ d.type # "DISCONNECT" ->
            enet_peer_reset(r)
      [] r.state \in {"CONNECTED", "DISCONNECT_LATER"} /\ d.type = "DISCONNECT" ->
            [enet_peer_reset_queues(r) EXCEPT !.state = "ACKNOWLEDGING_DISCONNECT"]
      [] r.state = "ACKNOWLEDGING_CONNECT" -> enet_peer_reset(r)
      [] r.state = "ACKNOWLEDGING_DISCONNECT" -> r

\* enet_protocol_handle_disconnect.
Disconnected(r, d) ==
    CASE r.state \in {"DISCONNECTING", "CONNECTING"} ->
            [enet_peer_reset_queues(r) EXCEPT !.state = "ZOMBIE"]
      [] r.state \in {"CONNECTED", "DISCONNECT_LATER"} ->
            [enet_peer_reset_queues(r) EXCEPT
                !.state = IF d.type = "DISCONNECT" THEN "ACKNOWLEDGING_DISCONNECT"
                                                   ELSE "ZOMBIE"]
      [] r.state = "ACKNOWLEDGING_CONNECT" -> enet_peer_reset(r)
      [] r.state = "ACKNOWLEDGING_DISCONNECT" -> r

handle_disconnect(d) ==
    LET r == Disconnected(peer[d.to], d)
    IN /\ Accepted(d) /\ d.type \in {"DISCONNECT", "DISCONNECT_UNSEQUENCED"}
       /\ peer' = [peer EXCEPT ![d.to] = IF d.type = "DISCONNECT" THEN Acknowledge(r, d) ELSE r]
       /\ NoEvent

\* enet_protocol_remove_sent_reliable_command: the commands an acknowledgement
\* of seq stands for, at most one.
AckedBy(r, seq) == {c \in r.commands : c.seq = seq /\ c.tried}

\* Is a command of this type what the acknowledgement stands for?
Completes(r, seq, type) == \E c \in AckedBy(r, seq) : c.type = type

\* enet_protocol_handle_acknowledge.
handle_acknowledge(d) ==
    LET p    == d.to
        r    == [peer[p] EXCEPT !.commands = @ \ AckedBy(peer[p], d.seq)]
    IN /\ Accepted(d) /\ d.type = "ACKNOWLEDGE"
       /\ \/ /\ r.state = "ACKNOWLEDGING_CONNECT"
             /\ Completes(peer[p], d.seq, "VERIFY_CONNECT")
             /\ peer' = [peer EXCEPT ![p] = [r EXCEPT !.state = "CONNECTED"]]
             /\ ConnectEvent(p)
          \/ /\ r.state = "DISCONNECTING"
             /\ Completes(peer[p], d.seq, "DISCONNECT")
             /\ peer' = [peer EXCEPT ![p] = enet_peer_reset(r)]
             /\ EndEvent(p)
          \/ /\ r.state = "DISCONNECT_LATER" /\ r.commands = {}
             /\ peer' = [peer EXCEPT ![p] = RequestDisconnect(r)]
             /\ NoEvent
          \/ /\ r.state \notin {"ACKNOWLEDGING_CONNECT", "DISCONNECTING"}
             /\ r.state = "DISCONNECT_LATER" => r.commands # {}
             /\ peer' = [peer EXCEPT ![p] = r]
             /\ NoEvent

Receive ==
    /\ \E d \in net :
          /\ \/ handle_connect(d) \/ handle_verify_connect(d) \/ handle_ping(d)
             \/ handle_disconnect(d) \/ handle_acknowledge(d)
          /\ Take(d)
    /\ UNCHANGED randomSeed

-----------------------------------------------------------------------------
Application ==
    \/ enet_host_connect
    \/ \E p \in Peer : \/ enet_peer_ping(p) \/ enet_peer_disconnect(p)
                       \/ enet_peer_disconnect_later(p)
                       \/ enet_peer_disconnect_now(p) \/ ResetPeer(p)

Service == \E p \in Peer : SendReliable(p) \/ SendAck(p) \/ Timeout(p) \/ Dispatch(p)

Next == Application \/ Service \/ Receive \/ Lose

\* enet_host_service is called for ever at both ends: what is queued is sent,
\* what waits too long for its answer is given up, events are dispatched.
Fairness ==
    \A p \in Peer : /\ WF_vars(SendReliable(p)) /\ WF_vars(SendAck(p))
                    /\ WF_vars(Timeout(p)) /\ WF_vars(Dispatch(p))

Spec == Init /\ [][Next]_vars /\ Fairness

-----------------------------------------------------------------------------
\* Properties.

\* The states of a slot whose connection the passive application was told of:
\* it is told of every connection before it ends, and a slot is never emptied
\* without telling it.  All records have their types.
Announced == {"CONNECTED", "DISCONNECT_LATER", "DISCONNECTING",
              "ACKNOWLEDGING_DISCONNECT", "ZOMBIE"}
EventPairing ==
    /\ TypeOK
    /\ \A p \in Slots : told[p] # 0 <=> peer[p].state \in Announced

\* No two slots stand for the same connection, whatever is duplicated.
UniqueConnection ==
    \A p, q \in Slots : /\ p # q
                        /\ peer[p].state # "DISCONNECTED" /\ peer[q].state # "DISCONNECTED"
                        => peer[p].connectID # peer[q].connectID

\* Two connected ends of one connection name each other and expect the session
\* number the other one sends.
SessionAgreement ==
    \A p \in Slots :
       LET a == peer[Active]
           s == peer[p]
       IN /\ a.state = "CONNECTED" /\ s.state = "CONNECTED" /\ a.connectID = s.connectID
          => /\ a.outgoingPeerID = p /\ s.outgoingPeerID = Active
             /\ a.incomingSessionID = s.outgoingSessionID
             /\ a.outgoingSessionID = s.incomingSessionID

\* The events of the passive application are those ConnectionEvents allows: a
\* delayed CONNECT or acknowledgement never announces a connection twice.
Events == INSTANCE ConnectionEvents WITH
              Connections <- 1..MaxConns, told <- [p \in Slots |-> told[p]]
EventsRefined == Events!Spec

\* No peer stays between connected and disconnected: handshakes and
\* disconnections come to an end, by an answer or by a timeout.
Settles ==
    \A p \in Peer : peer[p].state \notin {"CONNECTED", "DISCONNECTED"}
                       ~> peer[p].state \in {"CONNECTED", "DISCONNECTED"}
=============================================================================
