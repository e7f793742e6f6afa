------------------------ MODULE EnetConnection_proofs ------------------------
(***************************************************************************)
(* The invariants of EnetConnection and the refinement of ConnectionEvents *)
(* for any number of slots, session numbers, connections, pings and        *)
(* datagrams.                                                              *)
(***************************************************************************)
EXTENDS EnetConnection, WellFoundedInduction, TLAPS

ActivePeer == peer[Active]

\* What a peer's state says about its other fields.
PeerShape ==
    /\ \A p \in Peer :
          /\ peer[p].incomingSessionID = peer[p].outgoingSessionID
          /\ peer[p].state = "DISCONNECTED" =>
                peer[p].connectID = 0 /\ peer[p].seqNo = 0 /\ peer[p].commands = {}
          /\ peer[p].state # "DISCONNECTED" => peer[p].connectID # 0
          /\ peer[p].state \notin {"DISCONNECTING", "ACKNOWLEDGING_DISCONNECT", "ZOMBIE"} =>
                peer[p].seqNo <= MaxPings + 1
          /\ peer[p].state \notin Announced => peer[p].acks = {}
          /\ peer[p].connectID <= randomSeed
    /\ \A p \in Slots :
          /\ peer[p].state # "CONNECTING"
          /\ peer[p].state # "DISCONNECTED" => peer[p].outgoingPeerID = Active
          /\ \A m \in peer[p].commands : m.type # "CONNECT"
    /\ ActivePeer.state \in {"DISCONNECTED", "CONNECTING"} => ActivePeer.outgoingPeerID = UNKNOWN
    /\ ActivePeer.outgoingPeerID # Active
    /\ ActivePeer.state # "ACKNOWLEDGING_CONNECT"
    /\ ActivePeer.connectID \in {0, randomSeed}

\* What its sender has put into a datagram.
DatagramShape ==
    \A d \in net :
       /\ d.incomingSessionID = d.outgoingSessionID
       /\ d.connectID # 0 /\ d.connectID <= randomSeed
       /\ d.to = UNKNOWN => d.sum = 0
       /\ d.to # UNKNOWN => d.sum = d.connectID
       /\ d.from = Active <=> d.to # Active
       /\ d.type = "CONNECT" => d.from = Active /\ d.to = UNKNOWN

\* A datagram of the active host that names a slot p as the end of connection c.
Names(d, p, c) == d.from = Active /\ d.to = p /\ d.sum = c

\* The active host names p as the other end of c.
ActiveNames(p, c) == ActivePeer.connectID = c /\ ActivePeer.outgoingPeerID = p

\* The active host speaks to one slot under one session number in a connection.
OneVoice ==
    /\ \A d, e \in net : \A p, q \in Slots : \A c \in 1..MaxConns :
          Names(d, p, c) /\ Names(e, q, c) => p = q /\ d.session = e.session
    /\ \A d \in net : \A p \in Slots :
          Names(d, p, ActivePeer.connectID) => ActivePeer.outgoingPeerID = p /\ ActivePeer.outgoingSessionID = d.session

\* A slot whose connection was announced is the one the active host speaks to.
Spoken ==
    \A p \in Slots : peer[p].state \in Announced =>
       /\ ActiveNames(ActivePeer.outgoingPeerID, peer[p].connectID) =>
             ActivePeer.outgoingPeerID = p /\ ActivePeer.outgoingSessionID = peer[p].incomingSessionID
       /\ \A d \in net : \A q \in Slots : Names(d, q, peer[p].connectID) =>
             q = p /\ d.session = peer[p].incomingSessionID
       /\ peer[p].connectID \in announced

\* A connecting peer has sent nothing but its CONNECT, and before that nobody
\* knows of the connection.
ConnectFirst ==
    /\ ActivePeer.state # "CONNECTING" =>
          \A m \in ActivePeer.commands : m.type # "CONNECT"
    /\ ActivePeer.state = "CONNECTING" =>
          /\ \A m \in ActivePeer.commands : m.type = "CONNECT" /\ m.seq = 1
          /\ \A m, n \in ActivePeer.commands : m = n
          /\ (\E m \in ActivePeer.commands : ~m.tried) =>
                /\ \A d \in net : d.connectID # ActivePeer.connectID
                /\ \A p \in Slots : peer[p].connectID # ActivePeer.connectID

-----------------------------------------------------------------------------
\* A connection c that was announced before.

Late(d, c) == d.type = "CONNECT" /\ d.connectID = c

\* The active host knows the other end.
AnnouncedKnown == \A c \in announced : ActivePeer.connectID = c => ActivePeer.outgoingPeerID # UNKNOWN

\* A slot that has taken c again has another session number.
OtherSession ==
    \A p \in Slots : peer[p].state = "ACKNOWLEDGING_CONNECT" /\ peer[p].connectID \in announced =>
       /\ \A d \in net : Names(d, p, peer[p].connectID) =>
             d.session # peer[p].incomingSessionID
       /\ ActiveNames(p, peer[p].connectID) => ActivePeer.outgoingSessionID # peer[p].incomingSessionID

\* ... because a free slot still has the number of c, as long as c may come again.
SessionKept ==
    \A p \in Slots : \A c \in announced :
       peer[p].state = "DISCONNECTED" /\ (\E d \in net : Late(d, c)) =>
          /\ \A d \in net : Names(d, p, c) => d.session = peer[p].incomingSessionID
          /\ ActiveNames(p, c) => ActivePeer.outgoingSessionID = peer[p].incomingSessionID

\* While c is held no CONNECT before it has another chance afterwards.
NoneEarlier ==
    \A c \in announced :
       \/ \E p \in Slots : peer[p].state \in Announced /\ peer[p].connectID = c
       \/ \A d \in net : d.type = "CONNECT" => d.connectID >= c

\* The slot of c is not taken by an earlier connection any more.
SlotAdvances ==
    \A p \in Slots : \A c \in announced :
       (ActiveNames(p, c) \/ \E d \in net : Names(d, p, c)) =>
          peer[p].connectID = 0 \/ peer[p].connectID >= c

\* The timeout of a slot that has taken c again ends the CONNECTs of c.
LateIsOlder ==
    \A p \in Slots :
       /\ peer[p].state = "ACKNOWLEDGING_CONNECT" /\ peer[p].connectID \in announced
       /\ Waiting(peer[p])
       => \A d \in net : Late(d, peer[p].connectID) => d \in older[p]

ConnInv ==
    /\ TypeOK /\ announced \subseteq 1..randomSeed
    /\ PeerShape /\ DatagramShape /\ EventPairing /\ UniqueConnection
    /\ OneVoice /\ Spoken /\ ConnectFirst

OnceInv ==
    /\ AnnouncedKnown /\ OtherSession /\ SessionKept
    /\ NoneEarlier /\ SlotAdvances /\ LateIsOlder

-----------------------------------------------------------------------------
\* The operations on an ENetPeer.

\* x is r but for its state and queues.
KeepsIdentity(r, x) ==
    /\ x.connectID = r.connectID /\ x.outgoingPeerID = r.outgoingPeerID
    /\ x.incomingSessionID = r.incomingSessionID
    /\ x.outgoingSessionID = r.outgoingSessionID

\* A queued command changes the sequence number and the list of commands only.
LEMMA QueueFields ==
    ASSUME NEW r \in PeerRecord, NEW type \in CommandType, r.seqNo + 1 \in SeqNo,
           NEW x, x = queue_outgoing_command(r, type)
    PROVE  /\ x \in PeerRecord /\ KeepsIdentity(r, x)
           /\ x.state = r.state /\ x.seqNo = r.seqNo + 1 /\ x.acks = r.acks
           /\ x.commands = r.commands \cup {[type |-> type, seq |-> r.seqNo + 1, tried |-> FALSE]}
<1> DEFINE n == r.seqNo + 1
           m == [type |-> type, seq |-> n, tried |-> FALSE]
<1>1. m \in Command
  BY DEF Command
<1>2. x = [r EXCEPT !.seqNo = n, !.commands = @ \cup {m}]
  BY DEF queue_outgoing_command
<1> HIDE DEF n, m
<1>3. n \in SeqNo
  BY DEF n
<1>4. /\ x \in PeerRecord /\ KeepsIdentity(r, x)
      /\ x.state = r.state /\ x.seqNo = n /\ x.acks = r.acks
      /\ x.commands = r.commands \cup {m}
  BY <1>1, <1>2, <1>3 DEF PeerRecord, KeepsIdentity
<1> QED
  BY <1>4 DEF n, m

\* enet_peer_reset_queues empties the two lists of a peer.
LEMMA ResetQueuesFields ==
    ASSUME NEW r \in PeerRecord, NEW x, x = enet_peer_reset_queues(r)
    PROVE  /\ x \in PeerRecord /\ KeepsIdentity(r, x)
           /\ x.state = r.state /\ x.seqNo = r.seqNo /\ x.acks = {} /\ x.commands = {}
  BY DEF enet_peer_reset_queues, PeerRecord, KeepsIdentity

\* What enet_peer_reset leaves of a peer: the session numbers.
LEMMA ResetFields ==
    ASSUME NEW r \in PeerRecord, NEW x, x = enet_peer_reset(r)
    PROVE  /\ x \in PeerRecord
           /\ x.state = "DISCONNECTED" /\ x.connectID = 0 /\ x.outgoingPeerID = UNKNOWN
           /\ x.incomingSessionID = r.incomingSessionID
           /\ x.outgoingSessionID = r.outgoingSessionID
           /\ x.seqNo = 0 /\ x.acks = {} /\ x.commands = {}
<1> DEFINE y == enet_peer_reset_queues(r)
<1>1. /\ y \in PeerRecord /\ KeepsIdentity(r, y) /\ y.acks = {} /\ y.commands = {}
  BY ResetQueuesFields
<1>2. x = [y EXCEPT !.state = "DISCONNECTED", !.connectID = 0,
                    !.outgoingPeerID = UNKNOWN, !.seqNo = 0]
  BY DEF enet_peer_reset
<1> HIDE DEF y
<1>3. 0 \in SeqNo /\ 0 \in 0..MaxConns
  BY ConnectionAssumption DEF ConnectionAssumption, SeqNo
<1> QED
  BY <1>1, <1>2, <1>3 DEF PeerRecord, PeerState, KeepsIdentity

\* A peer that asks for its end waits for nothing but the answer to that.
LEMMA RequestFields ==
    ASSUME NEW r \in PeerRecord, r.seqNo + 1 \in SeqNo, NEW x, x = RequestDisconnect(r)
    PROVE  /\ x \in PeerRecord /\ KeepsIdentity(r, x)
           /\ x.state = "DISCONNECTING" /\ x.seqNo = r.seqNo + 1 /\ x.acks = {}
           /\ \A m \in x.commands : m.type = "DISCONNECT"
<1> DEFINE y == enet_peer_reset_queues(r)
           z == queue_outgoing_command(y, "DISCONNECT")
<1>1. /\ y \in PeerRecord /\ KeepsIdentity(r, y) /\ y.acks = {} /\ y.commands = {}
      /\ y.seqNo = r.seqNo
  BY ResetQueuesFields
<1>2. x = [z EXCEPT !.state = "DISCONNECTING"]
  BY DEF RequestDisconnect
<1> HIDE DEF y
<1>3. /\ z \in PeerRecord /\ KeepsIdentity(y, z) /\ z.acks = {} /\ z.seqNo = y.seqNo + 1
      /\ z.commands = y.commands \cup {[type |-> "DISCONNECT", seq |-> y.seqNo + 1, tried |-> FALSE]}
  <2>1. "DISCONNECT" \in CommandType
    BY DEF CommandType
  <2> QED BY <1>1, <2>1, QueueFields
<1> HIDE DEF z
<1> QED
  BY <1>1, <1>2, <1>3 DEF PeerRecord, PeerState, KeepsIdentity

\* An acknowledgement is queued where the state of the peer still allows it.
LEMMA AcknowledgeFields ==
    ASSUME NEW r \in PeerRecord, NEW d \in DatagramType, d.type \in CommandType,
           NEW x, x = Acknowledge(r, d)
    PROVE  /\ x \in PeerRecord /\ KeepsIdentity(r, x)
           /\ x.state = r.state /\ x.seqNo = r.seqNo /\ x.commands = r.commands
           /\ r.state \in {"DISCONNECTING", "ACKNOWLEDGING_CONNECT", "DISCONNECTED", "ZOMBIE"}
                 => x = r
  BY DEF Acknowledge, PeerRecord, DatagramType, Ack, KeepsIdentity

\* The peer is changed at p only.
Only(p) == /\ peer' = [peer EXCEPT ![p] = peer'[p]]
           /\ \A q \in Peer \ {p} : peer'[q] = peer[q]

\* A step that writes one entry of the peers changes that one.
LEMMA OnlyExcept ==
    ASSUME TypeOK, NEW p \in Peer, NEW x, peer' = [peer EXCEPT ![p] = x]
    PROVE  Only(p) /\ peer'[p] = x
  BY DEF TypeOK, Only
-----------------------------------------------------------------------------
\* The kinds of steps.

\* A datagram made from the fields of p.
SentBy(d, p) ==
    /\ d \in DatagramType /\ d.from = p /\ d.connectID = peer[p].connectID
    /\ d.to = peer[p].outgoingPeerID
    /\ d.incomingSessionID = peer[p].incomingSessionID
    /\ d.outgoingSessionID = peer[p].outgoingSessionID
    /\ d.to = UNKNOWN => d.sum = 0
    /\ d.to # UNKNOWN => d.sum = d.connectID /\ d.session = peer[p].outgoingSessionID
    /\ d.type = "CONNECT" => \E m \in peer[p].commands : m.type = "CONNECT"

\* p sends at most these datagrams.
Adds(p, added) ==
    /\ net' \subseteq net \cup added
    /\ \A d \in added : SentBy(d, p)
    /\ Ages(added)

\* p stays in its connection, with the same part in it.
Steady(p) ==
    /\ Only(p) /\ peer'[p] \in PeerRecord /\ KeepsIdentity(peer[p], peer'[p])
    /\ peer[p].state # "DISCONNECTED"
    /\ \/ peer'[p].state = peer[p].state
       \/ peer[p].state \in Announced /\ peer'[p].state \in Announced
       \/ /\ peer[p].state = "CONNECTING" /\ peer'[p].state = "ZOMBIE"
          /\ peer'[p].commands = {}
    /\ peer'[p].state \notin {"DISCONNECTING", "ACKNOWLEDGING_DISCONNECT", "ZOMBIE"} =>
          peer'[p].seqNo <= MaxPings + 1
    /\ peer'[p].state \notin Announced => peer'[p].acks = {}
    /\ \A m \in peer'[p].commands : m.type = "CONNECT" =>
          \E n \in peer[p].commands : n.type = "CONNECT"
    /\ peer'[p].state = "CONNECTING" =>
          \/ peer'[p].commands \subseteq peer[p].commands /\ net' \subseteq net
          \/ \E m \in peer[p].commands : peer'[p].commands =
                (peer[p].commands \ {m}) \cup {[m EXCEPT !.tried = TRUE]}
    /\ \E added : Adds(p, added)
    /\ UNCHANGED <<randomSeed, told, announced>>

\* p leaves its connection.
Leaves(p) ==
    /\ Only(p) /\ peer'[p] \in PeerRecord
    /\ peer[p].state # "DISCONNECTED"
    /\ peer'[p].state = "DISCONNECTED" /\ peer'[p].connectID = 0
    /\ peer'[p].outgoingPeerID = UNKNOWN
    /\ peer'[p].incomingSessionID = peer[p].incomingSessionID
    /\ peer'[p].outgoingSessionID = peer[p].outgoingSessionID
    /\ peer'[p].seqNo = 0 /\ peer'[p].acks = {} /\ peer'[p].commands = {}
    /\ \E added : Adds(p, added)
    /\ p \in Slots => \A d \in net' : d.connectID >= peer[p].connectID
    /\ p \in Slots /\ peer[p].state = "ACKNOWLEDGING_CONNECT" =>
          \/ Waiting(peer[p]) /\ net' \cap older[p] = {}
          \/ \E d \in net : Accepted(d) /\ d.to = p
    /\ \/ told' = [told EXCEPT ![p] = 0]
       \/ told' = told /\ peer[p].state = "ACKNOWLEDGING_CONNECT"
    /\ UNCHANGED <<randomSeed, announced>>

-----------------------------------------------------------------------------
\* Every action is of one of the kinds.

\* The constants and the sets of numbers built from them.
LEMMA Constants ==
    /\ NumSlots \in Nat \ {0} /\ SessionCount \in Nat /\ SessionCount > 1
    /\ MaxConns \in Nat /\ MaxPings \in Nat
    /\ Active \in Peer /\ Active \notin Slots /\ UNKNOWN \notin Peer
    /\ Slots \subseteq Peer /\ 0 \in SeqNo /\ 1 \in SeqNo /\ 0 \in Session
    /\ \A p \in Peer : p \in Slots \/ p = Active
  BY ConnectionAssumption
     DEF ConnectionAssumption, Active, Peer, Slots, UNKNOWN, SeqNo, Session

\* A datagram carries the identity of the peer that sends it.
LEMMA DatagramSent ==
    ASSUME TypeOK, NEW p \in Peer, NEW seq \in SeqNo,
           NEW type \in CommandType \cup {"ACKNOWLEDGE", "DISCONNECT_UNSEQUENCED"},
           type = "CONNECT" => \E m \in peer[p].commands : m.type = "CONNECT"
    PROVE  SentBy(Datagram(p, type, seq), p)
<1> DEFINE r == peer[p]
<1>1. r \in PeerRecord
  BY DEF TypeOK
<1>2. /\ r.connectID \in 0..MaxConns /\ 0 \in 0..MaxConns
      /\ r.outgoingPeerID \in Peer \cup {UNKNOWN}
      /\ r.incomingSessionID \in Session /\ r.outgoingSessionID \in Session /\ 0 \in Session
  BY <1>1, Constants DEF PeerRecord
<1> QED
  BY <1>2 DEF SentBy, Datagram, DatagramType

\* The network's part of a step that sends, and of one that does not.
LEMMA TransmitAdds ==
    ASSUME NEW p \in Peer, NEW d, SentBy(d, p), Transmit(d)
    PROVE  /\ Adds(p, {d})
           /\ \A e \in net' : e \notin Expired \/ e = d
  BY DEF Transmit, Adds

\* A step that sends nothing adds no datagram.
LEMMA QuietAdds ==
    ASSUME NEW p \in Peer,
           \/ Quiet
           \/ \E d \in net : Take(d)
           \/ net' = net \ (older[p] \cup Expired) /\ Ages({})
    PROVE  /\ Adds(p, {}) /\ net' \subseteq net
           /\ \A e \in net' : e \notin Expired
  BY DEF Quiet, Take, Adds

\* What a slot's end leaves of the network.
LEMMA ExpiredLeft ==
    ASSUME TypeOK, NEW p \in Slots, NEW e \in net, e \notin Expired,
           peer'[p].connectID # peer[p].connectID
    PROVE  e.connectID >= peer[p].connectID
<1>1. e.connectID \in Nat /\ peer[p].connectID \in Nat
  BY Constants DEF TypeOK, DatagramType, PeerRecord
<1> QED
  BY <1>1 DEF Expired

\* What the invariant says of one peer.
LEMMA PeerFacts ==
    ASSUME ConnInv, NEW p \in Peer
    PROVE  /\ TypeOK /\ peer[p] \in PeerRecord /\ peer[p].seqNo \in SeqNo
           /\ peer[p].state \notin {"DISCONNECTING", "ACKNOWLEDGING_DISCONNECT", "ZOMBIE"} =>
                 peer[p].seqNo <= MaxPings + 1 /\ peer[p].seqNo + 1 \in SeqNo
           /\ peer[p].state \notin Announced => peer[p].acks = {}
           /\ Known(p) => peer[p].state # "ACKNOWLEDGING_CONNECT"
<1>1. TypeOK /\ peer[p] \in PeerRecord /\ peer[p].seqNo \in SeqNo
  BY DEF ConnInv, TypeOK, PeerRecord
<1>2. peer[p].state \notin {"DISCONNECTING", "ACKNOWLEDGING_DISCONNECT", "ZOMBIE"} =>
                 peer[p].seqNo <= MaxPings + 1
  BY DEF ConnInv, PeerShape
<1>3. peer[p].state \notin {"DISCONNECTING", "ACKNOWLEDGING_DISCONNECT", "ZOMBIE"} =>
                 peer[p].seqNo <= MaxPings + 1 /\ peer[p].seqNo + 1 \in SeqNo
  BY <1>1, <1>2, Constants DEF SeqNo
<1>4. peer[p].state \notin Announced => peer[p].acks = {}
  BY DEF ConnInv, PeerShape
<1>5. Known(p) => peer[p].state # "ACKNOWLEDGING_CONNECT"
  BY Constants DEF ConnInv, PeerShape, EventPairing, Announced, Known, ActivePeer
<1> QED
  BY <1>1, <1>3, <1>4, <1>5

\* enet_peer_ping queues a command.
LEMMA PingSteady ==
    ASSUME ConnInv, NEW p \in Peer, enet_peer_ping(p)
    PROVE  Steady(p)
<1> DEFINE x == queue_outgoing_command(peer[p], "PING")
<1>1. Only(p) /\ peer'[p] = x
  BY PeerFacts, OnlyExcept DEF enet_peer_ping
<1>2. /\ peer[p].seqNo + 1 \in SeqNo /\ peer[p].seqNo + 1 <= MaxPings + 1
      /\ peer[p].state = "CONNECTED"
  BY PeerFacts, Constants DEF enet_peer_ping, SeqNo
<1>3. "PING" \in CommandType
  BY DEF CommandType
<1>4. /\ x \in PeerRecord /\ KeepsIdentity(peer[p], x)
      /\ x.state = "CONNECTED" /\ x.seqNo = peer[p].seqNo + 1
      /\ x.commands = peer[p].commands \cup {[type |-> "PING", seq |-> peer[p].seqNo + 1, tried |-> FALSE]}
  BY <1>2, <1>3, PeerFacts, QueueFields
<1>5. \A m \in x.commands : m.type = "CONNECT" => m \in peer[p].commands
  BY <1>4
<1>6. \E added : Adds(p, added)
  BY QuietAdds DEF enet_peer_ping
<1> HIDE DEF x
<1> QED
  BY <1>1, <1>2, <1>4, <1>5, <1>6 DEF Steady, Announced, enet_peer_ping, NoEvent

\* A connected peer that asks for its end keeps its identity.
LEMMA RequestSteady ==
    ASSUME ConnInv, NEW p \in Peer, peer[p].state \in {"CONNECTED", "DISCONNECT_LATER"},
           NEW r \in PeerRecord, KeepsIdentity(peer[p], r), r.seqNo = peer[p].seqNo,
           peer' = [peer EXCEPT ![p] = RequestDisconnect(r)],
           Quiet \/ (\E d \in net : Take(d)), NoEvent, UNCHANGED randomSeed
    PROVE  Steady(p)
<1> DEFINE x == RequestDisconnect(r)
<1>1. Only(p) /\ peer'[p] = x
  BY PeerFacts, OnlyExcept
<1>2. /\ x \in PeerRecord /\ KeepsIdentity(r, x)
      /\ x.state = "DISCONNECTING"
      /\ \A m \in x.commands : m.type = "DISCONNECT"
  BY PeerFacts, RequestFields
<1>3. \E added : Adds(p, added)
  BY QuietAdds
<1>4. KeepsIdentity(peer[p], x)
  BY <1>2 DEF KeepsIdentity
<1> HIDE DEF x
<1> QED
  BY <1>1, <1>2, <1>3, <1>4 DEF Steady, Announced, NoEvent

\* enet_peer_disconnect_later asks at once or notes that it will.
LEMMA LaterSteady ==
    ASSUME ConnInv, NEW p \in Peer, enet_peer_disconnect_later(p)
    PROVE  Steady(p)
<1> DEFINE x == [peer[p] EXCEPT !.state = "DISCONNECT_LATER"]
<1>1. Only(p) /\ peer'[p] = x
  BY PeerFacts, OnlyExcept DEF enet_peer_disconnect_later
<1>2. /\ x \in PeerRecord /\ KeepsIdentity(peer[p], x)
      /\ x.state = "DISCONNECT_LATER" /\ x.commands = peer[p].commands
      /\ x.seqNo = peer[p].seqNo
  BY PeerFacts DEF PeerRecord, PeerState, KeepsIdentity
<1>3. peer[p].state = "CONNECTED" /\ x.seqNo <= MaxPings + 1
  BY <1>2, PeerFacts DEF enet_peer_disconnect_later
<1>4. \E added : Adds(p, added)
  BY QuietAdds DEF enet_peer_disconnect_later
<1> HIDE DEF x
<1> QED
  BY <1>1, <1>2, <1>3, <1>4 DEF Steady, Announced, NoEvent, enet_peer_disconnect_later

\* Sending, or sending again, a command that waits.
LEMMA SendReliableSteady ==
    ASSUME ConnInv, NEW p \in Peer, SendReliable(p)
    PROVE  Steady(p)
<1>1. PICK c \in peer[p].commands :
         /\ peer' = [peer EXCEPT ![p].commands = (@ \ {c}) \cup {[c EXCEPT !.tried = TRUE]}]
         /\ Transmit(Datagram(p, c.type, c.seq))
  BY DEF SendReliable
<1>2. c \in Command
  BY PeerFacts DEF PeerRecord
<1> DEFINE e == [c EXCEPT !.tried = TRUE]
           x == [peer[p] EXCEPT !.commands = (@ \ {c}) \cup {e}]
<1>3. Only(p) /\ peer'[p] = x
  BY <1>1, PeerFacts, OnlyExcept
<1>4. e \in Command /\ e.type = c.type
  BY <1>2 DEF Command
<1>e. e = [c EXCEPT !.tried = TRUE]
  OBVIOUS
<1> HIDE DEF e
<1>5. /\ x \in PeerRecord /\ KeepsIdentity(peer[p], x)
      /\ x.state = peer[p].state /\ x.seqNo = peer[p].seqNo /\ x.acks = peer[p].acks
      /\ x.commands = (peer[p].commands \ {c}) \cup {e}
  BY <1>4, PeerFacts DEF PeerRecord, KeepsIdentity
<1>6. \A m \in x.commands : m.type = "CONNECT" => \E n \in peer[p].commands : n.type = "CONNECT"
  BY <1>4, <1>5
<1>7. \E added : Adds(p, added)
  <2>1. c.type \in CommandType /\ c.seq \in SeqNo
    BY <1>2 DEF Command
  <2>2. SentBy(Datagram(p, c.type, c.seq), p)
    BY <2>1, PeerFacts, DatagramSent
  <2> QED
    BY <1>1, <2>2, TransmitAdds
<1>8. x.state \notin {"DISCONNECTING", "ACKNOWLEDGING_DISCONNECT", "ZOMBIE"} => x.seqNo <= MaxPings + 1
  BY <1>5, PeerFacts
<1>9. x.state \notin Announced => x.acks = {}
  BY <1>5, PeerFacts
<1> HIDE DEF x
<1>10. x.state = "CONNECTING" => \E m \in peer[p].commands : x.commands =
                (peer[p].commands \ {m}) \cup {[m EXCEPT !.tried = TRUE]}
  BY <1>5, <1>e
<1> QED
  BY <1>3, <1>5, <1>6, <1>7, <1>8, <1>9, <1>10 DEF Steady, NoEvent, SendReliable, Serviced

\* Sending an acknowledgement, the last of which ends a disconnection.
LEMMA SendAckSteady ==
    ASSUME ConnInv, NEW p \in Peer, SendAck(p)
    PROVE  Steady(p)
<1>1. PICK a \in peer[p].acks :
         /\ peer' = [peer EXCEPT ![p].acks = @ \ {a},
                                 ![p].state = IF a.type = "DISCONNECT" THEN "ZOMBIE" ELSE @]
         /\ Transmit(Datagram(p, "ACKNOWLEDGE", a.seq))
  BY DEF SendAck
<1>2. a \in Ack
  BY PeerFacts DEF PeerRecord
<1>3. peer[p].state \in Announced
  BY PeerFacts
<1> DEFINE y == [peer[p] EXCEPT !.acks = @ \ {a}]
           x == [y EXCEPT !.state = IF a.type = "DISCONNECT" THEN "ZOMBIE" ELSE @]
<1>4. Only(p) /\ peer'[p] = x
  BY <1>1, PeerFacts DEF TypeOK, Only
<1>5. /\ y \in PeerRecord /\ KeepsIdentity(peer[p], y)
      /\ y.state = peer[p].state /\ y.seqNo = peer[p].seqNo /\ y.commands = peer[p].commands
  BY PeerFacts DEF PeerRecord, KeepsIdentity
<1> HIDE DEF y
<1>6. /\ x \in PeerRecord /\ KeepsIdentity(peer[p], x)
      /\ x.state \in {peer[p].state, "ZOMBIE"} /\ x.seqNo = peer[p].seqNo
      /\ x.commands = peer[p].commands
  BY <1>5 DEF PeerRecord, PeerState, KeepsIdentity
<1>7. \E added : Adds(p, added)
  <2>1. a.seq \in SeqNo
    BY <1>2 DEF Ack
  <2>2. SentBy(Datagram(p, "ACKNOWLEDGE", a.seq), p)
    BY <2>1, PeerFacts, DatagramSent
  <2> QED
    BY <1>1, <2>2, TransmitAdds
<1>8. x.state \notin {"DISCONNECTING", "ACKNOWLEDGING_DISCONNECT", "ZOMBIE"} => x.seqNo <= MaxPings + 1
  BY <1>6, PeerFacts
<1> HIDE DEF x
<1> QED
  BY <1>3, <1>4, <1>6, <1>7, <1>8 DEF Steady, NoEvent, SendAck, Serviced, Announced

\* What passing the filter says.
LEMMA AcceptedFacts ==
    ASSUME ConnInv, NEW d \in net, Accepted(d)
    PROVE  /\ d \in DatagramType /\ d.to \in Peer
           /\ d.sum = d.connectID /\ d.connectID = peer[d.to].connectID
           /\ peer[d.to].state \notin {"DISCONNECTED", "ZOMBIE"}
<1>1. d \in DatagramType
  BY DEF ConnInv, TypeOK
<1>2. d.to \in Peer /\ d.to # UNKNOWN
  BY <1>1 DEF Accepted, DatagramType
<1> QED
  BY <1>1, <1>2 DEF Accepted, Serviced, ConnInv, DatagramShape

\* A VERIFY_CONNECT that has been handled before.
LEMMA VerifyAgainSteady ==
    ASSUME ConnInv, NEW d \in net, handle_verify_connect(d), Take(d), UNCHANGED randomSeed,
           peer[d.to].state # "CONNECTING"
    PROVE  Steady(d.to)
<1> DEFINE p == d.to
           x == Acknowledge(peer[p], d)
<1>1. /\ d \in DatagramType /\ p \in Peer /\ peer[p].state # "DISCONNECTED"
      /\ d.type \in CommandType
  BY AcceptedFacts DEF handle_verify_connect, CommandType
<1>2. /\ peer' = [peer EXCEPT ![p] = x]
      /\ UNCHANGED <<randomSeed, told, announced>>
  BY DEF handle_verify_connect, NoEvent
<1>3. Only(p) /\ peer'[p] = x
  <2>1. TypeOK
    BY <1>1, PeerFacts
  <2> HIDE DEF x
  <2> QED BY <1>1, <1>2, <2>1, OnlyExcept
<1>4. /\ x \in PeerRecord /\ KeepsIdentity(peer[p], x)
      /\ x.state = peer[p].state /\ x.seqNo = peer[p].seqNo /\ x.commands = peer[p].commands
      /\ peer[p].state = "ACKNOWLEDGING_CONNECT" => x = peer[p]
  BY <1>1, PeerFacts, AcknowledgeFields
<1>5. \E added : Adds(p, added)
  BY <1>1, QuietAdds
<1>6. x.state \notin {"DISCONNECTING", "ACKNOWLEDGING_DISCONNECT", "ZOMBIE"} => x.seqNo <= MaxPings + 1
  BY <1>1, <1>4, PeerFacts
<1>7. x.state \notin Announced => x.acks = {}
  BY <1>1, <1>4, PeerFacts DEF Announced, PeerRecord, PeerState
<1> HIDE DEF x, p
<1> QED
  BY <1>1, <1>2, <1>3, <1>4, <1>5, <1>6, <1>7 DEF Steady, p

\* handle_ping acknowledges.
LEMMA HandlePingSteady ==
    ASSUME ConnInv, NEW d \in net, handle_ping(d), Take(d), UNCHANGED randomSeed
    PROVE  Steady(d.to)
<1> DEFINE p == d.to
           x == Acknowledge(peer[p], d)
<1>1. /\ d \in DatagramType /\ p \in Peer /\ peer[p].state \in {"CONNECTED", "DISCONNECT_LATER"}
      /\ d.type \in CommandType
  BY AcceptedFacts DEF handle_ping, CommandType
<1>2. /\ peer' = [peer EXCEPT ![p] = x]
      /\ UNCHANGED <<randomSeed, told, announced>>
  BY DEF handle_ping, NoEvent
<1>3. Only(p) /\ peer'[p] = x
  <2>1. TypeOK
    BY <1>1, PeerFacts
  <2> HIDE DEF x
  <2> QED BY <1>1, <1>2, <2>1, OnlyExcept
<1>4. /\ x \in PeerRecord /\ KeepsIdentity(peer[p], x)
      /\ x.state = peer[p].state /\ x.seqNo = peer[p].seqNo /\ x.commands = peer[p].commands
  BY <1>1, PeerFacts, AcknowledgeFields
<1>5. \E added : Adds(p, added)
  BY <1>1, QuietAdds
<1>6. x.state \notin {"DISCONNECTING", "ACKNOWLEDGING_DISCONNECT", "ZOMBIE"} => x.seqNo <= MaxPings + 1
  BY <1>1, <1>4, PeerFacts
<1> HIDE DEF x, p
<1> QED
  BY <1>1, <1>2, <1>3, <1>4, <1>5, <1>6 DEF Steady, p, Announced

\* handle_disconnect at a peer whose connection the application knows.
LEMMA DisconnectSteady ==
    ASSUME ConnInv, NEW d \in net, handle_disconnect(d), Take(d), UNCHANGED randomSeed,
           peer[d.to].state # "ACKNOWLEDGING_CONNECT"
    PROVE  Steady(d.to)
<1> DEFINE p == d.to
           y == Disconnected(peer[p], d)
           z == enet_peer_reset_queues(peer[p])
           x == IF d.type = "DISCONNECT" THEN Acknowledge(y, d) ELSE y
<1>1. /\ d \in DatagramType /\ p \in Peer
      /\ peer[p].state \notin {"DISCONNECTED", "ZOMBIE", "ACKNOWLEDGING_CONNECT"}
      /\ peer[p] \in PeerRecord
  BY AcceptedFacts, PeerFacts DEF handle_disconnect
<1>2. /\ peer' = [peer EXCEPT ![p] = x]
      /\ UNCHANGED <<randomSeed, told, announced>>
  BY DEF handle_disconnect, NoEvent
<1>3. Only(p) /\ peer'[p] = x
  <2>1. TypeOK
    BY <1>1, PeerFacts
  <2> HIDE DEF x
  <2> QED BY <1>1, <1>2, <2>1, OnlyExcept
<1>4. /\ z \in PeerRecord /\ KeepsIdentity(peer[p], z) /\ z.commands = {}
  BY <1>1, ResetQueuesFields
<1>5. /\ y \in PeerRecord /\ KeepsIdentity(peer[p], y)
      /\ \/ y.commands = {}
         \/ y.commands = peer[p].commands /\ peer[p].state = "ACKNOWLEDGING_DISCONNECT"
      /\ y.state \in {"ZOMBIE", "ACKNOWLEDGING_DISCONNECT"}
  <2> HIDE DEF z
  <2>1. \/ y = [z EXCEPT !.state = "ZOMBIE"]
        \/ y = [z EXCEPT !.state = "ACKNOWLEDGING_DISCONNECT"] /\ peer[p].state # "CONNECTING"
        \/ y = peer[p] /\ peer[p].state = "ACKNOWLEDGING_DISCONNECT"
    <3> HIDE DEF p
    <3> USE DEF z
    <3>1. CASE peer[p].state \in {"DISCONNECTING", "CONNECTING"}
      BY <3>1 DEF Disconnected
    <3>2. CASE peer[p].state \in {"CONNECTED", "DISCONNECT_LATER"}
      BY <3>2 DEF Disconnected
    <3>3. CASE peer[p].state = "ACKNOWLEDGING_DISCONNECT"
      BY <3>3 DEF Disconnected
    <3> QED
      BY <1>1, <3>1, <3>2, <3>3 DEF PeerRecord, PeerState
  <2> HIDE DEF y
  <2> QED
    BY <1>1, <1>4, <2>1 DEF KeepsIdentity, PeerRecord, PeerState
<1> HIDE DEF y
<1>6. /\ x \in PeerRecord /\ KeepsIdentity(y, x) /\ x.state = y.state /\ x.commands = y.commands
  <2>1. CASE d.type = "DISCONNECT"
    <3>1. d.type \in CommandType
      BY <2>1 DEF CommandType
    <3> QED BY <1>1, <1>5, <2>1, <3>1, AcknowledgeFields
  <2>2. CASE d.type # "DISCONNECT"
    BY <1>5, <2>2 DEF KeepsIdentity
  <2> QED BY <2>1, <2>2
<1>7. KeepsIdentity(peer[p], x)
  BY <1>5, <1>6 DEF KeepsIdentity
<1>8. \E added : Adds(p, added)
  BY <1>1, QuietAdds
<1>9. /\ peer[p].state \in Announced \/ (peer[p].state = "CONNECTING" /\ x.commands = {} /\ x.state \in {"ZOMBIE", "ACKNOWLEDGING_DISCONNECT"})
      /\ x.state \in {"ZOMBIE", "ACKNOWLEDGING_DISCONNECT"}
  BY <1>1, <1>5, <1>6 DEF Announced, PeerRecord, PeerState
<1>10. peer[p].state = "CONNECTING" => x.state = "ZOMBIE"
  <2>1. peer[p].state = "CONNECTING" => y = [z EXCEPT !.state = "ZOMBIE"]
    BY DEF y, Disconnected
  <2> QED BY <1>4, <1>6, <2>1 DEF PeerRecord
<1> HIDE DEF x, p
<1> QED
  BY <1>1, <1>2, <1>3, <1>5, <1>6, <1>7, <1>8, <1>9, <1>10 DEF Steady, p, Announced

\* A peer from which an acknowledgement has removed its command.
LEMMA AckedFields ==
    ASSUME NEW r \in PeerRecord, NEW seq,
           NEW x, x = [r EXCEPT !.commands = @ \ AckedBy(r, seq)]
    PROVE  /\ x \in PeerRecord /\ KeepsIdentity(r, x)
           /\ x.state = r.state /\ x.seqNo = r.seqNo /\ x.acks = r.acks
           /\ x.commands = r.commands \ AckedBy(r, seq)
  BY DEF PeerRecord, KeepsIdentity

\* handle_acknowledge of a command other than the last of a handshake or an end.
LEMMA AcknowledgeSteady ==
    ASSUME ConnInv, NEW d \in net, handle_acknowledge(d), Take(d), UNCHANGED randomSeed,
           peer[d.to].state \notin {"ACKNOWLEDGING_CONNECT", "DISCONNECTING"}
    PROVE  Steady(d.to)
<1> DEFINE p == d.to
           r == [peer[p] EXCEPT !.commands = @ \ AckedBy(peer[p], d.seq)]
<1>1. /\ d \in DatagramType /\ p \in Peer /\ peer[p].state # "DISCONNECTED"
      /\ peer[p] \in PeerRecord
  BY AcceptedFacts, PeerFacts DEF handle_acknowledge
<1>2. /\ r \in PeerRecord /\ KeepsIdentity(peer[p], r)
      /\ r.state = peer[p].state /\ r.seqNo = peer[p].seqNo /\ r.acks = peer[p].acks
      /\ r.commands \subseteq peer[p].commands
  BY <1>1, AckedFields
<1>3. NoEvent /\ \/ r.state = "DISCONNECT_LATER" /\ peer' = [peer EXCEPT ![p] = RequestDisconnect(r)]
                 \/ peer' = [peer EXCEPT ![p] = r]
  BY <1>2 DEF handle_acknowledge
<1> HIDE DEF r
<1>4. CASE r.state = "DISCONNECT_LATER" /\ peer' = [peer EXCEPT ![p] = RequestDisconnect(r)]
  BY <1>1, <1>2, <1>3, <1>4, RequestSteady
<1>5. CASE peer' = [peer EXCEPT ![p] = r]
  <2>1. Only(p) /\ peer'[p] = r
    BY <1>1, <1>5, PeerFacts, OnlyExcept
  <2>2. (\E added : Adds(p, added)) /\ net' \subseteq net
    BY <1>1, QuietAdds
  <2>3. r.state \notin {"DISCONNECTING", "ACKNOWLEDGING_DISCONNECT", "ZOMBIE"} => r.seqNo <= MaxPings + 1
    BY <1>1, <1>2, PeerFacts
  <2>4. r.state \notin Announced => r.acks = {}
    BY <1>1, <1>2, PeerFacts
  <2> HIDE DEF p
  <2> QED
    BY <1>1, <1>2, <1>3, <2>1, <2>2, <2>3, <2>4 DEF Steady, NoEvent, p
<1> QED
  BY <1>3, <1>4, <1>5

-----------------------------------------------------------------------------
\* The ends of a connection.

\* A peer that is reset leaves its connection, which the application is told unless
\* it has never heard of it.
LEMMA ResetLeaves ==
    ASSUME ConnInv, NEW p \in Peer, peer[p].state # "DISCONNECTED",
           NEW r \in PeerRecord, KeepsIdentity(peer[p], r),
           peer' = [peer EXCEPT ![p] = enet_peer_reset(r)],
           NEW added, Adds(p, added), \A e \in net' : e \notin Expired \/ e \in added,
           \/ peer[p].state # "ACKNOWLEDGING_CONNECT" /\ EndEvent(p)
           \/ /\ peer[p].state = "ACKNOWLEDGING_CONNECT" /\ NoEvent
              /\ \/ Waiting(peer[p]) /\ net' \cap older[p] = {}
                 \/ \E d \in net : Accepted(d) /\ d.to = p,
           UNCHANGED randomSeed
    PROVE  Leaves(p)
<1> DEFINE x == enet_peer_reset(r)
<1>1. Only(p) /\ peer'[p] = x
  BY PeerFacts, OnlyExcept
<1>2. /\ x \in PeerRecord
      /\ x.state = "DISCONNECTED" /\ x.connectID = 0 /\ x.outgoingPeerID = UNKNOWN
      /\ x.incomingSessionID = r.incomingSessionID
      /\ x.outgoingSessionID = r.outgoingSessionID
      /\ x.seqNo = 0 /\ x.acks = {} /\ x.commands = {}
  BY ResetFields
<1> HIDE DEF x
<1>3. ASSUME p \in Slots, NEW d \in net' PROVE d.connectID >= peer[p].connectID
  <2>1. peer'[p].connectID # peer[p].connectID
    BY <1>1, <1>2 DEF ConnInv, PeerShape
  <2>2. CASE d \in added
    BY <2>2, Constants, PeerFacts DEF Adds, SentBy, PeerRecord
  <2>3. CASE d \in net /\ d \notin Expired
    BY <1>3, <2>1, <2>3, ExpiredLeft, PeerFacts
  <2> QED
    BY <1>3, <2>2, <2>3 DEF Adds
<1>4. /\ \/ told' = [told EXCEPT ![p] = 0]
         \/ told' = told /\ peer[p].state = "ACKNOWLEDGING_CONNECT"
      /\ UNCHANGED announced
  BY DEF EndEvent, NoEvent
<1>5. p \in Slots /\ peer[p].state = "ACKNOWLEDGING_CONNECT" =>
          \/ Waiting(peer[p]) /\ net' \cap older[p] = {}
          \/ \E d \in net : Accepted(d) /\ d.to = p
  OBVIOUS
<1>6. /\ x.incomingSessionID = peer[p].incomingSessionID
      /\ x.outgoingSessionID = peer[p].outgoingSessionID
  BY <1>2 DEF KeepsIdentity
<1> QED
  BY <1>1, <1>2, <1>3, <1>4, <1>5, <1>6 DEF Leaves

\* The calls of the application that give a peer up.
LEMMA ApplicationLeaves ==
    ASSUME ConnInv, NEW p \in Peer,
           \/ enet_peer_disconnect_now(p)
           \/ ResetPeer(p)
           \/ enet_peer_disconnect(p) /\ peer[p].state \notin {"CONNECTED", "DISCONNECT_LATER"}
    PROVE  Leaves(p)
<1> DEFINE d == Datagram(p, "DISCONNECT_UNSEQUENCED", 0)
<1>1. /\ peer[p] \in PeerRecord /\ KeepsIdentity(peer[p], peer[p])
  BY PeerFacts DEF KeepsIdentity
<1>2. SentBy(d, p)
  BY PeerFacts, Constants, DatagramSent
<1> HIDE DEF d
<1>3. \E added : Adds(p, added) /\ \A e \in net' : e \notin Expired \/ e \in added
  <2>1. Quiet \/ Transmit(d)
    BY DEF d, enet_peer_disconnect_now, ResetPeer, enet_peer_disconnect
  <2>2. CASE Quiet
    BY <2>2, QuietAdds
  <2>3. CASE Transmit(d)
    <3>1. Adds(p, {d}) /\ \A e \in net' : e \notin Expired \/ e = d
      BY <1>2, <2>3, TransmitAdds
    <3>2. \A e \in net' : e \notin Expired \/ e \in {d}
      BY <3>1
    <3> QED BY <3>1, <3>2
  <2> QED BY <2>1, <2>2, <2>3
<1>4. /\ peer[p].state # "DISCONNECTED" /\ peer[p].state # "ACKNOWLEDGING_CONNECT"
      /\ peer' = [peer EXCEPT ![p] = enet_peer_reset(peer[p])]
      /\ EndEvent(p) /\ UNCHANGED randomSeed
  BY PeerFacts DEF enet_peer_disconnect_now, ResetPeer, enet_peer_disconnect
<1> QED
  BY <1>1, <1>3, <1>4, ResetLeaves

\* A timeout, and the dispatch of the DISCONNECT event.
LEMMA ServiceLeaves ==
    ASSUME ConnInv, NEW p \in Peer, Timeout(p) \/ Dispatch(p)
    PROVE  Leaves(p)
<1>1. /\ peer[p] \in PeerRecord /\ KeepsIdentity(peer[p], peer[p])
  BY PeerFacts DEF KeepsIdentity
<1>2. \E added : Adds(p, added) /\ \A e \in net' : e \notin Expired \/ e \in added
  BY QuietAdds DEF Timeout, Dispatch
<1>3. /\ peer[p].state # "DISCONNECTED"
      /\ peer' = [peer EXCEPT ![p] = enet_peer_reset(peer[p])]
      /\ UNCHANGED randomSeed
  BY DEF Timeout, Dispatch, Serviced
<1>4. \/ peer[p].state # "ACKNOWLEDGING_CONNECT" /\ EndEvent(p)
      \/ /\ peer[p].state = "ACKNOWLEDGING_CONNECT" /\ NoEvent
         /\ Waiting(peer[p]) /\ net' \cap older[p] = {}
  BY DEF Timeout, Dispatch
<1> QED
  BY <1>1, <1>2, <1>3, <1>4, ResetLeaves

\* The datagrams that end a connection on arrival.
LEMMA ReceiveLeaves ==
    ASSUME ConnInv, NEW d \in net, Take(d), UNCHANGED randomSeed,
           \/ handle_disconnect(d) /\ peer[d.to].state = "ACKNOWLEDGING_CONNECT"
           \/ handle_acknowledge(d) /\ peer[d.to].state = "DISCONNECTING"
    PROVE  Leaves(d.to)
<1> DEFINE p == d.to
<1>1. Accepted(d) /\ p \in Peer /\ peer[p].state # "DISCONNECTED" /\ peer[p] \in PeerRecord
  BY AcceptedFacts, PeerFacts DEF handle_disconnect, handle_acknowledge
<1>2. Adds(p, {}) /\ \A e \in net' : e \notin Expired \/ e \in {}
  BY <1>1, QuietAdds
<1>3. CASE handle_disconnect(d) /\ peer[p].state = "ACKNOWLEDGING_CONNECT"
  <2>1. Disconnected(peer[p], d) = enet_peer_reset(peer[p])
    BY <1>3 DEF Disconnected
  <2>2. enet_peer_reset(peer[p]).state = "DISCONNECTED"
    BY <1>1, ResetFields
  <2>3. Acknowledge(enet_peer_reset(peer[p]), d) = enet_peer_reset(peer[p])
    BY <2>2 DEF Acknowledge
  <2>4. peer' = [peer EXCEPT ![p] = enet_peer_reset(peer[p])] /\ NoEvent
    BY <1>3, <2>1, <2>3 DEF handle_disconnect
  <2>5. KeepsIdentity(peer[p], peer[p])
    BY DEF KeepsIdentity
  <2> QED
    BY <1>1, <1>2, <1>3, <2>4, <2>5, ResetLeaves
<1>4. CASE handle_acknowledge(d) /\ peer[p].state = "DISCONNECTING"
  <2> DEFINE r == [peer[p] EXCEPT !.commands = @ \ AckedBy(peer[p], d.seq)]
  <2>1. r \in PeerRecord /\ KeepsIdentity(peer[p], r) /\ r.state = peer[p].state
    BY <1>1, AckedFields
  <2>2. peer' = [peer EXCEPT ![p] = enet_peer_reset(r)] /\ EndEvent(p)
    BY <1>4, <2>1 DEF handle_acknowledge
  <2> HIDE DEF r
  <2> QED
    BY <1>1, <1>2, <1>4, <2>1, <2>2, ResetLeaves
<1> QED
  BY <1>3, <1>4

-----------------------------------------------------------------------------
\* The beginnings of a connection.

\* The active host starts one.
Opens ==
    /\ Only(Active) /\ ActivePeer.state = "DISCONNECTED" /\ ActivePeer' \in PeerRecord
    /\ ActivePeer'.state = "CONNECTING" /\ ActivePeer'.connectID = randomSeed'
    /\ ActivePeer'.outgoingPeerID = ActivePeer.outgoingPeerID
    /\ ActivePeer'.incomingSessionID = ActivePeer.incomingSessionID
    /\ ActivePeer'.outgoingSessionID = ActivePeer.outgoingSessionID
    /\ ActivePeer'.seqNo = 1 /\ ActivePeer'.acks = {}
    /\ ActivePeer'.commands = {[type |-> "CONNECT", seq |-> 1, tried |-> FALSE]}
    /\ net' \subseteq net /\ Ages({})
    /\ randomSeed < MaxConns /\ randomSeed' = randomSeed + 1
    /\ UNCHANGED <<told, announced>>

\* Slot p takes the connection of the CONNECT d.
Accepts(p, d) ==
    /\ Only(p) /\ p \in Slots /\ d \in net /\ d.type = "CONNECT"
    /\ peer[p].state = "DISCONNECTED" /\ peer'[p] \in PeerRecord
    /\ peer'[p].state = "ACKNOWLEDGING_CONNECT" /\ peer'[p].connectID = d.connectID
    /\ peer'[p].outgoingPeerID = Active
    /\ peer'[p].incomingSessionID # peer[p].incomingSessionID
    /\ peer'[p].outgoingSessionID = peer'[p].incomingSessionID
    /\ peer'[p].seqNo = 1 /\ peer'[p].acks = {}
    /\ \A m \in peer'[p].commands : m.type = "VERIFY_CONNECT" /\ ~m.tried
    /\ \A q \in Slots : peer[q].state # "DISCONNECTED" => peer[q].connectID # d.connectID
    /\ net' \subseteq net /\ Ages({})
    /\ UNCHANGED <<randomSeed, told, announced>>

\* The active host hears from slot d.from that it has taken the connection.
Verifies(d) ==
    /\ Only(Active) /\ d \in net /\ d.from \in Slots /\ ActivePeer.state = "CONNECTING"
    /\ d.connectID = ActivePeer.connectID /\ ActivePeer' \in PeerRecord
    /\ ActivePeer'.state = "CONNECTED" /\ ActivePeer'.connectID = ActivePeer.connectID
    /\ ActivePeer'.outgoingPeerID = d.from
    /\ ActivePeer'.incomingSessionID = ActivePeer'.outgoingSessionID
    /\ ActivePeer'.seqNo = ActivePeer.seqNo
    /\ ActivePeer'.commands = {}
    /\ net' \subseteq net /\ Ages({})
    /\ told' = [told EXCEPT ![Active] = ActivePeer.connectID]
    /\ UNCHANGED <<randomSeed, announced>>

\* A slot hears from the active host that it knows of the connection.
Announces(p, d) ==
    /\ Only(p) /\ p \in Slots /\ d \in net /\ Names(d, p, peer[p].connectID)
    /\ d.session = peer[p].incomingSessionID
    /\ peer[p].state = "ACKNOWLEDGING_CONNECT" /\ peer'[p] \in PeerRecord
    /\ KeepsIdentity(peer[p], peer'[p]) /\ peer'[p].state = "CONNECTED"
    /\ peer'[p].seqNo = peer[p].seqNo /\ peer'[p].commands \subseteq peer[p].commands
    /\ net' \subseteq net /\ Ages({})
    /\ told' = [told EXCEPT ![p] = peer[p].connectID]
    /\ announced' = announced \cup {peer[p].connectID}
    /\ UNCHANGED randomSeed

Loses == net' \subseteq net /\ Ages({}) /\ UNCHANGED <<peer, randomSeed, told, announced>>

\* enet_host_connect makes the connecting peer ask for a new connection.
LEMMA ConnectOpens ==
    ASSUME ConnInv, enet_host_connect
    PROVE  Opens
<1> DEFINE r == [ActivePeer EXCEPT !.state = "CONNECTING", !.connectID = randomSeed']
           x == queue_outgoing_command(r, "CONNECT")
<1>1. ActivePeer.state = "DISCONNECTED" /\ randomSeed' \in 0..MaxConns
  BY Constants DEF enet_host_connect, ActivePeer, ConnInv, TypeOK
<1>2. peer' = [peer EXCEPT ![Active] = x]
  BY DEF enet_host_connect, ActivePeer
<1>3. Only(Active) /\ peer'[Active] = x
  BY <1>2, PeerFacts, OnlyExcept, Constants
<1>4. ActivePeer \in PeerRecord /\ ActivePeer.seqNo = 0 /\ ActivePeer.commands = {} /\ ActivePeer.acks = {}
  BY <1>1, PeerFacts, Constants DEF ConnInv, PeerShape, Announced, ActivePeer
<1>5. /\ r \in PeerRecord /\ r.seqNo = 0 /\ r.commands = {} /\ r.acks = {} /\ r.state = "CONNECTING"
      /\ r.connectID = randomSeed' /\ r.outgoingPeerID = ActivePeer.outgoingPeerID
      /\ r.incomingSessionID = ActivePeer.incomingSessionID
      /\ r.outgoingSessionID = ActivePeer.outgoingSessionID
  BY <1>1, <1>4 DEF PeerRecord, PeerState
<1> HIDE DEF r
<1>6. /\ x \in PeerRecord /\ KeepsIdentity(r, x)
      /\ x.state = r.state /\ x.seqNo = r.seqNo + 1 /\ x.acks = r.acks
      /\ x.commands = r.commands \cup {[type |-> "CONNECT", seq |-> r.seqNo + 1, tried |-> FALSE]}
  <2>1. "CONNECT" \in CommandType /\ r.seqNo + 1 \in SeqNo
    BY <1>5, Constants DEF CommandType
  <2> QED BY <1>5, <2>1, QueueFields
<1> HIDE DEF x
<1>7. x.seqNo = 1 /\ x.commands = {[type |-> "CONNECT", seq |-> 1, tried |-> FALSE]}
  <2>1. r.seqNo + 1 = 1
    BY <1>5
  <2> QED BY <1>5, <1>6, <2>1
<1>8. net' \subseteq net /\ Ages({})
  BY DEF enet_host_connect, Quiet
<1> QED
  BY <1>1, <1>3, <1>5, <1>6, <1>7, <1>8
     DEF Opens, ActivePeer, KeepsIdentity, enet_host_connect, NoEvent

\* The session number handle_connect picks is never the one the slot had.
LEMMA NextSessionFacts ==
    ASSUME NEW asked \in Session, NEW own \in Session
    PROVE  NextSession(asked, own) \in Session /\ NextSession(asked, own) # own
<1> DEFINE base == IF asked = NOSESSION THEN own ELSE asked
           next == (base + 1) % SessionCount
<1>1. base \in Nat /\ own \in Nat /\ SessionCount \in Nat /\ SessionCount > 1
  BY Constants DEF Session, NOSESSION
<1>2. next \in 0..(SessionCount - 1) /\ (next + 1) % SessionCount \in 0..(SessionCount - 1)
  BY <1>1
<1>3. (next + 1) % SessionCount # next
  <2>1. CASE next + 1 < SessionCount
    BY <1>1, <1>2, <2>1
  <2>2. CASE next + 1 = SessionCount
    BY <1>1, <1>2, <2>2
  <2> QED BY <1>1, <1>2, <2>1, <2>2
<1>4. NextSession(asked, own) = IF next = own THEN (next + 1) % SessionCount ELSE next
  BY DEF NextSession
<1> QED
  BY <1>2, <1>3, <1>4 DEF Session

\* The acknowledgement of a VERIFY_CONNECT is what the CONNECT event waits for.
LEMMA AckAnnounces ==
    ASSUME ConnInv, NEW d \in net, handle_acknowledge(d), Take(d), UNCHANGED randomSeed,
           peer[d.to].state = "ACKNOWLEDGING_CONNECT"
    PROVE  Announces(d.to, d)
<1> DEFINE p == d.to
           r == [peer[p] EXCEPT !.commands = @ \ AckedBy(peer[p], d.seq)]
           x == [r EXCEPT !.state = "CONNECTED"]
<1>1. /\ Accepted(d) /\ p \in Peer /\ peer[p] \in PeerRecord
      /\ d.sum = d.connectID /\ d.connectID = peer[p].connectID
  BY AcceptedFacts, PeerFacts DEF handle_acknowledge
<1>2. p \in Slots
  BY <1>1, Constants DEF ConnInv, PeerShape, ActivePeer
<1>3. Names(d, p, peer[p].connectID)
  BY <1>1, <1>2, Constants DEF Names, ConnInv, DatagramShape
<1>4. d.session = peer[p].incomingSessionID
  BY <1>1, <1>2, Constants DEF Accepted, ConnInv, PeerShape
<1>5. /\ r \in PeerRecord /\ KeepsIdentity(peer[p], r)
      /\ r.state = peer[p].state /\ r.seqNo = peer[p].seqNo
      /\ r.commands \subseteq peer[p].commands
  BY <1>1, AckedFields
<1>6. /\ peer' = [peer EXCEPT ![p] = x] /\ ConnectEvent(p)
  BY <1>5 DEF handle_acknowledge
<1>7. Only(p) /\ peer'[p] = x
  BY <1>1, <1>6, PeerFacts, OnlyExcept
<1> HIDE DEF r
<1>8. /\ x \in PeerRecord /\ KeepsIdentity(peer[p], x) /\ x.state = "CONNECTED"
      /\ x.seqNo = peer[p].seqNo /\ x.commands \subseteq peer[p].commands
  BY <1>5 DEF PeerRecord, PeerState, KeepsIdentity
<1>9. net' \subseteq net /\ Ages({})
  BY DEF Take
<1> HIDE DEF x, p
<1> QED
  BY <1>2, <1>3, <1>4, <1>6, <1>7, <1>8, <1>9 DEF Announces, ConnectEvent, p

\* A set of numbers has a least one.
LEMMA LeastNat ==
    ASSUME NEW S \in SUBSET Nat, S # {}
    PROVE  \E n \in S : \A m \in S : n <= m
<1> DEFINE R == OpToRel(<, Nat)
<1>1. IsWellFoundedOn(R, Nat)
  BY NatLessThanWellFounded
<1>2. ASSUME NEW x \in Nat, NEW y \in Nat, x < y PROVE <<x, y>> \in R
  BY <1>2 DEF OpToRel
<1> HIDE DEF R
<1>3. PICK x \in S : \A y \in S : ~(<<y, x>> \in R)
  BY <1>1, WFMin
<1>4. ASSUME NEW y \in S PROVE x <= y
  <2>1. x \in Nat /\ y \in Nat
    OBVIOUS
  <2>2. ~(y < x)
    BY <2>1, <1>2, <1>3, Zenon
  <2> QED BY <2>1, <2>2
<1> QED BY <1>4

\* handle_connect gives the connection to an unused slot.
LEMMA ConnectAccepts ==
    ASSUME ConnInv, NEW d \in net, handle_connect(d), Take(d), UNCHANGED randomSeed
    PROVE  \E p \in Slots : Accepts(p, d)
<1> DEFINE free == {p \in Slots : peer[p].state = "DISCONNECTED"}
           slot == CHOOSE p \in free : \A q \in free : p <= q
<1>1. slot \in free
  <2>1. free \in SUBSET Nat /\ free # {}
    BY Constants DEF handle_connect, Slots
  <2>2. \E p \in free : \A q \in free : p <= q
    BY <2>1, LeastNat
  <2> QED BY <2>2
<1> DEFINE own == peer[slot]
           number == NextSession(d.incomingSessionID, own.incomingSessionID)
           r == [own EXCEPT !.state = "ACKNOWLEDGING_CONNECT",
                            !.connectID = d.connectID,
                            !.outgoingPeerID = d.from,
                            !.outgoingSessionID = NextSession(d.incomingSessionID,
                                                              own.outgoingSessionID),
                            !.incomingSessionID = NextSession(d.outgoingSessionID,
                                                              own.incomingSessionID)]
           x == queue_outgoing_command(r, "VERIFY_CONNECT")
<1>2. /\ d.type = "CONNECT" /\ ~DuplicateConnect(d) /\ NoEvent
      /\ peer' = [peer EXCEPT ![slot] = x]
  BY DEF handle_connect
<1> HIDE DEF slot
<1>3. slot \in Slots /\ slot \in Peer /\ own.state = "DISCONNECTED"
  BY <1>1, Constants
<1>4. Only(slot) /\ peer'[slot] = x
  BY <1>2, <1>3, PeerFacts, OnlyExcept
<1>5. /\ own \in PeerRecord /\ own.seqNo = 0 /\ own.commands = {} /\ own.acks = {}
      /\ own.incomingSessionID = own.outgoingSessionID /\ own.incomingSessionID \in Session
  BY <1>3, PeerFacts DEF ConnInv, PeerShape, Announced, PeerRecord
<1>6. /\ d.from = Active /\ d.connectID \in 0..MaxConns
      /\ d.incomingSessionID = d.outgoingSessionID /\ d.incomingSessionID \in Session
  BY <1>2 DEF ConnInv, DatagramShape, TypeOK, DatagramType
<1>7. number \in Session /\ number # own.incomingSessionID
  BY <1>5, <1>6, NextSessionFacts
<1>8. r = [own EXCEPT !.state = "ACKNOWLEDGING_CONNECT", !.connectID = d.connectID,
                      !.outgoingPeerID = Active, !.outgoingSessionID = number,
                      !.incomingSessionID = number]
  BY <1>5, <1>6
<1> HIDE DEF number, r, own
<1>9. /\ r \in PeerRecord /\ r.seqNo = 0 /\ r.commands = {} /\ r.acks = {}
      /\ r.state = "ACKNOWLEDGING_CONNECT"
      /\ r.connectID = d.connectID /\ r.outgoingPeerID = Active
      /\ r.incomingSessionID = number /\ r.outgoingSessionID = number
  BY <1>5, <1>6, <1>7, <1>8, Constants DEF PeerRecord, PeerState
<1>10. /\ x \in PeerRecord /\ KeepsIdentity(r, x)
       /\ x.state = r.state /\ x.seqNo = r.seqNo + 1 /\ x.acks = r.acks
       /\ x.commands = r.commands \cup {[type |-> "VERIFY_CONNECT", seq |-> r.seqNo + 1, tried |-> FALSE]}
  <2>1. "VERIFY_CONNECT" \in CommandType /\ r.seqNo + 1 \in SeqNo
    BY <1>9, Constants DEF CommandType
  <2> QED BY <1>9, <2>1, QueueFields
<1> HIDE DEF x
<1>11. x.seqNo = 1 /\ \A m \in x.commands : m.type = "VERIFY_CONNECT" /\ ~m.tried
  BY <1>9, <1>10
<1>12. net' \subseteq net /\ Ages({})
  BY DEF Take
<1>13. \A q \in Slots : peer[q].state # "DISCONNECTED" => peer[q].connectID # d.connectID
  BY <1>2 DEF DuplicateConnect
<1> HIDE DEF free
<1> QED
  BY <1>2, <1>3, <1>4, <1>7, <1>9, <1>10, <1>11, <1>12, <1>13
     DEF Accepts, KeepsIdentity, NoEvent, own

\* The first VERIFY_CONNECT tells the connecting peer its slot and session numbers.
LEMMA VerifyVerifies ==
    ASSUME ConnInv, NEW d \in net, handle_verify_connect(d), Take(d), UNCHANGED randomSeed,
           peer[d.to].state = "CONNECTING"
    PROVE  Verifies(d)
<1> DEFINE y == Verified(ActivePeer, d)
           x == Acknowledge(y, d)
<1>1. /\ d \in DatagramType /\ d.to \in Peer /\ d.connectID = peer[d.to].connectID
      /\ d.type = "VERIFY_CONNECT"
  BY AcceptedFacts DEF handle_verify_connect
<1>2. d.to = Active /\ peer[d.to] = ActivePeer
  BY <1>1, Constants DEF ConnInv, PeerShape, ActivePeer
<1>3. d.from \in Slots /\ d.incomingSessionID = d.outgoingSessionID
  BY <1>1, <1>2, Constants DEF ConnInv, DatagramShape, DatagramType
<1>4. peer' = [peer EXCEPT ![Active] = x] /\ ConnectEvent(Active)
  BY <1>2 DEF handle_verify_connect, ActivePeer
<1>5. ActivePeer \in PeerRecord /\ ActivePeer.connectID = d.connectID /\ ActivePeer.state = "CONNECTING"
  BY <1>1, <1>2, PeerFacts, Constants
<1>6. Only(Active) /\ peer'[Active] = x
  BY <1>4, PeerFacts, OnlyExcept, Constants
<1>7. \A m \in ActivePeer.commands : m.seq = 1 /\ m.tried
  <2>1. \A m \in ActivePeer.commands : m.tried \in BOOLEAN
    BY <1>5 DEF PeerRecord, Command
  <2> QED BY <1>5, <2>1 DEF ConnInv, ConnectFirst
<1>8. /\ y \in PeerRecord /\ y.state = "CONNECTED" /\ y.connectID = ActivePeer.connectID
      /\ y.outgoingPeerID = d.from /\ y.incomingSessionID = y.outgoingSessionID
      /\ y.seqNo = ActivePeer.seqNo /\ y.commands = {}
  <2> DEFINE left == {c \in ActivePeer.commands : ~(c.seq = 1 /\ c.tried)}
  <2>1. left = {}
    BY <1>7
  <2>2. y = [ActivePeer EXCEPT !.state = "CONNECTED", !.outgoingPeerID = d.from,
              !.incomingSessionID = d.outgoingSessionID,
              !.outgoingSessionID = d.incomingSessionID,
              !.commands = left]
    BY DEF Verified
  <2> HIDE DEF left, y
  <2> QED
    BY <1>1, <1>3, <1>5, <2>1, <2>2, Constants DEF PeerRecord, PeerState, DatagramType
<1> HIDE DEF y
<1>9. /\ x \in PeerRecord /\ KeepsIdentity(y, x)
      /\ x.state = y.state /\ x.seqNo = y.seqNo /\ x.commands = y.commands
  <2>1. d.type \in CommandType
    BY <1>1 DEF CommandType
  <2> QED BY <1>1, <1>8, <2>1, AcknowledgeFields
<1> HIDE DEF x
<1>10. net' \subseteq net /\ Ages({})
  BY DEF Take
<1>11. ConnectEvent(Active) => told' = [told EXCEPT ![Active] = ActivePeer.connectID] /\ UNCHANGED announced
  BY Constants DEF ConnectEvent, ActivePeer
<1> QED
  BY <1>3, <1>4, <1>5, <1>6, <1>8, <1>9, <1>10, <1>11 DEF Verifies, KeepsIdentity, ActivePeer

\* Every step is of one of these kinds.
LEMMA Kinds ==
    ASSUME ConnInv, [Next]_vars
    PROVE  \/ UNCHANGED vars
           \/ Loses
           \/ Opens
           \/ \E p \in Peer : Steady(p) \/ Leaves(p)
           \/ \E d \in net : Verifies(d) \/ \E p \in Slots : Accepts(p, d) \/ Announces(p, d)
<1>1. CASE UNCHANGED vars
  BY <1>1
<1>2. CASE enet_host_connect
  BY <1>2, ConnectOpens
<1>3. ASSUME NEW p \in Peer,
             \/ enet_peer_ping(p) \/ enet_peer_disconnect(p) \/ enet_peer_disconnect_later(p)
             \/ enet_peer_disconnect_now(p) \/ ResetPeer(p)
      PROVE  Steady(p) \/ Leaves(p)
  <2>1. CASE enet_peer_disconnect(p) /\ peer[p].state \in {"CONNECTED", "DISCONNECT_LATER"}
    <3>1. KeepsIdentity(peer[p], peer[p]) /\ peer[p] \in PeerRecord
      BY PeerFacts DEF KeepsIdentity
    <3> QED
      BY <2>1, <3>1, RequestSteady DEF enet_peer_disconnect
  <2> QED
    BY <1>3, <2>1, PingSteady, LaterSteady, ApplicationLeaves
<1>4. CASE Service
  BY <1>4, SendReliableSteady, SendAckSteady, ServiceLeaves DEF Service
<1>5. CASE Lose
  BY <1>5 DEF Lose, Loses
<1>6. CASE Receive
  <2>1. PICK d \in net :
          /\ \/ handle_connect(d) \/ handle_verify_connect(d) \/ handle_ping(d)
             \/ handle_disconnect(d) \/ handle_acknowledge(d)
          /\ Take(d) /\ UNCHANGED randomSeed
    BY <1>6 DEF Receive
  <2>2. CASE handle_connect(d)
    BY <2>1, <2>2, ConnectAccepts
  <2>3. CASE handle_verify_connect(d)
    <3>1. d.to \in Peer
      BY <2>3, AcceptedFacts DEF handle_verify_connect
    <3> QED BY <2>1, <2>3, <3>1, VerifyVerifies, VerifyAgainSteady
  <2>4. CASE handle_ping(d)
    <3>1. d.to \in Peer
      BY <2>4, AcceptedFacts DEF handle_ping
    <3> QED BY <2>1, <2>4, <3>1, HandlePingSteady
  <2>5. CASE handle_disconnect(d)
    <3>1. d.to \in Peer
      BY <2>5, AcceptedFacts DEF handle_disconnect
    <3> QED BY <2>1, <2>5, <3>1, ReceiveLeaves, DisconnectSteady
  <2>6. CASE handle_acknowledge(d)
    <3>1. d.to \in Peer
      BY <2>6, AcceptedFacts DEF handle_acknowledge
    <3>2. Announces(d.to, d) => d.to \in Slots
      BY DEF Announces
    <3> QED BY <2>1, <2>6, <3>1, <3>2, ReceiveLeaves, AcknowledgeSteady, AckAnnounces
  <2> QED BY <2>1, <2>2, <2>3, <2>4, <2>5, <2>6
<1> QED
  BY <1>1, <1>2, <1>3, <1>4, <1>5, <1>6 DEF Next, Application

-----------------------------------------------------------------------------
\* Facts used for several kinds of steps.

\* A datagram stays older than what a peer waits for until the peer has its answer.
LEMMA AgesOlder ==
    ASSUME NEW added, Ages(added)
    PROVE  /\ older' \in [Peer -> SUBSET net']
           /\ \A p \in Peer : \A d \in net' :
                 d \notin added /\ Waiting(peer'[p]) /\ (Waiting(peer[p]) => d \in older[p])
                    /\ d \in net => d \in older'[p]
  BY DEF Ages

\* What p may send, by the invariant.
LEMMA SentShape ==
    ASSUME ConnInv, NEW p \in Peer, peer[p].state # "DISCONNECTED", NEW d, SentBy(d, p)
    PROVE  /\ d \in DatagramType /\ d.connectID = peer[p].connectID
           /\ d.incomingSessionID = d.outgoingSessionID
           /\ d.connectID # 0 /\ d.connectID <= randomSeed
           /\ d.to = UNKNOWN => d.sum = 0
           /\ d.to # UNKNOWN => d.sum = d.connectID
           /\ d.from = Active <=> d.to # Active
           /\ d.type = "CONNECT" => /\ p = Active /\ d.from = Active /\ d.to = UNKNOWN
                                    /\ ActivePeer.state = "CONNECTING"
                                    /\ ActivePeer.outgoingPeerID = UNKNOWN
           /\ \A q \in Slots : \A c : Names(d, q, c) =>
                 p = Active /\ ActiveNames(q, c) /\ d.session = ActivePeer.outgoingSessionID
<1>1. /\ d \in DatagramType /\ d.connectID = peer[p].connectID
      /\ d.incomingSessionID = d.outgoingSessionID
      /\ d.connectID # 0 /\ d.connectID <= randomSeed
      /\ d.to = UNKNOWN => d.sum = 0
      /\ d.to # UNKNOWN => d.sum = d.connectID
  BY DEF SentBy, ConnInv, PeerShape
<1>2. d.type = "CONNECT" => /\ p = Active /\ d.from = Active /\ d.to = UNKNOWN
                            /\ ActivePeer.state = "CONNECTING"
                            /\ ActivePeer.outgoingPeerID = UNKNOWN
  BY Constants DEF SentBy, ConnInv, PeerShape, ConnectFirst, ActivePeer
<1>3. d.from = Active <=> d.to # Active
  BY Constants DEF SentBy, ConnInv, PeerShape, ActivePeer
<1>4. ASSUME NEW q \in Slots, NEW c, Names(d, q, c)
      PROVE  p = Active /\ ActiveNames(q, c) /\ d.session = ActivePeer.outgoingSessionID
  <2>1. p = Active /\ d.to = q /\ q # UNKNOWN /\ d.sum = c
    BY <1>4, Constants DEF Names, SentBy
  <2> QED
    BY <2>1 DEF SentBy, ActiveNames, ActivePeer
<1> QED
  BY <1>1, <1>2, <1>3, <1>4

\* A CONNECT of an announced connection is not sent any more.
LEMMA NotSentAgain ==
    ASSUME ConnInv, OnceInv, NEW p \in Peer, peer[p].state # "DISCONNECTED",
           NEW d, SentBy(d, p), d.type = "CONNECT"
    PROVE  d.connectID \notin announced /\ d.connectID = randomSeed
<1>1. /\ p = Active /\ d.connectID = ActivePeer.connectID /\ ActivePeer.outgoingPeerID = UNKNOWN
      /\ d.connectID # 0
  BY SentShape DEF ActivePeer
<1> QED
  BY <1>1 DEF OnceInv, AnnouncedKnown, ConnInv, PeerShape

-----------------------------------------------------------------------------
\* The invariants are kept by the steps of each kind.

\* Steps of the first kind keep the invariant.
LEMMA SteadyInv ==
    ASSUME ConnInv, OnceInv, NEW p \in Peer, Steady(p)
    PROVE  (ConnInv /\ OnceInv)'
<1>1. PICK added : Adds(p, added)
  BY DEF Steady
<1>2. /\ Only(p) /\ peer'[p] \in PeerRecord /\ peer[p].state # "DISCONNECTED"
      /\ UNCHANGED <<randomSeed, told, announced>>
  BY DEF Steady
<1>3. \A q \in Peer : peer'[q] \in PeerRecord /\ KeepsIdentity(peer[q], peer'[q])
  BY <1>2 DEF Steady, Only, KeepsIdentity, ConnInv, TypeOK
<1>4. /\ ActivePeer'.connectID = ActivePeer.connectID
      /\ ActivePeer'.outgoingPeerID = ActivePeer.outgoingPeerID
      /\ ActivePeer'.incomingSessionID = ActivePeer.incomingSessionID
      /\ ActivePeer'.outgoingSessionID = ActivePeer.outgoingSessionID
  BY <1>3, Constants DEF ActivePeer, KeepsIdentity
<1>5. \A q \in Slots :
         /\ peer'[q].state \in Announced <=> peer[q].state \in Announced
         /\ peer'[q].state = "ACKNOWLEDGING_CONNECT" <=> peer[q].state = "ACKNOWLEDGING_CONNECT"
         /\ peer'[q].state = "DISCONNECTED" <=> peer[q].state = "DISCONNECTED"
         /\ peer'[q].state # "CONNECTING"
  BY <1>2, Constants DEF Steady, Only, Announced, ConnInv, PeerShape
<1>6. \A d \in net' : d \in net \/ (d \in added /\ SentBy(d, p))
  BY <1>1 DEF Adds
<1>7. Ages(added)
  BY <1>1 DEF Adds
<1>8. \A d \in net' : d \in net \/ (d \in added /\ d \in DatagramType /\ d.connectID = peer[p].connectID)
  BY <1>2, <1>6, SentShape
<1>9. \A d \in net' : \A q \in Slots : \A c : Names(d, q, c) =>
         \/ d \in net
         \/ ActiveNames(q, c) /\ d.session = ActivePeer.outgoingSessionID
  BY <1>2, <1>6, SentShape
<1>10. \A d \in net' : d.type = "CONNECT" =>
          \/ d \in net /\ d \notin added
          \/ d.connectID \notin announced /\ d.connectID = randomSeed
  BY <1>1, <1>2, <1>6, NotSentAgain DEF Adds
<1>11. \A q \in Slots : \A c : ActiveNames(q, c)' <=> ActiveNames(q, c)
  BY <1>4 DEF ActiveNames
<1>a. TypeOK'
  <2>1. peer' \in [Peer -> PeerRecord]
    BY <1>2, <1>3 DEF Only, ConnInv, TypeOK
  <2>2. net' \subseteq DatagramType
    BY <1>8 DEF ConnInv, TypeOK
  <2>3. older' \in [Peer -> SUBSET net']
    BY <1>7, AgesOlder
  <2> QED BY <1>2, <2>1, <2>2, <2>3 DEF ConnInv, TypeOK
<1>b. (announced \subseteq 1..randomSeed)'
  BY <1>2 DEF ConnInv
<1>c. PeerShape'
  <2>1. ASSUME NEW q \in Peer
        PROVE  /\ peer'[q].incomingSessionID = peer'[q].outgoingSessionID
               /\ peer'[q].state = "DISCONNECTED" =>
                     peer'[q].connectID = 0 /\ peer'[q].seqNo = 0 /\ peer'[q].commands = {}
               /\ peer'[q].state # "DISCONNECTED" => peer'[q].connectID # 0
               /\ peer'[q].state \notin {"DISCONNECTING", "ACKNOWLEDGING_DISCONNECT", "ZOMBIE"} =>
                     peer'[q].seqNo <= MaxPings + 1
               /\ peer'[q].state \notin Announced => peer'[q].acks = {}
               /\ peer'[q].connectID <= randomSeed'
    <3>1. CASE q # p
      BY <1>2, <3>1 DEF Only, ConnInv, PeerShape
    <3>2. CASE q = p
      BY <1>2, <3>2 DEF Steady, KeepsIdentity, ConnInv, PeerShape, Announced
    <3> QED BY <3>1, <3>2
  <2>2. ASSUME NEW q \in Slots
        PROVE  /\ peer'[q].state # "CONNECTING"
               /\ peer'[q].state # "DISCONNECTED" => peer'[q].outgoingPeerID = Active
               /\ \A m \in peer'[q].commands : m.type # "CONNECT"
    <3>1. peer'[q].outgoingPeerID = peer[q].outgoingPeerID
      BY <1>3, Constants DEF KeepsIdentity
    <3>2. \A m \in peer'[q].commands : m.type # "CONNECT"
      BY <1>2, Constants DEF Steady, Only, ConnInv, PeerShape
    <3> QED BY <1>5, <3>1, <3>2 DEF ConnInv, PeerShape
  <2>3. /\ ActivePeer'.state \in {"DISCONNECTED", "CONNECTING"} => ActivePeer.state = ActivePeer'.state
        /\ ActivePeer'.state # "ACKNOWLEDGING_CONNECT"
    BY <1>2, Constants DEF Steady, Only, ConnInv, PeerShape, ActivePeer, Announced
  <2> QED
    BY <1>2, <1>4, <2>1, <2>2, <2>3 DEF ConnInv, PeerShape
<1>d. DatagramShape'
  BY <1>2, <1>6, SentShape DEF DatagramShape, ConnInv
<1>e. EventPairing'
  BY <1>2, <1>5, <1>a DEF EventPairing, ConnInv
<1>f. UniqueConnection'
  BY <1>3, <1>5, Constants DEF UniqueConnection, KeepsIdentity, ConnInv
<1>g. OneVoice'
  <2>1. \A d, e \in net' : \A q, s \in Slots : \A c \in 1..MaxConns :
          Names(d, q, c) /\ Names(e, s, c) => q = s /\ d.session = e.session
    BY <1>9 DEF OneVoice, ActiveNames, ConnInv
  <2>2. \A d \in net' : \A q \in Slots :
          Names(d, q, ActivePeer.connectID) => ActivePeer.outgoingPeerID = q /\ ActivePeer.outgoingSessionID = d.session
    BY <1>9 DEF OneVoice, ActiveNames, ConnInv
  <2> QED BY <1>4, <2>1, <2>2 DEF OneVoice, Names
<1>h. Spoken'
  <2> SUFFICES ASSUME NEW q \in Slots, peer'[q].state \in Announced
               PROVE  /\ ActiveNames(ActivePeer.outgoingPeerID, peer[q].connectID)' =>
                           ActivePeer'.outgoingPeerID = q /\ ActivePeer'.outgoingSessionID = peer'[q].incomingSessionID
                      /\ \A d \in net' : \A s \in Slots : Names(d, s, peer'[q].connectID) =>
                           s = q /\ d.session = peer'[q].incomingSessionID
                      /\ peer'[q].connectID \in announced'
    BY DEF Spoken, Names
  <2>1. /\ peer[q].state \in Announced /\ peer'[q].connectID = peer[q].connectID
        /\ peer'[q].incomingSessionID = peer[q].incomingSessionID
    BY <1>3, <1>5, Constants DEF KeepsIdentity
  <2> QED
    BY <1>2, <1>4, <1>9, <2>1 DEF Spoken, ActiveNames, ConnInv
<1>i. ConnectFirst'
  <2>1. ASSUME ActivePeer'.state # "CONNECTING" PROVE \A m \in ActivePeer'.commands : m.type # "CONNECT"
    <3>1. CASE p = Active
      BY <1>2, <2>1, <3>1 DEF Steady, ConnInv, ConnectFirst, ActivePeer, Announced
    <3>2. CASE p # Active
      BY <1>2, <2>1, <3>2, Constants DEF Only, ConnInv, ConnectFirst, ActivePeer
    <3> QED BY <3>1, <3>2
  <2>2. ASSUME ActivePeer'.state = "CONNECTING"
        PROVE  /\ \A m \in ActivePeer'.commands : m.type = "CONNECT" /\ m.seq = 1
               /\ \A m, n \in ActivePeer'.commands : m = n
               /\ (\E m \in ActivePeer'.commands : ~m.tried) =>
                     /\ \A d \in net' : d.connectID # ActivePeer'.connectID
                     /\ \A q \in Slots : peer'[q].connectID # ActivePeer'.connectID
    <3>1. ActivePeer.state = "CONNECTING"
      BY <1>2, <2>2, Constants DEF Steady, Only, Announced, ActivePeer
    <3>2. \A q \in Slots : peer'[q].connectID = peer[q].connectID
      BY <1>3, Constants DEF KeepsIdentity
    <3>3. CASE p # Active
      <4>1. ActivePeer' = ActivePeer /\ p \in Slots
        BY <1>2, <3>3, Constants DEF Only, ActivePeer
      <4> QED BY <1>4, <1>8, <3>1, <3>2, <4>1 DEF ConnInv, ConnectFirst
    <3>4. CASE p = Active /\ ActivePeer'.commands \subseteq ActivePeer.commands /\ net' \subseteq net
      BY <1>4, <3>1, <3>2, <3>4 DEF ConnInv, ConnectFirst
    <3>5. CASE p = Active /\ \E m \in ActivePeer.commands : ActivePeer'.commands =
                (ActivePeer.commands \ {m}) \cup {[m EXCEPT !.tried = TRUE]}
      <4>1. PICK m \in ActivePeer.commands : ActivePeer'.commands =
                (ActivePeer.commands \ {m}) \cup {[m EXCEPT !.tried = TRUE]}
        BY <3>5
      <4>2. m \in Command /\ m.type = "CONNECT" /\ m.seq = 1
        BY <3>1, Constants DEF ConnInv, ConnectFirst, TypeOK, PeerRecord, ActivePeer
      <4> DEFINE n == [m EXCEPT !.tried = TRUE]
      <4>3. n.type = "CONNECT" /\ n.seq = 1 /\ n.tried
        BY <4>2 DEF Command
      <4>4. ActivePeer.commands \ {m} = {}
        BY <3>1 DEF ConnInv, ConnectFirst
      <4>5. ActivePeer'.commands = {n}
        BY <4>1, <4>4
      <4> HIDE DEF n
      <4> QED BY <4>3, <4>5
    <3> QED BY <1>2, <2>2, <3>3, <3>4, <3>5 DEF Steady, ActivePeer
  <2> QED BY <2>1, <2>2 DEF ConnectFirst
<1>j. AnnouncedKnown'
  BY <1>2, <1>4 DEF OnceInv, AnnouncedKnown
<1>12. \A q \in Slots : /\ peer'[q].connectID = peer[q].connectID
                        /\ peer'[q].incomingSessionID = peer[q].incomingSessionID
  BY <1>3, Constants DEF KeepsIdentity
<1>k. OtherSession'
  <2> SUFFICES ASSUME NEW q \in Slots, peer'[q].state = "ACKNOWLEDGING_CONNECT",
                      peer'[q].connectID \in announced'
               PROVE  /\ \A d \in net' : Names(d, q, peer'[q].connectID) =>
                            d.session # peer'[q].incomingSessionID
                      /\ ActiveNames(q, peer[q].connectID)' =>
                            ActivePeer'.outgoingSessionID # peer'[q].incomingSessionID
    BY DEF OtherSession, Names
  <2> QED
    BY <1>2, <1>4, <1>5, <1>9, <1>12 DEF OnceInv, OtherSession, ActiveNames
<1>l. SessionKept'
  <2> SUFFICES ASSUME NEW q \in Slots, NEW c \in announced, peer'[q].state = "DISCONNECTED",
                      NEW e \in net', Late(e, c)
               PROVE  /\ \A d \in net' : Names(d, q, c) => d.session = peer'[q].incomingSessionID
                      /\ ActiveNames(q, c)' => ActivePeer'.outgoingSessionID = peer'[q].incomingSessionID
    BY <1>2 DEF SessionKept, Names, Late
  <2>1. e \in net
    BY <1>10 DEF Late
  <2> QED
    BY <1>4, <1>5, <1>9, <1>11, <1>12, <2>1 DEF OnceInv, SessionKept
<1>m. NoneEarlier'
  <2> SUFFICES ASSUME NEW c \in announced,
                      ~ \E q \in Slots : peer'[q].state \in Announced /\ peer'[q].connectID = c,
                      NEW d \in net', d.type = "CONNECT"
               PROVE  d.connectID >= c
    BY <1>2 DEF NoneEarlier
  <2>1. \A e \in net : e.type = "CONNECT" => e.connectID >= c
    BY <1>5, <1>12 DEF OnceInv, NoneEarlier
  <2>2. c <= randomSeed /\ c \in Nat /\ randomSeed \in Nat
    BY Constants DEF ConnInv, TypeOK
  <2> QED
    BY <1>10, <2>1, <2>2
<1>n. SlotAdvances'
  <2> SUFFICES ASSUME NEW q \in Slots, NEW c \in announced,
                      ActiveNames(q, c)' \/ \E d \in net' : Names(d, q, c)
               PROVE  peer'[q].connectID = 0 \/ peer'[q].connectID >= c
    BY <1>2 DEF SlotAdvances, Names
  <2>1. ActiveNames(q, c) \/ \E d \in net : Names(d, q, c)
    BY <1>9, <1>11
  <2> QED
    BY <1>12, <2>1 DEF OnceInv, SlotAdvances
<1>o. LateIsOlder'
  <2> SUFFICES ASSUME NEW q \in Slots, peer'[q].state = "ACKNOWLEDGING_CONNECT",
                      peer'[q].connectID \in announced', Waiting(peer'[q]),
                      NEW d \in net', Late(d, peer'[q].connectID)
               PROVE  d \in older'[q]
    BY DEF LateIsOlder, Late, Waiting
  <2>1. d \in net /\ d \notin added /\ q \in Peer
    BY <1>2, <1>10, <1>12, Constants DEF Late
  <2>2. Waiting(peer[q]) => d \in older[q]
    BY <1>2, <1>5, <1>12, <2>1 DEF OnceInv, LateIsOlder
  <2> QED
    BY <1>7, <2>1, <2>2, AgesOlder
<1> QED
  BY <1>a, <1>b, <1>c, <1>d, <1>e, <1>f, <1>g, <1>h, <1>i, <1>j, <1>k, <1>l, <1>m, <1>n, <1>o
     DEF ConnInv, OnceInv

\* So do those with which a peer gives its connection up ...
LEMMA LeavesInv ==
    ASSUME ConnInv, OnceInv, NEW p \in Peer, Leaves(p)
    PROVE  (ConnInv /\ OnceInv)'
<1>1. PICK added : Adds(p, added)
  BY DEF Leaves
<1>2. /\ Only(p) /\ peer'[p] \in PeerRecord /\ peer[p].state # "DISCONNECTED"
      /\ UNCHANGED <<randomSeed, announced>>
      /\ \A q \in Peer \ {p} : peer'[q] = peer[q]
  BY DEF Leaves, Only
<1>3. /\ peer'[p].state = "DISCONNECTED" /\ peer'[p].connectID = 0
      /\ peer'[p].outgoingPeerID = UNKNOWN
      /\ peer'[p].incomingSessionID = peer[p].incomingSessionID
      /\ peer'[p].outgoingSessionID = peer[p].outgoingSessionID
      /\ peer'[p].seqNo = 0 /\ peer'[p].acks = {} /\ peer'[p].commands = {}
  BY DEF Leaves
<1>4. \/ p = Active /\ ActivePeer'.connectID = 0 /\ ActivePeer'.outgoingPeerID = UNKNOWN
      \/ p \in Slots /\ ActivePeer' = ActivePeer
  BY <1>2, <1>3, Constants DEF ActivePeer
<1>6. \A d \in net' : d \in net \/ (d \in added /\ SentBy(d, p))
  BY <1>1 DEF Adds
<1>7. Ages(added)
  BY <1>1 DEF Adds
<1>8. \A d \in net' : d \in net \/ (d \in added /\ d \in DatagramType /\ d.connectID = peer[p].connectID)
  BY <1>2, <1>6, SentShape
<1>9. \A d \in net' : \A q \in Slots : \A c : Names(d, q, c) =>
         \/ d \in net
         \/ p = Active /\ ActiveNames(q, c) /\ d.session = ActivePeer.outgoingSessionID
  BY <1>2, <1>6, SentShape
<1>10. \A d \in net' : d.type = "CONNECT" =>
          \/ d \in net /\ d \notin added
          \/ d.connectID \notin announced /\ d.connectID = randomSeed
  BY <1>1, <1>2, <1>6, NotSentAgain DEF Adds
<1>11. \A q \in Slots : \A c \in 1..MaxConns : ActiveNames(q, c)' => ActiveNames(q, c)
  BY <1>4 DEF ActiveNames
<1>12. announced \subseteq 1..MaxConns /\ 0 \notin announced
  BY DEF ConnInv, TypeOK
<1>a. TypeOK'
  <2>1. peer' \in [Peer -> PeerRecord]
    BY <1>2 DEF Only, ConnInv, TypeOK
  <2>2. net' \subseteq DatagramType
    BY <1>8 DEF ConnInv, TypeOK
  <2>3. older' \in [Peer -> SUBSET net']
    BY <1>7, AgesOlder
  <2>4. told' \in [Peer -> 0..MaxConns]
    BY Constants DEF Leaves, ConnInv, TypeOK
  <2> QED BY <1>2, <2>1, <2>2, <2>3, <2>4 DEF ConnInv, TypeOK
<1>b. (announced \subseteq 1..randomSeed)'
  BY <1>2 DEF ConnInv
<1>c. PeerShape'
  <2>1. ASSUME NEW q \in Peer
        PROVE  /\ peer'[q].incomingSessionID = peer'[q].outgoingSessionID
               /\ peer'[q].state = "DISCONNECTED" =>
                     peer'[q].connectID = 0 /\ peer'[q].seqNo = 0 /\ peer'[q].commands = {}
               /\ peer'[q].state # "DISCONNECTED" => peer'[q].connectID # 0
               /\ peer'[q].state \notin {"DISCONNECTING", "ACKNOWLEDGING_DISCONNECT", "ZOMBIE"} =>
                     peer'[q].seqNo <= MaxPings + 1
               /\ peer'[q].state \notin Announced => peer'[q].acks = {}
               /\ peer'[q].connectID <= randomSeed'
    <3>1. CASE q # p
      BY <1>2, <3>1 DEF ConnInv, PeerShape
    <3>2. CASE q = p
      BY <1>2, <1>3, <3>2, Constants DEF ConnInv, PeerShape, TypeOK
    <3> QED BY <3>1, <3>2
  <2>2. ASSUME NEW q \in Slots
        PROVE  /\ peer'[q].state # "CONNECTING"
               /\ peer'[q].state # "DISCONNECTED" => peer'[q].outgoingPeerID = Active
               /\ \A m \in peer'[q].commands : m.type # "CONNECT"
    BY <1>2, <1>3, Constants DEF ConnInv, PeerShape
  <2>3. /\ ActivePeer'.state \in {"DISCONNECTED", "CONNECTING"} => ActivePeer'.outgoingPeerID = UNKNOWN
        /\ ActivePeer'.outgoingPeerID # Active
        /\ ActivePeer'.state # "ACKNOWLEDGING_CONNECT"
        /\ ActivePeer'.connectID \in {0, randomSeed'}
    <3>1. CASE p = Active
      BY <1>3, <3>1, Constants DEF ActivePeer
    <3>2. CASE ActivePeer' = ActivePeer
      BY <1>2, <3>2 DEF ConnInv, PeerShape
    <3> QED BY <1>4, <3>1, <3>2
  <2> QED
    BY <2>1, <2>2, <2>3 DEF PeerShape
<1>d. DatagramShape'
  BY <1>2, <1>6, SentShape DEF DatagramShape, ConnInv
<1>e. EventPairing'
  <2>1. ASSUME NEW q \in Slots PROVE told'[q] # 0 <=> peer'[q].state \in Announced
    <3>1. CASE q # p
      BY <1>2, <3>1, Constants DEF Leaves, ConnInv, EventPairing, TypeOK
    <3>2. CASE q = p
      BY <1>3, <3>2 DEF Leaves, ConnInv, EventPairing, TypeOK, Announced
    <3> QED BY <3>1, <3>2
  <2> QED BY <1>a, <2>1 DEF EventPairing
<1>f. UniqueConnection'
  BY <1>2, <1>3, Constants DEF UniqueConnection, ConnInv
<1>g. OneVoice'
  <2>1. \A d, e \in net' : \A q, s \in Slots : \A c \in 1..MaxConns :
          Names(d, q, c) /\ Names(e, s, c) => q = s /\ d.session = e.session
    BY <1>9 DEF OneVoice, ActiveNames, ConnInv
  <2>2. \A d \in net' : \A q \in Slots :
          Names(d, q, ActivePeer'.connectID) => ActivePeer'.outgoingPeerID = q /\ ActivePeer'.outgoingSessionID = d.session
    <3>1. CASE p = Active
      BY <1>4, <1>d, <3>1, Constants DEF DatagramShape, Names
    <3>2. CASE p \in Slots
      BY <1>4, <1>9, <3>2, Constants DEF OneVoice, ConnInv
    <3> QED BY <1>4, <3>1, <3>2
  <2> QED BY <2>1, <2>2 DEF OneVoice, Names
<1>h. Spoken'
  <2> SUFFICES ASSUME NEW q \in Slots, peer'[q].state \in Announced
               PROVE  /\ ActiveNames(ActivePeer.outgoingPeerID, peer[q].connectID)' =>
                           ActivePeer'.outgoingPeerID = q /\ ActivePeer'.outgoingSessionID = peer'[q].incomingSessionID
                      /\ \A d \in net' : \A s \in Slots : Names(d, s, peer'[q].connectID) =>
                           s = q /\ d.session = peer'[q].incomingSessionID
                      /\ peer'[q].connectID \in announced'
    BY DEF Spoken, Names
  <2>1. q # p /\ peer'[q] = peer[q]
    BY <1>2, <1>3, Constants DEF Announced
  <2>2. /\ ActiveNames(ActivePeer.outgoingPeerID, peer[q].connectID) =>
                ActivePeer.outgoingPeerID = q /\ ActivePeer.outgoingSessionID = peer[q].incomingSessionID
        /\ \A d \in net : \A s \in Slots : Names(d, s, peer[q].connectID) =>
                s = q /\ d.session = peer[q].incomingSessionID
        /\ peer[q].connectID \in announced
    BY <2>1 DEF Spoken, ConnInv
  <2>3. peer[q].connectID # 0
    BY <2>2, <1>12
  <2> QED
    BY <1>2, <1>4, <1>9, <2>1, <2>2, <2>3 DEF ActiveNames
<1>i. ConnectFirst'
  <2>1. CASE p = Active
    BY <1>3, <2>1 DEF ConnectFirst, ActivePeer
  <2>2. CASE p \in Slots /\ ActivePeer' = ActivePeer
    <3>1. ActivePeer.state = "CONNECTING" => ActivePeer.connectID # 0
      BY Constants DEF ConnInv, PeerShape, ActivePeer
    <3>2. \A q \in Slots : peer'[q].connectID = peer[q].connectID \/ peer'[q].connectID = 0
      BY <1>2, <1>3, Constants
    <3> QED BY <1>8, <2>2, <3>1, <3>2 DEF ConnInv, ConnectFirst
  <2> QED BY <1>4, <2>1, <2>2
<1>j. AnnouncedKnown'
  BY <1>2, <1>4, <1>12 DEF OnceInv, AnnouncedKnown
<1>k. OtherSession'
  <2> SUFFICES ASSUME NEW q \in Slots, peer'[q].state = "ACKNOWLEDGING_CONNECT",
                      peer'[q].connectID \in announced'
               PROVE  /\ \A d \in net' : Names(d, q, peer'[q].connectID) =>
                            d.session # peer'[q].incomingSessionID
                      /\ ActiveNames(q, peer[q].connectID)' =>
                            ActivePeer'.outgoingSessionID # peer'[q].incomingSessionID
    BY DEF OtherSession, Names
  <2>1. q # p /\ peer'[q] = peer[q]
    BY <1>2, <1>3, Constants
  <2> QED
    BY <1>2, <1>4, <1>9, <1>12, <2>1 DEF OnceInv, OtherSession, ActiveNames
<1>l. SessionKept'
  <2> SUFFICES ASSUME NEW q \in Slots, NEW c \in announced, peer'[q].state = "DISCONNECTED",
                      NEW e \in net', Late(e, c)
               PROVE  /\ \A d \in net' : Names(d, q, c) => d.session = peer'[q].incomingSessionID
                      /\ ActiveNames(q, c)' => ActivePeer'.outgoingSessionID = peer'[q].incomingSessionID
    BY <1>2 DEF SessionKept, Names, Late
  <2>1. e \in net /\ c \in 1..MaxConns
    BY <1>10, <1>12 DEF Late
  <2>2. CASE q # p
    <3>1. peer'[q] = peer[q]
      BY <1>2, <2>2, Constants
    <3>2. /\ \A d \in net : Names(d, q, c) => d.session = peer[q].incomingSessionID
          /\ ActiveNames(q, c) => ActivePeer.outgoingSessionID = peer[q].incomingSessionID
      BY <2>1, <3>1 DEF OnceInv, SessionKept
    <3> QED
      BY <1>4, <1>9, <1>11, <2>1, <3>1, <3>2, <1>12 DEF ActiveNames
  <2>3. CASE q = p
    <3>1. ActivePeer' = ActivePeer /\ (\A d \in net' : Names(d, q, c) => d \in net)
      BY <1>4, <1>9, <2>3, Constants
    <3>2. peer'[p].incomingSessionID = peer[p].incomingSessionID
      BY <1>3
    <3>3. SUFFICES ASSUME ActiveNames(p, c) \/ \E d \in net : Names(d, p, c)
                   PROVE  /\ \A d \in net : Names(d, p, c) => d.session = peer[p].incomingSessionID
                          /\ ActiveNames(p, c) => ActivePeer.outgoingSessionID = peer[p].incomingSessionID
      BY <2>3, <3>1, <3>2 DEF ActiveNames
    <3>4. c = peer[p].connectID
      <4>1. peer[p].connectID >= c /\ peer[p].connectID # 0
        BY <1>2, <2>3, <3>3 DEF OnceInv, SlotAdvances, ConnInv, PeerShape
      <4>2. e.connectID >= peer[p].connectID /\ e.connectID = c
        BY <2>3 DEF Leaves, Late
      <4> QED
        BY <4>1, <4>2, <2>1, PeerFacts, Constants DEF PeerRecord
    <3>5. CASE peer[p].state \in Announced
      BY <2>3, <3>4, <3>5 DEF ConnInv, Spoken, ActiveNames
    <3>6. CASE peer[p].state = "ACKNOWLEDGING_CONNECT"
      <4>1. CASE Waiting(peer[p]) /\ net' \cap older[p] = {}
        <5>1. e \in older[p]
          BY <2>1, <2>3, <3>4, <3>6, <4>1 DEF OnceInv, LateIsOlder
        <5> QED BY <4>1, <5>1
      <4>2. CASE \E d \in net : Accepted(d) /\ d.to = p
        <5>1. PICK d \in net : Accepted(d) /\ d.to = p
          BY <4>2
        <5>2. d.session = peer[p].incomingSessionID
          BY <2>3, <3>6, <5>1, Constants DEF Accepted, ConnInv, PeerShape
        <5>3. Names(d, p, c)
          BY <2>3, <3>4, <5>1, AcceptedFacts, Constants DEF Names, ConnInv, DatagramShape
        <5> QED BY <2>3, <3>4, <3>6, <5>2, <5>3 DEF OnceInv, OtherSession
      <4> QED BY <2>3, <3>6, <4>1, <4>2 DEF Leaves
    <3> QED
      BY <1>2, <2>3, <3>5, <3>6 DEF ConnInv, PeerShape, TypeOK, PeerRecord, PeerState, Announced
  <2> QED BY <2>2, <2>3
<1>m. NoneEarlier'
  <2> SUFFICES ASSUME NEW c \in announced,
                      ~ \E q \in Slots : peer'[q].state \in Announced /\ peer'[q].connectID = c,
                      NEW d \in net', d.type = "CONNECT"
               PROVE  d.connectID >= c
    BY <1>2 DEF NoneEarlier
  <2>1. CASE p \in Slots /\ peer[p].connectID = c
    BY <2>1 DEF Leaves
  <2>2. CASE \A q \in Slots : peer[q].state \in Announced => peer[q].connectID # c
    <3>1. \A e \in net : e.type = "CONNECT" => e.connectID >= c
      BY <2>2 DEF OnceInv, NoneEarlier
    <3>2. c <= randomSeed /\ c \in Nat /\ randomSeed \in Nat
      BY Constants DEF ConnInv, TypeOK
    <3> QED
      BY <1>10, <3>1, <3>2
  <2> QED BY <1>2, <2>1, <2>2, Constants
<1>n. SlotAdvances'
  <2> SUFFICES ASSUME NEW q \in Slots, NEW c \in announced,
                      ActiveNames(q, c)' \/ \E d \in net' : Names(d, q, c)
               PROVE  peer'[q].connectID = 0 \/ peer'[q].connectID >= c
    BY <1>2 DEF SlotAdvances, Names
  <2>1. ActiveNames(q, c) \/ \E d \in net : Names(d, q, c)
    BY <1>9, <1>11, <1>12
  <2> QED
    BY <1>2, <1>3, <2>1, Constants DEF OnceInv, SlotAdvances
<1>o. LateIsOlder'
  <2> SUFFICES ASSUME NEW q \in Slots, peer'[q].state = "ACKNOWLEDGING_CONNECT",
                      peer'[q].connectID \in announced', Waiting(peer'[q]),
                      NEW d \in net', Late(d, peer'[q].connectID)
               PROVE  d \in older'[q]
    BY DEF LateIsOlder, Late, Waiting
  <2>1. q # p /\ peer'[q] = peer[q] /\ q \in Peer
    BY <1>2, <1>3, Constants
  <2>2. d \in net /\ d \notin added
    BY <1>2, <1>10 DEF Late
  <2>3. Waiting(peer[q]) => d \in older[q]
    BY <1>2, <2>1, <2>2 DEF OnceInv, LateIsOlder
  <2> QED
    BY <1>7, <2>1, <2>2, <2>3, AgesOlder
<1> QED
  BY <1>a, <1>b, <1>c, <1>d, <1>e, <1>f, <1>g, <1>h, <1>i, <1>j, <1>k, <1>l, <1>m, <1>n, <1>o
     DEF ConnInv, OnceInv

\* Nothing but the network changes.
LEMMA LosesInv ==
    ASSUME ConnInv, OnceInv, Loses
    PROVE  (ConnInv /\ OnceInv)'
<1>1. /\ net' \subseteq net /\ Ages({}) /\ peer' = peer /\ ActivePeer' = ActivePeer
      /\ UNCHANGED <<randomSeed, told, announced>>
  BY DEF Loses, ActivePeer
<1>2. \A p \in Slots : \A c : ActiveNames(p, c)' <=> ActiveNames(p, c)
  BY <1>1 DEF ActiveNames
<1>a. TypeOK' /\ (announced \subseteq 1..randomSeed)'
  BY <1>1, AgesOlder DEF ConnInv, TypeOK
<1>b. PeerShape' /\ UniqueConnection'
  BY <1>1 DEF ConnInv, PeerShape, UniqueConnection
<1>c. DatagramShape'
  BY <1>1 DEF ConnInv, DatagramShape
<1>d. EventPairing'
  BY <1>1, <1>a DEF ConnInv, EventPairing
<1>e. OneVoice'
  BY <1>1 DEF ConnInv, OneVoice, Names
<1>f. Spoken'
  BY <1>1 DEF ConnInv, Spoken, Names, ActiveNames
<1>g. ConnectFirst'
  BY <1>1 DEF ConnInv, ConnectFirst
<1>h. AnnouncedKnown' /\ NoneEarlier'
  BY <1>1 DEF OnceInv, AnnouncedKnown, NoneEarlier
<1>i. OtherSession'
  BY <1>1 DEF OnceInv, OtherSession, Names, ActiveNames
<1>j. SessionKept'
  BY <1>1 DEF OnceInv, SessionKept, Names, ActiveNames, Late
<1>k. SlotAdvances'
  BY <1>1 DEF OnceInv, SlotAdvances, Names, ActiveNames
<1>l. LateIsOlder'
  <2> SUFFICES ASSUME NEW q \in Slots, peer'[q].state = "ACKNOWLEDGING_CONNECT",
                      peer'[q].connectID \in announced', Waiting(peer'[q]),
                      NEW d \in net', Late(d, peer'[q].connectID)
               PROVE  d \in older'[q]
    BY DEF LateIsOlder, Late, Waiting
  <2>1. d \in net /\ d \in older[q] /\ q \in Peer
    BY <1>1, Constants DEF OnceInv, LateIsOlder
  <2> QED
    BY <1>1, <2>1, AgesOlder
<1> QED
  BY <1>a, <1>b, <1>c, <1>d, <1>e, <1>f, <1>g, <1>h, <1>i, <1>j, <1>k, <1>l DEF ConnInv, OnceInv

\* ... those that open one ...
LEMMA OpensInv ==
    ASSUME ConnInv, OnceInv, Opens
    PROVE  (ConnInv /\ OnceInv)'
<1>1. /\ net' \subseteq net /\ Ages({}) /\ UNCHANGED <<told, announced>>
      /\ Only(Active) /\ \A p \in Slots : peer'[p] = peer[p]
      /\ randomSeed \in Nat /\ randomSeed' = randomSeed + 1 /\ randomSeed' \in 0..MaxConns
  BY Constants DEF Opens, Only, ConnInv, TypeOK
<1>2. /\ ActivePeer' \in PeerRecord /\ ActivePeer'.state = "CONNECTING"
      /\ ActivePeer'.connectID = randomSeed + 1
      /\ ActivePeer'.outgoingPeerID = UNKNOWN
      /\ ActivePeer'.incomingSessionID = ActivePeer'.outgoingSessionID
      /\ ActivePeer'.seqNo = 1 /\ ActivePeer'.acks = {}
      /\ ActivePeer'.commands = {[type |-> "CONNECT", seq |-> 1, tried |-> FALSE]}
  BY <1>1, Constants DEF Opens, ConnInv, PeerShape, ActivePeer
<1>3. announced \subseteq 1..randomSeed
  BY DEF ConnInv
<1>4. \A p \in Slots : peer[p].connectID # randomSeed + 1 /\ peer[p].connectID <= randomSeed + 1
  BY <1>1, Constants DEF ConnInv, PeerShape, TypeOK, PeerRecord
<1>5. \A d \in net : /\ d.connectID # randomSeed + 1 /\ d.connectID <= randomSeed + 1
                     /\ \A p \in Slots : ~Names(d, p, randomSeed + 1)
  <2>1. \A d \in net : d.connectID <= randomSeed /\ d.connectID \in Nat
    BY Constants DEF ConnInv, DatagramShape, TypeOK, DatagramType
  <2>2. \A d \in net : d.to # UNKNOWN => d.sum = d.connectID
    BY DEF ConnInv, DatagramShape
  <2> QED
    BY <1>1, <2>1, <2>2, Constants DEF Names
<1>6. \A p : \A c \in 1..randomSeed : ~ActiveNames(p, c)'
  BY <1>1, <1>2 DEF ActiveNames
<1>a. TypeOK'
  <2>1. peer' \in [Peer -> PeerRecord]
    BY <1>1, <1>2, Constants DEF Only, ConnInv, TypeOK, ActivePeer
  <2>2. older' \in [Peer -> SUBSET net']
    BY <1>1, AgesOlder
  <2> QED BY <1>1, <2>1, <2>2 DEF ConnInv, TypeOK
<1>b. (announced \subseteq 1..randomSeed)'
  BY <1>1, <1>3
<1>c. PeerShape'
  <2>1. ASSUME NEW q \in Peer
        PROVE  /\ peer'[q].incomingSessionID = peer'[q].outgoingSessionID
               /\ peer'[q].state = "DISCONNECTED" =>
                     peer'[q].connectID = 0 /\ peer'[q].seqNo = 0 /\ peer'[q].commands = {}
               /\ peer'[q].state # "DISCONNECTED" => peer'[q].connectID # 0
               /\ peer'[q].state \notin {"DISCONNECTING", "ACKNOWLEDGING_DISCONNECT", "ZOMBIE"} =>
                     peer'[q].seqNo <= MaxPings + 1
               /\ peer'[q].state \notin Announced => peer'[q].acks = {}
               /\ peer'[q].connectID <= randomSeed'
    <3>1. CASE q \in Slots
      BY <1>1, <1>4, <3>1, Constants DEF ConnInv, PeerShape
    <3>2. CASE q = Active
      BY <1>1, <1>2, <3>2, Constants DEF ActivePeer
    <3> QED BY <3>1, <3>2, Constants
  <2> QED
    BY <1>1, <1>2, <2>1, Constants DEF ConnInv, PeerShape, ActivePeer
<1>d. DatagramShape'
  BY <1>1, <1>5 DEF ConnInv, DatagramShape
<1>e. EventPairing' /\ UniqueConnection'
  BY <1>1, <1>a DEF ConnInv, EventPairing, UniqueConnection
<1>f. OneVoice'
  BY <1>1, <1>2, <1>5 DEF ConnInv, OneVoice, Names
<1>g. Spoken'
  BY <1>1, <1>2, <1>4 DEF ConnInv, Spoken, Names, ActiveNames
<1>h. ConnectFirst'
  BY <1>1, <1>2, <1>4, <1>5 DEF ConnectFirst
<1>i. AnnouncedKnown' /\ NoneEarlier'
  BY <1>1, <1>2, <1>3 DEF OnceInv, AnnouncedKnown, NoneEarlier
<1>j. OtherSession'
  <2>1. ASSUME NEW q \in Slots, peer'[q].state = "ACKNOWLEDGING_CONNECT",
               peer'[q].connectID \in announced'
        PROVE  /\ \A d \in net' : Names(d, q, peer'[q].connectID) =>
                     d.session # peer'[q].incomingSessionID
               /\ ~ActiveNames(q, peer[q].connectID)'
    BY <1>1, <1>2, <1>4, <2>1 DEF OnceInv, OtherSession, ActiveNames
  <2> QED BY <2>1 DEF OtherSession, Names
<1>k. SessionKept'
  BY <1>1, <1>3, <1>6 DEF OnceInv, SessionKept, Names, Late
<1>l. SlotAdvances'
  BY <1>1, <1>3, <1>6 DEF OnceInv, SlotAdvances, Names
<1>m. LateIsOlder'
  <2> SUFFICES ASSUME NEW q \in Slots, peer'[q].state = "ACKNOWLEDGING_CONNECT",
                      peer'[q].connectID \in announced', Waiting(peer'[q]),
                      NEW d \in net', Late(d, peer'[q].connectID)
               PROVE  d \in older'[q]
    BY DEF LateIsOlder, Late, Waiting
  <2>1. d \in net /\ d \in older[q] /\ q \in Peer
    BY <1>1, Constants DEF OnceInv, LateIsOlder
  <2> QED
    BY <1>1, <2>1, AgesOlder
<1> QED
  BY <1>a, <1>b, <1>c, <1>d, <1>e, <1>f, <1>g, <1>h, <1>i, <1>j, <1>k, <1>l, <1>m DEF ConnInv, OnceInv

\* ... accept one ...
LEMMA AcceptsInv ==
    ASSUME ConnInv, OnceInv, NEW p \in Slots, NEW d \in net, Accepts(p, d)
    PROVE  (ConnInv /\ OnceInv)'
<1>1. /\ net' \subseteq net /\ Ages({}) /\ UNCHANGED <<randomSeed, told, announced>>
      /\ Only(p) /\ p \in Peer /\ \A q \in Peer \ {p} : peer'[q] = peer[q]
      /\ ActivePeer' = ActivePeer
  BY Constants DEF Accepts, Only, ActivePeer
<1>2. /\ peer[p].state = "DISCONNECTED" /\ peer'[p] \in PeerRecord
      /\ peer'[p].state = "ACKNOWLEDGING_CONNECT" /\ peer'[p].connectID = d.connectID
      /\ peer'[p].outgoingPeerID = Active
      /\ peer'[p].incomingSessionID # peer[p].incomingSessionID
      /\ peer'[p].outgoingSessionID = peer'[p].incomingSessionID
      /\ peer'[p].seqNo = 1 /\ peer'[p].acks = {}
      /\ \A m \in peer'[p].commands : m.type = "VERIFY_CONNECT" /\ ~m.tried
      /\ d.type = "CONNECT" /\ d.connectID # 0 /\ d.connectID <= randomSeed
  BY DEF Accepts, ConnInv, DatagramShape
<1>a. TypeOK' /\ (announced \subseteq 1..randomSeed)'
  <2>1. peer' \in [Peer -> PeerRecord]
    BY <1>1, <1>2 DEF Only, ConnInv, TypeOK
  <2>2. older' \in [Peer -> SUBSET net']
    BY <1>1, AgesOlder
  <2> QED BY <1>1, <2>1, <2>2 DEF ConnInv, TypeOK
<1>b. PeerShape'
  <2>1. ASSUME NEW q \in Peer
        PROVE  /\ peer'[q].incomingSessionID = peer'[q].outgoingSessionID
               /\ peer'[q].state = "DISCONNECTED" =>
                     peer'[q].connectID = 0 /\ peer'[q].seqNo = 0 /\ peer'[q].commands = {}
               /\ peer'[q].state # "DISCONNECTED" => peer'[q].connectID # 0
               /\ peer'[q].state \notin {"DISCONNECTING", "ACKNOWLEDGING_DISCONNECT", "ZOMBIE"} =>
                     peer'[q].seqNo <= MaxPings + 1
               /\ peer'[q].state \notin Announced => peer'[q].acks = {}
               /\ peer'[q].connectID <= randomSeed'
    <3>1. CASE q # p
      BY <1>1, <3>1 DEF ConnInv, PeerShape
    <3>2. CASE q = p
      BY <1>1, <1>2, <3>2, Constants
    <3> QED BY <3>1, <3>2
  <2>2. ASSUME NEW q \in Slots
        PROVE  /\ peer'[q].state # "CONNECTING"
               /\ peer'[q].state # "DISCONNECTED" => peer'[q].outgoingPeerID = Active
               /\ \A m \in peer'[q].commands : m.type # "CONNECT"
    BY <1>1, <1>2, Constants DEF ConnInv, PeerShape
  <2> QED
    BY <1>1, <2>1, <2>2 DEF ConnInv, PeerShape
<1>c. DatagramShape'
  BY <1>1 DEF ConnInv, DatagramShape
<1>d. EventPairing'
  <2>1. \A q \in Slots : peer'[q].state \in Announced <=> peer[q].state \in Announced
    BY <1>1, <1>2, Constants DEF Announced
  <2> QED BY <1>1, <1>a, <2>1 DEF ConnInv, EventPairing
<1>e. UniqueConnection'
  <2>1. \A q \in Slots : peer[q].state # "DISCONNECTED" => peer[q].connectID # d.connectID
    BY DEF Accepts
  <2> QED
    BY <1>1, <1>2, <2>1, Constants DEF ConnInv, UniqueConnection
<1>f. OneVoice'
  BY <1>1 DEF ConnInv, OneVoice, Names
<1>g. Spoken'
  <2> SUFFICES ASSUME NEW q \in Slots, peer'[q].state \in Announced
               PROVE  /\ ActiveNames(ActivePeer.outgoingPeerID, peer[q].connectID)' =>
                           ActivePeer'.outgoingPeerID = q /\ ActivePeer'.outgoingSessionID = peer'[q].incomingSessionID
                      /\ \A e \in net' : \A s \in Slots : Names(e, s, peer'[q].connectID) =>
                           s = q /\ e.session = peer'[q].incomingSessionID
                      /\ peer'[q].connectID \in announced'
    BY DEF Spoken, Names
  <2>1. peer'[q] = peer[q]
    BY <1>1, <1>2, Constants DEF Announced
  <2> QED
    BY <1>1, <2>1 DEF ConnInv, Spoken, ActiveNames
<1>h. ConnectFirst'
  BY <1>1, <1>2, Constants DEF ConnInv, ConnectFirst
<1>i. AnnouncedKnown'
  BY <1>1 DEF OnceInv, AnnouncedKnown
<1>j. NoneEarlier'
  <2>1. \A q \in Slots : peer[q].state \in Announced => peer'[q] = peer[q]
    BY <1>1, <1>2, Constants DEF Announced
  <2> QED
    BY <1>1, <2>1 DEF OnceInv, NoneEarlier
<1>k. OtherSession'
  <2> SUFFICES ASSUME NEW q \in Slots, peer'[q].state = "ACKNOWLEDGING_CONNECT",
                      peer'[q].connectID \in announced'
               PROVE  /\ \A e \in net' : Names(e, q, peer'[q].connectID) =>
                            e.session # peer'[q].incomingSessionID
                      /\ ActiveNames(q, peer[q].connectID)' =>
                            ActivePeer'.outgoingSessionID # peer'[q].incomingSessionID
    BY DEF OtherSession, Names
  <2>1. CASE q # p
    <3>1. peer'[q] = peer[q]
      BY <1>1, <2>1, Constants
    <3> QED BY <1>1, <3>1 DEF OnceInv, OtherSession, ActiveNames
  <2>2. CASE q = p
    <3>1. Late(d, peer'[p].connectID) /\ peer'[p].connectID \in announced
      BY <1>1, <1>2, <2>2 DEF Late
    <3> QED BY <1>1, <1>2, <2>2, <3>1 DEF OnceInv, SessionKept, ActiveNames
  <2> QED BY <2>1, <2>2
<1>l. SessionKept'
  <2>1. \A q \in Slots : peer'[q].state = "DISCONNECTED" => peer'[q] = peer[q]
    BY <1>1, <1>2, Constants
  <2> QED
    BY <1>1, <2>1 DEF OnceInv, SessionKept, Names, ActiveNames, Late
<1>m. SlotAdvances'
  <2> SUFFICES ASSUME NEW q \in Slots, NEW c \in announced,
                      ActiveNames(q, c) \/ \E e \in net : Names(e, q, c)
               PROVE  peer'[q].connectID = 0 \/ peer'[q].connectID >= c
    BY <1>1 DEF SlotAdvances, Names, ActiveNames
  <2>1. CASE q # p
    BY <1>1, <2>1, Constants DEF OnceInv, SlotAdvances
  <2>2. CASE q = p
    <3>1. ASSUME NEW s \in Slots, peer[s].state \in Announced, peer[s].connectID = c
          PROVE  s = p
      BY <2>2, <3>1 DEF ConnInv, Spoken, ActiveNames
    <3>2. \A e \in net : e.type = "CONNECT" => e.connectID >= c
      BY <1>2, <3>1 DEF OnceInv, NoneEarlier, Announced
    <3> QED BY <1>2, <2>2, <3>2
  <2> QED BY <2>1, <2>2
<1>n. LateIsOlder'
  <2> SUFFICES ASSUME NEW q \in Slots, peer'[q].state = "ACKNOWLEDGING_CONNECT",
                      peer'[q].connectID \in announced', Waiting(peer'[q]),
                      NEW e \in net', Late(e, peer'[q].connectID)
               PROVE  e \in older'[q]
    BY DEF LateIsOlder, Late, Waiting
  <2>1. q # p /\ q \in Peer /\ peer'[q] = peer[q]
    BY <1>1, <1>2, Constants DEF Waiting
  <2>2. e \in net /\ e \in older[q]
    BY <1>1, <2>1 DEF OnceInv, LateIsOlder
  <2> QED
    BY <1>1, <2>1, <2>2, AgesOlder
<1> QED
  BY <1>a, <1>b, <1>c, <1>d, <1>e, <1>f, <1>g, <1>h, <1>i, <1>j, <1>k, <1>l, <1>m, <1>n DEF ConnInv, OnceInv

\* ... learn of its acceptance ...
LEMMA VerifiesInv ==
    ASSUME ConnInv, OnceInv, NEW d \in net, Verifies(d)
    PROVE  (ConnInv /\ OnceInv)'
<1>1. /\ net' \subseteq net /\ Ages({}) /\ UNCHANGED <<randomSeed, announced>>
      /\ Only(Active) /\ \A q \in Slots : peer'[q] = peer[q]
      /\ told' = [told EXCEPT ![Active] = ActivePeer.connectID]
  BY Constants DEF Verifies, Only
<1>2. /\ d.from \in Slots /\ ActivePeer.state = "CONNECTING" /\ ActivePeer.outgoingPeerID = UNKNOWN
      /\ ActivePeer' \in PeerRecord
      /\ ActivePeer'.state = "CONNECTED" /\ ActivePeer'.connectID = ActivePeer.connectID
      /\ ActivePeer'.outgoingPeerID = d.from
      /\ ActivePeer'.incomingSessionID = ActivePeer'.outgoingSessionID
      /\ ActivePeer'.seqNo = ActivePeer.seqNo /\ ActivePeer'.commands = {}
  BY DEF Verifies, ConnInv, PeerShape
<1>3. ActivePeer.connectID \notin announced
  BY <1>2 DEF OnceInv, AnnouncedKnown
<1>4. \A e \in net : \A p \in Slots : ~Names(e, p, ActivePeer.connectID)
  BY <1>2, Constants DEF ConnInv, OneVoice
<1>5. \A p : \A c \in announced : ~ActiveNames(p, c)'
  BY <1>2, <1>3 DEF ActiveNames
<1>6. d.from # Active /\ d.from # UNKNOWN
  BY <1>2, Constants
<1>a. TypeOK' /\ (announced \subseteq 1..randomSeed)'
  <2>1. peer' \in [Peer -> PeerRecord]
    BY <1>1, <1>2, Constants DEF Only, ConnInv, TypeOK, ActivePeer
  <2>2. older' \in [Peer -> SUBSET net']
    BY <1>1, AgesOlder
  <2>3. ActivePeer.connectID \in 0..MaxConns
    BY Constants DEF ConnInv, TypeOK, PeerRecord, ActivePeer
  <2> QED BY <1>1, <2>1, <2>2, <2>3 DEF ConnInv, TypeOK
<1>b. PeerShape'
  <2>1. ASSUME NEW q \in Peer
        PROVE  /\ peer'[q].incomingSessionID = peer'[q].outgoingSessionID
               /\ peer'[q].state = "DISCONNECTED" =>
                     peer'[q].connectID = 0 /\ peer'[q].seqNo = 0 /\ peer'[q].commands = {}
               /\ peer'[q].state # "DISCONNECTED" => peer'[q].connectID # 0
               /\ peer'[q].state \notin {"DISCONNECTING", "ACKNOWLEDGING_DISCONNECT", "ZOMBIE"} =>
                     peer'[q].seqNo <= MaxPings + 1
               /\ peer'[q].state \notin Announced => peer'[q].acks = {}
               /\ peer'[q].connectID <= randomSeed'
    <3>1. CASE q \in Slots
      BY <1>1, <3>1, Constants DEF ConnInv, PeerShape
    <3>2. CASE q = Active
      BY <1>1, <1>2, <3>2, Constants DEF ConnInv, PeerShape, ActivePeer, Announced
    <3> QED BY <3>1, <3>2, Constants
  <2> QED
    BY <1>1, <1>2, <1>6, <2>1 DEF ConnInv, PeerShape
<1>c. DatagramShape'
  BY <1>1 DEF ConnInv, DatagramShape
<1>d. EventPairing' /\ UniqueConnection'
  BY <1>1, <1>a, Constants DEF ConnInv, EventPairing, UniqueConnection, TypeOK
<1>e. OneVoice'
  BY <1>1, <1>2, <1>4 DEF ConnInv, OneVoice, Names
<1>f. Spoken'
  BY <1>1, <1>2, <1>3 DEF ConnInv, Spoken, Names, ActiveNames
<1>g. ConnectFirst'
  BY <1>2 DEF ConnectFirst
<1>h. AnnouncedKnown' /\ NoneEarlier'
  BY <1>1, <1>2, <1>3 DEF OnceInv, AnnouncedKnown, NoneEarlier
<1>i. OtherSession'
  BY <1>1, <1>5 DEF OnceInv, OtherSession, Names, ActiveNames
<1>j. SessionKept'
  BY <1>1, <1>5 DEF OnceInv, SessionKept, Names, Late
<1>k. SlotAdvances'
  BY <1>1, <1>5 DEF OnceInv, SlotAdvances, Names
<1>l. LateIsOlder'
  <2> SUFFICES ASSUME NEW q \in Slots, peer'[q].state = "ACKNOWLEDGING_CONNECT",
                      peer'[q].connectID \in announced', Waiting(peer'[q]),
                      NEW e \in net', Late(e, peer'[q].connectID)
               PROVE  e \in older'[q]
    BY DEF LateIsOlder, Late, Waiting
  <2>1. e \in net /\ e \in older[q] /\ q \in Peer
    BY <1>1, Constants DEF OnceInv, LateIsOlder
  <2> QED
    BY <1>1, <2>1, AgesOlder
<1> QED
  BY <1>a, <1>b, <1>c, <1>d, <1>e, <1>f, <1>g, <1>h, <1>i, <1>j, <1>k, <1>l DEF ConnInv, OnceInv

\* ... and announce it, which happens once.
LEMMA AnnouncesInv ==
    ASSUME ConnInv, OnceInv, NEW p \in Slots, NEW d \in net, Announces(p, d)
    PROVE  (ConnInv /\ OnceInv)' /\ peer[p].connectID \notin announced
<1> DEFINE c == peer[p].connectID
<1>1. /\ net' \subseteq net /\ Ages({}) /\ UNCHANGED randomSeed
      /\ Only(p) /\ p \in Peer /\ \A q \in Peer \ {p} : peer'[q] = peer[q]
      /\ ActivePeer' = ActivePeer
      /\ told' = [told EXCEPT ![p] = c] /\ announced' = announced \cup {c}
  BY Constants DEF Announces, Only, ActivePeer
<1>2. /\ peer[p].state = "ACKNOWLEDGING_CONNECT" /\ peer'[p] \in PeerRecord
      /\ peer'[p].state = "CONNECTED" /\ peer'[p].connectID = c
      /\ peer'[p].outgoingPeerID = peer[p].outgoingPeerID
      /\ peer'[p].incomingSessionID = peer[p].incomingSessionID
      /\ peer'[p].outgoingSessionID = peer[p].outgoingSessionID
      /\ peer'[p].seqNo = peer[p].seqNo /\ peer'[p].commands \subseteq peer[p].commands
      /\ Names(d, p, c) /\ d.session = peer[p].incomingSessionID
  BY DEF Announces, KeepsIdentity
<1>3. c \notin announced /\ c \in 1..randomSeed /\ c \in 1..MaxConns
  <2>1. c \notin announced
    BY <1>2 DEF OnceInv, OtherSession
  <2>2. c # 0 /\ c <= randomSeed /\ c \in 0..MaxConns
    BY <1>1, <1>2, PeerFacts DEF ConnInv, PeerShape, PeerRecord
  <2> QED BY <2>1, <2>2, Constants DEF ConnInv, TypeOK
<1>4. /\ \A e \in net : \A q \in Slots : Names(e, q, c) =>
            q = p /\ e.session = peer[p].incomingSessionID
      /\ ActivePeer.connectID = c =>
            ActivePeer.outgoingPeerID = p /\ ActivePeer.outgoingSessionID = peer[p].incomingSessionID
  BY <1>2, <1>3 DEF ConnInv, OneVoice
<1>5. \A q \in Slots : q # p /\ peer[q].state # "DISCONNECTED" => peer[q].connectID # c
  BY <1>2 DEF ConnInv, UniqueConnection
<1> HIDE DEF c
<1>6. \A q \in Slots : peer[q].state \in Announced \cup {"DISCONNECTED"} => peer'[q] = peer[q] /\ q # p
  BY <1>1, <1>2, Constants DEF Announced
<1>a. TypeOK' /\ (announced \subseteq 1..randomSeed)'
  <2>1. peer' \in [Peer -> PeerRecord]
    BY <1>1, <1>2 DEF Only, ConnInv, TypeOK
  <2>2. older' \in [Peer -> SUBSET net']
    BY <1>1, AgesOlder
  <2>3. told' \in [Peer -> 0..MaxConns]
    BY <1>1, <1>3 DEF ConnInv, TypeOK
  <2>4. announced' \subseteq 1..MaxConns /\ announced' \subseteq 1..randomSeed
    BY <1>1, <1>3 DEF ConnInv, TypeOK
  <2> QED BY <1>1, <2>1, <2>2, <2>3, <2>4 DEF ConnInv, TypeOK
<1>b. PeerShape'
  <2>1. ASSUME NEW q \in Peer
        PROVE  /\ peer'[q].incomingSessionID = peer'[q].outgoingSessionID
               /\ peer'[q].state = "DISCONNECTED" =>
                     peer'[q].connectID = 0 /\ peer'[q].seqNo = 0 /\ peer'[q].commands = {}
               /\ peer'[q].state # "DISCONNECTED" => peer'[q].connectID # 0
               /\ peer'[q].state \notin {"DISCONNECTING", "ACKNOWLEDGING_DISCONNECT", "ZOMBIE"} =>
                     peer'[q].seqNo <= MaxPings + 1
               /\ peer'[q].state \notin Announced => peer'[q].acks = {}
               /\ peer'[q].connectID <= randomSeed'
    <3>1. CASE q # p
      BY <1>1, <3>1 DEF ConnInv, PeerShape
    <3>2. CASE q = p
      BY <1>1, <1>2, <1>3, <3>2 DEF ConnInv, PeerShape, Announced
    <3> QED BY <3>1, <3>2
  <2>2. ASSUME NEW q \in Slots
        PROVE  /\ peer'[q].state # "CONNECTING"
               /\ peer'[q].state # "DISCONNECTED" => peer'[q].outgoingPeerID = Active
               /\ \A m \in peer'[q].commands : m.type # "CONNECT"
    BY <1>1, <1>2, Constants DEF ConnInv, PeerShape
  <2> QED
    BY <1>1, <2>1, <2>2 DEF ConnInv, PeerShape
<1>c. DatagramShape'
  BY <1>1 DEF ConnInv, DatagramShape
<1>d. EventPairing'
  <2>1. ASSUME NEW q \in Slots PROVE told'[q] # 0 <=> peer'[q].state \in Announced
    BY <1>1, <1>2, <1>3, Constants DEF ConnInv, EventPairing, TypeOK, Announced
  <2> QED BY <1>a, <2>1 DEF EventPairing
<1>e. UniqueConnection'
  BY <1>1, <1>2, <1>5, Constants DEF ConnInv, UniqueConnection
<1>f. OneVoice'
  BY <1>1 DEF ConnInv, OneVoice, Names
<1>g. Spoken'
  <2> SUFFICES ASSUME NEW q \in Slots, peer'[q].state \in Announced
               PROVE  /\ ActiveNames(ActivePeer.outgoingPeerID, peer[q].connectID)' =>
                           ActivePeer'.outgoingPeerID = q /\ ActivePeer'.outgoingSessionID = peer'[q].incomingSessionID
                      /\ \A e \in net' : \A s \in Slots : Names(e, s, peer'[q].connectID) =>
                           s = q /\ e.session = peer'[q].incomingSessionID
                      /\ peer'[q].connectID \in announced'
    BY DEF Spoken, Names
  <2>1. CASE q = p
    BY <1>1, <1>2, <1>4, <2>1 DEF ActiveNames
  <2>2. CASE q # p
    <3>1. peer'[q] = peer[q]
      BY <1>1, <2>2, Constants
    <3> QED BY <1>1, <3>1 DEF ConnInv, Spoken, ActiveNames
  <2> QED BY <2>1, <2>2
<1>h. ConnectFirst'
  <2>1. \A q \in Slots : peer'[q].connectID = peer[q].connectID
    BY <1>1, <1>2, Constants DEF c
  <2> QED
    BY <1>1, <2>1 DEF ConnInv, ConnectFirst
<1>i. AnnouncedKnown'
  BY <1>1, <1>4, Constants DEF OnceInv, AnnouncedKnown
<1>j. NoneEarlier'
  BY <1>1, <1>2, <1>6 DEF OnceInv, NoneEarlier, Announced
<1>k. OtherSession'
  <2> SUFFICES ASSUME NEW q \in Slots, peer'[q].state = "ACKNOWLEDGING_CONNECT",
                      peer'[q].connectID \in announced'
               PROVE  /\ \A e \in net' : Names(e, q, peer'[q].connectID) =>
                            e.session # peer'[q].incomingSessionID
                      /\ ActiveNames(q, peer[q].connectID)' =>
                            ActivePeer'.outgoingSessionID # peer'[q].incomingSessionID
    BY DEF OtherSession, Names
  <2>1. q # p /\ peer'[q] = peer[q]
    BY <1>1, <1>2, Constants
  <2>2. peer[q].connectID \in announced
    BY <1>1, <1>5, <2>1
  <2> QED
    BY <1>1, <2>1, <2>2 DEF OnceInv, OtherSession, ActiveNames
<1>l. SessionKept'
  <2> SUFFICES ASSUME NEW q \in Slots, NEW b \in announced', peer'[q].state = "DISCONNECTED",
                      NEW e \in net, Late(e, b)
               PROVE  /\ \A f \in net : Names(f, q, b) => f.session = peer'[q].incomingSessionID
                      /\ ActiveNames(q, b) => ActivePeer.outgoingSessionID = peer'[q].incomingSessionID
    BY <1>1 DEF SessionKept, Names, Late, ActiveNames
  <2>1. q # p /\ peer'[q] = peer[q]
    BY <1>1, <1>2, Constants
  <2>2. CASE b = c
    BY <1>4, <2>1, <2>2 DEF ActiveNames
  <2>3. CASE b \in announced
    BY <2>1, <2>3 DEF OnceInv, SessionKept
  <2> QED BY <1>1, <2>2, <2>3
<1>m. SlotAdvances'
  <2> SUFFICES ASSUME NEW q \in Slots, NEW b \in announced',
                      ActiveNames(q, b) \/ \E e \in net : Names(e, q, b)
               PROVE  peer'[q].connectID = 0 \/ peer'[q].connectID >= b
    BY <1>1 DEF SlotAdvances, Names, ActiveNames
  <2>1. CASE b = c
    BY <1>2, <1>3, <1>4, <2>1 DEF ActiveNames
  <2>2. CASE b \in announced
    <3>1. peer'[q].connectID = peer[q].connectID
      BY <1>1, <1>2, Constants DEF c
    <3> QED BY <2>2, <3>1 DEF OnceInv, SlotAdvances
  <2> QED BY <1>1, <2>1, <2>2
<1>n. LateIsOlder'
  <2> SUFFICES ASSUME NEW q \in Slots, peer'[q].state = "ACKNOWLEDGING_CONNECT",
                      peer'[q].connectID \in announced', Waiting(peer'[q]),
                      NEW e \in net', Late(e, peer'[q].connectID)
               PROVE  e \in older'[q]
    BY DEF LateIsOlder, Late, Waiting
  <2>1. q # p /\ q \in Peer /\ peer'[q] = peer[q]
    BY <1>1, <1>2, Constants
  <2>2. peer[q].connectID \in announced
    BY <1>1, <1>5, <2>1
  <2>3. e \in net /\ e \in older[q]
    BY <1>1, <2>1, <2>2 DEF OnceInv, LateIsOlder
  <2> QED
    BY <1>1, <2>1, <2>3, AgesOlder
<1> QED
  BY <1>3, <1>a, <1>b, <1>c, <1>d, <1>e, <1>f, <1>g, <1>h, <1>i, <1>j, <1>k, <1>l, <1>m, <1>n
     DEF ConnInv, OnceInv, c

-----------------------------------------------------------------------------
\* The theorems.

\* Initially there is no connection.
LEMMA InvInit ==
    ASSUME Init
    PROVE  ConnInv /\ OnceInv
<1> USE DEF Init
<1>1. /\ \A p \in Peer : /\ peer[p].state = "DISCONNECTED" /\ peer[p].connectID = 0
                         /\ peer[p].outgoingPeerID = UNKNOWN /\ peer[p].seqNo = 0
                         /\ peer[p].incomingSessionID = NOSESSION
                         /\ peer[p].outgoingSessionID = NOSESSION
                         /\ peer[p].commands = {} /\ peer[p].acks = {}
      /\ net = {} /\ announced = {} /\ randomSeed = 0 /\ \A p \in Peer : told[p] = 0
  OBVIOUS
<1>2. TypeOK
  <2>1. peer \in [Peer -> PeerRecord]
    <3>1. 0 \in SeqNo /\ 0 \in 0..MaxConns /\ NOSESSION \in Session
      BY Constants DEF Session
    <3> QED BY <3>1 DEF PeerRecord, PeerState
  <2>2. older \in [Peer -> SUBSET net] /\ net \subseteq DatagramType /\ announced \subseteq 1..MaxConns
    OBVIOUS
  <2>3. told \in [Peer -> 0..MaxConns] /\ randomSeed \in 0..MaxConns
    BY Constants
  <2> QED BY <2>1, <2>2, <2>3 DEF TypeOK
<1>3. ActivePeer.state = "DISCONNECTED" /\ ActivePeer.connectID = 0
      /\ ActivePeer.outgoingPeerID = UNKNOWN /\ ActivePeer.commands = {}
  BY <1>1, Constants DEF ActivePeer
<1> QED
  BY <1>1, <1>2, <1>3, Constants
     DEF ConnInv, OnceInv, PeerShape, DatagramShape, EventPairing, UniqueConnection, OneVoice,
         Spoken, ConnectFirst, AnnouncedKnown, OtherSession, SessionKept, NoneEarlier,
         SlotAdvances, LateIsOlder, Announced

\* Every step is of one of these kinds.
LEMMA InvStep ==
    ASSUME ConnInv, OnceInv, [Next]_vars
    PROVE  (ConnInv /\ OnceInv)'
<1>1. CASE UNCHANGED vars
  <2>1. UNCHANGED <<peer, net, older, randomSeed, told, announced>>
    BY <1>1 DEF vars
  <2> QED
    BY <2>1 DEF ConnInv, OnceInv, TypeOK, PeerShape, DatagramShape, EventPairing,
         UniqueConnection, OneVoice, Names, ActiveNames, ActivePeer,
         Spoken, ConnectFirst, AnnouncedKnown, OtherSession, SessionKept, NoneEarlier,
         SlotAdvances, LateIsOlder, Late, Waiting
<1> QED
  BY <1>1, Kinds, LosesInv, OpensInv, SteadyInv, LeavesInv, VerifiesInv, AcceptsInv, AnnouncesInv

\* What the two hosts and the network agree on in every reachable state.
THEOREM ConnInvariant == Spec => [](ConnInv /\ OnceInv)
  BY InvInit, InvStep, PTL DEF Spec

\* The passive application is told of every connection before it ends, and no
\* slot it knows is emptied behind its back; all types are kept.
THEOREM ConnEventPairing == Spec => []EventPairing
<1>1. ConnInv => EventPairing
  BY DEF ConnInv
<1> QED BY <1>1, ConnInvariant, PTL

\* A CONNECT that is duplicated never takes a second slot.
THEOREM ConnUniqueConnection == Spec => []UniqueConnection
<1>1. ConnInv => UniqueConnection
  BY DEF ConnInv
<1> QED BY <1>1, ConnInvariant, PTL

\* Two connected ends of a connection name each other and use the session
\* number the other one expects.
THEOREM ConnSessionAgreement == Spec => []SessionAgreement
<1>1. ASSUME ConnInv PROVE SessionAgreement
  <2> SUFFICES ASSUME NEW p \in Slots, ActivePeer.state = "CONNECTED", peer[p].state = "CONNECTED",
                      ActivePeer.connectID = peer[p].connectID
               PROVE  /\ ActivePeer.outgoingPeerID = p /\ peer[p].outgoingPeerID = Active
                      /\ ActivePeer.incomingSessionID = peer[p].outgoingSessionID
                      /\ ActivePeer.outgoingSessionID = peer[p].incomingSessionID
    BY DEF SessionAgreement, ActivePeer
  <2>1. ActivePeer.outgoingPeerID = p /\ ActivePeer.outgoingSessionID = peer[p].incomingSessionID
    BY <1>1 DEF ConnInv, Spoken, ActiveNames, Announced
  <2>2. /\ peer[p].outgoingPeerID = Active
        /\ ActivePeer.incomingSessionID = ActivePeer.outgoingSessionID
        /\ peer[p].incomingSessionID = peer[p].outgoingSessionID
    BY <1>1, Constants DEF ConnInv, PeerShape, ActivePeer
  <2> QED BY <2>1, <2>2
<1> QED BY <1>1, ConnInvariant, PTL

\* A step of the two hosts is a step of ConnectionEvents, or changes nothing
\* the passive application sees.
LEMMA EventStep ==
    ASSUME ConnInv, OnceInv, [Next]_vars
    PROVE  [Events!Next]_<<[p \in Slots |-> told[p]], announced>>
<1> DEFINE seen == [p \in Slots |-> told[p]]
<1>1. ASSUME \A p \in Slots : told'[p] = told[p], announced' = announced
      PROVE  UNCHANGED <<seen, announced>>
  BY <1>1
<1>2. told \in [Peer -> 0..MaxConns]
  BY DEF ConnInv, TypeOK
<1>3. CASE Loses \/ Opens \/ (\E p \in Peer : Steady(p)) \/ UNCHANGED vars
           \/ \E d \in net : \E p \in Slots : Accepts(p, d)
  BY <1>1, <1>3 DEF Loses, Opens, Steady, Accepts, vars
<1>4. ASSUME NEW d \in net, Verifies(d)
      PROVE  UNCHANGED <<seen, announced>>
  BY <1>1, <1>2, <1>4, Constants DEF Verifies
<1>5. ASSUME NEW p \in Peer, Leaves(p)
      PROVE  Events!Next \/ UNCHANGED <<seen, announced>>
  <2>1. CASE told' = told \/ p \notin Slots
    <3>1. \A q \in Slots : told'[q] = told[q]
      BY <1>2, <1>5, <2>1, Constants DEF Leaves
    <3> QED BY <1>1, <1>5, <3>1 DEF Leaves
  <2>2. CASE p \in Slots /\ told' = [told EXCEPT ![p] = 0] /\ told[p] = 0
    BY <1>1, <1>2, <1>5, <2>2 DEF Leaves
  <2>3. CASE p \in Slots /\ told' = [told EXCEPT ![p] = 0] /\ told[p] # 0
    <3>1. seen[p] # 0 /\ seen' = [seen EXCEPT ![p] = 0] /\ UNCHANGED announced
      BY <1>2, <1>5, <2>3, Constants DEF Leaves
    <3>2. Events!End(p)
      BY <3>1 DEF Events!End
    <3> QED BY <2>3, <3>2 DEF Events!Next
  <2> QED BY <1>5, <2>1, <2>2, <2>3 DEF Leaves
<1>6. ASSUME NEW d \in net, NEW p \in Slots, Announces(p, d)
      PROVE  Events!Next
  <2>1. PICK c \in 1..MaxConns : c = peer[p].connectID
    BY <1>6, Constants DEF Announces, ConnInv, TypeOK, PeerRecord, PeerShape
  <2>2. told[p] = 0
    BY <1>6 DEF Announces, ConnInv, EventPairing, Announced
  <2>3. c \notin announced
    BY <1>6, <2>1, AnnouncesInv
  <2>4. /\ told' = [told EXCEPT ![p] = c] /\ announced' = announced \cup {c}
    BY <1>6, <2>1 DEF Announces
  <2>5. seen[p] = 0 /\ seen' = [seen EXCEPT ![p] = c]
    BY <1>2, <2>2, <2>4, Constants
  <2>6. Events!Connect(p, c)
    BY <2>3, <2>4, <2>5 DEF Events!Connect
  <2> QED BY <2>6 DEF Events!Next
<1> QED
  BY <1>3, <1>4, <1>5, <1>6, Kinds

\* The passive host gives its application the events ConnectionEvents allows:
\* in particular no connection is announced twice.
THEOREM ConnEventsRefined == Spec => EventsRefined
<1>1. Init => Events!Init
  BY Constants DEF Init, Events!Init
<1> QED
  BY <1>1, EventStep, ConnInvariant, PTL DEF Spec, EventsRefined, Events!Spec

=============================================================================
