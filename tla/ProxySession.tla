---------------------------- MODULE ProxySession ----------------------------
(***************************************************************************)
(* The session lifecycle of the proxy: class `server' of proxy/server.cpp, *)
(* with the two flags of proxy/gt.cpp it consults.  One thread runs        *)
(* server::poll in a loop; each action below is one iteration of the       *)
(* service loop of handle_outgoing (events of the game client, dispatched  *)
(* by the ENet host m_proxy_server) or of handle_incoming (events of the   *)
(* game server, dispatched by the ENet host m_real_server).  The game      *)
(* client and the game server are the environment.                        *)
(*                                                                         *)
(* An ENet host created by setup_client is named by its generation number  *)
(* 1, 2, ...; it owns exactly one peer, so m_server_peer is named by the   *)
(* generation of the host whose memory it points into.                     *)
(***************************************************************************)
EXTENDS Naturals, Sequences

CONSTANTS
    Peers,           \* peer slots of m_proxy_server
    Servers,         \* addresses OnSendToServer may announce
    Home,            \* serverz:portz, the login server
    NULL,            \* the null pointer
    MaxConns,        \* bound: connections the game client opens
    MaxMsgs,         \* bound: packets client and server send in all
    MaxBox           \* bound: undispatched packets of one peer

ASSUME SessionAssumption ==
    /\ NULL \notin Peers /\ NULL \notin Nat
    /\ Home \notin Servers
    /\ MaxConns \in Nat /\ MaxMsgs \in Nat /\ MaxBox \in Nat

Targets == Servers \cup {Home}

\* Packets of the client, by what handle_outgoing does with them: forwarded
\* unless a case applies; a handler that returns true (chat commands, ghost
\* movement); NET_MESSAGE_TRACK and CLIENT_LOG_RESPONSE; PACKET_DISCONNECT
\* and APP_INTEGRITY_FAIL; the login text; "action|quit"; the country dialog.
OutMsg == {"forward", "swallow", "log", "integrity", "login", "quit", "country"}

\* Packets of the server, by what handle_incoming does with them.
InMsg == [type : {"forward", "swallow", "logrequest", "logon", "map", "menu"}]
             \cup [type : {"redirect"}, server : Servers]

VARIABLES
    up,             \* the process has not crashed
    pc,             \* which service loop of poll() runs: "outgoing" or "incoming"
    m_gt_peer,      \* peer slot of the last event of m_proxy_server
    m_server_peer,  \* generation of the host it points into, or NULL
    m_real_server,  \* generation of the upstream host, or NULL
    target,         \* m_server, m_port, m_user and m_token, set together
    connecting,     \* gt::connecting
    in_game,        \* gt::in_game
    world,          \* m_world.connected
    made,           \* number of upstream hosts created so far
    alive,          \* the ones not yet destroyed
    link,           \* ENet state of the peer of m_real_server
    dest,           \* the address that peer was connected to
    srvbox,         \* its received packets, not yet dispatched
    cstate,         \* ENet state of each peer slot of m_proxy_server
    inbox,          \* its received packets, not yet dispatched
    client,         \* the slot of the game client's open connection, or NULL
    conns, msgs,    \* what the environment has done so far (bounded)
    older,          \* history: the slots of connections that the client had left, but
                    \* the proxy had not yet seen end, when it opened this one
    owner,          \* history: the slot whose CONNECT opened the upstream session
    pkt,            \* history: what became of the packet of the last step
    stale           \* history: the last step used a peer of a destroyed host

upstream == <<m_server_peer, m_real_server, made, alive, link, dest, srvbox>>
flags    == <<connecting, in_game>>
env      == <<client, conns, msgs, older>>
vars == <<up, pc, m_gt_peer, upstream, target, flags, world, cstate, inbox,
          env, owner, pkt, stale>>

PeerState == {"DISCONNECTED", "CONNECTION_PENDING", "CONNECTED", "ZOMBIE"}
LinkState == {"DISCONNECTED", "CONNECTING", "CONNECTION_SUCCEEDED", "CONNECTED",
              "ZOMBIE"}
Fate      == {"none", "destroyed", "given", "leaked"}

FlagTypes ==
    /\ up \in BOOLEAN
    /\ connecting \in BOOLEAN
    /\ in_game \in BOOLEAN
    /\ world \in BOOLEAN
    /\ stale \in BOOLEAN

PointerTypes ==
    /\ made \in Nat
    /\ m_server_peer \in (1..made) \cup {NULL}
    /\ m_real_server \in (1..made) \cup {NULL}
    /\ alive \subseteq 1..made
    /\ m_gt_peer \in Peers \cup {NULL}
    /\ owner \in Peers \cup {NULL}
    /\ client \in Peers \cup {NULL}
    /\ older \subseteq Peers

StateTypes ==
    /\ pc \in {"outgoing", "incoming"}
    /\ target \in Targets /\ dest \in Targets
    /\ link \in LinkState
    /\ srvbox \in Seq(InMsg)
    /\ cstate \in [Peers -> PeerState]
    /\ inbox \in [Peers -> Seq(OutMsg)]
    /\ conns \in Nat /\ msgs \in Nat
    /\ pkt \in Fate

\* Types of the variables: in particular the two upstream pointers are null or
\* name a host that setup_client created.
TypeOK == FlagTypes /\ PointerTypes /\ StateTypes

-----------------------------------------------------------------------------
\* server::start: the proxy host listens, setup_client creates a first
\* upstream host, no peer is connected.
Init ==
    /\ up = TRUE
    /\ pc = "outgoing"
    /\ m_gt_peer = NULL
    /\ m_server_peer = NULL
    /\ made = 1 /\ m_real_server = 1 /\ alive = {1}
    /\ link = "DISCONNECTED" /\ dest = Home /\ srvbox = <<>>
    /\ target = Home
    /\ connecting = FALSE /\ in_game = FALSE /\ world = FALSE
    /\ cstate = [p \in Peers |-> "DISCONNECTED"]
    /\ inbox = [p \in Peers |-> <<>>]
    /\ client = NULL /\ older = {} /\ conns = 0 /\ msgs = 0
    /\ owner = NULL /\ pkt = "none" /\ stale = FALSE

-----------------------------------------------------------------------------
\* Parts of the handlers.

\* A handler returns from handle_outgoing: poll goes on to handle_incoming
\* unless there is no upstream host.
ReturnOutgoing == pc' = IF m_real_server' = NULL THEN "outgoing" ELSE "incoming"

\* enet_host_destroy: resets the peer and frees the host; NULL is ignored.
enet_host_destroy(h) ==
    IF h = NULL
    THEN UNCHANGED <<alive, link, srvbox>>
    ELSE /\ alive' = alive \ {h}
         /\ link' = "DISCONNECTED"
         /\ srvbox' = <<>>

\* enet_peer_send to the peer slot p of the client, to the peer of the server:
\* only a CONNECTED peer takes the packet.
AcceptedByClient(p) == p # NULL /\ cstate[p] = "CONNECTED"
AcceptedByServer    == link = "CONNECTED"

\* Faulty disconnect: m_world.connected is not cleared.
disconnect_KeepsWorld(reset) ==
    /\ UNCHANGED world
    /\ IF m_server_peer = NULL
       THEN /\ UNCHANGED <<upstream, up>>
            /\ stale' = FALSE
       ELSE /\ stale' = (m_server_peer \notin alive)
            /\ up' \in (IF stale' THEN BOOLEAN ELSE {TRUE})
            /\ m_server_peer' = NULL
            /\ enet_host_destroy(m_real_server)
            /\ m_real_server' = NULL
            /\ UNCHANGED <<made, dest>>
    /\ target' = IF reset THEN Home ELSE target

\* server::disconnect and server::disconnectsr.  m_server_peer is handed to
\* enet_peer_disconnect whether or not its host still exists; what that does
\* to freed memory is undefined: it goes unnoticed or the process dies.
disconnect(reset) ==
    /\ world' = FALSE
    /\ IF m_server_peer = NULL
       THEN /\ UNCHANGED <<upstream, up>>
            /\ stale' = FALSE
       ELSE /\ stale' = (m_server_peer \notin alive)
            /\ up' \in (IF stale' THEN BOOLEAN ELSE {TRUE})
            /\ m_server_peer' = NULL
            /\ enet_host_destroy(m_real_server)
            /\ m_real_server' = NULL
            /\ UNCHANGED <<made, dest>>
    /\ target' = IF reset THEN Home ELSE target

\* Faulty connect: a peer is looked for only when m_server_peer is null.
connect_KeepsPeer(outcome) ==
    /\ outcome = "ok"
    /\ made' = made + 1
    /\ alive' = alive \cup {made + 1}
    /\ m_real_server' = made + 1
    /\ m_server_peer' = IF m_server_peer = NULL THEN made + 1 ELSE m_server_peer
    /\ link' = "CONNECTING" /\ dest' = target /\ srvbox' = <<>>
    /\ UNCHANGED up

\* server::connect after setup_client: the new host replaces m_real_server,
\* whatever it pointed to.  enet_host_create may fail, and is dereferenced
\* before the check; a null peer from enet_host_connect ends the attempt.
connect(outcome) ==
    CASE outcome = "ok" ->
            /\ made' = made + 1
            /\ alive' = alive \cup {made + 1}
            /\ m_real_server' = made + 1
            /\ m_server_peer' = made + 1
            /\ link' = "CONNECTING" /\ dest' = target /\ srvbox' = <<>>
            /\ UNCHANGED up
      [] outcome = "nopeer" ->
            /\ made' = made + 1
            /\ alive' = alive \cup {made + 1}
            /\ m_real_server' = made + 1
            /\ m_server_peer' = NULL
            /\ link' = "DISCONNECTED" /\ srvbox' = <<>>
            /\ UNCHANGED <<up, dest>>
      [] outcome = "nohost" ->
            /\ up' = FALSE
            /\ m_real_server' = NULL
            /\ UNCHANGED <<made, alive, m_server_peer, link, dest, srvbox>>

\* Faulty redirects: gt::connecting is not set; the old upstream host is kept.
redirect_NoFlag(server) ==
    /\ target' = server
    /\ enet_host_destroy(m_real_server)
    /\ m_real_server' = NULL
    /\ UNCHANGED <<m_server_peer, made, dest, connecting>>

redirect_KeepsHost(server) ==
    /\ target' = server
    /\ connecting' = TRUE
    /\ srvbox' = Tail(srvbox)
    /\ UNCHANGED <<m_server_peer, m_real_server, made, alive, link, dest>>

\* server::redirect_server, called for OnSendToServer: the announced address
\* is kept, the rewritten list goes to the client, the upstream host is
\* destroyed; m_server_peer keeps its value.
redirect_server(server) ==
    /\ target' = server
    /\ connecting' = TRUE
    /\ enet_host_destroy(m_real_server)
    /\ m_real_server' = NULL
    /\ UNCHANGED <<m_server_peer, made, dest>>

-----------------------------------------------------------------------------
\* One iteration of the loop of handle_outgoing.

\* Faulty event: the peer of the first event is kept.
OutgoingEvent_KeepsFirst(p) ==
    /\ up
    /\ pc = "outgoing"
    /\ m_gt_peer' = IF m_gt_peer = NULL THEN p ELSE m_gt_peer
    /\ UNCHANGED env

\* An event of the client's host: every case first stores evt.peer.
OutgoingEvent(p) ==
    /\ up
    /\ pc = "outgoing"
    /\ m_gt_peer' = p
    /\ UNCHANGED env

\* ENET_EVENT_TYPE_CONNECT.
OutConnect(p) ==
    /\ OutgoingEvent(p)
    /\ cstate[p] = "CONNECTION_PENDING"
    /\ cstate' = [cstate EXCEPT ![p] = "CONNECTED"]
    /\ \E outcome \in {"ok", "nopeer", "nohost"} :
          /\ connect(outcome)
          /\ IF outcome = "ok" THEN pc' = "outgoing" ELSE ReturnOutgoing
    /\ owner' = p
    /\ pkt' = "none" /\ stale' = FALSE
    /\ UNCHANGED <<target, flags, world, inbox>>

\* ENET_EVENT_TYPE_RECEIVE, the packet m taken from the peer's queue.
OutReceive(p, m) ==
    /\ OutgoingEvent(p)
    /\ cstate[p] = "CONNECTED"
    /\ inbox[p] # <<>> /\ m = Head(inbox[p])
    /\ inbox' = [inbox EXCEPT ![p] = Tail(@)]
    /\ UNCHANGED <<cstate, owner>>

\* Faulty forward: nothing is sent upstream once a redirect was announced.
ForwardToServer_NotInSwitch ==
    IF m_server_peer = NULL \/ m_real_server = NULL \/ connecting
    THEN /\ pkt' = "leaked"
         /\ ReturnOutgoing
    ELSE /\ pkt' = IF AcceptedByServer THEN "given" ELSE "leaked"
         /\ pc' = "outgoing"

\* The tail of the RECEIVE case: give the packet to m_server_peer, or return
\* without destroying it; a refused packet is not destroyed either.
ForwardToServer ==
    IF m_server_peer = NULL \/ m_real_server = NULL
    THEN /\ pkt' = "leaked"
         /\ ReturnOutgoing
    ELSE /\ pkt' = IF AcceptedByServer THEN "given" ELSE "leaked"
         /\ pc' = "outgoing"

OutForward(p) ==
    /\ OutReceive(p, "forward")
    /\ UNCHANGED <<up, upstream, target, flags, world>>
    /\ ForwardToServer
    /\ stale' = FALSE

\* A handler returned true: the packet is destroyed and the loop left.
OutSwallow(p) ==
    /\ OutReceive(p, "swallow")
    /\ UNCHANGED <<up, upstream, target, flags, world>>
    /\ pkt' = "destroyed" /\ stale' = FALSE
    /\ ReturnOutgoing

\* NET_MESSAGE_TRACK and NET_MESSAGE_CLIENT_LOG_RESPONSE.
OutLog(p) ==
    /\ OutReceive(p, "log")
    /\ UNCHANGED <<up, upstream, target, flags, world>>
    /\ pkt' = "leaked" /\ stale' = FALSE
    /\ ReturnOutgoing

\* PACKET_DISCONNECT and PACKET_APP_INTEGRITY_FAIL.
OutIntegrity(p) ==
    /\ OutReceive(p, "integrity")
    /\ UNCHANGED <<up, upstream, target, flags, world>>
    /\ IF in_game THEN pkt' = "leaked" /\ ReturnOutgoing ELSE ForwardToServer
    /\ stale' = FALSE

\* The login text: generictext sends its own copy and swallows the packet.
OutLogin(p) ==
    /\ OutReceive(p, "login")
    /\ UNCHANGED <<up, upstream, target, connecting, world>>
    /\ in_game' = FALSE
    /\ pkt' = "destroyed" /\ stale' = FALSE
    /\ ReturnOutgoing

\* "action|quit": server::quit, then the packet is destroyed.
OutQuit(p) ==
    /\ OutReceive(p, "quit")
    /\ in_game' = FALSE
    /\ disconnect(TRUE)
    /\ pkt' = "destroyed"
    /\ ReturnOutgoing
    /\ UNCHANGED connecting

\* The country dialog: disconnectsr(true), and generictext goes on; the
\* packet then meets the test for an upstream session.
OutCountry(p) ==
    /\ OutReceive(p, "country")
    /\ disconnect(TRUE)
    /\ pkt' = "leaked"
    /\ ReturnOutgoing
    /\ UNCHANGED flags

\* ENET_EVENT_TYPE_DISCONNECT: ENet has reset the peer, the packets it still
\* held are lost.
OutDisconnect(p) ==
    /\ OutgoingEvent(p)
    /\ cstate[p] = "ZOMBIE"
    /\ cstate' = [cstate EXCEPT ![p] = "DISCONNECTED"]
    /\ inbox' = [inbox EXCEPT ![p] = <<>>]
    /\ pkt' = "none"
    /\ \/ /\ in_game
          /\ stale' = FALSE
          /\ UNCHANGED <<up, upstream, target, world, connecting>>
          /\ ReturnOutgoing
       \/ /\ ~in_game /\ connecting
          /\ disconnect(FALSE)
          /\ connecting' = FALSE
          /\ ReturnOutgoing
       \/ /\ ~in_game /\ ~connecting
          /\ stale' = FALSE
          /\ UNCHANGED <<up, pc, upstream, target, world, connecting>>
    /\ UNCHANGED <<in_game, owner>>

\* enet_host_service found nothing: handle_outgoing ends.  Without an upstream
\* host poll() returns and starts over, which changes nothing.
OutIdle ==
    /\ up
    /\ pc = "outgoing"
    /\ \A p \in Peers : /\ cstate[p] \notin {"CONNECTION_PENDING", "ZOMBIE"}
                        /\ cstate[p] = "CONNECTED" => inbox[p] = <<>>
    /\ m_real_server # NULL
    /\ pc' = "incoming"
    /\ pkt' = "none" /\ stale' = FALSE
    /\ UNCHANGED <<up, m_gt_peer, upstream, target, flags, world, cstate, inbox,
                   env, owner>>

HandleOutgoing ==
    \/ \E p \in Peers : OutConnect(p)
    \/ \E p \in Peers : OutForward(p)
    \/ \E p \in Peers : OutSwallow(p)
    \/ \E p \in Peers : OutLog(p)
    \/ \E p \in Peers : OutIntegrity(p)
    \/ \E p \in Peers : OutLogin(p)
    \/ \E p \in Peers : OutQuit(p)
    \/ \E p \in Peers : OutCountry(p)
    \/ \E p \in Peers : OutDisconnect(p)
    \/ OutIdle

-----------------------------------------------------------------------------
\* One iteration of the loop of handle_incoming.

IncomingEvent ==
    /\ up
    /\ pc = "incoming"
    /\ UNCHANGED <<m_gt_peer, cstate, inbox, env, owner>>

\* ENET_EVENT_TYPE_CONNECT: only printed.
InConnect ==
    /\ IncomingEvent
    /\ link = "CONNECTION_SUCCEEDED"
    /\ link' = "CONNECTED"
    /\ pkt' = "none" /\ stale' = FALSE
    /\ UNCHANGED <<up, pc, m_server_peer, m_real_server, made, alive, dest, srvbox,
                   target, flags, world>>

\* ENET_EVENT_TYPE_RECEIVE of a packet of the given type.
InReceive(type) ==
    /\ IncomingEvent
    /\ link = "CONNECTED"
    /\ srvbox # <<>> /\ Head(srvbox).type = type

TakePacket ==
    /\ srvbox' = Tail(srvbox)
    /\ UNCHANGED <<up, m_server_peer, m_real_server, made, alive, link, dest, target>>

\* The tail of the RECEIVE case: give the packet to m_gt_peer, or leave the
\* loop when no client was ever seen.
ForwardToClient ==
    /\ pkt' = IF AcceptedByClient(m_gt_peer) THEN "given" ELSE "leaked"
    /\ pc' = IF m_gt_peer = NULL THEN "outgoing" ELSE "incoming"
    /\ stale' = FALSE

InForward ==
    /\ InReceive("forward")
    /\ TakePacket
    /\ ForwardToClient
    /\ UNCHANGED <<flags, world>>

\* OnSuperMainStartAcceptLogon.
InLogon ==
    /\ InReceive("logon")
    /\ TakePacket
    /\ in_game' = TRUE
    /\ ForwardToClient
    /\ UNCHANGED <<connecting, world>>

\* PACKET_SEND_MAP_DATA: the player has entered a world.
InMap ==
    /\ InReceive("map")
    /\ TakePacket
    /\ world' = TRUE
    /\ ForwardToClient
    /\ UNCHANGED flags

\* OnRequestWorldSelectMenu: the player has left it.
InMenu ==
    /\ InReceive("menu")
    /\ TakePacket
    /\ world' = FALSE
    /\ ForwardToClient
    /\ UNCHANGED flags

\* A handler returned true: the packet is destroyed and the loop left.
InSwallow ==
    /\ InReceive("swallow")
    /\ TakePacket
    /\ pkt' = "destroyed" /\ stale' = FALSE
    /\ pc' = "outgoing"
    /\ UNCHANGED <<flags, world>>

\* NET_MESSAGE_CLIENT_LOG_REQUEST.
InLogRequest ==
    /\ InReceive("logrequest")
    /\ TakePacket
    /\ pkt' = "leaked" /\ stale' = FALSE
    /\ pc' = "outgoing"
    /\ UNCHANGED <<flags, world>>

\* OnSendToServer: redirect_server, then the packet is destroyed.
InRedirect ==
    /\ InReceive("redirect")
    /\ redirect_server(Head(srvbox).server)
    /\ pkt' = "destroyed" /\ stale' = FALSE
    /\ pc' = "outgoing"
    /\ UNCHANGED <<up, in_game, world>>

\* Faulty disconnection: the early return of handle_outgoing is copied here.
InDisconnect_OutOfGame ==
    /\ IncomingEvent
    /\ link = "ZOMBIE"
    /\ ~in_game
    /\ disconnect(TRUE)
    /\ pkt' = "none"
    /\ pc' = "outgoing"
    /\ UNCHANGED flags

\* ENET_EVENT_TYPE_DISCONNECT.
InDisconnect ==
    /\ IncomingEvent
    /\ link = "ZOMBIE"
    /\ disconnect(TRUE)
    /\ pkt' = "none"
    /\ pc' = "outgoing"
    /\ UNCHANGED flags

\* Faulty end of the loop: enet_host_service waits for an event of the server.
InIdle_Waits ==
    /\ IncomingEvent
    /\ link = "DISCONNECTED"
    /\ pc' = "outgoing"
    /\ pkt' = "none" /\ stale' = FALSE
    /\ UNCHANGED <<up, upstream, target, flags, world>>

InIdle ==
    /\ IncomingEvent
    /\ link \notin {"CONNECTION_SUCCEEDED", "ZOMBIE"}
    /\ link = "CONNECTED" => srvbox = <<>>
    /\ pc' = "outgoing"
    /\ pkt' = "none" /\ stale' = FALSE
    /\ UNCHANGED <<up, upstream, target, flags, world>>

HandleIncoming ==
    \/ InConnect \/ InForward \/ InLogon \/ InMap \/ InMenu \/ InSwallow
    \/ InLogRequest \/ InRedirect \/ InDisconnect \/ InIdle

poll == HandleOutgoing \/ HandleIncoming

-----------------------------------------------------------------------------
\* The environment: what the ENet hosts see of the game client and the server.

ProxyUnchanged ==
    UNCHANGED <<up, pc, m_gt_peer, m_server_peer, m_real_server, made, alive, dest,
                target, flags, world, owner, pkt, stale>>

\* The client opens a connection: its handshake completes in a free slot.  Those of
\* its old connections may still be there.
ClientConnect(p) ==
    /\ up
    /\ client = NULL /\ conns < MaxConns
    /\ cstate[p] = "DISCONNECTED"
    /\ cstate' = [cstate EXCEPT ![p] = "CONNECTION_PENDING"]
    /\ client' = p
    /\ older' = {q \in Peers : cstate[q] # "DISCONNECTED"}
    /\ conns' = conns + 1
    /\ ProxyUnchanged /\ UNCHANGED <<msgs, link, srvbox, inbox>>

ClientSend(m) ==
    /\ up
    /\ client # NULL /\ cstate[client] = "CONNECTED"
    /\ msgs < MaxMsgs /\ Len(inbox[client]) < MaxBox
    /\ inbox' = [inbox EXCEPT ![client] = Append(@, m)]
    /\ msgs' = msgs + 1
    /\ ProxyUnchanged /\ UNCHANGED <<client, older, conns, link, srvbox, cstate>>

\* The client leaves its connection; the proxy has not noticed yet.
ClientClose ==
    /\ up
    /\ client # NULL /\ cstate[client] = "CONNECTED"
    /\ client' = NULL
    /\ older' = {}
    /\ ProxyUnchanged /\ UNCHANGED <<conns, msgs, link, srvbox, cstate, inbox>>

\* The proxy's ENet host notices that the client is gone: the disconnect
\* command arrived, or the peer timed out.
ClientGone(p) ==
    /\ up
    /\ p # client /\ cstate[p] = "CONNECTED"
    /\ cstate' = [cstate EXCEPT ![p] = "ZOMBIE"]
    /\ ProxyUnchanged /\ UNCHANGED <<env, link, srvbox, inbox>>

ServerAccept ==
    /\ up
    /\ link = "CONNECTING"
    /\ link' = "CONNECTION_SUCCEEDED"
    /\ ProxyUnchanged /\ UNCHANGED <<env, srvbox, cstate, inbox>>

ServerSend(m) ==
    /\ up
    /\ link = "CONNECTED"
    /\ msgs < MaxMsgs /\ Len(srvbox) < MaxBox
    /\ srvbox' = Append(srvbox, m)
    /\ msgs' = msgs + 1
    /\ ProxyUnchanged /\ UNCHANGED <<client, older, conns, link, cstate, inbox>>

\* The server drops the connection, or refuses it, or times out.
ServerGone ==
    /\ up
    /\ link \in {"CONNECTING", "CONNECTION_SUCCEEDED", "CONNECTED"}
    /\ link' = "ZOMBIE"
    /\ ProxyUnchanged /\ UNCHANGED <<env, srvbox, cstate, inbox>>

Environment ==
    \/ \E p \in Peers : ClientConnect(p)
    \/ \E m \in OutMsg : ClientSend(m)
    \/ ClientClose
    \/ \E p \in Peers : ClientGone(p)
    \/ ServerAccept
    \/ \E m \in InMsg : ServerSend(m)
    \/ ServerGone

Next == poll \/ Environment

\* main() calls poll() for ever: the proxy's thread always takes its next step.
Spec == Init /\ [][Next]_vars /\ WF_vars(poll)

-----------------------------------------------------------------------------
\* Properties.

\* Whatever handle_incoming services and whatever the two tests of
\* handle_outgoing let through is usable: the incoming loop runs only with an
\* upstream host, m_real_server is a host that was not destroyed, and
\* m_server_peer, when both are set, is a peer of that host.
UpstreamUsable ==
    /\ pc = "incoming" => m_real_server # NULL
    /\ m_real_server # NULL =>
          /\ m_real_server \in alive
          /\ m_server_peer # NULL => m_server_peer = m_real_server

\* The upstream connection goes to the address now in m_server and m_port: no
\* redirect or reset changes the address under a connection that survives it.
SessionTarget ==
    m_real_server # NULL /\ m_server_peer # NULL => dest = target

\* Once the upstream session is gone and no switch of subservers is under
\* way, the proxy no longer believes that the player is in a world.
NoGhostWorld == up /\ m_real_server = NULL /\ ~connecting => ~world

\* Every packet that arrives is eventually dispatched or dropped with its
\* peer: neither loop of poll() starves the other once the senders are quiet.
QueuesDrain ==
    /\ \A p \in Peers : inbox[p] # <<>> ~> (inbox[p] = <<>> \/ ~up)
    /\ srvbox # <<>> ~> (srvbox = <<>> \/ ~up)

\* A connection the server has dropped is noticed: the session is torn down or
\* was already replaced.
DropNoticed == link = "ZOMBIE" ~> (link # "ZOMBIE" \/ ~up)

\* The event of a peer that is not the one whose CONNECT opened the upstream
\* session does not end that session: a client that has switched to a
\* subserver is not cut off when its old connection is found dead.
SwitchSurvives ==
    [][\A p \in Peers :
          /\ cstate[p] = "ZOMBIE" /\ cstate'[p] = "DISCONNECTED"
          /\ owner # p /\ m_server_peer \in alive
          => m_real_server' = m_real_server]_vars

\* Once the proxy has seen the client connect, packets for it go to the peer of its
\* open connection, but for one case: an event of a connection that the client had
\* left earlier, and whose end the proxy had not yet seen, takes m_gt_peer away from
\* it.  No other slot ever does, and none if the old connections had ended.
GtPeerIsClient ==
    client # NULL /\ cstate[client] = "CONNECTED" => m_gt_peer \in {client} \cup older

\* m_server_peer outlives its host only from a redirect to the client's next
\* connection: at any other time disconnect hands enet_peer_disconnect a peer of
\* a host that exists.
DanglingOnlyInSwitch ==
    m_server_peer # NULL /\ m_server_peer \notin alive => connecting

\* While there is an established upstream connection, whatever switches and
\* quits came before it, a game packet of the client is given to it: the early
\* returns that leave a packet undestroyed are not taken for these.
EstablishedForwards ==
    [][\A p \in Peers :
          /\ pc = "outgoing" /\ link = "CONNECTED"
          /\ inbox[p] # <<>> /\ Head(inbox[p]) = "forward"
          /\ inbox'[p] = Tail(inbox[p])
          /\ cstate'[p] = "CONNECTED"
          => pkt' = "given"]_vars

=============================================================================
