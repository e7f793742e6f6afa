------------------------- MODULE ProxySession_proofs -------------------------
(***************************************************************************)
(* Proofs that the upstream pointers of the proxy stay consistent, for any *)
(* number of client peers and servers and any bounds.                      *)
(***************************************************************************)
EXTENDS ProxySession, TLAPS

\* The invariants of the session together: the world flag is right only because
\* the incoming loop runs with an upstream host (UpstreamUsable), and the
\* address of the session only because the two pointers move together.
SessionInv == TypeOK /\ UpstreamUsable /\ SessionTarget /\ NoGhostWorld

\* Taking a packet from a queue gives an element and leaves a queue.
LEMMA HeadTail ==
    ASSUME NEW S, NEW s \in Seq(S), s # <<>>
    PROVE  Head(s) \in S /\ Tail(s) \in Seq(S)
  OBVIOUS

\* A queue that enet_peer_reset has emptied is a queue.
LEMMA EmptySeq ==
    ASSUME NEW S
    PROVE  <<>> \in Seq(S)
  OBVIOUS

\* An OnSendToServer packet carries the address of a server.
LEMMA RedirectServer ==
    ASSUME NEW m \in InMsg, m.type = "redirect"
    PROVE  m.server \in Servers
  <1>1. CASE m \in [type : {"redirect"}, server : Servers]
    BY <1>1
  <1>2. CASE m \in [type : {"forward", "swallow", "logrequest", "logon", "map", "menu"}]
    BY <1>2
  <1> QED
    BY <1>1, <1>2 DEF InMsg

\* server::start establishes the invariants.
LEMMA InitSession == Init => SessionInv
  <1> SUFFICES ASSUME Init PROVE SessionInv
    OBVIOUS
  <1>1. FlagTypes
    BY Zenon DEF Init, FlagTypes
  <1>2. PointerTypes
    BY DEF Init, PointerTypes
  <1>3. StateTypes
    BY SessionAssumption DEF Init, StateTypes, Targets, LinkState, PeerState, Fate
  <1>4. UpstreamUsable /\ SessionTarget
    BY DEF Init, UpstreamUsable, SessionTarget
  <1>5. NoGhostWorld
    BY Zenon DEF Init, NoGhostWorld
  <1> QED
    BY <1>1, <1>2, <1>3, <1>4, <1>5 DEF SessionInv, TypeOK

\* The part of the state the operations below rebuild.
UpstreamTypes ==
    /\ made \in Nat
    /\ m_server_peer \in (1..made) \cup {NULL}
    /\ m_real_server \in (1..made) \cup {NULL}
    /\ alive \subseteq 1..made
    /\ dest \in Targets
    /\ link \in LinkState
    /\ srvbox \in Seq(InMsg)

\* The invariants give the types of the upstream state.
LEMMA SessionUpstream == SessionInv => UpstreamTypes
  BY DEF SessionInv, TypeOK, PointerTypes, StateTypes, UpstreamTypes

\* server::disconnect leaves no server peer, and an upstream host only if that
\* host had no peer yet.
LEMMA DisconnectStep ==
    ASSUME SessionInv, NEW reset \in BOOLEAN, disconnect(reset)
    PROVE  /\ UpstreamTypes' /\ target' \in Targets
           /\ m_server_peer' = NULL
           /\ m_real_server' \in {NULL, m_real_server}
           /\ m_real_server' # NULL => m_real_server' \in alive'
  <1>1. UpstreamTypes /\ target \in Targets /\ UpstreamUsable
    BY SessionUpstream DEF SessionInv, TypeOK, StateTypes
  <1>2. target' \in Targets
    BY <1>1 DEF disconnect, Targets
  <1>3. CASE m_server_peer = NULL
    <2>1. UNCHANGED upstream
      BY <1>3, Zenon DEF disconnect
    <2> QED
      BY <1>1, <1>2, <1>3, <2>1 DEF upstream, UpstreamTypes, UpstreamUsable
  <1>4. CASE m_server_peer # NULL
    <2>1. /\ m_server_peer' = NULL /\ m_real_server' = NULL
          /\ made' = made /\ dest' = dest
          /\ enet_host_destroy(m_real_server)
      BY <1>4 DEF disconnect
    <2>2. /\ alive' \subseteq alive /\ link' \in LinkState
          /\ srvbox' \in Seq(InMsg)
      BY <1>1, <2>1, EmptySeq DEF enet_host_destroy, UpstreamTypes, LinkState
    <2> QED
      BY <1>1, <1>2, <2>1, <2>2 DEF UpstreamTypes
  <1> QED
    BY <1>3, <1>4

\* server::disconnect clears the world flag.
LEMMA DisconnectFlags ==
    ASSUME SessionInv, NEW reset, disconnect(reset)
    PROVE  world' = FALSE /\ up' \in BOOLEAN /\ stale' \in BOOLEAN
  <1>1. up \in BOOLEAN
    BY DEF SessionInv, TypeOK, FlagTypes
  <1>2. CASE m_server_peer = NULL
    BY <1>1, <1>2, Zenon DEF disconnect
  <1>3. CASE m_server_peer # NULL
    <2>1. stale' = (m_server_peer \notin alive)
      BY <1>3, Zenon DEF disconnect
    <2>2. up' \in (IF stale' THEN BOOLEAN ELSE {TRUE})
      BY <1>3, Zenon DEF disconnect
    <2>3. stale' \in BOOLEAN
      BY <2>1, Zenon
    <2>4. up' \in BOOLEAN
      BY <2>2, Zenon
    <2> QED
      BY <2>3, <2>4, Zenon DEF disconnect
  <1> QED
    BY <1>2, <1>3

\* server::connect leaves host and peer of the same, new generation, connected
\* to the address in force.
LEMMA ConnectStep ==
    ASSUME SessionInv, NEW outcome \in {"ok", "nopeer", "nohost"}, connect(outcome)
    PROVE  /\ UpstreamTypes'
           /\ m_real_server' # NULL =>
                 /\ m_real_server' \in alive'
                 /\ m_server_peer' # NULL => /\ m_server_peer' = m_real_server'
                                             /\ dest' = target
           /\ outcome # "nohost" => m_real_server' # NULL
  <1>1. UpstreamTypes /\ target \in Targets
    BY SessionUpstream DEF SessionInv, TypeOK, StateTypes
  <1>2. made + 1 # NULL
    <2>1. made + 1 \in Nat
      BY <1>1 DEF UpstreamTypes
    <2>2. NULL \notin Nat
      BY SessionAssumption, Zenon DEF SessionAssumption
    <2> QED
      BY <2>1, <2>2, Zenon
  <1>3. <<>> \in Seq(InMsg)
    BY EmptySeq
  <1>4. CASE outcome = "ok"
    BY <1>1, <1>2, <1>3, <1>4 DEF connect, UpstreamTypes, LinkState
  <1>5. CASE outcome = "nopeer"
    BY <1>1, <1>2, <1>3, <1>5 DEF connect, UpstreamTypes, LinkState
  <1>6. CASE outcome = "nohost"
    BY <1>1, <1>6 DEF connect, UpstreamTypes
  <1> QED
    BY <1>4, <1>5, <1>6

\* A failed enet_host_create does not leave a running process.
LEMMA ConnectFlags ==
    ASSUME SessionInv, NEW outcome \in {"ok", "nopeer", "nohost"}, connect(outcome)
    PROVE  /\ up' \in BOOLEAN
           /\ up' => outcome # "nohost"
  <1>1. up \in BOOLEAN
    BY DEF SessionInv, TypeOK, FlagTypes
  <1>2. CASE outcome = "ok"
    BY <1>1, <1>2 DEF connect
  <1>3. CASE outcome = "nopeer"
    BY <1>1, <1>3 DEF connect
  <1>4. CASE outcome = "nohost"
    BY <1>4 DEF connect
  <1> QED
    BY <1>2, <1>3, <1>4

\* server::redirect_server leaves no upstream host.
LEMMA RedirectStep ==
    ASSUME SessionInv, NEW server \in Servers, redirect_server(server)
    PROVE  /\ UpstreamTypes' /\ target' \in Targets
           /\ m_real_server' = NULL
  <1>1. UpstreamTypes
    BY SessionUpstream
  <1>2. alive' \subseteq alive /\ link' \in LinkState /\ srvbox' \in Seq(InMsg)
    BY <1>1, EmptySeq DEF redirect_server, enet_host_destroy, UpstreamTypes, LinkState
  <1> QED
    BY <1>1, <1>2 DEF redirect_server, UpstreamTypes, Targets

\* Every action preserves the invariants: one step per action of Next, one step per
\* conjunct below it.
LEMMA NextSession == SessionInv /\ [Next]_vars => SessionInv'
  <1> SUFFICES ASSUME SessionInv, [Next]_vars PROVE SessionInv'
    OBVIOUS
  <1>0. /\ FlagTypes /\ PointerTypes /\ StateTypes
        /\ UpstreamUsable /\ SessionTarget /\ NoGhostWorld /\ UpstreamTypes
    BY SessionUpstream DEF SessionInv, TypeOK
  <1>1. ASSUME NEW p \in Peers, OutForward(p) PROVE SessionInv'
    <2>1. FlagTypes'
      BY <1>0, <1>1, Zenon DEF FlagTypes, OutForward, OutReceive, OutgoingEvent, env, ReturnOutgoing, ForwardToServer, upstream, flags
    <2>2. PointerTypes'
      BY <1>0, <1>1 DEF PointerTypes, OutForward, OutReceive, OutgoingEvent, env, ReturnOutgoing, ForwardToServer, upstream, flags
    <2>3. StateTypes'
      BY <1>0, <1>1, HeadTail DEF StateTypes, LinkState, PeerState, Fate, OutForward, OutReceive, OutgoingEvent, env, ReturnOutgoing, ForwardToServer, upstream, flags
    <2>4. UpstreamUsable' /\ SessionTarget'
      BY <1>0, <1>1 DEF UpstreamUsable, SessionTarget, OutForward, OutReceive, OutgoingEvent, env, ReturnOutgoing, ForwardToServer, upstream, flags
    <2>5. NoGhostWorld'
      BY <1>0, <1>1, Zenon DEF NoGhostWorld, UpstreamUsable, OutForward, OutReceive, OutgoingEvent, env, ReturnOutgoing, ForwardToServer, upstream, flags
    <2> QED
      BY <2>1, <2>2, <2>3, <2>4, <2>5 DEF SessionInv, TypeOK
  <1>2. ASSUME NEW p \in Peers, OutSwallow(p) PROVE SessionInv'
    <2>1. FlagTypes'
      BY <1>0, <1>2, Zenon DEF FlagTypes, OutSwallow, OutReceive, OutgoingEvent, env, ReturnOutgoing, upstream, flags
    <2>2. PointerTypes'
      BY <1>0, <1>2 DEF PointerTypes, OutSwallow, OutReceive, OutgoingEvent, env, ReturnOutgoing, upstream, flags
    <2>3. StateTypes'
      BY <1>0, <1>2, HeadTail DEF StateTypes, LinkState, PeerState, Fate, OutSwallow, OutReceive, OutgoingEvent, env, ReturnOutgoing, upstream, flags
    <2>4. UpstreamUsable' /\ SessionTarget'
      BY <1>0, <1>2 DEF UpstreamUsable, SessionTarget, OutSwallow, OutReceive, OutgoingEvent, env, ReturnOutgoing, upstream, flags
    <2>5. NoGhostWorld'
      BY <1>0, <1>2, Zenon DEF NoGhostWorld, UpstreamUsable, OutSwallow, OutReceive, OutgoingEvent, env, ReturnOutgoing, upstream, flags
    <2> QED
      BY <2>1, <2>2, <2>3, <2>4, <2>5 DEF SessionInv, TypeOK
  <1>3. ASSUME NEW p \in Peers, OutLog(p) PROVE SessionInv'
    <2>1. FlagTypes'
      BY <1>0, <1>3, Zenon DEF FlagTypes, OutLog, OutReceive, OutgoingEvent, env, ReturnOutgoing, upstream, flags
    <2>2. PointerTypes'
      BY <1>0, <1>3 DEF PointerTypes, OutLog, OutReceive, OutgoingEvent, env, ReturnOutgoing, upstream, flags
    <2>3. StateTypes'
      BY <1>0, <1>3, HeadTail DEF StateTypes, LinkState, PeerState, Fate, OutLog, OutReceive, OutgoingEvent, env, ReturnOutgoing, upstream, flags
    <2>4. UpstreamUsable' /\ SessionTarget'
      BY <1>0, <1>3 DEF UpstreamUsable, SessionTarget, OutLog, OutReceive, OutgoingEvent, env, ReturnOutgoing, upstream, flags
    <2>5. NoGhostWorld'
      BY <1>0, <1>3, Zenon DEF NoGhostWorld, UpstreamUsable, OutLog, OutReceive, OutgoingEvent, env, ReturnOutgoing, upstream, flags
    <2> QED
      BY <2>1, <2>2, <2>3, <2>4, <2>5 DEF SessionInv, TypeOK
  <1>4. ASSUME NEW p \in Peers, OutIntegrity(p) PROVE SessionInv'
    <2>1. FlagTypes'
      BY <1>0, <1>4, Zenon DEF FlagTypes, OutIntegrity, OutReceive, OutgoingEvent, env, ReturnOutgoing, ForwardToServer, upstream, flags
    <2>2. PointerTypes'
      BY <1>0, <1>4 DEF PointerTypes, OutIntegrity, OutReceive, OutgoingEvent, env, ReturnOutgoing, ForwardToServer, upstream, flags
    <2>3. StateTypes'
      BY <1>0, <1>4, HeadTail DEF StateTypes, LinkState, PeerState, Fate, OutIntegrity, OutReceive, OutgoingEvent, env, ReturnOutgoing, ForwardToServer, upstream, flags
    <2>4. UpstreamUsable' /\ SessionTarget'
      BY <1>0, <1>4 DEF UpstreamUsable, SessionTarget, OutIntegrity, OutReceive, OutgoingEvent, env, ReturnOutgoing, ForwardToServer, upstream, flags
    <2>5. NoGhostWorld'
      BY <1>0, <1>4, Zenon DEF NoGhostWorld, UpstreamUsable, OutIntegrity, OutReceive, OutgoingEvent, env, ReturnOutgoing, ForwardToServer, upstream, flags
    <2> QED
      BY <2>1, <2>2, <2>3, <2>4, <2>5 DEF SessionInv, TypeOK
  <1>5. ASSUME NEW p \in Peers, OutLogin(p) PROVE SessionInv'
    <2>1. FlagTypes'
      BY <1>0, <1>5, Zenon DEF FlagTypes, OutLogin, OutReceive, OutgoingEvent, env, ReturnOutgoing, upstream
    <2>2. PointerTypes'
      BY <1>0, <1>5 DEF PointerTypes, OutLogin, OutReceive, OutgoingEvent, env, ReturnOutgoing, upstream
    <2>3. StateTypes'
      BY <1>0, <1>5, HeadTail DEF StateTypes, LinkState, PeerState, Fate, OutLogin, OutReceive, OutgoingEvent, env, ReturnOutgoing, upstream
    <2>4. UpstreamUsable' /\ SessionTarget'
      BY <1>0, <1>5 DEF UpstreamUsable, SessionTarget, OutLogin, OutReceive, OutgoingEvent, env, ReturnOutgoing, upstream
    <2>5. NoGhostWorld'
      BY <1>0, <1>5, Zenon DEF NoGhostWorld, UpstreamUsable, OutLogin, OutReceive, OutgoingEvent, env, ReturnOutgoing, upstream
    <2> QED
      BY <2>1, <2>2, <2>3, <2>4, <2>5 DEF SessionInv, TypeOK
  <1>6. ASSUME OutIdle PROVE SessionInv'
    <2>1. FlagTypes'
      BY <1>0, <1>6, Zenon DEF FlagTypes, OutIdle, env, upstream, flags
    <2>2. PointerTypes'
      BY <1>0, <1>6 DEF PointerTypes, OutIdle, env, upstream, flags
    <2>3. StateTypes'
      BY <1>0, <1>6 DEF StateTypes, LinkState, PeerState, Fate, OutIdle, env, upstream, flags
    <2>4. UpstreamUsable' /\ SessionTarget'
      BY <1>0, <1>6 DEF UpstreamUsable, SessionTarget, OutIdle, env, upstream, flags
    <2>5. NoGhostWorld'
      BY <1>0, <1>6, Zenon DEF NoGhostWorld, UpstreamUsable, OutIdle, env, upstream, flags
    <2> QED
      BY <2>1, <2>2, <2>3, <2>4, <2>5 DEF SessionInv, TypeOK
  <1>7. ASSUME InConnect PROVE SessionInv'
    <2>1. FlagTypes'
      BY <1>0, <1>7, Zenon DEF FlagTypes, InConnect, IncomingEvent, env, flags
    <2>2. PointerTypes'
      BY <1>0, <1>7 DEF PointerTypes, InConnect, IncomingEvent, env, flags
    <2>3. StateTypes'
      BY <1>0, <1>7 DEF StateTypes, LinkState, PeerState, Fate, InConnect, IncomingEvent, env, flags
    <2>4. UpstreamUsable' /\ SessionTarget'
      BY <1>0, <1>7 DEF UpstreamUsable, SessionTarget, InConnect, IncomingEvent, env, flags
    <2>5. NoGhostWorld'
      BY <1>0, <1>7, Zenon DEF NoGhostWorld, UpstreamUsable, InConnect, IncomingEvent, env, flags
    <2> QED
      BY <2>1, <2>2, <2>3, <2>4, <2>5 DEF SessionInv, TypeOK
  <1>8. ASSUME InForward PROVE SessionInv'
    <2>1. FlagTypes'
      BY <1>0, <1>8, Zenon DEF FlagTypes, InForward, InReceive, IncomingEvent, env, TakePacket, ForwardToClient, flags
    <2>2. PointerTypes'
      BY <1>0, <1>8 DEF PointerTypes, InForward, InReceive, IncomingEvent, env, TakePacket, ForwardToClient, flags
    <2>3. StateTypes'
      BY <1>0, <1>8, HeadTail DEF StateTypes, LinkState, PeerState, Fate, InForward, InReceive, IncomingEvent, env, TakePacket, ForwardToClient, flags
    <2>4. UpstreamUsable' /\ SessionTarget'
      BY <1>0, <1>8 DEF UpstreamUsable, SessionTarget, InForward, InReceive, IncomingEvent, env, TakePacket, ForwardToClient, flags
    <2>5. NoGhostWorld'
      BY <1>0, <1>8, Zenon DEF NoGhostWorld, UpstreamUsable, InForward, InReceive, IncomingEvent, env, TakePacket, ForwardToClient, flags
    <2> QED
      BY <2>1, <2>2, <2>3, <2>4, <2>5 DEF SessionInv, TypeOK
  <1>9. ASSUME InLogon PROVE SessionInv'
    <2>1. FlagTypes'
      BY <1>0, <1>9, Zenon DEF FlagTypes, InLogon, InReceive, IncomingEvent, env, TakePacket, ForwardToClient
    <2>2. PointerTypes'
      BY <1>0, <1>9 DEF PointerTypes, InLogon, InReceive, IncomingEvent, env, TakePacket, ForwardToClient
    <2>3. StateTypes'
      BY <1>0, <1>9, HeadTail DEF StateTypes, LinkState, PeerState, Fate, InLogon, InReceive, IncomingEvent, env, TakePacket, ForwardToClient
    <2>4. UpstreamUsable' /\ SessionTarget'
      BY <1>0, <1>9 DEF UpstreamUsable, SessionTarget, InLogon, InReceive, IncomingEvent, env, TakePacket, ForwardToClient
    <2>5. NoGhostWorld'
      BY <1>0, <1>9, Zenon DEF NoGhostWorld, UpstreamUsable, InLogon, InReceive, IncomingEvent, env, TakePacket, ForwardToClient
    <2> QED
      BY <2>1, <2>2, <2>3, <2>4, <2>5 DEF SessionInv, TypeOK
  <1>10. ASSUME InMap PROVE SessionInv'
    <2>1. FlagTypes'
      BY <1>0, <1>10, Zenon DEF FlagTypes, InMap, InReceive, IncomingEvent, env, TakePacket, ForwardToClient, flags
    <2>2. PointerTypes'
      BY <1>0, <1>10 DEF PointerTypes, InMap, InReceive, IncomingEvent, env, TakePacket, ForwardToClient, flags
    <2>3. StateTypes'
      BY <1>0, <1>10, HeadTail DEF StateTypes, LinkState, PeerState, Fate, InMap, InReceive, IncomingEvent, env, TakePacket, ForwardToClient, flags
    <2>4. UpstreamUsable' /\ SessionTarget'
      BY <1>0, <1>10 DEF UpstreamUsable, SessionTarget, InMap, InReceive, IncomingEvent, env, TakePacket, ForwardToClient, flags
    <2>5. NoGhostWorld'
      BY <1>0, <1>10, Zenon DEF NoGhostWorld, UpstreamUsable, InMap, InReceive, IncomingEvent, env, TakePacket, ForwardToClient, flags
    <2> QED
      BY <2>1, <2>2, <2>3, <2>4, <2>5 DEF SessionInv, TypeOK
  <1>11. ASSUME InMenu PROVE SessionInv'
    <2>1. FlagTypes'
      BY <1>0, <1>11, Zenon DEF FlagTypes, InMenu, InReceive, IncomingEvent, env, TakePacket, ForwardToClient, flags
    <2>2. PointerTypes'
      BY <1>0, <1>11 DEF PointerTypes, InMenu, InReceive, IncomingEvent, env, TakePacket, ForwardToClient, flags
    <2>3. StateTypes'
      BY <1>0, <1>11, HeadTail DEF StateTypes, LinkState, PeerState, Fate, InMenu, InReceive, IncomingEvent, env, TakePacket, ForwardToClient, flags
    <2>4. UpstreamUsable' /\ SessionTarget'
      BY <1>0, <1>11 DEF UpstreamUsable, SessionTarget, InMenu, InReceive, IncomingEvent, env, TakePacket, ForwardToClient, flags
    <2>5. NoGhostWorld'
      BY <1>0, <1>11, Zenon DEF NoGhostWorld, UpstreamUsable, InMenu, InReceive, IncomingEvent, env, TakePacket, ForwardToClient, flags
    <2> QED
      BY <2>1, <2>2, <2>3, <2>4, <2>5 DEF SessionInv, TypeOK
  <1>12. ASSUME InSwallow PROVE SessionInv'
    <2>1. FlagTypes'
      BY <1>0, <1>12, Zenon DEF FlagTypes, InSwallow, InReceive, IncomingEvent, env, TakePacket, flags
    <2>2. PointerTypes'
      BY <1>0, <1>12 DEF PointerTypes, InSwallow, InReceive, IncomingEvent, env, TakePacket, flags
    <2>3. StateTypes'
      BY <1>0, <1>12, HeadTail DEF StateTypes, LinkState, PeerState, Fate, InSwallow, InReceive, IncomingEvent, env, TakePacket, flags
    <2>4. UpstreamUsable' /\ SessionTarget'
      BY <1>0, <1>12 DEF UpstreamUsable, SessionTarget, InSwallow, InReceive, IncomingEvent, env, TakePacket, flags
    <2>5. NoGhostWorld'
      BY <1>0, <1>12, Zenon DEF NoGhostWorld, UpstreamUsable, InSwallow, InReceive, IncomingEvent, env, TakePacket, flags
    <2> QED
      BY <2>1, <2>2, <2>3, <2>4, <2>5 DEF SessionInv, TypeOK
  <1>13. ASSUME InLogRequest PROVE SessionInv'
    <2>1. FlagTypes'
      BY <1>0, <1>13, Zenon DEF FlagTypes, InLogRequest, InReceive, IncomingEvent, env, TakePacket, flags
    <2>2. PointerTypes'
      BY <1>0, <1>13 DEF PointerTypes, InLogRequest, InReceive, IncomingEvent, env, TakePacket, flags
    <2>3. StateTypes'
      BY <1>0, <1>13, HeadTail DEF StateTypes, LinkState, PeerState, Fate, InLogRequest, InReceive, IncomingEvent, env, TakePacket, flags
    <2>4. UpstreamUsable' /\ SessionTarget'
      BY <1>0, <1>13 DEF UpstreamUsable, SessionTarget, InLogRequest, InReceive, IncomingEvent, env, TakePacket, flags
    <2>5. NoGhostWorld'
      BY <1>0, <1>13, Zenon DEF NoGhostWorld, UpstreamUsable, InLogRequest, InReceive, IncomingEvent, env, TakePacket, flags
    <2> QED
      BY <2>1, <2>2, <2>3, <2>4, <2>5 DEF SessionInv, TypeOK
  <1>14. ASSUME InIdle PROVE SessionInv'
    <2>1. FlagTypes'
      BY <1>0, <1>14, Zenon DEF FlagTypes, InIdle, IncomingEvent, env, upstream, flags
    <2>2. PointerTypes'
      BY <1>0, <1>14 DEF PointerTypes, InIdle, IncomingEvent, env, upstream, flags
    <2>3. StateTypes'
      BY <1>0, <1>14 DEF StateTypes, LinkState, PeerState, Fate, InIdle, IncomingEvent, env, upstream, flags
    <2>4. UpstreamUsable' /\ SessionTarget'
      BY <1>0, <1>14 DEF UpstreamUsable, SessionTarget, InIdle, IncomingEvent, env, upstream, flags
    <2>5. NoGhostWorld'
      BY <1>0, <1>14, Zenon DEF NoGhostWorld, UpstreamUsable, InIdle, IncomingEvent, env, upstream, flags
    <2> QED
      BY <2>1, <2>2, <2>3, <2>4, <2>5 DEF SessionInv, TypeOK
  <1>15. ASSUME NEW p \in Peers, ClientConnect(p) PROVE SessionInv'
    <2>1. FlagTypes'
      BY <1>0, <1>15, Zenon DEF FlagTypes, ClientConnect, ProxyUnchanged, flags
    <2>2. PointerTypes'
      BY <1>0, <1>15 DEF PointerTypes, ClientConnect, ProxyUnchanged, flags
    <2>3. StateTypes'
      BY <1>0, <1>15 DEF StateTypes, LinkState, PeerState, Fate, ClientConnect, ProxyUnchanged, flags
    <2>4. UpstreamUsable' /\ SessionTarget'
      BY <1>0, <1>15 DEF UpstreamUsable, SessionTarget, ClientConnect, ProxyUnchanged, flags
    <2>5. NoGhostWorld'
      BY <1>0, <1>15, Zenon DEF NoGhostWorld, UpstreamUsable, ClientConnect, ProxyUnchanged, flags
    <2> QED
      BY <2>1, <2>2, <2>3, <2>4, <2>5 DEF SessionInv, TypeOK
  <1>16. ASSUME NEW m \in OutMsg, ClientSend(m) PROVE SessionInv'
    <2>1. FlagTypes'
      BY <1>0, <1>16, Zenon DEF FlagTypes, ClientSend, ProxyUnchanged, flags
    <2>2. PointerTypes'
      BY <1>0, <1>16 DEF PointerTypes, ClientSend, ProxyUnchanged, flags
    <2>3. StateTypes'
      <3>1. client \in Peers /\ Append(inbox[client], m) \in Seq(OutMsg)
        BY <1>0, <1>16 DEF StateTypes, PointerTypes, ClientSend
      <3>2. inbox' \in [Peers -> Seq(OutMsg)]
        BY <1>0, <1>16, <3>1 DEF StateTypes, ClientSend
      <3> QED
        BY <1>0, <1>16, <3>2 DEF StateTypes, ClientSend, ProxyUnchanged, flags
    <2>4. UpstreamUsable' /\ SessionTarget'
      BY <1>0, <1>16 DEF UpstreamUsable, SessionTarget, ClientSend, ProxyUnchanged, flags
    <2>5. NoGhostWorld'
      BY <1>0, <1>16, Zenon DEF NoGhostWorld, UpstreamUsable, ClientSend, ProxyUnchanged, flags
    <2> QED
      BY <2>1, <2>2, <2>3, <2>4, <2>5 DEF SessionInv, TypeOK
  <1>17. ASSUME ClientClose PROVE SessionInv'
    <2>1. FlagTypes'
      BY <1>0, <1>17, Zenon DEF FlagTypes, ClientClose, ProxyUnchanged, flags
    <2>2. PointerTypes'
      BY <1>0, <1>17 DEF PointerTypes, ClientClose, ProxyUnchanged, flags
    <2>3. StateTypes'
      BY <1>0, <1>17 DEF StateTypes, LinkState, PeerState, Fate, ClientClose, ProxyUnchanged, flags
    <2>4. UpstreamUsable' /\ SessionTarget'
      BY <1>0, <1>17 DEF UpstreamUsable, SessionTarget, ClientClose, ProxyUnchanged, flags
    <2>5. NoGhostWorld'
      BY <1>0, <1>17, Zenon DEF NoGhostWorld, UpstreamUsable, ClientClose, ProxyUnchanged, flags
    <2> QED
      BY <2>1, <2>2, <2>3, <2>4, <2>5 DEF SessionInv, TypeOK
  <1>18. ASSUME NEW p \in Peers, ClientGone(p) PROVE SessionInv'
    <2>1. FlagTypes'
      BY <1>0, <1>18, Zenon DEF FlagTypes, ClientGone, ProxyUnchanged, env, flags
    <2>2. PointerTypes'
      BY <1>0, <1>18 DEF PointerTypes, ClientGone, ProxyUnchanged, env, flags
    <2>3. StateTypes'
      BY <1>0, <1>18 DEF StateTypes, LinkState, PeerState, Fate, ClientGone, ProxyUnchanged, env, flags
    <2>4. UpstreamUsable' /\ SessionTarget'
      BY <1>0, <1>18 DEF UpstreamUsable, SessionTarget, ClientGone, ProxyUnchanged, env, flags
    <2>5. NoGhostWorld'
      BY <1>0, <1>18, Zenon DEF NoGhostWorld, UpstreamUsable, ClientGone, ProxyUnchanged, env, flags
    <2> QED
      BY <2>1, <2>2, <2>3, <2>4, <2>5 DEF SessionInv, TypeOK
  <1>19. ASSUME ServerAccept PROVE SessionInv'
    <2>1. FlagTypes'
      BY <1>0, <1>19, Zenon DEF FlagTypes, ServerAccept, ProxyUnchanged, env, flags
    <2>2. PointerTypes'
      BY <1>0, <1>19 DEF PointerTypes, ServerAccept, ProxyUnchanged, env, flags
    <2>3. StateTypes'
      BY <1>0, <1>19 DEF StateTypes, LinkState, PeerState, Fate, ServerAccept, ProxyUnchanged, env, flags
    <2>4. UpstreamUsable' /\ SessionTarget'
      BY <1>0, <1>19 DEF UpstreamUsable, SessionTarget, ServerAccept, ProxyUnchanged, env, flags
    <2>5. NoGhostWorld'
      BY <1>0, <1>19, Zenon DEF NoGhostWorld, UpstreamUsable, ServerAccept, ProxyUnchanged, env, flags
    <2> QED
      BY <2>1, <2>2, <2>3, <2>4, <2>5 DEF SessionInv, TypeOK
  <1>20. ASSUME NEW m \in InMsg, ServerSend(m) PROVE SessionInv'
    <2>1. FlagTypes'
      BY <1>0, <1>20, Zenon DEF FlagTypes, ServerSend, ProxyUnchanged, flags
    <2>2. PointerTypes'
      BY <1>0, <1>20 DEF PointerTypes, ServerSend, ProxyUnchanged, flags
    <2>3. StateTypes'
      BY <1>0, <1>20 DEF StateTypes, LinkState, PeerState, Fate, ServerSend, ProxyUnchanged, flags
    <2>4. UpstreamUsable' /\ SessionTarget'
      BY <1>0, <1>20 DEF UpstreamUsable, SessionTarget, ServerSend, ProxyUnchanged, flags
    <2>5. NoGhostWorld'
      BY <1>0, <1>20, Zenon DEF NoGhostWorld, UpstreamUsable, ServerSend, ProxyUnchanged, flags
    <2> QED
      BY <2>1, <2>2, <2>3, <2>4, <2>5 DEF SessionInv, TypeOK
  <1>21. ASSUME ServerGone PROVE SessionInv'
    <2>1. FlagTypes'
      BY <1>0, <1>21, Zenon DEF FlagTypes, ServerGone, ProxyUnchanged, env, flags
    <2>2. PointerTypes'
      BY <1>0, <1>21 DEF PointerTypes, ServerGone, ProxyUnchanged, env, flags
    <2>3. StateTypes'
      BY <1>0, <1>21 DEF StateTypes, LinkState, PeerState, Fate, ServerGone, ProxyUnchanged, env, flags
    <2>4. UpstreamUsable' /\ SessionTarget'
      BY <1>0, <1>21 DEF UpstreamUsable, SessionTarget, ServerGone, ProxyUnchanged, env, flags
    <2>5. NoGhostWorld'
      BY <1>0, <1>21, Zenon DEF NoGhostWorld, UpstreamUsable, ServerGone, ProxyUnchanged, env, flags
    <2> QED
      BY <2>1, <2>2, <2>3, <2>4, <2>5 DEF SessionInv, TypeOK
  <1>22. ASSUME NEW p \in Peers, OutConnect(p) PROVE SessionInv'
    <2> PICK outcome \in {"ok", "nopeer", "nohost"} :
              /\ connect(outcome)
              /\ IF outcome = "ok" THEN pc' = "outgoing" ELSE ReturnOutgoing
      BY <1>22 DEF OutConnect
    <2>0. /\ UpstreamTypes' /\ up' \in BOOLEAN
          /\ m_real_server' # NULL =>
                /\ m_real_server' \in alive'
                /\ m_server_peer' # NULL => m_server_peer' = m_real_server'
                                            /\ dest' = target
      BY ConnectStep, ConnectFlags
    <2>1. FlagTypes'
      BY <1>0, <1>22, <2>0, Zenon DEF FlagTypes, OutConnect, flags
    <2>2. PointerTypes'
      BY <1>0, <1>22, <2>0 DEF PointerTypes, UpstreamTypes, OutConnect, OutgoingEvent, env
    <2>3. StateTypes'
      BY <1>0, <1>22, <2>0 DEF StateTypes, UpstreamTypes, PeerState, Fate, OutConnect,
         OutgoingEvent, env, ReturnOutgoing
    <2>4. UpstreamUsable' /\ SessionTarget'
      BY <1>22, <2>0 DEF UpstreamUsable, SessionTarget, OutConnect, ReturnOutgoing
    <2>5. NoGhostWorld'
      <3>1. outcome # "nohost" => m_real_server' # NULL
        BY ConnectStep
      <3>2. up' => m_real_server' # NULL
        BY <3>1, ConnectFlags, Zenon
      <3> QED
        BY <3>2, Zenon DEF NoGhostWorld
    <2> QED
      BY <2>1, <2>2, <2>3, <2>4, <2>5 DEF SessionInv, TypeOK
  <1>23. ASSUME NEW p \in Peers, OutQuit(p) PROVE SessionInv'
    <2>0. /\ UpstreamTypes' /\ target' \in Targets
          /\ m_server_peer' = NULL
          /\ m_real_server' # NULL => m_real_server' \in alive'
      BY <1>23, DisconnectStep DEF OutQuit
    <2>1. FlagTypes'
      <3>1. world' = FALSE /\ up' \in BOOLEAN /\ stale' \in BOOLEAN
        BY <1>23, DisconnectFlags, Zenon DEF OutQuit
      <3> QED
        BY <1>0, <1>23, <3>1, Zenon DEF FlagTypes, OutQuit, flags
    <2>2. PointerTypes'
      BY <1>0, <1>23, <2>0 DEF PointerTypes, UpstreamTypes, OutQuit, OutReceive, OutgoingEvent, env, ReturnOutgoing
    <2>3. StateTypes'
      BY <1>0, <1>23, <2>0, HeadTail DEF StateTypes, UpstreamTypes, Fate, OutQuit, OutReceive, OutgoingEvent, env, ReturnOutgoing
    <2>4. UpstreamUsable' /\ SessionTarget'
      BY <1>23, <2>0 DEF UpstreamUsable, SessionTarget, OutQuit, OutReceive, OutgoingEvent, env, ReturnOutgoing
    <2>5. NoGhostWorld'
      <3>1. world' = FALSE
        BY <1>23, DisconnectFlags, Zenon DEF OutQuit
      <3> QED
        BY <3>1, Zenon DEF NoGhostWorld
    <2> QED
      BY <2>1, <2>2, <2>3, <2>4, <2>5 DEF SessionInv, TypeOK
  <1>24. ASSUME NEW p \in Peers, OutCountry(p) PROVE SessionInv'
    <2>0. /\ UpstreamTypes' /\ target' \in Targets
          /\ m_server_peer' = NULL
          /\ m_real_server' # NULL => m_real_server' \in alive'
      BY <1>24, DisconnectStep DEF OutCountry
    <2>1. FlagTypes'
      <3>1. world' = FALSE /\ up' \in BOOLEAN /\ stale' \in BOOLEAN
        BY <1>24, DisconnectFlags, Zenon DEF OutCountry
      <3> QED
        BY <1>0, <1>24, <3>1, Zenon DEF FlagTypes, OutCountry, flags
    <2>2. PointerTypes'
      BY <1>0, <1>24, <2>0 DEF PointerTypes, UpstreamTypes, OutCountry, OutReceive, OutgoingEvent, env, ReturnOutgoing
    <2>3. StateTypes'
      BY <1>0, <1>24, <2>0, HeadTail DEF StateTypes, UpstreamTypes, Fate, OutCountry, OutReceive, OutgoingEvent, env, ReturnOutgoing
    <2>4. UpstreamUsable' /\ SessionTarget'
      BY <1>24, <2>0 DEF UpstreamUsable, SessionTarget, OutCountry, OutReceive, OutgoingEvent, env, ReturnOutgoing
    <2>5. NoGhostWorld'
      <3>1. world' = FALSE
        BY <1>24, DisconnectFlags, Zenon DEF OutCountry
      <3> QED
        BY <3>1, Zenon DEF NoGhostWorld
    <2> QED
      BY <2>1, <2>2, <2>3, <2>4, <2>5 DEF SessionInv, TypeOK
  <1>25. ASSUME InDisconnect PROVE SessionInv'
    <2>0. /\ UpstreamTypes' /\ target' \in Targets
          /\ m_server_peer' = NULL
          /\ m_real_server' # NULL => m_real_server' \in alive'
      BY <1>25, DisconnectStep DEF InDisconnect
    <2>1. FlagTypes'
      <3>1. world' = FALSE /\ up' \in BOOLEAN /\ stale' \in BOOLEAN
        BY <1>25, DisconnectFlags, Zenon DEF InDisconnect
      <3> QED
        BY <1>0, <1>25, <3>1, Zenon DEF FlagTypes, InDisconnect, flags
    <2>2. PointerTypes'
      BY <1>0, <1>25, <2>0 DEF PointerTypes, UpstreamTypes, InDisconnect, IncomingEvent, env
    <2>3. StateTypes'
      BY <1>0, <1>25, <2>0, HeadTail DEF StateTypes, UpstreamTypes, Fate, InDisconnect, IncomingEvent, env
    <2>4. UpstreamUsable' /\ SessionTarget'
      BY <1>25, <2>0 DEF UpstreamUsable, SessionTarget, InDisconnect, IncomingEvent, env
    <2>5. NoGhostWorld'
      <3>1. world' = FALSE
        BY <1>25, DisconnectFlags, Zenon DEF InDisconnect
      <3> QED
        BY <3>1, Zenon DEF NoGhostWorld
    <2> QED
      BY <2>1, <2>2, <2>3, <2>4, <2>5 DEF SessionInv, TypeOK
  <1>26. ASSUME NEW p \in Peers, OutDisconnect(p) PROVE SessionInv'
    <2>a. /\ cstate' \in [Peers -> PeerState] /\ inbox' \in [Peers -> Seq(OutMsg)]
          /\ pkt' \in Fate
      BY <1>0, <1>26, EmptySeq DEF StateTypes, PeerState, Fate, OutDisconnect
    <2>b. CASE in_game
      <3>0. /\ UNCHANGED <<up, upstream, target, world, connecting, in_game, owner>>
            /\ stale' = FALSE /\ ReturnOutgoing /\ OutgoingEvent(p)
        BY <1>26, <2>b, Zenon DEF OutDisconnect
      <3>1. FlagTypes'
        BY <1>0, <3>0, Zenon DEF FlagTypes
      <3>2. PointerTypes'
        BY <1>0, <3>0 DEF PointerTypes, OutgoingEvent, upstream, env
      <3>3. StateTypes'
        BY <1>0, <3>0, <2>a DEF StateTypes, OutgoingEvent, upstream, env, ReturnOutgoing
      <3>4. UpstreamUsable' /\ SessionTarget'
        BY <1>0, <3>0 DEF UpstreamUsable, SessionTarget, upstream, ReturnOutgoing
      <3>5. NoGhostWorld'
        BY <1>0, <3>0, Zenon DEF NoGhostWorld, upstream
      <3> QED
        BY <3>1, <3>2, <3>3, <3>4, <3>5 DEF SessionInv, TypeOK
    <2>c. CASE ~in_game /\ connecting
      <3>0. /\ disconnect(FALSE) /\ connecting' = FALSE /\ ReturnOutgoing
            /\ OutgoingEvent(p) /\ UNCHANGED <<in_game, owner>>
        BY <1>26, <2>c, Zenon DEF OutDisconnect
      <3>a. /\ UpstreamTypes' /\ target' \in Targets
            /\ m_server_peer' = NULL
            /\ m_real_server' # NULL => m_real_server' \in alive'
        BY <3>0, DisconnectStep
      <3>b. world' = FALSE /\ up' \in BOOLEAN /\ stale' \in BOOLEAN
        BY <3>0, DisconnectFlags, Zenon
      <3>1. FlagTypes'
        BY <1>0, <3>0, <3>b, Zenon DEF FlagTypes
      <3>2. PointerTypes'
        BY <1>0, <3>0, <3>a DEF PointerTypes, UpstreamTypes, OutgoingEvent, env
      <3>3. StateTypes'
        BY <1>0, <3>0, <3>a, <2>a
           DEF StateTypes, UpstreamTypes, OutgoingEvent, env, ReturnOutgoing
      <3>4. UpstreamUsable' /\ SessionTarget'
        BY <3>0, <3>a DEF UpstreamUsable, SessionTarget, ReturnOutgoing
      <3>5. NoGhostWorld'
        BY <3>b, Zenon DEF NoGhostWorld
      <3> QED
        BY <3>1, <3>2, <3>3, <3>4, <3>5 DEF SessionInv, TypeOK
    <2>d. CASE ~in_game /\ ~connecting
      <3>0. /\ UNCHANGED <<up, pc, upstream, target, world, connecting, in_game, owner>>
            /\ stale' = FALSE /\ OutgoingEvent(p)
        BY <1>26, <2>d, Zenon DEF OutDisconnect
      <3>1. FlagTypes'
        BY <1>0, <3>0, Zenon DEF FlagTypes
      <3>2. PointerTypes'
        BY <1>0, <3>0 DEF PointerTypes, OutgoingEvent, upstream, env
      <3>3. StateTypes'
        BY <1>0, <3>0, <2>a DEF StateTypes, OutgoingEvent, upstream, env
      <3>4. UpstreamUsable' /\ SessionTarget'
        BY <1>0, <3>0 DEF UpstreamUsable, SessionTarget, upstream
      <3>5. NoGhostWorld'
        BY <1>0, <3>0, Zenon DEF NoGhostWorld, upstream
      <3> QED
        BY <3>1, <3>2, <3>3, <3>4, <3>5 DEF SessionInv, TypeOK
    <2> QED
      BY <1>0, <2>b, <2>c, <2>d, Zenon DEF FlagTypes
  <1>27. ASSUME InRedirect PROVE SessionInv'
    <2>a. Head(srvbox).server \in Servers
      <3>1. Head(srvbox) \in InMsg /\ Head(srvbox).type = "redirect"
        BY <1>0, <1>27, HeadTail DEF StateTypes, InRedirect, InReceive
      <3> QED
        BY <3>1, RedirectServer
    <2>0. UpstreamTypes' /\ target' \in Targets /\ m_real_server' = NULL
      BY <1>27, <2>a, RedirectStep DEF InRedirect
    <2>b. connecting' = TRUE
      BY <1>27, Zenon DEF InRedirect, redirect_server
    <2>1. FlagTypes'
      BY <1>0, <1>27, <2>b, Zenon DEF FlagTypes, InRedirect
    <2>2. PointerTypes'
      BY <1>0, <1>27, <2>0 DEF PointerTypes, UpstreamTypes, InRedirect, InReceive,
         IncomingEvent, env
    <2>3. StateTypes'
      BY <1>0, <1>27, <2>0 DEF StateTypes, UpstreamTypes, Fate, InRedirect, InReceive,
         IncomingEvent, env
    <2>4. UpstreamUsable' /\ SessionTarget'
      BY <1>27, <2>0 DEF UpstreamUsable, SessionTarget, InRedirect
    <2>5. NoGhostWorld'
      BY <2>b, Zenon DEF NoGhostWorld
    <2> QED
      BY <2>1, <2>2, <2>3, <2>4, <2>5 DEF SessionInv, TypeOK
  <1>28. CASE UNCHANGED vars
    <2>1. FlagTypes' /\ NoGhostWorld'
      BY <1>0, <1>28, Zenon DEF FlagTypes, NoGhostWorld, vars, upstream, flags
    <2>2. PointerTypes' /\ StateTypes'
      BY <1>0, <1>28 DEF PointerTypes, StateTypes, vars, upstream, env
    <2>3. UpstreamUsable' /\ SessionTarget'
      BY <1>0, <1>28 DEF UpstreamUsable, SessionTarget, vars, upstream
    <2> QED
      BY <2>1, <2>2, <2>3 DEF SessionInv, TypeOK
  <1>a. CASE HandleOutgoing
    BY <1>a, <1>22, <1>1, <1>2, <1>3, <1>4, <1>5, <1>23, <1>24,
       <1>26, <1>6, Zenon DEF HandleOutgoing
  <1>b. CASE HandleIncoming
    BY <1>b, <1>7, <1>8, <1>9, <1>10, <1>11, <1>12, <1>13, <1>27,
       <1>25, <1>14, Zenon DEF HandleIncoming
  <1>c. CASE Environment
    BY <1>c, <1>15, <1>16, <1>17, <1>18, <1>19, <1>20, <1>21, Zenon
       DEF Environment
  <1> QED
    BY <1>28, <1>a, <1>b, <1>c DEF Next, poll

\* In every behaviour of the proxy the variables keep their types: the upstream
\* pointers are null or name a host that setup_client created.
THEOREM SessionTypes == Spec => []TypeOK
  <1>1. Spec => []SessionInv
    BY InitSession, NextSession, PTL DEF Spec
  <1>2. SessionInv => TypeOK
    BY DEF SessionInv
  <1> QED
    BY <1>1, <1>2, PTL

\* poll() only services, and only sends through, an upstream host that was not
\* destroyed and the peer of that host, whatever the order of the events.
THEOREM SessionUpstreamUsable == Spec => []UpstreamUsable
  <1>1. Spec => []SessionInv
    BY InitSession, NextSession, PTL DEF Spec
  <1>2. SessionInv => UpstreamUsable
    BY DEF SessionInv
  <1> QED
    BY <1>1, <1>2, PTL

\* An upstream connection always goes to the address in force.
THEOREM SessionKeepsTarget == Spec => []SessionTarget
  <1>1. Spec => []SessionInv
    BY InitSession, NextSession, PTL DEF Spec
  <1>2. SessionInv => SessionTarget
    BY DEF SessionInv
  <1> QED
    BY <1>1, <1>2, PTL

\* Without an upstream host and without a switch under way the proxy does not
\* believe that the player is in a world.
THEOREM SessionNoGhostWorld == Spec => []NoGhostWorld
  <1>1. Spec => []SessionInv
    BY InitSession, NextSession, PTL DEF Spec
  <1>2. SessionInv => NoGhostWorld
    BY DEF SessionInv
  <1> QED
    BY <1>1, <1>2, PTL

-----------------------------------------------------------------------------
\* The steps that leave the pointer to the peer, the hosts and the flag alone
\* keep DanglingOnlyInSwitch.
Steady == UNCHANGED <<m_server_peer, alive, connecting>>

\* Nothing the client, the server or the network does touches them.
LEMMA EnvironmentSteady == Environment => Steady
  BY DEF Environment, Steady, ProxyUnchanged, ClientConnect, ClientSend, ClientClose,
     ClientGone, ServerAccept, ServerSend, ServerGone, flags

\* No step leaves a dangling peer outside a switch: disconnect nulls the peer,
\* connect replaces it with one of a new host, redirect_server sets the flag.
LEMMA NextDangling ==
    SessionInv /\ DanglingOnlyInSwitch /\ [Next]_vars => DanglingOnlyInSwitch'
  <1> SUFFICES ASSUME SessionInv, DanglingOnlyInSwitch, [Next]_vars
               PROVE  DanglingOnlyInSwitch'
    OBVIOUS
  <1>s. ASSUME Steady PROVE DanglingOnlyInSwitch'
    BY <1>s, Zenon DEF Steady, DanglingOnlyInSwitch
  <1>n. ASSUME m_server_peer' = NULL PROVE DanglingOnlyInSwitch'
    BY <1>n, Zenon DEF DanglingOnlyInSwitch
  <1>1. ASSUME NEW p \in Peers, OutConnect(p) PROVE DanglingOnlyInSwitch'
    <2>1. PICK outcome \in {"ok", "nopeer", "nohost"} : connect(outcome)
      BY <1>1, Zenon DEF OutConnect
    <2>2. CASE outcome = "ok"
      <3>1. m_server_peer' = made + 1 /\ alive' = alive \cup {made + 1}
        BY <2>1, <2>2 DEF connect
      <3> QED
        BY <3>1, Zenon DEF DanglingOnlyInSwitch
    <2>3. CASE outcome = "nopeer"
      <3>1. m_server_peer' = NULL
        BY <2>1, <2>3 DEF connect
      <3> QED
        BY <3>1, <1>n
    <2>4. CASE outcome = "nohost"
      <3>1. UNCHANGED <<m_server_peer, alive>>
        BY <2>1, <2>4 DEF connect
      <3>2. UNCHANGED connecting
        BY <1>1, Zenon DEF OutConnect, flags
      <3> QED
        BY <3>1, <3>2, <1>s, Zenon DEF Steady
    <2> QED
      BY <2>2, <2>3, <2>4
  <1>2. ASSUME NEW p \in Peers, \/ OutForward(p) \/ OutSwallow(p) \/ OutLog(p)
                                \/ OutIntegrity(p) \/ OutLogin(p)
        PROVE  Steady
    BY <1>2, Zenon DEF Steady, OutForward, OutSwallow, OutLog, OutIntegrity, OutLogin,
       upstream, flags
  <1>3. ASSUME NEW p \in Peers, OutQuit(p) \/ OutCountry(p) PROVE m_server_peer' = NULL
    BY <1>3, DisconnectStep DEF OutQuit, OutCountry
  <1>4. ASSUME NEW p \in Peers, OutDisconnect(p) PROVE DanglingOnlyInSwitch'
    <2>1. CASE disconnect(FALSE)
      <3>1. m_server_peer' = NULL
        BY <2>1, DisconnectStep
      <3> QED
        BY <3>1, <1>n
    <2>2. CASE UNCHANGED <<upstream, connecting>>
      BY <2>2, <1>s, Zenon DEF Steady, upstream
    <2> QED
      BY <1>4, <2>1, <2>2, Zenon DEF OutDisconnect
  <1>5. ASSUME \/ OutIdle \/ InConnect \/ InForward \/ InLogon \/ InMap \/ InMenu
               \/ InSwallow \/ InLogRequest \/ InIdle
        PROVE  Steady
    BY <1>5, Zenon DEF Steady, OutIdle, InConnect, InForward, InLogon, InMap, InMenu,
       InSwallow, InLogRequest, InIdle, TakePacket, upstream, flags
  <1>6. ASSUME InRedirect PROVE DanglingOnlyInSwitch'
    BY <1>6, Zenon DEF InRedirect, redirect_server, DanglingOnlyInSwitch
  <1>7. ASSUME InDisconnect PROVE m_server_peer' = NULL
    BY <1>7, DisconnectStep DEF InDisconnect
  <1>8. CASE UNCHANGED vars
    BY <1>8, <1>s, Zenon DEF vars, Steady, upstream, flags
  <1>9. CASE HandleOutgoing
    BY <1>9, <1>1, <1>2, <1>3, <1>4, <1>5, <1>n, <1>s, Zenon DEF HandleOutgoing
  <1>10. CASE HandleIncoming
    BY <1>10, <1>5, <1>6, <1>7, <1>n, <1>s, Zenon DEF HandleIncoming
  <1>11. CASE Environment
    BY <1>11, <1>s, EnvironmentSteady, Zenon
  <1> QED
    BY <1>8, <1>9, <1>10, <1>11, Zenon DEF Next, poll

\* Outside a switch of subservers m_server_peer is null or a peer of a host that
\* exists, for every order of redirects, quits, drops and connections.
THEOREM SessionDangling == Spec => []DanglingOnlyInSwitch
  <1>1. Spec => []SessionInv
    BY InitSession, NextSession, PTL DEF Spec
  <1>2. Init => DanglingOnlyInSwitch
    BY Zenon DEF Init, DanglingOnlyInSwitch
  <1> QED
    BY <1>1, <1>2, NextDangling, PTL DEF Spec

-----------------------------------------------------------------------------
\* Both pointers are set while ENet has a connection, or an attempt at one, for
\* them: every path that gives up a pointer has destroyed the host before.
LinkHasPeer == up /\ link # "DISCONNECTED" => m_real_server # NULL /\ m_server_peer # NULL

\* destroying the host of m_real_server ends its connection.
LEMMA DestroyedLink ==
    ASSUME LinkHasPeer, up, enet_host_destroy(m_real_server)
    PROVE  link' = "DISCONNECTED"
  BY DEF LinkHasPeer, enet_host_destroy

\* server::disconnect keeps LinkHasPeer.
LEMMA DisconnectLink ==
    ASSUME LinkHasPeer, up, NEW reset, disconnect(reset)
    PROVE  LinkHasPeer'
  <1>1. CASE m_server_peer = NULL
    <2>1. UNCHANGED <<m_server_peer, m_real_server, link>>
      BY <1>1, Zenon DEF disconnect, upstream
    <2> QED
      BY <1>1, <2>1, Zenon DEF LinkHasPeer
  <1>2. CASE m_server_peer # NULL
    <2>1. enet_host_destroy(m_real_server)
      BY <1>2, Zenon DEF disconnect
    <2> QED
      BY <2>1, DestroyedLink, Zenon DEF LinkHasPeer
  <1> QED
    BY <1>1, <1>2

\* A step changes the connection and the pointers together.
LEMMA NextLink == SessionInv /\ LinkHasPeer /\ [Next]_vars => LinkHasPeer'
  <1> SUFFICES ASSUME SessionInv, LinkHasPeer, [Next]_vars PROVE LinkHasPeer'
    OBVIOUS
  <1>s. ASSUME UNCHANGED <<up, m_server_peer, m_real_server, link>> PROVE LinkHasPeer'
    BY <1>s, Zenon DEF LinkHasPeer
  <1>l. ASSUME UNCHANGED <<up, m_server_peer, m_real_server>>, link # "DISCONNECTED"
        PROVE  LinkHasPeer'
    BY <1>l, Zenon DEF LinkHasPeer
  <1>1. ASSUME NEW p \in Peers, OutConnect(p) PROVE LinkHasPeer'
    <2>1. PICK outcome \in {"ok", "nopeer", "nohost"} : connect(outcome)
      BY <1>1, Zenon DEF OutConnect
    <2>2. CASE outcome = "ok"
      <3>1. m_server_peer' = made + 1 /\ m_real_server' = made + 1
        BY <2>1, <2>2 DEF connect
      <3>2. made + 1 \in Nat
        BY DEF SessionInv, TypeOK, PointerTypes
      <3>3. NULL \notin Nat
        BY SessionAssumption, Zenon DEF SessionAssumption
      <3> QED
        BY <3>1, <3>2, <3>3 DEF LinkHasPeer
    <2>3. CASE outcome = "nopeer"
      <3>1. link' = "DISCONNECTED"
        BY <2>1, <2>3 DEF connect
      <3> QED
        BY <3>1, Zenon DEF LinkHasPeer
    <2>4. CASE outcome = "nohost"
      <3>1. ~up'
        BY <2>1, <2>4, ConnectFlags, Zenon
      <3> QED
        BY <3>1, Zenon DEF LinkHasPeer
    <2> QED
      BY <2>2, <2>3, <2>4
  <1>2. ASSUME NEW p \in Peers, \/ OutForward(p) \/ OutSwallow(p) \/ OutLog(p)
                                \/ OutIntegrity(p) \/ OutLogin(p)
        PROVE  LinkHasPeer'
    BY <1>2, <1>s, Zenon DEF OutForward, OutSwallow, OutLog, OutIntegrity, OutLogin, upstream
  <1>3. ASSUME NEW p \in Peers, OutQuit(p) \/ OutCountry(p) PROVE LinkHasPeer'
    BY <1>3, DisconnectLink, Zenon DEF OutQuit, OutCountry, OutReceive, OutgoingEvent
  <1>4. ASSUME NEW p \in Peers, OutDisconnect(p) PROVE LinkHasPeer'
    <2>1. CASE disconnect(FALSE)
      BY <1>4, <2>1, DisconnectLink, Zenon DEF OutDisconnect, OutgoingEvent
    <2>2. CASE UNCHANGED <<up, upstream>>
      BY <2>2, <1>s, Zenon DEF upstream
    <2> QED
      BY <1>4, <2>1, <2>2, Zenon DEF OutDisconnect
  <1>5. ASSUME \/ OutIdle \/ InForward \/ InLogon \/ InMap \/ InMenu
               \/ InSwallow \/ InLogRequest \/ InIdle
        PROVE  LinkHasPeer'
    BY <1>5, <1>s, Zenon DEF OutIdle, InForward, InLogon, InMap, InMenu,
       InSwallow, InLogRequest, InIdle, TakePacket, upstream
  <1>6. ASSUME InConnect PROVE LinkHasPeer'
    <2>1. link # "DISCONNECTED"
      BY <1>6 DEF InConnect
    <2> QED
      BY <1>6, <2>1, <1>l, Zenon DEF InConnect
  <1>7. ASSUME InRedirect PROVE LinkHasPeer'
    BY <1>7, DestroyedLink, Zenon
       DEF InRedirect, InReceive, IncomingEvent, redirect_server, LinkHasPeer
  <1>8. ASSUME InDisconnect PROVE LinkHasPeer'
    BY <1>8, DisconnectLink, Zenon DEF InDisconnect, IncomingEvent
  <1>9. ASSUME Environment PROVE LinkHasPeer'
    <2>1. UNCHANGED <<up, m_server_peer, m_real_server>>
      BY <1>9, Zenon DEF Environment, ProxyUnchanged, ClientConnect, ClientSend, ClientClose,
         ClientGone, ServerAccept, ServerSend, ServerGone
    <2>2. UNCHANGED link \/ link # "DISCONNECTED"
      <3>1. CASE ServerAccept \/ ServerGone
        BY <3>1 DEF ServerAccept, ServerGone
      <3>2. CASE ~(ServerAccept \/ ServerGone)
        BY <1>9, <3>2, Zenon DEF Environment, ClientConnect, ClientSend, ClientClose,
           ClientGone, ServerSend, env
      <3> QED
        BY <3>1, <3>2
    <2> QED
      BY <2>1, <2>2, <1>s, <1>l, Zenon
  <1>10. CASE UNCHANGED vars
    BY <1>10, <1>s, Zenon DEF vars, upstream
  <1>11. CASE HandleOutgoing
    BY <1>11, <1>1, <1>2, <1>3, <1>4, <1>5, Zenon DEF HandleOutgoing
  <1>12. CASE HandleIncoming
    BY <1>12, <1>5, <1>6, <1>7, <1>8, Zenon DEF HandleIncoming
  <1> QED
    BY <1>9, <1>10, <1>11, <1>12, Zenon DEF Next, poll

\* A queue changes when a packet is taken from it or put into it.
LEMMA QueueMoves ==
    ASSUME NEW S, NEW s \in Seq(S), s # <<>>, NEW m \in S
    PROVE  Tail(s) # s /\ Tail(s) # Append(s, m)
  <1>1. Len(Tail(s)) = Len(s) - 1 /\ Len(Append(s, m)) = Len(s) + 1 /\ Len(s) \in Nat
    OBVIOUS
  <1>2. Len(Tail(s)) # Len(s) /\ Len(Tail(s)) # Len(Append(s, m))
    <2> DEFINE a == Len(Tail(s))
               b == Len(Append(s, m))
               n == Len(s)
    <2>1. a = n - 1 /\ b = n + 1 /\ n \in Nat
      BY <1>1
    <2> HIDE DEF a, b, n
    <2>2. a # n /\ a # b
      BY <2>1
    <2> QED
      BY <2>2, Zenon DEF a, b, n
  <1> QED
    BY <1>2, Zenon

\* The step of EstablishedForwards, for a peer p.
ForwardsFrom(p) ==
    /\ pc = "outgoing" /\ link = "CONNECTED"
    /\ inbox[p] # <<>> /\ Head(inbox[p]) = "forward"
    /\ inbox'[p] = Tail(inbox[p])
    /\ cstate'[p] = "CONNECTED"
    => pkt' = "given"

\* Every step with both pointers set gives the packet it takes from the queue.
LEMMA NextForwards ==
    ASSUME SessionInv, LinkHasPeer, [Next]_vars, NEW p \in Peers
    PROVE  ForwardsFrom(p)
  <1> SUFFICES ASSUME pc = "outgoing", link = "CONNECTED", inbox[p] # <<>>,
                      Head(inbox[p]) = "forward", inbox'[p] = Tail(inbox[p]),
                      cstate'[p] = "CONNECTED"
               PROVE  pkt' = "given"
    BY Zenon DEF ForwardsFrom
  <1>0. inbox \in [Peers -> Seq(OutMsg)] /\ cstate \in [Peers -> PeerState]
    BY DEF SessionInv, TypeOK, StateTypes
  <1>1. inbox[p] \in Seq(OutMsg)
    BY <1>0
  <1>2. "swallow" \in OutMsg
    BY DEF OutMsg
  <1>u. inbox'[p] # inbox[p]
    BY <1>1, <1>2, QueueMoves, Zenon
  <1>3. ASSUME NEW q \in Peers, OutForward(q) PROVE pkt' = "given"
    <2>1. up
      BY <1>3, Zenon DEF OutForward, OutReceive, OutgoingEvent
    <2>2. m_server_peer # NULL /\ m_real_server # NULL
      BY <2>1 DEF LinkHasPeer
    <2> QED
      BY <1>3, <2>2 DEF OutForward, ForwardToServer, AcceptedByServer
  <1>4. ASSUME NEW q \in Peers, NEW m, OutReceive(q, m), m # "forward" PROVE FALSE
    <2>1. m = Head(inbox[q]) /\ inbox' = [inbox EXCEPT ![q] = Tail(@)]
      BY <1>4, Zenon DEF OutReceive
    <2>2. q # p
      BY <1>4, <2>1, Zenon
    <2> QED
      BY <1>0, <1>u, <2>1, <2>2
  <1>5. ASSUME NEW q \in Peers, OutDisconnect(q) PROVE FALSE
    <2>1. /\ cstate' = [cstate EXCEPT ![q] = "DISCONNECTED"]
          /\ inbox' = [inbox EXCEPT ![q] = <<>>]
      BY <1>5, Zenon DEF OutDisconnect
    <2> QED
      BY <1>0, <1>u, <2>1
  <1>6. ASSUME NEW q \in Peers, \/ OutConnect(q) \/ ClientConnect(q) \/ ClientGone(q)
        PROVE  FALSE
    BY <1>6, <1>u, Zenon DEF OutConnect, ClientConnect, ClientGone
  <1>7. ASSUME OutIdle \/ ClientClose \/ ServerAccept \/ ServerGone PROVE FALSE
    BY <1>7, <1>u, Zenon DEF OutIdle, ClientClose, ServerAccept, ServerGone
  <1>8. ASSUME NEW m \in InMsg, ServerSend(m) PROVE FALSE
    <2>1. inbox' = inbox
      BY <1>8, Zenon DEF ServerSend, ProxyUnchanged
    <2> QED
      BY <2>1, <1>u, Zenon
  <1>9. ASSUME NEW m \in OutMsg, ClientSend(m) PROVE FALSE
    <2>1. inbox' = [inbox EXCEPT ![client] = Append(@, m)]
      BY <1>9, Zenon DEF ClientSend
    <2>2. inbox'[p] = inbox[p] \/ inbox'[p] = Append(inbox[p], m)
      BY <1>0, <2>1
    <2> QED
      BY <1>1, <1>u, <1>9, <2>2, QueueMoves, Zenon
  <1>10. ASSUME HandleIncoming PROVE FALSE
    <2>1. pc = "incoming"
      BY <1>10, Zenon DEF HandleIncoming, InConnect, InForward, InLogon, InMap, InMenu,
         InSwallow, InLogRequest, InRedirect, InDisconnect, InIdle, InReceive, IncomingEvent
    <2> QED
      BY <2>1
  <1>11. CASE UNCHANGED vars
    BY <1>11, <1>u, Zenon DEF vars
  <1>12. CASE HandleOutgoing
    <2>1. ASSUME NEW q \in Peers, \/ OutSwallow(q) \/ OutLog(q) \/ OutIntegrity(q)
                                  \/ OutLogin(q) \/ OutQuit(q) \/ OutCountry(q)
          PROVE  FALSE
      <3>1. PICK m \in {"swallow", "log", "integrity", "login", "quit", "country"} :
                OutReceive(q, m)
        BY <2>1, Zenon DEF OutSwallow, OutLog, OutIntegrity, OutLogin, OutQuit, OutCountry
      <3>2. m # "forward"
        OBVIOUS
      <3> QED
        BY <3>1, <3>2, <1>4, Zenon
    <2> QED
      BY <1>12, <2>1, <1>3, <1>5, <1>6, <1>7, Zenon DEF HandleOutgoing
  <1>13. CASE Environment
    BY <1>13, <1>6, <1>7, <1>8, <1>9, Zenon DEF Environment
  <1> QED
    BY <1>10, <1>11, <1>12, <1>13, Zenon DEF Next, poll

\* Game packets of the client are given to the upstream connection whenever it is
\* established, for every order of events of any number of peers.
THEOREM SessionForwards == Spec => EstablishedForwards
  <1>1. Spec => []SessionInv
    BY InitSession, NextSession, PTL DEF Spec
  <1>2. Init => LinkHasPeer
    BY DEF Init, LinkHasPeer
  <1>3. Spec => []LinkHasPeer
    BY <1>1, <1>2, NextLink, PTL DEF Spec
  <1>4. SessionInv /\ LinkHasPeer /\ [Next]_vars => [\A p \in Peers : ForwardsFrom(p)]_vars
    BY NextForwards, Zenon
  <1>5. Spec => [][\A p \in Peers : ForwardsFrom(p)]_vars
    BY <1>1, <1>3, <1>4, PTL DEF Spec
  <1> QED
    BY <1>5 DEF EstablishedForwards, ForwardsFrom

-----------------------------------------------------------------------------
\* The slots while the client has a connection: only its own and those of older ones
\* are in use, a handshake is pending in its own alone, and the last event that was
\* handled came from one of them once its own has been established.
Slots ==
    /\ \A p \in Peers : cstate[p] = "CONNECTION_PENDING" => p = client
    /\ client # NULL =>
          /\ cstate[client] \in {"CONNECTION_PENDING", "CONNECTED"}
          /\ \A p \in Peers : p # client /\ p \notin older => cstate[p] = "DISCONNECTED"
    /\ GtPeerIsClient

\* The part of the state Slots is about.
SlotsSame == UNCHANGED <<cstate, client, older, m_gt_peer>>

\* What handle_incoming does and what comes from the server leaves it alone.
LEMMA OthersSlots ==
    HandleIncoming \/ OutIdle \/ ServerAccept \/ ServerGone \/ (\E m \in InMsg : ServerSend(m))
    \/ (\E m \in OutMsg : ClientSend(m))
    => SlotsSame
  BY Zenon DEF SlotsSame, HandleIncoming, InConnect, InForward, InLogon, InMap, InMenu,
     InSwallow, InLogRequest, InRedirect, InDisconnect, InIdle, InReceive, IncomingEvent, OutIdle,
     ServerAccept, ServerGone, ServerSend, ClientSend, ProxyUnchanged, env

\* Every step keeps Slots.
LEMMA NextSlots ==
    ASSUME SessionInv, Slots, [Next]_vars
    PROVE  Slots'
  <1>0. /\ cstate \in [Peers -> PeerState] /\ client \in Peers \cup {NULL} /\ older \subseteq Peers
        /\ NULL \notin Peers
    BY SessionAssumption DEF SessionInv, TypeOK, StateTypes, PointerTypes
  <1>s. SlotsSame => Slots'
    BY DEF SlotsSame, Slots, GtPeerIsClient
  <1>u. ASSUME NEW p \in Peers, cstate[p] # "DISCONNECTED", client # NULL PROVE p \in {client} \cup older
    BY <1>u DEF Slots
  <1>1. ASSUME NEW p \in Peers, OutConnect(p) PROVE Slots'
    <2>1. /\ cstate[p] = "CONNECTION_PENDING" /\ cstate' = [cstate EXCEPT ![p] = "CONNECTED"]
          /\ m_gt_peer' = p /\ client' = client /\ older' = older
      BY <1>1 DEF OutConnect, OutgoingEvent, env
    <2>2. \A q \in Peers : cstate'[q] = IF q = p THEN "CONNECTED" ELSE cstate[q]
      BY <1>0, <2>1
    <2>3. p = client
      BY <2>1 DEF Slots
    <2> QED
      BY <1>0, <2>1, <2>2, <2>3 DEF Slots, GtPeerIsClient
  <1>2. ASSUME NEW p \in Peers, NEW m, OutReceive(p, m) PROVE Slots'
    <2>1. cstate[p] = "CONNECTED" /\ m_gt_peer' = p /\ UNCHANGED <<cstate, older, client>>
      BY <1>2 DEF OutReceive, OutgoingEvent, env
    <2>2. client # NULL => p \in {client} \cup older
      BY <2>1, <1>u
    <2> QED
      BY <2>1, <2>2 DEF Slots, GtPeerIsClient
  <1>3. ASSUME NEW p \in Peers, OutDisconnect(p) PROVE Slots'
    <2>1. /\ cstate[p] = "ZOMBIE" /\ cstate' = [cstate EXCEPT ![p] = "DISCONNECTED"]
          /\ m_gt_peer' = p /\ client' = client /\ older' = older
      BY <1>3 DEF OutDisconnect, OutgoingEvent, env
    <2>2. \A q \in Peers : cstate'[q] = IF q = p THEN "DISCONNECTED" ELSE cstate[q]
      BY <1>0, <2>1
    <2>3. client # NULL => p \in {client} \cup older /\ p # client
      BY <2>1, <1>u DEF Slots
    <2> QED
      BY <1>0, <2>1, <2>2, <2>3 DEF Slots, GtPeerIsClient
  <1>4. ASSUME NEW p \in Peers, ClientConnect(p) PROVE Slots'
    <2>1. /\ client = NULL /\ cstate' = [cstate EXCEPT ![p] = "CONNECTION_PENDING"] /\ client' = p
          /\ older' = {q \in Peers : cstate[q] # "DISCONNECTED"}
      BY <1>4 DEF ClientConnect
    <2>2. \A q \in Peers : cstate'[q] = IF q = p THEN "CONNECTION_PENDING" ELSE cstate[q]
      BY <1>0, <2>1
    <2>3. \A q \in Peers : cstate[q] # "CONNECTION_PENDING"
      BY <1>0, <2>1 DEF Slots
    <2> QED
      BY <1>0, <2>1, <2>2, <2>3 DEF Slots, GtPeerIsClient
  <1>5. ASSUME ClientClose PROVE Slots'
    BY <1>0, <1>5 DEF ClientClose, ProxyUnchanged, Slots, GtPeerIsClient
  <1>6. ASSUME NEW p \in Peers, ClientGone(p) PROVE Slots'
    <2>1. /\ p # client /\ cstate[p] = "CONNECTED" /\ cstate' = [cstate EXCEPT ![p] = "ZOMBIE"]
          /\ UNCHANGED <<client, older, m_gt_peer>>
      BY <1>6 DEF ClientGone, ProxyUnchanged, env
    <2>2. \A q \in Peers : cstate'[q] = IF q = p THEN "ZOMBIE" ELSE cstate[q]
      BY <1>0, <2>1
    <2>3. client # NULL => p \in older
      BY <2>1, <1>u
    <2> QED
      BY <1>0, <2>1, <2>2, <2>3 DEF Slots, GtPeerIsClient
  <1>7. CASE UNCHANGED vars
    BY <1>7, <1>s, Zenon DEF vars, SlotsSame, env
  <1>8. CASE HandleOutgoing
    <2>1. ASSUME NEW p \in Peers, \/ OutForward(p) \/ OutSwallow(p) \/ OutLog(p) \/ OutIntegrity(p)
                                  \/ OutLogin(p) \/ OutQuit(p) \/ OutCountry(p)
          PROVE  Slots'
      BY <2>1, <1>2, Zenon DEF OutForward, OutSwallow, OutLog, OutIntegrity, OutLogin, OutQuit, OutCountry
    <2> QED
      BY <1>8, <1>1, <1>3, <1>s, <2>1, OthersSlots, Zenon DEF HandleOutgoing
  <1>9. CASE HandleIncoming
    BY <1>9, <1>s, OthersSlots, Zenon
  <1>10. CASE Environment
    BY <1>10, <1>s, <1>4, <1>5, <1>6, OthersSlots, Zenon DEF Environment
  <1> QED
    BY <1>7, <1>8, <1>9, <1>10, Zenon DEF Next, poll

\* server::start begins with no client.
LEMMA InitSlots == Init => Slots
  BY DEF Init, Slots, GtPeerIsClient

\* Once the client's connection is established, m_gt_peer, the peer of the last event,
\* is its slot, or that of a connection the client had left and the proxy had not yet
\* seen end: whatever handle_incoming forwards goes to one of these.
THEOREM SessionGtPeer == Spec => []GtPeerIsClient
  <1>1. Spec => []SessionInv
    BY InitSession, NextSession, PTL DEF Spec
  <1>2. SessionInv /\ Slots /\ [Next]_vars => Slots'
    BY NextSlots
  <1>3. Slots => GtPeerIsClient
    BY DEF Slots
  <1> QED
    BY <1>1, <1>2, <1>3, InitSlots, PTL DEF Spec

=============================================================================
