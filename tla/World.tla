------------------------------- MODULE World -------------------------------
(***************************************************************************)
(* The world the player is in as the proxy tracks it (class world of       *)
(* proxy/world.h): the list of players and the local player, kept by the   *)
(* handlers of proxy/events.cpp from the packets of the server and of the  *)
(* client.  The server is the environment: it numbers the players of a     *)
(* world from one and its packets arrive in order, some time later.        *)
(***************************************************************************)
EXTENDS Integers, Sequences, SequencesExt, FiniteSets, Subsequences

CONSTANTS
    Users,     \* user ids
    Me,        \* the one of the player behind the proxy
    Positions, \* positions in a world
    Origin,    \* the one of vector2_t{}
    MaxNetId,  \* bound: players that enter one world
    MaxWorlds, \* bound: worlds the player enters
    MaxBox     \* bound: packets of the server under way

ASSUME WorldAssumption ==
    /\ Me \in Users /\ Origin \in Positions
    /\ MaxNetId \in Nat \ {0} /\ MaxWorlds \in Nat /\ MaxBox \in Nat

VARIABLES
    connected, players, local,  \* m_world
    present,  \* the server: the players of the world, <<>> when in none
    netids,   \* the server: net ids given out in this world
    worlds,   \* the server: worlds entered so far
    box       \* packets of the server not handled yet

tracked == <<connected, players, local>>
server  == <<present, netids, worlds>>
vars    == <<tracked, server, box>>

Player == [netid : 1..MaxNetId, userid : Users, pos : Positions]
NoPlayer == [netid |-> -1, userid |-> -1, pos |-> Origin]   \* player{}
Packet == [type : {"map", "menu"}]
              \cup [type : {"spawn"}, player : Player, local : BOOLEAN]
              \cup [type : {"remove"}, netid : 1..MaxNetId]
              \cup [type : {"state"}, netid : 1..MaxNetId, pos : Positions]

\* Types of the variables.  The local player may have a position and no
\* identity: the client moves before it is spawned.
TypeOK ==
    /\ connected \in BOOLEAN
    /\ players \in Seq(Player)
    /\ local \in Player \cup {[NoPlayer EXCEPT !.pos = p] : p \in Positions}
    /\ present \in Seq(Player)
    /\ netids \in 0..MaxNetId /\ worlds \in 0..MaxWorlds
    /\ box \in Seq(Packet)

Init ==
    /\ connected = FALSE /\ players = <<>> /\ local = NoPlayer
    /\ present = <<>> /\ netids = 0 /\ worlds = 0
    /\ box = <<>>

-----------------------------------------------------------------------------
\* Handlers of the server's packets.

Handles(type) ==
    /\ box # <<>> /\ Head(box).type = type
    /\ box' = Tail(box)
    /\ UNCHANGED server

\* Faulty sendmapdata: the players of the last world stay.
sendmapdata_KeepsPlayers ==
    /\ Handles("map")
    /\ connected' = TRUE /\ local' = NoPlayer
    /\ UNCHANGED players

\* PACKET_SEND_MAP_DATA.
sendmapdata ==
    /\ Handles("map")
    /\ connected' = TRUE /\ players' = <<>> /\ local' = NoPlayer

\* OnRequestWorldSelectMenu.
OnRequestWorldSelectMenu ==
    /\ Handles("menu")
    /\ connected' = FALSE /\ players' = <<>> /\ local' = NoPlayer

\* Faulty OnSpawn: any spawned player becomes the local one.
OnSpawn_AnyLocal ==
    /\ Handles("spawn")
    /\ players' = Append(players, Head(box).player)
    /\ local' = Head(box).player
    /\ UNCHANGED connected

OnSpawn ==
    /\ Handles("spawn")
    /\ players' = Append(players, Head(box).player)
    /\ local' = IF Head(box).local THEN Head(box).player ELSE local
    /\ UNCHANGED connected

\* operator== of player.
Same(p, q) == p.netid = q.netid /\ p.userid = q.userid

\* Faulty search: the player is looked for among all but the last.
FirstWith_NotLast(list, netid) ==
    LET at == {i \in 1..(Len(list) - 1) : list[i].netid = netid}
    IN IF at = {} THEN 0 ELSE CHOOSE i \in at : \A j \in at : i <= j

\* The first player of the list with this net id, 0 without one.
FirstWith(list, netid) ==
    LET at == {i \in DOMAIN list : list[i].netid = netid}
    IN IF at = {} THEN 0 ELSE CHOOSE i \in at : \A j \in at : i <= j

\* players.erase(std::remove(begin, end, player), end) where `player' is a
\* reference to element i of the vector: once the next different player f has
\* been moved to that place, the rest is compared with f.
EraseAliased(list, i) ==
    LET others == {j \in DOMAIN list : j > i /\ ~Same(list[j], list[i])}
        f      == CHOOSE j \in others : \A k \in others : j <= k
        rest   == IF others = {} THEN {}
                  ELSE {f} \cup {j \in DOMAIN list : j > f /\ ~Same(list[j], list[f])}
    IN  Kept(list, 1..(i - 1) \cup rest)

OnRemove ==
    LET i == FirstWith(players, Head(box).netid)
    IN /\ Handles("remove")
       /\ local' = IF Head(box).netid = local.netid THEN NoPlayer ELSE local
       /\ players' = IF i = 0 THEN players ELSE EraseAliased(players, i)
       /\ UNCHANGED connected

\* events::in::state.
in_state ==
    LET i == FirstWith(players, Head(box).netid)
    IN /\ Handles("state")
       /\ players' = IF connected /\ i # 0
                     THEN [players EXCEPT ![i].pos = Head(box).pos]
                     ELSE players
       /\ UNCHANGED <<connected, local>>

-----------------------------------------------------------------------------
\* Handlers of the client's packets, and the end of the session.

\* events::out::state.
out_state(pos) ==
    /\ connected
    /\ local' = [local EXCEPT !.pos = pos]
    /\ UNCHANGED <<connected, players, server, box>>

\* /tp: the first player of the list whose name begins as asked; the name does
\* not tell its net id.
tp ==
    /\ \E i \in DOMAIN players : local' = [local EXCEPT !.pos = players[i].pos]
    /\ UNCHANGED <<connected, players, server, box>>

\* server::disconnect and server::disconnectsr: the packets under way are lost.
disconnect ==
    /\ connected' = FALSE /\ players' = <<>> /\ local' = NoPlayer
    /\ present' = <<>> /\ box' = <<>>
    /\ UNCHANGED <<netids, worlds>>

\* server::redirect_server leaves m_world alone; the host with its packets goes.
redirect_server ==
    /\ present # <<>>
    /\ present' = <<>> /\ box' = <<>>
    /\ UNCHANGED <<tracked, netids, worlds>>

-----------------------------------------------------------------------------
\* The server.

Sends(packets) ==
    /\ Len(box) + Len(packets) <= MaxBox
    /\ box' = box \o packets
    /\ UNCHANGED tracked

NewPlayer(id, user, pos) == [netid |-> id, userid |-> user, pos |-> pos]
Spawn(p) == [type |-> "spawn", player |-> p, local |-> p.userid = Me]

\* Players that have entered a world first.
First == {p \in Player : p.netid = 1 /\ p.userid # Me}

\* The player enters a world in which there may be another one.
EnterWorld ==
    /\ present = <<>> /\ worlds < MaxWorlds
    /\ worlds' = worlds + 1
    /\ \E others \in {<<>>} \cup {<<p>> : p \in First} :
          /\ netids' = Len(others) + 1 /\ netids' <= MaxNetId
          /\ present' = Append(others, NewPlayer(netids', Me, Origin))
          /\ Sends(<<[type |-> "map"]>> \o [i \in DOMAIN present' |-> Spawn(present'[i])])

Join(user, pos) ==
    /\ present # <<>> /\ netids < MaxNetId
    /\ netids' = netids + 1
    /\ present' = Append(present, NewPlayer(netids', user, pos))
    /\ Sends(<<Spawn(NewPlayer(netids', user, pos))>>)
    /\ UNCHANGED worlds

Leave(i) ==
    /\ present[i].userid # Me
    /\ present' = RemoveAt(present, i)
    /\ Sends(<<[type |-> "remove", netid |-> present[i].netid]>>)
    /\ UNCHANGED <<netids, worlds>>

Move(i, pos) ==
    /\ present[i].userid # Me
    /\ present' = [present EXCEPT ![i].pos = pos]
    /\ Sends(<<[type |-> "state", netid |-> present[i].netid, pos |-> pos]>>)
    /\ UNCHANGED <<netids, worlds>>

LeaveWorld ==
    /\ present # <<>>
    /\ present' = <<>>
    /\ Sends(<<[type |-> "menu"]>>)
    /\ UNCHANGED <<netids, worlds>>

Server ==
    \/ EnterWorld \/ LeaveWorld
    \/ \E u \in Users \ {Me}, p \in Positions : Join(u, p)
    \/ \E i \in DOMAIN present : Leave(i) \/ \E p \in Positions : Move(i, p)

Handlers ==
    \/ sendmapdata \/ OnRequestWorldSelectMenu \/ OnSpawn \/ OnRemove \/ in_state
    \/ \E p \in Positions : out_state(p)
    \/ tp \/ disconnect \/ redirect_server

Next == Handlers \/ Server

Spec == Init /\ [][Next]_vars

-----------------------------------------------------------------------------
\* Properties.

\* When everything the server sent has been handled, the list is the server's:
\* nobody of an earlier world is left, nobody is missing, the wrong player was
\* never erased.  What it holds at any time has its type.
Who(list) == [i \in DOMAIN list |-> [netid |-> list[i].netid, userid |-> list[i].userid]]
ListTracks ==
    /\ TypeOK
    /\ present # <<>> /\ box = <<>> => connected /\ Who(players) = Who(present)

\* ... and so are the positions of the others, to which /tp goes.
PositionsTrack ==
    present # <<>> /\ box = <<>> =>
       \A i \in DOMAIN present :
          present[i].userid # Me => players[i].pos = present[i].pos

\* The local player is the one behind the proxy, with its net id of this
\* world: the proxy's own packets to the client are addressed to it.
LocalTracks ==
    present # <<>> /\ box = <<>> =>
       \E i \in DOMAIN present : /\ present[i].userid = Me
                                 /\ Same(local, present[i])
=============================================================================
