# srmotion-proxy: a verification project

srmotion-proxy sits between the Growtopia client and the game's servers. It
redirects the client to itself (by the machine's hosts file and an HTTP answer
that names 127.0.0.1), accepts the client's ENet connection, opens an ENet
connection of its own to the real server, forwards packets both ways, and reacts
to some of them. This directory holds TLA+ models of that program, the TLC
configurations that check them and TLAPS proofs.

## 1. Inventory

| Component | Source | State | Operations |
|---|---|---|---|
| Proxy session | `proxy/server.{h,cpp}`, `proxy/gt.cpp`, session parts of `proxy/events.cpp` | `m_gt_peer`, `m_server_peer`, `m_real_server`, `m_proxy_server`, `m_server`/`m_port`/`m_user`/`m_token`, `gt::connecting`, `gt::in_game`, `m_world.connected` | `start`, `poll`, `handle_outgoing`, `handle_incoming`, `connect`, `disconnect`, `disconnectsr`, `quit`, `redirect_server` |
| ENet reliable channel | `proxy/enet/peer.c`, `proxy/enet/protocol.c` | sequence numbers, window counters, sent / outgoing / incoming / dispatched lists, acknowledgements | send, (re)transmit, acknowledge, reorder, dispatch, receive, time out |
| ENet connection management | `proxy/enet/host.c`, `peer.c`, `protocol.c` | peer state, connect and session ids | connect, verify, disconnect (three forms), reset, ping, time out |
| World tracking | `proxy/world.h`, `proxy/player.h`, handlers in `proxy/events.cpp` | players, local player, `connected` | OnSpawn, OnRemove, state packets, map data, menu |
| Packet event handlers | `proxy/events.cpp` | option flags, wrench mode, tax percentage, `resolving_uid2`, `uidz` | one handler per packet kind: chat commands, dialogs of the proxy, dialogs and messages of the server, `/uid`, tax calculator |
| Range coder | `proxy/enet/compress.c` | contexts and counts of one packet, symbol pool, range registers | compress, decompress |
| Hosts file and process lifecycle | `proxy/proxy.cpp`, `getMeta` in `proxy/http.cpp` | the hosts file (survives the process) | `setgtserver`, `getMeta`, `HandlerRoutine` |
| HTTP server | `proxy/http.cpp`, `proxy/sandbird/` | streams with their buffers and states | accept, receive, respond, close, time out |
| Variant, text and packet formats | `proxy/proton/` | none | pack, unpack, parse |
| HTTP client, sockets, printing | `proxy/HTTPRequest.hpp`, `proxy/enet/{win32,unix,callbacks,list}.c`, `proxy/dialog.h`, `proxy/print.h` | none of their own | system calls, formatting |

How they interact. Three threads exist. `main` patches the hosts file
(`setgtserver`), starts the HTTP thread and then calls `server::poll` for ever.
The HTTP thread runs the sandbird loop; for each `server_data.php` request its
handler calls `getMeta`, which empties the hosts file, asks the real web server
and patches the file again. The console handler runs in a thread of the system
and empties the file. No lock is taken anywhere. Within `main`, `poll` runs the
service loop of the client's ENet host and then that of the server's ENet host:
what they share is the session state of `class server`, and handlers of one loop
destroy or replace the host of the other. ENet and the application meet in the
peer: an event names one, and a pointer to it is kept.

What is hard here:

- events of an old peer arriving after a new one connected (`m_gt_peer` is
  overwritten by every event, `gt::connecting` is consumed by any of them);
- pointers (`m_server_peer`) outliving the host that owns their memory;
- the hosts file written by three threads, and left behind by a crash;
- ENet's 16-bit sequence numbers with loss, duplication, reordering, fragments
  and wrap;
- an adaptive coder whose two ends must make the same rescalings and resets,
  and whose decoder meets damaged data before the checksum is tested;
- one flag for all `/uid` resolutions under way, and options that change between
  a request and the dialog that answers it;
- a received packet having several owners, one of which must destroy it;
- two service loops, neither of which may starve the other once its own senders pause.

What makes each component correct: the session's pointers must be usable where
the code uses them, the session must go where the game announced, and every
packet of an established session must be forwarded; the channel must deliver each
packet once and in order; a packet must decompress to itself; each dialog must be
settled once, and `/uid` must leave no trace but the id (section 5 says when the
code fails to);
the file must redirect clients exactly while the proxy serves them, and never
the proxy's own request. `PROJECT.json` lists each hazard at its line.

## 2. Plan

Order, most important first; the first four blocks are done.

1. `ProxySession` (lifecycle of the session, with its environment) and
   `ProxySession_proofs`; `EnetChannel` refining `ReliableChannel`; `HostsFile`
   and `HostsFile_proofs`; `EnetConnection` refining `ConnectionEvents`; `World`;
   `HttpServer`.
2. `EventHandlers`, `UidResolver`, `TaxCalculator` and `EventHandlers_proofs`;
   `RangeCoder`; fragments in `EnetChannel`.
3. Theorems: type correctness and `WindowAccounting` of `EnetChannel`, the
   invariants of `EnetConnection` and its refinement of `ConnectionEvents`, the
   properties of `HttpServer`, the invariants of `World` and of `UidResolver`,
   `GtPeerIsClient`.
4. Theorems: `NoLossByAck` of `EnetChannel` and its refinement of
   `ReliableChannel`, from what relates the two ends across the wrap: how far the
   receiver's window may be from the sender's, given the age of a datagram.
5. Composition: the events of `ConnectionEvents` are the ones `ProxySession`
   assumes of its environment; the streams of `HttpServer` with the file of
   `HostsFile`.

## 3. Modules

| Module | Models | 
|---|---|
| `ProxySession` | class `server`, the flags of `gt`, the handlers that change the session |
| `MCProxySession` | two peer slots and one subserver, with the permutations of the slots |
| `ProxySession_proofs` | theorems about `ProxySession` |
| `ReliableChannel` | what ENet promises for reliable packets of a channel |
| `EnetChannel`, `MCEnetChannel`, `EnetChannel_proofs` | how `peer.c` and `protocol.c` do it; theorems about the sender |
| `EnetDelivery_proofs` | theorems about both ends of `EnetChannel` |
| `ConnectionEvents` | the events an application may see of a peer |
| `EnetConnection`, `MCEnetConnection`, `EnetConnection_proofs` | handshake, disconnection and timeouts of two hosts |
| `HostsFile`, `MCHostsFile`, `HostsFile_proofs` | the hosts file, its three threads and restarts |
| `World`, `MCWorld`, `World_proofs` | the players of the world as the proxy tracks them |
| `HttpServer`, `MCHttpServer`, `HttpServer_proofs` | sandbird's streams and poll loop, the HTTP handler |
| `EventHandlers` | options, chat commands, dialogs and chat of the server |
| `TaxCalculator` | the count the casino options put in a drop dialog |
| `UidResolver` | the resolution of a name to a user id |
| `MCEventHandlers` | the options and the resolution, side by side, with `/setuid` as a step of both |
| `EventHandlers_proofs` | theorems about the options, the tax calculator, the resolution and the two together |
| `RangeCoder`, `MCRangeCoder` | ENet's packet compressor |
| `Subsequences` | the entries of a list at given places: what is left when a list is walked and some entries are unlinked |

### ProxySession

One action is one iteration of a service loop: `Out...` for `handle_outgoing`,
`In...` for `handle_incoming`, one per event type and per class of packet. `pc`
says which loop runs; leaving `handle_outgoing` (a `return`, or no more events)
goes to `handle_incoming` when there is an upstream host. The whole handler is in
the action: `OutQuit`, for instance, includes `server::quit` and `disconnect` with
the destruction of the host. `handle_incoming` leaves its loop the same way.

A pointer to an upstream host is its generation number (the n-th host
`setup_client` created); a peer pointer is the generation of the host whose array
it points into; `alive` holds the generations not yet destroyed. That makes a
dangling pointer visible: `m_server_peer \notin alive`. Using one is undefined
behaviour, modelled as "nothing happens or the process dies".

Packets are classes (`OutMsg`, `InMsg`): all packets of a class take the same
path through the handlers. The client and the server are the environment; the
ENet host below them shows the states of `ENetPeerState` at which events are
dispatched (`CONNECTION_PENDING`, `CONNECTION_SUCCEEDED`, `ZOMBIE`). A client may
connect again before its old peer is found dead: it is a separate ENet peer, and
the disconnect command may be lost and the peer time out much later. `older` is a
history variable of the properties: the slots of connections that the client had
left, and whose end the proxy had not seen, when it made the present one.

`connect` has three outcomes. `nohost` is a failed `enet_host_create`: the code
writes to the host's fields before it tests the pointer, so the process dies.
`nopeer` is a null result of `enet_host_connect`.

Each line that is dropped from the model formats, prints or patches bytes.

### EnetChannel

Both ends of one direction of one reliable channel. The constants are the
`ENET_PEER_...` constants; the sequence space is `WINDOWS * WINDOW_SIZE`, 65536 in
the code, and wraps. A packet is one command, or one per fragment; the data of a
command has length one, so byte counts are command counts. Commands carry, as
history, the number of the `enet_peer_send` call. An entry of the receiver's list
holds the parts that have arrived, so that a packet put together from two is seen
(`Content`). The receiver takes
commands of the windows `cur .. cur + FREE - 2` and suppresses acknowledgements
for the two windows after these; the sender does not open a window while the
window before it is full or one of the next `FREE` windows is in use. Together
they keep the sender from reaching a window whose commands the receiver would
discard *and* acknowledge. With fragments the two tests look at different numbers,
the first of the packet and the fragment's own: a packet that straddles a window is
taken whole while the acknowledgements of its end are held back; since these fill
the window, the sender opens no further one. This needs a bound on the age of datagrams, the
constant `Lifetime` (counted in newer packets): a duplicate of a data command or
an acknowledgement that survives most of a turn of the sequence space is taken
for a new one, as in any protocol with finite sequence numbers. The bound is for
copies only: a command that is still listed by the sender may travel at any time,
since the windows keep the sender from leaving it behind (`Fresh`). The assumption
`FREE_WINDOWS >= 3` is the shape the code has (8 of 16 windows; the run has 3 of 6).

`WrapAssumption` is what the wrap asks for. A datagram may live through as many packets
as the windows the receiver does not look at have numbers (nine windows, 36864 of
65536 numbers, in the code), and a packet has at most one fragment more than a window has
numbers (4097, about 5.6 MB at an MTU of 1400). The code takes longer packets, up to
32 MB, and the theorems do not speak of them. For very long ones `NoLossByAck` is false:
the receiver compares the number of the *first* fragment with its windows, and when a
fragment of a delivered packet is sent again, and the packet is so long that its
first number has come round to the windows ahead (ten windows in the code, which takes
a small MTU), the fragment is kept as the start of a new packet; the packet that
gets this number later is then discarded as a duplicate and acknowledged. TLC finds
this, without the assumption, for `WINDOWS = 7`, `WINDOW_SIZE = 2`, `FREE_WINDOWS = 5` and
packets of six fragments. The proxy forwards packets of the game, which are far shorter.

### EnetConnection

The connecting host has one peer, the listening host has `NumSlots`. A peer is a
record of the fields of `ENetPeer` that the handshake reads: state, connect id,
the two session ids, the queued reliable commands and acknowledgements. The
functions of `peer.c` (`enet_peer_disconnect`, `_later`, `_now`, `_reset`) and
the handlers of `protocol.c` are one action each. A datagram carries one command;
one with several would be several that arrive together, which the model allows.
The checksum of a datagram is computed over the peer's connect id, so a datagram
of another connection is dropped there; session ids are counted modulo
`SessionCount`, 4 in the code. `older` holds the datagrams that were sent
before the oldest command a peer still waits for: a timeout takes at least `timeoutMinimum` (5 s),
and a datagram is assumed not to live that long. Session ids wrap, and tell a
connection of a slot from the one before it only: a CONNECT and an ACKNOWLEDGE that
are two connections old could meet the number they were made for, and a
connection would be announced twice. Hence the second assumption on the network,
`Expired`: when a slot gives up a connection, the datagrams of older ones are gone.
A connection's own datagrams may outlive it. The branch of a `VERIFY_CONNECT` with other
parameters than requested needs a forged datagram and is unreachable. The states
`CONNECTION_PENDING` and `CONNECTION_SUCCEEDED` do not occur, because
`enet_host_service` always passes an event to fill.

`ConnectionEvents` says that the accepting application sees CONNECT and the end
of a connection in turn for each slot, and each connection at most once;
`EnetConnection` implements it.

### HostsFile

The file is `user` (as the user wrote it), `empty` or `patched`. An `ofstream`
truncates when it opens and writes when it closes, so patching takes two steps
and a kill may fall between them. `HttpRequest` resolves the game's name through
the file: if it is patched at that moment the request goes to the proxy's own
HTTP thread, which is waiting for it. The process may be killed at every step and
is started again on the file it left.

### World

Players are records of a net id, a user id and a position; the list keeps its
order, since the code searches it from the front. The server is the environment:
it numbers the players of each world from one, and its packets are handled in
order but later than it sends them, so that the tracked world lags behind. The
properties compare the two when the lag is zero. `EraseAliased` is what
`std::remove` does when the value it compares with is a reference into the range
it is compacting, which is how `OnRemove` calls it.

### HttpServer

`pc` follows `sb_poll_server`: `select` fixes what is readable and writable, then
each stream of the list is handled in actions of its own: `sb_stream_recv` reads
one byte, `sb_stream_recv_End` is the end of the loop over `recv` (nothing left, the
end of the stream, an error), `StreamSend`, `StreamWaits`; and then connections are
accepted. The clients act between any two of these. `StreamDone` is the part all three share: the
timeout, and the destruction of a closing stream in the middle of the walk.
`getMeta` blocks the thread at `pc = "meta"`, for any time. Time is what the
code uses it for: `idle` is `now - last_activity`, and the seconds that have
elapsed are added to it when `select` has returned and `now` is read. A byte is a token (header part, empty
line, body part), so the equality of lengths that ends a request is the code's.
`FD_SETSIZE` (2048 in the code) limits the sets as on Windows, where streams that
do not fit wait. Out of memory is left out.

### EventHandlers, TaxCalculator, UidResolver

`EventHandlers` has one action per handler that acts on the options. `io` is what
the handler did with the packet: what it sent to either side, and whether it
returned true, so that the packet is not passed on. The blocks of
`OnDialogRequest` are a sequence in the code's order (`Blocks`); the first whose
condition holds returns. A dialog is the set of the words its blocks look for. A
field of the proxy's own dialogs is found in the answer by the last letters of its
name, as `generictext` does it. `popups` are the dialogs of wrenched players the
server has not sent yet. `Tax` and `RoundToTen` are the integer arithmetic of the
code.

`UidResolver` has the proxy's side of `/uid` and, as environment, a server that
answers in order: the player is ignored, the list of ignored players is opened
and its last entry read, the player is taken off it again; meanwhile dialogs and
messages are hidden by `resolving_uid2`. The name given to `/uid` may be that of any
player, also of one the user ignores already (`Known`): `/ignore` then adds nothing,
and the last entry is whoever the user ignored last. That the server answers as if it
had added him, or as if it could not, is an assumption about the server, and the model has
both; any other message would leave `resolving_uid2` set.
The user may give a second `/uid`, write `uidz` by `/setuid`, and
open the portal, and the session may end, at any moment; `history` remembers which
of these disturbed a resolution, and whom the user ignored before it.

`/setuid` is a handler of both modules: `EventHandlers!SetUid` has its guards, its reply and the
end of the process by an id that was never told, `UidResolver!SetUidz` what it
writes. `MCEventHandlers!SetUidCommand` is the whole handler, a joint step of the two, and `/setuid`
may be given at any step of either. The other actions share no variable, and
`MCEventHandlers` lets one or the other component move.

### RangeCoder

One step per byte of `enet_range_coder_compress` and of
`enet_range_coder_decompress`. The widths of the code's fields are constants: a
digit below `Base` is a byte of output, the registers have four digits and wrap,
counts and totals are rescaled at `CountMax` and at `TotalMargin` below two digits,
and the pool has `NumSymbols` entries. The contexts are the code's binary indexed
trees, with its sums. `Damage` changes a digit between the two. The code's context
exclusion is compiled out (`#undef`).

## 4. Runs

| Run | Checks | Shows |
|---|---|---|
| `session` | `UpstreamUsable`, `SessionTarget`, `NoGhostWorld`, `DanglingOnlyInSwitch`, `GtPeerIsClient`, `EstablishedForwards` | the pointers the code tests are usable, a peer outlives its host only during a switch, the session goes to the announced address, `m_world.connected` dies with it, only a connection that the client left unended takes `m_gt_peer` from its open one, and packets for an established upstream connection are given to it |
| `session_progress` | `QueuesDrain`, `DropNoticed` | once the senders are quiet neither service loop starves the other: what is queued is handled, and a connection the server dropped is noticed |
| `session_switch` (violation) | `SwitchSurvives` | the late event of the old connection ends the new session |
| `enet_channel` | `NoLossByAck`, `WindowAccounting`, `Refinement` | in-order exactly-once delivery of whole and fragmented packets across the wrap |
| `enet_connection` | `EventPairing`, `UniqueConnection`, `SessionAgreement`, `EventsRefined` | events pair up, one connection occupies one slot, and connected ends belong to each other, whatever datagrams of older connections arrive |
| `enet_settles` | `Settles` | every handshake and disconnection comes to an end, by an answer or a timeout |
| `world` | `ListTracks`, `PositionsTrack`, `LocalTracks` | the tracked world is the server's once its packets are handled |
| `http_server` | `StreamLife`, `WholeRequest`, `AnswerComplete`, `SilentEnd`, `ReadyNotExpired` | each stream is in the list exactly while it lives, asks once with a whole request, gets a whole answer, is not timed out for waiting on another, and does not outlive its client's silence |
| `hosts_file` | `NoSelfRequest`, `ServedPatched` | the HTTP thread never waits for itself; clients are redirected between requests |
| `hosts_exit` (violation) | `ExitFixesHosts` | a thread that patches during the console handler leaves the redirection behind |
| `range_coder` | `RoundTrip`, `ContextsAgree`, `IntervalsTile`, `RangeSuffices`, `BuffersSuffice` | a packet decompresses to itself through rescalings and resets; a damaged one keeps the decoder within its range, pool and output |
| `event_handlers` | `TypesOK`, `SettledOnce`, `TaxWithin`, `OptionsFaithful`, `PopupAgrees`, `IgnoreListRestored`, `ResolvesTheAsked`, `ResolutionUnseen`, `ResolutionEnds` | every packet is settled once whatever options are set, an answered dialog sets its own options only; a resolution ends and stays unseen, and finds the player asked for and restores the list exactly if the user did not ignore him before (or ignored him last, for the id) |

Types. `WindowAccounting`, `EventPairing`, `ListTracks`, `StreamLife` and
`BuffersSuffice` have the type invariant of their module as first conjunct;
`TypesOK` is that of the options and the resolution. All but that of `RangeCoder` are
part of a proved inductive invariant.

Bounds. Two peer slots and two connections are what an overlap of an old and a
new connection takes; four packets in all allow a redirect, a login, a quit and
one more in any order and on either side; two undispatched packets make their
order matter. In `session_progress` two packets are enough to keep both queues waiting;
that packets are bounded means that each loop comes to its end, and nothing is shown
of traffic that never pauses: then the loop that receives it does not return. The
sequence space of `enet_channel` is six windows of two, started two numbers
before the wrap, so that five commands cross it, fill a window the receiver takes
and open one whose acknowledgements it holds back; a fragmented packet may begin at
any of these numbers and straddle a window or the wrap; a data window of three lets
a hole appear in the receiver's list and in a packet;
`MaxWaiting = 3` lets the list meet its limit. `Lifetime = 4` is the most that
`WrapAssumption` allows with packets of two, and with four packets it cuts no
datagram's life short: numbers are not used twice within five commands. Two datagrams at a time are
enough for a data command to race an old acknowledgement or its own duplicate.
Two slots and two connections in `enet_connection` let a datagram of the first
connection meet the second, in the same or in another slot; pings are left to
`enet_settles`, where one is enough for a command to wait behind another. Two
worlds and four net ids in `world` make net ids of the first mean other players in
the second, and three others make removals shift the list. Two streams of
`http_server` are what one being destroyed or blocked beside another takes; a set
of two sockets makes one of them wait; a timeout of one second suffices, since
only the comparison matters. In `range_coder`, counts wrap at 8 and totals
at 16, and totals are rescaled above 8, a margin larger than what one byte adds to a
total (7), as 0x100 is in the code. Seven bytes of three values then meet both
rescalings, that of a count and that of a total alone, in undamaged packets: without the
second test `IntervalsTile` is violated by one. A
pool of 13 symbols is reset inside a packet; an output limit of 5 makes compression
give up, one of 16 does not. In `event_handlers`, two boxes are changed at a time
(two fields confuse each other or none do), three options are set at a time, which
is what the conditions of a block combine, and the counts are those at which
rounding goes down, up and past ten; one mode of the wrench is chosen, since no action or
property reads it. The user ignores two of three players before, so that the player asked for is
a new one, the last of the list or another one of it; one id is given to `/setuid`;
two `/uid`, one visit to the portal and two
sessions are an overlap of each kind. Three runs of the process let a run find the file of a run that found a file
left behind.

Deadlock is not checked: the environment is bounded, so every behaviour comes to
rest when the bounds are used up, and the HTTP thread may die.

Symmetry: only the safety runs of `ProxySession` identify the permutations of the
peer slots, and the one of `HttpServer` those of the connections; no action and
no property names a particular one.

Fairness. `ProxySession` has weak fairness of `poll`: `main` calls it in an
endless loop and `enet_host_service` is called with a timeout of 0, so it always
takes its next step. Nothing is assumed of the client or the server: they may
stop at any time. `EnetConnection` has weak fairness, for each peer, of sending
what is queued, of noticing a timeout and of dispatching: all are done by `enet_host_service`, which
both applications call for ever, and `timeoutMaximum` bounds the wait; none is
assumed of the network, which may lose every datagram. `UidResolver` has weak
fairness of the server's answers, which a session that lasts delivers (the channel
is reliable), and of the handlers that receive them; the session may end at any
time, and then nothing is promised.

## 5. Findings

The violation runs show where the program differs from what its documentation or
the documentation of the library it uses says: a subserver switch can cut the new
session off (`server.cpp:85`), and the console handler's "Fixing Hosts File!" can be
undone by a running `getMeta` (`http.cpp:39`). `PROJECT.json` quotes the lines. The
cause of the first, that the code does not ask which peer an event is for, has a
second effect: the old peer's event takes `m_gt_peer` (`server.cpp:13`), and packets of
the server then go to the connection the client has left. `GtPeerIsClient` states it as
it is: `m_gt_peer` is the peer of the open connection or that of an older one whose end
the proxy had not seen.

Met while modelling, without a run of their own:

- `/uid` of a player whom the user ignores already (`events.cpp:1030`): `/ignore` adds
  nothing to the list, yet the code reads the id of its last entry
  (`events.cpp:1355`) and removes that entry. The user is shown the id of the player
  ignored last, and that player is ignored no longer. `ResolvesTheAsked` and
  `IgnoreListRestored` say what happens in this case (`Known`) and in all others;
- between a redirect and the client's next connection `m_server_peer` points into a
  destroyed host, and a `disconnect` in that time uses it (`server.cpp:300`;
  `DanglingOnlyInSwitch` shows that this is the only time);
- early returns of the handlers leave a received packet undestroyed
  (`server.cpp:78`);
- a failed `enet_host_create` is written through before it is tested
  (`server.cpp:261`), a failed `sb_new_server` is polled (`http.cpp:149`), and
  nothing catches what the HTTP request of `getMeta` (`http.cpp:33`), the captcha
  request (`events.cpp:1235`) or `stoi` of an id the server has not told
  (`/setuid`, `events.cpp:681`) may throw;
- `disconnect` queues a DISCONNECT and destroys the host before it is sent
  (`server.cpp:302`): the server finds out by its timeout;
- `type2` is never set, so the role commands do nothing; after `/wrench`, autopull
  swallows commands; the second `taxsystem` block of `OnDialogRequest` is not
  reachable; `/proxy` names commands that no branch handles;
- a tax percentage above 59 or below 0 can be entered, for which the count may be
  negative or more than the bet (`TaxWithin` is stated up to 59);
- a `/uid` for a player who is offline or a moderator lets the portal be seen;
- if `wrenchpull` is changed between a wrench and its popup, a popup that was answered
  is shown, or one that was not is hidden (`events.cpp:1519`); `PopupAgrees` is about
  the others.

## 6. Proofs

All proofs hold for every value of the constants that meets the named
assumptions.

- `SessionTypes`, `SessionUpstreamUsable`, `SessionKeepsTarget`,
  `SessionNoGhostWorld` (`ProxySession_proofs`). None of the last three is
  inductive. The invariant `SessionInv` adds what they need of each other: hosts
  are created in order, so a new one is none of the old; a host that
  `m_real_server` names is alive; the peer either belongs to it or there is no host
  at all (after a redirect); and the world flag needs an upstream session or a
  switch. Each action is one step of the proof; the shared parts of the
  handlers (`disconnect`, `connect`, `redirect_server`) have a lemma each.
- `SessionDangling`, `SessionForwards` (`ProxySession_proofs`). The first adds to
  `SessionInv` that `gt::connecting` stays set from the redirect to the next
  connection. The second is an action property: an established connection has a
  peer and a host (`LinkHasPeer`, inductive with `SessionInv`), so that the tests
  before the forwarding pass, and the packet moves from one queue to the other.
- `HostsNoSelfRequest`, `HostsServedPatched` (`HostsFile_proofs`). `HostsInv` adds
  that the HTTP thread is off until `main` polls (`MainBeforeHttp`), that a request is
  pending while it is served (`RequestPending`), that the file is not patched from
  the moment `getMeta` empties it until it patches it (`EmptiedForRequest`), and
  that `main` has patched it before it starts the thread (`PatchedBeforeStart`).
- `RoundsToNearest`, `TaxedCountWithin`, `OptTaxWithin`, `OptSettledOnce`,
  `OptPopupAgrees`, `OptOptionsFaithful`, `OptInvariant`, `HandlersTypes`
  (`EventHandlers_proofs`), for any bounds on commands, counts, percentages and popups. The dialog theorems rest on
  `ReturningBlock`: the block that settles a dialog is the first whose condition
  holds, and some block's does. `TaxWithin`, `SettledOnce` and `OptionsFaithful`
  are then facts about every state, by cases on the block or on the field, whose
  keys are shown to be distinct. `PopupAgrees` needs an invariant (`PopupInv`): an answer
  given in advance is fresh only while `wrenchpull` is as it was when it was given.
  The last theorem is about `MCEventHandlers`, where each component moves while the other
  stands still and `/setuid` is a step of both, so that the invariants of both hold.
- `SessionGtPeer` (`ProxySession_proofs`): `GtPeerIsClient`, under no assumption on how
  connections overlap. `Slots` is added to the invariant: while the client has a
  connection, a slot in use is that connection's or one of `older`, and a handshake is
  pending in its own slot only; so every event of another slot is an older
  connection's.
- `ConnInvariant`, `ConnEventPairing`, `ConnUniqueConnection`, `ConnSessionAgreement`,
  `ConnEventsRefined` (`EnetConnection_proofs`), for any number of slots,
  connections, session ids and datagrams. `ConnInv` says what a peer in each state
  has queued (`PeerShape`) and what every datagram names (`DatagramShape`); that
  the active host speaks to one slot under one session number in a connection
  (`OneVoice`), which are those of the slot that announced it (`Spoken`); and that a CONNECT still under way
  precedes every other command (`ConnectFirst`). That a connection is announced once,
  which the refinement needs, is not a matter of one state: a duplicate CONNECT may
  occupy a slot again after its connection has ended. `OnceInv` says why it
  then gets no answer that fits: the slot has moved on to another session number
  (`OtherSession`, `SessionKept`), and nothing older is left (`NoneEarlier`,
  `SlotAdvances`, `LateIsOlder`). Every action is shown to be a step of one of seven
  kinds (`Steady`, `Opens`, `Accepts`, `Verifies`, `Announces`, `Leaves`, `Loses`), and
  each kind keeps the invariant. The refinement is by the same kinds.
- `HttpInvariant`, `HttpStreamLife`, `HttpWholeRequest`, `HttpAnswerComplete`,
  `HttpSilentEnd`, `HttpReadyNotExpired` (`HttpServer_proofs`), for any connections,
  set size and timeout. `HttpInv` says how the events a stream has emitted
  correspond to its state (`LifeOf`), that the bytes read and the bytes waiting are the
  request (`BytesOf`), that what was sent and what is in the buffer are an answer
  (`AnswerOf`), that the list has no stream twice (`ListInv`), and that what `select`
  reported is still true of the streams the walk has not reached, also when it
  removes streams before them (`PollInv`). The last theorem is an action property.
- `WorldInvariant`, `WorldListTracks`, `WorldPositionsTrack`, `WorldLocalTracks`
  (`World_proofs`). The properties speak of the moment when nothing is under way;
  the invariant speaks of all others: the packets under way, handled one after the
  other, lead from the proxy's view of the world to the server's (`Leads`, a chain of
  views). A step of the server appends to the chain, a handler takes its first
  link. In each view the net ids ascend (`Roster`), so that the aliased erase of
  `OnRemove` and the search by net id find the player they mean.
- `UidInvariant`, `UidListRestored`, `UidResolvesTheAsked`, `UidResolutionUnseen`
  (`EventHandlers_proofs`, second half). `UidInv` lists the phases of an undisturbed resolution by
  the stages that are under way (`Phase`), with what `resolving_uid2`, `uidz` and the
  list of ignored players are in each: the list as it was, with the player asked for
  added unless he was on it (`Listed`), and without its last entry again. No player is on the list twice
  (`Once`), so that a removal takes the entry that was read (`ReadOff`). A message under way that
  carries the list agrees with it (`Honest`). Nothing is assumed of the players asked
  for, nor of `/setuid`, whose writes of `uidz` are a step of `uidSpec`.
- `ChannelInvariant`, `ChannelWindowAccounting` (`EnetChannel_proofs`), for any
  window sizes, fragment counts and losses. `WindowAccounting` relates counters to sets;
  the invariant relates both to the sender's lists: each part of a packet is at one
  place of one list (`Apart`), those of `sentReliableCommands` have been tried, and
  `reliableWindows` counts, for each window, the unacknowledged commands of it that
  were ever transmitted, also those a timeout has put back (`Flying`).
  `enet_protocol_check_timeouts` then changes no count, a first transmission and an
  acknowledgement change one by one, and `reliableDataInTransit` is the length of a
  list.
- `ChannelDelivery`, `ChannelNoLossByAck`, `ChannelRefinement` (`EnetDelivery_proofs`),
  for windows, packets and a network of any size, under `WrapAssumption`. Every number of
  the code is taken modulo the sequence space; the invariant `DeliveryInv` says that
  there are numbers that do not wrap: `at[i]` for the first command of packet `i`, `top`
  for the newest command transmitted, and `ids`, the packets the receiver's entries belong
  to. What is transmitted is all parts up to `top`; the list of outgoing
  commands is those put back and then, in order, those never sent (`QueueOrder`). What is
  listed by the sender lies in the windows it does not reuse (`SenderWindow`), the newest
  command is at most `FREE_WINDOWS` windows ahead of the last packet the receiver took in
  order (`Reach`), what travels is not so old that its packet looks like a later one
  (`Recent`), and what is acknowledged was received, in a window the receiver looks at
  (`Settled`). These support each other: the sender opens a window only when the one
  before it is not full and none of the next is in use; every transmitted part that is not
  listed is settled (`NoneLost`); so the receiver has come at least that far; so each
  wrapped number that arrives, within the windows the receiver compares it with, stands
  for one command only (`SameNumber`, `LooksAhead`, `LooksBehind`), and the entry it finds in the
  receiver's list is that of its own packet. Sending, retransmission, timeout,
  acknowledgement, arrival of a command and of a fragment, and dispatch each have a lemma.
  `NoLossByAck` and the refinement of `ReliableChannel` then follow from the state alone and
  from the packets that `enet_peer_receive` takes.

A bounded set of numbers has a greatest member and a non-empty one a least by the
well-founded order of the numbers (`GreatestNat`, `LeastNat`); no proof uses an
induction of its own.

The constants named `Max...` bound what the environment does; the theorems hold for
every value of them. The assumptions are that they are numbers and that the
constants of the code have the shape they have there.

Only model-checked:

- `QueuesDrain`, `DropNoticed`, `Settles`, `ResolutionEnds`: liveness under fairness is
  beyond the prover;
- `RangeCoder` (`RoundTrip`, `ContextsAgree`, `IntervalsTile`, `RangeSuffices`,
  `BuffersSuffice`): it walks its trees recursively, and its properties are about what that
  recursion computes, for every packet.

## 7. Not modelled

- Sockets, lists, allocation callbacks: system calls and primitives, whose effect
  is in the actions that use them.
- HTTP client: third-party blocking I/O; its three outcomes (answer, exception,
  no answer) are in `HostsFile`.
- Formatting, dialogs and console output: no state.
- Unreliable and unsequenced packets: every packet the proxy makes itself is flagged
  reliable, and one it forwards keeps the flags it came with; ENet promises neither
  delivery nor order for the others. The adaptation of the throttle and of bandwidth limits: it only changes
  when a command is sent, which the models leave open (`DataWindow` is its result).
- The variant and text formats of `proton/`: layout of buffers, no state; what a
  handler reads out of a packet is in the module of the handler.
- `sb_send_file`, cookies, variables and multipart data of sandbird: the proxy
  does not call them.
