---------------------------- MODULE EnetChannel ----------------------------
(***************************************************************************)
(* One direction of one reliable ENet channel, from enet_peer_send at one  *)
(* host to enet_peer_receive at the other: sequence numbers that wrap, the *)
(* reliable windows of the sender, retransmission, the reordering list of  *)
(* the receiver and its acknowledgements, over a network that loses,       *)
(* duplicates and reorders datagrams (proxy/enet/peer.c and protocol.c).   *)
(*                                                                         *)
(* A packet that fits a datagram is one command (fragmentCount 0), a       *)
(* larger one a command per fragment.  A command carries, as history, the  *)
(* number of the enet_peer_send call it comes from (pkt), which tells      *)
(* apart packets that share a sequence number after a wrap.  The data of a *)
(* command has length one.                                                 *)
(***************************************************************************)
EXTENDS Integers, Sequences, FiniteSets, SequencesExt, Subsequences

CONSTANTS
    WINDOWS,       \* ENET_PEER_RELIABLE_WINDOWS
    WINDOW_SIZE,   \* ENET_PEER_RELIABLE_WINDOW_SIZE
    FREE_WINDOWS,  \* ENET_PEER_FREE_RELIABLE_WINDOWS
    DataWindow,    \* bytes in transit packetThrottle and windowSize allow
    MaxWaiting,    \* host->maximumWaitingData
    Lifetime,      \* an acknowledged command is gone from the network when this many
                   \* newer packets were sent
    StartSeq,      \* sequence number the connection has reached, all acknowledged
    FragmentCounts, \* sizes of the fragmented packets, in fragments
    MaxPackets,    \* bound: calls of enet_peer_send
    MaxCommands,   \* bound: commands of all packets
    MaxQueued,     \* bound: commands that wait when enet_peer_send is called
    MaxAcks,       \* bound: acknowledgements that wait to be sent
    MaxNet         \* bound: datagrams in the network

ASSUME ChannelAssumption ==
    /\ WINDOW_SIZE \in Nat \ {0}
    /\ FREE_WINDOWS \in Nat /\ FREE_WINDOWS >= 3
    /\ WINDOWS \in Nat /\ WINDOWS > FREE_WINDOWS
    /\ DataWindow \in Nat \ {0} /\ MaxWaiting \in Nat \ {0}
    /\ Lifetime \in Nat /\ StartSeq \in 0..(WINDOWS * WINDOW_SIZE - 1)
    /\ FragmentCounts \subseteq 2..MaxCommands
    /\ MaxPackets \in Nat /\ MaxCommands \in Nat /\ MaxQueued \in Nat /\ MaxAcks \in Nat /\ MaxNet \in Nat

\* What a wrap of the sequence numbers asks of the network and of the application: a
\* packet takes at most one number more than a window has, and the packets a datagram
\* lives through take no more numbers than the windows the receiver does not look at.
ASSUME WrapAssumption ==
    \E longest \in 1..(WINDOW_SIZE + 1) :
       /\ \A count \in FragmentCounts : count <= longest
       /\ Lifetime * longest <= (WINDOWS - FREE_WINDOWS + 1) * WINDOW_SIZE

SeqSpace == WINDOWS * WINDOW_SIZE       \* the range of enet_uint16
SeqNo    == 0..(SeqSpace - 1)
Window   == 0..(WINDOWS - 1)
Packets  == 1..MaxPackets
Counts   == {0} \cup FragmentCounts    \* fragmentCount
Numbers  == 0..MaxCommands              \* fragmentNumber
Command  == [seq : SeqNo, pkt : Packets, number : Numbers, count : Counts]
Datagram == [type : {"data", "ack"}, cmd : Command]
Part     == [pkt : Packets, number : Numbers]
Incoming == [seq : SeqNo, count : Counts, parts : SUBSET Part]

VARIABLES
    open,                    \* neither host has given the connection up
    counts,                  \* fragmentCount of each packet given to enet_peer_send
    outgoingReliableSequenceNumber,
    outgoing,                \* peer->outgoingReliableCommands
    sent,                    \* peer->sentReliableCommands
    tried,                   \* parts whose command has sendAttempts >= 1
    reliableWindows,         \* commands in transit per window
    usedReliableWindows,     \* windows with commands in transit
    reliableDataInTransit,
    net,                     \* datagrams in the network
    incomingReliableSequenceNumber,
    incoming,                \* channel->incomingReliableCommands
    acknowledgements,        \* peer->acknowledgements
    dispatched,              \* peer->dispatchedCommands
    delivered                \* packets returned by enet_peer_receive, 0 for a mixture

senderVars   == <<counts, outgoingReliableSequenceNumber, outgoing, sent, tried,
                  reliableWindows, usedReliableWindows, reliableDataInTransit>>
receiverVars == <<incomingReliableSequenceNumber, incoming, acknowledgements,
                  dispatched, delivered>>
vars == <<open, senderVars, net, receiverVars>>

\* Types of the variables.
TypeOK ==
    /\ open \in BOOLEAN
    /\ counts \in Seq(Counts)
    /\ outgoingReliableSequenceNumber \in SeqNo
    /\ outgoing \in Seq(Command) /\ sent \in Seq(Command)
    /\ tried \subseteq Part
    /\ reliableWindows \in [Window -> Nat]
    /\ usedReliableWindows \subseteq Window
    /\ reliableDataInTransit \in Nat
    /\ net \subseteq Datagram
    /\ incomingReliableSequenceNumber \in SeqNo
    /\ incoming \in Seq(Incoming) /\ dispatched \in Seq(Incoming)
    /\ acknowledgements \in Seq(Command)
    /\ delivered \in Seq(Packets \cup {0})

Init ==
    /\ open = TRUE
    /\ counts = <<>> /\ outgoingReliableSequenceNumber = StartSeq
    /\ outgoing = <<>> /\ sent = <<>> /\ tried = {}
    /\ reliableWindows = [w \in Window |-> 0] /\ usedReliableWindows = {}
    /\ reliableDataInTransit = 0
    /\ net = {}
    /\ incomingReliableSequenceNumber = StartSeq
    /\ incoming = <<>> /\ acknowledgements = <<>> /\ dispatched = <<>>
    /\ delivered = <<>>

-----------------------------------------------------------------------------
\* The sender.

\* The numbers a packet takes; SEND_RELIABLE has fragmentCount 0 and takes one.
Length(count) == IF count = 0 THEN 1 ELSE count
TotalLength(list) == FoldSeq(LAMBDA c, n : n + Length(c.count), 0, list)
CommandsOf(list)  == FoldSeq(LAMBDA c, n : n + Length(c), 0, list)

\* enet_peer_send of a reliable packet, in one command or cut into fragments, each
\* numbered by enet_peer_setup_outgoing_command.
enet_peer_send ==
    /\ open
    /\ Len(counts) < MaxPackets /\ Len(outgoing) < MaxQueued
    /\ \E count \in Counts :
          /\ CommandsOf(counts) + Length(count) <= MaxCommands
          /\ counts' = Append(counts, count)
          /\ outgoing' = outgoing \o
                [k \in 1..Length(count) |->
                    [seq |-> (outgoingReliableSequenceNumber + k) % SeqSpace,
                     pkt |-> Len(counts'), number |-> k - 1, count |-> count]]
          /\ outgoingReliableSequenceNumber' =
                (outgoingReliableSequenceNumber + Length(count)) % SeqSpace
    /\ UNCHANGED <<open, sent, tried, reliableWindows, usedReliableWindows,
                   reliableDataInTransit, net, receiverVars>>

PartOf(c) == [pkt |-> c.pkt, number |-> c.number]

WindowOf(seq) == seq \div WINDOW_SIZE

\* The first command of a window waits while the window before it is full of
\* unacknowledged commands or one of the next FREE_WINDOWS windows is in use.
windowWrap(c) ==
    /\ PartOf(c) \notin tried
    /\ c.seq % WINDOW_SIZE = 0
    /\ \/ reliableWindows[(WindowOf(c.seq) + WINDOWS - 1) % WINDOWS] >= WINDOW_SIZE
       \/ \E k \in 0..(FREE_WINDOWS - 1) :
             (WindowOf(c.seq) + k) % WINDOWS \in usedReliableWindows

windowExceeded == reliableDataInTransit + 1 > DataWindow

\* No datagram of an acknowledged command is older than Lifetime packets: sending a
\* newer packet ends the life of the ones that are (an assumption on the network).
Fresh(c, parts) == \/ \A part \in parts : part.pkt < c.pkt + Lifetime
                   \/ c \in ToSet(sent) \cup ToSet(outgoing)
Surviving(parts) == {d \in net : Fresh(d.cmd, parts)}

\* One iteration of the loop of enet_protocol_send_reliable_outgoing_commands:
\* the two tests skip every later command too, so only the first is sent.
SendReliable ==
    /\ open
    /\ outgoing # <<>>
    /\ LET c == Head(outgoing)
           w == WindowOf(c.seq)
       IN /\ ~windowWrap(c)
          /\ ~windowExceeded
          /\ IF PartOf(c) \in tried
             THEN UNCHANGED <<reliableWindows, usedReliableWindows>>
             ELSE /\ usedReliableWindows' = usedReliableWindows \cup {w}
                  /\ reliableWindows' = [reliableWindows EXCEPT ![w] = @ + 1]
          /\ tried' = tried \cup {PartOf(c)}
          /\ outgoing' = Tail(outgoing)
          /\ sent' = Append(sent, c)
          /\ reliableDataInTransit' = reliableDataInTransit + 1
          /\ net' = Surviving(tried') \cup {[type |-> "data", cmd |-> c]}
          /\ Cardinality(net') <= MaxNet
    /\ UNCHANGED <<open, counts, outgoingReliableSequenceNumber, receiverVars>>

\* enet_protocol_check_timeouts: the commands whose timeout has passed, any of
\* the sent ones, go back before the ones not sent yet, in their order.
check_timeouts ==
    /\ open
    /\ \E late \in (SUBSET (1..Len(sent))) \ {{}} :
          /\ sent' = Kept(sent, (1..Len(sent)) \ late)
          /\ outgoing' = Kept(sent, late) \o outgoing
          /\ reliableDataInTransit' = reliableDataInTransit - Cardinality(late)
    /\ UNCHANGED <<open, counts, outgoingReliableSequenceNumber, tried, reliableWindows,
                   usedReliableWindows, net, receiverVars>>

\* check_timeouts when the connection has been silent for too long:
\* enet_protocol_notify_disconnect resets the peer and frees its queues.
GiveUp ==
    /\ open
    /\ sent # <<>>
    /\ open' = FALSE
    /\ outgoing' = <<>> /\ sent' = <<>> /\ reliableDataInTransit' = 0
    /\ UNCHANGED <<counts, outgoingReliableSequenceNumber, tried, reliableWindows,
                   usedReliableWindows, net, receiverVars>>

\* The command an acknowledgement of seq stands for: one that was sent, else
\* one queued again, looked for up to the first that was never sent.
Acknowledged(list, seq) == {i \in DOMAIN list : list[i].seq = seq}
Requeued == {i \in DOMAIN outgoing : \A j \in 1..i : PartOf(outgoing[j]) \in tried}
FirstOf(S) == CHOOSE i \in S : \A j \in S : i <= j

\* Faulty release: the window stays marked in use.
ReleaseWindow_KeepsUsed(seq) ==
    LET w == WindowOf(seq)
    IN /\ reliableWindows' = IF reliableWindows[w] > 0
                             THEN [reliableWindows EXCEPT ![w] = @ - 1]
                             ELSE reliableWindows
       /\ UNCHANGED usedReliableWindows

\* The window of an acknowledged command counts one less; the last one frees it.
ReleaseWindow(seq) ==
    LET w == WindowOf(seq)
    IN IF reliableWindows[w] > 0
       THEN /\ reliableWindows' = [reliableWindows EXCEPT ![w] = @ - 1]
            /\ usedReliableWindows' = IF reliableWindows[w] = 1
                                      THEN usedReliableWindows \ {w}
                                      ELSE usedReliableWindows
       ELSE UNCHANGED <<reliableWindows, usedReliableWindows>>

\* enet_protocol_remove_sent_reliable_command.
remove_sent_reliable_command(seq) ==
    LET inSent  == Acknowledged(sent, seq)
        inQueue == Acknowledged(outgoing, seq) \cap Requeued
    IN \/ /\ inSent # {}
          /\ sent' = RemoveAt(sent, FirstOf(inSent))
          /\ reliableDataInTransit' = reliableDataInTransit - 1
          /\ ReleaseWindow(seq)
          /\ UNCHANGED outgoing
       \/ /\ inSent = {} /\ inQueue # {}
          /\ outgoing' = RemoveAt(outgoing, FirstOf(inQueue))
          /\ ReleaseWindow(seq)
          /\ UNCHANGED <<sent, reliableDataInTransit>>
       \/ /\ inSent = {} /\ inQueue = {}
          /\ UNCHANGED <<outgoing, sent, reliableWindows, usedReliableWindows,
                         reliableDataInTransit>>

\* enet_protocol_handle_acknowledge; the datagram may arrive again.
handle_acknowledge ==
    /\ open
    /\ \E d \in net : /\ d.type = "ack"
                      /\ remove_sent_reliable_command(d.cmd.seq)
                      /\ net' \in {net, net \ {d}}
    /\ UNCHANGED <<open, counts, outgoingReliableSequenceNumber, tried, receiverVars>>

-----------------------------------------------------------------------------
\* The receiver.

\* The window of a received number seen from the number cur delivered last: a
\* smaller number belongs to the next turn of the sequence space.
RelativeWindow(seq, cur) ==
    WindowOf(seq) + IF seq < cur THEN WINDOWS ELSE 0

InReceiveWindow(seq, cur) ==
    /\ RelativeWindow(seq, cur) >= WindowOf(cur)
    /\ RelativeWindow(seq, cur) < WindowOf(cur) + FREE_WINDOWS - 1

\* Faulty test: every command is acknowledged, discarded ones too.
AckSuppressed_Never(seq, cur) == FALSE

\* enet_peer_queue_acknowledgement drops the acknowledgement of a command of
\* the two windows after the ones the receiver takes.
AckSuppressed(seq, cur) ==
    /\ RelativeWindow(seq, cur) >= WindowOf(cur) + FREE_WINDOWS - 1
    /\ RelativeWindow(seq, cur) <= WindowOf(cur) + FREE_WINDOWS

\* enet_peer_queue_incoming_command looks from the end of the list for the
\* command to insert after; numbers below the current one come after the wrap.
SameTurn(a, b, cur) == (a >= cur) <=> (b >= cur)
StopsAt(c, seq, cur) ==
    IF SameTurn(c.seq, seq, cur) THEN c.seq <= seq ELSE seq < cur
InsertAfter(seq, cur) ==
    LET stops == {i \in DOMAIN incoming : StopsAt(incoming[i], seq, cur)}
    IN IF stops = {} THEN 0 ELSE CHOOSE i \in stops : \A j \in stops : j <= i

\* The command of the list with this number, 0 without one.
Listed(seq, cur) ==
    LET i == InsertAfter(seq, cur)
    IN IF i > 0 /\ incoming[i].seq = seq THEN i ELSE 0

totalWaitingData == TotalLength(incoming) + TotalLength(dispatched)

\* Faulty test: the fragment that makes the entry completes it.
Complete_FirstPart(e) == e.parts # {}

\* fragmentsRemaining is 0.
Complete(e) == Cardinality(e.parts) = Length(e.count)

\* The number delivered last once e is dispatched.
LastNumber(e) == (e.seq + Length(e.count) - 1) % SeqSpace

\* enet_peer_dispatch_incoming_reliable_commands: the complete commands at the
\* head of the list that continue the sequence become receivable.
Dispatch(list, cur) ==
    LET before(i) == IF i = 1 THEN cur ELSE LastNumber(list[i - 1])
        ready == {n \in 0..Len(list) :
                     \A i \in 1..n : /\ Complete(list[i])
                                     /\ list[i].seq = (before(i) + 1) % SeqSpace}
        n     == CHOOSE m \in ready : \A k \in ready : k <= m
    IN /\ incoming' = SubSeq(list, n + 1, Len(list))
       /\ dispatched' = dispatched \o SubSeq(list, 1, n)
       /\ incomingReliableSequenceNumber' = before(n + 1)

Ignored == UNCHANGED <<incoming, dispatched, incomingReliableSequenceNumber>>

\* enet_peer_queue_incoming_command of a new command e, with room for it.
queue_incoming_command(e, cur) ==
    /\ totalWaitingData < MaxWaiting
    /\ Dispatch(InsertAt(incoming, InsertAfter(e.seq, cur) + 1, e), cur)

\* enet_protocol_handle_send_reliable: a duplicate was delivered last or is in
\* the list.
handle_send_reliable(c, cur) ==
    IF ~InReceiveWindow(c.seq, cur) \/ c.seq = cur \/ Listed(c.seq, cur) > 0
    THEN Ignored
    ELSE queue_incoming_command([seq |-> c.seq, count |-> 0, parts |-> {PartOf(c)}], cur)

\* startSequenceNumber of a fragment.
StartOf(c) == (c.seq + SeqSpace - c.number) % SeqSpace

\* enet_protocol_handle_send_fragment: the fragment joins the others of its packet,
\* found by the number of the first, unless it came before; the first to arrive
\* makes the entry.  A number that is delivered last or in use by another kind of
\* packet is an error.
handle_send_fragment(c, cur) ==
    LET start  == StartOf(c)
        at     == Listed(start, cur)
        joins  == at > 0 /\ incoming[at].count = c.count
        known  == joins /\ c.number \in {q.number : q \in incoming[at].parts}
        inside == InReceiveWindow(start, cur)
    IN \/ /\ ~inside \/ known
          /\ Ignored
       \/ /\ inside /\ joins /\ ~known
          /\ Dispatch([incoming EXCEPT ![at].parts = @ \cup {PartOf(c)}], cur)
       \/ /\ inside /\ at = 0 /\ start # cur
          /\ queue_incoming_command([seq |-> start, count |-> c.count,
                                     parts |-> {PartOf(c)}], cur)

\* enet_protocol_handle_incoming_commands: a data command and the acknowledgement
\* queued after it.  A command in error, one for which too much data waits among
\* them, is as good as lost: nothing is queued.
handle_incoming_command ==
    \E d \in net :
       /\ d.type = "data"
       /\ \/ d.cmd.count = 0 /\ handle_send_reliable(d.cmd, incomingReliableSequenceNumber)
          \/ d.cmd.count > 0 /\ handle_send_fragment(d.cmd, incomingReliableSequenceNumber)
       /\ acknowledgements' =
             IF AckSuppressed(d.cmd.seq, incomingReliableSequenceNumber')
             THEN acknowledgements
             ELSE Append(acknowledgements, d.cmd)
       /\ Len(acknowledgements') <= MaxAcks
       /\ net' \in {net, net \ {d}}
       /\ UNCHANGED <<open, senderVars, delivered>>

\* enet_protocol_send_acknowledgements.
send_acknowledgements ==
    /\ acknowledgements # <<>>
    /\ acknowledgements' = Tail(acknowledgements)
    /\ LET c == Head(acknowledgements)
       IN net' = net \cup IF Fresh(c, tried) THEN {[type |-> "ack", cmd |-> c]} ELSE {}
    /\ Cardinality(net') <= MaxNet
    /\ UNCHANGED <<open, senderVars, incomingReliableSequenceNumber, incoming,
                   dispatched, delivered>>

\* The packet whose parts an entry holds, 0 if they are of several packets.
Content(e) ==
    IF \E p \in Packets : e.parts = {[pkt |-> p, number |-> k] : k \in 0..(Length(e.count) - 1)}
    THEN (CHOOSE q \in e.parts : TRUE).pkt ELSE 0

\* enet_peer_receive.
enet_peer_receive ==
    /\ dispatched # <<>>
    /\ delivered' = Append(delivered, Content(Head(dispatched)))
    /\ dispatched' = Tail(dispatched)
    /\ UNCHANGED <<open, senderVars, net, incomingReliableSequenceNumber, incoming,
                   acknowledgements>>

-----------------------------------------------------------------------------
\* The network loses a datagram.
Lose ==
    /\ \E d \in net : net' = net \ {d}
    /\ UNCHANGED <<open, senderVars, receiverVars>>

Next ==
    \/ enet_peer_send \/ SendReliable \/ check_timeouts \/ GiveUp \/ handle_acknowledge
    \/ handle_incoming_command \/ send_acknowledgements \/ enet_peer_receive
    \/ Lose

Spec == Init /\ [][Next]_vars

-----------------------------------------------------------------------------
\* Properties.

\* The channel implements the reliable channel of ENet's interface.
Abstract == INSTANCE ReliableChannel WITH
                accepted <- [i \in DOMAIN counts |-> i]
Refinement == Abstract!Spec

\* A part of a packet that the sender has forgotten (it is in neither list) has
\* reached the receiver: no acknowledgement releases a command that was discarded.
NoLossByAck ==
    open => \A i \in DOMAIN counts : \A k \in 0..(Length(counts[i]) - 1) :
              LET part == [pkt |-> i, number |-> k]
              IN \/ \E c \in ToSet(outgoing) \cup ToSet(sent) : PartOf(c) = part
                 \/ \E e \in ToSet(incoming) \cup ToSet(dispatched) : part \in e.parts
                 \/ i \in ToSet(delivered)

\* The sender's window counters agree with its lists: a window is counted, and
\* marked in use, for exactly the transmitted commands not yet acknowledged.
\* All have their types.
InTransit(w) ==
    Cardinality({i \in DOMAIN sent : WindowOf(sent[i].seq) = w})
      + Cardinality({i \in DOMAIN outgoing : /\ PartOf(outgoing[i]) \in tried
                                             /\ WindowOf(outgoing[i].seq) = w})
WindowAccounting ==
    /\ TypeOK
    /\ open =>
            /\ \A w \in Window : reliableWindows[w] = InTransit(w)
            /\ usedReliableWindows = {w \in Window : reliableWindows[w] > 0}
            /\ reliableDataInTransit = Len(sent)
=============================================================================
