----------------------------- MODULE HttpServer -----------------------------
(***************************************************************************)
(* The HTTP thread: the streams of sandbird (proxy/sandbird/sandbird.c),   *)
(* its poll loop and the handler of proxy/http.cpp.  Bytes are tokens: "h" *)
(* is a part of the header, "e" the empty line that ends it (and may occur *)
(* in a body too), "b" a part of the body.  The clients and their TCP      *)
(* connections are the environment.                                        *)
(***************************************************************************)
EXTENDS Integers, Sequences, SequencesExt, FiniteSets

CONSTANTS
    Conns,      \* the connections clients make
    Requests,   \* what clients ask, see IsRequest
    Timeout,    \* srv->timeout / 1000
    FD_SETSIZE, \* sockets that fit in an fd_set
    NoLength    \* the request has no Content-Length field

IsRequest(r) ==
    /\ r.kind \in {"server_data", "other", "malformed"}
    /\ r.length \in Nat \cup {NoLength}   \* value of the Content-Length field
    /\ r.bytes \in Seq({"h", "e", "b"})   \* what the client sends

ASSUME HttpAssumption ==
    /\ \A r \in Requests : IsRequest(r)
    /\ Timeout \in Nat \ {0} /\ FD_SETSIZE \in Nat \ {0}
    /\ NoLength \notin Nat

VARIABLES
    pc,        \* where the HTTP thread is
    streams,   \* srv->streams, from its head
    pos,       \* st_next: the place in the list that the poll has reached
    readable, writable, incoming, \* fds_read and fds_write after select
    stream,    \* the sb_Stream of each connection
    log,       \* events emitted for each connection
    sent,      \* what was sent on each connection
    backlog,   \* connections not accepted yet
    asks,      \* client: its request, once it is connected
    out,       \* client: what it has not sent yet
    inbox,     \* bytes that wait in the socket
    fin        \* "open", "fin" (the client sends no more) or "reset"

poll   == <<pc, streams, pos>>
fds    == <<readable, writable, incoming>>
client == <<asks, out, inbox, fin>>
vars   == <<poll, fds, stream, log, sent, backlog, client>>

RECEIVING == {"RECEIVING_HEADER", "RECEIVING_REQUEST"}
SENDING   == {"SENDING_STATUS", "SENDING_HEADER", "SENDING_DATA"}

\* sb_Stream; idle is srv->now - last_activity, counted to Timeout + 1.
Stream == [state : RECEIVING \cup SENDING \cup {"CLOSING"},
           len : Nat, expected : Nat,
           send : Seq({"status", "header", "end", "data"}),
           idle : 0..(Timeout + 1)]

\* sb_stream_new.
NewStream == [state |-> "RECEIVING_HEADER", len |-> 0, expected |-> 0,
              send |-> <<>>, idle |-> 0]

\* Types of the variables; pos stays inside the list or just behind it.
TypeOK ==
    /\ pc \in {"start", "select", "streams", "meta", "accept", "dead"}
    /\ streams \in Seq(Conns) /\ pos \in 1..(Len(streams) + 1)
    /\ readable \subseteq Conns /\ writable \subseteq Conns /\ incoming \in BOOLEAN
    /\ stream \in [Conns -> Stream]
    /\ log \in [Conns -> Seq({"CONNECT", "REQUEST", "CLOSE"})]
    /\ sent \in [Conns -> Seq({"status", "header", "end", "data"})]
    /\ backlog \in Seq(Conns)
    /\ \A c \in DOMAIN asks : asks[c] \in Requests
    /\ DOMAIN asks \subseteq Conns
    /\ out \in [Conns -> Seq({"h", "e", "b"})]
    /\ inbox \in [Conns -> Seq({"h", "e", "b"})]
    /\ fin \in [Conns -> {"open", "fin", "reset"}]

Init ==
    /\ pc = "start" /\ streams = <<>> /\ pos = 1
    /\ readable = {} /\ writable = {} /\ incoming = FALSE
    /\ stream = [c \in Conns |-> NewStream]
    /\ log = [c \in Conns |-> <<>>] /\ sent = [c \in Conns |-> <<>>]
    /\ backlog = <<>>
    /\ asks = <<>>
    /\ out = [c \in Conns |-> <<>>] /\ inbox = [c \in Conns |-> <<>>]
    /\ fin = [c \in Conns |-> "open"]

Emitted(c, event) == event \in Range(log[c])

-----------------------------------------------------------------------------
\* Writing a response.  A call in the wrong state changes nothing: it returns
\* SB_EBADSTATE, which the handler ignores.

sb_send_status(s) ==
    IF s.state = "SENDING_STATUS"
    THEN [s EXCEPT !.state = "SENDING_HEADER", !.send = Append(@, "status")]
    ELSE s

sb_send_header(s) ==
    LET t == IF s.state = "SENDING_HEADER" THEN s ELSE sb_send_status(s)
    IN  IF t.state = "SENDING_HEADER" THEN [t EXCEPT !.send = Append(@, "header")]
                                      ELSE s

sb_stream_finalize_header(s) ==
    LET t == IF s.state = "SENDING_HEADER" THEN s ELSE sb_send_status(s)
    IN  [t EXCEPT !.state = "SENDING_DATA", !.send = Append(@, "end")]

sb_write(s) ==
    LET t == IF s.state \in {"SENDING_STATUS", "SENDING_HEADER"}
             THEN sb_stream_finalize_header(s) ELSE s
    IN  IF t.state = "SENDING_DATA" THEN [t EXCEPT !.send = Append(@, "data")] ELSE t

\* http::handler: a status, headers and contents, whatever was asked for.  A
\* file, a file that is not there and any other path differ in contents and in
\* the number of headers only.
Headers(s) == sb_send_header(sb_send_status(s))
handler(s) == sb_write(Headers(s))

-----------------------------------------------------------------------------
\* Receiving a request.

\* Faulty PushChar: the request is complete with its header.
PushChar_NoBody(s, byte, length) ==
    LET t == [s EXCEPT !.len = @ + 1]
    IN  IF s.state = "RECEIVING_HEADER" /\ byte = "e"
        THEN [t EXCEPT !.state = "SENDING_STATUS"] ELSE t

\* One byte of sb_stream_recv's inner loop; length is the value of the
\* request's Content-Length.
PushChar(s, byte, length) ==
    LET t == [s EXCEPT !.len = s.len + 1]
        h == IF s.state = "RECEIVING_HEADER" /\ byte = "e"
             THEN IF length = NoLength
                  THEN [t EXCEPT !.state = "SENDING_STATUS"]
                  ELSE [t EXCEPT !.state = "RECEIVING_REQUEST",
                                 !.expected = t.len + length]
             ELSE t
    IN  IF h.state \in RECEIVING /\ h.expected = h.len
        THEN [h EXCEPT !.state = "SENDING_STATUS"] ELSE h

\* Faulty Received: input does not count as activity.
Received_Inactive(c) == PushChar(stream[c], Head(inbox[c]), asks[c].length)

\* The stream after the next byte of its socket.
Received(c) == PushChar([stream[c] EXCEPT !.idle = 0], Head(inbox[c]), asks[c].length)

-----------------------------------------------------------------------------
\* The poll loop.

\* http::start.  http::run goes on without a server if there is none, and
\* sb_poll_server reads it through a null pointer.
http_start ==
    /\ pc = "start"
    /\ pc' \in {"select", "dead"}
    /\ UNCHANGED <<streams, pos, fds, stream, log, sent, backlog, client>>

\* The first streams in these states, as many as fit in an fd_set.
FdSet(states, room) ==
    LET Wanted(i) == {j \in 1..i : stream[streams[j]].state \in states}
    IN  {streams[i] : i \in {k \in DOMAIN streams :
                               k \in Wanted(k) /\ Cardinality(Wanted(k)) <= room}}

\* Beginning of sb_poll_server: the sets are filled (the server's socket
\* takes the first place of fds_read), select reduces them to what is ready
\* at this moment, and then srv->now is read, elapsed seconds after the last
\* time.
Select(elapsed) ==
    /\ pc = "select"
    /\ readable' = {c \in FdSet(RECEIVING, FD_SETSIZE - 1) :
                       inbox[c] # <<>> \/ fin[c] # "open"}
    /\ writable' \in SUBSET FdSet(SENDING, FD_SETSIZE)
    /\ incoming' = (backlog # <<>>)
    /\ stream' = [c \in Conns |->
                     IF c \in ToSet(streams)
                     THEN [stream[c] EXCEPT !.idle =
                              IF @ + elapsed > Timeout THEN Timeout + 1 ELSE @ + elapsed]
                     ELSE stream[c]]
    /\ pos' = 1 /\ pc' = "streams"
    /\ UNCHANGED <<streams, log, sent, backlog, client>>

\* Faulty Expired: a silent stream stays.
Expired_Never(s) == FALSE

\* The no-activity timeout; max_lifetime and max_request_size are off.
Expired(s) == s.idle > Timeout

\* Faulty end of an iteration: the destroyed stream stays in the list.
StreamDone_KeepsLink(c, s, events) ==
    LET t == IF Expired(s) THEN [s EXCEPT !.state = "CLOSING"] ELSE s
        ends == t.state = "CLOSING"
    IN  /\ stream' = [stream EXCEPT ![c] = t]
        /\ pos' = pos + 1
        /\ log' = [log EXCEPT ![c] = @ \o events \o IF ends THEN <<"CLOSE">> ELSE <<>>]
        /\ pc' = "streams"
        /\ UNCHANGED streams

\* End of an iteration for stream c, which is now s: the timeout, then the
\* destruction of a closing stream, which takes it out of the list.
StreamDone(c, s, events) ==
    LET t == IF Expired(s) THEN [s EXCEPT !.state = "CLOSING"] ELSE s
        ends == t.state = "CLOSING"
    IN  /\ stream' = [stream EXCEPT ![c] = t]
        /\ streams' = IF ends THEN RemoveAt(streams, pos) ELSE streams
        /\ pos' = IF ends THEN pos ELSE pos + 1
        /\ log' = [log EXCEPT ![c] = @ \o events \o IF ends THEN <<"CLOSE">> ELSE <<>>]
        /\ pc' = "streams"

Handles(c) == pc = "streams" /\ pos <= Len(streams) /\ streams[pos] = c

\* A readable stream: sb_stream_recv reads what is in the socket until the
\* request is complete; the bytes behind it are not looked at.  A request line
\* that is not one of HTTP closes the stream, any other request is given to the
\* handler.  For server_data the handler calls getMeta before it writes the
\* contents, and the thread waits.  The code reads up to 4095 bytes at a time
\* and looks at them one by one; more may arrive before the next read.
sb_stream_recv(c) ==
    /\ Handles(c) /\ c \in readable /\ inbox[c] # <<>>
    /\ \E s \in {Received(c)} :
           \/ /\ s.state \in RECEIVING
              /\ stream' = [stream EXCEPT ![c] = s]
              /\ UNCHANGED <<poll, log>>
           \/ /\ s.state \notin RECEIVING /\ asks[c].kind = "malformed"
              /\ StreamDone(c, [s EXCEPT !.state = "CLOSING"], <<>>)
           \/ /\ s.state \notin RECEIVING /\ asks[c].kind = "other"
              /\ StreamDone(c, handler(s), <<"REQUEST">>)
           \/ /\ s.state \notin RECEIVING /\ asks[c].kind = "server_data"
              /\ stream' = [stream EXCEPT ![c] = Headers(s)]
              /\ log' = [log EXCEPT ![c] = Append(@, "REQUEST")]
              /\ pc' = "meta"
              /\ UNCHANGED <<streams, pos>>
    /\ inbox' = [inbox EXCEPT ![c] = Tail(@)]
    /\ UNCHANGED <<fds, sent, backlog, asks, out, fin>>

\* The socket is empty: the end of the input or an error closes the stream.
sb_stream_recv_End(c) ==
    /\ Handles(c) /\ c \in readable /\ inbox[c] = <<>>
    /\ LET s == stream[c]
       IN  StreamDone(c, IF fin[c] = "open" THEN s ELSE [s EXCEPT !.state = "CLOSING"], <<>>)
    /\ UNCHANGED <<fds, sent, backlog, client>>

\* getMeta returns, and the contents are written.
getMeta_Returns ==
    /\ pc = "meta"
    /\ LET c == streams[pos]
       IN  StreamDone(c, sb_write(stream[c]), <<>>)
    /\ UNCHANGED <<fds, sent, backlog, client>>

\* getMeta throws, which nothing catches.
getMeta_Throws ==
    /\ pc = "meta" /\ pc' = "dead"
    /\ UNCHANGED <<streams, pos, fds, stream, log, sent, backlog, client>>

\* Faulty StreamSend: a partial send is taken for a whole one.
StreamSend_ForgetsRest(c) ==
    /\ Handles(c) /\ c \in writable
    /\ LET s == stream[c]
       IN  \/ /\ s.send = <<>> \/ fin[c] = "reset"
              /\ StreamDone(c, [s EXCEPT !.state = "CLOSING"], <<>>)
              /\ UNCHANGED sent
           \/ /\ s.send # <<>> /\ fin[c] # "reset"
              /\ \E n \in 1..Len(s.send) :
                    /\ sent' = [sent EXCEPT ![c] = @ \o SubSeq(s.send, 1, n)]
                    /\ StreamDone(c, [s EXCEPT !.idle = 0, !.send = <<>>], <<>>)
    /\ UNCHANGED <<fds, backlog, client>>

\* A writable stream (sb_stream_send): some of the buffer goes out, or an
\* error closes the stream; an empty buffer is the end of the response.
StreamSend(c) ==
    /\ Handles(c) /\ c \in writable
    /\ LET s == stream[c]
       IN  \/ /\ s.send = <<>> \/ fin[c] = "reset"
              /\ StreamDone(c, [s EXCEPT !.state = "CLOSING"], <<>>)
              /\ UNCHANGED sent
           \/ /\ s.send # <<>> /\ fin[c] # "reset"
              /\ \E n \in 1..Len(s.send) :
                    /\ sent' = [sent EXCEPT ![c] = @ \o SubSeq(s.send, 1, n)]
                    /\ StreamDone(c, [s EXCEPT !.idle = 0,
                                        !.send = SubSeq(@, n + 1, Len(@))], <<>>)
    /\ UNCHANGED <<fds, backlog, client>>

\* A stream that select did not report: only the timeout.
StreamWaits(c) ==
    /\ Handles(c) /\ c \notin readable \cup writable
    /\ StreamDone(c, stream[c], <<>>)
    /\ UNCHANGED <<fds, sent, backlog, client>>

\* The end of sb_poll_server; its sets are gone.  http::run sleeps for a
\* millisecond and polls again.
PollDone ==
    /\ pc' = "select" /\ pos' = 1
    /\ readable' = {} /\ writable' = {} /\ incoming' = FALSE

StreamsDone ==
    /\ pc = "streams" /\ pos > Len(streams)
    /\ \/ incoming /\ pc' = "accept" /\ UNCHANGED <<pos, fds>>
       \/ ~incoming /\ PollDone
    /\ UNCHANGED <<streams, stream, log, sent, backlog, client>>

\* A connection is accepted: its stream becomes the head of the list.
Accept ==
    /\ pc = "accept" /\ backlog # <<>>
    /\ LET c == Head(backlog)
       IN  /\ streams' = <<c>> \o streams
           /\ stream' = [stream EXCEPT ![c] = NewStream]
           /\ log' = [log EXCEPT ![c] = Append(@, "CONNECT")]
    /\ backlog' = Tail(backlog)
    /\ UNCHANGED <<pc, pos, fds, sent, client>>

\* accept has no more connections.
AcceptDone ==
    /\ pc = "accept" /\ backlog = <<>>
    /\ PollDone
    /\ UNCHANGED <<streams, stream, log, sent, backlog, client>>

\* More than Timeout seconds are as good as Timeout + 1.
http_run ==
    \/ \E elapsed \in 0..(Timeout + 1) : Select(elapsed)
    \/ StreamsDone \/ Accept \/ AcceptDone
    \/ \E c \in Conns : \/ sb_stream_recv(c) \/ sb_stream_recv_End(c)
                        \/ StreamSend(c) \/ StreamWaits(c)

-----------------------------------------------------------------------------
\* The clients.

Connect(c) ==
    /\ c \notin DOMAIN asks /\ pc \notin {"start", "dead"}
    /\ \E r \in Requests :
          /\ asks' = [d \in DOMAIN asks \cup {c} |-> IF d = c THEN r ELSE asks[d]]
          /\ out' = [out EXCEPT ![c] = r.bytes]
    /\ backlog' = Append(backlog, c)
    /\ UNCHANGED <<poll, fds, stream, log, sent, inbox, fin>>

\* The client is connected and the server has not closed the connection.
Active(c) == c \in DOMAIN asks /\ pc # "dead" /\ ~Emitted(c, "CLOSE")

\* The next bytes of the client arrive.
Send(c) ==
    /\ Active(c) /\ fin[c] = "open" /\ out[c] # <<>>
    /\ inbox' = [inbox EXCEPT ![c] = Append(@, Head(out[c]))]
    /\ out' = [out EXCEPT ![c] = Tail(@)]
    /\ UNCHANGED <<poll, fds, stream, log, sent, backlog, asks, fin>>

\* The client sends no more, but may read the response.
Shutdown(c) ==
    /\ Active(c) /\ fin[c] = "open"
    /\ fin' = [fin EXCEPT ![c] = "fin"]
    /\ UNCHANGED <<poll, fds, stream, log, sent, backlog, asks, out, inbox>>

\* The connection is lost, with what waits in the socket.
Reset(c) ==
    /\ Active(c) /\ fin[c] # "reset"
    /\ fin' = [fin EXCEPT ![c] = "reset"]
    /\ inbox' = [inbox EXCEPT ![c] = <<>>]
    /\ UNCHANGED <<poll, fds, stream, log, sent, backlog, asks, out>>

Next ==
    \/ http_start \/ http_run \/ getMeta_Returns \/ getMeta_Throws
    \/ \E c \in Conns : Connect(c) \/ Send(c) \/ Shutdown(c) \/ Reset(c)

Spec == Init /\ [][Next]_vars

-----------------------------------------------------------------------------
\* Properties.

\* A stream lives in the list from its CONNECT event to its CLOSE event, once,
\* and asks the handler at most once between the two: whatever other streams
\* are destroyed or accepted around it.  Its record has its type.
StreamLife ==
    /\ TypeOK
    /\ \A c \in Conns : log[c] \in {<<>>, <<"CONNECT">>, <<"CONNECT", "REQUEST">>,
                           <<"CONNECT", "CLOSE">>, <<"CONNECT", "REQUEST", "CLOSE">>}
    /\ ToSet(streams) = {c \in Conns : Emitted(c, "CONNECT") /\ ~Emitted(c, "CLOSE")}
    /\ Len(streams) = Cardinality(ToSet(streams))

\* The header of a request ends at its first empty line.
HeaderLen(r) == CHOOSE i \in DOMAIN r.bytes :
                   r.bytes[i] = "e" /\ \A j \in 1..(i - 1) : r.bytes[j] # "e"

\* The handler is called when exactly the header and the announced body were
\* received, however the bytes were cut into pieces, and also if the body
\* looks like the end of a header or is followed by more bytes.
WholeRequest ==
    \A c \in Conns : Emitted(c, "REQUEST") =>
        LET r == asks[c]
        IN  stream[c].len = HeaderLen(r) + (IF r.length = NoLength THEN 0 ELSE r.length)

\* The response is delimited by the end of the connection: the server ends it
\* early only if the connection was lost or nothing went over it for too long,
\* because the client read nothing or because the handler of another stream
\* blocked the thread; never because the client has stopped sending.
AnswerComplete ==
    \A c \in Conns : Emitted(c, "REQUEST") /\ Emitted(c, "CLOSE") =>
        \/ Len(sent[c]) >= 4 /\ sent[c][1] = "status" /\ Last(sent[c]) = "data"
        \/ fin[c] = "reset"
        \/ stream[c].idle > Timeout

\* A stream whose input select has reported is not timed out, for however long
\* the handler of another stream has blocked the thread: it is closed only if
\* the client has closed it or has sent something else than a request.
ReadyNotExpired ==
    [][\A c \in readable : ~Emitted(c, "CLOSE") /\ Emitted(c, "CLOSE")' =>
          fin[c] # "open" \/ asks[c].kind = "malformed"]_vars

\* A stream that outlives a poll was active within the timeout, wherever it
\* stands in the list and whatever its client leaves undone: a client that
\* stops in the middle of a request or of the response is let go by the first
\* poll after the timeout, also if its socket was not in the sets.
SilentEnd ==
    pc = "select" => \A c \in ToSet(streams) : stream[c].idle <= Timeout
=============================================================================
