-------------------------- MODULE HttpServer_proofs --------------------------
(***************************************************************************)
(* The invariants of HttpServer for any clients, requests, timeout and     *)
(* size of an fd_set.                                                      *)
(***************************************************************************)
EXTENDS HttpServer, FiniteSetTheorems, SequenceTheorems, TLAPS

Answer == <<"status", "header", "end", "data">>

\* The life of a connection as its events tell it.
New(c)       == log[c] = <<>>
Receiving(c) == log[c] = <<"CONNECT">>
Asked(c)     == log[c] = <<"CONNECT", "REQUEST">>
Refused(c)   == log[c] = <<"CONNECT", "CLOSE">>
Answered(c)  == log[c] = <<"CONNECT", "REQUEST", "CLOSE">>

InList(c) == \E i \in 1..Len(streams) : streams[i] = c

\* The thread waits in the handler of c.
InHandler(c) == pc = "meta" /\ streams[pos] = c

\* A stream is in the list between its first event and its last, in a state
\* that the events tell.
LifeOf(c) ==
    /\ New(c) \/ Receiving(c) \/ Asked(c) \/ Refused(c) \/ Answered(c)
    /\ InList(c) <=> Receiving(c) \/ Asked(c)
    /\ Receiving(c) => stream[c].state \in RECEIVING
    /\ Asked(c) => stream[c].state \in SENDING
    /\ c \notin DOMAIN asks => New(c)

Injective(q) == \A i, j \in 1..Len(q) : q[i] = q[j] => i = j

\* No connection is twice in a list, and the thread is in the handler of a
\* stream that has just been active.
ListInv ==
    /\ Injective(streams) /\ Injective(backlog)
    /\ \A i \in 1..Len(backlog) : New(backlog[i]) /\ backlog[i] \in DOMAIN asks
    /\ pc = "meta" => /\ pos \in 1..Len(streams) /\ Asked(streams[pos])
                      /\ stream[streams[pos]].idle = 0
    /\ pc = "start" => streams = <<>>

\* The walk: from pos on the sets of select still hold, before it every stream
\* is within the timeout.
PollInv ==
    /\ readable \cap writable = {}
    /\ pc \in {"streams", "meta"} => \A i \in pos..Len(streams) :
          /\ streams[i] \in writable => Asked(streams[i])
          /\ streams[i] \in readable /\ ~InHandler(streams[i]) =>
                /\ Receiving(streams[i])
                /\ \/ inbox[streams[i]] # <<>> \/ fin[streams[i]] # "open"
                   \/ stream[streams[i]].idle = 0
    /\ pc \in {"streams", "meta"} => \A i \in 1..(pos - 1) : stream[streams[i]].idle <= Timeout
    /\ pc \in {"accept", "select"} => \A i \in 1..Len(streams) : stream[streams[i]].idle <= Timeout

\* h is the length of the header of r.
HeaderAt(r, h) == h \in DOMAIN r.bytes /\ r.bytes[h] = "e" /\ \A j \in 1..(h - 1) : r.bytes[j] # "e"

\* What was received, what waits in the socket and what the client has not
\* sent yet are the request.
Pieces(c) ==
    LET r == asks[c]
        n == stream[c].len
    IN  /\ Len(r.bytes) = n + Len(inbox[c]) + Len(out[c])
        /\ \A i \in 1..Len(inbox[c]) : inbox[c][i] = r.bytes[n + i]
        /\ \A i \in 1..Len(out[c]) : out[c][i] = r.bytes[n + Len(inbox[c]) + i]

\* The length of the whole request.
Whole(r, n) == \E h \in DOMAIN r.bytes : /\ HeaderAt(r, h)
                                         /\ n = h + (IF r.length = NoLength THEN 0 ELSE r.length)

\* How far the request r has been read into s.
Reading(r, s) ==
    /\ s.state = "RECEIVING_HEADER" =>
          /\ s.expected = 0
          /\ s.len <= Len(r.bytes)
          /\ \A i \in 1..s.len : r.bytes[i] # "e"
    /\ s.state = "RECEIVING_REQUEST" =>
          /\ s.len < s.expected
          /\ r.length # NoLength
          /\ \E h \in DOMAIN r.bytes : HeaderAt(r, h) /\ s.expected = h + r.length

BytesOf(c) ==
    /\ c \notin DOMAIN asks => inbox[c] = <<>>
    /\ fin[c] = "reset" => inbox[c] = <<>>
    /\ New(c) => stream[c] = NewStream
    /\ c \in DOMAIN asks /\ (New(c) \/ Receiving(c)) /\ fin[c] # "reset" => Pieces(c)
    /\ c \in DOMAIN asks => Reading(asks[c], stream[c])
    /\ Asked(c) \/ Answered(c) => Whole(asks[c], stream[c].len)

\* a was sent, q is still to be sent, and together they are the answer.
OnWire(a, q) ==
    /\ Len(a) + Len(q) = 4
    /\ \A i \in 1..Len(a) : a[i] = Answer[i]
    /\ \A i \in 1..Len(q) : q[i] = Answer[Len(a) + i]

AnswerOf(c) ==
    /\ New(c) \/ Receiving(c) => stream[c].send = <<>> /\ sent[c] = <<>>
    /\ InHandler(c) => /\ stream[c].state = "SENDING_HEADER"
                       /\ stream[c].send = <<"status", "header">> /\ sent[c] = <<>>
    /\ Asked(c) /\ ~InHandler(c) /\ pc # "dead" => OnWire(sent[c], stream[c].send)
    /\ Answered(c) => \/ OnWire(sent[c], <<>>)
                      \/ fin[c] = "reset"
                      \/ stream[c].idle > Timeout

ConnInv == \A c \in Conns : LifeOf(c) /\ BytesOf(c) /\ AnswerOf(c)

HttpInv == TypeOK /\ ListInv /\ ConnInv /\ PollInv

-----------------------------------------------------------------------------
\* The operators.

\* Short sequences.
LEMMA Pair ==
    ASSUME NEW a, NEW b
    PROVE  <<a>> \o <<b>> = <<a, b>> /\ Append(<<a>>, b) = <<a, b>>
<1> DEFINE S == {a, b}
           x == <<a>> \o <<b>>
           y == <<a, b>>
<1>1. x \in Seq(S) /\ y \in Seq(S) /\ Len(x) = 2 /\ Len(y) = 2
  OBVIOUS
<1>2. x[1] = a /\ x[2] = b /\ y[1] = a /\ y[2] = b
  OBVIOUS
<1>3. \A i \in 1..2 : i = 1 \/ i = 2
  OBVIOUS
<1>4. <<a>> \in Seq(S) /\ b \in S
  OBVIOUS
<1>5. Append(<<a>>, b) = x
  BY <1>4, AppendIsConcat
<1> HIDE DEF x, y
<1>6. x = y
  BY <1>1, <1>2, <1>3, SeqEqual
<1> QED BY <1>5, <1>6 DEF x, y

\* One entry after two others ...
LEMMA Triple ==
    ASSUME NEW a, NEW b, NEW c
    PROVE  <<a, b>> \o <<c>> = <<a, b, c>> /\ Append(<<a, b>>, c) = <<a, b, c>>
<1> DEFINE S == {a, b, c}
           x == <<a, b>> \o <<c>>
           y == <<a, b, c>>
<1>1. x \in Seq(S) /\ y \in Seq(S) /\ Len(x) = 3 /\ Len(y) = 3
  OBVIOUS
<1>2. x[1] = a /\ x[2] = b /\ x[3] = c /\ y[1] = a /\ y[2] = b /\ y[3] = c
  OBVIOUS
<1>3. \A i \in 1..3 : i = 1 \/ i = 2 \/ i = 3
  OBVIOUS
<1>4. <<a, b>> \in Seq(S) /\ c \in S
  OBVIOUS
<1>5. Append(<<a, b>>, c) = x
  BY <1>4, AppendIsConcat
<1> HIDE DEF x, y
<1>6. x = y
  BY <1>1, <1>2, <1>3, SeqEqual
<1> QED BY <1>5, <1>6 DEF x, y

\* ... and after three.
LEMMA Quadruple ==
    ASSUME NEW a, NEW b, NEW c, NEW d
    PROVE  Append(<<a, b, c>>, d) = <<a, b, c, d>>
<1> DEFINE S == {a, b, c, d}
           x == <<a, b, c>> \o <<d>>
           y == <<a, b, c, d>>
<1>1. x \in Seq(S) /\ y \in Seq(S) /\ Len(x) = 4 /\ Len(y) = 4
  OBVIOUS
<1>2. /\ x[1] = a /\ x[2] = b /\ x[3] = c /\ x[4] = d
      /\ y[1] = a /\ y[2] = b /\ y[3] = c /\ y[4] = d
  OBVIOUS
<1>3. \A i \in 1..4 : i = 1 \/ i = 2 \/ i = 3 \/ i = 4
  OBVIOUS
<1>4. <<a, b, c>> \in Seq(S) /\ d \in S
  OBVIOUS
<1>5. Append(<<a, b, c>>, d) = x
  BY <1>4, AppendIsConcat
<1> HIDE DEF x, y
<1>6. x = y
  BY <1>1, <1>2, <1>3, SeqEqual
<1> QED BY <1>5, <1>6 DEF x, y

\* x is s but for its state and what it has to send.
KeepsInput(s, x) == x.len = s.len /\ x.expected = s.expected /\ x.idle = s.idle

Item == {"status", "header", "end", "data"}

\* Changing the state and the send buffer of a stream leaves its input alone ...
LEMMA SetSend ==
    ASSUME NEW s \in Stream, NEW state \in RECEIVING \cup SENDING \cup {"CLOSING"},
           NEW send \in Seq(Item),
           NEW x, x = [s EXCEPT !.state = state, !.send = send]
    PROVE  x \in Stream /\ KeepsInput(s, x) /\ x.state = state /\ x.send = send
  BY DEF Stream, KeepsInput, Item

\* ... and so does changing the state.
LEMMA SetState ==
    ASSUME NEW s \in Stream, NEW state \in RECEIVING \cup SENDING \cup {"CLOSING"},
           NEW x, x = [s EXCEPT !.state = state]
    PROVE  x \in Stream /\ KeepsInput(s, x) /\ x.state = state /\ x.send = s.send
  BY DEF Stream, KeepsInput

\* The fields of a stream after a byte.
PushedFields(s, byte, length, x) ==
    /\ x \in Stream /\ x.len = s.len + 1 /\ x.send = s.send /\ x.idle = s.idle
    /\ s.state = "RECEIVING_HEADER" /\ byte # "e" =>
          /\ x.expected = s.expected
          /\ x.state = IF s.expected = s.len + 1 THEN "SENDING_STATUS" ELSE "RECEIVING_HEADER"
    /\ s.state = "RECEIVING_HEADER" /\ byte = "e" /\ length = NoLength =>
          x.state = "SENDING_STATUS"
    /\ s.state = "RECEIVING_HEADER" /\ byte = "e" /\ length # NoLength =>
          /\ x.expected = s.len + 1 + length
          /\ x.state = IF length = 0 THEN "SENDING_STATUS" ELSE "RECEIVING_REQUEST"
    /\ s.state = "RECEIVING_REQUEST" =>
          /\ x.expected = s.expected
          /\ x.state = IF s.expected = s.len + 1 THEN "SENDING_STATUS" ELSE "RECEIVING_REQUEST"

\* sb_stream_push_char counts the byte and finds the end of the header or of the body.
LEMMA PushCharFields ==
    ASSUME NEW s \in Stream, s.state \in RECEIVING, NEW byte, NEW length \in Nat \cup {NoLength},
           NEW x, x = PushChar(s, byte, length)
    PROVE  PushedFields(s, byte, length, x)
<1>1. PICK n \in Nat : n = s.len + 1
  BY DEF Stream
<1> DEFINE t == [s EXCEPT !.len = s.len + 1]
<1>2. /\ t \in Stream /\ t.len = n /\ t.state = s.state /\ t.expected = s.expected
      /\ t.send = s.send /\ t.idle = s.idle
  <2>1. t = [s EXCEPT !.len = n]
    BY <1>1
  <2>2. [s EXCEPT !.len = n] \in Stream
    BY DEF Stream
  <2> QED BY <1>1, <2>1, <2>2 DEF Stream
<1> DEFINE ends == s.state = "RECEIVING_HEADER" /\ byte = "e"
           h == IF ends
                THEN IF length = NoLength
                     THEN [t EXCEPT !.state = "SENDING_STATUS"]
                     ELSE [t EXCEPT !.state = "RECEIVING_REQUEST",
                                    !.expected = t.len + length]
                ELSE t
<1>4. x = IF h.state \in RECEIVING /\ h.expected = h.len
          THEN [h EXCEPT !.state = "SENDING_STATUS"] ELSE h
  BY DEF PushChar
<1> HIDE DEF t
<1>3. /\ h \in Stream /\ h.len = n /\ h.send = s.send /\ h.idle = s.idle
      /\ ends /\ length = NoLength => h.state = "SENDING_STATUS"
      /\ ends /\ length # NoLength => h.state = "RECEIVING_REQUEST" /\ h.expected = n + length
      /\ ~ends => h = t
  <2>1. CASE ends /\ length = NoLength
    BY <1>2, <2>1 DEF Stream, SENDING
  <2>2. CASE ends /\ length # NoLength
    <3>1. PICK m \in Nat : m = t.len + length /\ m = n + length
      BY <1>2, <2>2
    <3>2. h = [t EXCEPT !.state = "RECEIVING_REQUEST", !.expected = m]
      BY <2>2, <3>1
    <3>3. h.expected = m /\ h.state = "RECEIVING_REQUEST" /\ h \in Stream
          /\ h.len = t.len /\ h.send = t.send /\ h.idle = t.idle
      BY <1>2, <3>2 DEF Stream, RECEIVING
    <3> QED BY <1>2, <2>2, <3>1, <3>3
  <2>3. CASE ~ends
    BY <1>2, <2>3
  <2> QED BY <2>1, <2>2, <2>3
<1> HIDE DEF h
<1>5. x \in Stream /\ x.len = n /\ x.send = s.send /\ x.idle = s.idle /\ x.expected = h.expected
  BY <1>3, <1>4 DEF Stream, RECEIVING, SENDING
<1>6. x.state = IF h.state \in RECEIVING /\ h.expected = n THEN "SENDING_STATUS" ELSE h.state
  BY <1>3, <1>4 DEF Stream
<1>7. length # NoLength => (n + length = n <=> length = 0)
  OBVIOUS
<1> QED
  <2>1. CASE s.state = "RECEIVING_HEADER" /\ byte # "e"
    BY <1>1, <1>2, <1>3, <1>5, <1>6, <2>1 DEF RECEIVING, PushedFields
  <2>2. CASE ends /\ length = NoLength
    BY <1>1, <1>3, <1>5, <1>6, <2>2 DEF RECEIVING, PushedFields
  <2>3. CASE ends /\ length # NoLength
    BY <1>1, <1>3, <1>5, <1>6, <1>7, <2>3 DEF RECEIVING, PushedFields
  <2>4. CASE s.state = "RECEIVING_REQUEST"
    BY <1>1, <1>2, <1>3, <1>5, <1>6, <2>4 DEF RECEIVING, PushedFields
  <2> QED BY <2>1, <2>2, <2>3, <2>4 DEF RECEIVING

\* sb_send_status writes the first line.
LEMMA StatusFields ==
    ASSUME NEW s \in Stream, s.state = "SENDING_STATUS",
           NEW q \in Seq(Item), q = Append(s.send, "status"), NEW x, x = sb_send_status(s)
    PROVE  x \in Stream /\ KeepsInput(s, x) /\ x.state = "SENDING_HEADER" /\ x.send = q
  BY DEF sb_send_status, Stream, KeepsInput, Item, SENDING

\* The empty line after the headers.
LEMMA FinalizeFields ==
    ASSUME NEW s \in Stream, s.state = "SENDING_HEADER",
           NEW q \in Seq(Item), q = Append(s.send, "end"), NEW x, x = sb_stream_finalize_header(s)
    PROVE  x \in Stream /\ KeepsInput(s, x) /\ x.state = "SENDING_DATA" /\ x.send = q
  BY DEF sb_stream_finalize_header, Stream, KeepsInput, Item, SENDING

\* The headers of an answer.
LEMMA HeadersFields ==
    ASSUME NEW s \in Stream, s.state = "SENDING_STATUS", s.send = <<>>, NEW x, x = Headers(s)
    PROVE  /\ x \in Stream /\ KeepsInput(s, x)
           /\ x.state = "SENDING_HEADER" /\ x.send = <<"status", "header">>
<1> DEFINE one == <<"status">>
           two == <<"status", "header">>
           t == sb_send_status(s)
<1>1. Append(s.send, "status") = one /\ one \in Seq(Item) /\ two \in Seq(Item)
  BY DEF Item
<1>2. Append(one, "header") = two
  BY Pair
<1> HIDE DEF one, two
<1>5. /\ t \in Stream /\ KeepsInput(s, t) /\ t.state = "SENDING_HEADER" /\ t.send = one
  BY <1>1, StatusFields
<1> HIDE DEF t
<1>6. x = [t EXCEPT !.send = two]
  BY <1>2, <1>5 DEF Headers, sb_send_header, t
<1>7. x.send = two /\ x \in Stream /\ KeepsInput(t, x) /\ x.state = t.state
  BY <1>1, <1>5, <1>6 DEF Stream, KeepsInput, Item
<1> QED
  BY <1>5, <1>7 DEF KeepsInput, two

\* sb_write ends the headers before the body.
LEMMA WriteFields ==
    ASSUME NEW s \in Stream, s.state = "SENDING_HEADER", s.send = <<"status", "header">>,
           NEW x, x = sb_write(s)
    PROVE  /\ x \in Stream /\ KeepsInput(s, x)
           /\ x.state = "SENDING_DATA" /\ x.send = Answer
<1> DEFINE three == <<"status", "header", "end">>
           t == sb_stream_finalize_header(s)
<1>1. Append(s.send, "end") = three
  BY Triple
<1>2. Append(three, "data") = Answer
  BY Quadruple DEF Answer
<1>3. three \in Seq(Item) /\ Answer \in Seq(Item)
  BY DEF Item, Answer
<1> HIDE DEF three
<1>5. /\ t \in Stream /\ KeepsInput(s, t) /\ t.state = "SENDING_DATA" /\ t.send = three
  BY <1>1, <1>3, FinalizeFields
<1> HIDE DEF t
<1>6. x = [t EXCEPT !.send = Answer]
  BY <1>2, <1>5 DEF sb_write, t
<1>7. x.send = Answer /\ x \in Stream /\ KeepsInput(t, x) /\ x.state = t.state
  BY <1>3, <1>5, <1>6 DEF Stream, KeepsInput, Item
<1> QED
  BY <1>5, <1>7 DEF KeepsInput

\* The handler leaves a whole answer in the send buffer.
LEMMA HandlerFields ==
    ASSUME NEW s \in Stream, s.state = "SENDING_STATUS", s.send = <<>>, NEW x, x = handler(s)
    PROVE  /\ x \in Stream /\ KeepsInput(s, x)
           /\ x.state = "SENDING_DATA" /\ x.send = Answer
<1> DEFINE t == Headers(s)
<1>1. /\ t \in Stream /\ KeepsInput(s, t)
      /\ t.state = "SENDING_HEADER" /\ t.send = <<"status", "header">>
  BY HeadersFields
<1> HIDE DEF t
<1>2. x = sb_write(t)
  BY DEF handler, t
<1> QED
  BY <1>1, <1>2, WriteFields DEF KeepsInput

\* The events of an iteration, after those before it.
LEMMA LogSums ==
    /\ (<<"CONNECT">> \o <<>>) \o <<>> = <<"CONNECT">>
    /\ (<<"CONNECT">> \o <<>>) \o <<"CLOSE">> = <<"CONNECT", "CLOSE">>
    /\ (<<"CONNECT">> \o <<"REQUEST">>) \o <<>> = <<"CONNECT", "REQUEST">>
    /\ (<<"CONNECT", "REQUEST">> \o <<>>) \o <<>> = <<"CONNECT", "REQUEST">>
    /\ (<<"CONNECT", "REQUEST">> \o <<>>) \o <<"CLOSE">> = <<"CONNECT", "REQUEST", "CLOSE">>
    /\ Append(<<"CONNECT">>, "REQUEST") = <<"CONNECT", "REQUEST">>
    /\ Append(<<>>, "CONNECT") = <<"CONNECT">>
<1>1. \A a, b : Append(<<a>>, b) = <<a, b>> /\ <<a>> \o <<b>> = <<a, b>>
  BY Pair
<1>2. \A a, b, c : <<a, b>> \o <<c>> = <<a, b, c>>
  BY Triple
<1>3. \A a : <<a>> \o <<>> = <<a>> /\ Append(<<>>, a) = <<a>>
  OBVIOUS
<1>4. \A a, b : <<a, b>> \o <<>> = <<a, b>>
  OBVIOUS
<1> QED
  BY <1>1, <1>2, <1>3, <1>4

\* r is the list q without the member at p.
Shorter(S, q, p, r) ==
    /\ r \in Seq(S) /\ Len(r) = Len(q) - 1
    /\ \A i \in 1..Len(r) : r[i] = IF i < p THEN q[i] ELSE q[i + 1]

LEMMA Removed ==
    ASSUME NEW S, NEW q \in Seq(S), NEW p \in 1..Len(q), NEW r, r = RemoveAt(q, p)
    PROVE  Shorter(S, q, p, r)
<1>1. PICK a \in Seq(S) : a = SubSeq(q, 1, p - 1) /\ Len(a) = p - 1
                          /\ \A i \in 1..(p - 1) : a[i] = q[i]
  <2>1. SubSeq(q, 1, p - 1) \in Seq(S) /\ Len(SubSeq(q, 1, p - 1)) = p - 1
    OBVIOUS
  <2>2. \A i \in 1..(p - 1) : SubSeq(q, 1, p - 1)[i] = q[i]
    OBVIOUS
  <2> QED BY <2>1, <2>2
<1>2. PICK b \in Seq(S) : b = SubSeq(q, p + 1, Len(q)) /\ Len(b) = Len(q) - p
                          /\ \A i \in 1..(Len(q) - p) : b[i] = q[p + i]
  <2>1. SubSeq(q, p + 1, Len(q)) \in Seq(S) /\ Len(SubSeq(q, p + 1, Len(q))) = Len(q) - p
    OBVIOUS
  <2>2. \A i \in 1..(Len(q) - p) : SubSeq(q, p + 1, Len(q))[i] = q[p + i]
    OBVIOUS
  <2> QED BY <2>1, <2>2
<1>3. r = a \o b
  BY <1>1, <1>2 DEF RemoveAt
<1>p. p \in 1..Len(q)
  OBVIOUS
<1>4. /\ r \in Seq(S) /\ Len(r) = Len(q) - 1
      /\ \A i \in 1..Len(r) : r[i] = IF i <= p - 1 THEN a[i] ELSE b[i - (p - 1)]
  <2>1. /\ r \in Seq(S) /\ Len(r) = Len(a) + Len(b)
        /\ \A i \in 1..Len(a) + Len(b) : r[i] = IF i <= Len(a) THEN a[i] ELSE b[i - Len(a)]
    <3>1. /\ a \o b \in Seq(S) /\ Len(a \o b) = Len(a) + Len(b)
          /\ \A i \in 1..Len(a) + Len(b) :
                (a \o b)[i] = IF i <= Len(a) THEN a[i] ELSE b[i - Len(a)]
      BY ConcatProperties
    <3> DEFINE ab == a \o b
    <3>2. r = ab
      BY <1>3
    <3>3. /\ ab \in Seq(S) /\ Len(ab) = Len(a) + Len(b)
          /\ \A i \in 1..Len(a) + Len(b) : ab[i] = IF i <= Len(a) THEN a[i] ELSE b[i - Len(a)]
      BY <3>1
    <3> HIDE DEF ab
    <3> QED BY <3>2, <3>3, Zenon
  <2>2. Len(a) = p - 1 /\ Len(b) = Len(q) - p /\ Len(a) + Len(b) = Len(q) - 1
    <3>1. Len(q) \in Nat /\ p \in Nat
      BY <1>p
    <3>2. Len(a) = p - 1 /\ Len(b) = Len(q) - p
      BY <1>1, <1>2, Zenon
    <3>3. (p - 1) + (Len(q) - p) = Len(q) - 1
      BY <3>1
    <3> QED BY <3>2, <3>3, Zenon
  <2>3. ASSUME NEW i \in 1..Len(r)
        PROVE  r[i] = IF i <= p - 1 THEN a[i] ELSE b[i - (p - 1)]
    <3>1. i \in 1..Len(a) + Len(b)
      BY <2>1
    <3>2. r[i] = IF i <= Len(a) THEN a[i] ELSE b[i - Len(a)]
      BY <2>1, <3>1, Zenon
    <3> QED BY <2>2, <3>2, Zenon
  <2> QED BY <2>1, <2>2, <2>3
<1>5. ASSUME NEW i \in 1..Len(r)
      PROVE  r[i] = IF i < p THEN q[i] ELSE q[i + 1]
  <2>1. CASE i < p
    BY <1>1, <1>4, <1>p, <2>1
  <2>2. CASE i >= p
    <3>1. PICK j \in 1..(Len(q) - p) : j = i - (p - 1) /\ p + j = i + 1
      BY <1>4, <1>p, <2>2
    <3>2. r[i] = b[j]
      <4>1. r[i] = IF i <= p - 1 THEN a[i] ELSE b[i - (p - 1)]
        BY <1>4
      <4>2. ~(i <= p - 1)
        BY <1>4, <1>p, <2>2
      <4> QED BY <3>1, <4>1, <4>2
    <3>3. b[j] = q[p + j]
      BY <1>2
    <3> QED BY <1>p, <2>2, <3>1, <3>2, <3>3
  <2> QED BY <1>p, <2>1, <2>2
<1> QED BY <1>4, <1>5 DEF Shorter

\* The list and the place in it after an iteration.
Moved(S, q, p, ends, r, n) ==
    /\ r \in Seq(S) /\ n \in 1..(Len(r) + 1)
    /\ Injective(r)
    /\ \A d : (\E i \in 1..Len(r) : r[i] = d) <=> (\E i \in 1..Len(q) : q[i] = d) /\ (ends => d # q[p])
    /\ \A i \in n..Len(r) : \E k \in (p + 1)..Len(q) : r[i] = q[k]
    /\ \A i \in 1..(n - 1) : r[i] = q[i] /\ (i # p \/ ~ends)

\* The list of streams, and the place the walk goes on from, after one iteration.
LEMMA ListAfter ==
    ASSUME NEW S, NEW q \in Seq(S), NEW p \in 1..Len(q), NEW ends \in BOOLEAN,
           Injective(q),
           NEW r, r = IF ends THEN RemoveAt(q, p) ELSE q,
           NEW n, n = IF ends THEN p ELSE p + 1
    PROVE  Moved(S, q, p, ends, r, n)
<1> USE DEF Injective
<1>1. CASE ends
  <2>1. r \in Seq(S) /\ Len(r) = Len(q) - 1 /\ n = p /\ p \in 1..Len(q)
        /\ \A i \in 1..Len(r) : r[i] = IF i < p THEN q[i] ELSE q[i + 1]
    <3>1. r = RemoveAt(q, p) /\ n = p
      BY <1>1
    <3>2. /\ r \in Seq(S) /\ Len(r) = Len(q) - 1
          /\ \A i \in 1..Len(r) : r[i] = IF i < p THEN q[i] ELSE q[i + 1]
      BY <3>1, Removed DEF Shorter
    <3> QED BY <3>1, <3>2
  <2>2. \A i, j \in 1..Len(r) : r[i] = r[j] => i = j
    BY <2>1
  <2>3. ASSUME NEW d, NEW i \in 1..Len(r), r[i] = d
        PROVE  (\E k \in 1..Len(q) : q[k] = d) /\ d # q[p]
    <3>1. CASE i < p
      BY <2>1, <2>3, <3>1
    <3>2. CASE i >= p
      <4>1. i + 1 \in 1..Len(q) /\ q[i + 1] = d
        BY <2>1, <2>3, <3>2
      <4> QED BY <4>1, <3>2, <2>1
    <3> QED BY <2>1, <3>1, <3>2
  <2>4. ASSUME NEW d, NEW k \in 1..Len(q), q[k] = d, d # q[p]
        PROVE  \E i \in 1..Len(r) : r[i] = d
    <3>1. CASE k < p
      <4>1. k \in 1..Len(r)
        BY <2>1, <3>1
      <4>2. r[k] = q[k]
        BY <2>1, <3>1, <4>1
      <4> QED BY <2>4, <4>1, <4>2
    <3>2. CASE k > p
      <4>1. PICK j \in 1..Len(r) : j + 1 = k /\ ~(j < p)
        BY <2>1, <3>2
      <4> QED BY <2>1, <4>1, <2>4
    <3> QED BY <2>4, <3>1, <3>2
  <2>5. \A i \in n..Len(r) : \E k \in (p + 1)..Len(q) : r[i] = q[k]
    BY <2>1
  <2>7. n \in 1..(Len(r) + 1)
    BY <2>1
  <2>6. \A i \in 1..(n - 1) : r[i] = q[i] /\ i # p
    BY <2>1
  <2>8. \A d : (\E i \in 1..Len(r) : r[i] = d) <=> (\E i \in 1..Len(q) : q[i] = d) /\ d # q[p]
    BY <2>3, <2>4
  <2> QED BY <1>1, <2>1, <2>2, <2>5, <2>6, <2>7, <2>8, Zenon DEF Moved
<1>2. CASE ~ends
  BY <1>2 DEF Moved
<1> QED BY <1>1, <1>2

\* No two phases of a connection have the same events.
LEMMA LogsDiffer ==
    ASSUME NEW l
    PROVE  /\ l = <<>> => l # <<"CONNECT">> /\ l # <<"CONNECT", "REQUEST">>
                          /\ l # <<"CONNECT", "CLOSE">> /\ l # <<"CONNECT", "REQUEST", "CLOSE">>
           /\ l = <<"CONNECT">> => l # <<"CONNECT", "REQUEST">>
                          /\ l # <<"CONNECT", "CLOSE">> /\ l # <<"CONNECT", "REQUEST", "CLOSE">>
           /\ l = <<"CONNECT", "REQUEST">> =>
                 l # <<"CONNECT", "CLOSE">> /\ l # <<"CONNECT", "REQUEST", "CLOSE">>
           /\ l = <<"CONNECT", "CLOSE">> => l # <<"CONNECT", "REQUEST", "CLOSE">>
<1>2. <<"CONNECT", "REQUEST">>[2] = "REQUEST" /\ <<"CONNECT", "CLOSE">>[2] = "CLOSE"
  OBVIOUS
<1>3. <<"CONNECT", "REQUEST">> # <<"CONNECT", "CLOSE">>
  BY <1>2
<1>4. l = <<>> => Len(l) = 0
  OBVIOUS
<1>5. l = <<"CONNECT">> => Len(l) = 1
  OBVIOUS
<1>6. l = <<"CONNECT", "REQUEST">> \/ l = <<"CONNECT", "CLOSE">> => Len(l) = 2
  OBVIOUS
<1>7. l = <<"CONNECT", "REQUEST", "CLOSE">> => Len(l) = 3
  OBVIOUS
<1>8. 0 # 1 /\ 0 # 2 /\ 0 # 3 /\ 1 # 2 /\ 1 # 3 /\ 2 # 3
  OBVIOUS
<1> QED BY <1>3, <1>4, <1>5, <1>6, <1>7, <1>8, Zenon

\* What the events say about a connection.
LEMMA Events ==
    ASSUME NEW c \in Conns, New(c) \/ Receiving(c) \/ Asked(c) \/ Refused(c) \/ Answered(c)
    PROVE  /\ Emitted(c, "CONNECT") <=> ~New(c)
           /\ Emitted(c, "REQUEST") <=> Asked(c) \/ Answered(c)
           /\ Emitted(c, "CLOSE") <=> Refused(c) \/ Answered(c)
<1> DEFINE R(l, e) == \E i \in DOMAIN l : l[i] = e
<1>1. \A e : Emitted(c, e) <=> R(log[c], e)
  BY DEF Emitted, Range
<1>2. \A e : ~R(<<>>, e)
  OBVIOUS
<1>3. R(<<"CONNECT">>, "CONNECT") /\ ~R(<<"CONNECT">>, "REQUEST") /\ ~R(<<"CONNECT">>, "CLOSE")
  OBVIOUS
<1>4. /\ R(<<"CONNECT", "REQUEST">>, "CONNECT") /\ R(<<"CONNECT", "REQUEST">>, "REQUEST")
      /\ ~R(<<"CONNECT", "REQUEST">>, "CLOSE")
  OBVIOUS
<1>5. /\ R(<<"CONNECT", "CLOSE">>, "CONNECT") /\ ~R(<<"CONNECT", "CLOSE">>, "REQUEST")
      /\ R(<<"CONNECT", "CLOSE">>, "CLOSE")
  OBVIOUS
<1>6. /\ R(<<"CONNECT", "REQUEST", "CLOSE">>, "CONNECT")
      /\ R(<<"CONNECT", "REQUEST", "CLOSE">>, "REQUEST")
      /\ R(<<"CONNECT", "REQUEST", "CLOSE">>, "CLOSE")
  OBVIOUS
<1> HIDE DEF R
<1>7. CASE New(c)
  BY <1>1, <1>2, <1>7, LogsDiffer DEF New, Receiving, Asked, Refused, Answered
<1>8. CASE Receiving(c)
  BY <1>1, <1>3, <1>8, LogsDiffer DEF New, Receiving, Asked, Refused, Answered
<1>9. CASE Asked(c)
  BY <1>1, <1>4, <1>9, LogsDiffer DEF New, Receiving, Asked, Refused, Answered
<1>10. CASE Refused(c)
  BY <1>1, <1>5, <1>10, LogsDiffer DEF New, Receiving, Asked, Refused, Answered
<1>11. CASE Answered(c)
  BY <1>1, <1>6, <1>11, LogsDiffer DEF New, Receiving, Asked, Refused, Answered
<1> QED BY <1>7, <1>8, <1>9, <1>10, <1>11

\* The next byte of a request is read into its stream.
LEMMA Reads ==
    ASSUME NEW r, IsRequest(r), NEW s \in Stream, s.state \in RECEIVING, Reading(r, s),
           s.len + 1 \in DOMAIN r.bytes, NEW byte, byte = r.bytes[s.len + 1],
           NEW x, x = PushChar(s, byte, r.length)
    PROVE  /\ x \in Stream /\ x.len = s.len + 1 /\ x.send = s.send /\ x.idle = s.idle
           /\ Reading(r, x)
           /\ x.state \notin RECEIVING => x.state = "SENDING_STATUS" /\ Whole(r, x.len)
<1>1. PICK m \in Nat : m = s.len /\ m + 1 \in DOMAIN r.bytes
  BY DEF Stream
<1>2. r.length \in Nat \cup {NoLength} /\ NoLength \notin Nat /\ r.bytes \in Seq({"h", "e", "b"})
  BY HttpAssumption DEF IsRequest
<1>3. PushedFields(s, byte, r.length, x)
  BY <1>2, PushCharFields
<1>p. /\ x \in Stream /\ x.len = s.len + 1 /\ x.send = s.send /\ x.idle = s.idle
      /\ s.state = "RECEIVING_HEADER" /\ byte # "e" =>
            /\ x.expected = s.expected
            /\ x.state = IF s.expected = s.len + 1 THEN "SENDING_STATUS" ELSE "RECEIVING_HEADER"
      /\ s.state = "RECEIVING_HEADER" /\ byte = "e" /\ r.length = NoLength =>
            x.state = "SENDING_STATUS"
      /\ s.state = "RECEIVING_HEADER" /\ byte = "e" /\ r.length # NoLength =>
            /\ x.expected = s.len + 1 + r.length
            /\ x.state = IF r.length = 0 THEN "SENDING_STATUS" ELSE "RECEIVING_REQUEST"
      /\ s.state = "RECEIVING_REQUEST" =>
            /\ x.expected = s.expected
            /\ x.state = IF s.expected = s.len + 1 THEN "SENDING_STATUS" ELSE "RECEIVING_REQUEST"
  BY <1>3 DEF PushedFields
<1>4. CASE s.state = "RECEIVING_HEADER" /\ byte # "e"
  <2>1. s.expected = 0 /\ \A i \in 1..m : r.bytes[i] # "e"
    BY <1>1, <1>4 DEF Reading
  <2>2. x.state = "RECEIVING_HEADER" /\ x.expected = 0 /\ x.len = m + 1
    BY <1>1, <1>p, <1>4, <2>1
  <2>3. \A i \in 1..(m + 1) : i \in 1..m \/ i = m + 1
    BY <1>1
  <2>4. r.bytes[m + 1] # "e" /\ m + 1 <= Len(r.bytes)
    BY <1>1, <1>2, <1>4
  <2> QED BY <1>p, <2>1, <2>2, <2>3, <2>4 DEF Reading, RECEIVING
<1>5. CASE s.state = "RECEIVING_HEADER" /\ byte = "e"
  <2>1. HeaderAt(r, m + 1) /\ m + 1 \in DOMAIN r.bytes
    <3>1. \A j \in 1..m : r.bytes[j] # "e"
      BY <1>1, <1>5 DEF Reading
    <3>2. (m + 1) - 1 = m
      BY <1>1
    <3> QED BY <1>1, <1>5, <3>1, <3>2 DEF HeaderAt
  <2>2. CASE r.length = NoLength
    <3>1. Whole(r, m + 1)
      BY <2>1, <2>2, <1>1 DEF Whole
    <3> QED BY <1>1, <1>p, <1>5, <2>2, <3>1 DEF Reading, RECEIVING
  <2>3. CASE r.length # NoLength /\ r.length = 0
    <3>1. Whole(r, m + 1)
      BY <2>1, <2>3, <1>1 DEF Whole
    <3> QED BY <1>1, <1>p, <1>5, <2>3, <3>1 DEF Reading, RECEIVING
  <2>4. CASE r.length # NoLength /\ r.length # 0
    <3>1. r.length \in Nat /\ m + 1 < m + 1 + r.length
      BY <1>1, <1>2, <2>4
    <3>2. x.state = "RECEIVING_REQUEST" /\ x.expected = m + 1 + r.length /\ x.len = m + 1
      BY <1>1, <1>p, <1>5, <2>4
    <3> QED BY <1>p, <2>1, <2>4, <3>1, <3>2 DEF Reading, RECEIVING
  <2> QED BY <2>2, <2>3, <2>4
<1>6. CASE s.state = "RECEIVING_REQUEST"
  <2>1. m < s.expected /\ r.length # NoLength
        /\ \E h \in DOMAIN r.bytes : HeaderAt(r, h) /\ s.expected = h + r.length
    BY <1>1, <1>6 DEF Reading
  <2>2. CASE s.expected = m + 1
    <3>1. Whole(r, m + 1)
      BY <2>1, <2>2 DEF Whole
    <3> QED BY <1>1, <1>p, <1>6, <2>2, <3>1 DEF Reading, RECEIVING
  <2>3. CASE s.expected # m + 1
    <3>1. x.state = "RECEIVING_REQUEST" /\ x.expected = s.expected /\ x.len = m + 1
      BY <1>1, <1>p, <1>6, <2>3
    <3>2. m + 1 < s.expected
      BY <1>1, <2>1, <2>3 DEF Stream
    <3> QED BY <1>p, <2>1, <3>1, <3>2 DEF Reading, RECEIVING
  <2> QED BY <2>2, <2>3
<1> QED BY <1>4, <1>5, <1>6 DEF RECEIVING

-----------------------------------------------------------------------------
\* The invariant of a connection.

\* What an action does not touch.
Untouched(d) ==
    /\ log'[d] = log[d] /\ stream'[d] = stream[d] /\ sent'[d] = sent[d]
    /\ inbox'[d] = inbox[d] /\ out'[d] = out[d] /\ fin'[d] = fin[d]
    /\ d \in DOMAIN asks' <=> d \in DOMAIN asks
    /\ d \in DOMAIN asks => asks'[d] = asks[d]

\* A step that leaves a connection alone keeps what is said of it.
LEMMA Frame ==
    ASSUME NEW d \in Conns, LifeOf(d), BytesOf(d), AnswerOf(d), Untouched(d),
           InList(d)' <=> InList(d), InHandler(d)' <=> InHandler(d), pc' # "dead" => pc # "dead"
    PROVE  LifeOf(d)' /\ BytesOf(d)' /\ AnswerOf(d)'
<1>1. /\ New(d)' <=> New(d)
      /\ Receiving(d)' <=> Receiving(d)
      /\ Asked(d)' <=> Asked(d)
      /\ Refused(d)' <=> Refused(d)
      /\ Answered(d)' <=> Answered(d)
  BY DEF Untouched, New, Receiving, Asked, Refused, Answered
<1>2. LifeOf(d)'
  BY <1>1 DEF LifeOf, Untouched
<1>3. BytesOf(d)'
  <2>1. CASE d \in DOMAIN asks
    <3>1. Pieces(d)' <=> Pieces(d)
      BY <2>1 DEF Pieces, Untouched
    <3>2. Reading(asks[d], stream[d])' <=> Reading(asks[d], stream[d])
      BY <2>1 DEF Untouched
    <3>3. Whole(asks[d], stream[d].len)' <=> Whole(asks[d], stream[d].len)
      BY <2>1 DEF Untouched
    <3> QED BY <1>1, <3>1, <3>2, <3>3 DEF BytesOf, Untouched
  <2>2. CASE d \notin DOMAIN asks
    <3>1. ~Asked(d) /\ ~Answered(d)
      BY <2>2, LogsDiffer DEF LifeOf, New, Asked, Answered
    <3> QED BY <1>1, <2>2, <3>1 DEF BytesOf, Untouched
  <2> QED BY <2>1, <2>2
<1>4. AnswerOf(d)'
  BY <1>1 DEF AnswerOf, Untouched
<1> QED BY <1>2, <1>3, <1>4

-----------------------------------------------------------------------------
\* The end of an iteration: c becomes t, and is closed if ends.
Finished(c, s, events, t, ends) ==
    /\ ends <=> Expired(s) \/ s.state = "CLOSING"
    /\ KeepsInput(s, t) /\ t.send = s.send
    /\ t.state = IF ends THEN "CLOSING" ELSE s.state
    /\ stream' = [stream EXCEPT ![c] = t]
    /\ streams' = IF ends THEN RemoveAt(streams, pos) ELSE streams
    /\ pos' = IF ends THEN pos ELSE pos + 1
    /\ log' = [log EXCEPT ![c] = @ \o events \o IF ends THEN <<"CLOSE">> ELSE <<>>]
    /\ pc' = "streams"

\* StreamDone is such an end.
LEMMA Finishes ==
    ASSUME NEW c \in Conns, NEW s \in Stream, NEW events, StreamDone(c, s, events)
    PROVE  \E t \in Stream, ends \in BOOLEAN : Finished(c, s, events, t, ends)
<1> DEFINE t == IF Expired(s) THEN [s EXCEPT !.state = "CLOSING"] ELSE s
           ends == t.state = "CLOSING"
<1>1. /\ stream' = [stream EXCEPT ![c] = t]
      /\ streams' = IF ends THEN RemoveAt(streams, pos) ELSE streams
      /\ pos' = IF ends THEN pos ELSE pos + 1
      /\ log' = [log EXCEPT ![c] = @ \o events \o IF ends THEN <<"CLOSE">> ELSE <<>>]
      /\ pc' = "streams"
  BY DEF StreamDone
<1>2. t \in Stream /\ KeepsInput(s, t) /\ t.send = s.send
      /\ t.state = IF Expired(s) THEN "CLOSING" ELSE s.state
  <2>1. CASE Expired(s)
    <3>1. t = [s EXCEPT !.state = "CLOSING"]
      BY <2>1
    <3> HIDE DEF t
    <3>2. t \in Stream /\ KeepsInput(s, t) /\ t.state = "CLOSING" /\ t.send = s.send
      BY <3>1, SetState
    <3> QED BY <2>1, <3>2
  <2>2. CASE ~Expired(s)
    BY <2>2 DEF KeepsInput
  <2> QED BY <2>1, <2>2
<1> HIDE DEF t
<1>3. ends \in BOOLEAN /\ (ends <=> Expired(s) \/ s.state = "CLOSING")
      /\ t.state = IF ends THEN "CLOSING" ELSE s.state
  BY <1>2
<1> HIDE DEF ends
<1> QED BY <1>1, <1>2, <1>3 DEF Finished

\* The walk goes on at the same place or at the next.
LEMMA NextPlace ==
    ASSUME NEW n \in Nat, NEW p \in 1..n, NEW ends \in BOOLEAN,
           NEW q, q = IF ends THEN p ELSE p + 1
    PROVE  q - 1 <= p /\ p \in 1..n /\ q \in Int
  OBVIOUS

\* The thread has finished with stream c, which is now t; its other changes are
\* to c.
LEMMA Done ==
    ASSUME HttpInv, NEW c \in Conns, pos \in 1..Len(streams), streams[pos] = c,
           pc \in {"streams", "meta"}, NEW t \in Stream, NEW ends \in BOOLEAN,
           stream' = [stream EXCEPT ![c] = t],
           streams' = IF ends THEN RemoveAt(streams, pos) ELSE streams,
           pos' = IF ends THEN pos ELSE pos + 1,
           pc' = "streams",
           NEW l, log' = [log EXCEPT ![c] = l],
           NEW b \in Seq({"h", "e", "b"}), inbox' = [inbox EXCEPT ![c] = b],
           NEW a \in Seq(Item), sent' = [sent EXCEPT ![c] = a],
           UNCHANGED <<fds, backlog, asks, out, fin>>,
           ends => Refused(c)' \/ Answered(c)',
           ~ends => (Receiving(c)' \/ Asked(c)') /\ t.idle <= Timeout,
           Receiving(c)' => t.state \in RECEIVING,
           Asked(c)' => t.state \in SENDING,
           BytesOf(c)', AnswerOf(c)'
    PROVE  HttpInv'
<1>1. TypeOK /\ ListInv /\ ConnInv /\ PollInv
  BY DEF HttpInv
<1>2. /\ streams' \in Seq(Conns) /\ pos' \in 1..(Len(streams') + 1)
      /\ Injective(streams')
      /\ \A d : InList(d)' <=> InList(d) /\ (ends => d # c)
      /\ \A i \in pos'..Len(streams') : \E k \in (pos + 1)..Len(streams) : streams'[i] = streams[k]
      /\ \A i \in 1..(pos' - 1) : streams'[i] = streams[i] /\ (i # pos \/ ~ends)
  <2>1. streams \in Seq(Conns) /\ Injective(streams)
    BY <1>1 DEF TypeOK, ListInv
  <2>2. \A d : /\ InList(d)' <=> \E i \in 1..Len(streams') : streams'[i] = d
               /\ InList(d) <=> \E i \in 1..Len(streams) : streams[i] = d
    BY DEF InList
  <2>3. Moved(Conns, streams, pos, ends, streams', pos')
    BY <2>1, ListAfter
  <2> QED BY <2>2, <2>3, Zenon DEF Moved
<1>3. streams \in Seq(Conns) /\ InList(c) /\ (Receiving(c) \/ Asked(c)) /\ c \in DOMAIN asks /\ ~New(c)
  <2>1. LifeOf(c)
    BY <1>1 DEF ConnInv
  <2>2. InList(c)
    BY DEF InList
  <2>3. Receiving(c) \/ Asked(c)
    BY <2>1, <2>2 DEF LifeOf
  <2>4. ~New(c)
    BY <2>3, LogsDiffer DEF New, Receiving, Asked
  <2> QED BY <1>1, <2>1, <2>2, <2>3, <2>4 DEF LifeOf, TypeOK
<1>4. ASSUME NEW d \in Conns, d # c
      PROVE  Untouched(d)
  BY <1>1, <1>4 DEF Untouched, TypeOK
<1>5. /\ stream'[c] = t /\ log'[c] = l /\ inbox'[c] = b /\ sent'[c] = a
      /\ stream' \in [Conns -> Stream]
      /\ inbox' \in [Conns -> Seq({"h", "e", "b"})]
      /\ sent' \in [Conns -> Seq({"status", "header", "end", "data"})]
  BY <1>1 DEF TypeOK, Item
<1>6. TypeOK'
  <2>1. l \in Seq({"CONNECT", "REQUEST", "CLOSE"})
    <3>1. l \in {<<"CONNECT">>, <<"CONNECT", "REQUEST">>, <<"CONNECT", "CLOSE">>,
                 <<"CONNECT", "REQUEST", "CLOSE">>}
      BY <1>5 DEF Receiving, Asked, Refused, Answered
    <3>2. /\ <<"CONNECT">> \in Seq({"CONNECT", "REQUEST", "CLOSE"})
          /\ <<"CONNECT", "REQUEST">> \in Seq({"CONNECT", "REQUEST", "CLOSE"})
          /\ <<"CONNECT", "CLOSE">> \in Seq({"CONNECT", "REQUEST", "CLOSE"})
          /\ <<"CONNECT", "REQUEST", "CLOSE">> \in Seq({"CONNECT", "REQUEST", "CLOSE"})
      OBVIOUS
    <3> QED BY <3>1, <3>2, Zenon
  <2>2. log' \in [Conns -> Seq({"CONNECT", "REQUEST", "CLOSE"})]
    BY <1>1, <2>1 DEF TypeOK
  <2> QED BY <1>1, <1>2, <1>5, <2>2 DEF TypeOK, fds
<1>7. ConnInv'
  <2>1. ASSUME NEW d \in Conns, d # c
        PROVE  LifeOf(d)' /\ BytesOf(d)' /\ AnswerOf(d)'
    <3>1. LifeOf(d) /\ BytesOf(d) /\ AnswerOf(d)
      BY <1>1 DEF ConnInv
    <3>2. InList(d)' <=> InList(d)
      BY <1>2, <2>1
    <3>3. ~InHandler(d) /\ ~InHandler(d)'
      BY <2>1 DEF InHandler
    <3> QED BY <1>4, <2>1, <3>1, <3>2, <3>3, Frame
  <2>2. LifeOf(c)'
    <3>1. CASE ends
      <4>1. ~Receiving(c)' /\ ~Asked(c)' /\ ~New(c)'
        BY <3>1, LogsDiffer DEF Receiving, Asked, Refused, Answered, New
      <4> QED BY <1>2, <1>3, <3>1, <4>1 DEF LifeOf
    <3>2. CASE ~ends
      <4>1. (Receiving(c) \/ Asked(c))' /\ InList(c)'
        BY <1>2, <1>3, <3>2
      <4> QED BY <1>3, <1>5, <4>1 DEF LifeOf
    <3> QED BY <3>1, <3>2
  <2> QED BY <2>1, <2>2 DEF ConnInv
<1>8. ListInv'
  <2>1. \A i \in 1..Len(backlog) : New(backlog[i])' /\ backlog[i] \in DOMAIN asks
    <3>1. ASSUME NEW i \in 1..Len(backlog)
          PROVE  New(backlog[i])' /\ backlog[i] \in DOMAIN asks
      <4>1. New(backlog[i]) /\ backlog[i] \in DOMAIN asks /\ backlog[i] \in Conns
        BY <1>1 DEF ListInv, TypeOK
      <4>2. backlog[i] # c
        BY <1>3, <4>1
      <4> QED BY <1>4, <4>1, <4>2 DEF Untouched, New
    <3> QED BY <3>1
  <2> QED BY <1>1, <1>2, <2>1 DEF ListInv, New
<1>9. PollInv'
  <2>1. ASSUME NEW k \in 1..Len(streams), k # pos
        PROVE  streams[k] \in Conns /\ streams[k] # c /\ Untouched(streams[k])
               /\ ~InHandler(streams[k]) /\ ~InHandler(streams[k])'
    <3>1. streams[k] \in Conns /\ streams[k] # c
      BY <1>1, <1>3, <2>1 DEF ListInv, Injective
    <3> QED BY <1>4, <3>1 DEF InHandler
  <2>2. ASSUME NEW i \in pos'..Len(streams')
        PROVE  /\ streams'[i] \in writable' => Asked(streams[i])'
               /\ streams'[i] \in readable' =>
                     /\ Receiving(streams[i])'
                     /\ \/ inbox'[streams'[i]] # <<>> \/ fin'[streams'[i]] # "open"
                        \/ stream'[streams'[i]].idle = 0
    <3>1. PICK k \in (pos + 1)..Len(streams) : streams'[i] = streams[k]
      BY <1>2
    <3>2. k \in 1..Len(streams) /\ k # pos /\ k \in pos..Len(streams)
      BY <1>1 DEF TypeOK
    <3>3. PICK d : d = streams[k] /\ d = streams'[i] /\ Untouched(d) /\ ~InHandler(d)
      BY <2>1, <3>1, <3>2
    <3>4. /\ d \in writable => Asked(d)
          /\ d \in readable =>
                /\ Receiving(d)
                /\ inbox[d] # <<>> \/ fin[d] # "open" \/ stream[d].idle = 0
      BY <1>1, <3>2, <3>3 DEF PollInv
    <3>5. Asked(streams[i])' <=> log'[d] = <<"CONNECT", "REQUEST">>
      BY <3>3 DEF Asked
    <3>6. Receiving(streams[i])' <=> log'[d] = <<"CONNECT">>
      BY <3>3 DEF Receiving
    <3>7. log'[d] = log[d] /\ inbox'[d] = inbox[d] /\ fin'[d] = fin[d] /\ stream'[d] = stream[d]
      BY <3>3 DEF Untouched
    <3> QED BY <3>3, <3>4, <3>5, <3>6, <3>7, Zenon DEF Asked, Receiving, fds
  <2>3. ASSUME NEW i \in 1..(pos' - 1)
        PROVE  stream'[streams'[i]].idle <= Timeout
    <3>1. streams'[i] = streams[i] /\ (i # pos \/ ~ends)
      BY <1>2
    <3>2. CASE i = pos
      BY <1>5, <3>1, <3>2
    <3>3. CASE i # pos
      <4>0. pos' - 1 <= pos /\ pos \in 1..Len(streams) /\ pos' \in Int
        <5>1. Len(streams) \in Nat
          BY <1>3
        <5> QED BY <5>1, NextPlace, Zenon
      <4>1. i \in 1..Len(streams) /\ i \in 1..(pos - 1)
        BY <3>3, <4>0
      <4>2. stream[streams[i]].idle <= Timeout
        BY <1>1, <4>1 DEF PollInv
      <4> QED BY <2>1, <3>1, <3>3, <4>1, <4>2 DEF Untouched
    <3> QED BY <3>2, <3>3
  <2>4. readable' \cap writable' = {}
    BY <1>1 DEF PollInv, fds
  <2> QED BY <2>2, <2>3, <2>4 DEF PollInv
<1> QED BY <1>6, <1>7, <1>8, <1>9 DEF HttpInv

\* A step that reads nothing keeps what is said of the input.
LEMMA BytesKept ==
    ASSUME NEW c \in Conns, BytesOf(c), inbox'[c] = inbox[c], UNCHANGED <<out, fin, asks>>,
           ~New(c)', Receiving(c)' => Receiving(c),
           Asked(c)' \/ Answered(c)' => Asked(c) \/ Answered(c),
           stream'[c].len = stream[c].len, stream'[c].expected = stream[c].expected,
           stream'[c].state \in RECEIVING => stream'[c].state = stream[c].state
    PROVE  BytesOf(c)'
<1>1. Pieces(c)' <=> Pieces(c)
  BY DEF Pieces
<1>2. Reading(asks[c], stream[c]) => Reading(asks[c], stream[c])'
  BY DEF Reading, RECEIVING
<1>3. Whole(asks[c], stream[c].len)' <=> Whole(asks[c], stream[c].len)
  OBVIOUS
<1> QED BY <1>1, <1>2, <1>3 DEF BytesOf

\* The events of an iteration.
LEMMA NextLog ==
    ASSUME NEW c \in Conns, NEW ends \in BOOLEAN, NEW events,
           log'[c] = log[c] \o events \o IF ends THEN <<"CLOSE">> ELSE <<>>
    PROVE  /\ events = <<>> /\ Receiving(c) => IF ends THEN Refused(c)' ELSE Receiving(c)'
           /\ events = <<>> /\ Asked(c) => IF ends THEN Answered(c)' ELSE Asked(c)'
           /\ events = <<"REQUEST">> /\ Receiving(c) /\ ~ends => Asked(c)'
<1>1. CASE ends
  <2>1. log'[c] = (log[c] \o events) \o <<"CLOSE">>
    BY <1>1
  <2> QED BY <1>1, <2>1, LogSums, Zenon DEF Receiving, Asked, Refused, Answered
<1>2. CASE ~ends
  <2>1. log'[c] = (log[c] \o events) \o <<>>
    BY <1>2
  <2> QED BY <1>2, <2>1, LogSums, Zenon DEF Receiving, Asked, Refused, Answered
<1> QED BY <1>1, <1>2

\* The thread has finished with stream c, which was s, without a call of the
\* handler.
LEMMA EndStep ==
    ASSUME HttpInv, NEW c \in Conns, pos \in 1..Len(streams), streams[pos] = c,
           pc \in {"streams", "meta"}, NEW s \in Stream, StreamDone(c, s, <<>>),
           s.len = stream[c].len, s.expected = stream[c].expected,
           NEW a \in Seq(Item), sent' = [sent EXCEPT ![c] = a],
           UNCHANGED <<fds, backlog, client>>,
           Receiving(c) => s.state \in {stream[c].state, "CLOSING"} /\ s.send = <<>> /\ a = <<>>,
           Asked(c) => /\ s.state \in SENDING \cup {"CLOSING"}
                       /\ s.state # "CLOSING" => OnWire(a, s.send)
                       /\ s.state = "CLOSING" => OnWire(a, <<>>) \/ fin[c] = "reset"
    PROVE  HttpInv'
<1>1. TypeOK /\ ListInv /\ LifeOf(c) /\ BytesOf(c) /\ AnswerOf(c)
  BY DEF HttpInv, ConnInv
<1>2. Receiving(c) \/ Asked(c)
  BY <1>1 DEF LifeOf, InList
<1>f. PICK t \in Stream, ends \in BOOLEAN : Finished(c, s, <<>>, t, ends)
  BY Finishes
<1>3. /\ ends <=> Expired(s) \/ s.state = "CLOSING"
      /\ KeepsInput(s, t) /\ t.send = s.send
      /\ t.state = IF ends THEN "CLOSING" ELSE s.state
      /\ stream' = [stream EXCEPT ![c] = t]
      /\ streams' = IF ends THEN RemoveAt(streams, pos) ELSE streams
      /\ pos' = IF ends THEN pos ELSE pos + 1
      /\ log' = [log EXCEPT ![c] = @ \o <<>> \o IF ends THEN <<"CLOSE">> ELSE <<>>]
      /\ pc' = "streams"
  BY <1>f DEF Finished
<1>4. /\ stream'[c] = t /\ sent'[c] = a
      /\ log'[c] = log[c] \o <<>> \o IF ends THEN <<"CLOSE">> ELSE <<>>
  BY <1>1, <1>3 DEF TypeOK
<1>5. PICK l : l = log[c] \o <<>> \o IF ends THEN <<"CLOSE">> ELSE <<>>
  OBVIOUS
<1>6. log' = [log EXCEPT ![c] = l]
  BY <1>3, <1>5
<1>7. /\ Receiving(c) => IF ends THEN Refused(c)' ELSE Receiving(c)'
      /\ Asked(c) => IF ends THEN Answered(c)' ELSE Asked(c)'
  BY <1>4, NextLog
<1>8. /\ ~New(c)'
      /\ Receiving(c)' => Receiving(c) /\ ~ends
      /\ Refused(c)' => Receiving(c) /\ ends
      /\ Asked(c)' => Asked(c) /\ ~ends
      /\ Answered(c)' => Asked(c) /\ ends
  <2>1. CASE Receiving(c) /\ ends
    <3>1. Refused(c)'
      BY <1>7, <2>1
    <3> QED BY <2>1, <3>1, LogsDiffer DEF New, Receiving, Asked, Refused, Answered
  <2>2. CASE Receiving(c) /\ ~ends
    <3>1. Receiving(c)'
      BY <1>7, <2>2
    <3> QED BY <2>2, <3>1, LogsDiffer DEF New, Receiving, Asked, Refused, Answered
  <2>3. CASE Asked(c) /\ ends
    <3>1. Answered(c)'
      BY <1>7, <2>3
    <3> QED BY <2>3, <3>1, LogsDiffer DEF New, Receiving, Asked, Refused, Answered
  <2>4. CASE Asked(c) /\ ~ends
    <3>1. Asked(c)'
      BY <1>7, <2>4
    <3> QED BY <2>4, <3>1, LogsDiffer DEF New, Receiving, Asked, Refused, Answered
  <2> QED BY <1>2, <2>1, <2>2, <2>3, <2>4
<1>9. BytesOf(c)'
  <2>1. t.state \in RECEIVING => t.state = stream[c].state
    BY <1>1, <1>2, <1>3 DEF LifeOf, RECEIVING, SENDING
  <2>2. t.len = stream[c].len /\ t.expected = stream[c].expected
    BY <1>3 DEF KeepsInput
  <2> QED BY <1>1, <1>4, <1>8, <2>1, <2>2, BytesKept DEF client
<1>10. AnswerOf(c)'
  <2>1. ~InHandler(c)'
    BY <1>3 DEF InHandler
  <2>2. Receiving(c)' => stream'[c].send = <<>> /\ sent'[c] = <<>>
    BY <1>3, <1>4, <1>8
  <2>3. Asked(c)' => OnWire(sent'[c], stream'[c].send)
    BY <1>3, <1>4, <1>8
  <2>4. Answered(c)' => OnWire(sent'[c], <<>>) \/ fin'[c] = "reset" \/ stream'[c].idle > Timeout
    BY <1>3, <1>4, <1>8 DEF client, Expired, KeepsInput
  <2> QED BY <1>8, <2>1, <2>2, <2>3, <2>4 DEF AnswerOf
<1>11. ~ends => t.idle <= Timeout
  BY <1>3, HttpAssumption DEF Expired, KeepsInput, Stream
<1>12. /\ Receiving(c)' => t.state \in RECEIVING
       /\ Asked(c)' => t.state \in SENDING
  BY <1>1, <1>3, <1>8 DEF LifeOf, RECEIVING
<1>13. PICK b \in Seq({"h", "e", "b"}) : b = inbox[c] /\ inbox' = [inbox EXCEPT ![c] = b]
  BY <1>1 DEF TypeOK, client
<1>14. ends => Refused(c)' \/ Answered(c)'
  BY <1>2, <1>7
<1>15. ~ends => (Receiving(c)' \/ Asked(c)') /\ t.idle <= Timeout
  BY <1>2, <1>7, <1>11
<1> QED BY <1>3, <1>6, <1>9, <1>10, <1>12, <1>13, <1>14, <1>15, Done DEF client

-----------------------------------------------------------------------------
\* The steps.

\* What is known of the stream that the thread has reached.
LEMMA AtPos ==
    ASSUME HttpInv, NEW c \in Conns, pos \in 1..Len(streams), streams[pos] = c
    PROVE  /\ LifeOf(c) /\ BytesOf(c) /\ AnswerOf(c)
           /\ Receiving(c) \/ (Asked(c) /\ ~Receiving(c))
           /\ c \in DOMAIN asks /\ asks[c] \in Requests /\ IsRequest(asks[c])
           /\ stream[c] \in Stream
           /\ pc \in {"streams", "meta"} =>
                 /\ c \in writable => Asked(c) /\ c \notin readable
                 /\ c \in readable /\ pc = "streams" =>
                       /\ Receiving(c)
                       /\ inbox[c] # <<>> \/ fin[c] # "open" \/ stream[c].idle = 0
<1>1. TypeOK /\ ListInv /\ PollInv /\ LifeOf(c) /\ BytesOf(c) /\ AnswerOf(c)
  BY DEF HttpInv, ConnInv
<1>2. InList(c)
  BY DEF InList
<1>3. Receiving(c) \/ (Asked(c) /\ ~Receiving(c))
  <2>1. Receiving(c) \/ Asked(c)
    BY <1>1, <1>2, Zenon DEF LifeOf
  <2>2. Asked(c) => ~Receiving(c)
    BY LogsDiffer, Zenon DEF Receiving, Asked
  <2> QED BY <2>1, <2>2
<1>4. c \in DOMAIN asks /\ asks[c] \in Requests
  BY <1>1, <1>3, LogsDiffer DEF LifeOf, New, Receiving, Asked, TypeOK
<1>5. pos \in pos..Len(streams)
  BY <1>1 DEF TypeOK
<1>6. pc = "streams" => ~InHandler(c)
  BY DEF InHandler
<1> QED BY <1>1, <1>3, <1>4, <1>5, <1>6, HttpAssumption DEF PollInv, TypeOK

\* The stream that is handled is the one the walk has reached.
LEMMA Reached ==
    ASSUME TypeOK, NEW c \in Conns, Handles(c)
    PROVE  pos \in 1..Len(streams) /\ streams[pos] = c /\ pc = "streams"
<1>1. streams \in Seq(Conns) /\ pos \in 1..(Len(streams) + 1)
  BY DEF TypeOK
<1>2. pos <= Len(streams) /\ streams[pos] = c /\ pc = "streams"
  BY DEF Handles
<1>3. Len(streams) \in Nat
  BY <1>1
<1> QED BY <1>1, <1>2, <1>3

\* A stream with nothing to read or write.
LEMMA StreamWaitsStep ==
    ASSUME HttpInv, NEW c \in Conns, StreamWaits(c)
    PROVE  HttpInv'
<1>1. pos \in 1..Len(streams) /\ streams[pos] = c /\ pc = "streams" /\ TypeOK
  BY Reached DEF StreamWaits, HttpInv
<1>2. LifeOf(c) /\ AnswerOf(c) /\ stream[c] \in Stream
  BY <1>1, AtPos
<1>3. StreamDone(c, stream[c], <<>>)
  BY DEF StreamWaits
<1>4. PICK a \in Seq(Item) : a = sent[c] /\ sent' = [sent EXCEPT ![c] = a]
  BY <1>1 DEF StreamWaits, TypeOK, Item
<1>5. Receiving(c) => stream[c].send = <<>> /\ a = <<>>
  BY <1>2, <1>4 DEF AnswerOf
<1>6. Asked(c) => stream[c].state \in SENDING /\ stream[c].state # "CLOSING" /\ OnWire(a, stream[c].send)
  BY <1>1, <1>2, <1>4 DEF AnswerOf, LifeOf, SENDING, InHandler
<1>7. UNCHANGED <<fds, backlog, client>>
  BY DEF StreamWaits
<1> QED BY <1>1, <1>2, <1>3, <1>4, <1>5, <1>6, <1>7, EndStep

\* The socket of a stream has no more to give.
LEMMA sb_stream_recv_EndStep ==
    ASSUME HttpInv, NEW c \in Conns, sb_stream_recv_End(c)
    PROVE  HttpInv'
<1>1. pos \in 1..Len(streams) /\ streams[pos] = c /\ pc = "streams" /\ TypeOK /\ c \in readable
  BY Reached DEF sb_stream_recv_End, HttpInv
<1>2. Receiving(c) /\ AnswerOf(c) /\ stream[c] \in Stream
  BY <1>1, AtPos
<1>3. PICK s : /\ StreamDone(c, s, <<>>)
               /\ s = IF fin[c] = "open" THEN stream[c] ELSE [stream[c] EXCEPT !.state = "CLOSING"]
  BY DEF sb_stream_recv_End
<1>4. /\ s \in Stream /\ s.state \in {stream[c].state, "CLOSING"} /\ s.send = stream[c].send
      /\ s.len = stream[c].len /\ s.expected = stream[c].expected
  <2>1. CASE fin[c] = "open"
    BY <1>2, <1>3, <2>1
  <2>2. CASE fin[c] # "open"
    BY <1>2, <1>3, <2>2, SetState DEF KeepsInput
  <2> QED BY <2>1, <2>2
<1>5. PICK a \in Seq(Item) : a = sent[c] /\ sent' = [sent EXCEPT ![c] = a]
  BY <1>1 DEF sb_stream_recv_End, TypeOK, Item
<1>6. s.send = <<>> /\ a = <<>>
  BY <1>2, <1>4, <1>5 DEF AnswerOf
<1>7. ~Asked(c)
  BY <1>2, LogsDiffer DEF Asked, Receiving
<1>8. UNCHANGED <<fds, backlog, client>>
  BY DEF sb_stream_recv_End
<1> QED BY <1>1, <1>3, <1>4, <1>5, <1>6, <1>7, <1>8, EndStep

\* Before anything is sent, all of the answer is to be sent.
LEMMA AnswerWhole ==
    OnWire(<<>>, Answer)
<1>1. Len(Answer) = 4 /\ Len(<<>>) = 0
  BY DEF Answer
<1> HIDE DEF Answer
<1>2. \A i \in 1..4 : Answer[0 + i] = Answer[i]
  OBVIOUS
<1> QED BY <1>1, <1>2 DEF OnWire

\* Some more of the answer goes out.
Gone(a, q, n) == a \o SubSeq(q, 1, n)
Left(q, n)    == SubSeq(q, n + 1, Len(q))

\* A prefix of what is left of an answer is sent.
LEMMA SendSome ==
    ASSUME NEW a \in Seq(Item), NEW q \in Seq(Item), OnWire(a, q), NEW n \in 1..Len(q),
           NEW b, b = Gone(a, q, n), NEW r, r = Left(q, n)
    PROVE  b \in Seq(Item) /\ r \in Seq(Item) /\ OnWire(b, r)
<1> USE DEF Gone, Left
<1>1. PICK p \in Seq(Item) : p = SubSeq(q, 1, n) /\ Len(p) = n /\ \A i \in 1..n : p[i] = q[i]
  <2>1. SubSeq(q, 1, n) \in Seq(Item) /\ Len(SubSeq(q, 1, n)) = n
    OBVIOUS
  <2>2. \A i \in 1..n : SubSeq(q, 1, n)[i] = q[i]
    OBVIOUS
  <2> QED BY <2>1, <2>2
<1>2. r \in Seq(Item) /\ Len(r) = Len(q) - n /\ \A i \in 1..(Len(q) - n) : r[i] = q[n + i]
  <2>1. SubSeq(q, n + 1, Len(q)) \in Seq(Item) /\ Len(SubSeq(q, n + 1, Len(q))) = Len(q) - n
    OBVIOUS
  <2>2. \A i \in 1..(Len(q) - n) : SubSeq(q, n + 1, Len(q))[i] = q[n + i]
    OBVIOUS
  <2> QED BY <2>1, <2>2
<1>3. /\ b \in Seq(Item) /\ Len(b) = Len(a) + Len(p)
      /\ \A i \in 1..Len(a) + Len(p) : b[i] = IF i <= Len(a) THEN a[i] ELSE p[i - Len(a)]
  BY <1>1, ConcatProperties, Zenon
<1>4. Len(a) \in Nat /\ Len(q) \in Nat /\ Len(b) = Len(a) + n /\ Len(a) + Len(q) = 4
  BY <1>1, <1>3 DEF OnWire
<1>5. Len(b) + Len(r) = 4
  BY <1>2, <1>4
<1>6. ASSUME NEW i \in 1..Len(b)
      PROVE  b[i] = Answer[i]
  <2>0. i \in 1..Len(a) + Len(p) /\ Len(p) = n
    BY <1>1, <1>3
  <2>1. CASE i <= Len(a)
    <3>1. b[i] = a[i] /\ i \in 1..Len(a)
      BY <1>3, <1>4, <2>0, <2>1
    <3> QED BY <3>1 DEF OnWire
  <2>2. CASE ~(i <= Len(a))
    <3>0. i \in Int /\ i <= Len(a) + n /\ n <= Len(q) /\ i > Len(a)
      BY <1>4, <2>0, <2>2
    <3>1. PICK j \in 1..n : j = i - Len(a) /\ Len(a) + j = i /\ j \in 1..Len(q)
      <4>1. i - Len(a) \in 1..n /\ Len(a) + (i - Len(a)) = i /\ i - Len(a) \in 1..Len(q)
        BY <1>4, <3>0
      <4> QED BY <4>1
    <3>2. b[i] = p[j] /\ p[j] = q[j]
      BY <1>1, <1>3, <2>0, <2>2, <3>1, Zenon
    <3> QED BY <3>1, <3>2 DEF OnWire
  <2> QED BY <2>1, <2>2
<1>7. ASSUME NEW i \in 1..Len(r)
      PROVE  r[i] = Answer[Len(b) + i]
  <2>0. n \in Nat /\ i \in Nat /\ i >= 1 /\ i <= Len(q) - n
    BY <1>2, <1>4
  <2>1. PICK j \in 1..Len(q) : j = n + i /\ Len(a) + j = Len(b) + i
    <3>1. n + i \in 1..Len(q) /\ Len(a) + (n + i) = Len(b) + i
      BY <1>4, <2>0
    <3> QED BY <3>1
  <2>2. r[i] = q[j]
    BY <1>2, <2>1
  <2> QED BY <2>1, <2>2 DEF OnWire
<1> QED BY <1>2, <1>3, <1>5, <1>6, <1>7 DEF OnWire

\* sb_stream_send.
LEMMA StreamSendStep ==
    ASSUME HttpInv, NEW c \in Conns, StreamSend(c)
    PROVE  HttpInv'
<1>1. pos \in 1..Len(streams) /\ streams[pos] = c /\ pc = "streams" /\ TypeOK /\ c \in writable
  BY Reached DEF StreamSend, HttpInv
<1>2. LifeOf(c) /\ Asked(c) /\ ~Receiving(c) /\ AnswerOf(c) /\ stream[c] \in Stream
  <2>1. Asked(c)
    BY <1>1, AtPos
  <2>2. ~Receiving(c)
    BY <2>1, LogsDiffer DEF Asked, Receiving
  <2> QED BY <1>1, <2>1, <2>2, AtPos
<1>3. /\ sent[c] \in Seq(Item) /\ stream[c].send \in Seq(Item) /\ stream[c].state \in SENDING
      /\ OnWire(sent[c], stream[c].send)
  BY <1>1, <1>2 DEF TypeOK, Stream, Item, LifeOf, AnswerOf, InHandler
<1>4. UNCHANGED <<fds, backlog, client>>
  BY DEF StreamSend
<1>5. CASE /\ stream[c].send = <<>> \/ fin[c] = "reset"
           /\ StreamDone(c, [stream[c] EXCEPT !.state = "CLOSING"], <<>>)
           /\ UNCHANGED sent
  <2>1. PICK s : s = [stream[c] EXCEPT !.state = "CLOSING"] /\ StreamDone(c, s, <<>>)
    BY <1>5
  <2>2. /\ s \in Stream /\ s.state = "CLOSING"
        /\ s.len = stream[c].len /\ s.expected = stream[c].expected
    BY <1>2, <2>1, SetState DEF KeepsInput
  <2>3. PICK a \in Seq(Item) : a = sent[c] /\ sent' = [sent EXCEPT ![c] = a]
    BY <1>1, <1>5 DEF TypeOK, Item
  <2>4. OnWire(a, <<>>) \/ fin[c] = "reset"
    BY <1>3, <1>5, <2>3
  <2> QED BY <1>1, <1>2, <1>4, <2>1, <2>2, <2>3, <2>4, EndStep
<1>6. CASE \E n \in 1..Len(stream[c].send) :
              /\ sent' = [sent EXCEPT ![c] = @ \o SubSeq(stream[c].send, 1, n)]
              /\ StreamDone(c, [stream[c] EXCEPT !.idle = 0,
                                  !.send = SubSeq(@, n + 1, Len(@))], <<>>)
  <2>1. PICK n \in 1..Len(stream[c].send) :
              /\ sent' = [sent EXCEPT ![c] = @ \o SubSeq(stream[c].send, 1, n)]
              /\ StreamDone(c, [stream[c] EXCEPT !.idle = 0,
                                  !.send = SubSeq(@, n + 1, Len(@))], <<>>)
    BY <1>6
  <2>2. PICK a, q : a = Gone(sent[c], stream[c].send, n) /\ q = Left(stream[c].send, n)
    OBVIOUS
  <2>3. a \in Seq(Item) /\ q \in Seq(Item) /\ OnWire(a, q)
    BY <1>3, <2>2, SendSome
  <2>4. sent' = [sent EXCEPT ![c] = a]
    BY <2>1, <2>2 DEF Gone
  <2>5. PICK s : s = [stream[c] EXCEPT !.idle = 0, !.send = q] /\ StreamDone(c, s, <<>>)
    BY <2>1, <2>2 DEF Left
  <2>6. /\ s \in Stream /\ s.state = stream[c].state /\ s.send = q
        /\ s.len = stream[c].len /\ s.expected = stream[c].expected
    <3>1. 0 \in 0..(Timeout + 1)
      BY HttpAssumption
    <3>2. PICK u \in Stream : u = stream[c] /\ s = [u EXCEPT !.idle = 0, !.send = q]
      BY <1>2, <2>5
    <3>3. s \in Stream /\ s.state = u.state /\ s.send = q /\ s.len = u.len /\ s.expected = u.expected
      BY <2>3, <3>1, <3>2 DEF Stream, Item
    <3> QED BY <3>2, <3>3
  <2>7. s.state # "CLOSING"
    BY <1>3, <2>6 DEF SENDING
  <2> QED BY <1>1, <1>2, <1>3, <1>4, <2>3, <2>4, <2>5, <2>6, <2>7, EndStep
<1> QED BY <1>5, <1>6 DEF StreamSend

\* The handler answers when getMeta has returned.
LEMMA getMeta_ReturnsStep ==
    ASSUME HttpInv, getMeta_Returns
    PROVE  HttpInv'
<1>1. TypeOK /\ ListInv /\ pc = "meta" /\ pos \in 1..Len(streams) /\ stream[streams[pos]].idle = 0
  BY DEF HttpInv, ListInv, getMeta_Returns
<1>2. PICK c \in Conns : c = streams[pos] /\ InHandler(c)
  <2>1. streams[pos] \in Conns
    BY <1>1 DEF TypeOK
  <2> QED BY <1>1, <2>1 DEF InHandler
<1>3. LifeOf(c) /\ AnswerOf(c) /\ stream[c] \in Stream /\ Asked(c) /\ ~Receiving(c)
  <2>1. Asked(c)
    BY <1>1, <1>2 DEF ListInv
  <2>2. ~Receiving(c)
    BY <2>1, LogsDiffer DEF Asked, Receiving
  <2> QED BY <1>1, <1>2, <2>1, <2>2, AtPos
<1>4. PICK s : s = sb_write(stream[c]) /\ StreamDone(c, s, <<>>)
  BY <1>2 DEF getMeta_Returns
<1>5. stream[c].state = "SENDING_HEADER" /\ stream[c].send = <<"status", "header">> /\ sent[c] = <<>>
  BY <1>2, <1>3 DEF AnswerOf
<1>6. /\ s \in Stream /\ s.state = "SENDING_DATA" /\ s.send = Answer
      /\ s.len = stream[c].len /\ s.expected = stream[c].expected
  BY <1>3, <1>4, <1>5, WriteFields DEF KeepsInput
<1>7. PICK a \in Seq(Item) : a = <<>> /\ sent' = [sent EXCEPT ![c] = a]
  BY <1>1, <1>5 DEF getMeta_Returns, TypeOK, Item
<1>8. OnWire(a, s.send)
  BY <1>6, <1>7, AnswerWhole
<1>9. UNCHANGED <<fds, backlog, client>> /\ "SENDING_DATA" \in SENDING /\ s.state # "CLOSING"
  BY <1>6 DEF getMeta_Returns, SENDING
<1> QED BY <1>1, <1>2, <1>3, <1>4, <1>6, <1>7, <1>8, <1>9, EndStep

\* What reading the next byte does to the stream that the thread has reached.
LEMMA ReceivedByte ==
    ASSUME HttpInv, NEW c \in Conns, Handles(c), c \in readable, inbox[c] # <<>>,
           NEW s, s = Received(c), inbox' = [inbox EXCEPT ![c] = Tail(@)],
           UNCHANGED <<asks, out, fin>>
    PROVE  /\ s \in Stream /\ s.send = <<>> /\ s.idle = 0 /\ sent[c] = <<>>
           /\ Reading(asks[c], s)
           /\ s.state \notin RECEIVING => s.state = "SENDING_STATUS" /\ Whole(asks[c], s.len)
           /\ fin[c] # "reset"
           /\ stream'[c].len = s.len => Pieces(c)'
<1>1. pos \in 1..Len(streams) /\ streams[pos] = c /\ pc = "streams" /\ TypeOK
  BY Reached DEF HttpInv
<1>2. /\ Receiving(c) /\ LifeOf(c) /\ BytesOf(c) /\ AnswerOf(c) /\ stream[c] \in Stream
      /\ c \in DOMAIN asks /\ IsRequest(asks[c])
  BY <1>1, AtPos
<1>3. PICK m \in Nat, b \in Seq({"h", "e", "b"}), o \in Seq({"h", "e", "b"}) :
         m = stream[c].len /\ b = inbox[c] /\ o = out[c]
  BY <1>1, <1>2 DEF TypeOK, Stream
<1>4. PICK r : r = asks[c] /\ IsRequest(r) /\ r.bytes \in Seq({"h", "e", "b"})
  BY <1>2 DEF IsRequest
<1>5. fin[c] # "reset"
  BY <1>2 DEF BytesOf
<1>6. /\ Len(r.bytes) = m + Len(b) + Len(o)
      /\ \A i \in 1..Len(b) : b[i] = r.bytes[m + i]
      /\ \A i \in 1..Len(o) : o[i] = r.bytes[m + Len(b) + i]
  BY <1>2, <1>3, <1>4, <1>5 DEF BytesOf, Pieces
<1>7. b # <<>> /\ Len(b) \in Nat /\ Len(b) >= 1 /\ Len(o) \in Nat
  BY <1>3
<1>8. Head(b) = r.bytes[m + 1] /\ m + 1 \in DOMAIN r.bytes
  <2>1. Head(b) = b[1] /\ 1 \in 1..Len(b)
    BY <1>3, <1>7
  <2>2. b[1] = r.bytes[m + 1]
    BY <1>6, <2>1
  <2>3. m + 1 \in 1..Len(r.bytes) /\ DOMAIN r.bytes = 1..Len(r.bytes)
    BY <1>4, <1>6, <1>7
  <2> QED BY <2>1, <2>2, <2>3
<1>9. PICK u \in Stream : u = [stream[c] EXCEPT !.idle = 0] /\ u.state = stream[c].state /\ u.idle = 0
                          /\ u.len = m /\ u.expected = stream[c].expected /\ u.send = stream[c].send
  <2>1. 0 \in 0..(Timeout + 1)
    BY HttpAssumption
  <2>2. PICK v \in Stream : v = stream[c]
    BY <1>2
  <2>3. PICK u : u = [v EXCEPT !.idle = 0]
    OBVIOUS
  <2>4. u \in Stream /\ u.state = v.state /\ u.idle = 0
        /\ u.len = v.len /\ u.expected = v.expected /\ u.send = v.send
    BY <2>1, <2>3 DEF Stream
  <2> QED BY <1>3, <2>2, <2>3, <2>4
<1>10. s = PushChar(u, Head(b), r.length)
  BY <1>3, <1>4, <1>9 DEF Received
<1>11. u.state \in RECEIVING /\ Reading(r, u) /\ u.send = <<>> /\ sent[c] = <<>>
  BY <1>2, <1>3, <1>4, <1>9 DEF LifeOf, BytesOf, AnswerOf, Reading
<1>12. /\ s \in Stream /\ s.len = m + 1 /\ s.send = <<>> /\ s.idle = 0
       /\ Reading(r, s)
       /\ s.state \notin RECEIVING => s.state = "SENDING_STATUS" /\ Whole(r, s.len)
  <2>1. PICK y : y = Head(b) /\ y = r.bytes[u.len + 1] /\ s = PushChar(u, y, r.length)
                 /\ u.len + 1 \in DOMAIN r.bytes
    BY <1>8, <1>9, <1>10
  <2>2. /\ s \in Stream /\ s.len = u.len + 1 /\ s.send = u.send /\ s.idle = u.idle
        /\ Reading(r, s)
        /\ s.state \notin RECEIVING => s.state = "SENDING_STATUS" /\ Whole(r, s.len)
    BY <1>4, <1>11, <2>1, Reads
  <2> QED BY <1>9, <1>11, <2>2
<1>13. ASSUME stream'[c].len = s.len
       PROVE  Pieces(c)'
  <2>1. PICK t \in Seq({"h", "e", "b"}) : t = Tail(b) /\ Len(t) = Len(b) - 1
                                          /\ \A i \in 1..Len(t) : t[i] = b[i + 1]
    BY <1>7, HeadTailProperties
  <2>2. inbox'[c] = t /\ out'[c] = o /\ asks'[c] = r
    BY <1>1, <1>3, <1>4, <2>1 DEF TypeOK
  <2>3. stream'[c].len = m + 1
    BY <1>12, <1>13
  <2>4. Len(r.bytes) = (m + 1) + Len(t) + Len(o)
    BY <1>6, <1>7, <2>1
  <2>5. ASSUME NEW i \in 1..Len(t)
        PROVE  t[i] = r.bytes[(m + 1) + i]
    <3>1. PICK j \in 1..Len(b) : j = i + 1 /\ m + j = (m + 1) + i
      BY <1>7, <2>1
    <3>2. t[i] = b[j]
      BY <2>1, <3>1
    <3> QED BY <1>6, <3>1, <3>2
  <2>6. ASSUME NEW i \in 1..Len(o)
        PROVE  o[i] = r.bytes[(m + 1) + Len(t) + i]
    <3>1. m + Len(b) + i = (m + 1) + Len(t) + i
      BY <1>7, <2>1
    <3> QED BY <1>6, <3>1
  <2>7. /\ Len(inbox'[c]) = Len(t) /\ Len(out'[c]) = Len(o)
        /\ \A i \in 1..Len(t) : inbox'[c][i] = t[i]
        /\ \A i \in 1..Len(o) : out'[c][i] = o[i]
    BY <2>2, Zenon
  <2> QED BY <2>2, <2>3, <2>4, <2>5, <2>6, <2>7, SMTT(30) DEF Pieces
<1> QED BY <1>4, <1>5, <1>11, <1>12, <1>13

\* A step of the thread that does not leave stream c, which is now t.
LEMMA Stays ==
    ASSUME HttpInv, NEW c \in Conns, Handles(c), c \in readable, NEW t \in Stream, t.idle = 0,
           stream' = [stream EXCEPT ![c] = t], NEW l, log' = [log EXCEPT ![c] = l],
           NEW b \in Seq({"h", "e", "b"}), inbox' = [inbox EXCEPT ![c] = b],
           UNCHANGED <<streams, pos, fds, sent, backlog, asks, out, fin>>,
           \/ pc' = "streams" /\ Receiving(c)' /\ t.state \in RECEIVING
           \/ pc' = "meta" /\ Asked(c)' /\ t.state \in SENDING,
           BytesOf(c)', AnswerOf(c)'
    PROVE  HttpInv'
<1>1. TypeOK /\ ListInv /\ ConnInv /\ PollInv
  BY DEF HttpInv
<1>2. pos \in 1..Len(streams) /\ streams[pos] = c /\ pc = "streams"
  BY <1>1, Reached
<1>3. Receiving(c) /\ ~New(c) /\ InList(c) /\ LifeOf(c)
  <2>1. Receiving(c) /\ LifeOf(c)
    BY <1>2, AtPos
  <2>2. ~New(c)
    BY <2>1, LogsDiffer DEF New, Receiving
  <2> QED BY <1>2, <2>1, <2>2 DEF InList
<1>4. ASSUME NEW d \in Conns, d # c
      PROVE  Untouched(d)
  BY <1>1, <1>4 DEF Untouched, TypeOK
<1>5. /\ stream'[c] = t /\ log'[c] = l /\ inbox'[c] = b
      /\ stream' \in [Conns -> Stream]
      /\ inbox' \in [Conns -> Seq({"h", "e", "b"})]
  BY <1>1 DEF TypeOK
<1>6. TypeOK'
  <2>1. l \in Seq({"CONNECT", "REQUEST", "CLOSE"})
    <3>1. l \in {<<"CONNECT">>, <<"CONNECT", "REQUEST">>}
      BY <1>5 DEF Receiving, Asked
    <3>2. /\ <<"CONNECT">> \in Seq({"CONNECT", "REQUEST", "CLOSE"})
          /\ <<"CONNECT", "REQUEST">> \in Seq({"CONNECT", "REQUEST", "CLOSE"})
      OBVIOUS
    <3> QED BY <3>1, <3>2, Zenon
  <2>2. log' \in [Conns -> Seq({"CONNECT", "REQUEST", "CLOSE"})]
    BY <1>1, <2>1 DEF TypeOK
  <2> QED BY <1>1, <1>5, <2>2 DEF TypeOK, fds
<1>7. ConnInv'
  <2>1. ASSUME NEW d \in Conns, d # c
        PROVE  LifeOf(d)' /\ BytesOf(d)' /\ AnswerOf(d)'
    <3>1. LifeOf(d) /\ BytesOf(d) /\ AnswerOf(d)
      BY <1>1 DEF ConnInv
    <3>2. InList(d)' <=> InList(d)
      BY DEF InList
    <3>3. ~InHandler(d) /\ ~InHandler(d)'
      BY <1>2, <2>1 DEF InHandler
    <3> QED BY <1>2, <1>4, <2>1, <3>1, <3>2, <3>3, Frame
  <2>2. LifeOf(c)'
    <3>1. InList(c)'
      BY <1>3 DEF InList
    <3>2. Receiving(c)' => ~Asked(c)'
      BY LogsDiffer, Zenon DEF Receiving, Asked
    <3> QED BY <1>3, <1>5, <3>1, <3>2 DEF LifeOf
  <2> QED BY <2>1, <2>2 DEF ConnInv
<1>8. ListInv'
  <2>1. ASSUME NEW i \in 1..Len(backlog)
        PROVE  New(backlog[i])' /\ backlog[i] \in DOMAIN asks
    <3>1. New(backlog[i]) /\ backlog[i] \in DOMAIN asks /\ backlog[i] \in Conns
      BY <1>1 DEF ListInv, TypeOK
    <3>2. backlog[i] # c
      BY <1>3, <3>1
    <3> QED BY <1>4, <3>1, <3>2 DEF Untouched, New
  <2>2. pc' = "meta" => Asked(streams[pos])'
    BY <1>2, <1>3, LogsDiffer DEF Receiving, Asked
  <2> QED BY <1>1, <1>2, <1>5, <2>1, <2>2 DEF ListInv, New
<1>9. PollInv'
  <2>1. ASSUME NEW k \in 1..Len(streams), k # pos
        PROVE  streams[k] \in Conns /\ streams[k] # c /\ Untouched(streams[k])
               /\ ~InHandler(streams[k]) /\ ~InHandler(streams[k])'
    <3>1. streams[k] \in Conns /\ streams[k] # c
      <4>1. streams \in Seq(Conns) /\ Injective(streams)
        BY <1>1 DEF TypeOK, ListInv
      <4> QED BY <1>2, <2>1, <4>1 DEF Injective
    <3>2. Untouched(streams[k])
      BY <1>4, <3>1
    <3>3. ~InHandler(streams[k]) /\ ~InHandler(streams[k])'
      BY <1>2, <3>1 DEF InHandler
    <3> QED BY <3>1, <3>2, <3>3
  <2>2. ASSUME NEW i \in pos..Len(streams)
        PROVE  /\ streams[i] \in writable => Asked(streams[i])'
               /\ streams[i] \in readable /\ ~InHandler(streams[i])' =>
                     /\ Receiving(streams[i])'
                     /\ \/ inbox'[streams[i]] # <<>> \/ fin'[streams[i]] # "open"
                        \/ stream'[streams[i]].idle = 0
    <3>1. CASE i = pos
      <4>1. pc' = "meta" => InHandler(c)'
        BY <1>2 DEF InHandler
      <4> QED BY <1>1, <1>2, <1>5, <3>1, <4>1 DEF PollInv
    <3>2. CASE i # pos
      <4>1. i \in 1..Len(streams)
        BY <1>1 DEF TypeOK
      <4>2. PICK d : d = streams[i] /\ Untouched(d) /\ ~InHandler(d)
        BY <2>1, <3>2, <4>1
      <4>3. /\ d \in writable => Asked(d)
            /\ d \in readable =>
                  /\ Receiving(d)
                  /\ inbox[d] # <<>> \/ fin[d] # "open" \/ stream[d].idle = 0
        BY <1>1, <1>2, <4>2 DEF PollInv
      <4>4. Asked(streams[i])' <=> log'[d] = <<"CONNECT", "REQUEST">>
        BY <4>2 DEF Asked
      <4>5. Receiving(streams[i])' <=> log'[d] = <<"CONNECT">>
        BY <4>2 DEF Receiving
      <4>6. log'[d] = log[d] /\ inbox'[d] = inbox[d] /\ fin'[d] = fin[d] /\ stream'[d] = stream[d]
        BY <4>2 DEF Untouched
      <4> QED BY <4>2, <4>3, <4>4, <4>5, <4>6, Zenon DEF Asked, Receiving
    <3> QED BY <3>1, <3>2
  <2>3. ASSUME NEW i \in 1..(pos - 1)
        PROVE  stream'[streams[i]].idle <= Timeout
    <3>1. i \in 1..Len(streams) /\ i # pos
      BY <1>1 DEF TypeOK
    <3>2. stream[streams[i]].idle <= Timeout
      BY <1>1, <1>2 DEF PollInv
    <3> QED BY <2>1, <3>1, <3>2 DEF Untouched
  <2>4. readable' \cap writable' = {}
    BY <1>1 DEF PollInv, fds
  <2> QED BY <2>2, <2>3, <2>4 DEF PollInv, fds
<1> QED BY <1>6, <1>7, <1>8, <1>9 DEF HttpInv

\* A byte of a request, the last of which calls the handler.
LEMMA sb_stream_recvStep ==
    ASSUME HttpInv, NEW c \in Conns, sb_stream_recv(c)
    PROVE  HttpInv'
<1>1. /\ pos \in 1..Len(streams) /\ streams[pos] = c /\ pc = "streams" /\ TypeOK
      /\ Handles(c) /\ c \in readable /\ inbox[c] # <<>>
      /\ inbox' = [inbox EXCEPT ![c] = Tail(@)]
      /\ UNCHANGED <<fds, sent, backlog, asks, out, fin>>
  BY Reached DEF sb_stream_recv, HttpInv
<1>2. Receiving(c) /\ LifeOf(c) /\ BytesOf(c) /\ stream[c] \in Stream /\ c \in DOMAIN asks
  BY <1>1, AtPos
<1>3. PICK s : /\ s = Received(c)
               /\ \/ /\ s.state \in RECEIVING
                     /\ stream' = [stream EXCEPT ![c] = s]
                     /\ UNCHANGED <<poll, log>>
                  \/ /\ s.state \notin RECEIVING /\ asks[c].kind = "malformed"
                     /\ StreamDone(c, [s EXCEPT !.state = "CLOSING"], <<>>)
                  \/ /\ s.state \notin RECEIVING /\ asks[c].kind = "other"
                     /\ StreamDone(c, handler(s), <<"REQUEST">>)
                  \/ /\ s.state \notin RECEIVING /\ asks[c].kind = "server_data"
                     /\ stream' = [stream EXCEPT ![c] = Headers(s)]
                     /\ log' = [log EXCEPT ![c] = Append(@, "REQUEST")]
                     /\ pc' = "meta"
                     /\ UNCHANGED <<streams, pos>>
  BY DEF sb_stream_recv
<1>4. /\ s \in Stream /\ s.send = <<>> /\ s.idle = 0 /\ sent[c] = <<>>
      /\ Reading(asks[c], s)
      /\ s.state \notin RECEIVING => s.state = "SENDING_STATUS" /\ Whole(asks[c], s.len)
      /\ fin[c] # "reset"
      /\ stream'[c].len = s.len => Pieces(c)'
  BY <1>1, <1>3, ReceivedByte
<1>5. PICK b \in Seq({"h", "e", "b"}) : inbox' = [inbox EXCEPT ![c] = b]
  <2>1. inbox[c] \in Seq({"h", "e", "b"})
    BY <1>1 DEF TypeOK
  <2>2. Tail(inbox[c]) \in Seq({"h", "e", "b"})
    BY <1>1, <2>1
  <2> QED BY <1>1, <2>2
<1>6. PICK a \in Seq(Item) : a = <<>> /\ sent' = [sent EXCEPT ![c] = a]
  BY <1>1, <1>4 DEF TypeOK, Item
\* What becomes of BytesOf(c) depends on the new stream only.
<1>7. ASSUME NEW t \in Stream, stream'[c] = t, t.len = s.len, ~New(c)',
             Receiving(c)' => t = s,
             t.state \in RECEIVING => t = s,
             Asked(c)' \/ Answered(c)' => s.state \notin RECEIVING
      PROVE  BytesOf(c)'
  <2>1. Pieces(c)'
    BY <1>4, <1>7
  <2>2. Reading(asks[c], t)
    BY <1>4, <1>7 DEF Reading, RECEIVING
  <2>3. Asked(c)' \/ Answered(c)' => Whole(asks[c], t.len)
    BY <1>4, <1>7
  <2>4. c \in DOMAIN asks' /\ asks' = asks /\ fin' = fin /\ fin[c] # "reset"
    BY <1>1, <1>2, <1>4
  <2> QED BY <1>7, <2>1, <2>2, <2>3, <2>4 DEF BytesOf
<1>8. CASE /\ s.state \in RECEIVING
           /\ stream' = [stream EXCEPT ![c] = s]
           /\ UNCHANGED <<poll, log>>
  <2>1. stream'[c] = s /\ Receiving(c)' /\ ~New(c)' /\ ~Asked(c)' /\ ~Answered(c)'
    <3>1. stream'[c] = s /\ Receiving(c)'
      BY <1>1, <1>2, <1>8 DEF TypeOK, Receiving
    <3>2. ~New(c)' /\ ~Asked(c)' /\ ~Answered(c)'
      BY <3>1, LogsDiffer DEF New, Receiving, Asked, Answered
    <3> QED BY <3>1, <3>2
  <2>2. BytesOf(c)'
    BY <1>4, <1>7, <2>1
  <2>3. ~InHandler(c)'
    BY <1>1, <1>8 DEF InHandler, poll
  <2>4. AnswerOf(c)'
    BY <1>1, <1>4, <2>1, <2>3 DEF AnswerOf
  <2>5. PICK l : log' = [log EXCEPT ![c] = l]
    BY <1>1, <1>8 DEF TypeOK
  <2>6. UNCHANGED <<pc, streams, pos>>
    BY <1>8 DEF poll
  <2> QED BY <1>1, <1>4, <1>5, <1>8, <2>1, <2>2, <2>4, <2>5, <2>6, Stays
\* An Expired stream has been idle.
<1>9. ASSUME NEW u \in Stream, u.idle = 0
      PROVE  ~Expired(u)
  BY <1>9, HttpAssumption DEF Expired
<1>10. CASE /\ s.state \notin RECEIVING /\ asks[c].kind = "malformed"
            /\ StreamDone(c, [s EXCEPT !.state = "CLOSING"], <<>>)
  <2>1. PICK u : u = [s EXCEPT !.state = "CLOSING"] /\ StreamDone(c, u, <<>>)
    BY <1>10
  <2>2. u \in Stream /\ u.state = "CLOSING" /\ u.len = s.len
    BY <1>4, <2>1, SetState DEF KeepsInput
  <2>f. PICK t \in Stream, ends \in BOOLEAN : Finished(c, u, <<>>, t, ends)
    BY <2>1, <2>2, Finishes
  <2>3. /\ ends <=> Expired(u) \/ u.state = "CLOSING"
        /\ KeepsInput(u, t) /\ t.send = u.send
        /\ t.state = IF ends THEN "CLOSING" ELSE u.state
        /\ stream' = [stream EXCEPT ![c] = t]
        /\ streams' = IF ends THEN RemoveAt(streams, pos) ELSE streams
        /\ pos' = IF ends THEN pos ELSE pos + 1
        /\ log' = [log EXCEPT ![c] = @ \o <<>> \o IF ends THEN <<"CLOSE">> ELSE <<>>]
        /\ pc' = "streams"
    BY <2>f DEF Finished
  <2>4. PICK l : l = log[c] \o <<>> \o IF ends THEN <<"CLOSE">> ELSE <<>>
    OBVIOUS
  <2>5. /\ log' = [log EXCEPT ![c] = l]
        /\ stream'[c] = t /\ ends /\ t.state = "CLOSING" /\ t.len = s.len
        /\ log'[c] = log[c] \o <<>> \o IF ends THEN <<"CLOSE">> ELSE <<>>
    BY <1>1, <2>2, <2>3, <2>4 DEF TypeOK, KeepsInput
  <2>6. Refused(c)'
    BY <1>2, <2>5, NextLog
  <2>7. ~New(c)' /\ ~Receiving(c)' /\ ~Asked(c)' /\ ~Answered(c)'
    BY <2>6, LogsDiffer DEF New, Receiving, Asked, Refused, Answered
  <2>8. t.state \notin RECEIVING
    BY <2>5 DEF RECEIVING
  <2>9. BytesOf(c)'
    BY <1>7, <2>5, <2>7, <2>8
  <2>10. ~InHandler(c)'
    BY <2>3 DEF InHandler
  <2>11. AnswerOf(c)'
    BY <2>7, <2>10 DEF AnswerOf
  <2> QED BY <1>1, <1>5, <1>6, <2>3, <2>5, <2>6, <2>7, <2>9, <2>11, Done
<1>11. CASE /\ s.state \notin RECEIVING /\ asks[c].kind = "other"
            /\ StreamDone(c, handler(s), <<"REQUEST">>)
  <2>1. PICK u : u = handler(s) /\ StreamDone(c, u, <<"REQUEST">>)
    BY <1>11
  <2>2. u \in Stream /\ u.state = "SENDING_DATA" /\ u.send = Answer /\ u.len = s.len /\ u.idle = 0
    BY <1>4, <1>11, <2>1, HandlerFields DEF KeepsInput
  <2>f. PICK t \in Stream, ends \in BOOLEAN : Finished(c, u, <<"REQUEST">>, t, ends)
    BY <2>1, <2>2, Finishes
  <2>3. /\ ends <=> Expired(u) \/ u.state = "CLOSING"
        /\ KeepsInput(u, t) /\ t.send = u.send
        /\ t.state = IF ends THEN "CLOSING" ELSE u.state
        /\ stream' = [stream EXCEPT ![c] = t]
        /\ streams' = IF ends THEN RemoveAt(streams, pos) ELSE streams
        /\ pos' = IF ends THEN pos ELSE pos + 1
        /\ log' = [log EXCEPT ![c] = @ \o <<"REQUEST">> \o IF ends THEN <<"CLOSE">> ELSE <<>>]
        /\ pc' = "streams"
    BY <2>f DEF Finished
  <2>4. PICK l : l = log[c] \o <<"REQUEST">> \o IF ends THEN <<"CLOSE">> ELSE <<>>
    OBVIOUS
  <2>5. /\ log' = [log EXCEPT ![c] = l]
        /\ stream'[c] = t /\ ~ends /\ t.state = "SENDING_DATA" /\ t.len = s.len
        /\ t.send = Answer /\ t.idle = 0
        /\ log'[c] = log[c] \o <<"REQUEST">> \o IF ends THEN <<"CLOSE">> ELSE <<>>
    BY <1>1, <1>9, <2>2, <2>3, <2>4 DEF TypeOK, KeepsInput
  <2>6. Asked(c)'
    BY <1>2, <2>5, NextLog
  <2>7. ~New(c)' /\ ~Receiving(c)' /\ ~Answered(c)'
    BY <2>6, LogsDiffer DEF New, Receiving, Asked, Answered
  <2>8. t.state \notin RECEIVING /\ t.state \in SENDING
    BY <2>5 DEF RECEIVING, SENDING
  <2>9. BytesOf(c)'
    BY <1>7, <1>11, <2>5, <2>7, <2>8
  <2>10. ~InHandler(c)'
    BY <2>3 DEF InHandler
  <2>11. sent'[c] = <<>>
    BY <1>1, <1>4
  <2>12. AnswerOf(c)'
    BY <2>5, <2>7, <2>10, <2>11, AnswerWhole DEF AnswerOf
  <2>13. t.idle <= Timeout
    BY <2>5, HttpAssumption
  <2> QED BY <1>1, <1>5, <1>6, <2>3, <2>5, <2>6, <2>7, <2>8, <2>9, <2>12, <2>13, Done
<1>12. CASE /\ s.state \notin RECEIVING /\ asks[c].kind = "server_data"
            /\ stream' = [stream EXCEPT ![c] = Headers(s)]
            /\ log' = [log EXCEPT ![c] = Append(@, "REQUEST")]
            /\ pc' = "meta"
            /\ UNCHANGED <<streams, pos>>
  <2>1. PICK t : t = Headers(s)
    OBVIOUS
  <2>2. /\ t \in Stream /\ t.state = "SENDING_HEADER" /\ t.send = <<"status", "header">>
        /\ t.len = s.len /\ t.idle = 0
    BY <1>4, <1>12, <2>1, HeadersFields DEF KeepsInput
  <2>3. PICK l : l = Append(log[c], "REQUEST")
    OBVIOUS
  <2>4. log' = [log EXCEPT ![c] = l] /\ stream' = [stream EXCEPT ![c] = t]
    BY <1>12, <2>1, <2>3
  <2>5. log'[c] = Append(log[c], "REQUEST") /\ stream'[c] = t
    BY <1>1, <2>3, <2>4 DEF TypeOK
  <2>6. Asked(c)'
    BY <1>2, <2>5, LogSums, Zenon DEF Receiving, Asked
  <2>7. ~New(c)' /\ ~Receiving(c)' /\ ~Answered(c)'
    BY <2>6, LogsDiffer DEF New, Receiving, Asked, Answered
  <2>8. t.state \notin RECEIVING /\ t.state \in SENDING
    BY <2>2 DEF RECEIVING, SENDING
  <2>9. BytesOf(c)'
    BY <1>7, <1>12, <2>2, <2>5, <2>7, <2>8
  <2>10. InHandler(c)' /\ sent'[c] = <<>>
    BY <1>1, <1>4, <1>12 DEF InHandler
  <2>11. AnswerOf(c)'
    BY <2>2, <2>5, <2>7, <2>10 DEF AnswerOf
  <2> QED BY <1>1, <1>5, <1>12, <2>2, <2>4, <2>6, <2>8, <2>9, <2>11, Stays
<1> QED BY <1>3, <1>8, <1>10, <1>11, <1>12

\* Steps that change no stream and no connection.
LEMMA QuietStep ==
    ASSUME HttpInv, UNCHANGED <<streams, stream, log, sent, backlog, client>>,
           pc # "meta", pc # "dead", pc' # "meta", pc' # "start",
           pos' \in 1..(Len(streams) + 1), pc' \in {"select", "accept", "dead"},
           fds' = fds \/ fds' = <<{}, {}, FALSE>>,
           pc' # "dead" => \A i \in 1..Len(streams) : stream[streams[i]].idle <= Timeout
    PROVE  HttpInv'
<1>1. TypeOK /\ ListInv /\ ConnInv /\ PollInv
  BY DEF HttpInv
<1>2. readable' \subseteq Conns /\ writable' \subseteq Conns /\ incoming' \in BOOLEAN
      /\ readable' \cap writable' = {}
  <2>1. CASE fds' = fds
    BY <1>1, <2>1 DEF fds, TypeOK, PollInv
  <2>2. CASE fds' = <<{}, {}, FALSE>>
    BY <2>2 DEF fds
  <2> QED BY <2>1, <2>2
<1>3. TypeOK'
  BY <1>1, <1>2 DEF TypeOK, client
<1>4. ASSUME NEW d \in Conns
      PROVE  LifeOf(d)' /\ BytesOf(d)' /\ AnswerOf(d)'
  <2>1. LifeOf(d) /\ BytesOf(d) /\ AnswerOf(d)
    BY <1>1 DEF ConnInv
  <2>2. Untouched(d)
    BY DEF Untouched, client
  <2>3. ~InHandler(d) /\ ~InHandler(d)'
    BY DEF InHandler
  <2>4. InList(d)' <=> InList(d)
    BY DEF InList
  <2> QED BY <2>1, <2>2, <2>3, <2>4, Frame
<1>5. ListInv'
  BY <1>1 DEF ListInv, New, Asked, client
<1>6. PollInv'
  BY <1>2 DEF PollInv
<1> QED BY <1>3, <1>4, <1>5, <1>6 DEF HttpInv, ConnInv

\* The steps between the phases of a poll.
LEMMA QuietSteps ==
    ASSUME HttpInv, http_start \/ StreamsDone \/ AcceptDone
    PROVE  HttpInv'
<1>1. TypeOK /\ ListInv /\ PollInv
  BY DEF HttpInv
<1>2. streams \in Seq(Conns) /\ Len(streams) \in Nat /\ pos \in 1..(Len(streams) + 1)
      /\ 1 \in 1..(Len(streams) + 1)
  BY <1>1 DEF TypeOK
<1>3. CASE http_start
  <2>1. \A i \in 1..Len(streams) : stream[streams[i]].idle <= Timeout
    BY <1>1, <1>3 DEF http_start, ListInv
  <2> QED BY <1>2, <1>3, <2>1, QuietStep DEF http_start
<1>4. CASE StreamsDone
  <2>1. \A i \in 1..Len(streams) : i \in 1..(pos - 1)
    BY <1>2, <1>4 DEF StreamsDone
  <2>2. \A i \in 1..Len(streams) : stream[streams[i]].idle <= Timeout
    BY <1>1, <1>4, <2>1 DEF StreamsDone, PollInv
  <2> QED BY <1>2, <1>4, <2>2, QuietStep DEF StreamsDone, PollDone, fds
<1>5. CASE AcceptDone
  <2>1. \A i \in 1..Len(streams) : stream[streams[i]].idle <= Timeout
    BY <1>1, <1>5 DEF AcceptDone, PollInv
  <2> QED BY <1>2, <1>5, <2>1, QuietStep DEF AcceptDone, PollDone, fds
<1> QED BY <1>3, <1>4, <1>5

\* An exception in getMeta ends the thread.
LEMMA getMeta_ThrowsStep ==
    ASSUME HttpInv, getMeta_Throws
    PROVE  HttpInv'
<1>1. TypeOK /\ ListInv /\ ConnInv /\ PollInv
  BY DEF HttpInv
<1>2. pc = "meta" /\ pc' = "dead" /\ UNCHANGED <<streams, pos, fds, stream, log, sent, backlog, client>>
  BY DEF getMeta_Throws
<1>3. TypeOK'
  BY <1>1, <1>2 DEF TypeOK, fds, client
<1>4. ASSUME NEW d \in Conns
      PROVE  LifeOf(d)' /\ BytesOf(d)' /\ AnswerOf(d)'
  <2>1. LifeOf(d) /\ BytesOf(d) /\ AnswerOf(d)
    BY <1>1 DEF ConnInv
  <2>2. LifeOf(d)'
    BY <1>2, <2>1 DEF LifeOf, New, Receiving, Asked, Refused, Answered, InList, client
  <2>3. BytesOf(d)'
    BY <1>2, <2>1 DEF BytesOf, New, Receiving, Asked, Answered, Pieces, client
  <2>4. ~InHandler(d)'
    BY <1>2 DEF InHandler
  <2>5. AnswerOf(d)'
    BY <1>2, <2>1, <2>4 DEF AnswerOf, New, Receiving, Asked, Answered, client
  <2> QED BY <2>2, <2>3, <2>5
<1>5. ListInv'
  BY <1>1, <1>2 DEF ListInv, New, Asked, client
<1>6. PollInv'
  BY <1>1, <1>2 DEF PollInv, fds
<1> QED BY <1>3, <1>4, <1>5, <1>6 DEF HttpInv, ConnInv

\* A step of the client of c that neither makes nor accepts the connection.
LEMMA ClientStep ==
    ASSUME HttpInv, NEW c \in Conns, UNCHANGED <<poll, fds, stream, log, sent, backlog, asks>>,
           NEW b \in Seq({"h", "e", "b"}), inbox' = [inbox EXCEPT ![c] = b],
           NEW o \in Seq({"h", "e", "b"}), out' = [out EXCEPT ![c] = o],
           NEW f \in {"open", "fin", "reset"}, fin' = [fin EXCEPT ![c] = f],
           inbox[c] # <<>> \/ fin[c] # "open" => b # <<>> \/ f # "open",
           fin[c] = "reset" => f = "reset",
           BytesOf(c)'
    PROVE  HttpInv'
<1>1. TypeOK /\ ListInv /\ ConnInv /\ PollInv
  BY DEF HttpInv
<1>2. ASSUME NEW d \in Conns, d # c
      PROVE  Untouched(d)
  BY <1>1, <1>2 DEF Untouched, TypeOK
<1>3. inbox'[c] = b /\ out'[c] = o /\ fin'[c] = f
  BY <1>1 DEF TypeOK
<1>4. TypeOK'
  BY <1>1 DEF TypeOK, poll, fds
<1>5. \A d : InHandler(d)' <=> InHandler(d)
  BY DEF InHandler, poll
<1>6. \A d : InList(d)' <=> InList(d)
  BY DEF InList, poll
<1>7. ASSUME NEW d \in Conns
      PROVE  LifeOf(d)' /\ BytesOf(d)' /\ AnswerOf(d)'
  <2>1. LifeOf(d) /\ BytesOf(d) /\ AnswerOf(d)
    BY <1>1 DEF ConnInv
  <2>2. CASE d # c
    BY <1>2, <1>5, <1>6, <2>1, <2>2, Frame DEF poll
  <2>3. CASE d = c
    <3>1. LifeOf(c)'
      BY <1>6, <2>1, <2>3 DEF LifeOf, New, Receiving, Asked, Refused, Answered
    <3>2. AnswerOf(c)'
      BY <1>3, <1>5, <2>1, <2>3 DEF AnswerOf, New, Receiving, Asked, Answered, poll
    <3> QED BY <2>3, <3>1, <3>2
  <2> QED BY <2>2, <2>3
<1>8. ListInv'
  BY <1>1 DEF ListInv, New, Asked, poll
<1>9. PollInv'
  <2>1. ASSUME pc \in {"streams", "meta"}, NEW i \in pos..Len(streams)
        PROVE  /\ streams[i] \in writable => Asked(streams[i])'
               /\ streams[i] \in readable /\ ~InHandler(streams[i]) =>
                     /\ Receiving(streams[i])'
                     /\ \/ inbox'[streams[i]] # <<>> \/ fin'[streams[i]] # "open"
                        \/ stream'[streams[i]].idle = 0
    <3>1. streams[i] \in Conns
      <4>1. i \in 1..Len(streams) /\ streams \in Seq(Conns)
        BY <1>1 DEF TypeOK
      <4> QED BY <4>1
    <3>2. PICK d \in Conns : d = streams[i] /\ d = streams'[i]
      BY <3>1 DEF poll
    <3>3. /\ d \in writable => Asked(d)
          /\ d \in readable /\ ~InHandler(d) =>
                /\ Receiving(d)
                /\ inbox[d] # <<>> \/ fin[d] # "open" \/ stream[d].idle = 0
      BY <1>1, <2>1, <3>2 DEF PollInv
    <3>4. log' = log /\ stream' = stream
      OBVIOUS
    <3>5. inbox[d] # <<>> \/ fin[d] # "open" => inbox'[d] # <<>> \/ fin'[d] # "open"
      BY <1>2, <1>3 DEF Untouched
    <3> QED BY <3>2, <3>3, <3>4, <3>5 DEF Asked, Receiving
  <2>2. UNCHANGED <<pc, streams, pos, readable, writable, incoming, stream, log>>
    BY DEF poll, fds
  <2> QED BY <1>1, <1>5, <2>1, <2>2 DEF PollInv
<1> QED BY <1>4, <1>7, <1>8, <1>9 DEF HttpInv, ConnInv

\* What a client does with its connection ...
LEMMA ClientSteps ==
    ASSUME HttpInv, NEW c \in Conns, Send(c) \/ Shutdown(c) \/ Reset(c)
    PROVE  HttpInv'
<1>1. TypeOK /\ LifeOf(c) /\ BytesOf(c)
  BY DEF HttpInv, ConnInv
<1>2. c \in DOMAIN asks /\ c \in DOMAIN asks' /\ UNCHANGED <<poll, fds, stream, log, sent, backlog, asks>>
  BY DEF Send, Shutdown, Reset, Active
<1>3. PICK b \in Seq({"h", "e", "b"}), o \in Seq({"h", "e", "b"}) : b = inbox[c] /\ o = out[c]
  BY <1>1 DEF TypeOK
<1>4. PICK r : r = asks[c] /\ r.bytes \in Seq({"h", "e", "b"})
  BY <1>1, <1>2, HttpAssumption DEF TypeOK, IsRequest
<1>5. /\ New(c)' <=> New(c)
      /\ Receiving(c)' <=> Receiving(c)
      /\ Asked(c)' <=> Asked(c)
      /\ Answered(c)' <=> Answered(c)
  BY <1>2 DEF New, Receiving, Asked, Answered
<1>6. CASE Send(c)
  <2>1. fin[c] = "open" /\ o # <<>>
    BY <1>3, <1>6 DEF Send
  <2>2. PICK d, p : d = Append(b, Head(o)) /\ p = Tail(o)
    OBVIOUS
  <2>3. /\ d \in Seq({"h", "e", "b"}) /\ p \in Seq({"h", "e", "b"})
        /\ Len(d) = Len(b) + 1 /\ Len(p) = Len(o) - 1
        /\ \A i \in 1..Len(b) : d[i] = b[i]
        /\ d[Len(b) + 1] = o[1]
        /\ \A i \in 1..Len(p) : p[i] = o[i + 1]
    <3>1. p \in Seq({"h", "e", "b"}) /\ Len(p) = Len(o) - 1 /\ \A i \in 1..Len(p) : p[i] = o[i + 1]
      BY <2>1, <2>2, HeadTailProperties
    <3>2. PICK e \in {"h", "e", "b"} : e = Head(o) /\ e = o[1]
      BY <2>1
    <3>3. d = Append(b, e)
      BY <2>2, <3>2
    <3>4. /\ d \in Seq({"h", "e", "b"}) /\ Len(d) = Len(b) + 1
          /\ \A i \in 1..Len(b) : d[i] = b[i]
          /\ d[Len(b) + 1] = e
      BY <3>3, AppendProperties
    <3> QED BY <3>1, <3>2, <3>4
  <2>4. /\ inbox' = [inbox EXCEPT ![c] = d] /\ out' = [out EXCEPT ![c] = p]
        /\ fin' = [fin EXCEPT ![c] = "open"]
    BY <1>1, <1>3, <1>6, <2>1, <2>2 DEF Send, TypeOK
  <2>5. inbox'[c] = d /\ out'[c] = p /\ fin'[c] = "open"
    BY <1>1, <2>4 DEF TypeOK
  <2>6. Pieces(c) => Pieces(c)'
    <3> SUFFICES ASSUME Pieces(c)
                 PROVE  Pieces(c)'
      OBVIOUS
    <3>1. PICK n \in Nat : n = stream[c].len
      BY <1>1 DEF TypeOK, Stream
    <3>2. /\ Len(r.bytes) = n + Len(b) + Len(o)
          /\ \A i \in 1..Len(b) : b[i] = r.bytes[n + i]
          /\ \A i \in 1..Len(o) : o[i] = r.bytes[n + Len(b) + i]
      BY <1>3, <1>4, <3>1 DEF Pieces
    <3>3. Len(b) \in Nat /\ Len(o) \in Nat /\ Len(o) >= 1 /\ Len(d) = Len(b) + 1 /\ Len(p) = Len(o) - 1
      BY <2>1, <2>3
    <3>4. Len(r.bytes) = n + Len(d) + Len(p)
      <4>1. n + Len(b) + Len(o) = n + (Len(b) + 1) + (Len(o) - 1)
        BY <3>3
      <4> QED BY <3>2, <3>3, <4>1, Zenon
    <3>5. ASSUME NEW i \in 1..Len(d)
          PROVE  d[i] = r.bytes[n + i]
      <4>1. CASE i = Len(b) + 1
        <5>1. 1 \in 1..Len(o) /\ n + Len(b) + 1 = n + (Len(b) + 1)
          BY <3>3
        <5>2. o[1] = r.bytes[n + (Len(b) + 1)]
          BY <3>2, <5>1
        <5> QED BY <2>3, <4>1, <5>2
      <4>2. CASE i # Len(b) + 1
        <5>1. i \in 1..Len(b)
          BY <2>3, <3>3, <4>2
        <5> QED BY <2>3, <3>2, <5>1
      <4> QED BY <4>1, <4>2
    <3>6. ASSUME NEW i \in 1..Len(p)
          PROVE  p[i] = r.bytes[n + Len(d) + i]
      <4>1. PICK j \in 1..Len(o) : j = i + 1 /\ n + Len(b) + j = n + Len(d) + i
        <5>1. i \in 1..(Len(o) - 1)
          BY <3>3
        <5>2. i + 1 \in 1..Len(o) /\ n + Len(b) + (i + 1) = n + (Len(b) + 1) + i
          BY <3>3, <5>1
        <5> QED BY <3>3, <5>2
      <4>2. p[i] = o[j]
        BY <2>3, <4>1
      <4> QED BY <3>2, <4>1, <4>2
    <3>7. asks'[c] = r /\ stream'[c].len = n
      BY <1>2, <1>4, <3>1
    <3> QED BY <2>5, <3>4, <3>5, <3>6, <3>7 DEF Pieces
  <2>7. BytesOf(c)'
    BY <1>1, <1>2, <1>5, <2>1, <2>5, <2>6 DEF BytesOf
  <2>8. inbox[c] # <<>> \/ fin[c] # "open" => d # <<>>
    <3>1. Len(d) # 0
      BY <2>3
    <3> QED BY <3>1
  <2> QED BY <1>2, <2>1, <2>3, <2>4, <2>7, <2>8, ClientStep
<1>7. CASE Shutdown(c)
  <2>1. /\ inbox' = [inbox EXCEPT ![c] = b] /\ out' = [out EXCEPT ![c] = o]
        /\ fin' = [fin EXCEPT ![c] = "fin"] /\ fin[c] = "open" /\ fin'[c] = "fin"
        /\ inbox' = inbox /\ out' = out
    BY <1>1, <1>3, <1>7 DEF Shutdown, TypeOK
  <2>2. Pieces(c)' <=> Pieces(c)
    BY <1>2, <2>1 DEF Pieces
  <2>3. BytesOf(c)'
    BY <1>1, <1>2, <1>5, <2>1, <2>2 DEF BytesOf
  <2> QED BY <1>2, <2>1, <2>3, ClientStep
<1>8. CASE Reset(c)
  <2>1. PICK d \in Seq({"h", "e", "b"}) : d = <<>>
    <3>1. <<>> \in Seq({"h", "e", "b"})
      OBVIOUS
    <3> QED BY <3>1
  <2>2. /\ inbox' = [inbox EXCEPT ![c] = d] /\ out' = [out EXCEPT ![c] = o]
        /\ fin' = [fin EXCEPT ![c] = "reset"] /\ fin'[c] = "reset" /\ inbox'[c] = <<>>
    BY <1>1, <1>3, <1>8, <2>1 DEF Reset, TypeOK
  <2>3. BytesOf(c)'
    BY <1>1, <1>2, <1>5, <2>2 DEF BytesOf
  <2> QED BY <1>2, <2>2, <2>3, ClientStep
<1> QED BY <1>6, <1>7, <1>8

\* ... after it has connected.
LEMMA ConnectStep ==
    ASSUME HttpInv, NEW c \in Conns, Connect(c)
    PROVE  HttpInv'
<1>1. TypeOK /\ ListInv /\ ConnInv /\ PollInv /\ LifeOf(c) /\ BytesOf(c) /\ AnswerOf(c)
  BY DEF HttpInv, ConnInv
<1>2. /\ c \notin DOMAIN asks
      /\ backlog' = Append(backlog, c)
      /\ UNCHANGED <<poll, fds, stream, log, sent, inbox, fin>>
  BY DEF Connect
<1>3. PICK r \in Requests :
         /\ asks' = [d \in DOMAIN asks \cup {c} |-> IF d = c THEN r ELSE asks[d]]
         /\ out' = [out EXCEPT ![c] = r.bytes]
  BY DEF Connect
<1>4. r.bytes \in Seq({"h", "e", "b"})
  BY HttpAssumption DEF IsRequest
<1>5. DOMAIN asks' = DOMAIN asks \cup {c} /\ asks'[c] = r /\ \A d \in DOMAIN asks : asks'[d] = asks[d]
  BY <1>2, <1>3
<1>6. ASSUME NEW d \in Conns, d # c
      PROVE  Untouched(d)
  BY <1>1, <1>2, <1>3, <1>5, <1>6 DEF Untouched, TypeOK
<1>7. \A d : /\ InHandler(d)' <=> InHandler(d)
             /\ InList(d)' <=> InList(d)
  BY <1>2 DEF InHandler, InList, poll
<1>8. New(c) /\ inbox[c] = <<>> /\ stream[c] = NewStream
  BY <1>1, <1>2 DEF LifeOf, BytesOf
<1>9. TypeOK'
  <2>1. backlog' \in Seq(Conns)
    BY <1>1, <1>2 DEF TypeOK
  <2>2. out' \in [Conns -> Seq({"h", "e", "b"})]
    BY <1>1, <1>3, <1>4 DEF TypeOK
  <2>3. (\A d \in DOMAIN asks' : asks'[d] \in Requests) /\ DOMAIN asks' \subseteq Conns
    BY <1>1, <1>5 DEF TypeOK
  <2> QED BY <1>1, <1>2, <2>1, <2>2, <2>3 DEF TypeOK, poll, fds
<1>10. ASSUME NEW d \in Conns
      PROVE  LifeOf(d)' /\ BytesOf(d)' /\ AnswerOf(d)'
  <2>1. LifeOf(d) /\ BytesOf(d) /\ AnswerOf(d)
    BY <1>1 DEF ConnInv
  <2>2. CASE d # c
    BY <1>2, <1>6, <1>7, <2>1, <2>2, Frame DEF poll
  <2>3. CASE d = c
    <3>1. LifeOf(c)'
      BY <1>1, <1>2, <1>5, <1>7 DEF LifeOf, New, Receiving, Asked, Refused, Answered
    <3>2. AnswerOf(c)'
      BY <1>1, <1>2, <1>7 DEF AnswerOf, New, Receiving, Asked, Answered, poll
    <3>3. Pieces(c)'
      <4>1. inbox'[c] = <<>> /\ out'[c] = r.bytes /\ asks'[c] = r /\ stream'[c].len = 0
        BY <1>1, <1>2, <1>3, <1>5, <1>8 DEF TypeOK, NewStream
      <4>2. Len(<<>>) = 0 /\ Len(r.bytes) \in Nat
        BY <1>4
      <4> QED BY <4>1, <4>2 DEF Pieces
    <3>4. Reading(r, NewStream)
      BY <1>4 DEF Reading, NewStream
    <3>5. ~Receiving(c) /\ ~Asked(c) /\ ~Answered(c)
      BY <1>8, LogsDiffer DEF New, Receiving, Asked, Answered
    <3>6. BytesOf(c)'
      BY <1>2, <1>5, <1>8, <3>3, <3>4, <3>5 DEF BytesOf, New, Receiving, Asked, Answered
    <3> QED BY <2>3, <3>1, <3>2, <3>6
  <2> QED BY <2>2, <2>3
<1>11. ListInv'
  <2>1. PICK q \in Seq(Conns) : q = backlog
    BY <1>1 DEF TypeOK
  <2>2. PICK p : p = Append(q, c) /\ p = backlog'
    BY <1>2, <2>1
  <2>3. Len(p) = Len(q) + 1 /\ Len(q) \in Nat /\ p[Len(q) + 1] = c /\ \A i \in 1..Len(q) : p[i] = q[i]
    <3>1. /\ Len(Append(q, c)) = Len(q) + 1 /\ Append(q, c)[Len(q) + 1] = c
          /\ \A i \in 1..Len(q) : Append(q, c)[i] = q[i]
      <4>1. PICK e \in Conns : e = c
        OBVIOUS
      <4>2. /\ Len(Append(q, e)) = Len(q) + 1 /\ Append(q, e)[Len(q) + 1] = e
            /\ \A i \in 1..Len(q) : Append(q, e)[i] = q[i]
        OBVIOUS
      <4> QED BY <4>1, <4>2
    <3>2. Len(q) \in Nat
      OBVIOUS
    <3> QED BY <2>2, <3>1, <3>2, Zenon
  <2>4. \A i \in 1..Len(q) : New(q[i]) /\ q[i] \in DOMAIN asks
    BY <1>1, <2>1 DEF ListInv
  <2>5. \A i \in 1..Len(p) : i \in 1..Len(q) \/ i = Len(q) + 1
    BY <2>3
  <2>6. Injective(p)
    <3>1. Injective(q)
      BY <1>1, <2>1 DEF ListInv
    <3>2. \A i \in 1..Len(q) : q[i] # c
      BY <1>2, <2>4
    <3> QED BY <2>3, <2>5, <3>1, <3>2 DEF Injective
  <2>7. ASSUME NEW i \in 1..Len(p)
        PROVE  New(p[i]) /\ p[i] \in DOMAIN asks'
    BY <1>5, <1>8, <2>3, <2>4, <2>5
  <2>8. \A i \in 1..Len(backlog') : New(backlog[i])' /\ backlog'[i] \in DOMAIN asks'
    BY <1>2, <2>2, <2>7 DEF New
  <2> QED BY <1>1, <1>2, <2>2, <2>6, <2>8 DEF ListInv, poll, Asked
<1>12. PollInv'
  BY <1>1, <1>2, <1>7 DEF PollInv, poll, fds, Asked, Receiving
<1> QED BY <1>9, <1>10, <1>11, <1>12 DEF HttpInv, ConnInv

\* The streams of an fd_set are in the list and in the states asked for.
LEMMA FdSetStates ==
    ASSUME TypeOK, NEW states, NEW room, NEW d \in FdSet(states, room)
    PROVE  InList(d) /\ d \in Conns /\ stream[d].state \in states
<1>1. PICK i \in DOMAIN streams : streams[i] = d /\ i \in {j \in 1..i : stream[streams[j]].state \in states}
  BY DEF FdSet
<1>2. streams \in Seq(Conns)
  BY DEF TypeOK
<1>3. i \in 1..Len(streams)
  BY <1>1, <1>2
<1> QED BY <1>1, <1>2, <1>3 DEF InList

\* select fixes what is readable and writable.
LEMMA SelectStep ==
    ASSUME HttpInv, NEW elapsed \in 0..(Timeout + 1), Select(elapsed)
    PROVE  HttpInv'
<1>1. TypeOK /\ ListInv /\ ConnInv /\ PollInv
  BY DEF HttpInv
<1>2. /\ pc = "select" /\ pc' = "streams" /\ pos' = 1
      /\ UNCHANGED <<streams, log, sent, backlog, asks, out, inbox, fin>>
      /\ readable' = {c \in FdSet(RECEIVING, FD_SETSIZE - 1) : inbox[c] # <<>> \/ fin[c] # "open"}
      /\ writable' \subseteq FdSet(SENDING, FD_SETSIZE)
      /\ incoming' \in BOOLEAN
  BY DEF Select, client
<1>3. \A d : d \in ToSet(streams) <=> InList(d)
  <2>1. streams \in Seq(Conns)
    BY <1>1 DEF TypeOK
  <2> QED BY <2>1 DEF ToSet, InList
<1>4. ASSUME NEW d \in Conns
      PROVE  /\ stream'[d] \in Stream /\ stream'[d].len = stream[d].len
             /\ stream'[d].expected = stream[d].expected /\ stream'[d].send = stream[d].send
             /\ stream'[d].state = stream[d].state
             /\ ~InList(d) => stream'[d] = stream[d]
  <2>1. CASE InList(d)
    <3>0. PICK u \in Stream : u = stream[d]
      BY <1>1 DEF TypeOK
    <3>1. PICK e : e = IF u.idle + elapsed > Timeout THEN Timeout + 1 ELSE u.idle + elapsed
      OBVIOUS
    <3>2. e \in 0..(Timeout + 1)
      BY <3>1, HttpAssumption DEF Stream
    <3>3. stream'[d] = [u EXCEPT !.idle = e]
      BY <1>3, <2>1, <3>0, <3>1 DEF Select
    <3> QED BY <2>1, <3>0, <3>2, <3>3 DEF Stream
  <2>2. CASE ~InList(d)
    <3>1. stream'[d] = stream[d] /\ stream[d] \in Stream
      BY <1>1, <1>3, <2>2 DEF Select, TypeOK
    <3> QED BY <3>1
  <2> QED BY <2>1, <2>2
<1>5. stream' \in [Conns -> Stream]
  <2>1. stream' = [d \in Conns |-> stream'[d]]
    BY DEF Select
  <2> QED BY <1>4, <2>1
<1>6. ASSUME NEW d \in readable'
      PROVE  InList(d) /\ d \in Conns /\ stream[d].state \in RECEIVING /\ (inbox[d] # <<>> \/ fin[d] # "open")
  BY <1>1, <1>2, FdSetStates
<1>7. ASSUME NEW d \in writable'
      PROVE  InList(d) /\ d \in Conns /\ stream[d].state \in SENDING
  BY <1>1, <1>2, FdSetStates
<1>8. TypeOK'
  <2>1. pos' \in 1..(Len(streams') + 1)
    <3>1. Len(streams) \in Nat
      BY <1>1 DEF TypeOK
    <3> QED BY <1>2, <3>1
  <2>2. readable' \subseteq Conns /\ writable' \subseteq Conns
    BY <1>6, <1>7
  <2> QED BY <1>1, <1>2, <1>5, <2>1, <2>2 DEF TypeOK
<1>9. ASSUME NEW d \in Conns
      PROVE  LifeOf(d)' /\ BytesOf(d)' /\ AnswerOf(d)'
  <2>1. LifeOf(d) /\ BytesOf(d) /\ AnswerOf(d)
    BY <1>1 DEF ConnInv
  <2>2. ~InHandler(d) /\ ~InHandler(d)' /\ (InList(d)' <=> InList(d))
    BY <1>2 DEF InHandler, InList
  <2>3. CASE ~InList(d)
    <3>1. Untouched(d)
      BY <1>2, <1>4, <2>3 DEF Untouched
    <3> QED BY <1>2, <2>1, <2>2, <3>1, Frame
  <2>4. CASE InList(d)
    <3>1. Receiving(d) \/ Asked(d)
      BY <2>1, <2>4 DEF LifeOf
    <3>2. ~New(d) /\ ~Refused(d) /\ ~Answered(d)
      BY <3>1, LogsDiffer DEF New, Receiving, Asked, Refused, Answered
    <3>3. /\ New(d)' <=> New(d)
          /\ Receiving(d)' <=> Receiving(d)
          /\ Asked(d)' <=> Asked(d)
          /\ Refused(d)' <=> Refused(d)
          /\ Answered(d)' <=> Answered(d)
      BY <1>2 DEF New, Receiving, Asked, Refused, Answered
    <3>4. LifeOf(d)'
      BY <1>2, <1>4, <2>1, <2>2, <3>3 DEF LifeOf
    <3>5. BytesOf(d)'
      BY <1>2, <1>4, <2>1, <3>2, <3>3, BytesKept
    <3>6. AnswerOf(d)'
      BY <1>2, <1>4, <2>1, <2>2, <3>2, <3>3 DEF AnswerOf
    <3> QED BY <3>4, <3>5, <3>6
  <2> QED BY <2>3, <2>4
<1>10. ListInv'
  BY <1>1, <1>2 DEF ListInv, New
<1>11. PollInv'
  <2>1. readable' \cap writable' = {}
    BY <1>6, <1>7 DEF RECEIVING, SENDING
  <2>2. ASSUME NEW d, d \in readable' \/ d \in writable'
        PROVE  /\ d \in readable' => Receiving(d)
               /\ d \in writable' => Asked(d)
    <3>1. InList(d) /\ d \in Conns
      BY <1>6, <1>7, <2>2
    <3>2. LifeOf(d)
      BY <1>1, <3>1 DEF ConnInv
    <3> QED BY <1>6, <1>7, <3>1, <3>2 DEF LifeOf, RECEIVING, SENDING
  <2>3. ASSUME NEW i \in pos'..Len(streams')
        PROVE  /\ streams'[i] \in writable' => Asked(streams[i])'
               /\ streams'[i] \in readable' =>
                     /\ Receiving(streams[i])'
                     /\ inbox'[streams'[i]] # <<>> \/ fin'[streams'[i]] # "open"
    <3>1. PICK d : d = streams[i] /\ d = streams'[i]
      BY <1>2
    <3>2. /\ Asked(streams[i])' <=> log'[d] = <<"CONNECT", "REQUEST">>
          /\ Receiving(streams[i])' <=> log'[d] = <<"CONNECT">>
      BY <3>1 DEF Asked, Receiving
    <3> QED BY <1>2, <1>6, <2>2, <3>1, <3>2 DEF Asked, Receiving
  <2>4. 1..(pos' - 1) = {}
    BY <1>2
  <2> QED BY <1>2, <2>1, <2>3, <2>4 DEF PollInv
<1> QED BY <1>8, <1>9, <1>10, <1>11 DEF HttpInv, ConnInv

\* A new stream comes to the head of the list.
LEMMA AcceptStep ==
    ASSUME HttpInv, Accept
    PROVE  HttpInv'
<1>1. TypeOK /\ ListInv /\ ConnInv /\ PollInv
  BY DEF HttpInv
<1>2. PICK q \in Seq(Conns), h \in Seq(Conns) : q = streams /\ h = backlog /\ h # <<>>
  BY <1>1 DEF TypeOK, Accept
<1>3. PICK c \in Conns : c = Head(h) /\ c = h[1]
  BY <1>2
<1>4. 1 \in 1..Len(h) /\ Len(h) \in Nat /\ Len(q) \in Nat
  BY <1>2
<1>5. New(c) /\ c \in DOMAIN asks
  BY <1>1, <1>2, <1>3, <1>4 DEF ListInv
<1>6. /\ pc = "accept" /\ streams' = <<c>> \o q
      /\ stream' = [stream EXCEPT ![c] = NewStream]
      /\ log' = [log EXCEPT ![c] = Append(@, "CONNECT")]
      /\ backlog' = Tail(h)
      /\ UNCHANGED <<pc, pos, fds, sent, asks, out, inbox, fin>>
  BY <1>2, <1>3 DEF Accept, client
<1>7. LifeOf(c) /\ BytesOf(c) /\ AnswerOf(c)
  BY <1>1 DEF ConnInv
<1>8. stream' = stream /\ stream[c] = NewStream
  BY <1>1, <1>5, <1>6, <1>7 DEF BytesOf, TypeOK
<1>9. log'[c] = <<"CONNECT">> /\ log' = [log EXCEPT ![c] = <<"CONNECT">>]
  <2>1. Append(log[c], "CONNECT") = <<"CONNECT">>
    BY <1>5, LogSums, Zenon DEF New
  <2> QED BY <1>1, <1>6, <2>1 DEF TypeOK
<1>10. ASSUME NEW d \in Conns, d # c
       PROVE  Untouched(d)
  BY <1>1, <1>6, <1>8, <1>9, <1>10 DEF Untouched, TypeOK
<1>11. PICK r \in Seq(Conns) :
          /\ r = streams' /\ Len(r) = Len(q) + 1
          /\ r[1] = c /\ \A i \in 2..Len(r) : r[i] = q[i - 1]
  <2>1. PICK s \in Seq(Conns) : s = <<c>> /\ Len(s) = 1 /\ s[1] = c
    <3>1. <<c>> \in Seq(Conns) /\ Len(<<c>>) = 1 /\ <<c>>[1] = c
      OBVIOUS
    <3> QED BY <3>1, Zenon
  <2>2. PICK r : r = s \o q
    OBVIOUS
  <2>3. r \in Seq(Conns) /\ Len(r) = 1 + Len(q)
        /\ \A i \in 1..1 + Len(q) : r[i] = IF i <= 1 THEN s[i] ELSE q[i - 1]
    BY <2>1, <2>2, ConcatProperties
  <2>4. r = streams'
    BY <1>6, <2>1, <2>2
  <2> QED BY <1>4, <2>1, <2>3, <2>4
<1>12. ~InList(c)
  BY <1>5, <1>7, LogsDiffer DEF LifeOf, New, Receiving, Asked
<1>13. Injective(r) /\ \A d : InList(d)' <=> InList(d) \/ d = c
  <2>1. Injective(q) /\ \A d : InList(d) <=> \E i \in 1..Len(q) : q[i] = d
    BY <1>1, <1>2 DEF ListInv, InList
  <2>2. ASSUME NEW i \in 1..Len(r), i # 1
        PROVE  \E k \in 1..Len(q) : k = i - 1 /\ r[i] = q[k]
    BY <1>4, <1>11, <2>2
  <2>3. ASSUME NEW i \in 1..Len(r), NEW j \in 1..Len(r), r[i] = r[j]
        PROVE  i = j
    <3>1. CASE i = 1 /\ j = 1
      BY <3>1
    <3>2. CASE i = 1 /\ j # 1
      BY <1>11, <1>12, <2>1, <2>2, <2>3, <3>2
    <3>3. CASE i # 1 /\ j = 1
      BY <1>11, <1>12, <2>1, <2>2, <2>3, <3>3
    <3>4. CASE i # 1 /\ j # 1
      <4>1. PICK k \in 1..Len(q) : k = i - 1 /\ r[i] = q[k]
        BY <2>2, <3>4
      <4>2. PICK l \in 1..Len(q) : l = j - 1 /\ r[j] = q[l]
        BY <2>2, <3>4
      <4>3. k = l
        BY <2>1, <2>3, <4>1, <4>2 DEF Injective
      <4> QED BY <1>11, <4>1, <4>2, <4>3
    <3> QED BY <3>1, <3>2, <3>3, <3>4
  <2>4. ASSUME NEW d
        PROVE  (\E i \in 1..Len(r) : r[i] = d) <=> (\E i \in 1..Len(q) : q[i] = d) \/ d = c
    <3>1. ASSUME NEW k \in 1..Len(q)
          PROVE  \E i \in 1..Len(r) : r[i] = q[k]
      <4>1. k + 1 \in 2..Len(r) /\ k + 1 \in 1..Len(r) /\ (k + 1) - 1 = k
        BY <1>4, <1>11
      <4>2. r[k + 1] = q[(k + 1) - 1]
        BY <1>11, <4>1
      <4> QED BY <4>1, <4>2
    <3>2. 1 \in 1..Len(r)
      BY <1>4, <1>11
    <3> QED BY <1>11, <2>2, <3>1, <3>2
  <2>5. \A d : InList(d)' <=> \E i \in 1..Len(r) : r[i] = d
    BY <1>11 DEF InList
  <2> QED BY <2>1, <2>3, <2>4, <2>5 DEF Injective
<1>14. PICK t \in Seq(Conns) : t = backlog' /\ Len(t) = Len(h) - 1 /\ \A i \in 1..Len(t) : t[i] = h[i + 1]
  BY <1>2, <1>6, HeadTailProperties
<1>15. TypeOK'
  <2>1. <<"CONNECT">> \in Seq({"CONNECT", "REQUEST", "CLOSE"})
    OBVIOUS
  <2>2. log' \in [Conns -> Seq({"CONNECT", "REQUEST", "CLOSE"})]
    BY <1>1, <1>9, <2>1 DEF TypeOK
  <2>3. pos' \in 1..(Len(streams') + 1)
    BY <1>1, <1>2, <1>4, <1>6, <1>11 DEF TypeOK
  <2> QED BY <1>1, <1>6, <1>8, <1>11, <1>14, <2>2, <2>3 DEF TypeOK, fds
<1>16. ConnInv'
  <2>1. ASSUME NEW d \in Conns, d # c
        PROVE  LifeOf(d)' /\ BytesOf(d)' /\ AnswerOf(d)'
    <3>1. LifeOf(d) /\ BytesOf(d) /\ AnswerOf(d)
      BY <1>1 DEF ConnInv
    <3>2. ~InHandler(d) /\ ~InHandler(d)'
      BY <1>6 DEF InHandler
    <3> QED BY <1>6, <1>10, <1>13, <2>1, <3>1, <3>2, Frame
  <2>2. Receiving(c)' /\ ~New(c)' /\ ~Asked(c)' /\ ~Answered(c)'
    BY <1>9, LogsDiffer DEF New, Receiving, Asked, Answered
  <2>3. LifeOf(c)'
    BY <1>5, <1>6, <1>8, <1>13, <2>2 DEF LifeOf, NewStream, RECEIVING
  <2>4. Pieces(c)' <=> Pieces(c)
    BY <1>6, <1>8 DEF Pieces
  <2>5. BytesOf(c)'
    BY <1>5, <1>6, <1>7, <1>8, <2>2, <2>4 DEF BytesOf
  <2>6. ~InHandler(c)'
    BY <1>6 DEF InHandler
  <2>7. AnswerOf(c)'
    BY <1>5, <1>6, <1>7, <1>8, <2>2, <2>6 DEF AnswerOf
  <2> QED BY <2>1, <2>3, <2>5, <2>7 DEF ConnInv
<1>17. ListInv'
  <2>1. Injective(h)
    BY <1>1, <1>2 DEF ListInv
  <2>2. ASSUME NEW i \in 1..Len(t)
        PROVE  \E k \in 1..Len(h) : k = i + 1 /\ k # 1 /\ t[i] = h[k]
    BY <1>4, <1>14
  <2>3. Injective(t)
    <3>1. ASSUME NEW i \in 1..Len(t), NEW j \in 1..Len(t), t[i] = t[j]
          PROVE  i = j
      <4>1. PICK k \in 1..Len(h) : k = i + 1 /\ t[i] = h[k]
        BY <2>2
      <4>2. PICK l \in 1..Len(h) : l = j + 1 /\ t[j] = h[l]
        BY <2>2
      <4>3. k = l
        BY <2>1, <3>1, <4>1, <4>2 DEF Injective
      <4> QED BY <4>1, <4>2, <4>3
    <3> QED BY <3>1 DEF Injective
  <2>4. ASSUME NEW i \in 1..Len(t)
        PROVE  New(t[i]) /\ t[i] \in DOMAIN asks /\ t[i] # c /\ t[i] \in Conns
    <3>1. PICK k \in 1..Len(h) : k # 1 /\ t[i] = h[k]
      BY <2>2
    <3>2. New(h[k]) /\ h[k] \in DOMAIN asks /\ h[k] \in Conns
      BY <1>1, <1>2 DEF ListInv
    <3>3. h[k] # c
      BY <1>3, <1>4, <2>1, <3>1 DEF Injective
    <3> QED BY <3>1, <3>2, <3>3
  <2>5. \A i \in 1..Len(backlog') : New(backlog[i])' /\ backlog'[i] \in DOMAIN asks'
    <3>1. ASSUME NEW i \in 1..Len(t)
          PROVE  log'[t[i]] = <<>>
      BY <1>10, <2>4 DEF Untouched, New
    <3> QED BY <1>6, <1>14, <2>4, <3>1 DEF New
  <2> QED BY <1>6, <1>11, <1>13, <1>14, <2>3, <2>5 DEF ListInv
<1>18. PollInv'
  <2>1. ASSUME NEW i \in 1..Len(r)
        PROVE  stream[r[i]].idle <= Timeout
    <3>1. CASE i = 1
      BY <1>8, <1>11, <3>1, HttpAssumption DEF NewStream
    <3>2. CASE i # 1
      <4>1. PICK k \in 1..Len(q) : r[i] = q[k]
        <5>1. i \in 2..Len(r) /\ i - 1 \in 1..Len(q)
          BY <1>4, <1>11, <3>2
        <5> QED BY <1>11, <5>1
      <4> QED BY <1>1, <1>2, <1>6, <4>1 DEF PollInv
    <3> QED BY <3>1, <3>2
  <2> QED BY <1>1, <1>6, <1>8, <1>11, <2>1 DEF PollInv, fds
<1> QED BY <1>15, <1>16, <1>17, <1>18 DEF HttpInv

\* Initially there are no streams.
LEMMA InitHolds ==
    ASSUME Init
    PROVE  HttpInv
<1>1. NewStream \in Stream
  BY HttpAssumption DEF NewStream, Stream, RECEIVING
<1>2. TypeOK
  <2>1. pos \in 1..(Len(streams) + 1) /\ streams \in Seq(Conns) /\ backlog \in Seq(Conns)
    BY DEF Init
  <2>2. DOMAIN asks = {}
    BY DEF Init
  <2>3. <<>> \in Seq({"CONNECT", "REQUEST", "CLOSE"})
        /\ <<>> \in Seq({"status", "header", "end", "data"}) /\ <<>> \in Seq({"h", "e", "b"})
    OBVIOUS
  <2>4. /\ stream \in [Conns -> Stream]
        /\ log \in [Conns -> Seq({"CONNECT", "REQUEST", "CLOSE"})]
        /\ sent \in [Conns -> Seq({"status", "header", "end", "data"})]
        /\ out \in [Conns -> Seq({"h", "e", "b"})]
        /\ inbox \in [Conns -> Seq({"h", "e", "b"})]
        /\ fin \in [Conns -> {"open", "fin", "reset"}]
    BY <1>1, <2>3 DEF Init
  <2>5. /\ pc \in {"start", "select", "streams", "meta", "accept", "dead"}
        /\ readable \subseteq Conns /\ writable \subseteq Conns /\ incoming \in BOOLEAN
    BY DEF Init
  <2> QED BY <2>1, <2>2, <2>4, <2>5 DEF TypeOK
<1>3. ASSUME NEW c \in Conns
      PROVE  LifeOf(c) /\ BytesOf(c) /\ AnswerOf(c)
  <2>1. New(c) /\ ~InList(c) /\ ~InHandler(c) /\ c \notin DOMAIN asks
    BY DEF Init, New, InList, InHandler
  <2>2. ~Receiving(c) /\ ~Asked(c) /\ ~Answered(c)
    BY <2>1, LogsDiffer DEF New, Receiving, Asked, Answered
  <2>3. stream[c] = NewStream /\ inbox[c] = <<>> /\ sent[c] = <<>> /\ fin[c] = "open"
    BY DEF Init
  <2>4. LifeOf(c)
    BY <2>1, <2>2 DEF LifeOf
  <2>5. BytesOf(c)
    BY <2>1, <2>2, <2>3 DEF BytesOf
  <2>6. AnswerOf(c)
    BY <2>1, <2>2, <2>3 DEF AnswerOf, NewStream
  <2> QED BY <2>4, <2>5, <2>6
<1>4. ListInv
  BY DEF Init, ListInv, Injective
<1>5. PollInv
  BY DEF Init, PollInv
<1> QED BY <1>2, <1>3, <1>4, <1>5 DEF HttpInv, ConnInv

\* Nothing changes.
LEMMA StutterStep ==
    ASSUME HttpInv, UNCHANGED vars
    PROVE  HttpInv'
<1>1. TypeOK'
  BY DEF HttpInv, TypeOK, vars, poll, fds, client
<1>2. ListInv'
  BY DEF HttpInv, ListInv, New, Asked, vars, poll, fds, client
<1>3. PollInv'
  BY DEF HttpInv, PollInv, InHandler, Receiving, Asked, vars, poll, fds, client
<1>4. ASSUME NEW d \in Conns
      PROVE  LifeOf(d)' /\ BytesOf(d)' /\ AnswerOf(d)'
  <2>1. LifeOf(d) /\ BytesOf(d) /\ AnswerOf(d)
    BY DEF HttpInv, ConnInv
  <2>2. Untouched(d)
    BY DEF Untouched, vars, client
  <2>3. (InList(d)' <=> InList(d)) /\ (InHandler(d)' <=> InHandler(d)) /\ pc' = pc
    BY DEF InList, InHandler, vars, poll
  <2> QED BY <2>1, <2>2, <2>3, Frame
<1> QED BY <1>1, <1>2, <1>3, <1>4 DEF HttpInv, ConnInv

-----------------------------------------------------------------------------
\* The theorems.

\* The inductive invariant: streams live in the list while their events say
\* so, the sets of select stay true of the streams that the poll has not
\* reached, the bytes of a request are neither lost nor read twice, and an
\* answer is sent in one piece.
THEOREM HttpInvariant == Spec => []HttpInv
<1>1. Init => HttpInv
  BY InitHolds
<1>2. HttpInv /\ [Next]_vars => HttpInv'
  <2> SUFFICES ASSUME HttpInv, [Next]_vars
               PROVE  HttpInv'
    OBVIOUS
  <2>1. CASE http_start \/ StreamsDone \/ AcceptDone
    BY <2>1, QuietSteps
  <2>2. CASE \E elapsed \in 0..(Timeout + 1) : Select(elapsed)
    BY <2>2, SelectStep
  <2>3. CASE Accept
    BY <2>3, AcceptStep
  <2>4. ASSUME NEW c \in Conns, sb_stream_recv(c)
        PROVE  HttpInv'
    BY <2>4, sb_stream_recvStep
  <2>5. ASSUME NEW c \in Conns, sb_stream_recv_End(c)
        PROVE  HttpInv'
    BY <2>5, sb_stream_recv_EndStep
  <2>6. ASSUME NEW c \in Conns, StreamSend(c)
        PROVE  HttpInv'
    BY <2>6, StreamSendStep
  <2>7. ASSUME NEW c \in Conns, StreamWaits(c)
        PROVE  HttpInv'
    BY <2>7, StreamWaitsStep
  <2>8. CASE getMeta_Returns
    BY <2>8, getMeta_ReturnsStep
  <2>9. CASE getMeta_Throws
    BY <2>9, getMeta_ThrowsStep
  <2>10. ASSUME NEW c \in Conns, Connect(c)
         PROVE  HttpInv'
    BY <2>10, ConnectStep
  <2>11. ASSUME NEW c \in Conns, Send(c) \/ Shutdown(c) \/ Reset(c)
         PROVE  HttpInv'
    BY <2>11, ClientSteps
  <2>12. CASE UNCHANGED vars
    BY <2>12, StutterStep
  <2> QED BY <2>1, <2>2, <2>3, <2>4, <2>5, <2>6, <2>7, <2>8, <2>9, <2>10, <2>11, <2>12
          DEF Next, http_run
<1> QED BY <1>1, <1>2, PTL DEF Spec

\* A stream is in the list, once, from its first event to its last, and asks
\* the handler at most once in between (sb_server's list, sb_stream_destroy).
THEOREM HttpStreamLife == Spec => []StreamLife
<1>1. HttpInv => StreamLife
  <2> SUFFICES ASSUME HttpInv
               PROVE  StreamLife
    OBVIOUS
  <2>1. TypeOK /\ ListInv /\ ConnInv
    BY DEF HttpInv
  <2>2. PICK q \in Seq(Conns) : q = streams /\ Injective(q)
    BY <2>1 DEF TypeOK, ListInv
  <2>3. \A c \in Conns : log[c] \in {<<>>, <<"CONNECT">>, <<"CONNECT", "REQUEST">>,
                            <<"CONNECT", "CLOSE">>, <<"CONNECT", "REQUEST", "CLOSE">>}
    BY <2>1 DEF ConnInv, LifeOf, New, Receiving, Asked, Refused, Answered
  <2>4. ASSUME NEW c \in Conns
        PROVE  InList(c) <=> Emitted(c, "CONNECT") /\ ~Emitted(c, "CLOSE")
    <3>1. LifeOf(c)
      BY <2>1 DEF ConnInv
    <3>2. InList(c) <=> Receiving(c) \/ Asked(c)
      BY <3>1 DEF LifeOf
    <3>3. /\ Emitted(c, "CONNECT") <=> ~New(c)
          /\ Emitted(c, "CLOSE") <=> Refused(c) \/ Answered(c)
      BY <3>1, Events DEF LifeOf
    <3>4. New(c) \/ Receiving(c) \/ Asked(c) \/ Refused(c) \/ Answered(c)
      BY <3>1 DEF LifeOf
    <3>5. Receiving(c) \/ Asked(c) <=> ~New(c) /\ ~(Refused(c) \/ Answered(c))
      <4>1. Receiving(c) => ~New(c) /\ ~Refused(c) /\ ~Answered(c)
        BY LogsDiffer DEF New, Receiving, Asked, Refused, Answered
      <4>2. Asked(c) => ~New(c) /\ ~Refused(c) /\ ~Answered(c)
        BY LogsDiffer DEF New, Receiving, Asked, Refused, Answered
      <4> QED BY <3>4, <4>1, <4>2
    <3> QED BY <3>2, <3>3, <3>5
  <2>5. \A c : c \in ToSet(streams) <=> c \in Conns /\ InList(c)
    BY <2>2 DEF ToSet, InList
  <2>6. ToSet(streams) = {c \in Conns : Emitted(c, "CONNECT") /\ ~Emitted(c, "CLOSE")}
    BY <2>4, <2>5
  <2>7. Len(streams) = Cardinality(ToSet(streams))
    <3>1. PICK n \in Nat : n = Len(q)
      BY <2>2
    <3>2. IsFiniteSet(1..n) /\ Cardinality(1..n) = n
      <4>1. /\ IsFiniteSet(1..n)
            /\ Cardinality(1..n) = IF 1 > n THEN 0 ELSE n - 1 + 1
        BY FS_Interval
      <4> QED BY <4>1
    <3>3. q \in [1..n -> ToSet(q)] /\ \A y \in ToSet(q) : \E i \in 1..n : q[i] = y
      BY <2>2, <3>1 DEF ToSet
    <3>4. q \in Surjection(1..n, ToSet(q))
      BY <3>3 DEF Surjection
    <3>5. q \in Injection(1..n, ToSet(q))
      BY <2>2, <3>1, <3>3 DEF Injection, IsInjective, Injective
    <3>6. Cardinality(ToSet(q)) = Cardinality(1..n)
      <4>1. PICK T : T = ToSet(q)
        OBVIOUS
      <4>2. PICK f \in Surjection(1..n, T) : f = q /\ f \in Injection(1..n, T)
        BY <3>4, <3>5, <4>1
      <4>3. Cardinality(T) = Cardinality(1..n) <=> f \in Injection(1..n, T)
        BY <3>2, FS_Surjection
      <4> QED BY <4>1, <4>2, <4>3, Zenon
    <3> QED BY <2>2, <3>1, <3>2, <3>6
  <2> QED BY <2>1, <2>3, <2>6, <2>7 DEF StreamLife
<1> QED BY <1>1, HttpInvariant, PTL

\* The handler is called with exactly the header and the announced body
\* (sb_stream_recv).
THEOREM HttpWholeRequest == Spec => []WholeRequest
<1>1. ASSUME NEW r, IsRequest(r), NEW h \in DOMAIN r.bytes, HeaderAt(r, h)
      PROVE  HeaderLen(r) = h
  <2> DEFINE P(i) == r.bytes[i] = "e" /\ \A j \in 1..(i - 1) : r.bytes[j] # "e"
  <2>1. DOMAIN r.bytes \subseteq Nat /\ \A i \in DOMAIN r.bytes : i >= 1
    BY <1>1 DEF IsRequest
  <2>2. P(h)
    BY <1>1 DEF HeaderAt
  <2>3. \A i \in DOMAIN r.bytes : P(i) => i = h
    <3> SUFFICES ASSUME NEW i \in DOMAIN r.bytes, P(i)
                 PROVE  i = h
      OBVIOUS
    <3>1. ~(i < h)
      BY <2>1, <2>2
    <3>2. ~(h < i)
      BY <2>1, <2>2
    <3> QED BY <2>1, <3>1, <3>2
  <2>4. HeaderLen(r) = CHOOSE i \in DOMAIN r.bytes : P(i)
    BY DEF HeaderLen
  <2> HIDE DEF P
  <2> QED BY <2>2, <2>3, <2>4
<1>2. HttpInv => WholeRequest
  <2> SUFFICES ASSUME HttpInv, NEW c \in Conns, Emitted(c, "REQUEST")
               PROVE  stream[c].len = HeaderLen(asks[c])
                         + (IF asks[c].length = NoLength THEN 0 ELSE asks[c].length)
    BY DEF WholeRequest
  <2>1. TypeOK /\ LifeOf(c) /\ BytesOf(c)
    BY DEF HttpInv, ConnInv
  <2>2. Asked(c) \/ Answered(c)
    BY <2>1, Events DEF LifeOf
  <2>3. Whole(asks[c], stream[c].len)
    BY <2>1, <2>2 DEF BytesOf
  <2>4. IsRequest(asks[c])
    <3>1. ~New(c)
      BY <2>2, LogsDiffer DEF New, Asked, Answered
    <3> QED BY <2>1, <3>1, HttpAssumption DEF LifeOf, TypeOK
  <2> QED BY <1>1, <2>3, <2>4 DEF Whole
<1> QED BY <1>2, HttpInvariant, PTL

\* An answer that ended before the client lost interest was sent as a whole
\* (sb_stream_send).
THEOREM HttpAnswerComplete == Spec => []AnswerComplete
<1>1. HttpInv => AnswerComplete
  <2> SUFFICES ASSUME HttpInv, NEW c \in Conns, Emitted(c, "REQUEST"), Emitted(c, "CLOSE")
               PROVE  \/ Len(sent[c]) >= 4 /\ sent[c][1] = "status" /\ Last(sent[c]) = "data"
                      \/ fin[c] = "reset"
                      \/ stream[c].idle > Timeout
    BY DEF AnswerComplete
  <2>1. LifeOf(c) /\ AnswerOf(c) /\ TypeOK
    BY DEF HttpInv, ConnInv
  <2>2. Asked(c) \/ Answered(c)
    BY <2>1, Events DEF LifeOf
  <2>3. Refused(c) \/ Answered(c)
    BY <2>1, Events DEF LifeOf
  <2>4. Answered(c)
    BY <2>2, <2>3, LogsDiffer DEF Asked, Answered, Refused
  <2>5. OnWire(sent[c], <<>>) \/ fin[c] = "reset" \/ stream[c].idle > Timeout
    BY <2>1, <2>4 DEF AnswerOf
  <2>6. ASSUME OnWire(sent[c], <<>>)
        PROVE  Len(sent[c]) >= 4 /\ sent[c][1] = "status" /\ Last(sent[c]) = "data"
    <3>1. Len(sent[c]) = 4 /\ \A i \in 1..4 : sent[c][i] = Answer[i]
      <4>1. sent[c] \in Seq({"status", "header", "end", "data"})
        BY <2>1 DEF TypeOK
      <4>2. Len(sent[c]) \in Nat /\ Len(<<>>) = 0
        BY <4>1
      <4>3. Len(sent[c]) = 4
        BY <2>6, <4>2 DEF OnWire
      <4> QED BY <2>6, <4>3 DEF OnWire
    <3>2. Answer[1] = "status" /\ Answer[4] = "data"
      BY DEF Answer
    <3>3. 1 \in 1..4 /\ 4 \in 1..4
      OBVIOUS
    <3> QED BY <3>1, <3>2, <3>3 DEF Last
  <2> QED BY <2>5, <2>6
<1> QED BY <1>1, HttpInvariant, PTL

\* A stream that outlives a poll was active within the timeout (sb_poll_server).
THEOREM HttpSilentEnd == Spec => []SilentEnd
<1>1. HttpInv => SilentEnd
  BY DEF HttpInv, PollInv, SilentEnd, ToSet, TypeOK
<1> QED BY <1>1, HttpInvariant, PTL

\* What a stream becomes that the handler has been asked for, or that goes on
\* receiving, is no CLOSE event.
LEMMA OpenLogs ==
    ASSUME NEW c \in Conns, Receiving(c)' \/ Asked(c)'
    PROVE  ~Emitted(c, "CLOSE")'
<1>1. ~ \E i \in DOMAIN <<"CONNECT">> : <<"CONNECT">>[i] = "CLOSE"
  OBVIOUS
<1>2. ~ \E i \in DOMAIN <<"CONNECT", "REQUEST">> : <<"CONNECT", "REQUEST">>[i] = "CLOSE"
  OBVIOUS
<1>3. Emitted(c, "CLOSE")' => \E i \in DOMAIN (log'[c]) : log'[c][i] = "CLOSE"
  BY DEF Emitted, Range
<1> QED BY <1>1, <1>2, <1>3 DEF Receiving, Asked

\* A stream that has just been active and does not close outlives its
\* iteration.
LEMMA ActiveGoesOn ==
    ASSUME TypeOK, NEW c \in Conns, NEW s \in Stream, s.idle = 0, s.state # "CLOSING",
           NEW events, StreamDone(c, s, events),
           \/ events = <<>> /\ (Receiving(c) \/ Asked(c))
           \/ events = <<"REQUEST">> /\ Receiving(c)
    PROVE  Receiving(c)' \/ Asked(c)'
<1>1. ~Expired(s)
  BY HttpAssumption DEF Expired
<1>f. PICK t \in Stream, ends \in BOOLEAN : Finished(c, s, events, t, ends)
  BY Finishes
<1>2. /\ ends <=> Expired(s) \/ s.state = "CLOSING"
      /\ log' = [log EXCEPT ![c] = @ \o events \o IF ends THEN <<"CLOSE">> ELSE <<>>]
  BY <1>f DEF Finished
<1>3. log'[c] = log[c] \o events \o IF ends THEN <<"CLOSE">> ELSE <<>>
  BY <1>2 DEF TypeOK
<1> QED BY <1>1, <1>2, <1>3, NextLog

\* A step of the thread for the stream c.
StepOf(c) ==
    sb_stream_recv(c) \/ sb_stream_recv_End(c) \/ StreamSend(c) \/ StreamWaits(c)

\* An iteration emits events of its own stream only.
LEMMA StepEmits ==
    ASSUME HttpInv, NEW c \in Conns, StepOf(c), NEW d \in Conns, d # c
    PROVE  log'[d] = log[d]
<1>1. log \in [Conns -> Seq({"CONNECT", "REQUEST", "CLOSE"})]
  BY DEF HttpInv, TypeOK
<1>2. ASSUME NEW s, NEW events, StreamDone(c, s, events)
      PROVE  log'[d] = log[d]
  BY <1>1, <1>2 DEF StreamDone
<1>3. CASE sb_stream_recv(c)
  BY <1>1, <1>2, <1>3 DEF sb_stream_recv
<1>4. CASE sb_stream_recv_End(c)
  BY <1>2, <1>4 DEF sb_stream_recv_End
<1>5. CASE StreamSend(c)
  BY <1>2, <1>5 DEF StreamSend
<1>6. CASE StreamWaits(c)
  BY <1>2, <1>6 DEF StreamWaits
<1> QED BY <1>3, <1>4, <1>5, <1>6 DEF StepOf

\* A readable stream that its client has not closed and that asks for
\* something goes on.
LEMMA ReadableGoesOn ==
    ASSUME HttpInv, NEW c \in Conns, StepOf(c), c \in readable,
           fin[c] = "open", asks[c].kind # "malformed"
    PROVE  Receiving(c)' \/ Asked(c)'
<1>1. TypeOK /\ Handles(c) /\ pos \in 1..Len(streams) /\ streams[pos] = c /\ pc = "streams"
  BY Reached DEF HttpInv, StepOf, sb_stream_recv, sb_stream_recv_End, StreamSend, StreamWaits
<1>2. /\ LifeOf(c) /\ stream[c] \in Stream /\ c \notin writable
      /\ Receiving(c) /\ (inbox[c] # <<>> \/ fin[c] # "open" \/ stream[c].idle = 0)
  BY <1>1, AtPos
<1>3. CASE sb_stream_recv(c)
  <2>1. PICK s : /\ s = Received(c)
                 /\ \/ UNCHANGED <<poll, log>>
                    \/ /\ s.state \notin RECEIVING
                       /\ StreamDone(c, handler(s), <<"REQUEST">>)
                    \/ log' = [log EXCEPT ![c] = Append(@, "REQUEST")]
    BY <1>3 DEF sb_stream_recv
  <2>2. CASE UNCHANGED <<poll, log>>
    BY <1>2, <2>2 DEF Receiving
  <2>3. CASE s.state \notin RECEIVING /\ StreamDone(c, handler(s), <<"REQUEST">>)
    <3>1. /\ inbox[c] # <<>> /\ inbox' = [inbox EXCEPT ![c] = Tail(@)]
          /\ UNCHANGED <<asks, out, fin>>
      BY <1>3 DEF sb_stream_recv
    <3>2. s \in Stream /\ s.send = <<>> /\ s.idle = 0 /\ s.state = "SENDING_STATUS"
      BY <1>1, <2>1, <2>3, <3>1, ReceivedByte
    <3>3. PICK u : u = handler(s) /\ StreamDone(c, u, <<"REQUEST">>)
      BY <2>3
    <3>4. u \in Stream /\ u.idle = 0 /\ u.state = "SENDING_DATA"
      BY <3>2, <3>3, HandlerFields DEF KeepsInput
    <3> QED BY <1>1, <1>2, <3>3, <3>4, ActiveGoesOn
  <2>4. CASE log' = [log EXCEPT ![c] = Append(@, "REQUEST")]
    <3>1. log'[c] = Append(log[c], "REQUEST")
      BY <1>1, <2>4 DEF TypeOK
    <3>2. Asked(c)'
      BY <1>2, <3>1, LogSums, Zenon DEF Receiving, Asked
    <3> QED BY <3>2
  <2> QED BY <2>1, <2>2, <2>3, <2>4
<1>4. CASE sb_stream_recv_End(c)
  <2>1. StreamDone(c, stream[c], <<>>) /\ stream[c].idle = 0
    BY <1>2, <1>4 DEF sb_stream_recv_End
  <2>2. stream[c].state # "CLOSING"
    BY <1>2 DEF LifeOf, RECEIVING
  <2> QED BY <1>1, <1>2, <2>1, <2>2, ActiveGoesOn
<1> QED BY <1>2, <1>3, <1>4 DEF StepOf, StreamSend, StreamWaits

\* A stream with input that select has reported is closed only if its client
\* has closed it or has sent something else than a request (sb_poll_server
\* reads before it looks at the time).
THEOREM HttpReadyNotExpired == Spec => ReadyNotExpired
<1> DEFINE A == \A c \in readable : ~Emitted(c, "CLOSE") /\ Emitted(c, "CLOSE")' =>
                  fin[c] # "open" \/ asks[c].kind = "malformed"
<1>1. HttpInv /\ [Next]_vars => [A]_vars
  <2> SUFFICES ASSUME HttpInv, [Next]_vars, NEW d \in readable,
                      ~Emitted(d, "CLOSE"), Emitted(d, "CLOSE")'
               PROVE  fin[d] # "open" \/ asks[d].kind = "malformed"
    OBVIOUS
  <2>1. d \in Conns /\ TypeOK /\ ListInv /\ ConnInv
    BY DEF HttpInv, TypeOK
  <2>2. log'[d] # log[d]
    BY DEF Emitted
  <2>3. ~(Receiving(d)' \/ Asked(d)')
    BY <2>1, OpenLogs
  <2>4. CASE \E c \in Conns : StepOf(c)
    <3>1. PICK c \in Conns : StepOf(c)
      BY <2>4
    <3>2. c = d
      BY <2>1, <2>2, <3>1, StepEmits
    <3> QED BY <2>3, <3>1, <3>2, ReadableGoesOn
  <2>5. CASE Accept
    <3>1. PICK c \in Conns : /\ c = backlog[1] /\ New(c)
                             /\ log' = [log EXCEPT ![c] = Append(@, "CONNECT")]
      <4>1. backlog \in Seq(Conns) /\ backlog # <<>>
        BY <2>1, <2>5 DEF TypeOK, Accept
      <4>2. backlog[1] \in Conns /\ 1 \in 1..Len(backlog) /\ Head(backlog) = backlog[1]
        BY <4>1
      <4> QED BY <2>1, <2>5, <4>2 DEF ListInv, Accept
    <3>2. c = d
      BY <2>1, <2>2, <3>1 DEF TypeOK
    <3>3. log'[c] = Append(log[c], "CONNECT")
      BY <2>1, <3>1 DEF TypeOK
    <3>4. Receiving(c)'
      BY <3>1, <3>3, LogSums, Zenon DEF New, Receiving
    <3> QED BY <2>3, <3>2, <3>4
  <2>6. CASE getMeta_Returns
    <3>1. pc = "meta" /\ pos \in 1..Len(streams)
      BY <2>1, <2>6 DEF getMeta_Returns, ListInv
    <3>2. PICK c \in Conns : c = streams[pos] /\ InHandler(c)
      <4>1. streams[pos] \in Conns
        BY <2>1, <3>1 DEF TypeOK
      <4> QED BY <3>1, <4>1 DEF InHandler
    <3>3. /\ Asked(c) /\ stream[c].idle = 0 /\ stream[c] \in Stream
          /\ stream[c].state = "SENDING_HEADER" /\ stream[c].send = <<"status", "header">>
      BY <2>1, <3>1, <3>2 DEF ListInv, ConnInv, AnswerOf, TypeOK
    <3>4. PICK s : s = sb_write(stream[c]) /\ StreamDone(c, s, <<>>)
      BY <2>6, <3>2 DEF getMeta_Returns
    <3>5. s \in Stream /\ s.idle = 0 /\ s.state = "SENDING_DATA"
      BY <3>3, <3>4, WriteFields DEF KeepsInput
    <3>6. Receiving(c)' \/ Asked(c)'
      BY <2>1, <3>3, <3>4, <3>5, ActiveGoesOn
    <3>7. c = d
      BY <2>1, <2>2, <3>4 DEF StreamDone, TypeOK
    <3> QED BY <2>3, <3>6, <3>7
  <2>7. CASE \/ http_start \/ getMeta_Throws \/ StreamsDone \/ AcceptDone
             \/ \E elapsed \in 0..(Timeout + 1) : Select(elapsed)
             \/ \E c \in Conns : Connect(c) \/ Send(c) \/ Shutdown(c) \/ Reset(c)
             \/ UNCHANGED vars
    BY <2>2, <2>7 DEF http_start, getMeta_Throws, StreamsDone, AcceptDone, Select, Connect, Send,
                      Shutdown, Reset, vars
  <2> QED BY <2>4, <2>5, <2>6, <2>7 DEF Next, http_run, StepOf
<1>2. ReadyNotExpired <=> [][A]_vars
  BY DEF ReadyNotExpired
<1> HIDE DEF A
<1> QED BY <1>1, <1>2, HttpInvariant, PTL DEF Spec

=============================================================================
