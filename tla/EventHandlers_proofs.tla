------------------------- MODULE EventHandlers_proofs -------------------------
(***************************************************************************)
(* For every instance of UidResolver, what a resolution leaves behind, for *)
(* any people, any list of ignored players and any number of commands,     *)
(* portals and sessions.  For every instance of EventHandlers: the tax     *)
(* never takes more than the bet up to SafePercent; a packet of the server *)
(* is settled once; a popup is shown or was answered; the answer of a      *)
(* dialog sets the options it shows and no other.                          *)
(***************************************************************************)
EXTENDS MCEventHandlers, SequenceTheorems, TLAPS

-----------------------------------------------------------------------------
(* The resolution *)

Requests == {"ignore", "friends", "showfriend", "friend_all", "click", "remove"}
Mail == Traffic(Requests \cup Messages \cup Dialogs)

\* Everything under way, from what the proxy handles next.
Flight == answers \o requests

\* The place of a message in a resolution; a request and its answers have the
\* same.
Stage(m) ==
    CASE m.what \in {"ignore", "personIgnored", "nobodyOnline", "cleverPerhaps"} -> 1
      [] m.what \in {"friends", "socialPortal"}    -> 2
      [] m.what \in {"showfriend", "showOffline"}  -> 3
      [] m.what \in {"friend_all", "stopIgnoring"} -> 4
      [] m.what \in {"click", "areYouSure"}        -> 5
      [] m.what \in {"remove", "nowAble"}          -> 6
      [] OTHER -> 7

\* The places of the messages of a resolution.
Own(f) == {i \in 1..Len(f) : f[i].by = "proxy"}

\* The stages of which a message is under way, each once and in their order.
Under(f, K) ==
    /\ \A i \in Own(f) : Stage(f[i]) \in K
    /\ \A k \in K : \E i \in Own(f) : Stage(f[i]) = k
    /\ \A i, j \in Own(f) : i < j => Stage(f[i]) < Stage(f[j])

\* The list once the server ignores p too, when it was b; and each player once.
Listed(b, p) == IF Contains(b, p) THEN b ELSE Append(b, p)
Once(l) == \A i, j \in 1..Len(l) : l[i] = l[j] => i = j

\* What a message under way tells of the client's list, and whom it names, when
\* the last /uid was about p and the list was then b.
Consistent(m, list, b, p) ==
    /\ m.by = "user" => m.what \in {"friends", "socialPortal"}
    /\ m.by = "proxy" /\ m.what \in {"ignore", "nobodyOnline", "cleverPerhaps"} => list = b
    /\ m.by = "proxy" /\ m.what \in {"personIgnored", "showfriend", "showOffline", "friend_all",
                                     "stopIgnoring", "remove"} =>
          list = Listed(b, p)
    /\ m.by = "proxy" /\ m.what = "nowAble" => list = Front(Listed(b, p))
    /\ m.by = "proxy" /\ m.what = "ignore" => m.who = p
    /\ m.by = "proxy" /\ m.what = "remove" => m.who = Last(Listed(b, p))
    /\ m.by = "proxy" /\ m.what = "stopIgnoring" => m.who \in {Last(Listed(b, p)), 0}
Honest(f, list, b, p) == \A i \in 1..Len(f) : Consistent(f[i], list, b, p)

\* The id was read off the end of the list, and /setuid has not replaced it.
ReadOff == history.set \/ uidz = Last(Listed(history.before, history.asked))

\* How far the resolution is, by what is under way.
Idle == /\ Under(Flight, {}) /\ ~resolving
        /\ ignored = IF history.found THEN Front(Listed(history.before, history.asked))
                     ELSE history.before
        /\ history.found => ReadOff /\ ~history.leaked
Asking  == Under(Flight, {1, 2}) /\ resolving /\ ~history.found /\ ~history.leaked
Failing == Under(Flight, {2}) /\ ~resolving /\ ~history.found /\ ignored = history.before
Listing(K) == Under(Flight, K) /\ resolving /\ history.found /\ ~history.leaked
Removing(K) == Listing(K) /\ ReadOff

Phase ==
    \/ Idle \/ Asking \/ Failing
    \/ Listing({2, 3, 4}) \/ Listing({3, 4}) \/ Listing({4})
    \/ Removing({5, 6}) \/ Removing({6})

History == [asked : People \cup {0}, before : Seq(People), found : BOOLEAN, set : BOOLEAN,
            overlap : BOOLEAN, lost : BOOLEAN, odd : BOOLEAN, leaked : BOOLEAN]

Progress ==
    /\ Phase
    /\ Honest(Flight, ignored, history.before, history.asked)
    /\ ~Idle => history.asked \in People

UidTyped == UidTypeOK /\ history \in History /\ Once(ignored)
UidInv == UidTyped /\ (Undisturbed => Progress)

-----------------------------------------------------------------------------
(* What is under way, as messages come and go. *)

\* A message has one of the six stages, or it is not of a resolution.
LEMMA StageType == \A m : Stage(m) \in 1..7
BY DEF Stage

\* Nothing is under way when nothing travels.
LEMMA UnderNone == Under(<< >>, {})
BY DEF Under, Own

\* With no stage under way, no message is of the resolution.
LEMMA UnderEmpty ==
  ASSUME NEW f, NEW K
  PROVE  /\ Under(f, {}) <=> Own(f) = {}
         /\ Under(f, K) /\ Own(f) = {} => K = {}
BY DEF Under

\* What the user sends is not of the resolution.
LEMMA UnderUser ==
  ASSUME NEW S, NEW f \in Seq(S), NEW m \in S, NEW K, Under(f, K), m.by # "proxy"
  PROVE  Under(Append(f, m), K)
<1> DEFINE g == Append(f, m)
<1>1. Own(g) = Own(f)
  BY DEF Own
<1>2. \A i \in Own(f) : Stage(g[i]) = Stage(f[i])
  BY DEF Own
<1> HIDE DEF g
<1>3. Under(g, K)
  BY <1>1, <1>2 DEF Under
<1> QED
  BY <1>3 DEF g

\* A later stage is sent.
LEMMA UnderProxy ==
  ASSUME NEW S, NEW f \in Seq(S), NEW m \in S, NEW K, Under(f, K), m.by = "proxy",
         \A k \in K : k < Stage(m)
  PROVE  Under(Append(f, m), K \cup {Stage(m)})
<1> DEFINE g == Append(f, m)
           n == Len(f) + 1
<1>1. Own(g) = Own(f) \cup {n} /\ n \notin Own(f) /\ g[n] = m /\ \A i \in Own(f) : g[i] = f[i] /\ i < n /\ i \in Nat
  BY DEF Own
<1> HIDE DEF g, n
<1>2. ASSUME NEW i \in Own(g) PROVE Stage(g[i]) \in K \cup {Stage(m)}
  BY <1>1 DEF Under
<1>3. ASSUME NEW k \in K \cup {Stage(m)} PROVE \E i \in Own(g) : Stage(g[i]) = k
  BY <1>1 DEF Under
<1>4. n \in Nat
  BY DEF n
<1>5. ASSUME NEW i \in Own(g), NEW j \in Own(g), i < j PROVE Stage(g[i]) < Stage(g[j])
  <2>1. i \in Own(f)
    BY <1>1, <1>4, <1>5
  <2>2. CASE j \in Own(f)
    BY <2>1, <2>2, <1>1, <1>5 DEF Under
  <2>3. CASE j = n
    BY <2>1, <2>3, <1>1 DEF Under
  <2> QED
    BY <2>2, <2>3, <1>1
<1> QED
  BY <1>2, <1>3, <1>5 DEF Under, g

\* What the client asked for is handled.
LEMMA UnderTailUser ==
  ASSUME NEW S, NEW f \in Seq(S), f # << >>, NEW K, Under(f, K), f[1].by # "proxy"
  PROVE  Under(Tail(f), K)
<1> DEFINE g == Tail(f)
<1>1. \A i \in Own(g) : i + 1 \in Own(f) /\ i \in Nat /\ g[i] = f[i + 1]
  BY DEF Own
<1>2. \A i \in Own(f) : i - 1 \in Own(g) /\ g[i - 1] = f[i]
  BY DEF Own
<1> HIDE DEF g
<1>3. \A i \in Own(g) : Stage(g[i]) \in K
  BY <1>1 DEF Under, g
<1>4. \A k \in K : \E i \in Own(g) : Stage(g[i]) = k
  BY <1>2 DEF Under, g
<1>5. ASSUME NEW i \in Own(g), NEW j \in Own(g), i < j PROVE Stage(g[i]) < Stage(g[j])
  <2>1. i + 1 \in Own(f) /\ j + 1 \in Own(f) /\ i + 1 < j + 1
    BY <1>1, <1>5
  <2>2. Stage(f[i + 1]) < Stage(f[j + 1])
    BY <2>1 DEF Under
  <2> QED
    BY <2>2, <1>1
<1> QED
  BY <1>3, <1>4, <1>5 DEF Under, g

\* The first message of a resolution is of its first stage, and is handled.
LEMMA UnderTailProxy ==
  ASSUME NEW S, NEW f \in Seq(S), f # << >>, NEW K, Under(f, K), f[1].by = "proxy"
  PROVE  /\ Stage(f[1]) \in K
         /\ \A k \in K : Stage(f[1]) <= k
         /\ Under(Tail(f), K \ {Stage(f[1])})
<1> DEFINE g == Tail(f)
           k0 == Stage(f[1])
<1>0. 1 \in Own(f) /\ k0 \in 1..7
  BY StageType DEF Own
<1>1. \A i \in Own(g) : i + 1 \in Own(f) /\ i \in Nat /\ 1 < i + 1 /\ g[i] = f[i + 1]
  BY DEF Own
<1>2. ASSUME NEW i \in Own(f), i # 1
      PROVE  i \in Nat /\ 1 < i /\ i - 1 \in Own(g) /\ g[i - 1] = f[i]
  <2>1. i \in 1..Len(f) /\ i - 1 \in 1..Len(g)
    BY <1>2 DEF Own
  <2>2. g[i - 1] = f[i]
    BY <2>1
  <2> QED
    BY <2>1, <2>2, <1>2 DEF Own
<1> HIDE DEF g
<1>a. \A i \in Own(f) : Stage(f[i]) \in 1..7
  BY StageType
<1>b. \A i \in Own(f) : i # 1 => k0 < Stage(f[i])
  BY <1>0, <1>2 DEF Under
<1>3. k0 \in K /\ \A k \in K : k0 <= k
  BY <1>0, <1>b, <1>a DEF Under
<1>4. ASSUME NEW i \in Own(g) PROVE Stage(g[i]) \in K \ {k0}
  <2>1. Stage(f[i + 1]) \in K /\ k0 < Stage(f[i + 1])
    BY <1>1, <1>b DEF Under
  <2> QED
    BY <2>1, <1>1, <1>0, <1>a
<1>5. ASSUME NEW k \in K \ {k0} PROVE \E i \in Own(g) : Stage(g[i]) = k
  <2>1. PICK i \in Own(f) : Stage(f[i]) = k
    BY DEF Under
  <2> QED
    BY <2>1, <1>2
<1>6. ASSUME NEW i \in Own(g), NEW j \in Own(g), i < j PROVE Stage(g[i]) < Stage(g[j])
  BY <1>1, <1>6 DEF Under
<1> QED
  BY <1>3, <1>4, <1>5, <1>6 DEF Under, g

\* A request and its answer are of one stage.
LEMMA UnderSame ==
  ASSUME NEW S, NEW f \in Seq(S), NEW g \in Seq(S), NEW K, Under(f, K), Len(g) = Len(f),
         \A i \in 1..Len(f) : g[i].by = f[i].by /\ (f[i].by = "proxy" => Stage(g[i]) = Stage(f[i]))
  PROVE  Under(g, K)
<1>1. Own(g) = Own(f) /\ \A i \in Own(f) : Stage(g[i]) = Stage(f[i])
  BY DEF Own
<1> QED
  BY <1>1 DEF Under

-----------------------------------------------------------------------------
(* What travels, as one sequence. *)

\* What the server answers is taken from the front, what is sent is added at the
\* end.
LEMMA Joined ==
  ASSUME NEW S, NEW a \in Seq(S), NEW r \in Seq(S)
  PROVE  /\ a \o r \in Seq(S) /\ Len(a \o r) = Len(a) + Len(r)
         /\ \A i \in 1..Len(a) : (a \o r)[i] = a[i]
         /\ \A i \in 1..Len(r) : (a \o r)[Len(a) + i] = r[i]
OBVIOUS

\* Handling the first answer takes the first of what travels.
LEMMA JoinedTail ==
  ASSUME NEW S, NEW a \in Seq(S), NEW r \in Seq(S), a # << >>
  PROVE  /\ a \o r # << >> /\ (a \o r)[1] = a[1]
         /\ Tail(a) \o r = Tail(a \o r)
<1> DEFINE f == a \o r
           g == Tail(a) \o r
<1>0. Len(a) \in Nat /\ Len(r) \in Nat /\ Len(a) > 0 /\ Tail(a) \in Seq(S)
  OBVIOUS
<1>1. f \in Seq(S) /\ Len(f) = Len(a) + Len(r)
  OBVIOUS
<1>2. g \in Seq(S) /\ Len(g) = Len(a) - 1 + Len(r)
  BY <1>0
<1>3. Tail(f) \in Seq(S) /\ Len(Tail(f)) = Len(g)
  BY <1>0, <1>1, <1>2
<1>4. ASSUME NEW i \in 1..Len(g) PROVE g[i] = Tail(f)[i]
  <2>1. Tail(f)[i] = f[i + 1]
    BY <1>0, <1>1, <1>2, <1>3
  <2>2. CASE i <= Len(a) - 1
    BY <2>1, <2>2, <1>0
  <2>3. CASE i > Len(a) - 1
    BY <2>1, <2>3, <1>0, <1>2
  <2> QED
    BY <2>2, <2>3, <1>0, <1>2
<1>5. g = Tail(f)
  BY <1>2, <1>3, <1>4, SeqEqual
<1> QED
  BY <1>0, <1>1, <1>5

\* Sending a request adds it to what travels.
LEMMA JoinedSend ==
  ASSUME NEW S, NEW a \in Seq(S), NEW r \in Seq(S), NEW m \in S
  PROVE  a \o Append(r, m) = Append(a \o r, m)
<1> DEFINE f == a \o Append(r, m)
           g == Append(a \o r, m)
<1>1. f \in Seq(S) /\ g \in Seq(S) /\ Len(f) = Len(g)
  OBVIOUS
<1>2. ASSUME NEW i \in 1..Len(f) PROVE f[i] = g[i]
  OBVIOUS
<1> QED
  BY <1>1, <1>2, SeqEqual

\* Two requests are sent one after the other.
LEMMA SentTwo ==
  ASSUME NEW S, NEW r \in Seq(S), NEW m \in S, NEW n \in S
  PROVE  r \o <<m, n>> = Append(Append(r, m), n)
<1> DEFINE f == r \o <<m, n>>
           g == Append(Append(r, m), n)
<1>1. f \in Seq(S) /\ g \in Seq(S) /\ Len(f) = Len(g)
  OBVIOUS
<1>2. ASSUME NEW i \in 1..Len(f) PROVE f[i] = g[i]
  OBVIOUS
<1> QED
  BY <1>1, <1>2, SeqEqual

\* The answer takes the place of its request.
LEMMA JoinedAnswer ==
  ASSUME NEW S, NEW a \in Seq(S), NEW r \in Seq(S), NEW m \in S, r # << >>
  PROVE  LET f == a \o r
             g == Append(a, m) \o Tail(r)
             n == Len(a) + 1
         IN  /\ g \in Seq(S) /\ Len(g) = Len(f) /\ n \in 1..Len(f)
             /\ f[n] = r[1] /\ g[n] = m
             /\ \A i \in 1..Len(f) : i # n => g[i] = f[i]
<1> DEFINE f == a \o r
           g == Append(a, m) \o Tail(r)
           n == Len(a) + 1
<1>0. Len(a) \in Nat /\ Len(r) \in Nat /\ Len(r) > 0 /\ Tail(r) \in Seq(S) /\ Append(a, m) \in Seq(S)
      /\ Len(Tail(r)) = Len(r) - 1 /\ Len(Append(a, m)) = n
  OBVIOUS
<1>1. f \in Seq(S) /\ Len(f) = Len(a) + Len(r) /\ g \in Seq(S) /\ Len(g) = Len(f)
  BY <1>0
<1>2. f[n] = r[1] /\ g[n] = m
  BY <1>0
<1>3. ASSUME NEW i \in 1..Len(f), i # n PROVE g[i] = f[i]
  <2>1. CASE i < n
    <3>1. f[i] = a[i] /\ Append(a, m)[i] = a[i]
      BY <2>1, <1>0
    <3>2. g[i] = Append(a, m)[i]
      BY <2>1, <1>0
    <3> QED
      BY <3>1, <3>2
  <2>2. CASE i > n
    <3>1. g[i] = Tail(r)[i - n]
      BY <2>2, <1>0, <1>1
    <3>2. Tail(r)[i - n] = r[i - n + 1]
      <4>1. i - n \in 1..Len(Tail(r))
        BY <2>2, <1>0, <1>1
      <4> QED
        BY <4>1
    <3>3. f[i] = r[i - Len(a)]
      BY <2>2, <1>0, <1>1, i \in Nat
    <3>4. i - n + 1 = i - Len(a)
      BY <1>0, <1>1
    <3> QED
      BY <3>1, <3>2, <3>3, <3>4
  <2> QED
    BY <2>1, <2>2, <1>3, <1>0, <1>1
<1> QED
  BY <1>0, <1>1, <1>2, <1>3

-----------------------------------------------------------------------------
(* Types *)

\* A player is added to the list only when it is not there.
LEMMA OnceAdded ==
  ASSUME NEW S, NEW l \in Seq(S), NEW p, Once(l), ~Contains(l, p)
  PROVE  Once(Append(l, p))
<1>1. \A i \in 1..Len(l) : l[i] # p
  BY DEF Contains
<1>2. Len(Append(l, p)) = Len(l) + 1 /\ Append(l, p)[Len(l) + 1] = p
      /\ \A i \in 1..Len(l) : Append(l, p)[i] = l[i]
  OBVIOUS
<1> QED
  BY <1>1, <1>2 DEF Once

\* What is left of the list has each player once.
LEMMA OnceRemoved ==
  ASSUME NEW S, NEW l \in Seq(S), Once(l), NEW k \in DOMAIN l
  PROVE  Once(RemoveAt(l, k))
<1> DEFINE g == RemoveAt(l, k)
           At(i) == IF i < k THEN i ELSE i + 1
<1>0. k \in 1..Len(l) /\ Len(l) \in Nat
  OBVIOUS
<1>1. Len(g) = Len(l) - 1 /\ \A i \in 1..Len(g) : At(i) \in 1..Len(l) /\ g[i] = l[At(i)]
  <2> DEFINE s == SubSeq(l, 1, k - 1)
             e == SubSeq(l, k + 1, Len(l))
  <2>1. s \in Seq(S) /\ Len(s) = k - 1 /\ \A i \in 1..(k - 1) : s[i] = l[i]
    BY <1>0
  <2>2. e \in Seq(S) /\ Len(e) = Len(l) - k /\ \A i \in 1..(Len(l) - k) : e[i] = l[k + i]
    BY <1>0
  <2>3. g = s \o e
    BY DEF RemoveAt
  <2> HIDE DEF s, e, g
  <2>4. Len(g) = Len(l) - 1
    BY <2>1, <2>2, <2>3, <1>0
  <2>5. ASSUME NEW i \in 1..Len(g) PROVE At(i) \in 1..Len(l) /\ g[i] = l[At(i)]
    <3>1. CASE i < k
      BY <3>1, <2>1, <2>2, <2>3, <2>4, <1>0
    <3>2. CASE ~(i < k)
      <4>1. g[i] = e[i - (k - 1)] /\ i - (k - 1) \in 1..(Len(l) - k)
        BY <3>2, <2>1, <2>2, <2>3, <2>4, <1>0
      <4>2. e[i - (k - 1)] = l[k + (i - (k - 1))]
        BY <4>1, <2>2
      <4>3. k + (i - (k - 1)) = i + 1
        BY <2>4, <1>0
      <4> QED
        BY <3>2, <4>1, <4>2, <4>3, <2>4, <1>0
    <3> QED
      BY <3>1, <3>2
  <2> QED
    BY <2>4, <2>5
<1> HIDE DEF g
<1>2. ASSUME NEW i \in 1..Len(g), NEW j \in 1..Len(g), g[i] = g[j] PROVE i = j
  <2>1. At(i) = At(j)
    BY <1>1, <1>2 DEF Once
  <2> QED
    BY <2>1, <1>0, <1>1
<1>3. Once(g)
  BY <1>2 DEF Once
<1> QED
  BY <1>3 DEF g

\* Every step keeps the types.
LEMMA TypeStep ==
  ASSUME UidTyped, UidNext
  PROVE  UidTyped'
<1> USE ResolverAssumption
<1> DEFINE RS == Traffic(Requests)
           AS == Traffic(Messages \cup Dialogs)
<1>0. /\ resolving \in BOOLEAN /\ uidz \in People \cup Given \cup {0} /\ requests \in Seq(RS) /\ answers \in Seq(AS)
      /\ ignored \in Seq(People) /\ history \in History /\ Once(ignored)
  BY DEF UidTyped, UidTypeOK, Requests
<1>n. \A i \in 1..Len(requests) :
         requests[i].what \in {"ignore", "click", "remove"} => requests[i].who \in People
  BY DEF UidTyped, UidTypeOK
<1> DEFINE Names(q) == \A i \in 1..Len(q) : q[i].what \in {"ignore", "click", "remove"} => q[i].who \in People
<1>q. \A what \in Requests, who \in People \cup {0}, by \in {"proxy", "user"} : Req(what, who, by) \in RS
  BY DEF Req, Traffic
<1>a. \A what \in Messages \cup Dialogs, who \in People \cup {0}, by \in {"proxy", "user"} :
         Ans(what, who, by) \in AS
  BY DEF Ans, Traffic
<1>h. answers # << >> => Head(answers) \in AS /\ Tail(answers) \in Seq(AS)
  BY <1>0
<1>r. requests # << >> => Head(requests) \in RS /\ Tail(requests) \in Seq(RS)
  BY <1>0
<1>two. \A m, n \in RS : requests \o <<m, n>> \in Seq(RS)
  BY <1>0
<1>m. Names(requests)
  BY <1>n
<1>m2. ASSUME NEW m \in RS, NEW n \in RS, m.what \in {"ignore", "click", "remove"} => m.who \in People,
              n.what \in {"ignore", "click", "remove"} => n.who \in People
       PROVE  Names(requests \o <<m, n>>)
  BY <1>n, <1>0, <1>m2
<1>mt. requests # << >> => Names(Tail(requests)) /\ (Head(requests).what \in {"ignore", "click", "remove"} => Head(requests).who \in People)
  BY <1>n, <1>0
<1>m1. ASSUME NEW m \in RS, m.what \notin {"ignore", "click", "remove"} PROVE Names(Append(requests, m))
  BY <1>n, <1>0, <1>m1
<1> HIDE DEF Names
<1>one. /\ \A m \in RS : Append(requests, m) \in Seq(RS)
        /\ \A m \in AS : Append(answers, m) \in Seq(AS)
  BY <1>0
<1>w. \A m \in AS : m.who \in People \cup {0} /\ m.what \in Messages \cup Dialogs /\ m.by \in {"proxy", "user"}
  BY DEF Traffic
<1>v. \A m \in RS : m.who \in People \cup {0} /\ m.what \in Requests /\ m.by \in {"proxy", "user"}
  BY DEF Traffic
<1> HIDE DEF RS, AS
<1>k. /\ {"ignore", "friends", "showfriend", "friend_all", "click", "remove"} = Requests
      /\ {"personIgnored", "nobodyOnline", "cleverPerhaps"} = Messages
      /\ {"socialPortal", "showOffline", "stopIgnoring", "areYouSure", "nowAble", "emptyList"} = Dialogs
  BY DEF Requests, Messages, Dialogs
<1>1. ASSUME NEW p \in People, AskUid(p) PROVE UidTyped'
  <2>1. Req("ignore", p, "proxy") \in RS /\ Req("friends", 0, "proxy") \in RS
    BY <1>q, <1>k
  <2>2. requests' \in Seq(RS) /\ UNCHANGED <<uidz, answers, ignored>> /\ resolving' = TRUE
    BY <2>1, <1>two, <1>1 DEF AskUid
  <2>3. history' \in History
    BY <1>0, <1>1 DEF AskUid, History, Quiet
  <2>4. Names(requests')
    BY <2>1, <1>m2, <1>1 DEF AskUid, Req
  <2>5. UidTypeOK'
    BY <2>2, <2>4, <1>0 DEF UidTypeOK, RS, AS, Requests, Names
  <2>6. Once(ignored)'
    BY <2>2, <1>0 DEF Once
  <2> QED
    BY <2>3, <2>5, <2>6, Zenon DEF UidTyped
<1>2. ASSUME OnGameMessage PROVE UidTyped'
  <2>1. Req("showfriend", 0, "proxy") \in RS /\ Req("friend_all", 0, "proxy") \in RS
    BY <1>q, <1>k
  <2>b. requests \o <<Req("showfriend", 0, "proxy"), Req("friend_all", 0, "proxy")>> \in Seq(RS)
    BY <2>1, <1>two
  <2>c. requests' \in Seq(RS)
    BY <2>b, <1>2, <1>0 DEF OnGameMessage
  <2>d. answers' \in Seq(AS) /\ UNCHANGED <<uidz, ignored>> /\ resolving' \in BOOLEAN
    BY <1>2, <1>0, <1>h DEF OnGameMessage
  <2>2. requests' \in Seq(RS) /\ answers' \in Seq(AS) /\ UNCHANGED <<uidz, ignored>> /\ resolving' \in BOOLEAN
    BY <2>c, <2>d
  <2>3. history' \in History
    BY <1>0, <1>2 DEF OnGameMessage, History
  <2>a. Names(requests \o <<Req("showfriend", 0, "proxy"), Req("friend_all", 0, "proxy")>>)
    BY <2>1, <1>m2 DEF Req
  <2>4. Names(requests')
    BY <2>a, <1>m, <1>2 DEF OnGameMessage
  <2> QED
    BY <2>2, <2>3, <2>4, <1>0 DEF UidTyped, UidTypeOK, RS, AS, Requests, Names
<1>3. ASSUME OnDialogRequest PROVE UidTyped'
  <2> DEFINE d == Head(answers)
  <2>0. d \in AS /\ d.who \in People \cup {0}
    BY <1>3, <1>h, <1>w DEF OnDialogRequest
  <2>1. Req("click", d.who, "proxy") \in RS /\ Req("remove", d.who, "proxy") \in RS
    BY <2>0, <1>q, <1>k
  <2>2. requests' \in Seq(RS) /\ answers' \in Seq(AS) /\ UNCHANGED ignored /\ resolving' \in BOOLEAN
    BY <2>1, <1>two, <1>3, <1>0, <1>h DEF OnDialogRequest
  <2>3. uidz' \in People \cup Given \cup {0}
    BY <2>0, <1>3, <1>0 DEF OnDialogRequest
  <2>4. history' \in History
    BY <1>0, <1>3 DEF OnDialogRequest, History
  <2>a. d.who # 0 => Names(requests \o <<Req("click", d.who, "proxy"), Req("remove", d.who, "proxy")>>)
    BY <2>0, <2>1, <1>m2 DEF Req
  <2>5. Names(requests')
    BY <2>a, <1>m, <1>3 DEF OnDialogRequest
  <2> QED
    BY <2>2, <2>3, <2>4, <2>5, <1>0 DEF UidTyped, UidTypeOK, RS, AS, Requests, Names
<1>4. ASSUME Dropped PROVE UidTyped'
  <2>1. requests' \in Seq(RS) /\ answers' \in Seq(AS) /\ UNCHANGED <<resolving, uidz, ignored>>
    BY <1>4 DEF Dropped
  <2>2. history' \in History
    BY <1>0, <1>4 DEF Dropped, History, Quiet
  <2>3. Names(requests')
    BY <1>4 DEF Dropped, Names
  <2> QED
    BY <2>1, <2>2, <2>3, <1>0 DEF UidTyped, UidTypeOK, RS, AS, Requests, Names
<1>5. ASSUME OpenPortal PROVE UidTyped'
  <2>1. Req("friends", 0, "user") \in RS
    BY <1>q, <1>k
  <2>2. requests' \in Seq(RS) /\ UNCHANGED <<resolving, uidz, answers, ignored, history>>
    BY <2>1, <1>one, <1>5 DEF OpenPortal
  <2>3. Names(requests')
    BY <2>1, <1>m1, <1>5 DEF OpenPortal, Req
  <2> QED
    BY <2>2, <2>3, <1>0 DEF UidTyped, UidTypeOK, RS, AS, Requests, Names
<1>6. ASSUME ServerAnswers PROVE UidTyped'
  <2> DEFINE r == Head(requests)
             l == ignored
  <2>0. r \in RS /\ requests' \in Seq(RS) /\ UNCHANGED <<resolving, uidz, bound, history>>
    BY <1>6, <1>r DEF ServerAnswers
  <2>1. r.who \in People \cup {0} /\ r.by \in {"proxy", "user"}
    BY <2>0, <1>v
  <2>2. answers' \in Seq(AS)
    <3>1. ASSUME NEW what \in Messages \cup Dialogs, NEW who \in People \cup {0} PROVE Append(answers, Ans(what, who, r.by)) \in Seq(AS)
      BY <1>a, <1>one, <2>1
    <3>2. ignored # << >> => ReadId(ignored) \in People
      BY <1>0 DEF ReadId, Last
    <3> QED
      BY <3>1, <3>2, <2>1, <1>6, <1>k DEF ServerAnswers
  <2>3. ignored' \in Seq(People)
    <3>0. r.what = "ignore" => r.who \in People
      BY <1>6, <1>mt DEF ServerAnswers
    <3>1. r.what = "ignore" => Append(ignored, r.who) \in Seq(People)
      BY <3>0, <1>0
    <3>2. \A i \in DOMAIN ignored : RemoveAt(ignored, i) \in Seq(People)
      BY <1>0 DEF RemoveAt
    <3> QED
      BY <3>1, <3>2, <1>0, <1>6 DEF ServerAnswers
  <2>5. Once(ignored')
    <3>1. Contains(ignored, r.who) \/ Once(Append(ignored, r.who))
      BY <1>0, OnceAdded
    <3>2. \A i \in DOMAIN ignored : Once(RemoveAt(ignored, i))
      BY <1>0, OnceRemoved
    <3> QED
      BY <3>1, <3>2, <1>0, <1>6 DEF ServerAnswers
  <2>4. Names(requests')
    BY <1>6, <1>mt DEF ServerAnswers
  <2> QED
    BY <2>0, <2>2, <2>3, <2>4, <2>5, <1>0 DEF UidTyped, UidTypeOK, RS, AS, Requests, Names
<1>7. ASSUME NEW id \in Given, SetUidz(id) PROVE UidTyped'
  <2>1. uidz' \in People \cup Given \cup {0} /\ UNCHANGED <<resolving, requests, answers, ignored>>
    BY <1>7 DEF SetUidz
  <2>2. history' \in History
    BY <1>0, <1>7 DEF SetUidz, History
  <2> QED
    BY <2>1, <2>2, <1>0, <1>m DEF UidTyped, UidTypeOK, RS, AS, Requests, Names
<1> QED
  BY <1>1, <1>2, <1>3, <1>4, <1>5, <1>6, <1>7 DEF UidNext, UidStep, SessionEnds, ProcessEnds

-----------------------------------------------------------------------------
(* A resolution, from its first request to its last answer. *)

\* What travels, by what the proxy and the server hold.
LEMMA Travels ==
  ASSUME UidTyped
  PROVE  /\ answers \in Seq(Mail) /\ requests \in Seq(Mail) /\ Flight \in Seq(Mail)
         /\ Quiet <=> ~resolving /\ Own(Flight) = {}
<1>0. Traffic(Requests) \subseteq Mail /\ Traffic(Messages \cup Dialogs) \subseteq Mail
  BY DEF Mail, Traffic
<1>s. \A A, B : A \subseteq B => \A q \in Seq(A) : q \in Seq(B)
  OBVIOUS
<1>t. answers \in Seq(Traffic(Messages \cup Dialogs)) /\ requests \in Seq(Traffic(Requests))
  BY DEF UidTyped, UidTypeOK, Requests
<1>1. answers \in Seq(Mail) /\ requests \in Seq(Mail)
  BY <1>0, <1>t, <1>s
<1>2. Flight \in Seq(Mail) /\ Len(Flight) = Len(answers) + Len(requests)
      /\ (\A i \in 1..Len(answers) : Flight[i] = answers[i])
      /\ (\A i \in 1..Len(requests) : Flight[Len(answers) + i] = requests[i])
  BY <1>1, Joined DEF Flight
<1>3. /\ \A i \in 1..Len(answers) : answers[i].by \in {"proxy", "user"}
      /\ \A i \in 1..Len(requests) : requests[i].by \in {"proxy", "user"}
  <2>1. \A m \in Mail : m.by \in {"proxy", "user"}
    BY DEF Mail, Traffic
  <2> QED
    BY <1>1, <2>1
<1>4. ASSUME Own(Flight) = {}, ~resolving PROVE Quiet
  <2>1. ASSUME NEW i \in 1..Len(answers) PROVE answers[i].by = "user"
    <3>1. i \in 1..Len(Flight)
      BY <1>1, <1>2
    <3> QED
      BY <3>1, <1>2, <1>3, <1>4 DEF Own
  <2>2. ASSUME NEW i \in 1..Len(requests) PROVE requests[i].by = "user"
    <3>1. Len(answers) + i \in 1..Len(Flight)
      BY <1>1, <1>2
    <3> QED
      BY <3>1, <1>2, <1>3, <1>4 DEF Own
  <2> QED
    BY <2>1, <2>2, <1>1, <1>4 DEF Quiet
<1>5. ASSUME Quiet, NEW j \in Own(Flight) PROVE FALSE
  <2>1. /\ \A i \in 1..Len(answers) : answers[i].by = "user"
        /\ \A i \in 1..Len(requests) : requests[i].by = "user"
    BY <1>5, <1>1 DEF Quiet
  <2>2. j \in 1..Len(Flight) /\ Flight[j].by = "proxy"
    BY <1>5 DEF Own
  <2>3. CASE j <= Len(answers)
    BY <2>1, <2>2, <2>3, <1>1, <1>2
  <2>4. CASE j > Len(answers)
    <3>1. j - Len(answers) \in 1..Len(requests) /\ Len(answers) + (j - Len(answers)) = j
      BY <2>2, <2>4, <1>1, <1>2
    <3> QED
      BY <3>1, <2>1, <2>2, <1>2
  <2> QED
    BY <2>2, <2>3, <2>4, <1>1
<1>6. Quiet => ~resolving
  BY DEF Quiet
<1> QED
  BY <1>1, <1>2, <1>4, <1>5, <1>6

\* Of a resolution that is idle nothing is under way, and the other way round.
LEMMA IdleWhenQuiet ==
  ASSUME UidTyped, Phase
  PROVE  Quiet <=> Idle
<1>1. Quiet <=> ~resolving /\ Own(Flight) = {}
  BY Travels
<1>2. Idle => Quiet
  BY <1>1, UnderEmpty DEF Idle
<1>3. ASSUME Own(Flight) = {}, NEW K, Under(Flight, K) PROVE K = {}
  BY <1>3, UnderEmpty
<1>4. {2} # {}
  OBVIOUS
<1>5. Quiet => Idle
  BY <1>1, <1>3, <1>4 DEF Phase, Asking, Failing, Listing, Removing
<1> QED
  BY <1>2, <1>5

\* The phases in which a message of a stage can be the first of the resolution.
LEMMA Heads ==
  ASSUME UidTyped, Phase, Flight # << >>, Flight[1].by = "proxy"
  PROVE  LET s == Stage(Flight[1])
         IN  /\ s \in 1..6 /\ ~Idle
             /\ s = 1 => Asking
             /\ s = 2 => Failing \/ Listing({2, 3, 4})
             /\ s = 3 => Listing({3, 4})
             /\ s = 4 => Listing({4})
             /\ s = 5 => Removing({5, 6})
             /\ s = 6 => Removing({6})
<1> DEFINE s == Stage(Flight[1])
<1>0. Flight \in Seq(Mail)
  BY Travels
<1>1. ASSUME NEW K, Under(Flight, K) PROVE s \in K /\ \A k \in K : s <= k
  BY <1>0, <1>1, UnderTailProxy
<1> HIDE DEF s
<1>2. ~Idle
  BY <1>1 DEF Idle
<1>3. Asking => s = 1
  BY <1>1 DEF Asking
<1>4. Failing => s = 2
  BY <1>1 DEF Failing
<1>5. Listing({2, 3, 4}) => s = 2
  <2>1. Under(Flight, {2, 3, 4}) => s \in {2, 3, 4} /\ s <= 2
    BY <1>1
  <2> QED
    BY <2>1 DEF Listing
<1>6. Listing({3, 4}) => s = 3
  <2>1. Under(Flight, {3, 4}) => s \in {3, 4} /\ s <= 3
    BY <1>1
  <2> QED
    BY <2>1 DEF Listing
<1>7. Listing({4}) => s = 4
  BY <1>1 DEF Listing
<1>8. Removing({5, 6}) => s = 5
  <2>1. Under(Flight, {5, 6}) => s \in {5, 6} /\ s <= 5
    BY <1>1
  <2> QED
    BY <2>1 DEF Listing, Removing
<1>9. Removing({6}) => s = 6
  BY <1>1 DEF Listing, Removing
<1> QED
  BY <1>2, <1>3, <1>4, <1>5, <1>6, <1>7, <1>8, <1>9 DEF Phase, s

\* What is not answered yet does not change what the rest tells of the list.
LEMMA HonestTail ==
  ASSUME NEW S, NEW f \in Seq(S), f # << >>, NEW l, NEW b, NEW p, Honest(f, l, b, p)
  PROVE  Honest(Tail(f), l, b, p) /\ Consistent(f[1], l, b, p)
<1>1. \A i \in 1..Len(Tail(f)) : i + 1 \in 1..Len(f) /\ Tail(f)[i] = f[i + 1]
  OBVIOUS
<1>2. 1 \in 1..Len(f)
  OBVIOUS
<1> QED
  BY <1>1, <1>2 DEF Honest

\* A message that agrees with the list may join those that do.
LEMMA HonestAppend ==
  ASSUME NEW S, NEW f \in Seq(S), NEW m \in S, NEW l, NEW b, NEW p, Honest(f, l, b, p), Consistent(m, l, b, p)
  PROVE  Honest(Append(f, m), l, b, p)
<1> DEFINE g == Append(f, m)
<1>1. \A i \in 1..Len(g) : g[i] = m \/ (i \in 1..Len(f) /\ g[i] = f[i])
  OBVIOUS
<1> HIDE DEF g
<1>2. Honest(g, l, b, p)
  BY <1>1 DEF Honest
<1> QED
  BY <1>2 DEF g

\* What the user sends is consistent with every list.
LEMMA HonestUser ==
  ASSUME NEW f, Own(f) = {}, NEW l, NEW b, NEW p, Honest(f, l, b, p), NEW k, NEW c, NEW q
  PROVE  Honest(f, k, c, q)
<1>1. \A i \in 1..Len(f) : f[i].by # "proxy"
  BY DEF Own
<1> QED
  BY <1>1 DEF Honest, Consistent

\* What has to be the case for two messages of the proxy to be added.
Sendable(a, r, K, m, n, l, b, p) ==
    /\ a \in Seq(Mail) /\ r \in Seq(Mail)
    /\ m \in Mail /\ n \in Mail /\ m.by = "proxy" /\ n.by = "proxy"
    /\ Stage(m) < Stage(n) /\ \A k \in K : k < Stage(m)
    /\ Under(a \o r, K) /\ Honest(a \o r, l, b, p)
    /\ Consistent(m, l, b, p) /\ Consistent(n, l, b, p)

\* Two messages of the proxy are added.
LEMMA TwoSent ==
  ASSUME NEW a, NEW K, NEW m, NEW n, NEW l, NEW b, NEW p, Sendable(a, requests, K, m, n, l, b, p)
  PROVE  /\ Under(a \o (requests \o <<m, n>>), K \cup {Stage(m), Stage(n)})
         /\ Honest(a \o (requests \o <<m, n>>), l, b, p)
<1> USE DEF Sendable
<1> DEFINE f == a \o requests
           g == Append(Append(f, m), n)
<1>0. requests \in Seq(Mail) /\ f \in Seq(Mail) /\ Append(f, m) \in Seq(Mail)
  OBVIOUS
<1>1. a \o (requests \o <<m, n>>) = g
  <2>1. requests \o <<m, n>> = Append(Append(requests, m), n)
    BY <1>0, SentTwo
  <2>2. Append(requests, m) \in Seq(Mail)
    BY <1>0
  <2>3. a \o Append(Append(requests, m), n) = Append(a \o Append(requests, m), n)
    BY <2>2, JoinedSend
  <2>4. a \o Append(requests, m) = Append(f, m)
    BY <1>0, JoinedSend
  <2> QED
    BY <2>1, <2>3, <2>4
<1> HIDE DEF f
<1>2. Under(Append(f, m), K \cup {Stage(m)})
  BY <1>0, UnderProxy DEF f
<1>3. \A k \in K \cup {Stage(m)} : k < Stage(n)
  <2>1. Stage(m) \in Int /\ Stage(n) \in Int
    BY StageType
  <2>2. \A k \in K : k \in Int
    <3>1. ASSUME NEW k \in K PROVE k \in Int
      <4>1. PICK i \in Own(f) : Stage(f[i]) = k
        BY DEF Under, f
      <4> QED
        BY <4>1, StageType
    <3> QED
      BY <3>1
  <2> QED
    BY <2>1, <2>2
<1>4. Under(g, (K \cup {Stage(m)}) \cup {Stage(n)})
  BY <1>0, <1>2, <1>3, UnderProxy
<1>5. (K \cup {Stage(m)}) \cup {Stage(n)} = K \cup {Stage(m), Stage(n)}
  OBVIOUS
<1>6. Honest(Append(f, m), l, b, p)
  BY <1>0, HonestAppend DEF f
<1>7. Honest(g, l, b, p)
  BY <1>0, <1>6, HonestAppend
<1> QED
  BY <1>1, <1>4, <1>5, <1>7

\* The requests and the answers, their stages and what they tell.
LEMMA Sent ==
  ASSUME NEW what \in Requests \cup Messages \cup Dialogs, NEW who \in People \cup {0},
         NEW by \in {"proxy", "user"}
  PROVE  /\ Req(what, who, by) \in Mail /\ Req(what, who, by).by = by
         /\ Req(what, who, by).what = what /\ Req(what, who, by).who = who
         /\ Ans(what, who, by) = Req(what, who, by)
BY DEF Req, Ans, Mail, Traffic

\* The /uid command begins a resolution.
LEMMA AskStep ==
  ASSUME UidInv, NEW p \in People, AskUid(p), Undisturbed'
  PROVE  Progress'
<1>t. UidTyped /\ history \in History
  BY DEF UidInv, UidTyped
<1>1. Undisturbed /\ Quiet
  BY <1>t DEF AskUid, Undisturbed, History
<1>2. Progress /\ Idle
  BY <1>1, <1>t, IdleWhenQuiet DEF UidInv, Progress
<1> DEFINE m == Req("ignore", p, "proxy")
           n == Req("friends", 0, "proxy")
<1>3. m \in Mail /\ n \in Mail /\ m.by = "proxy" /\ n.by = "proxy" /\ m.what = "ignore" /\ n.what = "friends" /\ m.who = p
  BY Sent DEF Requests
<1> HIDE DEF m, n
<1>4. Stage(m) = 1 /\ Stage(n) = 2
  BY <1>3 DEF Stage
<1>5. Own(Flight) = {} /\ Under(Flight, {}) 
  BY <1>2, UnderEmpty DEF Idle
<1>6. Honest(Flight, ignored, ignored, p)
  BY <1>2, <1>5, HonestUser DEF Progress
<1>7. Consistent(m, ignored, ignored, p) /\ Consistent(n, ignored, ignored, p)
  BY <1>3, <1>5 DEF Consistent
<1>8. requests' = requests \o <<m, n>> /\ answers' = answers /\ resolving' = TRUE /\ ignored' = ignored
  BY DEF AskUid, m, n
<1>9. history'.asked = p /\ history'.before = ignored /\ ~history'.found /\ ~history'.leaked
  BY <1>t DEF AskUid, History
<1>10. Under(answers \o (requests \o <<m, n>>), {} \cup {Stage(m), Stage(n)})
       /\ Honest(answers \o (requests \o <<m, n>>), ignored, ignored, p)
  <2>1. answers \in Seq(Mail)
    BY <1>t, Travels
  <2>2. Stage(m) < Stage(n)
    BY <1>4
  <2>3. Under(answers \o requests, {}) /\ Honest(answers \o requests, ignored, ignored, p)
    BY <1>5, <1>6 DEF Flight
  <2>4. \A k \in {} : k < Stage(m)
    OBVIOUS
  <2>5. requests \in Seq(Mail)
    BY <1>t, Travels
  <2>6. Sendable(answers, requests, {}, m, n, ignored, ignored, p)
    BY <2>1, <2>2, <2>3, <2>4, <2>5, <1>3, <1>7 DEF Sendable
  <2> QED
    BY <2>6, TwoSent
<1>11. {} \cup {Stage(m), Stage(n)} = {1, 2}
  BY <1>4
<1>12. Flight' = answers \o (requests \o <<m, n>>)
  BY <1>8 DEF Flight
<1>13. Asking'
  BY <1>8, <1>9, <1>10, <1>11, <1>12 DEF Asking
<1>14. Honest(Flight, ignored, history.before, history.asked)'
  BY <1>8, <1>9, <1>10, <1>12
<1> QED
  BY <1>13, <1>14, <1>9 DEF Progress, Phase

\* What handling the first message leaves under way.
LEMMA Taken ==
  ASSUME UidTyped, Progress, answers # << >>
  PROVE  LET f == Tail(answers) \o requests
             h == Head(answers)
         IN  /\ Flight # << >> /\ Flight[1] = h /\ h \in Mail /\ Tail(answers) \in Seq(Mail)
             /\ f = Tail(Flight) /\ f \in Seq(Mail)
             /\ Honest(f, ignored, history.before, history.asked) /\ Consistent(h, ignored, history.before, history.asked)
             /\ h.by # "proxy" => \A K : Under(Flight, K) => Under(f, K)
             /\ h.by = "proxy" => \A K : Under(Flight, K) => Under(f, K \ {Stage(h)})
<1> DEFINE f == Tail(answers) \o requests
           h == Head(answers)
<1>0. answers \in Seq(Mail) /\ requests \in Seq(Mail) /\ Flight \in Seq(Mail)
  BY Travels
<1>1. Flight # << >> /\ Flight[1] = answers[1] /\ f = Tail(Flight)
  BY <1>0, JoinedTail DEF Flight
<1>2. answers[1] = h /\ h \in Mail /\ Tail(answers) \in Seq(Mail)
  BY <1>0
<1>3. Tail(Flight) \in Seq(Mail)
  BY <1>0, <1>1
<1>4. Honest(Tail(Flight), ignored, history.before, history.asked) /\ Consistent(Flight[1], ignored, history.before, history.asked)
  BY <1>0, <1>1, HonestTail DEF Progress
<1> HIDE DEF f, h
<1>5. ASSUME h.by # "proxy", NEW K, Under(Flight, K) PROVE Under(f, K)
  BY <1>0, <1>1, <1>2, <1>5, UnderTailUser
<1>6. ASSUME h.by = "proxy", NEW K, Under(Flight, K) PROVE Under(f, K \ {Stage(h)})
  BY <1>0, <1>1, <1>2, <1>6, UnderTailProxy
<1> QED
  BY <1>1, <1>2, <1>3, <1>4, <1>5, <1>6 DEF f, h

\* The phase and the list stay as they are while the flight keeps its stages.
LEMMA SamePhase ==
  ASSUME Progress, UNCHANGED <<resolving, uidz, ignored, history>>,
         \A K : Under(Flight, K) => Under(Flight, K)',
         Honest(Flight, ignored, history.before, history.asked)'
  PROVE  Progress'
<1>1. (Idle => Idle') /\ (Asking => Asking') /\ (Failing => Failing')
  BY DEF Idle, Asking, Failing, ReadOff
<1>2. \A K : (Listing(K) => Listing(K)') /\ (Removing(K) => Removing(K)')
  BY DEF Listing, Removing, ReadOff
<1>3. Phase'
  BY <1>1, <1>2 DEF Progress, Phase
<1>4. ~Idle' => history'.asked \in People
  BY <1>1 DEF Progress
<1> QED
  BY <1>3, <1>4 DEF Progress

\* The server's messages lead on, or end the resolution.
LEMMA MessageStep ==
  ASSUME UidInv, OnGameMessage, Undisturbed'
  PROVE  Progress'
<1>t. UidTyped /\ history \in History /\ answers # << >>
  BY DEF UidInv, UidTyped, OnGameMessage
<1>1. Undisturbed
  BY <1>t DEF OnGameMessage, Undisturbed, History
<1>2. Progress /\ Phase
  BY <1>1 DEF UidInv, Progress
<1> DEFINE f == Tail(answers) \o requests
           h == Head(answers)
<1>3. /\ Flight # << >> /\ Flight[1] = h /\ h \in Mail /\ Tail(answers) \in Seq(Mail) /\ f \in Seq(Mail)
      /\ Honest(f, ignored, history.before, history.asked) /\ Consistent(h, ignored, history.before, history.asked)
      /\ h.by = "proxy" => \A K : Under(Flight, K) => Under(f, K \ {Stage(h)})
  BY <1>t, <1>2, Taken
<1>4. h.what \in Messages /\ answers' = Tail(answers) /\ UNCHANGED <<uidz, ignored>>
  BY DEF OnGameMessage
<1>5. h.by = "proxy" /\ Stage(h) = 1
  <2>1. h.what \notin {"friends", "socialPortal"}
    BY <1>4 DEF Messages
  <2>2. h.by \in {"proxy", "user"}
    BY <1>3 DEF Mail, Traffic
  <2> QED
    BY <2>1, <2>2, <1>3, <1>4 DEF Consistent, Stage, Messages
<1>6. Asking /\ ~Idle
  BY <1>t, <1>2, <1>3, <1>5, Heads
<1>7. Under(f, {2})
  <2>1. Under(f, {1, 2} \ {1})
    BY <1>3, <1>5, <1>6 DEF Asking
  <2>2. {1, 2} \ {1} = {2}
    OBVIOUS
  <2> QED
    BY <2>1, <2>2
<1>8. resolving /\ history.asked \in People
  BY <1>2, <1>6 DEF Progress, Asking
<1>9. CASE h.what = "personIgnored"
  <2> DEFINE m == Req("showfriend", 0, "proxy")
             n == Req("friend_all", 0, "proxy")
  <2>1. m \in Mail /\ n \in Mail /\ m.by = "proxy" /\ n.by = "proxy" /\ m.what = "showfriend" /\ n.what = "friend_all"
    BY Sent DEF Requests
  <2>2. requests' = requests \o <<m, n>> /\ resolving' = resolving /\ history' = [history EXCEPT !.found = TRUE]
    BY <1>9, <1>8 DEF OnGameMessage
  <2> HIDE DEF m, n
  <2>3. Stage(m) = 3 /\ Stage(n) = 4
    BY <2>1 DEF Stage
  <2>4. Consistent(m, ignored, history.before, history.asked) /\ Consistent(n, ignored, history.before, history.asked)
    BY <2>1, <1>3, <1>5, <1>9 DEF Consistent
  <2>5. \A k \in {2} : k < Stage(m)
    BY <2>3
  <2>6. Stage(m) < Stage(n)
    BY <2>3
  <2>7. /\ Under(Tail(answers) \o (requests \o <<m, n>>), {2} \cup {Stage(m), Stage(n)})
        /\ Honest(Tail(answers) \o (requests \o <<m, n>>), ignored, history.before, history.asked)
    <3>1. requests \in Seq(Mail)
      BY <1>t, Travels
    <3>2. Sendable(Tail(answers), requests, {2}, m, n, ignored, history.before, history.asked)
      BY <2>1, <2>4, <2>5, <2>6, <3>1, <1>3, <1>7 DEF Sendable
    <3> QED
      BY <3>2, TwoSent
  <2>8. {2} \cup {Stage(m), Stage(n)} = {2, 3, 4}
    BY <2>3
  <2>9. Flight' = Tail(answers) \o (requests \o <<m, n>>)
    BY <2>2, <1>4 DEF Flight
  <2>10. history'.asked = history.asked /\ history'.before = history.before /\ history'.found /\ history'.leaked = history.leaked
    BY <2>2, <1>t DEF History
  <2>11. Listing({2, 3, 4})'
    BY <2>2, <2>7, <2>8, <2>9, <2>10, <1>6, <1>8 DEF Listing, Asking
  <2>12. Honest(Flight, ignored, history.before, history.asked)'
    BY <2>7, <2>9, <2>10, <1>4
  <2> QED
    BY <2>11, <2>12, <2>10, <1>8 DEF Progress, Phase
<1>10. CASE h.what # "personIgnored"
  <2>1. resolving' = FALSE /\ requests' = requests /\ history' = history
    BY <1>10, <1>8, <1>4 DEF OnGameMessage, Messages
  <2>2. ignored = history.before
    BY <1>3, <1>4, <1>5, <1>10 DEF Consistent, Messages
  <2>3. Flight' = f
    BY <2>1, <1>4 DEF Flight
  <2>4. Failing'
    BY <2>1, <2>2, <2>3, <1>4, <1>6, <1>7 DEF Failing, Asking
  <2>5. Honest(Flight, ignored, history.before, history.asked)'
    BY <2>1, <2>3, <1>3, <1>4
  <2> QED
    BY <2>1, <2>4, <2>5, <1>8 DEF Progress, Phase
<1> QED
  BY <1>9, <1>10

\* The dialogs lead on, or end the resolution.
LEMMA DialogStep ==
  ASSUME UidInv, OnDialogRequest, Undisturbed'
  PROVE  Progress'
<1>t. UidTyped /\ history \in History /\ answers # << >>
  BY DEF UidInv, UidTyped, OnDialogRequest
<1>1. Undisturbed
  BY <1>t DEF OnDialogRequest, Undisturbed, History
<1>2. Progress /\ Phase
  BY <1>1 DEF UidInv, Progress
<1> DEFINE f == Tail(answers) \o requests
           h == Head(answers)
<1>3. /\ Flight # << >> /\ Flight[1] = h /\ h \in Mail /\ Tail(answers) \in Seq(Mail) /\ f \in Seq(Mail)
      /\ Honest(f, ignored, history.before, history.asked) /\ Consistent(h, ignored, history.before, history.asked)
      /\ h.by # "proxy" => \A K : Under(Flight, K) => Under(f, K)
      /\ h.by = "proxy" => \A K : Under(Flight, K) => Under(f, K \ {Stage(h)})
  BY <1>t, <1>2, Taken
<1>4. h.what \in Dialogs /\ answers' = Tail(answers) /\ UNCHANGED <<ignored, bound>>
  BY DEF OnDialogRequest
<1>5. h.by \in {"proxy", "user"}
  BY <1>3 DEF Mail, Traffic
<1>a. ~Idle => history.asked \in People
  BY <1>2 DEF Progress
<1>6. CASE h.by = "user"
  <2>1. h.what = "socialPortal"
    BY <1>3, <1>4, <1>6 DEF Consistent, Dialogs
  <2>2. UNCHANGED <<resolving, uidz, requests>>
    BY <2>1 DEF OnDialogRequest, Hidden
  <2>3. history' = history
    <3>1. history' = history \/ history' = [history EXCEPT !.leaked = history.leaked \/ h.by = "proxy"]
      BY <2>1 DEF OnDialogRequest, Hidden
    <3>2. (history.leaked \/ h.by = "proxy") = history.leaked
      BY <1>6, <1>t DEF History
    <3> QED
      BY <3>1, <3>2, <1>t DEF History
  <2>4. Flight' = f
    BY <2>2, <1>4 DEF Flight
  <2>5. \A K : Under(Flight, K) => Under(Flight, K)'
    BY <2>4, <1>3, <1>6
  <2>6. Honest(Flight, ignored, history.before, history.asked)'
    BY <2>3, <2>4, <1>3, <1>4
  <2> QED
    BY <2>2, <2>3, <2>5, <2>6, <1>2, <1>4, SamePhase
<1>7. CASE h.by = "proxy"
  <2>0. ~Idle /\ Stage(h) \in 1..6
    BY <1>t, <1>2, <1>3, <1>7, Heads
  <2>a. history.asked \in People
    BY <2>0, <1>a
  <2>1. \A K : Under(Flight, K) => Under(f, K \ {Stage(h)})
    BY <1>3, <1>7
  <2>c. h.what \in {"socialPortal", "showOffline", "stopIgnoring", "areYouSure", "nowAble"}
    BY <2>0, <1>4 DEF Stage, Dialogs
  <2>2. CASE h.what = "socialPortal"
    <3>1. Stage(h) = 2
      BY <2>2 DEF Stage
    <3>2. Failing \/ Listing({2, 3, 4})
      BY <3>1, <1>t, <1>2, <1>3, <1>7, Heads
    <3>3. CASE Listing({2, 3, 4})
      <4>1. UNCHANGED <<resolving, uidz, requests, history>>
        BY <3>3, <2>2 DEF OnDialogRequest, Hidden, Listing
      <4>2. Flight' = f
        BY <4>1, <1>4 DEF Flight
      <4>3. {2, 3, 4} \ {2} = {3, 4}
        OBVIOUS
      <4>4. Under(f, {3, 4})
        BY <2>1, <3>1, <3>3, <4>3 DEF Listing
      <4>5. Listing({3, 4})'
        BY <3>3, <4>1, <4>2, <4>4 DEF Listing
      <4>6. Honest(Flight, ignored, history.before, history.asked)'
        BY <4>1, <4>2, <1>3, <1>4
      <4> QED
        BY <4>1, <4>5, <4>6, <2>a DEF Progress, Phase
    <3>4. CASE Failing
      <4>1. UNCHANGED <<resolving, uidz, requests>> /\ history' = [history EXCEPT !.leaked = history.leaked \/ h.by = "proxy"]
        BY <3>4, <2>2 DEF OnDialogRequest, Hidden, Failing
      <4>2. Flight' = f
        BY <4>1, <1>4 DEF Flight
      <4>3. {2} \ {2} = {}
        OBVIOUS
      <4>4. Under(f, {})
        BY <2>1, <3>1, <3>4, <4>3 DEF Failing
      <4>5. history'.asked = history.asked /\ history'.before = history.before /\ history'.found = history.found
        BY <4>1, <1>t DEF History
      <4>6. Idle'
        BY <3>4, <4>1, <4>2, <4>4, <4>5, <1>4 DEF Idle, Failing
      <4>7. Honest(Flight, ignored, history.before, history.asked)'
        BY <4>5, <4>2, <1>3, <1>4
      <4> QED
        BY <4>6, <4>7 DEF Progress, Phase
    <3> QED
      BY <3>2, <3>3, <3>4
  <2>3. CASE h.what = "showOffline"
    <3>1. Stage(h) = 3
      BY <2>3 DEF Stage
    <3>2. Listing({3, 4})
      BY <3>1, <1>t, <1>2, <1>3, <1>7, Heads
    <3>3. UNCHANGED <<resolving, uidz, requests, history>>
      BY <3>2, <2>3 DEF OnDialogRequest, Hidden, Listing
    <3>4. Flight' = f
      BY <3>3, <1>4 DEF Flight
    <3>5. {3, 4} \ {3} = {4}
      OBVIOUS
    <3>6. Under(f, {4})
      BY <2>1, <3>1, <3>2, <3>5 DEF Listing
    <3>7. Listing({4})'
      BY <3>2, <3>3, <3>4, <3>6 DEF Listing
    <3>8. Honest(Flight, ignored, history.before, history.asked)'
      BY <3>3, <3>4, <1>3, <1>4
    <3> QED
      BY <3>3, <3>7, <3>8, <2>a DEF Progress, Phase
  <2>4. CASE h.what = "stopIgnoring"
    <3>1. Stage(h) = 4
      BY <2>4 DEF Stage
    <3>2. Listing({4}) /\ resolving
      BY <3>1, <1>t, <1>2, <1>3, <1>7, Heads DEF Listing
    <3>3. ignored = Listed(history.before, history.asked)
          /\ h.who \in {Last(Listed(history.before, history.asked)), 0}
      BY <2>4, <1>3, <1>7 DEF Consistent
    <3>4. h.who # 0
      <4>1. h.who = 0 => history' = [history EXCEPT !.odd = TRUE]
        BY <3>2, <2>4 DEF OnDialogRequest, Hidden
      <4> QED
        BY <4>1, <1>t DEF Undisturbed, History
    <3> DEFINE m == Req("click", h.who, "proxy")
               n == Req("remove", h.who, "proxy")
    <3>5. uidz' = h.who /\ requests' = requests \o <<m, n>> /\ resolving' = resolving
          /\ history' = [history EXCEPT !.set = FALSE]
      BY <3>2, <3>4, <2>4 DEF OnDialogRequest, Hidden
    <3>6. /\ m \in Mail /\ n \in Mail /\ m.by = "proxy" /\ n.by = "proxy" /\ m.what = "click"
          /\ n.what = "remove" /\ n.who = Last(Listed(history.before, history.asked))
      <4>1. h.who \in People \cup {0}
        BY <1>3 DEF Mail, Traffic
      <4> QED
        BY <4>1, <3>3, <3>4, Sent DEF Requests
    <3> HIDE DEF m, n
    <3>7. Stage(m) = 5 /\ Stage(n) = 6
      BY <3>6 DEF Stage
    <3>8. {4} \ {4} = {}
      OBVIOUS
    <3>9. Under(f, {})
      BY <2>1, <3>1, <3>2, <3>8 DEF Listing
    <3>10. Consistent(m, ignored, history.before, history.asked) /\ Consistent(n, ignored, history.before, history.asked)
      BY <3>6, <3>3 DEF Consistent
    <3>11. Sendable(Tail(answers), requests, {}, m, n, ignored, history.before, history.asked)
      <4>1. requests \in Seq(Mail)
        BY <1>t, Travels
      <4>2. (\A k \in {} : k < Stage(m)) /\ Stage(m) < Stage(n)
        BY <3>7
      <4> QED
        BY <4>1, <4>2, <3>6, <3>9, <3>10, <1>3 DEF Sendable
    <3>12. /\ Under(Tail(answers) \o (requests \o <<m, n>>), {} \cup {Stage(m), Stage(n)})
           /\ Honest(Tail(answers) \o (requests \o <<m, n>>), ignored, history.before, history.asked)
      BY <3>11, TwoSent
    <3>13. {} \cup {Stage(m), Stage(n)} = {5, 6}
      BY <3>7
    <3>14. Flight' = Tail(answers) \o (requests \o <<m, n>>)
      BY <3>5, <1>4 DEF Flight
    <3>18. history'.asked = history.asked /\ history'.before = history.before
           /\ history'.found = history.found /\ history'.leaked = history.leaked
      BY <3>5, <1>t DEF History
    <3>15. Listing({5, 6})'
      BY <3>2, <3>5, <3>12, <3>13, <3>14, <3>18 DEF Listing
    <3>16. Removing({5, 6})'
      BY <3>15, <3>3, <3>4, <3>5, <3>18 DEF Removing, ReadOff
    <3>17. Honest(Flight, ignored, history.before, history.asked)'
      BY <3>12, <3>14, <3>18, <1>4
    <3> QED
      BY <3>18, <3>16, <3>17, <2>a DEF Progress, Phase
  <2>5. CASE h.what = "areYouSure"
    <3>1. Stage(h) = 5
      BY <2>5 DEF Stage
    <3>2. Removing({5, 6})
      BY <3>1, <1>t, <1>2, <1>3, <1>7, Heads
    <3>3. UNCHANGED <<resolving, uidz, requests, history>>
      BY <3>2, <2>5 DEF OnDialogRequest, Hidden
    <3>4. Flight' = f
      BY <3>3, <1>4 DEF Flight
    <3>5. {5, 6} \ {5} = {6}
      OBVIOUS
    <3>6. Under(f, {6})
      BY <2>1, <3>1, <3>2, <3>5 DEF Removing, Listing
    <3>7. Removing({6})'
      BY <3>2, <3>3, <3>4, <3>6 DEF Removing, Listing, ReadOff
    <3>8. Honest(Flight, ignored, history.before, history.asked)'
      BY <3>3, <3>4, <1>3, <1>4
    <3> QED
      BY <3>3, <3>7, <3>8, <2>a DEF Progress, Phase
  <2>6. CASE h.what = "nowAble"
    <3>1. Stage(h) = 6
      BY <2>6 DEF Stage
    <3>2. Removing({6}) /\ resolving
      BY <3>1, <1>t, <1>2, <1>3, <1>7, Heads DEF Removing, Listing
    <3>3. resolving' = FALSE /\ UNCHANGED <<uidz, requests, history>>
      BY <3>2, <2>6 DEF OnDialogRequest, Hidden
    <3>4. Flight' = f
      BY <3>3, <1>4 DEF Flight
    <3>5. {6} \ {6} = {}
      OBVIOUS
    <3>6. Under(f, {})
      BY <2>1, <3>1, <3>2, <3>5 DEF Removing, Listing
    <3>7. ignored = Front(Listed(history.before, history.asked))
      BY <2>6, <1>3, <1>7 DEF Consistent
    <3>8. Idle'
      BY <3>2, <3>3, <3>4, <3>6, <3>7, <1>4 DEF Removing, Listing, Idle, ReadOff
    <3>9. Honest(Flight, ignored, history.before, history.asked)'
      BY <3>3, <3>4, <1>3, <1>4
    <3> QED
      BY <3>8, <3>9 DEF Progress, Phase
  <2> QED
    BY <2>c, <2>2, <2>3, <2>4, <2>5, <2>6
<1> QED
  BY <1>5, <1>6, <1>7

\* A session, or the process, that ends while nothing is under way leaves nothing behind.
LEMMA EndsStep ==
  ASSUME UidInv, Dropped, Undisturbed'
  PROVE  Progress'
<1>t. UidTyped /\ history \in History
  BY DEF UidInv, UidTyped
<1>1. Undisturbed /\ Quiet /\ history'.asked = history.asked /\ history'.found = history.found
      /\ history'.leaked = history.leaked /\ history'.before = history.before /\ history'.set = history.set
  BY <1>t DEF Dropped, Undisturbed, History
<1>2. Idle
  BY <1>1, <1>t, IdleWhenQuiet DEF UidInv, Progress
<1>3. Flight' = << >> /\ UNCHANGED <<resolving, uidz, ignored>>
  BY DEF Dropped, Flight
<1>4. Under(Flight', {})
  BY <1>3, UnderNone
<1>5. Idle'
  BY <1>1, <1>2, <1>3, <1>4 DEF Idle, ReadOff
<1>6. Honest(Flight, ignored, history.before, history.asked)'
  BY <1>3 DEF Honest
<1> QED
  BY <1>5, <1>6 DEF Progress, Phase

\* /setuid writes the id, and is known to have done so.
LEMMA SetStep ==
  ASSUME UidInv, NEW id, SetUidz(id), Undisturbed'
  PROVE  Progress'
<1>t. history \in History
  BY DEF UidInv, UidTyped
<1>1. UNCHANGED <<resolving, requests, answers, ignored>> /\ history' = [history EXCEPT !.set = TRUE]
  BY DEF SetUidz
<1>2. /\ history'.set /\ history'.asked = history.asked /\ history'.before = history.before
      /\ history'.found = history.found /\ history'.leaked = history.leaked
  BY <1>1, <1>t DEF History
<1>3. Progress
  BY <1>1, <1>t DEF UidInv, Undisturbed, History
<1>4. Flight' = Flight
  BY <1>1 DEF Flight
<1>5. ReadOff'
  BY <1>2 DEF ReadOff
<1>6. (Idle => Idle') /\ (Asking => Asking') /\ (Failing => Failing')
  BY <1>1, <1>2, <1>4, <1>5 DEF Idle, Asking, Failing
<1>7. \A K : (Listing(K) => Listing(K)') /\ (Removing(K) => Removing(K)')
  BY <1>1, <1>2, <1>4, <1>5 DEF Listing, Removing
<1> QED
  BY <1>1, <1>2, <1>3, <1>4, <1>6, <1>7 DEF Progress, Phase

\* The portal that the client opens is not of the resolution.
LEMMA PortalStep ==
  ASSUME UidInv, OpenPortal, Undisturbed'
  PROVE  Progress'
<1>t. UidTyped
  BY DEF UidInv
<1>1. Undisturbed /\ UNCHANGED <<resolving, uidz, answers, ignored, history>>
  BY DEF OpenPortal, Undisturbed
<1>2. Progress
  BY <1>1 DEF UidInv
<1> DEFINE m == Req("friends", 0, "user")
<1>3. m \in Mail /\ m.by = "user" /\ m.what = "friends"
  BY Sent DEF Requests
<1>4. requests' = Append(requests, m)
  BY DEF OpenPortal
<1> HIDE DEF m
<1>5. answers \in Seq(Mail) /\ requests \in Seq(Mail) /\ Flight \in Seq(Mail)
  BY <1>t, Travels
<1>6. Flight' = Append(Flight, m)
  BY <1>1, <1>3, <1>4, <1>5, JoinedSend DEF Flight
<1>7. m.by # "proxy"
  BY <1>3
<1>8. \A K : Under(Flight, K) => Under(Flight, K)'
  <2>1. ASSUME NEW K, Under(Flight, K) PROVE Under(Append(Flight, m), K)
    BY <2>1, <1>3, <1>5, <1>7, UnderUser
  <2> QED
    BY <2>1, <1>6
<1>9. Honest(Flight, ignored, history.before, history.asked)'
  <2>1. Consistent(m, ignored, history.before, history.asked)
    BY <1>3 DEF Consistent
  <2>2. Honest(Append(Flight, m), ignored, history.before, history.asked)
    BY <2>1, <1>2, <1>3, <1>5, HonestAppend DEF Progress
  <2> QED
    BY <2>2, <1>1, <1>6
<1> QED
  BY <1>1, <1>2, <1>8, <1>9, SamePhase

\* The list with the player on it: its last entry is what is read, and is all that is
\* taken off.
LEMMA ListedPlayer ==
  ASSUME NEW b \in Seq(People), NEW p \in People
  PROVE  LET l == Listed(b, p)
             w == Last(l)
         IN  /\ l # << >> /\ ReadId(l) = w /\ w \in People /\ Contains(l, w)
             /\ Once(l) => \A i \in DOMAIN l : l[i] = w => RemoveAt(l, i) = Front(l)
<1> DEFINE l == Listed(b, p)
           n == Len(l)
<1>1. l \in Seq(People) /\ l # << >>
  BY DEF Listed, Contains
<1> HIDE DEF l
<1>2. n \in Nat /\ n >= 1 /\ DOMAIN l = 1..n /\ l[n] \in People
  BY <1>1
<1>3. Last(l) = l[n] /\ ReadId(l) = Last(l) /\ Contains(l, Last(l))
  BY <1>2 DEF Last, ReadId, Contains
<1>4. ASSUME Once(l), NEW i \in DOMAIN l, l[i] = Last(l) PROVE RemoveAt(l, i) = Front(l)
  <2>1. i = n
    BY <1>2, <1>3, <1>4 DEF Once
  <2> DEFINE s == SubSeq(l, 1, n - 1)
             e == SubSeq(l, n + 1, n)
  <2>2. RemoveAt(l, i) = s \o e /\ Front(l) = s
    BY <2>1 DEF RemoveAt, Front
  <2>3. s \in Seq(People) /\ e = << >>
    BY <1>1, <1>2
  <2> QED
    BY <2>2, <2>3
<1> QED
  BY <1>1, <1>2, <1>3, <1>4 DEF l

\* A player who was not on the list is its last entry, and the rest is as before.
LEMMA ListedNew ==
  ASSUME NEW b \in Seq(People), NEW p, ~Contains(b, p)
  PROVE  Front(Listed(b, p)) = b /\ Last(Listed(b, p)) = p
<1> DEFINE l == Append(b, p)
           s == SubSeq(l, 1, Len(b))
<1>1. Listed(b, p) = l
  BY DEF Listed
<1>2. Len(l) = Len(b) + 1 /\ l[Len(b) + 1] = p /\ Len(b) \in Nat
  OBVIOUS
<1>3. s \in Seq(People) /\ Len(s) = Len(b) /\ \A i \in 1..Len(b) : s[i] = b[i]
  OBVIOUS
<1>4. s = b
  BY <1>3, SeqEqual
<1>5. Len(l) - 1 = Len(b)
  BY <1>2
<1> HIDE DEF l
<1> QED
  BY <1>1, <1>2, <1>4, <1>5 DEF Front, Last

\* The server's answer takes the place of the request, of the same stage.
LEMMA Answered ==
  ASSUME UidTyped, requests # << >>, NEW m \in Mail, m.by = Head(requests).by,
         m.by = "proxy" => Stage(m) = Stage(Head(requests)),
         answers' = Append(answers, m), requests' = Tail(requests)
  PROVE  /\ \A K : Under(Flight, K) => Under(Flight', K)
         /\ \E n \in 1..Len(Flight) :
               /\ Flight[n] = Head(requests)
               /\ \A i \in 1..Len(Flight') :
                     Flight'[i] = m \/ (i \in 1..Len(Flight) /\ i # n /\ Flight'[i] = Flight[i])
<1> DEFINE g == Append(answers, m) \o Tail(requests)
           n == Len(answers) + 1
<1>0. answers \in Seq(Mail) /\ requests \in Seq(Mail) /\ Flight \in Seq(Mail)
  BY Travels
<1>1. /\ g \in Seq(Mail) /\ Len(g) = Len(Flight) /\ n \in 1..Len(Flight)
      /\ Flight[n] = requests[1] /\ g[n] = m
      /\ \A i \in 1..Len(Flight) : i # n => g[i] = Flight[i]
  BY <1>0, JoinedAnswer DEF Flight
<1>2. Flight' = g
  BY DEF Flight
<1>3. requests[1] = Head(requests)
  BY <1>0
<1> HIDE DEF g, n
<1>4. ASSUME NEW i \in 1..Len(Flight)
      PROVE  g[i].by = Flight[i].by /\ (Flight[i].by = "proxy" => Stage(g[i]) = Stage(Flight[i]))
  BY <1>1, <1>3
<1>5. ASSUME NEW K, Under(Flight, K) PROVE Under(g, K)
  BY <1>0, <1>1, <1>4, <1>5, UnderSame
<1>6. \A i \in 1..Len(g) : g[i] = m \/ (i \in 1..Len(Flight) /\ i # n /\ g[i] = Flight[i])
  BY <1>1
<1> QED
  BY <1>1, <1>2, <1>3, <1>5, <1>6

\* The list changes while only messages that tell nothing of it are under way.
LEMMA OthersSilent ==
  ASSUME UidTyped, Progress, NEW n \in 1..Len(Flight), Flight[n].by = "proxy",
         Flight[n].what \in {"ignore", "remove"},
         NEW i \in 1..Len(Flight), i # n, NEW l
  PROVE  Consistent(Flight[i], l, history.before, history.asked)
<1>0. Flight \in Seq(Mail) /\ Flight[i] \in Mail
  <2>1. Flight \in Seq(Mail)
    BY Travels
  <2> QED
    BY <2>1
<1>1. Consistent(Flight[i], ignored, history.before, history.asked)
  BY DEF Progress, Honest
<1>2. CASE Flight[i].by # "proxy"
  BY <1>1, <1>2 DEF Consistent
<1>3. CASE Flight[i].by = "proxy"
  <2>0. n \in Own(Flight) /\ i \in Own(Flight) /\ n \in Nat /\ i \in Nat
    BY <1>3 DEF Own
  <2> DEFINE s == Stage(Flight[n])
             t == Stage(Flight[i])
  <2>1. s = 1 \/ s = 6
    BY DEF Stage
  <2>2. ASSUME NEW K, Under(Flight, K) PROVE s \in K /\ t \in K /\ s # t
    <3>1. s \in 1..7 /\ t \in 1..7
      BY StageType
    <3>2. \A j, k \in Own(Flight) : j < k => Stage(Flight[j]) < Stage(Flight[k])
      BY <2>2 DEF Under
    <3>3. (n < i => s < t) /\ (i < n => t < s)
      BY <2>0, <3>2
    <3>4. n < i \/ i < n
      BY <2>0
    <3> HIDE DEF s, t
    <3>5. s # t
      BY <3>1, <3>3, <3>4
    <3>6. s \in K /\ t \in K
      BY <2>0, <2>2 DEF Under, s, t
    <3> QED
      BY <3>5, <3>6
  <2> HIDE DEF s, t
  <2>3. ~Idle /\ ~Failing /\ ~Listing({2, 3, 4}) /\ ~Listing({3, 4}) /\ ~Listing({4})
    BY <2>1, <2>2 DEF Idle, Failing, Listing
  <2>4. Asking => t = 2
    <3>1. Asking => s \in {1, 2} /\ t \in {1, 2} /\ s # t
      BY <2>2 DEF Asking
    <3> QED
      BY <3>1, <2>1
  <2>5. Removing({5, 6}) => t = 5
    <3>1. Removing({5, 6}) => s \in {5, 6} /\ t \in {5, 6} /\ s # t
      BY <2>2 DEF Removing, Listing
    <3> QED
      BY <3>1, <2>1
  <2>6. Removing({6}) => FALSE
    BY <2>2 DEF Removing, Listing
  <2>7. t = 2 \/ t = 5
    BY <2>3, <2>4, <2>5, <2>6 DEF Progress, Phase
  <2>8. Flight[i].what \in {"friends", "socialPortal", "click", "areYouSure"}
    BY <2>7 DEF t, Stage
  <2> QED
    BY <1>3, <2>8 DEF Consistent
<1> QED
  BY <1>2, <1>3

\* The list changes while the phase does not depend on it.
LEMMA PhaseOfList ==
  ASSUME UidTyped, Progress, NEW n \in 1..Len(Flight), Flight[n].by = "proxy",
         Flight[n].what \in {"ignore", "remove"},
         UNCHANGED <<resolving, uidz, history>>, \A K : Under(Flight, K) => Under(Flight', K)
  PROVE  Phase' /\ ~Idle
<1>0. n \in Own(Flight)
  BY DEF Own
<1>1. Stage(Flight[n]) = 1 \/ Stage(Flight[n]) = 6
  BY DEF Stage
<1>2. ASSUME NEW K, Under(Flight, K) PROVE Stage(Flight[n]) \in K
  BY <1>0, <1>2 DEF Under
<1>3. ~Idle /\ ~Failing
  BY <1>1, <1>2 DEF Idle, Failing
<1>4. Asking => Asking'
  BY DEF Asking
<1>5. \A K : (Listing(K) => Listing(K)') /\ (Removing(K) => Removing(K)')
  BY DEF Listing, Removing, ReadOff
<1> QED
  BY <1>3, <1>4, <1>5 DEF Progress, Phase

\* The server answers the first request.
LEMMA ServerStep ==
  ASSUME UidInv, UidTyped', ServerAnswers, Undisturbed'
  PROVE  Progress'
<1>t. UidTyped /\ requests # << >>
  BY DEF UidInv, ServerAnswers
<1>1. Undisturbed /\ UNCHANGED <<resolving, uidz, history>> /\ requests' = Tail(requests)
  BY DEF ServerAnswers, Undisturbed
<1>2. Progress /\ Phase /\ Honest(Flight, ignored, history.before, history.asked)
  BY <1>1 DEF UidInv, Progress
<1> DEFINE r == Head(requests)
           p == history.asked
           b == history.before
           l == Listed(b, p)
           n == Len(answers) + 1
<1>3. n \in 1..Len(Flight) /\ Flight[n] = r
  <2>1. answers \in Seq(Mail) /\ requests \in Seq(Mail)
    BY <1>t, Travels
  <2>2. /\ Len(Flight) = Len(answers) + Len(requests)
        /\ \A i \in 1..Len(requests) : Flight[Len(answers) + i] = requests[i]
    BY <2>1, Joined DEF Flight
  <2>3. 1 \in 1..Len(requests) /\ requests[1] = r
    BY <2>1, <1>t
  <2> QED
    BY <2>1, <2>2, <2>3
<1>4. Consistent(r, ignored, b, p) /\ r \in Traffic(Requests)
  <2>1. Consistent(Flight[n], ignored, b, p)
    BY <1>2, <1>3 DEF Honest
  <2>2. requests \in Seq(Traffic(Requests))
    BY <1>t DEF UidTyped, UidTypeOK, Requests
  <2> QED
    BY <2>1, <2>2, <1>3, <1>t
<1>5. r.what \in Requests /\ r.by \in {"proxy", "user"} /\ r.who \in People \cup {0}
  BY <1>4 DEF Traffic
<1>6. r.by = "proxy" => ~Idle /\ p \in People
  <2>1. r.by = "proxy" => n \in Own(Flight)
    BY <1>3 DEF Own
  <2>2. Idle => Own(Flight) = {}
    BY UnderEmpty DEF Idle
  <2> QED
    BY <2>1, <2>2, <1>2 DEF Progress
<1> DEFINE Replies(m) ==
             /\ m.by = r.by /\ m \in Mail /\ answers' = Append(answers, m)
             /\ m.by = "proxy" => Stage(m) = Stage(r)
             /\ Consistent(m, ignored', b, p)
             /\ ignored' = ignored \/ (r.by = "proxy" /\ r.what \in {"ignore", "remove"})
           A(what, who) == Ans(what, who, r.by)
<1> HIDE DEF n, r
<1>s. ASSUME NEW what \in Requests \cup Messages \cup Dialogs, NEW who \in People \cup {0}
      PROVE  /\ A(what, who) \in Mail /\ A(what, who).by = r.by /\ A(what, who).what = what
             /\ A(what, who).who = who
  BY <1>5, Sent
<1>7. \E m : Replies(m)
  <2>1. CASE r.what = "friends"
    <3> DEFINE m == A("socialPortal", 0)
    <3>1. answers' = Append(answers, m) /\ ignored' = ignored
      BY <2>1 DEF ServerAnswers, r
    <3>2. m \in Mail /\ m.by = r.by /\ m.what = "socialPortal"
      BY <1>s DEF Dialogs
    <3> HIDE DEF m
    <3>3. Stage(m) = Stage(r) /\ Consistent(m, ignored', b, p)
      BY <2>1, <3>2 DEF Stage, Consistent, l
    <3> QED
      BY <3>1, <3>2, <3>3
  <2>a. CASE r.what # "friends"
    <3>0. r.by = "proxy" /\ p \in People
      BY <1>4, <1>5, <1>6, <2>a DEF Consistent, Requests
    <3>l. /\ l # << >> /\ ReadId(l) = Last(l) /\ Last(l) \in People /\ Contains(l, Last(l))
          /\ Once(l) => \A i \in DOMAIN l : l[i] = Last(l) => RemoveAt(l, i) = Front(l)
      <4>1. b \in Seq(People)
        BY <1>t DEF UidTyped, History
      <4> QED
        BY <3>0, <4>1, ListedPlayer
    <3>d. l = IF Contains(b, p) THEN b ELSE Append(b, p)
      BY DEF Listed
    <3> HIDE DEF l
    <3>1. CASE r.what = "ignore"
      <4>1. ignored = b /\ r.who = p
        BY <1>4, <3>0, <3>1 DEF Consistent
      <4>2. CASE answers' = Append(answers, A("personIgnored", 0)) /\ ignored' = l
        <5> DEFINE m == A("personIgnored", 0)
        <5>1. m \in Mail /\ m.by = r.by /\ m.what = "personIgnored"
          BY <1>s DEF Messages
        <5> HIDE DEF m
        <5>2. Stage(m) = Stage(r) /\ Consistent(m, ignored', b, p)
          BY <3>1, <3>0, <4>2, <5>1 DEF Stage, Consistent, l
        <5> QED
          BY <3>0, <3>1, <4>2, <5>1, <5>2 DEF m
      <4>3. ASSUME NEW w \in {"nobodyOnline", "cleverPerhaps"}, answers' = Append(answers, A(w, 0)),
                   ignored' = ignored
            PROVE  \E m : Replies(m)
        <5> DEFINE m == A(w, 0)
        <5>1. m \in Mail /\ m.by = r.by /\ m.what = w
          BY <1>s DEF Messages
        <5> HIDE DEF m
        <5>2. Stage(m) = Stage(r) /\ Consistent(m, ignored', b, p)
          BY <3>1, <3>0, <4>1, <4>3, <5>1 DEF Stage, Consistent, l
        <5> QED
          BY <4>3, <5>1, <5>2 DEF m
      <4>4. \/ answers' = Append(answers, A("personIgnored", 0)) /\ ignored' = l
            \/ \E w \in {"nobodyOnline", "cleverPerhaps"} :
                  answers' = Append(answers, A(w, 0)) /\ ignored' = ignored
        BY <3>1, <3>d, <4>1 DEF ServerAnswers, r
      <4> QED
        BY <4>2, <4>3, <4>4
    <3>2. CASE r.what = "showfriend"
      <4> DEFINE m == A("showOffline", 0)
      <4>1. answers' = Append(answers, m) /\ ignored' = ignored
        BY <3>2 DEF ServerAnswers, r
      <4>2. m \in Mail /\ m.by = r.by /\ m.what = "showOffline"
        BY <1>s DEF Dialogs
      <4> HIDE DEF m
      <4>3. Stage(m) = Stage(r) /\ Consistent(m, ignored', b, p)
        BY <3>0, <3>2, <4>1, <4>2, <1>4 DEF Stage, Consistent, l
      <4> QED
        BY <4>1, <4>2, <4>3
    <3>3. CASE r.what = "friend_all"
      <4>1. ignored = l
        BY <1>4, <3>0, <3>3 DEF Consistent, l
      <4>2. ignored' = ignored /\ (answers' = Append(answers, A("stopIgnoring", Last(l)))
                                   \/ answers' = Append(answers, A("stopIgnoring", 0)))
        BY <3>3, <3>l, <4>1 DEF ServerAnswers, r
      <4>3. ASSUME NEW w \in {Last(l), 0}, answers' = Append(answers, A("stopIgnoring", w))
            PROVE  \E m : Replies(m)
        <5> DEFINE m == A("stopIgnoring", w)
        <5>1. m \in Mail /\ m.by = r.by /\ m.what = "stopIgnoring" /\ m.who = w
          BY <3>l, <1>s DEF Dialogs
        <5> HIDE DEF m
        <5>2. Stage(m) = Stage(r) /\ Consistent(m, ignored', b, p)
          BY <3>3, <3>0, <4>1, <4>2, <4>3, <5>1 DEF Stage, Consistent, l
        <5> QED
          BY <4>2, <4>3, <5>1, <5>2 DEF m
      <4> QED
        BY <4>2, <4>3
    <3>4. CASE r.what = "click"
      <4> DEFINE m == A("areYouSure", r.who)
      <4>1. answers' = Append(answers, m) /\ ignored' = ignored
        BY <3>4 DEF ServerAnswers, r
      <4>2. m \in Mail /\ m.by = r.by /\ m.what = "areYouSure"
        BY <1>5, <1>s DEF Dialogs
      <4> HIDE DEF m
      <4>3. Stage(m) = Stage(r) /\ Consistent(m, ignored', b, p)
        BY <3>0, <3>4, <4>2 DEF Stage, Consistent, l
      <4> QED
        BY <4>1, <4>2, <4>3
    <3>5. CASE r.what = "remove"
      <4>1. ignored = l /\ r.who = Last(l) /\ Once(l)
        BY <1>4, <1>t, <3>0, <3>5 DEF Consistent, l, UidTyped
      <4> DEFINE m == A("nowAble", Last(l))
      <4>2. answers' = Append(answers, m) /\ ignored' = Front(l)
        BY <3>5, <3>l, <4>1 DEF ServerAnswers, r
      <4>3. m \in Mail /\ m.by = r.by /\ m.what = "nowAble"
        BY <3>l, <1>s DEF Dialogs
      <4> HIDE DEF m
      <4>4. Stage(m) = Stage(r) /\ Consistent(m, ignored', b, p)
        BY <3>0, <3>5, <4>2, <4>3 DEF Stage, Consistent, l
      <4> QED
        BY <3>0, <3>5, <4>2, <4>3, <4>4
    <3> QED
      BY <2>a, <3>1, <3>2, <3>3, <3>4, <3>5, <1>5 DEF Requests
  <2> QED
    BY <2>1, <2>a
<1>8. PICK m : Replies(m)
  BY <1>7
<1>9. /\ \A K : Under(Flight, K) => Under(Flight', K)
      /\ \E k \in 1..Len(Flight) :
            /\ Flight[k] = r
            /\ \A i \in 1..Len(Flight') :
                  Flight'[i] = m \/ (i \in 1..Len(Flight) /\ i # k /\ Flight'[i] = Flight[i])
  BY <1>1, <1>8, <1>t, Answered DEF r
<1>10. PICK k \in 1..Len(Flight) :
            /\ Flight[k] = r
            /\ \A i \in 1..Len(Flight') :
                  Flight'[i] = m \/ (i \in 1..Len(Flight) /\ i # k /\ Flight'[i] = Flight[i])
  BY <1>9
<1>11. CASE ignored' = ignored
  <2>1. Honest(Flight', ignored, b, p)
    BY <1>2, <1>8, <1>10, <1>11 DEF Honest
  <2>2. Honest(Flight, ignored, history.before, history.asked)'
    BY <2>1, <1>1, <1>11
  <2>3. \A K : Under(Flight, K) => Under(Flight, K)'
    BY <1>9
  <2> QED
    BY <2>2, <2>3, <1>1, <1>2, <1>11, SamePhase
<1>12. CASE r.by = "proxy" /\ r.what \in {"ignore", "remove"}
  <2>1. \A i \in 1..Len(Flight) : i # k => Consistent(Flight[i], ignored', b, p)
    BY <1>2, <1>10, <1>12, <1>t, OthersSilent
  <2>2. Honest(Flight', ignored', b, p)
    BY <2>1, <1>8, <1>10 DEF Honest
  <2>3. Phase'
    BY <1>1, <1>2, <1>9, <1>10, <1>12, <1>t, PhaseOfList
  <2>4. p \in People
    BY <1>6, <1>12
  <2> QED
    BY <2>2, <2>3, <2>4, <1>1 DEF Progress
<1> QED
  BY <1>8, <1>11, <1>12

-----------------------------------------------------------------------------
(* Theorems *)

\* The inductive invariant of a resolution: what of it is under way, in which
\* order, and what that tells of the client's list (events::out::generictext,
\* events::in::gamemessage and OnDialogRequest).
THEOREM UidInvariant == uidSpec => []UidInv
<1>1. UidInit => UidInv
  <2> SUFFICES ASSUME UidInit PROVE UidInv
    OBVIOUS
  <2> USE ResolverAssumption
  <2>1. UidTyped
    <3>1. \A S : << >> \in Seq(S)
      OBVIOUS
    <3>2. history \in History
      BY DEF UidInit, History
    <3>7. Once(ignored)
      BY DEF UidInit, Once
    <3>3. requests = << >> /\ answers = << >> /\ ignored \in Seq(People) /\ uidz = 0 /\ resolving = FALSE
      BY DEF UidInit
    <3>4. /\ requests \in Seq(Traffic(Requests)) /\ answers \in Seq(Traffic(Messages \cup Dialogs))
          /\ Len(requests) = 0
      BY <3>1, <3>3
    <3>5. \A i \in 1..Len(requests) :
             requests[i].what \in {"ignore", "click", "remove"} => requests[i].who \in People
      BY <3>4
    <3>6. resolving \in BOOLEAN /\ uidz \in People \cup Given \cup {0}
      BY <3>3
    <3> QED
      BY <3>2, <3>3, <3>4, <3>5, <3>6, <3>7, Zenon DEF UidTyped, UidTypeOK, Requests
  <2>2. Flight = << >>
    BY DEF UidInit, Flight
  <2>3. Under(Flight, {})
    BY <2>2, UnderNone
  <2>4. Idle
    BY <2>3 DEF UidInit, Idle
  <2>5. Honest(Flight, ignored, history.before, history.asked)
    BY <2>2 DEF Honest
  <2> QED
    BY <2>1, <2>4, <2>5 DEF UidInv, Progress, Phase
<1>2. UidInv /\ [UidNext]_uidVars => UidInv'
  <2> SUFFICES ASSUME UidInv, [UidNext]_uidVars PROVE UidInv'
    OBVIOUS
  <2>1. CASE UidNext
    <3>1. UidTyped'
      BY <2>1, TypeStep DEF UidInv
    <3>2. Undisturbed' => Progress'
      <4> SUFFICES ASSUME Undisturbed' PROVE Progress'
        OBVIOUS
      <4>1. ASSUME NEW p \in People, AskUid(p) PROVE Progress'
        BY <4>1, AskStep
      <4>2. CASE OnGameMessage
        BY <4>2, MessageStep
      <4>3. CASE OnDialogRequest
        BY <4>3, DialogStep
      <4>4. CASE Dropped
        BY <4>4, EndsStep
      <4>5. CASE OpenPortal
        BY <4>5, PortalStep
      <4>6. CASE ServerAnswers
        BY <4>6, <3>1, ServerStep
      <4>7. ASSUME NEW id \in Given, SetUidz(id) PROVE Progress'
        BY <4>7, SetStep
      <4> QED
        BY <2>1, <4>1, <4>2, <4>3, <4>4, <4>5, <4>6, <4>7 DEF UidNext, UidStep, SessionEnds, ProcessEnds
    <3> QED
      BY <3>1, <3>2 DEF UidInv
  <2>2. CASE UNCHANGED uidVars
    BY <2>2 DEF uidVars, UidInv, UidTyped, UidTypeOK, Undisturbed, Progress, Phase, Idle, Asking,
                Failing, Listing, Removing, ReadOff, Flight
  <2> QED
    BY <2>1, <2>2
<1> QED
  BY <1>1, <1>2, PTL DEF uidSpec

\* What the theorems below need of a state.
LEMMA WhenQuiet ==
  ASSUME UidInv
  PROVE  Quiet /\ Undisturbed => Idle
BY IdleWhenQuiet DEF UidInv, Progress

\* What the history tells of the list, with the player on it.
LEMMA WhenListed ==
  ASSUME UidInv
  PROVE  LET l == Listed(history.before, history.asked)
         IN  /\ Front(l) = IF Known THEN Front(history.before) ELSE history.before
             /\ Last(l) = IF Known THEN Last(history.before) ELSE history.asked
<1>1. history.before \in Seq(People)
  BY DEF UidInv, UidTyped, History
<1> QED
  BY <1>1, ListedNew DEF Known, Listed

\* When a resolution is over, the client ignores the players it ignored before: the
\* "remove" that OnDialogRequest sends undoes the "/ignore" of /uid, and nothing else,
\* however the client's own portals come in between; but of a list the player was on
\* already it takes the last entry.
THEOREM UidListRestored == uidSpec => []IgnoreListRestored
<1>1. UidInv => IgnoreListRestored
  BY WhenQuiet, WhenListed DEF IgnoreListRestored, Idle
<1> QED
  BY <1>1, UidInvariant, PTL

\* The id that rfind reads off the list is that of the player asked for, or that of the
\* last entry if the player was on the list already; only /setuid replaces it.
THEOREM UidResolvesTheAsked == uidSpec => []ResolvesTheAsked
<1>1. UidInv => ResolvesTheAsked
  BY WhenQuiet, WhenListed DEF ResolvesTheAsked, Idle, ReadOff
<1> QED
  BY <1>1, UidInvariant, PTL

\* No dialog of a resolution that finds its player is let through to the client:
\* resolving_uid2 is set for as long as one can arrive.
THEOREM UidResolutionUnseen == uidSpec => []ResolutionUnseen
<1>1. UidInv => ResolutionUnseen
  BY DEF UidInv, Progress, Phase, Idle, Asking, Failing, Listing, Removing, ResolutionUnseen
<1> QED
  BY <1>1, UidInvariant, PTL

-----------------------------------------------------------------------------
(* The tax *)

\* The chain of tests of the last digit (events.cpp, OnDialogRequest) rounds to the
\* nearest multiple of ten, half a ten up.
THEOREM RoundsToNearest ==
    ASSUME NEW count \in Nat
    PROVE  RoundToTen(count) = 10 * ((count + 5) \div 10)
<1> DEFINE q == count \div 10
           r == count % 10
<1>1. q \in Nat /\ r \in 0 .. 9 /\ count = 10 * q + r
  OBVIOUS
<1>2. CASE r < 5
  <2>1. (count + 5) \div 10 = q
    BY <1>1, <1>2
  <2>2. RoundToTen(count) = count - r
    BY <1>1, <1>2 DEF RoundToTen
  <2> QED  BY <1>1, <2>1, <2>2
<1>3. CASE r >= 5
  <2>1. (count + 5) \div 10 = q + 1
    BY <1>1, <1>3
  <2>2. RoundToTen(count) = count + (10 - r)
    BY <1>1, <1>3 DEF RoundToTen
  <2> QED  BY <1>1, <2>1, <2>2
<1> QED  BY <1>1, <1>2, <1>3

\* A tax of at most SafePercent leaves a count between zero and the bet.
THEOREM TaxedCountWithin ==
    ASSUME NEW count \in Nat, NEW percent \in 0 .. SafePercent
    PROVE  TaxedCount(count, percent) \in 0 .. count
<1> DEFINE rounded == RoundToTen(count)
           amount  == rounded * percent
<1>1. rounded \in Nat /\ rounded <= count + 5 /\ (count < 5 => rounded = 0)
  <2> DEFINE r == count % 10
  <2>1. r \in 0 .. 9 /\ r <= count /\ (count < 10 => r = count)
    OBVIOUS
  <2>2. CASE r < 5
    BY <2>1, <2>2 DEF RoundToTen
  <2>3. CASE r >= 5
    BY <2>1, <2>3 DEF RoundToTen
  <2> QED  BY <2>1, <2>2, <2>3
<1>2. percent \in Nat /\ percent <= 59
  BY DEF SafePercent
<1>3. amount \in Nat /\ amount <= 59 * rounded
  <2> HIDE DEF rounded
  <2>1. rounded * percent \in Nat
    BY <1>1, <1>2
  <2>2. (59 - percent) \in Nat
    BY <1>2
  <2>3. rounded * (59 - percent) \in Nat
    BY <1>1, <2>2
  <2>4. rounded * (59 - percent) = 59 * rounded - rounded * percent
    BY <1>1, <1>2
  <2> QED  BY <1>1, <2>1, <2>3, <2>4
<1>4. Tax(count, percent) = amount \div 100
  BY <1>3 DEF Tax
<1>5. amount < 100 * (count + 1)
  <2> HIDE DEF rounded, amount
  <2>1. CASE count < 5
    BY <2>1, <1>1, <1>3
  <2>2. CASE count >= 5
    BY <2>2, <1>1, <1>3
  <2> QED  BY <2>1, <2>2
<1>6. amount \div 100 \in 0 .. count
  <2> HIDE DEF amount
  <2> QED  BY <1>3, <1>5
<1> QED  BY <1>4, <1>6 DEF TaxedCount

-----------------------------------------------------------------------------
(* OnDialogRequest *)

\* Some block returns, since the last one always does, and it is the first.
LEMMA ReturningBlock ==
    ASSUME NEW d
    PROVE  \E i \in 1 .. 13 : /\ Returning(d) = Blocks(d)[i]
                              /\ Blocks(d)[i].cond
                              /\ \A j \in 1 .. i - 1 : ~Blocks(d)[j].cond
<1> DEFINE B == Blocks(d)
           First(i) == B[i].cond /\ \A j \in 1 .. i - 1 : ~B[j].cond
<1>1. DOMAIN B = 1 .. 13 /\ B[13].cond = TRUE
  BY DEF Blocks, Block
<1>2. \E i \in 1 .. 13 : First(i)
  <2> HIDE DEF B
  <2>1. SUFFICES ASSUME \A i \in 1 .. 13 : ~First(i)
                 PROVE  FALSE
    OBVIOUS
  <2> DEFINE c(i) == B[i].cond
  <2>2. ~c(1)   BY <2>1
  <2>3. ~c(2)   BY <2>1, <2>2
  <2>4. ~c(3)   BY <2>1, <2>2, <2>3
  <2>5. ~c(4)   BY <2>1, <2>2, <2>3, <2>4
  <2>6. ~c(5)   BY <2>1, <2>2, <2>3, <2>4, <2>5
  <2>7. ~c(6)   BY <2>1, <2>2, <2>3, <2>4, <2>5, <2>6
  <2>8. ~c(7)   BY <2>1, <2>2, <2>3, <2>4, <2>5, <2>6, <2>7
  <2>9. ~c(8)   BY <2>1, <2>2, <2>3, <2>4, <2>5, <2>6, <2>7, <2>8
  <2>10. ~c(9)  BY <2>1, <2>2, <2>3, <2>4, <2>5, <2>6, <2>7, <2>8, <2>9
  <2>11. ~c(10) BY <2>1, <2>2, <2>3, <2>4, <2>5, <2>6, <2>7, <2>8, <2>9, <2>10
  <2>12. ~c(11) BY <2>1, <2>2, <2>3, <2>4, <2>5, <2>6, <2>7, <2>8, <2>9, <2>10, <2>11
  <2>13. ~c(12) BY <2>1, <2>2, <2>3, <2>4, <2>5, <2>6, <2>7, <2>8, <2>9, <2>10, <2>11, <2>12
  <2>14. ~c(13)
    BY <2>1, <2>2, <2>3, <2>4, <2>5, <2>6, <2>7, <2>8, <2>9, <2>10, <2>11, <2>12, <2>13
  <2> QED  BY <1>1, <2>14
<1>3. PICK i \in 1 .. 13 : i = (CHOOSE k \in DOMAIN B : First(k)) /\ First(i)
  <2> HIDE DEF B, First
  <2>1. \E k \in DOMAIN B : First(k)
    BY <1>1, <1>2
  <2> QED  BY <1>1, <2>1
<1>4. Returning(d) = B[i]
  BY <1>3 DEF Returning
<1> QED  BY <1>3, <1>4

\* The count of every block is none, the bet, or what the tax leaves of it.
LEMMA BlockCounts ==
    ASSUME NEW d, NEW i \in 1 .. 13
    PROVE  Blocks(d)[i].count \in {0, d.count, TaxedCount(d.count, yuzde)}
  BY DEF Blocks, Block, TaxBlocks

\* The popup of a wrenched player is hidden while wrenchpull is set, and else shown.
LEMMA PopupDecision ==
    Shown(Returning(Popup).did) = IF "wrenchpull" \in on THEN 0 ELSE 1
<1> DEFINE B == Blocks(Popup)
<1>1. /\ ~B[1].cond /\ ~B[2].cond /\ ~B[3].cond /\ ~B[4].cond /\ ~B[5].cond
      /\ ~B[6].cond /\ ~B[7].cond /\ ~B[8].cond /\ ~B[9].cond
  BY DEF Blocks, Block, TaxBlocks, Taxed, Popup
<1>2. /\ B[10].cond <=> "wrenchpull" \in on
      /\ B[11].cond <=> "wrenchpull" \notin on
      /\ B[10].did = Swallows /\ B[11].did = SendsOwn
  BY DEF Blocks, Block, IsSet, Popup
<1>3. PICK i \in 1 .. 13 : /\ Returning(Popup) = B[i]
                           /\ B[i].cond
                           /\ \A j \in 1 .. i - 1 : ~B[j].cond
  BY ReturningBlock
<1>4. i = IF "wrenchpull" \in on THEN 10 ELSE 11
  <2> HIDE DEF B
  <2>1. i \notin 1 .. 9
    BY <1>1, <1>3
  <2>2. CASE "wrenchpull" \in on
    BY <1>2, <1>3, <2>1, <2>2
  <2>3. CASE "wrenchpull" \notin on
    BY <1>2, <1>3, <2>1, <2>3
  <2> QED  BY <2>2, <2>3
<1>5. Shown(Swallows) = 0 /\ Shown(SendsOwn) = 1
  BY DEF Shown, Swallows, SendsOwn, Did
<1>6. CASE "wrenchpull" \in on
  BY <1>2, <1>3, <1>4, <1>5, <1>6
<1>7. CASE "wrenchpull" \notin on
  BY <1>2, <1>3, <1>4, <1>5, <1>7
<1> QED  BY <1>6, <1>7

-----------------------------------------------------------------------------
(* The tax of a bet, as the handler takes it *)

\* Whatever percentage up to SafePercent is entered and whatever the dialog offers,
\* OnDialogRequest sends a count between zero and the bet.
THEOREM OptTaxWithin == OptSpec => []TaxWithin
<1>1. TaxWithin
  <2> SUFFICES ASSUME yuzde \in 0 .. SafePercent,
                      NEW d \in ServerDialogs
               PROVE  Returning(d).count \in 0 .. d.count
    BY DEF TaxWithin
  <2>1. d.count \in Nat
    <3>1. d.count \in {0} \cup Counts
      BY Zenon DEF ServerDialogs
    <3>2. Counts \subseteq Nat
      BY OptAssumption, Zenon DEF OptAssumption
    <3>3. \A x \in {0} \cup Counts : x \in Nat
      BY <3>2
    <3> QED  BY <3>1, <3>3, Zenon
  <2>2. TaxedCount(d.count, yuzde) \in 0 .. d.count
    BY <2>1, TaxedCountWithin
  <2>3. PICK i \in 1 .. 13 : Returning(d) = Blocks(d)[i]
    BY ReturningBlock
  <2>4. Returning(d).count \in {0, d.count, TaxedCount(d.count, yuzde)}
    BY <2>3, BlockCounts
  <2> QED  BY <2>1, <2>2, <2>4
<1> QED  BY <1>1, PTL

-----------------------------------------------------------------------------
(* Dialogs and lines of the server *)

\* Every block shows the dialog once or answers it once, but for the one that drops it.
LEMMA BlockDids ==
    ASSUME NEW d, NEW i \in 1 .. 13, Blocks(d)[i].cond
    PROVE  \/ Blocks(d)[i].did \in {Answers, SendsOwn, PassesOn}
           \/ Blocks(d)[i].did = Swallows /\ "wrenchpull" \in on /\ "netID" \in d.has
<1>1. CASE i # 10
  <2>1. Blocks(d)[i].did \in {Answers, SendsOwn, PassesOn}
    BY <1>1 DEF Blocks, Block, TaxBlocks
  <2> QED  BY <2>1
<1>2. CASE i = 10
  <2>1. /\ Blocks(d)[10].did = Swallows
        /\ Blocks(d)[10].cond <=> ("wrenchpull" \in on /\ {"netID"} \subseteq d.has)
    BY DEF Blocks, Block, IsSet
  <2> QED  BY <1>2, <2>1
<1> QED  BY <1>1, <1>2

\* What a handler does with a dialog adds up to one answer or one showing.
LEMMA DidSums ==
    /\ \A did \in {Answers, SendsOwn, PassesOn} : Shown(did) + did.server = 1
    /\ Shown(Swallows) + Swallows.server = 0
  BY DEF Shown, Answers, SendsOwn, PassesOn, Swallows, Did

\* Whatever options are set, each dialog of the server is shown once or answered
\* once (or dropped for wrenchpull), and each line of chat is shown once.
THEOREM OptSettledOnce == OptSpec => []SettledOnce
<1>1. SettledOnce
  <2>1. ASSUME NEW d \in ServerDialogs
        PROVE  \/ Shown(Returning(d).did) + Returning(d).did.server = 1
               \/ /\ Shown(Returning(d).did) + Returning(d).did.server = 0
                  /\ "wrenchpull" \in on /\ "netID" \in d.has
    <3>1. PICK i \in 1 .. 13 : Returning(d) = Blocks(d)[i] /\ Blocks(d)[i].cond
      BY ReturningBlock
    <3>2. \/ Returning(d).did \in {Answers, SendsOwn, PassesOn}
          \/ Returning(d).did = Swallows /\ "wrenchpull" \in on /\ "netID" \in d.has
      BY <3>1, BlockDids
    <3> QED  BY <3>2, DidSums
  <2>2. ASSUME NEW line \in Lines
        PROVE  Shown(OnConsole(line)) = 1 /\ Shown(OnBubble(line)) = 1
    BY DEF OnConsole, OnBubble, Shown, SendsOwn, PassesOn, Did
  <2> QED  BY <2>1, <2>2 DEF SettledOnce
<1> QED  BY <1>1, PTL

-----------------------------------------------------------------------------
(* Popups *)

\* A popup was answered once or not.
PopupType == popups \in Seq([answers : {0, 1}, state : {"fresh", "stale"}])

\* Until wrenchpull changes, a popup was answered exactly if it is set now.
PopupInv ==
    /\ PopupType
    /\ \A i \in DOMAIN popups :
          popups[i].state = "fresh" => (popups[i].answers = 1 <=> "wrenchpull" \in on)

\* A sequence is a function on 1 .. n, and the other way round.
LEMMA SeqFacts ==
    ASSUME NEW S, NEW s \in Seq(S)
    PROVE  Len(s) \in Nat /\ DOMAIN s = 1 .. Len(s) /\ \A i \in DOMAIN s : s[i] \in S
  OBVIOUS

\* A function on 1..n is a sequence.
LEMMA FunctionIsSeq ==
    ASSUME NEW S, NEW n \in Nat, NEW f \in [1 .. n -> S]
    PROVE  f \in Seq(S)
  OBVIOUS

\* Initially no popup has been answered.
LEMMA PopupInvInit == OptInit => PopupInv
  BY DEF OptInit, PopupInv, PopupType

\* No other command, and no answer of the casino dialog, changes wrenchpull.
LEMMA WrenchpullKept ==
    ASSUME NEW c, NEW connected, Chat(c, connected)
    PROVE  ("wrenchpull" \in on' <=> "wrenchpull" \in on) /\ popups' = popups
<1>1. popups' = popups
  BY DEF Chat
<1>2. CASE on' = on
  BY <1>1, <1>2
<1>3. CASE Command(c)
  <2>1. DOMAIN Toggled = {"ghost", "wlt", "dicemode", "visdice"}
    BY DEF Toggled
  <2>2. \A t \in DOMAIN Toggled : Toggled[t] # "wrenchpull"
    BY DEF Toggled
  <2>3. on' = on \/ \E t \in DOMAIN Toggled : on' = Flip(Toggled[t])
    BY <1>3 DEF Command
  <2> QED  BY <1>1, <2>2, <2>3 DEF Flip
<1> QED  BY <1>2, <1>3 DEF Chat, AutoPull

\* The casino dialog changes neither wrenchpull nor the popups.
LEMMA CasinoKeeps ==
    ASSUME NEW flipped, NEW amounts, AnswerCasino(flipped, amounts)
    PROVE  ("wrenchpull" \in on' <=> "wrenchpull" \in on) /\ popups' = popups
<1>1. Fields(form.name) = CasinoFields
  BY DEF AnswerCasino, Fields
<1>2. \A f \in AllFields : f.option = "wrenchpull" => f.name = "wrenchpull"
  BY DEF AllFields, OptionFields, CasinoFields
<1>3. \A a \in Answer(flipped) : a.name # "wrenchpull"
  BY <1>1 DEF Answer, CasinoFields
<1>4. \A f \in AllFields : Named(Answer(flipped), f) => f.option # "wrenchpull"
  BY <1>2, <1>3 DEF Named
<1>5. on' = ReadOptions(Answer(flipped)) /\ popups' = popups
  BY DEF AnswerCasino
<1> QED  BY <1>4, <1>5 DEF ReadOptions

\* An answer given in advance stays fresh until wrenchpull is changed.
LEMMA PopupInvNext == PopupInv /\ [OptNext]_optVars => PopupInv'
<1> SUFFICES ASSUME PopupInv, [OptNext]_optVars
             PROVE  PopupInv'
  OBVIOUS
<1> DEFINE Same == popups' = popups /\ ("wrenchpull" \in on' <=> "wrenchpull" \in on)
<1>0. ASSUME Same
      PROVE  PopupInv'
  BY <1>0 DEF PopupInv, PopupType
<1>1. ASSUME NEW c \in Commands, NEW connected \in BOOLEAN, Chat(c, connected)
      PROVE  PopupInv'
  BY <1>0, <1>1, WrenchpullKept
<1>2. ASSUME NEW flipped, AnswerOptions(flipped)
      PROVE  PopupInv'
  <2>1. popups' = Marked(on')
    BY <1>2 DEF AnswerOptions
  <2>2. CASE "wrenchpull" \in on <=> "wrenchpull" \in on'
    BY <1>0, <2>1, <2>2 DEF Marked
  <2>3. CASE ~("wrenchpull" \in on <=> "wrenchpull" \in on')
    <3>1. popups' = [i \in DOMAIN popups |-> [popups[i] EXCEPT !.state = "stale"]]
      BY <2>1, <2>3 DEF Marked
    <3> DEFINE R == [answers : {0, 1}, state : {"fresh", "stale"}]
               n == Len(popups)
    <3>a. n \in Nat /\ DOMAIN popups = 1 .. n /\ \A i \in 1 .. n : popups[i] \in R
      <4>1. popups \in Seq(R)
        BY DEF PopupInv, PopupType
      <4> HIDE DEF R
      <4> QED  BY <4>1, SeqFacts
    <3>b. \A p \in R : [p EXCEPT !.state = "stale"] \in R /\ [p EXCEPT !.state = "stale"].state = "stale"
      OBVIOUS
    <3>c. popups' \in [1 .. n -> R] /\ \A i \in 1 .. n : popups'[i].state = "stale"
      <4> HIDE DEF R, n
      <4>1. \A i \in 1 .. n : popups'[i] = [popups[i] EXCEPT !.state = "stale"]
        BY <3>1, <3>a
      <4>2. \A i \in 1 .. n : popups'[i] \in R /\ popups'[i].state = "stale"
        BY <4>1, <3>a, <3>b
      <4>3. popups' = [i \in 1 .. n |-> popups'[i]]
        BY <3>1, <3>a
      <4> QED  BY <4>2, <4>3
    <3>2. PopupType'
      <4> HIDE DEF n
      <4> QED  BY <3>a, <3>c, FunctionIsSeq DEF PopupType
    <3>3. \A i \in DOMAIN popups' : popups'[i].state = "stale"
      BY <3>1, <3>a, <3>c
    <3> QED  BY <3>2, <3>3 DEF PopupInv
  <2> QED  BY <2>2, <2>3
<1>3. ASSUME NEW flipped, NEW amounts, AnswerCasino(flipped, amounts)
      PROVE  PopupInv'
  BY <1>0, <1>3, CasinoKeeps
<1>4. CASE Wrench
  <2>1. on' = on
    BY <1>4 DEF Wrench
  <2>2. PICK p \in [answers : {0, 1}, state : {"fresh", "stale"}] :
            popups' = Append(popups, p) /\ (p.answers = 1 <=> "wrenchpull" \in on)
    <3>1. popups' = Append(popups, [answers |-> IF "wrenchpull" \in on THEN 1 ELSE 0, state |-> "fresh"])
      BY <1>4 DEF Wrench
    <3> QED  BY <3>1
  <2>3. PopupType'
    BY <2>2 DEF PopupInv, PopupType
  <2>4. ASSUME NEW i \in DOMAIN popups', popups'[i].state = "fresh"
        PROVE  popups'[i].answers = 1 <=> "wrenchpull" \in on'
    BY <2>1, <2>2, <2>4 DEF PopupInv, PopupType
  <2> QED  BY <2>3, <2>4 DEF PopupInv
<1>5. CASE PopupRequest
  <2>1. on' = on /\ popups # << >> /\ popups' = Tail(popups)
    BY <1>5 DEF PopupRequest
  <2>2. PopupType'
    BY <2>1 DEF PopupInv, PopupType
  <2>3. \A i \in DOMAIN popups' : popups'[i] = popups[i + 1] /\ i + 1 \in DOMAIN popups
    BY <2>1 DEF PopupInv, PopupType
  <2> QED  BY <2>1, <2>2, <2>3 DEF PopupInv
<1>6. ASSUME NEW w, SetUid(w) \/ Tracking(w) \/ AnswerWrench(w) \/ DialogRequest(w) \/ ChatLine(w)
      PROVE  PopupInv'
  BY <1>0, <1>6 DEF SetUid, Tracking, AnswerWrench, DialogRequest, ChatLine
<1>7. CASE OptionsButton \/ AnswerOther \/ Cancel \/ ShowCaptcha
  BY <1>0, <1>7 DEF OptionsButton, AnswerOther, Cancel, ShowCaptcha
<1>8. CASE UNCHANGED optVars
  BY <1>0, <1>8 DEF optVars
<1> QED
  BY <1>1, <1>2, <1>3, <1>4, <1>5, <1>6, <1>7, <1>8 DEF OptNext, OptStep

\* A popup is shown to the client or was answered for it in advance, never both or
\* neither, unless wrenchpull was changed since the wrench.
THEOREM OptPopupAgrees == OptSpec => []PopupAgrees
<1>1. PopupInv => PopupAgrees
  <2> SUFFICES ASSUME PopupInv, NEW i \in DOMAIN popups, popups[i].state = "fresh"
               PROVE  popups[i].answers + Shown(Returning(Popup).did) = 1
    BY DEF PopupAgrees
  <2>1. popups[i].answers \in {0, 1}
    <3>1. popups[i] \in [answers : {0, 1}, state : {"fresh", "stale"}]
      BY SeqFacts DEF PopupInv, PopupType
    <3> QED  BY <3>1
  <2>2. popups[i].answers = 1 <=> "wrenchpull" \in on
    BY DEF PopupInv
  <2> QED  BY <2>1, <2>2, PopupDecision
<1> QED  BY PopupInvInit, PopupInvNext, <1>1, PTL DEF OptSpec

-----------------------------------------------------------------------------
(* Options *)

\* The fields of the two dialogs differ in name, in option and in key.
LEMMA FieldsDiffer ==
    \A f, g \in AllFields : \/ f = g
                            \/ f.name # g.name /\ f.option # g.option /\ f.key # g.key
  BY DEF AllFields, OptionFields, CasinoFields

\* The answer of a dialog sets each option it has a box for to what the box was, and
\* no other, whichever boxes were changed.
THEOREM OptOptionsFaithful == OptSpec => []OptionsFaithful
<1>1. OptionsFaithful
  <2> SUFFICES ASSUME NEW flipped, NEW o \in Options
               PROVE  o \in ReadOptions(Answer(flipped))
                        <=> IF {f \in Fields(form.name) : f.option = o} = {} THEN o \in on
                            ELSE ~(o \in form.boxes
                                    <=> \E f \in {f \in Fields(form.name) : f.option = o} : f.name \in flipped)
    BY DEF OptionsFaithful
  <2>0. Fields(form.name) \subseteq AllFields
    BY DEF Fields, AllFields
  <2>1. CASE \A f \in Fields(form.name) : f.option # o
    <3>1. \A f \in AllFields : Named(Answer(flipped), f) => f \in Fields(form.name)
      BY <2>0, FieldsDiffer DEF Named, Answer
    <3>2. o \in ReadOptions(Answer(flipped)) <=> o \in on
      BY <2>1, <3>1 DEF ReadOptions
    <3> QED  BY <2>1, <3>2
  <2>2. ASSUME NEW f \in Fields(form.name), f.option = o
        PROVE  /\ o \in ReadOptions(Answer(flipped)) <=> ~(o \in form.boxes <=> f.name \in flipped)
               /\ {g \in Fields(form.name) : g.option = o} = {f}
    <3> DEFINE a == [name |-> f.name, key |-> f.key,
                     value |-> IF f.option \in form.boxes THEN IF f.name \in flipped THEN 0 ELSE 1
                               ELSE IF f.name \in flipped THEN 1 ELSE 0]
    <3>1. a \in Answer(flipped) /\ a.name = f.name /\ a.key = f.key
      BY DEF Answer
    <3>2. \A b \in Answer(flipped) : b.key = f.key => b = a
      BY <2>0, FieldsDiffer DEF Answer
    <3>3. (a.value # 0) <=> ~(o \in form.boxes <=> f.name \in flipped)
      BY <2>2
    <3> HIDE DEF a
    <3>4. Named(Answer(flipped), f)
      BY <3>1 DEF Named
    <3>5. ReadField(Answer(flipped), f) <=> a.value # 0
      BY <3>1, <3>2 DEF ReadField
    <3>6. \A g \in AllFields : g.option = o => g = f
      BY <2>0, <2>2, FieldsDiffer
    <3>7. o \in ReadOptions(Answer(flipped)) <=> ReadField(Answer(flipped), f)
      BY <2>0, <2>2, <3>4, <3>6 DEF ReadOptions
    <3>8. {g \in Fields(form.name) : g.option = o} = {f}
      BY <2>0, <2>2, <3>6
    <3> QED  BY <3>3, <3>5, <3>7, <3>8
  <2>3. CASE \E f \in Fields(form.name) : f.option = o
    <3>1. PICK f \in Fields(form.name) : f.option = o
      BY <2>3
    <3> DEFINE box == {g \in Fields(form.name) : g.option = o}
    <3>2. box = {f}
      BY <2>2, <3>1
    <3>3. (\E g \in box : g.name \in flipped) <=> f.name \in flipped
      BY <3>2
    <3>4. o \in ReadOptions(Answer(flipped)) <=> ~(o \in form.boxes <=> f.name \in flipped)
      BY <2>2, <3>1
    <3>5. box # {}
      BY <3>2
    <3> HIDE DEF box
    <3>6. o \in ReadOptions(Answer(flipped))
            <=> IF box = {} THEN o \in on
                ELSE ~(o \in form.boxes <=> \E g \in box : g.name \in flipped)
      BY <3>3, <3>4, <3>5
    <3> QED  BY <3>6 DEF box
  <2> QED  BY <2>1, <2>3
<1> QED  BY <1>1, PTL

-----------------------------------------------------------------------------
(* Types *)

\* A dialog of the proxy has ticked boxes of its own.
LEMMA FormFacts ==
    ASSUME NEW name
    PROVE  Form(name).name = name /\ Form(name).boxes \subseteq {f.option : f \in Fields(name)}
  BY DEF Form

\* Commands and answered dialogs set options that exist.
LEMMA OptionsStay ==
    ASSUME on \subseteq Options
    PROVE  /\ \A c \in DOMAIN Toggled : Flip(Toggled[c]) \subseteq Options
           /\ \A answer : ReadOptions(answer) \subseteq Options
<1>1. \A c \in DOMAIN Toggled : Toggled[c] \in Options
  <2>1. DOMAIN Toggled = {"ghost", "wlt", "dicemode", "visdice"}
    BY DEF Toggled
  <2>2. "wltroll" \in {f.option : f \in AllFields}
    <3>1. [name |-> "wltroll1", option |-> "wltroll", key |-> "ll1"] \in AllFields
      BY DEF AllFields, OptionFields
    <3> QED  BY <3>1
  <2> QED  BY <2>1, <2>2 DEF Toggled, Options
<1>2. \A f \in AllFields : f.option \in Options
  BY DEF Options
<1>3. ASSUME NEW answer
      PROVE  ReadOptions(answer) \subseteq Options
  BY <1>2 DEF ReadOptions
<1> QED  BY <1>1, <1>3 DEF Flip

\* A list of popups gets longer only when a player is wrenched.
LEMMA PopupsBounded ==
    ASSUME PopupType, Len(popups) <= MaxPopups, [OptNext]_optVars
    PROVE  Len(popups') <= MaxPopups
<1> DEFINE R == [answers : {0, 1}, state : {"fresh", "stale"}]
<1>0. popups \in Seq(R) /\ Len(popups) \in Nat /\ MaxPopups \in Nat
  BY OptAssumption DEF PopupType
<1> HIDE DEF R
<1>1. CASE popups' = popups
  BY <1>1
<1>2. ASSUME NEW flipped, AnswerOptions(flipped)
      PROVE  Len(popups') <= MaxPopups
  <2>1. CASE popups' = [i \in DOMAIN popups |-> [popups[i] EXCEPT !.state = "stale"]]
    <3>1. DOMAIN popups = 1 .. Len(popups)
      BY <1>0
    <3>2. popups' \in [1 .. Len(popups) -> {popups'[i] : i \in 1 .. Len(popups)}]
      BY <2>1, <3>1
    <3>3. Len(popups') = Len(popups)
      BY <1>0, <3>2, FunctionIsSeq
    <3> QED  BY <3>3
  <2> QED  BY <1>1, <1>2, <2>1 DEF AnswerOptions, Marked
<1>3. CASE Wrench
  <2>1. PICK p : popups' = Append(popups, p) /\ Len(popups) < MaxPopups
    BY <1>3 DEF Wrench
  <2>2. Len(popups') = Len(popups) + 1
    BY <1>0, <2>1
  <2> QED  BY <1>0, <2>1, <2>2
<1>4. CASE PopupRequest
  <2>1. popups # << >> /\ popups' = Tail(popups)
    BY <1>4 DEF PopupRequest
  <2>2. Len(popups') = Len(popups) - 1
    BY <1>0, <2>1
  <2> QED  BY <1>0, <2>2
<1>5. ASSUME NEW c, NEW connected, Chat(c, connected)
      PROVE  popups' = popups
  BY <1>5 DEF Chat
<1>6. ASSUME NEW flipped, NEW amounts, AnswerCasino(flipped, amounts)
      PROVE  popups' = popups
  BY <1>6 DEF AnswerCasino
<1>7. ASSUME NEW w, SetUid(w) \/ Tracking(w) \/ AnswerWrench(w) \/ DialogRequest(w) \/ ChatLine(w)
      PROVE  popups' = popups
  BY <1>7 DEF SetUid, Tracking, AnswerWrench, DialogRequest, ChatLine
<1>8. OptionsButton \/ AnswerOther \/ Cancel \/ ShowCaptcha \/ UNCHANGED optVars => popups' = popups
  BY DEF OptionsButton, AnswerOther, Cancel, ShowCaptcha, optVars
<1> QED  BY <1>1, <1>2, <1>3, <1>4, <1>5, <1>6, <1>7, <1>8 DEF OptNext, OptStep

\* Types and popups, together inductive.
OptInv == OptTypeOK /\ PopupInv

\* Every handler keeps the types.
LEMMA OptTypeNext ==
    ASSUME OptTypeOK, PopupType, [OptNext]_optVars
    PROVE  OptTypeOK'
<1> USE DEF OptTypeOK
<1>1. Len(popups') <= MaxPopups
  BY PopupsBounded
<1>2. Form("options").boxes \subseteq {f.option : f \in Fields("options")} /\ Form("options").name = "options"
  BY FormFacts
<1>3. Form("profile").boxes \subseteq {f.option : f \in Fields("profile")} /\ Form("profile").name = "profile"
  BY FormFacts
<1>4. NoForm.name = "none" /\ NoForm.boxes = {}
  BY DEF NoForm
<1>n. {"options", "casino"} \subseteq EarlyForms \cup LateForms
  BY DEF EarlyForms, LateForms
<1>5. ASSUME NEW c, NEW connected, Chat(c, connected)
      PROVE  OptTypeOK'
  <2>1. CASE on' = on /\ form' = form
    BY <1>1, <1>5, <2>1 DEF Chat
  <2>2. CASE Command(c)
    <3>1. on' \subseteq Options
      BY <2>2, OptionsStay DEF Command
    <3>2. \/ form' = form
          \/ c \in EarlyForms \cup LateForms /\ form' = Form(c)
      BY <2>2 DEF Command
    <3>3. Form(c).name = c /\ Form(c).boxes \subseteq {f.option : f \in Fields(c)}
      BY FormFacts
    <3>4. form'.name \in EarlyForms \cup LateForms \cup {"none", "profile"}
      BY <3>2, <3>3
    <3>5. form'.boxes \subseteq {f.option : f \in Fields(form'.name)}
      BY <3>2, <3>3
    <3> QED  BY <1>1, <1>5, <3>1, <3>4, <3>5 DEF Chat, Fields
  <2> QED  BY <1>5, <2>1, <2>2 DEF Chat, AutoPull
<1>6. ASSUME NEW flipped, AnswerOptions(flipped)
      PROVE  OptTypeOK'
  <2>1. on' \subseteq Options
    BY <1>6, OptionsStay DEF AnswerOptions
  <2> QED  BY <1>1, <1>4, <1>6, <2>1 DEF AnswerOptions
<1>7. ASSUME NEW flipped, NEW amounts \in {{}, Percents}, AnswerCasino(flipped, amounts)
      PROVE  OptTypeOK'
  <2>1. on' \subseteq Options
    BY <1>7, OptionsStay DEF AnswerCasino
  <2>2. yuzde' \in Percents \cup {10}
    BY <1>7 DEF AnswerCasino
  <2> QED  BY <1>1, <1>4, <1>7, <2>1, <2>2 DEF AnswerCasino
<1>8. ASSUME NEW w, SetUid(w) \/ ChatLine(w)
      PROVE  OptTypeOK'
  BY <1>1, <1>8 DEF SetUid, ChatLine
<1>9. ASSUME NEW w \in Uids, Tracking(w)
      PROVE  OptTypeOK'
  BY <1>1, <1>9 DEF Tracking
<1>10. ASSUME NEW m \in Modes, AnswerWrench(m)
       PROVE  OptTypeOK'
  BY <1>1, <1>4, <1>10, OptAssumption DEF AnswerWrench
<1>11. CASE OptionsButton
  <2>1. form' = Form("options") /\ UNCHANGED <<on, mode, yuzde, uids, alive>>
    BY <1>11 DEF OptionsButton
  <2> QED  BY <1>1, <1>2, <1>n, <2>1
<1>12. CASE AnswerOther \/ Cancel
  BY <1>1, <1>4, <1>12 DEF AnswerOther, Cancel
<1>13. CASE Wrench \/ ShowCaptcha
  BY <1>1, <1>13 DEF Wrench, ShowCaptcha
<1>14. CASE PopupRequest
  <2>1. (form' = form \/ form' = NoForm) /\ UNCHANGED <<on, mode, yuzde, uids, alive>>
    BY <1>14 DEF PopupRequest
  <2> QED  BY <1>1, <1>4, <2>1
<1>15. ASSUME NEW d, DialogRequest(d)
       PROVE  OptTypeOK'
  <2>1. /\ form' = form \/ form' = NoForm \/ form' = Form("profile")
        /\ UNCHANGED <<on, mode, yuzde, uids, alive>>
    BY <1>15 DEF DialogRequest
  <2> QED  BY <1>1, <1>3, <1>4, <2>1
<1>16. CASE UNCHANGED optVars
  BY <1>16 DEF optVars
<1> QED
  BY <1>5, <1>6, <1>7, <1>8, <1>9, <1>10, <1>11, <1>12, <1>13, <1>14, <1>15, <1>16 DEF OptNext, OptStep

\* The invariant of the options: types, and what is known of the popups.
THEOREM OptInvariant == OptSpec => []OptInv
<1>1. OptInit => OptInv
  <2>1. OptInit => OptTypeOK
    BY OptAssumption DEF OptInit, OptTypeOK, NoForm
  <2> QED  BY <2>1, PopupInvInit DEF OptInv
<1>2. OptInv /\ [OptNext]_optVars => OptInv'
  BY OptTypeNext, PopupInvNext DEF OptInv, PopupInv
<1> QED  BY <1>1, <1>2, PTL DEF OptSpec

\* The options and the resolution of ids, side by side (generictext and
\* OnDialogRequest hold both), keep their types: every step is one of each component or
\* leaves it alone, that of /setuid is one of both.
THEOREM HandlersTypes == Spec => []TypesOK
<1>1. Spec => OptSpec
  <2>1. Init => OptInit
    BY DEF Init
  <2>2. [Next]_vars => [OptNext]_optVars
    BY Zenon DEF Next, vars, SetUidCommand, OptNext
  <2> QED  BY <2>1, <2>2, PTL DEF Spec, OptSpec
<1>2. Spec => uidSpec
  <2>1. Init => UidInit
    BY DEF Init
  <2>2. [Next]_vars => [UidNext]_uidVars
    BY Zenon DEF Next, vars, SetUidCommand, UidNext
  <2> QED  BY <2>1, <2>2, PTL DEF Spec, uidSpec
<1>3. OptInv /\ UidInv => TypesOK
  BY DEF OptInv, UidInv, UidTyped, TypesOK
<1> QED  BY <1>1, <1>2, <1>3, OptInvariant, UidInvariant, PTL

=============================================================================
