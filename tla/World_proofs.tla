---------------------------- MODULE World_proofs ----------------------------
(***************************************************************************)
(* The tracked world is the server's, for any users, positions, worlds and *)
(* packets under way.                                                      *)
(***************************************************************************)
EXTENDS World, FiniteSetTheorems, SequenceTheorems, TLAPS

\* A list of players as a server may have it: net ids grow, and the player
\* behind the proxy is in it once at most.
Roster(q) ==
    /\ q \in Seq(Player)
    /\ \A i, j \in 1..Len(q) : i < j => q[i].netid < q[j].netid
    /\ \A i, j \in 1..Len(q) : q[i].userid = Me /\ q[j].userid = Me => i = j

HasMe(q) == \E i \in 1..Len(q) : q[i].userid = Me

\* What the proxy knows of a world, and what it knows now.
View == {v \in [on : BOOLEAN, list : Seq(Player)] : Roster(v.list)}
Tracked == [on |-> connected, list |-> players]

\* The place of another player in a list.
Other(q, j, netid) == j \in 1..Len(q) /\ q[j].netid = netid /\ q[j].userid # Me

\* What packet m makes of the view a.
Becomes(a, m, b) ==
    \/ m.type = "map" /\ b.on /\ b.list = <<>>
    \/ m.type = "menu" /\ ~b.on /\ b.list = <<>>
    \/ /\ m.type = "spawn" /\ a.on /\ b.on
       /\ m.player \in Player /\ (m.local <=> m.player.userid = Me)
       /\ b.list = Append(a.list, m.player)
    \/ /\ m.type = "remove" /\ a.on /\ b.on
       /\ \E j \in 1..Len(a.list) : Other(a.list, j, m.netid) /\ b.list = RemoveAt(a.list, j)
    \/ /\ m.type = "state" /\ a.on /\ b.on /\ m.pos \in Positions
       /\ \E j \in 1..Len(a.list) : /\ Other(a.list, j, m.netid)
                                    /\ b.list = [a.list EXCEPT ![j].pos = m.pos]

\* The packets q lead from the view a to the view b.
Leads(a, q, b) ==
    \E f \in [0..Len(q) -> View] :
       /\ f[0] = a /\ f[Len(q)] = b
       /\ \A i \in 1..Len(q) : Becomes(f[i - 1], q[i], f[i])

\* The server's own list.
ServerInv ==
    present # <<>> =>
       /\ Roster(present) /\ HasMe(present)
       /\ \A i \in 1..Len(present) : present[i].netid <= netids

\* The local player is the one of the list, and without one it has no net id.
LocalInv ==
    /\ \A i \in 1..Len(players) : players[i].userid = Me => Same(local, players[i])
    /\ ~HasMe(players) => local.netid = -1

\* What is under way leads from the proxy's view to the server's.
Aims(v, q, list) == \E u \in View : Leads(v, q, u) /\ (list # <<>> => u.on /\ u.list = list)
BoxInv == Tracked \in View /\ Aims(Tracked, box, present)

WorldInv == TypeOK /\ ServerInv /\ LocalInv /\ BoxInv

-----------------------------------------------------------------------------
\* Lists.

\* r is the list q without the member at p.
Shorter(S, q, p, r) ==
    /\ r \in Seq(S) /\ Len(r) = Len(q) - 1
    /\ \A i \in 1..Len(r) : r[i] = IF i < p THEN q[i] ELSE q[i + 1]

LEMMA Removed ==
    ASSUME NEW S, NEW q \in Seq(S), NEW p \in 1..Len(q), NEW r, r = RemoveAt(q, p)
    PROVE  Shorter(S, q, p, r)
<1>1. PICK a \in Seq(S) : a = SubSeq(q, 1, p - 1) /\ Len(a) = p - 1
                          /\ \A i \in 1..(p - 1) : a[i] = q[i]
  <2>1. SubSeq(q, 1, p - 1) \in Seq(S) /\ Len(SubSeq(q, 1, p - 1)) = p - 1
    OBVIOUS
  <2>2. \A i \in 1..(p - 1) : SubSeq(q, 1, p - 1)[i] = q[i]
    OBVIOUS
  <2> QED BY <2>1, <2>2
<1>2. PICK b \in Seq(S) : b = SubSeq(q, p + 1, Len(q)) /\ Len(b) = Len(q) - p
                          /\ \A i \in 1..(Len(q) - p) : b[i] = q[p + i]
  <2>1. SubSeq(q, p + 1, Len(q)) \in Seq(S) /\ Len(SubSeq(q, p + 1, Len(q))) = Len(q) - p
    OBVIOUS
  <2>2. \A i \in 1..(Len(q) - p) : SubSeq(q, p + 1, Len(q))[i] = q[p + i]
    OBVIOUS
  <2> QED BY <2>1, <2>2
<1>3. r = a \o b
  BY <1>1, <1>2 DEF RemoveAt
<1>p. p \in 1..Len(q)
  OBVIOUS
<1>4. /\ r \in Seq(S) /\ Len(r) = Len(q) - 1
      /\ \A i \in 1..Len(r) : r[i] = IF i <= p - 1 THEN a[i] ELSE b[i - (p - 1)]
  <2>1. /\ r \in Seq(S) /\ Len(r) = Len(a) + Len(b)
        /\ \A i \in 1..Len(a) + Len(b) : r[i] = IF i <= Len(a) THEN a[i] ELSE b[i - Len(a)]
    <3>1. /\ a \o b \in Seq(S) /\ Len(a \o b) = Len(a) + Len(b)
          /\ \A i \in 1..Len(a) + Len(b) :
                (a \o b)[i] = IF i <= Len(a) THEN a[i] ELSE b[i - Len(a)]
      BY ConcatProperties
    <3> DEFINE ab == a \o b
    <3>2. r = ab
      BY <1>3
    <3>3. /\ ab \in Seq(S) /\ Len(ab) = Len(a) + Len(b)
          /\ \A i \in 1..Len(a) + Len(b) : ab[i] = IF i <= Len(a) THEN a[i] ELSE b[i - Len(a)]
      BY <3>1
    <3> HIDE DEF ab
    <3> QED BY <3>2, <3>3, Zenon
  <2>2. Len(a) = p - 1 /\ Len(b) = Len(q) - p /\ Len(a) + Len(b) = Len(q) - 1
    <3>1. Len(q) \in Nat /\ p \in Nat
      BY <1>p
    <3>2. Len(a) = p - 1 /\ Len(b) = Len(q) - p
      BY <1>1, <1>2, Zenon
    <3>3. (p - 1) + (Len(q) - p) = Len(q) - 1
      BY <3>1
    <3> QED BY <3>2, <3>3, Zenon
  <2>3. ASSUME NEW i \in 1..Len(r)
        PROVE  r[i] = IF i <= p - 1 THEN a[i] ELSE b[i - (p - 1)]
    <3>1. i \in 1..Len(a) + Len(b)
      BY <2>1
    <3>2. r[i] = IF i <= Len(a) THEN a[i] ELSE b[i - Len(a)]
      BY <2>1, <3>1, Zenon
    <3> QED BY <2>2, <3>2, Zenon
  <2> QED BY <2>1, <2>2, <2>3
<1>5. ASSUME NEW i \in 1..Len(r)
      PROVE  r[i] = IF i < p THEN q[i] ELSE q[i + 1]
  <2>1. CASE i < p
    BY <1>1, <1>4, <1>p, <2>1
  <2>2. CASE i >= p
    <3>0. i \in Nat /\ p \in Nat /\ Len(q) \in Nat /\ i <= Len(q) - 1 /\ i >= p
      BY <1>4, <1>p, <2>2
    <3>1. PICK j \in 1..(Len(q) - p) : j = i - (p - 1) /\ p + j = i + 1
      BY <3>0
    <3>2. r[i] = b[j]
      <4>1. r[i] = IF i <= p - 1 THEN a[i] ELSE b[i - (p - 1)]
        BY <1>4
      <4>2. ~(i <= p - 1)
        BY <1>4, <1>p, <2>2
      <4> QED BY <3>1, <4>1, <4>2
    <3>3. b[j] = q[p + j]
      BY <1>2
    <3> QED BY <1>p, <2>2, <3>1, <3>2, <3>3
  <2> QED BY <1>p, <2>1, <2>2
<1> QED BY <1>4, <1>5 DEF Shorter

\* All entries of a list but one, in their order, are the list without it.
LEMMA KeptAllBut ==
    ASSUME NEW S, NEW q \in Seq(S), NEW p \in 1..Len(q)
    PROVE  Kept(q, (1..Len(q)) \ {p}) = RemoveAt(q, p)
<1> DEFINE P == (1..Len(q)) \ {p}
           C(j) == Cardinality({i \in P : i <= j})
<1>1. PICK n \in Nat : n = Len(q) /\ p \in 1..n
  OBVIOUS
<1>2. \A m \in 0..n : IsFiniteSet(1..m) /\ Cardinality(1..m) = m
  <2> SUFFICES ASSUME NEW m \in 0..n
               PROVE  IsFiniteSet(1..m) /\ Cardinality(1..m) = m
    OBVIOUS
  <2>1. /\ IsFiniteSet(1..m)
        /\ Cardinality(1..m) = IF 1 > m THEN 0 ELSE m - 1 + 1
    BY FS_Interval
  <2> QED BY <2>1
<1>3. Cardinality(P) = n - 1
  <2>1. n \in 0..n /\ P = (1..n) \ {p}
    BY <1>1
  <2> QED BY <1>1, <1>2, <2>1, FS_RemoveElement
<1>4. ASSUME NEW j \in P, j < p
      PROVE  C(j) = j
  <2>1. {i \in P : i <= j} = 1..j
    BY <1>1, <1>4
  <2>2. j \in 0..n
    BY <1>1
  <2>3. Cardinality(1..j) = j
    BY <1>2, <2>2
  <2> QED BY <2>1, <2>3
<1>5. ASSUME NEW j \in P, j > p
      PROVE  C(j) = j - 1
  <2>1. {i \in P : i <= j} = (1..j) \ {p}
    BY <1>1, <1>5
  <2>2. j \in 0..n /\ p \in 1..j
    BY <1>1, <1>5
  <2>3. Cardinality((1..j) \ {p}) = Cardinality(1..j) - 1
    BY <1>2, <2>2, FS_RemoveElement
  <2> QED BY <1>2, <2>1, <2>2, <2>3
<1> DEFINE At(k) == CHOOSE j \in P : C(j) = k
<1>6. ASSUME NEW k \in 1..(n - 1)
      PROVE  At(k) = IF k < p THEN k ELSE k + 1
  <2> DEFINE a == IF k < p THEN k ELSE k + 1
  <2>1. a \in P
    BY <1>1
  <2>2. C(a) = k
    <3>1. CASE k < p
      BY <1>4, <2>1, <3>1
    <3>2. CASE k >= p
      <4>1. a = k + 1 /\ a > p
        BY <1>1, <3>2
      <4>2. C(a) = a - 1
        BY <1>5, <2>1, <4>1
      <4> QED BY <4>1, <4>2
    <3> QED BY <1>1, <3>1, <3>2
  <2>3. ASSUME NEW j \in P, C(j) = k
        PROVE  j = a
    <3> HIDE DEF C
    <3>1. j < p \/ j > p
      BY <1>1
    <3> QED BY <1>1, <1>4, <1>5, <2>3, <3>1
  <2> HIDE DEF a, P, C
  <2>4. At(k) = a
    BY <2>1, <2>2, <2>3
  <2> QED BY <2>4 DEF a
<1> DEFINE r == RemoveAt(q, p)
<1>7. /\ r \in Seq(S) /\ Len(r) = n - 1
      /\ \A i \in 1..(n - 1) : r[i] = IF i < p THEN q[i] ELSE q[i + 1]
  BY <1>1, Removed DEF Shorter
<1>8. Kept(q, P) = [k \in 1..Cardinality(P) |-> q[At(k)]]
  BY DEF Kept
<1> HIDE DEF At, P, r
<1>9. Kept(q, P) = [k \in 1..(n - 1) |-> q[At(k)]]
  BY <1>3, <1>8
<1> DEFINE v == [k \in 1..(n - 1) |-> q[At(k)]]
<1>10. \A k \in 1..(n - 1) : v[k] = r[k]
  BY <1>1, <1>6, <1>7
<1>11. v \in Seq(S) /\ Len(v) = n - 1
  <2>1. n - 1 \in Nat
    BY <1>1
  <2>2. \A k \in 1..(n - 1) : v[k] \in S
    BY <1>7, <1>10
  <2> QED BY <2>1, <2>2
<1>12. v = r
  BY <1>7, <1>10, <1>11, SeqEqual
<1> QED BY <1>9, <1>12 DEF r, P

\* Net ids tell the players of a list apart.
LEMMA OneOfNetId ==
    ASSUME NEW q, Roster(q), NEW i \in 1..Len(q), NEW j \in 1..Len(q)
    PROVE  /\ q[i].netid = q[j].netid => i = j
           /\ q[i] \in Player /\ q[i].netid \in 1..MaxNetId
<1>1. i \in Nat /\ j \in Nat /\ q[i] \in Player /\ q[j] \in Player
  BY DEF Roster
<1>2. q[i].netid \in 1..MaxNetId /\ q[j].netid \in 1..MaxNetId
  BY <1>1 DEF Player
<1>3. i < j => q[i].netid < q[j].netid
  BY DEF Roster
<1>4. j < i => q[j].netid < q[i].netid
  BY DEF Roster
<1> QED BY <1>1, <1>2, <1>3, <1>4, WorldAssumption

\* The search by net id finds a player other than the local one.
LEMMA Found ==
    ASSUME NEW q, Roster(q), NEW netid, NEW j, Other(q, j, netid)
    PROVE  FirstWith(q, netid) = j /\ j # 0
<1> DEFINE at == {i \in DOMAIN q : q[i].netid = netid}
<1>1. DOMAIN q = 1..Len(q) /\ j \in 1..Len(q) /\ q[j].netid = netid
  BY DEF Roster, Other
<1>2. at = {j}
  BY <1>1, OneOfNetId
<1>3. FirstWith(q, netid) = IF at = {} THEN 0 ELSE CHOOSE i \in at : \A k \in at : i <= k
  BY DEF FirstWith
<1> HIDE DEF at
<1>4. (CHOOSE i \in at : \A k \in at : i <= k) = j
  BY <1>1, <1>2
<1> QED BY <1>1, <1>2, <1>3, <1>4

\* In such a list the aliased erase removes the player it was asked for and
\* nobody else.
LEMMA Erased ==
    ASSUME NEW q, Roster(q), NEW i \in 1..Len(q)
    PROVE  EraseAliased(q, i) = RemoveAt(q, i)
<1>1. PICK n \in Nat : n = Len(q) /\ DOMAIN q = 1..n /\ i \in 1..n
  BY DEF Roster
<1>2. ASSUME NEW j \in 1..n, NEW k \in 1..n
      PROVE  Same(q[j], q[k]) => j = k
  BY <1>1, <1>2, OneOfNetId DEF Same
<1> DEFINE others == {j \in DOMAIN q : j > i /\ ~Same(q[j], q[i])}
           f == CHOOSE j \in others : \A k \in others : j <= k
           rest == IF others = {} THEN {}
                   ELSE {f} \cup {j \in DOMAIN q : j > f /\ ~Same(q[j], q[f])}
<1>3. others = (i + 1)..n
  BY <1>1, <1>2
<1>4. others # {} => f = i + 1
  <2> SUFFICES ASSUME others # {}
               PROVE  f = i + 1
    OBVIOUS
  <2>1. i + 1 \in others
    BY <1>1, <1>3
  <2>2. \A j \in others : i + 1 <= j
    BY <1>1, <1>3
  <2>3. ASSUME NEW j \in others, \A k \in others : j <= k
        PROVE  j = i + 1
    BY <1>1, <1>3, <2>1, <2>2, <2>3
  <2> HIDE DEF others
  <2> QED BY <2>1, <2>2, <2>3
<1>5. rest = (i + 1)..n
  <2>1. CASE others = {}
    BY <1>3, <2>1
  <2>2. CASE others # {}
    <3> HIDE DEF f
    <3>1. f = i + 1 /\ f \in 1..n
      BY <1>1, <1>3, <1>4, <2>2
    <3>2. {j \in DOMAIN q : j > f /\ ~Same(q[j], q[f])} = (f + 1)..n
      BY <1>1, <1>2, <3>1
    <3> HIDE DEF others
    <3>3. rest = {f} \cup ((f + 1)..n)
      BY <2>2, <3>2
    <3>4. {f} \cup ((f + 1)..n) = f..n
      BY <1>1, <3>1
    <3> HIDE DEF rest
    <3> QED BY <3>1, <3>3, <3>4
  <2> QED BY <2>1, <2>2
<1>6. EraseAliased(q, i) = Kept(q, 1..(i - 1) \cup rest)
  BY DEF EraseAliased
<1> HIDE DEF rest
<1>7. 1..(i - 1) \cup rest = (1..n) \ {i}
  BY <1>1, <1>5
<1>8. EraseAliased(q, i) = Kept(q, (1..Len(q)) \ {i})
  BY <1>1, <1>6, <1>7
<1>9. q \in Seq(Player)
  BY DEF Roster
<1> QED BY <1>8, <1>9, KeptAllBut

\* The lists of the server.
Grown(q, p, r) ==
    /\ Roster(r)
    /\ Len(r) = Len(q) + 1 /\ r[Len(q) + 1] = p
    /\ \A i \in 1..Len(q) : r[i] = q[i]

\* A player with a new net id may come to the end of a roster ...
LEMMA RosterAppend ==
    ASSUME NEW q, Roster(q), NEW p \in Player, p.userid = Me => ~HasMe(q),
           \A i \in 1..Len(q) : q[i].netid < p.netid, NEW r, r = Append(q, p)
    PROVE  Grown(q, p, r)
<1>1. PICK n \in Nat : n = Len(q)
  BY DEF Roster
<1>2. q \in Seq(Player)
  BY DEF Roster
<1>3. /\ r \in Seq(Player) /\ Len(r) = n + 1 /\ r[n + 1] = p
      /\ \A i \in 1..n : r[i] = q[i]
  BY <1>1, <1>2, AppendProperties
<1>4. ASSUME NEW i \in 1..(n + 1), NEW j \in 1..(n + 1), i < j
      PROVE  r[i].netid < r[j].netid
  <2>1. i \in 1..n
    BY <1>1, <1>4
  <2>2. CASE j = n + 1
    <3>1. r[i] = q[i] /\ r[j] = p /\ i \in 1..Len(q)
      BY <1>1, <1>3, <2>1, <2>2
    <3> QED BY <3>1
  <2>3. CASE j # n + 1
    BY <1>1, <1>3, <1>4, <2>1, <2>3 DEF Roster
  <2> QED BY <2>2, <2>3
<1>5. ASSUME NEW i \in 1..(n + 1), NEW j \in 1..(n + 1), r[i].userid = Me, r[j].userid = Me
      PROVE  i = j
  <2>1. CASE i = n + 1 /\ j # n + 1
    BY <1>1, <1>3, <1>5, <2>1 DEF HasMe
  <2>2. CASE j = n + 1 /\ i # n + 1
    BY <1>1, <1>3, <1>5, <2>2 DEF HasMe
  <2>3. CASE i # n + 1 /\ j # n + 1
    BY <1>1, <1>3, <1>5, <2>3 DEF Roster
  <2> QED BY <2>1, <2>2, <2>3
<1> QED BY <1>1, <1>3, <1>4, <1>5 DEF Roster, Grown

\* ... another player may leave it ...
LEMMA RosterRemove ==
    ASSUME NEW q, Roster(q), NEW netid, NEW p, Other(q, p, netid), NEW r, r = RemoveAt(q, p)
    PROVE  /\ Roster(r) /\ (HasMe(r) <=> HasMe(q))
           /\ \A i \in 1..Len(r) : \E j \in 1..Len(q) : r[i] = q[j]
<1>1. PICK n \in Nat : n = Len(q) /\ p \in 1..n /\ q[p].userid # Me
  BY DEF Roster, Other
<1>2. q \in Seq(Player)
  BY DEF Roster
<1>3. /\ r \in Seq(Player) /\ Len(r) = n - 1
      /\ \A i \in 1..(n - 1) : r[i] = IF i < p THEN q[i] ELSE q[i + 1]
  <2>1. p \in 1..Len(q)
    BY <1>1
  <2>2. /\ r \in Seq(Player) /\ Len(r) = Len(q) - 1
        /\ \A i \in 1..Len(r) : r[i] = IF i < p THEN q[i] ELSE q[i + 1]
    <3>1. Shorter(Player, q, p, r)
      BY <1>2, <2>1, Removed, Zenon
    <3> QED BY <3>1, Zenon DEF Shorter
  <2>3. Len(r) = n - 1
    BY <1>1, <2>2
  <2> QED BY <2>2, <2>3, Zenon
<1> DEFINE From(i) == IF i < p THEN i ELSE i + 1
<1>4. \A i \in 1..(n - 1) : From(i) \in 1..n /\ r[i] = q[From(i)]
  BY <1>1, <1>3
<1>5. \A i, j \in 1..(n - 1) : /\ i < j => From(i) < From(j)
                               /\ From(i) = From(j) => i = j
  BY <1>1
<1>6. \A j \in 1..n : j # p => \E i \in 1..(n - 1) : From(i) = j
  <2> SUFFICES ASSUME NEW j \in 1..n, j # p
               PROVE  \E i \in 1..(n - 1) : From(i) = j
    OBVIOUS
  <2>1. CASE j < p
    <3>1. j \in 1..(n - 1) /\ From(j) = j
      BY <1>1, <2>1
    <3> QED BY <3>1
  <2>2. CASE j > p
    <3>1. j - 1 \in 1..(n - 1) /\ From(j - 1) = j
      BY <1>1, <2>2
    <3> QED BY <3>1
  <2> QED BY <1>1, <2>1, <2>2
<1> HIDE DEF From
<1>7. \A i, j \in 1..Len(r) : i < j => r[i].netid < r[j].netid
  BY <1>1, <1>3, <1>4, <1>5 DEF Roster
<1>8. \A i, j \in 1..Len(r) : r[i].userid = Me /\ r[j].userid = Me => i = j
  BY <1>1, <1>3, <1>4, <1>5 DEF Roster
<1>9. HasMe(r) => HasMe(q)
  BY <1>1, <1>3, <1>4 DEF HasMe
<1>10. ASSUME HasMe(q)
       PROVE  HasMe(r)
  <2>1. PICK j \in 1..n : q[j].userid = Me
    BY <1>1, <1>10 DEF HasMe
  <2>2. j # p
    BY <1>1, <2>1
  <2>3. PICK i \in 1..(n - 1) : From(i) = j
    BY <1>6, <2>1, <2>2
  <2>4. r[i] = q[j] /\ i \in 1..Len(r)
    BY <1>3, <1>4, <2>3
  <2> QED BY <2>1, <2>4 DEF HasMe
<1>11. Roster(r)
  BY <1>3, <1>7, <1>8 DEF Roster
<1>12. \A i \in 1..Len(r) : \E j \in 1..Len(q) : r[i] = q[j]
  BY <1>1, <1>3, <1>4
<1> QED BY <1>9, <1>10, <1>11, <1>12

SameRoster(q, r) ==
    /\ Roster(r) /\ Len(r) = Len(q) /\ (HasMe(r) <=> HasMe(q))
    /\ \A i \in 1..Len(q) : r[i].netid = q[i].netid /\ r[i].userid = q[i].userid

\* ... or move.
LEMMA RosterMove ==
    ASSUME NEW q, Roster(q), NEW netid, NEW p, Other(q, p, netid), NEW pos \in Positions,
           NEW r, r = [q EXCEPT ![p].pos = pos]
    PROVE  SameRoster(q, r)
<1>1. PICK n \in Nat : n = Len(q) /\ p \in 1..n /\ q \in [1..n -> Player]
  BY DEF Roster, Other
<1>2. PICK x : x = [q[p] EXCEPT !.pos = pos]
  OBVIOUS
<1>3. q[p] \in Player
  BY <1>1
<1>4. x \in Player /\ x.netid = q[p].netid /\ x.userid = q[p].userid
  BY <1>2, <1>3 DEF Player
<1>5. r = [q EXCEPT ![p] = x]
  BY <1>1, <1>2
<1>6. r \in [1..n -> Player] /\ \A i \in 1..n : r[i] = IF i = p THEN x ELSE q[i]
  BY <1>1, <1>4, <1>5
<1>7. r \in Seq(Player) /\ Len(r) = n
  BY <1>1, <1>6
<1>8. \A i \in 1..n : r[i].netid = q[i].netid /\ r[i].userid = q[i].userid
  BY <1>4, <1>6
<1>9. \A i, j \in 1..n : i < j => r[i].netid < r[j].netid
  BY <1>1, <1>8 DEF Roster
<1>10. \A i, j \in 1..n : r[i].userid = Me /\ r[j].userid = Me => i = j
  BY <1>1, <1>8 DEF Roster
<1>11. HasMe(r) <=> HasMe(q)
  BY <1>1, <1>7, <1>8 DEF HasMe
<1>12. Roster(r)
  BY <1>7, <1>9, <1>10 DEF Roster
<1> HIDE DEF HasMe
<1> QED BY <1>1, <1>7, <1>8, <1>11, <1>12 DEF SameRoster

-----------------------------------------------------------------------------
\* Views.

\* A roster, with the flag connected, is a view.
LEMMA Views ==
    ASSUME NEW on \in BOOLEAN, NEW q, Roster(q)
    PROVE  [on |-> on, list |-> q] \in View
BY DEF View, Roster

\* Nobody is a roster.
LEMMA EmptyRoster == Roster(<<>>) /\ ~HasMe(<<>>)
BY DEF Roster, HasMe

\* With nothing under way the two views are the same.
LEMMA LeadsNone ==
    ASSUME NEW a \in View, NEW b \in View
    PROVE  Leads(a, <<>>, b) <=> a = b
<1>1. Leads(a, <<>>, b) => a = b
  BY DEF Leads
<1>2. ASSUME a = b
      PROVE  Leads(a, <<>>, b)
  <2> DEFINE f == [i \in 0..0 |-> a]
  <2>1. f \in [0..Len(<<>>) -> View] /\ f[0] = a /\ f[Len(<<>>)] = b
    BY <1>2
  <2>2. \A i \in 1..Len(<<>>) : Becomes(f[i - 1], <<>>[i], f[i])
    OBVIOUS
  <2> QED BY <2>1, <2>2 DEF Leads
<1> QED BY <1>1, <1>2

\* The first packet is handled.
LEMMA LeadsFirst ==
    ASSUME NEW a \in View, NEW b \in View, NEW q \in Seq(Packet), q # <<>>, Leads(a, q, b)
    PROVE  \E v \in View : Becomes(a, Head(q), v) /\ Leads(v, Tail(q), b)
<1>1. PICK n \in Nat : n = Len(q) /\ n >= 1
  OBVIOUS
<1>2. PICK f \in [0..n -> View] :
         f[0] = a /\ f[n] = b /\ \A i \in 1..n : Becomes(f[i - 1], q[i], f[i])
  BY <1>1 DEF Leads
<1>3. Head(q) = q[1] /\ Len(Tail(q)) = n - 1 /\ \A i \in 1..(n - 1) : Tail(q)[i] = q[i + 1]
  BY <1>1, HeadTailProperties
<1>4. f[1] \in View /\ Becomes(a, Head(q), f[1])
  <2>1. 1 \in 1..n /\ 1 \in 0..n /\ 1 - 1 = 0
    BY <1>1
  <2>2. Becomes(f[1 - 1], q[1], f[1])
    BY <1>2, <2>1
  <2> QED BY <1>2, <1>3, <2>1, <2>2
<1> DEFINE g == [i \in 0..(n - 1) |-> f[i + 1]]
<1>5. g \in [0..(n - 1) -> View] /\ g[0] = f[1] /\ g[n - 1] = b
  <2>1. \A i \in 0..(n - 1) : i + 1 \in 0..n
    BY <1>1
  <2>2. 0 \in 0..(n - 1) /\ n - 1 \in 0..(n - 1) /\ 0 + 1 = 1 /\ (n - 1) + 1 = n
    BY <1>1
  <2> QED BY <1>2, <2>1, <2>2
<1>6. ASSUME NEW i \in 1..(n - 1)
      PROVE  Becomes(g[i - 1], Tail(q)[i], g[i])
  <2>1. i + 1 \in 1..n /\ (i + 1) - 1 = i /\ i - 1 \in 0..(n - 1) /\ i \in 0..(n - 1) /\ (i - 1) + 1 = i
    BY <1>1
  <2>2. Becomes(f[(i + 1) - 1], q[i + 1], f[i + 1])
    BY <1>2, <2>1
  <2>3. g[i - 1] = f[i] /\ g[i] = f[i + 1] /\ Tail(q)[i] = q[i + 1]
    BY <1>3, <2>1
  <2> QED BY <2>1, <2>2, <2>3
<1>7. Leads(f[1], Tail(q), b)
  <2> HIDE DEF g
  <2> QED BY <1>3, <1>5, <1>6 DEF Leads
<1> QED BY <1>4, <1>7

\* One more packet is sent.
LEMMA LeadsLast ==
    ASSUME NEW a \in View, NEW b \in View, NEW q \in Seq(Packet), Leads(a, q, b),
           NEW m \in Packet, NEW v \in View, Becomes(b, m, v)
    PROVE  Append(q, m) \in Seq(Packet) /\ Leads(a, Append(q, m), v)
<1>1. PICK n \in Nat : n = Len(q)
  OBVIOUS
<1>2. PICK f \in [0..n -> View] :
         f[0] = a /\ f[n] = b /\ \A i \in 1..n : Becomes(f[i - 1], q[i], f[i])
  BY <1>1 DEF Leads
<1>3. PICK r \in Seq(Packet) : /\ r = Append(q, m) /\ Len(r) = n + 1 /\ r[n + 1] = m
                               /\ \A i \in 1..n : r[i] = q[i]
  BY <1>1, AppendProperties
<1> DEFINE g == [i \in 0..(n + 1) |-> IF i = n + 1 THEN v ELSE f[i]]
<1>4. g \in [0..(n + 1) -> View] /\ g[0] = a /\ g[n + 1] = v
  BY <1>1, <1>2
<1>5. ASSUME NEW i \in 1..(n + 1)
      PROVE  Becomes(g[i - 1], r[i], g[i])
  <2>1. CASE i = n + 1
    <3>1. i - 1 = n /\ g[n] = f[n] /\ g[i] = v /\ r[i] = m
      BY <1>1, <1>3, <2>1
    <3> QED BY <1>2, <2>1, <3>1
  <2>2. CASE i # n + 1
    <3>1. i \in 1..n
      BY <1>1, <2>2
    <3>2. g[i - 1] = f[i - 1] /\ g[i] = f[i] /\ r[i] = q[i]
      BY <1>1, <1>3, <3>1
    <3> QED BY <1>2, <3>1, <3>2
  <2> QED BY <2>1, <2>2
<1>6. Leads(a, r, v)
  <2> HIDE DEF g
  <2> QED BY <1>3, <1>4, <1>5 DEF Leads
<1> QED BY <1>3, <1>6

-----------------------------------------------------------------------------
\* The handlers.

LocalType == Player \cup {[NoPlayer EXCEPT !.pos = p] : p \in Positions}

\* What the local player is reset to.
LEMMA NoPlayerIs ==
    NoPlayer \in LocalType /\ NoPlayer.netid = -1
<1>1. NoPlayer = [NoPlayer EXCEPT !.pos = Origin] /\ NoPlayer.netid = -1
  BY DEF NoPlayer
<1> QED BY <1>1, WorldAssumption DEF LocalType

\* What a handler finds: the first packet, the view it is to make, and the rest.
LEMMA Handled ==
    ASSUME WorldInv, NEW type, Handles(type)
    PROVE  /\ box' \in Seq(Packet) /\ UNCHANGED server
           /\ \E v \in View : /\ Head(box).type = type /\ Becomes(Tracked, Head(box), v)
                              /\ Aims(v, box', present)
<1>1. /\ box \in Seq(Packet) /\ box # <<>> /\ box' = Tail(box) /\ Head(box).type = type
      /\ UNCHANGED server
  BY DEF WorldInv, TypeOK, Handles
<1>2. PICK u \in View : Leads(Tracked, box, u) /\ (present # <<>> => u.on /\ u.list = present)
  BY DEF WorldInv, BoxInv, Aims
<1>3. Tracked \in View
  BY DEF WorldInv, BoxInv
<1>4. PICK v \in View : Becomes(Tracked, Head(box), v) /\ Leads(v, Tail(box), u)
  BY <1>1, <1>2, <1>3, LeadsFirst
<1> QED BY <1>1, <1>2, <1>4 DEF Aims

\* A handler of the proxy takes one packet and leaves the server alone.
LEMMA HandlerDone ==
    ASSUME WorldInv, UNCHANGED server, box' \in Seq(Packet), NEW v \in View, Aims(v, box', present),
           connected' = v.on, players' = v.list, local' \in LocalType, LocalInv'
    PROVE  WorldInv'
<1>1. TypeOK /\ ServerInv /\ present' = present /\ netids' = netids /\ worlds' = worlds
  BY DEF WorldInv, server
<1>2. connected' \in BOOLEAN /\ players' \in Seq(Player) /\ Tracked' = v
  BY DEF View, Tracked
<1>3. TypeOK'
  BY <1>1, <1>2 DEF TypeOK, LocalType
<1>4. ServerInv'
  BY <1>1 DEF ServerInv
<1>5. BoxInv'
  BY <1>1, <1>2 DEF BoxInv
<1> QED BY <1>3, <1>4, <1>5 DEF WorldInv

\* The world begins or ends.
LEMMA ResetStep ==
    ASSUME WorldInv, sendmapdata \/ OnRequestWorldSelectMenu
    PROVE  WorldInv'
<1>1. PICK type \in {"map", "menu"} : /\ Handles(type) /\ players' = <<>> /\ local' = NoPlayer
                                      /\ connected' = (type = "map")
  BY DEF sendmapdata, OnRequestWorldSelectMenu
<1>2. PICK v \in View : /\ Head(box).type = type /\ Becomes(Tracked, Head(box), v)
                        /\ Aims(v, box', present)
  BY <1>1, Handled
<1>3. box' \in Seq(Packet) /\ UNCHANGED server
  BY <1>1, Handled
<1>4. v.list = <<>> /\ v.on = (type = "map")
  BY <1>1, <1>2 DEF Becomes, View
<1>5. LocalInv'
  BY <1>1, NoPlayerIs, EmptyRoster DEF LocalInv
<1> QED BY <1>1, <1>2, <1>3, <1>4, <1>5, NoPlayerIs, HandlerDone

\* OnSpawn adds a player or sets the local one.
LEMMA OnSpawnStep ==
    ASSUME WorldInv, OnSpawn
    PROVE  WorldInv'
<1>1. /\ Handles("spawn") /\ connected' = connected
      /\ players' = Append(players, Head(box).player)
      /\ local' = IF Head(box).local THEN Head(box).player ELSE local
  BY DEF OnSpawn
<1>2. PICK v \in View : /\ Head(box).type = "spawn" /\ Becomes(Tracked, Head(box), v)
                        /\ Aims(v, box', present)
  BY <1>1, Handled
<1>3. box' \in Seq(Packet) /\ UNCHANGED server
  BY <1>1, Handled
<1>4. PICK p \in Player : /\ p = Head(box).player /\ (Head(box).local <=> p.userid = Me)
                          /\ connected /\ v.on /\ v.list = Append(players, p)
  BY <1>2 DEF Becomes, Tracked
<1>5. TypeOK /\ LocalInv /\ players \in Seq(Player) /\ Roster(v.list)
  BY DEF WorldInv, TypeOK, View
<1>6. PICK n \in Nat : n = Len(players)
  BY <1>5
<1>7. /\ Len(v.list) = n + 1 /\ v.list[n + 1] = p
      /\ \A i \in 1..n : v.list[i] = players[i]
  BY <1>4, <1>5, <1>6, AppendProperties
<1>8. local' \in LocalType
  BY <1>1, <1>4, <1>5 DEF TypeOK, LocalType
<1>9. players' = v.list
  BY <1>1, <1>4
<1>10. ASSUME NEW i \in 1..(n + 1), v.list[i].userid = Me
       PROVE  Same(local', v.list[i])
  <2>1. CASE p.userid = Me
    <3>1. i = n + 1
      BY <1>5, <1>7, <1>10, <2>1 DEF Roster
    <3> QED BY <1>1, <1>4, <1>7, <2>1, <3>1 DEF Same
  <2>2. CASE p.userid # Me
    <3>1. i \in 1..n /\ local' = local
      BY <1>1, <1>4, <1>7, <1>10, <2>2
    <3> QED BY <1>5, <1>6, <1>7, <1>10, <3>1 DEF LocalInv
  <2> QED BY <2>1, <2>2
<1>11. ASSUME ~HasMe(v.list)
       PROVE  local'.netid = -1
  <2>1. p.userid # Me /\ ~HasMe(players)
    BY <1>6, <1>7, <1>11 DEF HasMe
  <2> QED BY <1>1, <1>4, <1>5, <2>1 DEF LocalInv
<1>12. LocalInv'
  BY <1>7, <1>9, <1>10, <1>11 DEF LocalInv
<1> QED BY <1>1, <1>2, <1>3, <1>4, <1>8, <1>9, <1>12, HandlerDone

\* A player other than the local one leaves.
LEMMA OnRemoveStep ==
    ASSUME WorldInv, OnRemove
    PROVE  WorldInv'
<1>1. /\ Handles("remove") /\ connected' = connected
      /\ local' = IF Head(box).netid = local.netid THEN NoPlayer ELSE local
      /\ players' = IF FirstWith(players, Head(box).netid) = 0 THEN players
                    ELSE EraseAliased(players, FirstWith(players, Head(box).netid))
  BY DEF OnRemove
<1>2. PICK v \in View : /\ Head(box).type = "remove" /\ Becomes(Tracked, Head(box), v)
                        /\ Aims(v, box', present)
  BY <1>1, Handled
<1>3. box' \in Seq(Packet) /\ UNCHANGED server
  BY <1>1, Handled
<1>4. PICK j \in 1..Len(players) : /\ connected /\ v.on /\ Other(players, j, Head(box).netid)
                                   /\ v.list = RemoveAt(players, j)
  BY <1>2 DEF Becomes, Tracked
<1>5. TypeOK /\ LocalInv /\ Roster(players) /\ players \in Seq(Player)
  BY DEF WorldInv, TypeOK, BoxInv, View, Tracked
<1>6. players' = v.list
  BY <1>1, <1>4, <1>5, Found, Erased
<1>7. /\ HasMe(v.list) <=> HasMe(players)
      /\ \A i \in 1..Len(v.list) : \E k \in 1..Len(players) : v.list[i] = players[k]
  BY <1>4, <1>5, RosterRemove
<1>8. Head(box).netid # local.netid
  <2>1. players[j].netid = Head(box).netid /\ players[j].userid # Me
    BY <1>4 DEF Other
  <2>2. CASE HasMe(players)
    <3>1. PICK i \in 1..Len(players) : players[i].userid = Me
      BY <2>2 DEF HasMe
    <3>2. local.netid = players[i].netid
      BY <1>5, <3>1 DEF LocalInv, Same
    <3>3. players[i].netid # players[j].netid
      BY <1>4, <1>5, <2>1, <3>1, OneOfNetId
    <3> QED BY <2>1, <3>2, <3>3
  <2>3. CASE ~HasMe(players)
    <3>1. local.netid = -1
      BY <1>5, <2>3 DEF LocalInv
    <3>2. players[j].netid \in 1..MaxNetId
      BY <1>4, <1>5, OneOfNetId
    <3> QED BY <2>1, <3>1, <3>2, WorldAssumption
  <2> QED BY <2>2, <2>3
<1>9. local' = local
  BY <1>1, <1>8
<1>10. local' \in LocalType
  BY <1>5, <1>9 DEF TypeOK, LocalType
<1>11. LocalInv'
  BY <1>5, <1>6, <1>7, <1>9 DEF LocalInv
<1> QED BY <1>1, <1>2, <1>3, <1>4, <1>6, <1>10, <1>11, HandlerDone

\* A player other than the local one has moved.
LEMMA in_stateStep ==
    ASSUME WorldInv, in_state
    PROVE  WorldInv'
<1>1. /\ Handles("state") /\ connected' = connected /\ local' = local
      /\ players' = IF connected /\ FirstWith(players, Head(box).netid) # 0
                    THEN [players EXCEPT ![FirstWith(players, Head(box).netid)].pos = Head(box).pos]
                    ELSE players
  BY DEF in_state
<1>2. PICK v \in View : /\ Head(box).type = "state" /\ Becomes(Tracked, Head(box), v)
                        /\ Aims(v, box', present)
  BY <1>1, Handled
<1>3. box' \in Seq(Packet) /\ UNCHANGED server
  BY <1>1, Handled
<1>4. PICK j \in 1..Len(players) : /\ connected /\ v.on /\ Other(players, j, Head(box).netid)
                                   /\ Head(box).pos \in Positions
                                   /\ v.list = [players EXCEPT ![j].pos = Head(box).pos]
  BY <1>2 DEF Becomes, Tracked
<1>5. TypeOK /\ LocalInv /\ Roster(players)
  BY DEF WorldInv, TypeOK, BoxInv, View, Tracked
<1>6. FirstWith(players, Head(box).netid) = j /\ j # 0
  BY <1>4, <1>5, Found
<1>7. players' = v.list
  BY <1>1, <1>4, <1>6
<1>8. /\ Len(v.list) = Len(players) /\ (HasMe(v.list) <=> HasMe(players))
      /\ \A i \in 1..Len(players) : /\ v.list[i].netid = players[i].netid
                                    /\ v.list[i].userid = players[i].userid
  <2>1. SameRoster(players, v.list)
    BY <1>4, <1>5, RosterMove
  <2> QED BY <2>1 DEF SameRoster
<1>9. local' \in LocalType
  BY <1>1, <1>5 DEF TypeOK, LocalType
<1>10. LocalInv'
  <2>1. ASSUME NEW i \in 1..Len(v.list), v.list[i].userid = Me
        PROVE  Same(local, v.list[i])
    <3>1. i \in 1..Len(players) /\ players[i].userid = Me
      BY <1>8, <2>1
    <3>2. Same(local, players[i])
      BY <1>5, <3>1 DEF LocalInv
    <3> QED BY <1>8, <3>1, <3>2 DEF Same
  <2>2. ~HasMe(v.list) => local.netid = -1
    BY <1>5, <1>8 DEF LocalInv
  <2>3. local' = local
    BY <1>1
  <2> QED BY <1>7, <2>1, <2>2, <2>3 DEF LocalInv, HasMe, Same
<1> QED BY <1>1, <1>2, <1>3, <1>4, <1>7, <1>9, <1>10, HandlerDone

\* The client's packets change the position of the local player only.
LEMMA LocalMoves ==
    ASSUME WorldInv, NEW pos \in Positions, local' = [local EXCEPT !.pos = pos],
           UNCHANGED <<connected, players, server, box>>
    PROVE  WorldInv'
<1>1. TypeOK /\ LocalInv /\ BoxInv
  BY DEF WorldInv
<1>2. local \in LocalType
  BY <1>1 DEF TypeOK, LocalType
<1>3. local' \in LocalType /\ local'.netid = local.netid /\ local'.userid = local.userid
  <2>1. CASE local \in Player
    BY <2>1 DEF Player, LocalType
  <2>2. CASE \E p \in Positions : local = [NoPlayer EXCEPT !.pos = p]
    <3>1. local' = [NoPlayer EXCEPT !.pos = pos]
      BY <2>2 DEF NoPlayer
    <3> QED BY <2>2, <3>1 DEF LocalType, NoPlayer
  <2> QED BY <1>2, <2>1, <2>2 DEF LocalType
<1>4. LocalInv'
  BY <1>1, <1>3 DEF LocalInv, Same, HasMe
<1>5. PICK v \in View : v = Tracked
  BY <1>1 DEF BoxInv
<1>6. connected' = v.on /\ players' = v.list /\ Aims(v, box', present) /\ box' \in Seq(Packet)
      /\ UNCHANGED server
  BY <1>1, <1>5 DEF BoxInv, Tracked, TypeOK
<1> QED BY <1>3, <1>4, <1>6, HandlerDone

\* The client's own movements change the position of the local player only.
LEMMA ClientSteps ==
    ASSUME WorldInv, (\E p \in Positions : out_state(p)) \/ tp
    PROVE  WorldInv'
<1>1. CASE \E p \in Positions : out_state(p)
  BY <1>1, LocalMoves DEF out_state
<1>2. CASE tp
  <2>1. PICK i \in DOMAIN players : local' = [local EXCEPT !.pos = players[i].pos]
    BY <1>2 DEF tp
  <2>2. players[i].pos \in Positions
    <3>1. players[i] \in Player
      BY <2>1 DEF WorldInv, TypeOK
    <3> QED BY <3>1 DEF Player
  <2> QED BY <1>2, <2>1, <2>2, LocalMoves DEF tp
<1> QED BY <1>1, <1>2

\* Without packets and without a world on the server there is nothing to agree
\* about.
LEMMA NothingUnderWay ==
    ASSUME NEW v \in View
    PROVE  Aims(v, <<>>, <<>>)
BY LeadsNone DEF Aims

\* The end of a session forgets the world.
LEMMA SessionSteps ==
    ASSUME WorldInv, disconnect \/ redirect_server
    PROVE  WorldInv'
<1>1. /\ TypeOK /\ LocalInv /\ Tracked \in View
      /\ present' = <<>> /\ box' = <<>> /\ UNCHANGED <<netids, worlds>>
  BY DEF WorldInv, BoxInv, disconnect, redirect_server
<1>2. Tracked' \in View /\ LocalInv' /\ local' \in LocalType
      /\ connected' \in BOOLEAN /\ players' \in Seq(Player)
  <2>1. CASE disconnect
    <3>1. connected' = FALSE /\ players' = <<>> /\ local' = NoPlayer
      BY <2>1 DEF disconnect
    <3>2. [on |-> FALSE, list |-> <<>>] \in View
      BY EmptyRoster, Views
    <3>3. Tracked' = [on |-> FALSE, list |-> <<>>]
      BY <3>1 DEF Tracked
    <3>4. LocalInv'
      BY <3>1, NoPlayerIs DEF LocalInv
    <3>5. local' \in LocalType
      BY <3>1, NoPlayerIs
    <3>6. connected' \in BOOLEAN /\ players' \in Seq(Player)
      BY <3>1, EmptyRoster DEF Roster
    <3>7. Tracked' \in View
      BY <3>2, <3>3, Zenon
    <3> QED BY <3>4, <3>5, <3>6, <3>7
  <2>2. CASE redirect_server
    <3>1. UNCHANGED <<connected, players, local>>
      BY <2>2 DEF redirect_server, tracked
    <3> QED BY <1>1, <3>1 DEF LocalInv, Tracked, TypeOK, LocalType
  <2> QED BY <2>1, <2>2
<1>3. TypeOK'
  BY <1>1, <1>2 DEF TypeOK, LocalType
<1>4. BoxInv'
  BY <1>1, <1>2, NothingUnderWay DEF BoxInv
<1> QED BY <1>1, <1>2, <1>3, <1>4 DEF WorldInv, ServerInv

-----------------------------------------------------------------------------
\* The server.

\* The packets of the server.
LEMMA PacketTypes ==
    /\ [type |-> "map"] \in Packet /\ [type |-> "menu"] \in Packet
    /\ \A p \in Player : Spawn(p) \in Packet
    /\ \A n \in 1..MaxNetId : [type |-> "remove", netid |-> n] \in Packet
    /\ \A n \in 1..MaxNetId, p \in Positions : [type |-> "state", netid |-> n, pos |-> p] \in Packet
BY DEF Packet, Spawn

\* A step of the server appends to what is under way.
LEMMA ServerDone ==
    ASSUME WorldInv, UNCHANGED tracked, box' \in Seq(Packet), Aims(Tracked, box', present'),
           present' \in Seq(Player), netids' \in 0..MaxNetId, worlds' \in 0..MaxWorlds,
           ServerInv'
    PROVE  WorldInv'
<1>1. TypeOK /\ LocalInv /\ Tracked \in View /\ UNCHANGED <<connected, players, local>>
  BY DEF WorldInv, BoxInv, tracked
<1>2. TypeOK' /\ LocalInv'
  BY <1>1 DEF TypeOK, LocalInv
<1>3. Tracked' = Tracked
  BY <1>1 DEF Tracked
<1>4. BoxInv'
  BY <1>1, <1>3 DEF BoxInv
<1> QED BY <1>2, <1>4 DEF WorldInv

\* One packet that tells what the server has done.
LEMMA Told ==
    ASSUME WorldInv, NEW m \in Packet, Sends(<<m>>), NEW u \in View, Leads(Tracked, box, u),
           NEW v \in View, Becomes(u, m, v)
    PROVE  UNCHANGED tracked /\ box' \in Seq(Packet) /\ Leads(Tracked, box', v)
<1>1. box \in Seq(Packet) /\ box' = box \o <<m>> /\ UNCHANGED tracked /\ Tracked \in View
  BY DEF WorldInv, TypeOK, BoxInv, Sends
<1>2. box' = Append(box, m)
  BY <1>1, AppendIsConcat
<1> QED BY <1>1, <1>2, LeadsLast

\* The end of what is under way, while the player is in a world.
LEMMA ViewOfServer ==
    ASSUME WorldInv, present # <<>>
    PROVE  /\ Roster(present) /\ HasMe(present)
           /\ \A i \in 1..Len(present) : present[i].netid <= netids
           /\ netids \in 0..MaxNetId /\ worlds \in 0..MaxWorlds
           /\ \E u \in View : Leads(Tracked, box, u) /\ u.on /\ u.list = present
BY DEF WorldInv, ServerInv, BoxInv, Aims, TypeOK

\* The server's list of players changes within a world, and it tells so.
LEMMA WorldChanges ==
    ASSUME WorldInv, present # <<>>, NEW m \in Packet, Sends(<<m>>), NEW q, present' = q,
           Roster(q), HasMe(q), netids' \in 0..MaxNetId,
           \A i \in 1..Len(q) : q[i].netid <= netids',
           UNCHANGED worlds,
           \A u \in View, v \in View :
               u.on /\ u.list = present /\ v.on /\ v.list = q => Becomes(u, m, v)
    PROVE  WorldInv'
<1>1. PICK u \in View : Leads(Tracked, box, u) /\ u.on /\ u.list = present
  BY ViewOfServer
<1>2. PICK v \in View : v.on /\ v.list = q
  <2>1. [on |-> TRUE, list |-> q] \in View
    BY Views
  <2> QED BY <2>1
<1>3. UNCHANGED tracked /\ box' \in Seq(Packet) /\ Leads(Tracked, box', v)
  BY <1>1, <1>2, Told
<1>4. Aims(Tracked, box', present')
  BY <1>2, <1>3 DEF Aims
<1>5. ServerInv'
  BY DEF ServerInv
<1>6. worlds' \in 0..MaxWorlds /\ present' \in Seq(Player)
  BY ViewOfServer DEF Roster
<1> QED BY <1>3, <1>4, <1>5, <1>6, ServerDone

\* Another player joins, with a net id of its own.
LEMMA JoinStep ==
    ASSUME WorldInv, NEW user \in Users \ {Me}, NEW pos \in Positions, Join(user, pos)
    PROVE  WorldInv'
<1>1. /\ present # <<>> /\ netids < MaxNetId /\ netids' = netids + 1 /\ UNCHANGED worlds
      /\ present' = Append(present, NewPlayer(netids', user, pos))
      /\ Sends(<<Spawn(NewPlayer(netids', user, pos))>>)
  BY DEF Join
<1>2. /\ Roster(present) /\ HasMe(present) /\ netids \in 0..MaxNetId
      /\ \A i \in 1..Len(present) : present[i].netid <= netids
  BY <1>1, ViewOfServer
<1>3. netids' \in 1..MaxNetId /\ netids < netids' /\ netids' \in 0..MaxNetId
  BY <1>1, <1>2, WorldAssumption
<1>4. PICK p \in Player : p = NewPlayer(netids', user, pos)
  BY <1>3 DEF NewPlayer, Player
<1>5. p.netid = netids' /\ p.userid # Me
  BY <1>4 DEF NewPlayer
<1>6. PICK q : q = Append(present, p)
  OBVIOUS
<1>7. \A i \in 1..Len(present) : present[i].netid < p.netid
  <2> SUFFICES ASSUME NEW i \in 1..Len(present)
               PROVE  present[i].netid < p.netid
    OBVIOUS
  <2>1. present[i].netid \in 1..MaxNetId /\ present[i].netid <= netids
    BY <1>2, OneOfNetId
  <2> QED BY <1>2, <1>3, <1>5, <2>1, WorldAssumption
<1>8. /\ Roster(q) /\ Len(q) = Len(present) + 1 /\ q[Len(present) + 1] = p
      /\ \A i \in 1..Len(present) : q[i] = present[i]
  <2>1. p.userid = Me => ~HasMe(present)
    BY <1>5
  <2>2. Grown(present, p, q)
    BY <1>2, <1>4, <1>6, <1>7, <2>1, RosterAppend
  <2> QED BY <2>2 DEF Grown
<1>9. HasMe(q)
  <2>1. PICK i \in 1..Len(present) : present[i].userid = Me
    BY <1>2 DEF HasMe
  <2>2. i \in 1..Len(q) /\ q[i].userid = Me
    BY <1>8, <2>1
  <2> QED BY <2>2 DEF HasMe
<1>10. ASSUME NEW i \in 1..Len(q)
       PROVE  q[i].netid <= netids'
  <2>1. CASE i \in 1..Len(present)
    <3>1. present[i].netid \in 1..MaxNetId /\ present[i].netid < p.netid
      BY <1>2, <1>7, <2>1, OneOfNetId
    <3> QED BY <1>3, <1>5, <1>8, <2>1, <3>1
  <2>2. CASE i \notin 1..Len(present)
    <3>1. i = Len(present) + 1
      BY <1>8, <2>2
    <3> QED BY <1>3, <1>5, <1>8, <3>1
  <2> QED BY <2>1, <2>2
<1>11. Spawn(p) \in Packet
  BY PacketTypes
<1>12. ASSUME NEW u \in View, NEW v \in View, u.on, u.list = present, v.on, v.list = q
       PROVE  Becomes(u, Spawn(p), v)
  BY <1>6, <1>12 DEF Becomes, Spawn
<1>13. present' = q /\ Sends(<<Spawn(p)>>)
  BY <1>1, <1>4, <1>6
<1> QED BY <1>1, <1>3, <1>8, <1>9, <1>10, <1>11, <1>12, <1>13, WorldChanges

\* Another player leaves.
LEMMA LeaveStep ==
    ASSUME WorldInv, NEW i \in DOMAIN present, Leave(i)
    PROVE  WorldInv'
<1>1. /\ present # <<>> /\ present[i].userid # Me /\ UNCHANGED <<netids, worlds>>
      /\ present' = RemoveAt(present, i)
      /\ Sends(<<[type |-> "remove", netid |-> present[i].netid]>>)
  BY DEF Leave
<1>2. /\ Roster(present) /\ HasMe(present) /\ netids \in 0..MaxNetId
      /\ \A j \in 1..Len(present) : present[j].netid <= netids
  BY <1>1, ViewOfServer
<1>3. i \in 1..Len(present)
  BY <1>2 DEF Roster
<1>4. PICK n \in 1..MaxNetId : n = present[i].netid
  BY <1>2, <1>3, OneOfNetId
<1>5. Other(present, i, n)
  BY <1>1, <1>3, <1>4 DEF Other
<1>6. PICK q : q = RemoveAt(present, i)
  OBVIOUS
<1>7. /\ Roster(q) /\ HasMe(q)
      /\ \A j \in 1..Len(q) : \E k \in 1..Len(present) : q[j] = present[k]
  BY <1>2, <1>5, <1>6, RosterRemove
<1>8. \A j \in 1..Len(q) : q[j].netid <= netids'
  BY <1>1, <1>2, <1>7
<1>9. PICK m \in Packet : m = [type |-> "remove", netid |-> n]
  BY PacketTypes
<1>10. ASSUME NEW u \in View, NEW v \in View, u.on, u.list = present, v.on, v.list = q
       PROVE  Becomes(u, m, v)
  BY <1>3, <1>5, <1>6, <1>9, <1>10 DEF Becomes
<1>11. present' = q /\ Sends(<<m>>) /\ netids' \in 0..MaxNetId
  BY <1>1, <1>2, <1>4, <1>6, <1>9
<1> QED BY <1>1, <1>7, <1>8, <1>10, <1>11, WorldChanges

\* Another player moves.
LEMMA MoveStep ==
    ASSUME WorldInv, NEW i \in DOMAIN present, NEW pos \in Positions, Move(i, pos)
    PROVE  WorldInv'
<1>1. /\ present # <<>> /\ present[i].userid # Me /\ UNCHANGED <<netids, worlds>>
      /\ present' = [present EXCEPT ![i].pos = pos]
      /\ Sends(<<[type |-> "state", netid |-> present[i].netid, pos |-> pos]>>)
  BY DEF Move
<1>2. /\ Roster(present) /\ HasMe(present) /\ netids \in 0..MaxNetId
      /\ \A j \in 1..Len(present) : present[j].netid <= netids
  BY <1>1, ViewOfServer
<1>3. i \in 1..Len(present)
  BY <1>2 DEF Roster
<1>4. PICK n \in 1..MaxNetId : n = present[i].netid
  BY <1>2, <1>3, OneOfNetId
<1>5. Other(present, i, n)
  BY <1>1, <1>3, <1>4 DEF Other
<1>6. PICK q : q = [present EXCEPT ![i].pos = pos]
  OBVIOUS
<1>7. /\ Roster(q) /\ HasMe(q) /\ Len(q) = Len(present)
      /\ \A j \in 1..Len(present) : q[j].netid = present[j].netid
  <2>1. /\ Roster(q) /\ Len(q) = Len(present) /\ (HasMe(q) <=> HasMe(present))
        /\ \A j \in 1..Len(present) : /\ q[j].netid = present[j].netid
                                      /\ q[j].userid = present[j].userid
    <3>1. SameRoster(present, q)
      BY <1>2, <1>5, <1>6, RosterMove
    <3> QED BY <3>1 DEF SameRoster
  <2> QED BY <1>2, <2>1
<1>8. \A j \in 1..Len(q) : q[j].netid <= netids'
  BY <1>1, <1>2, <1>7
<1>9. PICK m \in Packet : m = [type |-> "state", netid |-> n, pos |-> pos]
  BY PacketTypes
<1>10. ASSUME NEW u \in View, NEW v \in View, u.on, u.list = present, v.on, v.list = q
       PROVE  Becomes(u, m, v)
  BY <1>3, <1>5, <1>6, <1>9, <1>10 DEF Becomes
<1>11. present' = q /\ Sends(<<m>>) /\ netids' \in 0..MaxNetId
  BY <1>1, <1>2, <1>4, <1>6, <1>9
<1> QED BY <1>1, <1>7, <1>8, <1>10, <1>11, WorldChanges

\* The player goes to the menu.
LEMMA LeaveWorldStep ==
    ASSUME WorldInv, LeaveWorld
    PROVE  WorldInv'
<1>1. present # <<>> /\ present' = <<>> /\ UNCHANGED <<netids, worlds>>
  BY DEF LeaveWorld
<1>2. PICK m \in Packet : m = [type |-> "menu"] /\ Sends(<<m>>)
  BY PacketTypes DEF LeaveWorld
<1>3. PICK u \in View : Leads(Tracked, box, u)
  BY <1>1, ViewOfServer
<1>4. PICK v \in View : v = [on |-> FALSE, list |-> <<>>]
  BY EmptyRoster, Views
<1>5. Becomes(u, m, v)
  BY <1>2, <1>4 DEF Becomes
<1>6. UNCHANGED tracked /\ box' \in Seq(Packet) /\ Leads(Tracked, box', v)
  BY <1>2, <1>3, <1>5, Told
<1>7. Aims(Tracked, box', present') /\ ServerInv' /\ present' \in Seq(Player)
      /\ netids' \in 0..MaxNetId /\ worlds' \in 0..MaxWorlds
  BY <1>1, <1>6, ViewOfServer DEF Aims, ServerInv
<1> QED BY <1>6, <1>7, ServerDone

\* A player can be announced to a view of a world.
CanAnnounce(a, q, b, p) ==
    \E v \in View : /\ v.on /\ v.list = Append(b.list, p) /\ Grown(b.list, p, v.list)
                    /\ Append(q, Spawn(p)) \in Seq(Packet)
                    /\ Leads(a, Append(q, Spawn(p)), v)

\* Spawn packets lead a view on to one with more players.
LEMMA Announced ==
    ASSUME NEW a \in View, NEW b \in View, NEW q \in Seq(Packet), Leads(a, q, b), b.on,
           NEW p \in Player, p.userid = Me => ~HasMe(b.list),
           \A i \in 1..Len(b.list) : b.list[i].netid < p.netid
    PROVE  CanAnnounce(a, q, b, p)
<1>1. PICK r : r = Append(b.list, p)
  OBVIOUS
<1>2. Roster(b.list)
  BY DEF View
<1>3. Grown(b.list, p, r)
  BY <1>1, <1>2, RosterAppend
<1>4. PICK v \in View : v.on /\ v.list = r
  <2>1. [on |-> TRUE, list |-> r] \in View
    BY <1>3, Views DEF Grown
  <2> QED BY <2>1
<1>5. PICK m \in Packet : m = Spawn(p)
  BY PacketTypes
<1>6. Becomes(b, m, v)
  BY <1>1, <1>4, <1>5 DEF Becomes, Spawn
<1>7. Append(q, m) \in Seq(Packet) /\ Leads(a, Append(q, m), v)
  BY <1>4, <1>5, <1>6, LeadsLast
<1> QED BY <1>1, <1>3, <1>4, <1>5, <1>7 DEF CanAnnounce

\* The packets of a world one by one.
LEMMA OneByOne ==
    ASSUME NEW S, NEW q \in Seq(S), NEW x \in S, NEW y \in S, NEW z \in S
    PROVE  /\ q \o (<<x>> \o <<y>>) = Append(Append(q, x), y)
           /\ q \o (<<x>> \o <<y, z>>) = Append(Append(Append(q, x), y), z)
<1>1. /\ <<x>> \in Seq(S) /\ <<y>> \in Seq(S) /\ <<z>> \in Seq(S)
      /\ <<x>> \o <<y>> \in Seq(S)
  OBVIOUS
<1>2. Append(q, x) \in Seq(S) /\ Append(q, x) = q \o <<x>>
  BY AppendProperties, AppendIsConcat
<1>3. /\ Append(Append(q, x), y) \in Seq(S)
      /\ Append(Append(q, x), y) = Append(q, x) \o <<y>>
  BY <1>2, AppendProperties, AppendIsConcat
<1>4. Append(Append(Append(q, x), y), z) = Append(Append(q, x), y) \o <<z>>
  BY <1>3, AppendIsConcat
<1>5. q \o (<<x>> \o <<y>>) = (q \o <<x>>) \o <<y>>
  BY <1>1, ConcatAssociative
<1>6. <<x>> \o <<y, z>> = (<<x>> \o <<y>>) \o <<z>>
  <2> DEFINE l == <<x>> \o <<y, z>>
             r == (<<x>> \o <<y>>) \o <<z>>
  <2>1. l \in Seq(S) /\ r \in Seq(S) /\ Len(l) = 3 /\ Len(r) = 3
    OBVIOUS
  <2>2. l[1] = x /\ l[2] = y /\ l[3] = z /\ r[1] = x /\ r[2] = y /\ r[3] = z
    OBVIOUS
  <2>3. \A i \in 1..3 : i = 1 \/ i = 2 \/ i = 3
    OBVIOUS
  <2> HIDE DEF l, r
  <2>4. l = r
    BY <2>1, <2>2, <2>3, SeqEqual
  <2> QED BY <2>4 DEF l, r
<1>7. q \o ((<<x>> \o <<y>>) \o <<z>>) = (q \o (<<x>> \o <<y>>)) \o <<z>>
  BY <1>1, ConcatAssociative
<1> QED BY <1>2, <1>3, <1>4, <1>5, <1>6, <1>7

\* The player enters a world: its map and one spawn packet for each player in it.
LEMMA EnterWorldStep ==
    ASSUME WorldInv, EnterWorld
    PROVE  WorldInv'
<1>1. PICK others :
         /\ others = <<>> \/ \E o \in First : others = <<o>>
         /\ netids' = Len(others) + 1 /\ netids' <= MaxNetId
         /\ present' = Append(others, NewPlayer(netids', Me, Origin))
         /\ Sends(<<[type |-> "map"]>> \o [i \in DOMAIN present' |-> Spawn(present'[i])])
  BY DEF EnterWorld
<1>2. /\ TypeOK /\ Tracked \in View /\ box \in Seq(Packet)
      /\ worlds < MaxWorlds /\ worlds' = worlds + 1 /\ worlds \in 0..MaxWorlds
  BY DEF EnterWorld, WorldInv, BoxInv, TypeOK
<1>3. worlds' \in 0..MaxWorlds
  BY <1>2, WorldAssumption
<1>4. PICK u \in View : Leads(Tracked, box, u)
  BY DEF WorldInv, BoxInv, Aims
<1>5. PICK map \in Packet : map = [type |-> "map"]
  BY PacketTypes
<1>6. PICK none \in View : none.on /\ none.list = <<>>
  <2>1. Roster(<<>>)
    BY EmptyRoster
  <2>2. [on |-> TRUE, list |-> <<>>] \in View
    BY <2>1, Views
  <2> QED BY <2>2
<1>7. PICK b \in Seq(Packet) : b = Append(box, map) /\ Leads(Tracked, b, none)
  <2>1. Becomes(u, map, none)
    BY <1>5, <1>6 DEF Becomes
  <2> QED BY <1>2, <1>4, <1>5, <1>6, <2>1, LeadsLast
<1>8. /\ box' = box \o (<<map>> \o [i \in DOMAIN present' |-> Spawn(present'[i])])
      /\ UNCHANGED tracked
  BY <1>1, <1>5 DEF Sends
<1>9. ASSUME NEW v \in View, v.on, v.list = present', Leads(Tracked, box', v),
             box' \in Seq(Packet), HasMe(v.list), netids' \in 1..MaxNetId,
             \A i \in 1..Len(v.list) : v.list[i].netid <= netids'
      PROVE  WorldInv'
  <2>1. Roster(v.list) /\ v.list \in Seq(Player)
    BY DEF View, Roster
  <2>2. ServerInv'
    BY <1>9, <2>1 DEF ServerInv
  <2>3. Aims(Tracked, box', present')
    BY <1>9 DEF Aims
  <2>4. netids' \in 0..MaxNetId
    BY <1>9, WorldAssumption
  <2> QED BY <1>3, <1>8, <1>9, <2>1, <2>2, <2>3, <2>4, ServerDone
<1>10. CASE others = <<>>
  <2>1. netids' = 1 /\ netids' \in 1..MaxNetId
    BY <1>1, <1>10, WorldAssumption
  <2>2. PICK me \in Player : me = NewPlayer(netids', Me, Origin) /\ me.netid = 1 /\ me.userid = Me
    <3>1. NewPlayer(1, Me, Origin) \in Player
      BY <2>1, WorldAssumption DEF NewPlayer, Player
    <3> QED BY <2>1, <3>1 DEF NewPlayer
  <2>3. PICK v \in View : /\ v.on /\ v.list = Append(<<>>, me) /\ Grown(<<>>, me, v.list)
                          /\ Append(b, Spawn(me)) \in Seq(Packet)
                          /\ Leads(Tracked, Append(b, Spawn(me)), v)
    <3>1. \A i \in 1..Len(none.list) : none.list[i].netid < me.netid
      BY <1>6
    <3>2. ~HasMe(none.list)
      BY <1>6, EmptyRoster
    <3>3. CanAnnounce(Tracked, b, none, me)
      BY <1>2, <1>6, <1>7, <2>2, <3>1, <3>2, Announced
    <3> QED BY <1>6, <3>3 DEF CanAnnounce
  <2>4. present' = v.list /\ present' = <<me>>
    BY <1>1, <1>10, <2>2, <2>3
  <2>5. box' = Append(b, Spawn(me))
    <3>1. [i \in DOMAIN present' |-> Spawn(present'[i])] = <<Spawn(me)>>
      BY <2>4
    <3>2. box' = box \o (<<map>> \o <<Spawn(me)>>)
      BY <1>8, <3>1
    <3>3. Spawn(me) \in Packet
      BY PacketTypes
    <3> QED BY <1>2, <1>7, <3>2, <3>3, OneByOne
  <2>6. HasMe(v.list) /\ \A i \in 1..Len(v.list) : v.list[i].netid <= netids'
    BY <2>1, <2>2, <2>4 DEF HasMe
  <2> QED BY <1>9, <2>1, <2>3, <2>4, <2>5, <2>6
<1>11. CASE \E o \in First : others = <<o>>
  <2>1. PICK o \in First : others = <<o>>
    BY <1>11
  <2>2. netids' = 2 /\ netids' \in 1..MaxNetId /\ 1 \in 1..MaxNetId
    BY <1>1, <2>1, WorldAssumption
  <2>3. PICK me \in Player : me = NewPlayer(netids', Me, Origin) /\ me.netid = 2 /\ me.userid = Me
    <3>1. NewPlayer(2, Me, Origin) \in Player
      BY <2>2, WorldAssumption DEF NewPlayer, Player
    <3> QED BY <2>2, <3>1 DEF NewPlayer
  <2>4. o \in Player /\ o.netid = 1 /\ o.userid # Me
    BY <2>1 DEF First
  <2>5. PICK v \in View : /\ v.on /\ v.list = Append(<<>>, o) /\ Grown(<<>>, o, v.list)
                          /\ Append(b, Spawn(o)) \in Seq(Packet)
                          /\ Leads(Tracked, Append(b, Spawn(o)), v)
    <3>1. \A i \in 1..Len(none.list) : none.list[i].netid < o.netid
      BY <1>6
    <3>2. o.userid = Me => ~HasMe(none.list)
      BY <2>4
    <3>3. CanAnnounce(Tracked, b, none, o)
      BY <1>2, <1>6, <1>7, <2>4, <3>1, <3>2, Announced
    <3> QED BY <1>6, <3>3 DEF CanAnnounce
  <2>6. v.list = <<o>>
    BY <2>5
  <2>7. PICK x \in View : /\ x.on /\ x.list = Append(<<o>>, me) /\ Grown(<<o>>, me, x.list)
                          /\ Append(Append(b, Spawn(o)), Spawn(me)) \in Seq(Packet)
                          /\ Leads(Tracked, Append(Append(b, Spawn(o)), Spawn(me)), x)
    <3>1. \A i \in 1..Len(v.list) : v.list[i].netid < me.netid
      BY <2>3, <2>4, <2>6
    <3>2. ~HasMe(v.list)
      BY <2>4, <2>6 DEF HasMe
    <3>3. CanAnnounce(Tracked, Append(b, Spawn(o)), v, me)
      BY <1>2, <2>3, <2>5, <3>1, <3>2, Announced
    <3> QED BY <2>6, <3>3 DEF CanAnnounce
  <2>8. /\ present' = x.list /\ Len(x.list) = 2 /\ x.list[1] = o /\ x.list[2] = me
        /\ DOMAIN x.list = 1..2
    <3>1. present' = x.list
      BY <1>1, <2>1, <2>3, <2>7
    <3>2. PICK one : one = <<o>>
      OBVIOUS
    <3>3. Len(one) = 1 /\ one[1] = o
      BY <3>2
    <3>4. Grown(one, me, x.list)
      BY <2>7, <3>2
    <3>5. Len(x.list) = 2 /\ x.list[2] = me /\ x.list[1] = one[1] /\ x.list \in Seq(Player)
      BY <3>3, <3>4 DEF Grown, Roster
    <3> QED BY <3>1, <3>3, <3>5
  <2>9. box' = Append(Append(b, Spawn(o)), Spawn(me))
    <3> DEFINE s == [i \in DOMAIN present' |-> Spawn(present'[i])]
    <3>1. s = <<Spawn(o), Spawn(me)>>
      <4>1. s = [i \in 1..2 |-> Spawn(x.list[i])]
        BY <2>8
      <4>2. \A i \in 1..2 : i = 1 \/ i = 2
        OBVIOUS
      <4> DEFINE t == <<Spawn(o), Spawn(me)>>
      <4>3. t \in Seq(Packet) /\ Len(t) = 2 /\ t[1] = Spawn(o) /\ t[2] = Spawn(me)
        BY <2>3, <2>4, PacketTypes
      <4>4. s \in Seq(Packet) /\ Len(s) = 2 /\ s[1] = Spawn(o) /\ s[2] = Spawn(me)
        <5>1. \A i \in 1..2 : Spawn(x.list[i]) \in Packet
          BY <2>3, <2>4, <2>8, <4>2, PacketTypes
        <5> QED BY <2>8, <4>1, <5>1
      <4> HIDE DEF s, t
      <4>5. s = t
        BY <4>2, <4>3, <4>4, SeqEqual
      <4> QED BY <4>5 DEF t
    <3>2. box' = box \o (<<map>> \o <<Spawn(o), Spawn(me)>>)
      BY <1>8, <3>1
    <3>3. Spawn(me) \in Packet /\ Spawn(o) \in Packet
      BY <2>3, <2>4, PacketTypes
    <3> QED BY <1>2, <1>7, <3>2, <3>3, OneByOne
  <2>10. HasMe(x.list) /\ \A i \in 1..Len(x.list) : x.list[i].netid <= netids'
    <3>1. \A i \in 1..2 : i = 1 \/ i = 2
      OBVIOUS
    <3> QED BY <2>2, <2>3, <2>4, <2>8, <3>1 DEF HasMe
  <2> QED BY <1>9, <2>2, <2>7, <2>8, <2>9, <2>10
<1> QED BY <1>1, <1>10, <1>11

-----------------------------------------------------------------------------
\* The theorems.

\* What is under way leads from the proxy's view of the world to the server's,
\* through every order of the server's packets, the client's and the ends of
\* sessions (class world, kept by the handlers of events.cpp).
THEOREM WorldInvariant == Spec => []WorldInv
<1>1. Init => WorldInv
  <2> SUFFICES ASSUME Init
               PROVE  WorldInv
    OBVIOUS
  <2>1. /\ connected = FALSE /\ players = <<>> /\ local = NoPlayer
        /\ present = <<>> /\ netids = 0 /\ worlds = 0 /\ box = <<>>
    BY DEF Init
  <2>2. Tracked \in View
    <3>1. Tracked = [on |-> FALSE, list |-> <<>>] /\ Roster(<<>>)
      BY <2>1, EmptyRoster DEF Tracked
    <3> QED BY <3>1, Views
  <2>3. Aims(Tracked, box, present)
    BY <2>1, <2>2, NothingUnderWay
  <2>4. LocalInv
    BY <2>1, NoPlayerIs DEF LocalInv
  <2>5. TypeOK
    <3>1. <<>> \in Seq(Player) /\ <<>> \in Seq(Packet)
      OBVIOUS
    <3>2. local \in LocalType /\ 0 \in 0..MaxNetId /\ 0 \in 0..MaxWorlds
      BY <2>1, NoPlayerIs, WorldAssumption
    <3> QED BY <2>1, <3>1, <3>2 DEF TypeOK, LocalType
  <2> QED BY <2>1, <2>2, <2>3, <2>4, <2>5 DEF WorldInv, ServerInv, BoxInv
<1>2. WorldInv /\ [Next]_vars => WorldInv'
  <2> SUFFICES ASSUME WorldInv, [Next]_vars
               PROVE  WorldInv'
    OBVIOUS
  <2>1. CASE UNCHANGED vars
    <3>1. /\ UNCHANGED <<connected, players, local, box>>
          /\ UNCHANGED <<present, netids, worlds>>
      BY <2>1 DEF vars, tracked, server
    <3>2. TypeOK' /\ ServerInv' /\ LocalInv' /\ BoxInv'
      BY <3>1 DEF WorldInv, TypeOK, ServerInv, LocalInv, BoxInv, Tracked
    <3> QED BY <3>2 DEF WorldInv
  <2>2. CASE sendmapdata \/ OnRequestWorldSelectMenu
    BY <2>2, ResetStep
  <2>3. CASE OnSpawn
    BY <2>3, OnSpawnStep
  <2>4. CASE OnRemove
    BY <2>4, OnRemoveStep
  <2>5. CASE in_state
    BY <2>5, in_stateStep
  <2>6. CASE (\E p \in Positions : out_state(p)) \/ tp
    BY <2>6, ClientSteps
  <2>7. CASE disconnect \/ redirect_server
    BY <2>7, SessionSteps
  <2>8. CASE EnterWorld
    BY <2>8, EnterWorldStep
  <2>9. CASE LeaveWorld
    BY <2>9, LeaveWorldStep
  <2>10. CASE \E u \in Users \ {Me}, p \in Positions : Join(u, p)
    BY <2>10, JoinStep
  <2>11. CASE \E i \in DOMAIN present : Leave(i) \/ \E p \in Positions : Move(i, p)
    BY <2>11, LeaveStep, MoveStep
  <2> QED BY <2>1, <2>2, <2>3, <2>4, <2>5, <2>6, <2>7, <2>8, <2>9, <2>10, <2>11
          DEF Next, Handlers, Server
<1> QED BY <1>1, <1>2, PTL DEF Spec

\* With nothing under way the proxy's view is the server's.
LEMMA Agree ==
    ASSUME WorldInv, present # <<>>, box = <<>>
    PROVE  connected /\ players = present /\ HasMe(present) /\ Roster(present)
<1>1. Roster(present) /\ HasMe(present)
  BY ViewOfServer
<1>2. PICK u \in View : Leads(Tracked, <<>>, u) /\ u.on /\ u.list = present
  BY ViewOfServer
<1>3. Tracked = u
  BY <1>2, LeadsNone DEF WorldInv, BoxInv
<1> QED BY <1>1, <1>2, <1>3 DEF Tracked

\* When everything has been handled the list is the server's (OnSpawn, OnRemove
\* with its aliased erase, sendmapdata).
THEOREM WorldListTracks == Spec => []ListTracks
<1>1. WorldInv => ListTracks
  <2> SUFFICES ASSUME WorldInv
               PROVE  ListTracks
    OBVIOUS
  <2>1. TypeOK
    BY DEF WorldInv
  <2>2. ASSUME present # <<>>, box = <<>>
        PROVE  connected /\ Who(players) = Who(present)
    BY <2>2, Agree
  <2> QED BY <2>1, <2>2 DEF ListTracks
<1> QED BY <1>1, WorldInvariant, PTL

\* ... and the positions of the others are (events::in::state).
THEOREM WorldPositionsTrack == Spec => []PositionsTrack
<1>1. WorldInv => PositionsTrack
  BY Agree DEF PositionsTrack
<1> QED BY <1>1, WorldInvariant, PTL

\* The local player is the one behind the proxy with its net id of this world
\* (OnSpawn, OnRemove, sendmapdata).
THEOREM WorldLocalTracks == Spec => []LocalTracks
<1>1. WorldInv => LocalTracks
  <2> SUFFICES ASSUME WorldInv, present # <<>>, box = <<>>
               PROVE  \E i \in DOMAIN present : /\ present[i].userid = Me
                                                /\ Same(local, present[i])
    BY DEF LocalTracks
  <2>1. players = present /\ HasMe(present) /\ present \in Seq(Player) /\ LocalInv
    BY Agree DEF Roster, WorldInv
  <2>2. PICK i \in 1..Len(present) : present[i].userid = Me
    BY <2>1 DEF HasMe
  <2>3. Same(local, present[i]) /\ i \in DOMAIN present
    BY <2>1, <2>2 DEF LocalInv
  <2> QED BY <2>2, <2>3
<1> QED BY <1>1, WorldInvariant, PTL

=============================================================================
