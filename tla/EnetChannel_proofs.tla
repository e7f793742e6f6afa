------------------------- MODULE EnetChannel_proofs -------------------------
(***************************************************************************)
(* Proofs about one direction of a reliable channel, for sequence spaces,  *)
(* windows and packets of every size: the sender's counters of the windows *)
(* and of the data in transit agree with its lists.                        *)
(***************************************************************************)
EXTENDS EnetChannel, FiniteSetTheorems, SequenceTheorems, WellFoundedInduction, TLAPS

-----------------------------------------------------------------------------
(* Arithmetic of the sequence numbers. *)

\* Products of positive numbers.
LEMMA Products ==
    ASSUME NEW a \in Nat, NEW b \in Nat, NEW c \in Nat, a <= b
    PROVE  a * c \in Nat /\ a * c <= b * c
  OBVIOUS

\* enet_uint16 holds every number reduced to it, and every number is in a window.
LEMMA SpaceFacts ==
    /\ SeqSpace \in Nat \ {0}
    /\ \A n \in Nat : n % SeqSpace \in SeqNo
    /\ \A s \in SeqNo : WindowOf(s) \in Window /\ s \in Nat
    /\ \A w \in Int : w % WINDOWS \in Window
    /\ WINDOWS \in Nat /\ FREE_WINDOWS \in Nat
<1> USE ChannelAssumption
<1>1. WINDOWS \in Nat \ {0} /\ WINDOW_SIZE \in Nat \ {0} /\ FREE_WINDOWS \in Nat
  OBVIOUS
<1>2. SeqSpace \in Nat \ {0}
  <2>1. 1 * WINDOW_SIZE <= WINDOWS * WINDOW_SIZE /\ WINDOWS * WINDOW_SIZE \in Nat
    BY <1>1, Products
  <2> QED
    BY <1>1, <2>1 DEF SeqSpace
<1>3. \A n \in Nat : n % SeqSpace \in SeqNo
  BY <1>2 DEF SeqNo
<1>4. ASSUME NEW s \in SeqNo PROVE WindowOf(s) \in Window
  <2> DEFINE q == s \div WINDOW_SIZE
             r == s % WINDOW_SIZE
  <2>1. s \in Nat /\ s < SeqSpace
    BY <1>2 DEF SeqNo
  <2>2. q \in Nat /\ r \in 0..(WINDOW_SIZE - 1) /\ s = WINDOW_SIZE * q + r
    BY <2>1, <1>1
  <2> HIDE DEF q, r
  <2>3. q < WINDOWS
    <3>1. ASSUME WINDOWS <= q PROVE FALSE
      <4>1. WINDOWS * WINDOW_SIZE <= q * WINDOW_SIZE
        BY <1>1, <2>2, <3>1, Products
      <4>2. q * WINDOW_SIZE <= s
        BY <1>1, <2>2
      <4> QED
        BY <4>1, <4>2, <2>1, <2>2, <1>1, <1>2 DEF SeqSpace
    <3> QED
      BY <3>1, <1>1, <2>2
  <2> QED
    BY <2>2, <2>3, <1>1 DEF Window, WindowOf, q
<1>5. \A w \in Int : w % WINDOWS \in Window
  BY <1>1 DEF Window
<1> QED
  BY <1>1, <1>2, <1>3, <1>4, <1>5 DEF SeqNo

-----------------------------------------------------------------------------
(* Extremes and parts of lists. *)

\* A set of numbers has a least one.
LEMMA LeastNat ==
    ASSUME NEW S \in SUBSET Nat, S # {}
    PROVE  \E n \in S : \A m \in S : n <= m
<1> DEFINE R == OpToRel(<, Nat)
<1>1. IsWellFoundedOn(R, Nat)
  BY NatLessThanWellFounded
<1>2. ASSUME NEW x \in Nat, NEW y \in Nat, x < y PROVE <<x, y>> \in R
  BY <1>2 DEF OpToRel
<1> HIDE DEF R
<1>3. PICK x \in S : \A y \in S : ~(<<y, x>> \in R)
  BY <1>1, WFMin
<1>4. ASSUME NEW y \in S PROVE x <= y
  <2>1. x \in Nat /\ y \in Nat
    OBVIOUS
  <2>2. ~(y < x)
    BY <2>1, <1>2, <1>3, Zenon
  <2> QED
    BY <2>1, <2>2
<1> QED
  BY <1>4

\* A bounded set of numbers has a greatest one.
LEMMA GreatestNat ==
    ASSUME NEW n \in Nat, NEW S \in SUBSET (0..n), S # {}
    PROVE  \E m \in S : \A k \in S : k <= m
<1> DEFINE T == {i \in 0..n : n - i \in S}
<1>1. T \in SUBSET Nat /\ T # {}
  <2>1. PICK k \in S : TRUE
    OBVIOUS
  <2>a. k \in 0..n
    OBVIOUS
  <2>2. n - k \in 0..n /\ n - (n - k) = k
    BY <2>a
  <2>3. n - k \in T
    BY <2>2
  <2>4. ASSUME NEW i \in T PROVE i \in Nat
    BY <2>4
  <2>5. T \in SUBSET Nat
    BY <2>4
  <2> QED
    BY <2>3, <2>5
<1>2. PICK t \in T : \A u \in T : t <= u
  BY <1>1, LeastNat
<1>3. ASSUME NEW k \in S PROVE k <= n - t
  <2>a. k \in 0..n
    OBVIOUS
  <2>1. n - k \in 0..n /\ n - (n - k) = k
    BY <2>a
  <2>2. n - k \in T
    BY <2>1
  <2>3. t <= n - k /\ t \in 0..n
    BY <2>2, <1>2
  <2> QED
    BY <2>a, <2>3
<1> QED
  BY <1>2, <1>3

\* Kept lists each entry at the places once.
LEMMA KeptPlaces ==
    ASSUME NEW q, NEW n \in Nat, NEW P \in SUBSET (1..n)
    PROVE  /\ IsFiniteSet(P) /\ Cardinality(P) \in Nat
           /\ \E f \in Bijection(1..Cardinality(P), P) :
                 Kept(q, P) = [k \in 1..Cardinality(P) |-> q[f[k]]]
<1> DEFINE m == Cardinality(P)
           Up(j) == {i \in P : i <= j}
           C(j) == Cardinality(Up(j))
           At(k) == CHOOSE j \in P : C(j) = k
<1>1. IsFiniteSet(P) /\ m \in Nat
  <2>1. IsFiniteSet(1..n)
    BY FS_Interval
  <2> QED
    BY <2>1, FS_Subset, FS_CardinalityType
<1>2. \A j \in P : IsFiniteSet(Up(j)) /\ C(j) \in 1..m
  <2> TAKE j \in P
  <2>1. Up(j) \in SUBSET P /\ j \in Up(j)
    OBVIOUS
  <2>2. IsFiniteSet(Up(j)) /\ C(j) <= m
    BY <1>1, <2>1, FS_Subset
  <2>3. C(j) \in Nat /\ (C(j) = 0 => Up(j) = {})
    BY <2>2, FS_CardinalityType, FS_EmptySet
  <2> QED
    BY <1>1, <2>1, <2>2, <2>3
<1>3. ASSUME NEW j \in P, NEW k \in P, j < k PROVE C(j) # C(k)
  <2>0. j \in Nat /\ k \in Nat /\ \A i \in P : i \in Nat
    OBVIOUS
  <2>a. ASSUME NEW i \in Up(j) PROVE i \in Up(k)
    BY <1>3, <2>0
  <2>b. k \in Up(k) /\ k \notin Up(j)
    BY <1>3, <2>0
  <2>1. Up(j) \in SUBSET Up(k) /\ k \in Up(k) /\ k \notin Up(j)
    BY <2>a, <2>b
  <2>2. IsFiniteSet(Up(k))
    BY <1>2
  <2>3. C(k) = C(j) => Up(k) = Up(j)
    BY <2>1, <2>2, FS_Subset
  <2> QED
    BY <2>1, <2>3
<1> HIDE DEF C
<1>4. \A j, k \in P : C(j) = C(k) => j = k
  <2> TAKE j, k \in P
  <2>1. j \in Nat /\ k \in Nat
    OBVIOUS
  <2> QED
    BY <1>3, <2>1
<1> DEFINE c == [j \in P |-> C(j)]
<1>5. c \in Injection(P, 1..m)
  BY <1>2, <1>4 DEF Injection, IsInjective
<1>6. c \in Surjection(P, 1..m)
  <2>1. IsFiniteSet(1..m) /\ Cardinality(1..m) = IF 1 > m THEN 0 ELSE m - 1 + 1
    BY <1>1, FS_Interval
  <2>2. Cardinality(1..m) = m
    BY <1>1, <2>1
  <2> QED
    BY <1>5, <2>1, <2>2, FS_Injection
<1>7. \A k \in 1..m : \E j \in P : C(j) = k
  BY <1>6 DEF Surjection
<1>8. \A k \in 1..m : At(k) \in P /\ C(At(k)) = k
  BY <1>7
<1> DEFINE f == [k \in 1..m |-> At(k)]
<1>9. f \in [1..m -> P] /\ \A k \in 1..m : C(f[k]) = k
  BY <1>8
<1>10. Kept(q, P) = [k \in 1..m |-> q[f[k]]]
  BY DEF Kept, C
<1> HIDE DEF f
<1>11. f \in Injection(1..m, P)
  BY <1>9 DEF Injection, IsInjective
<1>12. f \in Surjection(1..m, P)
  <2>1. ASSUME NEW j \in P PROVE \E k \in 1..m : f[k] = j
    <3>1. C(j) \in 1..m
      BY <1>2
    <3>2. C(f[C(j)]) = C(j) /\ f[C(j)] \in P
      BY <3>1, <1>9
    <3> QED
      BY <3>1, <3>2, <1>4
  <2> QED
    BY <2>1, <1>9 DEF Surjection
<1>13. f \in Bijection(1..m, P)
  BY <1>11, <1>12 DEF Bijection
<1> QED
  BY <1>1, <1>10, <1>13

-----------------------------------------------------------------------------
(* Lists of commands: their members, and their parts, each in one place. *)

Members(q)  == {q[i] : i \in 1..Len(q)}
Distinct(q) == \A i, j \in 1..Len(q) : PartOf(q[i]) = PartOf(q[j]) => i = j
Apart(q, r) == \A c \in Members(q), d \in Members(r) : PartOf(c) # PartOf(d)
Commands(q) == q \in Seq(Command) /\ Distinct(q)

\* A sequence of length n with entries in S.
LEMMA SeqOfLength ==
    ASSUME NEW S, NEW n \in Nat, NEW f, f = [k \in 1..n |-> f[k]], \A k \in 1..n : f[k] \in S
    PROVE  f \in Seq(S) /\ Len(f) = n
  OBVIOUS

\* The members of a list of commands are commands, finitely many.
LEMMA MembersType ==
    ASSUME NEW q \in Seq(Command)
    PROVE  /\ Len(q) \in Nat /\ DOMAIN q = 1..Len(q)
           /\ Members(q) \in SUBSET Command /\ IsFiniteSet(Members(q))
<1>1. Len(q) \in Nat /\ DOMAIN q = 1..Len(q) /\ \A i \in 1..Len(q) : q[i] \in Command
  OBVIOUS
<1>2. Members(q) \in SUBSET Command
  BY <1>1 DEF Members
<1> DEFINE n == Len(q)
           M == Members(q)
           f == [i \in 1..n |-> q[i]]
<1>3. IsFiniteSet(1..n)
  BY <1>1, FS_Interval
<1>4. f \in Surjection(1..n, M)
  BY DEF Surjection, Members
<1> HIDE DEF f, M, n
<1>5. IsFiniteSet(M)
  BY <1>3, <1>4, FS_Surjection
<1> QED
  BY <1>1, <1>2, <1>5 DEF M

\* Append adds a command of a new part.
LEMMA AppendList ==
    ASSUME NEW q, Commands(q), NEW c \in Command,
           \A d \in Members(q) : PartOf(d) # PartOf(c)
    PROVE  /\ Commands(Append(q, c)) /\ Len(Append(q, c)) = Len(q) + 1
           /\ Members(Append(q, c)) = Members(q) \cup {c}
<1> DEFINE r == Append(q, c)
           n == Len(q)
<1>0. q \in Seq(Command) /\ Distinct(q) /\ n \in Nat
  BY DEF Commands
<1>1. r \in Seq(Command) /\ Len(r) = n + 1 /\ r[n + 1] = c /\ \A i \in 1..n : r[i] = q[i]
  BY <1>0, AppendProperties
<1>2. \A i \in 1..n : PartOf(q[i]) # PartOf(c)
  BY DEF Members
<1> HIDE DEF r
<1>3. ASSUME NEW i \in 1..(n + 1), NEW j \in 1..(n + 1), PartOf(r[i]) = PartOf(r[j])
      PROVE  i = j
  <2>1. CASE i \in 1..n /\ j \in 1..n
    <3>1. PartOf(q[i]) = PartOf(q[j])
      BY <1>1, <1>3, <2>1
    <3> QED
      BY <3>1, <2>1, <1>0 DEF Distinct
  <2>2. CASE i = n + 1 /\ j \in 1..n
    BY <1>1, <1>2, <1>3, <2>2
  <2>3. CASE i \in 1..n /\ j = n + 1
    BY <1>1, <1>2, <1>3, <2>3
  <2> QED
    BY <2>1, <2>2, <2>3, <1>0
<1>4. Commands(r)
  BY <1>1, <1>3 DEF Commands, Distinct
<1>5. Members(r) = Members(q) \cup {c}
  <2>1. ASSUME NEW d \in Members(r) PROVE d \in Members(q) \cup {c}
    <3>1. PICK i \in 1..(n + 1) : d = r[i]
      BY <1>1 DEF Members
    <3> QED
      BY <3>1, <1>0, <1>1 DEF Members
  <2>2. ASSUME NEW d \in Members(q) \cup {c} PROVE d \in Members(r)
    <3>1. CASE d = c
      <4>1. n + 1 \in 1..Len(r)
        BY <1>0, <1>1
      <4> QED
        BY <4>1, <3>1, <1>1 DEF Members
    <3>2. CASE d \in Members(q)
      <4>1. PICK i \in 1..n : d = q[i]
        BY <3>2 DEF Members
      <4>2. i \in 1..Len(r) /\ r[i] = q[i]
        BY <1>0, <1>1
      <4> QED
        BY <4>1, <4>2 DEF Members
    <3> QED
      BY <3>1, <3>2
  <2> QED
    BY <2>1, <2>2
<1> QED
  BY <1>1, <1>4, <1>5 DEF r

\* The head of a list is not a member of its tail.
LEMMA TailList ==
    ASSUME NEW q, Commands(q), q # << >>
    PROVE  /\ Head(q) \in Command /\ Commands(Tail(q))
           /\ Members(q) = Members(Tail(q)) \cup {Head(q)}
           /\ \A d \in Members(Tail(q)) : PartOf(d) # PartOf(Head(q))
<1> DEFINE r == Tail(q)
           n == Len(r)
<1>0. q \in Seq(Command) /\ Distinct(q)
  BY DEF Commands
<1>1. /\ Head(q) \in Command /\ Head(q) = q[1] /\ r \in Seq(Command) /\ Len(q) = n + 1 /\ n \in Nat
      /\ \A i \in 1..n : r[i] = q[i + 1]
  BY <1>0
<1> HIDE DEF r
<1>2. ASSUME NEW i \in 1..n, NEW j \in 1..n, PartOf(r[i]) = PartOf(r[j]) PROVE i = j
  <2>1. PartOf(q[i + 1]) = PartOf(q[j + 1])
    BY <1>1, <1>2
  <2>2. i + 1 \in 1..Len(q) /\ j + 1 \in 1..Len(q)
    BY <1>1
  <2>3. i + 1 = j + 1
    BY <1>0, <2>1, <2>2 DEF Distinct
  <2> QED
    BY <2>3
<1>3. Commands(r)
  BY <1>1, <1>2 DEF Commands, Distinct
<1>4. ASSUME NEW d \in Members(r) PROVE d \in Members(q) /\ PartOf(d) # PartOf(Head(q))
  <2>1. PICK i \in 1..n : d = r[i]
    BY DEF Members
  <2>2. i + 1 \in 1..Len(q) /\ 1 \in 1..Len(q) /\ i + 1 # 1 /\ d = q[i + 1]
    BY <1>1, <2>1
  <2>3. PartOf(q[i + 1]) # PartOf(q[1])
    BY <1>0, <2>2 DEF Distinct
  <2> QED
    BY <2>2, <2>3, <1>1 DEF Members
<1>5. ASSUME NEW d \in Members(q) PROVE d \in Members(r) \cup {Head(q)}
  <2>1. PICK i \in 1..Len(q) : d = q[i]
    BY DEF Members
  <2>2. CASE i = 1
    BY <2>1, <2>2, <1>1
  <2>3. CASE i # 1
    <3>1. i - 1 \in 1..n /\ i - 1 + 1 = i
      BY <1>1, <2>3
    <3>2. r[i - 1] = q[i]
      BY <3>1, <1>1
    <3> QED
      BY <3>1, <3>2, <2>1 DEF Members
  <2> QED
    BY <2>2, <2>3
<1>6. Head(q) \in Members(q)
  <2>1. 1 \in 1..Len(q)
    BY <1>1
  <2> QED
    BY <2>1, <1>1 DEF Members
<1> QED
  BY <1>1, <1>3, <1>4, <1>5, <1>6 DEF r

\* One list after another of other parts.
LEMMA ConcatList ==
    ASSUME NEW q, Commands(q), NEW r, Commands(r), Apart(q, r)
    PROVE  Commands(q \o r) /\ Members(q \o r) = Members(q) \cup Members(r)
<1> DEFINE s == q \o r
           n == Len(q)
           m == Len(r)
<1>0. q \in Seq(Command) /\ Distinct(q) /\ n \in Nat /\ r \in Seq(Command) /\ Distinct(r) /\ m \in Nat
  BY DEF Commands
<1>1. s \in Seq(Command) /\ Len(s) = n + m
  BY <1>0, ConcatProperties
<1>2. \A i \in 1..(n + m) : s[i] = IF i <= n THEN q[i] ELSE r[i - n]
  BY <1>0, ConcatProperties
<1> HIDE DEF s
<1>3. \A i \in 1..n : i \in 1..(n + m) /\ s[i] = q[i]
  BY <1>0, <1>2
<1>4. \A i \in 1..m : n + i \in 1..(n + m) /\ s[n + i] = r[i]
  <2> TAKE i \in 1..m
  <2>1. n + i \in 1..(n + m) /\ ~(n + i <= n) /\ n + i - n = i
    BY <1>0
  <2> QED
    BY <2>1, <1>2
<1>5. \A i \in 1..(n + m) : i \in 1..n \/ \E k \in 1..m : i = n + k
  <2> TAKE i \in 1..(n + m)
  <2>1. CASE i > n
    <3>1. i - n \in 1..m /\ i = n + (i - n)
      BY <1>0, <2>1
    <3> QED
      BY <3>1
  <2> QED
    BY <2>1, <1>0
<1>6. \A i \in 1..n, j \in 1..m : PartOf(q[i]) # PartOf(r[j])
  BY DEF Apart, Members
<1>7. ASSUME NEW i \in 1..(n + m), NEW j \in 1..(n + m), PartOf(s[i]) = PartOf(s[j])
      PROVE  i = j
  <2>1. CASE i \in 1..n /\ j \in 1..n
    <3>1. PartOf(q[i]) = PartOf(q[j])
      BY <1>3, <1>7, <2>1
    <3> QED
      BY <3>1, <2>1, <1>0 DEF Distinct
  <2>2. ASSUME NEW k \in 1..m, i = n + k, j \in 1..n PROVE FALSE
    BY <1>3, <1>4, <1>6, <1>7, <2>2
  <2>3. ASSUME NEW k \in 1..m, j = n + k, i \in 1..n PROVE FALSE
    BY <1>3, <1>4, <1>6, <1>7, <2>3
  <2>4. ASSUME NEW k \in 1..m, NEW l \in 1..m, i = n + k, j = n + l PROVE i = j
    <3>1. PartOf(r[k]) = PartOf(r[l])
      BY <1>4, <1>7, <2>4
    <3> QED
      BY <3>1, <2>4, <1>0 DEF Distinct
  <2> QED
    BY <2>1, <2>2, <2>3, <2>4, <1>5
<1>8. Commands(s)
  BY <1>1, <1>7 DEF Commands, Distinct
<1>9. ASSUME NEW d \in Members(s) PROVE d \in Members(q) \cup Members(r)
  <2>1. PICK i \in 1..(n + m) : d = s[i]
    BY <1>1 DEF Members
  <2> QED
    BY <2>1, <1>3, <1>4, <1>5 DEF Members
<1>10. ASSUME NEW d \in Members(q) \cup Members(r) PROVE d \in Members(s)
  <2>1. CASE d \in Members(q)
    <3>1. PICK i \in 1..n : d = q[i]
      BY <2>1 DEF Members
    <3> QED
      BY <3>1, <1>3, <1>1 DEF Members
  <2>2. CASE d \in Members(r)
    <3>1. PICK i \in 1..m : d = r[i]
      BY <2>2 DEF Members
    <3> QED
      BY <3>1, <1>4, <1>1 DEF Members
  <2> QED
    BY <2>1, <2>2
<1> QED
  BY <1>8, <1>9, <1>10 DEF s

\* The commands at some places.
LEMMA KeptList ==
    ASSUME NEW q, Commands(q), NEW P \in SUBSET (1..Len(q))
    PROVE  /\ Commands(Kept(q, P))
           /\ IsFiniteSet(P) /\ Len(Kept(q, P)) = Cardinality(P) /\ Cardinality(P) \in Nat
           /\ Members(Kept(q, P)) = {q[i] : i \in P}
<1> DEFINE r == Kept(q, P)
           m == Cardinality(P)
<1>0. q \in Seq(Command) /\ Distinct(q) /\ Len(q) \in Nat
  BY DEF Commands
<1>1. /\ IsFiniteSet(P) /\ m \in Nat
      /\ \E f \in Bijection(1..m, P) : Kept(q, P) = [k \in 1..m |-> q[f[k]]]
  BY <1>0, KeptPlaces
<1>2. PICK f \in Bijection(1..m, P) : Kept(q, P) = [k \in 1..m |-> q[f[k]]]
  BY <1>1
<1>3. /\ \A k \in 1..m : f[k] \in P
      /\ \A k, l \in 1..m : f[k] = f[l] => k = l
      /\ \A i \in P : \E k \in 1..m : f[k] = i
  BY DEF Bijection, Injection, Surjection, IsInjective
<1>4. r = [k \in 1..m |-> r[k]] /\ \A k \in 1..m : r[k] = q[f[k]]
  BY <1>2
<1> HIDE DEF r, m
<1>5. \A i \in P : i \in 1..Len(q) /\ q[i] \in Command
  BY <1>0
<1>6. \A k \in 1..m : r[k] \in Command
  BY <1>3, <1>4, <1>5
<1>7. r \in Seq(Command) /\ Len(r) = m
  BY <1>1, <1>4, <1>6, SeqOfLength DEF m
<1>8. ASSUME NEW k \in 1..m, NEW l \in 1..m, PartOf(r[k]) = PartOf(r[l]) PROVE k = l
  <2>1. f[k] \in 1..Len(q) /\ f[l] \in 1..Len(q) /\ PartOf(q[f[k]]) = PartOf(q[f[l]])
    BY <1>3, <1>4, <1>5, <1>8
  <2>2. f[k] = f[l]
    BY <2>1, <1>0 DEF Distinct
  <2> QED
    BY <2>2, <1>3
<1>9. Commands(r)
  BY <1>7, <1>8 DEF Commands, Distinct
<1>10. Members(r) = {q[i] : i \in P}
  <2>1. ASSUME NEW d \in Members(r) PROVE d \in {q[i] : i \in P}
    <3>1. PICK k \in 1..m : d = r[k]
      BY <1>7 DEF Members
    <3> QED
      BY <3>1, <1>3, <1>4
  <2>2. ASSUME NEW i \in P PROVE q[i] \in Members(r)
    <3>1. PICK k \in 1..m : f[k] = i
      BY <1>3
    <3> QED
      BY <3>1, <1>4, <1>7 DEF Members
  <2> QED
    BY <2>1, <2>2
<1> QED
  BY <1>1, <1>7, <1>9, <1>10 DEF r, m

\* What RemoveAt leaves at each place.
LEMMA RemovePlaces ==
    ASSUME NEW q \in Seq(Command), NEW p \in 1..Len(q)
    PROVE  /\ RemoveAt(q, p) \in Seq(Command) /\ Len(RemoveAt(q, p)) = Len(q) - 1
           /\ \A i \in 1..(Len(q) - 1) : RemoveAt(q, p)[i] = IF i < p THEN q[i] ELSE q[i + 1]
<1> DEFINE r == RemoveAt(q, p)
           n == Len(q)
           a == SubSeq(q, 1, p - 1)
           b == SubSeq(q, p + 1, n)
<1>0. n \in Nat /\ p \in Nat /\ p \in 1..n /\ \A i \in 1..n : q[i] \in Command
  OBVIOUS
<1>1. a \in Seq(Command) /\ Len(a) = p - 1 /\ \A i \in 1..(p - 1) : a[i] = q[i]
  BY <1>0
<1>2. b \in Seq(Command) /\ Len(b) = n - p /\ \A i \in 1..(n - p) : b[i] = q[p + i]
  <2>1. \A i \in (p + 1)..n : q[i] \in Command
    BY <1>0
  <2>2. /\ b \in Seq(Command) /\ Len(b) = IF p + 1 <= n THEN n - (p + 1) + 1 ELSE 0
        /\ \A i \in 1..(n - (p + 1) + 1) : b[i] = q[p + 1 + i - 1]
    BY <1>0, <2>1, SubSeqProperties
  <2> HIDE DEF b
  <2>3. n - (p + 1) + 1 = n - p /\ Len(b) = n - p
    BY <2>2, <1>0
  <2>4. ASSUME NEW i \in 1..(n - p) PROVE b[i] = q[p + i]
    <3>1. p + 1 + i - 1 = p + i /\ i \in 1..(n - (p + 1) + 1)
      BY <1>0
    <3>2. b[i] = q[p + 1 + i - 1]
      BY <2>2, <3>1
    <3> QED
      BY <3>1, <3>2
  <2> QED
    BY <2>2, <2>3, <2>4
<1>3. r = a \o b
  BY DEF RemoveAt
<1> HIDE DEF a, b, r
<1>4. /\ r \in Seq(Command) /\ Len(r) = n - 1
      /\ \A i \in 1..(n - 1) : r[i] = IF i <= p - 1 THEN a[i] ELSE b[i - (p - 1)]
  <2>1. Len(a) + Len(b) = n - 1
    BY <1>0, <1>1, <1>2
  <2>2. /\ r \in Seq(Command) /\ Len(r) = Len(a) + Len(b)
        /\ \A i \in 1..(Len(a) + Len(b)) : r[i] = IF i <= Len(a) THEN a[i] ELSE b[i - Len(a)]
    BY <1>1, <1>2, <1>3, ConcatProperties
  <2> QED
    BY <1>1, <2>1, <2>2
<1>5. \A i \in 1..(n - 1) : r[i] = IF i < p THEN q[i] ELSE q[i + 1]
  <2> TAKE i \in 1..(n - 1)
  <2>1. CASE i < p
    BY <2>1, <1>0, <1>1, <1>4
  <2>2. CASE ~(i < p)
    <3>1. i - (p - 1) \in 1..(n - p) /\ p + (i - (p - 1)) = i + 1 /\ ~(i <= p - 1)
      BY <2>2, <1>0
    <3> QED
      BY <3>1, <2>2, <1>2, <1>4
  <2> QED
    BY <2>1, <2>2
<1> QED
  BY <1>4, <1>5 DEF r

\* The list without the command at one place.
LEMMA RemoveList ==
    ASSUME NEW q, Commands(q), NEW p \in 1..Len(q)
    PROVE  /\ Commands(RemoveAt(q, p)) /\ Len(RemoveAt(q, p)) = Len(q) - 1
           /\ Members(RemoveAt(q, p)) = Members(q) \ {q[p]}
           /\ q[p] \in Members(q)
<1> DEFINE r == RemoveAt(q, p)
           n == Len(q)
<1>0. q \in Seq(Command) /\ Distinct(q) /\ n \in Nat /\ p \in Nat /\ \A i \in 1..n : q[i] \in Command
  BY DEF Commands
<1>4. r \in Seq(Command) /\ Len(r) = n - 1
  BY <1>0, RemovePlaces
<1>5. \A i \in 1..(n - 1) : r[i] = IF i < p THEN q[i] ELSE q[i + 1]
  BY <1>0, RemovePlaces
<1> HIDE DEF r
<1> DEFINE At(i) == IF i < p THEN i ELSE i + 1
<1>6. \A i \in 1..(n - 1) : At(i) \in 1..n /\ At(i) # p /\ r[i] = q[At(i)]
  BY <1>0, <1>5
<1>7. \A i, j \in 1..(n - 1) : At(i) = At(j) => i = j
  BY <1>0
<1>8. \A k \in 1..n : k # p => \E i \in 1..(n - 1) : At(i) = k
  <2> TAKE k \in 1..n
  <2>1. CASE k < p
    <3>1. k \in 1..(n - 1) /\ At(k) = k
      BY <2>1, <1>0
    <3> QED
      BY <3>1
  <2>2. CASE k > p
    <3>1. k - 1 \in 1..(n - 1) /\ At(k - 1) = k
      BY <2>2, <1>0
    <3> QED
      BY <3>1
  <2> QED
    BY <2>1, <2>2, <1>0
<1> HIDE DEF At
<1>9. ASSUME NEW i \in 1..(n - 1), NEW j \in 1..(n - 1), PartOf(r[i]) = PartOf(r[j]) PROVE i = j
  <2>1. PartOf(q[At(i)]) = PartOf(q[At(j)])
    BY <1>6, <1>9
  <2>2. At(i) = At(j)
    BY <2>1, <1>6, <1>0 DEF Distinct
  <2> QED
    BY <2>2, <1>7
<1>10. Commands(r)
  BY <1>4, <1>9 DEF Commands, Distinct
<1>11. ASSUME NEW d \in Members(r) PROVE d \in Members(q) \ {q[p]}
  <2>1. PICK i \in 1..(n - 1) : d = r[i]
    BY <1>4 DEF Members
  <2>2. d = q[At(i)] /\ At(i) \in 1..n /\ At(i) # p
    BY <2>1, <1>6
  <2>3. PartOf(q[At(i)]) # PartOf(q[p])
    BY <2>2, <1>0 DEF Distinct
  <2> QED
    BY <2>2, <2>3 DEF Members
<1>12. ASSUME NEW d \in Members(q) \ {q[p]} PROVE d \in Members(r)
  <2>1. PICK k \in 1..n : d = q[k]
    BY DEF Members
  <2>2. k # p
    BY <2>1
  <2>3. PICK i \in 1..(n - 1) : At(i) = k
    BY <2>2, <1>8
  <2> QED
    BY <2>1, <2>3, <1>4, <1>6 DEF Members
<1> QED
  BY <1>4, <1>10, <1>11, <1>12 DEF r, Members

\* The places of a list that hold a command of X are as many as its members in X.
LEMMA CountPlaces ==
    ASSUME NEW q, Commands(q), NEW X
    PROVE  /\ Cardinality({i \in 1..Len(q) : q[i] \in X}) = Cardinality(Members(q) \cap X)
           /\ IsFiniteSet(Members(q) \cap X)
<1> DEFINE n == Len(q)
           I == {i \in 1..n : q[i] \in X}
           M == Members(q) \cap X
           f == [i \in I |-> q[i]]
<1>0. q \in Seq(Command) /\ Distinct(q) /\ n \in Nat
  BY DEF Commands
<1>1. IsFiniteSet(I)
  <2>1. IsFiniteSet(1..n)
    BY <1>0, FS_Interval
  <2>2. I \in SUBSET (1..n)
    OBVIOUS
  <2> QED
    BY <2>1, <2>2, FS_Subset
<1>2. \A i, j \in I : q[i] = q[j] => i = j
  BY <1>0 DEF Distinct
<1>3. f \in [I -> M] /\ \A i \in I : f[i] = q[i]
  BY DEF Members
<1>4. \A c \in M : \E i \in I : f[i] = c
  BY DEF Members
<1> HIDE DEF f, I, M
<1>5. f \in Injection(I, M)
  BY <1>2, <1>3 DEF Injection, IsInjective
<1>6. f \in Surjection(I, M)
  BY <1>3, <1>4 DEF Surjection
<1>7. ExistsBijection(I, M)
  BY <1>5, <1>6 DEF Bijection, ExistsBijection
<1>8. IsFiniteSet(M) /\ Cardinality(M) = Cardinality(I)
  BY <1>1, <1>7, FS_Bijection
<1> QED
  BY <1>8 DEF I, M

-----------------------------------------------------------------------------
(* The invariant. *)

\* The commands not acknowledged yet; of those, the transmitted ones of a window.
Unacked == Members(sent) \cup Members(outgoing)
Flying(U, T, w) == {c \in U : PartOf(c) \in T /\ WindowOf(c.seq) = w}

\* Every part is in one place of the sender's lists, the sent ones have been
\* transmitted, and none is of a packet not given to enet_peer_send yet.
ListsInv ==
    /\ Commands(sent) /\ Commands(outgoing) /\ Apart(sent, outgoing)
    /\ \A c \in Members(sent) : PartOf(c) \in tried
    /\ \A c \in Unacked : c.pkt <= Len(counts)
    /\ \A part \in tried : part.pkt <= Len(counts)

\* The counters agree with the lists.
CountersInv ==
    /\ \A w \in Window : reliableWindows[w] = Cardinality(Flying(Unacked, tried, w))
    /\ usedReliableWindows = {w \in Window : reliableWindows[w] > 0}
    /\ reliableDataInTransit = Len(sent)

ChannelInv == TypeOK /\ (open => ListsInv /\ CountersInv)

\* Under the invariant the commands in transit are those places' commands.
LEMMA InTransitFlying ==
    ASSUME TypeOK, ListsInv, NEW w
    PROVE  /\ InTransit(w) = Cardinality(Flying(Unacked, tried, w))
           /\ IsFiniteSet(Flying(Unacked, tried, w))
<1> DEFINE X == {c \in Command : PartOf(c) \in tried /\ WindowOf(c.seq) = w}
           A == Members(sent) \cap X
           B == Members(outgoing) \cap X
<1>0. /\ sent \in Seq(Command) /\ outgoing \in Seq(Command)
      /\ Commands(sent) /\ Commands(outgoing) /\ Apart(sent, outgoing)
      /\ \A c \in Members(sent) : PartOf(c) \in tried
  BY DEF TypeOK, ListsInv
<1>1. /\ DOMAIN sent = 1..Len(sent) /\ DOMAIN outgoing = 1..Len(outgoing)
      /\ Members(sent) \in SUBSET Command /\ Members(outgoing) \in SUBSET Command
  BY <1>0, MembersType
<1>2. \A i \in 1..Len(sent) : sent[i] \in Members(sent)
  BY DEF Members
<1>3. \A i \in 1..Len(outgoing) : outgoing[i] \in Members(outgoing)
  BY DEF Members
<1>4. {i \in DOMAIN sent : WindowOf(sent[i].seq) = w} = {i \in 1..Len(sent) : sent[i] \in X}
  BY <1>0, <1>1, <1>2
<1>5. {i \in DOMAIN outgoing : /\ PartOf(outgoing[i]) \in tried
                               /\ WindowOf(outgoing[i].seq) = w}
        = {i \in 1..Len(outgoing) : outgoing[i] \in X}
  BY <1>0, <1>1, <1>3
<1>6. InTransit(w) = Cardinality({i \in 1..Len(sent) : sent[i] \in X})
                       + Cardinality({i \in 1..Len(outgoing) : outgoing[i] \in X})
  BY <1>4, <1>5 DEF InTransit
<1>7. A \cap B = {}
  BY <1>0 DEF Apart
<1>8. A \cup B = Flying(Unacked, tried, w)
  BY <1>1 DEF Flying, Unacked
<1> HIDE DEF X
<1>9. /\ Cardinality({i \in 1..Len(sent) : sent[i] \in X}) = Cardinality(A)
      /\ IsFiniteSet(A)
      /\ Cardinality({i \in 1..Len(outgoing) : outgoing[i] \in X}) = Cardinality(B)
      /\ IsFiniteSet(B)
  BY <1>0, CountPlaces
<1> HIDE DEF A, B
<1>10. /\ Cardinality(A) \in Nat /\ Cardinality(B) \in Nat /\ IsFiniteSet(A \cup B)
       /\ Cardinality(A \cup B) = Cardinality(A) + Cardinality(B) - Cardinality(A \cap B)
  BY <1>9, FS_CardinalityType, FS_Union
<1>11. Cardinality(A \cap B) = 0
  BY <1>7, FS_EmptySet
<1>12. InTransit(w) = Cardinality(A) + Cardinality(B)
  BY <1>6, <1>9
<1>13. Cardinality(A \cup B) = Cardinality(A) + Cardinality(B)
  BY <1>10, <1>11
<1> QED
  BY <1>8, <1>10, <1>12, <1>13, Zenon

\* A command transmitted for the first time joins those of its window.
NewIn(c, U, T) ==
    /\ c \in U /\ PartOf(c) \notin T
    /\ \A d \in U : PartOf(d) = PartOf(c) => d = c
Joins(c, U, T, w) ==
    /\ c \notin Flying(U, T, w)
    /\ Flying(U, T \cup {PartOf(c)}, w) = Flying(U, T, w) \cup {c}
    /\ \A v : v # w => Flying(U, T \cup {PartOf(c)}, v) = Flying(U, T, v)
LEMMA FlyingAdd ==
    ASSUME NEW U, NEW T, NEW c, NewIn(c, U, T)
    PROVE  Joins(c, U, T, WindowOf(c.seq))
<1> DEFINE w == WindowOf(c.seq)
<1>0. c \in U /\ PartOf(c) \notin T /\ \A d \in U : PartOf(d) = PartOf(c) => d = c
  BY DEF NewIn
<1>1. \A X, v, d : d \in Flying(U, X, v) <=> d \in U /\ PartOf(d) \in X /\ WindowOf(d.seq) = v
  BY DEF Flying
<1> HIDE DEF w
<1>2. \A d \in U : PartOf(d) \in T \cup {PartOf(c)} <=> PartOf(d) \in T \/ d = c
  BY <1>0
<1>3. c \notin Flying(U, T, w)
  BY <1>0, <1>1
<1>4. Flying(U, T \cup {PartOf(c)}, w) = Flying(U, T, w) \cup {c}
  BY <1>0, <1>1, <1>2 DEF w
<1>5. ASSUME NEW v, v # w PROVE Flying(U, T \cup {PartOf(c)}, v) = Flying(U, T, v)
  <2>1. \A d : d \in Flying(U, T \cup {PartOf(c)}, v) <=> d \in Flying(U, T, v)
    BY <1>1, <1>2, <1>5 DEF w
  <2> QED
    BY <2>1 DEF Flying
<1> QED
  BY <1>3, <1>4, <1>5 DEF w, Joins

\* An acknowledged command leaves them.
Leaves(c, U, T, w) ==
    /\ c \in Flying(U, T, w)
    /\ Flying(U \ {c}, T, w) = Flying(U, T, w) \ {c}
    /\ \A v : v # w => Flying(U \ {c}, T, v) = Flying(U, T, v)
LEMMA FlyingRemove ==
    ASSUME NEW U, NEW T, NEW c, c \in U, PartOf(c) \in T
    PROVE  Leaves(c, U, T, WindowOf(c.seq))
  BY DEF Leaves, Flying

\* The invariant contains the property.
LEMMA AccountingFollows == ChannelInv => WindowAccounting
  BY InTransitFlying DEF ChannelInv, CountersInv, WindowAccounting

-----------------------------------------------------------------------------
(* Types. *)

\* A packet takes at least one number, and one for each of its commands.
LEMMA CountFacts ==
    ASSUME NEW count \in Counts
    PROVE  /\ Length(count) \in Nat \ {0} /\ count \in Nat
           /\ \A k \in 1..Length(count) : k - 1 \in Numbers
  BY ChannelAssumption DEF Counts, Length, Numbers

\* Numbers reckoned within the sequence space.
LEMMA SpaceArithmetic ==
    ASSUME NEW s \in SeqNo
    PROVE  /\ \A n \in Nat : (s + n) % SeqSpace \in SeqNo
           /\ \A count \in Counts : (s + Length(count) - 1) % SeqSpace \in SeqNo
<1>1. s \in Nat
  BY SpaceFacts
<1>2. \A n \in Nat : s + n \in Nat
  BY <1>1
<1>3. \A count \in Counts : s + Length(count) - 1 \in Nat
  BY <1>1, CountFacts
<1> QED
  BY <1>2, <1>3, SpaceFacts

\* What Dispatch leaves of a list of incoming commands.
LEMMA DispatchType ==
    ASSUME TypeOK, NEW list \in Seq(Incoming), NEW cur \in SeqNo, Dispatch(list, cur)
    PROVE  /\ incoming' \in Seq(Incoming) /\ dispatched' \in Seq(Incoming)
           /\ incomingReliableSequenceNumber' \in SeqNo
<1> DEFINE before(i) == IF i = 1 THEN cur ELSE LastNumber(list[i - 1])
           ready == {n \in 0..Len(list) :
                        \A i \in 1..n : /\ Complete(list[i])
                                        /\ list[i].seq = (before(i) + 1) % SeqSpace}
           n == CHOOSE m \in ready : \A k \in ready : k <= m
<1>0. Len(list) \in Nat /\ dispatched \in Seq(Incoming) /\ \A i \in 1..Len(list) : list[i] \in Incoming
  BY DEF TypeOK
<1>1. /\ incoming' = SubSeq(list, n + 1, Len(list))
      /\ dispatched' = dispatched \o SubSeq(list, 1, n)
      /\ incomingReliableSequenceNumber' = before(n + 1)
  BY DEF Dispatch
<1>2. ready \in SUBSET (0..Len(list)) /\ 0 \in ready
  <2>1. 0 \in 0..Len(list) /\ 1..0 = {}
    BY <1>0
  <2> QED
    BY <2>1
<1> HIDE DEF ready
<1>3. \E m \in ready : \A k \in ready : k <= m
  BY <1>0, <1>2, GreatestNat
<1>4. n \in ready
  BY <1>3
<1>5. n \in 0..Len(list)
  BY <1>2, <1>4
<1> HIDE DEF n
<1>6. SubSeq(list, n + 1, Len(list)) \in Seq(Incoming)
  <2>1. \A i \in (n + 1)..Len(list) : list[i] \in Incoming
    BY <1>0, <1>5
  <2> QED
    BY <2>1, <1>0, <1>5, SubSeqProperties
<1>7. SubSeq(list, 1, n) \in Seq(Incoming)
  <2>1. \A i \in 1..n : list[i] \in Incoming
    BY <1>0, <1>5
  <2> QED
    BY <2>1, <1>0, <1>5, SubSeqProperties
<1>8. before(n + 1) \in SeqNo
  <2>1. CASE n = 0
    BY <2>1
  <2>2. CASE n # 0
    <3>1. n \in 1..Len(list) /\ n + 1 # 1 /\ n + 1 - 1 = n
      BY <1>0, <1>5, <2>2
    <3>2. list[n] \in Incoming /\ before(n + 1) = LastNumber(list[n])
      BY <1>0, <3>1
    <3>3. list[n].seq \in SeqNo /\ list[n].count \in Counts
      BY <3>2 DEF Incoming
    <3> QED
      BY <3>2, <3>3, SpaceArithmetic DEF LastNumber
  <2> QED
    BY <2>1, <2>2
<1> HIDE DEF before
<1> QED
  BY <1>0, <1>1, <1>6, <1>7, <1>8

\* The place a command is inserted after is one of the list's or none.
LEMMA InsertAfterType ==
    ASSUME TypeOK, NEW seq, NEW cur
    PROVE  InsertAfter(seq, cur) \in 0..Len(incoming)
<1> DEFINE stops == {i \in DOMAIN incoming : StopsAt(incoming[i], seq, cur)}
           last == CHOOSE i \in stops : \A j \in stops : j <= i
<1>0. Len(incoming) \in Nat /\ DOMAIN incoming = 1..Len(incoming)
  BY DEF TypeOK
<1>1. stops \in SUBSET (0..Len(incoming))
  <2>1. \A i \in 1..Len(incoming) : i \in 0..Len(incoming)
    BY <1>0
  <2> QED
    BY <2>1, <1>0
<1>2. InsertAfter(seq, cur) = IF stops = {} THEN 0 ELSE last
  BY DEF InsertAfter
<1> HIDE DEF stops
<1>3. stops # {} => last \in stops
  BY <1>0, <1>1, GreatestNat
<1> HIDE DEF last
<1>4. CASE stops = {}
  BY <1>0, <1>2, <1>4
<1>5. CASE stops # {}
  <2>1. InsertAfter(seq, cur) = last /\ last \in 0..Len(incoming)
    BY <1>1, <1>2, <1>3, <1>5
  <2> QED
    BY <2>1
<1> QED
  BY <1>4, <1>5

\* A new command comes between two parts of the list.
LEMMA InsertType ==
    ASSUME NEW q \in Seq(Incoming), NEW i \in 0..Len(q), NEW e \in Incoming
    PROVE  InsertAt(q, i + 1, e) \in Seq(Incoming)
<1> DEFINE a == SubSeq(q, 1, (i + 1) - 1)
           b == SubSeq(q, i + 1, Len(q))
           u == <<e>>
<1>0. Len(q) \in Nat /\ i \in Nat /\ (i + 1) - 1 = i /\ \A k \in 1..Len(q) : q[k] \in Incoming
  OBVIOUS
<1>1. a \in Seq(Incoming)
  <2>1. \A k \in 1..((i + 1) - 1) : q[k] \in Incoming
    BY <1>0
  <2> QED
    BY <2>1, <1>0, SubSeqProperties
<1>2. b \in Seq(Incoming)
  <2>1. \A k \in (i + 1)..Len(q) : q[k] \in Incoming
    BY <1>0
  <2> QED
    BY <2>1, <1>0, SubSeqProperties
<1>3. InsertAt(q, i + 1, e) = (a \o u) \o b
  BY Zenon DEF InsertAt
<1>4. u \in Seq(Incoming)
  OBVIOUS
<1> HIDE DEF a, b, u
<1>5. a \o u \in Seq(Incoming)
  BY <1>1, <1>4, ConcatProperties
<1>6. (a \o u) \o b \in Seq(Incoming)
  BY <1>2, <1>5, ConcatProperties
<1> QED
  BY <1>3, <1>6

-----------------------------------------------------------------------------
(* The steps of the sender. *)

\* A step that leaves the sender alone keeps its part of the invariant.
LEMMA SenderIdle ==
    ASSUME ListsInv, CountersInv, UNCHANGED <<open, senderVars>>
    PROVE  ListsInv' /\ CountersInv'
<1>1. /\ UNCHANGED counts /\ UNCHANGED outgoing /\ UNCHANGED sent /\ UNCHANGED tried
      /\ UNCHANGED reliableWindows /\ UNCHANGED usedReliableWindows
      /\ UNCHANGED reliableDataInTransit
  BY DEF senderVars
<1>2. ListsInv'
  BY <1>1 DEF ListsInv, Unacked
<1>3. CountersInv'
  BY <1>1 DEF CountersInv, Unacked
<1> QED
  BY <1>2, <1>3

\* Initially nothing has been sent.
LEMMA InitInv == Init => ChannelInv
<1> SUFFICES ASSUME Init PROVE ChannelInv
  OBVIOUS
<1>0. /\ counts = << >> /\ outgoing = << >> /\ sent = << >> /\ tried = {} /\ net = {}
      /\ incoming = << >> /\ acknowledgements = << >> /\ dispatched = << >> /\ delivered = << >>
      /\ open = TRUE /\ reliableWindows = [w \in Window |-> 0] /\ usedReliableWindows = {}
      /\ reliableDataInTransit = 0 /\ outgoingReliableSequenceNumber = StartSeq
      /\ incomingReliableSequenceNumber = StartSeq
  BY DEF Init
<1>1. StartSeq \in SeqNo
  BY ChannelAssumption DEF SeqNo, SeqSpace
<1>2. \A S : << >> \in Seq(S)
  OBVIOUS
<1>3. TypeOK
  BY <1>0, <1>1, <1>2 DEF TypeOK
<1>4. Members(<< >>) = {}
  BY DEF Members
<1>5. Commands(<< >>)
  BY <1>2 DEF Commands, Distinct
<1>6. ListsInv
  BY <1>0, <1>4, <1>5 DEF ListsInv, Apart, Unacked
<1>7. \A w \in Window : Flying(Unacked, tried, w) = {}
  BY <1>0, <1>4 DEF Flying, Unacked
<1>8. CountersInv
  BY <1>0, <1>7, FS_EmptySet DEF CountersInv
<1> QED
  BY <1>3, <1>6, <1>8 DEF ChannelInv

\* enet_peer_send numbers the commands of a packet and queues them.
LEMMA SendStep ==
    ASSUME ChannelInv, enet_peer_send
    PROVE  ChannelInv'
<1>0. /\ TypeOK /\ open /\ ListsInv /\ CountersInv
      /\ counts \in Seq(Counts) /\ outgoing \in Seq(Command) /\ sent \in Seq(Command)
      /\ outgoingReliableSequenceNumber \in SeqNo
      /\ Len(counts) \in Nat /\ Len(counts) < MaxPackets
      /\ UNCHANGED <<open, sent, tried, reliableWindows, usedReliableWindows,
                     reliableDataInTransit, net, receiverVars>>
  BY DEF enet_peer_send, ChannelInv, TypeOK
<1>1. PICK count \in Counts :
          /\ counts' = Append(counts, count)
          /\ outgoing' = outgoing \o
                [k \in 1..Length(count) |->
                    [seq |-> (outgoingReliableSequenceNumber + k) % SeqSpace,
                     pkt |-> Len(counts'), number |-> k - 1, count |-> count]]
          /\ outgoingReliableSequenceNumber' =
                (outgoingReliableSequenceNumber + Length(count)) % SeqSpace
  BY DEF enet_peer_send
<1> DEFINE m == Length(count)
           p == Len(counts')
           new == [k \in 1..m |-> [seq |-> (outgoingReliableSequenceNumber + k) % SeqSpace,
                                   pkt |-> p, number |-> k - 1, count |-> count]]
<1>2. counts' \in Seq(Counts) /\ p = Len(counts) + 1
  BY <1>0, <1>1
<1>3. p \in Packets
  BY <1>0, <1>2, ChannelAssumption DEF Packets
<1>4. outgoingReliableSequenceNumber' \in SeqNo
  BY <1>0, <1>1, CountFacts, SpaceArithmetic
<1>5. m \in Nat
  BY CountFacts
<1>6. ASSUME NEW k \in 1..m
      PROVE  /\ new[k] \in Command /\ new[k].pkt = p
             /\ PartOf(new[k]) = [pkt |-> p, number |-> k - 1]
  <2>1. (outgoingReliableSequenceNumber + k) % SeqSpace \in SeqNo
    BY <1>0, <1>5, SpaceArithmetic
  <2>2. k - 1 \in Numbers
    BY CountFacts
  <2> QED
    BY <1>3, <2>1, <2>2 DEF Command, PartOf
<1>7. new = [k \in 1..m |-> new[k]]
  OBVIOUS
<1>8. outgoing' = outgoing \o new
  BY <1>1
<1> HIDE DEF new, m, p
<1>9. new \in Seq(Command) /\ Len(new) = m
  BY <1>5, <1>6, <1>7, SeqOfLength
<1>10. Commands(new)
  <2>1. ASSUME NEW i \in 1..m, NEW j \in 1..m, PartOf(new[i]) = PartOf(new[j]) PROVE i = j
    <3>1. PartOf(new[i]) = [pkt |-> p, number |-> i - 1]
      BY <1>6
    <3>2. PartOf(new[j]) = [pkt |-> p, number |-> j - 1]
      BY <1>6
    <3>3. [pkt |-> p, number |-> i - 1].number = [pkt |-> p, number |-> j - 1].number
      BY <2>1, <3>1, <3>2, Zenon
    <3>4. i - 1 = j - 1
      BY <3>3
    <3> QED
      BY <1>5, <3>4
  <2> QED
    BY <1>9, <2>1 DEF Commands, Distinct
<1>11. \A c \in Members(new) : c \in Command /\ c.pkt = p /\ PartOf(c).pkt = p
  BY <1>6, <1>9 DEF Members
<1>12. /\ \A c \in Members(sent) \cup Members(outgoing) :
             c.pkt \in Nat /\ c.pkt < p /\ PartOf(c).pkt = c.pkt
       /\ \A part \in tried : part.pkt \in Nat /\ part.pkt < p
  <2>1. Members(sent) \in SUBSET Command /\ Members(outgoing) \in SUBSET Command
    BY <1>0, MembersType
  <2>2. \A c \in Command : c.pkt \in Nat /\ PartOf(c).pkt = c.pkt
    BY DEF Command, Packets, PartOf
  <2>3. \A part \in tried : part.pkt \in Nat
    BY <1>0 DEF TypeOK, Part, Packets
  <2> QED
    BY <1>0, <1>2, <2>1, <2>2, <2>3 DEF ListsInv, Unacked
<1>13. Apart(outgoing, new) /\ Apart(sent, new)
  BY <1>11, <1>12 DEF Apart
<1>14. Commands(outgoing') /\ Members(outgoing') = Members(outgoing) \cup Members(new)
  BY <1>0, <1>8, <1>10, <1>13, ConcatList DEF ListsInv
<1>15. \A c \in Members(new) : PartOf(c) \notin tried
  BY <1>11, <1>12
<1>16. p \in Nat
  BY <1>0, <1>2
<1>17. ListsInv'
  <2>1. Apart(sent, outgoing)
    BY <1>0 DEF ListsInv
  <2>2. Apart(sent', outgoing')
    BY <1>0, <1>13, <1>14, <2>1 DEF Apart
  <2>3. \A c \in Members(sent') \cup Members(outgoing') : c.pkt <= p
    BY <1>0, <1>11, <1>12, <1>14, <1>16
  <2>4. \A part \in tried' : part.pkt <= p
    BY <1>0, <1>12, <1>16
  <2> QED
    BY <1>0, <1>14, <2>2, <2>3, <2>4 DEF ListsInv, Unacked, p
<1>18. \A w : Flying(Unacked', tried', w) = Flying(Unacked, tried, w)
  BY <1>0, <1>14, <1>15 DEF Flying, Unacked
<1>19. CountersInv'
  BY <1>0, <1>18 DEF CountersInv
<1>20. TypeOK'
  <2>1. UNCHANGED <<incomingReliableSequenceNumber, incoming, acknowledgements, dispatched, delivered>>
    BY <1>0 DEF receiverVars
  <2> QED
    BY <1>0, <1>2, <1>4, <1>14, <2>1 DEF TypeOK, Commands
<1> QED
  BY <1>17, <1>19, <1>20 DEF ChannelInv

\* SendReliable moves the first command from one list to the other and counts it
\* unless it was transmitted before.
LEMMA TransmitStep ==
    ASSUME ChannelInv, SendReliable
    PROVE  ChannelInv'
<1> DEFINE c == Head(outgoing)
           w == WindowOf(c.seq)
<1>0. /\ TypeOK /\ open /\ ListsInv /\ CountersInv /\ outgoing # << >>
      /\ outgoing \in Seq(Command) /\ sent \in Seq(Command) /\ tried \in SUBSET Part
      /\ Commands(sent) /\ Commands(outgoing)
      /\ reliableWindows \in [Window -> Nat] /\ reliableDataInTransit \in Nat
      /\ UNCHANGED <<open, counts, outgoingReliableSequenceNumber, receiverVars>>
  BY DEF SendReliable, ChannelInv, TypeOK, ListsInv
<1>1. /\ IF PartOf(c) \in tried
         THEN UNCHANGED <<reliableWindows, usedReliableWindows>>
         ELSE /\ usedReliableWindows' = usedReliableWindows \cup {w}
              /\ reliableWindows' = [reliableWindows EXCEPT ![w] = @ + 1]
      /\ tried' = tried \cup {PartOf(c)}
      /\ outgoing' = Tail(outgoing)
      /\ sent' = Append(sent, c)
      /\ reliableDataInTransit' = reliableDataInTransit + 1
      /\ net' = Surviving(tried') \cup {[type |-> "data", cmd |-> c]}
  BY DEF SendReliable
<1> HIDE DEF c, w
<1>2. /\ c \in Command /\ Commands(outgoing')
      /\ Members(outgoing) = Members(outgoing') \cup {c}
      /\ \A d \in Members(outgoing') : PartOf(d) # PartOf(c)
  BY <1>0, <1>1, TailList DEF c
<1>3. Apart(sent, outgoing) /\ \A d \in Members(sent) : PartOf(d) # PartOf(c)
  BY <1>0, <1>2 DEF ListsInv, Apart
<1>4. /\ Commands(sent') /\ Len(sent') = Len(sent) + 1
      /\ Members(sent') = Members(sent) \cup {c}
  BY <1>0, <1>1, <1>2, <1>3, AppendList
<1>5. Unacked' = Unacked /\ c \in Unacked
  BY <1>2, <1>4 DEF Unacked
<1>6. c.seq \in SeqNo /\ w \in Window /\ PartOf(c) \in Part /\ PartOf(c).pkt = c.pkt
  BY <1>2, SpaceFacts DEF Command, w, PartOf, Part
<1>7. ListsInv'
  <2>1. Apart(sent', outgoing')
    BY <1>2, <1>3, <1>4 DEF Apart
  <2>2. \A d \in Members(sent') : PartOf(d) \in tried'
    BY <1>0, <1>1, <1>4 DEF ListsInv
  <2>3. \A d \in Unacked' : d.pkt <= Len(counts')
    BY <1>0, <1>5 DEF ListsInv
  <2>4. c.pkt <= Len(counts)
    BY <1>0, <1>5 DEF ListsInv
  <2>5. \A part \in tried' : part.pkt <= Len(counts')
    BY <1>0, <1>1, <1>6, <2>4 DEF ListsInv
  <2> QED
    BY <1>2, <1>4, <2>1, <2>2, <2>3, <2>5 DEF ListsInv
<1>8. TypeOK'
  <2>1. Surviving(tried') \in SUBSET net
    BY DEF Surviving
  <2>2. [type |-> "data", cmd |-> c] \in Datagram
    BY <1>2 DEF Datagram
  <2>3. net' \subseteq Datagram
    BY <1>0, <1>1, <2>1, <2>2 DEF TypeOK
  <2>4. reliableWindows' \in [Window -> Nat] /\ usedReliableWindows' \subseteq Window
    BY <1>0, <1>1, <1>6 DEF TypeOK
  <2>5. UNCHANGED <<incomingReliableSequenceNumber, incoming, acknowledgements, dispatched, delivered>>
    BY <1>0 DEF receiverVars
  <2>6. tried' \subseteq Part
    BY <1>0, <1>1, <1>6
  <2>7. outgoing' \in Seq(Command) /\ sent' \in Seq(Command)
    BY <1>2, <1>4 DEF Commands
  <2>8. reliableDataInTransit' \in Nat
    BY <1>0, <1>1
  <2> QED
    BY <1>0, <2>3, <2>4, <2>5, <2>6, <2>7, <2>8 DEF TypeOK
<1>9. reliableDataInTransit' = Len(sent')
  BY <1>0, <1>1, <1>4 DEF CountersInv
<1>10. CASE PartOf(c) \in tried
  <2>1. tried' = tried
    BY <1>1, <1>10
  <2>3. CountersInv'
    BY <1>0, <1>1, <1>5, <1>9, <1>10, <2>1 DEF CountersInv
  <2> QED
    BY <1>7, <1>8, <2>3 DEF ChannelInv
<1>11. CASE PartOf(c) \notin tried
  <2>1. \A d \in Unacked : PartOf(d) = PartOf(c) => d = c
    BY <1>2, <1>3 DEF Unacked
  <2>2. /\ c \notin Flying(Unacked, tried, w)
        /\ Flying(Unacked', tried', w) = Flying(Unacked, tried, w) \cup {c}
        /\ \A v : v # w => Flying(Unacked', tried', v) = Flying(Unacked, tried, v)
    <3>1. NewIn(c, Unacked, tried)
      BY <1>5, <1>11, <2>1 DEF NewIn
    <3>2. Joins(c, Unacked, tried, w)
      BY <3>1, FlyingAdd DEF w
    <3>3. tried' = tried \cup {PartOf(c)} /\ Unacked' = Unacked
      BY <1>1, <1>5
    <3> QED
      BY <3>2, <3>3 DEF Joins
  <2>4. IsFiniteSet(Flying(Unacked, tried, w))
    BY <1>0, InTransitFlying
  <2>5. Cardinality(Flying(Unacked', tried', w)) = Cardinality(Flying(Unacked, tried, w)) + 1
    BY <2>2, <2>4, FS_AddElement
  <2>6. /\ reliableWindows'[w] = reliableWindows[w] + 1
        /\ \A v \in Window : v # w => reliableWindows'[v] = reliableWindows[v]
    BY <1>0, <1>1, <1>6, <1>11
  <2>7. \A v \in Window : reliableWindows'[v] = Cardinality(Flying(Unacked', tried', v))
    <3>1. \A v \in Window : reliableWindows[v] = Cardinality(Flying(Unacked, tried, v))
      BY <1>0 DEF CountersInv
    <3>2. reliableWindows'[w] = Cardinality(Flying(Unacked', tried', w))
      BY <1>6, <2>5, <2>6, <3>1
    <3>3. ASSUME NEW v \in Window, v # w
          PROVE  reliableWindows'[v] = Cardinality(Flying(Unacked', tried', v))
      BY <2>2, <2>6, <3>1, <3>3
    <3> QED
      BY <3>2, <3>3
  <2>8. usedReliableWindows' = {v \in Window : reliableWindows'[v] > 0}
    <3>1. usedReliableWindows' = {v \in Window : reliableWindows[v] > 0} \cup {w}
      BY <1>0, <1>1, <1>11 DEF CountersInv
    <3>2. reliableWindows[w] \in Nat
      BY <1>0, <1>6
    <3> QED
      BY <1>6, <2>6, <3>1, <3>2
  <2>9. CountersInv'
    BY <1>9, <2>7, <2>8 DEF CountersInv
  <2> QED
    BY <1>7, <1>8, <2>9 DEF ChannelInv
<1> QED
  BY <1>10, <1>11

\* A set of numbers up to n and the rest of them are n.
LEMMA RestOf ==
    ASSUME NEW n \in Nat, NEW P \in SUBSET (1..n)
    PROVE  /\ IsFiniteSet(P) /\ Cardinality(P) \in Nat
           /\ Cardinality((1..n) \ P) = n - Cardinality(P) /\ Cardinality(P) <= n
<1> DEFINE R == (1..n) \ P
<1>1. IsFiniteSet(1..n) /\ Cardinality(1..n) = n
  BY FS_Interval
<1>2. R \in SUBSET (1..n) /\ R \cup P = 1..n /\ R \cap P = {}
  OBVIOUS
<1> HIDE DEF R
<1>3. /\ IsFiniteSet(P) /\ IsFiniteSet(R) /\ Cardinality(P) \in Nat /\ Cardinality(R) \in Nat
      /\ Cardinality(P) <= Cardinality(1..n)
  BY <1>1, <1>2, FS_Subset, FS_CardinalityType
<1>4. Cardinality(R \cup P) = Cardinality(R) + Cardinality(P) - Cardinality(R \cap P)
  BY <1>3, FS_Union
<1>5. Cardinality(R \cap P) = 0
  BY <1>2, FS_EmptySet
<1>6. n = Cardinality(R) + Cardinality(P)
  <2>1. Cardinality(R \cup P) = n
    BY <1>1, <1>2
  <2> QED
    BY <2>1, <1>3, <1>4, <1>5
<1>7. Cardinality(P) <= n
  BY <1>1, <1>3
<1> QED
  BY <1>3, <1>6, <1>7 DEF R

\* check_timeouts moves commands from one list to the other.
LEMMA TimeoutStep ==
    ASSUME ChannelInv, check_timeouts
    PROVE  ChannelInv'
<1>0. /\ TypeOK /\ open /\ ListsInv /\ CountersInv
      /\ outgoing \in Seq(Command) /\ sent \in Seq(Command) /\ Len(sent) \in Nat
      /\ Commands(sent) /\ Commands(outgoing) /\ Apart(sent, outgoing)
      /\ UNCHANGED <<open, counts, outgoingReliableSequenceNumber, tried, reliableWindows,
                     usedReliableWindows, net, receiverVars>>
  BY DEF check_timeouts, ChannelInv, TypeOK, ListsInv
<1>1. PICK late \in SUBSET (1..Len(sent)) :
          /\ sent' = Kept(sent, (1..Len(sent)) \ late)
          /\ outgoing' = Kept(sent, late) \o outgoing
          /\ reliableDataInTransit' = reliableDataInTransit - Cardinality(late)
  BY DEF check_timeouts
<1> DEFINE rest == (1..Len(sent)) \ late
           back == Kept(sent, late)
<1>2. rest \in SUBSET (1..Len(sent)) /\ rest \cup late = 1..Len(sent) /\ rest \cap late = {}
  OBVIOUS
<1>3. /\ Cardinality(late) \in Nat /\ Cardinality(rest) = Len(sent) - Cardinality(late)
      /\ Cardinality(late) <= Len(sent)
  BY <1>0, RestOf
<1>4. sent' = Kept(sent, rest) /\ outgoing' = back \o outgoing
  BY <1>1
<1> HIDE DEF rest
<1>5. /\ Commands(sent') /\ Len(sent') = Cardinality(rest)
      /\ Members(sent') = {sent[i] : i \in rest}
  BY <1>0, <1>2, <1>4, KeptList
<1>6. Commands(back) /\ Members(back) = {sent[i] : i \in late}
  BY <1>0, KeptList
<1> HIDE DEF back
<1>7. Members(sent) = Members(sent') \cup Members(back)
  BY <1>2, <1>5, <1>6 DEF Members
<1>8. Apart(sent', back)
  <2>1. ASSUME NEW i \in rest, NEW j \in late PROVE PartOf(sent[i]) # PartOf(sent[j])
    <3>1. i \in 1..Len(sent) /\ j \in 1..Len(sent) /\ i # j
      BY <1>2
    <3> QED
      BY <1>0, <3>1 DEF Commands, Distinct
  <2> QED
    BY <1>5, <1>6, <2>1 DEF Apart
<1>9. Apart(back, outgoing) /\ Apart(sent', outgoing)
  BY <1>0, <1>7 DEF Apart
<1>10. Commands(outgoing') /\ Members(outgoing') = Members(back) \cup Members(outgoing)
  BY <1>0, <1>4, <1>6, <1>9, ConcatList
<1>11. Apart(sent', outgoing')
  BY <1>8, <1>9, <1>10 DEF Apart
<1>12. Unacked' = Unacked
  BY <1>7, <1>10 DEF Unacked
<1>13. ListsInv'
  <2>1. \A c \in Members(sent') : PartOf(c) \in tried'
    BY <1>0, <1>7 DEF ListsInv
  <2>2. \A c \in Unacked' : c.pkt <= Len(counts')
    BY <1>0, <1>12 DEF ListsInv
  <2>3. \A part \in tried' : part.pkt <= Len(counts')
    BY <1>0 DEF ListsInv
  <2> QED
    BY <1>5, <1>10, <1>11, <2>1, <2>2, <2>3 DEF ListsInv
<1>14. reliableDataInTransit' = Len(sent')
  BY <1>0, <1>1, <1>3, <1>5 DEF CountersInv
<1>15. CountersInv'
  BY <1>0, <1>12, <1>14 DEF CountersInv
<1>16. TypeOK'
  <2>1. UNCHANGED <<incomingReliableSequenceNumber, incoming, acknowledgements, dispatched, delivered>>
    BY <1>0 DEF receiverVars
  <2>2. reliableDataInTransit' \in Nat
    BY <1>0, <1>3, <1>5, <1>14
  <2>3. outgoing' \in Seq(Command) /\ sent' \in Seq(Command)
    BY <1>5, <1>10 DEF Commands
  <2> QED
    BY <1>0, <2>1, <2>2, <2>3 DEF TypeOK
<1> QED
  BY <1>13, <1>15, <1>16 DEF ChannelInv

\* The connection is given up: there is nothing left to account for.
LEMMA GiveUpStep ==
    ASSUME ChannelInv, GiveUp
    PROVE  ChannelInv'
<1>1. /\ TypeOK /\ open' = FALSE /\ outgoing' = << >> /\ sent' = << >> /\ reliableDataInTransit' = 0
      /\ UNCHANGED <<counts, outgoingReliableSequenceNumber, tried, reliableWindows,
                     usedReliableWindows, net, receiverVars>>
  BY DEF GiveUp, ChannelInv
<1>2. UNCHANGED <<incomingReliableSequenceNumber, incoming, acknowledgements, dispatched, delivered>>
  BY <1>1 DEF receiverVars
<1>3. << >> \in Seq(Command)
  OBVIOUS
<1>4. TypeOK'
  BY <1>1, <1>2, <1>3 DEF TypeOK
<1> QED
  BY <1>1, <1>4 DEF ChannelInv

\* The first of some places of a list is one of them.
LEMMA FirstOfPlaces ==
    ASSUME NEW n \in Nat, NEW S \in SUBSET (1..n), S # {}
    PROVE  FirstOf(S) \in S
<1>1. S \in SUBSET Nat
  OBVIOUS
<1>2. \E i \in S : \A j \in S : i <= j
  BY <1>1, LeastNat
<1> QED
  BY <1>2 DEF FirstOf

\* An acknowledged command of the lists leaves its window.
LEMMA ReleaseStep ==
    ASSUME TypeOK, ListsInv, CountersInv, NEW c \in Unacked, PartOf(c) \in tried,
           Unacked' = Unacked \ {c}, tried' = tried, ReleaseWindow(c.seq)
    PROVE  /\ reliableWindows' \in [Window -> Nat] /\ usedReliableWindows' \subseteq Window
           /\ \A v \in Window : reliableWindows'[v] = Cardinality(Flying(Unacked', tried', v))
           /\ usedReliableWindows' = {v \in Window : reliableWindows'[v] > 0}
<1> DEFINE w == WindowOf(c.seq)
<1>0. /\ reliableWindows \in [Window -> Nat] /\ sent \in Seq(Command) /\ outgoing \in Seq(Command)
      /\ \A v \in Window : reliableWindows[v] = Cardinality(Flying(Unacked, tried, v))
      /\ usedReliableWindows = {v \in Window : reliableWindows[v] > 0}
  BY DEF TypeOK, CountersInv
<1>1. c \in Command
  BY <1>0, MembersType DEF Unacked
<1>2. w \in Window
  BY <1>1, SpaceFacts DEF Command
<1>3. Leaves(c, Unacked, tried, w)
  BY FlyingRemove
<1>4. IF reliableWindows[w] > 0
      THEN /\ reliableWindows' = [reliableWindows EXCEPT ![w] = @ - 1]
           /\ usedReliableWindows' = IF reliableWindows[w] = 1
                                     THEN usedReliableWindows \ {w}
                                     ELSE usedReliableWindows
      ELSE UNCHANGED <<reliableWindows, usedReliableWindows>>
  BY DEF ReleaseWindow
<1> HIDE DEF w
<1>5. /\ c \in Flying(Unacked, tried, w)
      /\ Flying(Unacked', tried', w) = Flying(Unacked, tried, w) \ {c}
      /\ \A v : v # w => Flying(Unacked', tried', v) = Flying(Unacked, tried, v)
  BY <1>3 DEF Leaves
<1>6. IsFiniteSet(Flying(Unacked, tried, w))
  BY InTransitFlying
<1>7. /\ Cardinality(Flying(Unacked', tried', w)) = Cardinality(Flying(Unacked, tried, w)) - 1
      /\ Cardinality(Flying(Unacked, tried, w)) # 0
  <2>1. Cardinality(Flying(Unacked, tried, w) \ {c}) = Cardinality(Flying(Unacked, tried, w)) - 1
    BY <1>5, <1>6, FS_RemoveElement
  <2>2. Cardinality(Flying(Unacked, tried, w)) # 0
    BY <1>5, <1>6, FS_EmptySet
  <2> QED
    BY <1>5, <2>1, <2>2
<1>8. reliableWindows[w] \in Nat /\ reliableWindows[w] > 0
  BY <1>0, <1>2, <1>7
<1>9. /\ reliableWindows' = [reliableWindows EXCEPT ![w] = @ - 1]
      /\ usedReliableWindows' = IF reliableWindows[w] = 1
                                THEN usedReliableWindows \ {w}
                                ELSE usedReliableWindows
  BY <1>4, <1>8
<1>10. /\ reliableWindows' \in [Window -> Nat]
       /\ reliableWindows'[w] = reliableWindows[w] - 1
       /\ \A v \in Window : v # w => reliableWindows'[v] = reliableWindows[v]
  BY <1>0, <1>2, <1>8, <1>9
<1>11. \A v \in Window : reliableWindows'[v] = Cardinality(Flying(Unacked', tried', v))
  <2>1. reliableWindows'[w] = Cardinality(Flying(Unacked', tried', w))
    BY <1>0, <1>2, <1>7, <1>10
  <2>2. ASSUME NEW v \in Window, v # w
        PROVE  reliableWindows'[v] = Cardinality(Flying(Unacked', tried', v))
    BY <1>0, <1>5, <1>10, <2>2
  <2> QED
    BY <2>1, <2>2
<1>12. usedReliableWindows' = {v \in Window : reliableWindows'[v] > 0}
  <2>1. CASE reliableWindows[w] = 1
    <3>1. usedReliableWindows' = {v \in Window : reliableWindows[v] > 0} \ {w}
      BY <1>0, <1>9, <2>1
    <3>2. reliableWindows'[w] = 0
      BY <1>10, <2>1
    <3> QED
      BY <1>2, <1>10, <3>1, <3>2
  <2>2. CASE reliableWindows[w] # 1
    <3>1. usedReliableWindows' = {v \in Window : reliableWindows[v] > 0}
      BY <1>0, <1>9, <2>2
    <3>2. reliableWindows'[w] > 0
      BY <1>8, <1>10, <2>2
    <3> QED
      BY <1>2, <1>8, <1>10, <3>1, <3>2
  <2> QED
    BY <2>1, <2>2
<1> QED
  BY <1>10, <1>11, <1>12

\* The lists without an acknowledged command.
LEMMA ListsWithout ==
    ASSUME ListsInv, UNCHANGED <<counts, tried>>, NEW c \in Unacked,
           Commands(sent'), Commands(outgoing'),
           \/ Members(sent') = Members(sent) \ {c} /\ Members(outgoing') = Members(outgoing)
           \/ Members(sent') = Members(sent) /\ Members(outgoing') = Members(outgoing) \ {c}
    PROVE  ListsInv'
<1>1. /\ Members(sent') \in SUBSET Members(sent) /\ Members(outgoing') \in SUBSET Members(outgoing)
      /\ Unacked' \in SUBSET Unacked
  BY DEF Unacked
<1>2. Apart(sent', outgoing')
  BY <1>1 DEF ListsInv, Apart
<1>3. \A d \in Members(sent') : PartOf(d) \in tried'
  BY <1>1 DEF ListsInv
<1>4. /\ \A d \in Unacked' : d.pkt <= Len(counts')
      /\ \A part \in tried' : part.pkt <= Len(counts')
  BY <1>1 DEF ListsInv
<1> QED
  BY <1>2, <1>3, <1>4 DEF ListsInv

\* handle_acknowledge takes the acknowledged command out of its list.
LEMMA AcknowledgeStep ==
    ASSUME ChannelInv, handle_acknowledge
    PROVE  ChannelInv'
<1>0. /\ TypeOK /\ open /\ ListsInv /\ CountersInv
      /\ outgoing \in Seq(Command) /\ sent \in Seq(Command)
      /\ Len(sent) \in Nat /\ DOMAIN sent = 1..Len(sent)
      /\ Len(outgoing) \in Nat /\ DOMAIN outgoing = 1..Len(outgoing)
      /\ Commands(sent) /\ Commands(outgoing) /\ Apart(sent, outgoing)
      /\ UNCHANGED <<open, counts, outgoingReliableSequenceNumber, tried, receiverVars>>
  BY DEF handle_acknowledge, ChannelInv, TypeOK, ListsInv
<1>1. PICK seq : remove_sent_reliable_command(seq)
  BY DEF handle_acknowledge
<1>2. net' \in SUBSET Datagram
  BY <1>0 DEF handle_acknowledge, TypeOK
<1>3. UNCHANGED <<incomingReliableSequenceNumber, incoming, acknowledgements, dispatched, delivered>>
  BY <1>0 DEF receiverVars
<1> DEFINE inSent == Acknowledged(sent, seq)
           inQueue == Acknowledged(outgoing, seq) \cap Requeued
           Typed == /\ sent' \in Seq(Command) /\ outgoing' \in Seq(Command)
                    /\ reliableWindows' \in [Window -> Nat] /\ usedReliableWindows' \subseteq Window
                    /\ reliableDataInTransit' \in Nat
<1>4. Typed => TypeOK'
  BY <1>0, <1>2, <1>3 DEF TypeOK
<1>5. CASE /\ inSent # {}
           /\ sent' = RemoveAt(sent, FirstOf(inSent))
           /\ reliableDataInTransit' = reliableDataInTransit - 1
           /\ ReleaseWindow(seq)
           /\ UNCHANGED outgoing
  <2> DEFINE p == FirstOf(inSent)
             c == sent[p]
  <2>1. p \in 1..Len(sent) /\ c.seq = seq
    <3>1. inSent \in SUBSET (1..Len(sent)) /\ \A i \in inSent : sent[i].seq = seq
      BY <1>0 DEF Acknowledged
    <3> HIDE DEF inSent
    <3>2. p \in inSent
      BY <1>0, <1>5, <3>1, FirstOfPlaces
    <3> QED
      BY <3>1, <3>2
  <2>2. sent' = RemoveAt(sent, p)
    BY <1>5
  <2> HIDE DEF p
  <2>3. /\ Commands(sent') /\ Len(sent') = Len(sent) - 1
        /\ Members(sent') = Members(sent) \ {c} /\ c \in Members(sent)
    BY <1>0, <2>1, <2>2, RemoveList
  <2>4. PartOf(c) \in tried /\ c \notin Members(outgoing) /\ c \in Unacked
    BY <1>0, <2>3 DEF ListsInv, Apart, Unacked
  <2>5. Unacked' = Unacked \ {c}
    BY <1>5, <2>3, <2>4 DEF Unacked
  <2>6. ListsInv'
    BY <1>0, <1>5, <2>3, <2>4, ListsWithout
  <2>7. ReleaseWindow(c.seq) /\ tried' = tried
    BY <1>0, <1>5, <2>1
  <2> HIDE DEF c
  <2>8. /\ reliableWindows' \in [Window -> Nat] /\ usedReliableWindows' \subseteq Window
        /\ \A v \in Window : reliableWindows'[v] = Cardinality(Flying(Unacked', tried', v))
        /\ usedReliableWindows' = {v \in Window : reliableWindows'[v] > 0}
    BY <1>0, <2>4, <2>5, <2>7, ReleaseStep
  <2>9. reliableDataInTransit' = Len(sent') /\ reliableDataInTransit' \in Nat
    <3>1. sent' \in Seq(Command)
      BY <2>3 DEF Commands
    <3>2. Len(sent') \in Nat
      BY <3>1
    <3> QED
      BY <1>0, <1>5, <2>3, <3>2 DEF CountersInv
  <2>10. CountersInv'
    BY <2>8, <2>9 DEF CountersInv
  <2>11. TypeOK'
    BY <1>0, <1>4, <1>5, <2>3, <2>8, <2>9 DEF Commands
  <2> QED
    BY <2>6, <2>10, <2>11 DEF ChannelInv
<1>6. CASE /\ inQueue # {}
           /\ outgoing' = RemoveAt(outgoing, FirstOf(inQueue))
           /\ ReleaseWindow(seq)
           /\ UNCHANGED <<sent, reliableDataInTransit>>
  <2> DEFINE p == FirstOf(inQueue)
             c == outgoing[p]
  <2>1. p \in 1..Len(outgoing) /\ c.seq = seq /\ PartOf(c) \in tried
    <3>1. /\ inQueue \in SUBSET (1..Len(outgoing))
          /\ \A i \in inQueue : outgoing[i].seq = seq /\ PartOf(outgoing[i]) \in tried
      BY <1>0 DEF Acknowledged, Requeued
    <3> HIDE DEF inQueue
    <3>2. p \in inQueue
      BY <1>0, <1>6, <3>1, FirstOfPlaces
    <3> QED
      BY <3>1, <3>2
  <2>2. outgoing' = RemoveAt(outgoing, p)
    BY <1>6
  <2> HIDE DEF p
  <2>3. /\ Commands(outgoing')
        /\ Members(outgoing') = Members(outgoing) \ {c} /\ c \in Members(outgoing)
    BY <1>0, <2>1, <2>2, RemoveList
  <2>4. c \notin Members(sent) /\ c \in Unacked
    BY <1>0, <2>3 DEF Apart, Unacked
  <2>5. Unacked' = Unacked \ {c}
    BY <1>6, <2>3, <2>4 DEF Unacked
  <2>6. ListsInv'
    BY <1>0, <1>6, <2>3, <2>4, ListsWithout
  <2>7. ReleaseWindow(c.seq) /\ tried' = tried /\ PartOf(c) \in tried
    BY <1>0, <1>6, <2>1
  <2> HIDE DEF c
  <2>8. /\ reliableWindows' \in [Window -> Nat] /\ usedReliableWindows' \subseteq Window
        /\ \A v \in Window : reliableWindows'[v] = Cardinality(Flying(Unacked', tried', v))
        /\ usedReliableWindows' = {v \in Window : reliableWindows'[v] > 0}
    BY <1>0, <2>4, <2>5, <2>7, ReleaseStep
  <2>9. CountersInv'
    BY <1>0, <1>6, <2>8 DEF CountersInv
  <2>10. TypeOK'
    BY <1>0, <1>4, <1>6, <2>3, <2>8 DEF Commands, TypeOK
  <2> QED
    BY <2>6, <2>9, <2>10 DEF ChannelInv
<1>7. CASE UNCHANGED <<outgoing, sent, reliableWindows, usedReliableWindows, reliableDataInTransit>>
  <2>1. UNCHANGED <<open, senderVars>>
    BY <1>0, <1>7 DEF senderVars
  <2>2. ListsInv' /\ CountersInv'
    BY <1>0, <2>1, SenderIdle
  <2>3. TypeOK'
    BY <1>0, <1>4, <1>7 DEF TypeOK
  <2> QED
    BY <2>2, <2>3 DEF ChannelInv
<1> QED
  BY <1>1, <1>5, <1>6, <1>7 DEF remove_sent_reliable_command

-----------------------------------------------------------------------------
(* The steps of the receiver and of the network. *)

\* The types of what the receiver of a command changes.
ReceivedType ==
    /\ incoming' \in Seq(Incoming) /\ dispatched' \in Seq(Incoming)
    /\ incomingReliableSequenceNumber' \in SeqNo

\* A command the receiver ignores changes nothing.
LEMMA IgnoredType == ASSUME TypeOK, Ignored PROVE ReceivedType
  BY DEF TypeOK, Ignored, ReceivedType

\* A new entry of the list.
LEMMA QueueType ==
    ASSUME TypeOK, NEW e \in Incoming, NEW cur \in SeqNo, queue_incoming_command(e, cur)
    PROVE  ReceivedType
<1> DEFINE i == InsertAfter(e.seq, cur)
           list == InsertAt(incoming, i + 1, e)
<1>1. i \in 0..Len(incoming) /\ incoming \in Seq(Incoming)
  BY InsertAfterType DEF TypeOK
<1>2. Dispatch(list, cur)
  BY DEF queue_incoming_command
<1> HIDE DEF i
<1>3. list \in Seq(Incoming)
  BY <1>1, InsertType
<1> HIDE DEF list
<1> QED
  BY <1>2, <1>3, DispatchType DEF ReceivedType

\* Parts of commands.
LEMMA PartType ==
    ASSUME NEW c \in Command
    PROVE  /\ PartOf(c) \in Part /\ {PartOf(c)} \in SUBSET Part
           /\ c.seq \in SeqNo /\ c.count \in Counts /\ c.number \in Nat
  BY ChannelAssumption DEF Command, Part, PartOf, Numbers

\* handle_send_reliable.
LEMMA SendReliableType ==
    ASSUME TypeOK, NEW c \in Command, NEW cur \in SeqNo, handle_send_reliable(c, cur)
    PROVE  ReceivedType
<1> DEFINE e == [seq |-> c.seq, count |-> 0, parts |-> {PartOf(c)}]
<1>1. e \in Incoming
  BY PartType DEF Incoming, Counts
<1>2. Ignored \/ queue_incoming_command(e, cur)
  BY DEF handle_send_reliable
<1> HIDE DEF e
<1> QED
  BY <1>1, <1>2, IgnoredType, QueueType

\* handle_send_fragment.
LEMMA SendFragmentType ==
    ASSUME TypeOK, NEW c \in Command, NEW cur \in SeqNo, handle_send_fragment(c, cur)
    PROVE  ReceivedType
<1> DEFINE start == StartOf(c)
           at == Listed(start, cur)
           e == [seq |-> start, count |-> c.count, parts |-> {PartOf(c)}]
           list == [incoming EXCEPT ![at].parts = @ \cup {PartOf(c)}]
<1>0. incoming \in Seq(Incoming) /\ Len(incoming) \in Nat /\ DOMAIN incoming = 1..Len(incoming)
  BY DEF TypeOK
<1>1. start \in SeqNo
  <2>1. c.seq \in Nat /\ c.seq \in SeqNo /\ c.number \in Numbers
    BY PartType, SpaceFacts DEF Command
  <2>2. c.seq + SeqSpace - c.number \in Int
    BY <2>1, SpaceFacts, ChannelAssumption DEF Numbers
  <2>3. \A n \in Int : n % SeqSpace \in SeqNo
    <3>1. SeqSpace \in Nat \ {0}
      BY SpaceFacts
    <3> QED
      BY <3>1 DEF SeqNo
  <2> QED
    BY <2>2, <2>3 DEF StartOf
<1>2. e \in Incoming
  BY <1>1, PartType DEF Incoming
<1>3. at \in 0..Len(incoming)
  BY <1>0, InsertAfterType DEF Listed
<1>4. \/ Ignored
      \/ at > 0 /\ Dispatch(list, cur)
      \/ queue_incoming_command(e, cur)
  BY DEF handle_send_fragment
<1> HIDE DEF e, at, start
<1>5. ASSUME at > 0 PROVE list \in Seq(Incoming)
  <2>1. at \in 1..Len(incoming) /\ incoming[at] \in Incoming
    BY <1>0, <1>3, <1>5
  <2> DEFINE f == [incoming[at] EXCEPT !.parts = incoming[at].parts \cup {PartOf(c)}]
  <2>2. f \in Incoming
    BY <2>1, PartType DEF Incoming
  <2>3. list = [incoming EXCEPT ![at] = f]
    OBVIOUS
  <2> HIDE DEF f
  <2>4. incoming \in [1..Len(incoming) -> Incoming]
    BY <1>0
  <2>5. list \in [1..Len(incoming) -> Incoming]
    BY <2>2, <2>3, <2>4
  <2> HIDE DEF list
  <2> QED
    BY <1>0, <2>5
<1> HIDE DEF list
<1> QED
  BY <1>2, <1>4, <1>5, IgnoredType, QueueType, DispatchType DEF ReceivedType

\* A data command reaches the receiver.
LEMMA IncomingStep ==
    ASSUME TypeOK, handle_incoming_command
    PROVE  TypeOK'
<1>0. /\ net \in SUBSET Datagram /\ acknowledgements \in Seq(Command)
      /\ incomingReliableSequenceNumber \in SeqNo
  BY DEF TypeOK
<1>1. PICK d \in net :
          /\ \/ handle_send_reliable(d.cmd, incomingReliableSequenceNumber)
             \/ handle_send_fragment(d.cmd, incomingReliableSequenceNumber)
          /\ acknowledgements' =
                IF AckSuppressed(d.cmd.seq, incomingReliableSequenceNumber')
                THEN acknowledgements
                ELSE Append(acknowledgements, d.cmd)
          /\ net' \in {net, net \ {d}}
          /\ UNCHANGED <<open, senderVars, delivered>>
  BY DEF handle_incoming_command
<1>2. d.cmd \in Command
  BY <1>0 DEF Datagram
<1>3. ReceivedType
  BY <1>0, <1>1, <1>2, SendReliableType, SendFragmentType
<1>4. acknowledgements' \in Seq(Command)
  BY <1>0, <1>1, <1>2
<1>5. net' \subseteq Datagram
  BY <1>0, <1>1
<1>6. /\ UNCHANGED <<open, counts, outgoingReliableSequenceNumber, outgoing, sent, tried>>
      /\ UNCHANGED <<reliableWindows, usedReliableWindows, reliableDataInTransit, delivered>>
  BY <1>1 DEF senderVars
<1> QED
  BY <1>3, <1>4, <1>5, <1>6 DEF TypeOK, ReceivedType

\* enet_peer_receive returns a packet.
LEMMA ReceiveStep ==
    ASSUME TypeOK, enet_peer_receive
    PROVE  TypeOK'
<1> DEFINE e == Head(dispatched)
<1>1. /\ dispatched \in Seq(Incoming) /\ dispatched # << >> /\ delivered \in Seq(Packets \cup {0})
      /\ delivered' = Append(delivered, Content(e)) /\ dispatched' = Tail(dispatched)
      /\ UNCHANGED <<open, senderVars, net, incomingReliableSequenceNumber, incoming,
                     acknowledgements>>
  BY DEF enet_peer_receive, TypeOK
<1>2. e \in Incoming /\ dispatched' \in Seq(Incoming)
  BY <1>1
<1> HIDE DEF e
<1>3. Content(e) \in Packets \cup {0}
  <2>1. e.parts \in SUBSET Part /\ e.count \in Counts
    BY <1>2 DEF Incoming
  <2>2. ASSUME NEW p \in Packets,
               e.parts = {[pkt |-> p, number |-> k] : k \in 0..(Length(e.count) - 1)}
        PROVE  (CHOOSE q \in e.parts : TRUE).pkt \in Packets
    <3>1. 0 \in 0..(Length(e.count) - 1)
      BY <2>1, CountFacts
    <3>2. [pkt |-> p, number |-> 0] \in e.parts
      BY <2>2, <3>1
    <3>3. (CHOOSE q \in e.parts : TRUE) \in e.parts
      BY <3>2
    <3> QED
      BY <2>1, <3>3 DEF Part
  <2> QED
    BY <2>2 DEF Content
<1>4. delivered' \in Seq(Packets \cup {0})
  BY <1>1, <1>3
<1>5. /\ UNCHANGED <<counts, outgoingReliableSequenceNumber, outgoing, sent, tried>>
      /\ UNCHANGED <<reliableWindows, usedReliableWindows, reliableDataInTransit>>
  BY <1>1 DEF senderVars
<1> QED
  BY <1>1, <1>2, <1>4, <1>5 DEF TypeOK

\* send_acknowledgements and Lose change what travels.
LEMMA NetworkStep ==
    ASSUME TypeOK, send_acknowledgements \/ Lose
    PROVE  TypeOK'
<1>0. net \in SUBSET Datagram /\ acknowledgements \in Seq(Command)
  BY DEF TypeOK
<1>1. CASE send_acknowledgements
  <2> DEFINE c == Head(acknowledgements)
  <2>1. /\ acknowledgements # << >> /\ acknowledgements' = Tail(acknowledgements)
        /\ net' = net \cup IF Fresh(c, tried) THEN {[type |-> "ack", cmd |-> c]} ELSE {}
        /\ UNCHANGED <<open, senderVars, incomingReliableSequenceNumber, incoming,
                       dispatched, delivered>>
    BY <1>1 DEF send_acknowledgements
  <2>2. c \in Command /\ acknowledgements' \in Seq(Command)
    BY <1>0, <2>1
  <2> HIDE DEF c
  <2>3. [type |-> "ack", cmd |-> c] \in Datagram
    BY <2>2 DEF Datagram
  <2>4. net' \subseteq Datagram
    BY <1>0, <2>1, <2>3
  <2>5. /\ UNCHANGED <<counts, outgoingReliableSequenceNumber, outgoing, sent, tried>>
        /\ UNCHANGED <<reliableWindows, usedReliableWindows, reliableDataInTransit>>
    BY <2>1 DEF senderVars
  <2> QED
    BY <2>1, <2>2, <2>4, <2>5 DEF TypeOK
<1>2. CASE Lose
  <2>1. net' \subseteq Datagram /\ UNCHANGED <<open, senderVars, receiverVars>>
    BY <1>0, <1>2 DEF Lose
  <2>2. /\ UNCHANGED <<counts, outgoingReliableSequenceNumber, outgoing, sent, tried>>
        /\ UNCHANGED <<reliableWindows, usedReliableWindows, reliableDataInTransit>>
        /\ UNCHANGED <<incomingReliableSequenceNumber, incoming, acknowledgements, dispatched, delivered>>
    BY <2>1 DEF senderVars, receiverVars
  <2> QED
    BY <2>1, <2>2 DEF TypeOK
<1> QED
  BY <1>1, <1>2

-----------------------------------------------------------------------------
(* The theorem. *)

\* Every step keeps the invariant.
LEMMA NextInv ==
    ASSUME ChannelInv, [Next]_vars
    PROVE  ChannelInv'
<1>0. TypeOK /\ (open => ListsInv /\ CountersInv)
  BY DEF ChannelInv
<1>1. CASE enet_peer_send
  BY <1>1, SendStep
<1>2. CASE SendReliable
  BY <1>2, TransmitStep
<1>3. CASE check_timeouts
  BY <1>3, TimeoutStep
<1>4. CASE GiveUp
  BY <1>4, GiveUpStep
<1>5. CASE handle_acknowledge
  BY <1>5, AcknowledgeStep
<1>6. ASSUME TypeOK', UNCHANGED <<open, senderVars>> PROVE ChannelInv'
  <2>1. open' = open
    BY <1>6
  <2>2. CASE open
    <3>1. ListsInv' /\ CountersInv'
      BY <1>0, <1>6, <2>2, SenderIdle
    <3> QED
      BY <1>6, <3>1 DEF ChannelInv
  <2>3. CASE ~open
    BY <1>6, <2>1, <2>3 DEF ChannelInv
  <2> QED
    BY <2>2, <2>3
<1>7. CASE handle_incoming_command
  <2>1. UNCHANGED <<open, senderVars>>
    BY <1>7 DEF handle_incoming_command
  <2> QED
    BY <1>0, <1>6, <1>7, <2>1, IncomingStep
<1>8. CASE send_acknowledgements
  <2>1. UNCHANGED <<open, senderVars>>
    BY <1>8 DEF send_acknowledgements
  <2> QED
    BY <1>0, <1>6, <1>8, <2>1, NetworkStep
<1>9. CASE enet_peer_receive
  <2>1. UNCHANGED <<open, senderVars>>
    BY <1>9 DEF enet_peer_receive
  <2> QED
    BY <1>0, <1>6, <1>9, <2>1, ReceiveStep
<1>10. CASE Lose
  <2>1. UNCHANGED <<open, senderVars>>
    BY <1>10 DEF Lose
  <2> QED
    BY <1>0, <1>6, <1>10, <2>1, NetworkStep
<1>11. CASE UNCHANGED vars
  <2>1. UNCHANGED <<open, senderVars>>
    BY <1>11 DEF vars
  <2>2. /\ UNCHANGED <<counts, outgoingReliableSequenceNumber, outgoing, sent, tried>>
        /\ UNCHANGED <<reliableWindows, usedReliableWindows, reliableDataInTransit, net>>
        /\ UNCHANGED <<incomingReliableSequenceNumber, incoming, acknowledgements, dispatched, delivered>>
    BY <1>11 DEF vars, senderVars, receiverVars
  <2>3. TypeOK'
    BY <1>0, <2>1, <2>2 DEF TypeOK
  <2> QED
    BY <1>6, <2>1, <2>3
<1> QED
  BY <1>1, <1>2, <1>3, <1>4, <1>5, <1>7, <1>8, <1>9, <1>10, <1>11 DEF Next

\* The inductive invariant: types, each part in one place of the sender's lists, and
\* counters that agree with them.
THEOREM ChannelInvariant == Spec => []ChannelInv
<1>1. ChannelInv /\ [Next]_vars => ChannelInv'
  BY NextInv
<1> QED
  BY InitInv, <1>1, PTL DEF Spec

\* The sender's window counters agree with its lists (reliableWindows and
\* usedReliableWindows of enet_protocol_send_reliable_outgoing_commands and
\* enet_protocol_remove_sent_reliable_command): no window stays counted, or marked in
\* use, for a command that was acknowledged, however often it was sent.
THEOREM ChannelWindowAccounting == Spec => []WindowAccounting
<1>1. ChannelInv => WindowAccounting
  BY AccountingFollows
<1> QED
  BY ChannelInvariant, <1>1, PTL

=============================================================================
