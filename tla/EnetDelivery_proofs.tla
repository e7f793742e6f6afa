------------------------ MODULE EnetDelivery_proofs ------------------------
(***************************************************************************)
(* Proofs about both ends of a reliable channel, for sequence spaces,      *)
(* windows and packets of every size: no acknowledgement loses a command,  *)
(* and the channel implements ReliableChannel.  The commands get absolute  *)
(* numbers, which do not wrap; the invariant says how far apart the two    *)
(* ends and the datagrams between them can be, so that each number that    *)
(* did wrap stands for one of them.                                        *)
(***************************************************************************)
EXTENDS EnetChannel_proofs

-----------------------------------------------------------------------------
(* Arithmetic of absolute numbers. *)

\* Quotient and remainder of a number.
LEMMA DivFacts ==
    ASSUME NEW n \in Nat, NEW d \in Nat \ {0}
    PROVE  /\ n \div d \in Nat /\ n % d \in Nat /\ n % d < d
           /\ n = d * (n \div d) + (n % d)
<1> DEFINE q == n \div d
           r == n % d
<1>1. d \in Int /\ d > 0 /\ n \in Int
  OBVIOUS
<1>2. q \in Int /\ r \in 0..(d - 1) /\ n = d * q + r
  BY <1>1
<1> HIDE DEF q, r
<1>3. q \in Nat
  BY <1>1, <1>2
<1>4. r \in Nat /\ r < d /\ n = d * q + r
  BY <1>1, <1>2
<1> QED
  BY <1>3, <1>4, Zenon DEF q, r

\* They are the only ones.
LEMMA DivUnique ==
    ASSUME NEW q \in Nat, NEW r \in Nat, NEW d \in Nat \ {0}, r < d, NEW n \in Nat, n = d * q + r
    PROVE  n \div d = q /\ n % d = r
<1> DEFINE p == n \div d
           s == n % d
<1>1. p \in Nat /\ s \in Nat /\ s < d /\ n = d * p + s
  BY DivFacts
<1> HIDE DEF p, s
<1>2. ASSUME p < q PROVE FALSE
  <2>1. p + 1 <= q /\ p + 1 \in Nat
    BY <1>1, <1>2
  <2>2. (p + 1) * d <= q * d
    BY <2>1, Products
  <2>3. (p + 1) * d = d * p + d /\ q * d = d * q
    BY <1>1
  <2> QED
    BY <1>1, <2>2, <2>3
<1>3. ASSUME q < p PROVE FALSE
  <2>1. q + 1 <= p /\ q + 1 \in Nat
    BY <1>1, <1>3
  <2>2. (q + 1) * d <= p * d
    BY <1>1, <2>1, Products
  <2>3. (q + 1) * d = d * q + d /\ p * d = d * p
    BY <1>1
  <2> QED
    BY <1>1, <2>2, <2>3
<1>4. p = q
  BY <1>1, <1>2, <1>3
<1>5. s = r
  BY <1>1, <1>4
<1> QED
  BY <1>4, <1>5 DEF p, s

\* Two numbers less than d apart are on the same turn or on successive ones.
Turned(x, y, d) ==
    \/ y \div d = x \div d /\ x % d < y % d
    \/ y \div d = x \div d + 1 /\ y % d < x % d
LEMMA Turns ==
    ASSUME NEW x \in Nat, NEW y \in Nat, NEW d \in Nat \ {0}, x < y, y < x + d
    PROVE  Turned(x, y, d) /\ x % d # y % d
<1> DEFINE q == x \div d
           r == x % d
<1>1. q \in Nat /\ r \in Nat /\ r < d /\ x = d * q + r
  BY DivFacts
<1> HIDE DEF q, r
<1> DEFINE k == r + (y - x)
<1>2. k \in Nat /\ r < k /\ k < r + d /\ y = d * q + k
  BY <1>1
<1> HIDE DEF k
<1>3. CASE k < d
  <2>1. y \div d = q /\ y % d = k
    BY <1>1, <1>2, <1>3, DivUnique
  <2> QED
    BY <1>1, <1>2, <2>1 DEF Turned, q, r
<1>4. CASE d <= k
  <2> DEFINE j == k - d
             p == q + 1
  <2>1. j \in Nat /\ j < r /\ j < d /\ p \in Nat
    BY <1>1, <1>2, <1>4
  <2>2. d * (q + 1) = d * q + d
    BY <1>1
  <2>3. y = d * p + j
    BY <1>1, <1>2, <2>1, <2>2
  <2> HIDE DEF j, p
  <2>4. y \div d = p /\ y % d = j
    BY <2>1, <2>3, DivUnique
  <2>5. y \div d = p /\ y % d < r /\ r # y % d
    BY <1>1, <2>1, <2>4
  <2> QED
    BY <2>5, Zenon DEF Turned, p, q, r
<1> QED
  BY <1>1, <1>2, <1>3, <1>4

\* The window of an absolute number.
Win(x) == x \div WINDOW_SIZE

\* A window is an interval of numbers.
LEMMA WinFacts ==
    /\ WINDOW_SIZE \in Nat \ {0}
    /\ \A x \in Nat : /\ Win(x) \in Nat /\ WINDOW_SIZE * Win(x) <= x
                      /\ x < WINDOW_SIZE * Win(x) + WINDOW_SIZE
<1>1. WINDOW_SIZE \in Nat \ {0}
  BY ChannelAssumption
<1>2. ASSUME NEW x \in Nat
      PROVE  /\ Win(x) \in Nat /\ WINDOW_SIZE * Win(x) <= x
             /\ x < WINDOW_SIZE * Win(x) + WINDOW_SIZE
  <2> DEFINE w == x \div WINDOW_SIZE
             r == x % WINDOW_SIZE
  <2>1. w \in Nat /\ r \in Nat /\ r < WINDOW_SIZE /\ x = WINDOW_SIZE * w + r
    BY <1>1, DivFacts
  <2>2. WINDOW_SIZE * w \in Nat
    BY <1>1, <2>1
  <2> HIDE DEF w, r
  <2>3. WINDOW_SIZE * w <= x /\ x < WINDOW_SIZE * w + WINDOW_SIZE
    BY <1>1, <2>1, <2>2
  <2> QED
    BY <2>1, <2>3 DEF Win, w
<1> QED
  BY <1>1, <1>2

\* A number of the first k windows after the window of x is in one of them.
LEMMA WinSpan ==
    ASSUME NEW x \in Nat, NEW y \in Nat, NEW k \in Nat, y <= x + k * WINDOW_SIZE
    PROVE  Win(y) <= Win(x) + k
<1> DEFINE a == Win(x)
           b == Win(y)
           s == WINDOW_SIZE
<1>1. /\ s \in Nat \ {0} /\ a \in Nat /\ b \in Nat
      /\ x < s * a + s /\ s * b <= y /\ y <= x + k * s
  BY WinFacts
<1> HIDE DEF a, b, s
<1>2. ASSUME a + k + 1 <= b PROVE FALSE
  <2>1. (a + k + 1) * s <= b * s
    BY <1>1, <1>2, Products
  <2>2. (a + k + 1) * s = s * a + k * s + s /\ b * s = s * b
    BY <1>1
  <2>3. s * a \in Nat /\ k * s \in Nat
    BY <1>1
  <2> QED
    BY <1>1, <2>1, <2>2, <2>3
<1>3. b <= a + k
  BY <1>1, <1>2
<1> QED
  BY <1>3 DEF a, b

\* Windows are in the order of their numbers.
LEMMA WinOrder ==
    ASSUME NEW x \in Nat, NEW y \in Nat
    PROVE  /\ x <= y => Win(x) <= Win(y)
           /\ Win(x) < Win(y) => x < y
<1>0. 0 * WINDOW_SIZE = 0 /\ Win(x) \in Nat /\ Win(y) \in Nat
  BY WinFacts
<1>1. x <= y => Win(x) <= Win(y)
  BY <1>0, WinSpan
<1>2. y <= x => Win(y) <= Win(x)
  BY <1>0, WinSpan
<1> QED
  BY <1>0, <1>1, <1>2

\* Numbers of k + 1 successive windows are less than k + 1 windows apart.
LEMMA WinNear ==
    ASSUME NEW x \in Nat, NEW y \in Nat, NEW k \in Nat, Win(y) <= Win(x) + k
    PROVE  y < x + (k + 1) * WINDOW_SIZE
<1> DEFINE a == Win(x)
           b == Win(y)
           s == WINDOW_SIZE
<1>1. /\ s \in Nat \ {0} /\ a \in Nat /\ b \in Nat /\ b <= a + k
      /\ s * a <= x /\ y < s * b + s
  BY WinFacts
<1> HIDE DEF a, b, s
<1>2. b * s <= (a + k) * s
  BY <1>1, Products
<1>3. b * s = s * b /\ (a + k) * s = s * a + k * s /\ (k + 1) * s = k * s + s
  BY <1>1
<1>4. s * a \in Nat /\ s * b \in Nat /\ k * s \in Nat
  BY <1>1
<1>5. y < x + (k * s + s)
  BY <1>1, <1>2, <1>3, <1>4
<1> QED
  BY <1>3, <1>5 DEF s

\* The window of a sequence number, and the turn of the sequence space it is of.
LEMMA SeqWindow ==
    ASSUME NEW x \in Nat
    PROVE  /\ x % SeqSpace \in Nat /\ WindowOf(x % SeqSpace) \in Nat
           /\ WindowOf(x % SeqSpace) < WINDOWS
           /\ Win(x) = WINDOWS * (x \div SeqSpace) + WindowOf(x % SeqSpace)
           /\ Win(x) % WINDOWS = WindowOf(x % SeqSpace)
           /\ (x % SeqSpace) % WINDOW_SIZE = x % WINDOW_SIZE
<1> DEFINE q == x \div SeqSpace
           r == x % SeqSpace
           a == r \div WINDOW_SIZE
           b == r % WINDOW_SIZE
           s == WINDOW_SIZE
           w == WINDOWS
<1>1. s \in Nat \ {0} /\ w \in Nat \ {0} /\ SeqSpace \in Nat \ {0} /\ SeqSpace = w * s
  BY SpaceFacts, ChannelAssumption DEF SeqSpace
<1>2. q \in Nat /\ r \in Nat /\ r < SeqSpace /\ x = SeqSpace * q + r
  BY <1>1, DivFacts
<1>3. r \in SeqNo /\ a = WindowOf(r)
  BY <1>1, <1>2 DEF SeqNo, WindowOf
<1>4. a \in Nat /\ a < w
  BY <1>3, SpaceFacts, <1>1 DEF Window
<1> HIDE DEF q, r
<1>5. b \in Nat /\ b < s /\ r = s * a + b
  BY <1>1, <1>2, DivFacts
<1> HIDE DEF a, b, s, w
<1> DEFINE v == w * q + a
<1>6. v \in Nat /\ x = s * v + b
  <2>1. s * (w * q + a) = (w * s) * q + s * a
    BY <1>1, <1>2, <1>4
  <2> QED
    BY <1>1, <1>2, <1>4, <1>5, <2>1
<1> HIDE DEF v
<1>7. x \div s = v /\ x % s = b
  BY <1>1, <1>5, <1>6, DivUnique
<1>8. v \div w = q /\ v % w = a
  BY <1>1, <1>2, <1>4, <1>6, DivUnique DEF v
<1>9. Win(x) = v
  BY <1>7, Zenon DEF Win, s
<1>10. Win(x) = WINDOWS * q + WindowOf(r)
  BY <1>3, <1>9, Zenon DEF v, w, a
<1>11. Win(x) % WINDOWS = WindowOf(r)
  BY <1>3, <1>8, <1>9, Zenon DEF w
<1>12. r % WINDOW_SIZE = x % WINDOW_SIZE
  BY <1>7, Zenon DEF b, s
<1>13. WindowOf(r) \in Nat /\ WindowOf(r) < WINDOWS
  BY <1>3, <1>4, Zenon DEF w
<1> QED
  BY <1>2, <1>10, <1>11, <1>12, <1>13, Zenon DEF q, r

\* A number after the receiver's, less than a turn of the sequence space ahead.
Ahead(r, p) == r \in Nat /\ p \in Nat /\ r < p /\ p < r + SeqSpace

\* Turns of the sequence space between two such numbers.
LEMMA AheadTurn ==
    ASSUME NEW r, NEW p, Ahead(r, p)
    PROVE  /\ Turned(r, p, SeqSpace)
           /\ r % SeqSpace # p % SeqSpace
           /\ r % SeqSpace \in Nat /\ p % SeqSpace \in Nat
           /\ r \div SeqSpace \in Nat /\ p \div SeqSpace \in Nat
<1>1. SeqSpace \in Nat \ {0} /\ r \in Nat /\ p \in Nat /\ r < p /\ p < r + SeqSpace
  BY SpaceFacts DEF Ahead
<1> QED
  BY <1>1, Turns, DivFacts

\* How far the windows of two numbers are apart on the receiver's reckoning.
LEMMA Reckoned ==
    ASSUME NEW r, NEW p, Ahead(r, p)
    PROVE  /\ RelativeWindow(p % SeqSpace, r % SeqSpace)
                = WindowOf(r % SeqSpace) + (Win(p) - Win(r))
           /\ RelativeWindow(r % SeqSpace, p % SeqSpace)
                = WindowOf(p % SeqSpace) + (Win(r) + WINDOWS - Win(p))
<1> DEFINE a == r \div SeqSpace
           b == p \div SeqSpace
           x == r % SeqSpace
           y == p % SeqSpace
           w == WINDOWS
<1>1. /\ x \in Nat /\ y \in Nat /\ a \in Nat /\ b \in Nat /\ w \in Nat
      /\ \/ b = a /\ x < y
         \/ b = a + 1 /\ y < x
  BY AheadTurn, SpaceFacts DEF Turned
<1>2. /\ WindowOf(x) \in Nat /\ Win(r) = w * a + WindowOf(x)
      /\ WindowOf(y) \in Nat /\ Win(p) = w * b + WindowOf(y)
  BY SeqWindow DEF Ahead
<1>t. /\ WindowOf(x) \in Nat /\ WindowOf(y) \in Nat /\ w \in Nat
      /\ Win(p) \in Nat /\ Win(r) \in Nat
  BY <1>1, <1>2, WinFacts DEF Ahead
<1>3. /\ RelativeWindow(y, x) = WindowOf(y) + IF y < x THEN w ELSE 0
      /\ RelativeWindow(x, y) = WindowOf(x) + IF x < y THEN w ELSE 0
  BY DEF RelativeWindow
<1> HIDE DEF a, b, x, y, w
<1>4. w * a \in Nat /\ w * b \in Nat /\ w * (a + 1) = w * a + w
  BY <1>1
<1>5. CASE b = a /\ x < y
  <2>1. Win(p) - Win(r) = WindowOf(y) - WindowOf(x)
    BY <1>2, <1>4, <1>5
  <2>2. RelativeWindow(y, x) = WindowOf(y) /\ RelativeWindow(x, y) = WindowOf(x) + w
    BY <1>1, <1>2, <1>3, <1>5
  <2>3. /\ RelativeWindow(y, x) = WindowOf(x) + (Win(p) - Win(r))
        /\ RelativeWindow(x, y) = WindowOf(y) + (Win(r) + w - Win(p))
    BY <1>t, <2>1, <2>2
  <2> QED
    BY <2>3, Zenon DEF x, y, w
<1>6. CASE b = a + 1 /\ y < x
  <2>1. Win(p) - Win(r) = WindowOf(y) + w - WindowOf(x)
    BY <1>1, <1>2, <1>4, <1>6
  <2>2. RelativeWindow(y, x) = WindowOf(y) + w /\ RelativeWindow(x, y) = WindowOf(x)
    BY <1>1, <1>2, <1>3, <1>6
  <2>3. RelativeWindow(y, x) = WindowOf(x) + (Win(p) - Win(r))
    BY <1>t, <2>1, <2>2
  <2>4. RelativeWindow(x, y) = WindowOf(y) + (Win(r) + w - Win(p))
    <3>1. WindowOf(x) = WindowOf(y) + (Win(r) + w - Win(p))
      BY <1>t, <2>1
    <3> QED
      BY <2>2, <3>1
  <2> QED
    BY <2>3, <2>4, Zenon DEF x, y, w
<1> QED
  BY <1>1, <1>5, <1>6

\* What the receiver takes, and does not acknowledge, of the numbers after its own.
LEMMA LooksAhead ==
    ASSUME NEW r, NEW p, Ahead(r, p)
    PROVE  /\ InReceiveWindow(p % SeqSpace, r % SeqSpace) <=> Win(p) <= Win(r) + FREE_WINDOWS - 2
           /\ AckSuppressed(p % SeqSpace, r % SeqSpace)
                 <=> Win(p) - Win(r) \in (FREE_WINDOWS - 1)..FREE_WINDOWS
<1> DEFINE c == WindowOf(r % SeqSpace)
           v == RelativeWindow(p % SeqSpace, r % SeqSpace)
<1>1. v = c + (Win(p) - Win(r))
  BY Reckoned
<1>2. r \in Nat /\ p \in Nat /\ r <= p
  BY DEF Ahead
<1>4. Win(r) <= Win(p)
  BY <1>2, WinOrder
<1>5. c \in Nat /\ Win(p) \in Nat /\ Win(r) \in Nat /\ FREE_WINDOWS \in Nat
  BY <1>2, SeqWindow, WinFacts, SpaceFacts
<1>3. /\ InReceiveWindow(p % SeqSpace, r % SeqSpace) <=> v >= c /\ v < c + FREE_WINDOWS - 1
      /\ AckSuppressed(p % SeqSpace, r % SeqSpace)
           <=> v >= c + FREE_WINDOWS - 1 /\ v <= c + FREE_WINDOWS
  BY DEF InReceiveWindow, AckSuppressed
<1> HIDE DEF c, v
<1> QED
  BY <1>1, <1>3, <1>4, <1>5

\* Numbers before the receiver's own are outside unless they are almost a turn old.
LEMMA LooksBehind ==
    ASSUME NEW r, NEW p, Ahead(p, r), Win(p) >= Win(r) - WINDOWS + FREE_WINDOWS - 1
    PROVE  ~InReceiveWindow(p % SeqSpace, r % SeqSpace)
<1> DEFINE c == WindowOf(r % SeqSpace)
           v == RelativeWindow(p % SeqSpace, r % SeqSpace)
<1>1. v = c + (Win(p) + WINDOWS - Win(r))
  BY Reckoned
<1>2. c \in Nat /\ Win(p) \in Nat /\ Win(r) \in Nat /\ FREE_WINDOWS \in Nat /\ WINDOWS \in Nat
  BY SeqWindow, WinFacts, SpaceFacts DEF Ahead
<1>3. InReceiveWindow(p % SeqSpace, r % SeqSpace) => v < c + FREE_WINDOWS - 1
  BY DEF InReceiveWindow
<1> HIDE DEF c, v
<1> QED
  BY <1>1, <1>2, <1>3

\* Numbers less than a turn apart are the same when their sequence numbers are.
LEMMA SameNumber ==
    ASSUME NEW x \in Nat, NEW y \in Nat, x < y + SeqSpace, y < x + SeqSpace,
           x % SeqSpace = y % SeqSpace
    PROVE  x = y
<1>1. ~Ahead(x, y) /\ ~Ahead(y, x)
  BY AheadTurn
<1> QED
  BY <1>1, SpaceFacts DEF Ahead

\* The order the receiver's list is searched in is that of the absolute numbers.
LEMMA SearchOrder ==
    ASSUME NEW r, NEW a, NEW b, Ahead(r, a), Ahead(r, b), NEW e, e.seq = a % SeqSpace
    PROVE  /\ StopsAt(e, b % SeqSpace, r % SeqSpace) <=> a <= b
           /\ e.seq = b % SeqSpace <=> a = b
<1> DEFINE n == SeqSpace
           x == a % n
           y == b % n
           z == r % n
<1>1. /\ x \in Nat /\ y \in Nat /\ z \in Nat /\ a \in Nat /\ b \in Nat /\ r \in Nat
      /\ a < r + n /\ b < r + n /\ r < a /\ r < b /\ n \in Nat
      /\ \/ a \div n = r \div n /\ z < x
         \/ a \div n = r \div n + 1 /\ x < z
      /\ \/ b \div n = r \div n /\ z < y
         \/ b \div n = r \div n + 1 /\ y < z
      /\ r \div n \in Nat
  BY AheadTurn, SpaceFacts DEF Ahead, Turned
<1>2. a = n * (a \div n) + x /\ b = n * (b \div n) + y /\ x < n /\ y < n
  BY SpaceFacts, DivFacts DEF Ahead
<1>3. StopsAt(e, y, z) <=> IF SameTurn(x, y, z) THEN x <= y ELSE y < z
  BY DEF StopsAt
<1>4. SameTurn(x, y, z) <=> (x >= z <=> y >= z)
  BY DEF SameTurn
<1>5. a = b => x = y
  OBVIOUS
<1>6. x = y => a = b
  BY <1>1, SameNumber
<1> DEFINE q == r \div n
           i == a \div n
           j == b \div n
<1>7. n * (q + 1) = n * q + n /\ n * q \in Nat /\ q \in Nat
  BY <1>1
<1> HIDE DEF x, y, z, q, i, j, n
<1>8. /\ \/ i = q /\ z < x
         \/ i = q + 1 /\ x < z
      /\ \/ j = q /\ z < y
         \/ j = q + 1 /\ y < z
      /\ a = n * i + x /\ b = n * j + y /\ x < n /\ y < n
  BY <1>1, <1>2, Zenon DEF i, j, q
<1>9. i = j => (a <= b <=> x <= y)
  BY <1>1, <1>7, <1>8
<1>10. i = q /\ j = q + 1 => a <= b
  BY <1>1, <1>7, <1>8
<1>11. i = q + 1 /\ j = q => ~(a <= b)
  BY <1>1, <1>7, <1>8
<1>12. StopsAt(e, y, z) <=> a <= b
  BY <1>1, <1>3, <1>4, <1>7, <1>8, <1>9, <1>10, <1>11
<1>13. e.seq = y <=> a = b
  BY <1>5, <1>6, Zenon DEF x, n
<1> QED
  BY <1>12, <1>13, Zenon DEF y, z, n

\* The number of the first fragment, reckoned back from that of another.
LEMMA StartNumber ==
    ASSUME NEW p \in Nat, NEW k \in Nat, k <= p, k < SeqSpace, NEW c,
           c.seq = p % SeqSpace, c.number = k
    PROVE  StartOf(c) = (p - k) % SeqSpace
<1> DEFINE n == SeqSpace
           q == p \div n
           r == p % n
<1>1. n \in Nat \ {0} /\ q \in Nat /\ r \in Nat /\ r < n /\ p = n * q + r
  BY SpaceFacts, DivFacts
<1>2. StartOf(c) = (r + n - k) % n
  BY DEF StartOf
<1> HIDE DEF n, q, r
<1>3. CASE k <= r
  <2> DEFINE j == r - k
             x == r + n - k
             y == p - k
  <2>1. j \in Nat /\ j < n /\ x = n * 1 + j /\ y = n * q + j /\ x \in Nat /\ y \in Nat
    BY <1>1, <1>3
  <2> HIDE DEF j, x, y
  <2>2. y % n = j
    BY <1>1, <2>1, DivUnique
  <2>3. x % n = j
    BY <1>1, <2>1, DivUnique
  <2> QED
    BY <1>2, <2>2, <2>3, Zenon DEF x, y, n
<1>4. CASE r < k
  <2> DEFINE j == r + n - k
             y == p - k
             h == q - 1
  <2>1. q # 0
    BY <1>1, <1>4
  <2>2. h \in Nat /\ n * h = n * q - n
    BY <1>1, <2>1
  <2>3. j \in Nat /\ j < n /\ j = n * 0 + j /\ y = n * h + j /\ y \in Nat
    BY <1>1, <1>4, <2>2 DEF n
  <2> HIDE DEF j, y, h
  <2>4. y % n = j
    <3>1. n \in Nat \ {0} /\ h \in Nat /\ j \in Nat /\ j < n /\ y \in Nat /\ y = n * h + j
      BY <1>1, <2>2, <2>3
    <3> QED
      BY ONLY <3>1, DivUnique
  <2>5. j % n = j
    BY <1>1, <2>3, DivUnique
  <2> QED
    BY <1>2, <2>4, <2>5, Zenon DEF j, y, n
<1> QED
  BY <1>1, <1>3, <1>4

-----------------------------------------------------------------------------
(* The invariant. *)

\* The most numbers a packet takes.
Longest == CHOOSE n \in 1..(WINDOW_SIZE + 1) :
    /\ \A count \in FragmentCounts : count <= n
    /\ Lifetime * n <= (WINDOWS - FREE_WINDOWS + 1) * WINDOW_SIZE

\* The absolute number of the first command of each packet, and of the next one: they
\* increase, by no more than the longest packet takes.
Numbering(at) ==
    /\ at \in [1..(Len(counts) + 1) -> Nat] /\ at[1] = StartSeq + 1
    /\ \A i \in 1..Len(counts) : at[i + 1] = at[i] + Length(counts[i])
    /\ \A i, j \in 1..(Len(counts) + 1) :
          i <= j => at[i] + (j - i) <= at[j] /\ at[j] <= at[i] + (j - i) * Longest

\* A command or a part of a packet that was given to enet_peer_send, its absolute
\* number, and the sequence number it travels with.
IsPart(q)       == q.pkt \in 1..Len(counts) /\ q.number \in 0..(Length(counts[q.pkt]) - 1)
AbsOf(q, at)    == at[q.pkt] + q.number
Numbered(c, at) == IsPart(c) /\ c.count = counts[c.pkt] /\ c.seq = AbsOf(c, at) % SeqSpace

\* The packets that left the receiver's list, and the number delivered last.
Passed  == Len(delivered) + Len(dispatched)
Cur(at) == at[Passed + 1] - 1

\* The parts up to number top have been transmitted.
SenderNumbers(at, top) ==
    /\ Len(counts) <= MaxPackets
    /\ top \in StartSeq..(at[Len(counts) + 1] - 1)
    /\ tried = {q \in Part : IsPart(q) /\ AbsOf(q, at) <= top}
    /\ outgoingReliableSequenceNumber = (at[Len(counts) + 1] - 1) % SeqSpace
    /\ \A c \in Unacked : Numbered(c, at)

\* Those that go out again wait before the others, which are in the order of their numbers.
Again(at, top) == Len(outgoing) + (top + 1) - at[Len(counts) + 1]
QueueOrder(at, top) ==
    /\ Again(at, top) \in Nat
    /\ \A j \in 1..Len(outgoing) :
          IF j <= Again(at, top) THEN AbsOf(outgoing[j], at) <= top
                                 ELSE AbsOf(outgoing[j], at) = top + (j - Again(at, top))

\* The commands in transit are of the windows the sender allows.
SenderWindow(at, top) ==
    \A c \in Unacked : AbsOf(c, at) <= top
                          => Win(AbsOf(c, at)) >= Win(top) - WINDOWS + FREE_WINDOWS

\* A part that reached the receiver, and one that may be acknowledged.
Received(q)    == q.pkt <= Passed \/ \E e \in Members(incoming) : PartOf(q) \in e.parts
Settled(q, at) == Received(q) /\ Win(AbsOf(q, at)) <= Win(Cur(at)) + FREE_WINDOWS - 2

\* A transmitted part is still listed or has reached the receiver.
NoneLost(at) == \A q \in tried : (\E c \in Unacked : PartOf(c) = q) \/ Settled(q, at)

\* The sender is not further ahead of the receiver than the windows it leaves free.
Reach(at, top) ==
    /\ Passed <= Len(counts) /\ Cur(at) <= top
    /\ Win(top) <= Win(Cur(at)) + FREE_WINDOWS

\* What travels was transmitted, and is not so old that its packet would be taken for a
\* new one; what is acknowledged was received.
Travels(c, at, top) == Numbered(c, at) /\ AbsOf(c, at) <= top
Recent(c, at, top)  == Win(at[c.pkt]) >= Win(top) - WINDOWS + FREE_WINDOWS - 1
NetOrder(at, top) ==
    \A d \in net : /\ Travels(d.cmd, at, top) /\ Recent(d.cmd, at, top)
                   /\ d.type = "ack" => Settled(d.cmd, at)
AckOrder(at, top) == \A c \in Members(acknowledgements) : Travels(c, at, top) /\ Settled(c, at)

\* The receiver's list has entries of packets after the last one delivered, in their
\* order, with parts that were transmitted.
EntryOf(e, i, at, top) ==
    /\ e.count = counts[i] /\ e.seq = at[i] % SeqSpace /\ e.parts # {}
    /\ \A q \in e.parts : q.pkt = i /\ IsPart(q) /\ AbsOf(q, at) <= top
Listing(list, ids, low, at, top) ==
    /\ ids \in [1..Len(list) -> (low + 1)..Len(counts)]
    /\ \A j, k \in 1..Len(list) : j < k => ids[j] < ids[k]
    /\ \A k \in 1..Len(list) : EntryOf(list[k], ids[k], at, top)
ListOrder(at, top, ids) ==
    /\ incomingReliableSequenceNumber = Cur(at) % SeqSpace
    /\ Listing(incoming, ids, Passed, at, top)

\* What left it is the packets in their order, whole.
PartsOf(i)  == {[pkt |-> i, number |-> k] : k \in 0..(Length(counts[i]) - 1)}
Whole(e, i) == e.count = counts[i] /\ e.parts = PartsOf(i)
DeliveryOrder ==
    /\ \A k \in 1..Len(dispatched) : Whole(dispatched[k], Len(delivered) + k)
    /\ \A k \in 1..Len(delivered) : delivered[k] = k

SenderEnd(at, top) == QueueOrder(at, top) /\ SenderWindow(at, top) /\ NoneLost(at)
Ends(at, top, ids) ==
    /\ Numbering(at) /\ SenderNumbers(at, top) /\ (open => SenderEnd(at, top))
    /\ Reach(at, top) /\ NetOrder(at, top) /\ AckOrder(at, top)
    /\ ListOrder(at, top, ids) /\ DeliveryOrder

\* A connection given up has nothing left to send.
ClosedInv == ~open => sent = << >> /\ outgoing = << >>

DeliveryInv == ChannelInv /\ ClosedInv /\ \E at, top, ids : Ends(at, top, ids)

-----------------------------------------------------------------------------
(* Packets and their numbers. *)

\* The longest packet.
LEMMA LongestFacts ==
    /\ Longest \in Nat \ {0} /\ Longest <= WINDOW_SIZE + 1
    /\ \A count \in Counts : Length(count) <= Longest
    /\ Lifetime \in Nat /\ Lifetime * Longest <= (WINDOWS - FREE_WINDOWS + 1) * WINDOW_SIZE
<1>1. /\ Longest \in 1..(WINDOW_SIZE + 1)
      /\ \A count \in FragmentCounts : count <= Longest
      /\ Lifetime * Longest <= (WINDOWS - FREE_WINDOWS + 1) * WINDOW_SIZE
  BY WrapAssumption DEF Longest
<1>2. Longest \in Nat \ {0} /\ Longest <= WINDOW_SIZE + 1
  BY <1>1, ChannelAssumption
<1>3. \A count \in Counts : Length(count) <= Longest
  BY <1>1, <1>2 DEF Counts, Length
<1> QED
  BY <1>1, <1>2, <1>3, ChannelAssumption

\* The numbers of packets are ordered.
LEMMA PacketNumbers ==
    ASSUME counts \in Seq(Counts), NEW at, Numbering(at)
    PROVE  /\ Len(counts) \in Nat /\ \A i \in 1..Len(counts) : counts[i] \in Counts
           /\ \A i \in 1..(Len(counts) + 1) : at[i] \in Nat /\ StartSeq < at[i]
           /\ \A i, j \in 1..(Len(counts) + 1) :
                 /\ i <= j => at[i] <= at[j]
                 /\ at[i] < at[j] => i < j
           /\ \A i \in 1..Len(counts) :
                 /\ i + 1 \in 1..(Len(counts) + 1) /\ i \in 1..(Len(counts) + 1)
                 /\ at[i + 1] = at[i] + Length(counts[i]) /\ at[i] < at[i + 1]
<1> DEFINE n == Len(counts)
<1>1. n \in Nat /\ \A i \in 1..n : counts[i] \in Counts
  OBVIOUS
<1> HIDE DEF n
<1>2. /\ at \in [1..(n + 1) -> Nat] /\ at[1] = StartSeq + 1
      /\ \A i \in 1..n : at[i + 1] = at[i] + Length(counts[i])
      /\ \A i, j \in 1..(n + 1) : i <= j => at[i] + (j - i) <= at[j]
  BY DEF Numbering, n
<1>3. StartSeq \in Nat
  BY ChannelAssumption, SpaceFacts DEF SeqSpace
<1>4. \A i \in 1..(n + 1) : at[i] \in Nat
  BY <1>2
<1>5. ASSUME NEW i \in 1..(n + 1), NEW j \in 1..(n + 1), i <= j PROVE at[i] <= at[j]
  BY <1>1, <1>2, <1>4, <1>5
<1>6. ASSUME NEW i \in 1..(n + 1), NEW j \in 1..(n + 1), at[i] < at[j] PROVE i < j
  <2>1. ~(j <= i)
    BY <1>4, <1>5, <1>6
  <2> QED
    BY <2>1, <1>1
<1>7. ASSUME NEW i \in 1..(n + 1) PROVE StartSeq < at[i]
  <2>1. 1 \in 1..(n + 1) /\ 1 <= i
    BY <1>1
  <2>2. at[1] <= at[i]
    BY <1>5, <2>1
  <2> QED
    BY <1>2, <1>3, <1>4, <2>2
<1>8. ASSUME NEW i \in 1..n
      PROVE  /\ i + 1 \in 1..(n + 1) /\ i \in 1..(n + 1)
             /\ at[i + 1] = at[i] + Length(counts[i]) /\ at[i] < at[i + 1]
  <2>1. i + 1 \in 1..(n + 1) /\ i \in 1..(n + 1)
    BY <1>1
  <2>2. Length(counts[i]) \in Nat \ {0}
    BY <1>1, CountFacts
  <2> QED
    BY <1>2, <1>4, <2>1, <2>2
<1> QED
  BY <1>1, <1>4, <1>5, <1>6, <1>7, <1>8 DEF n

\* A part has a number of its packet.
LEMMA PartNumbers ==
    ASSUME counts \in Seq(Counts), NEW at, Numbering(at), NEW q, IsPart(q)
    PROVE  /\ q.pkt \in 1..Len(counts) /\ q.number \in Nat
           /\ AbsOf(q, at) \in Nat /\ StartSeq < AbsOf(q, at)
           /\ at[q.pkt] \in Nat /\ at[q.pkt] <= AbsOf(q, at) /\ AbsOf(q, at) - q.number = at[q.pkt]
           /\ AbsOf(q, at) < at[q.pkt + 1] /\ q.pkt + 1 \in 1..(Len(counts) + 1)
<1> DEFINE i == q.pkt
           k == q.number
           len == Length(counts[i])
<1>1. i \in 1..Len(counts) /\ k \in 0..(len - 1)
  BY DEF IsPart
<1>2. /\ counts[i] \in Counts /\ i + 1 \in 1..(Len(counts) + 1)
      /\ at[i] \in Nat /\ StartSeq < at[i] /\ at[i + 1] = at[i] + len
  BY <1>1, PacketNumbers
<1>3. len \in Nat \ {0}
  BY <1>2, CountFacts
<1>4. StartSeq \in Nat
  BY ChannelAssumption, SpaceFacts DEF SeqSpace
<1>5. AbsOf(q, at) = at[i] + k
  BY DEF AbsOf
<1> HIDE DEF i, k, len
<1>6. k \in Nat /\ k < len
  BY <1>1, <1>3
<1>7. /\ AbsOf(q, at) \in Nat /\ StartSeq < AbsOf(q, at) /\ at[i] <= AbsOf(q, at)
      /\ AbsOf(q, at) - k = at[i] /\ AbsOf(q, at) < at[i + 1]
  BY <1>2, <1>3, <1>4, <1>5, <1>6
<1> QED
  BY <1>1, <1>2, <1>6, <1>7 DEF i, k

\* Parts with the same number are the same.
LEMMA UniquePart ==
    ASSUME counts \in Seq(Counts), NEW at, Numbering(at), NEW p, IsPart(p), NEW q, IsPart(q),
           AbsOf(p, at) = AbsOf(q, at)
    PROVE  p.pkt = q.pkt /\ p.number = q.number /\ PartOf(p) = PartOf(q)
<1>1. /\ p.pkt \in 1..Len(counts) /\ p.pkt + 1 \in 1..(Len(counts) + 1) /\ p.number \in Nat
      /\ at[p.pkt] <= AbsOf(p, at) /\ AbsOf(p, at) < at[p.pkt + 1] /\ AbsOf(p, at) \in Nat
      /\ at[p.pkt] \in Nat /\ AbsOf(p, at) - p.number = at[p.pkt]
  BY PartNumbers
<1>2. /\ q.pkt \in 1..Len(counts) /\ q.pkt + 1 \in 1..(Len(counts) + 1) /\ q.number \in Nat
      /\ at[q.pkt] <= AbsOf(q, at) /\ AbsOf(q, at) < at[q.pkt + 1] /\ AbsOf(q, at) \in Nat
      /\ at[q.pkt] \in Nat /\ AbsOf(q, at) - q.number = at[q.pkt]
  BY PartNumbers
<1>3. /\ \A i \in 1..(Len(counts) + 1) : at[i] \in Nat
      /\ \A i, j \in 1..(Len(counts) + 1) : i <= j => at[i] <= at[j]
      /\ Len(counts) \in Nat
  BY PacketNumbers
<1>4. ~(p.pkt + 1 <= q.pkt)
  <2> SUFFICES ASSUME p.pkt + 1 <= q.pkt PROVE FALSE
    OBVIOUS
  <2>1. q.pkt \in 1..(Len(counts) + 1)
    BY <1>2, <1>3
  <2>2. at[p.pkt + 1] <= at[q.pkt] /\ at[p.pkt + 1] \in Nat
    BY <1>1, <1>3, <2>1
  <2> QED
    BY <1>1, <1>2, <2>2
<1>5. ~(q.pkt + 1 <= p.pkt)
  <2> SUFFICES ASSUME q.pkt + 1 <= p.pkt PROVE FALSE
    OBVIOUS
  <2>1. p.pkt \in 1..(Len(counts) + 1)
    BY <1>1, <1>3
  <2>2. at[q.pkt + 1] <= at[p.pkt] /\ at[q.pkt + 1] \in Nat
    BY <1>2, <1>3, <2>1
  <2> QED
    BY <1>1, <1>2, <2>2
<1>6. p.pkt = q.pkt
  <2>1. p.pkt \in Int /\ q.pkt \in Int
    BY <1>1, <1>2
  <2> QED
    BY <2>1, <1>4, <1>5
<1>7. p.number = q.number
  BY <1>1, <1>2, <1>6
<1> QED
  BY <1>6, <1>7 DEF PartOf

\* Every number of the packets is that of a part.
LEMMA PartAt ==
    ASSUME counts \in Seq(Counts), Len(counts) <= MaxPackets, NEW at, Numbering(at),
           NEW x \in Nat, StartSeq < x, x < at[Len(counts) + 1]
    PROVE  \E q \in Part : IsPart(q) /\ AbsOf(q, at) = x
<1> DEFINE n == Len(counts)
           S == {i \in 1..n : at[i] <= x}
<1>1. /\ n \in Nat /\ \A i \in 1..n : counts[i] \in Counts
      /\ \A i \in 1..(n + 1) : at[i] \in Nat
      /\ \A i \in 1..n : i + 1 \in 1..(n + 1) /\ at[i + 1] = at[i] + Length(counts[i])
  BY PacketNumbers
<1>2. at[1] <= x /\ x < at[n + 1]
  <2>1. at[1] = StartSeq + 1 /\ StartSeq \in Nat
    BY ChannelAssumption, SpaceFacts DEF Numbering, SeqSpace
  <2> QED
    BY <2>1
<1> HIDE DEF n
<1>3. 1 \in S
  <2>1. n # 0
    BY <1>1, <1>2
  <2> QED
    BY <1>1, <1>2, <2>1
<1>4. S \in SUBSET (0..n) /\ S # {}
  BY <1>1, <1>3
<1>5. PICK i \in S : \A j \in S : j <= i
  BY <1>1, <1>4, GreatestNat
<1>6. i \in 1..n /\ at[i] <= x
  BY <1>5
<1>7. x < at[i + 1]
  <2>1. CASE i = n
    BY <1>2, <2>1
  <2>2. CASE i # n
    <3>1. i + 1 \in 1..n /\ ~(i + 1 <= i)
      BY <1>1, <1>6, <2>2
    <3>2. i + 1 \notin S
      BY <1>5, <3>1
    <3>3. at[i + 1] \in Nat
      BY <1>1, <1>6
    <3> QED
      BY <3>1, <3>2, <3>3
  <2> QED
    BY <2>1, <2>2
<1> DEFINE k == x - at[i]
<1>8. counts[i] \in Counts /\ Length(counts[i]) \in Nat /\ at[i] \in Nat
  BY <1>1, <1>6, CountFacts
<1>9. k \in 0..(Length(counts[i]) - 1) /\ at[i] + k = x
  <2> DEFINE len == Length(counts[i])
             a == at[i]
  <2>1. at[i + 1] = a + len
    BY <1>1, <1>6
  <2>2. a \in Nat /\ len \in Nat /\ a <= x /\ x < a + len
    BY <1>6, <1>7, <1>8, <2>1
  <2> HIDE DEF len, a
  <2> QED
    BY <2>2 DEF a, len
<1> HIDE DEF k
<1> DEFINE q == [pkt |-> i, number |-> k]
<1>10. k \in Numbers
  <2>1. k + 1 \in 1..Length(counts[i]) /\ (k + 1) - 1 = k
    BY <1>8, <1>9
  <2> QED
    BY <1>8, <2>1, CountFacts
<1>11. i \in Packets
  BY <1>1, <1>6, ChannelAssumption DEF Packets, n
<1>12. q \in Part /\ IsPart(q) /\ AbsOf(q, at) = x
  BY <1>6, <1>9, <1>10, <1>11 DEF Part, IsPart, AbsOf, n
<1> QED
  BY <1>12

-----------------------------------------------------------------------------
(* Both ends. *)

\* The first command of each packet after the ones so far.
LEMMA StartFacts == StartSeq \in Nat
  BY ChannelAssumption, SpaceFacts DEF SeqSpace

\* The receiver is behind the sender by less than a turn of the sequence space.
LEMMA EndFacts ==
    ASSUME TypeOK, NEW at, NEW top, NEW ids, Ends(at, top, ids)
    PROVE  /\ counts \in Seq(Counts) /\ Len(counts) \in Nat
           /\ Passed \in Nat /\ Passed + 1 \in 1..(Len(counts) + 1)
           /\ top \in Nat /\ Cur(at) \in Nat /\ at[Passed + 1] = Cur(at) + 1
           /\ StartSeq <= Cur(at) /\ Cur(at) <= top /\ top < at[Len(counts) + 1]
           /\ top < Cur(at) + SeqSpace
<1>1. /\ counts \in Seq(Counts) /\ Len(counts) \in Nat
      /\ Len(delivered) \in Nat /\ Len(dispatched) \in Nat
  BY DEF TypeOK
<1>2. /\ Numbering(at) /\ Passed <= Len(counts) /\ Cur(at) <= top
      /\ Win(top) <= Win(Cur(at)) + FREE_WINDOWS /\ top \in StartSeq..(at[Len(counts) + 1] - 1)
  BY DEF Ends, Reach, SenderNumbers
<1>3. Passed \in Nat /\ Passed + 1 \in 1..(Len(counts) + 1)
  BY <1>1, <1>2 DEF Passed
<1>4. at[Passed + 1] \in Nat /\ StartSeq < at[Passed + 1] /\ at[Len(counts) + 1] \in Nat
  <2>1. Len(counts) + 1 \in 1..(Len(counts) + 1)
    BY <1>1
  <2> QED
    BY <1>1, <1>2, <1>3, <2>1, PacketNumbers
<1>5. Cur(at) \in Nat /\ at[Passed + 1] = Cur(at) + 1 /\ StartSeq <= Cur(at)
  BY <1>4, StartFacts DEF Cur
<1>6. top \in Nat /\ top < at[Len(counts) + 1]
  BY <1>2, <1>4, StartFacts
<1>7. top < Cur(at) + (FREE_WINDOWS + 1) * WINDOW_SIZE
  BY <1>2, <1>5, <1>6, SpaceFacts, WinNear
<1>8. (FREE_WINDOWS + 1) * WINDOW_SIZE <= WINDOWS * WINDOW_SIZE
  <2>1. FREE_WINDOWS + 1 \in Nat /\ WINDOWS \in Nat /\ WINDOW_SIZE \in Nat /\ FREE_WINDOWS + 1 <= WINDOWS
    BY ChannelAssumption
  <2> QED
    BY <2>1, Products
<1>9. (FREE_WINDOWS + 1) * WINDOW_SIZE \in Nat
  BY ChannelAssumption
<1>10. top < Cur(at) + SeqSpace
  BY <1>5, <1>6, <1>7, <1>8, <1>9, SpaceFacts DEF SeqSpace
<1> QED
  BY <1>1, <1>2, <1>3, <1>5, <1>6, <1>10

\* A step that leaves the packets alone leaves the parts and their numbers alone.
LEMMA SamePackets ==
    ASSUME UNCHANGED counts, NEW at
    PROVE  /\ Numbering(at)' <=> Numbering(at)
           /\ \A q : IsPart(q)' <=> IsPart(q)
           /\ \A c : Numbered(c, at)' <=> Numbered(c, at)
  BY DEF Numbering, IsPart, Numbered, AbsOf

\* A step that leaves the receiver's lists alone leaves alone what it received.
LEMMA SameReceived ==
    ASSUME UNCHANGED <<incoming, dispatched, delivered>>, NEW at
    PROVE  /\ Passed' = Passed /\ Cur(at)' = Cur(at)
           /\ \A q : Received(q)' <=> Received(q)
           /\ \A q : Settled(q, at)' <=> Settled(q, at)
<1>1. Passed' = Passed /\ Members(incoming)' = Members(incoming)
  BY DEF Passed, Members
<1>2. Cur(at)' = Cur(at)
  BY <1>1 DEF Cur
<1>3. \A q : Received(q)' <=> Received(q)
  BY <1>1 DEF Received
<1> QED
  BY <1>1, <1>2, <1>3 DEF Settled, AbsOf

\* What the sender's steps have to keep, with the last number transmitted.
SenderKeeps(at, top) ==
    /\ SenderNumbers(at, top)' /\ (open' => SenderEnd(at, top)')
    /\ Win(top) <= Win(Cur(at)) + FREE_WINDOWS /\ NetOrder(at, top)'
LEMMA SenderStep ==
    ASSUME NEW at, NEW top \in Nat, NEW ids, Ends(at, top, ids), TypeOK,
           UNCHANGED <<counts, receiverVars>>,
           NEW last \in Nat, top <= last, SenderKeeps(at, last)
    PROVE  Ends(at, last, ids)'
<1>1. /\ UNCHANGED <<incoming, dispatched, delivered>>
      /\ UNCHANGED counts /\ UNCHANGED incomingReliableSequenceNumber
      /\ UNCHANGED incoming /\ UNCHANGED acknowledgements
      /\ UNCHANGED dispatched /\ UNCHANGED delivered
  BY DEF receiverVars
<1>2. /\ Numbering(at) /\ Reach(at, top) /\ AckOrder(at, top) /\ ListOrder(at, top, ids)
      /\ DeliveryOrder
  BY DEF Ends
<1>3. counts \in Seq(Counts) /\ Cur(at) \in Nat /\ Cur(at) <= top
  BY EndFacts
<1>4. /\ Numbering(at)'
      /\ \A q : IsPart(q)' <=> IsPart(q)
      /\ \A c : Numbered(c, at)' <=> Numbered(c, at)
  BY <1>1, <1>2, SamePackets
<1>5. /\ Passed' = Passed /\ Cur(at)' = Cur(at)
      /\ \A q : Settled(q, at)' <=> Settled(q, at)
  BY <1>1, SameReceived
<1>6. \A q : IsPart(q) /\ AbsOf(q, at) <= top => AbsOf(q, at) <= last
  <2>1. ASSUME NEW q, IsPart(q), AbsOf(q, at) <= top PROVE AbsOf(q, at) <= last
    <3>1. AbsOf(q, at) \in Nat
      BY <1>2, <1>3, <2>1, PartNumbers
    <3> QED
      BY <2>1, <3>1
  <2> QED
    BY <2>1
<1>7. Reach(at, last)'
  <2>1. Passed <= Len(counts)
    BY <1>2 DEF Reach
  <2>2. Cur(at) <= last
    BY <1>3
  <2> QED
    BY <1>1, <1>5, <2>1, <2>2 DEF Reach, SenderKeeps
<1>8. AckOrder(at, last)'
  <2>1. ASSUME NEW c \in Members(acknowledgements) PROVE Travels(c, at, last)' /\ Settled(c, at)'
    <3>1. Travels(c, at, top) /\ Settled(c, at)
      BY <1>2 DEF AckOrder
    <3>2. Numbered(c, at) /\ IsPart(c) /\ AbsOf(c, at) <= top
      BY <3>1 DEF Travels, Numbered
    <3>3. AbsOf(c, at) <= last
      BY <1>6, <3>2
    <3> QED
      BY <1>4, <1>5, <3>1, <3>2, <3>3 DEF Travels
  <2>2. Members(acknowledgements)' = Members(acknowledgements)
    BY <1>1 DEF Members
  <2> QED
    BY <2>1, <2>2 DEF AckOrder
<1>9. ListOrder(at, last, ids)'
  <2>1. /\ incomingReliableSequenceNumber = Cur(at) % SeqSpace
        /\ ids \in [1..Len(incoming) -> (Passed + 1)..Len(counts)]
        /\ \A j, k \in 1..Len(incoming) : j < k => ids[j] < ids[k]
        /\ \A k \in 1..Len(incoming) : EntryOf(incoming[k], ids[k], at, top)
    BY <1>2 DEF ListOrder, Listing
  <2>2. ASSUME NEW k \in 1..Len(incoming)
        PROVE  EntryOf(incoming[k], ids[k], at, last)'
    <3> DEFINE e == incoming[k]
               i == ids[k]
    <3>1. /\ e.count = counts[i] /\ e.seq = at[i] % SeqSpace /\ e.parts # {}
          /\ \A q \in e.parts : q.pkt = i /\ IsPart(q) /\ AbsOf(q, at) <= top
      BY <2>1 DEF EntryOf
    <3>2. \A q \in e.parts : q.pkt = i /\ IsPart(q)' /\ AbsOf(q, at) <= last
      BY <1>4, <1>6, <3>1
    <3>3. e' = e /\ \A q : AbsOf(q, at)' = AbsOf(q, at)
      BY <1>1 DEF AbsOf
    <3> HIDE DEF e, i
    <3>4. EntryOf(e, i, at, last)'
      BY <1>1, <3>1, <3>2, <3>3 DEF EntryOf
    <3> QED
      BY <3>4 DEF e, i
  <2> QED
    BY <1>1, <1>5, <2>1, <2>2 DEF ListOrder, Listing
<1>10. DeliveryOrder'
  BY <1>1, <1>2 DEF DeliveryOrder, Whole, PartsOf
<1> QED
  BY <1>4, <1>7, <1>8, <1>9, <1>10 DEF Ends, SenderKeeps

-----------------------------------------------------------------------------
(* The age of datagrams. *)

\* The packet of a command in transit starts at most a window before it.
LEMMA RecentListed ==
    ASSUME counts \in Seq(Counts), NEW at, Numbering(at), NEW c, IsPart(c), NEW top \in Nat,
           Win(AbsOf(c, at)) >= Win(top) - WINDOWS + FREE_WINDOWS
    PROVE  Recent(c, at, top)
<1> DEFINE i == c.pkt
           x == AbsOf(c, at)
           y == at[i]
<1>1. i \in 1..Len(counts) /\ x \in Nat /\ y \in Nat /\ x < at[i + 1]
  BY PartNumbers
<1>2. at[i + 1] = y + Length(counts[i]) /\ counts[i] \in Counts
  BY <1>1, PacketNumbers
<1>3. Length(counts[i]) \in Nat /\ Length(counts[i]) <= WINDOW_SIZE + 1
  BY <1>2, LongestFacts, CountFacts, ChannelAssumption
<1> HIDE DEF i, x, y
<1>4. x <= y + 1 * WINDOW_SIZE
  BY <1>1, <1>2, <1>3, ChannelAssumption
<1>5. Win(x) <= Win(y) + 1
  BY <1>1, <1>4, WinSpan
<1>6. Win(x) >= Win(top) - WINDOWS + FREE_WINDOWS
  BY DEF x
<1>7. /\ Win(x) \in Nat /\ Win(y) \in Nat /\ Win(top) \in Nat
      /\ WINDOWS \in Nat /\ FREE_WINDOWS \in Nat
  BY <1>1, WinFacts, SpaceFacts
<1>8. Win(y) >= Win(top) - WINDOWS + FREE_WINDOWS - 1
  BY <1>5, <1>6, <1>7
<1> QED
  BY <1>8 DEF Recent, y, i

\* Within its lifetime a datagram's packet starts that many of the longest packets back.
LEMMA RecentFresh ==
    ASSUME counts \in Seq(Counts), NEW at, Numbering(at), NEW c, IsPart(c), NEW q, IsPart(q),
           q.pkt < c.pkt + Lifetime
    PROVE  Recent(c, at, AbsOf(q, at))
<1> DEFINE i == c.pkt
           j == q.pkt + 1
           y == at[i]
           x == AbsOf(q, at)
           k == WINDOWS - FREE_WINDOWS + 1
<1>1. /\ i \in 1..(Len(counts) + 1) /\ j \in 1..(Len(counts) + 1) /\ y \in Nat
      /\ x \in Nat /\ x < at[j]
  BY PartNumbers, PacketNumbers
<1>2. /\ Len(counts) \in Nat /\ at[j] \in Nat
      /\ j <= i => at[j] <= y
      /\ i <= j => at[j] <= y + (j - i) * Longest
  BY <1>1, PacketNumbers DEF Numbering
<1>3. /\ Longest \in Nat \ {0} /\ Lifetime \in Nat
      /\ Lifetime * Longest <= k * WINDOW_SIZE
  BY LongestFacts
<1>4. k \in Nat /\ WINDOW_SIZE \in Nat /\ k * WINDOW_SIZE \in Nat
  BY ChannelAssumption
<1>5. j - i <= Lifetime
  <2>1. q.pkt \in Nat /\ c.pkt \in Nat
    BY PartNumbers
  <2> QED
    BY <2>1, <1>3
<1> HIDE DEF i, j, y, x, k
<1> DEFINE z == k * WINDOW_SIZE
           t == (j - i) * Longest
<1>m. z \in Nat /\ (x <= y + z => Win(x) <= Win(y) + k)
  BY <1>1, <1>4, WinSpan
<1>i. i \in Int /\ j \in Int
  BY <1>1, <1>2
<1>6. ASSUME j <= i PROVE x <= y + z
  BY <1>1, <1>2, <1>m, <1>6
<1>7. ASSUME i <= j PROVE x <= y + z
  <2>1. j - i \in Nat
    BY <1>i, <1>7
  <2>2. t <= Lifetime * Longest /\ t \in Nat
    BY <1>3, <1>5, <2>1, Products
  <2>3. Lifetime * Longest \in Nat /\ Lifetime * Longest <= z
    BY <1>3
  <2>4. at[j] <= y + t
    BY <1>2, <1>7
  <2> HIDE DEF z, t
  <2>5. t <= z
    BY <1>m, <2>2, <2>3
  <2> QED
    BY <1>1, <1>2, <1>m, <2>2, <2>4, <2>5
<1>8. Win(x) <= Win(y) + k
  BY <1>i, <1>m, <1>6, <1>7
<1>9. Win(y) >= Win(x) - WINDOWS + FREE_WINDOWS - 1
  <2>1. Win(x) \in Nat /\ Win(y) \in Nat /\ WINDOWS \in Nat /\ FREE_WINDOWS \in Nat
    BY <1>1, WinFacts, SpaceFacts
  <2> QED
    BY <1>8, <2>1 DEF k
<1> QED
  BY <1>9 DEF Recent, y, i, x

-----------------------------------------------------------------------------
(* The steps of the sender. *)

\* A command's part has its packet and its number.
LEMMA PartOfFacts ==
    ASSUME NEW c \in Command, NEW at
    PROVE  /\ PartOf(c) \in Part /\ PartOf(c).pkt = c.pkt /\ PartOf(c).number = c.number
           /\ PartOf(PartOf(c)) = PartOf(c)
           /\ IsPart(PartOf(c)) <=> IsPart(c)
           /\ AbsOf(PartOf(c), at) = AbsOf(c, at)
           /\ Received(PartOf(c)) <=> Received(c)
           /\ Settled(PartOf(c), at) <=> Settled(c, at)
<1>1. PartOf(c) = [pkt |-> c.pkt, number |-> c.number] /\ PartOf(c) \in Part
  BY PartType DEF PartOf
<1>2. PartOf(c).pkt = c.pkt /\ PartOf(c).number = c.number
  BY <1>1
<1>3. PartOf(PartOf(c)) = PartOf(c)
  BY <1>1, <1>2 DEF PartOf
<1>4. IsPart(PartOf(c)) <=> IsPart(c)
  BY <1>2 DEF IsPart
<1>5. AbsOf(PartOf(c), at) = AbsOf(c, at)
  BY <1>2 DEF AbsOf
<1>6. Received(PartOf(c)) <=> Received(c)
  BY <1>2, <1>3 DEF Received
<1> QED
  BY <1>1, <1>2, <1>3, <1>4, <1>5, <1>6 DEF Settled

\* The transmitted parts are those up to number top.
LEMMA TriedFacts ==
    ASSUME NEW at, NEW top, SenderNumbers(at, top), NEW c \in Command
    PROVE  PartOf(c) \in tried <=> IsPart(c) /\ AbsOf(c, at) <= top
  BY PartOfFacts DEF SenderNumbers

\* A number reckoned on from a sequence number.
LEMMA SeqNext ==
    ASSUME NEW x \in Nat, NEW k \in Nat
    PROVE  ((x % SeqSpace) + k) % SeqSpace = (x + k) % SeqSpace
<1> DEFINE n == SeqSpace
           q == x \div n
           r == x % n
           z == r + k
           p == z \div n
           s == z % n
           y == x + k
<1>1. n \in Nat \ {0} /\ q \in Nat /\ r \in Nat /\ x = n * q + r
  BY SpaceFacts, DivFacts
<1>2. z \in Nat
  BY <1>1
<1>3. p \in Nat /\ s \in Nat /\ s < n /\ z = n * p + s
  BY <1>1, <1>2, DivFacts
<1> HIDE DEF q, r, p, s, n
<1>4. n * (q + p) = n * q + n * p /\ n * q \in Nat /\ n * p \in Nat /\ q + p \in Nat
  BY <1>1, <1>3
<1> DEFINE v == q + p
<1>5. y \in Nat /\ y = n * v + s /\ v \in Nat
  BY <1>1, <1>3, <1>4
<1> HIDE DEF y, v
<1>6. y % n = s
  BY <1>1, <1>3, <1>5, DivUnique
<1> QED
  BY <1>6, Zenon DEF s, z, r, n, y

\* enet_peer_send gives the new packet the numbers after those of the others.
Extended(next, at, count) ==
    next = [i \in 1..(Len(counts) + 2) |-> IF i <= Len(counts) + 1 THEN at[i]
                                           ELSE at[Len(counts) + 1] + Length(count)]
LEMMA ExtendNumbering ==
    ASSUME counts \in Seq(Counts), NEW at, Numbering(at), NEW count \in Counts,
           counts' = Append(counts, count), NEW next, Extended(next, at, count)
    PROVE  /\ Numbering(next)' /\ Len(counts') = Len(counts) + 1
           /\ next[Len(counts) + 2] = at[Len(counts) + 1] + Length(count)
           /\ \A i \in 1..(Len(counts) + 1) : next[i] = at[i]
           /\ \A i \in 1..Len(counts) : counts'[i] = counts[i]
           /\ counts'[Len(counts) + 1] = count
<1> DEFINE n == Len(counts)
           len == Length(count)
<1>1. /\ n \in Nat /\ \A i \in 1..(n + 1) : at[i] \in Nat
      /\ n + 1 \in 1..(n + 1)
  BY PacketNumbers
<1>2. /\ Len(counts') = n + 1 /\ counts'[n + 1] = count
      /\ \A i \in 1..n : counts'[i] = counts[i]
  BY AppendProperties
<1>3. len \in Nat \ {0} /\ len <= Longest /\ Longest \in Nat
  BY CountFacts, LongestFacts
<1>4. /\ \A i \in 1..n : at[i + 1] = at[i] + Length(counts[i])
      /\ at[1] = StartSeq + 1
      /\ \A i, j \in 1..(n + 1) :
            i <= j => at[i] + (j - i) <= at[j] /\ at[j] <= at[i] + (j - i) * Longest
  BY DEF Numbering
<1>5. next = [i \in 1..(n + 2) |-> IF i <= n + 1 THEN at[i] ELSE at[n + 1] + len]
  BY DEF Extended
<1> HIDE DEF n, len
<1>6. /\ \A i \in 1..(n + 1) : next[i] = at[i]
      /\ next[n + 2] = at[n + 1] + len /\ next \in [1..(n + 2) -> Nat]
  BY <1>1, <1>3, <1>5
<1>7. ASSUME NEW i \in 1..(n + 1) PROVE next[i + 1] = next[i] + Length(counts'[i])
  <2>1. CASE i \in 1..n
    <3>1. i + 1 \in 1..(n + 1) /\ i \in 1..(n + 1)
      BY <1>1, <2>1
    <3> QED
      BY <1>2, <1>4, <1>6, <2>1, <3>1
  <2>2. CASE i = n + 1
    <3>1. i + 1 = n + 2 /\ i \in 1..(n + 1)
      BY <1>1, <2>2
    <3>2. next[i + 1] = at[n + 1] + len /\ next[i] = at[n + 1]
      BY <1>6, <2>2, <3>1
    <3>3. Length(counts'[i]) = len
      BY <1>2, <2>2, Zenon DEF len
    <3> QED
      BY <3>2, <3>3
  <2>3. i \in 1..n \/ i = n + 1
    BY <1>1
  <2> QED
    BY <2>1, <2>2, <2>3, Zenon
<1>8. ASSUME NEW i \in 1..(n + 2), NEW j \in 1..(n + 2), i <= j
      PROVE  next[i] + (j - i) <= next[j] /\ next[j] <= next[i] + (j - i) * Longest
  <2>1. CASE j <= n + 1
    <3>1. i \in 1..(n + 1) /\ j \in 1..(n + 1)
      BY <1>1, <1>8, <2>1
    <3> QED
      BY <1>4, <1>6, <1>8, <3>1
  <2>2. CASE i = n + 2
    <3>1. j = i /\ j - i = 0 /\ next[i] \in Nat
      BY <1>1, <1>6, <1>8, <2>2
    <3>2. 0 * Longest = 0
      BY <1>3
    <3> QED
      BY <3>1, <3>2
  <2>3. CASE j = n + 2 /\ i <= n + 1
    <3> DEFINE k == n + 1 - i
               t == k * Longest
    <3>1. k \in Nat /\ i \in 1..(n + 1) /\ j - i = k + 1
      BY <1>1, <2>3
    <3>2. at[i] + k <= at[n + 1] /\ at[n + 1] <= at[i] + t
      BY <1>1, <1>4, <2>3, <3>1
    <3>3. next[i] = at[i] /\ next[j] = at[n + 1] + len /\ at[i] \in Nat /\ at[n + 1] \in Nat
      BY <1>1, <1>6, <2>3, <3>1
    <3> HIDE DEF k
    <3>4. (k + 1) * Longest = t + Longest /\ t \in Nat
      BY <1>3, <3>1
    <3> HIDE DEF t
    <3> DEFINE a == at[i]
               b == at[n + 1]
    <3>a. /\ a \in Nat /\ b \in Nat /\ a + k <= b /\ b <= a + t
          /\ next[i] = a /\ next[j] = b + len
      BY <3>2, <3>3
    <3> HIDE DEF a, b
    <3>5. next[i] + (k + 1) <= next[j] /\ next[j] <= next[i] + (t + Longest)
      BY <1>3, <3>1, <3>4, <3>a
    <3> QED
      BY <3>1, <3>4, <3>5
  <2> QED
    BY <1>1, <2>1, <2>2, <2>3
<1>9. next[1] = StartSeq + 1
  BY <1>1, <1>4, <1>6
<1>10. Len(counts') + 1 = n + 2
  BY <1>1, <1>2
<1>11. Numbering(next)'
  <2>1. next \in [1..(Len(counts') + 1) -> Nat]
    BY <1>6, <1>10
  <2>2. \A i \in 1..Len(counts') : next[i + 1] = next[i] + Length(counts'[i])
    BY <1>2, <1>7
  <2>3. \A i, j \in 1..(Len(counts') + 1) :
           i <= j => next[i] + (j - i) <= next[j] /\ next[j] <= next[i] + (j - i) * Longest
    BY <1>8, <1>10
  <2>4. Longest' = Longest /\ StartSeq' = StartSeq
    BY DEF Longest
  <2> QED
    BY <1>9, <2>1, <2>2, <2>3 DEF Numbering, Length
<1> QED
  BY <1>2, <1>6, <1>11 DEF n, len

\* The parts so far keep their numbers, and those of the new packet come after them.
PartsGrow(next, at, count) ==
    /\ \A q : IsPart(q) => /\ IsPart(q)' /\ AbsOf(q, next) = AbsOf(q, at)
                           /\ next[q.pkt] = at[q.pkt] /\ counts'[q.pkt] = counts[q.pkt]
    /\ \A q : IsPart(q)' => \/ IsPart(q)
                            \/ /\ q.pkt = Len(counts) + 1 /\ q.number \in Nat
                               /\ AbsOf(q, next) = at[Len(counts) + 1] + q.number
    /\ \A q : q.pkt = Len(counts) + 1 /\ q.number \in 0..(Length(count) - 1)
                 => IsPart(q)' /\ AbsOf(q, next) = at[Len(counts) + 1] + q.number
LEMMA SendParts ==
    ASSUME counts \in Seq(Counts), NEW at, Numbering(at), NEW count \in Counts,
           counts' = Append(counts, count), NEW next, Extended(next, at, count)
    PROVE  PartsGrow(next, at, count)
<1> DEFINE n == Len(counts)
<1>1. /\ n \in Nat /\ Len(counts') = n + 1
      /\ \A i \in 1..(n + 1) : next[i] = at[i]
      /\ \A i \in 1..n : counts'[i] = counts[i]
      /\ counts'[n + 1] = count
  BY ExtendNumbering
<1>2. \A q : IsPart(q)' <=> q.pkt \in 1..(n + 1) /\ q.number \in 0..(Length(counts'[q.pkt]) - 1)
  BY <1>1 DEF IsPart
<1>3. \A q : IsPart(q) <=> q.pkt \in 1..n /\ q.number \in 0..(Length(counts[q.pkt]) - 1)
  BY DEF IsPart
<1>4. n + 1 \in 1..(n + 1) /\ \A i \in 1..n : i \in 1..(n + 1)
  BY <1>1
<1>5. \A i \in 1..(n + 1) : i = n + 1 \/ i \in 1..n
  BY <1>1
<1> HIDE DEF n
<1>6. ASSUME NEW q, IsPart(q)
      PROVE  /\ IsPart(q)' /\ AbsOf(q, next) = AbsOf(q, at)
             /\ next[q.pkt] = at[q.pkt] /\ counts'[q.pkt] = counts[q.pkt]
  <2>1. q.pkt \in 1..n /\ q.number \in 0..(Length(counts[q.pkt]) - 1)
    BY <1>3, <1>6
  <2>2. next[q.pkt] = at[q.pkt] /\ counts'[q.pkt] = counts[q.pkt]
    BY <1>1, <1>4, <2>1
  <2>3. IsPart(q)'
    BY <1>2, <1>4, <2>1, <2>2, Zenon
  <2> QED
    BY <2>2, <2>3 DEF AbsOf
<1>7. ASSUME NEW q, IsPart(q)', ~IsPart(q)
      PROVE  q.pkt = n + 1 /\ q.number \in Nat /\ AbsOf(q, next) = at[n + 1] + q.number
  <2>1. q.pkt \in 1..(n + 1) /\ q.number \in 0..(Length(counts'[q.pkt]) - 1)
    BY <1>2, <1>7
  <2>2. q.pkt = n + 1
    BY <1>1, <1>3, <1>5, <1>7, <2>1, Zenon
  <2>3. Length(counts'[q.pkt]) \in Nat
    BY <1>1, <2>2, CountFacts
  <2>4. q.number \in Nat
    BY <2>1, <2>3
  <2> QED
    BY <1>1, <1>4, <2>2, <2>4 DEF AbsOf
<1>8. ASSUME NEW q, q.pkt = n + 1, q.number \in 0..(Length(count) - 1)
      PROVE  IsPart(q)' /\ AbsOf(q, next) = at[n + 1] + q.number
  <2>1. counts'[q.pkt] = count /\ q.pkt \in 1..(n + 1) /\ next[q.pkt] = at[n + 1]
    BY <1>1, <1>4, <1>8
  <2>2. IsPart(q)'
    BY <1>2, <1>8, <2>1, Zenon
  <2> QED
    BY <2>1, <2>2 DEF AbsOf
<1> QED
  BY <1>6, <1>7, <1>8 DEF PartsGrow, n

\* enet_peer_send leaves both ends in order: the new commands wait in the order of
\* their numbers behind the others.
LEMMA SendDelivery ==
    ASSUME TypeOK, TypeOK', enet_peer_send, NEW at, NEW top, NEW ids, Ends(at, top, ids)
    PROVE  \E next : Ends(next, top, ids)'
<1> DEFINE n == Len(counts)
           out == Len(outgoing)
<1>0. /\ open /\ outgoing \in Seq(Command) /\ outgoing' \in Seq(Command)
      /\ n < MaxPackets /\ out \in Nat
      /\ UNCHANGED <<open, sent, tried, net, receiverVars>>
  BY DEF enet_peer_send, TypeOK
<1>i. /\ UNCHANGED <<incomingReliableSequenceNumber, incoming, acknowledgements,
                     dispatched, delivered>>
      /\ UNCHANGED incoming /\ UNCHANGED dispatched /\ UNCHANGED delivered
      /\ UNCHANGED acknowledgements
  BY <1>0 DEF receiverVars
<1>1. PICK count \in Counts :
          /\ counts' = Append(counts, count)
          /\ outgoing' = outgoing \o
                [k \in 1..Length(count) |->
                    [seq |-> (outgoingReliableSequenceNumber + k) % SeqSpace,
                     pkt |-> Len(counts'), number |-> k - 1, count |-> count]]
          /\ outgoingReliableSequenceNumber' =
                (outgoingReliableSequenceNumber + Length(count)) % SeqSpace
  BY DEF enet_peer_send
<1>2. PICK next : Extended(next, at, count)
  BY DEF Extended
<1> DEFINE len == Length(count)
<1>3. len \in Nat \ {0}
  BY CountFacts
<1>4. /\ Numbering(at) /\ SenderNumbers(at, top) /\ SenderEnd(at, top)
      /\ Reach(at, top) /\ NetOrder(at, top) /\ AckOrder(at, top)
      /\ ListOrder(at, top, ids) /\ DeliveryOrder
  BY <1>0 DEF Ends
<1>5. /\ counts \in Seq(Counts) /\ n \in Nat
      /\ Passed \in Nat /\ Passed + 1 \in 1..(n + 1)
      /\ top \in Nat /\ Cur(at) \in Nat /\ StartSeq \in Nat /\ StartSeq <= top
      /\ at[n + 1] \in Nat /\ top < at[n + 1]
  <2>1. n \in Nat /\ n + 1 \in 1..(n + 1)
    BY DEF TypeOK
  <2>2. StartSeq <= Cur(at) /\ Cur(at) <= top
    BY EndFacts
  <2> QED
    BY <1>4, <2>1, <2>2, EndFacts, PacketNumbers, StartFacts
<1>6. /\ Numbering(next)' /\ Len(counts') = n + 1
      /\ next[n + 2] = at[n + 1] + len
      /\ \A i \in 1..(n + 1) : next[i] = at[i]
      /\ \A i \in 1..n : counts'[i] = counts[i]
  BY <1>1, <1>2, <1>4, <1>5, ExtendNumbering
<1>7. /\ \A q : IsPart(q) => /\ IsPart(q)' /\ AbsOf(q, next) = AbsOf(q, at)
                             /\ next[q.pkt] = at[q.pkt] /\ counts'[q.pkt] = counts[q.pkt]
      /\ \A q : IsPart(q)' => \/ IsPart(q)
                              \/ /\ q.pkt = n + 1 /\ q.number \in Nat
                                 /\ AbsOf(q, next) = at[n + 1] + q.number
      /\ \A q : q.pkt = n + 1 /\ q.number \in 0..(len - 1)
                   => IsPart(q)' /\ AbsOf(q, next) = at[n + 1] + q.number
  <2>1. /\ counts' = Append(counts, count) /\ Numbering(at) /\ counts \in Seq(Counts)
        /\ count \in Counts
    BY <1>1, <1>4, <1>5
  <2>2. PartsGrow(next, at, count)
    BY <1>2, <2>1, SendParts
  <2> QED
    BY <2>2 DEF PartsGrow
<1>a. \A q : AbsOf(q, next)' = AbsOf(q, next)
  BY DEF AbsOf
<1>8. Passed' = Passed /\ Cur(next)' = Cur(at)
  <2>1. Passed' = Passed
    BY <1>i DEF Passed
  <2> QED
    BY <1>5, <1>6, <2>1 DEF Cur
<1>9. \A q : IsPart(q) => (Settled(q, next)' <=> Settled(q, at))
  <2>1. \A q : Received(q)' <=> Received(q)
    BY <1>i, <1>8 DEF Received, Members
  <2> QED
    BY <1>7, <1>8, <1>a, <2>1 DEF Settled
<1>10. \A c : Numbered(c, at) => Numbered(c, next)' /\ AbsOf(c, next) = AbsOf(c, at)
  BY <1>7, <1>a DEF Numbered
<1> HIDE DEF len
<1>11. PICK new : new = [k \in 1..len |->
                            [seq |-> (outgoingReliableSequenceNumber + k) % SeqSpace,
                             pkt |-> n + 1, number |-> k - 1, count |-> count]]
  OBVIOUS
<1>12. \A k \in 1..len : /\ new[k].pkt = n + 1 /\ new[k].number = k - 1 /\ new[k].count = count
                         /\ new[k].seq = (outgoingReliableSequenceNumber + k) % SeqSpace
  BY <1>11
<1>13. /\ Len(outgoing') = out + len
       /\ \A j \in 1..out : outgoing'[j] = outgoing[j]
       /\ \A j \in 1..(out + len) : j > out => j - out \in 1..len /\ outgoing'[j] = new[j - out]
  <2>1. outgoing' = outgoing \o new
    BY <1>1, <1>6, <1>11 DEF len
  <2>2. new = [k \in 1..len |-> new[k]]
    BY <1>11
  <2>3. new \in Seq(Command \cup {new[k] : k \in 1..len}) /\ Len(new) = len
    BY <1>3, <2>2, SeqOfLength
  <2>4. outgoing \in Seq(Command \cup {new[k] : k \in 1..len})
    BY <1>0
  <2>5. /\ Len(outgoing') = out + len
        /\ \A j \in 1..(out + len) :
              outgoing'[j] = IF j <= out THEN outgoing[j] ELSE new[j - out]
    BY <2>1, <2>3, <2>4, ConcatProperties
  <2>6. out \in Nat /\ len \in Nat
    BY <1>0, <1>3
  <2> HIDE DEF out
  <2>7. \A j \in 1..out : j \in 1..(out + len) /\ j <= out
    BY <2>6
  <2>8. \A j \in 1..(out + len) : j > out => ~(j <= out) /\ j - out \in 1..len
    BY <2>6
  <2>9. \A j \in 1..out : outgoing'[j] = outgoing[j]
    BY <2>5, <2>7
  <2>10. \A j \in 1..(out + len) : j > out => outgoing'[j] = new[j - out]
    BY <2>5, <2>8
  <2> QED
    BY <2>5, <2>8, <2>9, <2>10
<1>14. ASSUME NEW k \in 1..len
       PROVE  Numbered(new[k], next)' /\ AbsOf(new[k], next) = at[n + 1] + (k - 1)
  <2> DEFINE c == new[k]
             x == at[n + 1] - 1
  <2>1. c.pkt = n + 1 /\ c.number = k - 1 /\ k - 1 \in 0..(len - 1) /\ c.count = count
    BY <1>3, <1>12
  <2>2. IsPart(c)' /\ AbsOf(c, next) = at[n + 1] + (k - 1)
    BY <1>7, <2>1
  <2>3. c.seq = ((x % SeqSpace) + k) % SeqSpace
    BY <1>4, <1>12 DEF SenderNumbers
  <2>4. x \in Nat /\ k \in Nat /\ x + k = at[n + 1] + (k - 1)
    BY <1>3, <1>5
  <2> HIDE DEF x
  <2>5. c.seq = (x + k) % SeqSpace
    BY <2>3, <2>4, SeqNext
  <2>6. counts'[c.pkt] = count
    BY <1>1, <1>2, <1>4, <1>5, <2>1, ExtendNumbering
  <2>7. c.seq = AbsOf(c, next) % SeqSpace
    BY <2>2, <2>4, <2>5
  <2> QED
    BY <1>a, <2>1, <2>2, <2>6, <2>7 DEF Numbered
<1>15. \A c \in Unacked' : \/ c \in Unacked
                           \/ \E k \in 1..len : c = new[k]
  <2>1. ASSUME NEW j \in 1..(out + len)
        PROVE  \/ outgoing'[j] \in Members(outgoing)
               \/ \E k \in 1..len : outgoing'[j] = new[k]
    <3>1. j \in 1..out \/ j > out
      BY <1>0, <1>3
    <3> QED
      BY <1>13, <3>1 DEF Members
  <2> QED
    BY <1>0, <1>13, <2>1 DEF Unacked, Members
<1>16. Unacked \subseteq Unacked'
  <2>1. \A j \in 1..out : j \in 1..(out + len)
    BY <1>0, <1>3
  <2> QED
    BY <1>0, <1>13, <2>1 DEF Unacked, Members
<1>17. SenderNumbers(next, top)'
  <2>1. Len(counts') <= MaxPackets
    BY <1>0, <1>5, <1>6, ChannelAssumption
  <2>2. Len(counts') + 1 = n + 2
    BY <1>5, <1>6
  <2>3. top \in StartSeq..(next[n + 2] - 1)
    BY <1>3, <1>5, <1>6
  <2>4. tried' = {q \in Part : IsPart(q)' /\ AbsOf(q, next)' <= top}
    <3>1. tried = {q \in Part : IsPart(q) /\ AbsOf(q, at) <= top}
      BY <1>4 DEF SenderNumbers
    <3>2. ASSUME NEW q, IsPart(q)', ~IsPart(q) PROVE ~(AbsOf(q, next) <= top)
      <4>1. q.number \in Nat /\ AbsOf(q, next) = at[n + 1] + q.number
        BY <1>7, <3>2
      <4> QED
        BY <1>5, <4>1
    <3>3. \A q : IsPart(q)' /\ AbsOf(q, next)' <= top <=> IsPart(q) /\ AbsOf(q, at) <= top
      BY <1>7, <1>a, <3>2
    <3> QED
      BY <1>0, <3>1, <3>3
  <2>5. outgoingReliableSequenceNumber' = (next[n + 2] - 1) % SeqSpace
    <3> DEFINE x == at[n + 1] - 1
    <3>1. x \in Nat /\ x + len = next[n + 2] - 1 /\ len \in Nat
      BY <1>3, <1>5, <1>6
    <3>2. outgoingReliableSequenceNumber = x % SeqSpace
      BY <1>4 DEF SenderNumbers
    <3>3. outgoingReliableSequenceNumber' = (outgoingReliableSequenceNumber + len) % SeqSpace
      BY <1>1 DEF len
    <3> HIDE DEF x
    <3> QED
      BY <3>1, <3>2, <3>3, SeqNext
  <2>6. \A c \in Unacked : Numbered(c, at)
    BY <1>4 DEF SenderNumbers
  <2>7. \A c \in Unacked' : Numbered(c, next)'
    BY <1>10, <1>14, <1>15, <2>6
  <2> QED
    BY <2>1, <2>2, <2>3, <2>4, <2>5, <2>7 DEF SenderNumbers

<1>18. QueueOrder(next, top)'
  <2> DEFINE g == Again(at, top)
  <2>1. g \in Nat /\ g = out + (top + 1) - at[n + 1]
    BY <1>4 DEF SenderEnd, QueueOrder, Again
  <2>2. \A j \in 1..out : IF j <= g THEN AbsOf(outgoing[j], at) <= top
                                    ELSE AbsOf(outgoing[j], at) = top + (j - g)
    BY <1>4 DEF SenderEnd, QueueOrder
  <2>3. Again(next, top)' = g
    <3>1. Again(next, top)' = (out + len) + (top + 1) - next[n + 2]
      <4>1. Len(counts') + 1 = n + 2
        BY <1>5, <1>6
      <4> QED
        BY <1>13, <4>1 DEF Again
    <3>2. next[n + 2] = at[n + 1] + len
      BY <1>6
    <3>3. out \in Nat /\ len \in Nat /\ top \in Nat /\ at[n + 1] \in Nat
      BY <1>0, <1>3, <1>5
    <3>4. PICK last \in Nat : last = at[n + 1]
      BY <3>3
    <3>5. g = out + (top + 1) - last /\ Again(next, top)' = (out + len) + (top + 1) - (last + len)
      BY <2>1, <3>1, <3>2, <3>4
    <3> HIDE DEF g, n, out
    <3> QED
      BY <3>3, <3>5
  <2> HIDE DEF g
  <2>4. ASSUME NEW j \in 1..(out + len)
        PROVE  IF j <= g THEN AbsOf(outgoing'[j], next) <= top
                         ELSE AbsOf(outgoing'[j], next) = top + (j - g)
    <3>1. CASE j \in 1..out
      <4>1. outgoing'[j] = outgoing[j]
        BY <1>13, <3>1
      <4>2. outgoing[j] \in Unacked
        BY <3>1 DEF Unacked, Members
      <4>3. IsPart(outgoing[j])
        BY <1>4, <4>2 DEF SenderNumbers, Numbered
      <4>4. AbsOf(outgoing'[j], next) = AbsOf(outgoing[j], at)
        BY <1>7, <4>1, <4>3
      <4> QED
        BY <2>2, <3>1, <4>4
    <3>2. CASE j > out
      <4>1. j - out \in 1..len /\ outgoing'[j] = new[j - out]
        BY <1>13, <3>2
      <4>2. AbsOf(outgoing'[j], next) = at[n + 1] + ((j - out) - 1)
        BY <1>14, <4>1
      <4>3. j \in Nat /\ g <= out
        BY <1>0, <1>3, <1>5, <2>1
      <4> HIDE DEF n, out
      <4>4. ~(j <= g) /\ at[n + 1] + ((j - out) - 1) = top + (j - g)
        <5> DEFINE a == at[n + 1]
        <5>1. a \in Nat /\ g = out + (top + 1) - a /\ top \in Nat /\ out \in Nat
          BY <1>0, <1>5, <2>1
        <5> HIDE DEF a
        <5>2. g \in Nat /\ j \in Nat /\ g <= out /\ j > out
          BY <2>1, <3>2, <4>3
        <5>3. ~(j <= g) /\ a + ((j - out) - 1) = top + (j - g)
          BY ONLY <5>1, <5>2
        <5> QED
          BY <5>3 DEF a
      <4> QED
        BY <4>2, <4>4
    <3> QED
      BY <1>0, <1>3, <3>1, <3>2
  <2> QED
    BY <1>13, <1>a, <2>1, <2>3, <2>4 DEF QueueOrder
<1>19. SenderWindow(next, top)'
  <2>1. ASSUME NEW c \in Unacked', AbsOf(c, next) <= top
        PROVE  Win(AbsOf(c, next)) >= Win(top) - WINDOWS + FREE_WINDOWS
    <3>1. CASE c \in Unacked
      <4>1. AbsOf(c, next) = AbsOf(c, at)
        BY <1>4, <1>10, <3>1 DEF SenderNumbers
      <4> QED
        BY <1>4, <2>1, <3>1, <4>1 DEF SenderEnd, SenderWindow
    <3>2. ASSUME NEW k \in 1..len, c = new[k] PROVE FALSE
      <4>1. AbsOf(c, next) = at[n + 1] + (k - 1)
        BY <1>14, <3>2
      <4> QED
        BY <1>3, <1>5, <2>1, <4>1
    <3> QED
      BY <1>15, <3>1, <3>2
  <2> QED
    BY <1>a, <2>1 DEF SenderWindow, Win
<1>20. NoneLost(next)'
  <2>1. ASSUME NEW q \in tried PROVE (\E c \in Unacked' : PartOf(c) = q) \/ Settled(q, next)'
    <3>1. IsPart(q)
      BY <1>4, <2>1 DEF SenderNumbers
    <3>2. (\E c \in Unacked : PartOf(c) = q) \/ Settled(q, at)
      BY <1>4, <2>1 DEF SenderEnd, NoneLost
    <3> QED
      BY <1>9, <1>16, <3>1, <3>2
  <2> QED
    BY <1>0, <2>1 DEF NoneLost, PartOf
<1>21. Reach(next, top)'
  <2>1. Passed <= n /\ Cur(at) <= top /\ Win(top) <= Win(Cur(at)) + FREE_WINDOWS
    BY <1>4 DEF Reach
  <2>2. Passed <= Len(counts')
    BY <1>5, <1>6, <2>1
  <2> QED
    BY <1>8, <2>1, <2>2 DEF Reach, Win
<1>22. \A c : Travels(c, at, top) => Travels(c, next, top)'
  BY <1>10, <1>a DEF Travels
<1>23. \A c : Travels(c, at, top) /\ Recent(c, at, top) => Recent(c, next, top)'
  BY <1>7 DEF Travels, Numbered, Recent, Win
<1>24. \A c : Travels(c, at, top) /\ Settled(c, at) => Settled(c, next)'
  BY <1>9 DEF Travels, Numbered
<1>25. NetOrder(next, top)'
  BY <1>0, <1>4, <1>22, <1>23, <1>24 DEF NetOrder
<1>26. AckOrder(next, top)'
  BY <1>i, <1>4, <1>22, <1>24 DEF AckOrder, Members
<1>27. ListOrder(next, top, ids)'
  <2>1. /\ incomingReliableSequenceNumber = Cur(at) % SeqSpace
        /\ ids \in [1..Len(incoming) -> (Passed + 1)..n]
        /\ \A j, k \in 1..Len(incoming) : j < k => ids[j] < ids[k]
        /\ \A k \in 1..Len(incoming) : EntryOf(incoming[k], ids[k], at, top)
    BY <1>4 DEF ListOrder, Listing
  <2>2. ids \in [1..Len(incoming) -> (Passed + 1)..Len(counts')]
    <3>1. (Passed + 1)..n \subseteq (Passed + 1)..Len(counts')
      BY <1>5, <1>6
    <3> QED
      BY <2>1, <3>1
  <2>3. ASSUME NEW k \in 1..Len(incoming) PROVE EntryOf(incoming[k], ids[k], next, top)'
    <3> DEFINE e == incoming[k]
               i == ids[k]
    <3>1. /\ e.count = counts[i] /\ e.seq = at[i] % SeqSpace /\ e.parts # {}
          /\ \A q \in e.parts : q.pkt = i /\ IsPart(q) /\ AbsOf(q, at) <= top
      BY <2>1 DEF EntryOf
    <3>2. i \in 1..n /\ i \in 1..(n + 1)
      BY <1>5, <2>1
    <3>3. counts'[i] = counts[i] /\ next[i] = at[i]
      BY <1>6, <3>2
    <3>4. \A q \in e.parts : q.pkt = i /\ IsPart(q)' /\ AbsOf(q, next)' <= top
      BY <1>7, <1>a, <3>1
    <3>5. e' = e
      BY <1>i
    <3> HIDE DEF e, i
    <3>6. EntryOf(e, i, next, top)'
      BY <3>1, <3>3, <3>4, <3>5 DEF EntryOf
    <3> QED
      BY <3>6 DEF e, i
  <2> QED
    BY <1>i, <1>8, <2>1, <2>2, <2>3 DEF ListOrder, Listing
<1>28. DeliveryOrder'
  <2>1. ASSUME NEW k \in 1..Len(dispatched) PROVE Whole(dispatched[k], Len(delivered) + k)'
    <3> DEFINE e == dispatched[k]
               i == Len(delivered) + k
    <3>1. e.count = counts[i] /\ e.parts = PartsOf(i)
      BY <1>4 DEF DeliveryOrder, Whole
    <3>2. i \in 1..n
      <4>1. Len(delivered) \in Nat /\ Len(dispatched) \in Nat
        BY DEF TypeOK
      <4>2. Len(delivered) + Len(dispatched) <= n
        BY <1>4 DEF Reach, Passed
      <4> QED
        BY <1>5, <4>1, <4>2
    <3>3. counts'[i] = counts[i]
      BY <1>6, <3>2
    <3>4. PartsOf(i)' = PartsOf(i) /\ e' = e /\ i' = i
      BY <1>i, <3>3 DEF PartsOf
    <3> HIDE DEF e, i
    <3>5. Whole(e, i)'
      BY <3>1, <3>3, <3>4 DEF Whole
    <3> QED
      BY <3>5 DEF e, i
  <2> QED
    BY <1>i, <1>4, <2>1 DEF DeliveryOrder
<1> QED
  BY <1>6, <1>17, <1>18, <1>19, <1>20, <1>21, <1>25, <1>26, <1>27, <1>28 DEF Ends, SenderEnd

\* Reckoning windows around the sequence space.
LEMMA WindowTurn ==
    ASSUME NEW x \in Nat
    PROVE  /\ \A k \in Nat : (WindowOf(x % SeqSpace) + k) % WINDOWS = (Win(x) + k) % WINDOWS
           /\ \A n \in Nat : (n + WINDOWS) % WINDOWS = n % WINDOWS
<1> DEFINE w == WINDOWS
           q == x \div SeqSpace
           r == WindowOf(x % SeqSpace)
<1>1. w \in Nat \ {0} /\ q \in Nat
  BY ChannelAssumption, SpaceFacts, DivFacts
<1>2. r \in Nat /\ Win(x) = w * q + r
  BY SeqWindow
<1> HIDE DEF q, r, w
<1>3. ASSUME NEW k \in Nat PROVE (r + k) % w = (Win(x) + k) % w
  <2> DEFINE y == r + k
             p == y \div w
             s == y % w
             z == Win(x) + k
             v == q + p
  <2>1. y \in Nat
    BY <1>2
  <2>2. p \in Nat /\ s \in Nat /\ s < w /\ y = w * p + s
    BY <1>1, <2>1, DivFacts
  <2> HIDE DEF p, s
  <2>3. w * (q + p) = w * q + w * p /\ w * q \in Nat /\ w * p \in Nat /\ q + p \in Nat
    BY <1>1, <2>2
  <2>4. z \in Nat /\ z = w * v + s /\ v \in Nat
    BY <1>2, <2>2, <2>3
  <2> HIDE DEF z, v
  <2>5. z % w = s
    BY <1>1, <2>2, <2>4, DivUnique
  <2> QED
    BY <2>5, Zenon DEF s, y, z
<1>4. ASSUME NEW n \in Nat PROVE (n + w) % w = n % w
  <2> DEFINE p == n \div w
             s == n % w
             z == n + w
             v == p + 1
  <2>1. p \in Nat /\ s \in Nat /\ s < w /\ n = w * p + s
    BY <1>1, DivFacts
  <2> HIDE DEF p, s
  <2>2. w * (p + 1) = w * p + w /\ w * p \in Nat
    BY <1>1, <2>1
  <2>3. z \in Nat /\ z = w * v + s /\ v \in Nat
    BY <1>1, <2>1, <2>2
  <2> HIDE DEF z, v
  <2>4. z % w = s
    BY <1>1, <2>1, <2>3, DivUnique
  <2> QED
    BY <2>4, Zenon DEF s, z
<1> QED
  BY <1>3, <1>4 DEF r, w

\* The transmitted parts of a window the receiver has not come near are all listed:
\* when they are the whole window, its counter is at its limit.
LEMMA FullWindow ==
    ASSUME TypeOK, ListsInv, open, NEW at, NEW top, NEW ids, Ends(at, top, ids),
           NEW v \in Nat, Win(Cur(at)) + FREE_WINDOWS <= v,
           WINDOW_SIZE * v + WINDOW_SIZE <= top + 1
    PROVE  Cardinality(Flying(Unacked, tried, v % WINDOWS)) >= WINDOW_SIZE
<1> DEFINE s == WINDOW_SIZE
           b == WINDOW_SIZE * v
           F == Flying(Unacked, tried, v % WINDOWS)
           I == 0..(s - 1)
<1>1. /\ Numbering(at) /\ SenderNumbers(at, top) /\ NoneLost(at)
      /\ counts \in Seq(Counts) /\ Len(counts) <= MaxPackets
      /\ top \in Nat /\ Cur(at) \in Nat /\ StartSeq <= Cur(at) /\ top < at[Len(counts) + 1]
      /\ Len(counts) + 1 \in 1..(Len(counts) + 1)
  BY EndFacts DEF Ends, SenderEnd, SenderNumbers
<1>2. s \in Nat \ {0} /\ b \in Nat /\ StartSeq \in Nat /\ FREE_WINDOWS \in Nat /\ FREE_WINDOWS >= 3
  BY ChannelAssumption, StartFacts
<1>3. at[Len(counts) + 1] \in Nat
  BY <1>1, PacketNumbers
<1>4. ASSUME NEW j \in I
      PROVE  \E c \in F : AbsOf(c, at) = b + j
  <2> DEFINE x == b + j
  <2>1. x \in Nat /\ x = s * v + j /\ j \in Nat /\ j < s /\ x <= top
    BY <1>1, <1>2
  <2>2. Win(x) = v
    BY <1>2, <2>1, DivUnique DEF Win
  <2>3. Win(Cur(at)) \in Nat
    BY <1>1, WinFacts
  <2>4. Cur(at) < x
    BY <1>1, <1>2, <2>1, <2>2, <2>3, WinOrder
  <2> HIDE DEF x, b, s
  <2>5. StartSeq < x /\ x < at[Len(counts) + 1]
    BY <1>1, <1>2, <1>3, <2>1, <2>4
  <2>6. PICK q \in Part : IsPart(q) /\ AbsOf(q, at) = x
    BY <1>1, <2>1, <2>5, PartAt
  <2>7. q \in tried
    BY <1>1, <2>1, <2>6 DEF SenderNumbers
  <2>8. ~Settled(q, at)
    BY <1>2, <2>2, <2>3, <2>6 DEF Settled
  <2>9. PICK c \in Unacked : PartOf(c) = q
    BY <1>1, <2>7, <2>8 DEF NoneLost
  <2>10. c \in Command
    BY MembersType DEF Unacked, TypeOK
  <2>11. AbsOf(c, at) = x
    BY <2>6, <2>9, <2>10, PartOfFacts
  <2>12. c.seq = x % SeqSpace
    BY <1>1, <2>11 DEF SenderNumbers, Numbered
  <2>13. WindowOf(c.seq) = v % WINDOWS
    BY <2>1, <2>2, <2>12, SeqWindow
  <2>14. c \in F
    BY <2>7, <2>9, <2>13 DEF Flying
  <2> QED
    BY <2>11, <2>14 DEF x
<1> DEFINE f == [j \in I |-> CHOOSE c \in F : AbsOf(c, at) = b + j]
<1>5. \A j \in I : f[j] \in F /\ AbsOf(f[j], at) = b + j
  BY <1>4
<1>6. \A i, j \in I : f[i] = f[j] => i = j
  <2>1. \A i \in I : i \in Nat
    BY <1>2
  <2> QED
    BY <1>2, <1>5, <2>1
<1>7. IsFiniteSet(F)
  BY InTransitFlying
<1>8. f \in Injection(I, F)
  <2> HIDE DEF I
  <2>1. f \in [I -> F]
    BY <1>5
  <2> HIDE DEF f
  <2> QED
    BY <1>6, <2>1 DEF Injection, IsInjective
<1> HIDE DEF f, F
<1>9. Cardinality(I) = s
  BY <1>2, FS_Interval
<1>10. Cardinality(I) <= Cardinality(F)
  BY <1>7, <1>8, FS_Injection
<1>11. Cardinality(F) \in Nat
  BY <1>7, FS_CardinalityType
<1> QED
  BY <1>2, <1>9, <1>10, <1>11 DEF F, s

\* SendReliable moves the head of the queue to the commands sent.
Moves(c) ==
    /\ c \in Command /\ c \in Unacked /\ Unacked' = Unacked
    /\ Len(outgoing) \in Nat \ {0} /\ outgoing[1] = c
    /\ Len(outgoing') = Len(outgoing) - 1
    /\ \A j \in 1..Len(outgoing') : j + 1 \in 1..Len(outgoing) /\ outgoing'[j] = outgoing[j + 1]
    /\ tried' = tried \cup {PartOf(c)}
    /\ net' = Surviving(tried') \cup {[type |-> "data", cmd |-> c]}
LEMMA TransmitMoves ==
    ASSUME ChannelInv, SendReliable
    PROVE  Moves(Head(outgoing))
<1> DEFINE c == Head(outgoing)
<1>1. /\ outgoing \in Seq(Command) /\ outgoing # << >> /\ Commands(outgoing) /\ sent \in Seq(Command)
      /\ tried' = tried \cup {PartOf(c)} /\ outgoing' = Tail(outgoing)
      /\ sent' = Append(sent, c)
      /\ net' = Surviving(tried') \cup {[type |-> "data", cmd |-> c]}
      /\ Commands(sent) /\ Apart(sent, outgoing)
  BY DEF SendReliable, ChannelInv, TypeOK, ListsInv
<1>2. c \in Command /\ Members(outgoing) = Members(outgoing') \cup {c}
  BY <1>1, TailList
<1>3. Members(sent') = Members(sent) \cup {c}
  BY <1>1, <1>2, AppendList DEF Apart
<1>4. Unacked' = Unacked /\ c \in Unacked
  BY <1>2, <1>3 DEF Unacked
<1>5. /\ Len(outgoing) \in Nat \ {0} /\ outgoing[1] = c
      /\ Len(outgoing') = Len(outgoing) - 1
      /\ \A j \in 1..Len(outgoing') : outgoing'[j] = outgoing[j + 1]
  BY <1>1, HeadTailProperties
<1>6. \A j \in 1..Len(outgoing') : j + 1 \in 1..Len(outgoing)
  BY <1>5
<1> QED
  BY <1>1, <1>2, <1>4, <1>5, <1>6 DEF Moves

\* A command transmitted again leaves the ones that go out again.
LEMMA RetransmitDelivery ==
    ASSUME TypeOK, SendReliable, NEW c, Moves(c), PartOf(c) \in tried,
           NEW at, NEW top, NEW ids, Ends(at, top, ids)
    PROVE  Ends(at, top, ids)'
<1> DEFINE g == Again(at, top)
           out == Len(outgoing)
<1>1. /\ c \in Command /\ c \in Unacked /\ Unacked' = Unacked
      /\ out \in Nat \ {0} /\ outgoing[1] = c /\ Len(outgoing') = out - 1
      /\ \A j \in 1..Len(outgoing') : j + 1 \in 1..out /\ outgoing'[j] = outgoing[j + 1]
      /\ tried' = tried /\ net' = Surviving(tried') \cup {[type |-> "data", cmd |-> c]}
  BY DEF Moves
<1>2. /\ open /\ UNCHANGED open /\ UNCHANGED <<counts, receiverVars>>
      /\ UNCHANGED counts /\ UNCHANGED outgoingReliableSequenceNumber
      /\ UNCHANGED <<incoming, dispatched, delivered>>
  BY DEF SendReliable, receiverVars
<1>3. /\ Numbering(at) /\ SenderNumbers(at, top) /\ SenderEnd(at, top)
      /\ NetOrder(at, top) /\ Reach(at, top)
      /\ QueueOrder(at, top) /\ SenderWindow(at, top) /\ NoneLost(at)
  BY <1>2 DEF Ends, SenderEnd
<1>4. /\ counts \in Seq(Counts) /\ top \in Nat /\ at[Len(counts) + 1] \in Nat
      /\ Len(counts) + 1 \in 1..(Len(counts) + 1)
  BY <1>3, EndFacts, PacketNumbers
<1>5. /\ \A q : IsPart(q)' <=> IsPart(q)
      /\ \A d : Numbered(d, at)' <=> Numbered(d, at)
      /\ \A q : Settled(q, at)' <=> Settled(q, at)
      /\ \A q : AbsOf(q, at)' = AbsOf(q, at)
  BY <1>2, SamePackets, SameReceived DEF AbsOf
<1>6. IsPart(c) /\ AbsOf(c, at) <= top /\ AbsOf(c, at) \in Nat
  <2>1. IsPart(c) /\ AbsOf(c, at) <= top
    BY <1>1, <1>3, TriedFacts
  <2> QED
    BY <1>3, <1>4, <2>1, PartNumbers
<1>7. SenderNumbers(at, top)'
  BY <1>1, <1>2, <1>3, <1>5 DEF SenderNumbers
<1>8. SenderWindow(at, top)'
  BY <1>1, <1>3, <1>5 DEF SenderWindow, Win
<1>9. NoneLost(at)'
  BY <1>1, <1>3, <1>5 DEF NoneLost, PartOf
<1>10. QueueOrder(at, top)'
  <2>1. g \in Nat /\ g = out + (top + 1) - at[Len(counts) + 1]
    BY <1>3 DEF QueueOrder, Again
  <2>2. \A j \in 1..out : IF j <= g THEN AbsOf(outgoing[j], at) <= top
                                    ELSE AbsOf(outgoing[j], at) = top + (j - g)
    BY <1>3 DEF QueueOrder
  <2>3. Again(at, top)' = g - 1
    <3>1. Again(at, top)' = (out - 1) + (top + 1) - at[Len(counts) + 1]
      BY <1>1, <1>2 DEF Again
    <3> HIDE DEF g, out
    <3> QED
      BY <1>1, <1>4, <2>1, <3>1
  <2> HIDE DEF g
  <2>4. g # 0
    <3>1. 1 \in 1..out
      BY <1>1
    <3>2. IF 1 <= g THEN AbsOf(c, at) <= top ELSE AbsOf(c, at) = top + (1 - g)
      BY <1>1, <2>2, <3>1
    <3>3. g = 0 => AbsOf(c, at) = top + 1
      BY <3>2
    <3> QED
      BY <1>4, <1>6, <3>3
  <2>5. ASSUME NEW j \in 1..Len(outgoing')
        PROVE  IF j <= g - 1 THEN AbsOf(outgoing'[j], at) <= top
                             ELSE AbsOf(outgoing'[j], at) = top + (j - (g - 1))
    <3>1. j + 1 \in 1..out /\ outgoing'[j] = outgoing[j + 1] /\ j \in Int
      BY <1>1
    <3>2. IF j + 1 <= g THEN AbsOf(outgoing'[j], at) <= top
                        ELSE AbsOf(outgoing'[j], at) = top + ((j + 1) - g)
      BY <2>2, <3>1
    <3>3. (j + 1 <= g <=> j <= g - 1) /\ (j + 1) - g = j - (g - 1)
      BY <2>1, <3>1
    <3> QED
      BY <3>2, <3>3
  <2>6. g - 1 \in Nat
    BY <2>1, <2>4
  <2> QED
    BY <1>5, <2>3, <2>5, <2>6 DEF QueueOrder
<1>11. NetOrder(at, top)'
  <2>1. Travels(c, at, top)
    BY <1>1, <1>3, <1>6 DEF Travels, SenderNumbers
  <2>2. Recent(c, at, top)
    <3>1. Win(AbsOf(c, at)) >= Win(top) - WINDOWS + FREE_WINDOWS
      BY <1>1, <1>3, <1>6 DEF SenderWindow
    <3> QED
      BY <1>3, <1>4, <1>6, <3>1, RecentListed
  <2>3. \A d \in net' : d \in net \/ d = [type |-> "data", cmd |-> c]
    BY <1>1 DEF Surviving
  <2>4. \A d \in net' : /\ Travels(d.cmd, at, top) /\ Recent(d.cmd, at, top)
                        /\ d.type = "ack" => Settled(d.cmd, at)
    BY <1>3, <2>1, <2>2, <2>3 DEF NetOrder
  <2> QED
    BY <1>5, <2>4 DEF NetOrder, Travels, Recent, Win
<1>12. Cur(at)' = Cur(at)
  BY <1>2, SameReceived
<1>13. SenderKeeps(at, top)
  BY <1>3, <1>7, <1>8, <1>9, <1>10, <1>11 DEF SenderKeeps, SenderEnd, Reach
<1> QED
  BY <1>2, <1>4, <1>13, SenderStep

\* windowWrap keeps a first transmission within the windows the sender allows: none of
\* the next windows is in use, and the window before is not full.
LEMMA FirstInWindow ==
    ASSUME ChannelInv, NEW c \in Unacked, c \in Command, PartOf(c) \notin tried, ~windowWrap(c), open,
           NEW at, NEW top, NEW ids, Ends(at, top, ids), AbsOf(c, at) = top + 1
    PROVE  /\ Win(top + 1) <= Win(Cur(at)) + FREE_WINDOWS
           /\ \A d \in Unacked : AbsOf(d, at) <= top
                 => Win(AbsOf(d, at)) >= Win(top + 1) - WINDOWS + FREE_WINDOWS
<1> DEFINE last == top + 1
           w == WindowOf(c.seq)
           r == Cur(at)
<1>1. /\ TypeOK /\ ListsInv /\ CountersInv
      /\ SenderNumbers(at, top) /\ SenderWindow(at, top) /\ Numbering(at) /\ Reach(at, top)
  BY DEF ChannelInv, Ends, SenderEnd
<1>2. top \in Nat /\ last \in Nat /\ r \in Nat /\ counts \in Seq(Counts) /\ r <= top
  BY <1>1, EndFacts
<1>3. /\ Win(top) \in Nat /\ Win(last) \in Nat /\ Win(r) \in Nat
      /\ WINDOWS \in Nat \ {0} /\ FREE_WINDOWS \in Nat \ {0} /\ WINDOW_SIZE \in Nat \ {0}
      /\ FREE_WINDOWS < WINDOWS
  <2>1. Win(top) \in Nat /\ Win(last) \in Nat /\ Win(r) \in Nat
    BY <1>2, WinFacts
  <2>2. /\ WINDOWS \in Nat \ {0} /\ FREE_WINDOWS \in Nat \ {0} /\ WINDOW_SIZE \in Nat \ {0}
        /\ FREE_WINDOWS < WINDOWS
    BY ChannelAssumption
  <2> QED
    BY <2>1, <2>2
<1>4. Win(top) <= Win(last) /\ Win(last) <= Win(top) + 1
  <2>1. top <= last /\ last <= top + 1 * WINDOW_SIZE
    BY <1>2, <1>3
  <2> HIDE DEF last
  <2> QED
    BY <1>2, <2>1, WinOrder, WinSpan
<1>5. c.seq = last % SeqSpace
  BY <1>1 DEF SenderNumbers, Numbered
<1>6. Win(top) <= Win(r) + FREE_WINDOWS
  BY <1>1 DEF Reach
<1>7. ASSUME NEW d \in Unacked, AbsOf(d, at) <= top
      PROVE  Win(AbsOf(d, at)) \in Nat /\ Win(AbsOf(d, at)) >= Win(top) - WINDOWS + FREE_WINDOWS
  <2>1. IsPart(d)
    BY <1>1 DEF SenderNumbers, Numbered
  <2> QED
    BY <1>1, <1>2, <1>7, <2>1, PartNumbers, WinFacts DEF SenderWindow
<1>8. CASE Win(last) = Win(top)
  BY <1>6, <1>7, <1>8
<1>9. CASE Win(last) = Win(top) + 1
  <2>1. last % WINDOW_SIZE = 0 /\ last = WINDOW_SIZE * Win(top) + WINDOW_SIZE
    <3> DEFINE s == WINDOW_SIZE
               u == Win(top)
    <3>1. u \in Nat /\ s \in Nat \ {0} /\ Win(last) = u + 1
      BY <1>3, <1>9
    <3>2. top < s * u + s /\ s * Win(last) <= last
      BY <1>2, WinFacts
    <3> HIDE DEF u, s
    <3>3. s * (u + 1) = s * u + s /\ s * u \in Nat
      BY <3>1
    <3>4. s * u + s <= last
      BY <3>1, <3>2, <3>3
    <3>5. last = s * u + s
      BY <1>2, <3>1, <3>2, <3>3, <3>4
    <3> DEFINE v == u + 1
    <3>6. v \in Nat /\ last = s * v + 0 /\ 0 < s
      BY <3>1, <3>3, <3>5
    <3> HIDE DEF v, last
    <3>7. last % s = 0
      <4>1. last \in Nat /\ s \in Nat \ {0} /\ 0 \in Nat
        BY <1>2, <3>1
      <4> QED
        BY <3>6, <4>1, DivUnique
    <3> QED
      BY <3>5, <3>7 DEF s, u
  <2>2. c.seq % WINDOW_SIZE = 0
    BY <1>2, <1>5, <2>1, SeqWindow
  <2>3. /\ reliableWindows[(w + WINDOWS - 1) % WINDOWS] < WINDOW_SIZE
        /\ \A k \in 0..(FREE_WINDOWS - 1) : (w + k) % WINDOWS \notin usedReliableWindows
    <3>1. /\ ~(reliableWindows[(w + WINDOWS - 1) % WINDOWS] >= WINDOW_SIZE)
          /\ \A k \in 0..(FREE_WINDOWS - 1) : (w + k) % WINDOWS \notin usedReliableWindows
      BY <2>2 DEF windowWrap
    <3>2. (w + WINDOWS - 1) % WINDOWS \in Window
      <4>1. w \in Int
        BY <1>2, <1>5, SeqWindow
      <4>2. w + WINDOWS - 1 \in Int
        BY <1>3, <4>1
      <4> HIDE DEF w
      <4> QED
        BY <4>2, SpaceFacts
    <3>3. reliableWindows[(w + WINDOWS - 1) % WINDOWS] \in Nat
      BY <1>1, <3>2 DEF TypeOK
    <3> QED
      BY <1>3, <3>1, <3>3
  <2>4. \A k \in Nat : (w + k) % WINDOWS = (Win(last) + k) % WINDOWS
    BY <1>2, <1>5, WindowTurn
  <2>5. ~(Win(r) + FREE_WINDOWS <= Win(top))
    <3>1. ASSUME Win(r) + FREE_WINDOWS <= Win(top) PROVE FALSE
      <4>1. WINDOW_SIZE * Win(top) + WINDOW_SIZE <= top + 1
        BY <1>2, <2>1
      <4>2. Cardinality(Flying(Unacked, tried, Win(top) % WINDOWS)) >= WINDOW_SIZE
        BY <1>1, <1>3, <3>1, <4>1, FullWindow
      <4>3. (w + WINDOWS - 1) % WINDOWS = Win(top) % WINDOWS
        <5> DEFINE k == WINDOWS - 1
        <5>1. k \in Nat /\ w \in Int
          BY <1>2, <1>3, <1>5, SeqWindow
        <5>2. w + WINDOWS - 1 = w + k /\ Win(last) + k = Win(top) + WINDOWS
          BY <1>3, <1>9, <5>1
        <5> HIDE DEF k
        <5>3. (w + k) % WINDOWS = (Win(top) + WINDOWS) % WINDOWS
          BY <2>4, <5>1, <5>2
        <5>4. (Win(top) + WINDOWS) % WINDOWS = Win(top) % WINDOWS
          BY <1>2, <1>3, WindowTurn
        <5> QED
          BY <5>2, <5>3, <5>4
      <4>4. Win(top) % WINDOWS \in Window
        BY <1>3, SpaceFacts
      <4>5. reliableWindows[Win(top) % WINDOWS] = Cardinality(Flying(Unacked, tried, Win(top) % WINDOWS))
        BY <1>1, <4>4 DEF CountersInv
      <4>6. reliableWindows[Win(top) % WINDOWS] \in Nat
        BY <1>1, <4>4 DEF TypeOK
      <4> QED
        BY <1>3, <2>3, <4>2, <4>3, <4>5, <4>6
    <3> QED
      BY <3>1
  <2>6. Win(last) <= Win(r) + FREE_WINDOWS
    BY <1>3, <1>9, <2>5
  <2>7. ASSUME NEW d \in Unacked, AbsOf(d, at) <= top
        PROVE  Win(AbsOf(d, at)) >= Win(last) - WINDOWS + FREE_WINDOWS
    <3> DEFINE u == Win(AbsOf(d, at))
    <3>1. u \in Nat /\ u >= Win(top) - WINDOWS + FREE_WINDOWS
      BY <1>7, <2>7
    <3>2. ASSUME u = Win(top) - WINDOWS + FREE_WINDOWS PROVE FALSE
      <4> DEFINE k == FREE_WINDOWS - 1
      <4>1. k \in 0..(FREE_WINDOWS - 1) /\ k \in Nat
        BY <1>3
      <4>2. u + WINDOWS = Win(last) + k
        BY <1>3, <1>9, <3>1, <3>2
      <4> HIDE DEF k, u, last, w
      <4>3. (w + k) % WINDOWS = (u + WINDOWS) % WINDOWS
        BY <2>4, <4>1, <4>2
      <4>4. (u + WINDOWS) % WINDOWS = u % WINDOWS
        BY <1>2, <3>1, WindowTurn
      <4>5. d \in Command
        BY <1>1, <2>7, MembersType DEF Unacked, TypeOK
      <4>6. IsPart(d) /\ d.seq = AbsOf(d, at) % SeqSpace
        BY <1>1, <2>7 DEF SenderNumbers, Numbered
      <4>7. PartOf(d) \in tried
        BY <1>1, <2>7, <4>5, <4>6, TriedFacts
      <4>8. AbsOf(d, at) \in Nat
        BY <1>1, <1>2, <4>6, PartNumbers
      <4>9. WindowOf(d.seq) = u % WINDOWS
        BY <4>6, <4>8, SeqWindow DEF u
      <4>10. d \in Flying(Unacked, tried, u % WINDOWS)
        BY <2>7, <4>7, <4>9 DEF Flying
      <4> DEFINE F == Flying(Unacked, tried, u % WINDOWS)
      <4>11. IsFiniteSet(F) /\ F # {}
        BY <1>1, <4>10, InTransitFlying
      <4>12. Cardinality(F) \in Nat /\ Cardinality(F) # 0
        BY <4>11, FS_CardinalityType, FS_EmptySet
      <4>13. u % WINDOWS \in Window
        BY <3>1, SpaceFacts
      <4>14. reliableWindows[u % WINDOWS] > 0
        BY <1>1, <4>12, <4>13 DEF CountersInv
      <4>15. u % WINDOWS \in usedReliableWindows
        BY <1>1, <4>13, <4>14 DEF CountersInv
      <4>16. (w + k) % WINDOWS \notin usedReliableWindows
        BY <2>3, <4>1
      <4> QED
        BY <4>3, <4>4, <4>15, <4>16
    <3> HIDE DEF u
    <3>3. u >= Win(last) - WINDOWS + FREE_WINDOWS
      BY <1>3, <1>9, <3>1, <3>2
    <3> QED
      BY <3>3 DEF u
  <2> QED
    BY <2>6, <2>7
<1>10. Win(last) = Win(top) \/ Win(last) = Win(top) + 1
  BY <1>3, <1>4
<1> QED
  BY <1>8, <1>9, <1>10

\* A command transmitted for the first time has the next number; the datagrams that
\* outlive it are still recent.
LEMMA FirstDelivery ==
    ASSUME ChannelInv, SendReliable, NEW c, Moves(c), c = Head(outgoing), PartOf(c) \notin tried,
           NEW at, NEW top, NEW ids, Ends(at, top, ids)
    PROVE  Ends(at, top + 1, ids)'
<1> DEFINE last == top + 1
           n == Len(counts)
           g == Again(at, top)
           out == Len(outgoing)
<1>1. /\ c \in Command /\ c \in Unacked /\ Unacked' = Unacked
      /\ out \in Nat \ {0} /\ outgoing[1] = c /\ Len(outgoing') = out - 1
      /\ \A j \in 1..Len(outgoing') : j + 1 \in 1..out /\ outgoing'[j] = outgoing[j + 1]
      /\ tried' = tried \cup {PartOf(c)}
      /\ net' = Surviving(tried') \cup {[type |-> "data", cmd |-> c]}
  BY DEF Moves
<1>2. /\ open /\ UNCHANGED open /\ UNCHANGED <<counts, receiverVars>>
      /\ UNCHANGED counts /\ UNCHANGED outgoingReliableSequenceNumber
      /\ UNCHANGED <<incoming, dispatched, delivered>>
      /\ TypeOK /\ ~windowWrap(c)
  BY DEF SendReliable, receiverVars, ChannelInv
<1>3. /\ Numbering(at) /\ SenderNumbers(at, top) /\ NetOrder(at, top) /\ Reach(at, top)
      /\ QueueOrder(at, top) /\ SenderWindow(at, top) /\ NoneLost(at)
  BY <1>2 DEF Ends, SenderEnd
<1>4. /\ counts \in Seq(Counts) /\ top \in Nat /\ last \in Nat /\ at[n + 1] \in Nat
      /\ n + 1 \in 1..(n + 1) /\ top < at[n + 1] /\ StartSeq <= top /\ StartSeq \in Nat
  <2>1. counts \in Seq(Counts) /\ top \in Nat /\ n \in Nat /\ top < at[n + 1] /\ StartSeq <= top
    <3>1. StartSeq <= Cur(at) /\ Cur(at) <= top /\ Cur(at) \in Nat
      BY <1>2, EndFacts
    <3> QED
      BY <1>2, <3>1, EndFacts, StartFacts
  <2>2. n + 1 \in 1..(n + 1)
    BY <2>1
  <2> QED
    BY <1>3, <2>1, <2>2, PacketNumbers, StartFacts
<1>5. /\ \A q : IsPart(q)' <=> IsPart(q)
      /\ \A d : Numbered(d, at)' <=> Numbered(d, at)
      /\ \A q : Settled(q, at)' <=> Settled(q, at)
      /\ \A q : AbsOf(q, at)' = AbsOf(q, at)
  BY <1>2, SamePackets, SameReceived DEF AbsOf
<1>6. IsPart(c) /\ AbsOf(c, at) \in Nat /\ ~(AbsOf(c, at) <= top) /\ Numbered(c, at)
      /\ AbsOf(c, at) < at[n + 1]
  <2>1. Numbered(c, at) /\ IsPart(c)
    BY <1>1, <1>3 DEF SenderNumbers, Numbered
  <2>2. ~(AbsOf(c, at) <= top)
    BY <1>1, <1>3, <2>1, TriedFacts
  <2>3. /\ AbsOf(c, at) \in Nat /\ AbsOf(c, at) < at[c.pkt + 1] /\ c.pkt + 1 \in 1..(n + 1)
    BY <1>3, <1>4, <2>1, PartNumbers
  <2>4. at[c.pkt + 1] \in Nat /\ at[c.pkt + 1] <= at[n + 1]
    <3>1. c.pkt + 1 <= n + 1
      BY <1>4, <2>3
    <3> QED
      BY <1>3, <1>4, <2>3, <3>1, PacketNumbers
  <2> QED
    BY <1>4, <2>1, <2>2, <2>3, <2>4
<1>7. /\ g \in Nat /\ g = out + (top + 1) - at[n + 1]
      /\ \A j \in 1..out : IF j <= g THEN AbsOf(outgoing[j], at) <= top
                                     ELSE AbsOf(outgoing[j], at) = top + (j - g)
  BY <1>3 DEF QueueOrder, Again
<1>8. g = 0 /\ AbsOf(c, at) = last
  <2>1. 1 \in 1..out
    BY <1>1
  <2>2. IF 1 <= g THEN AbsOf(c, at) <= top ELSE AbsOf(c, at) = top + (1 - g)
    BY <1>1, <1>7, <2>1
  <2> HIDE DEF g
  <2>3. ~(1 <= g)
    BY <1>6, <2>2
  <2>4. g = 0
    BY <1>7, <2>3
  <2> QED
    BY <1>4, <2>2, <2>4
<1>9. /\ Win(last) <= Win(Cur(at)) + FREE_WINDOWS
      /\ \A d \in Unacked : AbsOf(d, at) <= top
            => Win(AbsOf(d, at)) >= Win(last) - WINDOWS + FREE_WINDOWS
  BY <1>1, <1>2, <1>8, FirstInWindow
<1>10. last < at[n + 1] /\ last \in StartSeq..(at[n + 1] - 1)
  BY <1>4, <1>6, <1>8
<1>11. \A q : IsPart(q)
               => (AbsOf(q, at) <= last <=> (AbsOf(q, at) <= top \/ AbsOf(q, at) = last))
  <2>1. ASSUME NEW q, IsPart(q)
        PROVE  AbsOf(q, at) <= last <=> AbsOf(q, at) <= top \/ AbsOf(q, at) = last
    <3>1. AbsOf(q, at) \in Nat
      BY <1>3, <1>4, <2>1, PartNumbers
    <3> QED
      BY <1>4, <3>1
  <2> QED
    BY <2>1, Zenon
<1>e. \A q : IsPart(q) /\ AbsOf(q, at) <= top => AbsOf(q, at) <= last
  BY <1>11
<1>12. SenderNumbers(at, last)'
  <2>1. ASSUME NEW q \in Part
        PROVE  q \in tried' <=> IsPart(q) /\ AbsOf(q, at) <= last
    <3>1. q \in tried <=> IsPart(q) /\ AbsOf(q, at) <= top
      BY <1>3 DEF SenderNumbers
    <3>2. q = PartOf(c) => IsPart(q) /\ AbsOf(q, at) = last
      BY <1>1, <1>6, <1>8, PartOfFacts
    <3>3. ASSUME IsPart(q), AbsOf(q, at) = last PROVE q = PartOf(c)
      <4>1. q.pkt = c.pkt /\ q.number = c.number
        BY <1>3, <1>4, <1>6, <1>8, <3>3, UniquePart
      <4>2. q = [pkt |-> q.pkt, number |-> q.number]
        BY DEF Part
      <4> QED
        BY <4>1, <4>2 DEF PartOf
    <3>4. q \in tried' <=> q \in tried \/ q = PartOf(c)
      BY <1>1
    <3> QED
      BY <1>11, <3>1, <3>2, <3>3, <3>4, Zenon
  <2>2. tried' \subseteq Part
    <3>1. tried \subseteq Part
      BY <1>3 DEF SenderNumbers
    <3> QED
      BY <1>1, <3>1, PartOfFacts
  <2>3. tried' = {q \in Part : IsPart(q)' /\ AbsOf(q, at)' <= last}
    BY <1>5, <2>1, <2>2
  <2>4. /\ Len(counts) <= MaxPackets
        /\ outgoingReliableSequenceNumber = (at[n + 1] - 1) % SeqSpace
        /\ \A d \in Unacked : Numbered(d, at)
    BY <1>3 DEF SenderNumbers
  <2> QED
    BY <1>1, <1>2, <1>5, <1>10, <2>3, <2>4 DEF SenderNumbers
<1>13. \A d \in Unacked : AbsOf(d, at) <= last
             => Win(AbsOf(d, at)) >= Win(last) - WINDOWS + FREE_WINDOWS
  <2>1. ASSUME NEW d \in Unacked, AbsOf(d, at) <= last
        PROVE  Win(AbsOf(d, at)) >= Win(last) - WINDOWS + FREE_WINDOWS
    <3>1. IsPart(d)
      BY <1>3 DEF SenderNumbers, Numbered
    <3>2. AbsOf(d, at) <= top \/ AbsOf(d, at) = last
      BY <1>11, <2>1, <3>1
    <3>3. Win(last) >= Win(last) - WINDOWS + FREE_WINDOWS
      <4>1. Win(last) \in Nat
        BY <1>4, WinFacts
      <4> QED
        BY <4>1, ChannelAssumption
    <3> QED
      BY <1>9, <3>2, <3>3
  <2> QED
    BY <2>1
<1>14. SenderWindow(at, last)'
  BY <1>1, <1>5, <1>13 DEF SenderWindow, Win
<1>15. NoneLost(at)'
  <2>1. \A q \in tried' : (\E d \in Unacked : PartOf(d) = q) \/ Settled(q, at)
    BY <1>1, <1>3 DEF NoneLost
  <2> QED
    BY <1>1, <1>5, <2>1 DEF NoneLost, PartOf
<1>16. QueueOrder(at, last)'
  <2>1. Again(at, last)' = 0
    <3>1. Again(at, last)' = (out - 1) + (last + 1) - at[n + 1]
      BY <1>1, <1>2 DEF Again
    <3>2. PICK a \in Nat : a = at[n + 1]
      BY <1>4
    <3>3. /\ Again(at, last)' = (out - 1) + (last + 1) - a /\ out + (top + 1) - a = 0
          /\ out \in Nat /\ top \in Nat /\ last = top + 1
      BY <1>1, <1>4, <1>7, <1>8, <3>1, <3>2
    <3>4. PICK o \in Nat, b \in Nat : o = out /\ b = top
      BY <3>3
    <3>5. (o - 1) + ((b + 1) + 1) - a = 0
      <4>1. o + (b + 1) - a = 0
        BY <3>3, <3>4
      <4> QED
        BY <3>2, <3>4, <4>1
    <3>6. Again(at, last)' = (o - 1) + ((b + 1) + 1) - a
      BY <3>3, <3>4
    <3> QED
      BY <3>5, <3>6
  <2>2. ASSUME NEW j \in 1..Len(outgoing') PROVE j \in Nat \ {0} /\ AbsOf(outgoing'[j], at) = last + (j - 0)
    <3>1. j + 1 \in 1..out /\ outgoing'[j] = outgoing[j + 1] /\ j \in Nat /\ j # 0
      BY <1>1
    <3>2. ~(j + 1 <= g) /\ (j + 1) - g = 1 + j
      BY <1>8, <3>1
    <3>3. AbsOf(outgoing'[j], at) = top + ((j + 1) - g)
      BY <1>7, <3>1, <3>2
    <3>4. PICK y \in Nat : y = top + 1 /\ last = y
      BY <1>4
    <3> HIDE DEF g, last
    <3>5. top + (1 + j) = last + (j - 0)
      BY <1>4, <3>1, <3>4
    <3>6. AbsOf(outgoing'[j], at) = top + (1 + j)
      BY <3>2, <3>3
    <3> QED
      BY <3>1, <3>5, <3>6
  <2> QED
    BY <1>5, <2>1, <2>2 DEF QueueOrder
<1>17. NetOrder(at, last)'
  <2>1. Travels(c, at, last) /\ Recent(c, at, last)
    <3>1. Travels(c, at, last)
      BY <1>6, <1>11, <1>8 DEF Travels
    <3>2. Win(AbsOf(c, at)) >= Win(last) - WINDOWS + FREE_WINDOWS
      BY <1>1, <1>11, <1>13, <1>6, <1>8
    <3> HIDE DEF last
    <3> QED
      BY <1>3, <1>4, <1>6, <3>1, <3>2, RecentListed
  <2>2. ASSUME NEW d \in Surviving(tried')
        PROVE  /\ Travels(d.cmd, at, last) /\ Recent(d.cmd, at, last)
               /\ d.type = "ack" => Settled(d.cmd, at)
    <3> DEFINE e == d.cmd
    <3>1. d \in net /\ Fresh(e, tried')
      BY <2>2 DEF Surviving
    <3>2. Travels(e, at, top) /\ (d.type = "ack" => Settled(e, at))
      BY <1>3, <3>1 DEF NetOrder
    <3>3. IsPart(e) /\ AbsOf(e, at) <= top
      BY <3>2 DEF Travels, Numbered
    <3>4. Travels(e, at, last)
      BY <1>e, <3>2, <3>3, Zenon DEF Travels
    <3>5. CASE \A part \in tried' : part.pkt < e.pkt + Lifetime
      <4>1. c.pkt < e.pkt + Lifetime
        BY <1>1, <3>5, PartOfFacts
      <4>2. Recent(e, at, AbsOf(c, at))
        BY <1>3, <1>4, <1>6, <3>3, <4>1, RecentFresh
      <4> QED
        BY <1>8, <3>2, <3>4, <4>2
    <3>6. CASE e \in ToSet(sent) \cup ToSet(outgoing)
      <4>1. e \in Unacked
        <5>1. DOMAIN sent = 1..Len(sent) /\ DOMAIN outgoing = 1..Len(outgoing)
          BY <1>2, MembersType DEF TypeOK
        <5> QED
          BY <3>6, <5>1 DEF Unacked, Members, ToSet
      <4>2. Win(AbsOf(e, at)) >= Win(last) - WINDOWS + FREE_WINDOWS
        BY <1>e, <1>13, <3>3, <4>1, Zenon
      <4> HIDE DEF last, e
      <4>3. Recent(e, at, last)
        BY <1>3, <1>4, <3>3, <4>2, RecentListed
      <4> QED
        BY <3>2, <3>4, <4>3 DEF e
    <3> QED
      BY <3>1, <3>5, <3>6 DEF Fresh
  <2>3. \A d \in net' : d \in Surviving(tried') \/ d = [type |-> "data", cmd |-> c]
    BY <1>1
  <2>4. \A d \in net' : /\ Travels(d.cmd, at, last) /\ Recent(d.cmd, at, last)
                        /\ d.type = "ack" => Settled(d.cmd, at)
    BY <2>1, <2>2, <2>3
  <2> HIDE DEF last
  <2> QED
    BY <1>5, <2>4 DEF NetOrder, Travels, Recent, Win
<1>18. Cur(at)' = Cur(at)
  BY <1>2, SameReceived
<1>19. SenderKeeps(at, last)
  BY <1>9, <1>12, <1>14, <1>15, <1>16, <1>17 DEF SenderKeeps, SenderEnd
<1>20. top <= last
  BY <1>4
<1> HIDE DEF last
<1>21. Ends(at, last, ids)'
  BY <1>2, <1>4, <1>19, <1>20, SenderStep
<1> QED
  BY <1>21 DEF last

\* The commands whose timeout passed go out again before the others.
LEMMA TimeoutDelivery ==
    ASSUME ChannelInv, check_timeouts, NEW at, NEW top, NEW ids, Ends(at, top, ids)
    PROVE  Ends(at, top, ids)'
<1> DEFINE g == Again(at, top)
           out == Len(outgoing)
<1>1. /\ TypeOK /\ open /\ UNCHANGED open /\ UNCHANGED counts /\ UNCHANGED <<counts, receiverVars>>
      /\ UNCHANGED tried /\ UNCHANGED net /\ UNCHANGED outgoingReliableSequenceNumber
      /\ UNCHANGED <<incoming, dispatched, delivered>>
      /\ outgoing \in Seq(Command) /\ sent \in Seq(Command) /\ Len(sent) \in Nat /\ out \in Nat
      /\ Commands(sent) /\ Commands(outgoing) /\ Apart(sent, outgoing)
      /\ \A c \in Members(sent) : PartOf(c) \in tried
  BY DEF check_timeouts, ChannelInv, ListsInv, TypeOK, receiverVars
<1>2. PICK late \in SUBSET (1..Len(sent)) :
          /\ sent' = Kept(sent, (1..Len(sent)) \ late)
          /\ outgoing' = Kept(sent, late) \o outgoing
  BY DEF check_timeouts
<1> DEFINE again == Kept(sent, late)
           m == Cardinality(late)
<1>3. /\ Numbering(at) /\ SenderNumbers(at, top) /\ NetOrder(at, top) /\ Reach(at, top)
      /\ QueueOrder(at, top) /\ SenderWindow(at, top) /\ NoneLost(at)
  BY <1>1 DEF Ends, SenderEnd
<1>4. /\ counts \in Seq(Counts) /\ top \in Nat /\ at[Len(counts) + 1] \in Nat
  <2>1. counts \in Seq(Counts) /\ top \in Nat /\ Len(counts) + 1 \in 1..(Len(counts) + 1)
    BY <1>1, EndFacts
  <2> QED
    BY <1>3, <2>1, PacketNumbers
<1>5. /\ Commands(again) /\ Len(again) = m /\ m \in Nat /\ Members(again) = {sent[i] : i \in late}
      /\ Members(sent') = {sent[i] : i \in (1..Len(sent)) \ late}
  <2>1. (1..Len(sent)) \ late \in SUBSET (1..Len(sent))
    OBVIOUS
  <2> QED
    BY <1>1, <1>2, <2>1, KeptList
<1> HIDE DEF again, m
<1>6. Members(again) \in SUBSET Members(sent)
  BY <1>5 DEF Members
<1>7. Members(outgoing') = Members(again) \cup Members(outgoing)
  <2>1. Apart(again, outgoing) /\ outgoing' = again \o outgoing
    BY <1>1, <1>2, <1>6 DEF Apart, again
  <2> QED
    BY <1>1, <1>5, <2>1, ConcatList
<1>8. Unacked' = Unacked
  <2>1. Members(sent) = Members(sent') \cup Members(again)
    BY <1>5 DEF Members
  <2> QED
    BY <1>7, <2>1 DEF Unacked
<1>9. /\ Len(outgoing') = m + out
      /\ \A j \in 1..(m + out) : outgoing'[j] = IF j <= m THEN again[j] ELSE outgoing[j - m]
  <2>1. again \in Seq(Command) /\ outgoing' = again \o outgoing
    BY <1>2, <1>5 DEF Commands, again
  <2> QED
    BY <1>1, <1>5, <2>1, ConcatProperties
<1>10. QueueOrder(at, top)'
  <2>1. g \in Nat /\ g = out + (top + 1) - at[Len(counts) + 1]
    BY <1>3 DEF QueueOrder, Again
  <2>2. \A j \in 1..out : IF j <= g THEN AbsOf(outgoing[j], at) <= top
                                    ELSE AbsOf(outgoing[j], at) = top + (j - g)
    BY <1>3 DEF QueueOrder
  <2>3. Again(at, top)' = m + g
    <3>1. Again(at, top)' = (m + out) + (top + 1) - at[Len(counts) + 1]
      BY <1>1, <1>9 DEF Again
    <3> HIDE DEF g, out
    <3> QED
      BY <1>1, <1>4, <1>5, <2>1, <3>1
  <2> HIDE DEF g
  <2>4. ASSUME NEW j \in 1..(m + out)
        PROVE  IF j <= m + g THEN AbsOf(outgoing'[j], at) <= top
                             ELSE AbsOf(outgoing'[j], at) = top + (j - (m + g))
    <3>1. CASE j <= m
      <4>1. outgoing'[j] = again[j] /\ j \in 1..Len(again)
        BY <1>1, <1>5, <1>9, <3>1
      <4>2. again[j] \in Members(sent)
        BY <1>6, <4>1 DEF Members
      <4>3. again[j] \in Command /\ PartOf(again[j]) \in tried
        BY <1>1, <4>2, MembersType
      <4>4. AbsOf(again[j], at) <= top
        BY <1>3, <4>3, TriedFacts
      <4>5. j <= m + g
        BY <1>5, <2>1, <3>1
      <4> QED
        BY <4>1, <4>4, <4>5
    <3>2. CASE m < j
      <4> DEFINE k == j - m
      <4>1. k \in 1..out /\ outgoing'[j] = outgoing[k]
        BY <1>1, <1>5, <1>9, <3>2
      <4>2. (j <= m + g <=> k <= g) /\ j - (m + g) = k - g
        BY <1>5, <2>1, <3>2
      <4> HIDE DEF k
      <4> QED
        BY <2>2, <4>1, <4>2
    <3> QED
      BY <1>5, <3>1, <3>2
  <2>5. m + g \in Nat
    BY <1>5, <2>1
  <2>6. \A q : AbsOf(q, at)' = AbsOf(q, at)
    BY DEF AbsOf
  <2> QED
    BY <1>9, <2>3, <2>4, <2>5, <2>6 DEF QueueOrder
<1>11. SenderKeeps(at, top)
  <2>1. /\ \A q : IsPart(q)' <=> IsPart(q)
        /\ \A d : Numbered(d, at)' <=> Numbered(d, at)
        /\ \A q : Settled(q, at)' <=> Settled(q, at)
        /\ \A q : AbsOf(q, at)' = AbsOf(q, at)
    BY <1>1, SamePackets, SameReceived DEF AbsOf
  <2>2. SenderNumbers(at, top)'
    BY <1>1, <1>3, <1>8, <2>1 DEF SenderNumbers
  <2>3. SenderWindow(at, top)'
    BY <1>3, <1>8, <2>1 DEF SenderWindow, Win
  <2>4. NoneLost(at)'
    BY <1>1, <1>3, <1>8, <2>1 DEF NoneLost, PartOf
  <2>5. NetOrder(at, top)'
    BY <1>1, <1>3, <2>1 DEF NetOrder, Travels, Recent, Win
  <2> QED
    BY <1>3, <1>10, <2>2, <2>3, <2>4, <2>5 DEF SenderKeeps, SenderEnd, Reach
<1> QED
  BY <1>1, <1>4, <1>11, SenderStep

\* A connection given up has nothing left to send.
LEMMA GiveUpDelivery ==
    ASSUME TypeOK, GiveUp, NEW at, NEW top, NEW ids, Ends(at, top, ids)
    PROVE  Ends(at, top, ids)'
<1>1. /\ open' = FALSE /\ outgoing' = << >> /\ sent' = << >>
      /\ UNCHANGED counts /\ UNCHANGED <<counts, receiverVars>>
      /\ UNCHANGED tried /\ UNCHANGED net /\ UNCHANGED outgoingReliableSequenceNumber
      /\ UNCHANGED <<incoming, dispatched, delivered>>
  BY DEF GiveUp, receiverVars
<1>2. Numbering(at) /\ SenderNumbers(at, top) /\ NetOrder(at, top) /\ Reach(at, top)
  BY DEF Ends
<1>3. top \in Nat
  BY EndFacts
<1>4. Unacked' = {}
  BY <1>1 DEF Unacked, Members
<1>5. /\ \A q : IsPart(q)' <=> IsPart(q)
      /\ \A d : Numbered(d, at)' <=> Numbered(d, at)
      /\ \A q : Settled(q, at)' <=> Settled(q, at)
      /\ \A q : AbsOf(q, at)' = AbsOf(q, at)
  BY <1>1, SamePackets, SameReceived DEF AbsOf
<1>6. SenderNumbers(at, top)'
  BY <1>1, <1>2, <1>4, <1>5 DEF SenderNumbers
<1>7. NetOrder(at, top)'
  BY <1>1, <1>2, <1>5 DEF NetOrder, Travels, Recent, Win
<1>8. SenderKeeps(at, top)
  BY <1>1, <1>2, <1>6, <1>7 DEF SenderKeeps, Reach
<1> QED
  BY <1>1, <1>3, <1>8, SenderStep

\* Numbers of the windows up to that of the last number sent are less than a turn apart.
LEMMA WithinTurn ==
    ASSUME NEW x \in Nat, NEW y \in Nat, NEW top \in Nat, y <= top,
           Win(x) >= Win(top) - WINDOWS + FREE_WINDOWS - 1
    PROVE  y < x + SeqSpace
<1> DEFINE k == WINDOWS - FREE_WINDOWS + 1
           z == (k + 1) * WINDOW_SIZE
<1>1. k \in Nat /\ k + 1 \in Nat /\ k + 1 <= WINDOWS /\ WINDOW_SIZE \in Nat /\ WINDOWS \in Nat
  BY ChannelAssumption
<1>2. Win(top) <= Win(x) + k
  <2>1. Win(top) \in Nat /\ Win(x) \in Nat /\ FREE_WINDOWS \in Nat
    BY WinFacts, ChannelAssumption
  <2> QED
    BY <1>1, <2>1
<1> HIDE DEF k
<1>3. top < x + z
  BY <1>1, <1>2, WinNear
<1>4. z \in Nat /\ z <= WINDOWS * WINDOW_SIZE
  BY <1>1, Products
<1> HIDE DEF z
<1>5. z <= SeqSpace /\ SeqSpace \in Nat
  BY <1>4, SpaceFacts DEF SeqSpace
<1> QED
  BY <1>3, <1>4, <1>5

\* A command leaves the sender's lists when its part has reached the receiver, and a
\* datagram leaves the network.
LEMMA ReleaseDelivery ==
    ASSUME TypeOK, UNCHANGED <<open, counts, outgoingReliableSequenceNumber, tried, receiverVars>>,
           net' \subseteq net, NEW at, NEW top, NEW ids, Ends(at, top, ids),
           Unacked' \subseteq Unacked,
           open => /\ QueueOrder(at, top)'
                   /\ \A c \in Unacked : c \in Unacked' \/ Settled(PartOf(c), at)
    PROVE  Ends(at, top, ids)'
<1>1. /\ UNCHANGED open /\ UNCHANGED counts /\ UNCHANGED <<counts, receiverVars>>
      /\ UNCHANGED tried /\ UNCHANGED outgoingReliableSequenceNumber
      /\ UNCHANGED <<incoming, dispatched, delivered>>
  BY DEF receiverVars
<1>2. Numbering(at) /\ SenderNumbers(at, top) /\ NetOrder(at, top) /\ Reach(at, top)
  BY DEF Ends
<1>3. top \in Nat
  BY EndFacts
<1>4. /\ \A q : IsPart(q)' <=> IsPart(q)
      /\ \A d : Numbered(d, at)' <=> Numbered(d, at)
      /\ \A q : Settled(q, at)' <=> Settled(q, at)
      /\ \A q : AbsOf(q, at)' = AbsOf(q, at)
  BY <1>1, SamePackets, SameReceived DEF AbsOf
<1>5. SenderNumbers(at, top)'
  BY <1>1, <1>2, <1>4 DEF SenderNumbers
<1>6. NetOrder(at, top)'
  BY <1>2, <1>4 DEF NetOrder, Travels, Recent, Win
<1>7. ASSUME open PROVE SenderEnd(at, top)'
  <2>1. SenderWindow(at, top) /\ NoneLost(at)
    BY <1>7 DEF Ends, SenderEnd
  <2>2. SenderWindow(at, top)'
    BY <1>4, <2>1 DEF SenderWindow, Win
  <2>3. ASSUME NEW q \in tried PROVE (\E c \in Unacked' : PartOf(c) = q) \/ Settled(q, at)
    BY <1>7, <2>1 DEF NoneLost
  <2>4. NoneLost(at)'
    BY <1>1, <1>4, <2>3 DEF NoneLost, PartOf
  <2> QED
    BY <1>7, <2>2, <2>4 DEF SenderEnd
<1>8. SenderKeeps(at, top)
  BY <1>1, <1>2, <1>5, <1>6, <1>7 DEF SenderKeeps, Reach
<1> QED
  BY <1>1, <1>3, <1>8, SenderStep

\* The queue's order without a command transmitted before.
LEMMA QueueWithout ==
    ASSUME TypeOK, NEW at, NEW top \in Nat, QueueOrder(at, top), at[Len(counts) + 1] \in Nat,
           UNCHANGED counts, NEW p \in 1..Len(outgoing), outgoing' = RemoveAt(outgoing, p),
           AbsOf(outgoing[p], at) <= top
    PROVE  QueueOrder(at, top)'
<1> DEFINE g == Again(at, top)
           out == Len(outgoing)
<1>1. outgoing \in Seq(Command) /\ out \in Nat
  BY DEF TypeOK
<1>5. /\ Len(outgoing') = out - 1
      /\ \A j \in 1..(out - 1) : outgoing'[j] = IF j < p THEN outgoing[j] ELSE outgoing[j + 1]
  BY <1>1, RemovePlaces
<1>6. g \in Nat /\ g = out + (top + 1) - at[Len(counts) + 1]
  BY DEF QueueOrder, Again
<1>7. \A j \in 1..out : IF j <= g THEN AbsOf(outgoing[j], at) <= top
                                  ELSE AbsOf(outgoing[j], at) = top + (j - g)
  BY DEF QueueOrder
<1>8. Again(at, top)' = g - 1
  <2>1. Again(at, top)' = (out - 1) + (top + 1) - at[Len(counts) + 1]
    BY <1>5 DEF Again
  <2> HIDE DEF g, out
  <2> QED
    BY <1>1, <1>6, <2>1
<1> HIDE DEF g, out
<1>9. p <= g
  <2>1. ASSUME ~(p <= g) PROVE FALSE
    <3>1. AbsOf(outgoing[p], at) = top + (p - g)
      BY <1>7, <2>1 DEF out
    <3>2. p - g > 0
      BY <1>6, <2>1
    <3> QED
      BY <1>6, <3>1, <3>2
  <2> QED
    BY <2>1
<1>10. ASSUME NEW j \in 1..(out - 1)
       PROVE  IF j <= g - 1 THEN AbsOf(outgoing'[j], at) <= top
                            ELSE AbsOf(outgoing'[j], at) = top + (j - (g - 1))
  <2>0. out \in Nat /\ g \in Nat /\ p \in Nat /\ j \in Nat
    BY <1>1, <1>6
  <2>1. CASE j < p
    <3>1. outgoing'[j] = outgoing[j]
      BY <1>5, <2>1
    <3>2. j \in 1..out /\ j <= g /\ j <= g - 1
      BY <1>9, <2>0, <2>1
    <3> QED
      BY <1>7, <3>1, <3>2
  <2>2. CASE ~(j < p)
    <3> DEFINE k == j + 1
    <3>1. outgoing'[j] = outgoing[k]
      BY <1>5, <2>2
    <3>2. k \in 1..out /\ (k <= g <=> j <= g - 1) /\ k - g = j - (g - 1)
      BY <2>0
    <3> HIDE DEF k
    <3> QED
      BY <1>7, <3>1, <3>2
  <2> QED
    BY <2>1, <2>2
<1>11. g - 1 \in Nat
  <2>1. p \in Nat /\ p # 0
    BY <1>1 DEF out
  <2> QED
    BY <1>6, <1>9, <2>1
<1>12. \A q : AbsOf(q, at)' = AbsOf(q, at)
  BY DEF AbsOf
<1> QED
  BY <1>5, <1>8, <1>10, <1>11, <1>12 DEF QueueOrder

\* A transmitted command that still waits for its acknowledgement is the one the
\* sequence number of an acknowledgement in the network is of.
LEMMA AcknowledgedPart ==
    ASSUME TypeOK, NEW at, NEW top \in Nat, Numbering(at), SenderNumbers(at, top),
           SenderWindow(at, top),
           NEW d, Travels(d, at, top), Recent(d, at, top),
           NEW c \in Unacked, PartOf(c) \in tried, c.seq = d.seq
    PROVE  PartOf(c) = PartOf(d)
<1> DEFINE x == AbsOf(d, at)
           y == AbsOf(c, at)
<1>1. c \in Command /\ counts \in Seq(Counts)
  BY MembersType DEF Unacked, TypeOK
<1>2. IsPart(d) /\ IsPart(c) /\ d.seq = x % SeqSpace /\ c.seq = y % SeqSpace /\ x <= top
  BY DEF Travels, Numbered, SenderNumbers
<1>3. y <= top
  BY <1>1, TriedFacts
<1>4. x \in Nat /\ y \in Nat /\ at[d.pkt] \in Nat /\ at[d.pkt] <= x
  BY <1>1, <1>2, PartNumbers
<1>5. Win(x) \in Nat /\ Win(y) \in Nat /\ Win(top) \in Nat /\ Win(at[d.pkt]) \in Nat
      /\ Win(at[d.pkt]) <= Win(x) /\ WINDOWS \in Nat /\ FREE_WINDOWS \in Nat
  BY <1>4, WinFacts, WinOrder, SpaceFacts
<1>6. Win(x) >= Win(top) - WINDOWS + FREE_WINDOWS - 1
  <2>1. Win(at[d.pkt]) >= Win(top) - WINDOWS + FREE_WINDOWS - 1
    BY DEF Recent
  <2> QED
    BY <1>5, <2>1
<1>7. Win(y) >= Win(top) - WINDOWS + FREE_WINDOWS - 1
  <2>1. Win(y) >= Win(top) - WINDOWS + FREE_WINDOWS
    BY <1>3 DEF SenderWindow
  <2> QED
    BY <1>5, <2>1
<1> HIDE DEF x, y
<1>8. y < x + SeqSpace /\ x < y + SeqSpace
  BY <1>2, <1>3, <1>4, <1>6, <1>7, WithinTurn
<1>9. x % SeqSpace = y % SeqSpace
  BY <1>2
<1>10. x = y
  BY <1>4, <1>8, <1>9, SameNumber
<1> QED
  BY <1>1, <1>2, <1>10, UniquePart DEF x, y

\* handle_acknowledge only forgets commands that have reached the receiver.
LEMMA AcknowledgeDelivery ==
    ASSUME ChannelInv, handle_acknowledge, NEW at, NEW top, NEW ids, Ends(at, top, ids)
    PROVE  Ends(at, top, ids)'
<1>1. /\ TypeOK /\ open /\ outgoing \in Seq(Command) /\ sent \in Seq(Command)
      /\ Len(sent) \in Nat /\ DOMAIN sent = 1..Len(sent)
      /\ Len(outgoing) \in Nat /\ DOMAIN outgoing = 1..Len(outgoing)
      /\ Commands(sent) /\ Commands(outgoing) /\ Apart(sent, outgoing)
      /\ \A c \in Members(sent) : PartOf(c) \in tried
      /\ UNCHANGED <<open, counts, outgoingReliableSequenceNumber, tried, receiverVars>>
      /\ UNCHANGED counts
  BY DEF handle_acknowledge, ChannelInv, TypeOK, ListsInv
<1>2. PICK d \in net : /\ d.type = "ack"
                       /\ remove_sent_reliable_command(d.cmd.seq)
                       /\ net' \in {net, net \ {d}}
  BY DEF handle_acknowledge
<1> DEFINE seq == d.cmd.seq
           inSent == Acknowledged(sent, seq)
           inQueue == Acknowledged(outgoing, seq) \cap Requeued
<1>3. net' \subseteq net
  BY <1>2
<1>4. /\ Numbering(at) /\ SenderNumbers(at, top) /\ QueueOrder(at, top) /\ SenderWindow(at, top)
      /\ Travels(d.cmd, at, top) /\ Recent(d.cmd, at, top) /\ Settled(d.cmd, at)
  BY <1>1, <1>2 DEF Ends, SenderEnd, NetOrder
<1>5. top \in Nat /\ at[Len(counts) + 1] \in Nat
  <2>1. counts \in Seq(Counts) /\ top \in Nat /\ Len(counts) + 1 \in 1..(Len(counts) + 1)
    BY <1>1, EndFacts
  <2> QED
    BY <1>4, <2>1, PacketNumbers
<1>6. \A c \in Unacked : PartOf(c) \in tried /\ c.seq = seq => Settled(PartOf(c), at)
  <2>1. ASSUME NEW c \in Unacked, PartOf(c) \in tried, c.seq = seq PROVE Settled(PartOf(c), at)
    <3>1. PartOf(c) = PartOf(d.cmd)
      BY <1>1, <1>4, <1>5, <2>1, AcknowledgedPart
    <3>2. d.cmd \in Command
      BY <1>1 DEF TypeOK, Datagram
    <3> QED
      BY <1>4, <3>1, <3>2, PartOfFacts
  <2> QED
    BY <2>1
<1>7. \A q : AbsOf(q, at)' = AbsOf(q, at)
  BY DEF AbsOf
<1>8. CASE inSent # {} /\ sent' = RemoveAt(sent, FirstOf(inSent)) /\ UNCHANGED outgoing
  <2> DEFINE p == FirstOf(inSent)
             c == sent[p]
  <2>1. p \in 1..Len(sent) /\ c.seq = seq
    <3>1. inSent \in SUBSET (1..Len(sent)) /\ \A i \in inSent : sent[i].seq = seq
      BY <1>1 DEF Acknowledged
    <3> HIDE DEF inSent
    <3>2. p \in inSent
      BY <1>1, <1>8, <3>1, FirstOfPlaces
    <3> QED
      BY <3>1, <3>2
  <2>2. sent' = RemoveAt(sent, p)
    BY <1>8
  <2> HIDE DEF p
  <2>3. Members(sent') = Members(sent) \ {c} /\ c \in Members(sent)
    BY <1>1, <2>1, <2>2, RemoveList
  <2>4. c \in Unacked /\ PartOf(c) \in tried
    BY <1>1, <2>3 DEF Unacked
  <2>5. Settled(PartOf(c), at)
    BY <1>6, <2>1, <2>4
  <2>6. Members(outgoing') = Members(outgoing)
    BY <1>8
  <2> HIDE DEF c
  <2>7. Unacked' \subseteq Unacked /\ \A e \in Unacked : e \in Unacked' \/ e = c
    BY <2>3, <2>6 DEF Unacked
  <2>8. \A e \in Unacked : e \in Unacked' \/ Settled(PartOf(e), at)
    BY <2>5, <2>7
  <2>9. QueueOrder(at, top)'
    BY <1>1, <1>4, <1>7, <1>8 DEF QueueOrder, Again
  <2> QED
    BY <1>1, <1>3, <2>7, <2>8, <2>9, ReleaseDelivery
<1>9. CASE inQueue # {} /\ outgoing' = RemoveAt(outgoing, FirstOf(inQueue)) /\ UNCHANGED sent
  <2> DEFINE p == FirstOf(inQueue)
             c == outgoing[p]
  <2>1. p \in 1..Len(outgoing) /\ c.seq = seq /\ PartOf(c) \in tried
    <3>1. /\ inQueue \in SUBSET (1..Len(outgoing))
          /\ \A i \in inQueue : outgoing[i].seq = seq /\ PartOf(outgoing[i]) \in tried
      BY <1>1 DEF Acknowledged, Requeued
    <3> HIDE DEF inQueue
    <3>2. p \in inQueue
      BY <1>1, <1>9, <3>1, FirstOfPlaces
    <3> QED
      BY <3>1, <3>2
  <2>2. outgoing' = RemoveAt(outgoing, p)
    BY <1>9
  <2> HIDE DEF p
  <2>3. Members(outgoing') = Members(outgoing) \ {c} /\ c \in Members(outgoing)
    BY <1>1, <2>1, <2>2, RemoveList
  <2>4. c \in Unacked /\ c \in Command
    BY <1>1, <2>3, MembersType DEF Unacked
  <2>5. Settled(PartOf(c), at)
    BY <1>6, <2>1, <2>4
  <2>6. Members(sent') = Members(sent)
    BY <1>9
  <2>7. AbsOf(c, at) <= top
    BY <1>4, <2>1, <2>4, TriedFacts
  <2>8. QueueOrder(at, top)'
    BY <1>1, <1>4, <1>5, <2>1, <2>2, <2>7, QueueWithout
  <2> HIDE DEF c
  <2>9. Unacked' \subseteq Unacked /\ \A e \in Unacked : e \in Unacked' \/ e = c
    BY <2>3, <2>6 DEF Unacked
  <2>10. \A e \in Unacked : e \in Unacked' \/ Settled(PartOf(e), at)
    BY <2>5, <2>9
  <2> QED
    BY <1>1, <1>3, <2>8, <2>9, <2>10, ReleaseDelivery
<1>10. CASE UNCHANGED <<outgoing, sent>>
  <2>1. Unacked' = Unacked
    BY <1>10 DEF Unacked, Members
  <2>2. QueueOrder(at, top)'
    BY <1>1, <1>4, <1>7, <1>10 DEF QueueOrder, Again
  <2> QED
    BY <1>1, <1>3, <2>1, <2>2, ReleaseDelivery
<1> QED
  BY <1>2, <1>8, <1>9, <1>10 DEF remove_sent_reliable_command

\* Losing a datagram leaves both ends in order.
LEMMA LoseDelivery ==
    ASSUME TypeOK, Lose, NEW at, NEW top, NEW ids, Ends(at, top, ids)
    PROVE  Ends(at, top, ids)'
<1>1. /\ net' \subseteq net /\ UNCHANGED <<sent, outgoing>> /\ UNCHANGED counts
      /\ UNCHANGED <<open, counts, outgoingReliableSequenceNumber, tried, receiverVars>>
  BY DEF Lose, senderVars
<1>2. Unacked' = Unacked
  BY <1>1 DEF Unacked, Members
<1>3. open => QueueOrder(at, top)'
  <2>1. \A q : AbsOf(q, at)' = AbsOf(q, at)
    BY DEF AbsOf
  <2> QED
    BY <1>1, <2>1 DEF Ends, SenderEnd, QueueOrder, Again
<1> QED
  BY <1>1, <1>2, <1>3, ReleaseDelivery

-----------------------------------------------------------------------------
(* The steps of the receiver. *)

\* A closed connection stays empty.
LEMMA ClosedStep ==
    ASSUME ClosedInv, [Next]_vars
    PROVE  ClosedInv'
<1>1. CASE enet_peer_send
  BY <1>1 DEF ClosedInv, enet_peer_send
<1>2. CASE SendReliable
  BY <1>2 DEF ClosedInv, SendReliable
<1>3. CASE check_timeouts
  BY <1>3 DEF ClosedInv, check_timeouts
<1>4. CASE GiveUp
  BY <1>4 DEF ClosedInv, GiveUp
<1>5. CASE handle_acknowledge
  BY <1>5 DEF ClosedInv, handle_acknowledge
<1>6. CASE UNCHANGED <<open, senderVars>>
  BY <1>6 DEF ClosedInv, senderVars
<1> QED
  BY <1>1, <1>2, <1>3, <1>4, <1>5, <1>6
  DEF Next, handle_incoming_command, send_acknowledgements, enet_peer_receive, Lose, vars

\* A step that leaves the sender alone, and takes back nothing received, leaves the
\* sender's end in order.
LEMMA ReceiverStep ==
    ASSUME UNCHANGED <<open, senderVars>>, NEW at, NEW top, NEW ids, Ends(at, top, ids),
           \A q : IsPart(q) /\ Settled(q, at) => Settled(q, at)'
    PROVE  /\ Numbering(at)' /\ SenderNumbers(at, top)' /\ (open' => SenderEnd(at, top)')
           /\ \A c : Travels(c, at, top)' <=> Travels(c, at, top)
           /\ \A c : Recent(c, at, top)' <=> Recent(c, at, top)
           /\ \A c : Travels(c, at, top) /\ Settled(c, at) => Settled(c, at)'
<1>1. /\ UNCHANGED counts /\ UNCHANGED outgoingReliableSequenceNumber /\ UNCHANGED outgoing
      /\ UNCHANGED sent /\ UNCHANGED tried /\ UNCHANGED open
  BY DEF senderVars
<1>2. Numbering(at) /\ SenderNumbers(at, top)
  BY DEF Ends
<1>3. /\ Numbering(at)'
      /\ \A q : IsPart(q)' <=> IsPart(q)
      /\ \A d : Numbered(d, at)' <=> Numbered(d, at)
      /\ \A q : AbsOf(q, at)' = AbsOf(q, at)
      /\ Unacked' = Unacked
  BY <1>1, <1>2, SamePackets DEF AbsOf, Unacked, Members
<1>4. SenderNumbers(at, top)'
  BY <1>1, <1>2, <1>3 DEF SenderNumbers
<1>5. ASSUME open PROVE SenderEnd(at, top)'
  <2>1. QueueOrder(at, top) /\ SenderWindow(at, top) /\ NoneLost(at)
    BY <1>5 DEF Ends, SenderEnd
  <2>2. QueueOrder(at, top)'
    BY <1>1, <1>3, <2>1 DEF QueueOrder, Again
  <2>3. SenderWindow(at, top)'
    BY <1>3, <2>1 DEF SenderWindow, Win
  <2>4. \A q \in tried : (\E c \in Unacked : PartOf(c) = q) \/ Settled(q, at)'
    <3>1. \A q \in tried : IsPart(q)
      BY <1>2 DEF SenderNumbers
    <3> QED
      BY <2>1, <3>1 DEF NoneLost
  <2>5. NoneLost(at)'
    BY <1>1, <1>3, <2>4 DEF NoneLost, PartOf
  <2> QED
    BY <2>2, <2>3, <2>5 DEF SenderEnd
<1>6. /\ \A c : Travels(c, at, top)' <=> Travels(c, at, top)
      /\ \A c : Recent(c, at, top)' <=> Recent(c, at, top)
  BY <1>3 DEF Travels, Recent, Win
<1>7. \A c : Travels(c, at, top) /\ Settled(c, at) => Settled(c, at)'
  BY DEF Travels, Numbered
<1> QED
  BY <1>1, <1>3, <1>4, <1>5, <1>6, <1>7

\* An acknowledgement is sent while its packet is recent.
LEMMA AckRecent ==
    ASSUME ChannelInv, ClosedInv, NEW at, NEW top, NEW ids, Ends(at, top, ids),
           NEW c, Travels(c, at, top), Fresh(c, tried)
    PROVE  Recent(c, at, top)
<1>1. /\ TypeOK /\ Numbering(at) /\ SenderNumbers(at, top)
      /\ IsPart(c) /\ AbsOf(c, at) <= top
  BY DEF ChannelInv, Ends, Travels, Numbered
<1>2. /\ counts \in Seq(Counts) /\ Len(counts) <= MaxPackets
      /\ top \in Nat /\ top < at[Len(counts) + 1] /\ StartSeq \in Nat
  BY <1>1, EndFacts, StartFacts DEF SenderNumbers
<1>3. CASE \A part \in tried : part.pkt < c.pkt + Lifetime
  <2>1. StartSeq < top
    <3>1. AbsOf(c, at) \in Nat /\ StartSeq < AbsOf(c, at)
      BY <1>1, <1>2, PartNumbers
    <3> QED
      BY <1>1, <1>2, <3>1
  <2>2. PICK q \in Part : IsPart(q) /\ AbsOf(q, at) = top
    BY <1>1, <1>2, <2>1, PartAt
  <2>3. q \in tried
    BY <1>1, <1>2, <2>2 DEF SenderNumbers
  <2>4. Recent(c, at, AbsOf(q, at))
    BY <1>1, <1>2, <1>3, <2>2, <2>3, RecentFresh
  <2> QED
    BY <2>2, <2>4
<1>4. CASE c \in ToSet(sent) \cup ToSet(outgoing)
  <2>1. DOMAIN sent = 1..Len(sent) /\ DOMAIN outgoing = 1..Len(outgoing)
    BY <1>1, MembersType DEF TypeOK
  <2>2. c \in Unacked
    BY <1>4, <2>1 DEF Unacked, Members, ToSet
  <2>3. open
    <3>1. ~open => Unacked = {}
      BY DEF ClosedInv, Unacked, Members
    <3> QED
      BY <2>2, <3>1
  <2>4. Win(AbsOf(c, at)) >= Win(top) - WINDOWS + FREE_WINDOWS
    BY <1>1, <2>2, <2>3 DEF Ends, SenderEnd, SenderWindow
  <2> QED
    BY <1>1, <1>2, <2>4, RecentListed
<1> QED
  BY <1>3, <1>4 DEF Fresh

\* A step that leaves the receiver's lists alone leaves what they hold in order.
LEMMA ListsKept ==
    ASSUME UNCHANGED <<counts, incoming, dispatched, delivered, incomingReliableSequenceNumber>>,
           NEW at, NEW top, NEW ids, Ends(at, top, ids)
    PROVE  Reach(at, top)' /\ ListOrder(at, top, ids)' /\ DeliveryOrder'
<1>1. Passed' = Passed /\ Cur(at)' = Cur(at) /\ \A q : IsPart(q)' <=> IsPart(q)
  BY SameReceived, SamePackets
<1>2. Reach(at, top)'
  BY <1>1 DEF Ends, Reach, Win
<1>3. DeliveryOrder'
  BY DEF Ends, DeliveryOrder, Whole, PartsOf
<1>4. ListOrder(at, top, ids)'
  <2>1. /\ incomingReliableSequenceNumber = Cur(at) % SeqSpace
        /\ ids \in [1..Len(incoming) -> (Passed + 1)..Len(counts)]
        /\ \A j, k \in 1..Len(incoming) : j < k => ids[j] < ids[k]
        /\ \A k \in 1..Len(incoming) : EntryOf(incoming[k], ids[k], at, top)
    BY DEF Ends, ListOrder, Listing
  <2>2. ASSUME NEW k \in 1..Len(incoming) PROVE EntryOf(incoming[k], ids[k], at, top)'
    <3> DEFINE e == incoming[k]
               i == ids[k]
    <3>1. /\ e.count = counts[i] /\ e.seq = at[i] % SeqSpace /\ e.parts # {}
          /\ \A q \in e.parts : q.pkt = i /\ IsPart(q) /\ AbsOf(q, at) <= top
      BY <2>1 DEF EntryOf
    <3>2. e' = e /\ \A q : AbsOf(q, at)' = AbsOf(q, at)
      BY DEF AbsOf
    <3> HIDE DEF e, i
    <3>3. EntryOf(e, i, at, top)'
      BY <1>1, <3>1, <3>2 DEF EntryOf
    <3> QED
      BY <3>3 DEF e, i
  <2> QED
    BY <1>1, <2>1, <2>2 DEF ListOrder, Listing
<1> QED
  BY <1>2, <1>3, <1>4

\* send_acknowledgements sends acknowledgements of what was received.
LEMMA AcksDelivery ==
    ASSUME ChannelInv, ClosedInv, send_acknowledgements, NEW at, NEW top, NEW ids, Ends(at, top, ids)
    PROVE  Ends(at, top, ids)'
<1> DEFINE c == Head(acknowledgements)
<1>1. /\ acknowledgements \in Seq(Command) /\ acknowledgements # << >>
      /\ acknowledgements' = Tail(acknowledgements)
      /\ net' = net \cup IF Fresh(c, tried) THEN {[type |-> "ack", cmd |-> c]} ELSE {}
      /\ UNCHANGED <<open, senderVars>> /\ UNCHANGED counts
      /\ UNCHANGED <<incoming, dispatched, delivered>>
      /\ UNCHANGED <<counts, incoming, dispatched, delivered, incomingReliableSequenceNumber>>
  BY DEF send_acknowledgements, ChannelInv, TypeOK, senderVars
<1>2. /\ \A j \in 1..Len(Tail(acknowledgements)) : Tail(acknowledgements)[j] = acknowledgements[j + 1]
      /\ Len(Tail(acknowledgements)) = Len(acknowledgements) - 1
      /\ Len(acknowledgements) \in Nat \ {0} /\ c = acknowledgements[1]
  BY <1>1, HeadTailProperties
<1>3. c \in Members(acknowledgements) /\ Members(acknowledgements)' \subseteq Members(acknowledgements)
  <2>1. 1 \in 1..Len(acknowledgements)
        /\ \A j \in 1..Len(Tail(acknowledgements)) : j + 1 \in 1..Len(acknowledgements)
    BY <1>2
  <2> QED
    BY <1>1, <1>2, <2>1 DEF Members
<1> HIDE DEF c
<1>4. /\ NetOrder(at, top) /\ AckOrder(at, top)
      /\ Travels(c, at, top) /\ Settled(c, at)
  BY <1>3 DEF Ends, AckOrder
<1>5. \A q : Settled(q, at)' <=> Settled(q, at)
  BY <1>1, SameReceived
<1>6. /\ Numbering(at)' /\ SenderNumbers(at, top)' /\ (open' => SenderEnd(at, top)')
      /\ \A d : Travels(d, at, top)' <=> Travels(d, at, top)
      /\ \A d : Recent(d, at, top)' <=> Recent(d, at, top)
  BY <1>1, <1>5, ReceiverStep
<1>7. Reach(at, top)' /\ ListOrder(at, top, ids)' /\ DeliveryOrder'
  BY <1>1, ListsKept
<1>8. AckOrder(at, top)'
  BY <1>3, <1>4, <1>5, <1>6 DEF AckOrder
<1>9. ASSUME NEW d \in net'
      PROVE  /\ Travels(d.cmd, at, top) /\ Recent(d.cmd, at, top)
             /\ d.type = "ack" => Settled(d.cmd, at)
  <2>1. CASE d \in net
    BY <1>4, <2>1 DEF NetOrder
  <2>2. CASE Fresh(c, tried) /\ d = [type |-> "ack", cmd |-> c]
    <3>1. Recent(c, at, top)
      BY <1>4, <2>2, AckRecent
    <3> QED
      BY <1>4, <2>2, <3>1
  <2> QED
    BY <1>1, <2>1, <2>2
<1>10. NetOrder(at, top)'
  BY <1>5, <1>6, <1>9 DEF NetOrder
<1> QED
  BY <1>6, <1>7, <1>8, <1>10 DEF Ends

\* The packet of a whole entry is its content.
LEMMA WholeContent ==
    ASSUME counts \in Seq(Counts), NEW i \in 1..Len(counts), i \in Packets, NEW e, Whole(e, i)
    PROVE  Content(e) = i
<1> DEFINE len == Length(counts[i])
<1>1. e.parts = {[pkt |-> i, number |-> k] : k \in 0..(len - 1)} /\ Length(e.count) = len
  BY DEF Whole, PartsOf
<1>2. len \in Nat \ {0}
  BY CountFacts
<1> HIDE DEF len
<1>3. [pkt |-> i, number |-> 0] \in e.parts
  BY <1>1, <1>2
<1>4. \A q \in e.parts : q.pkt = i
  BY <1>1
<1>5. (CHOOSE q \in e.parts : TRUE).pkt = i
  BY <1>3, <1>4
<1> QED
  BY <1>1, <1>5 DEF Content

\* enet_peer_receive returns the packets in their order, whole.
LEMMA ReceiveDelivery ==
    ASSUME TypeOK, enet_peer_receive, NEW at, NEW top, NEW ids, Ends(at, top, ids)
    PROVE  /\ Ends(at, top, ids)'
           /\ delivered' = Append(delivered, Len(delivered) + 1) /\ Len(delivered) < Len(counts)
<1> DEFINE m == Len(delivered)
           h == Head(dispatched)
<1>1. /\ dispatched \in Seq(Incoming) /\ dispatched # << >> /\ delivered \in Seq(Packets \cup {0})
      /\ delivered' = Append(delivered, Content(h)) /\ dispatched' = Tail(dispatched)
      /\ UNCHANGED <<open, senderVars>> /\ UNCHANGED counts /\ UNCHANGED net
      /\ UNCHANGED acknowledgements /\ UNCHANGED incoming
      /\ UNCHANGED incomingReliableSequenceNumber
      /\ counts \in Seq(Counts) /\ m \in Nat /\ Len(counts) \in Nat
  BY DEF enet_peer_receive, TypeOK, senderVars
<1>2. /\ h = dispatched[1] /\ Len(dispatched) \in Nat \ {0}
      /\ Len(dispatched') = Len(dispatched) - 1
      /\ \A j \in 1..Len(dispatched') : dispatched'[j] = dispatched[j + 1]
  BY <1>1, HeadTailProperties
<1>3. /\ Numbering(at) /\ SenderNumbers(at, top) /\ NetOrder(at, top) /\ AckOrder(at, top)
      /\ Reach(at, top) /\ ListOrder(at, top, ids)
      /\ \A k \in 1..Len(dispatched) : Whole(dispatched[k], m + k)
      /\ \A k \in 1..m : delivered[k] = k
  BY DEF Ends, DeliveryOrder
<1>4. m + Len(dispatched) <= Len(counts) /\ Len(counts) <= MaxPackets
  BY <1>3 DEF Reach, Passed, SenderNumbers
<1>5. m + 1 \in 1..Len(counts) /\ m + 1 \in Packets /\ m < Len(counts)
  BY <1>1, <1>2, <1>4, ChannelAssumption DEF Packets
<1>6. Whole(h, m + 1)
  <2>1. 1 \in 1..Len(dispatched)
    BY <1>2
  <2> QED
    BY <1>2, <1>3, <2>1
<1> HIDE DEF h
<1>7. delivered' = Append(delivered, m + 1)
  BY <1>1, <1>5, <1>6, WholeContent
<1>8. Len(delivered') = m + 1 /\ delivered'[m + 1] = m + 1 /\ \A k \in 1..m : delivered'[k] = delivered[k]
  <2>1. delivered \in Seq(Nat \cup {0}) /\ m + 1 \in Nat
    BY <1>1, <1>5, ChannelAssumption DEF Packets
  <2> QED
    BY <1>7, <2>1, AppendProperties
<1>9. Passed' = Passed
  BY <1>1, <1>2, <1>8 DEF Passed
<1>10. Cur(at)' = Cur(at)
  BY <1>9 DEF Cur
<1>11. \A q : Settled(q, at)' <=> Settled(q, at)
  <2>1. \A q : Received(q)' <=> Received(q)
    BY <1>1, <1>9 DEF Received, Members
  <2> QED
    BY <1>10, <2>1 DEF Settled, AbsOf, Win
<1>12. /\ Numbering(at)' /\ SenderNumbers(at, top)' /\ (open' => SenderEnd(at, top)')
       /\ \A d : Travels(d, at, top)' <=> Travels(d, at, top)
       /\ \A d : Recent(d, at, top)' <=> Recent(d, at, top)
  BY <1>1, <1>11, ReceiverStep
<1>13. NetOrder(at, top)'
  BY <1>1, <1>3, <1>11, <1>12 DEF NetOrder
<1>14. AckOrder(at, top)'
  BY <1>1, <1>3, <1>11, <1>12 DEF AckOrder, Members
<1>15. Reach(at, top)'
  BY <1>1, <1>3, <1>9, <1>10 DEF Reach, Win
<1>16. ListOrder(at, top, ids)'
  <2>1. /\ incomingReliableSequenceNumber = Cur(at) % SeqSpace
        /\ ids \in [1..Len(incoming) -> (Passed + 1)..Len(counts)]
        /\ \A j, k \in 1..Len(incoming) : j < k => ids[j] < ids[k]
        /\ \A k \in 1..Len(incoming) : EntryOf(incoming[k], ids[k], at, top)
    BY <1>3 DEF ListOrder, Listing
  <2>2. ASSUME NEW k \in 1..Len(incoming) PROVE EntryOf(incoming[k], ids[k], at, top)'
    <3> DEFINE e == incoming[k]
               i == ids[k]
    <3>1. /\ e.count = counts[i] /\ e.seq = at[i] % SeqSpace /\ e.parts # {}
          /\ \A q \in e.parts : q.pkt = i /\ IsPart(q) /\ AbsOf(q, at) <= top
      BY <2>1 DEF EntryOf
    <3>2. /\ e' = e /\ \A q : AbsOf(q, at)' = AbsOf(q, at)
          /\ \A q : IsPart(q)' <=> IsPart(q)
      BY <1>1, SamePackets DEF AbsOf
    <3> HIDE DEF e, i
    <3>3. EntryOf(e, i, at, top)'
      BY <1>1, <3>1, <3>2 DEF EntryOf
    <3> QED
      BY <3>3 DEF e, i
  <2> QED
    BY <1>1, <1>9, <1>10, <2>1, <2>2 DEF ListOrder, Listing
<1>17. DeliveryOrder'
  <2>1. ASSUME NEW k \in 1..(m + 1) PROVE delivered'[k] = k
    <3>1. k \in 1..m \/ k = m + 1
      BY <1>1
    <3> QED
      BY <1>3, <1>8, <3>1
  <2>2. ASSUME NEW k \in 1..Len(dispatched') PROVE Whole(dispatched'[k], (m + 1) + k)
    <3> DEFINE j == k + 1
    <3>1. j \in 1..Len(dispatched) /\ dispatched'[k] = dispatched[j] /\ (m + 1) + k = m + j
      BY <1>1, <1>2
    <3> HIDE DEF j
    <3> QED
      BY <1>3, <3>1
  <2>3. \A e, i : Whole(e, i)' <=> Whole(e, i)
    BY <1>1 DEF Whole, PartsOf
  <2> QED
    BY <1>8, <2>1, <2>2, <2>3 DEF DeliveryOrder
<1> QED
  BY <1>5, <1>7, <1>12, <1>13, <1>14, <1>15, <1>16, <1>17 DEF Ends

\* A complete entry holds every part of its packet.
LEMMA CompleteWhole ==
    ASSUME counts \in Seq(Counts), NEW i \in 1..Len(counts), NEW e \in Incoming,
           NEW at, NEW top, EntryOf(e, i, at, top), Complete(e)
    PROVE  Whole(e, i)
<1> DEFINE len == Length(counts[i])
           I == 0..(len - 1)
           P == PartsOf(i)
           f == [k \in I |-> [pkt |-> i, number |-> k]]
<1>1. len \in Nat \ {0}
  BY CountFacts
<1>2. P = {f[k] : k \in I}
  BY DEF PartsOf
<1>3. e.count = counts[i] /\ e.parts \in SUBSET Part /\ Cardinality(e.parts) = len
      /\ \A q \in e.parts : q.pkt = i /\ q.number \in 0..(Length(counts[q.pkt]) - 1)
  BY DEF EntryOf, IsPart, Incoming, Complete
<1>4. e.parts \in SUBSET P
  <2>1. \A q \in e.parts : q = [pkt |-> q.pkt, number |-> q.number]
    BY <1>3 DEF Part
  <2> QED
    BY <1>3, <2>1 DEF PartsOf
<1>5. \A j, k \in I : f[j] = f[k] => j = k
  <2>1. \A k \in I : f[k].number = k
    OBVIOUS
  <2> QED
    BY <2>1
<1>6. f \in Bijection(I, P)
  <2>1. f \in [I -> P]
    BY <1>2
  <2> HIDE DEF f, P, I
  <2> QED
    BY <1>2, <1>5, <2>1 DEF Bijection, Injection, IsInjective, Surjection
<1> HIDE DEF f, P
<1>7. IsFiniteSet(I) /\ Cardinality(I) = len
  <2> HIDE DEF len
  <2>1. 0 \in Int /\ len - 1 \in Int /\ ~(0 > len - 1) /\ len - 1 - 0 + 1 = len
    BY <1>1
  <2>2. IsFiniteSet(0..(len - 1)) /\ Cardinality(0..(len - 1)) = len - 1 - 0 + 1
    BY <2>1, FS_Interval
  <2> QED
    BY <2>1, <2>2
<1> HIDE DEF I
<1>8. IsFiniteSet(P) /\ Cardinality(P) = len
  <2>1. ExistsBijection(I, P)
    BY <1>6 DEF ExistsBijection
  <2> QED
    BY <1>7, <2>1, FS_Bijection
<1>9. e.parts = P
  BY <1>3, <1>4, <1>8, FS_Subset
<1> QED
  BY <1>3, <1>9 DEF Whole, P

\* A complete entry that continues the sequence is the packet after the last one, and
\* the number delivered last is then that of its last part.
Continues(e, i, p, at, top) ==
    /\ i = p /\ Whole(e, p) /\ p <= Len(counts)
    /\ at[p + 1] - 1 <= top /\ LastNumber(e) = (at[p + 1] - 1) % SeqSpace
LEMMA NextEntry ==
    ASSUME TypeOK, NEW at, NEW top, NEW ids, Ends(at, top, ids),
           NEW p \in Nat, Passed < p, NEW i \in p..Len(counts),
           NEW e \in Incoming, EntryOf(e, i, at, top), Complete(e),
           e.seq = (((at[p] - 1) % SeqSpace) + 1) % SeqSpace
    PROVE  Continues(e, i, p, at, top)
<1>1. /\ counts \in Seq(Counts) /\ Len(counts) \in Nat /\ Passed \in Nat
      /\ Passed + 1 \in 1..(Len(counts) + 1) /\ Numbering(at)
      /\ top \in Nat /\ Cur(at) \in Nat /\ at[Passed + 1] = Cur(at) + 1
      /\ top < Cur(at) + SeqSpace /\ SeqSpace \in Nat
  BY EndFacts, SpaceFacts DEF Ends
<1>2. i \in 1..Len(counts) /\ i \in 1..(Len(counts) + 1) /\ p \in 1..Len(counts)
      /\ p \in 1..(Len(counts) + 1) /\ p + 1 \in 1..(Len(counts) + 1) /\ i \in Nat
  BY <1>1
<1>3. /\ \A a \in 1..(Len(counts) + 1) : at[a] \in Nat
      /\ \A a, b \in 1..(Len(counts) + 1) : a <= b => at[a] <= at[b]
      /\ counts[p] \in Counts /\ at[p + 1] = at[p] + Length(counts[p])
  BY <1>1, <1>2, PacketNumbers
<1>4. /\ at[p] \in Nat /\ at[i] \in Nat /\ at[p] <= at[i] /\ Cur(at) + 1 <= at[p]
  <2>1. p <= i /\ Passed + 1 <= p
    BY <1>1
  <2>2. at[Passed + 1] <= at[p]
    BY <1>1, <1>2, <1>3, <2>1
  <2> QED
    BY <1>1, <1>2, <1>3, <2>1, <2>2
<1>5. at[i] <= top
  <2>1. PICK q \in e.parts : q.pkt = i /\ IsPart(q) /\ AbsOf(q, at) <= top
    BY DEF EntryOf
  <2>2. at[i] <= AbsOf(q, at) /\ AbsOf(q, at) \in Nat
    BY <1>1, <2>1, PartNumbers
  <2> QED
    BY <1>1, <1>4, <2>1, <2>2
<1>6. at[p] = at[i]
  <2>1. at[p] - 1 \in Nat /\ (at[p] - 1) + 1 = at[p]
    BY <1>1, <1>4
  <2>2. e.seq = ((at[p] - 1) + 1) % SeqSpace
    BY <2>1, SeqNext
  <2>3. at[p] % SeqSpace = at[i] % SeqSpace
    BY <2>1, <2>2 DEF EntryOf
  <2>4. at[p] < at[i] + SeqSpace /\ at[i] < at[p] + SeqSpace
    <3>1. SeqSpace \in Nat /\ SeqSpace > 0
      BY SpaceFacts
    <3>2. PICK a \in Nat, b \in Nat : a = at[p] /\ b = at[i]
      BY <1>4
    <3>3. PICK r \in Nat : r = Cur(at)
      BY <1>1
    <3>4. a <= b /\ r + 1 <= a /\ b <= top /\ top < r + SeqSpace
      BY <1>1, <1>4, <1>5, <3>2, <3>3
    <3>5. top \in Nat
      BY <1>1
    <3>6. a < b + SeqSpace /\ b < a + SeqSpace
      BY <3>1, <3>3, <3>4, <3>5
    <3> QED
      BY <3>2, <3>6, Zenon
  <2> QED
    BY <1>4, <2>3, <2>4, SameNumber
<1>7. i = p
  <2>1. at[p] + (i - p) <= at[i]
    BY <1>2 DEF Numbering, Ends
  <2> QED
    BY <1>2, <1>4, <1>6, <2>1
<1>8. Whole(e, p)
  BY <1>1, <1>2, <1>7, CompleteWhole
<1> DEFINE len == Length(counts[p])
<1>9. len \in Nat \ {0}
  BY <1>3, CountFacts
<1>10. at[p + 1] - 1 <= top
  <2> DEFINE q == [pkt |-> p, number |-> len - 1]
  <2>1. q \in e.parts
    <3>1. len - 1 \in 0..(len - 1)
      BY <1>9
    <3> QED
      BY <1>8, <3>1 DEF Whole, PartsOf
  <2>2. AbsOf(q, at) <= top
    BY <2>1 DEF EntryOf
  <2>3. AbsOf(q, at) = at[p] + (len - 1)
    BY DEF AbsOf
  <2> HIDE DEF len, q
  <2>4. at[p + 1] = at[p] + len
    BY <1>3 DEF len
  <2> QED
    BY <1>4, <1>9, <2>2, <2>3, <2>4
<1>11. LastNumber(e) = (at[p + 1] - 1) % SeqSpace
  <2> DEFINE k == len - 1
             x == at[p]
  <2>1. LastNumber(e) = ((x % SeqSpace) + len - 1) % SeqSpace
    BY <1>6, <1>8 DEF LastNumber, Whole, EntryOf
  <2>2. k \in Nat /\ x \in Nat
    BY <1>4, <1>9
  <2>3. at[p + 1] - 1 = x + k
    <3>1. at[p + 1] = x + len
      BY <1>3
    <3> HIDE DEF len, x
    <3> QED
      BY <1>9, <2>2, <3>1 DEF k
  <2>4. x % SeqSpace \in Nat
    BY <2>2, SeqWindow
  <2>5. ((x % SeqSpace) + len) - 1 = (x % SeqSpace) + k
    <3> DEFINE y == x % SeqSpace
    <3>1. y \in Nat
      BY <2>4
    <3> HIDE DEF y, len
    <3>2. (y + len) - 1 = y + k
      BY <1>9, <3>1 DEF k
    <3> QED
      BY <3>2 DEF y
  <2>6. ((x % SeqSpace) + k) % SeqSpace = (x + k) % SeqSpace
    BY <2>2, SeqNext
  <2> QED
    BY <2>1, <2>3, <2>5, <2>6
<1> QED
  BY <1>2, <1>7, <1>8, <1>10, <1>11 DEF Continues

\* The entries that continue the sequence are the packets after those that left before.
Before(list, cur, i) == IF i = 1 THEN cur ELSE LastNumber(list[i - 1])
LEMMA DispatchRun ==
    ASSUME TypeOK, NEW at, NEW top, NEW ids, Ends(at, top, ids), NEW list \in Seq(Incoming),
           NEW places, Listing(list, places, Passed, at, top), NEW n \in 0..Len(list),
           \A i \in 1..n : /\ Complete(list[i])
                           /\ list[i].seq = (Before(list, Cur(at) % SeqSpace, i) + 1) % SeqSpace
    PROVE  \A i \in 1..n : Continues(list[i], places[i], Passed + i, at, top)
<1> DEFINE m == Passed
           S == {i \in 1..n : ~Continues(list[i], places[i], m + i, at, top)}
<1>1. /\ m \in Nat /\ n \in Nat /\ Len(list) \in Nat /\ n <= Len(list) /\ Len(counts) \in Nat
      /\ Cur(at) = at[m + 1] - 1
      /\ \A i \in 1..n : list[i] \in Incoming
  BY EndFacts DEF Cur
<1>2. /\ places \in [1..Len(list) -> (m + 1)..Len(counts)]
      /\ \A j, k \in 1..Len(list) : j < k => places[j] < places[k]
      /\ \A k \in 1..Len(list) : EntryOf(list[k], places[k], at, top)
  BY DEF Listing
<1>m. m = Passed
  OBVIOUS
<1> HIDE DEF m
<1>3. ASSUME S # {} PROVE FALSE
  <2>1. S \in SUBSET Nat
    BY <1>1
  <2>2. PICK i \in S : \A j \in S : i <= j
    BY <1>3, <2>1, LeastNat
  <2>3. /\ i \in 1..n /\ i \in 1..Len(list) /\ i \in Nat /\ 1 <= i
        /\ ~Continues(list[i], places[i], m + i, at, top)
    BY <1>1, <2>2
  <2> HIDE DEF S
  <2>4. i # 1 => /\ i - 1 \in 1..n /\ i - 1 \in 1..Len(list) /\ i - 1 < i /\ m + (i - 1) + 1 = m + i
                 /\ Continues(list[i - 1], places[i - 1], m + (i - 1), at, top)
    <3>1. i # 1 => /\ i - 1 \in 1..n /\ i - 1 \in 1..Len(list) /\ i - 1 < i /\ m + (i - 1) + 1 = m + i
                   /\ ~(i <= i - 1)
      BY <1>1, <2>3
    <3> QED
      BY <2>2, <3>1 DEF S
  <2>5. Before(list, Cur(at) % SeqSpace, i) = (at[m + i] - 1) % SeqSpace
    BY <1>1, <2>4 DEF Before, Continues
  <2>6. places[i] \in (m + i)..Len(counts)
    <3>1. CASE i = 1
      BY <1>2, <2>3, <3>1
    <3>2. CASE i # 1
      <4>1. places[i - 1] = m + (i - 1) /\ places[i - 1] < places[i]
        BY <1>2, <2>3, <2>4, <3>2 DEF Continues
      <4>2. places[i] \in (m + 1)..Len(counts)
        BY <1>2, <2>3
      <4> QED
        BY <1>1, <2>3, <4>1, <4>2
    <3> QED
      BY <3>1, <3>2
  <2>7. m + i \in Nat /\ m < m + i
    BY <1>1, <2>3
  <2>8. /\ list[i] \in Incoming /\ EntryOf(list[i], places[i], at, top) /\ Complete(list[i])
        /\ list[i].seq = (((at[m + i] - 1) % SeqSpace) + 1) % SeqSpace
    BY <1>1, <1>2, <2>3, <2>5
  <2>9. Continues(list[i], places[i], m + i, at, top)
    BY <1>m, <2>6, <2>7, <2>8, NextEntry
  <2> QED
    BY <2>3, <2>9
<1> QED
  BY <1>3, <1>m

\* enet_peer_dispatch_incoming_reliable_commands takes whole packets in their order.
Delivers(list, at, top) ==
    /\ Passed' \in Nat /\ Passed <= Passed' /\ Passed' <= Len(counts)
    /\ Cur(at)' \in Nat /\ Cur(at) <= Cur(at)' /\ Cur(at)' <= top
    /\ \E ids : ListOrder(at, top, ids)'
    /\ DeliveryOrder'
    /\ \A e \in Members(list) : \A q \in e.parts :
          q.pkt <= Passed' \/ \E f \in Members(incoming)' : q \in f.parts
LEMMA DispatchDelivery ==
    ASSUME TypeOK, NEW at, NEW top, NEW ids, Ends(at, top, ids), NEW list \in Seq(Incoming),
           NEW places, Listing(list, places, Passed, at, top),
           Dispatch(list, incomingReliableSequenceNumber), UNCHANGED <<counts, delivered>>
    PROVE  Delivers(list, at, top)
<1> DEFINE cur == incomingReliableSequenceNumber
           before(i) == IF i = 1 THEN cur ELSE LastNumber(list[i - 1])
           ready == {n \in 0..Len(list) :
                        \A i \in 1..n : /\ Complete(list[i])
                                        /\ list[i].seq = (before(i) + 1) % SeqSpace}
           n == CHOOSE m \in ready : \A k \in ready : k <= m
           len == Len(list)
           m == Passed
<1>1. /\ len \in Nat /\ dispatched \in Seq(Incoming) /\ \A i \in 1..len : list[i] \in Incoming
      /\ delivered \in Seq(Packets \cup {0})
  BY DEF TypeOK
<1>2. /\ incoming' = SubSeq(list, n + 1, len)
      /\ dispatched' = dispatched \o SubSeq(list, 1, n)
      /\ incomingReliableSequenceNumber' = before(n + 1)
  BY DEF Dispatch
<1>3. n \in 0..len /\ \A i \in 1..n : /\ Complete(list[i])
                                      /\ list[i].seq = (before(i) + 1) % SeqSpace
  <2>1. ready \in SUBSET (0..len) /\ 0 \in ready
    <3>1. 0 \in 0..len /\ 1..0 = {}
      BY <1>1
    <3> QED
      BY <3>1
  <2>2. n \in ready
    <3> HIDE DEF ready
    <3>1. \E k \in ready : \A j \in ready : j <= k
      BY <1>1, <2>1, GreatestNat
    <3> QED
      BY <3>1
  <2> HIDE DEF n
  <2> QED
    BY <2>2
<1>4. cur = Cur(at) % SeqSpace
  BY DEF Ends, ListOrder
<1>5. \A i : before(i) = Before(list, Cur(at) % SeqSpace, i)
  BY <1>4 DEF Before
<1> HIDE DEF n, ready
<1>6. \A i \in 1..n : Continues(list[i], places[i], m + i, at, top)
  BY <1>3, <1>5, DispatchRun
<1>7. /\ m \in Nat /\ n \in Nat /\ n <= len /\ Len(counts) \in Nat /\ m <= Len(counts)
      /\ Cur(at) = at[m + 1] - 1 /\ Cur(at) \in Nat /\ Cur(at) <= top
      /\ counts \in Seq(Counts) /\ Numbering(at)
  BY <1>1, <1>3, EndFacts DEF Cur, Ends, Reach
<1>8. /\ places \in [1..len -> (m + 1)..Len(counts)]
      /\ \A j, k \in 1..len : j < k => places[j] < places[k]
      /\ \A k \in 1..len : EntryOf(list[k], places[k], at, top)
  BY DEF Listing
<1>9. m + n <= Len(counts) /\ at[m + n + 1] - 1 <= top /\ before(n + 1) = (at[m + n + 1] - 1) % SeqSpace
  <2>1. CASE n = 0
    BY <1>4, <1>7, <2>1
  <2>2. CASE n # 0
    <3>1. n \in 1..n /\ n + 1 # 1 /\ n + 1 - 1 = n
      BY <1>7, <2>2
    <3>2. before(n + 1) = LastNumber(list[n])
      BY <3>1
    <3> HIDE DEF m, before
    <3> QED
      BY <1>6, <3>1, <3>2 DEF Continues
  <2> QED
    BY <2>1, <2>2
<1> HIDE DEF before, cur
<1>10. /\ Len(SubSeq(list, 1, n)) = n
       /\ \A j \in 1..n : SubSeq(list, 1, n)[j] = list[j]
       /\ SubSeq(list, 1, n) \in Seq(Incoming)
  <2>1. \A j \in 1..n : list[j] \in Incoming
    BY <1>1, <1>7
  <2> QED
    BY <1>1, <1>7, <2>1, SubSeqProperties
<1>11. /\ Len(incoming') = len - n
       /\ \A j \in 1..(len - n) : incoming'[j] = list[n + j]
  <2>1. \A j \in (n + 1)..len : list[j] \in Incoming
    BY <1>1, <1>7
  <2>2. /\ Len(SubSeq(list, n + 1, len)) = IF n + 1 <= len THEN len - (n + 1) + 1 ELSE 0
        /\ \A j \in 1..(len - (n + 1) + 1) : SubSeq(list, n + 1, len)[j] = list[(n + 1) + j - 1]
    BY <1>1, <1>7, <2>1, SubSeqProperties
  <2>3. len - (n + 1) + 1 = len - n /\ \A j \in 1..(len - n) : (n + 1) + j - 1 = n + j
    BY <1>1, <1>7
  <2> HIDE DEF len
  <2>4. Len(incoming') = len - n
    BY <1>1, <1>2, <1>7, <2>2, <2>3
  <2> QED
    BY <1>2, <2>2, <2>3, <2>4
<1> DEFINE out == Len(dispatched)
<1>12. /\ Len(dispatched') = out + n
       /\ \A j \in 1..out : dispatched'[j] = dispatched[j]
       /\ \A j \in 1..n : dispatched'[out + j] = list[j]
       /\ out \in Nat /\ Len(delivered) \in Nat /\ m = Len(delivered) + out
  <2> DEFINE b == SubSeq(list, 1, n)
  <2>1. b \in Seq(Incoming) /\ Len(b) = n /\ \A j \in 1..n : b[j] = list[j]
    BY <1>10
  <2>2. dispatched' = dispatched \o b /\ out \in Nat /\ Len(delivered) \in Nat
    BY <1>1, <1>2
  <2> HIDE DEF b
  <2>3. /\ Len(dispatched') = out + Len(b)
        /\ \A j \in 1..(out + Len(b)) : dispatched'[j] = IF j <= out THEN dispatched[j] ELSE b[j - out]
    BY <1>1, <2>1, <2>2, ConcatProperties
  <2>4. /\ \A j \in 1..out : j \in 1..(out + n) /\ j <= out
        /\ \A j \in 1..n : out + j \in 1..(out + n) /\ ~(out + j <= out) /\ (out + j) - out = j
    BY <1>7, <2>2
  <2>5. /\ \A j \in 1..out : dispatched'[j] = dispatched[j]
        /\ \A j \in 1..n : dispatched'[out + j] = b[j]
    BY <2>1, <2>3, <2>4
  <2> QED
    BY <2>1, <2>2, <2>3, <2>5 DEF Passed
<1>13. Passed' = m + n
  <2>1. Passed' = Len(delivered) + (out + n)
    BY <1>12 DEF Passed
  <2> HIDE DEF out, m
  <2> QED
    BY <1>7, <1>12, <2>1
<1>14. Cur(at)' = at[m + n + 1] - 1
  BY <1>13 DEF Cur
<1> HIDE DEF m, len, out
<1>15. Cur(at)' \in Nat /\ Cur(at) <= Cur(at)'
  <2>1. m + 1 \in 1..(Len(counts) + 1) /\ m + n + 1 \in 1..(Len(counts) + 1) /\ m + 1 <= m + n + 1
    BY <1>7, <1>9
  <2>2. at[m + 1] \in Nat /\ at[m + n + 1] \in Nat /\ at[m + 1] <= at[m + n + 1]
        /\ StartSeq < at[m + n + 1]
    BY <1>7, <2>1, PacketNumbers
  <2> QED
    BY <1>7, <1>14, <2>2, StartFacts
<1>16. \A i \in 1..len : n < i => places[i] \in (m + n + 1)..Len(counts)
  <2>1. ASSUME NEW i \in 1..len, n < i PROVE places[i] \in (m + n + 1)..Len(counts)
    <3>1. places[i] \in (m + 1)..Len(counts)
      BY <1>8
    <3>2. CASE n = 0
      BY <1>7, <3>1, <3>2
    <3>3. CASE n # 0
      <4>1. n \in 1..n /\ n \in 1..len
        BY <1>1, <1>7, <3>3
      <4>2. places[n] = m + n /\ places[n] < places[i]
        BY <1>6, <1>8, <2>1, <4>1 DEF Continues
      <4> QED
        BY <1>7, <3>1, <4>2
    <3> QED
      BY <3>2, <3>3
  <2> QED
    BY <2>1
<1>17. \E next : ListOrder(at, top, next)'
  <2>a. PICK next : next = [k \in 1..(len - n) |-> places[n + k]]
    OBVIOUS
  <2>1. \A k \in 1..(len - n) : n + k \in 1..len /\ n < n + k
    BY <1>1, <1>7
  <2>2. next \in [1..Len(incoming') -> (Passed' + 1)..Len(counts)]
    BY <1>11, <1>13, <1>16, <2>1, <2>a
  <2>3. ASSUME NEW j \in 1..Len(incoming'), NEW k \in 1..Len(incoming'), j < k
        PROVE  next[j] < next[k]
    <3>1. n + j < n + k /\ n + j \in 1..len /\ n + k \in 1..len
      BY <1>7, <1>11, <2>1, <2>3
    <3> QED
      BY <1>8, <1>11, <2>a, <3>1
  <2>4. ASSUME NEW k \in 1..Len(incoming') PROVE EntryOf(incoming[k], next[k], at, top)'
    <3> DEFINE e == incoming'[k]
               i == next[k]
    <3>1. e = list[n + k] /\ n + k \in 1..len /\ i = places[n + k]
      BY <1>11, <2>1, <2>a
    <3>2. EntryOf(e, i, at, top)
      BY <1>8, <3>1, Zenon
    <3>3. /\ e.count = counts[i] /\ e.seq = at[i] % SeqSpace /\ e.parts # {}
          /\ \A q \in e.parts : q.pkt = i /\ IsPart(q) /\ AbsOf(q, at) <= top
      BY <3>2 DEF EntryOf
    <3>4. (\A q : AbsOf(q, at)' = AbsOf(q, at)) /\ \A q : IsPart(q)' <=> IsPart(q)
      BY SamePackets DEF AbsOf
    <3>5. /\ e.count = counts'[i] /\ \A q \in e.parts : q.pkt = i /\ IsPart(q)' /\ AbsOf(q, at)' <= top
      BY <3>3, <3>4
    <3> QED
      BY <3>3, <3>5 DEF EntryOf
  <2>5. incomingReliableSequenceNumber' = Cur(at)' % SeqSpace
    BY <1>2, <1>9, <1>14
  <2>6. Listing(incoming, next, Passed, at, top)'
    BY <2>2, <2>3, <2>4 DEF Listing
  <2> QED
    BY <2>5, <2>6 DEF ListOrder
<1>18. DeliveryOrder'
  <2>1. /\ \A k \in 1..out : Whole(dispatched[k], Len(delivered) + k)
        /\ \A k \in 1..Len(delivered) : delivered[k] = k
    BY DEF Ends, DeliveryOrder, out
  <2>2. \A e, i : Whole(e, i)' <=> Whole(e, i)
    BY DEF Whole, PartsOf
  <2>3. ASSUME NEW k \in 1..(out + n) PROVE Whole(dispatched'[k], Len(delivered) + k)
    <3>1. CASE k <= out
      <4>1. k \in 1..out
        BY <1>12, <3>1
      <4> QED
        BY <1>12, <2>1, <4>1
    <3>2. CASE ~(k <= out)
      <4> DEFINE j == k - out
      <4>1. j \in 1..n /\ k = out + j /\ Len(delivered) + k = m + j
        BY <1>7, <1>12, <3>2
      <4> HIDE DEF j
      <4>2. Whole(list[j], m + j)
        BY <1>6, <4>1 DEF Continues
      <4> QED
        BY <1>12, <4>1, <4>2
    <3> QED
      BY <3>1, <3>2
  <2>4. \A k \in 1..Len(dispatched') : Whole(dispatched'[k], Len(delivered) + k)
    BY <1>12, <2>3
  <2> QED
    BY <2>1, <2>2, <2>4 DEF DeliveryOrder
<1>19. ASSUME NEW e \in Members(list), NEW q \in e.parts
       PROVE  q.pkt <= Passed' \/ \E f \in Members(incoming)' : q \in f.parts
  <2>1. PICK k \in 1..len : e = list[k]
    BY DEF Members, len
  <2>2. CASE k <= n
    <3>1. k \in 1..n
      BY <1>7, <2>2
    <3>2. q.pkt = places[k] /\ places[k] = m + k
      BY <1>6, <1>8, <2>1, <3>1 DEF EntryOf, Continues
    <3> QED
      BY <1>7, <1>13, <3>1, <3>2
  <2>3. CASE ~(k <= n)
    <3> DEFINE j == k - n
    <3>1. j \in 1..(len - n) /\ k = n + j
      BY <1>1, <1>7, <2>3
    <3> HIDE DEF j
    <3>2. j \in 1..Len(incoming') /\ incoming'[j] = e
      BY <1>11, <2>1, <3>1
    <3> QED
      BY <3>2 DEF Members
  <2> QED
    BY <2>2, <2>3
<1>20. Passed' \in Nat /\ Passed <= Passed' /\ Passed' <= Len(counts)
  <2>1. Passed = m
    BY DEF m
  <2> QED
    BY <1>7, <1>9, <1>13, <2>1
<1> QED
  BY <1>9, <1>14, <1>15, <1>17, <1>18, <1>19, <1>20 DEF Delivers

\* The packets after those that left are ahead of the number delivered last.
LEMMA PacketAhead ==
    ASSUME TypeOK, NEW at, NEW top, NEW ids, Ends(at, top, ids),
           NEW i \in 1..Len(counts), Passed < i, NEW x \in Nat, at[i] <= x, x <= top
    PROVE  Ahead(Cur(at), x) /\ at[i] \in Nat /\ Cur(at) < at[i] /\ Ahead(Cur(at), at[i])
<1>1. /\ counts \in Seq(Counts) /\ Len(counts) \in Nat /\ Passed \in Nat /\ Numbering(at)
      /\ Passed + 1 \in 1..(Len(counts) + 1)
      /\ top \in Nat /\ Cur(at) \in Nat /\ at[Passed + 1] = Cur(at) + 1
      /\ top < Cur(at) + SeqSpace
  BY EndFacts DEF Ends
<1>2. i \in 1..(Len(counts) + 1) /\ Passed + 1 <= i
  BY <1>1
<1>3. at[i] \in Nat /\ at[Passed + 1] <= at[i]
  BY <1>1, <1>2, PacketNumbers
<1>4. Cur(at) < at[i] /\ Cur(at) < x /\ x < Cur(at) + SeqSpace /\ at[i] < Cur(at) + SeqSpace
  <2> DEFINE r == Cur(at)
             s == at[i]
             n == SeqSpace
  <2>1. /\ r \in Nat /\ s \in Nat /\ n \in Nat /\ top \in Nat /\ r + 1 <= s
        /\ s <= x /\ x <= top /\ top < r + n
    BY <1>1, <1>3, SpaceFacts
  <2> HIDE DEF r, s, n
  <2>2. r < s /\ r < x /\ x < r + n /\ s < r + n
    BY <2>1
  <2> QED
    BY <2>2 DEF r, s, n
<1> QED
  BY <1>1, <1>3, <1>4 DEF Ahead

\* An entry's first number was transmitted.
LEMMA EntryStart ==
    ASSUME counts \in Seq(Counts), NEW at, Numbering(at), NEW e, NEW i, NEW top \in Nat,
           EntryOf(e, i, at, top)
    PROVE  at[i] \in Nat /\ at[i] <= top
<1>1. PICK q \in e.parts : q.pkt = i /\ IsPart(q) /\ AbsOf(q, at) <= top
  BY DEF EntryOf
<1>2. at[i] <= AbsOf(q, at) /\ AbsOf(q, at) \in Nat /\ at[i] \in Nat
  BY <1>1, PartNumbers
<1> QED
  BY <1>1, <1>2

\* enet_peer_queue_incoming_command finds the place of a packet in the list.
Found(p, k, ids) ==
    /\ k \in 0..Len(incoming)
    /\ \A j \in 1..Len(incoming) : j <= k <=> ids[j] <= p
LEMMA SearchPlace ==
    ASSUME TypeOK, NEW at, NEW top, NEW ids, Ends(at, top, ids),
           NEW p \in 1..Len(counts), Passed < p, at[p] <= top
    PROVE  /\ Found(p, InsertAfter(at[p] % SeqSpace, incomingReliableSequenceNumber), ids)
           /\ LET k == InsertAfter(at[p] % SeqSpace, incomingReliableSequenceNumber)
              IN Listed(at[p] % SeqSpace, incomingReliableSequenceNumber)
                    = IF k > 0 /\ ids[k] = p THEN k ELSE 0
<1> DEFINE seq == at[p] % SeqSpace
           cur == incomingReliableSequenceNumber
           r == Cur(at)
           len == Len(incoming)
           stops == {j \in DOMAIN incoming : StopsAt(incoming[j], seq, cur)}
           k == InsertAfter(seq, cur)
<1>1. /\ counts \in Seq(Counts) /\ Len(counts) \in Nat /\ Passed \in Nat /\ Numbering(at)
      /\ top \in Nat /\ r \in Nat
      /\ len \in Nat /\ DOMAIN incoming = 1..len
  BY EndFacts DEF Ends, TypeOK
<1>2. /\ cur = r % SeqSpace
      /\ ids \in [1..len -> (Passed + 1)..Len(counts)]
      /\ \A i, j \in 1..len : i < j => ids[i] < ids[j]
      /\ \A j \in 1..len : EntryOf(incoming[j], ids[j], at, top)
  BY DEF Ends, ListOrder, Listing
<1>3. Ahead(r, at[p]) /\ at[p] \in Nat
  <2>1. p \in 1..(Len(counts) + 1)
    BY <1>1
  <2>2. at[p] \in Nat
    BY <1>1, <2>1, PacketNumbers
  <2> QED
    BY <2>2, PacketAhead
<1>4. ASSUME NEW j \in 1..len
      PROVE  /\ StopsAt(incoming[j], seq, cur) <=> ids[j] <= p
             /\ incoming[j].seq = seq <=> ids[j] = p
             /\ ids[j] \in Nat
  <2> DEFINE i == ids[j]
             e == incoming[j]
  <2>1. i \in 1..Len(counts) /\ Passed < i /\ i \in Nat
    BY <1>1, <1>2
  <2>2. EntryOf(e, i, at, top) /\ e.seq = at[i] % SeqSpace
    BY <1>2 DEF EntryOf
  <2> HIDE DEF i, e
  <2>3. at[i] \in Nat /\ at[i] <= top
    BY <1>1, <2>2, EntryStart
  <2>4. Ahead(r, at[i])
    BY <2>1, <2>3, PacketAhead
  <2>5. /\ StopsAt(e, seq, r % SeqSpace) <=> at[i] <= at[p]
        /\ e.seq = seq <=> at[i] = at[p]
    BY <1>3, <2>2, <2>4, SearchOrder
  <2>6. i \in 1..(Len(counts) + 1) /\ p \in 1..(Len(counts) + 1)
    BY <1>1, <2>1
  <2>7. /\ at[i] <= at[p] <=> i <= p
        /\ at[i] = at[p] <=> i = p
    <3>1. /\ i <= p => at[i] + (p - i) <= at[p]
          /\ p <= i => at[p] + (i - p) <= at[i]
      BY <1>1, <2>6 DEF Numbering
    <3> QED
      BY <1>1, <1>3, <2>1, <2>3, <3>1
  <2>8. /\ StopsAt(e, seq, cur) <=> i <= p
        /\ e.seq = seq <=> i = p
    BY <1>2, <2>5, <2>7
  <2> QED
    BY <2>1, <2>8 DEF e, i
<1>5. k = IF stops = {} THEN 0 ELSE CHOOSE i \in stops : \A j \in stops : j <= i
  BY DEF InsertAfter
<1>6. stops = {j \in 1..len : ids[j] <= p}
  BY <1>1, <1>4
<1>7. Listed(seq, cur) = IF k > 0 /\ incoming[k].seq = seq THEN k ELSE 0
  BY Zenon DEF Listed
<1> HIDE DEF stops, k, seq, cur, len
<1>8. stops # {} => k \in stops /\ \A j \in stops : j <= k
  <2>1. stops \in SUBSET (0..len)
    BY <1>1, <1>6
  <2>2. stops # {} => \E i \in stops : \A j \in stops : j <= i
    BY <1>1, <2>1, GreatestNat
  <2> QED
    BY <1>5, <2>2
<1>9. k \in 0..len /\ (stops = {} => k = 0)
  <2>1. stops # {} => k \in 0..len
    BY <1>1, <1>6, <1>8
  <2> QED
    BY <1>1, <1>5, <2>1
<1>10. ASSUME NEW j \in 1..len PROVE j <= k <=> ids[j] <= p
  <2>1. ASSUME ids[j] <= p PROVE j <= k
    BY <1>6, <1>8, <2>1
  <2>2. ASSUME j <= k PROVE ids[j] <= p
    <3>1. k \in stops
      BY <1>1, <1>8, <1>9, <2>2
    <3>2. k \in 1..len /\ ids[k] <= p
      BY <1>6, <3>1
    <3>3. j = k \/ ids[j] < ids[k]
      BY <1>1, <1>2, <2>2, <3>2
    <3>4. ids[j] \in Nat /\ ids[k] \in Nat
      BY <1>4, <3>2
    <3> QED
      BY <1>1, <3>2, <3>3, <3>4
  <2> QED
    BY <2>1, <2>2
<1>11. Found(p, k, ids)
  BY <1>9, <1>10 DEF Found, len
<1>12. Listed(seq, cur) = IF k > 0 /\ ids[k] = p THEN k ELSE 0
  <2>1. CASE k > 0
    <3>1. k \in 1..len
      BY <1>1, <1>9, <2>1
    <3> QED
      BY <1>4, <1>7, <3>1
  <2>2. CASE ~(k > 0)
    BY <1>7, <2>2
  <2> QED
    BY <2>1, <2>2
<1> QED
  BY <1>11, <1>12 DEF k, seq, cur

\* A list holds the parts of another.
HoldsParts(list) == \A e \in Members(incoming) : \A q \in e.parts :
                       \E f \in Members(list) : q \in f.parts

\* Where the entries of a list are after an insertion.
LEMMA InsertPlaces ==
    ASSUME NEW q \in Seq(Incoming), NEW k \in 0..Len(q), NEW e \in Incoming
    PROVE  /\ Len(InsertAt(q, k + 1, e)) = Len(q) + 1
           /\ InsertAt(q, k + 1, e)[k + 1] = e
           /\ \A j \in 1..k : InsertAt(q, k + 1, e)[j] = q[j]
           /\ \A j \in (k + 1)..Len(q) : InsertAt(q, k + 1, e)[j + 1] = q[j]
<1> DEFINE a == SubSeq(q, 1, (k + 1) - 1)
           b == SubSeq(q, k + 1, Len(q))
           u == <<e>>
           len == Len(q)
<1>0. len \in Nat /\ k \in Nat /\ k <= len /\ (k + 1) - 1 = k /\ \A j \in 1..len : q[j] \in Incoming
  OBVIOUS
<1>1. a \in Seq(Incoming) /\ Len(a) = k /\ \A j \in 1..k : a[j] = q[j]
  <2>1. \A j \in 1..((k + 1) - 1) : q[j] \in Incoming
    BY <1>0
  <2> QED
    BY <2>1, <1>0, SubSeqProperties
<1>2. b \in Seq(Incoming) /\ Len(b) = len - k /\ \A j \in 1..(len - k) : b[j] = q[k + j]
  <2>1. \A j \in (k + 1)..len : q[j] \in Incoming
    BY <1>0
  <2>2. /\ b \in Seq(Incoming)
        /\ Len(b) = IF k + 1 <= len THEN len - (k + 1) + 1 ELSE 0
        /\ \A j \in 1..(len - (k + 1) + 1) : b[j] = q[(k + 1) + j - 1]
    BY <2>1, <1>0, SubSeqProperties
  <2>3. len - (k + 1) + 1 = len - k /\ \A j \in 1..(len - k) : (k + 1) + j - 1 = k + j
    BY <1>0
  <2> HIDE DEF b, len
  <2>4. Len(b) = len - k
    BY <1>0, <2>2, <2>3
  <2> QED
    BY <2>2, <2>3, <2>4
<1>3. InsertAt(q, k + 1, e) = (a \o u) \o b
  BY Zenon DEF InsertAt
<1>4. u \in Seq(Incoming) /\ Len(u) = 1 /\ u[1] = e
  OBVIOUS
<1> HIDE DEF a, b, u, len
<1> DEFINE v == a \o u
<1>5. v \in Seq(Incoming) /\ Len(v) = k + 1 /\ v[k + 1] = e /\ \A j \in 1..k : v[j] = q[j]
  <2>1. /\ v \in Seq(Incoming) /\ Len(v) = Len(a) + Len(u)
        /\ \A j \in 1..(Len(a) + Len(u)) : v[j] = IF j <= Len(a) THEN a[j] ELSE u[j - Len(a)]
    BY <1>1, <1>4, ConcatProperties
  <2>2. /\ k + 1 \in 1..(k + 1) /\ ~(k + 1 <= k) /\ (k + 1) - k = 1
        /\ \A j \in 1..k : j \in 1..(k + 1) /\ j <= k
    BY <1>0
  <2> HIDE DEF v
  <2>3. Len(v) = k + 1 /\ \A j \in 1..(k + 1) : v[j] = IF j <= k THEN a[j] ELSE u[j - k]
    BY <1>1, <1>4, <2>1
  <2> QED
    BY <1>1, <1>4, <2>1, <2>2, <2>3
<1> HIDE DEF v
<1> DEFINE w == v \o b
<1>6. /\ Len(w) = len + 1 /\ w[k + 1] = e /\ \A j \in 1..k : w[j] = q[j]
      /\ \A j \in (k + 1)..len : w[j + 1] = q[j]
  <2>1. /\ Len(w) = Len(v) + Len(b)
        /\ \A j \in 1..(Len(v) + Len(b)) : w[j] = IF j <= Len(v) THEN v[j] ELSE b[j - Len(v)]
    BY <1>2, <1>5, ConcatProperties
  <2>2. /\ k + 1 \in 1..(len + 1) /\ k + 1 <= k + 1 /\ (k + 1) + (len - k) = len + 1
        /\ \A j \in 1..k : j \in 1..(len + 1) /\ j <= k + 1
        /\ \A j \in (k + 1)..len : /\ j + 1 \in 1..(len + 1) /\ ~(j + 1 <= k + 1)
                                   /\ (j + 1) - (k + 1) \in 1..(len - k)
                                   /\ k + ((j + 1) - (k + 1)) = j
    BY <1>0
  <2> HIDE DEF w
  <2>3. /\ Len(w) = len + 1
        /\ \A j \in 1..(len + 1) : w[j] = IF j <= k + 1 THEN v[j] ELSE b[j - (k + 1)]
    BY <1>2, <1>5, <2>1, <2>2
  <2>4. \A j \in (k + 1)..len : w[j + 1] = q[j]
    <3>1. ASSUME NEW j \in (k + 1)..len PROVE w[j + 1] = q[j]
      <4> DEFINE i == (j + 1) - (k + 1)
      <4>1. j + 1 \in 1..(len + 1) /\ ~(j + 1 <= k + 1) /\ i \in 1..(len - k) /\ k + i = j
        BY <2>2
      <4>2. w[j + 1] = b[i]
        BY <2>3, <4>1
      <4> HIDE DEF i
      <4> QED
        BY <1>2, <4>1, <4>2
    <3> QED
      BY <3>1
  <2> QED
    BY <1>5, <2>2, <2>3, <2>4
<1> QED
  BY <1>3, <1>6 DEF v, w, len

\* A new entry keeps the list in the order of its packets.
LEMMA InsertListing ==
    ASSUME TypeOK, NEW at, NEW top, NEW ids, Listing(incoming, ids, Passed, at, top),
           NEW p \in (Passed + 1)..Len(counts), NEW k, Found(p, k, ids), k > 0 => ids[k] # p,
           NEW e \in Incoming, EntryOf(e, p, at, top)
    PROVE  /\ \E places : Listing(InsertAt(incoming, k + 1, e), places, Passed, at, top)
           /\ HoldsParts(InsertAt(incoming, k + 1, e))
           /\ e \in Members(InsertAt(incoming, k + 1, e))
           /\ InsertAt(incoming, k + 1, e) \in Seq(Incoming)
<1> DEFINE list == InsertAt(incoming, k + 1, e)
           len == Len(incoming)
           places == [j \in 1..(len + 1) |-> IF j <= k THEN ids[j]
                                             ELSE IF j = k + 1 THEN p ELSE ids[j - 1]]
<1>1. /\ incoming \in Seq(Incoming) /\ len \in Nat /\ Len(counts) \in Nat /\ Passed \in Nat
      /\ k \in 0..len /\ k \in Nat /\ k <= len
      /\ \A j \in 1..len : j <= k <=> ids[j] <= p
  BY DEF TypeOK, Found, Passed
<1>2. /\ ids \in [1..len -> (Passed + 1)..Len(counts)]
      /\ \A i, j \in 1..len : i < j => ids[i] < ids[j]
      /\ \A j \in 1..len : EntryOf(incoming[j], ids[j], at, top)
  BY DEF Listing
<1>3. /\ list \in Seq(Incoming) /\ Len(list) = len + 1 /\ list[k + 1] = e
      /\ \A j \in 1..k : list[j] = incoming[j]
      /\ \A j \in (k + 1)..len : list[j + 1] = incoming[j]
  <2>1. incoming \in Seq(Incoming) /\ k \in 0..Len(incoming) /\ e \in Incoming
    BY <1>1
  <2>2. list \in Seq(Incoming)
    BY <2>1, InsertType
  <2>3. /\ Len(list) = len + 1 /\ list[k + 1] = e
        /\ \A j \in 1..k : list[j] = incoming[j]
        /\ \A j \in (k + 1)..len : list[j + 1] = incoming[j]
    BY <2>1, InsertPlaces
  <2> QED
    BY <2>2, <2>3
<1> HIDE DEF list, len
<1>4. \A j \in 1..(len + 1) : \/ j \in 1..k /\ j \in 1..len
                              \/ j = k + 1
                              \/ j - 1 \in (k + 1)..len /\ j - 1 \in 1..len /\ (j - 1) + 1 = j
                                 /\ ~(j <= k) /\ j # k + 1
  <2>1. len \in Nat /\ k \in Nat /\ k <= len
    BY <1>1
  <2>2. ASSUME NEW j \in 1..(len + 1)
        PROVE  \/ j \in 1..k /\ j \in 1..len
               \/ j = k + 1
               \/ j - 1 \in (k + 1)..len /\ j - 1 \in 1..len /\ (j - 1) + 1 = j
                  /\ ~(j <= k) /\ j # k + 1
    <3>1. CASE j <= k
      BY <2>1, <3>1
    <3>2. CASE j = k + 1
      BY <3>2
    <3>3. CASE ~(j <= k) /\ j # k + 1
      <4>1. j \in Nat /\ k + 2 <= j /\ j <= len + 1
        BY <2>1, <3>3
      <4> QED
        BY <2>1, <3>3, <4>1
    <3> QED
      BY <3>1, <3>2, <3>3
  <2> QED
    BY <2>2, Zenon
<1>5. \A j \in 1..len : ids[j] \in Nat /\ (j <= k => ids[j] < p) /\ (~(j <= k) => p < ids[j])
  <2>1. ASSUME NEW j \in 1..len PROVE ids[j] \in Nat /\ (j <= k => ids[j] < p) /\ (~(j <= k) => p < ids[j])
    <3>1. ids[j] \in Nat /\ p \in Nat
      BY <1>1, <1>2
    <3>2. j <= k => ids[j] # p
      <4>1. ASSUME j <= k, j # k PROVE ids[j] # p
        <5>1. k \in 1..len /\ j < k
          BY <1>1, <4>1
        <5>2. ids[j] < ids[k] /\ ids[k] <= p /\ ids[k] \in Nat
          BY <1>1, <1>2, <5>1
        <5> QED
          BY <3>1, <5>2
      <4>2. ASSUME j = k PROVE ids[j] # p
        BY <1>1, <4>2
      <4> QED
        BY <4>1, <4>2
    <3> QED
      BY <1>1, <3>1, <3>2
  <2> QED
    BY <2>1
<1>6. places \in [1..(len + 1) -> (Passed + 1)..Len(counts)]
  <2>1. ASSUME NEW j \in 1..(len + 1) PROVE places[j] \in (Passed + 1)..Len(counts)
    BY <1>1, <1>2, <1>4
  <2> QED
    BY <2>1
<1>7. \A j \in 1..(len + 1) : /\ j <= k => places[j] = ids[j]
                              /\ j = k + 1 => places[j] = p
                              /\ ~(j <= k) /\ j # k + 1 => places[j] = ids[j - 1]
  BY <1>1
<1> HIDE DEF places
<1>8. ASSUME NEW i \in 1..(len + 1), NEW j \in 1..(len + 1), i < j PROVE places[i] < places[j]
  <2>1. CASE i \in 1..k
    <3>1. i \in 1..len /\ i <= k /\ places[i] = ids[i] /\ ids[i] < p /\ ids[i] \in Nat
      BY <1>1, <1>5, <1>7, <2>1
    <3>2. CASE j \in 1..k
      BY <1>1, <1>2, <1>7, <1>8, <3>1, <3>2
    <3>3. CASE j = k + 1
      BY <1>1, <1>7, <3>1, <3>3
    <3>4. CASE j - 1 \in (k + 1)..len
      <4>1. j - 1 \in 1..len /\ ~(j <= k) /\ j # k + 1 /\ ~(j - 1 <= k)
        BY <1>1, <3>4
      <4>2. places[j] = ids[j - 1] /\ p < ids[j - 1] /\ ids[j - 1] \in Nat
        BY <1>5, <1>7, <4>1
      <4> QED
        BY <3>1, <4>2
    <3> QED
      BY <1>4, <3>2, <3>3, <3>4
  <2>2. CASE ~(i \in 1..k)
    <3>1. j - 1 \in 1..len /\ ~(j <= k) /\ j # k + 1 /\ ~(j - 1 <= k)
      BY <1>1, <1>8, <2>2
    <3>2. places[j] = ids[j - 1] /\ p < ids[j - 1] /\ ids[j - 1] \in Nat
      BY <1>5, <1>7, <3>1
    <3>3. CASE i = k + 1
      BY <1>1, <1>7, <3>2, <3>3
    <3>4. CASE i # k + 1
      <4>1. i - 1 \in 1..len /\ i - 1 < j - 1 /\ ~(i <= k)
        BY <1>1, <1>8, <2>2, <3>4
      <4> QED
        BY <1>2, <1>7, <3>1, <3>2, <3>4, <4>1
    <3> QED
      BY <3>3, <3>4
  <2> QED
    BY <2>1, <2>2
<1>9. ASSUME NEW j \in 1..(len + 1) PROVE EntryOf(list[j], places[j], at, top)
  <2>1. CASE j \in 1..k
    BY <1>1, <1>2, <1>3, <1>7, <2>1
  <2>2. CASE j = k + 1
    BY <1>3, <1>7, <2>2
  <2>3. CASE j - 1 \in (k + 1)..len
    <3>1. j - 1 \in 1..len /\ ~(j <= k) /\ j # k + 1 /\ (j - 1) + 1 = j
      BY <1>1, <2>3
    <3>2. list[(j - 1) + 1] = incoming[j - 1]
      BY <1>3, <2>3
    <3>3. places[j] = ids[j - 1]
      BY <1>7, <3>1
    <3> QED
      BY <1>2, <3>1, <3>2, <3>3
  <2> QED
    BY <1>4, <2>1, <2>2, <2>3
<1>10. Listing(list, places, Passed, at, top)
  BY <1>3, <1>6, <1>8, <1>9 DEF Listing
<1>11. e \in Members(list)
  <2>1. k + 1 \in 1..Len(list)
    BY <1>1, <1>3
  <2> QED
    BY <1>3, <2>1 DEF Members
<1>12. \A f \in Members(incoming) : f \in Members(list)
  <2>1. ASSUME NEW j \in 1..len PROVE incoming[j] \in Members(list)
    <3>1. CASE j <= k
      <4>1. j \in 1..k /\ j \in 1..Len(list)
        BY <1>1, <1>3, <3>1
      <4> QED
        BY <1>3, <4>1 DEF Members
    <3>2. CASE ~(j <= k)
      <4>1. j \in (k + 1)..len /\ j + 1 \in 1..Len(list)
        BY <1>1, <1>3, <3>2
      <4> QED
        BY <1>3, <4>1 DEF Members
    <3> QED
      BY <3>1, <3>2
  <2> QED
    BY <2>1 DEF Members, len
<1> QED
  BY <1>3, <1>10, <1>11, <1>12 DEF list, HoldsParts

\* A fragment joins the others of its packet.
LEMMA JoinListing ==
    ASSUME TypeOK, NEW at, NEW top, NEW ids, Listing(incoming, ids, Passed, at, top),
           NEW k \in 1..Len(incoming), NEW c \in Command, IsPart(c), c.pkt = ids[k],
           AbsOf(c, at) <= top,
           NEW list, list = [incoming EXCEPT ![k].parts = @ \cup {PartOf(c)}]
    PROVE  /\ Listing(list, ids, Passed, at, top) /\ HoldsParts(list) /\ list \in Seq(Incoming)
           /\ \E f \in Members(list) : PartOf(c) \in f.parts
<1> DEFINE f == [incoming[k] EXCEPT !.parts = incoming[k].parts \cup {PartOf(c)}]
           len == Len(incoming)
<1>1. incoming \in [1..len -> Incoming] /\ len \in Nat
  BY DEF TypeOK
<1>2. /\ f \in Incoming /\ f.seq = incoming[k].seq /\ f.count = incoming[k].count
      /\ f.parts = incoming[k].parts \cup {PartOf(c)}
  BY <1>1, PartType DEF Incoming
<1>3. list = [incoming EXCEPT ![k] = f]
  OBVIOUS
<1> HIDE DEF f
<1>4. /\ list \in [1..len -> Incoming] /\ list[k] = f
      /\ \A j \in 1..len : j # k => list[j] = incoming[j]
  BY <1>1, <1>2, <1>3
<1>5. list \in Seq(Incoming) /\ Len(list) = len
  BY <1>1, <1>4, SeqOfLength
<1> HIDE DEF len
<1>6. /\ ids \in [1..len -> (Passed + 1)..Len(counts)]
      /\ \A i, j \in 1..len : i < j => ids[i] < ids[j]
      /\ \A j \in 1..len : EntryOf(incoming[j], ids[j], at, top)
      /\ k \in 1..len
  BY DEF Listing, len
<1>7. EntryOf(f, ids[k], at, top)
  <2> DEFINE q == PartOf(c)
             i == ids[k]
  <2>1. q.pkt = i /\ IsPart(q) /\ AbsOf(q, at) <= top
    BY PartOfFacts
  <2>2. EntryOf(incoming[k], i, at, top)
    BY <1>6
  <2> HIDE DEF q, i
  <2>3. /\ f.count = counts[i] /\ f.seq = at[i] % SeqSpace /\ f.parts # {}
        /\ \A b \in incoming[k].parts \cup {q} : b.pkt = i /\ IsPart(b) /\ AbsOf(b, at) <= top
    BY <1>2, <2>1, <2>2 DEF EntryOf
  <2>4. f.parts = incoming[k].parts \cup {q}
    BY <1>2 DEF q
  <2>5. EntryOf(f, i, at, top)
    BY <2>3, <2>4 DEF EntryOf
  <2> QED
    BY <2>5 DEF i
<1>8. \A j \in 1..len : EntryOf(list[j], ids[j], at, top)
  BY <1>4, <1>6, <1>7
<1>9. Listing(list, ids, Passed, at, top)
  BY <1>5, <1>6, <1>8 DEF Listing
<1>10. \A j \in 1..len : list[j] \in Members(list)
  BY <1>5 DEF Members
<1>11. \E b \in Members(list) : PartOf(c) \in b.parts
  BY <1>2, <1>4, <1>6, <1>10
<1>12. HoldsParts(list)
  <2>1. ASSUME NEW j \in 1..len, NEW q \in incoming[j].parts PROVE \E b \in Members(list) : q \in b.parts
    <3>1. q \in list[j].parts
      BY <1>2, <1>4
    <3> QED
      BY <1>10, <3>1
  <2> QED
    BY <2>1 DEF HoldsParts, Members, len
<1> QED
  BY <1>5, <1>9, <1>11, <1>12

\* What the receiver has after a data command: nothing is taken back, and the part has
\* arrived, unless it is of the windows whose acknowledgement is suppressed.
Arrives(c, at, top) ==
    /\ Passed' \in Nat /\ Passed <= Passed' /\ Passed' <= Len(counts)
    /\ Cur(at)' \in Nat /\ Cur(at) <= Cur(at)' /\ Cur(at)' <= top
    /\ \E ids : ListOrder(at, top, ids)'
    /\ DeliveryOrder'
    /\ \A q : q.pkt \in Nat /\ Received(q) => Received(q)'
    /\ Win(AbsOf(c, at)) <= Win(Cur(at)') + FREE_WINDOWS - 2 => Received(c)'

\* A command that joined the list has arrived.
LEMMA DispatchArrives ==
    ASSUME NEW at, NEW top, NEW list, Delivers(list, at, top), HoldsParts(list),
           Passed \in Nat, NEW c, c.pkt \in Nat, \E f \in Members(list) : PartOf(c) \in f.parts
    PROVE  Arrives(c, at, top)
<1>1. \A e \in Members(list) : \A q \in e.parts :
         q.pkt <= Passed' \/ \E f \in Members(incoming)' : q \in f.parts
  BY DEF Delivers
<1>2. ASSUME NEW q, \E f \in Members(list) : PartOf(q) \in f.parts PROVE Received(q)'
  <2>1. PartOf(q).pkt = q.pkt
    BY DEF PartOf
  <2>2. q.pkt <= Passed' \/ \E f \in Members(incoming)' : PartOf(q) \in f.parts
    BY <1>1, <1>2, <2>1
  <2> QED
    BY <2>2 DEF Received, PartOf
<1>3. Passed' \in Nat /\ Passed <= Passed'
  BY DEF Delivers
<1>4. ASSUME NEW q, q.pkt \in Nat, Received(q) PROVE Received(q)'
  <2>1. CASE q.pkt <= Passed
    BY <1>3, <1>4, <2>1 DEF Received
  <2>2. CASE \E e \in Members(incoming) : PartOf(q) \in e.parts
    <3>1. \E f \in Members(list) : PartOf(q) \in f.parts
      BY <2>2 DEF HoldsParts
    <3> QED
      BY <1>2, <3>1
  <2> QED
    BY <1>4, <2>1, <2>2 DEF Received
<1> QED
  BY <1>2, <1>4 DEF Arrives, Delivers

\* A command that is ignored arrived before or is too far ahead.
LEMMA IgnoredArrives ==
    ASSUME TypeOK, NEW at, NEW top, NEW ids, Ends(at, top, ids),
           Ignored, UNCHANGED <<counts, delivered>>, NEW c,
           Received(c) \/ ~(Win(AbsOf(c, at)) <= Win(Cur(at)) + FREE_WINDOWS - 2)
    PROVE  Arrives(c, at, top)
<1>1. UNCHANGED <<incoming, dispatched, delivered>>
      /\ UNCHANGED <<counts, incoming, dispatched, delivered, incomingReliableSequenceNumber>>
  BY DEF Ignored
<1>2. ListOrder(at, top, ids)' /\ DeliveryOrder'
  BY <1>1, ListsKept
<1>3. Passed' = Passed /\ Cur(at)' = Cur(at) /\ \A q : Received(q)' <=> Received(q)
  BY <1>1, SameReceived
<1>4. Passed \in Nat /\ Cur(at) \in Nat /\ Cur(at) <= top /\ Passed <= Len(counts)
  BY EndFacts DEF Ends, Reach
<1> QED
  BY <1>2, <1>3, <1>4 DEF Arrives

\* Where a command that travels stands on the receiver's reckoning.
Placed(c, at, top) ==
    /\ IsPart(c) /\ c.pkt \in 1..Len(counts) /\ c.count = counts[c.pkt]
    /\ at[c.pkt] \in Nat /\ AbsOf(c, at) \in Nat /\ at[c.pkt] <= AbsOf(c, at)
    /\ AbsOf(c, at) <= top
    /\ c.seq = AbsOf(c, at) % SeqSpace /\ StartOf(c) = at[c.pkt] % SeqSpace
    /\ c.count = 0 => AbsOf(c, at) = at[c.pkt]
    /\ c.pkt <= Passed
         => \/ ~InReceiveWindow(at[c.pkt] % SeqSpace, incomingReliableSequenceNumber)
            \/ c.count = 0 /\ c.seq = incomingReliableSequenceNumber
    /\ ~(c.pkt <= Passed)
         => /\ c.pkt \in (Passed + 1)..Len(counts)
            /\ at[c.pkt] % SeqSpace # incomingReliableSequenceNumber
            /\ InReceiveWindow(at[c.pkt] % SeqSpace, incomingReliableSequenceNumber)
                 <=> Win(at[c.pkt]) <= Win(Cur(at)) + FREE_WINDOWS - 2
LEMMA DataFacts ==
    ASSUME TypeOK, NEW at, NEW top, NEW ids, Ends(at, top, ids),
           NEW c \in Command, Travels(c, at, top), Recent(c, at, top)
    PROVE  Placed(c, at, top)
<1> DEFINE p == c.pkt
           s == at[p]
           x == AbsOf(c, at)
           r == Cur(at)
           n == SeqSpace
           len == Length(counts[p])
           cur == incomingReliableSequenceNumber
<1>1. /\ counts \in Seq(Counts) /\ Len(counts) \in Nat /\ Passed \in Nat /\ Numbering(at)
      /\ Passed + 1 \in 1..(Len(counts) + 1)
      /\ top \in Nat /\ r \in Nat /\ at[Passed + 1] = r + 1 /\ r <= top
      /\ top < r + n /\ n \in Nat
      /\ Win(top) <= Win(r) + FREE_WINDOWS /\ cur = r % n
  BY EndFacts, SpaceFacts DEF Ends, Reach, ListOrder
<1>2. IsPart(c) /\ c.count = counts[p] /\ c.seq = x % n /\ x <= top
  BY DEF Travels, Numbered
<1>3. /\ p \in 1..Len(counts) /\ c.number \in Nat /\ x \in Nat /\ s \in Nat /\ s <= x
      /\ x - c.number = s /\ x < at[p + 1] /\ p + 1 \in 1..(Len(counts) + 1)
  BY <1>1, <1>2, PartNumbers
<1>4. /\ counts[p] \in Counts /\ at[p + 1] = s + len /\ p \in 1..(Len(counts) + 1)
  BY <1>1, <1>3, PacketNumbers
<1>5. /\ len \in Nat \ {0} /\ len <= WINDOW_SIZE + 1
      /\ (c.count = 0 => len = 1) /\ (c.count # 0 => 2 <= len)
  <2>1. len \in Nat /\ len <= Longest /\ Longest \in Nat /\ Longest <= WINDOW_SIZE + 1
    BY <1>4, LongestFacts, CountFacts
  <2>2. FragmentCounts \subseteq 2..MaxCommands /\ WINDOW_SIZE \in Nat /\ MaxCommands \in Nat
    BY ChannelAssumption
  <2>3. (c.count = 0 => len = 1) /\ (c.count # 0 => 2 <= len)
    <3>1. c.count = 0 \/ c.count \in 2..MaxCommands
      BY <1>2, <1>4, <2>2 DEF Counts
    <3>2. len = IF c.count = 0 THEN 1 ELSE c.count
      BY <1>2 DEF Length
    <3> HIDE DEF len
    <3> QED
      BY <2>2, <3>1, <3>2
  <2> HIDE DEF len
  <2> QED
    BY <2>1, <2>2, <2>3
<1>6. c.number < n /\ c.number <= x
  <2>1. WINDOW_SIZE < n
    <3>1. WINDOW_SIZE \in Nat \ {0} /\ WINDOWS \in Nat /\ 2 \in Nat /\ 2 <= WINDOWS
      BY ChannelAssumption
    <3>2. 2 * WINDOW_SIZE <= WINDOWS * WINDOW_SIZE
      BY <3>1, Products
    <3>3. WINDOWS * WINDOW_SIZE \in Nat
      BY <3>1
    <3> QED
      BY <3>1, <3>2, <3>3 DEF SeqSpace
  <2>2. c.number <= len - 1
    BY <1>2, <1>5 DEF IsPart
  <2>3. WINDOW_SIZE \in Nat
    BY ChannelAssumption
  <2> HIDE DEF len, n, x, s
  <2>4. c.number \in Nat /\ len \in Nat /\ len <= WINDOW_SIZE + 1 /\ n \in Nat
    BY <1>1, <1>3, <1>5
  <2>5. c.number < n
    BY <2>1, <2>2, <2>3, <2>4
  <2>6. x \in Nat /\ s \in Nat /\ s <= x /\ x - c.number = s
    BY <1>3
  <2>7. c.number <= x
    BY <2>4, <2>6
  <2> QED
    BY <2>5, <2>7
<1>7. StartOf(c) = s % n
  <2>1. StartOf(c) = (x - c.number) % n
    BY <1>2, <1>3, <1>6, StartNumber
  <2> QED
    BY <1>3, <2>1
<1>8. c.count = 0 => x = s
  <2> HIDE DEF len, x, s
  <2> QED
    BY <1>3, <1>4, <1>5
<1>9. ASSUME p <= Passed
      PROVE  ~InReceiveWindow(s % n, cur) \/ (c.count = 0 /\ c.seq = cur)
  <2>1. p + 1 <= Passed + 1 /\ at[p + 1] <= at[Passed + 1]
    <3>1. p + 1 <= Passed + 1
      BY <1>1, <1>3, <1>9
    <3> QED
      BY <1>1, <1>3, <3>1, PacketNumbers
  <2>2. s + len <= r + 1
    BY <1>1, <1>4, <2>1
  <2>3. CASE s = r
    <3>1. len = 1
      BY <1>1, <1>5, <2>2, <2>3
    <3> QED
      BY <1>1, <1>2, <1>5, <1>8, <2>3, <3>1
  <2>4. CASE s # r
    <3>1. s < r
      <4> HIDE DEF s, r, len
      <4>1. s \in Nat /\ r \in Nat /\ len \in Nat \ {0}
        BY <1>1, <1>3, <1>5
      <4> QED
        BY <2>2, <2>4, <4>1
    <3>2. Win(s) >= Win(top) - WINDOWS + FREE_WINDOWS - 1
      BY DEF Recent
    <3>3. r < s + n
      BY <1>1, <1>3, <3>2, WithinTurn
    <3>4. Ahead(s, r)
      BY <1>1, <1>3, <3>1, <3>3 DEF Ahead
    <3>5. Win(s) >= Win(r) - WINDOWS + FREE_WINDOWS - 1
      <4>1. Win(r) <= Win(top) /\ Win(r) \in Nat /\ Win(top) \in Nat /\ Win(s) \in Nat
        BY <1>1, <1>3, WinOrder, WinFacts
      <4>2. WINDOWS \in Nat /\ FREE_WINDOWS \in Nat
        BY ChannelAssumption
      <4> QED
        BY <3>2, <4>1, <4>2
    <3> QED
      <4>1. ~InReceiveWindow(s % SeqSpace, r % SeqSpace)
        BY <3>4, <3>5, LooksBehind
      <4>2. cur = r % SeqSpace
        BY <1>1
      <4> QED
        BY <4>1, <4>2, Zenon
  <2> QED
    BY <2>3, <2>4
<1>10. ASSUME ~(p <= Passed)
       PROVE  /\ p \in (Passed + 1)..Len(counts) /\ s % n # cur
              /\ InReceiveWindow(s % n, cur) <=> Win(s) <= Win(r) + FREE_WINDOWS - 2
  <2>1. Passed < p /\ p \in (Passed + 1)..Len(counts)
    BY <1>1, <1>3, <1>10
  <2>2. s <= top
    <3>1. s \in Nat /\ x \in Nat /\ top \in Nat /\ s <= x /\ x <= top
      BY <1>1, <1>2, <1>3
    <3> HIDE DEF s, x
    <3> QED
      BY <3>1
  <2>3. Ahead(r, s)
    BY <1>3, <2>1, <2>2, PacketAhead
  <2>4. s % n # cur
    BY <1>1, <2>3, AheadTurn
  <2> QED
    BY <1>1, <2>1, <2>3, <2>4, LooksAhead
<1> QED
  BY <1>2, <1>3, <1>7, <1>8, <1>9, <1>10 DEF Placed

\* A new entry arrives.
LEMMA QueueArrives ==
    ASSUME TypeOK, NEW at, NEW top, NEW ids, Ends(at, top, ids), UNCHANGED <<counts, delivered>>,
           NEW c \in Command, Placed(c, at, top), ~(c.pkt <= Passed),
           NEW start, start = at[c.pkt] % SeqSpace, start \in SeqNo,
           Listed(start, incomingReliableSequenceNumber) = 0,
           NEW e, e = [seq |-> start, count |-> c.count, parts |-> {PartOf(c)}],
           queue_incoming_command(e, incomingReliableSequenceNumber)
    PROVE  Arrives(c, at, top)
<1> DEFINE p == c.pkt
           k == InsertAfter(start, incomingReliableSequenceNumber)
           list == InsertAt(incoming, k + 1, e)
<1>1. /\ p \in (Passed + 1)..Len(counts) /\ p \in 1..Len(counts) /\ c.count = counts[p]
      /\ at[p] \in Nat /\ at[p] <= AbsOf(c, at) /\ AbsOf(c, at) \in Nat /\ AbsOf(c, at) <= top
      /\ IsPart(c)
  BY DEF Placed
<1>2. Passed \in Nat /\ top \in Nat /\ Len(counts) \in Nat
  BY EndFacts
<1>3. Passed < p /\ at[p] <= top /\ p \in Nat
  BY <1>1, <1>2
<1>4. Found(p, k, ids) /\ Listed(start, incomingReliableSequenceNumber) = IF k > 0 /\ ids[k] = p THEN k ELSE 0
  BY <1>1, <1>3, SearchPlace
<1>5. Listing(incoming, ids, Passed, at, top)
  BY DEF Ends, ListOrder
<1>6. e \in Incoming /\ e.seq = start /\ PartOf(c) \in e.parts
  BY PartType DEF Incoming
<1>7. EntryOf(e, p, at, top)
  <2> DEFINE q == PartOf(c)
  <2>1. q.pkt = p /\ IsPart(q) /\ AbsOf(q, at) <= top
    BY <1>1, PartOfFacts
  <2>2. e.count = counts[p] /\ e.seq = at[p] % SeqSpace /\ e.parts = {q}
    BY <1>1
  <2> HIDE DEF q
  <2> QED
    BY <2>1, <2>2 DEF EntryOf
<1>8. Dispatch(list, incomingReliableSequenceNumber)
  BY <1>6 DEF queue_incoming_command
<1> HIDE DEF k
<1>9. k > 0 => ids[k] # p
  BY <1>4
<1>10. /\ \E places : Listing(list, places, Passed, at, top)
       /\ HoldsParts(list) /\ e \in Members(list) /\ list \in Seq(Incoming)
  BY <1>1, <1>4, <1>5, <1>6, <1>7, <1>9, InsertListing
<1> HIDE DEF list
<1>p. PICK places : Listing(list, places, Passed, at, top)
  BY <1>10
<1>l. PICK new : new = list
  OBVIOUS
<1>n. new \in Seq(Incoming) /\ Listing(new, places, Passed, at, top)
      /\ Dispatch(new, incomingReliableSequenceNumber)
  BY <1>8, <1>10, <1>l, <1>p
<1>11. Delivers(new, at, top)
  BY <1>n, DispatchDelivery
<1> QED
  BY <1>2, <1>3, <1>6, <1>10, <1>11, <1>l, DispatchArrives

\* handle_send_reliable.
LEMMA SingleArrives ==
    ASSUME TypeOK, NEW at, NEW top, NEW ids, Ends(at, top, ids), UNCHANGED <<counts, delivered>>,
           NEW c \in Command, Placed(c, at, top), c.count = 0,
           handle_send_reliable(c, incomingReliableSequenceNumber)
    PROVE  Arrives(c, at, top)
<1> DEFINE p == c.pkt
           cur == incomingReliableSequenceNumber
           e == [seq |-> c.seq, count |-> 0, parts |-> {PartOf(c)}]
<1>1. /\ p \in 1..Len(counts) /\ c.count = counts[p] /\ IsPart(c)
      /\ c.seq = at[p] % SeqSpace /\ AbsOf(c, at) = at[p] /\ at[p] <= top
      /\ at[p] \in Nat
  BY DEF Placed
<1>2. IF ~InReceiveWindow(c.seq, cur) \/ c.seq = cur \/ Listed(c.seq, cur) > 0
      THEN Ignored ELSE queue_incoming_command(e, cur)
  BY DEF handle_send_reliable
<1>3. CASE p <= Passed
  <2>1. Ignored
    BY <1>1, <1>2, <1>3 DEF Placed
  <2>2. Received(c)
    BY <1>3 DEF Received
  <2> QED
    BY <2>1, <2>2, IgnoredArrives
<1>4. CASE ~(p <= Passed)
  <2>1. /\ c.seq # cur
        /\ InReceiveWindow(c.seq, cur) <=> Win(at[p]) <= Win(Cur(at)) + FREE_WINDOWS - 2
        /\ p \in (Passed + 1)..Len(counts)
    BY <1>1, <1>4 DEF Placed
  <2>2. CASE ~InReceiveWindow(c.seq, cur)
    BY <1>1, <1>2, <2>1, <2>2, IgnoredArrives
  <2>3. CASE InReceiveWindow(c.seq, cur) /\ Listed(c.seq, cur) > 0
    <3> DEFINE k == InsertAfter(c.seq, cur)
    <3>1. Ignored
      BY <1>2, <2>3
    <3>2. Passed < p
      <4>1. Passed \in Nat /\ Len(counts) \in Nat
        BY EndFacts
      <4> QED
        BY <2>1, <4>1
    <3>3. k \in 0..Len(incoming) /\ Listed(c.seq, cur) = IF k > 0 /\ ids[k] = p THEN k ELSE 0
      BY <1>1, <3>2, SearchPlace DEF Found
    <3> HIDE DEF k
    <3>4. k \in 1..Len(incoming) /\ ids[k] = p
      <4>1. Len(incoming) \in Nat
        BY DEF TypeOK
      <4> QED
        BY <2>3, <3>3, <4>1
    <3>5. EntryOf(incoming[k], p, at, top) /\ incoming[k] \in Members(incoming)
      BY <3>4 DEF Ends, ListOrder, Listing, Members
    <3>6. incoming[k].parts \in SUBSET Part
      <4>1. incoming \in Seq(Incoming)
        BY DEF TypeOK
      <4>2. incoming[k] \in Incoming
        BY <3>4, <4>1
      <4> QED
        BY <4>2 DEF Incoming
    <3>7. PICK q \in incoming[k].parts : q.pkt = p /\ IsPart(q)
      BY <3>5 DEF EntryOf
    <3>8. Length(counts[p]) = 1 /\ 0..(1 - 1) = {0}
      BY <1>1 DEF Length
    <3>9. q.number = 0 /\ c.number = 0
      BY <1>1, <3>7, <3>8 DEF IsPart
    <3>10. q = PartOf(c)
      BY <3>6, <3>7, <3>9 DEF Part, PartOf
    <3>11. Received(c)
      BY <3>5, <3>7, <3>10 DEF Received
    <3> QED
      BY <3>1, <3>11, IgnoredArrives
  <2>4. CASE InReceiveWindow(c.seq, cur) /\ ~(Listed(c.seq, cur) > 0)
    <3>1. queue_incoming_command(e, cur)
      BY <1>2, <2>1, <2>4
    <3>2. Listed(c.seq, cur) = 0
      <4>1. Listed(c.seq, cur) \in 0..Len(incoming) /\ Len(incoming) \in Nat
        BY InsertAfterType DEF Listed, TypeOK
      <4> QED
        BY <2>4, <4>1
    <3>3. c.seq \in SeqNo /\ e = [seq |-> c.seq, count |-> c.count, parts |-> {PartOf(c)}]
      BY PartType
    <3> QED
      BY <1>1, <1>4, <3>1, <3>2, <3>3, QueueArrives
  <2> QED
    BY <2>2, <2>3, <2>4
<1> QED
  BY <1>3, <1>4

\* handle_send_fragment.
LEMMA FragmentArrives ==
    ASSUME TypeOK, NEW at, NEW top, NEW ids, Ends(at, top, ids), UNCHANGED <<counts, delivered>>,
           NEW c \in Command, Placed(c, at, top), c.count # 0,
           handle_send_fragment(c, incomingReliableSequenceNumber)
    PROVE  Arrives(c, at, top)
<1> DEFINE p == c.pkt
           cur == incomingReliableSequenceNumber
           start == StartOf(c)
           k == InsertAfter(start, cur)
           b == Listed(start, cur)
           joins == b > 0 /\ incoming[b].count = c.count
           known == joins /\ c.number \in {q.number : q \in incoming[b].parts}
           inside == InReceiveWindow(start, cur)
           list == [incoming EXCEPT ![b].parts = @ \cup {PartOf(c)}]
           e == [seq |-> start, count |-> c.count, parts |-> {PartOf(c)}]
<1>1. /\ p \in 1..Len(counts) /\ c.count = counts[p] /\ IsPart(c)
      /\ start = at[p] % SeqSpace /\ at[p] \in Nat /\ AbsOf(c, at) \in Nat
      /\ at[p] <= AbsOf(c, at) /\ AbsOf(c, at) <= top
  BY DEF Placed
<1>2. \/ /\ ~inside \/ known
         /\ Ignored
      \/ inside /\ joins /\ ~known /\ Dispatch(list, cur)
      \/ inside /\ b = 0 /\ start # cur /\ queue_incoming_command(e, cur)
  BY DEF handle_send_fragment
<1>3. Passed \in Nat /\ top \in Nat /\ Len(incoming) \in Nat /\ Len(counts) \in Nat
  BY EndFacts DEF TypeOK
<1>4. CASE p <= Passed
  <2>1. ~inside
    BY <1>1, <1>4 DEF Placed
  <2>2. Received(c)
    BY <1>4 DEF Received
  <2> QED
    BY <1>2, <2>1, <2>2, IgnoredArrives
<1>5. CASE ~(p <= Passed)
  <2>1. /\ inside <=> Win(at[p]) <= Win(Cur(at)) + FREE_WINDOWS - 2
        /\ p \in (Passed + 1)..Len(counts) /\ Passed < p
    BY <1>1, <1>3, <1>5 DEF Placed
  <2>2. k \in 0..Len(incoming) /\ b = IF k > 0 /\ ids[k] = p THEN k ELSE 0
    <3>1. at[p] <= top
      BY <1>1, <1>3
    <3> QED
      BY <1>1, <2>1, <3>1, SearchPlace DEF Found
  <2>3. Listing(incoming, ids, Passed, at, top)
    BY DEF Ends, ListOrder
  <2> HIDE DEF k, b, start, inside
  <2>4. b > 0 => b \in 1..Len(incoming) /\ ids[b] = p
    BY <1>3, <2>2
  <2>5. CASE ~inside /\ Ignored
    <3>1. Win(at[p]) <= Win(AbsOf(c, at)) /\ Win(at[p]) \in Nat /\ Win(AbsOf(c, at)) \in Nat
      BY <1>1, WinOrder, WinFacts
    <3>2. Cur(at) \in Nat /\ Win(Cur(at)) \in Nat /\ FREE_WINDOWS \in Nat
      BY EndFacts, WinFacts, ChannelAssumption
    <3>3. ~(Win(AbsOf(c, at)) <= Win(Cur(at)) + FREE_WINDOWS - 2)
      BY <2>1, <2>5, <3>1, <3>2
    <3> QED
      BY <2>5, <3>3, IgnoredArrives
  <2>6. CASE known /\ Ignored
    <3>1. b \in 1..Len(incoming) /\ ids[b] = p
      BY <2>4, <2>6
    <3>2. EntryOf(incoming[b], p, at, top) /\ incoming[b] \in Members(incoming)
      BY <2>3, <3>1 DEF Listing, Members
    <3>3. incoming[b].parts \in SUBSET Part
      <4>1. incoming \in Seq(Incoming)
        BY DEF TypeOK
      <4>2. incoming[b] \in Incoming
        BY <3>1, <4>1
      <4> QED
        BY <4>2 DEF Incoming
    <3>4. PICK q \in incoming[b].parts : q.number = c.number
      BY <2>6
    <3>5. q.pkt = p
      BY <3>2 DEF EntryOf
    <3>6. q = PartOf(c)
      BY <3>3, <3>4, <3>5 DEF Part, PartOf
    <3>7. Received(c)
      BY <3>2, <3>4, <3>6 DEF Received
    <3> QED
      BY <2>6, <3>7, IgnoredArrives
  <2>7. CASE joins /\ Dispatch(list, cur)
    <3>1. b \in 1..Len(incoming) /\ ids[b] = p
      BY <2>4, <2>7
    <3> HIDE DEF joins, known
    <3>p. PICK i : i = b
      OBVIOUS
    <3>l. PICK new : new = list
      OBVIOUS
    <3>2. new = [incoming EXCEPT ![i].parts = @ \cup {PartOf(c)}]
      BY <3>l, <3>p
    <3>3. i \in 1..Len(incoming) /\ c.pkt = ids[i]
      BY <3>1, <3>p
    <3>4. /\ Listing(new, ids, Passed, at, top) /\ HoldsParts(new) /\ new \in Seq(Incoming)
          /\ \E f \in Members(new) : PartOf(c) \in f.parts
      BY <1>1, <2>3, <3>2, <3>3, JoinListing
    <3>5. Dispatch(new, cur)
      BY <2>7, <3>l
    <3>6. Delivers(new, at, top)
      BY <3>4, <3>5, DispatchDelivery
    <3>7. p \in Nat
      BY <1>1
    <3> QED
      BY <1>3, <3>4, <3>6, <3>7, DispatchArrives
  <2>8. CASE b = 0 /\ queue_incoming_command(e, cur)
    <3>p. PICK i : i = start
      OBVIOUS
    <3>e. PICK f : f = e
      OBVIOUS
    <3>1. i = at[p] % SeqSpace /\ i \in SeqNo
      BY <1>1, <3>p, SpaceFacts
    <3>2. Listed(i, cur) = 0
      BY <2>8, <3>p DEF b
    <3>3. f = [seq |-> i, count |-> c.count, parts |-> {PartOf(c)}]
      BY <3>p, <3>e
    <3>4. queue_incoming_command(f, cur)
      BY <2>8, <3>e
    <3> QED
      BY <1>5, <3>1, <3>2, <3>3, <3>4, QueueArrives
  <2> QED
    BY <1>2, <2>5, <2>6, <2>7, <2>8
<1> QED
  BY <1>4, <1>5

\* What is acknowledged is not of the windows that are discarded.
LEMMA NotSuppressed ==
    ASSUME NEW r \in Nat, NEW x \in Nat, NEW top \in Nat, x <= top,
           Win(top) <= Win(r) + FREE_WINDOWS, ~AckSuppressed(x % SeqSpace, r % SeqSpace)
    PROVE  Win(x) <= Win(r) + FREE_WINDOWS - 2
<1>1. /\ Win(x) \in Nat /\ Win(r) \in Nat /\ Win(top) \in Nat /\ Win(x) <= Win(top)
      /\ FREE_WINDOWS \in Nat /\ FREE_WINDOWS >= 3 /\ SeqSpace \in Nat
  BY WinFacts, WinOrder, ChannelAssumption, SpaceFacts
<1>2. CASE x <= r
  <2>1. Win(x) <= Win(r)
    BY <1>2, WinOrder
  <2> QED
    BY <1>1, <2>1
<1>3. CASE r < x
  <2>1. top < r + SeqSpace
    <3>1. top < r + (FREE_WINDOWS + 1) * WINDOW_SIZE
      BY <1>1, WinNear
    <3>2. (FREE_WINDOWS + 1) * WINDOW_SIZE <= WINDOWS * WINDOW_SIZE
      <4>1. FREE_WINDOWS + 1 \in Nat /\ WINDOWS \in Nat /\ WINDOW_SIZE \in Nat /\ FREE_WINDOWS + 1 <= WINDOWS
        BY ChannelAssumption
      <4> QED
        BY <4>1, Products
    <3>3. (FREE_WINDOWS + 1) * WINDOW_SIZE \in Nat
      BY ChannelAssumption
    <3> QED
      BY <1>1, <3>1, <3>2, <3>3 DEF SeqSpace
  <2>2. Ahead(r, x)
    BY <1>1, <1>3, <2>1 DEF Ahead
  <2>3. Win(x) - Win(r) \notin (FREE_WINDOWS - 1)..FREE_WINDOWS
    BY <2>2, LooksAhead
  <2> QED
    BY <1>1, <2>3
<1> QED
  BY <1>2, <1>3

\* handle_incoming_commands takes what travels, and acknowledges what it took.
LEMMA DataDelivery ==
    ASSUME TypeOK, handle_incoming_command, NEW at, NEW top, NEW ids, Ends(at, top, ids)
    PROVE  \E places : Ends(at, top, places)'
<1>0. net \in SUBSET Datagram /\ acknowledgements \in Seq(Command)
  BY DEF TypeOK
<1>1. PICK d \in net :
          /\ \/ d.cmd.count = 0 /\ handle_send_reliable(d.cmd, incomingReliableSequenceNumber)
             \/ d.cmd.count > 0 /\ handle_send_fragment(d.cmd, incomingReliableSequenceNumber)
          /\ acknowledgements' =
                IF AckSuppressed(d.cmd.seq, incomingReliableSequenceNumber')
                THEN acknowledgements
                ELSE Append(acknowledgements, d.cmd)
          /\ net' \in {net, net \ {d}}
          /\ UNCHANGED <<open, senderVars, delivered>>
  BY DEF handle_incoming_command
<1>p. PICK c : c = d.cmd
  OBVIOUS
<1>2. /\ c \in Command /\ c.count \in Nat
      /\ net' \subseteq net /\ UNCHANGED <<open, senderVars>>
      /\ UNCHANGED <<counts, delivered>>
      /\ acknowledgements' = IF AckSuppressed(c.seq, incomingReliableSequenceNumber')
                             THEN acknowledgements ELSE Append(acknowledgements, c)
  <2>1. c \in Command
    BY <1>0, <1>p DEF Datagram
  <2>2. c.count \in Nat
    BY <2>1, PartType, CountFacts
  <2> QED
    BY <1>1, <1>p, <2>1, <2>2 DEF senderVars
<1>3. Travels(c, at, top) /\ Recent(c, at, top)
  BY <1>p DEF Ends, NetOrder
<1>4. Placed(c, at, top)
  BY <1>2, <1>3, DataFacts
<1>5. Arrives(c, at, top)
  <2>1. CASE c.count = 0 /\ handle_send_reliable(c, incomingReliableSequenceNumber)
    BY <1>2, <1>4, <2>1, SingleArrives
  <2>2. CASE c.count > 0 /\ handle_send_fragment(c, incomingReliableSequenceNumber)
    <3>1. c.count # 0
      BY <1>2, <2>2
    <3> QED
      BY <1>2, <1>4, <2>2, <3>1, FragmentArrives
  <2> QED
    BY <1>1, <1>p, <2>1, <2>2
<1>6. PICK places : ListOrder(at, top, places)'
  BY <1>5 DEF Arrives
<1>7. /\ Passed' <= Len(counts) /\ Cur(at)' \in Nat /\ Cur(at) <= Cur(at)' /\ Cur(at)' <= top
      /\ DeliveryOrder' /\ Cur(at) \in Nat /\ top \in Nat
      /\ \A q : q.pkt \in Nat /\ Received(q) => Received(q)'
      /\ Win(AbsOf(c, at)) <= Win(Cur(at)') + FREE_WINDOWS - 2 => Received(c)'
      /\ counts \in Seq(Counts) /\ Numbering(at)
      /\ Win(top) <= Win(Cur(at)) + FREE_WINDOWS
  BY <1>5, EndFacts DEF Arrives, Ends, Reach
<1>r. PICK r : r = Cur(at)'
  OBVIOUS
<1>8. /\ r \in Nat /\ Win(Cur(at)) <= Win(r) /\ Win(Cur(at)) \in Nat /\ Win(r) \in Nat
      /\ FREE_WINDOWS \in Nat /\ Win(top) \in Nat
  BY <1>7, <1>r, WinOrder, WinFacts, ChannelAssumption
<1>9. Win(top) <= Win(r) + FREE_WINDOWS
  BY <1>7, <1>8
<1>10. \A q : Settled(q, at)' <=> Received(q)' /\ Win(AbsOf(q, at)) <= Win(r) + FREE_WINDOWS - 2
  <2>1. \A q : AbsOf(q, at)' = AbsOf(q, at)
    BY DEF AbsOf
  <2> QED
    BY <1>r, <2>1 DEF Settled, Win
<1>11. \A q : IsPart(q) /\ Settled(q, at) => Settled(q, at)'
  <2>1. ASSUME NEW q, IsPart(q), Settled(q, at) PROVE Settled(q, at)'
    <3>1. q.pkt \in Nat /\ AbsOf(q, at) \in Nat
      BY <1>7, <2>1, PartNumbers
    <3>2. Received(q)'
      BY <1>7, <2>1, <3>1 DEF Settled
    <3>3. Win(AbsOf(q, at)) \in Nat
      BY <3>1, WinFacts
    <3>4. Win(AbsOf(q, at)) <= Win(Cur(at)) + FREE_WINDOWS - 2
      BY <2>1 DEF Settled
    <3>5. Win(AbsOf(q, at)) <= Win(r) + FREE_WINDOWS - 2
      BY <1>8, <3>3, <3>4
    <3> QED
      BY <1>10, <3>2, <3>5
  <2> QED
    BY <2>1
<1>12. /\ Numbering(at)' /\ SenderNumbers(at, top)' /\ (open' => SenderEnd(at, top)')
       /\ \A b : Travels(b, at, top)' <=> Travels(b, at, top)
       /\ \A b : Recent(b, at, top)' <=> Recent(b, at, top)
       /\ \A b : Travels(b, at, top) /\ Settled(b, at) => Settled(b, at)'
  BY <1>2, <1>11, ReceiverStep
<1>13. NetOrder(at, top)'
  BY <1>2, <1>12 DEF Ends, NetOrder
<1>14. ASSUME ~AckSuppressed(c.seq, incomingReliableSequenceNumber') PROVE Settled(c, at)'
  <2>1. incomingReliableSequenceNumber' = r % SeqSpace
    BY <1>6, <1>r DEF ListOrder
  <2>2. c.seq = AbsOf(c, at) % SeqSpace /\ AbsOf(c, at) \in Nat /\ AbsOf(c, at) <= top
    BY <1>4 DEF Placed
  <2>3. ~AckSuppressed(AbsOf(c, at) % SeqSpace, r % SeqSpace)
    BY <1>14, <2>1, <2>2, Zenon
  <2>4. Win(AbsOf(c, at)) <= Win(r) + FREE_WINDOWS - 2
    BY <1>7, <1>8, <1>9, <2>2, <2>3, NotSuppressed
  <2>5. Received(c)'
    BY <1>7, <1>r, <2>4
  <2> QED
    BY <1>10, <2>4, <2>5
<1>15. \A b \in Members(acknowledgements)' : b \in Members(acknowledgements)
                                              \/ (b = c /\ Settled(c, at)')
  <2>1. CASE acknowledgements' = acknowledgements
    BY <2>1 DEF Members
  <2>2. CASE ~AckSuppressed(c.seq, incomingReliableSequenceNumber')
             /\ acknowledgements' = Append(acknowledgements, c)
    <3> DEFINE n == Len(acknowledgements)
    <3>1. /\ Len(acknowledgements') = n + 1 /\ acknowledgements'[n + 1] = c
          /\ \A j \in 1..n : acknowledgements'[j] = acknowledgements[j]
          /\ n \in Nat
      BY <1>0, <1>2, <2>2, AppendProperties
    <3>2. \A j \in 1..(n + 1) : j \in 1..n \/ j = n + 1
      BY <3>1
    <3>3. \A b \in Members(acknowledgements)' : b \in Members(acknowledgements) \/ b = c
      BY <3>1, <3>2 DEF Members
    <3> QED
      BY <1>14, <2>2, <3>3
  <2> QED
    BY <1>2, <2>1, <2>2
<1>16. AckOrder(at, top)'
  BY <1>3, <1>12, <1>15 DEF Ends, AckOrder
<1>17. Reach(at, top)'
  <2>1. counts' = counts
    BY <1>2
  <2>2. Win(top)' = Win(top) /\ Win(Cur(at))' = Win(r)
    BY <1>r DEF Win
  <2> QED
    BY <1>7, <1>9, <2>1, <2>2 DEF Reach
<1>18. Ends(at, top, places)'
  BY <1>6, <1>7, <1>12, <1>13, <1>16, <1>17 DEF Ends
<1> QED
  BY <1>18

\* Both ends start at the same number.
LEMMA InitDelivery ==
    ASSUME Init
    PROVE  DeliveryInv
<1> DEFINE at == [i \in 1..1 |-> StartSeq + 1]
           ids == [i \in 1..0 |-> 0]
<1>1. /\ open = TRUE /\ counts = << >> /\ outgoingReliableSequenceNumber = StartSeq
      /\ outgoing = << >> /\ sent = << >> /\ tried = {} /\ net = {}
      /\ incomingReliableSequenceNumber = StartSeq
      /\ incoming = << >> /\ acknowledgements = << >> /\ dispatched = << >> /\ delivered = << >>
  BY DEF Init
<1>2. StartSeq \in Nat /\ StartSeq \in SeqNo /\ StartSeq % SeqSpace = StartSeq
  <2>1. StartSeq \in SeqNo
    BY ChannelAssumption DEF SeqNo, SeqSpace
  <2>2. SeqSpace \in Nat \ {0} /\ StartSeq \in Nat /\ StartSeq < SeqSpace
    BY <2>1, SpaceFacts, StartFacts DEF SeqNo
  <2>3. StartSeq = SeqSpace * 0 + StartSeq
    BY <2>2
  <2> QED
    BY <2>1, <2>2, <2>3, DivUnique
<1>3. ChannelInv
  BY InitInv
<1>4. ClosedInv
  BY <1>1 DEF ClosedInv
<1>5. /\ Len(counts) = 0 /\ Len(dispatched) = 0 /\ Len(delivered) = 0 /\ Len(outgoing) = 0
      /\ Len(incoming) = 0 /\ 1..0 = {} /\ 0 + 1 = 1 /\ Passed = 0
      /\ Members(sent) = {} /\ Members(outgoing) = {} /\ Members(incoming) = {}
      /\ Members(acknowledgements) = {}
  BY <1>1 DEF Passed, Members
<1>6. at \in [1..1 -> Nat] /\ at[1] = StartSeq + 1 /\ at[1] - 1 = StartSeq
  BY <1>2
<1> HIDE DEF at
<1>7. Numbering(at)
  <2>1. \A i \in 1..(0 + 1) : i = 1
    OBVIOUS
  <2>2. at[1] + (1 - 1) <= at[1] /\ at[1] <= at[1] + (1 - 1) * Longest
    <3>1. (1 - 1) * Longest = 0
      BY LongestFacts
    <3> QED
      BY <1>6, <3>1
  <2> QED
    BY <1>5, <1>6, <2>1, <2>2 DEF Numbering
<1>8. Cur(at) = StartSeq
  BY <1>5, <1>6 DEF Cur
<1>9. SenderNumbers(at, StartSeq)
  <2>1. \A q : ~IsPart(q)
    BY <1>5 DEF IsPart
  <2>2. Unacked = {}
    BY <1>5 DEF Unacked
  <2>3. 0 <= MaxPackets /\ StartSeq \in StartSeq..(at[1] - 1)
    BY <1>2, <1>6, ChannelAssumption
  <2> QED
    BY <1>1, <1>2, <1>5, <1>6, <2>1, <2>2, <2>3 DEF SenderNumbers
<1>10. SenderEnd(at, StartSeq)
  <2>1. Again(at, StartSeq) = 0
    BY <1>2, <1>5, <1>6 DEF Again
  <2>2. Unacked = {}
    BY <1>5 DEF Unacked
  <2> QED
    BY <1>1, <1>5, <2>1, <2>2 DEF SenderEnd, QueueOrder, SenderWindow, NoneLost
<1>11. Reach(at, StartSeq)
  <2>1. Win(StartSeq) \in Nat /\ FREE_WINDOWS \in Nat
    BY <1>2, WinFacts, ChannelAssumption
  <2> QED
    BY <1>2, <1>5, <1>8, <2>1 DEF Reach
<1>12. NetOrder(at, StartSeq) /\ AckOrder(at, StartSeq)
  BY <1>1, <1>5 DEF NetOrder, AckOrder
<1>13. ListOrder(at, StartSeq, ids)
  <2>1. ids \in [1..Len(incoming) -> (Passed + 1)..Len(counts)]
    BY <1>5
  <2> QED
    BY <1>1, <1>2, <1>5, <1>8, <2>1 DEF ListOrder, Listing
<1>14. DeliveryOrder
  BY <1>5 DEF DeliveryOrder
<1>15. Ends(at, StartSeq, ids)
  BY <1>7, <1>9, <1>10, <1>11, <1>12, <1>13, <1>14 DEF Ends
<1> QED
  BY <1>3, <1>4, <1>15 DEF DeliveryInv

-----------------------------------------------------------------------------
(* The theorems. *)

\* A step that changes nothing leaves both ends in order.
LEMMA IdleDelivery ==
    ASSUME TypeOK, UNCHANGED vars, NEW at, NEW top, NEW ids, Ends(at, top, ids)
    PROVE  Ends(at, top, ids)'
<1>1. /\ net' \subseteq net /\ UNCHANGED <<sent, outgoing>> /\ UNCHANGED counts
      /\ UNCHANGED <<open, counts, outgoingReliableSequenceNumber, tried, receiverVars>>
  BY DEF vars, senderVars
<1>2. Unacked' = Unacked
  BY <1>1 DEF Unacked, Members
<1>3. open => QueueOrder(at, top)'
  <2>1. \A q : AbsOf(q, at)' = AbsOf(q, at)
    BY DEF AbsOf
  <2> QED
    BY <1>1, <2>1 DEF Ends, SenderEnd, QueueOrder, Again
<1> QED
  BY <1>1, <1>2, <1>3, ReleaseDelivery

\* Every step leaves both ends in order.
LEMMA EndsStep ==
    ASSUME ChannelInv, ChannelInv', ClosedInv, [Next]_vars,
           NEW at, NEW top, NEW ids, Ends(at, top, ids)
    PROVE  \E next, last, places : Ends(next, last, places)'
<1>1. TypeOK /\ TypeOK'
  BY DEF ChannelInv
<1>2. CASE enet_peer_send
  <2>1. \E next : Ends(next, top, ids)'
    BY <1>1, <1>2, SendDelivery
  <2> QED
    BY <2>1
<1>3. CASE SendReliable
  <2>1. PICK c : c = Head(outgoing)
    OBVIOUS
  <2>2. Moves(c)
    BY <1>3, <2>1, TransmitMoves
  <2>3. CASE PartOf(c) \in tried
    <3>1. Ends(at, top, ids)'
      BY <1>1, <1>3, <2>2, <2>3, RetransmitDelivery
    <3> QED
      BY <3>1
  <2>4. CASE PartOf(c) \notin tried
    <3>1. Ends(at, top + 1, ids)'
      BY <1>3, <2>1, <2>2, <2>4, FirstDelivery
    <3> QED
      BY <3>1
  <2> QED
    BY <2>3, <2>4
<1>4. CASE check_timeouts
  <2>1. Ends(at, top, ids)'
    BY <1>4, TimeoutDelivery
  <2> QED
    BY <2>1
<1>5. CASE GiveUp
  <2>1. Ends(at, top, ids)'
    BY <1>1, <1>5, GiveUpDelivery
  <2> QED
    BY <2>1
<1>6. CASE handle_acknowledge
  <2>1. Ends(at, top, ids)'
    BY <1>6, AcknowledgeDelivery
  <2> QED
    BY <2>1
<1>7. CASE handle_incoming_command
  <2>1. \E places : Ends(at, top, places)'
    BY <1>1, <1>7, DataDelivery
  <2> QED
    BY <2>1
<1>8. CASE send_acknowledgements
  <2>1. Ends(at, top, ids)'
    BY <1>8, AcksDelivery
  <2> QED
    BY <2>1
<1>9. CASE enet_peer_receive
  <2>1. Ends(at, top, ids)'
    BY <1>1, <1>9, ReceiveDelivery
  <2> QED
    BY <2>1
<1>10. CASE Lose
  <2>1. Ends(at, top, ids)'
    BY <1>1, <1>10, LoseDelivery
  <2> QED
    BY <2>1
<1>11. CASE UNCHANGED vars
  <2>1. Ends(at, top, ids)'
    BY <1>1, <1>11, IdleDelivery
  <2> QED
    BY <2>1
<1> QED
  BY <1>2, <1>3, <1>4, <1>5, <1>6, <1>7, <1>8, <1>9, <1>10, <1>11 DEF Next

\* The invariant of both ends is inductive.
LEMMA DeliveryStep ==
    ASSUME DeliveryInv, [Next]_vars
    PROVE  DeliveryInv'
<1>1. ChannelInv /\ ClosedInv
  BY DEF DeliveryInv
<1>2. ChannelInv'
  BY <1>1, NextInv
<1>3. ClosedInv'
  BY <1>1, ClosedStep
<1>4. PICK at, top, ids : Ends(at, top, ids)
  BY DEF DeliveryInv
<1>5. \E next, last, places : Ends(next, last, places)'
  BY <1>1, <1>2, <1>4, EndsStep
<1> QED
  BY <1>2, <1>3, <1>5 DEF DeliveryInv

\* Both ends stay in order: with absolute numbers for the commands, the sender is never
\* further ahead of the receiver than the windows it leaves free, whatever the network
\* loses, repeats or reorders and however often the sequence numbers wrap.
THEOREM ChannelDelivery == Spec => []DeliveryInv
<1>1. DeliveryInv /\ [Next]_vars => DeliveryInv'
  BY DeliveryStep
<1> QED
  BY InitDelivery, <1>1, PTL DEF Spec

\* What both ends in order say of a part.
LEMMA PartKept ==
    ASSUME ChannelInv, open, NEW at, NEW top, NEW ids, Ends(at, top, ids),
           NEW i \in 1..Len(counts), NEW k \in 0..(Length(counts[i]) - 1),
           NEW part, part = [pkt |-> i, number |-> k]
    PROVE  \/ \E c \in Unacked : PartOf(c) = part
           \/ \E e \in Members(incoming) \cup Members(dispatched) : part \in e.parts
           \/ \E j \in 1..Len(delivered) : delivered[j] = i
<1> DEFINE n == Len(counts)
           x == AbsOf(part, at)
           g == Again(at, top)
           out == Len(outgoing)
<1>1. /\ TypeOK /\ counts \in Seq(Counts) /\ n \in Nat /\ top \in Nat /\ Numbering(at)
      /\ n <= MaxPackets /\ out \in Nat /\ Len(delivered) \in Nat /\ Len(dispatched) \in Nat
      /\ Passed = Len(delivered) + Len(dispatched)
  <2>1. TypeOK
    BY DEF ChannelInv
  <2>2. counts \in Seq(Counts) /\ n \in Nat /\ top \in Nat
    BY <2>1, EndFacts
  <2>3. Numbering(at) /\ n <= MaxPackets
    BY DEF Ends, SenderNumbers
  <2>4. out \in Nat /\ Len(delivered) \in Nat /\ Len(dispatched) \in Nat
    BY <2>1 DEF TypeOK
  <2> QED
    BY <2>1, <2>2, <2>3, <2>4 DEF Passed
<1>2. IsPart(part) /\ PartOf(part) = part /\ part.pkt = i
  BY DEF IsPart, PartOf
<1>3. part \in Part
  <2>1. i \in Packets
    BY <1>1, ChannelAssumption DEF Packets
  <2>2. counts[i] \in Counts /\ Length(counts[i]) \in Nat
    BY <1>1, CountFacts
  <2>3. k + 1 \in 1..Length(counts[i]) /\ (k + 1) - 1 = k
    BY <2>2
  <2>4. k \in Numbers
    BY <2>2, <2>3, CountFacts
  <2> QED
    BY <2>1, <2>4 DEF Part
<1>4. x \in Nat /\ x < at[i + 1] /\ i + 1 \in 1..(n + 1)
  BY <1>1, <1>2, PartNumbers
<1>5. CASE x <= top
  <2>1. part \in tried
    BY <1>2, <1>3, <1>5 DEF Ends, SenderNumbers
  <2>2. CASE Received(part)
    <3>1. CASE i <= Passed
      <4>1. CASE i <= Len(delivered)
        <5>1. i \in 1..Len(delivered)
          BY <1>1, <4>1
        <5>2. delivered[i] = i
          BY <5>1 DEF Ends, DeliveryOrder
        <5> QED
          BY <5>1, <5>2
      <4>2. CASE ~(i <= Len(delivered))
        <5> DEFINE j == i - Len(delivered)
        <5>1. j \in 1..Len(dispatched) /\ Len(delivered) + j = i
          BY <1>1, <3>1, <4>2
        <5> HIDE DEF j
        <5>2. Whole(dispatched[j], i)
          BY <5>1 DEF Ends, DeliveryOrder
        <5>3. part \in dispatched[j].parts
          BY <5>2 DEF Whole, PartsOf
        <5> QED
          BY <5>1, <5>3 DEF Members
      <4> QED
        BY <4>1, <4>2
    <3>2. CASE \E e \in Members(incoming) : PartOf(part) \in e.parts
      BY <1>2, <3>2
    <3> QED
      BY <1>2, <2>2, <3>1, <3>2 DEF Received
  <2> QED
    BY <2>1, <2>2 DEF Ends, SenderEnd, NoneLost, Settled
<1>6. CASE ~(x <= top)
  <2> DEFINE j == g + (x - top)
  <2>1. /\ g \in Nat /\ g = out + (top + 1) - at[n + 1]
        /\ \A m \in 1..out : IF m <= g THEN AbsOf(outgoing[m], at) <= top
                                       ELSE AbsOf(outgoing[m], at) = top + (m - g)
    BY DEF Ends, SenderEnd, QueueOrder, Again
  <2>2. x < at[n + 1] /\ at[n + 1] \in Nat
    <3>1. at[i + 1] <= at[n + 1] /\ at[i + 1] \in Nat /\ at[n + 1] \in Nat
      <4>1. n + 1 \in 1..(n + 1) /\ i + 1 <= n + 1
        BY <1>1
      <4> QED
        BY <1>1, <1>4, <4>1, PacketNumbers
    <3> QED
      BY <1>4, <3>1
  <2> HIDE DEF x, g, out, n
  <2>3. j \in 1..out /\ ~(j <= g) /\ top + (j - g) = x
    <3> DEFINE y == at[n + 1]
    <3>1. /\ g \in Nat /\ g = out + (top + 1) - y /\ y \in Nat /\ out \in Nat /\ top \in Nat
          /\ x \in Nat /\ x < y /\ ~(x <= top)
      BY <1>1, <1>4, <1>6, <2>1, <2>2
    <3> HIDE DEF y
    <3> QED
      BY <3>1
  <2> HIDE DEF j
  <2>4. AbsOf(outgoing[j], at) = x
    BY <2>1, <2>3
  <2>5. outgoing[j] \in Unacked
    BY <2>3 DEF Unacked, Members, out
  <2>6. IsPart(outgoing[j])
    BY <2>5 DEF Ends, SenderNumbers, Numbered
  <2>7. PartOf(outgoing[j]) = PartOf(part)
    BY <1>1, <1>2, <2>4, <2>6, UniquePart DEF x
  <2> QED
    BY <1>2, <2>5, <2>7
<1> QED
  BY <1>5, <1>6

\* No acknowledgement makes the sender forget a part that was discarded
\* (enet_peer_queue_acknowledgement and enet_protocol_remove_sent_reliable_command):
\* while the connection lives, each part of each packet is in a list of the sender or of
\* the receiver, or was delivered.
THEOREM ChannelNoLossByAck == Spec => []NoLossByAck
<1>1. DeliveryInv => NoLossByAck
  <2> SUFFICES ASSUME DeliveryInv, open, NEW i \in DOMAIN counts,
                      NEW k \in 0..(Length(counts[i]) - 1),
                      NEW part, part = [pkt |-> i, number |-> k]
               PROVE  \/ \E c \in ToSet(outgoing) \cup ToSet(sent) : PartOf(c) = part
                      \/ \E e \in ToSet(incoming) \cup ToSet(dispatched) : part \in e.parts
                      \/ i \in ToSet(delivered)
    BY DEF NoLossByAck
  <2>1. ChannelInv
    BY DEF DeliveryInv
  <2>2. PICK at, top, ids : Ends(at, top, ids)
    BY DEF DeliveryInv
  <2>3. /\ DOMAIN counts = 1..Len(counts) /\ DOMAIN outgoing = 1..Len(outgoing)
        /\ DOMAIN sent = 1..Len(sent) /\ DOMAIN incoming = 1..Len(incoming)
        /\ DOMAIN dispatched = 1..Len(dispatched) /\ DOMAIN delivered = 1..Len(delivered)
    BY <2>1 DEF ChannelInv, TypeOK
  <2>4. /\ ToSet(outgoing) \cup ToSet(sent) = Unacked
        /\ ToSet(incoming) = Members(incoming) /\ ToSet(dispatched) = Members(dispatched)
        /\ ToSet(delivered) = {delivered[j] : j \in 1..Len(delivered)}
    BY <2>3 DEF ToSet, Unacked, Members
  <2>5. i \in 1..Len(counts)
    BY <2>3
  <2>6. \/ \E c \in Unacked : PartOf(c) = part
        \/ \E e \in Members(incoming) \cup Members(dispatched) : part \in e.parts
        \/ \E j \in 1..Len(delivered) : delivered[j] = i
    BY <2>1, <2>2, <2>5, PartKept
  <2> QED
    BY <2>4, <2>6
<1> QED
  BY ChannelDelivery, <1>1, PTL

\* Each step of the channel is one of the reliable channel, or none of its variables changes.
LEMMA RefinementStep ==
    ASSUME DeliveryInv, [Next]_vars
    PROVE  Abstract!Next \/ UNCHANGED <<[i \in DOMAIN counts |-> i], delivered, open>>
<1> DEFINE accepted == [i \in DOMAIN counts |-> i]
<1>1. TypeOK /\ TypeOK'
  BY DeliveryStep DEF DeliveryInv, ChannelInv
<1>2. /\ counts \in Seq(Counts) /\ Len(counts) \in Nat /\ DOMAIN counts = 1..Len(counts)
      /\ accepted = [i \in 1..Len(counts) |-> i] /\ accepted \in Seq(Nat)
      /\ Len(accepted) = Len(counts)
  BY <1>1 DEF TypeOK
<1>3. CASE enet_peer_send
  <2>1. PICK count \in Counts : counts' = Append(counts, count)
    BY <1>3 DEF enet_peer_send
  <2>2. open /\ UNCHANGED <<open, delivered>>
    BY <1>3 DEF enet_peer_send, receiverVars
  <2>3. DOMAIN counts' = 1..(Len(counts) + 1)
    BY <1>2, <2>1, AppendProperties
  <2>4. accepted' = Append(accepted, Len(accepted) + 1)
    <3> DEFINE m == Len(counts)
               a == [i \in 1..m |-> i]
               b == [i \in 1..(m + 1) |-> i]
    <3>1. m \in Nat /\ accepted' = b /\ accepted = a /\ Len(a) = m /\ a \in Seq(Nat)
      BY <1>2, <2>3
    <3> HIDE DEF m
    <3>2. Append(a, m + 1) = b
      BY <3>1
    <3> QED
      BY <3>1, <3>2
  <2>5. Abstract!Send
    BY <2>2, <2>4 DEF Abstract!Send
  <2> QED
    BY <2>5 DEF Abstract!Next
<1>4. CASE GiveUp
  <2>1. open /\ open' = FALSE /\ UNCHANGED counts /\ UNCHANGED delivered
    BY <1>4 DEF GiveUp, receiverVars
  <2>2. Abstract!GiveUp
    BY <2>1 DEF Abstract!GiveUp
  <2> QED
    BY <2>2 DEF Abstract!Next
<1>5. CASE enet_peer_receive
  <2>1. PICK at, top, ids : Ends(at, top, ids)
    BY DEF DeliveryInv
  <2>2. delivered' = Append(delivered, Len(delivered) + 1) /\ Len(delivered) < Len(counts)
    BY <1>1, <1>5, <2>1, ReceiveDelivery
  <2>3. UNCHANGED counts /\ UNCHANGED open
    BY <1>5 DEF enet_peer_receive, senderVars
  <2>4. accepted[Len(delivered) + 1] = Len(delivered) + 1
    <3>1. Len(delivered) \in Nat
      BY <1>1 DEF TypeOK
    <3>2. Len(delivered) + 1 \in 1..Len(counts)
      BY <1>2, <2>2, <3>1
    <3> QED
      BY <1>2, <3>2
  <2>5. Abstract!Deliver
    BY <1>2, <2>2, <2>3, <2>4 DEF Abstract!Deliver
  <2> QED
    BY <2>5 DEF Abstract!Next
<1>6. ASSUME UNCHANGED <<counts, delivered, open>>
      PROVE  UNCHANGED <<[i \in DOMAIN counts |-> i], delivered, open>>
  BY <1>6
<1>7. CASE SendReliable \/ check_timeouts \/ handle_acknowledge
  BY <1>6, <1>7 DEF SendReliable, check_timeouts, handle_acknowledge, receiverVars
<1>8. CASE handle_incoming_command \/ send_acknowledgements \/ Lose \/ UNCHANGED vars
  BY <1>6, <1>8
  DEF handle_incoming_command, send_acknowledgements, Lose, vars, senderVars, receiverVars
<1> QED
  BY <1>3, <1>4, <1>5, <1>7, <1>8 DEF Next

\* The channel implements the reliable channel of ENet's interface: what enet_peer_receive
\* returns is what enet_peer_send was given, in that order, whole, none twice and none
\* missing in between, for windows, packets and a network of every size.
THEOREM ChannelRefinement == Spec => Refinement
<1>1. Init => Abstract!Init
  <2> SUFFICES ASSUME Init PROVE Abstract!Init
    OBVIOUS
  <2>1. counts = << >> /\ delivered = << >> /\ open = TRUE
    BY DEF Init
  <2>2. [i \in DOMAIN counts |-> i] = << >>
    BY <2>1
  <2> QED
    BY <2>1, <2>2 DEF Abstract!Init
<1>2. DeliveryInv /\ [Next]_vars
        => [Abstract!Next]_<<[i \in DOMAIN counts |-> i], delivered, open>>
  BY RefinementStep
<1> QED
  BY <1>1, <1>2, ChannelDelivery, PTL DEF Spec, Refinement, Abstract!Spec

=============================================================================
