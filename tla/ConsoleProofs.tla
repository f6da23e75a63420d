---------------------------- MODULE ConsoleProofs ---------------------------
(***************************************************************************)
(* Proofs about module Console, for any number of processes and any size   *)
(* of the two rings: readers are woken, output is sent in order, and the   *)
(* line buffer with its wrapping indices implements LineInput.             *)
(***************************************************************************)
EXTENDS Console, TLAPS

-----------------------------------------------------------------------------
(* Remainders.                                                             *)

\* No number between 0 and P is a multiple of P.
LEMMA NoMultiple ==
  ASSUME NEW P \in Nat \ {0}, NEW m \in Int, P * m > 0, P * m < P
  PROVE  FALSE
<1>1. CASE m <= 0
  <2>1. P * m <= 0
    BY <1>1
  <2>. QED  BY <2>1
<1>2. CASE m >= 1
  <2>1. P * m >= P
    BY <1>2
  <2>. QED  BY <2>1
<1>. QED  BY <1>1, <1>2

\* A number is a multiple plus its remainder.
LEMMA DivMod ==
  ASSUME NEW P \in Nat \ {0}, NEW a \in Int
  PROVE  a % P \in 0 .. P - 1 /\ \E m \in Int : a = P * m + (a % P)
<1>1. PICK m \in Int : m = a \div P
  OBVIOUS
<1>2. a = P * m + (a % P)
  BY <1>1
<1>3. a % P \in 0 .. P - 1
  OBVIOUS
<1>. QED  BY <1>2, <1>3, Zenon

\* Two numbers have the same remainder when they differ by a multiple, and only then.
LEMMA SameRemainder ==
  ASSUME NEW P \in Nat \ {0}, NEW a \in Int, NEW b \in Int, a % P = b % P
  PROVE  \E m \in Int : b - a = P * m
<1>1. PICK x \in Int : a = P * x + (a % P)
  BY DivMod, Zenon
<1>2. PICK y \in Int : b = P * y + (b % P)
  BY DivMod, Zenon
<1>3. a % P \in Int
  BY DivMod
<1>4. b - a = P * y - P * x
  BY <1>1, <1>2, <1>3
<1>5. P * y - P * x = P * (y - x)
  OBVIOUS
<1>6. y - x \in Int /\ b - a = P * (y - x)
  BY <1>4, <1>5
<1>. QED  BY <1>6, Zenon

\* k is a multiple of P.
Multiple(P, k) == \E m \in Int : k = P * m

\* Numbers that differ by a multiple have the same remainder.
LEMMA DifferByMultiple ==
  ASSUME NEW P \in Nat \ {0}, NEW a \in Int, NEW b \in Int, Multiple(P, b - a)
  PROVE  a % P = b % P
<1>. PICK m \in Int : b - a = P * m
  BY Zenon DEF Multiple
<1>1. PICK x \in Int : a = P * x + (a % P)
  BY DivMod, Zenon
<1>2. PICK y \in Int : b = P * y + (b % P)
  BY DivMod, Zenon
<1>. DEFINE r == a % P
            s == b % P
            z == (m + x) - y
<1>3. r \in 0 .. P - 1 /\ s \in 0 .. P - 1
  BY DivMod, Zenon
<1>4. P * z = P * m + P * x - P * y
  OBVIOUS
<1>5. a = P * x + r /\ b = P * y + s
  BY <1>1, <1>2, Zenon
<1>. HIDE DEF r, s
<1>6. s - r = P * z
  BY <1>3, <1>4, <1>5
<1>7. z \in Int /\ 0 - z \in Int /\ P * (0 - z) = 0 - P * z
  OBVIOUS
<1>. HIDE DEF z
<1>8. CASE s > r
  <2>1. P * z > 0 /\ P * z < P
    BY <1>3, <1>6, <1>8
  <2>. QED  BY <1>7, <2>1, NoMultiple, Zenon
<1>9. CASE s < r
  <2>1. P * (0 - z) > 0 /\ P * (0 - z) < P
    BY <1>3, <1>6, <1>7, <1>9
  <2>. QED  BY <1>7, <2>1, NoMultiple, Zenon
<1>10. CASE r = s
  BY <1>10, Zenon DEF r, s
<1>. QED  BY <1>3, <1>8, <1>9, <1>10

\* Remainders may be added up.
SumsAgree(P, a, b, c) == (a + c) % P = (b + c) % P

\* A sum depends on the remainders only.
LEMMA SameSum ==
  ASSUME NEW P \in Nat \ {0}, NEW a \in Int, NEW b \in Int, NEW c \in Int, a % P = b % P
  PROVE  SumsAgree(P, a, b, c)
<1>1. PICK m \in Int : b - a = P * m
  BY SameRemainder, Zenon
<1>. DEFINE x == a + c
            y == b + c
<1>2. x \in Int /\ y \in Int /\ y - x = P * m
  BY <1>1
<1>. HIDE DEF x, y
<1>3. x % P = y % P
  <2>1. Multiple(P, y - x)
    BY <1>2, Zenon DEF Multiple
  <2>. QED  BY <1>2, <2>1, DifferByMultiple, Zenon
<1>. QED  BY <1>3, Zenon DEF x, y, SumsAgree

\* A remainder is its own remainder.
LEMMA ModMod ==
  ASSUME NEW P \in Nat \ {0}, NEW a \in Int
  PROVE  a % P \in Int /\ (a % P) % P = a % P
<1>1. a % P \in 0 .. P - 1
  BY DivMod, Zenon
<1>2. \A r \in 0 .. P - 1 : r \in Int /\ r % P = r
  OBVIOUS
<1>. QED  BY <1>1, <1>2, Zenon

\* One turn around a ring.
LEMMA OneTurn ==
  ASSUME NEW P \in Nat \ {0}, NEW i \in 0 .. P - 1
  PROVE  (i + P) % P = i
<1>1. i \in Int /\ i + P \in Int /\ (i + P) - i = P * 1 /\ 1 \in Int /\ i % P = i
  OBVIOUS
<1>. DEFINE j == i + P
<1>2. Multiple(P, j - i)
  BY <1>1, Zenon DEF Multiple
<1>3. j \in Int
  BY <1>1, Zenon
<1>. HIDE DEF j
<1>4. i % P = j % P
  BY <1>1, <1>2, <1>3, DifferByMultiple, Zenon
<1>. QED  BY <1>1, <1>4, Zenon DEF j

\* Numbers closer than P have different remainders.
LEMMA Apart ==
  ASSUME NEW P \in Nat \ {0}, NEW s \in Int, NEW i \in 0 .. P - 1, NEW j \in 0 .. P - 1, (s + i) % P = (s + j) % P
  PROVE  i = j
<1>1. s + i \in Int /\ s + j \in Int
  OBVIOUS
<1>2. PICK m \in Int : (s + j) - (s + i) = P * m
  BY <1>1, SameRemainder, Zenon
<1>3. j - i = P * m /\ 0 - m \in Int /\ P * (0 - m) = 0 - P * m
  BY <1>2
<1>4. CASE j > i
  <2>1. P * m > 0 /\ P * m < P
    BY <1>3, <1>4
  <2>. QED  BY <2>1, NoMultiple, Zenon
<1>5. CASE j < i
  <2>1. P * (0 - m) > 0 /\ P * (0 - m) < P
    BY <1>3, <1>5
  <2>. QED  BY <1>3, <2>1, NoMultiple, Zenon
<1>. QED  BY <1>4, <1>5

\* How far a counter is ahead of another, after a step of the one or of the other.
LEMMA Ahead ==
  ASSUME NEW P \in Nat \ {0}, NEW a \in Int, NEW b \in Int
  PROVE  /\ ((a - b) % P) + 1 < P => ((a + 1) - b) % P = ((a - b) % P) + 1
         /\ (a - b) % P > 0 => (a - (b + 1)) % P = ((a - b) % P) - 1
<1>. DEFINE n == (a - b) % P
<1>1. a - b \in Int
  OBVIOUS
<1>2. n \in 0 .. P - 1 /\ n % P = (a - b) % P
  BY <1>1, DivMod, ModMod, Zenon
<1>. HIDE DEF n
<1>3. n \in Int /\ 1 \in Int /\ 0 - 1 \in Int
  BY <1>2
<1>4. (n + 1) % P = ((a - b) + 1) % P /\ (n + (0 - 1)) % P = ((a - b) + (0 - 1)) % P
  <2>. DEFINE d == a - b
              e == 0 - 1
  <2>1. d \in Int /\ n % P = d % P /\ e \in Int
    BY <1>1, <1>2
  <2>. HIDE DEF d, e
  <2>4. \A c \in Int : (n + c) % P = (d + c) % P
    <3>. TAKE c \in Int
    <3>1. n \in Int
      BY <1>3, Zenon
    <3>2. n % P = d % P /\ d \in Int
      BY <2>1, Zenon
    <3>. QED
      <4>1. SumsAgree(P, n, d, c)
        BY <3>1, <3>2, SameSum, ZenonT(20)
      <4>. QED  BY <4>1, Zenon DEF SumsAgree
  <2>2. (n + 1) % P = (d + 1) % P
    BY <2>4
  <2>3. (n + e) % P = (d + e) % P
    BY <2>1, <2>4, Zenon
  <2>. QED  BY <2>2, <2>3, Zenon DEF d, e
<1>5. (a - b) + 1 = (a + 1) - b /\ (a - b) + (0 - 1) = a - (b + 1)
  OBVIOUS
<1>6. n + 1 < P => (n + 1) % P = n + 1
  BY <1>2
<1>7. n > 0 => (n + (0 - 1)) % P = n - 1
  BY <1>2
<1>8. n + 1 < P => ((a + 1) - b) % P = n + 1
  BY <1>4, <1>5, <1>6, Zenon
<1>9. n > 0 => (a - (b + 1)) % P = n - 1
  BY <1>4, <1>5, <1>7, Zenon
<1>. QED  BY <1>8, <1>9, Zenon DEF n

\* Both ends of a count: one end moves on.
CountsUp(P, a, b, c) == (c - b) % P = ((a - b) % P) + 1

\* The count grows by one, if it does not wrap.
LEMMA CountUp ==
  ASSUME NEW P \in Nat \ {0}, NEW a \in Int, NEW b \in Int, NEW c \in Int, c % P = (a + 1) % P, ((a - b) % P) + 1 < P
  PROVE  CountsUp(P, a, b, c)
<1>1. a + 1 \in Int /\ 0 - b \in Int /\ c + (0 - b) = c - b /\ (a + 1) + (0 - b) = (a + 1) - b
  OBVIOUS
<1>2. (c + (0 - b)) % P = ((a + 1) + (0 - b)) % P
  <2>1. SumsAgree(P, c, a + 1, 0 - b)
    BY <1>1, SameSum, Zenon
  <2>. QED  BY <2>1, Zenon DEF SumsAgree
<1>3. ((a + 1) - b) % P = ((a - b) % P) + 1
  BY Ahead, Zenon
<1>. QED  BY <1>1, <1>2, <1>3, Zenon DEF CountsUp

\* A counter that catches up leaves one less between the two.
CountsDown(P, a, b, c) == (a - c) % P = ((a - b) % P) - 1

\* The count falls by one.
LEMMA CountDown ==
  ASSUME NEW P \in Nat \ {0}, NEW a \in Int, NEW b \in Int, NEW c \in Int, c % P = (b + 1) % P, (a - b) % P > 0
  PROVE  CountsDown(P, a, b, c)
<1>1. b + 1 \in Int /\ a - c \in Int /\ a - (b + 1) \in Int
  OBVIOUS
<1>2. PICK m \in Int : (b + 1) - c = P * m
  BY <1>1, SameRemainder, Zenon
<1>3. (a - c) - (a - (b + 1)) = P * m
  BY <1>2
<1>4. (a - (b + 1)) % P = (a - c) % P
  <2>. DEFINE x == a - (b + 1)
              y == a - c
  <2>1. x \in Int /\ y \in Int /\ y - x = P * m
    BY <1>1, <1>3, Zenon
  <2>. HIDE DEF x, y
  <2>2. x % P = y % P
    <3>1. Multiple(P, y - x)
      BY <2>1, Zenon DEF Multiple
    <3>. QED  BY <2>1, <3>1, DifferByMultiple, Zenon
  <2>. QED  BY <2>2, Zenon DEF x, y
<1>5. (a - (b + 1)) % P = ((a - b) % P) - 1
  BY Ahead, Zenon
<1>. QED  BY <1>4, <1>5, Zenon DEF CountsDown

\* The sizes.
LEMMA Sizes == INPUT_BUF \in Nat \ {0} /\ UINT \in Nat \ {0} /\ INPUT_BUF < UINT /\ UART_TX_BUF_SIZE \in Nat \ {0}
  BY ConsoleAssumption

\* A uint that wraps goes on counting modulo INPUT_BUF, which divides 2^32.
LEMMA Wrap ==
  ASSUME NEW a \in Int
  PROVE  Uint(a) \in 0 .. UINT - 1 /\ Uint(a) \in Int /\ Uint(a) % INPUT_BUF = a % INPUT_BUF
<1>1. INPUT_BUF \in Nat \ {0} /\ UINT \in Nat \ {0} /\ 0 % INPUT_BUF = UINT % INPUT_BUF /\ 0 \in Int /\ UINT \in Int
  BY ConsoleAssumption
<1>2. PICK q \in Int : UINT - 0 = INPUT_BUF * q
  BY <1>1, SameRemainder, Zenon
<1>3. PICK m \in Int : a = UINT * m + (a % UINT)
  BY <1>1, DivMod, Zenon
<1>4. a % UINT \in 0 .. UINT - 1 /\ a % UINT \in Int
  BY <1>1, DivMod
<1>5. UINT = INPUT_BUF * q
  BY <1>1, <1>2
<1>6. a - (a % UINT) = UINT * m
  <2>. DEFINE x == a % UINT
              y == UINT * m
  <2>1. x \in Int /\ y \in Int /\ a = y + x
    BY <1>1, <1>3, <1>4
  <2>. HIDE DEF x, y
  <2>2. a - x = y
    BY <2>1
  <2>. QED  BY <2>2, Zenon DEF x, y
<1>7. q * m \in Int /\ (INPUT_BUF * q) * m = INPUT_BUF * (q * m)
  BY <1>1
<1>8. a - (a % UINT) = INPUT_BUF * (q * m)
  BY <1>5, <1>6, <1>7, Zenon
<1>. DEFINE b == a % UINT
            z == q * m
<1>9. b \in Int /\ z \in Int /\ a - b = INPUT_BUF * z
  BY <1>4, <1>7, <1>8, Zenon
<1>. HIDE DEF b, z
<1>10. b % INPUT_BUF = a % INPUT_BUF
  <2>1. Multiple(INPUT_BUF, a - b)
    BY <1>9, Zenon DEF Multiple
  <2>. QED  BY <1>9, <2>1, Sizes, DifferByMultiple, Zenon
<1>. QED  BY <1>4, <1>10, Zenon DEF b, Uint

\* From i it is the remainder of j - i to j.
LEMMA Reach ==
  ASSUME NEW P \in Nat \ {0}, NEW i \in Int, NEW j \in Int
  PROVE  (i + ((j - i) % P)) % P = j % P
<1>. DEFINE d == j - i
            m == d % P
<1>1. d \in Int /\ i + d = j /\ d + i = j
  OBVIOUS
<1>2. m \in Int /\ m % P = d % P
  BY <1>1, ModMod, Zenon
<1>3. m + i = i + m
  BY <1>2
<1>. HIDE DEF d, m
<1>4. (m + i) % P = (d + i) % P
  <2>1. SumsAgree(P, m, d, i)
    BY <1>1, <1>2, SameSum, Zenon
  <2>. QED  BY <2>1, Zenon DEF SumsAgree
<1>5. (i + m) % P = j % P
  BY <1>1, <1>3, <1>4, Zenon
<1>. QED  BY <1>5, Zenon DEF d, m

\* Remainders of distances from the same point may be subtracted.
LEMMA Between ==
  ASSUME NEW P \in Nat \ {0}, NEW r \in Int, NEW w \in Int, NEW e \in Int, (w - r) % P <= (e - r) % P
  PROVE  (e - w) % P = ((e - r) % P) - ((w - r) % P)
<1>. DEFINE a == e - r
            b == w - r
            x == a % P
            y == b % P
<1>1. a \in Int /\ b \in Int /\ a - b = e - w
  OBVIOUS
<1>2. x \in 0 .. P - 1 /\ y \in 0 .. P - 1
  BY <1>1, DivMod, Zenon
<1>3. PICK m \in Int : a = P * m + x
  BY <1>1, DivMod, Zenon
<1>4. PICK k \in Int : b = P * k + y
  BY <1>1, DivMod, Zenon
<1>. HIDE DEF x, y, a, b
<1>5. P * (m - k) = P * m - P * k /\ m - k \in Int
  OBVIOUS
<1>6. (a - b) - (x - y) = P * (m - k)
  BY <1>1, <1>2, <1>3, <1>4, <1>5
<1>7. x - y \in Int /\ a - b \in Int /\ x - y \in 0 .. P - 1
  BY <1>1, <1>2 DEF x, y, a, b
<1>8. Multiple(P, (a - b) - (x - y))
  BY <1>5, <1>6, Zenon DEF Multiple
<1>9. (x - y) % P = (a - b) % P
  BY <1>7, <1>8, DifferByMultiple, Zenon
<1>10. (x - y) % P = x - y
  BY <1>7
<1>. QED  BY <1>1, <1>9, <1>10, Zenon DEF x, y, a, b

-----------------------------------------------------------------------------
(* Rings.                                                                  *)

\* The n entries from index s on of a ring b with P entries.
Ring(b, s, n, P) == [k \in 1 .. n |-> b[(s + k - 1) % P]]

\* Sequences with the same elements are the same.
LEMMA SameSeq ==
  ASSUME NEW S, NEW u \in Seq(S), NEW v \in Seq(S), Len(u) = Len(v), \A k \in 1 .. Len(u) : u[k] = v[k]
  PROVE  u = v
  OBVIOUS

\* A ring is a sequence.
IsRing(b, s, n, P, S) ==
  /\ Ring(b, s, n, P) \in Seq(S) /\ Len(Ring(b, s, n, P)) = n
  /\ \A k \in 1 .. n : Ring(b, s, n, P)[k] = b[(s + (k - 1)) % P]

\* It has n entries, from b.
LEMMA RingIs ==
  ASSUME NEW P \in Nat \ {0}, NEW S, NEW b \in [0 .. P - 1 -> S], NEW s \in Int, NEW n \in Nat
  PROVE  IsRing(b, s, n, P, S)
<1>1. \A k \in 1 .. n : s + k - 1 = s + (k - 1) /\ s + (k - 1) \in Int
  OBVIOUS
<1>2. \A k \in 1 .. n : (s + (k - 1)) % P \in 0 .. P - 1
  BY <1>1, DivMod, Zenon
<1>3. Ring(b, s, n, P) = [k \in 1 .. n |-> b[(s + (k - 1)) % P]]
  BY <1>1, Zenon DEF Ring
<1>. QED  BY <1>2, <1>3 DEF IsRing

\* A ring counted from an index that wraps.
SameRing(b, s, u, n, P) == Ring(b, s, n, P) = Ring(b, u, n, P)

\* Indices with the same remainder give the same ring.
LEMMA RingFrom ==
  ASSUME NEW P \in Nat \ {0}, NEW b, NEW s \in Int, NEW u \in Int, s % P = u % P, NEW n \in Nat
  PROVE  SameRing(b, s, u, n, P)
<1>1. ASSUME NEW k \in 1 .. n PROVE (s + k - 1) % P = (u + k - 1) % P
  <2>1. k - 1 \in Int /\ s + k - 1 = s + (k - 1) /\ u + k - 1 = u + (k - 1)
    OBVIOUS
  <2>2. (s + (k - 1)) % P = (u + (k - 1)) % P
    <3>. DEFINE c == k - 1
    <3>. c \in Int
      BY <2>1
    <3>. HIDE DEF c
    <3>1. (s + c) % P = (u + c) % P
      <4>1. SumsAgree(P, s, u, c)
        BY SameSum, Zenon
      <4>. QED  BY <4>1, Zenon DEF SumsAgree
    <3>. QED  BY <3>1, Zenon DEF c
  <2>. QED  BY <2>1, <2>2, Zenon
<1>. QED  BY <1>1, Zenon DEF Ring, SameRing

\* An entry that is written behind n others.
RingPut(b, s, n, P, x) == [b EXCEPT ![(s + n) % P] = x]

\* It leaves the others alone and comes behind them.
RingWritten(b, s, m, n, P, x) ==
  /\ Ring(RingPut(b, s, n, P, x), s, m, P) = Ring(b, s, m, P)
  /\ Ring(RingPut(b, s, n, P, x), s, n + 1, P) = Append(Ring(b, s, n, P), x)

\* What comes before the new entry stands, and the entry comes last.
LEMMA RingWrite ==
  ASSUME NEW P \in Nat \ {0}, NEW S, NEW b \in [0 .. P - 1 -> S], NEW s \in Int, NEW n \in 0 .. P - 1, NEW m \in 0 .. n,
         NEW x \in S
  PROVE  RingWritten(b, s, m, n, P, x)
<1>. DEFINE d == [b EXCEPT ![(s + n) % P] = x]
<1>1. (s + n) % P \in 0 .. P - 1 /\ n \in Nat /\ m \in Nat /\ n + 1 \in Nat /\ s + n \in Int
  <2>1. n \in Nat /\ m \in Nat /\ n + 1 \in Nat /\ s + n \in Int
    OBVIOUS
  <2>. QED  BY <2>1, DivMod, Zenon
<1>2. d \in [0 .. P - 1 -> S] /\ d[(s + n) % P] = x
  BY <1>1, Zenon
<1>3. ASSUME NEW k \in 0 .. n - 1 PROVE d[(s + k) % P] = b[(s + k) % P]
  <2>1. k \in 0 .. P - 1 /\ k # n /\ s + k \in Int
    OBVIOUS
  <2>2. (s + k) % P # (s + n) % P
    BY <2>1, Apart, Zenon
  <2>3. (s + k) % P \in 0 .. P - 1
    BY <2>1, DivMod, Zenon
  <2>. QED  BY <2>2, <2>3, Zenon
<1>. HIDE DEF d
<1>4. /\ Ring(d, s, m, P) \in Seq(S) /\ Len(Ring(d, s, m, P)) = m
      /\ \A k \in 1 .. m : Ring(d, s, m, P)[k] = d[(s + (k - 1)) % P]
  <2>1. IsRing(d, s, m, P, S)
    BY <1>1, <1>2, RingIs, Zenon
  <2>. QED  BY <2>1, Zenon DEF IsRing
<1>5. /\ Ring(b, s, m, P) \in Seq(S) /\ Len(Ring(b, s, m, P)) = m
      /\ \A k \in 1 .. m : Ring(b, s, m, P)[k] = b[(s + (k - 1)) % P]
  <2>1. IsRing(b, s, m, P, S)
    BY <1>1, RingIs, Zenon
  <2>. QED  BY <2>1, Zenon DEF IsRing
<1>6. \A k \in 1 .. m : k - 1 \in 0 .. n - 1
  OBVIOUS
<1>7. Ring(d, s, m, P) = Ring(b, s, m, P)
  BY <1>3, <1>4, <1>5, <1>6, SameSeq, Zenon
<1>. DEFINE u == Ring(b, s, n, P)
            v == Ring(d, s, n + 1, P)
<1>8. v \in Seq(S) /\ Len(v) = n + 1 /\ \A k \in 1 .. n + 1 : v[k] = d[(s + (k - 1)) % P]
  <2>1. IsRing(d, s, n + 1, P, S)
    BY <1>1, <1>2, RingIs, Zenon
  <2>. QED  BY <2>1, Zenon DEF IsRing
<1>9. u \in Seq(S) /\ Len(u) = n /\ \A k \in 1 .. n : u[k] = b[(s + (k - 1)) % P]
  <2>1. IsRing(b, s, n, P, S)
    BY <1>1, RingIs, Zenon
  <2>. QED  BY <2>1, Zenon DEF IsRing
<1>. HIDE DEF u, v
<1>10. Append(u, x) \in Seq(S) /\ Len(Append(u, x)) = n + 1 /\ Append(u, x)[n + 1] = x
       /\ \A k \in 1 .. n : Append(u, x)[k] = u[k]
  BY <1>1, <1>9
<1>11. \A k \in 1 .. n : k - 1 \in 0 .. n - 1 /\ k \in 1 .. n + 1
  OBVIOUS
<1>12. n + 1 \in 1 .. n + 1 /\ (n + 1) - 1 = n /\ \A k \in 1 .. n + 1 : k = n + 1 \/ k \in 1 .. n
  OBVIOUS
<1>13. \A k \in 1 .. n : v[k] = Append(u, x)[k]
  BY <1>3, <1>8, <1>9, <1>10, <1>11, Zenon
<1>14. v[n + 1] = x
  BY <1>2, <1>8, <1>12, Zenon
<1>15. v = Append(u, x)
  BY <1>8, <1>10, <1>12, <1>13, <1>14, SameSeq, Zenon
<1>. QED  BY <1>7, <1>15, Zenon DEF d, u, v, RingPut, RingWritten

\* Taking the first entry.
LEMMA RingTail ==
  ASSUME NEW P \in Nat \ {0}, NEW S, NEW b \in [0 .. P - 1 -> S], NEW s \in Int, NEW n \in Nat \ {0}
  PROVE  /\ Ring(b, s, n, P) # <<>> /\ Head(Ring(b, s, n, P)) = b[s % P]
         /\ Ring(b, s + 1, n - 1, P) = Tail(Ring(b, s, n, P))
<1>1. n \in Nat /\ n - 1 \in Nat /\ s + 1 \in Int /\ 1 \in 1 .. n /\ s + (1 - 1) = s
  OBVIOUS
<1>. DEFINE u == Ring(b, s, n, P)
            v == Ring(b, s + 1, n - 1, P)
<1>2. u \in Seq(S) /\ Len(u) = n /\ \A k \in 1 .. n : u[k] = b[(s + (k - 1)) % P]
  <2>1. IsRing(b, s, n, P, S)
    BY <1>1, RingIs, Zenon
  <2>. QED  BY <2>1, Zenon DEF IsRing
<1>3. v \in Seq(S) /\ Len(v) = n - 1 /\ \A k \in 1 .. n - 1 : v[k] = b[((s + 1) + (k - 1)) % P]
  <2>1. IsRing(b, s + 1, n - 1, P, S)
    BY <1>1, RingIs, Zenon
  <2>. QED  BY <2>1, Zenon DEF IsRing
<1>. HIDE DEF u, v
<1>4. u # <<>> /\ Head(u) = u[1] /\ Tail(u) \in Seq(S) /\ Len(Tail(u)) = n - 1
      /\ \A k \in 1 .. n - 1 : Tail(u)[k] = u[k + 1]
  BY <1>1, <1>2
<1>5. \A k \in 1 .. n - 1 : k + 1 \in 1 .. n /\ (s + 1) + (k - 1) = s + ((k + 1) - 1)
  OBVIOUS
<1>6. ASSUME NEW k \in 1 .. n - 1 PROVE v[k] = Tail(u)[k]
  <2>1. v[k] = b[((s + 1) + (k - 1)) % P] /\ Tail(u)[k] = u[k + 1]
    BY <1>3, <1>4, Zenon
  <2>2. k + 1 \in 1 .. n /\ (s + 1) + (k - 1) = s + ((k + 1) - 1)
    BY <1>5, Zenon
  <2>3. u[k + 1] = b[(s + ((k + 1) - 1)) % P]
    BY <1>2, <2>2, Zenon
  <2>. QED  BY <2>1, <2>2, <2>3, Zenon
<1>7. v = Tail(u)
  BY <1>3, <1>4, <1>6, SameSeq, Zenon
<1>8. Head(u) = b[s % P]
  BY <1>1, <1>2, <1>4, Zenon
<1>. QED  BY <1>4, <1>7, <1>8, Zenon DEF u, v

\* Giving up the last entry.
RingShortens(b, s, n, P) == Ring(b, s, n - 1, P) = SubSeq(Ring(b, s, n, P), 1, Len(Ring(b, s, n, P)) - 1)

\* One entry less at the end.
LEMMA RingFront ==
  ASSUME NEW P \in Nat \ {0}, NEW S, NEW b \in [0 .. P - 1 -> S], NEW s \in Int, NEW n \in Nat \ {0}
  PROVE  RingShortens(b, s, n, P)
<1>1. n \in Nat /\ n - 1 \in Nat
  OBVIOUS
<1>. DEFINE u == Ring(b, s, n, P)
            v == Ring(b, s, n - 1, P)
<1>2. u \in Seq(S) /\ Len(u) = n /\ \A k \in 1 .. n : u[k] = b[(s + (k - 1)) % P]
  <2>1. IsRing(b, s, n, P, S)
    BY <1>1, RingIs, Zenon
  <2>. QED  BY <2>1, Zenon DEF IsRing
<1>3. v \in Seq(S) /\ Len(v) = n - 1 /\ \A k \in 1 .. n - 1 : v[k] = b[(s + (k - 1)) % P]
  <2>1. IsRing(b, s, n - 1, P, S)
    BY <1>1, RingIs, Zenon
  <2>. QED  BY <2>1, Zenon DEF IsRing
<1>. HIDE DEF u, v
<1>4. SubSeq(u, 1, n - 1) \in Seq(S) /\ Len(SubSeq(u, 1, n - 1)) = n - 1
      /\ \A k \in 1 .. n - 1 : SubSeq(u, 1, n - 1)[k] = u[k] /\ k \in 1 .. n
  BY <1>1, <1>2
<1>5. \A k \in 1 .. n - 1 : v[k] = SubSeq(u, 1, n - 1)[k]
  BY <1>2, <1>3, <1>4, Zenon
<1>6. v = SubSeq(u, 1, n - 1)
  BY <1>3, <1>4, <1>5, SameSeq, Zenon
<1>. QED  BY <1>2, <1>6, Zenon DEF u, v, RingShortens

\* Two parts of a ring, one behind the other.
RingJoins(b, s, m, n, P) == Ring(b, s, m + n, P) = Ring(b, s, m, P) \o Ring(b, s + m, n, P)

\* A ring is its first m entries and the n behind them.
LEMMA RingCat ==
  ASSUME NEW P \in Nat \ {0}, NEW S, NEW b \in [0 .. P - 1 -> S], NEW s \in Int, NEW m \in Nat, NEW n \in Nat
  PROVE  RingJoins(b, s, m, n, P)
<1>1. m + n \in Nat /\ s + m \in Int
  OBVIOUS
<1>. DEFINE u == Ring(b, s, m, P)
            v == Ring(b, s + m, n, P)
            x == Ring(b, s, m + n, P)
<1>2. u \in Seq(S) /\ Len(u) = m /\ \A k \in 1 .. m : u[k] = b[(s + (k - 1)) % P]
  <2>1. IsRing(b, s, m, P, S)
    BY RingIs, Zenon
  <2>. QED  BY <2>1, Zenon DEF IsRing
<1>3. v \in Seq(S) /\ Len(v) = n /\ \A k \in 1 .. n : v[k] = b[((s + m) + (k - 1)) % P]
  <2>1. IsRing(b, s + m, n, P, S)
    BY <1>1, RingIs, Zenon
  <2>. QED  BY <2>1, Zenon DEF IsRing
<1>4. x \in Seq(S) /\ Len(x) = m + n /\ \A k \in 1 .. m + n : x[k] = b[(s + (k - 1)) % P]
  <2>1. IsRing(b, s, m + n, P, S)
    BY <1>1, RingIs, Zenon
  <2>. QED  BY <2>1, Zenon DEF IsRing
<1>. HIDE DEF u, v, x
<1>5. u \o v \in Seq(S) /\ Len(u \o v) = m + n
      /\ \A k \in 1 .. m + n : (u \o v)[k] = IF k <= m THEN u[k] ELSE v[k - m]
  <2>1. u \in Seq(S) /\ v \in Seq(S) /\ Len(u) = m /\ Len(v) = n
    BY <1>2, <1>3, Zenon
  <2>. QED  BY <2>1
<1>6. ASSUME NEW k \in 1 .. m + n PROVE x[k] = (u \o v)[k]
  <2>1. CASE k <= m
    <3>1. k \in 1 .. m
      BY <2>1
    <3>. QED  BY <1>2, <1>4, <1>5, <2>1, <3>1, Zenon
  <2>2. CASE ~(k <= m)
    <3>1. k - m \in 1 .. n /\ (s + m) + ((k - m) - 1) = s + (k - 1)
      BY <2>2
    <3>. QED  BY <1>3, <1>4, <1>5, <2>2, <3>1, Zenon
  <2>. QED  BY <2>1, <2>2, Zenon
<1>7. x = u \o v
  BY <1>4, <1>5, <1>6, SameSeq, Zenon
<1>. QED  BY <1>7, Zenon DEF u, v, x, RingJoins

-----------------------------------------------------------------------------
(* The line buffer.                                                        *)

\* The indices follow each other, and the part of the buffer from i to j.
Fits(r, w, e) ==
  /\ r \in 0 .. UINT - 1 /\ w \in 0 .. UINT - 1 /\ e \in 0 .. UINT - 1
  /\ Uint(w - r) <= Uint(e - r) /\ Uint(e - r) <= INPUT_BUF
Part(b, i, j) == Ring(b, i, Uint(j - i), INPUT_BUF)

\* How long the parts are, and where they end.
Located(r, w, e) ==
  /\ w % INPUT_BUF = (r + Uint(w - r)) % INPUT_BUF
  /\ e % INPUT_BUF = (r + Uint(e - r)) % INPUT_BUF
  /\ e % INPUT_BUF = (w + Uint(e - w)) % INPUT_BUF

\* It follows from Fits.
LEMMA Indices ==
  ASSUME NEW r, NEW w, NEW e, Fits(r, w, e)
  PROVE  /\ r \in Int /\ w \in Int /\ e \in Int
         /\ Uint(w - r) \in 0 .. INPUT_BUF /\ Uint(e - r) \in 0 .. INPUT_BUF /\ Uint(e - w) \in 0 .. INPUT_BUF
         /\ Uint(e - w) = Uint(e - r) - Uint(w - r)
         /\ Located(r, w, e)
<1>1. r \in Int /\ w \in Int /\ e \in Int /\ w - r \in Int /\ e - r \in Int /\ e - w \in Int
  BY Sizes DEF Fits
<1>2. Uint(w - r) \in Int /\ Uint(e - r) \in Int /\ Uint(w - r) \in 0 .. UINT - 1 /\ Uint(e - r) \in 0 .. UINT - 1
  BY <1>1, Wrap, Zenon
<1>3. Uint(e - w) = Uint(e - r) - Uint(w - r)
  BY <1>1, Between, Sizes, Zenon DEF Fits, Uint
<1>4. Uint(w - r) <= Uint(e - r) /\ Uint(e - r) <= INPUT_BUF
  BY Zenon DEF Fits
<1>5. Uint(w - r) \in 0 .. INPUT_BUF /\ Uint(e - r) \in 0 .. INPUT_BUF /\ Uint(e - w) \in 0 .. INPUT_BUF
  BY <1>2, <1>3, <1>4, Sizes
<1>6. ASSUME NEW i \in Int, NEW j \in Int, j - i \in Int PROVE j % INPUT_BUF = (i + Uint(j - i)) % INPUT_BUF
  <2>. DEFINE x == i + Uint(j - i)
  <2>1. x \in Int
    BY <1>6, Wrap
  <2>2. x % UINT = j % UINT
    BY Reach, Sizes, Zenon DEF Uint
  <2>. HIDE DEF x
  <2>3. (x % UINT) % INPUT_BUF = x % INPUT_BUF /\ (j % UINT) % INPUT_BUF = j % INPUT_BUF
    BY <2>1, Wrap, Zenon DEF Uint
  <2>4. x % INPUT_BUF = j % INPUT_BUF
    BY <2>2, <2>3, Zenon
  <2>. QED  BY <2>4, Zenon DEF x
<1>7. Located(r, w, e)
  BY <1>1, <1>6, Zenon DEF Located
<1>. QED  BY <1>1, <1>3, <1>5, <1>7, Zenon

\* Indices are equal when nothing is between them.
LEMMA Empty ==
  ASSUME NEW i \in 0 .. UINT - 1, NEW j \in 0 .. UINT - 1
  PROVE  Uint(j - i) = 0 <=> i = j
<1>1. i \in Int /\ j \in Int /\ j - i \in Int /\ UINT \in Nat \ {0} /\ 0 \in 0 .. UINT - 1
  BY Sizes
<1>2. ASSUME i = j PROVE Uint(j - i) = 0
  <2>1. j - i = 0 /\ 0 % UINT = 0
    BY <1>1, <1>2
  <2>. QED  BY <2>1, Zenon DEF Uint
<1>3. ASSUME Uint(j - i) = 0 PROVE i = j
  <2>1. (i + ((j - i) % UINT)) % UINT = j % UINT
    BY <1>1, Reach, Zenon
  <2>2. (i + 0) % UINT = j % UINT /\ i + 0 = i
    BY <1>1, <1>3, <2>1 DEF Uint
  <2>3. i % UINT = i /\ j % UINT = j
    BY <1>1
  <2>. QED  BY <2>2, <2>3, Zenon
<1>. QED  BY <1>2, <1>3, Zenon

\* consoleread() takes a character.
LEMMA TakeFits ==
  ASSUME NEW r, NEW w, NEW e, Fits(r, w, e), r # w, NEW S, NEW b \in [0 .. INPUT_BUF - 1 -> S]
  PROVE  /\ Fits(Uint(r + 1), w, e)
         /\ Part(b, r, w) # <<>> /\ Head(Part(b, r, w)) = b[r % INPUT_BUF]
         /\ Part(b, Uint(r + 1), w) = Tail(Part(b, r, w))
<1>. DEFINE q == Uint(r + 1)
            m == Uint(w - r)
            n == Uint(e - r)
<1>1. r \in Int /\ w \in Int /\ e \in Int /\ r + 1 \in Int /\ UINT \in Nat \ {0}
  BY Indices, Sizes
<1>2. m \in 0 .. INPUT_BUF /\ n \in 0 .. INPUT_BUF /\ m <= n
  BY Indices, Zenon DEF Fits
<1>3. m # 0
  BY Empty, Zenon DEF Fits
<1>4. q \in 0 .. UINT - 1 /\ q \in Int /\ q % INPUT_BUF = (r + 1) % INPUT_BUF /\ q % UINT = (r + 1) % UINT
  BY <1>1, Wrap, ModMod, Zenon DEF Uint
<1>5. m > 0 /\ n > 0
  BY <1>2, <1>3, Sizes
<1>6. Uint(w - q) = m - 1 /\ Uint(e - q) = n - 1
  <2>1. (w - r) % UINT > 0 /\ (e - r) % UINT > 0
    BY <1>5, Zenon DEF Uint
  <2>2. q \in Int /\ q % UINT = (r + 1) % UINT
    BY <1>4, Zenon
  <2>. HIDE DEF q
  <2>3. (w - q) % UINT = ((w - r) % UINT) - 1 /\ (e - q) % UINT = ((e - r) % UINT) - 1
    <3>1. CountsDown(UINT, w, r, q) /\ CountsDown(UINT, e, r, q)
      BY <1>1, <2>1, <2>2, CountDown, Zenon
    <3>. QED  BY <3>1, Zenon DEF CountsDown
  <2>. QED  BY <2>3, Zenon DEF Uint
<1>7. m - 1 <= n - 1 /\ n - 1 <= INPUT_BUF /\ m \in Nat \ {0} /\ m - 1 \in Nat
  BY <1>2, <1>5, Sizes
<1>8. Fits(q, w, e)
  BY <1>4, <1>6, <1>7, Zenon DEF Fits
<1>9. /\ Part(b, r, w) # <<>> /\ Head(Part(b, r, w)) = b[r % INPUT_BUF]
      /\ Ring(b, r + 1, m - 1, INPUT_BUF) = Tail(Part(b, r, w))
  BY <1>1, <1>7, Sizes, RingTail, Zenon DEF Part
<1>10. Part(b, q, w) = Ring(b, r + 1, m - 1, INPUT_BUF)
  <2>1. Part(b, q, w) = Ring(b, q, m - 1, INPUT_BUF)
    BY <1>6, Zenon DEF Part
  <2>. HIDE DEF q, m
  <2>2. Ring(b, q, m - 1, INPUT_BUF) = Ring(b, r + 1, m - 1, INPUT_BUF)
    <3>1. SameRing(b, q, r + 1, m - 1, INPUT_BUF)
      BY <1>1, <1>4, <1>7, Sizes, RingFrom, Zenon
    <3>. QED  BY <3>1, Zenon DEF SameRing
  <2>. QED  BY <2>1, <2>2, Zenon
<1>. QED  BY <1>8, <1>9, <1>10, Zenon

\* consoleintr() takes back the last character of the line.
OneErased(b, r, w, e) ==
  /\ Fits(r, w, Uint(e - 1)) /\ Part(b, w, e) # <<>>
  /\ Part(b, w, Uint(e - 1)) = SubSeq(Part(b, w, e), 1, Len(Part(b, w, e)) - 1)

\* ^H keeps the order of the indices and shortens the line by one.
LEMMA EraseFits ==
  ASSUME NEW r, NEW w, NEW e, Fits(r, w, e), e # w, NEW S, NEW b \in [0 .. INPUT_BUF - 1 -> S]
  PROVE  OneErased(b, r, w, e)
<1>. DEFINE q == Uint(e - 1)
            m == Uint(w - r)
            n == Uint(e - r)
            k == Uint(e - w)
<1>1. r \in Int /\ w \in Int /\ e \in Int /\ e - 1 \in Int /\ UINT \in Nat \ {0} /\ INPUT_BUF < UINT
  BY Indices, Sizes
<1>2. m \in 0 .. INPUT_BUF /\ n \in 0 .. INPUT_BUF /\ k \in 0 .. INPUT_BUF /\ k = n - m
  BY Indices, Zenon
<1>3. k # 0
  BY Empty, Zenon DEF Fits
<1>4. q \in 0 .. UINT - 1 /\ q \in Int /\ q % UINT = (e - 1) % UINT
  BY <1>1, Wrap, ModMod, Zenon DEF Uint
<1>5. k \in Nat \ {0} /\ k - 1 \in 0 .. UINT - 1 /\ n - 1 \in 0 .. UINT - 1 /\ m <= n - 1 /\ n - 1 <= INPUT_BUF
  <2>. HIDE DEF k, m, n
  <2>. QED  BY <1>1, <1>2, <1>3, Sizes
<1>6. ASSUME NEW i \in Int, Uint(e - i) - 1 \in 0 .. UINT - 1 PROVE Uint(q - i) = Uint(e - i) - 1
  <2>. DEFINE x == e - i
              y == x % UINT
              c == 0 - 1
              f == 0 - i
  <2>1. x \in Int /\ c \in Int /\ f \in Int /\ (e - 1) + f = x + c /\ q + f = q - i
    BY <1>1, <1>4
  <2>2. y \in Int /\ y % UINT = x % UINT
    BY <1>1, <2>1, ModMod, Zenon
  <2>3. y + c = y - 1
    BY <2>2
  <2>4. y - 1 \in 0 .. UINT - 1
    BY <1>6, Zenon DEF Uint
  <2>. HIDE DEF x, y, c, f, q
  <2>5. (q + f) % UINT = ((e - 1) + f) % UINT
    <3>1. SumsAgree(UINT, q, e - 1, f)
      BY <1>1, <1>4, <2>1, SameSum, Zenon
    <3>. QED  BY <3>1, Zenon DEF SumsAgree
  <2>6. (y + c) % UINT = (x + c) % UINT
    <3>1. SumsAgree(UINT, y, x, c)
      BY <1>1, <2>1, <2>2, SameSum, Zenon
    <3>. QED  BY <3>1, Zenon DEF SumsAgree
  <2>7. (y - 1) % UINT = y - 1
    BY <1>1, <2>4
  <2>8. (q - i) % UINT = y - 1
    BY <2>1, <2>3, <2>5, <2>6, <2>7, Zenon
  <2>. QED  BY <2>8, Zenon DEF x, y, Uint
<1>7. Uint(q - r) = n - 1 /\ Uint(q - w) = k - 1
  BY <1>1, <1>5, <1>6, Zenon
<1>8. Fits(r, w, q)
  BY <1>4, <1>5, <1>7, Zenon DEF Fits
<1>9. Part(b, w, q) = SubSeq(Part(b, w, e), 1, Len(Part(b, w, e)) - 1)
  <2>1. RingShortens(b, w, k, INPUT_BUF)
    <3>. HIDE DEF k
    <3>. QED  BY <1>1, <1>5, Sizes, RingFront, Zenon
  <2>. QED  BY <1>7, <2>1, Zenon DEF RingShortens, Part
<1>10. Part(b, w, e) # <<>>
  BY <1>1, <1>5, Sizes, RingTail, Zenon DEF Part
<1>. QED  BY <1>8, <1>9, <1>10, Zenon DEF OneErased

\* Nothing is in an empty part.
LEMMA NoPart ==
  ASSUME NEW b, NEW i \in 0 .. UINT - 1
  PROVE  Part(b, i, i) = <<>>
<1>1. Uint(i - i) = 0
  BY Empty, Zenon
<1>2. Ring(b, i, 0, INPUT_BUF) = <<>>
  BY DEF Ring
<1>. QED  BY <1>1, <1>2, Zenon DEF Part

\* consoleintr() gives up the line.
LEMMA KillFits ==
  ASSUME NEW r, NEW w, NEW e, Fits(r, w, e)
  PROVE  Fits(r, w, w)
<1>1. Uint(w - r) \in 0 .. INPUT_BUF
  BY Indices, Zenon
<1>2. Uint(w - r) <= Uint(w - r) /\ Uint(w - r) <= INPUT_BUF
  BY <1>1, Sizes
<1>. QED  BY <1>2, Zenon DEF Fits

\* consoleintr() stores a character in the next slot.
Stored(b, e, x) == [b EXCEPT ![e % INPUT_BUF] = x]

\* What that does to the parts of the buffer.
OneStored(b, r, w, e, x, S) ==
  /\ Fits(r, w, Uint(e + 1)) /\ Fits(r, Uint(e + 1), Uint(e + 1))
  /\ Stored(b, e, x) \in [0 .. INPUT_BUF - 1 -> S]
  /\ Part(Stored(b, e, x), r, w) = Part(b, r, w)
  /\ Part(Stored(b, e, x), w, Uint(e + 1)) = Append(Part(b, w, e), x)
  /\ Part(Stored(b, e, x), r, Uint(e + 1)) = Part(b, r, w) \o Append(Part(b, w, e), x)

\* There is room: the finished lines stand, and the character comes last in the line.
LEMMA PutFits ==
  ASSUME NEW r, NEW w, NEW e, Fits(r, w, e), Uint(e - r) < INPUT_BUF, NEW S, NEW b \in [0 .. INPUT_BUF - 1 -> S], NEW x \in S
  PROVE  OneStored(b, r, w, e, x, S)
<1>. DEFINE f == Uint(e + 1)
            d == Stored(b, e, x)
            m == Uint(w - r)
            n == Uint(e - r)
            k == Uint(e - w)
<1>1. r \in Int /\ w \in Int /\ e \in Int /\ e + 1 \in Int /\ UINT \in Nat \ {0} /\ INPUT_BUF \in Nat \ {0} /\ INPUT_BUF < UINT
  BY Indices, Sizes
<1>2. m \in 0 .. INPUT_BUF /\ n \in 0 .. INPUT_BUF /\ k \in 0 .. INPUT_BUF /\ k = n - m /\ m <= n /\ n < INPUT_BUF
  BY Indices, Zenon DEF Fits
<1>3. f \in 0 .. UINT - 1 /\ f \in Int /\ f % UINT = (e + 1) % UINT
  BY <1>1, Wrap, ModMod, Zenon DEF Uint
<1>4. /\ n + 1 < UINT /\ k + 1 < UINT /\ n \in 0 .. INPUT_BUF - 1 /\ k \in 0 .. INPUT_BUF - 1 /\ m \in 0 .. n /\ k \in 0 .. k
      /\ m <= n + 1 /\ n + 1 <= INPUT_BUF /\ n + 1 <= n + 1 /\ m \in Nat /\ k + 1 \in Nat /\ n + 1 = m + (k + 1)
  <2>. HIDE DEF k, m, n
  <2>. QED  BY <1>1, <1>2
<1>5. Uint(f - r) = n + 1 /\ Uint(f - w) = k + 1
  <2>1. ((e - r) % UINT) + 1 < UINT /\ ((e - w) % UINT) + 1 < UINT
    BY <1>4, Zenon DEF Uint
  <2>. HIDE DEF f
  <2>2. (f - r) % UINT = ((e - r) % UINT) + 1 /\ (f - w) % UINT = ((e - w) % UINT) + 1
    <3>1. CountsUp(UINT, e, r, f) /\ CountsUp(UINT, e, w, f)
      BY <1>1, <1>3, <2>1, CountUp, Zenon
    <3>. QED  BY <3>1, Zenon DEF CountsUp
  <2>. QED  BY <2>2, Zenon DEF Uint
<1>6. Fits(r, w, f) /\ Fits(r, f, f)
  BY <1>3, <1>4, <1>5, Zenon DEF Fits
<1>7. e % INPUT_BUF = (r + n) % INPUT_BUF /\ e % INPUT_BUF = (w + k) % INPUT_BUF /\ w % INPUT_BUF = (r + m) % INPUT_BUF
  <2>1. Located(r, w, e)
    BY Indices, Zenon
  <2>. QED  BY <2>1, Zenon DEF Located
<1>8. d \in [0 .. INPUT_BUF - 1 -> S]
  <2>1. e % INPUT_BUF \in 0 .. INPUT_BUF - 1
    BY <1>1, DivMod, Zenon
  <2>. QED  BY <2>1, Zenon DEF Stored
<1>9. d = RingPut(b, r, n, INPUT_BUF, x) /\ d = RingPut(b, w, k, INPUT_BUF, x)
  BY <1>7, Zenon DEF RingPut, Stored
<1>10. RingWritten(b, r, m, n, INPUT_BUF, x) /\ RingWritten(b, w, k, k, INPUT_BUF, x)
  <2>. HIDE DEF n, m, k
  <2>. QED  BY <1>1, <1>4, RingWrite, Zenon
<1>11. Part(d, r, w) = Part(b, r, w)
  BY <1>9, <1>10, Zenon DEF Part, RingWritten
<1>12. Part(d, w, f) = Append(Part(b, w, e), x)
  BY <1>5, <1>9, <1>10, Zenon DEF Part, RingWritten
<1>13. Part(d, r, f) = Ring(d, r, m, INPUT_BUF) \o Ring(d, r + m, k + 1, INPUT_BUF)
  <2>1. Part(d, r, f) = Ring(d, r, m + (k + 1), INPUT_BUF)
    BY <1>4, <1>5, Zenon DEF Part
  <2>. HIDE DEF d, m, k
  <2>2. Ring(d, r, m + (k + 1), INPUT_BUF) = Ring(d, r, m, INPUT_BUF) \o Ring(d, r + m, k + 1, INPUT_BUF)
    <3>1. RingJoins(d, r, m, k + 1, INPUT_BUF)
      BY <1>1, <1>4, <1>8, RingCat, Zenon
    <3>. QED  BY <3>1, Zenon DEF RingJoins
  <2>. QED  BY <2>1, <2>2, Zenon
<1>14. Ring(d, r + m, k + 1, INPUT_BUF) = Part(d, w, f)
  <2>1. r + m \in Int
    BY <1>1, <1>2
  <2>2. Part(d, w, f) = Ring(d, w, k + 1, INPUT_BUF)
    BY <1>5, Zenon DEF Part
  <2>. HIDE DEF d, m, k
  <2>3. Ring(d, r + m, k + 1, INPUT_BUF) = Ring(d, w, k + 1, INPUT_BUF)
    <3>1. SameRing(d, r + m, w, k + 1, INPUT_BUF)
      BY <1>1, <1>4, <1>7, <2>1, RingFrom, Zenon
    <3>. QED  BY <3>1, Zenon DEF SameRing
  <2>. QED  BY <2>2, <2>3, Zenon
<1>15. Ring(d, r, m, INPUT_BUF) = Part(d, r, w)
  BY Zenon DEF Part
<1>. QED  BY <1>6, <1>8, <1>11, <1>12, <1>13, <1>14, <1>15, Zenon DEF OneStored

\* How much there is in the buffer, and when it is full.
LEMMA LineLengths ==
  ASSUME NEW r, NEW w, NEW e, Fits(r, w, e), NEW S, NEW b \in [0 .. INPUT_BUF - 1 -> S]
  PROVE  /\ Part(b, r, w) \in Seq(S) /\ Part(b, w, e) \in Seq(S)
         /\ Len(Part(b, r, w)) + Len(Part(b, w, e)) = Uint(e - r)
         /\ Uint(e - r) < INPUT_BUF => (Uint(e + 1) = Uint(r + INPUT_BUF) <=> Uint(e - r) + 1 = INPUT_BUF)
<1>1. /\ r \in Int /\ w \in Int /\ e \in Int /\ UINT \in Nat \ {0} /\ INPUT_BUF \in Nat \ {0} /\ INPUT_BUF < UINT
      /\ Uint(w - r) \in Nat /\ Uint(e - w) \in Nat
      /\ Uint(e - w) = Uint(e - r) - Uint(w - r) /\ Uint(e - r) \in 0 .. INPUT_BUF /\ Uint(w - r) \in 0 .. INPUT_BUF
  BY Indices, Sizes
<1>2. /\ Part(b, r, w) \in Seq(S) /\ Len(Part(b, r, w)) = Uint(w - r)
      /\ Part(b, w, e) \in Seq(S) /\ Len(Part(b, w, e)) = Uint(e - w)
  <2>1. IsRing(b, r, Uint(w - r), INPUT_BUF, S) /\ IsRing(b, w, Uint(e - w), INPUT_BUF, S)
    BY <1>1, RingIs, Zenon
  <2>. QED  BY <2>1, Zenon DEF IsRing, Part
<1>3. Len(Part(b, r, w)) + Len(Part(b, w, e)) = Uint(e - r)
  BY <1>1, <1>2
<1>4. ASSUME Uint(e - r) < INPUT_BUF PROVE Uint(e + 1) = Uint(r + INPUT_BUF) <=> Uint(e - r) + 1 = INPUT_BUF
  <2>. DEFINE n == Uint(e - r)
  <2>1. n + 1 \in 0 .. UINT - 1 /\ INPUT_BUF \in 0 .. UINT - 1 /\ n \in Int /\ r + n \in Int /\ 1 \in Int
        /\ (r + n) + 1 = r + (n + 1)
    BY <1>1, <1>4
  <2>2. (r + n) % UINT = e % UINT
    BY <1>1, Reach, Zenon DEF Uint
  <2>. HIDE DEF n
  <2>3. ((r + n) + 1) % UINT = (e + 1) % UINT
    <3>. DEFINE c == r + n
    <3>1. c \in Int /\ c % UINT = e % UINT
      BY <2>1, <2>2, Zenon
    <3>. HIDE DEF c
    <3>2. (c + 1) % UINT = (e + 1) % UINT
      <4>1. SumsAgree(UINT, c, e, 1)
        BY <1>1, <2>1, <3>1, SameSum, Zenon
      <4>. QED  BY <4>1, Zenon DEF SumsAgree
    <3>. QED  BY <3>2, Zenon DEF c
  <2>4. Uint(e + 1) = (r + (n + 1)) % UINT /\ Uint(r + INPUT_BUF) = (r + INPUT_BUF) % UINT
    BY <2>1, <2>3, Zenon DEF Uint
  <2>5. (r + (n + 1)) % UINT = (r + INPUT_BUF) % UINT => n + 1 = INPUT_BUF
    BY <1>1, <2>1, Apart, Zenon
  <2>. QED  BY <2>4, <2>5, Zenon DEF n
<1>. QED  BY <1>2, <1>3, <1>4, Zenon

-----------------------------------------------------------------------------
(* The transmit ring.                                                      *)

\* What is between uart_tx_r and uart_tx_w.
Waiting(x) == Ring(x.buf, x.r, (x.w - x.r) % UART_TX_BUF_SIZE, UART_TX_BUF_SIZE)
TxType == [buf : [0 .. UART_TX_BUF_SIZE - 1 -> Nat], r : 0 .. UART_TX_BUF_SIZE - 1, w : 0 .. UART_TX_BUF_SIZE - 1]

\* The indices of the ring.
LEMMA TxIndices ==
  ASSUME NEW i \in 0 .. UART_TX_BUF_SIZE - 1
  PROVE  /\ Inc(i) \in 0 .. UART_TX_BUF_SIZE - 1 /\ Inc(i) \in Int /\ i \in Int /\ i + 1 \in Int
         /\ Inc(i) % UART_TX_BUF_SIZE = (i + 1) % UART_TX_BUF_SIZE /\ i % UART_TX_BUF_SIZE = i
<1>1. i \in Int /\ i + 1 \in Int /\ i % UART_TX_BUF_SIZE = i
  BY Sizes
<1>2. Inc(i) \in 0 .. UART_TX_BUF_SIZE - 1
  BY <1>1, Sizes, DivMod, Zenon DEF Inc
<1>3. Inc(i) \in Int /\ Inc(i) % UART_TX_BUF_SIZE = (i + 1) % UART_TX_BUF_SIZE
  BY <1>1, Sizes, ModMod, Zenon DEF Inc
<1>. QED  BY <1>1, <1>2, <1>3, Zenon

\* What is in the ring.
LEMMA WaitingIs ==
  ASSUME NEW x \in TxType
  PROVE  /\ Waiting(x) \in Seq(Nat) /\ (x.w - x.r) % UART_TX_BUF_SIZE \in 0 .. UART_TX_BUF_SIZE - 1
         /\ Len(Waiting(x)) = (x.w - x.r) % UART_TX_BUF_SIZE
         /\ (x.r + ((x.w - x.r) % UART_TX_BUF_SIZE)) % UART_TX_BUF_SIZE = x.w
         /\ x.w # x.r <=> Waiting(x) # <<>>
<1>. DEFINE P == UART_TX_BUF_SIZE
            n == (x.w - x.r) % P
<1>1. P \in Nat \ {0} /\ x.r \in 0 .. P - 1 /\ x.w \in 0 .. P - 1 /\ x.buf \in [0 .. P - 1 -> Nat]
  BY Sizes, Zenon DEF TxType
<1>2. x.r \in Int /\ x.w \in Int /\ x.w - x.r \in Int /\ x.w % P = x.w /\ x.r % P = x.r /\ 0 % P = 0
  <2>1. x.r \in Int /\ x.w \in Int /\ x.w % P = x.w /\ x.r % P = x.r
    BY <1>1, TxIndices, Zenon
  <2>2. x.w - x.r \in Int
    BY <2>1
  <2>3. 0 % P = 0
    BY Sizes
  <2>. QED  BY <2>1, <2>2, <2>3, Zenon
<1>3. n \in 0 .. P - 1
  BY <1>1, <1>2, DivMod, Zenon
<1>4. (x.r + n) % P = x.w
  BY <1>1, <1>2, Reach, Zenon
<1>5. n \in Nat
  <2>. HIDE DEF n
  <2>. QED  BY <1>3
<1>6. Waiting(x) \in Seq(Nat) /\ Len(Waiting(x)) = n
  <2>1. IsRing(x.buf, x.r, n, P, Nat)
    BY <1>1, <1>2, <1>5, RingIs, Zenon
  <2>. QED  BY <2>1, Zenon DEF IsRing, Waiting
<1>7. n = 0 <=> x.w = x.r
  <2>1. ASSUME x.w = x.r PROVE n = 0
    BY <1>2, <2>1
  <2>2. ASSUME n = 0 PROVE x.w = x.r
    <3>1. x.r + 0 = x.r
      BY <1>2
    <3>. QED  BY <1>2, <1>4, <2>2, <3>1, Zenon
  <2>. QED  BY <2>1, <2>2, Zenon
<1>8. Waiting(x) = <<>> <=> n = 0
  <2>. HIDE DEF n
  <2>. QED  BY <1>5, <1>6
<1>. QED  BY <1>3, <1>4, <1>6, <1>7, <1>8, Zenon

\* uartputc() stores a character.
LEMMA WaitingMore ==
  ASSUME NEW x \in TxType, Inc(x.w) # x.r, NEW c \in Nat, NEW y,
         y.buf = [x.buf EXCEPT ![x.w] = c], y.r = x.r, y.w = Inc(x.w)
  PROVE  Waiting(y) = Append(Waiting(x), c)
<1>. DEFINE P == UART_TX_BUF_SIZE
            n == (x.w - x.r) % P
<1>1. P \in Nat \ {0} /\ x.r \in 0 .. P - 1 /\ x.w \in 0 .. P - 1 /\ x.buf \in [0 .. P - 1 -> Nat]
  BY Sizes, Zenon DEF TxType
<1>2. n \in 0 .. P - 1 /\ (x.r + n) % P = x.w
  BY WaitingIs, Zenon
<1>3. x.r \in Int /\ x.w \in Int /\ Inc(x.w) \in Int /\ Inc(x.w) % P = (x.w + 1) % P
  BY <1>1, TxIndices, Zenon
<1>4. n + 1 < P
  <2>. SUFFICES ASSUME ~(n + 1 < P) PROVE FALSE
    OBVIOUS
  <2>. DEFINE a == x.r + n
  <2>1. n = P - 1 /\ a \in Int /\ a + 1 = x.r + P /\ x.r + P \in Int /\ 1 \in Int
    <3>1. n \in 0 .. P - 1 /\ x.r \in Int /\ P \in Nat
      BY <1>1, <1>2, <1>3, Zenon
    <3>. HIDE DEF n, P
    <3>. QED  BY <3>1
  <2>2. a % P = x.w % P
    <3>1. x.w % P = x.w
      BY <1>1, TxIndices, Zenon
    <3>. QED  BY <1>2, <3>1, Zenon
  <2>. HIDE DEF a, n
  <2>3. (a + 1) % P = (x.w + 1) % P
    <3>1. SumsAgree(P, a, x.w, 1)
      BY <1>1, <1>3, <2>1, <2>2, SameSum, Zenon
    <3>. QED  BY <3>1, Zenon DEF SumsAgree
  <2>4. (x.r + P) % P = x.r
    BY <1>1, OneTurn, Zenon
  <2>. QED  BY <2>1, <2>3, <2>4, Zenon DEF Inc
<1>5. (y.w - y.r) % P = n + 1
  <2>. DEFINE q == Inc(x.w)
  <2>1. q \in Int /\ q % P = (x.w + 1) % P
    BY <1>3, Zenon
  <2>. HIDE DEF q
  <2>2. (q - x.r) % P = ((x.w - x.r) % P) + 1
    <3>1. CountsUp(P, x.w, x.r, q)
      BY <1>1, <1>3, <1>4, <2>1, CountUp, Zenon
    <3>. QED  BY <3>1, Zenon DEF CountsUp
  <2>. QED  BY <2>2, Zenon DEF q
<1>6. RingWritten(x.buf, x.r, n, n, P, c)
  <2>1. n \in 0 .. n
    <3>. HIDE DEF n
    <3>. QED  BY <1>1, <1>2
  <2>. HIDE DEF n
  <2>. QED  BY <1>1, <1>2, <1>3, <2>1, RingWrite, Zenon
<1>7. y.buf = RingPut(x.buf, x.r, n, P, c)
  BY <1>2, Zenon DEF RingPut
<1>. QED  BY <1>5, <1>6, <1>7, Zenon DEF Waiting, RingWritten

\* uartstart() takes one.
LEMMA WaitingLess ==
  ASSUME NEW x \in TxType, x.w # x.r, NEW y, y.buf = x.buf, y.r = Inc(x.r), y.w = x.w
  PROVE  Head(Waiting(x)) = x.buf[x.r] /\ Waiting(y) = Tail(Waiting(x))
<1>. DEFINE P == UART_TX_BUF_SIZE
            n == (x.w - x.r) % P
            q == Inc(x.r)
<1>1. P \in Nat \ {0} /\ x.r \in 0 .. P - 1 /\ x.w \in 0 .. P - 1 /\ x.buf \in [0 .. P - 1 -> Nat]
  BY Sizes, Zenon DEF TxType
<1>2. n \in 0 .. P - 1 /\ Waiting(x) # <<>> /\ Len(Waiting(x)) = n /\ Waiting(x) \in Seq(Nat)
  BY WaitingIs, Zenon
<1>3. x.r \in Int /\ x.w \in Int /\ x.r + 1 \in Int /\ q \in Int /\ q % P = (x.r + 1) % P /\ x.r % P = x.r
  BY <1>1, TxIndices, Zenon
<1>4. n > 0 /\ n \in Nat \ {0} /\ n - 1 \in Nat
  <2>. HIDE DEF n
  <2>. QED  BY <1>1, <1>2
<1>. HIDE DEF q
<1>5. (x.w - q) % P = n - 1
  <2>1. CountsDown(P, x.w, x.r, q)
    BY <1>1, <1>3, <1>4, CountDown, Zenon
  <2>. QED  BY <2>1, Zenon DEF CountsDown
<1>6. Ring(x.buf, q, n - 1, P) = Ring(x.buf, x.r + 1, n - 1, P)
  <2>. HIDE DEF n
  <2>1. SameRing(x.buf, q, x.r + 1, n - 1, P)
    BY <1>1, <1>3, <1>4, RingFrom, Zenon
  <2>. QED  BY <2>1, Zenon DEF SameRing
<1>7. /\ Head(Ring(x.buf, x.r, n, P)) = x.buf[x.r % P]
      /\ Ring(x.buf, x.r + 1, n - 1, P) = Tail(Ring(x.buf, x.r, n, P))
  <2>. HIDE DEF n
  <2>. QED  BY <1>1, <1>3, <1>4, RingTail, Zenon
<1>8. Waiting(y) = Ring(x.buf, q, n - 1, P)
  BY <1>5, Zenon DEF Waiting, q
<1>. QED  BY <1>3, <1>6, <1>7, <1>8, Zenon DEF Waiting

-----------------------------------------------------------------------------
(* What is sent.                                                           *)

\* The characters that were written.
Upto(n) == [k \in 1 .. n |-> k]

\* It is a sequence of numbers.
LEMMA UptoIs ==
  ASSUME NEW n \in Nat
  PROVE  Upto(n) \in Seq(Nat) /\ Len(Upto(n)) = n /\ (\A k \in 1 .. n : Upto(n)[k] = k)
  BY DEF Upto

\* One more.
LEMMA UptoMore ==
  ASSUME NEW n \in Nat
  PROVE  Upto(n + 1) = Append(Upto(n), n + 1)
<1>. DEFINE u == Upto(n)
            v == Upto(n + 1)
<1>1. n + 1 \in Nat
  OBVIOUS
<1>2. u \in Seq(Nat) /\ Len(u) = n /\ (\A k \in 1 .. n : u[k] = k)
  BY UptoIs, Zenon
<1>3. v \in Seq(Nat) /\ Len(v) = n + 1 /\ (\A k \in 1 .. n + 1 : v[k] = k)
  BY <1>1, UptoIs, Zenon
<1>. HIDE DEF u, v
<1>4. Append(u, n + 1) \in Seq(Nat) /\ Len(Append(u, n + 1)) = n + 1
      /\ (\A k \in 1 .. n + 1 : Append(u, n + 1)[k] = k)
  BY <1>2
<1>5. v = Append(u, n + 1)
  BY <1>3, <1>4, SameSeq, Zenon
<1>. QED  BY <1>5, Zenon DEF u, v

\* None of them is the echo.
LEMMA NoneIsEcho ==
  ASSUME NEW s \in Seq(Nat), NEW u \in Seq(Nat), NEW w \in Seq(Nat), NEW n \in Nat, (s \o u) \o w = Upto(n), w # <<>>
  PROVE  Head(w) # Echo /\ Head(w) \in Nat
<1>. DEFINE i == Len(s) + Len(u) + 1
            v == Upto(n)
<1>1. v \in Seq(Nat) /\ Len(v) = n /\ (\A k \in 1 .. n : v[k] = k) /\ (s \o u) \o w = v
  BY UptoIs, Zenon
<1>. HIDE DEF v
<1>2. Len(w) > 0 /\ Head(w) = w[1] /\ Head(w) \in Nat
  OBVIOUS
<1>3. ((s \o u) \o w)[i] = w[1] /\ i \in 1 .. Len((s \o u) \o w)
  BY <1>2
<1>4. v[i] = w[1] /\ i \in 1 .. n
  BY <1>1, <1>3, Zenon
<1>5. w[1] = i /\ i # 0
  BY <1>1, <1>4
<1>. QED  BY <1>2, <1>5, Zenon DEF Echo

\* A character goes from the transmit buffer to the UART,
LEMMA MoveOn ==
  ASSUME NEW s \in Seq(Nat), NEW w \in Seq(Nat), w # <<>>
  PROVE  (s \o <<>>) \o w = (s \o <<Head(w)>>) \o Tail(w)
<1>1. Head(w) \in Nat /\ Tail(w) \in Seq(Nat) /\ Len(w) > 0 /\ Len(Tail(w)) = Len(w) - 1 /\ Head(w) = w[1]
      /\ (\A k \in 1 .. Len(Tail(w)) : Tail(w)[k] = w[k + 1])
  OBVIOUS
<1>. DEFINE u == (s \o <<>>) \o w
            v == (s \o <<Head(w)>>) \o Tail(w)
<1>2. u \in Seq(Nat) /\ Len(u) = Len(s) + Len(w)
      /\ (\A k \in 1 .. Len(u) : u[k] = IF k <= Len(s) THEN s[k] ELSE w[k - Len(s)])
  OBVIOUS
<1>3. v \in Seq(Nat) /\ Len(v) = Len(s) + Len(w)
  BY <1>1
<1>4. ASSUME NEW k \in 1 .. Len(u) PROVE v[k] = IF k <= Len(s) THEN s[k] ELSE w[k - Len(s)]
  BY <1>1, <1>2
<1>5. \A k \in 1 .. Len(u) : u[k] = v[k]
  BY <1>2, <1>4, Zenon
<1>. HIDE DEF u, v
<1>6. u = v
  BY <1>2, <1>3, <1>5, SameSeq, Zenon
<1>. QED  BY <1>6, Zenon DEF u, v

\* is sent,
LEMMA SentOn ==
  ASSUME NEW s \in Seq(Nat), NEW h \in Nat
  PROVE  s \o <<h>> = Append(s, h) \o <<>> /\ Append(s, h) \in Seq(Nat)
<1>. DEFINE u == s \o <<h>>
            v == Append(s, h) \o <<>>
<1>1. u \in Seq(Nat) /\ Len(u) = Len(s) + 1 /\ (\A k \in 1 .. Len(s) + 1 : u[k] = IF k <= Len(s) THEN s[k] ELSE h)
  OBVIOUS
<1>2. v \in Seq(Nat) /\ Len(v) = Len(s) + 1 /\ (\A k \in 1 .. Len(s) + 1 : v[k] = IF k <= Len(s) THEN s[k] ELSE h)
  <2>. DEFINE a == Append(s, h)
  <2>1. a \in Seq(Nat) /\ Len(a) = Len(s) + 1 /\ (\A k \in 1 .. Len(s) + 1 : a[k] = IF k <= Len(s) THEN s[k] ELSE h)
    OBVIOUS
  <2>. HIDE DEF a
  <2>2. a \o <<>> \in Seq(Nat) /\ Len(a \o <<>>) = Len(a) /\ (\A k \in 1 .. Len(a) : (a \o <<>>)[k] = a[k])
    BY <2>1
  <2>. QED  BY <2>1, <2>2, Zenon DEF a
<1>3. Append(s, h) \in Seq(Nat)
  <2>. HIDE DEF u, v
  <2>. QED  OBVIOUS
<1>. HIDE DEF u, v
<1>4. u = v
  BY <1>1, <1>2, SameSeq, Zenon
<1>. QED  BY <1>3, <1>4, Zenon DEF u, v

\* or is written.
LEMMA WrittenOn ==
  ASSUME NEW s \in Seq(Nat), NEW w \in Seq(Nat), NEW c \in Nat
  PROVE  s \o Append(w, c) = Append(s \o w, c)
  OBVIOUS

\* The state of the output.
OutPart ==
  /\ tx \in TxType /\ fifo \in Seq(Nat) /\ Len(fifo) <= 1 /\ written \in Nat /\ sent \in Seq(Nat)
  /\ (sent \o UartHas) \o Waiting(tx) = Upto(written)

\* A sequence of one element.
LEMMA OneOnly ==
  ASSUME NEW w \in Seq(Nat), w # <<>>, Len(w) <= 1
  PROVE  Head(w) \in Nat /\ w = <<Head(w)>> /\ Tail(w) = <<>>
<1>1. Len(w) \in Nat /\ Len(w) > 0
  OBVIOUS
<1>2. Len(w) = 1
  <2>. DEFINE n == Len(w)
  <2>1. n \in Nat /\ n > 0 /\ n <= 1
    BY <1>1, Zenon
  <2>. HIDE DEF n
  <2>2. n = 1
    BY <2>1
  <2>. QED  BY <2>2, Zenon DEF n
<1>3. Head(w) = w[1] /\ Head(w) \in Nat
  BY <1>2
<1>4. Tail(w) \in Seq(Nat) /\ Len(Tail(w)) = 0
  BY <1>2
<1>5. Tail(w) = <<>>
  BY <1>4
<1>. DEFINE h == Head(w)
            v == <<h>>
<1>6. h \in Nat
  BY <1>3, Zenon
<1>7. v \in Seq(Nat) /\ Len(v) = 1 /\ v[1] = h
  <2>. HIDE DEF h
  <2>. QED  BY <1>6
<1>8. \A k \in 1 .. 1 : k = 1
  OBVIOUS
<1>9. w = v
  <2>. HIDE DEF v
  <2>. QED  BY <1>2, <1>3, <1>7, <1>8, SameSeq, Zenon
<1>. QED  BY <1>3, <1>5, <1>9, Zenon

\* What the UART has.
LEMMA UartIs ==
  ASSUME fifo \in Seq(Nat), Len(fifo) <= 1
  PROVE  /\ UartHas \in Seq(Nat)
         /\ fifo = <<>> => UartHas = <<>>
         /\ fifo # <<>> => /\ Head(fifo) \in Nat /\ fifo = <<Head(fifo)>> /\ Tail(fifo) = <<>>
                           /\ Head(fifo) = Echo => UartHas = <<>>
                           /\ Head(fifo) # Echo => UartHas = <<Head(fifo)>>
<1>1. <<>> \in Seq(Nat)
  OBVIOUS
<1>2. fifo # <<>> => Head(fifo) \in Nat /\ fifo = <<Head(fifo)>> /\ Tail(fifo) = <<>>
  BY OneOnly, Zenon
<1>. QED  BY <1>1, <1>2, Zenon DEF UartHas

\* The UART gets a character that is no echo.
LEMMA UartGets ==
  ASSUME NEW c \in Nat, fifo' = <<c>>
  PROVE  fifo' \in Seq(Nat) /\ Len(fifo') <= 1 /\ UartHas' = IF c = Echo THEN <<>> ELSE <<c>>
<1>1. <<c>> \in Seq(Nat) /\ Len(<<c>>) <= 1 /\ <<c>> # <<>> /\ Head(<<c>>) = c
  OBVIOUS
<1>2. UartHas' = IF fifo' # <<>> /\ Head(fifo') # Echo THEN fifo' ELSE <<>>
  BY Zenon DEF UartHas, Echo
<1>. QED  BY <1>1, <1>2, Zenon

\* A step that leaves the output alone keeps its part.
LEMMA OutSame ==
  ASSUME OutPart, UNCHANGED <<tx, fifo, written, sent>>
  PROVE  OutPart'
<1>1. tx' = tx /\ fifo' = fifo /\ written' = written /\ sent' = sent
  BY Zenon
<1>2. UartHas' = UartHas
  BY <1>1, Zenon DEF UartHas, Echo
<1>3. Waiting(tx)' = Waiting(tx) /\ Upto(written)' = Upto(written) /\ TxType' = TxType
  BY <1>1, Zenon DEF Waiting, Upto, Ring, TxType
<1>. QED  BY <1>1, <1>2, <1>3, Zenon DEF OutPart

\* uartstart() leaves what is to be sent as it is.
LEMMA Started ==
  ASSUME NEW x \in TxType, fifo \in Seq(Nat), Len(fifo) <= 1, sent \in Seq(Nat), NEW n \in Nat,
         (sent \o UartHas) \o Waiting(x) = Upto(n), uartstart(x), sent' = sent, written' = n
  PROVE  OutPart'
<1>1. UartHas \in Seq(Nat) /\ (fifo = <<>> => UartHas = <<>>)
  BY UartIs, Zenon
<1>2. Waiting(x) \in Seq(Nat) /\ (x.w # x.r <=> Waiting(x) # <<>>)
  BY WaitingIs, Zenon
<1>3. CASE x.w # x.r /\ fifo = <<>>
  <2>1. fifo' = <<x.buf[x.r]>> /\ tx' = [x EXCEPT !.r = Inc(@)]
    BY <1>3, Zenon DEF uartstart
  <2>2. x.r \in 0 .. UART_TX_BUF_SIZE - 1
    BY Zenon DEF TxType
  <2>3. Inc(x.r) \in 0 .. UART_TX_BUF_SIZE - 1
    BY <2>2, TxIndices, Zenon
  <2>4. tx' \in TxType /\ tx'.buf = x.buf /\ tx'.r = Inc(x.r) /\ tx'.w = x.w
    BY <2>1, <2>3, Zenon DEF TxType
  <2>5. Head(Waiting(x)) = x.buf[x.r] /\ Waiting(tx') = Tail(Waiting(x))
    BY <1>3, <2>4, WaitingLess, Zenon
  <2>6. Head(Waiting(x)) # Echo /\ Head(Waiting(x)) \in Nat
    BY <1>1, <1>2, <1>3, NoneIsEcho, Zenon
  <2>7. fifo' \in Seq(Nat) /\ Len(fifo') <= 1 /\ UartHas' = <<Head(Waiting(x))>>
    BY <2>1, <2>5, <2>6, UartGets, Zenon
  <2>8. (sent \o <<>>) \o Waiting(x) = (sent \o <<Head(Waiting(x))>>) \o Tail(Waiting(x))
    BY <1>2, <1>3, MoveOn, Zenon
  <2>9. (sent' \o UartHas') \o Waiting(tx') = Upto(n)
    BY <1>1, <1>3, <2>5, <2>7, <2>8, Zenon
  <2>. QED  BY <2>4, <2>7, <2>9, Zenon DEF OutPart, TxType, Upto, Waiting, Ring
<1>4. CASE ~(x.w # x.r /\ fifo = <<>>)
  <2>1. tx' = x /\ fifo' = fifo
    BY <1>4, Zenon DEF uartstart
  <2>2. UartHas' = UartHas
    BY <2>1, Zenon DEF UartHas, Echo
  <2>3. (sent' \o UartHas') \o Waiting(tx') = Upto(n)
    BY <2>1, <2>2, Zenon
  <2>. QED  BY <2>1, <2>3, Zenon DEF OutPart, TxType, Upto, Waiting, Ring
<1>. QED  BY <1>3, <1>4, Zenon

\* consoleintr() writes its echo past the buffer.
LEMMA Echoed ==
  ASSUME OutPart, fifo = <<>>, fifo' = <<Echo>>, UNCHANGED <<tx, written, sent>>
  PROVE  OutPart'
<1>1. tx' = tx /\ written' = written /\ sent' = sent
  BY Zenon
<1>2. UartHas = <<>>
  BY UartIs, Zenon DEF OutPart
<1>3. 0 \in Nat
  OBVIOUS
<1>4. fifo' \in Seq(Nat) /\ Len(fifo') <= 1 /\ UartHas' = <<>>
  BY <1>3, UartGets, Zenon DEF Echo
<1>5. (sent' \o UartHas') \o Waiting(tx') = Upto(written')
  BY <1>1, <1>2, <1>4, Zenon DEF OutPart
<1>. QED  BY <1>1, <1>4, <1>5, Zenon DEF OutPart, TxType, Upto, Waiting, Ring

\* The UART sends.
LEMMA SendOut ==
  ASSUME OutPart, Send
  PROVE  OutPart'
<1>1. fifo \in Seq(Nat) /\ Len(fifo) <= 1 /\ sent \in Seq(Nat) /\ fifo # <<>>
  BY Zenon DEF OutPart, Send
<1>2. /\ tx' = tx /\ written' = written /\ fifo' = Tail(fifo)
      /\ sent' = IF Head(fifo) = Echo THEN sent ELSE Append(sent, Head(fifo))
  BY Zenon DEF Send, output
<1>3. Head(fifo) \in Nat /\ fifo' = <<>>
  BY <1>1, <1>2, UartIs, Zenon
<1>4. /\ Head(fifo) = Echo => UartHas = <<>>
      /\ Head(fifo) # Echo => UartHas = <<Head(fifo)>>
  BY <1>1, UartIs, Zenon
<1>5. fifo' \in Seq(Nat) /\ Len(fifo') <= 1
  BY <1>3
<1>6. UartHas' = <<>>
  BY <1>3, Zenon DEF UartHas
<1>7. sent' \in Seq(Nat) /\ sent' \o UartHas' = sent \o UartHas
  BY <1>1, <1>2, <1>3, <1>4, <1>6, SentOn, Zenon
<1>8. (sent' \o UartHas') \o Waiting(tx') = Upto(written')
  BY <1>2, <1>7, Zenon DEF OutPart
<1>. QED  BY <1>2, <1>5, <1>7, <1>8, Zenon DEF OutPart, TxType, Upto, Waiting, Ring

\* uartputc() stores a character and starts the UART.
LEMMA WriteCharOut ==
  ASSUME OutPart, NEW p, WriteChar(p)
  PROVE  OutPart'
<1>. DEFINE c == written + 1
            x == [tx EXCEPT !.buf[tx.w] = c, !.w = Inc(@)]
<1>1. /\ tx \in TxType /\ fifo \in Seq(Nat) /\ Len(fifo) <= 1 /\ written \in Nat /\ sent \in Seq(Nat)
      /\ (sent \o UartHas) \o Waiting(tx) = Upto(written)
  BY Zenon DEF OutPart
<1>2. Inc(tx.w) # tx.r /\ uartstart(x) /\ written' = c /\ sent' = sent
  BY Zenon DEF WriteChar
<1>3. c \in Nat
  BY <1>1
<1>4. tx.w \in 0 .. UART_TX_BUF_SIZE - 1
  BY <1>1, Zenon DEF TxType
<1>5. Inc(tx.w) \in 0 .. UART_TX_BUF_SIZE - 1
  BY <1>4, TxIndices, Zenon
<1>6. x \in TxType /\ x.buf = [tx.buf EXCEPT ![tx.w] = c] /\ x.r = tx.r /\ x.w = Inc(tx.w)
  <2>. HIDE DEF c
  <2>. QED  BY <1>1, <1>3, <1>4, <1>5, Zenon DEF TxType
<1>7. UartHas \in Seq(Nat) /\ Waiting(tx) \in Seq(Nat)
  BY <1>1, UartIs, WaitingIs, Zenon
<1>8. sent \o UartHas \in Seq(Nat)
  BY <1>1, <1>7
<1>. HIDE DEF x
<1>9. Waiting(x) = Append(Waiting(tx), c)
  <2>. HIDE DEF c
  <2>. QED  BY <1>1, <1>2, <1>3, <1>6, WaitingMore, Zenon
<1>10. Upto(c) = Append(Upto(written), c)
  BY <1>1, UptoMore, Zenon
<1>11. (sent \o UartHas) \o Waiting(x) = Upto(c)
  <2>. HIDE DEF c
  <2>1. (sent \o UartHas) \o Append(Waiting(tx), c) = Append((sent \o UartHas) \o Waiting(tx), c)
    BY <1>3, <1>7, <1>8, WrittenOn, Zenon
  <2>. QED  BY <1>1, <1>9, <1>10, <2>1, Zenon
<1>. HIDE DEF c
<1>. QED  BY <1>1, <1>2, <1>3, <1>6, <1>11, Started, Zenon

-----------------------------------------------------------------------------
(* The calls.                                                              *)

\* The types of the line buffer and of a call.
ConsType == [buf : [0 .. INPUT_BUF - 1 -> Chars], r : 0 .. UINT - 1, w : 0 .. UINT - 1, e : 0 .. UINT - 1]
CallType == [pc : {"user", "read", "asleep", "write"}, n : Nat, target : Nat]

\* The invariant in parts: the line buffer, the calls, and the rest.
InPart == cons \in ConsType /\ Fits(cons.r, cons.w, cons.e)
CallPart == /\ t \in [Procs -> CallType] /\ got \in [Procs -> Seq(Chars)] /\ killed \subseteq Procs
            /\ CallsAgree
RestPart == /\ lock \in Procs \cup {None} /\ rhr \in Typed \cup {None}
            /\ irq \in BOOLEAN /\ intr \in BOOLEAN /\ panic \in BOOLEAN /\ typed \in Nat
Parts == InPart /\ CallPart /\ OutPart /\ RestPart /\ NoLostWakeup

\* Together they are ConsoleInv.
LEMMA PartsAre == ConsoleInv <=> Parts
<1>1. {irq, intr, panic} \subseteq BOOLEAN <=> irq \in BOOLEAN /\ intr \in BOOLEAN /\ panic \in BOOLEAN
  BY Zenon
<1>2. TxWaiting = Waiting(tx)
  BY Zenon DEF TxWaiting, Waiting, Ring
<1>3. cons \in ConsType => cons.r \in 0 .. UINT - 1 /\ cons.w \in 0 .. UINT - 1 /\ cons.e \in 0 .. UINT - 1
  BY Zenon DEF ConsType
<1>4. cons \in ConsType /\ IndicesFit <=> InPart
  BY <1>3, Zenon DEF InPart, Fits, IndicesFit
<1>5. OutPart <=> /\ tx \in TxType /\ fifo \in Seq(Nat) /\ Len(fifo) <= 1 /\ written \in Nat /\ sent \in Seq(Nat)
                  /\ OutputInOrder
  BY <1>2, Zenon DEF OutPart, OutputInOrder, Upto
<1>6. TypeOK <=> /\ cons \in ConsType /\ RestPart
                 /\ t \in [Procs -> CallType] /\ got \in [Procs -> Seq(Chars)] /\ killed \subseteq Procs
                 /\ tx \in TxType /\ fifo \in Seq(Nat) /\ Len(fifo) <= 1 /\ written \in Nat /\ sent \in Seq(Nat)
  BY <1>1, Zenon DEF TypeOK, RestPart, ConsType, CallType, TxType
<1>. QED  BY <1>4, <1>5, <1>6, Zenon DEF ConsoleInv, Parts, CallPart

\* Process p's call and what it has got become c and g.
Moved(p, c, g) ==
  /\ t' \in [Procs -> CallType] /\ got' \in [Procs -> Seq(Chars)]
  /\ t'[p] = c /\ got'[p] = g
  /\ \A q \in Procs \ {p} : t'[q] = t[q] /\ got'[q] = got[q]

\* Return() and ReadChar() move a call and what it has got,
LEMMA MovedBoth ==
  ASSUME CallPart, NEW p \in Procs, NEW c \in CallType, NEW g \in Seq(Chars),
         t' = [t EXCEPT ![p] = c], got' = [got EXCEPT ![p] = g]
  PROVE  Moved(p, c, g)
  BY Zenon DEF CallPart, Moved

\* other steps move the call only.
LEMMA MovedCall ==
  ASSUME CallPart, NEW p \in Procs, NEW c \in CallType, t' = [t EXCEPT ![p] = c], got' = got
  PROVE  Moved(p, c, got[p])
  BY Zenon DEF CallPart, Moved

\* The calls agree afterwards,
LEMMA MovedCalls ==
  ASSUME CallPart, NEW p \in Procs, NEW c, NEW g, Moved(p, c, g), killed' \subseteq Procs,
         c.n <= c.target, c.n = c.target => g = <<>>, c.pc = "user" => c.n = c.target
  PROVE  CallPart'
<1>1. ASSUME NEW q \in Procs
      PROVE  /\ t'[q].n <= t'[q].target /\ (t'[q].n = t'[q].target => got'[q] = <<>>)
             /\ (t'[q].pc = "user" => t'[q].n = t'[q].target)
  <2>1. CASE q = p
    BY <2>1, Zenon DEF Moved
  <2>2. CASE q # p
    BY <2>2, Zenon DEF Moved, CallPart, CallsAgree
  <2>. QED  BY <2>1, <2>2, Zenon
<1>2. CallsAgree'
  BY <1>1, Zenon DEF CallsAgree
<1>. QED  BY <1>2, Zenon DEF CallPart, Moved, CallType, Chars

\* and nobody else sleeps who should not.
LEMMA MovedSleepers ==
  ASSUME NoLostWakeup, NEW p \in Procs, NEW c, NEW g, Moved(p, c, g),
         c.pc = "asleep" => cons'.r = cons'.w /\ p \notin killed',
         cons.r = cons.w => cons'.r = cons'.w, killed' \subseteq killed \cup {p}
  PROVE  NoLostWakeup'
<1>1. ASSUME NEW q \in Procs, t'[q].pc = "asleep" PROVE cons'.r = cons'.w /\ q \notin killed'
  <2>1. CASE q = p
    BY <1>1, <2>1, Zenon DEF Moved
  <2>2. CASE q # p
    BY <1>1, <2>2, Zenon DEF Moved, NoLostWakeup, At
  <2>. QED  BY <2>1, <2>2, Zenon
<1>. QED  BY <1>1, Zenon DEF NoLostWakeup, At

\* What is in a call.
LEMMA CallIs ==
  ASSUME CallPart, NEW p \in Procs
  PROVE  /\ t[p] \in CallType /\ t[p].n \in Nat /\ t[p].target \in Nat /\ got[p] \in Seq(Chars)
         /\ t[p].n <= t[p].target /\ (t[p].n = t[p].target => got[p] = <<>>)
         /\ t[p].pc = "user" => t[p].n = t[p].target
<1>1. t[p] \in CallType /\ got[p] \in Seq(Chars)
  BY Zenon DEF CallPart
<1>2. t[p].n \in Nat /\ t[p].target \in Nat
  BY <1>1, Zenon DEF CallType
<1>. QED  BY <1>1, <1>2, Zenon DEF CallPart, CallsAgree

-----------------------------------------------------------------------------
(* Line input: a step of the console is a step of LineInput, or leaves the *)
(* lines as they are.                                                      *)

\* The line being typed, and the finished lines.
Line == Part(cons.buf, cons.w, cons.e)
Lines == Part(cons.buf, cons.r, cons.w)
Advance == Tty!Next \/ UNCHANGED Tty!vars

\* They are what the refinement mapping gives LineInput.
LEMMA LinesAre ==
  /\ Slice(cons.w, cons.e) = Line /\ Slice(cons.r, cons.w) = Lines
  /\ Slice(cons.w, cons.e)' = Line' /\ Slice(cons.r, cons.w)' = Lines'
  BY Zenon DEF Slice, Line, Lines, Part, Ring, Uint

\* Nothing happens to the lines: LineInput stutters.
LEMMA AdvanceNot ==
  ASSUME cons' = cons, got' = got
  PROVE  Advance /\ (InPart => InPart')
<1>1. Line' = Line /\ Lines' = Lines
  BY Zenon DEF Line, Lines, Part, Ring, Uint
<1>2. UNCHANGED Tty!vars
  BY <1>1, LinesAre, Zenon DEF Tty!vars
<1>3. InPart => InPart'
  BY Zenon DEF InPart, Fits, Uint, ConsType, Chars
<1>. QED  BY <1>2, <1>3, Zenon DEF Advance

\* A call returns and leaves the buffer as it is.
LEMMA AdvanceReturn ==
  ASSUME NEW p \in Procs, cons' = cons, got' = [got EXCEPT ![p] = <<>>]
  PROVE  Advance /\ (InPart => InPart')
<1>1. Line' = Line /\ Lines' = Lines
  BY Zenon DEF Line, Lines, Part, Ring, Uint
<1>2. Tty!Return(p)
  BY <1>1, LinesAre, Zenon DEF Tty!Return
<1>3. InPart => InPart'
  BY Zenon DEF InPart, Fits, Uint, ConsType, Chars
<1>. QED  BY <1>2, <1>3, Zenon DEF Advance, Tty!Next

\* consoleread() takes a character out of the buffer.
TakesOne == cons' = [cons EXCEPT !.r = Uint(@ + 1)]

\* It is the first of the finished lines, and LineInput takes it too.
LEMMA Taken ==
  ASSUME InPart, cons.r # cons.w, TakesOne
  PROVE  /\ InPart' /\ Lines # <<>> /\ Head(Lines) = cons.buf[cons.r % INPUT_BUF]
         /\ cons.buf[cons.r % INPUT_BUF] \in Chars
         /\ Lines' = Tail(Lines) /\ Line' = Line
<1>. DEFINE q == Uint(cons.r + 1)
<1>1. /\ cons.buf \in [0 .. INPUT_BUF - 1 -> Chars] /\ cons.r \in 0 .. UINT - 1
      /\ Fits(cons.r, cons.w, cons.e) /\ cons \in ConsType
  BY Zenon DEF InPart, ConsType
<1>2. /\ Fits(q, cons.w, cons.e)
      /\ Lines # <<>> /\ Head(Lines) = cons.buf[cons.r % INPUT_BUF]
      /\ Part(cons.buf, q, cons.w) = Tail(Lines)
  BY <1>1, TakeFits, Zenon DEF Lines
<1>3. q \in 0 .. UINT - 1
  BY <1>2, Zenon DEF Fits
<1>4. cons' = [cons EXCEPT !.r = q]
  BY Zenon DEF TakesOne
<1>5. cons.r \in Int /\ INPUT_BUF \in Nat \ {0}
  BY <1>1, Sizes
<1>6. cons.buf[cons.r % INPUT_BUF] \in Chars
  BY <1>1, <1>5, DivMod, Zenon
<1>. HIDE DEF q
<1>7. cons' \in ConsType /\ cons'.r = q /\ cons'.w = cons.w /\ cons'.e = cons.e /\ cons'.buf = cons.buf
  BY <1>1, <1>3, <1>4 DEF ConsType
<1>8. InPart'
  BY <1>2, <1>7, Zenon DEF InPart, Fits, Uint, ConsType, Chars
<1>9. Lines' = Part(cons'.buf, cons'.r, cons'.w) /\ Line' = Part(cons'.buf, cons'.w, cons'.e)
  BY Zenon DEF Line, Lines, Part, Ring, Uint
<1>. QED  BY <1>2, <1>6, <1>7, <1>8, <1>9, Zenon DEF Line

\* consoleintr() changes the end of the buffer.
LEMMA NewEnd ==
  ASSUME InPart, NEW b \in [0 .. INPUT_BUF - 1 -> Chars], NEW w, NEW e, Fits(cons.r, w, e),
         cons'.buf = b, cons'.r = cons.r, cons'.w = w, cons'.e = e, cons' \in ConsType, got' = got
  PROVE  InPart' /\ Lines' = Part(b, cons.r, w) /\ Line' = Part(b, w, e)
<1>1. Lines' = Part(cons'.buf, cons'.r, cons'.w) /\ Line' = Part(cons'.buf, cons'.w, cons'.e)
  BY Zenon DEF Line, Lines, Part, Ring, Uint
<1>2. InPart'
  BY Zenon DEF InPart, Fits, Uint, ConsType, Chars
<1>. QED  BY <1>1, <1>2, Zenon

\* ^H takes back a character, ^U the line.
LEMMA ErasedLine ==
  ASSUME InPart, NEW c \in {"erase", "kill"}, cons.e # cons.w, cons' = Erased(c), got' = got
  PROVE  InPart' /\ Advance /\ cons'.r = cons.r /\ cons'.w = cons.w
<1>. DEFINE q == IF c = "erase" THEN Uint(cons.e - 1) ELSE cons.w
<1>1. /\ cons.buf \in [0 .. INPUT_BUF - 1 -> Chars] /\ cons \in ConsType /\ Fits(cons.r, cons.w, cons.e)
      /\ cons.w \in 0 .. UINT - 1
  BY Zenon DEF InPart, ConsType
<1>2. Fits(cons.r, cons.w, Uint(cons.e - 1)) /\ Line # <<>>
      /\ Part(cons.buf, cons.w, Uint(cons.e - 1)) = SubSeq(Line, 1, Len(Line) - 1)
  <2>1. OneErased(cons.buf, cons.r, cons.w, cons.e)
    BY <1>1, EraseFits, Zenon
  <2>. QED  BY <2>1, Zenon DEF OneErased, Line
<1>3. Fits(cons.r, cons.w, cons.w) /\ Part(cons.buf, cons.w, cons.w) = <<>>
  BY <1>1, KillFits, NoPart, Zenon
<1>4. Fits(cons.r, cons.w, q)
  BY <1>2, <1>3, Zenon
<1>5. cons' = [cons EXCEPT !.e = q]
  BY Zenon DEF Erased
<1>6. q \in 0 .. UINT - 1
  BY <1>4, Zenon DEF Fits
<1>7. cons' \in ConsType /\ cons'.r = cons.r /\ cons'.w = cons.w /\ cons'.e = q /\ cons'.buf = cons.buf
  <2>. HIDE DEF q
  <2>. QED  BY <1>1, <1>5, <1>6 DEF ConsType
<1>8. InPart' /\ Lines' = Lines /\ Line' = Part(cons.buf, cons.w, q)
  <2>. HIDE DEF q
  <2>. QED  BY <1>1, <1>4, <1>7, NewEnd, Zenon DEF Lines
<1>9. Tty!Erase \/ Tty!EraseLine
  <2>1. CASE c = "erase"
    <3>1. Line' = SubSeq(Line, 1, Len(Line) - 1)
      BY <1>2, <1>8, <2>1, Zenon
    <3>. QED  BY <1>2, <1>8, <3>1, LinesAre, Zenon DEF Tty!Erase
  <2>2. CASE c # "erase"
    <3>1. Line' = <<>>
      BY <1>3, <1>8, <2>2, Zenon
    <3>. QED  BY <1>8, <3>1, LinesAre, Zenon DEF Tty!EraseLine
  <2>. QED  BY <2>1, <2>2, Zenon
<1>. QED  BY <1>7, <1>8, <1>9, Zenon DEF Advance, Tty!Next

\* A character goes into the line, or ends it.
LineEnds(ch) == ch \in {"nl", "eof"} \/ Uint(cons.e + 1) = Uint(cons.r + INPUT_BUF)
Extended(ch) == [cons EXCEPT !.buf[cons.e % INPUT_BUF] = ch, !.e = Uint(cons.e + 1)]

\* consoleintr() with an ordinary character is Type of LineInput.
LEMMA TypedLine ==
  ASSUME InPart, HasRoom, NEW ch \in Typed \cup {"nl"}, got' = got,
         \/ LineEnds(ch) /\ cons' = [Extended(ch) EXCEPT !.w = Uint(cons.e + 1)]
         \/ ~LineEnds(ch) /\ cons' = Extended(ch)
  PROVE  InPart' /\ Advance /\ (LineEnds(ch) \/ (cons'.r = cons.r /\ cons'.w = cons.w))
<1>. DEFINE f == Uint(cons.e + 1)
            b == Stored(cons.buf, cons.e, ch)
<1>1. /\ cons.buf \in [0 .. INPUT_BUF - 1 -> Chars] /\ cons \in ConsType /\ Fits(cons.r, cons.w, cons.e)
      /\ ch \in Chars /\ Uint(cons.e - cons.r) < INPUT_BUF
  BY Zenon DEF InPart, ConsType, Chars, HasRoom
<1>2. /\ Fits(cons.r, cons.w, f) /\ Fits(cons.r, f, f)
      /\ b \in [0 .. INPUT_BUF - 1 -> Chars]
      /\ Part(b, cons.r, cons.w) = Lines
      /\ Part(b, cons.w, f) = Append(Line, ch)
      /\ Part(b, cons.r, f) = Lines \o Append(Line, ch)
  <2>1. OneStored(cons.buf, cons.r, cons.w, cons.e, ch, Chars)
    BY <1>1, PutFits, Zenon
  <2>. QED  BY <2>1, Zenon DEF OneStored, Line, Lines
<1>3. /\ Lines \in Seq(Chars) /\ Line \in Seq(Chars)
      /\ Len(Lines) + Len(Line) = Uint(cons.e - cons.r)
      /\ f = Uint(cons.r + INPUT_BUF) <=> Uint(cons.e - cons.r) + 1 = INPUT_BUF
  BY <1>1, LineLengths, Zenon DEF Line, Lines
<1>4. ~(Len(Lines) + Len(Line) >= INPUT_BUF)
  BY <1>1, <1>3, Sizes
<1>5. LineEnds(ch) <=> ch \in {"nl", "eof"} \/ Len(Lines) + Len(Line) + 1 = INPUT_BUF
  BY <1>3, Zenon DEF LineEnds
<1>6. f \in 0 .. UINT - 1 /\ Part(b, f, f) = <<>>
  BY <1>2, NoPart, Zenon DEF Fits
<1>7. /\ Extended(ch) \in ConsType /\ Extended(ch).buf = b /\ Extended(ch).r = cons.r
      /\ Extended(ch).w = cons.w /\ Extended(ch).e = f
  <2>1. Extended(ch) = [cons EXCEPT !.buf = b, !.e = f]
    BY Zenon DEF Extended, Stored
  <2>. HIDE DEF b, f
  <2>. QED  BY <1>1, <1>2, <1>6, <2>1, Zenon DEF ConsType
<1>. HIDE DEF f, b
<1>8. CASE LineEnds(ch)
  <2>1. cons' = [Extended(ch) EXCEPT !.w = f]
    BY <1>8, Zenon DEF f
  <2>2. cons' \in ConsType /\ cons'.buf = b /\ cons'.r = cons.r /\ cons'.w = f /\ cons'.e = f
    <3>. DEFINE x == Extended(ch)
    <3>1. x \in ConsType /\ x.buf = b /\ x.r = cons.r /\ x.e = f /\ cons' = [x EXCEPT !.w = f]
      BY <1>7, <2>1, Zenon
    <3>. HIDE DEF x
    <3>. QED  BY <1>6, <3>1 DEF ConsType
  <2>3. InPart' /\ Lines' = Lines \o Append(Line, ch) /\ Line' = <<>>
    BY <1>2, <1>6, <2>2, NewEnd, Zenon
  <2>4. Tty!Type(ch)
    BY <1>4, <1>5, <1>8, <2>3, LinesAre, Zenon DEF Tty!Type, Tty!Full, Tty!Ends
  <2>. QED  BY <1>8, <2>3, <2>4, Zenon DEF Advance, Tty!Next
<1>9. CASE ~LineEnds(ch)
  <2>1. cons' \in ConsType /\ cons'.buf = b /\ cons'.r = cons.r /\ cons'.w = cons.w /\ cons'.e = f
    BY <1>7, <1>9, Zenon
  <2>2. InPart' /\ Lines' = Lines /\ Line' = Append(Line, ch)
    BY <1>2, <2>1, NewEnd, Zenon
  <2>3. Tty!Type(ch)
    BY <1>4, <1>5, <1>9, <2>2, LinesAre, Zenon DEF Tty!Type, Tty!Full, Tty!Ends
  <2>. QED  BY <2>1, <2>2, <2>3, Zenon DEF Advance, Tty!Next
<1>. QED  BY <1>8, <1>9, Zenon

-----------------------------------------------------------------------------
(* Each action keeps the parts.                                            *)

\* The lock is all that changes of the rest.
LEMMA RestSame ==
  ASSUME RestPart, lock' \in Procs \cup {None}, UNCHANGED <<rhr, irq, intr, panic, typed>>
  PROVE  RestPart'
  BY Zenon DEF RestPart

\* read() is called.
LEMMA ReadCallKeeps ==
  ASSUME Parts, NEW p \in Procs, NEW n \in Nat, ReadCall(p, n)
  PROVE  Parts' /\ Advance
<1>. DEFINE c == [pc |-> "read", n |-> n, target |-> n]
<1>1. c \in CallType /\ c.pc = "read" /\ c.n = n /\ c.target = n /\ n <= n
  BY DEF CallType
<1>2. /\ t' = [t EXCEPT ![p] = c] /\ At(p, "user") /\ cons' = cons /\ got' = got /\ killed' = killed /\ lock' = lock
      /\ UNCHANGED <<tx, fifo, written, sent>> /\ UNCHANGED <<rhr, irq, intr, panic, typed>>
  BY Zenon DEF ReadCall, output, device
<1>. HIDE DEF c
<1>3. Moved(p, c, got[p]) /\ got[p] = <<>>
  BY <1>1, <1>2, MovedCall, CallIs, Zenon DEF Parts, At
<1>4. killed' \subseteq Procs /\ killed' \subseteq killed \cup {p} /\ lock' \in Procs \cup {None}
  BY <1>2, Zenon DEF Parts, CallPart, RestPart
<1>5. CallPart' /\ NoLostWakeup'
  BY <1>1, <1>2, <1>3, <1>4, MovedCalls, MovedSleepers, Zenon DEF Parts
<1>. QED  BY <1>2, <1>4, <1>5, AdvanceNot, OutSame, RestSame, Zenon DEF Parts

\* write() is called.
LEMMA WriteCallKeeps ==
  ASSUME Parts, NEW p \in Procs, NEW n \in Nat, WriteCall(p, n)
  PROVE  Parts' /\ Advance
<1>. DEFINE c == [pc |-> "write", n |-> n, target |-> n]
<1>1. c \in CallType /\ c.pc = "write" /\ c.n = n /\ c.target = n /\ n <= n
  BY DEF CallType
<1>2. /\ t' = [t EXCEPT ![p] = c] /\ At(p, "user") /\ cons' = cons /\ got' = got /\ killed' = killed /\ lock' = lock
      /\ UNCHANGED <<tx, fifo, written, sent>> /\ UNCHANGED <<rhr, irq, intr, panic, typed>>
  BY Zenon DEF WriteCall, output, device
<1>. HIDE DEF c
<1>3. Moved(p, c, got[p]) /\ got[p] = <<>>
  BY <1>1, <1>2, MovedCall, CallIs, Zenon DEF Parts, At
<1>4. killed' \subseteq Procs /\ killed' \subseteq killed \cup {p} /\ lock' \in Procs \cup {None}
  BY <1>2, Zenon DEF Parts, CallPart, RestPart
<1>5. CallPart' /\ NoLostWakeup'
  BY <1>1, <1>2, <1>3, <1>4, MovedCalls, MovedSleepers, Zenon DEF Parts
<1>. QED  BY <1>2, <1>4, <1>5, AdvanceNot, OutSame, RestSame, Zenon DEF Parts

\* A call that returns.
LEMMA Returned ==
  ASSUME Parts, NEW p \in Procs, Return(p), cons.r = cons.w => cons'.r = cons'.w,
         UNCHANGED <<tx, fifo, written, sent>>, UNCHANGED <<rhr, irq, intr, panic, typed>>, killed' = killed
  PROVE  CallPart' /\ NoLostWakeup' /\ OutPart' /\ RestPart'
<1>1. NoCall \in CallType /\ NoCall.pc = "user" /\ NoCall.n = 0 /\ NoCall.target = 0 /\ 0 <= 0
  BY DEF CallType, NoCall
<1>2. <<>> \in Seq(Chars)
  OBVIOUS
<1>3. t' = [t EXCEPT ![p] = NoCall] /\ got' = [got EXCEPT ![p] = <<>>] /\ lock' = None
  BY Zenon DEF Return
<1>4. Moved(p, NoCall, <<>>)
  BY <1>1, <1>2, <1>3, MovedBoth, Zenon DEF Parts
<1>5. killed' \subseteq Procs /\ killed' \subseteq killed \cup {p} /\ lock' \in Procs \cup {None}
  BY <1>3, Zenon DEF Parts, CallPart
<1>6. CallPart'
  BY <1>1, <1>4, <1>5, MovedCalls, Zenon DEF Parts
<1>7. NoCall.pc # "asleep"
  BY <1>1
<1>8. NoLostWakeup'
  BY <1>4, <1>5, <1>7, MovedSleepers, Zenon DEF Parts
<1>. QED  BY <1>5, <1>6, <1>8, OutSame, RestSame, Zenon DEF Parts

\* A reader gives up, or goes to sleep with nothing to read.
LEMMA ReadWaitKeeps ==
  ASSUME Parts, NEW p \in Procs, ReadWait(p)
  PROVE  Parts' /\ Advance
<1>1. /\ cons' = cons /\ killed' = killed /\ cons.r = cons.w
      /\ UNCHANGED <<tx, fifo, written, sent>> /\ UNCHANGED <<rhr, irq, intr, panic, typed>>
  BY Zenon DEF ReadWait, output, device
<1>2. CASE p \in killed /\ Return(p)
  <2>1. CallPart' /\ NoLostWakeup' /\ OutPart' /\ RestPart'
    BY <1>1, <1>2, Returned, Zenon
  <2>2. got' = [got EXCEPT ![p] = <<>>]
    BY <1>2, Zenon DEF Return
  <2>. QED  BY <1>1, <2>1, <2>2, AdvanceReturn, Zenon DEF Parts
<1>3. CASE p \notin killed /\ t' = [t EXCEPT ![p].pc = "asleep"] /\ lock' = None /\ UNCHANGED got
  <2>. DEFINE c == [t[p] EXCEPT !.pc = "asleep"]
  <2>1. t[p] \in CallType
    BY CallIs, Zenon DEF Parts
  <2>2. c \in CallType /\ c.n = t[p].n /\ c.target = t[p].target /\ c.pc = "asleep" /\ c.pc # "user"
    BY <2>1 DEF CallType
  <2>3. t' = [t EXCEPT ![p] = c] /\ got' = got
    BY <1>3, Zenon
  <2>. HIDE DEF c
  <2>4. Moved(p, c, got[p])
    BY <2>2, <2>3, MovedCall, Zenon DEF Parts
  <2>5. killed' \subseteq Procs /\ killed' \subseteq killed \cup {p} /\ lock' \in Procs \cup {None}
    BY <1>1, <1>3, Zenon DEF Parts, CallPart
  <2>6. c.n <= c.target /\ (c.n = c.target => got[p] = <<>>)
    BY <2>2, CallIs, Zenon DEF Parts
  <2>7. CallPart'
    BY <2>2, <2>4, <2>5, <2>6, MovedCalls, Zenon DEF Parts
  <2>8. NoLostWakeup'
    BY <1>1, <1>3, <2>4, <2>5, MovedSleepers, Zenon DEF Parts
  <2>. QED  BY <1>1, <2>3, <2>5, <2>7, <2>8, AdvanceNot, OutSame, RestSame, Zenon DEF Parts
<1>. QED  BY <1>2, <1>3, Zenon DEF ReadWait

\* A call is done.
LEMMA ReadDoneKeeps ==
  ASSUME Parts, NEW p \in Procs, ReadDone(p) \/ WriteDone(p)
  PROVE  Parts' /\ Advance
<1>1. /\ cons' = cons /\ killed' = killed /\ Return(p)
      /\ UNCHANGED <<tx, fifo, written, sent>> /\ UNCHANGED <<rhr, irq, intr, panic, typed>>
  BY Zenon DEF ReadDone, WriteDone, output, device
<1>2. CallPart' /\ NoLostWakeup' /\ OutPart' /\ RestPart'
  BY <1>1, Returned, Zenon
<1>3. got' = [got EXCEPT ![p] = <<>>]
  BY <1>1, Zenon DEF Return
<1>. QED  BY <1>1, <1>2, <1>3, AdvanceReturn, Zenon DEF Parts

\* A character is taken and lost.
LEMMA ReadFaultKeeps ==
  ASSUME Parts, NEW p \in Procs, ReadFault(p)
  PROVE  Parts' /\ Advance
<1>1. /\ TakesOne /\ killed' = killed /\ Return(p) /\ cons.r # cons.w /\ cons.buf[cons.r % INPUT_BUF] # "eof"
      /\ UNCHANGED <<tx, fifo, written, sent>> /\ UNCHANGED <<rhr, irq, intr, panic, typed>>
  BY Zenon DEF ReadFault, output, device, TakesOne
<1>2. CallPart' /\ NoLostWakeup' /\ OutPart' /\ RestPart'
  BY <1>1, Returned, Zenon
<1>3. got' = [got EXCEPT ![p] = <<>>]
  BY <1>1, Zenon DEF Return
<1>4. /\ InPart' /\ Lines # <<>> /\ Head(Lines) = cons.buf[cons.r % INPUT_BUF]
      /\ Lines' = Tail(Lines) /\ Line' = Line
  BY <1>1, Taken, Zenon DEF Parts
<1>5. Tty!Drop(p)
  BY <1>1, <1>3, <1>4, LinesAre, Zenon DEF Tty!Drop
<1>. QED  BY <1>2, <1>4, <1>5, Zenon DEF Parts, Advance, Tty!Next

\* An end of file: taken if the call has got nothing, left otherwise.
LEMMA ReadEofKeeps ==
  ASSUME Parts, NEW p \in Procs, ReadEof(p)
  PROVE  Parts' /\ Advance
<1>1. /\ killed' = killed /\ Return(p) /\ cons.r # cons.w /\ cons.buf[cons.r % INPUT_BUF] = "eof"
      /\ UNCHANGED <<tx, fifo, written, sent>> /\ UNCHANGED <<rhr, irq, intr, panic, typed>>
  BY Zenon DEF ReadEof, output, device
<1>2. CallPart' /\ NoLostWakeup' /\ OutPart' /\ RestPart'
  BY <1>1, Returned, Zenon
<1>3. got' = [got EXCEPT ![p] = <<>>]
  BY <1>1, Zenon DEF Return
<1>4. CASE t[p].n < t[p].target
  <2>1. cons' = cons
    BY <1>4, Zenon DEF ReadEof
  <2>. QED  BY <1>2, <1>3, <2>1, AdvanceReturn, Zenon DEF Parts
<1>5. CASE ~(t[p].n < t[p].target)
  <2>1. TakesOne
    BY <1>5, Zenon DEF ReadEof, TakesOne
  <2>2. /\ InPart' /\ Lines # <<>> /\ Head(Lines) = cons.buf[cons.r % INPUT_BUF]
        /\ Lines' = Tail(Lines) /\ Line' = Line
    BY <1>1, <2>1, Taken, Zenon DEF Parts
  <2>3. t[p].n \in Nat /\ t[p].target \in Nat /\ t[p].n <= t[p].target
    BY CallIs, Zenon DEF Parts
  <2>4. t[p].n = t[p].target
    BY <1>5, <2>3
  <2>5. got[p] = <<>> /\ got \in [Procs -> Seq(Chars)]
    BY <2>4, CallIs, Zenon DEF Parts, CallPart
  <2>6. got' = got
    BY <1>3, <2>5, Zenon
  <2>7. Tty!TakeEof(p)
    BY <1>1, <2>2, <2>5, <2>6, LinesAre, Zenon DEF Tty!TakeEof
  <2>. QED  BY <1>2, <2>2, <2>7, Zenon DEF Parts, Advance, Tty!Next
<1>. QED  BY <1>4, <1>5, Zenon

\* A character is taken and counted.
LEMMA ReadCharKeeps ==
  ASSUME Parts, NEW p \in Procs, ReadChar(p)
  PROVE  Parts' /\ Advance
<1>. DEFINE x == cons.buf[cons.r % INPUT_BUF]
            c == [t[p] EXCEPT !.n = IF x = "nl" THEN 0 ELSE @ - 1]
            g == Append(got[p], x)
<1>1. /\ TakesOne /\ killed' = killed /\ cons.r # cons.w /\ x # "eof" /\ t[p].n > 0 /\ At(p, "read")
      /\ got' = [got EXCEPT ![p] = g] /\ t' = [t EXCEPT ![p] = c] /\ lock' = p
      /\ UNCHANGED <<tx, fifo, written, sent>> /\ UNCHANGED <<rhr, irq, intr, panic, typed>>
  BY Zenon DEF ReadChar, output, device, TakesOne
<1>2. /\ InPart' /\ Lines # <<>> /\ Head(Lines) = x /\ x \in Chars
      /\ Lines' = Tail(Lines) /\ Line' = Line
  BY <1>1, Taken, Zenon DEF Parts
<1>3. t[p] \in CallType /\ t[p].n \in Nat /\ t[p].target \in Nat /\ t[p].n <= t[p].target /\ got[p] \in Seq(Chars)
  BY CallIs, Zenon DEF Parts
<1>4. t[p].pc = "read"
  BY <1>1, Zenon DEF At
<1>5. /\ c \in CallType /\ c.pc = "read" /\ c.n < t[p].n /\ c.n \in Nat /\ c.target = t[p].target
  <2>. HIDE DEF x
  <2>. QED  BY <1>1, <1>3, <1>4 DEF CallType
<1>6. g \in Seq(Chars)
  <2>. HIDE DEF x
  <2>. QED  BY <1>2, <1>3
<1>7. Tty!Take(p)
  <2>1. got' = [got EXCEPT ![p] = Append(@, Head(Lines))]
    BY <1>1, <1>2, Zenon
  <2>. QED  BY <1>1, <1>2, <2>1, LinesAre, Zenon DEF Tty!Take
<1>. HIDE DEF c, g, x
<1>8. Moved(p, c, g)
  BY <1>1, <1>5, <1>6, MovedBoth, Zenon DEF Parts
<1>9. c.n <= c.target /\ c.n # c.target /\ c.pc # "user" /\ c.pc # "asleep"
  BY <1>3, <1>5
<1>10. killed' \subseteq Procs /\ killed' \subseteq killed \cup {p} /\ lock' \in Procs \cup {None}
  BY <1>1, Zenon DEF Parts, CallPart
<1>11. CallPart'
  BY <1>8, <1>9, <1>10, MovedCalls, Zenon DEF Parts
<1>12. NoLostWakeup'
  BY <1>1, <1>8, <1>9, <1>10, MovedSleepers, Zenon DEF Parts
<1>. QED  BY <1>1, <1>2, <1>7, <1>10, <1>11, <1>12, OutSame, RestSame, Zenon DEF Parts, Advance, Tty!Next

\* kill() wakes a sleeper.
LEMMA KillKeeps ==
  ASSUME Parts, NEW p \in Procs, Kill(p)
  PROVE  Parts' /\ Advance
<1>. DEFINE c == [t[p] EXCEPT !.pc = IF @ = "asleep" THEN "read" ELSE @]
<1>1. /\ t' = [t EXCEPT ![p] = c] /\ t[p].pc \in {"read", "asleep"} /\ cons' = cons /\ got' = got
      /\ killed' = killed \cup {p} /\ lock' = lock
      /\ UNCHANGED <<tx, fifo, written, sent>> /\ UNCHANGED <<rhr, irq, intr, panic, typed>>
  BY Zenon DEF Kill, output, device
<1>2. t[p] \in CallType
  BY CallIs, Zenon DEF Parts
<1>3. c \in CallType /\ c.n = t[p].n /\ c.target = t[p].target /\ c.pc = "read" /\ c.pc # "asleep" /\ c.pc # "user"
  BY <1>1, <1>2 DEF CallType
<1>. HIDE DEF c
<1>4. Moved(p, c, got[p])
  BY <1>1, <1>3, MovedCall, Zenon DEF Parts
<1>5. killed' \subseteq Procs /\ killed' \subseteq killed \cup {p} /\ lock' \in Procs \cup {None}
  BY <1>1, Zenon DEF Parts, CallPart, RestPart
<1>6. c.n <= c.target /\ (c.n = c.target => got[p] = <<>>)
  BY <1>3, CallIs, Zenon DEF Parts
<1>7. CallPart'
  BY <1>3, <1>4, <1>5, <1>6, MovedCalls, Zenon DEF Parts
<1>8. NoLostWakeup'
  BY <1>1, <1>3, <1>4, <1>5, MovedSleepers, Zenon DEF Parts
<1>. QED  BY <1>1, <1>5, <1>7, <1>8, AdvanceNot, OutSame, RestSame, Zenon DEF Parts

\* A character is written.
LEMMA WriteCharKeeps ==
  ASSUME Parts, NEW p \in Procs, WriteChar(p)
  PROVE  Parts' /\ Advance
<1>. DEFINE c == [t[p] EXCEPT !.n = @ - 1]
<1>1. /\ t' = [t EXCEPT ![p] = c] /\ At(p, "write") /\ t[p].n > 0 /\ cons' = cons /\ got' = got
      /\ killed' = killed /\ lock' = p
      /\ UNCHANGED <<rhr, irq, intr, panic, typed>>
  BY Zenon DEF WriteChar
<1>2. t[p] \in CallType /\ t[p].n \in Nat /\ t[p].target \in Nat /\ t[p].n <= t[p].target /\ t[p].pc = "write"
  BY <1>1, CallIs, Zenon DEF Parts, At
<1>3. /\ c \in CallType /\ c.n <= c.target /\ c.n # c.target /\ c.pc = "write" /\ c.pc # "asleep" /\ c.pc # "user"
  BY <1>1, <1>2 DEF CallType
<1>. HIDE DEF c
<1>4. Moved(p, c, got[p])
  BY <1>1, <1>3, MovedCall, Zenon DEF Parts
<1>5. killed' \subseteq Procs /\ killed' \subseteq killed \cup {p} /\ lock' \in Procs \cup {None}
  BY <1>1, Zenon DEF Parts, CallPart
<1>6. CallPart'
  BY <1>3, <1>4, <1>5, MovedCalls, Zenon DEF Parts
<1>7. NoLostWakeup'
  BY <1>1, <1>3, <1>4, <1>5, MovedSleepers, Zenon DEF Parts
<1>. QED  BY <1>1, <1>5, <1>6, <1>7, AdvanceNot, WriteCharOut, RestSame, Zenon DEF Parts

\* Nothing changes for the calls.
LEMMA CallsSame ==
  ASSUME CallPart, NoLostWakeup, UNCHANGED <<t, got, killed>>, cons'.r = cons.r, cons'.w = cons.w
  PROVE  CallPart' /\ NoLostWakeup'
<1>1. t' = t /\ got' = got /\ killed' = killed
  BY Zenon
<1>2. CallsAgree'
  BY <1>1, Zenon DEF CallPart, CallsAgree
<1>3. CallPart'
  BY <1>1, <1>2, Zenon DEF CallPart, CallType, Chars
<1>4. NoLostWakeup'
  BY <1>1, Zenon DEF NoLostWakeup, At
<1>. QED  BY <1>3, <1>4, Zenon

\* The panic changes nothing else.
LEMMA WriteFullKeeps ==
  ASSUME Parts, NEW p \in Procs, WriteFull(p)
  PROVE  Parts' /\ Advance
<1>1. /\ UNCHANGED <<t, got, killed>> /\ cons' = cons /\ got' = got /\ panic' = TRUE /\ lock' = p
      /\ UNCHANGED <<tx, fifo, written, sent>> /\ UNCHANGED <<rhr, irq, intr, typed>>
  BY Zenon DEF WriteFull, output, device
<1>2. RestPart'
  BY <1>1, Zenon DEF Parts, RestPart
<1>3. CallPart' /\ NoLostWakeup'
  BY <1>1, CallsSame, Zenon DEF Parts
<1>. QED  BY <1>1, <1>2, <1>3, AdvanceNot, OutSame, Zenon DEF Parts

\* The end of uartintr().
LEMMA TransmitKeeps ==
  ASSUME Parts, Transmit
  PROVE  Parts' /\ Advance
<1>1. /\ UNCHANGED <<t, got, killed>> /\ cons' = cons /\ got' = got /\ uartstart(tx) /\ written' = written /\ sent' = sent
      /\ irq' = (intr /\ irq) /\ intr' = FALSE /\ UNCHANGED <<rhr, lock, panic, typed>>
  BY Zenon DEF Transmit, Handling
<1>2. RestPart'
  BY <1>1, Zenon DEF Parts, RestPart
<1>3. CallPart' /\ NoLostWakeup'
  BY <1>1, CallsSame, Zenon DEF Parts
<1>4. OutPart'
  BY <1>1, Started, Zenon DEF Parts, OutPart
<1>. QED  BY <1>1, <1>2, <1>3, <1>4, AdvanceNot, Zenon DEF Parts

\* A character arrives.
LEMMA TypeKeeps ==
  ASSUME Parts, NEW c \in Typed, Type(c)
  PROVE  Parts' /\ Advance
<1>1. /\ UNCHANGED <<t, got, killed>> /\ cons' = cons /\ got' = got /\ rhr' = c /\ irq' = TRUE /\ typed' = typed + 1
      /\ UNCHANGED <<tx, fifo, written, sent>> /\ UNCHANGED <<lock, intr, panic>>
  BY Zenon DEF Type, output
<1>2. typed \in Nat
  BY Zenon DEF Parts, RestPart
<1>3. typed + 1 \in Nat
  BY <1>2
<1>4. RestPart'
  BY <1>1, <1>3, Zenon DEF Parts, RestPart
<1>5. CallPart' /\ NoLostWakeup'
  BY <1>1, CallsSame, Zenon DEF Parts
<1>. QED  BY <1>1, <1>4, <1>5, AdvanceNot, OutSame, Zenon DEF Parts

\* A character leaves.
LEMMA SendKeeps ==
  ASSUME Parts, Send
  PROVE  Parts' /\ Advance
<1>1. /\ UNCHANGED <<t, got, killed>> /\ cons' = cons /\ got' = got /\ irq' = TRUE
      /\ UNCHANGED <<lock, rhr, intr, panic, typed>>
  BY Zenon DEF Send
<1>2. RestPart'
  BY <1>1, Zenon DEF Parts, RestPart
<1>3. CallPart' /\ NoLostWakeup'
  BY <1>1, CallsSame, Zenon DEF Parts
<1>. QED  BY <1>1, <1>2, <1>3, AdvanceNot, SendOut, Zenon DEF Parts

\* wakeup() of the readers.
LEMMA Woken ==
  ASSUME CallPart, t' = WakeReaders, UNCHANGED <<got, killed>>
  PROVE  CallPart' /\ NoLostWakeup'
<1>1. ASSUME NEW q \in Procs
      PROVE  t'[q] \in CallType /\ t'[q].n = t[q].n /\ t'[q].target = t[q].target /\ t'[q].pc # "asleep"
             /\ (t'[q].pc = "user" => t[q].pc = "user")
  <2>1. t'[q] = IF t[q].pc = "asleep" THEN [t[q] EXCEPT !.pc = "read"] ELSE t[q]
    BY Zenon DEF WakeReaders
  <2>2. t[q] \in CallType
    BY CallIs, Zenon
  <2>. QED  BY <2>1, <2>2 DEF CallType
<1>2. t' \in [Procs -> CallType]
  BY <1>1, Zenon DEF WakeReaders
<1>3. CallsAgree'
  BY <1>1, Zenon DEF CallPart, CallsAgree
<1>4. CallPart'
  BY <1>2, <1>3, Zenon DEF CallPart, CallType, Chars
<1>5. NoLostWakeup'
  BY <1>1, Zenon DEF NoLostWakeup, At
<1>. QED  BY <1>4, <1>5, Zenon

\* uartintr() hands a character to consoleintr().
LEMMA InputKeeps ==
  ASSUME Parts, Input
  PROVE  Parts' /\ Advance
<1>. DEFINE ch == IF rhr = "cr" THEN "nl" ELSE rhr
<1>1. /\ consoleintr(rhr) /\ got' = got /\ killed' = killed /\ tx' = tx /\ written' = written /\ sent' = sent
      /\ rhr # None /\ rhr' = None /\ intr' = TRUE /\ irq' = (intr /\ irq) /\ UNCHANGED <<lock, panic, typed>>
  BY Zenon DEF Input, Handling, output
<1>2. RestPart'
  BY <1>1, Zenon DEF Parts, RestPart
<1>3. rhr \in Typed /\ ch \in Typed \cup {"nl"}
  BY <1>1, Zenon DEF Parts, RestPart
<1>4. CASE UNCHANGED <<cons, t, fifo>>
  <2>1. CallPart' /\ NoLostWakeup' /\ OutPart'
    BY <1>1, <1>4, CallsSame, OutSame, Zenon DEF Parts
  <2>. QED  BY <1>1, <1>2, <1>4, <2>1, AdvanceNot, Zenon DEF Parts
<1>5. CASE rhr \in {"erase", "kill"} /\ cons.e # cons.w /\ fifo = <<>> /\ cons' = Erased(rhr) /\ fifo' = <<Echo>> /\ UNCHANGED t
  <2>1. InPart' /\ Advance /\ cons'.r = cons.r /\ cons'.w = cons.w
    BY <1>1, <1>5, ErasedLine, Zenon DEF Parts
  <2>2. CallPart' /\ NoLostWakeup' /\ OutPart'
    BY <1>1, <1>5, <2>1, CallsSame, Echoed, Zenon DEF Parts
  <2>. QED  BY <1>2, <2>1, <2>2, Zenon DEF Parts
<1>6. CASE /\ HasRoom /\ fifo = <<>> /\ fifo' = <<Echo>>
           /\ \/ LineEnds(ch) /\ cons' = [Extended(ch) EXCEPT !.w = Uint(cons.e + 1)] /\ t' = WakeReaders
              \/ ~LineEnds(ch) /\ cons' = Extended(ch) /\ UNCHANGED t
  <2>. HIDE DEF ch
  <2>1. InPart' /\ Advance /\ (LineEnds(ch) \/ (cons'.r = cons.r /\ cons'.w = cons.w))
    BY <1>1, <1>3, <1>6, TypedLine, Zenon DEF Parts
  <2>2. OutPart'
    BY <1>1, <1>6, Echoed, Zenon DEF Parts
  <2>3. CallPart' /\ NoLostWakeup'
    BY <1>1, <1>6, <2>1, Woken, CallsSame, Zenon DEF Parts
  <2>. QED  BY <1>2, <2>1, <2>2, <2>3, Zenon DEF Parts
<1>. QED  BY <1>1, <1>4, <1>5, <1>6, Zenon DEF consoleintr, LineEnds, Extended

-----------------------------------------------------------------------------
(* The theorems.                                                           *)

\* At the start the buffers are empty.
LEMMA InitParts == Init => Parts /\ Tty!Init
<1>. SUFFICES ASSUME Init PROVE Parts /\ Tty!Init
  OBVIOUS
<1>1. /\ cons = [buf |-> [i \in 0 .. INPUT_BUF - 1 |-> "a"], r |-> First, w |-> First, e |-> First]
      /\ lock = None
      /\ tx = [buf |-> [i \in 0 .. UART_TX_BUF_SIZE - 1 |-> 0], r |-> 0, w |-> 0]
      /\ fifo = <<>> /\ rhr = None /\ irq = FALSE /\ intr = FALSE
      /\ t = [p \in Procs |-> NoCall] /\ killed = {} /\ got = [p \in Procs |-> <<>>]
      /\ typed = 0 /\ written = 0 /\ sent = <<>> /\ panic = FALSE
  BY Zenon DEF Init
<1>2. First \in 0 .. UINT - 1
  BY ConsoleAssumption, Zenon
<1>3. "a" \in Chars
  BY Zenon DEF Chars
<1>4. /\ cons \in ConsType /\ cons.r = First /\ cons.w = First /\ cons.e = First
  BY <1>1, <1>2, <1>3 DEF ConsType
<1>5. Uint(First - First) = 0 /\ 0 <= 0 /\ 0 <= INPUT_BUF
  BY <1>2, Empty, Sizes
<1>6. InPart
  BY <1>2, <1>4, <1>5, Zenon DEF InPart, Fits
<1>7. NoCall \in CallType /\ NoCall.pc = "user" /\ NoCall.n = NoCall.target /\ NoCall.n <= NoCall.target
  BY DEF NoCall, CallType
<1>8. <<>> \in Seq(Chars) /\ <<>> \in Seq(Nat) /\ Len(<<>>) <= 1 /\ 0 \in Nat
  OBVIOUS
<1>9. CallsAgree
  BY <1>1, <1>7, Zenon DEF CallsAgree
<1>10. CallPart
  BY <1>1, <1>7, <1>8, <1>9, Zenon DEF CallPart
<1>11. NoCall.pc # "asleep"
  BY <1>7
<1>12. NoLostWakeup
  BY <1>1, <1>11, Zenon DEF NoLostWakeup, At
<1>13. RestPart
  BY <1>1, <1>8, Zenon DEF RestPart
<1>14. tx \in TxType /\ tx.r = tx.w
  BY <1>1, Sizes DEF TxType
<1>15. Waiting(tx) = <<>>
  BY <1>14, WaitingIs, Zenon
<1>16. UartHas = <<>>
  BY <1>1, Zenon DEF UartHas
<1>17. (<<>> \o <<>>) \o <<>> = Upto(0)
  BY DEF Upto
<1>18. OutPart
  BY <1>1, <1>8, <1>14, <1>15, <1>16, <1>17, Zenon DEF OutPart
<1>19. Line = <<>> /\ Lines = <<>>
  BY <1>2, <1>4, NoPart, Zenon DEF Line, Lines
<1>20. Tty!Init
  BY <1>1, <1>19, LinesAre, Zenon DEF Tty!Init
<1>. QED  BY <1>6, <1>10, <1>12, <1>13, <1>18, <1>20, Zenon DEF Parts

\* Every step keeps the parts and is one of LineInput or none.
LEMMA NextParts == Parts /\ [Next]_vars => Parts' /\ Advance
<1>. SUFFICES ASSUME Parts, [Next]_vars PROVE Parts' /\ Advance
  OBVIOUS
<1>1. CASE UNCHANGED vars
  <2>1. /\ UNCHANGED <<t, got, killed>> /\ cons' = cons /\ got' = got /\ lock' = lock
        /\ UNCHANGED <<tx, fifo, written, sent>> /\ UNCHANGED <<rhr, irq, intr, panic, typed>>
    BY <1>1, Zenon DEF vars
  <2>2. lock' \in Procs \cup {None}
    BY <2>1, Zenon DEF Parts, RestPart
  <2>. QED  BY <2>1, <2>2, CallsSame, OutSame, RestSame, AdvanceNot, Zenon DEF Parts
<1>2. ASSUME NEW c \in Calls, \/ c[2] = "read" /\ ReadCall(c[1], c[3])
                              \/ c[2] = "write" /\ WriteCall(c[1], c[3])
      PROVE  Parts' /\ Advance
  <2>1. c[1] \in Procs /\ c[3] \in Nat
    BY ConsoleAssumption
  <2>. QED  BY <1>2, <2>1, ReadCallKeeps, WriteCallKeeps, Zenon
<1>3. ASSUME NEW p \in Procs, Step(p) \/ ReadFault(p) \/ Kill(p)
      PROVE  Parts' /\ Advance
  BY <1>3, ReadWaitKeeps, ReadEofKeeps, ReadCharKeeps, ReadDoneKeeps, WriteCharKeeps, WriteFullKeeps,
     ReadFaultKeeps, KillKeeps, Zenon DEF Step
<1>4. CASE Handler \/ Send \/ \E c \in Typed : Type(c)
  BY <1>4, InputKeeps, TransmitKeeps, SendKeeps, TypeKeeps, Zenon DEF Handler
<1>. QED  BY <1>1, <1>2, <1>3, <1>4, Zenon DEF Next

\* The console's buffers stay consistent: cons.r, cons.w and cons.e follow each other
\* also after they have wrapped, nobody sleeps in consoleread() while there is input,
\* and what consolewrite() was given is sent in order and once, whatever is echoed.
THEOREM ConsoleCorrect == Spec => []ConsoleInv
<1>1. Init => Parts
  BY InitParts, Zenon
<1>2. Parts /\ [Next]_vars => Parts'
  BY NextParts
<1>3. Parts => ConsoleInv
  BY PartsAre, Zenon
<1>. QED  BY <1>1, <1>2, <1>3, PTL DEF Spec

\* The circular buffer with its three indices implements line input: consoleintr() and
\* consoleread() do to cons.buf what LineInput does to its two sequences.
THEOREM LinesInOrderTheorem == Spec => LinesInOrder
<1>1. Init => Parts /\ Tty!Init
  BY InitParts, Zenon
<1>2. Parts /\ [Next]_vars => Parts'
  BY NextParts
<1>3. Parts /\ [Next]_vars => [Tty!Next]_Tty!vars
  BY NextParts, Zenon DEF Advance
<1>. QED  BY <1>1, <1>2, <1>3, PTL DEF Spec, LinesInOrder, Tty!Spec

\* wakeup() is never lost: a sleeping reader has nothing to read and was not killed.
THEOREM NoLostWakeupTheorem == Spec => []NoLostWakeup
<1>1. ConsoleInv => NoLostWakeup
  BY Zenon DEF ConsoleInv
<1>. QED  BY <1>1, ConsoleCorrect, PTL

\* What is written comes out in order and once.
THEOREM OutputInOrderTheorem == Spec => []OutputInOrder
<1>1. ConsoleInv => OutputInOrder
  BY Zenon DEF ConsoleInv
<1>. QED  BY <1>1, ConsoleCorrect, PTL

=============================================================================
