---------------------------- MODULE MallocProofs ----------------------------
(***************************************************************************)
(* Proofs about module Malloc, for any heap, any size of a header and any  *)
(* requests: malloc() and free() keep the heap tiled and the free list     *)
(* sorted and joined, and malloc() fails only when nothing is left.        *)
(***************************************************************************)
EXTENDS Malloc, TLAPS

-----------------------------------------------------------------------------
(* Units.                                                                  *)

\* Addresses are numbers.
LEMMA UnitsAre == ASSUME NEW a \in Units PROVE a \in Int
  BY MallocAssumption DEF Units

\* The quotient that is rounded up.
LEMMA RoundedUp ==
  ASSUME NEW n \in Nat, NEW h \in Nat \ {0}
  PROVE  /\ (n + h - 1) \div h \in Nat /\ ((n + h - 1) \div h) * h >= n
         /\ ((n + h - 1) \div h) * h \in Nat /\ ((n + h - 1) \div h) * h <= n + h - 1
<1>. DEFINE a == n + h - 1
            q == a \div h
            r == a % h
<1>1. a \in Nat
  OBVIOUS
<1>. HIDE DEF a
<1>2. q \in Nat /\ r \in 0 .. h - 1 /\ a = h * q + r
  BY <1>1
<1>3. q * h = h * q /\ q * h \in Nat
  BY <1>2
<1>. DEFINE m == q * h
<1>4. m \in Nat /\ a = m + r
  BY <1>2, <1>3
<1>. HIDE DEF m, r, q
<1>5. m >= n /\ m <= n + h - 1
  BY <1>2, <1>4 DEF a
<1>. QED  BY <1>2, <1>4, <1>5 DEF m, q, a

\* A request in units: a header, and room for the bytes.
LEMMA UnitsEnough ==
  ASSUME NEW n \in Requests
  PROVE  n \in Nat /\ nunits(n) \in Nat /\ nunits(n) >= 1 /\ (nunits(n) - 1) * HDR >= n
<1>1. n \in Nat /\ HDR \in Nat \ {0}
  BY MallocAssumption
<1>. DEFINE q == (n + HDR - 1) \div HDR
<1>2. q \in Nat /\ q * HDR >= n
  BY <1>1, RoundedUp
<1>3. nunits(n) = q + 1
  BY DEF nunits
<1>. HIDE DEF q
<1>4. q + 1 \in Nat /\ q + 1 >= 1 /\ (q + 1) - 1 = q
  BY <1>2
<1>. QED  BY <1>1, <1>2, <1>3, <1>4

\* A multiple of h, divided by h.
LEMMA Quotient ==
  ASSUME NEW c \in Nat, NEW h \in Nat \ {0}
  PROVE  (c * h) \div h = c
<1>. DEFINE x == c * h
            q == x \div h
            r == x % h
<1>1. x \in Nat /\ x = h * c
  OBVIOUS
<1>. HIDE DEF x
<1>2. q \in Nat /\ r \in 0 .. h - 1 /\ x = h * q + r
  BY <1>1
<1>. HIDE DEF q, r
<1>3. h * c = h * q + r
  BY <1>1, <1>2
<1>4. ASSUME c > q PROVE FALSE
  <2>1. h * c >= h * (q + 1) /\ h * (q + 1) = h * q + h
    BY <1>2, <1>4
  <2>. QED  BY <1>2, <1>3, <2>1
<1>5. ASSUME c < q PROVE FALSE
  <2>1. h * q >= h * (c + 1) /\ h * (c + 1) = h * c + h
    BY <1>2, <1>5
  <2>. QED  BY <1>2, <1>3, <2>1
<1>6. q = c
  BY <1>2, <1>4, <1>5
<1>. QED  BY <1>6 DEF q, x

\* What a request makes morecore() ask for still is that many units as an int.
LEMMA AskedIs ==
  ASSUME NEW n \in Requests
  PROVE  Asked(nunits(n)) = CoreUnits(nunits(n)) /\ CoreUnits(nunits(n)) \in Nat
<1>1. n \in Nat /\ n + 2 * HDR <= INT /\ HDR \in Nat \ {0} /\ INT \in Nat /\ MINCORE \in Nat /\ MINCORE * HDR < INT
  BY MallocAssumption
<1>. DEFINE q == (n + HDR - 1) \div HDR
            c == CoreUnits(nunits(n))
            x == c * HDR
<1>2. q \in Nat /\ q * HDR \in Nat /\ q * HDR <= n + HDR - 1 /\ nunits(n) = q + 1
  <2>1. q \in Nat /\ q * HDR \in Nat /\ q * HDR <= n + HDR - 1
    BY <1>1, RoundedUp, Zenon
  <2>2. nunits(n) = q + 1
    BY Zenon DEF nunits
  <2>. QED  BY <2>1, <2>2, Zenon
<1>. HIDE DEF q
<1>3. (q + 1) * HDR = q * HDR + HDR
  BY <1>1, <1>2
<1>4. (q + 1) * HDR < INT
  BY <1>1, <1>2, <1>3
<1>5. c \in Nat /\ c \in {q + 1, MINCORE}
  BY <1>1, <1>2 DEF CoreUnits
<1>. HIDE DEF c
<1>6. x \in Nat /\ x < INT
  BY <1>1, <1>4, <1>5
<1>. HIDE DEF x
<1>7. ToInt(x) = x
  BY <1>1, <1>6 DEF ToInt
<1>8. x \div HDR = c
  BY <1>1, <1>5, Quotient DEF x
<1>. QED  BY <1>5, <1>7, <1>8 DEF Asked, x, c

-----------------------------------------------------------------------------
(* Blocks tile an arena A; sizes are s.                                    *)

\* The headers, the units that a block covers, and a tiling: blocks in order, without gaps in the arena.
Heads(s) == {a \in Units : s[a] # 0}
Covered(s, u) == \E a \in Heads(s) : a <= u /\ u < a + s[a]
Tiles(s, A) ==
  /\ s \in [Units -> Nat] /\ A \subseteq 1 .. HEAP
  /\ \A a, b \in Heads(s) : a < b => a + s[a] <= b
  /\ \A u \in Int : u \in A <=> Covered(s, u)

\* Headers are where their blocks begin.
LEMMA HeadsAre ==
  ASSUME NEW s, NEW A, Tiles(s, A), NEW a \in Heads(s)
  PROVE  /\ a \in Int /\ a \in Units /\ a \in A /\ a >= 1 /\ a <= HEAP /\ s[a] \in Nat /\ s[a] > 0
         /\ \A u \in Int : a <= u /\ u < a + s[a] => u \in A /\ u <= HEAP
<1>1. a \in Int /\ a \in Units /\ s[a] \in Nat /\ s[a] > 0
  BY MallocAssumption DEF Heads, Units, Tiles
<1>2. ASSUME NEW u \in Int, a <= u, u < a + s[a] PROVE u \in A /\ u <= HEAP
  <2>1. Covered(s, u)
    BY <1>2, Zenon DEF Covered
  <2>2. u \in A /\ u \in 1 .. HEAP
    BY <2>1, Zenon DEF Tiles
  <2>. QED  BY <2>2, MallocAssumption
<1>3. a <= a /\ a < a + s[a]
  BY <1>1
<1>4. a \in A /\ a \in 1 .. HEAP
  BY <1>1, <1>2, <1>3, Zenon DEF Tiles
<1>5. a >= 1 /\ a <= HEAP
  BY <1>4, MallocAssumption
<1>. QED  BY <1>1, <1>2, <1>4, <1>5, Zenon

\* The base is no block.
LEMMA BaseIsNone ==
  ASSUME NEW s, NEW A, Tiles(s, A)
  PROVE  base \in Units /\ base \notin Heads(s) /\ s[base] = 0
<1>1. base \in Units
  BY MallocAssumption DEF base, Units
<1>2. base \notin Heads(s)
  <2>. SUFFICES ASSUME base \in Heads(s) PROVE FALSE
    OBVIOUS
  <2>1. base >= 1
    BY HeadsAre, Zenon
  <2>. QED  BY <2>1 DEF base
<1>. QED  BY <1>1, <1>2, Zenon DEF Heads

\* b, which begins where a ends, becomes part of a.
Joined(s, a, b) == [s EXCEPT ![a] = s[a] + s[b], ![b] = 0]

\* Two blocks that touch become one: the arena stays tiled.
LEMMA JoinTiles ==
  ASSUME NEW s, NEW A, Tiles(s, A), NEW a \in Heads(s), NEW b \in Heads(s), a + s[a] = b
  PROVE  /\ Tiles(Joined(s, a, b), A) /\ Heads(Joined(s, a, b)) = Heads(s) \ {b} /\ a # b
         /\ Joined(s, a, b)[a] = s[a] + s[b]
         /\ \A c \in Units \ {a, b} : Joined(s, a, b)[c] = s[c]
<1>. DEFINE z == Joined(s, a, b)
<1>1. /\ a \in Units /\ b \in Units /\ a \in Int /\ b \in Int /\ s[a] \in Nat /\ s[b] \in Nat /\ s[a] > 0 /\ s[b] > 0
      /\ s \in [Units -> Nat]
  BY HeadsAre, Zenon DEF Tiles
<1>2. a < b /\ a # b /\ s[a] + s[b] \in Nat /\ s[a] + s[b] # 0 /\ 0 \in Nat /\ a + (s[a] + s[b]) = b + s[b]
  BY <1>1
<1>3. z \in [Units -> Nat] /\ z[a] = s[a] + s[b] /\ z[b] = 0 /\ \A c \in Units \ {a, b} : z[c] = s[c]
  BY <1>1, <1>2, Zenon DEF Joined
<1>. HIDE DEF z
<1>4. Heads(z) = Heads(s) \ {b}
  BY <1>1, <1>2, <1>3, Zenon DEF Heads
<1>5. ASSUME NEW c \in Heads(z), NEW d \in Heads(z), c < d PROVE c + z[c] <= d
  <2>1. c \in Heads(s) /\ d \in Heads(s) /\ c # b /\ d # b /\ c \in Units
    BY <1>4, Zenon DEF Heads
  <2>2. c + s[c] <= d
    BY <1>5, <2>1, Zenon DEF Tiles
  <2>3. CASE c = a
    <3>1. d \in Int
      BY <2>1, HeadsAre, Zenon
    <3>2. b < d
      BY <1>1, <2>1, <2>2, <2>3, <3>1
    <3>3. b + s[b] <= d
      BY <2>1, <3>2, Zenon DEF Tiles
    <3>. QED  BY <1>2, <1>3, <2>3, <3>3, Zenon
  <2>4. CASE c # a
    BY <1>3, <2>1, <2>2, <2>4, Zenon
  <2>. QED  BY <2>3, <2>4, Zenon
<1>6. ASSUME NEW u \in Int PROVE Covered(s, u) <=> Covered(z, u)
  <2>1. ASSUME NEW c \in Heads(s), c <= u, u < c + s[c] PROVE Covered(z, u)
    <3>1. CASE c = a \/ c = b
      <4>1. a <= u /\ u < a + z[a]
        BY <1>1, <1>2, <1>3, <2>1, <3>1
      <4>2. a \in Heads(z)
        BY <1>2, <1>4, Zenon
      <4>. QED  BY <4>1, <4>2, Zenon DEF Covered
    <3>2. CASE c # a /\ c # b
      <4>1. c \in Heads(z) /\ z[c] = s[c]
        BY <1>3, <1>4, <3>2, Zenon DEF Heads
      <4>. QED  BY <2>1, <4>1, Zenon DEF Covered
    <3>. QED  BY <3>1, <3>2, Zenon
  <2>2. ASSUME NEW c \in Heads(z), c <= u, u < c + z[c] PROVE Covered(s, u)
    <3>1. CASE c = a
      <4>1. (a <= u /\ u < a + s[a]) \/ (b <= u /\ u < b + s[b])
        BY <1>1, <1>2, <1>3, <2>2, <3>1
      <4>. QED  BY <4>1, Zenon DEF Covered
    <3>2. CASE c # a
      <4>1. c \in Heads(s) /\ z[c] = s[c]
        BY <1>3, <1>4, <3>2, Zenon DEF Heads
      <4>. QED  BY <2>2, <4>1, Zenon DEF Covered
    <3>. QED  BY <3>1, <3>2, Zenon
  <2>. QED  BY <2>1, <2>2, Zenon DEF Covered
<1>7. Tiles(z, A)
  BY <1>3, <1>5, <1>6, Zenon DEF Tiles
<1>. QED  BY <1>2, <1>3, <1>4, <1>7, Zenon DEF z

\* The last n units of a become a block of their own.
Cut(s, a, n) == [s EXCEPT ![a] = s[a] - n, ![a + s[a] - n] = n]

\* A block is cut in two: the arena stays tiled.
LEMMA CutTiles ==
  ASSUME NEW s, NEW A, Tiles(s, A), NEW a \in Heads(s), NEW n \in Nat, n > 0, n < s[a], NEW q, q = a + s[a] - n
  PROVE  /\ Tiles(Cut(s, a, n), A) /\ Heads(Cut(s, a, n)) = Heads(s) \cup {q} /\ q \notin Heads(s)
         /\ q \in Units /\ q # base
         /\ Cut(s, a, n)[a] = s[a] - n /\ Cut(s, a, n)[q] = n
         /\ \A c \in Units \ {a, q} : Cut(s, a, n)[c] = s[c]
<1>. DEFINE z == Cut(s, a, n)
<1>1. /\ a \in Units /\ a \in Int /\ a >= 1 /\ s[a] \in Nat /\ s[a] > 0 /\ s \in [Units -> Nat]
  BY HeadsAre, Zenon DEF Tiles
<1>2. /\ q \in Int /\ a < q /\ a <= q /\ q < a + s[a] /\ q # a /\ s[a] - n \in Nat /\ s[a] - n # 0 /\ n # 0
      /\ q + n = a + s[a] /\ a + (s[a] - n) = q /\ q >= 1
  BY <1>1
<1>3. q \in Units /\ q # base
  <2>1. q <= HEAP
    BY <1>2, HeadsAre, Zenon
  <2>. QED  BY <1>2, <2>1, MallocAssumption DEF Units, base
<1>4. q \notin Heads(s)
  <2>. SUFFICES ASSUME q \in Heads(s) PROVE FALSE
    OBVIOUS
  <2>1. a + s[a] <= q
    BY <1>2, Zenon DEF Tiles
  <2>. QED  BY <1>1, <1>2, <2>1
<1>5. z \in [Units -> Nat] /\ z[a] = s[a] - n /\ z[q] = n /\ \A c \in Units \ {a, q} : z[c] = s[c]
  BY <1>1, <1>2, <1>3, Zenon DEF Cut
<1>. HIDE DEF z
<1>6. Heads(z) = Heads(s) \cup {q}
  BY <1>1, <1>2, <1>3, <1>5, Zenon DEF Heads
<1>7. ASSUME NEW c \in Heads(z), NEW d \in Heads(z), c < d PROVE c + z[c] <= d
  <2>1. c \in Heads(s) \cup {q} /\ d \in Heads(s) \cup {q}
    BY <1>6, Zenon
  <2>2. c \in Int /\ d \in Int /\ c \in Units
    BY <1>2, <1>3, <2>1, HeadsAre, Zenon
  <2>3. CASE c = q
    <3>1. d \in Heads(s) /\ a < d
      BY <1>1, <1>2, <1>7, <2>1, <2>2, <2>3
    <3>2. a + s[a] <= d
      BY <3>1, Zenon DEF Tiles
    <3>. QED  BY <1>2, <1>5, <2>3, <3>2, Zenon
  <2>4. CASE c = a
    <3>1. CASE d = q
      BY <1>2, <1>5, <2>2, <2>4, <3>1
    <3>2. CASE d # q
      <4>1. a + s[a] <= d
        BY <1>7, <2>1, <2>4, <3>2, Zenon DEF Tiles
      <4>. QED  BY <1>1, <1>2, <1>5, <2>2, <2>4, <4>1
    <3>. QED  BY <3>1, <3>2, Zenon
  <2>5. CASE c # q /\ c # a
    <3>1. c \in Heads(s) /\ z[c] = s[c] /\ s[c] \in Nat
      BY <1>1, <1>5, <2>1, <2>2, <2>5, Zenon
    <3>2. CASE d = q
      <4>1. c < a \/ c > a
        BY <1>1, <2>2, <2>5
      <4>2. ~(c > a)
        <5>. SUFFICES ASSUME a < c PROVE FALSE
          BY <1>1, <2>2
        <5>1. a + s[a] <= c
          BY <3>1, Zenon DEF Tiles
        <5>. QED  BY <1>1, <1>2, <1>7, <2>2, <3>2, <5>1
      <4>3. c + s[c] <= a
        BY <3>1, <4>1, <4>2, Zenon DEF Tiles
      <4>. QED  BY <1>1, <1>2, <2>2, <3>1, <3>2, <4>3
    <3>3. CASE d # q
      BY <1>7, <2>1, <3>1, <3>3, Zenon DEF Tiles
    <3>. QED  BY <3>2, <3>3, Zenon
  <2>. QED  BY <2>3, <2>4, <2>5, Zenon
<1>8. ASSUME NEW u \in Int PROVE Covered(s, u) <=> Covered(z, u)
  <2>1. ASSUME NEW c \in Heads(s), c <= u, u < c + s[c] PROVE Covered(z, u)
    <3>1. CASE c = a
      <4>1. (a <= u /\ u < a + z[a]) \/ (q <= u /\ u < q + z[q])
        BY <1>1, <1>2, <1>5, <2>1, <3>1
      <4>2. a \in Heads(z) /\ q \in Heads(z)
        BY <1>6, Zenon
      <4>. QED  BY <4>1, <4>2, Zenon DEF Covered
    <3>2. CASE c # a
      <4>1. c \in Heads(z) /\ z[c] = s[c]
        BY <1>4, <1>5, <1>6, <3>2, Zenon DEF Heads
      <4>. QED  BY <2>1, <4>1, Zenon DEF Covered
    <3>. QED  BY <3>1, <3>2, Zenon
  <2>2. ASSUME NEW c \in Heads(z), c <= u, u < c + z[c] PROVE Covered(s, u)
    <3>1. CASE c = a \/ c = q
      <4>1. a <= u /\ u < a + s[a]
        BY <1>1, <1>2, <1>5, <2>2, <3>1
      <4>. QED  BY <4>1, Zenon DEF Covered
    <3>2. CASE c # a /\ c # q
      <4>1. c \in Heads(s) /\ z[c] = s[c]
        BY <1>5, <1>6, <3>2, Zenon DEF Heads
      <4>. QED  BY <2>2, <4>1, Zenon DEF Covered
    <3>. QED  BY <3>1, <3>2, Zenon
  <2>. QED  BY <2>1, <2>2, Zenon DEF Covered
<1>9. Tiles(z, A)
  BY <1>5, <1>7, <1>8, Zenon DEF Tiles
<1>. QED  BY <1>3, <1>4, <1>5, <1>6, <1>9, Zenon DEF z

\* n units from k on, above all blocks.
Above(k, n) == k .. k + n - 1
RoomAbove(A, k, n) == k \in Nat /\ n \in Nat /\ k >= 1 /\ n > 0 /\ k + n <= HEAP + 1 /\ A \subseteq 1 .. k - 1
Grown(s, k, n) == [s EXCEPT ![k] = n]

\* A new block above all others: the larger arena is tiled.
LEMMA GrowTiles ==
  ASSUME NEW s, NEW A, Tiles(s, A), NEW k, NEW n, RoomAbove(A, k, n)
  PROVE  /\ Tiles(Grown(s, k, n), A \cup Above(k, n)) /\ Heads(Grown(s, k, n)) = Heads(s) \cup {k} /\ k \notin Heads(s)
         /\ k \in Units /\ k # base
         /\ \A c \in Units \ {k} : Grown(s, k, n)[c] = s[c]
<1>. DEFINE z == Grown(s, k, n)
            B == A \cup Above(k, n)
<1>1. k \in Units /\ k # base /\ n # 0 /\ k \in Int /\ k \in Nat /\ n \in Nat /\ k >= 1 /\ n > 0 /\ k + n <= HEAP + 1
      /\ s \in [Units -> Nat] /\ HEAP \in Nat
  BY MallocAssumption DEF Units, base, Tiles, RoomAbove
<1>2. ASSUME NEW c \in Heads(s) PROVE c \in Int /\ s[c] \in Nat /\ c < k /\ c + s[c] <= k /\ c \in Units
  <2>1. c \in Int /\ s[c] \in Nat /\ s[c] > 0 /\ c \in Units /\ \A u \in Int : c <= u /\ u < c + s[c] => u \in A
    BY HeadsAre, Zenon
  <2>. DEFINE u == c + s[c] - 1
  <2>2. u \in Int /\ c <= u /\ u < c + s[c]
    BY <2>1
  <2>3. u \in 1 .. k - 1
    BY <2>1, <2>2, Zenon DEF RoomAbove
  <2>. QED  BY <1>1, <2>1, <2>3
<1>3. k \notin Heads(s)
  <2>. SUFFICES ASSUME k \in Heads(s) PROVE FALSE
    OBVIOUS
  <2>1. k < k
    BY <1>2, Zenon
  <2>. QED  BY <1>1, <2>1
<1>4. z \in [Units -> Nat] /\ z[k] = n /\ \A c \in Units \ {k} : z[c] = s[c]
  BY <1>1, Zenon DEF Grown
<1>. HIDE DEF z
<1>5. Heads(z) = Heads(s) \cup {k}
  BY <1>1, <1>4, Zenon DEF Heads
<1>6. ASSUME NEW c \in Heads(z), NEW d \in Heads(z), c < d PROVE c + z[c] <= d
  <2>1. c \in Heads(s) /\ c # k
    <3>. SUFFICES ASSUME c = k PROVE FALSE
      BY <1>5, Zenon
    <3>1. d = k \/ (d \in Int /\ d < k)
      BY <1>2, <1>5, Zenon
    <3>. QED  BY <1>1, <1>6, <3>1
  <2>2. z[c] = s[c] /\ c + s[c] <= k
    BY <1>2, <1>4, <2>1, Zenon
  <2>3. CASE d = k
    BY <2>2, <2>3, Zenon
  <2>4. CASE d # k
    BY <1>5, <1>6, <2>1, <2>2, <2>4, Zenon DEF Tiles
  <2>. QED  BY <2>3, <2>4, Zenon
<1>7. ASSUME NEW u \in Int PROVE u \in B <=> Covered(z, u)
  <2>1. u \in A <=> Covered(s, u)
    BY Zenon DEF Tiles
  <2>2. u \in Above(k, n) <=> k <= u /\ u < k + n
    BY <1>1 DEF Above
  <2>3. ASSUME NEW c \in Heads(s) PROVE c \in Heads(z) /\ z[c] = s[c]
    BY <1>2, <1>3, <1>4, <1>5, Zenon
  <2>4. k \in Heads(z)
    BY <1>5, Zenon
  <2>5. ASSUME u \in B PROVE Covered(z, u)
    BY <1>4, <2>1, <2>2, <2>3, <2>4, <2>5, Zenon DEF Covered
  <2>6. ASSUME Covered(z, u) PROVE u \in B
    BY <1>4, <1>5, <2>1, <2>2, <2>3, <2>6, Zenon DEF Covered
  <2>. QED  BY <2>5, <2>6, Zenon
<1>8. B \subseteq 1 .. HEAP
  <2>1. Above(k, n) \subseteq 1 .. HEAP
    BY <1>1 DEF Above
  <2>. QED  BY <2>1, Zenon DEF Tiles
<1>. HIDE DEF B
<1>9. Tiles(z, B)
  BY <1>4, <1>6, <1>7, <1>8, Zenon DEF Tiles
<1>. QED  BY <1>1, <1>3, <1>4, <1>5, <1>9, Zenon DEF z, B

-----------------------------------------------------------------------------
(* The free list: blocks L, in order through base.                         *)

\* Every block leads to the next higher one, the last one to base.
Ordered(pt, L) ==
  \A a \in L \cup {base} :
    \/ pt[a] \in L /\ pt[a] > a /\ \A b \in L : ~(a < b /\ b < pt[a])
    \/ pt[a] = base /\ \A b \in L : b <= a
BlockSet(L) == \A b \in L : b \in Int /\ b > base

\* Elements of the list, and base, compared.
LEMMA Placed ==
  ASSUME NEW L, BlockSet(L), NEW a \in L \cup {base}
  PROVE  a \in Int /\ a >= base /\ base \in Int /\ (a > base => a \in L) /\ base \notin L
<1>1. base \in Int /\ base >= base /\ ~(base > base)
  BY DEF base
<1>2. a \in Int /\ a >= base /\ (a > base => a \in L)
  <2>1. CASE a = base
    BY <1>1, <2>1, Zenon
  <2>2. CASE a \in L
    <3>1. a \in Int /\ a > base
      BY <2>2, Zenon DEF BlockSet
    <3>2. a >= base
      BY <1>1, <3>1
    <3>. QED  BY <2>2, <3>1, <3>2, Zenon
  <2>. QED  BY <2>1, <2>2, Zenon
<1>3. base \notin L
  BY <1>1, Zenon DEF BlockSet
<1>. QED  BY <1>1, <1>2, <1>3, Zenon

\* A block c goes after p when it lies between p and the block after p.
LEMMA AddOrdered ==
  ASSUME NEW L, BlockSet(L), NEW pt, Ordered(pt, L), NEW p \in L \cup {base}, NEW c \in Int, c \notin L, c > p,
         pt[p] = base \/ c < pt[p],
         NEW z, z[p] = c, z[c] = pt[p], \A a \in (L \cup {base}) \ {p} : z[a] = pt[a]
  PROVE  Ordered(z, L \cup {c}) /\ BlockSet(L \cup {c})
<1>. DEFINE M == L \cup {c}
<1>1. p \in Int /\ p >= base /\ base \in Int /\ base \notin L
  BY Placed, Zenon
<1>2. c > base
  BY <1>1
<1>3. BlockSet(M)
  BY <1>2, Zenon DEF BlockSet
<1>4. ASSUME NEW b \in L PROVE b \in Int /\ b > base /\ (b <= p \/ b > c) /\ (pt[p] = base => b <= p)
  <2>1. b \in Int /\ b > base
    BY Zenon DEF BlockSet
  <2>2. CASE pt[p] = base
    <3>1. b <= p
      <4>1. CASE pt[p] \in L
        BY <1>1, <2>2, <4>1, Zenon
      <4>2. CASE pt[p] \notin L
        BY <4>2, Zenon DEF Ordered
      <4>. QED  BY <4>1, <4>2, Zenon
    <3>. QED  BY <2>1, <3>1, Zenon
  <2>3. CASE pt[p] # base
    <3>1. pt[p] \in L /\ ~(p < b /\ b < pt[p]) /\ c < pt[p]
      BY <2>3, Zenon DEF Ordered
    <3>2. pt[p] \in Int
      BY <3>1, Zenon DEF BlockSet
    <3>3. b <= p \/ b > c
      BY <1>1, <2>1, <3>1, <3>2
    <3>. QED  BY <2>1, <2>3, <3>3, Zenon
  <2>. QED  BY <2>2, <2>3, Zenon
<1>5. ASSUME NEW a \in M \cup {base}
      PROVE \/ z[a] \in M /\ z[a] > a /\ \A b \in M : ~(a < b /\ b < z[a])
            \/ z[a] = base /\ \A b \in M : b <= a
  <2>1. CASE a = p
    <3>1. ASSUME NEW b \in M PROVE ~(p < b /\ b < c)
      <4>1. CASE b = c
        BY <4>1
      <4>2. CASE b \in L
        <5>1. b \in Int /\ (b <= p \/ b > c)
          BY <1>4, <4>2, Zenon
        <5>. QED  BY <1>1, <5>1
      <4>. QED  BY <4>1, <4>2, Zenon
    <3>. QED  BY <2>1, <3>1, Zenon
  <2>2. CASE a = c
    <3>1. CASE pt[p] = base
      <4>1. ASSUME NEW b \in M PROVE b <= c
        <5>1. b = c \/ (b \in Int /\ b <= p)
          BY <1>4, <3>1, Zenon
        <5>. QED  BY <1>1, <5>1
      <4>. QED  BY <2>2, <3>1, <4>1, Zenon
    <3>2. CASE pt[p] # base
      <4>1. pt[p] \in L /\ c < pt[p] /\ \A b \in L : ~(p < b /\ b < pt[p])
        BY <3>2, Zenon DEF Ordered
      <4>2. pt[p] \in Int
        BY <4>1, Zenon DEF BlockSet
      <4>3. ASSUME NEW b \in M PROVE ~(c < b /\ b < pt[p])
        <5>1. b = c \/ (b \in Int /\ ~(p < b /\ b < pt[p]))
          BY <1>4, <4>1, Zenon
        <5>. QED  BY <1>1, <4>2, <5>1
      <4>4. pt[p] > c
        BY <4>1, <4>2
      <4>. QED  BY <2>2, <4>1, <4>3, <4>4, Zenon
    <3>. QED  BY <3>1, <3>2, Zenon
  <2>3. CASE a # p /\ a # c
    <3>1. a \in L \cup {base} /\ z[a] = pt[a]
      BY <2>3, Zenon
    <3>2. a \in Int /\ a >= base /\ (a > base => a \in L)
      BY <3>1, Placed, Zenon
    <3>3. p > base => p \in L
      BY Placed, Zenon
    <3>4. CASE pt[a] = base /\ \A b \in L : b <= a
      <4>1. a > p
        <5>. SUFFICES ASSUME ~(a > p) PROVE FALSE
          OBVIOUS
        <5>1. p > base /\ p > a
          BY <1>1, <2>3, <3>2
        <5>2. p <= a
          BY <3>3, <3>4, <5>1, Zenon
        <5>. QED  BY <1>1, <3>2, <5>1, <5>2
      <4>2. a > base
        BY <1>1, <3>2, <4>1
      <4>3. a <= p \/ a > c
        BY <1>4, <3>2, <4>2, Zenon
      <4>4. c <= a
        BY <1>1, <3>2, <4>1, <4>3
      <4>. QED  BY <3>1, <3>4, <4>4, Zenon
    <3>5. CASE pt[a] \in L /\ pt[a] > a /\ \A b \in L : ~(a < b /\ b < pt[a])
      <4>1. ~(a < c /\ c < pt[a])
        <5>. SUFFICES ASSUME a < c, c < pt[a] PROVE FALSE
          OBVIOUS
        <5>1. pt[a] \in Int
          BY <3>5, Zenon DEF BlockSet
        <5>2. CASE a < p
          <6>1. p > base /\ p < pt[a]
            BY <1>1, <3>2, <5>1, <5>2
          <6>. QED  BY <3>3, <3>5, <5>2, <6>1, Zenon
        <5>3. CASE ~(a < p)
          <6>1. a > p /\ a > base
            BY <1>1, <2>3, <3>2, <5>3
          <6>2. a <= p \/ a > c
            BY <1>4, <3>2, <6>1, Zenon
          <6>. QED  BY <1>1, <3>2, <6>1, <6>2
        <5>. QED  BY <5>2, <5>3, Zenon
      <4>. QED  BY <3>1, <3>5, <4>1, Zenon
    <3>6. \/ pt[a] \in L /\ pt[a] > a /\ \A b \in L : ~(a < b /\ b < pt[a])
          \/ pt[a] = base /\ \A b \in L : b <= a
      BY <3>1, Zenon DEF Ordered
    <3>. QED  BY <3>4, <3>5, <3>6, Zenon
  <2>. QED  BY <2>1, <2>2, <2>3, Zenon
<1>6. Ordered(z, M)
  BY <1>5, Zenon DEF Ordered
<1>. QED  BY <1>3, <1>6, Zenon

\* The block p after prev leaves the list.
LEMMA RemoveOrdered ==
  ASSUME NEW L, BlockSet(L), NEW pt, Ordered(pt, L), NEW prev \in L \cup {base}, NEW p, p = pt[prev], p # base,
         NEW z, z[prev] = pt[p], \A a \in ((L \ {p}) \cup {base}) \ {prev} : z[a] = pt[a]
  PROVE  /\ Ordered(z, L \ {p}) /\ BlockSet(L \ {p}) /\ p \in L /\ p > prev /\ prev \in (L \ {p}) \cup {base}
         /\ p \in Int /\ prev \in Int
<1>. DEFINE M == L \ {p}
<1>1. prev \in Int /\ prev >= base /\ base \in Int /\ base \notin L /\ (prev > base => prev \in L)
  BY Placed, Zenon
<1>2. p \in L /\ p > prev /\ \A b \in L : ~(prev < b /\ b < p)
  BY Zenon DEF Ordered
<1>3. p \in Int /\ p > base
  BY <1>2, Zenon DEF BlockSet
<1>4. prev # p
  BY <1>1, <1>2, <1>3
<1>5. BlockSet(M)
  BY Zenon DEF BlockSet
<1>6. ASSUME NEW a \in M \cup {base}
      PROVE \/ z[a] \in M /\ z[a] > a /\ \A b \in M : ~(a < b /\ b < z[a])
            \/ z[a] = base /\ \A b \in M : b <= a
  <2>1. CASE a = prev
    <3>1. \/ pt[p] \in L /\ pt[p] > p /\ \A b \in L : ~(p < b /\ b < pt[p])
          \/ pt[p] = base /\ \A b \in L : b <= p
      BY <1>2, Zenon DEF Ordered
    <3>2. CASE pt[p] = base /\ \A b \in L : b <= p
      <4>1. ASSUME NEW b \in M PROVE b <= prev
        <5>1. b \in Int /\ b <= p /\ b # p /\ ~(prev < b /\ b < p)
          BY <1>2, <3>2, Zenon DEF BlockSet
        <5>. QED  BY <1>1, <1>3, <5>1
      <4>. QED  BY <2>1, <3>2, <4>1, Zenon
    <3>3. CASE pt[p] \in L /\ pt[p] > p /\ \A b \in L : ~(p < b /\ b < pt[p])
      <4>1. pt[p] \in Int
        BY <3>3, Zenon DEF BlockSet
      <4>2. pt[p] # p /\ pt[p] > prev
        BY <1>1, <1>2, <1>3, <3>3, <4>1
      <4>3. ASSUME NEW b \in M PROVE ~(prev < b /\ b < pt[p])
        <5>1. b \in Int /\ b # p /\ ~(prev < b /\ b < p) /\ ~(p < b /\ b < pt[p])
          BY <1>2, <3>3, Zenon DEF BlockSet
        <5>. QED  BY <1>1, <1>3, <4>1, <5>1
      <4>. QED  BY <2>1, <3>3, <4>2, <4>3, Zenon
    <3>. QED  BY <3>1, <3>2, <3>3, Zenon
  <2>2. CASE a # prev
    <3>1. a \in L \cup {base} /\ a # p /\ z[a] = pt[a]
      BY <1>2, <2>2, <1>1, Zenon
    <3>2. a \in Int /\ a >= base /\ (a > base => a \in L)
      BY <3>1, Placed, Zenon
    <3>3. pt[a] # p
      <4>. SUFFICES ASSUME pt[a] = p PROVE FALSE
        OBVIOUS
      <4>1. p > a /\ \A b \in L : ~(a < b /\ b < p)
        BY <1>1, <1>2, <3>1, Zenon DEF Ordered
      <4>2. CASE a < prev
        <5>1. prev > base /\ prev < p
          BY <1>1, <1>2, <1>3, <3>2, <4>2
        <5>. QED  BY <1>1, <4>1, <4>2, <5>1, Zenon
      <4>3. CASE ~(a < prev)
        <5>1. prev < a /\ a > base /\ a < p
          BY <1>1, <1>3, <2>2, <3>2, <4>1, <4>3
        <5>. QED  BY <1>2, <3>2, <5>1, Zenon
      <4>. QED  BY <4>2, <4>3, Zenon
    <3>. QED  BY <3>1, <3>3, Zenon DEF Ordered
  <2>. QED  BY <2>1, <2>2, Zenon
<1>7. Ordered(z, M)
  BY <1>6, Zenon DEF Ordered
<1>. QED  BY <1>1, <1>2, <1>3, <1>4, <1>5, <1>7, Zenon

-----------------------------------------------------------------------------
(* The heap: sizes s, links pt, arena A; the blocks D are not on the free  *)
(* list, and no block of the list but those of X touches the next one.     *)

\* No block of L ends where the next one begins.
Apart(s, pt, L) == \A a \in L : pt[a] # base => a + s[a] # pt[a]
Heap(s, pt, A, D, X) ==
  /\ Tiles(s, A) /\ pt \in [Units -> Units] /\ D \subseteq Heads(s)
  /\ Ordered(pt, Heads(s) \ D) /\ Apart(s, pt, (Heads(s) \ D) \ X)

\* Headers are above base.
LEMMA HeapBlocks ==
  ASSUME NEW s, NEW pt, NEW A, NEW D, NEW X, Heap(s, pt, A, D, X)
  PROVE  BlockSet(Heads(s)) /\ BlockSet(Heads(s) \ D) /\ base \notin Heads(s) /\ base \in Units /\ s[base] = 0
<1>1. Tiles(s, A)
  BY Zenon DEF Heap
<1>2. ASSUME NEW a \in Heads(s) PROVE a \in Int /\ a > base
  <2>1. a \in Int /\ a >= 1
    BY <1>1, HeadsAre, Zenon
  <2>. QED  BY <2>1 DEF base
<1>3. base \notin Heads(s) /\ base \in Units /\ s[base] = 0
  BY <1>1, BaseIsNone, Zenon
<1>. QED  BY <1>2, <1>3, Zenon DEF BlockSet

\* The block after one of the list begins beyond it.
LEMMA Beyond ==
  ASSUME NEW s, NEW pt, NEW A, NEW D, NEW X, Heap(s, pt, A, D, X), NEW a \in (Heads(s) \ D) \cup {base}, pt[a] # base
  PROVE  /\ pt[a] \in Heads(s) \ D /\ pt[a] > a /\ a + s[a] <= pt[a] /\ \A b \in Heads(s) \ D : ~(a < b /\ b < pt[a])
         /\ a \in Int /\ pt[a] \in Int /\ s[a] \in Nat
<1>1. pt[a] \in Heads(s) \ D /\ pt[a] > a /\ \A b \in Heads(s) \ D : ~(a < b /\ b < pt[a])
  BY Zenon DEF Heap, Ordered
<1>2. BlockSet(Heads(s) \ D) /\ base \notin Heads(s) /\ s[base] = 0
  BY HeapBlocks, Zenon
<1>3. a \in Int /\ pt[a] \in Int /\ pt[a] > base /\ base \in Int
  BY <1>1, <1>2, Placed, Zenon DEF BlockSet
<1>4. s[a] \in Nat /\ a + s[a] <= pt[a]
  <2>1. CASE a = base
    BY <1>2, <1>3, <2>1 DEF base
  <2>2. CASE a \in Heads(s)
    <3>1. s[a] \in Nat
      BY <2>2, HeadsAre, Zenon DEF Heap
    <3>2. a < pt[a]
      BY <1>1, <1>3
    <3>3. a + s[a] <= pt[a]
      BY <1>1, <2>2, <3>2, Zenon DEF Heap, Tiles
    <3>. QED  BY <3>1, <3>3, Zenon
  <2>. QED  BY <2>1, <2>2, Zenon
<1>. QED  BY <1>1, <1>3, <1>4, Zenon

\* The block c, which was not on the list, goes after p.
LEMMA AddBlock ==
  ASSUME NEW s, NEW pt, NEW A, NEW D, Heap(s, pt, A, D, {}), NEW p \in (Heads(s) \ D) \cup {base}, NEW c \in D, c > p,
         pt[p] = base \/ c < pt[p]
  PROVE  Heap(s, [pt EXCEPT ![p] = c, ![c] = pt[p]], A, D \ {c}, {p, c})
<1>. DEFINE z == [pt EXCEPT ![p] = c, ![c] = pt[p]]
            L == Heads(s) \ D
            M == Heads(s) \ (D \ {c})
<1>1. BlockSet(Heads(s)) /\ BlockSet(L) /\ base \notin Heads(s) /\ base \in Units
  BY HeapBlocks, Zenon
<1>2. c \in Heads(s) /\ c \notin L /\ M = L \cup {c} /\ c # p /\ c # base
  BY <1>1, Zenon DEF Heap
<1>3. c \in Int /\ c \in Units /\ p \in Units /\ L \subseteq Units
  BY <1>1, <1>2, Zenon DEF Heads, BlockSet
<1>4. z \in [Units -> Units] /\ z[p] = c /\ z[c] = pt[p] /\ \A a \in Units \ {p, c} : z[a] = pt[a]
  BY <1>2, <1>3, Zenon DEF Heap
<1>. HIDE DEF z
<1>5. \A a \in (L \cup {base}) \ {p} : z[a] = pt[a]
  BY <1>1, <1>2, <1>3, <1>4, Zenon
<1>6. Ordered(pt, L) /\ Apart(s, pt, L \ {}) /\ Tiles(s, A) /\ D \subseteq Heads(s)
  BY Zenon DEF Heap
<1>. HIDE DEF L
<1>7. Ordered(z, L \cup {c})
  BY <1>1, <1>2, <1>3, <1>4, <1>5, <1>6, AddOrdered, Zenon DEF L
<1>8. Apart(s, z, M \ {p, c})
  BY <1>2, <1>5, <1>6, Zenon DEF Apart
<1>. QED  BY <1>2, <1>4, <1>6, <1>7, <1>8, Zenon DEF Heap, z

\* b, which was on the list, is no block any more.
LosesHead(t, s, b, D) == Heads(t) = Heads(s) \ {b} /\ b \in Heads(s) \ D

\* The block b after a is joined to a.
LEMMA JoinBlock ==
  ASSUME NEW s, NEW pt, NEW A, NEW D, NEW X, Heap(s, pt, A, D, X), NEW a \in Heads(s) \ D, NEW b, b = pt[a], b # base,
         b \notin X, a + s[a] = b
  PROVE  /\ Heap(Joined(s, a, b), [pt EXCEPT ![a] = pt[b], ![b] = base], A, D, X \ {a})
         /\ LosesHead(Joined(s, a, b), s, b, D)
<1>. DEFINE z == [pt EXCEPT ![a] = pt[b], ![b] = base]
            t == Joined(s, a, b)
            L == Heads(s) \ D
            M == Heads(t) \ D
<1>1. BlockSet(L) /\ base \notin Heads(s) /\ base \in Units
  BY HeapBlocks, Zenon
<1>2. b \in Heads(s) \ D /\ a \in Int /\ b \in Int /\ s[a] \in Nat
  <2>1. a \in (Heads(s) \ D) \cup {base} /\ pt[a] # base
    BY Zenon
  <2>2. pt[a] \in Heads(s) \ D /\ a \in Int /\ pt[a] \in Int /\ s[a] \in Nat
    BY <2>1, Beyond, Zenon
  <2>. QED  BY <2>2, Zenon
<1>3. /\ Tiles(t, A) /\ Heads(t) = Heads(s) \ {b} /\ a # b /\ t[a] = s[a] + s[b]
      /\ \A c \in Units \ {a, b} : t[c] = s[c]
  <2>1. Tiles(s, A) /\ a \in Heads(s) /\ b \in Heads(s) /\ a + s[a] = b
    BY <1>2, Zenon DEF Heap
  <2>. HIDE DEF t
  <2>2. /\ Tiles(Joined(s, a, b), A) /\ Heads(Joined(s, a, b)) = Heads(s) \ {b} /\ a # b
        /\ Joined(s, a, b)[a] = s[a] + s[b] /\ \A c \in Units \ {a, b} : Joined(s, a, b)[c] = s[c]
    BY <2>1, JoinTiles
  <2>. QED  BY <2>2, Zenon DEF t
<1>4. a \in Units /\ b \in Units /\ L \subseteq Units /\ M = L \ {b} /\ s[b] \in Nat
  BY <1>2, <1>3, Zenon DEF Heads, Heap, Tiles
<1>5. z \in [Units -> Units] /\ z[a] = pt[b] /\ z[b] = base /\ \A c \in Units \ {a, b} : z[c] = pt[c]
  BY <1>1, <1>3, <1>4, Zenon DEF Heap
<1>. HIDE DEF z, t
<1>6. \A c \in ((L \ {b}) \cup {base}) \ {a} : z[c] = pt[c]
  BY <1>1, <1>2, <1>4, <1>5, Zenon
<1>7. Ordered(pt, L) /\ Apart(s, pt, L \ X) /\ D \subseteq Heads(s)
  BY Zenon DEF Heap
<1>8. Ordered(z, L \ {b})
  <2>. HIDE DEF L
  <2>1. a \in L \cup {base}
    BY Zenon DEF L
  <2>. QED  BY <1>1, <1>5, <1>6, <1>7, <2>1, RemoveOrdered, Zenon
<1>9. ASSUME NEW c \in M \ (X \ {a}), z[c] # base PROVE c + t[c] # z[c]
  <2>1. CASE c = a
    <3>1. b + s[b] # pt[b]
      BY <1>2, <1>5, <1>7, <1>9, <2>1, Zenon DEF Apart
    <3>2. a + t[a] = b + s[b]
      BY <1>2, <1>3, <1>4
    <3>. QED  BY <1>5, <2>1, <3>1, <3>2, Zenon
  <2>2. CASE c # a
    <3>1. c \in L \ X /\ c \in Units \ {a, b}
      BY <1>4, <1>9, <2>2, Zenon
    <3>. QED  BY <1>3, <1>5, <1>7, <1>9, <3>1, Zenon DEF Apart
  <2>. QED  BY <2>1, <2>2, Zenon
<1>10. Apart(t, z, M \ (X \ {a}))
  BY <1>9, Zenon DEF Apart
<1>11. D \subseteq Heads(t)
  BY <1>2, <1>3, <1>7, Zenon
<1>12. LosesHead(t, s, b, D)
  BY <1>2, <1>3, Zenon DEF LosesHead
<1>. QED  BY <1>3, <1>4, <1>5, <1>8, <1>10, <1>11, <1>12, Zenon DEF Heap, z, t

\* A block that does not touch the one after it is no exception.
LEMMA LeaveBlock ==
  ASSUME NEW s, NEW pt, NEW A, NEW D, NEW X, Heap(s, pt, A, D, X), NEW a, pt[a] = base \/ a + s[a] # pt[a]
  PROVE  Heap(s, pt, A, D, X \ {a})
  BY Zenon DEF Heap, Apart

\* The block p leaves the list whole.
LEMMA TakeBlock ==
  ASSUME NEW s, NEW pt, NEW A, NEW D, Heap(s, pt, A, D, {}), NEW prev \in (Heads(s) \ D) \cup {base}, NEW p, p = pt[prev],
         p # base
  PROVE  /\ Heap(s, [pt EXCEPT ![prev] = pt[p], ![p] = base], A, D \cup {p}, {})
         /\ p \in Heads(s) \ D /\ p # prev
<1>. DEFINE z == [pt EXCEPT ![prev] = pt[p], ![p] = base]
            L == Heads(s) \ D
            M == Heads(s) \ (D \cup {p})
<1>1. BlockSet(L) /\ base \notin Heads(s) /\ base \in Units
  BY HeapBlocks, Zenon
<1>2. p \in L /\ p > prev /\ prev + s[prev] <= p /\ prev \in Int /\ p \in Int /\ s[prev] \in Nat
  BY Beyond, Zenon
<1>3. prev # p /\ prev \in Units /\ p \in Units /\ M = L \ {p} /\ L \subseteq Units
  <2>1. prev # p
    BY <1>2
  <2>. QED  BY <1>1, <1>2, <2>1, Zenon DEF Heads
<1>4. z \in [Units -> Units] /\ z[prev] = pt[p] /\ \A c \in Units \ {prev, p} : z[c] = pt[c]
  BY <1>1, <1>3, Zenon DEF Heap
<1>. HIDE DEF z
<1>5. \A c \in ((L \ {p}) \cup {base}) \ {prev} : z[c] = pt[c]
  BY <1>1, <1>2, <1>3, <1>4, Zenon
<1>6. Ordered(pt, L) /\ Apart(s, pt, L \ {}) /\ D \subseteq Heads(s) /\ Tiles(s, A)
  BY Zenon DEF Heap
<1>7. Ordered(z, L \ {p})
  <2>. HIDE DEF L
  <2>1. prev \in L \cup {base}
    BY Zenon DEF L
  <2>. QED  BY <1>1, <1>4, <1>5, <1>6, <2>1, RemoveOrdered, Zenon
<1>8. ASSUME NEW c \in M \ {}, z[c] # base PROVE c + s[c] # z[c]
  <2>1. CASE c = prev
    <3>1. pt[p] > p /\ pt[p] \in Int
      BY <1>2, <1>4, <1>8, <2>1, Beyond, Zenon
    <3>2. prev + s[prev] # pt[p]
      BY <1>2, <3>1
    <3>. QED  BY <1>4, <2>1, <3>2, Zenon
  <2>2. CASE c # prev
    <3>1. c \in L \ {} /\ z[c] = pt[c]
      BY <1>3, <1>5, <2>2, Zenon
    <3>. QED  BY <1>6, <1>8, <3>1, Zenon DEF Apart
  <2>. QED  BY <2>1, <2>2, Zenon
<1>. QED  BY <1>2, <1>3, <1>4, <1>6, <1>7, <1>8, Zenon DEF Heap, Apart, z

\* The tail of the block p is cut off.
LEMMA CutBlock ==
  ASSUME NEW s, NEW pt, NEW A, NEW D, Heap(s, pt, A, D, {}), NEW p \in Heads(s) \ D, NEW n \in Nat, n > 0, n < s[p],
         NEW q, q = p + s[p] - n
  PROVE  Heap(Cut(s, p, n), pt, A, D \cup {q}, {})
<1>. DEFINE t == Cut(s, p, n)
            L == Heads(s) \ D
            M == Heads(t) \ (D \cup {q})
<1>1. /\ Tiles(t, A) /\ Heads(t) = Heads(s) \cup {q} /\ q \notin Heads(s) /\ t[p] = s[p] - n
      /\ \A c \in Units \ {p, q} : t[c] = s[c]
  <2>1. Tiles(s, A) /\ p \in Heads(s)
    BY Zenon DEF Heap
  <2>. HIDE DEF t
  <2>2. /\ Tiles(Cut(s, p, n), A) /\ Heads(Cut(s, p, n)) = Heads(s) \cup {q} /\ q \notin Heads(s)
        /\ Cut(s, p, n)[p] = s[p] - n /\ \A c \in Units \ {p, q} : Cut(s, p, n)[c] = s[c]
    BY <2>1, CutTiles
  <2>. QED  BY <2>2, Zenon DEF t
<1>. HIDE DEF t
<1>2. M = L /\ D \cup {q} \subseteq Heads(t)
  BY <1>1, Zenon DEF Heap
<1>3. ASSUME NEW c \in L, pt[c] # base PROVE c + t[c] # pt[c]
  <2>1. c + s[c] <= pt[c] /\ c \in Int /\ pt[c] \in Int /\ s[c] \in Nat
    BY <1>3, Beyond, Zenon
  <2>2. CASE c = p
    BY <1>1, <2>1, <2>2
  <2>3. CASE c # p
    <3>1. c \in Units \ {p, q}
      BY <1>1, <2>3, Zenon DEF Heads
    <3>2. t[c] = s[c] /\ c \in L \ {}
      BY <1>1, <3>1, Zenon
    <3>. QED  BY <1>3, <3>2, Zenon DEF Heap, Apart
  <2>. QED  BY <2>2, <2>3, Zenon
<1>. QED  BY <1>1, <1>2, <1>3, Zenon DEF Heap, Apart, t

\* A new block k above the heap, which is not on the list.
LEMMA GrowBlock ==
  ASSUME NEW s, NEW pt, NEW A, NEW D, Heap(s, pt, A, D, {}), NEW k, NEW n, RoomAbove(A, k, n)
  PROVE  Heap(Grown(s, k, n), pt, A \cup Above(k, n), D \cup {k}, {})
<1>. DEFINE t == Grown(s, k, n)
            B == A \cup Above(k, n)
            L == Heads(s) \ D
            M == Heads(t) \ (D \cup {k})
<1>1. /\ Tiles(t, B) /\ Heads(t) = Heads(s) \cup {k} /\ k \notin Heads(s) /\ \A c \in Units \ {k} : t[c] = s[c]
  <2>1. Tiles(s, A)
    BY Zenon DEF Heap
  <2>. HIDE DEF t, B
  <2>2. Tiles(Grown(s, k, n), A \cup Above(k, n))
    BY <2>1, GrowTiles, Zenon
  <2>3. Heads(Grown(s, k, n)) = Heads(s) \cup {k}
    BY <2>1, GrowTiles, Zenon
  <2>4. k \notin Heads(s)
    BY <2>1, GrowTiles, Zenon
  <2>5. \A c \in Units \ {k} : Grown(s, k, n)[c] = s[c]
    BY <2>1, Zenon DEF Grown, Tiles
  <2>. QED  BY <2>2, <2>3, <2>4, <2>5, Zenon DEF t, B
<1>. HIDE DEF t, B
<1>2. M = L /\ D \cup {k} \subseteq Heads(t)
  BY <1>1, Zenon DEF Heap
<1>3. ASSUME NEW c \in L, pt[c] # base PROVE c + t[c] # pt[c]
  <2>1. c \in Units \ {k} /\ c \in L \ {}
    BY <1>1, Zenon DEF Heads
  <2>2. t[c] = s[c]
    BY <1>1, <2>1, Zenon
  <2>. QED  BY <1>3, <2>1, <2>2, Zenon DEF Heap, Apart
<1>. QED  BY <1>1, <1>2, <1>3, Zenon DEF Heap, Apart, t, B

-----------------------------------------------------------------------------
(* The heap in the state.                                                  *)

\* HeapTiled and ListSorted, of any sizes and links.
Span(s, a) == a .. a + s[a] - 1
TiledBy(s, A) ==
  UNION {Span(s, a) : a \in Heads(s)} = A /\ \A a, b \in Heads(s) : a # b => Span(s, a) \cap Span(s, b) = {}
Sorted(s, pt, L) ==
  \A a \in L \cup {base} :
    \/ pt[a] \in L /\ pt[a] > a + s[a] /\ \A b \in L : ~(a < b /\ b < pt[a])
    \/ pt[a] = base /\ \A b \in L : b <= a

\* The units of a block.
LEMMA SpanIs ==
  ASSUME NEW s \in [Units -> Nat], NEW a \in Heads(s)
  PROVE  a \in Int /\ s[a] \in Nat /\ s[a] > 0 /\ \A u : u \in Span(s, a) <=> u \in Int /\ a <= u /\ u < a + s[a]
<1>1. a \in Int /\ s[a] \in Nat /\ s[a] > 0
  BY MallocAssumption DEF Heads, Units
<1>. QED  BY <1>1 DEF Span

\* Blocks that tile an arena, in order or as disjoint sets.
LEMMA TilesAre ==
  ASSUME NEW s \in [Units -> Nat], NEW A, A \subseteq 1 .. HEAP
  PROVE  Tiles(s, A) <=> TiledBy(s, A)
<1>1. \A u \in A : u \in Int
  BY MallocAssumption
<1>2. ASSUME NEW u PROVE u \in UNION {Span(s, a) : a \in Heads(s)} <=> u \in Int /\ Covered(s, u)
  BY SpanIs, Zenon DEF Covered
<1>3. (\A u \in Int : u \in A <=> Covered(s, u)) <=> UNION {Span(s, a) : a \in Heads(s)} = A
  BY <1>1, <1>2, Zenon
<1>4. ASSUME NEW a \in Heads(s), NEW b \in Heads(s), a < b
      PROVE a + s[a] <= b <=> Span(s, a) \cap Span(s, b) = {}
  <2>1. a \in Int /\ b \in Int /\ s[a] \in Nat /\ s[b] \in Nat /\ s[b] > 0
    BY SpanIs, Zenon
  <2>2. ASSUME a + s[a] <= b, NEW u, u \in Span(s, a), u \in Span(s, b) PROVE FALSE
    <3>1. u \in Int /\ u < a + s[a] /\ b <= u
      BY <2>2, SpanIs, Zenon
    <3>. QED  BY <2>1, <2>2, <3>1
  <2>3. ASSUME ~(a + s[a] <= b) PROVE b \in Span(s, a) /\ b \in Span(s, b)
    <3>1. a <= b /\ b < a + s[a] /\ b <= b /\ b < b + s[b]
      BY <1>4, <2>1, <2>3
    <3>. QED  BY <2>1, <3>1, SpanIs, Zenon
  <2>. QED  BY <2>2, <2>3, Zenon
<1>5. ASSUME NEW a \in Heads(s), NEW b \in Heads(s), a # b PROVE a < b \/ b < a
  <2>1. a \in Int /\ b \in Int
    BY SpanIs, Zenon
  <2>. QED  BY <1>5, <2>1
<1>6. ASSUME NEW a \in Heads(s), NEW b \in Heads(s), a < b PROVE a # b
  <2>1. a \in Int /\ b \in Int
    BY SpanIs, Zenon
  <2>. QED  BY <1>6, <2>1
<1>7. (\A a, b \in Heads(s) : a < b => a + s[a] <= b) <=> (\A a, b \in Heads(s) : a # b => Span(s, a) \cap Span(s, b) = {})
  <2>1. ASSUME \A a, b \in Heads(s) : a < b => a + s[a] <= b, NEW a \in Heads(s), NEW b \in Heads(s), a # b
        PROVE Span(s, a) \cap Span(s, b) = {}
    <3>1. CASE a < b
      BY <1>4, <2>1, <3>1, Zenon
    <3>2. CASE b < a
      <4>1. Span(s, b) \cap Span(s, a) = {}
        BY <1>4, <2>1, <3>2, Zenon
      <4>. QED  BY <4>1, Zenon
    <3>. QED  BY <1>5, <2>1, <3>1, <3>2, Zenon
  <2>2. ASSUME \A a, b \in Heads(s) : a # b => Span(s, a) \cap Span(s, b) = {}, NEW a \in Heads(s), NEW b \in Heads(s), a < b
        PROVE a + s[a] <= b
    BY <1>4, <1>6, <2>2, Zenon
  <2>. QED  BY <2>1, <2>2, Zenon
<1>. QED  BY <1>3, <1>7, Zenon DEF Tiles, TiledBy

\* A list in order whose blocks do not touch.
LEMMA HeapIs ==
  ASSUME NEW s \in [Units -> Nat], NEW pt \in [Units -> Units], NEW A, A \subseteq 1 .. HEAP, NEW D, D \subseteq Heads(s)
  PROVE  Heap(s, pt, A, D, {}) <=> TiledBy(s, A) /\ Sorted(s, pt, Heads(s) \ D)
<1>. DEFINE L == Heads(s) \ D
<1>1. ASSUME Heap(s, pt, A, D, {}), NEW a \in L \cup {base}
      PROVE \/ pt[a] \in L /\ pt[a] > a + s[a] /\ \A b \in L : ~(a < b /\ b < pt[a])
            \/ pt[a] = base /\ \A b \in L : b <= a
  <2>1. CASE pt[a] = base
    <3>1. base \notin L
      BY <1>1, HeapBlocks, Zenon
    <3>. QED  BY <1>1, <2>1, <3>1, Zenon DEF Heap, Ordered
  <2>2. CASE pt[a] # base
    <3>1. /\ pt[a] \in L /\ pt[a] > a /\ a + s[a] <= pt[a] /\ \A b \in L : ~(a < b /\ b < pt[a])
          /\ a \in Int /\ pt[a] \in Int /\ s[a] \in Nat
      BY <1>1, <2>2, Beyond, Zenon
    <3>2. a + s[a] # pt[a]
      <4>1. CASE a = base
        <5>1. s[a] = 0
          BY <1>1, <4>1, HeapBlocks, Zenon
        <5>. QED  BY <3>1, <5>1
      <4>2. CASE a \in L \ {}
        BY <1>1, <2>2, <4>2, Zenon DEF Heap, Apart
      <4>. QED  BY <4>1, <4>2, Zenon
    <3>3. pt[a] > a + s[a]
      BY <3>1, <3>2
    <3>. QED  BY <3>1, <3>3, Zenon
  <2>. QED  BY <2>1, <2>2, Zenon
<1>2. ASSUME TiledBy(s, A), Sorted(s, pt, L) PROVE Ordered(pt, L) /\ Apart(s, pt, L \ {})
  <2>1. ASSUME NEW a \in L \cup {base}
        PROVE /\ \/ pt[a] \in L /\ pt[a] > a /\ \A b \in L : ~(a < b /\ b < pt[a])
                 \/ pt[a] = base /\ \A b \in L : b <= a
              /\ pt[a] # base => a + s[a] # pt[a]
    <3>1. a \in Int /\ s[a] \in Nat
      <4>1. a \in Units
        <5>1. base \in Units
          BY MallocAssumption DEF base, Units
        <5>. QED  BY <5>1, Zenon DEF Heads
      <4>. QED  BY <4>1, UnitsAre, Zenon
    <3>2. CASE pt[a] = base /\ \A b \in L : b <= a
      BY <3>2, Zenon
    <3>3. CASE pt[a] \in L /\ pt[a] > a + s[a] /\ \A b \in L : ~(a < b /\ b < pt[a])
      <4>1. pt[a] \in Int
        BY <3>3, UnitsAre, Zenon DEF Heads
      <4>2. pt[a] > a /\ a + s[a] # pt[a]
        BY <3>1, <3>3, <4>1
      <4>. QED  BY <3>3, <4>2, Zenon
    <3>. QED  BY <1>2, <3>2, <3>3, Zenon DEF Sorted
  <2>. QED  BY <2>1, Zenon DEF Ordered, Apart
<1>3. Tiles(s, A) <=> TiledBy(s, A)
  BY TilesAre, Zenon
<1>4. ASSUME Heap(s, pt, A, D, {}) PROVE TiledBy(s, A) /\ Sorted(s, pt, L)
  BY <1>1, <1>3, <1>4, Zenon DEF Sorted, Heap
<1>5. ASSUME TiledBy(s, A), Sorted(s, pt, L) PROVE Heap(s, pt, A, D, {})
  BY <1>2, <1>3, <1>5, Zenon DEF Heap
<1>. QED  BY <1>4, <1>5, Zenon

\* The blocks that are not on the free list.
Taken == DOMAIN live \cup Returned

\* The arena lies below the break.
LEMMA ArenaFits == ASSUME NEW k \in 1 .. HEAP + 1, NEW A, A \subseteq 1 .. k - 1 PROVE A \subseteq 1 .. HEAP
  BY MallocAssumption

\* What the invariant says of the heap.
LEMMA Unpack ==
  ASSUME HeapInv, freep # Null
  PROVE  /\ Heap(size, ptr, arena, Taken, {}) /\ FreeBlocks = Heads(size) \ Taken /\ Headers = Heads(size)
         /\ freep \in FreeBlocks \cup {base} /\ Taken \subseteq Heads(size)
<1>1. size \in [Units -> Nat] /\ ptr \in [Units -> Units]
  BY Zenon DEF HeapInv, HeapTypeOK
<1>2. arena \subseteq 1 .. HEAP
  BY ArenaFits, Zenon DEF HeapInv, HeapTypeOK
<1>3. Headers = Heads(size) /\ FreeBlocks = Heads(size) \ Taken
  BY Zenon DEF Headers, Heads, FreeBlocks, Taken
<1>4. TiledBy(size, arena) /\ Taken \subseteq Heads(size)
  BY <1>3, Zenon DEF HeapInv, HeapTiled, TiledBy, Block, Span, Taken
<1>5. Sorted(size, ptr, Heads(size) \ Taken) /\ freep \in FreeBlocks \cup {base}
  BY <1>3, Zenon DEF HeapInv, ListSorted, Sorted
<1>6. Heap(size, ptr, arena, Taken, {})
  BY <1>1, <1>2, <1>4, <1>5, HeapIs, Zenon
<1>. QED  BY <1>3, <1>4, <1>5, <1>6, Zenon

\* And what gives it back.
LEMMA Pack ==
  ASSUME HeapTypeOK', freep' # Null, Heap(size', ptr', arena', Taken', {}),
         freep' \in (Heads(size') \ Taken') \cup {base}, RoomEnough', PassedSmall',
         op'.at = "search" => /\ op'.prevp \in (Heads(size') \ Taken') \cup {base}
                              /\ op'.p = ptr'[op'.prevp] /\ op'.bytes \in Requests,
         op'.at = "free" => op'.p \in (Heads(size') \ Taken') \cup {base} /\ op'.bp \notin DOMAIN live'
  PROVE  HeapInv'
<1>1. size' \in [Units -> Nat] /\ ptr' \in [Units -> Units]
  BY Zenon DEF HeapTypeOK
<1>2. arena' \subseteq 1 .. HEAP
  <2>1. brk' \in 1 .. HEAP + 1 /\ arena' \subseteq 1 .. brk' - 1
    BY Zenon DEF HeapTypeOK
  <2>. QED  BY <2>1, ArenaFits, Zenon
<1>3. Headers' = Heads(size') /\ FreeBlocks' = Heads(size') \ Taken'
  BY Zenon DEF Headers, Heads, FreeBlocks, Taken
<1>4. Taken' \subseteq Heads(size')
  BY Zenon DEF Heap
<1>5. TiledBy(size', arena') /\ Sorted(size', ptr', Heads(size') \ Taken')
  BY <1>1, <1>2, <1>4, HeapIs, Zenon
<1>6. HeapTiled'
  BY <1>3, <1>4, <1>5, Zenon DEF HeapTiled, TiledBy, Block, Span, Taken
<1>7. ListSorted'
  BY <1>3, <1>5, Zenon DEF ListSorted, Sorted
<1>8. CallPlaced'
  BY <1>3, Zenon DEF CallPlaced
<1>. QED  BY <1>6, <1>7, <1>8, Zenon DEF HeapInv

-----------------------------------------------------------------------------
(* The search: Behind(f, p, b) when b lies on the way round from f to p.   *)

\* b was met on the way.
Behind(f, p, b) == IF p > f THEN f < b /\ b < p ELSE f < b \/ b < p

\* Nothing is behind a search that begins.
LEMMA NothingBehind ==
  ASSUME NEW s, NEW pt, NEW A, NEW D, Heap(s, pt, A, D, {}), NEW f \in (Heads(s) \ D) \cup {base}, NEW b \in Heads(s) \ D
  PROVE  ~Behind(f, pt[f], b)
<1>. DEFINE L == Heads(s) \ D
            p == pt[f]
<1>1. BlockSet(L) /\ base \notin L
  BY HeapBlocks, Zenon
<1>2. f \in Int /\ f >= base /\ b \in Int /\ b > base /\ base \in Int
  BY <1>1, Placed, Zenon DEF BlockSet
<1>3. CASE p = base
  <2>1. b <= f
    BY <1>1, <1>3, Zenon DEF Heap, Ordered
  <2>. QED  BY <1>2, <1>3, <2>1 DEF Behind
<1>4. CASE p # base
  <2>1. p > f /\ p \in Int /\ ~(f < b /\ b < p)
    BY <1>4, Beyond, Zenon
  <2>. QED  BY <2>1, Zenon DEF Behind
<1>. QED  BY <1>3, <1>4, Zenon

\* A turn of the loop leaves p behind, and nothing else.
LEMMA OneBehind ==
  ASSUME NEW s, NEW pt, NEW A, NEW D, Heap(s, pt, A, D, {}), NEW f \in (Heads(s) \ D) \cup {base},
         NEW p \in (Heads(s) \ D) \cup {base}, p # f, NEW b \in Heads(s) \ D, Behind(f, pt[p], b)
  PROVE  Behind(f, p, b) \/ b = p
<1>. DEFINE L == Heads(s) \ D
            q == pt[p]
<1>1. BlockSet(L) /\ base \notin L
  BY HeapBlocks, Zenon
<1>2. /\ f \in Int /\ f >= base /\ p \in Int /\ p >= base /\ b \in Int /\ b > base /\ base \in Int
      /\ (f > base => f \in L)
  BY <1>1, Placed, Zenon DEF BlockSet
<1>3. CASE q = base
  <2>1. b <= p
    BY <1>1, <1>3, Zenon DEF Heap, Ordered
  <2>2. f < b
    BY <1>2, <1>3 DEF Behind
  <2>. QED  BY <1>2, <2>1, <2>2 DEF Behind
<1>4. CASE q # base
  <2>1. q > p /\ q \in Int /\ q \in L /\ \A c \in L : ~(p < c /\ c < q)
    BY <1>4, Beyond, Zenon
  <2>2. ~(p < b /\ b < q)
    BY <2>1, Zenon
  <2>3. ~(p < f /\ f < q)
    <3>. SUFFICES ASSUME p < f, f < q PROVE FALSE
      OBVIOUS
    <3>1. f > base
      BY <1>2
    <3>. QED  BY <1>2, <2>1, <3>1, Zenon
  <2>. HIDE DEF q
  <2>4. IF q > f THEN f < b /\ b < q ELSE f < b \/ b < q
    BY Zenon DEF Behind, q
  <2>. QED  BY <1>2, <2>1, <2>2, <2>3, <2>4 DEF Behind
<1>. QED  BY <1>3, <1>4, Zenon

-----------------------------------------------------------------------------
(* The actions.                                                            *)

\* The records of a call.
OpType == [at : {"idle", "search", "free"}, bytes : Requests \cup {-1}, prevp : Units, p : Units, bp : Units]

\* The call, when none is in progress.
LEMMA OpIdle == Idle \in OpType /\ Idle.at = "idle"
  BY MallocAssumption DEF Idle, OpType, base, Units

\* The call that begins to search after prev.
SearchOp(n, prev, q) == [Idle EXCEPT !.at = "search", !.bytes = n, !.prevp = prev, !.p = q]
IsSearch(o, n, prev, q) == o \in OpType /\ o.at = "search" /\ o.bytes = n /\ o.prevp = prev /\ o.p = q

\* Its fields.
LEMMA OpSearch ==
  ASSUME NEW n \in Requests, NEW prev \in Units, NEW q \in Units
  PROVE  IsSearch(SearchOp(n, prev, q), n, prev, q)
<1>1. base \in Units
  BY MallocAssumption DEF base, Units
<1>. QED  BY <1>1, Zenon DEF SearchOp, IsSearch, Idle, OpType

\* The fields of the call in progress.
LEMMA OpFields ==
  ASSUME HeapTypeOK
  PROVE  op \in OpType /\ op.prevp \in Units /\ op.p \in Units /\ op.bp \in Units /\ op.bytes \in Requests \cup {-1}
<1>1. op \in OpType
  BY Zenon DEF HeapTypeOK, OpType
<1>. QED  BY <1>1 DEF OpType

\* An unused list, an unused heap.
LEMMA EmptyHeap ==
  ASSUME HeapInv, freep = Null
  PROVE  DOMAIN live = {} /\ Taken = {} /\ Heads(size) = {} /\ op.at = "idle" /\ TiledBy(size, arena) /\ size[base] = 0
<1>1. Headers = {} /\ op.at = "idle" /\ Headers = Heads(size)
  BY Zenon DEF HeapInv, CallPlaced, Headers, Heads
<1>2. "idle" # "free"
  OBVIOUS
<1>3. Returned = {}
  BY <1>1, <1>2, Zenon DEF Returned
<1>4. DOMAIN live = {} /\ Taken = {}
  BY <1>1, <1>3, Zenon DEF HeapInv, HeapTiled, Taken
<1>5. TiledBy(size, arena)
  BY <1>1, Zenon DEF HeapInv, HeapTiled, TiledBy, Block, Span
<1>6. base \in Units
  BY MallocAssumption DEF base, Units
<1>7. size[base] = 0
  BY <1>1, <1>6, Zenon DEF Heads
<1>. QED  BY <1>1, <1>4, <1>5, <1>7, Zenon

\* A call to come returns no block.
LEMMA NotReturning == (op.at # "free" => Taken = DOMAIN live) /\ (op'.at # "free" => Taken' = DOMAIN live')
  BY Zenon DEF Taken, Returned

\* A search that begins at the free list's freep.
LEMMA SearchBegins ==
  ASSUME HeapTypeOK', freep' # Null, Heap(size', ptr', arena', DOMAIN live', {}),
         freep' \in (Heads(size') \ DOMAIN live') \cup {base}, RoomEnough',
         op'.at = "search", op'.prevp = freep', op'.p = ptr'[freep'], op'.bytes \in Requests
  PROVE  HeapInv'
<1>1. "search" # "free"
  OBVIOUS
<1>2. Taken' = DOMAIN live'
  BY <1>1, NotReturning, Zenon
<1>3. FreeBlocks' = Heads(size') \ DOMAIN live'
  BY <1>2, Zenon DEF FreeBlocks, Headers, Heads, Taken
<1>4. ASSUME NEW b \in FreeBlocks' PROVE ~Passed(b)'
  <2>1. ~Behind(freep', ptr'[freep'], b)
    BY <1>3, NothingBehind, Zenon
  <2>. QED  BY <2>1, Zenon DEF Passed, Behind
<1>5. PassedSmall'
  BY <1>4, Zenon DEF PassedSmall
<1>. QED  BY <1>1, <1>2, <1>5, Pack, Zenon

\* malloc() up to its loop.
LEMMA MallocStep == ASSUME HeapInv, NEW n \in Requests, Malloc(n) PROVE HeapInv'
<1>1. HeapTypeOK /\ size \in [Units -> Nat] /\ ptr \in [Units -> Units] /\ op.at = "idle" /\ base \in Units /\ "idle" # "free"
  <2>1. base \in Units /\ "idle" # "free"
    BY MallocAssumption DEF base, Units
  <2>. QED  BY <2>1, Zenon DEF HeapInv, HeapTypeOK, Malloc
<1>2. UNCHANGED <<brk, live, arena, gaps>>
  BY Zenon DEF Malloc
<1>3. /\ size' = size /\ ptr' \in [Units -> Units] /\ freep' # Null /\ freep' \in (Heads(size) \ DOMAIN live) \cup {base}
      /\ Heap(size, ptr', arena, DOMAIN live, {})
  <2>1. CASE freep = Null
    <3>1. DOMAIN live = {} /\ Heads(size) = {} /\ TiledBy(size, arena) /\ size[base] = 0
      BY <2>1, EmptyHeap, Zenon
    <3>2. ptr' = [ptr EXCEPT ![base] = base] /\ size' = [size EXCEPT ![base] = 0] /\ freep' = base
      BY <2>1, Zenon DEF Malloc
    <3>3. ptr' \in [Units -> Units] /\ ptr'[base] = base
      BY <1>1, <3>2, Zenon
    <3>4. size' = size
      BY <1>1, <3>1, <3>2
    <3>5. base # Null
      BY DEF base, Null
    <3>6. Tiles(size, arena)
      <4>1. arena \subseteq 1 .. HEAP
        BY <1>1, ArenaFits, Zenon DEF HeapTypeOK
      <4>. QED  BY <1>1, <3>1, <4>1, TilesAre, Zenon
    <3>7. Ordered(ptr', {}) /\ Apart(size, ptr', {})
      BY <3>3, Zenon DEF Ordered, Apart
    <3>8. Heap(size, ptr', arena, DOMAIN live, {})
      <4>1. Heads(size) \ DOMAIN live = {} /\ (Heads(size) \ DOMAIN live) \ {} = {} /\ DOMAIN live \subseteq Heads(size)
        BY <3>1, Zenon
      <4>. QED  BY <3>3, <3>6, <3>7, <4>1, Zenon DEF Heap
    <3>. QED  BY <3>2, <3>3, <3>4, <3>5, <3>8, Zenon
  <2>2. CASE freep # Null
    <3>1. ptr' = ptr /\ size' = size /\ freep' = freep
      BY <2>2, Zenon DEF Malloc
    <3>2. Taken = DOMAIN live
      BY <1>1, NotReturning, Zenon
    <3>. QED  BY <1>1, <2>2, <3>1, <3>2, Unpack, Zenon
  <2>. QED  BY <2>1, <2>2, Zenon
<1>4. freep' \in Units
  BY <1>1, <1>3, Zenon DEF Heads
<1>5. op' \in OpType /\ op'.at = "search" /\ op'.bytes = n /\ op'.prevp = freep' /\ op'.p = ptr'[freep']
  <2>1. op' = SearchOp(n, freep', ptr'[freep'])
    BY Zenon DEF Malloc, Searching, SearchOp
  <2>2. ptr'[freep'] \in Units
    BY <1>3, <1>4, Zenon
  <2>3. IsSearch(op', n, freep', ptr'[freep'])
    BY <1>4, <2>1, <2>2, OpSearch, Zenon
  <2>. QED  BY <2>3, Zenon DEF IsSearch
<1>6. HeapTypeOK'
  BY <1>1, <1>2, <1>3, <1>4, <1>5, Zenon DEF HeapTypeOK, OpType
<1>7. RoomEnough'
  BY <1>2, <1>3, Zenon DEF HeapInv, RoomEnough
<1>8. Heap(size', ptr', arena', DOMAIN live', {}) /\ freep' \in (Heads(size') \ DOMAIN live') \cup {base}
  BY <1>2, <1>3, Zenon
<1>. QED  BY <1>3, <1>5, <1>6, <1>7, <1>8, SearchBegins, Zenon

\* The list leads from one of its blocks to another.
LEMMA StaysOnList ==
  ASSUME NEW s, NEW pt, NEW A, NEW D, NEW X, Heap(s, pt, A, D, X), NEW a \in (Heads(s) \ D) \cup {base}
  PROVE  pt[a] \in (Heads(s) \ D) \cup {base}
  BY Zenon DEF Heap, Ordered

\* What the invariant says during malloc()'s loop.
LEMMA InSearch ==
  ASSUME HeapInv, op.at = "search"
  PROVE  /\ HeapTypeOK /\ freep # Null /\ Taken = DOMAIN live /\ Heap(size, ptr, arena, DOMAIN live, {})
         /\ FreeBlocks = Heads(size) \ DOMAIN live /\ DOMAIN live \subseteq Heads(size)
         /\ freep \in (Heads(size) \ DOMAIN live) \cup {base}
         /\ op.prevp \in (Heads(size) \ DOMAIN live) \cup {base} /\ op.p = ptr[op.prevp]
         /\ op.p \in (Heads(size) \ DOMAIN live) \cup {base} /\ op.bytes \in Requests
<1>1. HeapTypeOK /\ "search" # "idle" /\ "search" # "free"
  BY DEF HeapInv
<1>2. freep # Null
  BY <1>1, Zenon DEF HeapInv, CallPlaced
<1>3. Taken = DOMAIN live
  BY <1>1, NotReturning, Zenon
<1>4. /\ Heap(size, ptr, arena, DOMAIN live, {}) /\ FreeBlocks = Heads(size) \ DOMAIN live
      /\ DOMAIN live \subseteq Heads(size) /\ freep \in (Heads(size) \ DOMAIN live) \cup {base}
  BY <1>2, <1>3, Unpack, Zenon
<1>5. op.prevp \in (Heads(size) \ DOMAIN live) \cup {base} /\ op.p = ptr[op.prevp] /\ op.bytes \in Requests
  BY <1>4, Zenon DEF HeapInv, CallPlaced
<1>6. op.p \in (Heads(size) \ DOMAIN live) \cup {base}
  <2>1. ptr[op.prevp] \in (Heads(size) \ DOMAIN live) \cup {base}
    BY <1>4, <1>5, StaysOnList, Zenon
  <2>. QED  BY <1>5, <2>1, Zenon
<1>. QED  BY <1>1, <1>2, <1>3, <1>4, <1>5, <1>6, Zenon

\* The call returns.
LEMMA CallReturns ==
  ASSUME HeapTypeOK', freep' # Null, Heap(size', ptr', arena', DOMAIN live', {}),
         freep' \in (Heads(size') \ DOMAIN live') \cup {base}, RoomEnough', op' = Idle
  PROVE  HeapInv'
<1>1. op'.at = "idle" /\ "idle" # "free" /\ "idle" # "search"
  BY OpIdle
<1>2. Taken' = DOMAIN live'
  BY <1>1, NotReturning, Zenon
<1>3. PassedSmall'
  BY <1>1, Zenon DEF PassedSmall
<1>. QED  BY <1>1, <1>2, <1>3, Pack, Zenon

\* The program holds one block more, with room for what it asked for.
LEMMA HoldsMore ==
  ASSUME HeapTypeOK, RoomEnough, op.bytes \in Requests, NEW q \in Units, q \notin DOMAIN live, live' = Holding(q),
         size'[q] = nunits(op.bytes), \A a \in DOMAIN live : size'[a] = size[a]
  PROVE  /\ RoomEnough' /\ DOMAIN live' = DOMAIN live \cup {q} /\ DOMAIN live' \subseteq Units
         /\ \A a \in DOMAIN live' : live'[a] \in Requests
<1>1. DOMAIN live' = DOMAIN live \cup {q} /\ live'[q] = op.bytes /\ \A a \in DOMAIN live : live'[a] = live[a]
  BY Zenon DEF Holding
<1>2. (nunits(op.bytes) - 1) * HDR >= op.bytes
  BY UnitsEnough, Zenon
<1>3. ASSUME NEW a \in DOMAIN live' PROVE (size'[a] - 1) * HDR >= live'[a] /\ live'[a] \in Requests
  <2>1. CASE a = q
    BY <1>1, <1>2, <2>1, Zenon
  <2>2. CASE a \in DOMAIN live
    BY <1>1, <2>2, Zenon DEF RoomEnough, HeapTypeOK
  <2>. QED  BY <1>1, <2>1, <2>2, Zenon
<1>4. DOMAIN live' \subseteq Units
  BY <1>1, Zenon DEF HeapTypeOK
<1>. QED  BY <1>1, <1>3, <1>4, Zenon DEF RoomEnough

\* A block that fits is on the list.
LEMMA FitsOnList ==
  ASSUME HeapInv, Fits
  PROVE  /\ op.at = "search" /\ op.p \in Heads(size) \ DOMAIN live /\ op.p # base /\ nunits(op.bytes) \in Nat
         /\ nunits(op.bytes) > 0 /\ size[op.p] \in Nat /\ size[op.p] >= nunits(op.bytes)
<1>1. op.at = "search" /\ size[op.p] >= nunits(op.bytes)
  BY Zenon DEF Fits
<1>2. op.p \in (Heads(size) \ DOMAIN live) \cup {base} /\ op.bytes \in Requests /\ HeapTypeOK /\ Heap(size, ptr, arena, DOMAIN live, {})
  BY <1>1, InSearch, Zenon
<1>3. nunits(op.bytes) \in Nat /\ nunits(op.bytes) >= 1
  BY <1>2, UnitsEnough, Zenon
<1>4. size[base] = 0 /\ base \notin Heads(size)
  BY <1>2, HeapBlocks, Zenon
<1>5. op.p # base
  BY <1>1, <1>3, <1>4
<1>6. size[op.p] \in Nat
  BY <1>2, OpFields, Zenon DEF HeapTypeOK
<1>7. nunits(op.bytes) > 0
  BY <1>3
<1>. QED  BY <1>1, <1>2, <1>3, <1>4, <1>5, <1>6, <1>7, Zenon

\* The whole block goes to the program.
LEMMA TakeWholeStep == ASSUME HeapInv, TakeWhole PROVE HeapInv' /\ live' # live
<1>1. Fits /\ size[op.p] = nunits(op.bytes) /\ live' = Holding(op.p) /\ op' = Idle /\ freep' = op.prevp
  BY Zenon DEF TakeWhole
<1>2. ptr' = [ptr EXCEPT ![op.prevp] = ptr[op.p], ![op.p] = base] /\ UNCHANGED <<size, brk, arena, gaps>>
  BY Zenon DEF TakeWhole
<1>3. op.at = "search" /\ op.p \in Heads(size) \ DOMAIN live /\ op.p # base
  BY <1>1, FitsOnList, Zenon
<1>4. /\ HeapTypeOK /\ Heap(size, ptr, arena, DOMAIN live, {}) /\ op.prevp \in (Heads(size) \ DOMAIN live) \cup {base}
      /\ op.p = ptr[op.prevp] /\ op.bytes \in Requests
  BY <1>3, InSearch, Zenon
<1>5. /\ Heap(size, [ptr EXCEPT ![op.prevp] = ptr[op.p], ![op.p] = base], arena, DOMAIN live \cup {op.p}, {})
      /\ op.p # op.prevp
  <2>. DEFINE p == op.p
              prev == op.prevp
  <2>1. prev \in (Heads(size) \ DOMAIN live) \cup {base} /\ p = ptr[prev] /\ p # base
    BY <1>3, <1>4, Zenon
  <2>. HIDE DEF p, prev
  <2>2. /\ Heap(size, [ptr EXCEPT ![prev] = ptr[p], ![p] = base], arena, DOMAIN live \cup {p}, {})
        /\ p # prev
    BY <1>4, <2>1, TakeBlock
  <2>. QED  BY <2>2, Zenon DEF p, prev
<1>6. op.p \in Units /\ op.prevp \in Units
  BY <1>4, OpFields, Zenon
<1>7. /\ RoomEnough' /\ DOMAIN live' = DOMAIN live \cup {op.p} /\ DOMAIN live' \subseteq Units
      /\ \A a \in DOMAIN live' : live'[a] \in Requests
  <2>1. RoomEnough /\ size'[op.p] = nunits(op.bytes) /\ \A a \in DOMAIN live : size'[a] = size[a]
    BY <1>1, <1>2, Zenon DEF HeapInv
  <2>. QED  BY <1>1, <1>3, <1>4, <1>6, <2>1, HoldsMore, Zenon
<1>8. Heap(size', ptr', arena', DOMAIN live', {})
  BY <1>2, <1>5, <1>7, Zenon
<1>9. HeapTypeOK'
  <2>1. ptr' \in [Units -> Units]
    BY <1>8, Zenon DEF Heap
  <2>2. op' \in OpType
    BY <1>1, OpIdle, Zenon
  <2>. QED  BY <1>1, <1>2, <1>4, <1>6, <1>7, <2>1, <2>2, Zenon DEF HeapTypeOK, OpType
<1>10. freep' \in (Heads(size') \ DOMAIN live') \cup {base}
  BY <1>1, <1>2, <1>4, <1>5, <1>7, Zenon
<1>11. freep' # Null
  BY <1>1, <1>6, MallocAssumption DEF Null, Units
<1>12. HeapInv'
  BY <1>1, <1>7, <1>8, <1>9, <1>10, <1>11, CallReturns, Zenon
<1>. QED  BY <1>3, <1>7, <1>12, Zenon

\* The tail of the block goes to the program.
LEMMA TakeTailStep == ASSUME HeapInv, TakeTail PROVE HeapInv' /\ live' # live
<1>. DEFINE n == nunits(op.bytes)
            q == op.p + size[op.p] - nunits(op.bytes)
<1>1. /\ Fits /\ size[op.p] # n /\ live' = Holding(q) /\ op' = Idle /\ freep' = op.prevp
      /\ size' = [size EXCEPT ![op.p] = size[op.p] - n, ![op.p + size[op.p] - n] = n] /\ UNCHANGED <<ptr, brk, arena, gaps>>
  BY DEF TakeTail
<1>2. op.at = "search" /\ op.p \in Heads(size) \ DOMAIN live /\ n \in Nat /\ n > 0 /\ size[op.p] \in Nat /\ size[op.p] >= n
  BY <1>1, FitsOnList, Zenon
<1>3. n < size[op.p]
  BY <1>1, <1>2
<1>4. /\ HeapTypeOK /\ Heap(size, ptr, arena, DOMAIN live, {}) /\ op.prevp \in (Heads(size) \ DOMAIN live) \cup {base}
      /\ op.bytes \in Requests /\ DOMAIN live \subseteq Heads(size)
  BY <1>2, InSearch, Zenon
<1>5. size' = Cut(size, op.p, n)
  BY <1>1, Zenon DEF Cut
<1>6. n = nunits(op.bytes) /\ q = op.p + size[op.p] - n
  OBVIOUS
<1>. HIDE DEF n, q
<1>7. Heap(size', ptr, arena, DOMAIN live \cup {q}, {})
  BY <1>2, <1>3, <1>4, <1>5, <1>6, CutBlock, Zenon
<1>8. /\ Heads(size') = Heads(size) \cup {q} /\ q \notin Heads(size) /\ q \in Units /\ size'[q] = n
      /\ \A c \in Units \ {op.p, q} : size'[c] = size[c]
  <2>1. Tiles(size, arena) /\ op.p \in Heads(size)
    BY <1>2, <1>4, Zenon DEF Heap
  <2>. QED  BY <1>2, <1>3, <1>5, <1>6, <2>1, CutTiles
<1>9. /\ RoomEnough' /\ DOMAIN live' = DOMAIN live \cup {q} /\ DOMAIN live' \subseteq Units
      /\ \A a \in DOMAIN live' : live'[a] \in Requests
  <2>1. q \notin DOMAIN live /\ \A a \in DOMAIN live : size'[a] = size[a]
    BY <1>2, <1>4, <1>8, Zenon DEF Heads
  <2>2. RoomEnough /\ size'[q] = nunits(op.bytes)
    BY <1>6, <1>8, Zenon DEF HeapInv
  <2>. QED  BY <1>1, <1>4, <1>8, <2>1, <2>2, HoldsMore, Zenon
<1>10. Heap(size', ptr', arena', DOMAIN live', {})
  BY <1>1, <1>7, <1>9, Zenon
<1>11. op.prevp \in Units
  BY <1>4, OpFields, Zenon
<1>12. HeapTypeOK'
  <2>1. size' \in [Units -> Nat]
    BY <1>10, Zenon DEF Heap, Tiles
  <2>2. op' \in OpType
    BY <1>1, OpIdle, Zenon
  <2>. QED  BY <1>1, <1>4, <1>9, <1>11, <2>1, <2>2, Zenon DEF HeapTypeOK, OpType
<1>13. freep' \in (Heads(size') \ DOMAIN live') \cup {base}
  BY <1>1, <1>4, <1>8, <1>9, Zenon
<1>14. freep' # Null
  BY <1>1, <1>11, MallocAssumption DEF Null, Units
<1>15. HeapInv'
  BY <1>1, <1>9, <1>10, <1>12, <1>13, <1>14, CallReturns, Zenon
<1>16. q \notin DOMAIN live
  BY <1>4, <1>8, Zenon
<1>. QED  BY <1>9, <1>15, <1>16, Zenon

\* The loop goes on to the next block.
LEMMA NextBlockStep == ASSUME HeapInv, NextBlock PROVE HeapInv'
<1>1. /\ op.at = "search" /\ size[op.p] < nunits(op.bytes) /\ op.p # freep /\ op' = [op EXCEPT !.prevp = op.p, !.p = ptr[op.p]]
      /\ UNCHANGED <<ptr, size, freep, brk, live, arena, gaps>>
  BY Zenon DEF NextBlock, Small
<1>2. /\ HeapTypeOK /\ freep # Null /\ Heap(size, ptr, arena, DOMAIN live, {}) /\ FreeBlocks = Heads(size) \ DOMAIN live
      /\ freep \in (Heads(size) \ DOMAIN live) \cup {base}
      /\ op.p \in (Heads(size) \ DOMAIN live) \cup {base} /\ op.bytes \in Requests
  BY <1>1, InSearch, Zenon
<1>3. /\ op' \in OpType /\ op'.at = "search" /\ op'.prevp = op.p /\ op'.p = ptr[op.p] /\ op'.bytes = op.bytes
  <2>1. op \in OpType /\ op.p \in Units /\ ptr[op.p] \in Units
    BY <1>2, OpFields, Zenon DEF HeapTypeOK
  <2>. QED  BY <1>1, <2>1, Zenon DEF OpType
<1>4. HeapTypeOK'
  BY <1>1, <1>2, <1>3, Zenon DEF HeapTypeOK, OpType
<1>5. "search" # "free"
  OBVIOUS
<1>6. Taken' = DOMAIN live' /\ FreeBlocks' = Heads(size) \ DOMAIN live
  BY <1>1, <1>3, <1>5, Zenon DEF Taken, Returned, FreeBlocks, Headers, Heads
<1>7. ASSUME NEW b \in FreeBlocks', Passed(b)' PROVE (size[b] < nunits(op.bytes))'
  <2>1. Behind(freep, ptr[op.p], b)
    BY <1>1, <1>3, <1>7, Zenon DEF Passed, Behind
  <2>2. Behind(freep, op.p, b) \/ b = op.p
    BY <1>1, <1>2, <1>6, <2>1, OneBehind, Zenon
  <2>3. CASE b = op.p
    BY <1>1, <1>3, <2>3, Zenon
  <2>4. CASE Behind(freep, op.p, b)
    <3>1. Passed(b) /\ b \in FreeBlocks
      BY <1>2, <1>6, <2>4, Zenon DEF Passed, Behind
    <3>. QED  BY <1>1, <1>3, <3>1, Zenon DEF HeapInv, PassedSmall
  <2>. QED  BY <2>2, <2>3, <2>4, Zenon
<1>8. PassedSmall'
  BY <1>7, Zenon DEF PassedSmall
<1>9. RoomEnough'
  BY <1>1, Zenon DEF HeapInv, RoomEnough
<1>10. Heap(size', ptr', arena', Taken', {}) /\ freep' # Null /\ freep' \in (Heads(size') \ Taken') \cup {base}
  BY <1>1, <1>2, <1>6, Zenon
<1>11. /\ op'.prevp \in (Heads(size') \ Taken') \cup {base} /\ op'.p = ptr'[op'.prevp] /\ op'.bytes \in Requests
       /\ op'.at # "free"
  BY <1>1, <1>2, <1>3, <1>5, <1>6, Zenon
<1>. QED  BY <1>4, <1>8, <1>9, <1>10, <1>11, Pack, Zenon

\* A block on its way to the list.
LEMMA FreeGoesOn ==
  ASSUME HeapTypeOK', freep' # Null, op'.at = "free", Heap(size', ptr', arena', DOMAIN live' \cup {op'.bp}, {}),
         freep' \in (Heads(size') \ (DOMAIN live' \cup {op'.bp})) \cup {base},
         op'.p \in (Heads(size') \ (DOMAIN live' \cup {op'.bp})) \cup {base}, op'.bp \notin DOMAIN live', RoomEnough'
  PROVE  HeapInv'
<1>1. "free" # "search"
  OBVIOUS
<1>2. Taken' = DOMAIN live' \cup {op'.bp}
  BY Zenon DEF Taken, Returned
<1>3. PassedSmall'
  BY <1>1, Zenon DEF PassedSmall
<1>. QED  BY <1>1, <1>2, <1>3, Pack, Zenon

\* What sbrk() gives.
LEMMA CoreGiven ==
  ASSUME HeapTypeOK, op.bytes \in Requests, HasCore(nunits(op.bytes)), NEW k, k = brk, NEW nu, nu = CoreUnits(nunits(op.bytes)),
         NEW m, m = k + nu
  PROVE  RoomAbove(arena, k, nu) /\ m \in 1 .. HEAP + 1 /\ arena \cup Above(k, nu) \subseteq 1 .. m - 1
<1>1. nunits(op.bytes) \in Nat /\ nunits(op.bytes) >= 1
  BY UnitsEnough, Zenon
<1>2. MINCORE \in Nat /\ MINCORE >= 1 /\ HEAP \in Nat
  BY MallocAssumption
<1>3. nu \in Nat /\ nu > 0
  BY <1>1, <1>2 DEF CoreUnits
<1>4. k \in 1 .. HEAP + 1 /\ arena \subseteq 1 .. k - 1
  BY Zenon DEF HeapTypeOK
<1>5. k + nu <= HEAP + 1
  BY AskedIs, Zenon DEF HasCore
<1>6. k \in Nat /\ k >= 1
  BY <1>2, <1>4
<1>7. RoomAbove(arena, k, nu)
  BY <1>3, <1>4, <1>5, <1>6, Zenon DEF RoomAbove
<1>8. m \in 1 .. HEAP + 1
  BY <1>2, <1>3, <1>5, <1>6
<1>9. 1 .. k - 1 \subseteq 1 .. m - 1 /\ Above(k, nu) \subseteq 1 .. m - 1
  BY <1>3, <1>6 DEF Above
<1>10. arena \cup Above(k, nu) \subseteq 1 .. m - 1
  BY <1>4, <1>9, Zenon
<1>. QED  BY <1>7, <1>8, <1>10, Zenon

\* morecore() up to its call of free().
LEMMA MoreCoreStep == ASSUME HeapInv, MoreCore PROVE HeapInv'
<1>. DEFINE nu == CoreUnits(nunits(op.bytes))
            k == brk
<1>1. /\ op.at = "search" /\ HasCore(nunits(op.bytes)) /\ brk' = k + nu /\ size' = [size EXCEPT ![k] = nu]
      /\ arena' = arena \cup (k .. k + nu - 1) /\ op' = [op EXCEPT !.at = "free", !.bp = k, !.p = freep]
      /\ UNCHANGED <<ptr, freep, live, gaps>>
  <2>1. op.at = "search"
    BY Zenon DEF MoreCore, Small
  <2>2. op.bytes \in Requests
    BY <2>1, InSearch, Zenon
  <2>3. Asked(nunits(op.bytes)) = nu
    BY <2>2, AskedIs, Zenon
  <2>. QED  BY <2>1, <2>3, Zenon DEF MoreCore
<1>2. /\ HeapTypeOK /\ freep # Null /\ Heap(size, ptr, arena, DOMAIN live, {}) /\ DOMAIN live \subseteq Heads(size)
      /\ freep \in (Heads(size) \ DOMAIN live) \cup {base} /\ op.bytes \in Requests
  BY <1>1, InSearch, Zenon
<1>3. size' = Grown(size, k, nu) /\ arena' = arena \cup Above(k, nu) /\ k = brk /\ nu = CoreUnits(nunits(op.bytes))
  BY <1>1, Zenon DEF Grown, Above
<1>. HIDE DEF k, nu
<1>. DEFINE m == k + nu
<1>4. RoomAbove(arena, k, nu) /\ m \in 1 .. HEAP + 1 /\ arena' \subseteq 1 .. m - 1 /\ brk' = m
  <2>1. arena' = arena \cup Above(k, nu) /\ brk' = m /\ m = k + nu
    BY <1>1, <1>3, Zenon
  <2>. HIDE DEF m
  <2>2. RoomAbove(arena, k, nu) /\ m \in 1 .. HEAP + 1 /\ arena \cup Above(k, nu) \subseteq 1 .. m - 1
    BY <1>1, <1>2, <1>3, <2>1, CoreGiven
  <2>. QED  BY <2>1, <2>2, Zenon
<1>. HIDE DEF m
<1>5. Heap(size', ptr, arena', DOMAIN live \cup {k}, {})
  BY <1>2, <1>3, <1>4, GrowBlock, Zenon
<1>6. Tiles(size, arena)
  BY <1>2, Zenon DEF Heap
<1>7. Heads(size') = Heads(size) \cup {k}
  <2>1. Heads(Grown(size, k, nu)) = Heads(size) \cup {k}
    BY <1>4, <1>6, GrowTiles, Zenon
  <2>. QED  BY <1>3, <2>1, Zenon
<1>8. k \notin Heads(size) /\ k \in Units
  BY <1>4, <1>6, GrowTiles, Zenon
<1>9. \A c \in Units \ {k} : size'[c] = size[c]
  BY <1>3, <1>6, Zenon DEF Grown, Tiles
<1>10. freep \in Units
  BY <1>2, Zenon DEF HeapTypeOK
<1>11. op' \in OpType /\ op'.at = "free" /\ op'.bp = k /\ op'.p = freep
  <2>1. op \in OpType
    BY <1>2, OpFields, Zenon
  <2>. QED  BY <1>1, <1>8, <1>10, <2>1, Zenon DEF OpType
<1>12. HeapTypeOK'
  <2>1. size' \in [Units -> Nat]
    BY <1>5, Zenon DEF Heap, Tiles
  <2>2. brk' \in 1 .. HEAP + 1 /\ arena' \subseteq 1 .. brk' - 1
    BY <1>4, Zenon
  <2>. QED  BY <1>1, <1>2, <1>11, <2>1, <2>2, Zenon DEF HeapTypeOK, OpType
<1>13. RoomEnough'
  <2>1. \A a \in DOMAIN live : size'[a] = size[a]
    BY <1>2, <1>8, <1>9, Zenon DEF Heads
  <2>. QED  BY <1>1, <2>1, Zenon DEF HeapInv, RoomEnough
<1>14. Heap(size', ptr', arena', DOMAIN live' \cup {op'.bp}, {}) /\ op'.bp \notin DOMAIN live' /\ freep' # Null
  BY <1>1, <1>2, <1>5, <1>8, <1>11, Zenon
<1>15. /\ freep' \in (Heads(size') \ (DOMAIN live' \cup {op'.bp})) \cup {base}
       /\ op'.p \in (Heads(size') \ (DOMAIN live' \cup {op'.bp})) \cup {base}
  BY <1>1, <1>2, <1>7, <1>8, <1>11, Zenon
<1>. QED  BY <1>11, <1>12, <1>13, <1>14, <1>15, FreeGoesOn, Zenon

\* malloc() gives up, and rightly.
LEMMA NoCoreStep ==
  ASSUME HeapInv, NoCore
  PROVE  HeapInv' /\ (\A a \in FreeBlocks : size[a] < nunits(op.bytes)) /\ ~HasCore(nunits(op.bytes))
<1>1. /\ op.at = "search" /\ size[op.p] < nunits(op.bytes) /\ op.p = freep /\ ~HasCore(nunits(op.bytes)) /\ op' = Idle
      /\ UNCHANGED <<ptr, size, freep, brk, live, arena, gaps>>
  BY Zenon DEF NoCore, Small
<1>2. /\ HeapTypeOK /\ freep # Null /\ Heap(size, ptr, arena, DOMAIN live, {}) /\ FreeBlocks = Heads(size) \ DOMAIN live
      /\ freep \in (Heads(size) \ DOMAIN live) \cup {base}
  BY <1>1, InSearch, Zenon
<1>3. HeapTypeOK'
  BY <1>1, <1>2, OpIdle, Zenon DEF HeapTypeOK, OpType
<1>4. RoomEnough'
  BY <1>1, Zenon DEF HeapInv, RoomEnough
<1>5. Heap(size', ptr', arena', DOMAIN live', {}) /\ freep' # Null /\ freep' \in (Heads(size') \ DOMAIN live') \cup {base}
  BY <1>1, <1>2, Zenon
<1>6. HeapInv'
  BY <1>1, <1>3, <1>4, <1>5, CallReturns, Zenon
<1>7. ASSUME NEW a \in FreeBlocks PROVE size[a] < nunits(op.bytes)
  <2>1. CASE a = freep
    BY <1>1, <2>1, Zenon
  <2>2. CASE a # freep
    <3>1. a \in Int /\ freep \in Int
      BY <1>2, HeapBlocks, Placed, Zenon DEF BlockSet
    <3>2. freep < a \/ a < freep
      BY <2>2, <3>1
    <3>3. ~(op.p > freep)
      BY <1>1, <3>1
    <3>4. Passed(a)
      BY <1>1, <3>2, <3>3, Zenon DEF Passed
    <3>. QED  BY <1>1, <3>4, Zenon DEF HeapInv, PassedSmall
  <2>. QED  BY <2>1, <2>2, Zenon
<1>. QED  BY <1>1, <1>6, <1>7, Zenon

\* free() is called with a block of the program's.
LEMMA FreeStep == ASSUME HeapInv, NEW bp \in DOMAIN live, Free(bp) PROVE HeapInv'
<1>1. /\ op.at = "idle" /\ live' = [a \in DOMAIN live \ {bp} |-> live[a]] /\ op' = [Idle EXCEPT !.at = "free", !.bp = bp, !.p = freep]
      /\ UNCHANGED <<ptr, size, freep, brk, arena, gaps>>
  BY Zenon DEF Free
<1>2. HeapTypeOK /\ "idle" # "free"
  BY DEF HeapInv
<1>3. freep # Null
  BY EmptyHeap, Zenon
<1>4. Taken = DOMAIN live
  BY <1>1, <1>2, NotReturning, Zenon
<1>5. Heap(size, ptr, arena, DOMAIN live, {}) /\ freep \in (Heads(size) \ DOMAIN live) \cup {base}
  BY <1>3, <1>4, Unpack, Zenon
<1>6. DOMAIN live' = DOMAIN live \ {bp} /\ \A a \in DOMAIN live' : live'[a] = live[a]
  BY <1>1, Zenon
<1>7. bp \in Units /\ freep \in Units
  BY <1>2, <1>3, Zenon DEF HeapTypeOK
<1>8. op' \in OpType /\ op'.at = "free" /\ op'.bp = bp /\ op'.p = freep
  <2>1. base \in Units
    BY MallocAssumption DEF base, Units
  <2>. QED  BY <1>1, <1>7, <2>1, Zenon DEF OpType, Idle
<1>9. HeapTypeOK'
  BY <1>1, <1>2, <1>6, <1>8, Zenon DEF HeapTypeOK, OpType
<1>10. RoomEnough'
  BY <1>1, <1>6, Zenon DEF HeapInv, RoomEnough
<1>11. DOMAIN live' \cup {op'.bp} = DOMAIN live /\ op'.bp \notin DOMAIN live'
  BY <1>6, <1>8, Zenon
<1>12. /\ Heap(size', ptr', arena', DOMAIN live' \cup {op'.bp}, {}) /\ freep' # Null
       /\ freep' \in (Heads(size') \ (DOMAIN live' \cup {op'.bp})) \cup {base}
       /\ op'.p \in (Heads(size') \ (DOMAIN live' \cup {op'.bp})) \cup {base}
  BY <1>1, <1>3, <1>5, <1>8, <1>11, Zenon
<1>. QED  BY <1>8, <1>9, <1>10, <1>11, <1>12, FreeGoesOn, Zenon

\* What the invariant says during free()'s loop.
LEMMA InFree ==
  ASSUME HeapInv, op.at = "free"
  PROVE  /\ HeapTypeOK /\ freep # Null /\ Heap(size, ptr, arena, DOMAIN live \cup {op.bp}, {})
         /\ freep \in (Heads(size) \ (DOMAIN live \cup {op.bp})) \cup {base}
         /\ op.p \in (Heads(size) \ (DOMAIN live \cup {op.bp})) \cup {base}
         /\ op.bp \notin DOMAIN live /\ op.bp \in Heads(size) /\ DOMAIN live \subseteq Heads(size)
<1>1. HeapTypeOK /\ "free" # "idle"
  BY DEF HeapInv
<1>2. freep # Null
  BY <1>1, Zenon DEF HeapInv, CallPlaced
<1>3. Taken = DOMAIN live \cup {op.bp}
  BY Zenon DEF Taken, Returned
<1>4. /\ Heap(size, ptr, arena, DOMAIN live \cup {op.bp}, {}) /\ FreeBlocks = Heads(size) \ (DOMAIN live \cup {op.bp})
      /\ freep \in FreeBlocks \cup {base} /\ DOMAIN live \cup {op.bp} \subseteq Heads(size)
  BY <1>2, <1>3, Unpack, Zenon
<1>5. op.p \in FreeBlocks \cup {base} /\ op.bp \notin DOMAIN live
  BY Zenon DEF HeapInv, CallPlaced
<1>. QED  BY <1>1, <1>2, <1>4, <1>5, Zenon

\* The loop of free() goes on to the next block.
LEMMA NextFreeStep == ASSUME HeapInv, NextFree PROVE HeapInv'
<1>1. op.at = "free" /\ op' = [op EXCEPT !.p = ptr[op.p]] /\ UNCHANGED <<ptr, size, freep, brk, live, arena, gaps>>
  BY Zenon DEF NextFree
<1>2. /\ HeapTypeOK /\ freep # Null /\ Heap(size, ptr, arena, DOMAIN live \cup {op.bp}, {})
      /\ freep \in (Heads(size) \ (DOMAIN live \cup {op.bp})) \cup {base}
      /\ op.p \in (Heads(size) \ (DOMAIN live \cup {op.bp})) \cup {base} /\ op.bp \notin DOMAIN live
  BY <1>1, InFree, Zenon
<1>3. ptr[op.p] \in (Heads(size) \ (DOMAIN live \cup {op.bp})) \cup {base}
  BY <1>2, StaysOnList, Zenon
<1>4. op' \in OpType /\ op'.at = "free" /\ op'.bp = op.bp /\ op'.p = ptr[op.p]
  <2>1. op \in OpType /\ ptr[op.p] \in Units
    BY <1>2, OpFields, Zenon DEF HeapTypeOK
  <2>. QED  BY <1>1, <2>1 DEF OpType
<1>5. HeapTypeOK'
  BY <1>1, <1>2, <1>4, Zenon DEF HeapTypeOK, OpType
<1>6. RoomEnough'
  BY <1>1, Zenon DEF HeapInv, RoomEnough
<1>7. /\ Heap(size', ptr', arena', DOMAIN live' \cup {op'.bp}, {}) /\ freep' # Null /\ op'.bp \notin DOMAIN live'
      /\ freep' \in (Heads(size') \ (DOMAIN live' \cup {op'.bp})) \cup {base}
      /\ op'.p \in (Heads(size') \ (DOMAIN live' \cup {op'.bp})) \cup {base}
  BY <1>1, <1>2, <1>3, <1>4, Zenon
<1>. QED  BY <1>4, <1>5, <1>6, <1>7, FreeGoesOn, Zenon

\* Where the loop of free() stops, bp goes between p and the block after it.
LEMMA GoesBetween ==
  ASSUME NEW s, NEW A, NEW D, Heap(s, ptr, A, D, {}), NEW p \in (Heads(s) \ D) \cup {base}, NEW bp \in Heads(s),
         GoesAfter(bp, p)
  PROVE  /\ bp > p /\ (ptr[p] = base \/ bp < ptr[p]) /\ bp # p /\ bp # base /\ p \in Int /\ bp \in Int /\ ptr[p] \in Int
         /\ p >= base /\ base \in Int
<1>1. BlockSet(Heads(s)) /\ BlockSet(Heads(s) \ D)
  BY HeapBlocks, Zenon
<1>2. bp \in Int /\ bp > base /\ p \in Int /\ p >= base /\ base \in Int
  BY <1>1, Placed, Zenon DEF BlockSet
<1>3. ptr[p] = base \/ (ptr[p] \in Int /\ ptr[p] > p)
  BY Beyond, Zenon
<1>. DEFINE next == ptr[p]
<1>4. (bp > p /\ bp < next) \/ (p >= next /\ (bp > p \/ bp < next))
  BY Zenon DEF GoesAfter
<1>. HIDE DEF next
<1>5. next = base \/ (next \in Int /\ next > p)
  BY <1>3, Zenon DEF next
<1>6. bp > p /\ (next = base \/ bp < next) /\ bp # p /\ bp # base /\ next \in Int
  BY <1>2, <1>4, <1>5
<1>. QED  BY <1>2, <1>6, Zenon DEF next

\* The sizes and links when bp goes after p and is joined to the block above it if they touch.
UpSize(s, pt, bp, p) == IF bp + s[bp] = pt[p] THEN Joined(s, bp, pt[p]) ELSE s
UpPtr(s, pt, bp, p) ==
  LET z == [pt EXCEPT ![p] = bp, ![bp] = pt[p]] IN
  IF bp + s[bp] = pt[p] THEN [z EXCEPT ![bp] = z[pt[p]], ![pt[p]] = base] ELSE z

\* What they are: a heap in which at most p touches the block after it, bp.
UpJoined(s, z, A, D, bp, p, next) ==
  /\ Heap(s, z, A, D, {p}) /\ bp \in Heads(s) \ D /\ p \in (Heads(s) \ D) \cup {base} /\ z[p] = bp /\ bp # base /\ bp # p
  /\ bp > p /\ p >= base /\ p \in Int /\ bp \in Int
  /\ s \in [Units -> Nat] /\ p \in Units /\ bp \in Units
  /\ s[p] = size[p] /\ s[bp] = (IF bp + size[bp] = next THEN size[bp] + size[next] ELSE size[bp])
  /\ z[bp] = (IF bp + size[bp] = next THEN ptr[next] ELSE next)
  /\ bp + size[bp] = next => s[next] = 0 /\ z[next] = base /\ next # p /\ next # bp /\ next \in Units
  /\ \A c \in Units \ {bp, p} : (bp + size[bp] # next \/ c # next) => s[c] = size[c] /\ z[c] = ptr[c]
  /\ \A c \in D : s[c] = size[c]

\* bp goes after p, and is joined to the block above it.
LEMMA JoinUp ==
  ASSUME NEW A, NEW D, NEW bp, bp \notin D, Heap(size, ptr, A, D \cup {bp}, {}),
         NEW p \in (Heads(size) \ (D \cup {bp})) \cup {base}, GoesAfter(bp, p), NEW next, next = ptr[p],
         NEW s, s = UpSize(size, ptr, bp, p), NEW z, z = UpPtr(size, ptr, bp, p)
  PROVE  UpJoined(s, z, A, D, bp, p, next)
<1>. DEFINE y == [ptr EXCEPT ![p] = bp, ![bp] = next]
<1>1. bp \in Heads(size) /\ D \subseteq Heads(size)
  BY Zenon DEF Heap
<1>2. /\ bp > p /\ (next = base \/ bp < next) /\ bp # p /\ bp # base /\ p \in Int /\ bp \in Int /\ next \in Int
      /\ p >= base /\ base \in Int
  BY <1>1, GoesBetween, Zenon
<1>3. size \in [Units -> Nat] /\ ptr \in [Units -> Units] /\ base \in Units /\ p \in Units /\ bp \in Units /\ next \in Units
  <2>1. size \in [Units -> Nat] /\ ptr \in [Units -> Units] /\ base \in Units
    BY HeapBlocks, Zenon DEF Heap, Tiles
  <2>. QED  BY <1>1, <2>1, Zenon DEF Heads
<1>4. (D \cup {bp}) \ {bp} = D /\ bp \in D \cup {bp}
  BY Zenon
<1>5. Heap(size, y, A, D, {p, bp})
  <2>1. Heap(size, [ptr EXCEPT ![p] = bp, ![bp] = ptr[p]], A, (D \cup {bp}) \ {bp}, {p, bp})
    BY <1>2, <1>4, AddBlock, Zenon
  <2>. QED  BY <1>4, <2>1, Zenon
<1>6. y \in [Units -> Units] /\ y[p] = bp /\ y[bp] = next /\ \A c \in Units \ {bp, p} : y[c] = ptr[c]
  BY <1>2, <1>3, Zenon
<1>7. bp \in Heads(size) \ D /\ {p, bp} \ {bp} = {p}
  BY <1>1, <1>2, Zenon
<1>8. CASE bp + size[bp] = next
  <2>1. s = Joined(size, bp, next) /\ z = [y EXCEPT ![bp] = y[next], ![next] = base]
    BY <1>8, Zenon DEF UpSize, UpPtr
  <2>. HIDE DEF y
  <2>2. size[bp] \in Nat /\ size[bp] > 0
    BY <1>5, <1>7, HeadsAre, Zenon DEF Heap
  <2>3. next # base /\ next # p /\ next # bp
    BY <1>2, <1>8, <2>2
  <2>4. next \notin {p, bp} /\ next = y[bp]
    BY <1>6, <2>3, Zenon
  <2>5. Heap(s, z, A, D, {p, bp} \ {bp}) /\ Heads(s) = Heads(size) \ {next} /\ next \in Heads(size) \ D
    <3>1. Heap(Joined(size, bp, next), [y EXCEPT ![bp] = y[next], ![next] = base], A, D, {p, bp} \ {bp})
      BY <1>5, <1>7, <1>8, <2>3, <2>4, JoinBlock, Zenon
    <3>2. LosesHead(Joined(size, bp, next), size, next, D)
      BY <1>5, <1>7, <1>8, <2>3, <2>4, JoinBlock, Zenon
    <3>. QED  BY <2>1, <3>1, <3>2, Zenon DEF LosesHead
  <2>6. s \in [Units -> Nat] /\ s[bp] = size[bp] + size[next] /\ s[next] = 0 /\ \A c \in Units \ {bp, next} : s[c] = size[c]
    <3>. DEFINE m == size[bp] + size[next]
    <3>1. m \in Nat /\ 0 \in Nat
      BY <1>3
    <3>2. s = [size EXCEPT ![bp] = m, ![next] = 0]
      BY <2>1, Zenon DEF Joined
    <3>. HIDE DEF m
    <3>3. s \in [Units -> Nat] /\ s[bp] = m /\ s[next] = 0 /\ \A c \in Units \ {bp, next} : s[c] = size[c]
      <4>1. bp # next /\ bp \in Units /\ next \in Units /\ size \in [Units -> Nat]
        BY <1>3, <2>3, Zenon
      <4>. QED  BY <3>1, <3>2, <4>1, Zenon
    <3>. QED  BY <3>3, Zenon DEF m
  <2>7. z[bp] = ptr[next] /\ z[next] = base /\ z[p] = bp /\ \A c \in Units \ {bp, p, next} : z[c] = ptr[c]
    BY <1>2, <1>3, <1>6, <2>1, <2>3, Zenon
  <2>8. Heap(s, z, A, D, {p}) /\ bp \in Heads(s) \ D /\ p \in (Heads(s) \ D) \cup {base}
    BY <1>7, <2>3, <2>5, Zenon
  <2>9. \A c \in D : s[c] = size[c]
    BY <1>1, <2>5, <2>6, Zenon DEF Heads
  <2>. QED  BY <1>2, <1>3, <1>8, <2>3, <2>6, <2>7, <2>8, <2>9, Zenon DEF UpJoined
<1>9. CASE bp + size[bp] # next
  <2>1. s = size /\ z = y
    BY <1>9, Zenon DEF UpSize, UpPtr
  <2>. HIDE DEF y
  <2>2. Heap(size, y, A, D, {p, bp} \ {bp})
    BY <1>5, <1>6, <1>9, LeaveBlock, Zenon
  <2>3. Heap(s, z, A, D, {p}) /\ bp \in Heads(s) \ D /\ p \in (Heads(s) \ D) \cup {base}
    BY <1>7, <2>1, <2>2, Zenon
  <2>. QED  BY <1>2, <1>3, <1>6, <1>9, <2>1, <2>3, Zenon DEF UpJoined
<1>. QED  BY <1>8, <1>9, Zenon

\* A heap in which no free blocks touch, with p on its list.
DownJoined(t, y, s, A, D, p) ==
  Heap(t, y, A, D, {}) /\ p \in (Heads(t) \ D) \cup {base} /\ \A c \in D : t[c] = s[c]

\* Then bp is joined to the block below it.
LEMMA JoinDown ==
  ASSUME NEW s, NEW z, NEW A, NEW D, NEW p, NEW bp, Heap(s, z, A, D, {p}), bp \in Heads(s) \ D, p \in (Heads(s) \ D) \cup {base},
         z[p] = bp, bp # base, bp # p, NEW t, t = (IF p + s[p] = bp THEN Joined(s, p, bp) ELSE s),
         NEW y, y = (IF p + s[p] = bp THEN [z EXCEPT ![p] = z[bp], ![bp] = base] ELSE z)
  PROVE  DownJoined(t, y, s, A, D, p)
<1>1. CASE p + s[p] = bp
  <2>1. t = Joined(s, p, bp) /\ y = [z EXCEPT ![p] = z[bp], ![bp] = base]
    BY <1>1, Zenon
  <2>2. s[base] = 0
    BY HeapBlocks, Zenon
  <2>3. p # base
    BY <1>1, <2>2 DEF base
  <2>4. p \in Heads(s) \ D /\ bp \notin {p} /\ {p} \ {p} = {}
    BY <2>3, Zenon
  <2>5. Heap(t, y, A, D, {p} \ {p}) /\ Heads(t) = Heads(s) \ {bp}
    <3>1. bp = z[p]
      BY Zenon
    <3>2. Heap(Joined(s, p, bp), [z EXCEPT ![p] = z[bp], ![bp] = base], A, D, {p} \ {p})
      BY <1>1, <2>4, <3>1, JoinBlock, Zenon
    <3>3. LosesHead(Joined(s, p, bp), s, bp, D)
      BY <1>1, <2>4, <3>1, JoinBlock, Zenon
    <3>. QED  BY <2>1, <3>2, <3>3, Zenon DEF LosesHead
  <2>6. s \in [Units -> Nat] /\ D \subseteq Units /\ p \notin D /\ bp \notin D
    BY <2>4, Zenon DEF Heap, Heads, Tiles
  <2>7. \A c \in D : t[c] = s[c]
    BY <2>1, <2>6, Zenon DEF Joined
  <2>. QED  BY <2>4, <2>5, <2>7, Zenon DEF DownJoined
<1>2. CASE p + s[p] # bp
  <2>1. t = s /\ y = z
    BY <1>2, Zenon
  <2>2. Heap(s, z, A, D, {p} \ {p})
    BY <1>2, LeaveBlock, Zenon
  <2>3. {p} \ {p} = {}
    BY Zenon
  <2>. QED  BY <2>1, <2>2, <2>3, Zenon DEF DownJoined
<1>. QED  BY <1>1, <1>2, Zenon

\* free() after its loop: the list and the sizes are those of the two joins.
LEMMA InsertResult ==
  ASSUME HeapInv, Insert
  PROVE  /\ Heap(size', ptr', arena', DOMAIN live', {}) /\ op.p \in (Heads(size') \ DOMAIN live') \cup {base} /\ op.p \in Units
         /\ \A c \in DOMAIN live : size'[c] = size[c]
<1>. DEFINE bp == op.bp
            p == op.p
            next == ptr[p]
            up == bp + size[bp] = next
            down == p + size[p] = bp
            joined == IF up THEN size[bp] + size[next] ELSE size[bp]
            after == IF up THEN ptr[next] ELSE next
<1>1. op.at = "free" /\ GoesAfter(bp, p) /\ UNCHANGED <<brk, live, arena, gaps>>
  BY Zenon DEF Insert
<1>2. /\ size' = [a \in Units |-> CASE a = p /\ down -> size[p] + joined
                                    [] a = bp -> IF down THEN 0 ELSE joined
                                    [] a = next /\ up -> 0
                                    [] OTHER -> size[a]]
      /\ ptr' = [a \in Units |-> CASE a = p -> IF down THEN after ELSE bp
                                   [] a = bp -> IF down THEN base ELSE after
                                   [] a = next /\ up -> base
                                   [] OTHER -> ptr[a]]
  BY DEF Insert
<1>3. /\ Heap(size, ptr, arena, DOMAIN live \cup {bp}, {}) /\ p \in (Heads(size) \ (DOMAIN live \cup {bp})) \cup {base}
      /\ bp \notin DOMAIN live
  BY <1>1, InFree, Zenon
<1>. DEFINE s == UpSize(size, ptr, bp, p)
            z == UpPtr(size, ptr, bp, p)
            t == IF p + s[p] = bp THEN Joined(s, p, bp) ELSE s
            y == IF p + s[p] = bp THEN [z EXCEPT ![p] = z[bp], ![bp] = base] ELSE z
<1>. HIDE DEF bp, p, s, z
<1>4. /\ Heap(s, z, arena, DOMAIN live, {p}) /\ bp \in Heads(s) \ DOMAIN live /\ p \in (Heads(s) \ DOMAIN live) \cup {base}
      /\ z[p] = bp /\ bp # base /\ bp # p /\ s \in [Units -> Nat] /\ p \in Units /\ bp \in Units
      /\ s[p] = size[p] /\ s[bp] = joined /\ z[bp] = after
      /\ up => s[next] = 0 /\ z[next] = base /\ next # p /\ next # bp /\ next \in Units
      /\ \A c \in Units \ {bp, p} : (~up \/ c # next) => s[c] = size[c] /\ z[c] = ptr[c]
      /\ \A c \in DOMAIN live : s[c] = size[c]
  <2>1. s = UpSize(size, ptr, bp, p) /\ z = UpPtr(size, ptr, bp, p) /\ next = ptr[p]
    BY Zenon DEF s, z
  <2>2. UpJoined(s, z, arena, DOMAIN live, bp, p, next)
    BY <1>1, <1>3, <2>1, JoinUp, Zenon
  <2>. QED  BY <2>2, Zenon DEF UpJoined
<1>5. Heap(t, y, arena, DOMAIN live, {}) /\ p \in (Heads(t) \ DOMAIN live) \cup {base} /\ \A c \in DOMAIN live : t[c] = s[c]
  <2>1. DownJoined(t, y, s, arena, DOMAIN live, p)
    BY <1>4, JoinDown, Zenon
  <2>. QED  BY <2>1, Zenon DEF DownJoined
<1>6. down <=> p + s[p] = bp
  BY <1>4, Zenon
<1>. HIDE DEF up, down, joined, after, next
<1>7. z \in [Units -> Units]
  BY <1>4, Zenon DEF Heap
<1>8. size' = t
  <2>1. CASE down
    <3>1. t = [s EXCEPT ![p] = s[p] + s[bp], ![bp] = 0]
      BY <1>6, <2>1, Zenon DEF Joined
    <3>2. t = [a \in Units |-> IF a = bp THEN 0 ELSE IF a = p THEN size[p] + joined ELSE s[a]]
      BY <1>4, <3>1, Zenon
    <3>3. ASSUME NEW a \in Units PROVE size'[a] = t[a]
      BY <1>2, <1>4, <2>1, <3>2, <3>3
    <3>. QED  BY <1>2, <3>2, <3>3
  <2>2. CASE ~down
    <3>1. t = s
      BY <1>6, <2>2, Zenon
    <3>2. ASSUME NEW a \in Units PROVE size'[a] = s[a]
      BY <1>2, <1>4, <2>2, <3>2
    <3>. QED  BY <1>2, <1>4, <3>1, <3>2
  <2>. QED  BY <2>1, <2>2, Zenon
<1>9. ptr' = y
  <2>1. CASE down
    <3>1. y = [z EXCEPT ![p] = z[bp], ![bp] = base]
      BY <1>6, <2>1, Zenon
    <3>2. y = [a \in Units |-> IF a = bp THEN base ELSE IF a = p THEN after ELSE z[a]]
      BY <1>4, <1>7, <3>1, Zenon
    <3>3. ASSUME NEW a \in Units PROVE ptr'[a] = y[a]
      BY <1>2, <1>4, <2>1, <3>2, <3>3
    <3>. QED  BY <1>2, <3>2, <3>3, Zenon
  <2>2. CASE ~down
    <3>1. y = z
      BY <1>6, <2>2, Zenon
    <3>2. ASSUME NEW a \in Units PROVE ptr'[a] = z[a]
      BY <1>2, <1>4, <2>2, <3>2
    <3>3. ptr' = [a \in Units |-> z[a]]
      BY <1>2, <3>2
    <3>4. z = [a \in Units |-> z[a]]
      BY <1>7
    <3>. QED  BY <3>1, <3>3, <3>4, Zenon
  <2>. QED  BY <2>1, <2>2, Zenon
<1>. HIDE DEF t, y
<1>10. \A c \in DOMAIN live : size'[c] = size[c]
  BY <1>4, <1>5, <1>8, Zenon
<1>. QED  BY <1>1, <1>4, <1>5, <1>8, <1>9, <1>10, Zenon DEF p

\* free() after its loop, and the return into malloc()'s.
LEMMA InsertStep == ASSUME HeapInv, Insert PROVE HeapInv'
<1>1. /\ op.at = "free" /\ freep' = op.p /\ UNCHANGED <<brk, live, arena, gaps>>
      /\ op' = IF op.bytes = -1 THEN Idle ELSE Searching(op.bytes, op.p)
  BY Zenon DEF Insert
<1>2. /\ Heap(size', ptr', arena', DOMAIN live', {}) /\ op.p \in (Heads(size') \ DOMAIN live') \cup {base} /\ op.p \in Units
      /\ \A c \in DOMAIN live : size'[c] = size[c]
  BY InsertResult, Zenon
<1>3. size' \in [Units -> Nat] /\ ptr' \in [Units -> Units]
  BY <1>2, Zenon DEF Heap, Tiles
<1>4. RoomEnough'
  BY <1>1, <1>2, Zenon DEF HeapInv, RoomEnough
<1>5. freep' # Null
  BY <1>1, <1>2, MallocAssumption DEF Null, Units
<1>6. freep' \in (Heads(size') \ DOMAIN live') \cup {base} /\ freep' \in Units
  BY <1>1, <1>2, Zenon
<1>7. ASSUME op' \in OpType PROVE HeapTypeOK'
  BY <1>1, <1>3, <1>6, <1>7, Zenon DEF HeapInv, HeapTypeOK, OpType
<1>8. CASE op.bytes = -1
  <2>1. op' = Idle
    BY <1>1, <1>8, Zenon
  <2>2. op' \in OpType
    BY <2>1, OpIdle, Zenon
  <2>. QED  BY <1>2, <1>4, <1>5, <1>6, <1>7, <2>1, <2>2, CallReturns, Zenon
<1>9. CASE op.bytes # -1
  <2>1. op' = SearchOp(op.bytes, freep', ptr'[freep'])
    BY <1>1, <1>9, Zenon DEF Searching, SearchOp
  <2>2. op.bytes \in Requests
    BY <1>9, OpFields, Zenon DEF HeapInv
  <2>3. ptr'[freep'] \in Units
    BY <1>3, <1>6, Zenon
  <2>4. IsSearch(op', op.bytes, freep', ptr'[freep'])
    BY <1>6, <2>1, <2>2, <2>3, OpSearch, Zenon
  <2>5. op' \in OpType /\ op'.at = "search" /\ op'.prevp = freep' /\ op'.p = ptr'[freep'] /\ op'.bytes \in Requests
    BY <2>2, <2>4, Zenon DEF IsSearch
  <2>. QED  BY <1>2, <1>4, <1>5, <1>6, <1>7, <2>5, SearchBegins, Zenon
<1>. QED  BY <1>8, <1>9, Zenon

\* The program calls sbrk() itself.
LEMMA SbrkStep == ASSUME HeapInv, Sbrk PROVE HeapInv'
<1>1. brk <= HEAP /\ brk' = brk + 1 /\ gaps' = gaps + 1 /\ UNCHANGED <<ptr, size, freep, op, live, arena>>
  BY Zenon DEF Sbrk
<1>2. HeapTypeOK'
  <2>1. brk \in 1 .. HEAP + 1 /\ gaps \in Nat /\ arena \subseteq 1 .. brk - 1
    BY Zenon DEF HeapInv, HeapTypeOK
  <2>2. brk' \in 1 .. HEAP + 1 /\ gaps' \in Nat
    BY <1>1, <2>1, MallocAssumption
  <2>3. 1 .. brk - 1 \subseteq 1 .. brk' - 1
    BY <1>1, <2>1, MallocAssumption
  <2>4. arena' \subseteq 1 .. brk' - 1
    BY <1>1, <2>1, <2>3, Zenon
  <2>. QED  BY <1>1, <2>2, <2>4, Zenon DEF HeapInv, HeapTypeOK
<1>3. Headers' = Headers /\ Returned' = Returned /\ FreeBlocks' = FreeBlocks
  BY <1>1, Zenon DEF Headers, Returned, FreeBlocks
<1>4. HeapTiled' /\ ListSorted'
  BY <1>1, <1>3, Zenon DEF HeapInv, HeapTiled, ListSorted, Block
<1>5. RoomEnough' /\ CallPlaced' /\ PassedSmall'
  BY <1>1, <1>3, Zenon DEF HeapInv, RoomEnough, CallPlaced, PassedSmall, Passed
<1>. QED  BY <1>2, <1>4, <1>5, Zenon DEF HeapInv

-----------------------------------------------------------------------------
(* The theorems.                                                           *)

\* The invariant holds of the heap as it is at first.
LEMMA HeapBegins == ASSUME MallocInit PROVE HeapInv
<1>1. HEAP \in Nat /\ base \in Units /\ base # Null /\ Null \in {Null}
  BY MallocAssumption DEF base, Null, Units
<1>2. /\ ptr = [a \in Units |-> base] /\ size = [a \in Units |-> 0] /\ freep = Null /\ brk = 1 /\ op = Idle
      /\ live = <<>> /\ arena = {} /\ gaps = 0
  BY Zenon DEF MallocInit
<1>3. DOMAIN live = {}
  BY <1>2
<1>4. op \in OpType /\ op.at = "idle" /\ "idle" # "free" /\ "idle" # "search"
  BY <1>2, OpIdle
<1>5. Headers = {} /\ Returned = {} /\ FreeBlocks = {}
  BY <1>2, <1>4, Zenon DEF Headers, Returned, FreeBlocks
<1>6. HeapTypeOK
  <2>1. ptr \in [Units -> Units] /\ size \in [Units -> Nat] /\ brk \in 1 .. HEAP + 1 /\ gaps \in Nat
    BY <1>1, <1>2
  <2>. QED  BY <1>1, <1>2, <1>3, <1>4, <2>1, Zenon DEF HeapTypeOK, OpType
<1>7. HeapTiled
  BY <1>2, <1>3, <1>5, Zenon DEF HeapTiled
<1>8. ListSorted /\ RoomEnough /\ CallPlaced /\ PassedSmall
  BY <1>2, <1>3, <1>4, <1>5, Zenon DEF ListSorted, RoomEnough, CallPlaced, PassedSmall
<1>. QED  BY <1>6, <1>7, <1>8, Zenon DEF HeapInv

\* Every step keeps it.
LEMMA HeapStep == ASSUME HeapInv, [MallocNext]_mvars PROVE HeapInv'
<1>1. CASE MallocNext
  BY <1>1, MallocStep, FreeStep, TakeWholeStep, TakeTailStep, NextBlockStep, MoreCoreStep, NoCoreStep, NextFreeStep,
     InsertStep, SbrkStep, Zenon DEF MallocNext
<1>2. CASE UNCHANGED mvars
  <2>1. UNCHANGED <<ptr, size, freep, brk, op, live, arena, gaps>>
    BY <1>2, Zenon DEF mvars
  <2>2. Headers' = Headers /\ Returned' = Returned /\ FreeBlocks' = FreeBlocks
    BY <2>1, Zenon DEF Headers, Returned, FreeBlocks
  <2>3. HeapTypeOK' /\ HeapTiled' /\ ListSorted'
    <3>1. HeapTypeOK'
      BY <2>1, Zenon DEF HeapInv, HeapTypeOK
    <3>2. HeapTiled'
      BY <2>1, <2>2, Zenon DEF HeapInv, HeapTiled, Block
    <3>3. ListSorted'
      BY <2>1, <2>2, Zenon DEF HeapInv, ListSorted
    <3>. QED  BY <3>1, <3>2, <3>3, Zenon
  <2>4. RoomEnough' /\ CallPlaced' /\ PassedSmall'
    BY <2>1, <2>2, Zenon DEF HeapInv, RoomEnough, CallPlaced, PassedSmall, Passed
  <2>. QED  BY <2>3, <2>4, Zenon DEF HeapInv
<1>. QED  BY <1>1, <1>2, Zenon

\* malloc() and free() keep the heap in order, for any heap and any requests that fit the
\* int which sbrk() takes: the
\* blocks tile the arenas, the free list is sorted and joined, and a block has room
\* for what was asked for.
THEOREM HeapCorrect == MallocSpec => []HeapInv
<1>1. MallocInit => HeapInv
  BY HeapBegins
<1>2. HeapInv /\ [MallocNext]_mvars => HeapInv'
  BY HeapStep
<1>. QED  BY <1>1, <1>2, PTL DEF MallocSpec

\* malloc() returns 0 only after its loop has been all the way round the free list,
\* found every block too small, and sbrk() has failed.
THEOREM FailsOnlyWhenFullTheorem == MallocSpec => FailsOnlyWhenFull
<1>1. ASSUME HeapInv, [MallocNext]_mvars
      PROVE [op.at = "search" /\ op'.at = "idle" /\ live' = live =>
               (\A a \in FreeBlocks : size[a] < nunits(op.bytes)) /\ ~HasCore(nunits(op.bytes))]_mvars
  <2>. SUFFICES ASSUME MallocNext, op.at = "search", op'.at = "idle", live' = live
                PROVE (\A a \in FreeBlocks : size[a] < nunits(op.bytes)) /\ ~HasCore(nunits(op.bytes))
    BY <1>1, Zenon
  <2>1. "search" # "idle" /\ "search" # "free" /\ "free" # "idle"
    OBVIOUS
  <2>2. ~(\E n \in Requests : Malloc(n)) /\ ~(\E bp \in DOMAIN live : Free(bp)) /\ ~NextFree /\ ~Insert /\ ~Sbrk
    BY <2>1, Zenon DEF Malloc, Free, NextFree, Insert, Sbrk
  <2>3. ~TakeWhole /\ ~TakeTail
    BY <1>1, TakeWholeStep, TakeTailStep, Zenon
  <2>4. op \in OpType
    BY <1>1, OpFields, Zenon DEF HeapInv
  <2>5. ~NextBlock
    <3>. SUFFICES ASSUME NextBlock PROVE FALSE
      OBVIOUS
    <3>1. op' = [op EXCEPT !.prevp = op.p, !.p = ptr[op.p]]
      BY Zenon DEF NextBlock
    <3>2. op'.at = op.at
      BY <2>4, <3>1 DEF OpType
    <3>. QED  BY <2>1, <3>2, Zenon
  <2>6. ~MoreCore
    <3>. SUFFICES ASSUME MoreCore PROVE FALSE
      OBVIOUS
    <3>1. op' = [op EXCEPT !.at = "free", !.bp = brk, !.p = freep]
      BY Zenon DEF MoreCore
    <3>2. op'.at = "free"
      BY <2>4, <3>1 DEF OpType
    <3>. QED  BY <2>1, <3>2, Zenon
  <2>7. NoCore
    BY <2>2, <2>3, <2>5, <2>6, Zenon DEF MallocNext
  <2>. QED  BY <1>1, <2>7, NoCoreStep, Zenon
<1>. QED  BY <1>1, HeapCorrect, PTL DEF MallocSpec, FailsOnlyWhenFull

=============================================================================
