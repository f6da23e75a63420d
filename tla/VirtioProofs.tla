---------------------------- MODULE VirtioProofs ----------------------------
(***************************************************************************)
(* Proofs about module VirtioDisk, for any number of processes and         *)
(* descriptors: the driver and the device agree on which requests are      *)
(* pending, busy and finished, and on who owns each descriptor.            *)
(***************************************************************************)
EXTENDS VirtioDisk, FiniteSetTheorems, WellFoundedInduction, TLAPS

-----------------------------------------------------------------------------
(* Remainders.                                                             *)

\* No number between 0 and P is a multiple of P.
LEMMA NoMultiple ==
  ASSUME NEW P \in Nat \ {0}, NEW m \in Int, P * m > 0, P * m < P
  PROVE  FALSE
<1>1. CASE m <= 0
  <2>1. P * m <= 0
    BY <1>1
  <2>. QED  BY <2>1
<1>2. CASE m >= 1
  <2>1. P * m >= P
    BY <1>2
  <2>. QED  BY <2>1
<1>. QED  BY <1>1, <1>2

\* A number is a multiple plus its remainder.
LEMMA DivMod ==
  ASSUME NEW P \in Nat \ {0}, NEW a \in Int
  PROVE  a % P \in 0 .. P - 1 /\ \E m \in Int : a = P * m + (a % P)
<1>1. PICK m \in Int : m = a \div P
  OBVIOUS
<1>2. a = P * m + (a % P)
  BY <1>1
<1>3. a % P \in 0 .. P - 1
  OBVIOUS
<1>. QED  BY <1>2, <1>3, Zenon

\* Two numbers have the same remainder when they differ by a multiple, and only then.
LEMMA SameRemainder ==
  ASSUME NEW P \in Nat \ {0}, NEW a \in Int, NEW b \in Int, a % P = b % P
  PROVE  \E m \in Int : b - a = P * m
<1>1. PICK x \in Int : a = P * x + (a % P)
  BY DivMod, Zenon
<1>2. PICK y \in Int : b = P * y + (b % P)
  BY DivMod, Zenon
<1>3. a % P \in Int
  BY DivMod
<1>4. b - a = P * y - P * x
  BY <1>1, <1>2, <1>3
<1>5. P * y - P * x = P * (y - x)
  OBVIOUS
<1>6. y - x \in Int /\ b - a = P * (y - x)
  BY <1>4, <1>5
<1>. QED  BY <1>6, Zenon

\* k is a multiple of P.
Multiple(P, k) == \E m \in Int : k = P * m

\* Numbers that differ by a multiple have the same remainder.
LEMMA DifferByMultiple ==
  ASSUME NEW P \in Nat \ {0}, NEW a \in Int, NEW b \in Int, Multiple(P, b - a)
  PROVE  a % P = b % P
<1>. PICK m \in Int : b - a = P * m
  BY Zenon DEF Multiple
<1>1. PICK x \in Int : a = P * x + (a % P)
  BY DivMod, Zenon
<1>2. PICK y \in Int : b = P * y + (b % P)
  BY DivMod, Zenon
<1>. DEFINE r == a % P
            s == b % P
            z == (m + x) - y
<1>3. r \in 0 .. P - 1 /\ s \in 0 .. P - 1
  BY DivMod, Zenon
<1>4. P * z = P * m + P * x - P * y
  OBVIOUS
<1>5. a = P * x + r /\ b = P * y + s
  BY <1>1, <1>2, Zenon
<1>. HIDE DEF r, s
<1>6. s - r = P * z
  BY <1>3, <1>4, <1>5
<1>7. z \in Int /\ 0 - z \in Int /\ P * (0 - z) = 0 - P * z
  OBVIOUS
<1>. HIDE DEF z
<1>8. CASE s > r
  <2>1. P * z > 0 /\ P * z < P
    BY <1>3, <1>6, <1>8
  <2>. QED  BY <1>7, <2>1, NoMultiple, Zenon
<1>9. CASE s < r
  <2>1. P * (0 - z) > 0 /\ P * (0 - z) < P
    BY <1>3, <1>6, <1>7, <1>9
  <2>. QED  BY <1>7, <2>1, NoMultiple, Zenon
<1>10. CASE r = s
  BY <1>10, Zenon DEF r, s
<1>. QED  BY <1>3, <1>8, <1>9, <1>10

\* Remainders may be added up.
LEMMA SameSum ==
  ASSUME NEW P \in Nat \ {0}, NEW a \in Int, NEW b \in Int, NEW c \in Int, a % P = b % P
  PROVE  (a + c) % P = (b + c) % P
<1>1. PICK m \in Int : b - a = P * m
  BY SameRemainder, Zenon
<1>. DEFINE x == a + c
            y == b + c
<1>2. x \in Int /\ y \in Int /\ y - x = P * m
  BY <1>1
<1>. HIDE DEF x, y
<1>3. x % P = y % P
  <2>1. Multiple(P, y - x)
    BY <1>2, Zenon DEF Multiple
  <2>. QED  BY <1>2, <2>1, DifferByMultiple, Zenon
<1>. QED  BY <1>3, Zenon DEF x, y

\* A remainder is its own remainder.
LEMMA ModMod ==
  ASSUME NEW P \in Nat \ {0}, NEW a \in Int
  PROVE  a % P \in Int /\ (a % P) % P = a % P
<1>1. a % P \in 0 .. P - 1
  BY DivMod, Zenon
<1>2. \A r \in 0 .. P - 1 : r \in Int /\ r % P = r
  OBVIOUS
<1>. QED  BY <1>1, <1>2, Zenon

\* Numbers closer than P have different remainders.
LEMMA Apart ==
  ASSUME NEW P \in Nat \ {0}, NEW s \in Int, NEW i \in 0 .. P - 1, NEW j \in 0 .. P - 1, (s + i) % P = (s + j) % P
  PROVE  i = j
<1>1. s + i \in Int /\ s + j \in Int
  OBVIOUS
<1>2. PICK m \in Int : (s + j) - (s + i) = P * m
  BY <1>1, SameRemainder, Zenon
<1>3. j - i = P * m /\ 0 - m \in Int /\ P * (0 - m) = 0 - P * m
  BY <1>2
<1>4. CASE j > i
  <2>1. P * m > 0 /\ P * m < P
    BY <1>3, <1>4
  <2>. QED  BY <2>1, NoMultiple, Zenon
<1>5. CASE j < i
  <2>1. P * (0 - m) > 0 /\ P * (0 - m) < P
    BY <1>3, <1>5
  <2>. QED  BY <1>3, <2>1, NoMultiple, Zenon
<1>. QED  BY <1>4, <1>5

\* How far a counter is ahead of another, after a step of the one or of the other.
LEMMA Ahead ==
  ASSUME NEW P \in Nat \ {0}, NEW a \in Int, NEW b \in Int
  PROVE  /\ ((a - b) % P) + 1 < P => ((a + 1) - b) % P = ((a - b) % P) + 1
         /\ (a - b) % P > 0 => (a - (b + 1)) % P = ((a - b) % P) - 1
<1>. DEFINE n == (a - b) % P
<1>1. a - b \in Int
  OBVIOUS
<1>2. n \in 0 .. P - 1 /\ n % P = (a - b) % P
  BY <1>1, DivMod, ModMod, Zenon
<1>. HIDE DEF n
<1>3. n \in Int /\ 1 \in Int /\ 0 - 1 \in Int
  BY <1>2
<1>4. (n + 1) % P = ((a - b) + 1) % P /\ (n + (0 - 1)) % P = ((a - b) + (0 - 1)) % P
  <2>. DEFINE d == a - b
              e == 0 - 1
  <2>1. d \in Int /\ n % P = d % P /\ e \in Int
    BY <1>1, <1>2
  <2>. HIDE DEF d, e
  <2>4. \A c \in Int : (n + c) % P = (d + c) % P
    <3>. TAKE c \in Int
    <3>1. n \in Int
      BY <1>3, Zenon
    <3>2. n % P = d % P /\ d \in Int
      BY <2>1, Zenon
    <3>. QED  BY <3>1, <3>2, SameSum, ZenonT(20)
  <2>2. (n + 1) % P = (d + 1) % P
    BY <2>4
  <2>3. (n + e) % P = (d + e) % P
    BY <2>1, <2>4, Zenon
  <2>. QED  BY <2>2, <2>3, Zenon DEF d, e
<1>5. (a - b) + 1 = (a + 1) - b /\ (a - b) + (0 - 1) = a - (b + 1)
  OBVIOUS
<1>6. n + 1 < P => (n + 1) % P = n + 1
  BY <1>2
<1>7. n > 0 => (n + (0 - 1)) % P = n - 1
  BY <1>2
<1>8. n + 1 < P => ((a + 1) - b) % P = n + 1
  BY <1>4, <1>5, <1>6, Zenon
<1>9. n > 0 => (a - (b + 1)) % P = n - 1
  BY <1>4, <1>5, <1>7, Zenon
<1>. QED  BY <1>8, <1>9, Zenon DEF n

\* The sizes.
LEMMA Sizes == NUM \in Nat \ {0} /\ UINT16 \in Nat \ {0} /\ NUM <= UINT16 /\ NUM >= 3 /\ Descs = 0 .. NUM - 1
  BY VirtioAssumption DEF Descs

\* A uint16 that wraps goes on counting modulo NUM.
LEMMA Wrap ==
  ASSUME NEW a \in Int
  PROVE  a % UINT16 \in Int /\ (a % UINT16) % NUM = a % NUM
<1>1. NUM \in Nat \ {0} /\ UINT16 \in Nat \ {0} /\ 0 % NUM = UINT16 % NUM /\ 0 \in Int /\ UINT16 \in Int
  BY VirtioAssumption
<1>2. PICK q \in Int : UINT16 - 0 = NUM * q
  BY <1>1, SameRemainder, Zenon
<1>3. PICK m \in Int : a = UINT16 * m + (a % UINT16)
  BY <1>1, DivMod, Zenon
<1>4. a % UINT16 \in Int
  BY <1>1, DivMod
<1>5. UINT16 = NUM * q
  BY <1>1, <1>2
<1>6. a - (a % UINT16) = UINT16 * m
  BY <1>1, <1>3, <1>4
<1>7. q * m \in Int /\ (NUM * q) * m = NUM * (q * m)
  BY <1>1
<1>8. a - (a % UINT16) = NUM * (q * m)
  BY <1>5, <1>6, <1>7, Zenon
<1>. DEFINE b == a % UINT16
            z == q * m
<1>9. b \in Int /\ z \in Int /\ a - b = NUM * z
  BY <1>4, <1>7, <1>8, Zenon
<1>. HIDE DEF b, z
<1>10. b % NUM = a % NUM
  <2>1. Multiple(NUM, a - b)
    BY <1>9, Zenon DEF Multiple
  <2>. QED  BY <1>9, <2>1, Sizes, DifferByMultiple, Zenon
<1>. QED  BY <1>4, <1>10, Zenon DEF b

-----------------------------------------------------------------------------
(* Rings.                                                                  *)

\* Slots of a ring are descriptors.
LEMMA SlotIn ==
  ASSUME NEW a \in Int
  PROVE  a % NUM \in Descs
  BY Sizes, DivMod, Zenon

\* A ring counted from an index that wraps.
LEMMA RingFrom ==
  ASSUME NEW r, NEW s \in Int, NEW u \in Int, s % NUM = u % NUM, NEW n \in Nat
  PROVE  InRing(r, s, n) = InRing(r, u, n) /\ (Once(r, s, n) <=> Once(r, u, n))
<1>1. ASSUME NEW k \in 0 .. n - 1 PROVE (s + k) % NUM = (u + k) % NUM
  <2>1. k \in Int
    OBVIOUS
  <2>. QED  BY <2>1, Sizes, SameSum, Zenon
<1>. QED  BY <1>1, Zenon DEF InRing, Once

\* An entry that is written behind the others leaves them alone.
RingPut(r, s, n, x) == [r EXCEPT ![(s + n) % NUM] = x]

\* The ring after it: the n entries from s on are as before, x is behind them.
RingWritten(r, s, n, x) ==
  /\ InRing(RingPut(r, s, n, x), s, n) = InRing(r, s, n)
  /\ Once(RingPut(r, s, n, x), s, n) <=> Once(r, s, n)
  /\ RingPut(r, s, n, x) \in [Descs -> Descs]
  /\ RingPut(r, s, n, x)[(s + n) % NUM] = x

\* RingPut does what RingWritten says.
LEMMA RingWrite ==
  ASSUME NEW r \in [Descs -> Descs], NEW s \in Int, NEW n \in Nat, n < NUM, NEW x \in Descs
  PROVE  RingWritten(r, s, n, x)
<1>. DEFINE w == [r EXCEPT ![(s + n) % NUM] = x]
<1>1. (s + n) % NUM \in Descs
  BY SlotIn
<1>2. ASSUME NEW k \in 0 .. n - 1 PROVE w[(s + k) % NUM] = r[(s + k) % NUM]
  <2>1. k \in 0 .. NUM - 1 /\ n \in 0 .. NUM - 1 /\ k # n
    BY Sizes
  <2>2. (s + k) % NUM # (s + n) % NUM
    BY <2>1, Sizes, Apart, Zenon
  <2>3. (s + k) % NUM \in Descs
    BY SlotIn
  <2>. QED  BY <2>2, <2>3, Zenon
<1>3. w \in [Descs -> Descs] /\ w[(s + n) % NUM] = x
  BY <1>1, Zenon
<1>. HIDE DEF w
<1>4. InRing(w, s, n) = InRing(r, s, n) /\ (Once(w, s, n) <=> Once(r, s, n))
  BY <1>2, Zenon DEF InRing, Once
<1>. QED  BY <1>3, <1>4, Zenon DEF w, RingPut, RingWritten

\* A ring with one more entry at its end.
LEMMA RingMore ==
  ASSUME NEW r, NEW s \in Int, NEW n \in Nat
  PROVE  /\ InRing(r, s, n + 1) = InRing(r, s, n) \cup {r[(s + n) % NUM]}
         /\ Once(r, s, n) /\ r[(s + n) % NUM] \notin InRing(r, s, n) => Once(r, s, n + 1)
<1>1. \A k : k \in 0 .. (n + 1) - 1 <=> k \in 0 .. n - 1 \/ k = n
  OBVIOUS
<1>2. InRing(r, s, n + 1) = InRing(r, s, n) \cup {r[(s + n) % NUM]}
  BY <1>1, Zenon DEF InRing
<1>3. ASSUME Once(r, s, n), r[(s + n) % NUM] \notin InRing(r, s, n) PROVE Once(r, s, n + 1)
  BY <1>1, <1>3, Zenon DEF Once, InRing
<1>. QED  BY <1>2, <1>3, Zenon

\* A ring without its first entry.
LEMMA RingLess ==
  ASSUME NEW r, NEW s \in Int, NEW n \in Nat, n > 0
  PROVE  /\ InRing(r, s, n) = InRing(r, s + 1, n - 1) \cup {r[s % NUM]}
         /\ Once(r, s, n) => Once(r, s + 1, n - 1) /\ r[s % NUM] \notin InRing(r, s + 1, n - 1)
<1>1. \A k \in 0 .. n - 1 : k = 0 \/ k - 1 \in 0 .. (n - 1) - 1
  OBVIOUS
<1>2. \A k \in 0 .. (n - 1) - 1 : k + 1 \in 0 .. n - 1 /\ k + 1 # 0 /\ (s + 1) + k = s + (k + 1)
  OBVIOUS
<1>3. 0 \in 0 .. n - 1 /\ s + 0 = s
  OBVIOUS
<1>4. \A k \in 0 .. n - 1 : (s + 1) + (k - 1) = s + k
  OBVIOUS
<1>5. InRing(r, s, n) \subseteq InRing(r, s + 1, n - 1) \cup {r[s % NUM]}
  <2>. SUFFICES ASSUME NEW k \in 0 .. n - 1
                PROVE  r[(s + k) % NUM] \in InRing(r, s + 1, n - 1) \cup {r[s % NUM]}
    BY Zenon DEF InRing
  <2>1. CASE k = 0
    BY <1>3, <2>1, Zenon
  <2>2. CASE k # 0
    <3>1. k - 1 \in 0 .. (n - 1) - 1 /\ r[(s + k) % NUM] = r[((s + 1) + (k - 1)) % NUM]
      BY <1>1, <1>4, <2>2, Zenon
    <3>. QED  BY <3>1, Zenon DEF InRing
  <2>. QED  BY <2>1, <2>2, Zenon
<1>6. InRing(r, s + 1, n - 1) \cup {r[s % NUM]} \subseteq InRing(r, s, n)
  <2>1. r[s % NUM] \in InRing(r, s, n)
    BY <1>3, Zenon DEF InRing
  <2>2. InRing(r, s + 1, n - 1) \subseteq InRing(r, s, n)
    BY <1>2, Zenon DEF InRing
  <2>. QED  BY <2>1, <2>2, Zenon
<1>7. ASSUME Once(r, s, n) PROVE Once(r, s + 1, n - 1) /\ r[s % NUM] \notin InRing(r, s + 1, n - 1)
  <2>1. Once(r, s + 1, n - 1)
    <3>. SUFFICES ASSUME NEW j \in 0 .. (n - 1) - 1, NEW k \in 0 .. (n - 1) - 1,
                         r[((s + 1) + j) % NUM] = r[((s + 1) + k) % NUM]
                  PROVE  j = k
      BY Zenon DEF Once
    <3>1. /\ j + 1 \in 0 .. n - 1 /\ k + 1 \in 0 .. n - 1
          /\ r[(s + (j + 1)) % NUM] = r[(s + (k + 1)) % NUM]
      BY <1>2, Zenon
    <3>2. j + 1 = k + 1
      BY <1>7, <3>1, Zenon DEF Once
    <3>. QED  BY <3>2
  <2>2. ASSUME NEW k \in 0 .. (n - 1) - 1, r[s % NUM] = r[((s + 1) + k) % NUM] PROVE FALSE
    BY <1>2, <1>3, <1>7, <2>2, Zenon DEF Once
  <2>. QED  BY <2>1, <2>2, Zenon DEF InRing
<1>. QED  BY <1>5, <1>6, <1>7, Zenon

\* A ring in which nothing is twice, and some descriptor is not, has room.
LEMMA RingRoom ==
  ASSUME NEW r, NEW s \in Int, NEW n \in Nat, Once(r, s, n), InRing(r, s, n) \subseteq Descs,
         NEW x \in Descs, x \notin InRing(r, s, n)
  PROVE  n < NUM
<1>. SUFFICES ASSUME n >= NUM PROVE FALSE
  BY Sizes
<1>1. IsFiniteSet(Descs) /\ Cardinality(Descs) = NUM
  BY Sizes, FS_Interval
<1>2. IsFiniteSet(Descs \ {x}) /\ Cardinality(Descs \ {x}) = NUM - 1
  BY <1>1, FS_RemoveElement, Zenon
<1>3. IsFiniteSet(0 .. n - 1) /\ Cardinality(0 .. n - 1) = n
  <2>1. 0 \in Int /\ n - 1 \in Int /\ ~(0 > n - 1) /\ n - 1 - 0 + 1 = n
    BY Sizes
  <2>. QED  BY <2>1, FS_Interval, Zenon
<1>. DEFINE f == [k \in 0 .. n - 1 |-> r[(s + k) % NUM]]
<1>4. f \in [0 .. n - 1 -> Descs \ {x}]
  BY Zenon DEF InRing
<1>5. Cardinality(Descs \ {x}) < Cardinality(0 .. n - 1)
  BY <1>2, <1>3, Sizes
<1>6. \E j, k \in 0 .. n - 1 : j # k /\ f[j] = f[k]
  <2>. HIDE DEF f
  <2>. QED  BY <1>2, <1>3, <1>4, <1>5, FS_PigeonHole, Zenon
<1>. QED  BY <1>6, Zenon DEF Once

-----------------------------------------------------------------------------
(* What the invariant says of a state.                                     *)

\* The indices, and the slot that comes after the last entry of each ring.
LEMMA Counters ==
  ASSUME TypeOK
  PROVE  /\ NPending \in 0 .. UINT16 - 1 /\ NPending \in Nat /\ NUnseen \in 0 .. NUM - 1 /\ NUnseen \in Nat
         /\ {availIdx, devIdx, usedId, used_idx} \subseteq Int
         /\ availIdx % NUM = (devIdx + NPending) % NUM
         /\ usedId % NUM = (used_idx + NUnseen) % NUM
         /\ used_idx % NUM = used_idx
<1>1. {availIdx, devIdx, usedId, used_idx} \subseteq Int /\ used_idx \in 0 .. NUM - 1
  BY Sizes DEF TypeOK
<1>2. availIdx - devIdx \in Int /\ usedId - used_idx \in Int
  BY <1>1
<1>3. NPending \in 0 .. UINT16 - 1 /\ NUnseen \in 0 .. NUM - 1
  BY <1>2, Sizes, DivMod, Zenon DEF NPending, NUnseen
<1>4. NPending \in Int /\ NPending % NUM = (availIdx - devIdx) % NUM
  BY <1>2, Wrap, Zenon DEF NPending
<1>5. NUnseen \in Int /\ NUnseen % NUM = (usedId - used_idx) % NUM
  BY <1>2, Sizes, ModMod, Zenon DEF NUnseen
<1>6. (NPending + devIdx) % NUM = ((availIdx - devIdx) + devIdx) % NUM
  <2>. DEFINE d == availIdx - devIdx
  <2>1. d \in Int /\ NPending % NUM = d % NUM /\ devIdx \in Int
    BY <1>1, <1>2, <1>4, Zenon
  <2>. HIDE DEF d
  <2>2. (NPending + devIdx) % NUM = (d + devIdx) % NUM
    BY <1>4, <2>1, Sizes, SameSum, Zenon
  <2>. QED  BY <2>2, Zenon DEF d
<1>7. (NUnseen + used_idx) % NUM = ((usedId - used_idx) + used_idx) % NUM
  <2>. DEFINE d == usedId - used_idx
  <2>1. d \in Int /\ NUnseen % NUM = d % NUM /\ used_idx \in Int
    BY <1>1, <1>2, <1>5, Zenon
  <2>. HIDE DEF d
  <2>2. (NUnseen + used_idx) % NUM = (d + used_idx) % NUM
    BY <1>5, <2>1, Sizes, SameSum, Zenon
  <2>. QED  BY <2>2, Zenon DEF d
<1>8. NPending + devIdx = devIdx + NPending /\ (availIdx - devIdx) + devIdx = availIdx
  BY <1>1, <1>4
<1>9. NUnseen + used_idx = used_idx + NUnseen /\ (usedId - used_idx) + used_idx = usedId
  BY <1>1, <1>5
<1>10. used_idx % NUM = used_idx
  BY <1>1, Sizes
<1>. QED  BY <1>1, <1>3, <1>6, <1>7, <1>8, <1>9, <1>10

\* What the device and the rings hold.
Held == Pending \cup devBusy \cup Unseen

\* They hold first descriptors of requests; two requests have different ones, and
\* the second descriptor of a request is not the first of any.
LEMMA Heads ==
  ASSUME DiskInv
  PROVE  /\ \A i \in Held : i \in Descs /\ \E p \in Owners : idx[p] = i /\ info[i] = p /\ disk[p] = 1
         /\ \A p, q \in Owners : idx[p] = idx[q] => p = q
         /\ \A p \in Owners : idx[p] \in Descs /\ next[idx[p]] \in Descs /\ next[idx[p]] \notin Held
<1>1. \A p \in Owners : idx[p] \in Descs /\ p \in Procs
  BY Zenon DEF DiskInv, TypeOK, Owners
<1>2. \A i \in Held : i \in Descs /\ \E p \in Owners : idx[p] = i /\ info[i] = p /\ disk[p] = 1
  BY <1>1, Zenon DEF DiskInv, DeviceHoldsOnlyLive, Held
<1>3. \A p, q \in Owners : idx[p] = idx[q] => p = q
  BY Zenon DEF DiskInv, ChainsFormed
<1>4. ASSUME NEW p \in Owners PROVE next[idx[p]] \in Descs /\ next[idx[p]] \notin Held
  <2>1. next[idx[p]] \in Descs /\ next[idx[p]] # idx[p]
    BY Zenon DEF DiskInv, ChainsFormed
  <2>2. ASSUME NEW q \in Owners PROVE idx[q] # next[idx[p]]
    <3>1. CASE q = p
      BY <2>1, <3>1, Zenon
    <3>2. CASE q # p
      BY <3>2, Zenon DEF DiskInv, DescOwnedOnce, Chain
    <3>. QED  BY <3>1, <3>2, Zenon
  <2>. QED  BY <1>2, <2>1, <2>2, Zenon
<1>. QED  BY <1>1, <1>2, <1>3, <1>4, Zenon

\* Steps that leave the requests, the rings and the owners alone.
Untouched == UNCHANGED <<free, next, info, avail, availIdx, used_idx, used, usedId, devIdx, devBusy, idx, disk>>

\* Such steps keep DiskInv, if the lock and the places still agree.
LEMMA UntouchedKeeps ==
  ASSUME DiskInv, Untouched, TypeOK', Owners' = Owners,
         lock' = "intr" <=> intr' # "off",
         \A p \in Procs : (lock' = p <=> lock = p) /\ (lock' = p <=> pc'[p] = "publish")
  PROVE  DiskInv'
<1>1. NPending' = NPending /\ NUnseen' = NUnseen
  BY Zenon DEF Untouched, NPending, NUnseen
<1>2. Pending' = Pending /\ Unseen' = Unseen
  BY <1>1, Zenon DEF Pending, Unseen, Untouched
<1>3. LockAgrees'
  BY <1>2, Zenon DEF LockAgrees, DiskInv, Untouched
<1>4. ChainsFormed'
  BY Zenon DEF ChainsFormed, DiskInv, Untouched
<1>5. DescOwnedOnce'
  BY DEF DescOwnedOnce, Chain, DiskInv, Untouched
<1>6. RingsFit'
  BY <1>1, Zenon DEF RingsFit, DiskInv, Untouched
<1>7. DeviceHoldsOnlyLive'
  BY <1>2 DEF DeviceHoldsOnlyLive, DiskInv, Untouched
<1>8. \A p \in Owners : p \in Procs
  BY Zenon DEF Owners
<1>9. RequestNotLost'
  BY <1>2, <1>8, Zenon DEF RequestNotLost, DiskInv, Untouched
<1>. QED  BY <1>3, <1>4, <1>5, <1>6, <1>7, <1>9, Zenon DEF DiskInv

\* No lock is held by a process and by the handler, or by nobody, at once.
LEMMA LockKinds == \A p \in Procs : p # "intr" /\ p # None
  BY VirtioAssumption, Zenon DEF None

-----------------------------------------------------------------------------
(* The steps that only move a process or the handler.                      *)

\* One process moves, others may be woken; nobody comes to own descriptors.
LEMMA MoveKeeps ==
  ASSUME DiskInv, Untouched, UNCHANGED <<lock, intr, isr>>, pc' \in [Procs -> PCs],
         \A p \in Procs : \/ pc'[p] = pc[p]
                          \/ {pc[p], pc'[p]} \subseteq {"idle", "alloc", "nodesc"}
                          \/ {pc[p], pc'[p]} \subseteq {"asleep", "woken"}
  PROVE  DiskInv'
<1>1. TypeOK'
  BY Zenon DEF DiskInv, TypeOK, Untouched
<1>2. Owners' = Owners
  BY Zenon DEF Owners
<1>3. \A p \in Procs : pc'[p] = "publish" <=> pc[p] = "publish"
  BY Zenon
<1>4. /\ lock' = "intr" <=> intr' # "off"
      /\ \A p \in Procs : (lock' = p <=> lock = p) /\ (lock' = p <=> pc'[p] = "publish")
  BY <1>3, Zenon DEF DiskInv, LockAgrees
<1>. QED  BY <1>1, <1>2, <1>4, UntouchedKeeps, Zenon

\* virtio_disk_rw() begins.
LEMMA StartKeeps == ASSUME DiskInv, NEW p \in Procs, Start(p) PROVE DiskInv'
<1>1. pc' \in [Procs -> PCs] /\ \A q \in Procs : pc'[q] = pc[q] \/ {pc[q], pc'[q]} \subseteq {"idle", "alloc", "nodesc"}
  BY Zenon DEF Start, DiskInv, TypeOK, PCs
<1>. QED  BY <1>1, MoveKeeps, Zenon DEF Start, driver, device, Untouched

\* alloc3_desc() fails.
LEMMA AllocFailKeeps == ASSUME DiskInv, NEW p \in Procs, AllocFail(p) PROVE DiskInv'
<1>1. pc' \in [Procs -> PCs] /\ \A q \in Procs : pc'[q] = pc[q] \/ {pc[q], pc'[q]} \subseteq {"idle", "alloc", "nodesc"}
  BY Zenon DEF AllocFail, WakeAllocators, DiskInv, TypeOK, PCs
<1>. QED  BY <1>1, MoveKeeps, Zenon DEF AllocFail, driver, device, Untouched

\* A sleeper finds that its request has not finished.
LEMMA SleepAgainKeeps == ASSUME DiskInv, NEW p \in Procs, SleepAgain(p) PROVE DiskInv'
<1>1. pc' \in [Procs -> PCs] /\ \A q \in Procs : pc'[q] = pc[q] \/ {pc[q], pc'[q]} \subseteq {"asleep", "woken"}
  BY Zenon DEF SleepAgain, DiskInv, TypeOK, PCs
<1>. QED  BY <1>1, MoveKeeps, Zenon DEF SleepAgain, driver, device, Untouched

\* kill() ends a sleep.
LEMMA KillKeeps == ASSUME DiskInv, NEW p \in Procs, Kill(p) PROVE DiskInv'
<1>1. /\ pc' \in [Procs -> PCs]
      /\ \A q \in Procs : \/ pc'[q] = pc[q]
                          \/ {pc[q], pc'[q]} \subseteq {"idle", "alloc", "nodesc"}
                          \/ {pc[q], pc'[q]} \subseteq {"asleep", "woken"}
  BY Zenon DEF Kill, DiskInv, TypeOK, PCs
<1>. QED  BY <1>1, MoveKeeps, Zenon DEF Kill, driver, device, Untouched

\* The handler takes vdisk_lock, finds nothing more, acknowledges and releases it.
LEMMA HandlerKeeps == ASSUME DiskInv, IntrBegin \/ IntrLast \/ IntrAck PROVE DiskInv'
<1>1. Untouched /\ pc' = pc
  BY Zenon DEF IntrBegin, IntrLast, IntrAck, driver, device, Untouched
<1>2. TypeOK'
  BY <1>1, Zenon DEF IntrBegin, IntrLast, IntrAck, device, DiskInv, TypeOK, Untouched
<1>3. Owners' = Owners
  BY <1>1, Zenon DEF Owners
<1>4. /\ lock' = "intr" <=> intr' # "off"
      /\ \A p \in Procs : lock' = p <=> lock = p
  BY LockKinds, Zenon DEF IntrBegin, IntrLast, IntrAck, DiskInv, LockAgrees, None
<1>5. \A p \in Procs : lock' = p <=> pc'[p] = "publish"
  BY <1>1, <1>4, Zenon DEF DiskInv, LockAgrees
<1>. QED  BY <1>1, <1>2, <1>3, <1>4, <1>5, UntouchedKeeps, Zenon

-----------------------------------------------------------------------------
(* alloc3_desc().                                                          *)

\* A set of numbers has a least one.
LEMMA MinIn ==
  ASSUME NEW S \in SUBSET Nat, S # {}
  PROVE  Min(S) \in S
<1>1. PICK x \in S : \A y \in S : ~(<<y, x>> \in OpToRel(<, Nat))
  BY NatLessThanWellFounded, WFMin, Zenon
<1>2. \A y \in S : ~(y < x)
  BY <1>1, Zenon DEF OpToRel
<1>3. \A y \in S : x =< y
  BY <1>2
<1>. QED  BY <1>3, Zenon DEF Min

\* alloc_desc() finds three different free descriptors when there are three.
LEMMA ThreeFree ==
  ASSUME TypeOK, Cardinality(free) >= 3
  PROVE  \E a, b, c \in free : a # b /\ c \notin {a, b} /\ Lowest3 = <<a, b, c>>
<1>1. free \in SUBSET Nat /\ IsFiniteSet(free)
  <2>1. IsFiniteSet(Descs) /\ Descs \subseteq Nat
    BY Sizes, FS_Interval
  <2>. QED  BY <2>1, FS_Subset, Zenon DEF TypeOK
<1>2. Cardinality(free) \in Nat /\ free # {}
  BY <1>1, FS_CardinalityType, FS_EmptySet
<1>. DEFINE a == Min(free)
            F == free \ {a}
            b == Min(F)
            G == F \ {b}
            c == Min(G)
<1>3. a \in free
  BY <1>1, <1>2, MinIn, Zenon
<1>. HIDE DEF a
<1>4. IsFiniteSet(F) /\ Cardinality(F) = Cardinality(free) - 1
  BY <1>1, <1>3, FS_RemoveElement, Zenon
<1>5. F # {} /\ F \in SUBSET Nat
  <2>1. Cardinality(F) # 0
    BY <1>2, <1>4
  <2>. QED  BY <1>1, <2>1, FS_EmptySet, Zenon
<1>. HIDE DEF F
<1>6. b \in F
  BY <1>5, MinIn, Zenon
<1>. HIDE DEF b
<1>7. IsFiniteSet(G) /\ Cardinality(G) = Cardinality(F) - 1
  BY <1>4, <1>6, FS_RemoveElement, Zenon
<1>8. G # {} /\ G \in SUBSET Nat
  <2>1. Cardinality(G) # 0
    BY <1>2, <1>4, <1>7
  <2>. QED  BY <1>5, <2>1, FS_EmptySet, Zenon
<1>. HIDE DEF G
<1>9. c \in G
  BY <1>8, MinIn, Zenon
<1>. HIDE DEF c
<1>10. b \in free /\ c \in free /\ a # b /\ c \notin {a, b}
  BY <1>6, <1>9, Zenon DEF F, G
<1>11. Lowest3 = <<a, b, c>>
  <2>1. G = free \ {a, b}
    BY Zenon DEF F, G
  <2>. QED  BY <2>1, Zenon DEF Lowest3, a, b, c, F
<1>. QED  BY <1>3, <1>10, <1>11, Zenon

\* A request is made: three free descriptors become its chain, and the slot behind
\* the avail ring holds the first of them.
LEMMA AllocKeeps == ASSUME DiskInv, NEW p \in Procs, Alloc(p) PROVE DiskInv'
<1>. USE DEF DiskInv
<1>1. PICK a, b, c \in free : a # b /\ c \notin {a, b} /\ Lowest3 = <<a, b, c>>
  BY ThreeFree, Zenon DEF Alloc
<1>2. /\ free' = free \ {a, b, c} /\ next' = [next EXCEPT ![a] = b, ![b] = c, ![c] = NoNext]
      /\ info' = [info EXCEPT ![a] = p] /\ avail' = [avail EXCEPT ![availIdx % NUM] = a]
      /\ idx' = [idx EXCEPT ![p] = a]
  BY <1>1, Zenon DEF Alloc
<1>3. /\ disk' = [disk EXCEPT ![p] = 1] /\ lock' = p /\ pc' = [pc EXCEPT ![p] = "publish"]
      /\ availIdx' = availIdx /\ used_idx' = used_idx /\ used' = used /\ usedId' = usedId /\ devIdx' = devIdx
      /\ devBusy' = devBusy /\ isr' = isr /\ intr' = intr /\ lock = None /\ pc[p] = "alloc"
  BY Zenon DEF Alloc, device
<1>4. a \in Descs /\ b \in Descs /\ c \in Descs
  BY Zenon DEF TypeOK
<1>5. /\ next'[a] = b /\ next'[b] = c /\ \A d \in Descs \ {a, b, c} : next'[d] = next[d]
      /\ info'[a] = p /\ \A d \in Descs \ {a} : info'[d] = info[d]
  BY <1>1, <1>2, <1>4, Zenon DEF TypeOK
<1>6. /\ idx'[p] = a /\ disk'[p] = 1 /\ pc'[p] = "publish"
      /\ \A q \in Procs \ {p} : idx'[q] = idx[q] /\ disk'[q] = disk[q] /\ pc'[q] = pc[q]
  BY <1>2, <1>3, Zenon DEF TypeOK
<1>7. Owners' = Owners \cup {p} /\ p \notin Owners /\ Owners \subseteq Procs
  BY <1>3, <1>6, Zenon DEF Owners
<1>8. \A q \in Owners : q # p /\ q \in Procs /\ idx'[q] = idx[q] /\ disk'[q] = disk[q]
  BY <1>6, <1>7, Zenon
<1>9. \A q \in Owners : Chain(idx[q]) \cap {a, b, c} = {} /\ Chain(idx[q]) \subseteq Descs
  BY Heads DEF DescOwnedOnce, ChainsFormed, Chain
<1>10. \A q \in Owners : /\ idx[q] \in Descs \ {a, b, c} /\ next[idx[q]] \in Descs \ {a, b, c}
                         /\ next[next[idx[q]]] \in Descs \ {a, b, c}
  BY <1>9, Zenon DEF Chain
<1>11. \A q \in Owners : Chain(idx[q])' = Chain(idx[q])
  BY <1>5, <1>8, <1>10 DEF Chain
<1>12. Chain(idx[p])' = {a, b, c}
  BY <1>5, <1>6, Zenon DEF Chain
<1>13. TypeOK'
  <2>1. next' \in [Descs -> Descs \cup {NoNext}] /\ info' \in [Descs -> Procs \cup {None}]
    BY <1>2, <1>4, Zenon DEF TypeOK
  <2>2. avail' \in [Descs -> Descs] /\ idx' \in [Procs -> Descs] /\ disk' \in [Procs -> {0, 1}]
    BY <1>2, <1>3, <1>4, Zenon DEF TypeOK
  <2>3. pc' \in [Procs -> PCs] /\ free' \subseteq Descs
    BY <1>2, <1>3, Zenon DEF TypeOK, PCs
  <2>. QED  BY <1>3, <2>1, <2>2, <2>3, Zenon DEF TypeOK
<1>14. NPending' = NPending /\ NUnseen' = NUnseen /\ Unseen' = Unseen /\ (Once(used, used_idx, NUnseen))' = Once(used, used_idx, NUnseen)
  BY <1>3, Zenon DEF NPending, NUnseen, Unseen
<1>15. Pending' = Pending /\ (Once(avail', devIdx, NPending) <=> Once(avail, devIdx, NPending)) /\ avail'[availIdx % NUM] = a
  <2>1. /\ avail \in [Descs -> Descs] /\ devIdx \in Int /\ NPending \in Nat /\ NPending < NUM
        /\ availIdx % NUM = (devIdx + NPending) % NUM
    BY Counters, Zenon DEF TypeOK, RingsFit
  <2>2. avail' = [avail EXCEPT ![(devIdx + NPending) % NUM] = a]
    BY <1>2, <2>1, Zenon
  <2>3. /\ InRing(avail', devIdx, NPending) = InRing(avail, devIdx, NPending)
        /\ (Once(avail', devIdx, NPending) <=> Once(avail, devIdx, NPending))
        /\ avail'[(devIdx + NPending) % NUM] = a
    <3>. DEFINE w == RingPut(avail, devIdx, NPending, a)
    <3>1. /\ InRing(w, devIdx, NPending) = InRing(avail, devIdx, NPending)
          /\ Once(w, devIdx, NPending) <=> Once(avail, devIdx, NPending)
          /\ w[(devIdx + NPending) % NUM] = a
      <4>1. RingWritten(avail, devIdx, NPending, a)
        BY <1>4, <2>1, RingWrite, Zenon
      <4>. QED  BY <4>1, Zenon DEF RingWritten
    <3>. HIDE DEF w
    <3>2. avail' = w
      BY <2>2, Zenon DEF w, RingPut
    <3>. QED  BY <3>1, <3>2, Zenon
  <2>. QED  BY <1>3, <1>14, <2>1, <2>3, Zenon DEF Pending
<1>16. \A i \in Held : i # a
  BY <1>10, Heads, Zenon
<1>17. LockAgrees'
  <2>1. lock' = "intr" <=> intr' # "off"
    BY <1>3, LockKinds, Zenon DEF LockAgrees, None
  <2>2. \A q \in Procs : lock' = q <=> pc'[q] = "publish"
    BY <1>3, <1>6, LockKinds, Zenon DEF LockAgrees
  <2>3. disk'[p] = 1 /\ avail'[availIdx' % NUM] = idx'[p] /\ idx'[p] \notin (Pending \cup devBusy \cup Unseen)'
    BY <1>3, <1>6, <1>14, <1>15, <1>16, Zenon DEF Held
  <2>. QED  BY <1>3, <2>1, <2>2, <2>3, Zenon DEF LockAgrees
<1>18. ChainsFormed'
  <2>1. info'[idx'[p]] = p /\ next'[idx'[p]] = b /\ next'[next'[idx'[p]]] = c
    BY <1>5, <1>6, Zenon
  <2>2. ASSUME NEW q \in Owners
        PROVE  info'[idx'[q]] = q /\ next'[idx'[q]] = next[idx[q]] /\ next'[next'[idx'[q]]] = next[next[idx[q]]]
    BY <1>5, <1>8, <1>10 DEF ChainsFormed
  <2>. QED  BY <1>1, <1>4, <1>6, <1>7, <1>8, <2>1, <2>2 DEF ChainsFormed
<1>19. DescOwnedOnce'
  <2>1. \A q, s \in Owners' : q # s => Chain(idx[q])' \cap Chain(idx[s])' = {}
    BY <1>7, <1>9, <1>11, <1>12 DEF DescOwnedOnce
  <2>2. \A d : (\E q \in Owners' : d \in Chain(idx[q])') <=> (\E q \in Owners : d \in Chain(idx[q])) \/ d \in {a, b, c}
    BY <1>7, <1>11, <1>12, Zenon
  <2>3. free' = Descs \ UNION {Chain(idx[q])' : q \in Owners'}
    <3>1. free' = free \ {a, b, c} /\ free = Descs \ UNION {Chain(idx[q]) : q \in Owners}
      BY <1>2, Zenon DEF DescOwnedOnce
    <3>2. \A d : d \in free' <=> d \in Descs /\ ~ \E q \in Owners' : d \in Chain(idx[q])'
      <4>1. \A d : d \in free <=> d \in Descs /\ ~ \E q \in Owners : d \in Chain(idx[q])
        BY <3>1, Zenon
      <4>2. \A d : d \in free' <=> d \in free /\ d \notin {a, b, c}
        BY <3>1, Zenon
      <4>. QED  BY <2>2, <4>1, <4>2, Zenon
    <3>. QED  BY <3>2, Zenon
  <2>. QED  BY <2>1, <2>3, Zenon DEF DescOwnedOnce
<1>20. RingsFit'
  BY <1>3, <1>14, <1>15, Zenon DEF RingsFit
<1>21. DeviceHoldsOnlyLive'
  <2>1. \A i \in Held : \E q \in Owners : idx'[q] = i /\ info'[i] = q /\ disk'[q] = 1
    BY <1>5, <1>8, <1>16, Heads
  <2>. QED  BY <1>3, <1>7, <1>14, <1>15, <2>1 DEF DeviceHoldsOnlyLive, Held
<1>22. RequestNotLost'
  <2>1. \A q \in Owners' \ {lock'} : q \in Owners \ {lock}
    BY <1>3, <1>7, LockKinds, Zenon
  <2>. QED  BY <1>3, <1>8, <1>14, <1>15, <2>1, Zenon DEF RequestNotLost
<1>. QED  BY <1>13, <1>17, <1>18, <1>19, <1>20, <1>21, <1>22, Zenon

-----------------------------------------------------------------------------
(* The steps of a request.                                                 *)

\* Both ends of a count: one end moves on.
LEMMA CountUp ==
  ASSUME NEW P \in Nat \ {0}, NEW a \in Int, NEW b \in Int, NEW c \in Int, c % P = (a + 1) % P, ((a - b) % P) + 1 < P
  PROVE  (c - b) % P = ((a - b) % P) + 1
<1>1. a + 1 \in Int /\ 0 - b \in Int /\ c + (0 - b) = c - b /\ (a + 1) + (0 - b) = (a + 1) - b
  OBVIOUS
<1>2. (c + (0 - b)) % P = ((a + 1) + (0 - b)) % P
  BY <1>1, SameSum, Zenon
<1>3. ((a + 1) - b) % P = ((a - b) % P) + 1
  BY Ahead, Zenon
<1>. QED  BY <1>1, <1>2, <1>3, Zenon

\* A counter that catches up leaves one less between the two.
LEMMA CountDown ==
  ASSUME NEW P \in Nat \ {0}, NEW a \in Int, NEW b \in Int, NEW c \in Int, c % P = (b + 1) % P, (a - b) % P > 0
  PROVE  (a - c) % P = ((a - b) % P) - 1
<1>1. b + 1 \in Int /\ a - c \in Int /\ a - (b + 1) \in Int
  OBVIOUS
<1>2. PICK m \in Int : (b + 1) - c = P * m
  BY <1>1, SameRemainder, Zenon
<1>3. (a - c) - (a - (b + 1)) = P * m
  BY <1>2
<1>4. (a - (b + 1)) % P = (a - c) % P
  <2>. DEFINE x == a - (b + 1)
              y == a - c
  <2>1. x \in Int /\ y \in Int /\ y - x = P * m
    BY <1>1, <1>3, Zenon
  <2>. HIDE DEF x, y
  <2>2. x % P = y % P
    <3>1. Multiple(P, y - x)
      BY <2>1, Zenon DEF Multiple
    <3>. QED  BY <2>1, <3>1, DifferByMultiple, Zenon
  <2>. QED  BY <2>2, Zenon DEF x, y
<1>5. (a - (b + 1)) % P = ((a - b) % P) - 1
  BY Ahead, Zenon
<1>. QED  BY <1>4, <1>5, Zenon

\* avail[1]++: the device may take the request.
LEMMA PublishKeeps == ASSUME DiskInv, NEW p \in Procs, Publish(p) PROVE DiskInv'
<1>. USE DEF DiskInv
<1>1. /\ availIdx' = (availIdx + 1) % UINT16 /\ pc' = [pc EXCEPT ![p] = "asleep"] /\ lock' = None
      /\ free' = free /\ next' = next /\ info' = info /\ avail' = avail /\ used_idx' = used_idx /\ used' = used
      /\ usedId' = usedId /\ devIdx' = devIdx /\ devBusy' = devBusy /\ isr' = isr /\ intr' = intr /\ idx' = idx
      /\ disk' = disk /\ pc[p] = "publish"
  BY Zenon DEF Publish, device
<1>2. lock = p /\ disk[p] = 1 /\ avail[availIdx % NUM] = idx[p] /\ idx[p] \notin Held
  BY <1>1, Zenon DEF LockAgrees, Held
<1>3. pc'[p] = "asleep" /\ \A q \in Procs \ {p} : pc'[q] = pc[q]
  BY <1>1, Zenon DEF TypeOK
<1>4. Owners' = Owners /\ p \in Owners /\ Owners \subseteq Procs
  BY <1>1, <1>3, Zenon DEF Owners
<1>5. /\ NPending \in Nat /\ NPending + 1 \in Nat /\ devIdx \in Int /\ availIdx \in Int /\ availIdx + 1 \in Int
      /\ avail[(devIdx + NPending) % NUM] = idx[p]
  BY <1>2, Counters
<1>6. /\ InRing(avail, devIdx, NPending + 1) = Pending \cup {idx[p]}
      /\ Once(avail, devIdx, NPending + 1)
  <2>1. Once(avail, devIdx, NPending) /\ idx[p] \notin InRing(avail, devIdx, NPending)
    BY <1>2, Zenon DEF RingsFit, Held, Pending
  <2>2. Pending = InRing(avail, devIdx, NPending)
    BY Zenon DEF Pending
  <2>. QED  BY <1>5, <2>1, <2>2, RingMore
<1>7. NPending + 1 < NUM
  <2>1. /\ \A i \in Held : i \in Descs
        /\ next[idx[p]] \in Descs /\ next[idx[p]] \notin Held /\ idx[p] \in Descs /\ next[idx[p]] # idx[p]
    BY <1>4, Heads, Zenon DEF ChainsFormed
  <2>2. /\ InRing(avail, devIdx, NPending + 1) \subseteq Descs
        /\ next[idx[p]] \notin InRing(avail, devIdx, NPending + 1)
    BY <1>6, <2>1, Zenon DEF Held
  <2>. QED  BY <1>5, <1>6, <2>1, <2>2, RingRoom, Zenon
<1>8. NPending' = NPending + 1
  <2>1. availIdx' \in Int /\ availIdx' % UINT16 = (availIdx + 1) % UINT16
    BY <1>1, <1>5, Sizes, ModMod, Zenon
  <2>2. ((availIdx - devIdx) % UINT16) + 1 < UINT16
    BY <1>5, <1>7, Sizes DEF NPending
  <2>3. (availIdx' - devIdx) % UINT16 = ((availIdx - devIdx) % UINT16) + 1
    BY <1>5, <2>1, <2>2, Sizes, CountUp, Zenon
  <2>. QED  BY <1>1, <2>3, Zenon DEF NPending
<1>9. Pending' = Pending \cup {idx[p]} /\ NUnseen' = NUnseen /\ Unseen' = Unseen
  BY <1>1, <1>6, <1>8, Zenon DEF Pending, NUnseen, Unseen
<1>10. TypeOK'
  <2>1. availIdx' \in 0 .. UINT16 - 1
    BY <1>1, <1>5, Sizes, DivMod, Zenon
  <2>. QED  BY <1>1, <2>1, Zenon DEF TypeOK, PCs
<1>11. LockAgrees'
  BY <1>1, <1>2, <1>3, LockKinds, Zenon DEF LockAgrees, None
<1>12. ChainsFormed' /\ DescOwnedOnce'
  BY <1>1, <1>4 DEF ChainsFormed, DescOwnedOnce, Chain
<1>13. RingsFit'
  BY <1>1, <1>6, <1>7, <1>8, <1>9, Zenon DEF RingsFit
<1>14. DeviceHoldsOnlyLive'
  BY <1>1, <1>2, <1>4, <1>9 DEF DeviceHoldsOnlyLive, ChainsFormed
<1>15. RequestNotLost'
  BY <1>1, <1>2, <1>4, <1>9, Zenon DEF RequestNotLost, Held
<1>. QED  BY <1>10, <1>11, <1>12, <1>13, <1>14, <1>15, Zenon

\* The request has finished: its descriptors are free.
LEMMA FinishKeeps == ASSUME DiskInv, NEW p \in Procs, Finish(p) PROVE DiskInv'
<1>. USE DEF DiskInv
<1>1. /\ info' = [info EXCEPT ![idx[p]] = None] /\ free' = free \cup Chain(idx[p]) /\ idx' = [idx EXCEPT ![p] = 0]
      /\ pc' = WakeAllocators([pc EXCEPT ![p] = "idle"]) /\ pc[p] = "woken" /\ lock = None /\ disk[p] = 0
      /\ next' = next /\ avail' = avail /\ availIdx' = availIdx /\ used_idx' = used_idx /\ used' = used
      /\ usedId' = usedId /\ devIdx' = devIdx /\ devBusy' = devBusy /\ isr' = isr /\ lock' = lock /\ intr' = intr
      /\ disk' = disk
  BY Zenon DEF Finish, device
<1>2. pc' \in [Procs -> PCs] /\ pc'[p] = "idle"
      /\ \A q \in Procs \ {p} : pc'[q] = pc[q] \/ {pc[q], pc'[q]} \subseteq {"alloc", "nodesc"}
  BY <1>1, Zenon DEF WakeAllocators, TypeOK, PCs
<1>3. Owners' = Owners \ {p} /\ p \in Owners /\ Owners \subseteq Procs
  BY <1>1, <1>2, Zenon DEF Owners
<1>4. \A q \in Owners' : q # p /\ q \in Owners /\ q \in Procs /\ idx'[q] = idx[q] /\ idx[q] # idx[p]
  BY <1>1, <1>3, Heads, Zenon DEF TypeOK
<1>5. idx[p] \in Descs /\ \A d \in Descs \ {idx[p]} : info'[d] = info[d]
  BY <1>1, Zenon DEF TypeOK
<1>6. \A q \in Owners' : idx[q] \in Descs /\ info'[idx[q]] = info[idx[q]] /\ Chain(idx[q])' = Chain(idx[q])
  BY <1>1, <1>4, <1>5, Zenon DEF TypeOK, Chain
<1>7. TypeOK'
  <2>1. Chain(idx[p]) \subseteq Descs
    BY <1>3, <1>5, Zenon DEF ChainsFormed, Chain
  <2>2. info' \in [Descs -> Procs \cup {None}] /\ free' \subseteq Descs
    BY <1>1, <2>1, Zenon DEF TypeOK
  <2>3. idx' \in [Procs -> Descs]
    BY <1>1, Sizes DEF TypeOK
  <2>. QED  BY <1>1, <1>2, <2>2, <2>3, Zenon DEF TypeOK
<1>8. NPending' = NPending /\ NUnseen' = NUnseen /\ Pending' = Pending /\ Unseen' = Unseen
  BY <1>1, Zenon DEF NPending, NUnseen, Pending, Unseen
<1>9. LockAgrees'
  <2>1. \A q \in Procs : lock' # q /\ pc'[q] # "publish"
    BY <1>1, <1>2, LockKinds, Zenon DEF LockAgrees
  <2>. QED  BY <1>1, <2>1, Zenon DEF LockAgrees
<1>10. ChainsFormed'
  BY <1>1, <1>4, <1>6, Zenon DEF ChainsFormed
<1>11. DescOwnedOnce'
  <2>1. \A q, s \in Owners' : q # s => Chain(idx[q])' \cap Chain(idx[s])' = {}
    BY <1>4, <1>6 DEF DescOwnedOnce
  <2>2. UNION {Chain(idx[q])' : q \in Owners'} = UNION {Chain(idx[q]) : q \in Owners'}
    BY <1>6
  <2>3. \A q \in Owners' : Chain(idx[q]) \cap Chain(idx[p]) = {}
    BY <1>3, <1>4, Zenon DEF DescOwnedOnce
  <2>4. Chain(idx[p]) \subseteq Descs
    BY <1>3, <1>5, Zenon DEF ChainsFormed, Chain
  <2>5. \A d : (\E q \in Owners : d \in Chain(idx[q])) <=> (\E q \in Owners' : d \in Chain(idx[q])) \/ d \in Chain(idx[p])
    BY <1>3, Zenon
  <2>6. free' = Descs \ UNION {Chain(idx[q]) : q \in Owners'}
    <3>1. free' = free \cup Chain(idx[p]) /\ free = Descs \ UNION {Chain(idx[q]) : q \in Owners}
      BY <1>1, Zenon DEF DescOwnedOnce
    <3>2. \A d : d \in free' <=> d \in Descs /\ ~ \E q \in Owners' : d \in Chain(idx[q])
      BY <2>3, <2>4, <2>5, <3>1, Zenon
    <3>. QED  BY <3>2, Zenon
  <2>. QED  BY <2>1, <2>2, <2>6, Zenon DEF DescOwnedOnce
<1>12. RingsFit'
  BY <1>1, <1>8, Zenon DEF RingsFit
<1>13. DeviceHoldsOnlyLive'
  <2>1. ASSUME NEW i \in Held PROVE \E q \in Owners' : idx'[q] = i /\ info'[i] = q /\ disk'[q] = 1
    <3>1. PICK q \in Owners : idx[q] = i /\ info[i] = q /\ disk[q] = 1
      BY Heads, Zenon
    <3>2. q \in Owners'
      BY <1>1, <1>3, <3>1
    <3>. QED  BY <1>1, <1>4, <1>6, <3>1, <3>2, Zenon
  <2>. QED  BY <1>1, <1>8, <2>1, Zenon DEF DeviceHoldsOnlyLive, Held
<1>14. RequestNotLost'
  BY <1>1, <1>4, <1>8, Zenon DEF RequestNotLost
<1>. QED  BY <1>7, <1>9, <1>10, <1>11, <1>12, <1>13, <1>14, Zenon

\* The handler sees one finished request and wakes its process.
LEMMA IntrLoopKeeps == ASSUME DiskInv, IntrLoop PROVE DiskInv'
<1>. USE DEF DiskInv
<1>. DEFINE i == used[used_idx]
            p == info[i]
<1>1. /\ disk' = [disk EXCEPT ![p] = 0] /\ pc' = [pc EXCEPT ![p] = IF @ = "asleep" THEN "woken" ELSE @]
      /\ used_idx' = (used_idx + 1) % NUM /\ used_idx % NUM # usedId % NUM
      /\ free' = free /\ next' = next /\ info' = info /\ avail' = avail /\ availIdx' = availIdx /\ used' = used
      /\ usedId' = usedId /\ devIdx' = devIdx /\ devBusy' = devBusy /\ isr' = isr /\ lock' = lock /\ intr' = intr
      /\ idx' = idx /\ intr = "loop"
  BY Zenon DEF IntrLoop, device
<1>2. /\ NUnseen \in Nat /\ used_idx \in Int /\ usedId \in Int /\ used_idx + 1 \in Int
      /\ usedId % NUM = (used_idx + NUnseen) % NUM /\ used_idx % NUM = used_idx
  BY Counters
<1>3. NUnseen > 0
  <2>1. NUnseen # 0
    <3>. SUFFICES ASSUME NUnseen = 0 PROVE FALSE
      BY Zenon
    <3>1. used_idx + NUnseen = used_idx
      BY <1>2
    <3>. QED  BY <1>1, <1>2, <3>1, Zenon
  <2>. QED  BY <1>2, <2>1
<1>4. /\ Unseen = InRing(used, used_idx + 1, NUnseen - 1) \cup {i}
      /\ Once(used, used_idx + 1, NUnseen - 1) /\ i \notin InRing(used, used_idx + 1, NUnseen - 1)
  BY <1>2, <1>3, RingLess DEF RingsFit, Unseen
<1>5. used_idx' \in Int /\ used_idx' % NUM = (used_idx + 1) % NUM
  BY <1>1, <1>2, Sizes, ModMod, Zenon
<1>6. NUnseen' = NUnseen - 1 /\ NUnseen - 1 \in Nat
  <2>1. (usedId - used_idx) % NUM > 0
    BY <1>3, Zenon DEF NUnseen
  <2>2. (usedId - used_idx') % NUM = ((usedId - used_idx) % NUM) - 1
    BY <1>2, <1>5, <2>1, Sizes, CountDown, Zenon
  <2>3. NUnseen' = NUnseen - 1
    BY <1>1, <2>2, Zenon DEF NUnseen
  <2>. QED  BY <1>2, <1>3, <2>3
<1>7. /\ InRing(used, used_idx', NUnseen - 1) = InRing(used, used_idx + 1, NUnseen - 1)
      /\ (Once(used, used_idx', NUnseen - 1) <=> Once(used, used_idx + 1, NUnseen - 1))
  BY <1>2, <1>5, <1>6, RingFrom, Zenon
<1>8. Unseen' = Unseen \ {i} /\ i \in Unseen /\ Once(used, used_idx, NUnseen)'
  BY <1>1, <1>4, <1>6, <1>7, Zenon DEF Unseen
<1>9. NPending' = NPending /\ Pending' = Pending /\ Once(avail, devIdx, NPending)' = Once(avail, devIdx, NPending)
  BY <1>1, Zenon DEF NPending, Pending
<1>10. p \in Owners /\ idx[p] = i /\ disk[p] = 1 /\ i \in Held /\ Owners \subseteq Procs
  <2>1. i \in Held /\ Owners \subseteq Procs
    BY <1>8, Zenon DEF Held, Owners
  <2>2. PICK q \in Owners : idx[q] = i /\ info[i] = q /\ disk[q] = 1
    BY <2>1, Heads, Zenon
  <2>. QED  BY <2>1, <2>2, Zenon
<1>. HIDE DEF p, i
<1>11. /\ disk'[p] = 0 /\ \A q \in Procs \ {p} : disk'[q] = disk[q] /\ pc'[q] = pc[q]
       /\ pc'[p] = pc[p] \/ (pc[p] = "asleep" /\ pc'[p] = "woken")
       /\ pc' \in [Procs -> PCs] /\ disk' \in [Procs -> {0, 1}]
  BY <1>1, <1>10, Zenon DEF TypeOK, PCs
<1>12. Owners' = Owners
  BY <1>10, <1>11, Zenon DEF Owners
<1>13. TypeOK'
  <2>1. used_idx' \in Descs
    BY <1>1, <1>2, SlotIn, Zenon
  <2>. QED  BY <1>1, <1>11, <2>1, Zenon DEF TypeOK
<1>14. LockAgrees'
  <2>1. lock = "intr"
    BY <1>1, Zenon DEF LockAgrees
  <2>2. \A q \in Procs : lock' # q /\ pc'[q] # "publish"
    BY <1>1, <1>11, <2>1, LockKinds, Zenon DEF LockAgrees
  <2>. QED  BY <1>1, <2>2, Zenon DEF LockAgrees
<1>15. ChainsFormed' /\ DescOwnedOnce'
  <2>1. ChainsFormed'
    BY <1>1, <1>12, Zenon DEF ChainsFormed
  <2>2. DescOwnedOnce'
    BY <1>1, <1>12 DEF DescOwnedOnce, Chain
  <2>. QED  BY <2>1, <2>2, Zenon
<1>16. RingsFit'
  BY <1>8, <1>9, Zenon DEF RingsFit
<1>17. (Pending \cup devBusy \cup Unseen)' = Held \ {i}
  BY <1>1, <1>8, <1>9, Zenon DEF RequestNotLost, Held
<1>18. DeviceHoldsOnlyLive'
  <2>1. ASSUME NEW j \in Held \ {i} PROVE \E q \in Owners : idx[q] = j /\ info[j] = q /\ disk'[q] = 1
    <3>1. PICK q \in Owners : idx[q] = j /\ info[j] = q /\ disk[q] = 1
      BY Heads, Zenon
    <3>2. q # p /\ q \in Procs
      BY <1>10, <3>1, Zenon
    <3>. QED  BY <1>11, <3>1, <3>2, Zenon
  <2>. QED  BY <1>1, <1>12, <1>17, <2>1 DEF DeviceHoldsOnlyLive
<1>19. RequestNotLost'
  <2>1. Pending' \cap devBusy' = {} /\ Pending' \cap Unseen' = {} /\ devBusy' \cap Unseen' = {}
    BY <1>1, <1>8, <1>9, Zenon DEF RequestNotLost
  <2>2. ASSUME NEW q \in Owners \ {lock}, disk'[q] = 1 PROVE idx[q] \in Held \ {i}
    <3>1. q # p /\ q \in Procs /\ disk[q] = 1
      BY <1>10, <1>11, <2>2
    <3>2. idx[q] # i
      BY <1>10, <3>1, Heads, Zenon
    <3>. QED  BY <3>1, <3>2, Zenon DEF RequestNotLost, Held
  <2>. QED  BY <1>1, <1>12, <1>17, <2>1, <2>2, Zenon DEF RequestNotLost
<1>. QED  BY <1>13, <1>14, <1>15, <1>16, <1>18, <1>19, Zenon

\* Two indices that differ are apart.
LEMMA Differ ==
  ASSUME NEW P \in Nat \ {0}, NEW a \in 0 .. P - 1, NEW b \in 0 .. P - 1, a # b
  PROVE  (a - b) % P > 0
<1>. SUFFICES ASSUME (a - b) % P = 0 PROVE FALSE
  <2>1. a - b \in Int
    OBVIOUS
  <2>2. (a - b) % P \in 0 .. P - 1
    BY <2>1, DivMod, Zenon
  <2>. QED  BY <2>2
<1>1. PICK m \in Int : a - b = P * m + ((a - b) % P)
  <2>1. a - b \in Int
    OBVIOUS
  <2>. QED  BY <2>1, DivMod, Zenon
<1>2. a - b = P * m /\ 0 - m \in Int /\ P * (0 - m) = 0 - P * m
  BY <1>1
<1>3. CASE a > b
  <2>1. P * m > 0 /\ P * m < P
    BY <1>2, <1>3
  <2>. QED  BY <2>1, NoMultiple, Zenon
<1>4. CASE a < b
  <2>1. P * (0 - m) > 0 /\ P * (0 - m) < P
    BY <1>2, <1>4
  <2>. QED  BY <1>2, <2>1, NoMultiple, Zenon
<1>. QED  BY <1>3, <1>4

\* The device takes a request.
LEMMA DevTakeKeeps == ASSUME DiskInv, DevTake PROVE DiskInv'
<1>. USE DEF DiskInv
<1>. DEFINE i == avail[devIdx % NUM]
<1>1. /\ devIdx # availIdx /\ devBusy' = devBusy \cup {i} /\ devIdx' = (devIdx + 1) % UINT16
      /\ free' = free /\ next' = next /\ info' = info /\ avail' = avail /\ availIdx' = availIdx
      /\ used_idx' = used_idx /\ used' = used /\ usedId' = usedId /\ isr' = isr /\ lock' = lock /\ intr' = intr
      /\ pc' = pc /\ idx' = idx /\ disk' = disk
  BY Zenon DEF DevTake, driver
<1>2. NPending \in Nat /\ devIdx \in Int /\ availIdx \in Int /\ devIdx + 1 \in Int
  BY Counters
<1>3. NPending > 0
  BY <1>1, Sizes, Differ, Zenon DEF TypeOK, NPending
<1>4. /\ Pending = InRing(avail, devIdx + 1, NPending - 1) \cup {i}
      /\ Once(avail, devIdx + 1, NPending - 1) /\ i \notin InRing(avail, devIdx + 1, NPending - 1)
  BY <1>2, <1>3, RingLess, Zenon DEF RingsFit, Pending
<1>5. devIdx' \in Int /\ devIdx' % UINT16 = (devIdx + 1) % UINT16 /\ devIdx' % NUM = (devIdx + 1) % NUM
  BY <1>1, <1>2, Sizes, ModMod, Wrap, Zenon
<1>6. NPending' = NPending - 1 /\ NPending - 1 \in Nat
  <2>1. (availIdx - devIdx) % UINT16 > 0
    BY <1>3, Zenon DEF NPending
  <2>2. (availIdx - devIdx') % UINT16 = ((availIdx - devIdx) % UINT16) - 1
    BY <1>2, <1>5, <2>1, Sizes, CountDown, Zenon
  <2>3. NPending' = NPending - 1
    BY <1>1, <2>2, Zenon DEF NPending
  <2>. QED  BY <1>2, <1>3, <2>3
<1>7. /\ InRing(avail, devIdx', NPending - 1) = InRing(avail, devIdx + 1, NPending - 1)
      /\ (Once(avail, devIdx', NPending - 1) <=> Once(avail, devIdx + 1, NPending - 1))
  BY <1>2, <1>5, <1>6, RingFrom, Zenon
<1>8. Pending' = Pending \ {i} /\ i \in Pending /\ Once(avail, devIdx, NPending)'
  BY <1>1, <1>4, <1>6, <1>7, Zenon DEF Pending
<1>. HIDE DEF i
<1>9. NUnseen' = NUnseen /\ Unseen' = Unseen /\ Owners' = Owners
  BY <1>1, Zenon DEF NUnseen, Unseen, Owners
<1>10. (Pending \cup devBusy \cup Unseen)' = Held
  BY <1>1, <1>8, <1>9, Zenon DEF Held
<1>11. TypeOK'
  <2>1. devIdx' \in 0 .. UINT16 - 1
    BY <1>1, <1>2, Sizes, DivMod, Zenon
  <2>2. i \in Descs
    BY <1>8, Heads, Zenon DEF Held
  <2>. QED  BY <1>1, <2>1, <2>2, Zenon DEF TypeOK
<1>12. LockAgrees'
  BY <1>1, <1>10, Zenon DEF LockAgrees, Held
<1>13. ChainsFormed' /\ DescOwnedOnce'
  BY <1>1, <1>9 DEF ChainsFormed, DescOwnedOnce, Chain
<1>14. RingsFit'
  BY <1>1, <1>2, <1>6, <1>8, <1>9, Sizes DEF RingsFit
<1>15. DeviceHoldsOnlyLive'
  BY <1>1, <1>9, <1>10, Zenon DEF DeviceHoldsOnlyLive, Held
<1>16. RequestNotLost'
  BY <1>1, <1>8, <1>9, <1>10, Zenon DEF RequestNotLost, Held
<1>. QED  BY <1>11, <1>12, <1>13, <1>14, <1>15, <1>16, Zenon

\* The device finishes a request, of those it works on any.
LEMMA DevFinishKeeps == ASSUME DiskInv, NEW i \in Descs, DevFinish(i) PROVE DiskInv'
<1>. USE DEF DiskInv
<1>1. /\ i \in devBusy /\ devBusy' = devBusy \ {i} /\ used' = [used EXCEPT ![usedId % NUM] = i]
      /\ usedId' = (usedId + 1) % UINT16 /\ isr' = 1
      /\ free' = free /\ next' = next /\ info' = info /\ avail' = avail /\ availIdx' = availIdx
      /\ used_idx' = used_idx /\ devIdx' = devIdx /\ lock' = lock /\ intr' = intr
      /\ pc' = pc /\ idx' = idx /\ disk' = disk
  BY Zenon DEF DevFinish, driver
<1>2. /\ NUnseen \in Nat /\ NUnseen < NUM /\ NUnseen + 1 \in Nat /\ used_idx \in Int /\ usedId \in Int /\ usedId + 1 \in Int
      /\ usedId % NUM = (used_idx + NUnseen) % NUM /\ used \in [Descs -> Descs]
  <2>1. used \in [Descs -> Descs]
    BY Zenon DEF TypeOK
  <2>2. /\ NUnseen \in 0 .. NUM - 1 /\ NUnseen \in Nat /\ {availIdx, devIdx, usedId, used_idx} \subseteq Int
        /\ usedId % NUM = (used_idx + NUnseen) % NUM
    BY Counters, Zenon
  <2>3. used_idx \in Int /\ usedId \in Int
    BY <2>2, Zenon
  <2>4. NUnseen < NUM /\ NUnseen + 1 \in Nat /\ usedId + 1 \in Int
    BY <2>2, <2>3, Sizes
  <2>. QED  BY <2>1, <2>2, <2>3, <2>4, Zenon
<1>3. used' = [used EXCEPT ![(used_idx + NUnseen) % NUM] = i]
  BY <1>1, <1>2, Zenon
<1>4. /\ InRing(used', used_idx, NUnseen) = Unseen /\ (Once(used', used_idx, NUnseen) <=> Once(used, used_idx, NUnseen))
      /\ used' \in [Descs -> Descs] /\ used'[(used_idx + NUnseen) % NUM] = i
  <2>. DEFINE w == RingPut(used, used_idx, NUnseen, i)
  <2>1. /\ InRing(w, used_idx, NUnseen) = InRing(used, used_idx, NUnseen)
        /\ Once(w, used_idx, NUnseen) <=> Once(used, used_idx, NUnseen)
        /\ w \in [Descs -> Descs] /\ w[(used_idx + NUnseen) % NUM] = i
    <3>1. RingWritten(used, used_idx, NUnseen, i)
      BY <1>2, RingWrite, Zenon
    <3>. QED  BY <3>1, Zenon DEF RingWritten
  <2>. HIDE DEF w
  <2>2. used' = w
    BY <1>3, Zenon DEF w, RingPut
  <2>. QED  BY <2>1, <2>2, Zenon DEF Unseen
<1>5. i \notin Unseen /\ i \notin Pending /\ i \in Held
  BY <1>1, Zenon DEF RequestNotLost, Held
<1>6. InRing(used', used_idx, NUnseen + 1) = Unseen \cup {i} /\ Once(used', used_idx, NUnseen + 1)
  <2>1. Once(used', used_idx, NUnseen)
    BY <1>4, Zenon DEF RingsFit
  <2>. DEFINE r == used'
  <2>2. /\ InRing(r, used_idx, NUnseen) = Unseen /\ r[(used_idx + NUnseen) % NUM] = i /\ Once(r, used_idx, NUnseen)
    BY <1>4, <2>1, Zenon
  <2>. HIDE DEF r
  <2>3. InRing(r, used_idx, NUnseen + 1) = Unseen \cup {i} /\ Once(r, used_idx, NUnseen + 1)
    BY <1>2, <1>5, <2>2, RingMore, Zenon
  <2>. QED  BY <2>3, Zenon DEF r
<1>7. PICK p \in Owners : idx[p] = i /\ info[i] = p /\ disk[p] = 1
  BY <1>5, Heads, Zenon
<1>8. NUnseen + 1 < NUM
  <2>1. /\ \A j \in Held : j \in Descs
        /\ next[idx[p]] \in Descs /\ next[idx[p]] \notin Held
    BY <1>7, Heads, Zenon
  <2>. DEFINE r == used'
  <2>2. /\ InRing(r, used_idx, NUnseen + 1) \subseteq Descs
        /\ next[idx[p]] \notin InRing(r, used_idx, NUnseen + 1) /\ Once(r, used_idx, NUnseen + 1)
    BY <1>5, <1>6, <2>1, Zenon DEF Held
  <2>. HIDE DEF r
  <2>. QED  BY <1>2, <2>1, <2>2, RingRoom, Zenon
<1>9. usedId' \in Int /\ usedId' % NUM = (usedId + 1) % NUM
  BY <1>1, <1>2, Wrap, Zenon
<1>10. NUnseen' = NUnseen + 1
  <2>1. ((usedId - used_idx) % NUM) + 1 < NUM
    BY <1>8, Zenon DEF NUnseen
  <2>2. (usedId' - used_idx) % NUM = ((usedId - used_idx) % NUM) + 1
    <3>. DEFINE c == usedId'
    <3>1. c \in Int /\ c % NUM = (usedId + 1) % NUM
      BY <1>9, Zenon
    <3>. HIDE DEF c
    <3>2. (c - used_idx) % NUM = ((usedId - used_idx) % NUM) + 1
      BY <1>2, <2>1, <3>1, Sizes, CountUp, Zenon
    <3>. QED  BY <3>2, Zenon DEF c
  <2>. QED  BY <1>1, <2>2, Zenon DEF NUnseen
<1>11. Unseen' = Unseen \cup {i} /\ Once(used, used_idx, NUnseen)'
  BY <1>1, <1>6, <1>10, Zenon DEF Unseen
<1>12. NPending' = NPending /\ Pending' = Pending /\ Owners' = Owners
  BY <1>1, Zenon DEF NPending, Pending, Owners
<1>13. (Pending \cup devBusy \cup Unseen)' = Held
  BY <1>1, <1>11, <1>12, Zenon DEF Held
<1>14. TypeOK'
  <2>1. usedId' \in 0 .. UINT16 - 1
    BY <1>1, <1>2, Sizes, DivMod, Zenon
  <2>. QED  BY <1>1, <1>4, <2>1 DEF TypeOK
<1>15. LockAgrees'
  BY <1>1, <1>13, Zenon DEF LockAgrees, Held
<1>16. ChainsFormed' /\ DescOwnedOnce'
  <2>1. ChainsFormed'
    BY <1>1, <1>12, Zenon DEF ChainsFormed
  <2>2. DescOwnedOnce'
    BY <1>1, <1>12, Zenon DEF DescOwnedOnce, Chain
  <2>. QED  BY <2>1, <2>2, Zenon
<1>17. RingsFit'
  BY <1>1, <1>11, <1>12, Zenon DEF RingsFit
<1>18. DeviceHoldsOnlyLive'
  BY <1>1, <1>12, <1>13, Zenon DEF DeviceHoldsOnlyLive, Held
<1>19. RequestNotLost'
  BY <1>1, <1>5, <1>11, <1>12, <1>13, Zenon DEF RequestNotLost, Held
<1>. QED  BY <1>14, <1>15, <1>16, <1>17, <1>18, <1>19, Zenon

-----------------------------------------------------------------------------
(* The theorems.                                                           *)

\* virtio_disk_init(): no request, empty rings, all descriptors free.
LEMMA DiskInit == Init => DiskInv
<1>. SUFFICES ASSUME Init PROVE DiskInv
  BY Zenon
<1>1. 0 \in Descs /\ 0 \in 0 .. UINT16 - 1 /\ 0 - 0 = 0 /\ 0 % UINT16 = 0 /\ 0 % NUM = 0
  BY Sizes
<1>2. TypeOK
  BY <1>1, Zenon DEF Init, TypeOK, PCs
<1>3. NPending = 0 /\ NUnseen = 0
  BY <1>1, Zenon DEF Init, NPending, NUnseen
<1>4. Owners = {}
  BY Zenon DEF Init, Owners
<1>5. \A k : k \notin 0 .. 0 - 1
  OBVIOUS
<1>6. Pending = {} /\ Unseen = {} /\ devBusy = {}
  BY <1>3, <1>5, Zenon DEF Init, Pending, Unseen, InRing
<1>7. RingsFit
  BY <1>3, <1>5, Sizes DEF RingsFit, Once
<1>8. LockAgrees
  BY LockKinds, Zenon DEF Init, LockAgrees, None
<1>9. ChainsFormed /\ DescOwnedOnce /\ DeviceHoldsOnlyLive /\ RequestNotLost
  BY <1>4, <1>6, Zenon DEF Init, ChainsFormed, DescOwnedOnce, DeviceHoldsOnlyLive, RequestNotLost
<1>. QED  BY <1>2, <1>7, <1>8, <1>9, Zenon DEF DiskInv

\* Every step of a process, of the handler or of the device keeps the invariant.
LEMMA DiskNext == DiskInv /\ [Next]_vars => DiskInv'
<1>. SUFFICES ASSUME DiskInv, [Next]_vars PROVE DiskInv'
  BY Zenon
<1>1. CASE UNCHANGED vars
  <2>1. Untouched /\ UNCHANGED <<lock, intr, isr, pc>>
    BY <1>1, Zenon DEF vars, driver, device, Untouched
  <2>. QED  BY <2>1, MoveKeeps, Zenon DEF DiskInv, TypeOK
<1>2. ASSUME NEW p \in Procs, Start(p) \/ RW(p) \/ Kill(p) PROVE DiskInv'
  BY <1>2, StartKeeps, AllocKeeps, AllocFailKeeps, PublishKeeps, SleepAgainKeeps, FinishKeeps, KillKeeps, Zenon DEF RW
<1>3. CASE Intr
  BY <1>3, HandlerKeeps, IntrLoopKeeps, Zenon DEF Intr
<1>. QED  BY <1>1, <1>2, <1>3, DevTakeKeeps, DevFinishKeeps, Zenon DEF Next

\* The driver, its interrupt handler and the device agree on every request, for any
\* number of processes and of descriptors: descriptors are owned once, the rings do
\* not overrun, and the device holds nothing that was given back.
THEOREM DiskCorrect == Spec => []DiskInv
  BY DiskInit, DiskNext, PTL DEF Spec

\* free_desc() is never called for a free descriptor, and none is leaked.
THEOREM DescOwnedOnceTheorem == Spec => []DescOwnedOnce
<1>1. DiskInv => DescOwnedOnce
  BY Zenon DEF DiskInv
<1>. QED  BY <1>1, DiskCorrect, PTL

\* virtio_disk_rw() reuses no descriptor that the device may still access.
THEOREM DeviceHoldsOnlyLiveTheorem == Spec => []DeviceHoldsOnlyLive
<1>1. DiskInv => DeviceHoldsOnlyLive
  BY Zenon DEF DiskInv
<1>. QED  BY <1>1, DiskCorrect, PTL

\* A request for which virtio_disk_rw() waits is in exactly one place.
THEOREM RequestNotLostTheorem == Spec => []RequestNotLost
<1>1. DiskInv => RequestNotLost
  BY Zenon DEF DiskInv
<1>. QED  BY <1>1, DiskCorrect, PTL
=============================================================================
