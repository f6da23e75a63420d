---------------------------- MODULE BuffersProofs ---------------------------
(***************************************************************************)
(* Proofs about module Buffers, for any number of processes, blocks and    *)
(* buffers: a block has one buffer with its current contents, reference    *)
(* counts are exact, sleep locks exclude and lose no wakeup, and bget()    *)
(* finds a buffer when there are enough of them.                           *)
(***************************************************************************)
EXTENDS Buffers, FiniteSetTheorems, WellFoundedInduction, TLAPS

\* What a buffer may hold.
BufType == [blockno : Blocks \cup {Nil}, valid : 0 .. 1, refcnt : Nat, locked : CacheProcs \cup {Nil},
            data : 0 .. Values - 1]

\* A block is cached at most once.
OneBuffer == \A k \in Blocks : \A b, c \in Cached(k) : b = c

\* The inductive part of CacheInv; OneCopy and BuffersSuffice follow from it.
Inv == CacheTypeOK /\ OneBuffer /\ Contents /\ UsersAgree /\ RefsCounted /\ Exclusive /\ SleepersHaveWaker

\* The buffer of a process that is in a call.
LEMMA BufferOf ==
  ASSUME Inv, NEW p \in CacheProcs, t[p].pc # "idle"
  PROVE  /\ t[p].b \in Bufs /\ buf[t[p].b] \in BufType
         /\ B(p).blockno \in Blocks /\ B(p).blockno # Nil
         /\ t[p] \in [pc : CachePCs, b : 0 .. NBUF]
<1>1. t[p].b \in 0 .. NBUF /\ t[p].b # 0 /\ t[p] \in [pc : CachePCs, b : 0 .. NBUF]
  BY Zenon DEF Inv, CacheTypeOK, UsersAgree
<1>2. t[p].b \in Bufs
  BY <1>1, BuffersAssumption DEF Bufs
<1>. QED  BY <1>1, <1>2 DEF Inv, CacheTypeOK, UsersAgree, B, BufType

\* The other buffer of a process that has two.
LEMMA OuterOf ==
  ASSUME Inv, NEW p \in CacheProcs, outer[p] # 0
  PROVE  /\ outer[p] \in Bufs /\ outer[p] # t[p].b /\ p \in Deep /\ t[p].pc # "idle"
         /\ buf[outer[p]].valid = 1 /\ buf[outer[p]].blockno \in Blocks /\ buf[outer[p]].blockno # Nil
<1>1. outer[p] \in 0 .. NBUF /\ outer[p] # t[p].b /\ p \in Deep /\ t[p].pc # "idle" /\ buf[outer[p]].valid = 1
  BY Zenon DEF Inv, CacheTypeOK, UsersAgree
<1>2. outer[p] \in Bufs
  BY <1>1, BuffersAssumption DEF Bufs
<1>. QED  BY <1>1, <1>2 DEF Inv, CacheTypeOK, Contents

\* Buffers that differ in one block.
LEMMA SameBlock ==
  ASSUME OneBuffer, NEW b \in Bufs, NEW c \in Bufs, buf[b].blockno \in Blocks, buf[b].blockno = buf[c].blockno
  PROVE  b = c
  BY Zenon DEF OneBuffer, Cached

\* The users of a buffer can be counted.
LEMMA UsersFinite ==
  ASSUME NEW b
  PROVE  IsFiniteSet(Users(b)) /\ Cardinality(Users(b)) \in Nat
<1>1. Users(b) \in SUBSET CacheProcs /\ IsFiniteSet(CacheProcs)
  BY BuffersAssumption, Zenon DEF Users
<1>2. IsFiniteSet(Users(b))
  BY <1>1, FS_Subset, Zenon
<1>. QED  BY <1>2, FS_CardinalityType, Zenon

-----------------------------------------------------------------------------
(* Steps of a process that change nothing but its place.                   *)

\* A step that moves p to x, where the lock is held as before.
LEMMA Moves ==
  ASSUME Inv, NEW p \in CacheProcs, NEW x \in CachePCs,
         t[p].pc # "idle", x # "idle",
         t' = [t EXCEPT ![p].pc = x], UNCHANGED <<buf, lru, home, pinned, outer, last>>,
         x \in {"bread", "reading", "locked", "writing"} <=> Holds(t[p]),
         x \in {"locked", "writing"} => B(p).valid = 1,
         x = "reading" => B(p).valid = 0,
         x = "writing" => B(p).blockno \in pinned,
         x = "asleep" => B(p).locked \notin {Nil, p}
  PROVE  Inv'
<1>1. t \in [CacheProcs -> [pc : CachePCs, b : 0 .. NBUF]]
  BY Zenon DEF Inv, CacheTypeOK
<1>2. /\ \A q \in CacheProcs : t'[q].b = t[q].b
      /\ \A q \in CacheProcs : t'[q].pc = IF q = p THEN x ELSE t[q].pc
  BY <1>1, Zenon
<1>3. CacheTypeOK'
  <2>1. t' \in [CacheProcs -> [pc : CachePCs, b : 0 .. NBUF]]
    BY <1>1, Zenon
  <2>. QED  BY <2>1, Zenon DEF Inv, CacheTypeOK
<1>4. OneBuffer'
  BY Zenon DEF Inv, OneBuffer, Cached
<1>5. Contents'
  BY Zenon DEF Inv, Contents, Cached
<1>6. UsersAgree'
  BY <1>2 DEF Inv, UsersAgree, B
<1>7. RefsCounted'
  <2>1. \A b \in Bufs : Users(b)' = Users(b)
    BY <1>2, Zenon DEF Users
  <2>. QED  BY <2>1, Zenon DEF Inv, RefsCounted
<1>8. Exclusive'
  BY <1>2 DEF Inv, Exclusive, Owns, Holds
<1>9. SleepersHaveWaker'
  BY <1>2 DEF Inv, SleepersHaveWaker, B
<1>. QED  BY <1>3, <1>4, <1>5, <1>6, <1>7, <1>8, <1>9, Zenon DEF Inv

-----------------------------------------------------------------------------
(* Steps of a process that change its buffer, but not whose it is.         *)

\* What such a step does to the counts: the pin is the only change.
LEMMA CountsStay ==
  ASSUME Inv, NEW b \in Bufs, buf[b].blockno \in Blocks,
         \A q \in CacheProcs : t'[q].b = t[q].b, outer' = outer,
         \A c \in Bufs \ {b} : buf'[c] = buf[c],
         buf'[b].blockno = buf[b].blockno,
         \A k \in Blocks \ {buf[b].blockno} : k \in pinned' <=> k \in pinned,
         pinned \subseteq Blocks, pinned' \subseteq Blocks,
         buf'[b].refcnt = buf[b].refcnt + (IF buf[b].blockno \in pinned' THEN 1 ELSE 0)
                                        - (IF buf[b].blockno \in pinned THEN 1 ELSE 0)
  PROVE  RefsCounted'
<1>1. \A c \in Bufs : Users(c)' = Users(c)
  BY Zenon DEF Users
<1>. SUFFICES ASSUME NEW c \in Bufs
              PROVE  buf'[c].refcnt = Cardinality(Users(c)) + (IF buf'[c].blockno \in pinned' THEN 1 ELSE 0)
  BY <1>1, Zenon DEF RefsCounted
<1>2. buf[c].refcnt = Cardinality(Users(c)) + (IF buf[c].blockno \in pinned THEN 1 ELSE 0) /\ Cardinality(Users(c)) \in Nat
  BY UsersFinite, Zenon DEF Inv, RefsCounted
<1>3. CASE c = b
  BY <1>2, <1>3
<1>4. CASE c # b
  <2>1. buf[c].blockno # buf[b].blockno
    BY <1>4, SameBlock, Zenon DEF Inv
  <2>2. buf[c].blockno \in Blocks \cup {Nil} /\ Nil \notin Blocks
    BY BuffersAssumption, Zenon DEF Inv, CacheTypeOK
  <2>3. buf[c].blockno \in pinned' <=> buf[c].blockno \in pinned
    BY <2>1, <2>2, Zenon
  <2>. QED  BY <1>2, <1>4, <2>3, Zenon
<1>. QED  BY <1>3, <1>4, Zenon

\* acquiresleep() that gets the lock.
LEMMA AcquireKeeps ==
  ASSUME Inv, NEW p \in CacheProcs, At(p, "acquiresleep"), B(p).locked = Nil,
         buf' = [buf EXCEPT ![t[p].b].locked = p], Goto(p, "bread"), UNCHANGED <<lru, home, pinned, outer, last>>
  PROVE  Inv'
<1>0. PICK b \in Bufs : b = t[p].b /\ buf[b] \in BufType /\ buf[b].blockno \in Blocks
  BY BufferOf, Zenon DEF At, B
<1>1. buf \in [Bufs -> BufType] /\ t \in [CacheProcs -> [pc : CachePCs, b : 0 .. NBUF]]
  BY Zenon DEF Inv, CacheTypeOK, BufType
<1>2. /\ \A c \in Bufs : /\ buf'[c].blockno = buf[c].blockno /\ buf'[c].valid = buf[c].valid
                         /\ buf'[c].data = buf[c].data /\ buf'[c].refcnt = buf[c].refcnt
                         /\ buf'[c].locked = IF c = b THEN p ELSE buf[c].locked
      /\ \A c \in Bufs \ {b} : buf'[c] = buf[c]
  BY <1>0, <1>1, Zenon DEF BufType
<1>3. /\ \A q \in CacheProcs : t'[q].b = t[q].b
      /\ \A q \in CacheProcs : t'[q].pc = IF q = p THEN "bread" ELSE t[q].pc
  BY <1>1, Zenon DEF Goto
<1>4. CacheTypeOK'
  <2>1. buf' \in [Bufs -> BufType]
    BY <1>0, <1>1, Zenon DEF BufType
  <2>2. t' \in [CacheProcs -> [pc : CachePCs, b : 0 .. NBUF]]
    BY <1>1, Zenon DEF Goto, CachePCs
  <2>. QED  BY <2>1, <2>2, Zenon DEF Inv, CacheTypeOK, BufType
<1>5. OneBuffer'
  BY <1>2 DEF Inv, OneBuffer, Cached
<1>6. Contents'
  BY <1>2 DEF Inv, Contents, Cached
<1>7. UsersAgree'
  <2>1. \A q \in CacheProcs : (t[q].b # 0 => t[q].b \in Bufs) /\ (outer[q] # 0 => outer[q] \in Bufs)
    BY <1>1, OuterOf, BuffersAssumption DEF Bufs
  <2>. QED  BY <1>2, <1>3, <2>1 DEF Inv, UsersAgree, B, At
<1>8. RefsCounted'
  <2>1. /\ buf'[b].refcnt = buf[b].refcnt + (IF buf[b].blockno \in pinned' THEN 1 ELSE 0)
                                         - (IF buf[b].blockno \in pinned THEN 1 ELSE 0)
        /\ pinned \subseteq Blocks /\ pinned' = pinned
    BY <1>0, <1>2 DEF Inv, CacheTypeOK, BufType
  <2>. QED  BY <1>0, <1>2, <1>3, <2>1, CountsStay, Zenon
<1>9. Exclusive'
  <2>1. \A q \in CacheProcs : ~Owns(q, b)
    BY <1>0, BuffersAssumption DEF Inv, Exclusive, B
  <2>2. \A q \in CacheProcs, c \in Bufs : Owns(q, c)' <=> Owns(q, c) \/ (q = p /\ c = b)
    BY <1>0, <1>3 DEF Owns, Holds, At
  <2>. QED  BY <1>0, <1>2, <2>1, <2>2 DEF Inv, Exclusive
<1>10. SleepersHaveWaker'
  <2>. SUFFICES ASSUME NEW q \in CacheProcs, t'[q].pc = "asleep" PROVE buf'[t'[q].b].locked \notin {Nil, q}
    BY Zenon DEF SleepersHaveWaker, B
  <2>1. q # p /\ t[q].pc = "asleep" /\ t'[q].b = t[q].b
    BY <1>3, Zenon
  <2>2. t[q].b \in Bufs /\ buf[t[q].b].locked \notin {Nil, q}
    BY <2>1, BufferOf, Zenon DEF Inv, SleepersHaveWaker, B
  <2>. QED  BY <1>2, <2>1, <2>2, BuffersAssumption
<1>. QED  BY <1>4, <1>5, <1>6, <1>7, <1>8, <1>9, <1>10, Zenon DEF Inv

\* releasesleep() wakes everybody who sleeps for the buffer.
LEMMA ReleaseKeeps ==
  ASSUME Inv, NEW p \in CacheProcs, releasesleep(p)
  PROVE  Inv'
<1>0. PICK b \in Bufs : b = t[p].b /\ buf[b] \in BufType /\ buf[b].blockno \in Blocks
  BY BufferOf, Zenon DEF At, B, releasesleep
<1>1. buf \in [Bufs -> BufType] /\ t \in [CacheProcs -> [pc : CachePCs, b : 0 .. NBUF]]
  BY Zenon DEF Inv, CacheTypeOK, BufType
<1>2. /\ \A c \in Bufs : /\ buf'[c].blockno = buf[c].blockno /\ buf'[c].valid = buf[c].valid
                         /\ buf'[c].data = buf[c].data /\ buf'[c].refcnt = buf[c].refcnt
                         /\ buf'[c].locked = IF c = b THEN Nil ELSE buf[c].locked
      /\ \A c \in Bufs \ {b} : buf'[c] = buf[c]
  BY <1>0, <1>1, Zenon DEF BufType, releasesleep
<1>3. /\ \A q \in CacheProcs : t'[q].b = t[q].b
      /\ \A q \in CacheProcs : t'[q].pc = IF q = p THEN "brelse"
                                     ELSE IF t[q].pc = "asleep" /\ t[q].b = b THEN "acquiresleep" ELSE t[q].pc
      /\ t' \in [CacheProcs -> [pc : CachePCs, b : 0 .. NBUF]]
  <2> DEFINE s == [t EXCEPT ![p].pc = "brelse"]
  <2>1. /\ s \in [CacheProcs -> [pc : CachePCs, b : 0 .. NBUF]]
        /\ \A q \in CacheProcs : s[q].b = t[q].b /\ s[q].pc = IF q = p THEN "brelse" ELSE t[q].pc
    BY <1>1, Zenon DEF CachePCs
  <2>2. t' = [q \in CacheProcs |-> IF s[q].pc = "asleep" /\ s[q].b = b THEN [s[q] EXCEPT !.pc = "acquiresleep"] ELSE s[q]]
    BY <1>0 DEF releasesleep, Wakeup
  <2>. HIDE DEF s
  <2>3. "acquiresleep" \in CachePCs
    BY Zenon DEF CachePCs
  <2>4. t' \in [CacheProcs -> [pc : CachePCs, b : 0 .. NBUF]]
    BY <2>1, <2>2, <2>3, Zenon
  <2>5. \A q \in CacheProcs : /\ t'[q].b = s[q].b
                         /\ t'[q].pc = IF s[q].pc = "asleep" /\ s[q].b = b THEN "acquiresleep" ELSE s[q].pc
    BY <2>1, <2>2, Zenon
  <2>. QED  BY <2>1, <2>4, <2>5, Zenon
<1>11. home' = home /\ pinned' = pinned /\ outer' = outer /\ last' = last /\ t[p].pc = "locked"
  BY Zenon DEF releasesleep, At
<1>4. CacheTypeOK'
  <2>1. buf' \in [Bufs -> BufType]
    BY <1>0, <1>1, Zenon DEF BufType, releasesleep
  <2>. QED  BY <1>3, <2>1, Zenon DEF Inv, CacheTypeOK, BufType, releasesleep
<1>5. OneBuffer'
  BY <1>2 DEF Inv, OneBuffer, Cached
<1>6. Contents'
  BY <1>2, <1>11 DEF Inv, Contents, Cached
<1>7. UsersAgree'
  <2>1. \A q \in CacheProcs : (t[q].b # 0 => t[q].b \in Bufs) /\ (outer[q] # 0 => outer[q] \in Bufs)
    BY <1>1, OuterOf, BuffersAssumption DEF Bufs
  <2>. QED  BY <1>2, <1>3, <1>11, <2>1 DEF Inv, UsersAgree, B
<1>8. RefsCounted'
  <2>1. /\ buf'[b].refcnt = buf[b].refcnt + (IF buf[b].blockno \in pinned' THEN 1 ELSE 0)
                                         - (IF buf[b].blockno \in pinned THEN 1 ELSE 0)
        /\ pinned \subseteq Blocks /\ pinned' = pinned
    BY <1>0, <1>2, <1>11 DEF Inv, CacheTypeOK, BufType
  <2>. QED  BY <1>0, <1>2, <1>3, <1>11, <2>1, CountsStay, Zenon
<1>9. Exclusive'
  <2>1. Owns(p, b) /\ outer[p] # b
    <3>1. Owns(p, b)
      BY <1>0, <1>11, Zenon DEF Owns, Holds
    <3>2. outer[p] # 0 => outer[p] # t[p].b
      BY OuterOf, Zenon
    <3>3. b # 0
      BY BuffersAssumption DEF Bufs
    <3>. QED  BY <1>0, <3>1, <3>2, <3>3, Zenon
  <2>2. \A q \in CacheProcs : Owns(q, b) => q = p
    <3>1. Exclusive
      BY Zenon DEF Inv
    <3>2. buf[b].locked = p
      BY <2>1, <3>1, Zenon DEF Exclusive
    <3>. QED  BY <3>1, <3>2, Zenon DEF Exclusive
  <2>3. \A q \in CacheProcs, c \in Bufs : Owns(q, c)' <=> Owns(q, c) /\ c # b
    <3>. SUFFICES ASSUME NEW q \in CacheProcs, NEW c \in Bufs PROVE Owns(q, c)' <=> Owns(q, c) /\ c # b
      BY Zenon
    <3>1. CASE q = p
      BY <1>0, <1>3, <1>11, <2>1, <3>1 DEF Owns, Holds
    <3>2. CASE q # p
      <4>1. (Holds(t'[q]) <=> Holds(t[q])) /\ t'[q].b = t[q].b
        BY <1>3, <3>2 DEF Holds
      <4>2. Owns(q, c)' <=> Owns(q, c)
        BY <1>11, <4>1, Zenon DEF Owns, Holds
      <4>. QED  BY <2>2, <3>2, <4>2, Zenon
    <3>. QED  BY <3>1, <3>2, Zenon
  <2>. SUFFICES ASSUME NEW q \in CacheProcs, NEW c \in Bufs PROVE buf'[c].locked = q <=> Owns(q, c)'
    BY Zenon DEF Exclusive
  <2>4. (buf[c].locked = q <=> Owns(q, c)) /\ q # Nil
    BY BuffersAssumption, Zenon DEF Inv, Exclusive
  <2>. QED  BY <1>2, <2>3, <2>4, Zenon
<1>10. SleepersHaveWaker'
  <2>. SUFFICES ASSUME NEW q \in CacheProcs, t'[q].pc = "asleep" PROVE buf'[t'[q].b].locked \notin {Nil, q}
    BY Zenon DEF SleepersHaveWaker, B
  <2>1. q # p /\ t[q].pc = "asleep" /\ t'[q].b = t[q].b /\ t[q].b # b
    BY <1>3, Zenon
  <2>2. t[q].b \in Bufs /\ buf[t[q].b].locked \notin {Nil, q}
    BY <2>1, BufferOf, Zenon DEF Inv, SleepersHaveWaker, B
  <2>. QED  BY <1>2, <2>1, <2>2, Zenon
<1>. QED  BY <1>4, <1>5, <1>6, <1>7, <1>8, <1>9, <1>10, Zenon DEF Inv

\* A step of a holder that leaves the lock alone: it changes data, valid and the pin.
Works(p, b, r, k) ==
  /\ b = t[p].b /\ Holds(t[p]) /\ k = buf[b].blockno
  /\ buf' = [buf EXCEPT ![b] = r] /\ r.blockno = k /\ r.locked = buf[b].locked /\ r.valid = 1
  /\ t' = [t EXCEPT ![p].pc = "locked"] /\ lru' = lru /\ outer' = outer
  /\ home' \in [Blocks -> 0 .. Values - 1] /\ last' \in [Blocks -> 0 .. Values - 1]
  /\ \A j \in Blocks \ {k} : home'[j] = home[j] /\ last'[j] = last[j] /\ (j \in pinned' <=> j \in pinned)
  /\ pinned' \subseteq Blocks /\ IsFiniteSet(pinned') /\ Cardinality(pinned') <= MaxPinned
  /\ r.data = last'[k]
  /\ k \notin pinned' => home'[k] = last'[k]
  /\ r.refcnt = buf[b].refcnt + (IF k \in pinned' THEN 1 ELSE 0) - (IF k \in pinned THEN 1 ELSE 0)

\* It keeps the invariant.
LEMMA WorkKeeps ==
  ASSUME Inv, NEW p \in CacheProcs, NEW b \in Bufs, NEW r \in BufType, NEW k \in Blocks, Works(p, b, r, k)
  PROVE  Inv'
<1>. USE DEF Works
<1>0. buf[b] \in BufType /\ r.blockno \in Blocks /\ r.blockno # Nil
  BY BufferOf DEF Holds, B
<1>1. buf \in [Bufs -> BufType] /\ t \in [CacheProcs -> [pc : CachePCs, b : 0 .. NBUF]] /\ pinned \subseteq Blocks
  BY Zenon DEF Inv, CacheTypeOK, BufType
<1>2. buf'[b] = r /\ (\A c \in Bufs \ {b} : buf'[c] = buf[c]) /\ \A c \in Bufs : buf'[c].blockno = buf[c].blockno /\ buf'[c].locked = buf[c].locked
  BY <1>1, Zenon
<1>3. /\ \A q \in CacheProcs : t'[q].b = t[q].b
      /\ \A q \in CacheProcs : t'[q].pc = IF q = p THEN "locked" ELSE t[q].pc
      /\ t' \in [CacheProcs -> [pc : CachePCs, b : 0 .. NBUF]]
  BY <1>1 DEF CachePCs
<1>4. CacheTypeOK'
  <2>1. buf' \in [Bufs -> BufType]
    BY <1>1, Zenon
  <2>. QED  BY <1>3, <2>1, Zenon DEF Inv, CacheTypeOK, BufType
<1>5. OneBuffer'
  BY <1>2 DEF Inv, OneBuffer, Cached
<1>6. \A c \in Bufs \ {b} : buf[c].blockno # r.blockno
  BY <1>0, SameBlock DEF Inv
<1>7. Contents'
  <2>1. ASSUME NEW c \in Bufs, buf'[c].valid = 1 PROVE buf'[c].blockno # Nil /\ buf'[c].data = last'[buf'[c].blockno]
    <3>1. CASE c = b
      BY <1>0, <1>2, <3>1, Zenon
    <3>2. CASE c # b
      <4>1. buf[c].valid = 1 /\ buf[c].blockno # Nil /\ buf[c].data = last[buf[c].blockno] /\ buf[c].blockno \in Blocks
        BY <1>1, <1>2, <2>1, <3>2 DEF Inv, Contents, BufType
      <4>. QED  BY <1>2, <1>6, <3>2, <4>1
    <3>. QED  BY <3>1, <3>2, Zenon
  <2>2. ASSUME NEW j \in Blocks
        PROVE  \/ j \in pinned' /\ \E c \in Bufs : buf'[c].blockno = j /\ buf'[c].valid = 1
               \/ j \notin pinned' /\ home'[j] = last'[j]
    <3>1. CASE j = r.blockno
      BY <1>2, <3>1, Zenon
    <3>2. CASE j # r.blockno /\ j \notin pinned
      BY <3>2, Zenon DEF Inv, Contents
    <3>3. CASE j # r.blockno /\ j \in pinned
      <4>1. PICK c \in Bufs : buf[c].blockno = j /\ buf[c].valid = 1
        BY <3>3, Zenon DEF Inv, Contents, Cached
      <4>2. c # b
        BY <3>3, <4>1, Zenon
      <4>. QED  BY <1>2, <3>3, <4>1, <4>2
    <3>. QED  BY <3>1, <3>2, <3>3, Zenon
  <2>. QED  BY <2>1, <2>2 DEF Contents, Cached
<1>8. UsersAgree'
  <2>. SUFFICES ASSUME NEW q \in CacheProcs
                PROVE  /\ t'[q].b = 0 <=> t'[q].pc = "idle"
                       /\ t'[q].b # 0 => buf'[t'[q].b].blockno # Nil
                       /\ t'[q].pc \in {"locked", "writing"} => buf'[t'[q].b].valid = 1
                       /\ t'[q].pc = "reading" => buf'[t'[q].b].valid = 0
                       /\ t'[q].pc = "writing" => buf'[t'[q].b].blockno \in pinned'
                       /\ outer'[q] # 0 => q \in Deep /\ t'[q].b \notin {0, outer'[q]} /\ buf'[outer'[q]].valid = 1
    BY Zenon DEF UsersAgree, B
  <2>0. outer[q] # 0 => q \in Deep /\ t'[q].b \notin {0, outer[q]} /\ buf'[outer[q]].valid = 1
    <3>. SUFFICES ASSUME outer[q] # 0 PROVE q \in Deep /\ t'[q].b \notin {0, outer[q]} /\ buf'[outer[q]].valid = 1
      BY Zenon
    <3>1. outer[q] \in Bufs /\ q \in Deep /\ t[q].b \notin {0, outer[q]} /\ buf[outer[q]].valid = 1
      BY OuterOf, Zenon DEF Inv, UsersAgree
    <3>. QED  BY <1>2, <1>3, <3>1, Zenon
  <2>1. CASE q = p
    <3>1. t'[p].pc = "locked" /\ t'[p].b = b /\ b # 0
      BY <1>3 DEF Bufs
    <3>. QED  BY <1>0, <1>2, <2>0, <2>1, <3>1
  <2>2. CASE q # p
    <3>1. t'[q].pc = t[q].pc /\ t'[q].b = t[q].b
      BY <1>3, <2>2, Zenon
    <3>2. /\ t[q].b = 0 <=> t[q].pc = "idle"
          /\ t[q].b # 0 => buf[t[q].b].blockno # Nil
          /\ t[q].pc \in {"locked", "writing"} => buf[t[q].b].valid = 1
          /\ t[q].pc = "reading" => buf[t[q].b].valid = 0
          /\ t[q].pc = "writing" => buf[t[q].b].blockno \in pinned
      BY Zenon DEF Inv, UsersAgree, B
    <3>3. t[q].pc # "idle" => t[q].b \in Bufs /\ buf[t[q].b].blockno \in Blocks
      BY BufferOf, Zenon DEF B
    <3>4. Holds(t[q]) => t[q].b # b
      BY <2>2 DEF Inv, Exclusive, Owns
    <3>5. CASE t[q].b = b
      <4>1. t[q].pc \notin {"reading", "locked", "writing"}
        BY <3>4, <3>5, Zenon DEF Holds
      <4>2. buf'[b].blockno # Nil
        BY <1>0, <1>2, Zenon
      <4>. QED  BY <2>0, <3>1, <3>2, <3>5, <4>1, <4>2, Zenon
    <3>6. CASE t[q].pc = "idle"
      BY <2>0, <3>1, <3>2, <3>6, Zenon
    <3>7. CASE t[q].b # b /\ t[q].pc # "idle"
      <4>1. buf'[t[q].b] = buf[t[q].b] /\ buf[t[q].b].blockno # r.blockno
        BY <1>2, <1>6, <3>3, <3>7, Zenon
      <4>2. buf[t[q].b].blockno \in pinned' <=> buf[t[q].b].blockno \in pinned
        BY <3>3, <3>7, <4>1, Zenon
      <4>. QED  BY <2>0, <3>1, <3>2, <4>1, <4>2
    <3>. QED  BY <3>5, <3>6, <3>7, Zenon
  <2>. QED  BY <2>1, <2>2, Zenon
<1>9. RefsCounted'
  BY <1>0, <1>1, <1>2, <1>3, CountsStay
<1>10. Exclusive'
  <2>1. \A q \in CacheProcs : Holds(t'[q]) <=> Holds(t[q])
    BY <1>3, Zenon DEF Holds
  <2>2. \A q \in CacheProcs, c \in Bufs : Owns(q, c)' <=> Owns(q, c)
    BY <1>3, <2>1, Zenon DEF Owns, Holds
  <2>. QED  BY <1>2, <2>2 DEF Inv, Exclusive
<1>11. SleepersHaveWaker'
  <2>. SUFFICES ASSUME NEW q \in CacheProcs, t'[q].pc = "asleep" PROVE buf'[t'[q].b].locked \notin {Nil, q}
    BY Zenon DEF SleepersHaveWaker, B
  <2>1. t[q].pc = "asleep" /\ t'[q].b = t[q].b
    BY <1>3
  <2>2. t[q].b \in Bufs /\ buf[t[q].b].locked \notin {Nil, q}
    BY <2>1, BufferOf, Zenon DEF Inv, SleepersHaveWaker, B
  <2>3. buf'[t[q].b].locked = buf[t[q].b].locked
    BY <1>2, <2>2, Zenon
  <2>. QED  BY <2>1, <2>2, <2>3, Zenon
<1>. QED  BY <1>4, <1>5, <1>7, <1>8, <1>9, <1>10, <1>11, Zenon DEF Inv

\* virtio_disk_rw() has read the block: a buffer that is not valid is not pinned.
LEMMA ReadDoneKeeps ==
  ASSUME Inv, NEW p \in CacheProcs, ReadDone(p)
  PROVE  Inv'
<1>0. PICK b \in Bufs : b = t[p].b /\ buf[b] \in BufType /\ buf[b].blockno \in Blocks
  BY BufferOf, Zenon DEF At, B, ReadDone
<1> DEFINE k == buf[b].blockno
           r == [buf[b] EXCEPT !.data = home[k], !.valid = 1]
<1>1. home \in [Blocks -> 0 .. Values - 1] /\ last \in [Blocks -> 0 .. Values - 1] /\ pinned \subseteq Blocks
      /\ IsFiniteSet(pinned) /\ Cardinality(pinned) <= MaxPinned
  BY Zenon DEF Inv, CacheTypeOK
<1>2. /\ r \in BufType /\ r.blockno = k /\ r.locked = buf[b].locked /\ r.valid = 1 /\ r.data = home[k]
      /\ r.refcnt = buf[b].refcnt /\ buf[b].refcnt \in Nat
  <2>1. home[k] \in 0 .. Values - 1 /\ 1 \in 0 .. 1
    BY <1>0, <1>1
  <2>. QED  BY <1>0, <2>1, Zenon DEF BufType
<1>3. k \notin pinned /\ home[k] = last[k]
  <2>1. buf[b].valid = 0
    BY <1>0, Zenon DEF ReadDone, At, Inv, UsersAgree, B
  <2>2. \A c \in Bufs : buf[c].blockno = k => c = b
    BY <1>0, SameBlock, Zenon DEF Inv
  <2>. QED  BY <1>0, <2>1, <2>2 DEF Inv, Contents, Cached
<1>4. /\ buf' = [buf EXCEPT ![b] = r] /\ t' = [t EXCEPT ![p].pc = "locked"]
      /\ lru' = lru /\ home' = home /\ pinned' = pinned /\ outer' = outer /\ last' = last
  BY <1>0, Zenon DEF ReadDone, Goto, B
<1>5. Holds(t[p])
  BY Zenon DEF ReadDone, At, Holds
<1>. HIDE DEF r, k
<1>6. k = buf[b].blockno
  BY Zenon DEF k
<1>7. Works(p, b, r, k)
  BY <1>0, <1>1, <1>2, <1>3, <1>4, <1>5, <1>6 DEF Works
<1>. QED  BY <1>0, <1>2, <1>6, <1>7, WorkKeeps, Zenon

\* log_write() of a changed buffer.
LEMMA ModifyKeeps ==
  ASSUME Inv, NEW p \in CacheProcs, Modify(p)
  PROVE  Inv'
<1>0. PICK b \in Bufs : b = t[p].b /\ buf[b] \in BufType /\ buf[b].blockno \in Blocks
  BY BufferOf, Zenon DEF At, B, Modify
<1> DEFINE k == buf[b].blockno
           v == (buf[b].data + 1) % Values
           n == IF k \in pinned THEN buf[b].refcnt ELSE buf[b].refcnt + 1
           r == [buf[b] EXCEPT !.data = v, !.refcnt = n]
<1>1. home \in [Blocks -> 0 .. Values - 1] /\ last \in [Blocks -> 0 .. Values - 1] /\ pinned \subseteq Blocks
      /\ IsFiniteSet(pinned) /\ Cardinality(pinned) <= MaxPinned /\ Cardinality(pinned) \in Nat
      /\ t \in [CacheProcs -> [pc : CachePCs, b : 0 .. NBUF]]
  BY FS_CardinalityType, Zenon DEF Inv, CacheTypeOK
<1>2. v \in 0 .. Values - 1 /\ n \in Nat /\ buf[b].refcnt \in Nat
  <2>1. buf[b].data \in Nat /\ buf[b].refcnt \in Nat /\ Values \in Nat \ {0}
    BY <1>0, BuffersAssumption DEF BufType
  <2>. QED  BY <2>1
<1>3. buf[b].valid = 1
  BY <1>0, Zenon DEF Modify, At, Inv, UsersAgree, B
<1>. HIDE DEF v
<1>4. r \in BufType /\ r.blockno = k /\ r.locked = buf[b].locked /\ r.valid = 1 /\ r.data = v /\ r.refcnt = n
  BY <1>0, <1>2, <1>3, Zenon DEF BufType
<1>5. /\ buf' = [buf EXCEPT ![b] = r] /\ lru' = lru /\ outer' = outer
      /\ home' = home /\ pinned' = pinned \cup {k} /\ last' = [last EXCEPT ![k] = v]
  BY <1>0, Zenon DEF Modify, B, v
<1>6. t' = [t EXCEPT ![p].pc = "locked"]
  BY <1>1, Zenon DEF Modify, At
<1>7. IsFiniteSet(pinned') /\ Cardinality(pinned') <= MaxPinned
  <2>1. k \in pinned \/ Cardinality(pinned) < MaxPinned
    BY <1>0, Zenon DEF Modify, B
  <2>2. IsFiniteSet(pinned \cup {k}) /\ Cardinality(pinned \cup {k}) = IF k \in pinned THEN Cardinality(pinned) ELSE Cardinality(pinned) + 1
    BY <1>1, FS_AddElement, Zenon
  <2>. QED  BY <1>1, <1>5, <2>1, <2>2, BuffersAssumption
<1>8. /\ last' \in [Blocks -> 0 .. Values - 1] /\ last'[k] = v /\ \A j \in Blocks \ {k} : last'[j] = last[j]
      /\ pinned' \subseteq Blocks /\ \A j \in Blocks \ {k} : j \in pinned' <=> j \in pinned
  BY <1>0, <1>1, <1>2, <1>5, Zenon
<1>9. Holds(t[p])
  BY Zenon DEF Modify, At, Holds
<1>10. r.refcnt = buf[b].refcnt + (IF k \in pinned' THEN 1 ELSE 0) - (IF k \in pinned THEN 1 ELSE 0) /\ k \in pinned'
  BY <1>2, <1>4, <1>5
<1>11. k = buf[b].blockno
  BY Zenon
<1>. HIDE DEF r, k, n
<1>12. Works(p, b, r, k)
  BY <1>0, <1>1, <1>4, <1>5, <1>6, <1>7, <1>8, <1>9, <1>10, <1>11, Zenon DEF Works
<1>. QED  BY <1>0, <1>4, <1>11, <1>12, WorkKeeps, Zenon

\* install_trans() has written the block home and unpins it.
LEMMA UnpinKeeps ==
  ASSUME Inv, NEW p \in CacheProcs, bunpin(p)
  PROVE  Inv'
<1>0. PICK b \in Bufs : b = t[p].b /\ buf[b] \in BufType /\ buf[b].blockno \in Blocks
  BY BufferOf, Zenon DEF At, B, bunpin
<1> DEFINE k == buf[b].blockno
           r == [buf[b] EXCEPT !.refcnt = buf[b].refcnt - 1]
<1>1. home \in [Blocks -> 0 .. Values - 1] /\ last \in [Blocks -> 0 .. Values - 1] /\ pinned \subseteq Blocks
      /\ IsFiniteSet(pinned) /\ Cardinality(pinned) <= MaxPinned /\ Cardinality(pinned) \in Nat
      /\ buf \in [Bufs -> BufType]
  BY FS_CardinalityType, Zenon DEF Inv, CacheTypeOK, BufType
<1>2. buf[b].valid = 1 /\ k \in pinned /\ buf[b].data = last[k]
  BY <1>0, Zenon DEF bunpin, At, Inv, UsersAgree, B, Contents
<1>3. buf[b].refcnt \in Nat /\ buf[b].refcnt >= 1
  BY <1>0, <1>2, UsersFinite DEF Inv, RefsCounted, BufType
<1>4. r \in BufType /\ r.blockno = k /\ r.locked = buf[b].locked /\ r.valid = 1 /\ r.data = last[k] /\ r.refcnt = buf[b].refcnt - 1
  <2>1. buf[b].refcnt - 1 \in Nat
    BY <1>3
  <2>. QED  BY <1>0, <1>2, <2>1, Zenon DEF BufType
<1>5. /\ buf' = [buf EXCEPT ![b] = r] /\ lru' = lru /\ home' = [home EXCEPT ![k] = buf[b].data] /\ pinned' = pinned \ {k} /\ last' = last
      /\ t' = [t EXCEPT ![p].pc = "locked"] /\ outer' = outer
  BY <1>0, Zenon DEF bunpin, B, Goto
<1>6. IsFiniteSet(pinned') /\ Cardinality(pinned') <= MaxPinned
  <2>2. IsFiniteSet(pinned \ {k}) /\ Cardinality(pinned \ {k}) = Cardinality(pinned) - 1
    BY <1>1, <1>2, FS_RemoveElement, Zenon
  <2>. QED  BY <1>1, <1>5, <2>2, BuffersAssumption
<1>7. /\ home' \in [Blocks -> 0 .. Values - 1] /\ home'[k] = last[k] /\ \A j \in Blocks \ {k} : home'[j] = home[j]
      /\ pinned' \subseteq Blocks /\ \A j \in Blocks \ {k} : j \in pinned' <=> j \in pinned
  <2>1. buf[b].data \in 0 .. Values - 1
    BY <1>0, Zenon DEF BufType
  <2>. QED  BY <1>0, <1>1, <1>2, <1>5, <2>1, Zenon
<1>8. Holds(t[p])
  BY Zenon DEF bunpin, At, Holds
<1>9. r.refcnt = buf[b].refcnt + (IF k \in pinned' THEN 1 ELSE 0) - (IF k \in pinned THEN 1 ELSE 0) /\ k \notin pinned'
  BY <1>2, <1>3, <1>4, <1>5
<1>10. k = buf[b].blockno
  BY Zenon
<1>. HIDE DEF r, k
<1>11. Works(p, b, r, k)
  BY <1>0, <1>1, <1>4, <1>5, <1>6, <1>7, <1>8, <1>9, <1>10, Zenon DEF Works
<1>. QED  BY <1>0, <1>4, <1>10, <1>11, WorkKeeps, Zenon

-----------------------------------------------------------------------------
(* bget() and brelse().                                                    *)

\* A process may call bget(): it holds nothing, or one buffer, of another block.
MayGet(p, k) ==
  At(p, "idle") \/ (At(p, "locked") /\ outer[p] = 0 /\ p \in Deep /\ <<B(p).blockno, k>> \in Nested)

\* Then it has none to lose: what it holds becomes its outer buffer.
LEMMA Getter ==
  ASSUME Inv, NEW p \in CacheProcs, NEW k \in Blocks, MayGet(p, k)
  PROVE  /\ outer[p] = 0 /\ 0 \notin Bufs /\ k # Nil
         /\ t[p].b = 0 <=> t[p].pc = "idle"
         /\ t[p].b # 0 => /\ t[p].pc = "locked" /\ t[p].b \in Bufs /\ p \in Deep
                          /\ B(p).valid = 1 /\ B(p).blockno # k
<1>1. 0 \notin Bufs /\ k # Nil
  BY BuffersAssumption DEF Bufs
<1>2. CASE At(p, "idle")
  BY <1>1, <1>2, Zenon DEF At, Inv, UsersAgree
<1>3. CASE ~At(p, "idle")
  <2>1. t[p].pc = "locked" /\ outer[p] = 0 /\ p \in Deep /\ <<B(p).blockno, k>> \in Nested
    BY <1>3, Zenon DEF MayGet, At
  <2>2. t[p].b \in Bufs /\ B(p).valid = 1
    BY <2>1, BufferOf, Zenon DEF Inv, UsersAgree
  <2>3. B(p).blockno # k
    BY <2>1, BuffersAssumption, Zenon
  <2>. QED  BY <1>1, <2>1, <2>2, <2>3
<1>. QED  BY <1>2, <1>3, Zenon

\* It owns what it owned before.
LEMMA GetterOwns ==
  ASSUME Inv, NEW p \in CacheProcs, NEW k \in Blocks, MayGet(p, k),
         t'[p].pc = "acquiresleep", outer'[p] = t[p].b,
         \A q \in CacheProcs \ {p} : t'[q] = t[q], \A q \in CacheProcs \ {p} : outer'[q] = outer[q]
  PROVE  \A q \in CacheProcs, c \in Bufs : Owns(q, c)' <=> Owns(q, c)
<1>. SUFFICES ASSUME NEW q \in CacheProcs, NEW c \in Bufs PROVE Owns(q, c)' <=> Owns(q, c)
  BY Zenon
<1>1. CASE q = p
  <2>1. ~Holds(t'[p]) /\ outer[p] = 0 /\ c # 0 /\ (t[p].b = c => t[p].pc = "locked")
    BY Getter, Zenon DEF Holds
  <2>. QED  BY <1>1, <2>1, Zenon DEF Owns, Holds
<1>2. CASE q # p
  BY <1>2, Zenon DEF Owns, Holds
<1>. QED  BY <1>1, <1>2, Zenon

\* The end of a bget(): process p has buffer b, of block k.
LEMMA BgetCachedKeeps ==
  ASSUME Inv, NEW p \in CacheProcs, NEW k \in Blocks, MayGet(p, k), NEW b \in Cached(k),
         buf' = [buf EXCEPT ![b].refcnt = @ + 1],
         t' = [t EXCEPT ![p] = [pc |-> "acquiresleep", b |-> b]],
         outer' = [outer EXCEPT ![p] = t[p].b], UNCHANGED <<lru, home, pinned, last>>
  PROVE  Inv'
<1>0. b \in Bufs /\ buf[b] \in BufType /\ buf[b].blockno = k /\ 0 \notin Bufs /\ k # Nil /\ b # 0 /\ t[p].b # b /\ outer[p] = 0
  <2>1. b \in Bufs /\ buf[b].blockno = k
    BY Zenon DEF Cached
  <2>2. 0 \notin Bufs /\ k # Nil /\ outer[p] = 0 /\ (t[p].b # 0 => buf[t[p].b].blockno # k)
    BY Getter, Zenon DEF B
  <2>. QED  BY <2>1, <2>2, Zenon DEF Inv, CacheTypeOK, BufType
<1>1. buf \in [Bufs -> BufType] /\ t \in [CacheProcs -> [pc : CachePCs, b : 0 .. NBUF]]
  BY Zenon DEF Inv, CacheTypeOK, BufType
<1>2. /\ \A c \in Bufs : /\ buf'[c].blockno = buf[c].blockno /\ buf'[c].valid = buf[c].valid
                         /\ buf'[c].data = buf[c].data /\ buf'[c].locked = buf[c].locked
                         /\ buf'[c].refcnt = IF c = b THEN buf[c].refcnt + 1 ELSE buf[c].refcnt
      /\ \A c \in Bufs \ {b} : buf'[c] = buf[c]
  BY <1>0, <1>1, Zenon DEF BufType
<1>3. /\ t'[p].pc = "acquiresleep" /\ t'[p].b = b /\ \A q \in CacheProcs \ {p} : t'[q] = t[q]
      /\ outer'[p] = t[p].b /\ \A q \in CacheProcs \ {p} : outer'[q] = outer[q]
      /\ outer' \in [CacheProcs -> 0 .. NBUF]
  <2>1. outer \in [CacheProcs -> 0 .. NBUF] /\ t[p].b \in 0 .. NBUF
    BY <1>1, Zenon DEF Inv, CacheTypeOK
  <2>. QED  BY <1>1, <2>1, Zenon
<1>4. CacheTypeOK'
  <2>1. buf[b].refcnt + 1 \in Nat
    BY <1>0 DEF BufType
  <2>2. buf' \in [Bufs -> BufType]
    BY <1>0, <1>1, <2>1, Zenon DEF BufType
  <2>3. [pc |-> "acquiresleep", b |-> b] \in [pc : CachePCs, b : 0 .. NBUF]
    BY <1>0, BuffersAssumption DEF CachePCs, Bufs
  <2>4. t' \in [CacheProcs -> [pc : CachePCs, b : 0 .. NBUF]]
    BY <1>1, <2>3, Zenon
  <2>. QED  BY <1>3, <2>2, <2>4, Zenon DEF Inv, CacheTypeOK, BufType
<1>5. OneBuffer'
  BY <1>2 DEF Inv, OneBuffer, Cached
<1>6. Contents'
  BY <1>2 DEF Inv, Contents, Cached
<1>7. UsersAgree'
  <2>1. \A q \in CacheProcs : t[q].b # 0 => t[q].b \in Bufs
    BY <1>1, BuffersAssumption DEF Bufs
  <2>. SUFFICES ASSUME NEW q \in CacheProcs
                PROVE  /\ t'[q].b = 0 <=> t'[q].pc = "idle"
                       /\ t'[q].b # 0 => buf'[t'[q].b].blockno # Nil
                       /\ t'[q].pc \in {"locked", "writing"} => buf'[t'[q].b].valid = 1
                       /\ t'[q].pc = "reading" => buf'[t'[q].b].valid = 0
                       /\ t'[q].pc = "writing" => buf'[t'[q].b].blockno \in pinned'
                       /\ outer'[q] # 0 => q \in Deep /\ t'[q].b \notin {0, outer'[q]} /\ buf'[outer'[q]].valid = 1
    BY Zenon DEF UsersAgree, B
  <2>2. CASE q = p
    <3>1. t[p].b # 0 => p \in Deep /\ t[p].b \in Bufs /\ buf[t[p].b].valid = 1
      BY Getter, Zenon DEF B
    <3>. QED  BY <1>0, <1>2, <1>3, <2>2, <3>1
  <2>3. CASE q # p
    <3>1. outer[q] # 0 => outer[q] \in Bufs
      BY OuterOf, Zenon
    <3>. QED  BY <1>2, <1>3, <2>1, <2>3, <3>1 DEF Inv, UsersAgree, B
  <2>. QED  BY <2>2, <2>3, Zenon
<1>8. RefsCounted'
  <2>. SUFFICES ASSUME NEW c \in Bufs
                PROVE  buf'[c].refcnt = Cardinality(Users(c)') + (IF buf'[c].blockno \in pinned' THEN 1 ELSE 0)
    BY Zenon DEF RefsCounted
  <2>1. buf[c].refcnt = Cardinality(Users(c)) + (IF buf[c].blockno \in pinned THEN 1 ELSE 0) /\ Cardinality(Users(c)) \in Nat
    BY UsersFinite, Zenon DEF Inv, RefsCounted
  <2>2. CASE c = b
    <3>1. Users(b)' = Users(b) \cup {p} /\ p \notin Users(b)
      BY <1>0, <1>3 DEF Users
    <3>2. Cardinality(Users(b)') = Cardinality(Users(b)) + 1
      BY <3>1, UsersFinite, FS_AddElement, Zenon
    <3>. QED  BY <1>2, <2>1, <2>2, <3>2
  <2>3. CASE c # b
    <3>1. Users(c)' = Users(c)
      BY <1>0, <1>3, <2>3 DEF Users
    <3>. QED  BY <1>2, <2>1, <2>3, <3>1
  <2>. QED  BY <2>2, <2>3, Zenon
<1>9. Exclusive'
  <2>1. \A q \in CacheProcs, c \in Bufs : Owns(q, c)' <=> Owns(q, c)
    BY <1>3, GetterOwns, Zenon
  <2>. QED  BY <1>2, <2>1 DEF Inv, Exclusive
<1>10. SleepersHaveWaker'
  <2>. SUFFICES ASSUME NEW q \in CacheProcs, t'[q].pc = "asleep" PROVE buf'[t'[q].b].locked \notin {Nil, q}
    BY Zenon DEF SleepersHaveWaker, B
  <2>1. q # p /\ t'[q] = t[q]
    BY <1>3, Zenon
  <2>2. t[q].b \in Bufs /\ buf[t[q].b].locked \notin {Nil, q}
    BY <2>1, BufferOf, Zenon DEF Inv, SleepersHaveWaker, B
  <2>. QED  BY <1>2, <2>1, <2>2, Zenon
<1>. QED  BY <1>4, <1>5, <1>6, <1>7, <1>8, <1>9, <1>10, Zenon DEF Inv

\* There is a last one among the buffers that nobody uses, and bget() takes it.
LEMMA VictimUnused ==
  ASSUME Inv, Unused # {}
  PROVE  Victim \in Unused
<1> DEFINE T == {i \in Bufs : lru[i] \in Unused}
           D == {NBUF - i : i \in T}
<1>1. T # {}
  BY Zenon DEF Inv, CacheTypeOK, Unused
<1>2. D \subseteq Nat /\ D # {}
  BY <1>1, BuffersAssumption DEF Bufs
<1>3. PICK d \in D : \A e \in D : ~(<<e, d>> \in OpToRel(<, Nat))
  BY <1>2, NatLessThanWellFounded, WFMin, Zenon
<1>4. \A e \in D : ~(e < d)
  BY <1>2, <1>3, Zenon DEF OpToRel
<1>5. PICK i \in T : d = NBUF - i
  BY Zenon
<1>6. \A j \in i + 1 .. NBUF : lru[j] \notin Unused
  <2>. SUFFICES ASSUME NEW j \in i + 1 .. NBUF, lru[j] \in Unused PROVE FALSE
    BY Zenon
  <2>1. i \in 1 .. NBUF /\ NBUF \in Nat
    BY BuffersAssumption, Zenon DEF Bufs
  <2>2. j \in T
    BY <2>1 DEF Bufs
  <2>3. NBUF - j \in D
    BY <2>2, Zenon
  <2>. HIDE DEF D, T
  <2>. QED  BY <1>4, <1>5, <2>1, <2>3
<1>. HIDE DEF D
<1>7. \E h \in Bufs : lru[h] \in Unused /\ \A j \in h + 1 .. NBUF : lru[j] \notin Unused
  BY <1>6, Zenon
<1>. QED  BY <1>7, Zenon DEF Victim

\* bget() recycles a buffer that has no users and is not pinned.
LEMMA BgetRecycleKeeps ==
  ASSUME Inv, NEW p \in CacheProcs, NEW k \in Blocks, MayGet(p, k), Cached(k) = {},
         NEW b \in Unused,
         buf' = [buf EXCEPT ![b] = Recycled(@, k)],
         t' = [t EXCEPT ![p] = [pc |-> "acquiresleep", b |-> b]],
         outer' = [outer EXCEPT ![p] = t[p].b], UNCHANGED <<lru, home, pinned, last>>
  PROVE  Inv'
<1>0. b \in Bufs /\ buf[b] \in BufType /\ 0 \notin Bufs /\ k # Nil /\ b # 0 /\ buf[b].refcnt = 0 /\ outer[p] = 0
  <2>1. b \in Bufs /\ buf[b].refcnt = 0
    BY Zenon DEF Unused
  <2>2. 0 \notin Bufs /\ k # Nil /\ outer[p] = 0
    BY Getter, Zenon
  <2>. QED  BY <2>1, <2>2, Zenon DEF Inv, CacheTypeOK, BufType
<1>1. buf \in [Bufs -> BufType] /\ t \in [CacheProcs -> [pc : CachePCs, b : 0 .. NBUF]]
  BY Zenon DEF Inv, CacheTypeOK, BufType
<1>2. /\ buf'[b].blockno = k /\ buf'[b].valid = 0 /\ buf'[b].refcnt = 1 /\ buf'[b].locked = buf[b].locked
      /\ \A c \in Bufs \ {b} : buf'[c] = buf[c]
      /\ \A c \in Bufs : buf'[c].locked = buf[c].locked
  BY <1>0, <1>1, Zenon DEF BufType, Recycled
<1>3. /\ t'[p].pc = "acquiresleep" /\ t'[p].b = b /\ \A q \in CacheProcs \ {p} : t'[q] = t[q]
      /\ outer'[p] = t[p].b /\ \A q \in CacheProcs \ {p} : outer'[q] = outer[q]
      /\ outer' \in [CacheProcs -> 0 .. NBUF]
  <2>1. outer \in [CacheProcs -> 0 .. NBUF] /\ t[p].b \in 0 .. NBUF
    BY <1>1, Zenon DEF Inv, CacheTypeOK
  <2>. QED  BY <1>1, <2>1, Zenon
<1>4. Users(b) = {} /\ buf[b].blockno \notin pinned
  <2>1. Cardinality(Users(b)) = 0 /\ buf[b].blockno \notin pinned
    BY <1>0, UsersFinite DEF Inv, RefsCounted
  <2>. QED  BY <2>1, UsersFinite, FS_EmptySet, Zenon
<1>5. \A c \in Bufs : buf[c].blockno # k
  BY Zenon DEF Cached
<1>6. k \notin pinned /\ home[k] = last[k]
  BY <1>5, Zenon DEF Inv, Contents, Cached
<1>7. CacheTypeOK'
  <2>1. Recycled(buf[b], k) \in BufType
    <3>1. k \in Blocks \cup {Nil} /\ 0 \in 0 .. 1 /\ 1 \in Nat
      OBVIOUS
    <3>. QED  BY <1>0, <3>1, Zenon DEF BufType, Recycled
  <2>2. buf' \in [Bufs -> BufType]
    BY <1>0, <1>1, <2>1, Zenon
  <2>3. [pc |-> "acquiresleep", b |-> b] \in [pc : CachePCs, b : 0 .. NBUF]
    BY <1>0, BuffersAssumption DEF CachePCs, Bufs
  <2>4. t' \in [CacheProcs -> [pc : CachePCs, b : 0 .. NBUF]]
    BY <1>1, <2>3, Zenon
  <2>. QED  BY <1>3, <2>2, <2>4, Zenon DEF Inv, CacheTypeOK, BufType
<1>8. OneBuffer'
  <2>. SUFFICES ASSUME NEW j \in Blocks, NEW c \in Bufs, NEW d \in Bufs, buf'[c].blockno = j, buf'[d].blockno = j PROVE c = d
    BY Zenon DEF OneBuffer, Cached
  <2>1. CASE c = b \/ d = b
    BY <1>2, <1>5, <2>1, Zenon
  <2>2. CASE c # b /\ d # b
    BY <1>2, <2>2, SameBlock, Zenon DEF Inv
  <2>. QED  BY <2>1, <2>2, Zenon
<1>9. Contents'
  <2>1. ASSUME NEW c \in Bufs, buf'[c].valid = 1 PROVE buf'[c].blockno # Nil /\ buf'[c].data = last'[buf'[c].blockno]
    BY <1>2, <2>1 DEF Inv, Contents
  <2>2. ASSUME NEW j \in Blocks
        PROVE  \/ j \in pinned' /\ \E c \in Bufs : buf'[c].blockno = j /\ buf'[c].valid = 1
               \/ j \notin pinned' /\ home'[j] = last'[j]
    <3>1. CASE j \notin pinned
      BY <3>1, Zenon DEF Inv, Contents
    <3>2. CASE j \in pinned
      <4>1. PICK c \in Bufs : buf[c].blockno = j /\ buf[c].valid = 1
        BY <3>2, Zenon DEF Inv, Contents, Cached
      <4>2. c # b
        BY <1>4, <3>2, <4>1, Zenon
      <4>. QED  BY <1>2, <3>2, <4>1, <4>2, Zenon
    <3>. QED  BY <3>1, <3>2, Zenon
  <2>. QED  BY <2>1, <2>2, Zenon DEF Contents, Cached
<1>10. \A q \in CacheProcs : t[q].b # b /\ outer[q] # b /\ (t[q].b # 0 => t[q].b \in Bufs)
  <2>1. \A q \in CacheProcs : t[q].b # 0 => t[q].b \in Bufs
    BY <1>1, BuffersAssumption DEF Bufs
  <2>. QED  BY <1>4, <2>1, Zenon DEF Users
<1>11. UsersAgree'
  <2>. SUFFICES ASSUME NEW q \in CacheProcs
                PROVE  /\ t'[q].b = 0 <=> t'[q].pc = "idle"
                       /\ t'[q].b # 0 => buf'[t'[q].b].blockno # Nil
                       /\ t'[q].pc \in {"locked", "writing"} => buf'[t'[q].b].valid = 1
                       /\ t'[q].pc = "reading" => buf'[t'[q].b].valid = 0
                       /\ t'[q].pc = "writing" => buf'[t'[q].b].blockno \in pinned'
                       /\ outer'[q] # 0 => q \in Deep /\ t'[q].b \notin {0, outer'[q]} /\ buf'[outer'[q]].valid = 1
    BY Zenon DEF UsersAgree, B
  <2>2. CASE q = p
    <3>1. t[p].b # 0 => p \in Deep /\ t[p].b \in Bufs /\ buf[t[p].b].valid = 1
      BY Getter, Zenon DEF B
    <3>. QED  BY <1>0, <1>2, <1>3, <1>10, <2>2, <3>1
  <2>3. CASE q # p
    <3>1. /\ t'[q] = t[q] /\ (t[q].b # 0 => buf'[t[q].b] = buf[t[q].b])
          /\ outer'[q] = outer[q] /\ (outer[q] # 0 => buf'[outer[q]] = buf[outer[q]])
      BY <1>2, <1>3, <1>10, <2>3, OuterOf, Zenon
    <3>2. t[q].pc # "idle" => t[q].b # 0
      BY Zenon DEF Inv, UsersAgree
    <3>. QED  BY <3>1, <3>2 DEF Inv, UsersAgree, B
  <2>. QED  BY <2>2, <2>3, Zenon
<1>12. RefsCounted'
  <2>. SUFFICES ASSUME NEW c \in Bufs
                PROVE  buf'[c].refcnt = Cardinality(Users(c)') + (IF buf'[c].blockno \in pinned' THEN 1 ELSE 0)
    BY Zenon DEF RefsCounted
  <2>1. CASE c = b
    <3>1. Users(b)' = {p}
      BY <1>3, <1>10 DEF Users
    <3>2. Cardinality({p}) = 1
      BY FS_Singleton, Zenon
    <3>. QED  BY <1>2, <1>6, <2>1, <3>1, <3>2
  <2>2. CASE c # b
    <3>1. Users(c)' = Users(c)
      BY <1>0, <1>3, <1>10, <2>2 DEF Users
    <3>. QED  BY <1>2, <2>2, <3>1 DEF Inv, RefsCounted
  <2>. QED  BY <2>1, <2>2, Zenon
<1>13. Exclusive'
  <2>1. \A q \in CacheProcs, c \in Bufs : Owns(q, c)' <=> Owns(q, c)
    BY <1>3, GetterOwns, Zenon
  <2>. QED  BY <1>2, <2>1 DEF Inv, Exclusive
<1>14. SleepersHaveWaker'
  <2>. SUFFICES ASSUME NEW q \in CacheProcs, t'[q].pc = "asleep" PROVE buf'[t'[q].b].locked \notin {Nil, q}
    BY Zenon DEF SleepersHaveWaker, B
  <2>1. q # p /\ t'[q] = t[q]
    BY <1>3, Zenon
  <2>2. t[q].b \in Bufs /\ buf[t[q].b].locked \notin {Nil, q}
    BY <2>1, BufferOf, Zenon DEF Inv, SleepersHaveWaker, B
  <2>. QED  BY <1>2, <2>1, <2>2, Zenon
<1>. QED  BY <1>7, <1>8, <1>9, <1>11, <1>12, <1>13, <1>14, Zenon DEF Inv

\* The list still has all the buffers after one has moved to its front.
LEMMA ToFrontKeeps ==
  ASSUME lru \in [Bufs -> Bufs], \A b \in Bufs : \E i \in Bufs : lru[i] = b, NEW b \in Bufs
  PROVE  ToFront(b) \in [Bufs -> Bufs] /\ \A c \in Bufs : \E i \in Bufs : ToFront(b)[i] = c
<1>1. PICK n : n = CHOOSE i \in Bufs : lru[i] = b
  BY Zenon
<1>2. n \in Bufs /\ lru[n] = b
  BY <1>1, Zenon
<1>3. ToFront(b) = [i \in Bufs |-> IF i = 1 THEN b ELSE IF i <= n THEN lru[i - 1] ELSE lru[i]]
  BY <1>1, Zenon DEF ToFront
<1>4. \A i \in Bufs : i # 1 => i - 1 \in Bufs
  BY BuffersAssumption DEF Bufs
<1>5. ToFront(b) \in [Bufs -> Bufs]
  BY <1>3, <1>4
<1>6. ASSUME NEW c \in Bufs PROVE \E i \in Bufs : ToFront(b)[i] = c
  <2>1. CASE c = b
    <3>1. 1 \in Bufs
      BY <1>2, BuffersAssumption DEF Bufs
    <3>. QED  BY <1>3, <2>1, <3>1, Zenon
  <2>2. CASE c # b
    <3>1. PICK j \in Bufs : lru[j] = c
      BY Zenon
    <3>2. j # n
      BY <1>2, <2>2, <3>1, Zenon
    <3>3. CASE j < n
      <4>1. j + 1 \in Bufs /\ j + 1 # 1 /\ j + 1 <= n /\ (j + 1) - 1 = j
        BY <1>2, <3>3, BuffersAssumption DEF Bufs
      <4>. QED  BY <1>3, <3>1, <4>1, Zenon
    <3>4. CASE j > n
      <4>1. j # 1 /\ ~(j <= n)
        BY <1>2, <3>4, BuffersAssumption DEF Bufs
      <4>. QED  BY <1>3, <3>1, <4>1, Zenon
    <3>5. j < n \/ j > n
      BY <1>2, <3>2, BuffersAssumption DEF Bufs
    <3>. QED  BY <3>3, <3>4, <3>5, Zenon
  <2>. QED  BY <2>1, <2>2, Zenon
<1>. QED  BY <1>5, <1>6, Zenon

\* The end of brelse().
LEMMA BrelseKeeps ==
  ASSUME Inv, NEW p \in CacheProcs, brelse(p)
  PROVE  Inv'
<1>0. PICK b \in Bufs : b = t[p].b /\ buf[b] \in BufType /\ b # 0 /\ 0 \notin Bufs
  BY BufferOf, BuffersAssumption DEF At, B, brelse, Bufs
<1>1. buf \in [Bufs -> BufType] /\ t \in [CacheProcs -> [pc : CachePCs, b : 0 .. NBUF]]
  BY Zenon DEF Inv, CacheTypeOK, BufType
<1>2. /\ \A c \in Bufs : /\ buf'[c].blockno = buf[c].blockno /\ buf'[c].valid = buf[c].valid
                         /\ buf'[c].data = buf[c].data /\ buf'[c].locked = buf[c].locked
                         /\ buf'[c].refcnt = IF c = b THEN buf[c].refcnt - 1 ELSE buf[c].refcnt
      /\ \A c \in Bufs \ {b} : buf'[c] = buf[c]
      /\ buf' = [buf EXCEPT ![b].refcnt = buf[b].refcnt - 1]
  BY <1>0, <1>1, Zenon DEF BufType, brelse
<1>3. /\ t'[p].pc = (IF outer[p] = 0 THEN "idle" ELSE "locked") /\ t'[p].b = outer[p]
      /\ outer'[p] = 0 /\ t[p].pc = "brelse"
      /\ \A q \in CacheProcs \ {p} : t'[q] = t[q]
      /\ \A q \in CacheProcs \ {p} : outer'[q] = outer[q]
  <2>1. outer \in [CacheProcs -> 0 .. NBUF]
    BY Zenon DEF Inv, CacheTypeOK
  <2>. QED  BY <1>1, <2>1, Zenon DEF brelse, At
<1>13. outer[p] # b /\ (outer[p] # 0 => outer[p] \in Bufs)
  BY <1>0, OuterOf, Zenon
<1>4. Cardinality(Users(b)) \in Nat /\ Cardinality(Users(b)') = Cardinality(Users(b)) - 1 /\ Cardinality(Users(b)) >= 1
  <2>1. Users(b)' = Users(b) \ {p} /\ p \in Users(b)
    BY <1>0, <1>3, <1>13 DEF Users
  <2>2. Cardinality(Users(b) \ {p}) = Cardinality(Users(b)) - 1 /\ IsFiniteSet(Users(b) \ {p})
    BY <2>1, UsersFinite, FS_RemoveElement, Zenon
  <2>3. Cardinality(Users(b) \ {p}) \in Nat
    BY <2>2, FS_CardinalityType, Zenon
  <2>. QED  BY <2>1, <2>2, <2>3, UsersFinite
<1>12. home' = home /\ pinned' = pinned /\ last' = last
  BY Zenon DEF brelse
<1>5. CacheTypeOK'
  <2>1. buf[b].refcnt - 1 \in Nat
    BY <1>0, <1>4 DEF BufType, Inv, RefsCounted
  <2>2. buf' \in [Bufs -> BufType]
    BY <1>0, <1>1, <1>2, <2>1, Zenon DEF BufType
  <2>3. [pc |-> IF outer[p] = 0 THEN "idle" ELSE "locked", b |-> outer[p]] \in [pc : CachePCs, b : 0 .. NBUF]
        /\ outer' \in [CacheProcs -> 0 .. NBUF]
    <3>1. outer \in [CacheProcs -> 0 .. NBUF]
      BY Zenon DEF Inv, CacheTypeOK
    <3>2. "idle" \in CachePCs /\ "locked" \in CachePCs /\ 0 \in 0 .. NBUF
      BY BuffersAssumption DEF CachePCs
    <3>. QED  BY <3>1, <3>2, Zenon DEF brelse
  <2>4. t' \in [CacheProcs -> [pc : CachePCs, b : 0 .. NBUF]]
    BY <1>1, <2>3, Zenon DEF brelse
  <2>5. lru' \in [Bufs -> Bufs] /\ \A c \in Bufs : \E i \in Bufs : lru'[i] = c
    <3>1. lru' = ToFront(b) \/ lru' = lru
      BY <1>0, Zenon DEF brelse
    <3>2. lru \in [Bufs -> Bufs] /\ \A c \in Bufs : \E i \in Bufs : lru[i] = c
      BY Zenon DEF Inv, CacheTypeOK
    <3>3. ToFront(b) \in [Bufs -> Bufs] /\ \A c \in Bufs : \E i \in Bufs : ToFront(b)[i] = c
      BY <3>2, ToFrontKeeps, Zenon
    <3>4. CASE lru' = lru
      BY <3>2, <3>4, Zenon
    <3>5. CASE lru' = ToFront(b)
      BY <3>3, <3>5, Zenon
    <3>. QED  BY <3>1, <3>4, <3>5, Zenon
  <2>. QED  BY <2>2, <2>3, <2>4, <2>5, Zenon DEF Inv, CacheTypeOK, BufType, brelse
<1>6. OneBuffer'
  BY <1>2 DEF Inv, OneBuffer, Cached
<1>7. Contents'
  BY <1>2, <1>12 DEF Inv, Contents, Cached
<1>8. UsersAgree'
  <2>. SUFFICES ASSUME NEW q \in CacheProcs
                PROVE  /\ t'[q].b = 0 <=> t'[q].pc = "idle"
                       /\ t'[q].b # 0 => buf'[t'[q].b].blockno # Nil
                       /\ t'[q].pc \in {"locked", "writing"} => buf'[t'[q].b].valid = 1
                       /\ t'[q].pc = "reading" => buf'[t'[q].b].valid = 0
                       /\ t'[q].pc = "writing" => buf'[t'[q].b].blockno \in pinned'
                       /\ outer'[q] # 0 => q \in Deep /\ t'[q].b \notin {0, outer'[q]} /\ buf'[outer'[q]].valid = 1
    BY Zenon DEF UsersAgree, B
  <2>1. (t[q].b # 0 => t[q].b \in Bufs) /\ (outer[q] # 0 => outer[q] \in Bufs)
    BY <1>1, OuterOf, BuffersAssumption DEF Bufs
  <2>2. CASE q = p
    <3>1. outer[p] # 0 => buf[outer[p]].valid = 1 /\ buf[outer[p]].blockno # Nil
      BY OuterOf, Zenon
    <3>. QED  BY <1>2, <1>3, <1>13, <2>2, <3>1
  <2>3. CASE q # p
    BY <1>2, <1>3, <1>12, <2>1, <2>3 DEF Inv, UsersAgree, B
  <2>. QED  BY <2>2, <2>3, Zenon
<1>9. RefsCounted'
  <2>. SUFFICES ASSUME NEW c \in Bufs
                PROVE  buf'[c].refcnt = Cardinality(Users(c)') + (IF buf'[c].blockno \in pinned' THEN 1 ELSE 0)
    BY Zenon DEF RefsCounted
  <2>1. buf[c].refcnt = Cardinality(Users(c)) + (IF buf[c].blockno \in pinned THEN 1 ELSE 0) /\ pinned' = pinned
    BY Zenon DEF Inv, RefsCounted, brelse
  <2>2. CASE c = b
    BY <1>2, <1>4, <2>1, <2>2
  <2>3. CASE c # b
    <3>1. Users(c)' = Users(c)
      BY <1>0, <1>3, <2>3 DEF Users
    <3>. QED  BY <1>2, <2>1, <2>3, <3>1
  <2>. QED  BY <2>2, <2>3, Zenon
<1>10. Exclusive'
  <2>1. ASSUME NEW q \in CacheProcs, NEW c \in Bufs PROVE Owns(q, c)' <=> Owns(q, c)
    <3>1. CASE q = p
      BY <1>0, <1>3, <3>1 DEF Owns, Holds
    <3>2. CASE q # p
      BY <1>3, <3>2, Zenon DEF Owns, Holds
    <3>. QED  BY <3>1, <3>2, Zenon
  <2>. QED  BY <1>2, <2>1 DEF Inv, Exclusive
<1>11. SleepersHaveWaker'
  <2>. SUFFICES ASSUME NEW q \in CacheProcs, t'[q].pc = "asleep" PROVE buf'[t'[q].b].locked \notin {Nil, q}
    BY Zenon DEF SleepersHaveWaker, B
  <2>1. q # p /\ t'[q] = t[q]
    BY <1>3, Zenon
  <2>2. t[q].b \in Bufs /\ buf[t[q].b].locked \notin {Nil, q}
    BY <2>1, BufferOf, Zenon DEF Inv, SleepersHaveWaker, B
  <2>. QED  BY <1>2, <2>1, <2>2, Zenon
<1>. QED  BY <1>5, <1>6, <1>7, <1>8, <1>9, <1>10, <1>11, Zenon DEF Inv

\* A process with two buffers turns to the other one.
LEMMA OtherKeeps ==
  ASSUME Inv, NEW p \in CacheProcs, Other(p)
  PROVE  Inv'
<1>1. /\ t \in [CacheProcs -> [pc : CachePCs, b : 0 .. NBUF]] /\ outer \in [CacheProcs -> 0 .. NBUF]
      /\ t[p].pc = "locked" /\ outer[p] # 0 /\ UNCHANGED <<buf, lru, home, pinned, last>>
  BY Zenon DEF Inv, CacheTypeOK, Other, At
<1>2. /\ t'[p].b = outer[p] /\ outer'[p] = t[p].b /\ t'[p].pc = "locked"
      /\ \A q \in CacheProcs \ {p} : t'[q] = t[q]
      /\ \A q \in CacheProcs \ {p} : outer'[q] = outer[q]
  BY <1>1, Zenon DEF Other
<1>3. /\ t[p].b \in Bufs /\ outer[p] \in Bufs /\ outer[p] # t[p].b /\ p \in Deep /\ 0 \notin Bufs
      /\ B(p).valid = 1 /\ buf[outer[p]].valid = 1 /\ buf[outer[p]].blockno # Nil
  <2>1. t[p].b \in Bufs /\ B(p).valid = 1
    BY <1>1, BufferOf, Zenon DEF Inv, UsersAgree
  <2>2. 0 \notin Bufs
    BY BuffersAssumption DEF Bufs
  <2>. QED  BY <1>1, <2>1, <2>2, OuterOf, Zenon
<1>4. CacheTypeOK'
  <2>1. t[p].b \in 0 .. NBUF /\ outer[p] \in 0 .. NBUF
    BY <1>1, Zenon
  <2>2. t' \in [CacheProcs -> [pc : CachePCs, b : 0 .. NBUF]] /\ outer' \in [CacheProcs -> 0 .. NBUF]
    BY <1>1, <2>1, Zenon DEF Other
  <2>. QED  BY <1>1, <2>2, Zenon DEF Inv, CacheTypeOK
<1>5. OneBuffer' /\ Contents'
  BY <1>1 DEF Inv, OneBuffer, Contents, Cached
<1>6. UsersAgree'
  BY <1>1, <1>2, <1>3 DEF Inv, UsersAgree, B
<1>7. RefsCounted'
  <2>1. \A b \in Bufs : Users(b)' = Users(b)
    BY <1>2 DEF Users
  <2>. QED  BY <1>1, <2>1, Zenon DEF Inv, RefsCounted
<1>8. Exclusive'
  <2>1. ASSUME NEW q \in CacheProcs, NEW c \in Bufs PROVE Owns(q, c)' <=> Owns(q, c)
    <3>1. CASE q = p
      BY <1>1, <1>2, <3>1, Zenon DEF Owns, Holds
    <3>2. CASE q # p
      BY <1>2, <3>2, Zenon DEF Owns, Holds
    <3>. QED  BY <3>1, <3>2, Zenon
  <2>. QED  BY <1>1, <2>1 DEF Inv, Exclusive
<1>9. SleepersHaveWaker'
  BY <1>1, <1>2 DEF Inv, SleepersHaveWaker, B
<1>. QED  BY <1>4, <1>5, <1>6, <1>7, <1>8, <1>9, Zenon DEF Inv

-----------------------------------------------------------------------------
(* All the steps.                                                          *)

\* Every step keeps the invariant.
LEMMA InvStep ==
  ASSUME Inv, [CacheNext]_cacheVars
  PROVE  Inv'
<1>1. CASE UNCHANGED cacheVars
  <2>1. \A b \in Bufs : Users(b)' = Users(b)
    BY <1>1, Zenon DEF cacheVars, Users
  <2>2. CacheTypeOK' /\ OneBuffer' /\ Contents'
    BY <1>1 DEF cacheVars, Inv, CacheTypeOK, OneBuffer, Contents, Cached
  <2>3. UsersAgree' /\ SleepersHaveWaker'
    BY <1>1 DEF cacheVars, Inv, UsersAgree, SleepersHaveWaker, B
  <2>5. Exclusive'
    BY <1>1 DEF cacheVars, Inv, Exclusive, Owns, Holds
  <2>4. RefsCounted'
    BY <1>1, <2>1, Zenon DEF cacheVars, Inv, RefsCounted
  <2>. QED  BY <2>2, <2>3, <2>4, <2>5, Zenon DEF Inv
<1>2. ASSUME NEW p \in CacheProcs, NEW k \in Blocks, bget(p, k) PROVE Inv'
  <2>1. CASE \E b \in Cached(k) : buf' = [buf EXCEPT ![b].refcnt = @ + 1] /\ t' = [t EXCEPT ![p] = [pc |-> "acquiresleep", b |-> b]]
    BY <1>2, <2>1, BgetCachedKeeps, Zenon DEF bget, MayGet
  <2>2. CASE Cached(k) = {} /\ Unused # {} /\ buf' = [buf EXCEPT ![Victim] = Recycled(@, k)]
             /\ t' = [t EXCEPT ![p] = [pc |-> "acquiresleep", b |-> Victim]]
    <3>1. PICK v \in Unused : v = Victim
      BY <2>2, VictimUnused, Zenon
    <3>. QED  BY <1>2, <2>2, <3>1, BgetRecycleKeeps, Zenon DEF bget, MayGet
  <2>. QED  BY <1>2, <2>1, <2>2, Zenon DEF bget
<1>3. ASSUME NEW p \in CacheProcs, acquiresleep(p) PROVE Inv'
  <2>1. CASE B(p).locked = Nil
    BY <1>3, <2>1, AcquireKeeps, Zenon DEF acquiresleep
  <2>2. CASE B(p).locked # Nil
    <3>1. t[p].pc = "acquiresleep" /\ ~Holds(t[p]) /\ t[p].b \in Bufs
      BY <1>3, BufferOf, Zenon DEF acquiresleep, At, Holds
    <3>2. B(p).locked # p
      <4>1. ~Owns(p, t[p].b)
        BY <3>1, OuterOf, BuffersAssumption DEF Owns, Bufs
      <4>. QED  BY <3>1, <4>1, Zenon DEF Inv, Exclusive, B
    <3>3. t' = [t EXCEPT ![p].pc = "asleep"] /\ UNCHANGED <<buf, lru, home, pinned, outer, last>> /\ "asleep" \in CachePCs
      BY <1>3, <2>2, Zenon DEF acquiresleep, Goto, CachePCs
    <3>. QED  BY <2>2, <3>1, <3>2, <3>3, Moves, Zenon
  <2>. QED  BY <2>1, <2>2, Zenon
<1>4. ASSUME NEW p \in CacheProcs, bread(p) PROVE Inv'
  <2>1. t[p].pc = "bread" /\ Holds(t[p]) /\ "locked" \in CachePCs /\ "reading" \in CachePCs
    BY <1>4, Zenon DEF bread, At, Holds, CachePCs
  <2>2. CASE B(p).valid = 1 /\ Goto(p, "locked")
    BY <1>4, <2>1, <2>2, Moves, Zenon DEF bread, Goto
  <2>3. CASE B(p).valid = 0 /\ Goto(p, "reading")
    BY <1>4, <2>1, <2>3, Moves, Zenon DEF bread, Goto
  <2>. QED  BY <1>4, <2>2, <2>3, Zenon DEF bread
<1>5. ASSUME NEW p \in CacheProcs, bwrite(p) PROVE Inv'
  <2>1. t[p].pc = "locked" /\ Holds(t[p]) /\ "writing" \in CachePCs /\ B(p).blockno \in pinned
    BY <1>5, Zenon DEF bwrite, At, Holds, CachePCs
  <2>2. B(p).valid = 1
    BY <2>1, Zenon DEF Inv, UsersAgree
  <2>. QED  BY <1>5, <2>1, <2>2, Moves, Zenon DEF bwrite, Goto
<1>6. ASSUME NEW p \in CacheProcs, CacheKill(p) PROVE Inv'
  <2>1. t[p].pc = "asleep" /\ ~Holds(t[p]) /\ "acquiresleep" \in CachePCs
    BY <1>6, Zenon DEF CacheKill, At, Holds, CachePCs
  <2>. QED  BY <1>6, <2>1, Moves, Zenon DEF CacheKill, Goto
<1>. QED  BY <1>1, <1>2, <1>3, <1>4, <1>5, <1>6, ReleaseKeeps, ReadDoneKeeps, BrelseKeeps, ModifyKeeps, UnpinKeeps, OtherKeeps,
          Zenon DEF CacheNext

\* After binit().
LEMMA InvInit ==
  ASSUME CacheInit
  PROVE  Inv
<1>1. 0 \in 0 .. Values - 1 /\ 0 \in 0 .. 1 /\ 0 \in 0 .. NBUF /\ 0 \in Nat /\ "idle" \in CachePCs /\ 0 \notin Bufs
  BY BuffersAssumption DEF CachePCs, Bufs
<1>2. CacheTypeOK
  <2>1. buf \in [Bufs -> BufType]
    BY <1>1, Zenon DEF CacheInit, BufType
  <2>2. t \in [CacheProcs -> [pc : CachePCs, b : 0 .. NBUF]] /\ outer \in [CacheProcs -> 0 .. NBUF]
    BY <1>1, Zenon DEF CacheInit
  <2>3. \A b \in Bufs : NBUF + 1 - b \in Bufs /\ NBUF + 1 - (NBUF + 1 - b) = b
    BY BuffersAssumption DEF Bufs
  <2>4. lru \in [Bufs -> Bufs] /\ \A b \in Bufs : \E i \in Bufs : lru[i] = b
    BY <2>3, Zenon DEF CacheInit
  <2>5. pinned \subseteq Blocks /\ IsFiniteSet(pinned) /\ Cardinality(pinned) <= MaxPinned
    BY FS_EmptySet, BuffersAssumption DEF CacheInit
  <2>6. home \in [Blocks -> 0 .. Values - 1] /\ last \in [Blocks -> 0 .. Values - 1]
    BY <1>1, Zenon DEF CacheInit
  <2>. QED  BY <2>1, <2>2, <2>4, <2>5, <2>6 DEF CacheTypeOK, BufType
<1>3. /\ \A b \in Bufs : buf[b].blockno = Nil /\ buf[b].valid = 0 /\ buf[b].refcnt = 0 /\ buf[b].locked = Nil
      /\ \A p \in CacheProcs : t[p].pc = "idle" /\ t[p].b = 0 /\ outer[p] = 0
      /\ pinned = {} /\ Nil \notin Blocks /\ Nil \notin CacheProcs
  BY BuffersAssumption, Zenon DEF CacheInit
<1>4. OneBuffer
  BY <1>3, Zenon DEF OneBuffer, Cached
<1>5. Contents
  BY <1>3 DEF Contents, CacheInit
<1>6. UsersAgree
  BY <1>3, Zenon DEF UsersAgree
<1>7. RefsCounted
  <2>1. \A b \in Bufs : Users(b) = {}
    BY <1>1, <1>3, Zenon DEF Users
  <2>2. \A b \in Bufs : Cardinality(Users(b)) = 0
    BY <2>1, FS_EmptySet, Zenon
  <2>. QED  BY <1>3, <2>2 DEF RefsCounted
<1>8. Exclusive /\ SleepersHaveWaker
  BY <1>1, <1>3, Zenon DEF Exclusive, Owns, Holds, SleepersHaveWaker
<1>. QED  BY <1>2, <1>4, <1>5, <1>6, <1>7, <1>8, Zenon DEF Inv

\* The union of three finite sets is no larger than the three together.
LEMMA ThreeSets ==
  ASSUME NEW P, NEW U, NEW O, IsFiniteSet(P), IsFiniteSet(U), IsFiniteSet(O)
  PROVE  /\ IsFiniteSet(P \cup U \cup O) /\ Cardinality(P \cup U \cup O) \in Nat
         /\ Cardinality(P \cup U \cup O) <= Cardinality(P) + Cardinality(U) + Cardinality(O)
<1>1. IsFiniteSet(P \cup U) /\ Cardinality(P \cup U) = Cardinality(P) + Cardinality(U) - Cardinality(P \cap U)
  BY FS_Union, Zenon
<1>2. /\ IsFiniteSet((P \cup U) \cup O)
      /\ Cardinality((P \cup U) \cup O) = Cardinality(P \cup U) + Cardinality(O) - Cardinality((P \cup U) \cap O)
  BY <1>1, FS_Union, Zenon
<1>3. /\ Cardinality(P) \in Nat /\ Cardinality(U) \in Nat /\ Cardinality(O) \in Nat
      /\ Cardinality(P \cap U) \in Nat /\ Cardinality((P \cup U) \cap O) \in Nat
      /\ Cardinality((P \cup U) \cup O) \in Nat
  BY <1>1, <1>2, FS_Intersection, FS_CardinalityType, Zenon
<1>. QED  BY <1>1, <1>2, <1>3

\* A set of marked elements is no larger than the set of the elements.
LEMMA MarkedSet ==
  ASSUME NEW S, IsFiniteSet(S), NEW m
  PROVE  /\ IsFiniteSet({<<m, x>> : x \in S}) /\ Cardinality({<<m, x>> : x \in S}) \in Nat
         /\ Cardinality({<<m, x>> : x \in S}) <= Cardinality(S)
<1>1. [x \in S |-> <<m, x>>] \in Surjection(S, {<<m, x>> : x \in S})
  BY Zenon DEF Surjection
<1>. QED  BY <1>1, FS_Surjection, FS_CardinalityType, Zenon

\* The processes that have a buffer, and those that have another one besides.
Having == {q \in CacheProcs : t[q].b # 0}
HavingTwo == {q \in CacheProcs : outer[q] # 0}

\* They hold fewer buffers than all could, while one of them asks for one.
LEMMA RoomToAsk ==
  ASSUME Inv, NEW p \in CacheProcs, Asks(p)
  PROVE  /\ IsFiniteSet(Having) /\ IsFiniteSet(HavingTwo)
         /\ Cardinality(Having) \in Nat /\ Cardinality(HavingTwo) \in Nat
         /\ Cardinality(Having) + Cardinality(HavingTwo) < Cardinality(CacheProcs) + Cardinality(Deep)
<1>1. /\ IsFiniteSet(CacheProcs) /\ IsFiniteSet(Deep)
      /\ Cardinality(CacheProcs) \in Nat /\ Cardinality(Deep) \in Nat
  BY BuffersAssumption, FS_Subset, FS_CardinalityType, Zenon
<1>2. Having \subseteq CacheProcs /\ HavingTwo \subseteq Deep
  BY OuterOf, Zenon DEF Having, HavingTwo
<1>3. /\ IsFiniteSet(Having) /\ Cardinality(Having) <= Cardinality(CacheProcs) /\ Cardinality(Having) \in Nat
      /\ IsFiniteSet(HavingTwo) /\ Cardinality(HavingTwo) <= Cardinality(Deep) /\ Cardinality(HavingTwo) \in Nat
  BY <1>1, <1>2, FS_Subset, FS_CardinalityType, Zenon
<1>4. CASE t[p].pc = "idle"
  <2>1. Having \subseteq CacheProcs \ {p}
    BY <1>4, Zenon DEF Having, Inv, UsersAgree
  <2>2. IsFiniteSet(CacheProcs \ {p}) /\ Cardinality(CacheProcs \ {p}) = Cardinality(CacheProcs) - 1
    BY <1>1, FS_RemoveElement, Zenon
  <2>3. Cardinality(Having) <= Cardinality(CacheProcs \ {p})
    BY <2>1, <2>2, FS_Subset, Zenon
  <2>. QED  BY <1>1, <1>3, <2>2, <2>3
<1>5. CASE outer[p] = 0 /\ p \in Deep
  <2>1. HavingTwo \subseteq Deep \ {p}
    BY <1>2, <1>5, Zenon DEF HavingTwo
  <2>2. IsFiniteSet(Deep \ {p}) /\ Cardinality(Deep \ {p}) = Cardinality(Deep) - 1
    BY <1>1, <1>5, FS_RemoveElement, Zenon
  <2>3. Cardinality(HavingTwo) <= Cardinality(Deep \ {p})
    BY <2>1, <2>2, FS_Subset, Zenon
  <2>. QED  BY <1>1, <1>3, <2>2, <2>3
<1>. QED  BY <1>4, <1>5, Zenon DEF Asks

\* Every buffer in use is pinned, or one of the two of a process: there are fewer
\* than NBUF of those, while a process asks.
LEMMA EnoughBuffers ==
  ASSUME Inv
  PROVE  BuffersSuffice
<1>. SUFFICES ASSUME NBUF >= MaxPinned + Cardinality(CacheProcs) + Cardinality(Deep), Unused = {},
                     NEW p \in CacheProcs, Asks(p)
              PROVE  FALSE
  BY Zenon DEF BuffersSuffice
<1> DEFINE u == [b \in Bufs |-> CHOOSE q \in Users(b) : TRUE]
           f == [b \in Bufs |-> IF buf[b].blockno \in pinned THEN <<"pin", buf[b].blockno>>
                                ELSE IF t[u[b]].b = b THEN <<"inner", u[b]>> ELSE <<"outer", u[b]>>]
           P == {<<"pin", k>> : k \in pinned}
           U == {<<"inner", q>> : q \in Having}
           O == {<<"outer", q>> : q \in HavingTwo}
           T == P \cup U \cup O
<1>1. /\ NBUF \in Nat /\ MaxPinned \in Nat /\ IsFiniteSet(pinned) /\ Cardinality(pinned) <= MaxPinned
      /\ Cardinality(pinned) \in Nat /\ Cardinality(CacheProcs) \in Nat /\ Cardinality(Deep) \in Nat
  BY BuffersAssumption, FS_Subset, FS_CardinalityType, Zenon DEF Inv, CacheTypeOK
<1>2. IsFiniteSet(T) /\ Cardinality(T) < NBUF
  <2>1. /\ IsFiniteSet(Having) /\ IsFiniteSet(HavingTwo)
        /\ Cardinality(Having) \in Nat /\ Cardinality(HavingTwo) \in Nat
        /\ Cardinality(Having) + Cardinality(HavingTwo) < Cardinality(CacheProcs) + Cardinality(Deep)
    BY RoomToAsk, Zenon
  <2>2. IsFiniteSet(P) /\ Cardinality(P) \in Nat /\ Cardinality(P) <= Cardinality(pinned)
    BY <1>1, MarkedSet, Zenon
  <2>3. IsFiniteSet(U) /\ Cardinality(U) \in Nat /\ Cardinality(U) <= Cardinality(Having)
    BY <2>1, MarkedSet, Zenon
  <2>4. IsFiniteSet(O) /\ Cardinality(O) \in Nat /\ Cardinality(O) <= Cardinality(HavingTwo)
    BY <2>1, MarkedSet, Zenon
  <2>. HIDE DEF P, U, O
  <2>5. /\ IsFiniteSet(T) /\ Cardinality(T) \in Nat
        /\ Cardinality(T) <= Cardinality(P) + Cardinality(U) + Cardinality(O)
    BY <2>2, <2>3, <2>4, ThreeSets, Zenon
  <2>. HIDE DEF T
  <2>. QED  BY <1>1, <2>1, <2>2, <2>3, <2>4, <2>5
<1>3. ASSUME NEW b \in Bufs, buf[b].blockno \notin pinned PROVE u[b] \in Users(b)
  <2>1. buf[b].refcnt # 0
    BY Zenon DEF Unused
  <2>2. Cardinality(Users(b)) # 0
    BY <1>3, <2>1, UsersFinite DEF Inv, RefsCounted
  <2>3. Users(b) # {}
    BY <2>2, FS_EmptySet, Zenon
  <2>. QED  BY <2>3, Zenon
<1>. HIDE DEF u
<1>4. \A b \in Bufs : buf[b].blockno \notin pinned =>
        \/ t[u[b]].b = b /\ u[b] \in Having
        \/ t[u[b]].b # b /\ outer[u[b]] = b /\ u[b] \in HavingTwo
  <2>1. 0 \notin Bufs
    BY BuffersAssumption DEF Bufs
  <2>. QED  BY <1>3, <2>1, Zenon DEF Users, Having, HavingTwo
<1>5. f \in [Bufs -> T]
  BY <1>4, Zenon
<1>6. \A b, c \in Bufs : b # c => f[b] # f[c]
  <2>. SUFFICES ASSUME NEW b \in Bufs, NEW c \in Bufs, f[b] = f[c] PROVE b = c
    BY Zenon
  <2>1. CASE buf[b].blockno \in pinned
    <3>1. buf[c].blockno \in pinned /\ buf[b].blockno = buf[c].blockno
      BY <2>1, Zenon
    <3>. QED  BY <2>1, <3>1, SameBlock, Zenon DEF Inv, CacheTypeOK
  <2>2. CASE buf[b].blockno \notin pinned
    <3>1. buf[c].blockno \notin pinned /\ u[b] = u[c] /\ (t[u[b]].b = b <=> t[u[c]].b = c)
      BY <2>2, Zenon
    <3>. QED  BY <1>4, <2>2, <3>1, Zenon
  <2>. QED  BY <2>1, <2>2, Zenon
<1>. HIDE DEF f, T
<1>7. IsFiniteSet(Bufs) /\ Cardinality(Bufs) = NBUF
  <2>1. 1 \in Int /\ NBUF \in Int /\ (IF 1 > NBUF THEN 0 ELSE NBUF - 1 + 1) = NBUF
    BY <1>1
  <2>. QED  BY <2>1, FS_Interval, Zenon DEF Bufs
<1>. QED  BY <1>2, <1>5, <1>6, <1>7, FS_PigeonHole

\* What the invariant gives the users of a buffer.
LEMMA InvGives ==
  ASSUME Inv
  PROVE  CacheInv
<1>1. OneCopy
  <2>1. ASSUME NEW p \in CacheProcs, t[p].pc = "locked" PROVE B(p).data = last[B(p).blockno]
    <3>1. t[p].b \in Bufs /\ B(p).valid = 1
      BY <2>1, BufferOf, Zenon DEF Inv, UsersAgree
    <3>. QED  BY <3>1, Zenon DEF Inv, Contents, B
  <2>2. ASSUME NEW p \in CacheProcs, outer[p] # 0 PROVE buf[outer[p]].data = last[buf[outer[p]].blockno]
    BY <2>2, OuterOf, Zenon DEF Inv, Contents
  <2>. QED  BY <2>1, <2>2, Zenon DEF Inv, OneBuffer, OneCopy
<1>. QED  BY <1>1, EnoughBuffers, Zenon DEF Inv, CacheInv

\* The buffer cache and its sleep locks work for any number of processes, blocks and
\* buffers: bget(), bread(), bwrite(), brelse(), bpin() and bunpin() keep one buffer per
\* block with its current contents, counts are exact, locks exclude, no wakeup is lost.
THEOREM CacheCorrect == CacheSpec => []CacheInv
<1>1. CacheInit => Inv
  BY InvInit, Zenon
<1>2. Inv /\ [CacheNext]_cacheVars => Inv'
  BY InvStep, Zenon
<1>3. Inv => CacheInv
  BY InvGives, Zenon
<1>. QED  BY <1>1, <1>2, <1>3, PTL DEF CacheSpec

\* Whoever has locked a buffer with bread() sees what was last written to the block.
THEOREM OneCopyTheorem == CacheSpec => []OneCopy
<1>1. CacheInv => OneCopy
  BY Zenon DEF CacheInv
<1>. QED  BY <1>1, CacheCorrect, PTL

\* bget() does not panic for want of a buffer if there are as many as pins, processes, and
\* processes that hold two buffers, together.
THEOREM BuffersSufficeTheorem == CacheSpec => []BuffersSuffice
<1>1. CacheInv => BuffersSuffice
  BY Zenon DEF CacheInv
<1>. QED  BY <1>1, CacheCorrect, PTL
=============================================================================
