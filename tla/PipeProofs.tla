----------------------------- MODULE PipeProofs -----------------------------
(***************************************************************************)
(* Proofs about module Pipe, for any set of readers and writers, any size  *)
(* of the ring and any width of its counters: PipeInv is an invariant, and *)
(* with it the safety properties of the pipe.                              *)
(***************************************************************************)
EXTENDS Pipe, FiniteSetTheorems, TLAPS

-----------------------------------------------------------------------------
(* The counters nread and nwrite, which wrap at UINT.                      *)

\* A remainder is the number it is congruent to in the range of the divisor.
LEMMA ModIs ==
  ASSUME NEW U \in Nat \ {0}, NEW x \in Int, NEW y \in 0 .. U - 1,
         x = y \/ x = y + U \/ x = y - U
  PROVE  x % U = y
<1>1. y % U = y
  OBVIOUS
<1>2. (y + U) % U = y
  OBVIOUS
<1>3. (y - U) % U = y
  OBVIOUS
<1>. QED  BY <1>1, <1>2, <1>3, Zenon

\* The remainder of a number that is at most one U out of range.
LEMMA ModNear ==
  ASSUME NEW U \in Nat \ {0}, NEW x \in Int, x > 0 - U, x < U + U
  PROVE  /\ x % U \in 0 .. U - 1
         /\ x % U = x \/ x % U = x + U \/ x % U = x - U
<1>1. CASE x < 0
  BY <1>1, ModIs, x + U \in 0 .. U - 1
<1>2. CASE x >= 0 /\ x < U
  BY <1>2, ModIs, x \in 0 .. U - 1, Zenon
<1>3. CASE x >= U
  <2>. DEFINE y == x - U
  <2>1. y \in 0 .. U - 1 /\ x = y + U
    BY <1>3
  <2>. HIDE DEF y
  <2>2. x % U = y
    BY <2>1, ModIs, Zenon
  <2>. QED  BY <2>1, <2>2
<1>. QED  BY <1>1, <1>2, <1>3

\* Advancing nwrite by k, where there is room, makes the pipe k bytes fuller.
LEMMA UsedAfterWrite ==
  ASSUME NEW U \in Nat \ {0}, NEW a \in 0 .. U - 1, NEW b \in 0 .. U - 1, NEW k \in Nat,
         ((a - b) % U) + k < U
  PROVE  /\ (a + k) % U \in 0 .. U - 1
         /\ (((a + k) % U) - b) % U = ((a - b) % U) + k
<1>. DEFINE u == (a - b) % U
            c == (a + k) % U
<1>1. u \in 0 .. U - 1 /\ (u = a - b \/ u = a - b + U)
  <2>. DEFINE d == a - b
  <2>1. d \in Int /\ d > 0 - U /\ d < U + U
    OBVIOUS
  <2>2. d % U \in 0 .. U - 1 /\ (d % U = d \/ d % U = d + U \/ d % U = d - U)
    <3>. HIDE DEF d
    <3>. QED  BY <2>1, ModNear, Zenon
  <2>. QED  BY <2>2
<1>2. k < U
  BY <1>1
<1>3. c \in 0 .. U - 1 /\ (c = a + k \/ c = a + k - U)
  <2>. DEFINE d == a + k
  <2>1. d \in Int /\ d > 0 - U /\ d < U + U
    BY <1>2
  <2>2. d % U \in 0 .. U - 1 /\ (d % U = d \/ d % U = d + U \/ d % U = d - U)
    <3>. HIDE DEF d
    <3>. QED  BY <2>1, ModNear, Zenon
  <2>. QED  BY <2>2
<1>4. u + k \in 0 .. U - 1 /\ (c - b = u + k \/ c - b = u + k + U \/ c - b = u + k - U)
  BY <1>1, <1>3
<1>5. (c - b) % U = u + k
  <2>. HIDE DEF u, c
  <2>. QED  BY <1>1, <1>3, <1>4, ModIs
<1>. QED  BY <1>3, <1>5, Zenon

\* Advancing nread by k bytes that are there makes the pipe k bytes emptier.
LEMMA UsedAfterRead ==
  ASSUME NEW U \in Nat \ {0}, NEW a \in 0 .. U - 1, NEW b \in 0 .. U - 1, NEW k \in Nat,
         k <= (a - b) % U
  PROVE  /\ (b + k) % U \in 0 .. U - 1
         /\ (a - ((b + k) % U)) % U = ((a - b) % U) - k
<1>. DEFINE u == (a - b) % U
            c == (b + k) % U
<1>1. u \in 0 .. U - 1 /\ (u = a - b \/ u = a - b + U)
  <2>. DEFINE d == a - b
  <2>1. d \in Int /\ d > 0 - U /\ d < U + U
    OBVIOUS
  <2>2. d % U \in 0 .. U - 1 /\ (d % U = d \/ d % U = d + U \/ d % U = d - U)
    <3>. HIDE DEF d
    <3>. QED  BY <2>1, ModNear, Zenon
  <2>. QED  BY <2>2
<1>2. k < U
  BY <1>1
<1>3. c \in 0 .. U - 1 /\ (c = b + k \/ c = b + k - U)
  <2>. DEFINE d == b + k
  <2>1. d \in Int /\ d > 0 - U /\ d < U + U
    BY <1>2
  <2>2. d % U \in 0 .. U - 1 /\ (d % U = d \/ d % U = d + U \/ d % U = d - U)
    <3>. HIDE DEF d
    <3>. QED  BY <2>1, ModNear, Zenon
  <2>. QED  BY <2>2
<1>4. u - k \in 0 .. U - 1 /\ (a - c = u - k \/ a - c = u - k + U \/ a - c = u - k - U)
  BY <1>1, <1>3
<1>5. (a - c) % U = u - k
  <2>. HIDE DEF u, c
  <2>. QED  BY <1>1, <1>3, <1>4, ModIs
<1>. QED  BY <1>3, <1>5, Zenon

\* The pipe is empty exactly when nread = nwrite, as piperead() tests it.
LEMMA UsedRange ==
  ASSUME TypeOK
  PROVE  /\ Used \in 0 .. PIPESIZE
         /\ Used = 0 <=> nread = nwrite
<1>1. UINT \in Nat \ {0} /\ PIPESIZE \in Nat
  BY PipeAssumption
<1>2. Used \in 0 .. UINT - 1 /\ (Used = nwrite - nread \/ Used = nwrite - nread + UINT \/ Used = nwrite - nread - UINT)
  <2>. DEFINE d == nwrite - nread
  <2>1. d \in Int /\ d > 0 - UINT /\ d < UINT + UINT
    BY <1>1 DEF TypeOK
  <2>2. d % UINT \in 0 .. UINT - 1 /\ (d % UINT = d \/ d % UINT = d + UINT \/ d % UINT = d - UINT)
    <3>. HIDE DEF d
    <3>. QED  BY <1>1, <2>1, ModNear, Zenon
  <2>. QED  BY <2>2, Zenon DEF Used
<1>. QED  BY <1>1, <1>2 DEF TypeOK

-----------------------------------------------------------------------------
(* How the steps change the number of bytes in the pipe.                   *)

\* Only pipewrite() and piperead() move the counters.
LEMMA UsedSame ==
  ASSUME UNCHANGED <<nread, nwrite>>
  PROVE  Used' = Used
  BY Zenon DEF Used

\* pipewrite() puts in k bytes, where there is room for them.
LEMMA WriteUsed ==
  ASSUME TypeOK, NEW k \in 0 .. PIPESIZE, k <= Room, nwrite' = (nwrite + k) % UINT, nread' = nread
  PROVE  nwrite' \in 0 .. UINT - 1 /\ Used' = Used + k
<1>1. UINT \in Nat \ {0} /\ PIPESIZE \in Nat /\ PIPESIZE < UINT /\ k \in Nat
  BY PipeAssumption
<1>2. nwrite \in 0 .. UINT - 1 /\ nread \in 0 .. UINT - 1
  BY Zenon DEF TypeOK
<1>3. Used + k < UINT
  BY <1>1, UsedRange DEF Room
<1>4. ((nwrite - nread) % UINT) + k < UINT
  BY <1>3, Zenon DEF Used
<1>5. (nwrite + k) % UINT \in 0 .. UINT - 1 /\ (((nwrite + k) % UINT) - nread) % UINT = ((nwrite - nread) % UINT) + k
  BY <1>1, <1>2, <1>4, UsedAfterWrite, Zenon
<1>. QED  BY <1>5, Zenon DEF Used

\* piperead() takes out k bytes of those that are there.
LEMMA ReadUsed ==
  ASSUME TypeOK, NEW k \in 0 .. PIPESIZE, k <= Used, nread' = (nread + k) % UINT, nwrite' = nwrite
  PROVE  nread' \in 0 .. UINT - 1 /\ Used' = Used - k
<1>1. UINT \in Nat \ {0} /\ k \in Nat
  BY PipeAssumption
<1>2. nwrite \in 0 .. UINT - 1 /\ nread \in 0 .. UINT - 1
  BY Zenon DEF TypeOK
<1>3. k <= (nwrite - nread) % UINT
  BY Zenon DEF Used
<1>4. (nread + k) % UINT \in 0 .. UINT - 1 /\ (nwrite - ((nread + k) % UINT)) % UINT = ((nwrite - nread) % UINT) - k
  BY <1>1, <1>2, <1>3, UsedAfterRead
<1>5. Used' = (nwrite - ((nread + k) % UINT)) % UINT
  BY Zenon DEF Used
<1>. QED  BY <1>4, <1>5, Zenon DEF Used

\* A step of one process; n is the size of the call that begins.
Step(p, n) ==
  \/ StartWrite(p, n) \/ WriteBytes(p) \/ WriteFull(p)
  \/ StartRead(p, n) \/ ReadEmpty(p) \/ ReadBytes(p) \/ ReadCheckKilled(p)
  \/ Sleep(p) \/ Kill(p) \/ FileClose(p) \/ PipeClose(p)

\* Some size is possible.
LEMMA MaxNIsNat == 0 \in 0 .. MaxN
  BY PipeAssumption

\* The users of an end are finitely many, and a process that has it open is one.
LEMMA UsersCounted ==
  ASSUME TypeOK, EndsAgree
  PROVE  /\ \A e \in {"r", "w"} : IsFiniteSet(Using(e))
         /\ \A p \in Procs : pc[p] = "open" => /\ End(p) \in {"r", "w"}
                                               /\ p \in Using(End(p))
                                               /\ ref[End(p)] - 1 \in Nat
<1>1. IsFiniteSet(Procs)
  BY PipeAssumption, FS_Union, Zenon DEF Procs
<1>2. ASSUME NEW e PROVE IsFiniteSet(Using(e))
  BY <1>1, FS_Subset, Using(e) \subseteq Procs, Zenon DEF Using
<1>3. ASSUME NEW p \in Procs, pc[p] = "open"
      PROVE  End(p) \in {"r", "w"} /\ p \in Using(End(p)) /\ ref[End(p)] - 1 \in Nat
  <2>1. End(p) \in {"r", "w"} /\ p \in Using(End(p))
    BY <1>3, Zenon DEF End, Using
  <2>2. Cardinality(Using(End(p))) \in Nat /\ Cardinality(Using(End(p))) # 0
    BY <1>2, <2>1, FS_CardinalityType, FS_EmptySet, Zenon
  <2>3. ref[End(p)] = Cardinality(Using(End(p)))
    BY <2>1, Zenon DEF EndsAgree
  <2>. QED  BY <2>1, <2>2, <2>3
<1>. QED  BY <1>2, <1>3, Zenon

-----------------------------------------------------------------------------
(* The types.                                                              *)

\* The state pipealloc() builds has its type.
LEMMA TypeInit == Init => TypeOK
<1>. SUFFICES ASSUME Init PROVE TypeOK
  BY Zenon
<1>1. nread \in 0 .. UINT - 1 /\ nwrite \in 0 .. UINT - 1
  BY PipeAssumption DEF Init
<1>2. Used <= PIPESIZE
  <2>1. UINT \in Nat \ {0} /\ PIPESIZE \in Nat
    BY PipeAssumption
  <2>2. (0 - 0) % UINT = 0
    BY <2>1, ModIs
  <2>. QED  BY <2>1, <2>2 DEF Init, Used
<1>3. data \in [0 .. PIPESIZE - 1 -> Bytes]
  BY PipeAssumption, Zenon DEF Init
<1>4. ref \in [{"r", "w"} -> Nat]
  <2>1. Cardinality(Readers) \in Nat /\ Cardinality(Writers) \in Nat
    BY PipeAssumption, FS_CardinalityType, Zenon
  <2>. QED  BY <2>1, Zenon DEF Init
<1>. QED  BY <1>1, <1>2, <1>3, <1>4, PipeAssumption DEF Init, TypeOK, PCs

\* Every step of a system call keeps the types.
LEMMA TypeNext == PipeInv /\ [Next]_vars => TypeOK'
<1>. SUFFICES ASSUME PipeInv, [Next]_vars PROVE TypeOK'
  BY Zenon
<1>. USE DEF PipeInv
<1>0. CASE UNCHANGED vars
  BY <1>0, Zenon DEF TypeOK, vars, pipe, Used
<1>. SUFFICES ASSUME NEW p \in Procs, NEW n \in 0 .. MaxN, Step(p, n) PROVE TypeOK'
  BY <1>0, MaxNIsNat, Zenon DEF Next, CallStep, Step
<1>1. CASE StartWrite(p, n)
  <2>1. Used' = Used
    BY <1>1, Zenon DEF StartWrite, pipe, Used
  <2>. QED  BY <1>1, <2>1, PipeAssumption, Zenon DEF StartWrite, TypeOK, pipe, PCs, InCall, Waiting
<1>2. CASE WriteBytes(p)
  <2>1. PICK k \in 0 .. PIPESIZE :
          /\ k <= left[p] /\ k <= Room
          /\ nwrite' = (nwrite + k) % UINT
          /\ left' = [left EXCEPT ![p] = @ - k] \/ left' = [left EXCEPT ![p] = 0]
    BY <1>2, Zenon DEF WriteBytes
  <2>2. nwrite' \in 0 .. UINT - 1 /\ Used' = Used + k
    BY <1>2, <2>1, WriteUsed, Zenon DEF WriteBytes
  <2>3. Used' <= PIPESIZE
    BY <2>1, <2>2, UsedRange, PipeAssumption DEF Room
  <2>4. left' \in [Procs -> 0 .. MaxN]
    <3>1. left[p] \in 0 .. MaxN /\ left \in [Procs -> 0 .. MaxN]
      BY Zenon DEF TypeOK
    <3>2. left[p] - k \in 0 .. MaxN /\ 0 \in 0 .. MaxN
      BY <2>1, <3>1, PipeAssumption
    <3>. QED  BY <2>1, <3>1, <3>2, Zenon
  <2>5. pc' \in [Procs -> PCs] /\ lock' \in Procs \cup {None}
    BY <1>2, Zenon DEF WriteBytes, TypeOK, WakeReaders, PCs, InCall, Waiting
  <2>6. data' \in [0 .. PIPESIZE - 1 -> Bytes]
    BY <1>2, Zenon DEF WriteBytes, TypeOK
  <2>. QED  BY <1>2, <2>2, <2>3, <2>4, <2>5, <2>6, Zenon DEF WriteBytes, TypeOK
<1>3. CASE WriteFull(p)
  <2>1. Used' = Used
    BY <1>3, Zenon DEF WriteFull, pipe, Used
  <2>2. pc' \in [Procs -> PCs]
    BY <1>3, Zenon DEF WriteFull, TypeOK, PCs, InCall, Waiting, WakeReaders
  <2>3. left' \in [Procs -> 0 .. MaxN] /\ lock' \in Procs \cup {None}
    BY <1>3, MaxNIsNat, Zenon DEF WriteFull, TypeOK
  <2>. QED  BY <1>3, <2>1, <2>2, <2>3, Zenon DEF WriteFull, TypeOK, pipe
<1>4. CASE StartRead(p, n)
  <2>1. Used' = Used
    BY <1>4, Zenon DEF StartRead, pipe, Used
  <2>. QED  BY <1>4, <2>1, PipeAssumption, Zenon DEF StartRead, TypeOK, pipe, PCs, InCall, Waiting
<1>5. CASE ReadEmpty(p)
  <2>1. Used' = Used
    BY <1>5, Zenon DEF ReadEmpty, pipe, Used
  <2>. QED  BY <1>5, <2>1, PipeAssumption, Zenon DEF ReadEmpty, TypeOK, pipe, PCs, InCall, Waiting
<1>6. CASE ReadBytes(p)
  <2>1. PICK k \in 0 .. PIPESIZE : k <= Used /\ nread' = (nread + k) % UINT
    BY <1>6, Zenon DEF ReadBytes
  <2>2. nread' \in 0 .. UINT - 1 /\ Used' = Used - k
    BY <1>6, <2>1, ReadUsed, Zenon DEF ReadBytes
  <2>3. Used' <= PIPESIZE
    BY <2>1, <2>2, UsedRange, PipeAssumption
  <2>4. pc' \in [Procs -> PCs]
    BY <1>6, Zenon DEF ReadBytes, TypeOK, WakeWriters, PCs, InCall, Waiting
  <2>5. left' \in [Procs -> 0 .. MaxN]
    BY <1>6, MaxNIsNat, Zenon DEF ReadBytes, TypeOK
  <2>. QED  BY <1>6, <2>2, <2>3, <2>4, <2>5, Zenon DEF ReadBytes, TypeOK
<1>7. CASE ReadCheckKilled(p)
  <2>1. Used' = Used
    BY <1>7, Zenon DEF ReadCheckKilled, pipe, Used
  <2>. QED  BY <1>7, <2>1, PipeAssumption DEF ReadCheckKilled, TypeOK, pipe, PCs, InCall, Waiting
<1>8. CASE Sleep(p)
  <2>1. Used' = Used
    BY <1>8, Zenon DEF Sleep, pipe, Used
  <2>. QED  BY <1>8, <2>1, PipeAssumption, Zenon DEF Sleep, TypeOK, pipe, PCs, InCall, Waiting
<1>9. CASE Kill(p)
  <2>1. Used' = Used
    BY <1>9, Zenon DEF Kill, pipe, Used
  <2>. QED  BY <1>9, <2>1, PipeAssumption, Zenon DEF Kill, TypeOK, pipe, PCs, InCall, Waiting
<1>10. CASE FileClose(p)
  <2>1. ref[End(p)] - 1 \in Nat
    BY <1>10, UsersCounted, Zenon DEF FileClose
  <2>2. Used' = Used
    BY <1>10, Zenon DEF FileClose, pipe, Used
  <2>. QED  BY <1>10, <2>1, <2>2, Zenon DEF FileClose, TypeOK, pipe, PCs, End
<1>11. CASE PipeClose(p)
  <2>1. Used' = Used
    BY <1>11, Zenon DEF PipeClose, Used
  <2>. QED  BY <1>11, <2>1, PipeAssumption, Zenon DEF PipeClose, TypeOK, PCs, InCall, Waiting, WakeReaders, WakeWriters, FreeWhen
<1>. QED  BY <1>1, <1>2, <1>3, <1>4, <1>5, <1>6, <1>7, <1>8, <1>9, <1>10, <1>11, Zenon DEF Step

-----------------------------------------------------------------------------
(* The lock.                                                               *)

\* None is not a process, and no process has both ends.
LEMMA TwoEnds ==
  /\ None \notin Procs
  /\ \A p \in Procs : p \in Readers <=> p \notin Writers
  /\ Readers \subseteq Procs /\ Writers \subseteq Procs
  BY PipeAssumption, Zenon DEF None, Procs

\* The steps acquire and release pi->lock as acquire() and sleep() do.
LEMMA LockNext == PipeInv /\ [Next]_vars => LockAgrees'
<1>. SUFFICES ASSUME PipeInv, [Next]_vars PROVE LockAgrees'
  BY Zenon
<1>. USE DEF PipeInv
<1>0. CASE UNCHANGED vars
  BY <1>0, Zenon DEF LockAgrees, vars, pipe
<1>. SUFFICES ASSUME NEW p \in Procs, NEW n \in 0 .. MaxN, Step(p, n) PROVE LockAgrees'
  BY <1>0, MaxNIsNat, Zenon DEF Next, CallStep, Step
<1>1. CASE StartWrite(p, n)
  BY <1>1, TwoEnds DEF StartWrite, LockAgrees, TypeOK
<1>2. CASE WriteBytes(p)
  BY <1>2, TwoEnds DEF WriteBytes, LockAgrees, TypeOK, WakeReaders
<1>3. CASE WriteFull(p)
  BY <1>3, TwoEnds DEF WriteFull, LockAgrees, TypeOK, WakeReaders
<1>4. CASE StartRead(p, n)
  BY <1>4, TwoEnds DEF StartRead, LockAgrees, TypeOK
<1>5. CASE ReadEmpty(p)
  BY <1>5, TwoEnds, Zenon DEF ReadEmpty, LockAgrees, TypeOK
<1>6. CASE ReadBytes(p)
  BY <1>6, TwoEnds, Zenon DEF ReadBytes, LockAgrees, TypeOK, WakeWriters
<1>7. CASE ReadCheckKilled(p)
  BY <1>7, TwoEnds, Zenon DEF ReadCheckKilled, LockAgrees, TypeOK
<1>8. CASE Sleep(p)
  BY <1>8, TwoEnds, Zenon DEF Sleep, LockAgrees, TypeOK
<1>9. CASE Kill(p)
  BY <1>9, TwoEnds DEF Kill, LockAgrees, TypeOK
<1>10. CASE FileClose(p)
  BY <1>10, TwoEnds, Zenon DEF FileClose, LockAgrees, TypeOK
<1>11. CASE PipeClose(p)
  BY <1>11, TwoEnds DEF PipeClose, LockAgrees, TypeOK, WakeReaders, WakeWriters, End
<1>. QED  BY <1>1, <1>2, <1>3, <1>4, <1>5, <1>6, <1>7, <1>8, <1>9, <1>10, <1>11, Zenon DEF Step

-----------------------------------------------------------------------------
(* The ends.                                                               *)

\* A step that neither closes an end nor drops a reference changes nothing here.
LEMMA EndsSame ==
  ASSUME EndsAgree, UNCHANGED <<ref, readopen, writeopen, freed>>,
         \A q \in Procs : /\ pc'[q] = "closing" <=> pc[q] = "closing"
                          /\ pc'[q] = "closed" <=> pc[q] = "closed"
  PROVE  EndsAgree'
<1>1. \A e \in {"r", "w"} : Using(e)' = Using(e)
  BY Zenon DEF Using
<1>. QED  BY <1>1, TwoEnds, Zenon DEF EndsAgree, FreeWhen

\* The reference counts and the two flags go on agreeing with who has an end open.
LEMMA EndsNext == PipeInv /\ [Next]_vars => EndsAgree'
<1>. SUFFICES ASSUME PipeInv, [Next]_vars PROVE EndsAgree'
  BY Zenon
<1>. USE DEF PipeInv
<1>0. CASE UNCHANGED vars
  BY <1>0, Zenon DEF EndsAgree, vars, pipe, Using
<1>. SUFFICES ASSUME NEW p \in Procs, NEW n \in 0 .. MaxN, Step(p, n) PROVE EndsAgree'
  BY <1>0, MaxNIsNat, Zenon DEF Next, CallStep, Step
<1>1. CASE StartWrite(p, n)
  <2>1. \A q \in Procs : /\ pc'[q] = "closing" <=> pc[q] = "closing"
                         /\ pc'[q] = "closed" <=> pc[q] = "closed"
    BY <1>1, Zenon DEF StartWrite, TypeOK
  <2>. QED  BY <1>1, <2>1, EndsSame, Zenon DEF StartWrite, pipe
<1>2. CASE WriteBytes(p)
  <2>1. \A q \in Procs : /\ pc'[q] = "closing" <=> pc[q] = "closing"
                         /\ pc'[q] = "closed" <=> pc[q] = "closed"
    BY <1>2, Zenon DEF WriteBytes, TypeOK, WakeReaders
  <2>. QED  BY <1>2, <2>1, EndsSame, Zenon DEF WriteBytes
<1>3. CASE WriteFull(p)
  <2>1. \A q \in Procs : /\ pc'[q] = "closing" <=> pc[q] = "closing"
                         /\ pc'[q] = "closed" <=> pc[q] = "closed"
    BY <1>3, Zenon DEF WriteFull, TypeOK, WakeReaders
  <2>. QED  BY <1>3, <2>1, EndsSame, Zenon DEF WriteFull, pipe
<1>4. CASE StartRead(p, n)
  <2>1. \A q \in Procs : /\ pc'[q] = "closing" <=> pc[q] = "closing"
                         /\ pc'[q] = "closed" <=> pc[q] = "closed"
    BY <1>4, Zenon DEF StartRead, TypeOK
  <2>. QED  BY <1>4, <2>1, EndsSame, Zenon DEF StartRead, pipe
<1>5. CASE ReadEmpty(p)
  <2>1. \A q \in Procs : /\ pc'[q] = "closing" <=> pc[q] = "closing"
                         /\ pc'[q] = "closed" <=> pc[q] = "closed"
    BY <1>5, Zenon DEF ReadEmpty, TypeOK
  <2>. QED  BY <1>5, <2>1, EndsSame, Zenon DEF ReadEmpty, pipe
<1>6. CASE ReadBytes(p)
  <2>1. \A q \in Procs : /\ pc'[q] = "closing" <=> pc[q] = "closing"
                         /\ pc'[q] = "closed" <=> pc[q] = "closed"
    BY <1>6, Zenon DEF ReadBytes, TypeOK, WakeWriters
  <2>. QED  BY <1>6, <2>1, EndsSame, Zenon DEF ReadBytes
<1>7. CASE ReadCheckKilled(p)
  <2>1. \A q \in Procs : /\ pc'[q] = "closing" <=> pc[q] = "closing"
                         /\ pc'[q] = "closed" <=> pc[q] = "closed"
    BY <1>7, Zenon DEF ReadCheckKilled, TypeOK
  <2>. QED  BY <1>7, <2>1, EndsSame, Zenon DEF ReadCheckKilled, pipe
<1>8. CASE Sleep(p)
  <2>1. \A q \in Procs : /\ pc'[q] = "closing" <=> pc[q] = "closing"
                         /\ pc'[q] = "closed" <=> pc[q] = "closed"
    BY <1>8, Zenon DEF Sleep, TypeOK
  <2>. QED  BY <1>8, <2>1, EndsSame, Zenon DEF Sleep, pipe
<1>9. CASE Kill(p)
  <2>1. \A q \in Procs : /\ pc'[q] = "closing" <=> pc[q] = "closing"
                         /\ pc'[q] = "closed" <=> pc[q] = "closed"
    BY <1>9, Zenon DEF Kill, TypeOK
  <2>. QED  BY <1>9, <2>1, EndsSame, Zenon DEF Kill, pipe
<1>10. CASE FileClose(p)
  <2>. DEFINE e == End(p)
  <2>1. e \in {"r", "w"} /\ p \in Using(e) /\ IsFiniteSet(Using(e)) /\ pc[p] = "open" /\ ref[e] = Cardinality(Using(e))
    BY <1>10, UsersCounted, Zenon DEF FileClose, EndsAgree
  <2>2. Using(e)' = Using(e) \ {p} /\ \A d \in {"r", "w"} \ {e} : Using(d)' = Using(d)
    BY <1>10, Zenon DEF FileClose, Using, TypeOK
  <2>3. /\ Cardinality(Using(e)') = Cardinality(Using(e)) - 1
        /\ IsFiniteSet(Using(e)')
    BY <2>1, <2>2, FS_RemoveElement
  <2>4. \A d \in {"r", "w"} : ref'[d] = Cardinality(Using(d)')
    BY <1>10, <2>1, <2>2, <2>3, Zenon DEF FileClose, EndsAgree, TypeOK
  <2>5. \A q \in Procs \ {p} : pc'[q] = pc[q]
    BY <1>10, Zenon DEF FileClose, TypeOK
  <2>6. \A q \in Procs : End(q) = e => pc[q] # "closing"
    BY <2>1, Zenon DEF EndsAgree
  <2>7. pc'[p] = "closing" => \A q \in Procs \ {p} : End(q) = e => pc'[q] = "closed"
    <3>. SUFFICES ASSUME pc'[p] = "closing", NEW q \in Procs \ {p}, End(q) = e PROVE pc'[q] = "closed"
      BY Zenon
    <3>1. ~(ref[e] - 1 > 0)
      BY <1>10, Zenon DEF FileClose, TypeOK
    <3>2. Cardinality(Using(e)') = 0
      BY <2>1, <2>3, <3>1, FS_CardinalityType
    <3>3. Using(e)' = {}
      BY <2>3, <3>2, FS_EmptySet, Zenon
    <3>. QED  BY <2>5, <2>6, <3>3, Zenon DEF Using
  <2>8. pc'[p] \in {"closed", "closing"}
    BY <1>10, Zenon DEF FileClose, TypeOK
  <2>9. \A q, r \in Procs : pc'[q] = "closing" /\ End(r) = End(q) /\ r # q => pc'[r] = "closed"
    <3>. SUFFICES ASSUME NEW q \in Procs, NEW r \in Procs, pc'[q] = "closing", End(r) = End(q), r # q
                  PROVE  pc'[r] = "closed"
      BY Zenon
    <3>1. CASE q = p
      BY <2>7, <3>1, Zenon
    <3>2. CASE q # p
      <4>1. pc[q] = "closing" /\ End(q) # e
        BY <2>5, <2>6, <3>2, Zenon
      <4>. QED  BY <2>5, <4>1, Zenon DEF EndsAgree
    <3>. QED  BY <3>1, <3>2, Zenon
  <2>10. /\ readopen' = 0 => \A q \in Readers : pc'[q] = "closed"
         /\ writeopen' = 0 => \A q \in Writers : pc'[q] = "closed"
    BY <1>10, <2>1, <2>5, TwoEnds, Zenon DEF FileClose, pipe, EndsAgree
  <2>11. freed' = FreeWhen(readopen', writeopen')
    BY <1>10, Zenon DEF FileClose, pipe, EndsAgree, FreeWhen
  <2>. QED  BY <2>4, <2>9, <2>10, <2>11, Zenon DEF EndsAgree
<1>11. CASE PipeClose(p)
  <2>1. /\ pc[p] = "closing" /\ pc'[p] = "closed"
        /\ \A q \in Procs \ {p} : /\ pc'[q] = "closing" <=> pc[q] = "closing"
                                  /\ pc'[q] = "closed" <=> pc[q] = "closed"
    BY <1>11, TwoEnds, Zenon DEF PipeClose, WakeReaders, WakeWriters, TypeOK
  <2>2. \A e \in {"r", "w"} : Using(e)' = Using(e)
    BY <2>1, Zenon DEF Using
  <2>3. \A e \in {"r", "w"} : ref'[e] = Cardinality(Using(e)')
    BY <1>11, <2>2, Zenon DEF PipeClose, EndsAgree
  <2>4. \A q, r \in Procs : pc'[q] = "closing" /\ End(r) = End(q) /\ r # q => pc'[r] = "closed"
    BY <2>1, Zenon DEF EndsAgree
  <2>5. \A q \in Procs : End(q) = End(p) => pc'[q] = "closed"
    BY <2>1, Zenon DEF EndsAgree
  <2>6. /\ readopen' = 0 => \A q \in Readers : pc'[q] = "closed"
        /\ writeopen' = 0 => \A q \in Writers : pc'[q] = "closed"
    BY <1>11, <2>1, <2>5, TwoEnds, Zenon DEF PipeClose, End, EndsAgree
  <2>7. freed' = FreeWhen(readopen', writeopen')
    BY <1>11, Zenon DEF PipeClose
  <2>. QED  BY <2>3, <2>4, <2>6, <2>7, Zenon DEF EndsAgree
<1>. QED  BY <1>1, <1>2, <1>3, <1>4, <1>5, <1>6, <1>7, <1>8, <1>9, <1>10, <1>11, Zenon DEF Step

-----------------------------------------------------------------------------
(* The sleepers.                                                           *)

\* While nobody holds pi->lock, no call is between its test and its sleep.
LEMMA NobodyBetween ==
  ASSUME LockAgrees, lock = None
  PROVE  \A q \in Procs : pc[q] \notin {"empty", "full", "sleepy"}
  BY TwoEnds, Zenon DEF LockAgrees

\* What the sleepers, and those about to sleep, rely on goes on being true.
LEMMA WaitersNext == PipeInv /\ [Next]_vars => WaitersAgree'
<1>. SUFFICES ASSUME PipeInv, [Next]_vars PROVE WaitersAgree'
  BY Zenon
<1>. USE DEF PipeInv
<1>0. CASE UNCHANGED vars
  <2>1. Used' = Used
    BY <1>0, UsedSame, Zenon DEF vars, pipe
  <2>. QED  BY <1>0, <2>1, Zenon DEF WaitersAgree, vars, pipe
<1>. SUFFICES ASSUME NEW p \in Procs, NEW n \in 0 .. MaxN, Step(p, n) PROVE WaitersAgree'
  BY <1>0, MaxNIsNat, Zenon DEF Next, CallStep, Step
<1>1. CASE StartWrite(p, n)
  <2>1. Used' = Used
    BY <1>1, UsedSame, Zenon DEF StartWrite, pipe
  <2>. QED  BY <1>1, <2>1, TwoEnds, Zenon DEF StartWrite, WaitersAgree, LockAgrees, TypeOK, pipe
<1>2. CASE WriteBytes(p)
  <2>1. p \in Writers /\ p \notin Readers
    BY <1>2, TwoEnds, Zenon DEF WriteBytes, LockAgrees
  <2>2. \A q \in Procs : pc[q] \notin {"empty", "full", "sleepy"}
    BY <1>2, NobodyBetween, Zenon DEF WriteBytes
  <2>3. PICK k \in 0 .. PIPESIZE :
          /\ k <= Room
          /\ nwrite' = (nwrite + k) % UINT
          /\ \/ k = Room /\ pc' = [pc EXCEPT ![p] = "full"]
             \/ pc' = WakeReaders([pc EXCEPT ![p] = "open"])
    BY <1>2, Zenon DEF WriteBytes
  <2>4. Used' = Used + k /\ Used \in 0 .. PIPESIZE /\ PIPESIZE \in Nat
    BY <1>2, <2>3, WriteUsed, UsedRange, PipeAssumption, Zenon DEF WriteBytes
  <2>5. Used = PIPESIZE => Used' = PIPESIZE
    BY <2>3, <2>4 DEF Room
  <2>6. readopen' = readopen /\ writeopen' = writeopen /\ killed' = killed
    BY <1>2, Zenon DEF WriteBytes
  <2>7. CASE k = Room /\ pc' = [pc EXCEPT ![p] = "full"]
    <3>1. Used' = PIPESIZE
      BY <2>4, <2>7 DEF Room
    <3>2. pc'[p] = "full" /\ \A q \in Procs \ {p} : pc'[q] = pc[q]
      BY <2>7, Zenon DEF TypeOK
    <3>. QED  BY <2>1, <2>2, <2>6, <3>1, <3>2, TwoEnds, Zenon DEF WaitersAgree
  <2>8. CASE pc' = WakeReaders([pc EXCEPT ![p] = "open"])
    <3>1. /\ \A q \in Readers : (pc'[q] = pc[q] /\ pc[q] # "asleep") \/ pc'[q] = "read"
          /\ \A q \in Writers : pc'[q] = pc[q] \/ pc'[q] = "open"
      BY <2>1, <2>8, TwoEnds, Zenon DEF WakeReaders, TypeOK
    <3>. QED  BY <2>2, <2>5, <2>6, <3>1, TwoEnds, Zenon DEF WaitersAgree
  <2>. QED  BY <2>3, <2>7, <2>8, Zenon
<1>3. CASE WriteFull(p)
  <2>1. Used' = Used /\ readopen' = readopen /\ writeopen' = writeopen /\ killed' = killed
    BY <1>3, UsedSame, Zenon DEF WriteFull, pipe
  <2>2. p \in Writers /\ p \notin Readers /\ lock = p
    BY <1>3, TwoEnds, Zenon DEF WriteFull, LockAgrees
  <2>3. \A q \in Procs \ {p} : pc[q] \notin {"empty", "full", "sleepy"}
    BY <2>2, Zenon DEF LockAgrees
  <2>4. CASE readopen = 0 \/ killed[p] = 1
    <3>1. pc'[p] = "open" /\ \A q \in Procs \ {p} : pc'[q] = pc[q]
      BY <1>3, <2>4, Zenon DEF WriteFull, TypeOK
    <3>2. readopen = 0 => \A r \in Readers : pc[r] # "asleep"
      BY Zenon DEF EndsAgree
    <3>. QED  BY <2>1, <2>2, <2>3, <2>4, <3>1, <3>2, TwoEnds, Zenon DEF WaitersAgree
  <2>5. CASE ~(readopen = 0 \/ killed[p] = 1)
    <3>1. /\ pc'[p] = "sleepy" /\ \A q \in Writers \ {p} : pc'[q] = pc[q]
          /\ \A q \in Readers : (pc'[q] = pc[q] /\ pc[q] # "asleep") \/ pc'[q] = "read"
      BY <1>3, <2>2, <2>5, TwoEnds, Zenon DEF WriteFull, WakeReaders, TypeOK
    <3>2. readopen = 1 /\ Used = PIPESIZE
      BY <1>3, <2>2, <2>5, Zenon DEF TypeOK, WaitersAgree, WriteFull
    <3>. QED  BY <2>1, <2>2, <2>3, <3>1, <3>2, TwoEnds, Zenon DEF WaitersAgree
  <2>. QED  BY <2>4, <2>5, Zenon
<1>4. CASE StartRead(p, n)
  <2>1. Used' = Used
    BY <1>4, UsedSame, Zenon DEF StartRead, pipe
  <2>. QED  BY <1>4, <2>1, TwoEnds, Zenon DEF StartRead, WaitersAgree, LockAgrees, TypeOK, pipe
<1>5. CASE ReadEmpty(p)
  <2>1. Used' = Used /\ readopen' = readopen /\ writeopen' = writeopen /\ killed' = killed
    BY <1>5, UsedSame, Zenon DEF ReadEmpty, pipe
  <2>2. p \in Readers /\ p \notin Writers /\ Used = 0 /\ writeopen = 1
    BY <1>5, TwoEnds, UsedRange, Zenon DEF ReadEmpty, LockAgrees
  <2>3. pc'[p] = "empty" /\ \A q \in Procs \ {p} : pc'[q] = pc[q]
    BY <1>5, Zenon DEF ReadEmpty, TypeOK
  <2>. QED  BY <2>1, <2>2, <2>3, TwoEnds, Zenon DEF WaitersAgree
<1>6. CASE ReadBytes(p)
  <2>1. p \in Readers /\ p \notin Writers
    BY <1>6, TwoEnds, Zenon DEF ReadBytes, LockAgrees
  <2>2. \A q \in Procs : pc[q] \notin {"empty", "full", "sleepy"}
    BY <1>6, NobodyBetween, Zenon DEF ReadBytes
  <2>3. PICK k \in 0 .. PIPESIZE : k <= Used /\ nread' = (nread + k) % UINT
    BY <1>6, Zenon DEF ReadBytes
  <2>4. Used' = Used - k /\ Used \in 0 .. PIPESIZE
    BY <1>6, <2>3, ReadUsed, UsedRange, Zenon DEF ReadBytes
  <2>5. Used = 0 => Used' = 0
    BY <2>3, <2>4, PipeAssumption
  <2>6. readopen' = readopen /\ writeopen' = writeopen /\ killed' = killed
    BY <1>6, Zenon DEF ReadBytes
  <2>7. /\ \A q \in Writers : (pc'[q] = pc[q] /\ pc[q] # "asleep") \/ pc'[q] = "write"
        /\ \A q \in Readers : pc'[q] = pc[q] \/ pc'[q] = "open"
    BY <1>6, <2>1, TwoEnds, Zenon DEF ReadBytes, WakeWriters, TypeOK
  <2>. QED  BY <2>2, <2>5, <2>6, <2>7, TwoEnds, Zenon DEF WaitersAgree
<1>7. CASE ReadCheckKilled(p)
  <2>1. Used' = Used
    BY <1>7, UsedSame, Zenon DEF ReadCheckKilled, pipe
  <2>. QED  BY <1>7, <2>1, TwoEnds DEF ReadCheckKilled, WaitersAgree, LockAgrees, TypeOK, pipe
<1>8. CASE Sleep(p)
  <2>1. Used' = Used
    BY <1>8, UsedSame, Zenon DEF Sleep, pipe
  <2>. QED  BY <1>8, <2>1, TwoEnds, Zenon DEF Sleep, WaitersAgree, LockAgrees, TypeOK, pipe
<1>9. CASE Kill(p)
  <2>1. Used' = Used
    BY <1>9, UsedSame, Zenon DEF Kill, pipe
  <2>. QED  BY <1>9, <2>1, TwoEnds, Zenon DEF Kill, WaitersAgree, LockAgrees, TypeOK, pipe
<1>10. CASE FileClose(p)
  <2>1. Used' = Used
    BY <1>10, UsedSame, Zenon DEF FileClose, pipe
  <2>. QED  BY <1>10, <2>1, TwoEnds, Zenon DEF FileClose, WaitersAgree, LockAgrees, TypeOK, pipe
<1>11. CASE PipeClose(p)
  <2>1. Used' = Used /\ killed' = killed
    BY <1>11, UsedSame, Zenon DEF PipeClose
  <2>2. \A q \in Procs : pc[q] \notin {"empty", "full", "sleepy"}
    BY <1>11, NobodyBetween, Zenon DEF PipeClose
  <2>3. CASE End(p) = "w"
    <3>1. /\ readopen' = readopen /\ \A q \in Writers : pc'[q] = pc[q] \/ pc'[q] = "closed"
          /\ \A q \in Readers : pc'[q] # "asleep" /\ (pc'[q] = pc[q] \/ pc'[q] = "read")
      BY <1>11, <2>3, TwoEnds, Zenon DEF PipeClose, End, WakeReaders, TypeOK
    <3>. QED  BY <2>1, <2>2, <3>1, TwoEnds, Zenon DEF WaitersAgree
  <2>4. CASE End(p) # "w"
    <3>1. /\ writeopen' = writeopen /\ \A q \in Readers : pc'[q] = pc[q] \/ pc'[q] = "closed"
          /\ \A q \in Writers : pc'[q] # "asleep" /\ (pc'[q] = pc[q] \/ pc'[q] = "write")
      BY <1>11, <2>4, TwoEnds, Zenon DEF PipeClose, End, WakeWriters, TypeOK
    <3>. QED  BY <2>1, <2>2, <3>1, TwoEnds, Zenon DEF WaitersAgree
  <2>. QED  BY <2>3, <2>4, Zenon
<1>. QED  BY <1>1, <1>2, <1>3, <1>4, <1>5, <1>6, <1>7, <1>8, <1>9, <1>10, <1>11, Zenon DEF Step

-----------------------------------------------------------------------------
(* The theorems.                                                           *)

\* The pipe of pipealloc() satisfies the invariant.
LEMMA PipeInit == Init => PipeInv
<1>. SUFFICES ASSUME Init PROVE PipeInv
  BY Zenon
<1>1. TypeOK
  BY TypeInit, Zenon
<1>2. LockAgrees
  BY TwoEnds, Zenon DEF Init, LockAgrees
<1>3. \A e \in {"r", "w"} : ref[e] = Cardinality(Using(e))
  <2>1. Using("r") = Readers /\ Using("w") = Writers
    BY TwoEnds, Zenon DEF Init, Using, End
  <2>. QED  BY <2>1, Zenon DEF Init
<1>4. EndsAgree
  BY <1>3 DEF Init, EndsAgree, FreeWhen, Procs
<1>5. WaitersAgree
  BY TwoEnds, Zenon DEF Init, WaitersAgree
<1>. QED  BY <1>1, <1>2, <1>4, <1>5, Zenon DEF PipeInv

\* pipe.c keeps its lock, its reference counts, its flags and its sleepers
\* consistent, however many processes share the two ends.
THEOREM PipeCorrect == Spec => []PipeInv
<1>1. PipeInv /\ [Next]_vars => PipeInv'
  BY TypeNext, LockNext, EndsNext, WaitersNext, Zenon DEF PipeInv
<1>. QED  BY <1>1, PipeInit, PTL DEF Spec

\* The counters of the ring stay within PIPESIZE of each other, also when they
\* wrap: pipewrite() never overwrites a byte that was not read.
THEOREM PipeTypeCorrect == Spec => []TypeOK
<1>1. PipeInv => TypeOK
  BY Zenon DEF PipeInv
<1>. QED  BY <1>1, PipeCorrect, PTL

\* pipeclose() frees the pipe only when no process is, or will be, in pipe.c.
THEOREM NoUseAfterFreeTheorem == Spec => []NoUseAfterFree
<1>1. PipeInv => NoUseAfterFree
  BY DEF PipeInv, EndsAgree, NoUseAfterFree, FreeWhen, Procs
<1>. QED  BY <1>1, PipeCorrect, PTL

\* piperead() and pipewrite() sleep only while there is something to wait for
\* and somebody to wait for, or a killed writer has left.
THEOREM NoLostWakeupTheorem == Spec => []NoLostWakeup
<1>1. PipeInv => NoLostWakeup
  BY TwoEnds, NobodyBetween DEF PipeInv, WaitersAgree, NoLostWakeup, TypeOK
<1>. QED  BY <1>1, PipeCorrect, PTL

\* piperead() reports the end of the file only when every writer has closed it.
THEOREM EofOnlyAfterCloseTheorem == Spec => EofOnlyAfterClose
<1>1. PipeInv /\ [Next]_vars =>
        [\A p \in Readers : ReadBytes(p) /\ Used = 0 => \A w \in Writers : pc[w] = "closed"]_vars
  BY UsedRange, Zenon DEF PipeInv, EndsAgree, ReadBytes
<1>. QED  BY <1>1, PipeCorrect, PTL DEF Spec, EofOnlyAfterClose

-----------------------------------------------------------------------------
(* The ring is a queue.                                                    *)

\* The slot of pi->data that is i bytes after counter n, and the u bytes from there.
Slot(n, i)    == ((n + i) % UINT) % PIPESIZE
Ring(n, u, d) == [i \in 1 .. u |-> d[Slot(n, i - 1)]]

\* No number between 0 and P is a multiple of P.
LEMMA NoMultiple ==
  ASSUME NEW P \in Nat \ {0}, NEW m \in Int, P * m > 0, P * m < P
  PROVE  FALSE
<1>1. CASE m <= 0
  <2>1. P * m <= 0
    BY <1>1
  <2>. QED  BY <2>1
<1>2. CASE m >= 1
  <2>1. P * m >= P
    BY <1>2
  <2>. QED  BY <2>1
<1>. QED  BY <1>1, <1>2

\* Numbers with the same remainder differ by a multiple.
LEMMA SameRemainder ==
  ASSUME NEW P \in Nat \ {0}, NEW a \in Nat, NEW b \in Nat, a % P = b % P
  PROVE  \E m \in Int : b - a = P * m
<1>1. PICK x \in Int : x = a \div P
  OBVIOUS
<1>2. PICK y \in Int : y = b \div P
  OBVIOUS
<1>3. a = P * x + (a % P) /\ b = P * y + (b % P) /\ a % P \in Int
  BY <1>1, <1>2
<1>4. b - a = P * y - P * x
  BY <1>3
<1>5. P * y - P * x = P * (y - x)
  OBVIOUS
<1>6. y - x \in Int /\ b - a = P * (y - x)
  BY <1>4, <1>5
<1>. QED  BY <1>6, Zenon

\* Where a counter is, i bytes later: it wraps at most once.
LEMMA Later ==
  ASSUME NEW n \in 0 .. UINT - 1, NEW i \in 0 .. PIPESIZE
  PROVE  (n + i) % UINT \in 0 .. UINT - 1 /\ ((n + i) % UINT = n + i \/ (n + i) % UINT = (n + i) - UINT)
<1>1. UINT \in Nat \ {0} /\ PIPESIZE \in Nat /\ PIPESIZE < UINT
  BY PipeAssumption
<1>. DEFINE x == n + i
<1>2. x \in Int /\ x >= 0 /\ x > 0 - UINT /\ x < UINT + UINT
  BY <1>1
<1>3. x % UINT \in 0 .. UINT - 1 /\ (x % UINT = x \/ x % UINT = x + UINT \/ x % UINT = x - UINT)
  <2>. HIDE DEF x
  <2>. QED  BY <1>1, <1>2, ModNear, Zenon
<1>. HIDE DEF x
<1>4. x % UINT # x + UINT
  BY <1>1, <1>2, <1>3
<1>5. x % UINT \in 0 .. UINT - 1 /\ (x % UINT = x \/ x % UINT = x - UINT)
  BY <1>3, <1>4, Zenon
<1>. QED  BY <1>5, Zenon DEF x

\* Slots that are less than PIPESIZE apart are different, also where the counter wraps,
\* because PIPESIZE divides 2^32.
LEMMA SlotsDiffer ==
  ASSUME NEW n \in 0 .. UINT - 1, NEW i \in 0 .. PIPESIZE - 1, NEW j \in 0 .. PIPESIZE - 1, i < j
  PROVE  Slot(n, i) # Slot(n, j)
<1>. SUFFICES ASSUME Slot(n, i) = Slot(n, j) PROVE FALSE
  BY Zenon
<1>1. UINT \in Nat \ {0} /\ PIPESIZE \in Nat \ {0} /\ PIPESIZE < UINT /\ UINT % PIPESIZE = 0
  BY PipeAssumption
<1>. i \in 0 .. PIPESIZE /\ j \in 0 .. PIPESIZE
  BY <1>1
<1>2. PICK a \in 0 .. UINT - 1 : a = (n + i) % UINT /\ (a = n + i \/ a = (n + i) - UINT)
  BY Later, Zenon
<1>3. PICK b \in 0 .. UINT - 1 : b = (n + j) % UINT /\ (b = n + j \/ b = (n + j) - UINT)
  BY Later, Zenon
<1>4. a % PIPESIZE = b % PIPESIZE /\ a \in Nat /\ b \in Nat
  BY <1>1, <1>2, <1>3 DEF Slot
<1>5. PICK m \in Int : b - a = PIPESIZE * m
  BY <1>1, <1>4, SameRemainder, Zenon
<1>6. 0 % PIPESIZE = UINT % PIPESIZE /\ 0 \in Nat /\ UINT \in Nat
  BY <1>1
<1>7. PICK q \in Int : UINT - 0 = PIPESIZE * q
  BY <1>1, <1>6, SameRemainder, Zenon
<1>8. j - i = b - a \/ j - i = b - a + UINT
  BY <1>1, <1>2, <1>3
<1>9. j - i > 0 /\ j - i < PIPESIZE
  BY <1>1
<1>10. PIPESIZE * m + PIPESIZE * q = PIPESIZE * (m + q)
  BY <1>1
<1>11. CASE j - i = b - a
  BY <1>1, <1>5, <1>9, <1>11, NoMultiple, Zenon
<1>12. CASE j - i = b - a + UINT
  <2>1. j - i = PIPESIZE * (m + q)
    BY <1>1, <1>5, <1>7, <1>10, <1>12
  <2>2. PIPESIZE * (m + q) > 0 /\ PIPESIZE * (m + q) < PIPESIZE /\ m + q \in Int
    BY <1>9, <2>1
  <2>. QED  BY <1>1, <2>2, NoMultiple, Zenon
<1>. QED  BY <1>8, <1>11, <1>12, Zenon

\* A counter that has advanced by k.
LEMMA SlotLater ==
  ASSUME NEW n \in 0 .. UINT - 1, NEW k \in 0 .. PIPESIZE, NEW i \in 0 .. PIPESIZE, k + i <= PIPESIZE
  PROVE  Slot((n + k) % UINT, i) = Slot(n, k + i)
<1>1. UINT \in Nat \ {0} /\ PIPESIZE \in Nat \ {0} /\ PIPESIZE < UINT
  BY PipeAssumption
<1>. k + i \in 0 .. PIPESIZE
  BY <1>1
<1>2. PICK a \in 0 .. UINT - 1 : a = (n + k) % UINT /\ (a = n + k \/ a = (n + k) - UINT)
  BY Later, Zenon
<1>3. PICK b \in 0 .. UINT - 1 : b = (n + (k + i)) % UINT /\ (b = n + (k + i) \/ b = (n + (k + i)) - UINT)
  BY Later, Zenon
<1>4. a + i \in Int /\ (a + i = b \/ a + i = b + UINT \/ a + i = b - UINT)
  BY <1>1, <1>2, <1>3
<1>5. (a + i) % UINT = b
  BY <1>1, <1>4, ModIs, Zenon
<1>. QED  BY <1>2, <1>3, <1>5, Zenon DEF Slot

\* A slot is one of the array.
LEMMA SlotIn ==
  ASSUME NEW n \in 0 .. UINT - 1, NEW i \in 0 .. PIPESIZE
  PROVE  Slot(n, i) \in 0 .. PIPESIZE - 1
<1>1. UINT \in Nat \ {0} /\ PIPESIZE \in Nat \ {0}
  BY PipeAssumption
<1>2. (n + i) % UINT \in 0 .. UINT - 1
  BY Later, Zenon
<1>. QED  BY <1>1, <1>2 DEF Slot

\* So what is in the ring is a sequence of bytes.
LEMMA RingIs ==
  ASSUME NEW n \in 0 .. UINT - 1, NEW u \in 0 .. PIPESIZE, NEW d \in [0 .. PIPESIZE - 1 -> Bytes]
  PROVE  /\ Ring(n, u, d) \in Seq(Bytes) /\ Len(Ring(n, u, d)) = u
         /\ \A i \in 1 .. u : Ring(n, u, d)[i] = d[Slot(n, i - 1)]
<1>1. UINT \in Nat \ {0} /\ PIPESIZE \in Nat \ {0} /\ u \in Nat
  BY PipeAssumption
<1>2. \A i \in 1 .. u : i - 1 \in 0 .. PIPESIZE
  BY <1>1
<1>3. \A i \in 1 .. u : d[Slot(n, i - 1)] \in Bytes
  BY <1>2, SlotIn, Zenon
<1>. QED  BY <1>1, <1>3 DEF Ring

\* Queue is the part of the ring between nread and nwrite.
LEMMA QueueIs ==
  ASSUME TypeOK
  PROVE  Queue = Ring(nread, Used, data) /\ nwrite = (nread + Used) % UINT
<1>1. UINT \in Nat \ {0} /\ PIPESIZE \in Nat \ {0} /\ PIPESIZE < UINT /\ nread \in 0 .. UINT - 1 /\ nwrite \in 0 .. UINT - 1
      /\ Used \in 0 .. PIPESIZE
  BY PipeAssumption, UsedRange DEF TypeOK
<1>2. \A i \in 1 .. Used : (nread + i - 1) = nread + (i - 1)
  BY <1>1, Zenon
<1>3. Queue = Ring(nread, Used, data)
  BY <1>2, Zenon DEF Queue, Ring, Slot
<1>4. Used = nwrite - nread \/ Used = nwrite - nread + UINT \/ Used = nwrite - nread - UINT
  <2>. DEFINE d == nwrite - nread
  <2>1. d \in Int /\ d > 0 - UINT /\ d < UINT + UINT
    BY <1>1
  <2>2. d % UINT = d \/ d % UINT = d + UINT \/ d % UINT = d - UINT
    <3>. HIDE DEF d
    <3>. QED  BY <1>1, <2>1, ModNear, Zenon
  <2>. QED  BY <2>2, Zenon DEF Used
<1>5. (nread + Used) % UINT = nwrite
  <2>1. nread + Used = nwrite \/ nread + Used = nwrite + UINT \/ nread + Used = nwrite - UINT
    BY <1>1, <1>4
  <2>2. nread + Used \in Int
    BY <1>1
  <2>. QED  BY <1>1, <2>1, <2>2, ModIs, Zenon
<1>. QED  BY <1>3, <1>5, Zenon

\* Bytes put in behind the ring, in slots that are free, leave the bytes of the ring.
LEMMA RingGrows ==
  ASSUME NEW n \in 0 .. UINT - 1, NEW u \in 0 .. PIPESIZE, NEW k \in 0 .. PIPESIZE, u + k <= PIPESIZE,
         NEW d \in [0 .. PIPESIZE - 1 -> Bytes], NEW e \in [0 .. PIPESIZE - 1 -> Bytes],
         \A s \in 0 .. PIPESIZE - 1 : e[s] # d[s] => \E i \in 0 .. k - 1 : s = Slot((n + u) % UINT, i)
  PROVE  /\ Len(Ring(n, u + k, e)) = Len(Ring(n, u, d)) + k
         /\ SubSeq(Ring(n, u + k, e), 1, Len(Ring(n, u, d))) = Ring(n, u, d)
<1>1. UINT \in Nat \ {0} /\ PIPESIZE \in Nat \ {0} /\ u + k \in 0 .. PIPESIZE /\ u \in Nat /\ k \in Nat
  BY PipeAssumption
<1>. DEFINE R == Ring(n, u, d)
            S == Ring(n, u + k, e)
<1>2. R \in Seq(Bytes) /\ Len(R) = u /\ \A i \in 1 .. u : R[i] = d[Slot(n, i - 1)]
  BY <1>1, RingIs, Zenon
<1>3. S \in Seq(Bytes) /\ Len(S) = u + k /\ \A i \in 1 .. u + k : S[i] = e[Slot(n, i - 1)]
  BY <1>1, RingIs, Zenon
<1>4. ASSUME NEW i \in 1 .. u PROVE e[Slot(n, i - 1)] = d[Slot(n, i - 1)]
  <2>. SUFFICES ASSUME e[Slot(n, i - 1)] # d[Slot(n, i - 1)] PROVE FALSE
    BY Zenon
  <2>1. i - 1 \in 0 .. PIPESIZE - 1 /\ i \in 1 .. u
    BY <1>1
  <2>2. Slot(n, i - 1) \in 0 .. PIPESIZE - 1
    BY <1>1, <2>1, SlotIn
  <2>3. PICK j \in 0 .. k - 1 : Slot(n, i - 1) = Slot((n + u) % UINT, j)
    BY <2>2, Zenon
  <2>4. j \in 0 .. PIPESIZE /\ u + j <= PIPESIZE /\ u + j \in 0 .. PIPESIZE - 1 /\ i - 1 < u + j
    BY <1>1
  <2>5. Slot((n + u) % UINT, j) = Slot(n, u + j)
    BY <2>4, SlotLater, Zenon
  <2>6. Slot(n, i - 1) # Slot(n, u + j)
    BY <2>1, <2>4, SlotsDiffer, Zenon
  <2>. QED  BY <2>3, <2>5, <2>6, Zenon
<1>5. \A i \in 1 .. u : S[i] = R[i]
  <2>1. \A i \in 1 .. u : i \in 1 .. u + k
    BY <1>1
  <2>. HIDE DEF R, S
  <2>. QED  BY <1>2, <1>3, <1>4, <2>1, Zenon
<1>6. Len(S) = Len(R) + k /\ SubSeq(S, 1, Len(R)) = R
  <2>. HIDE DEF R, S
  <2>1. SubSeq(S, 1, u) = [i \in 1 .. u |-> S[i]]
    BY <1>1, <1>3
  <2>2. R = [i \in 1 .. u |-> R[i]]
    BY <1>1, <1>2
  <2>. QED  BY <1>1, <1>2, <1>3, <1>5, <2>1, <2>2, Zenon
<1>. QED  BY <1>6, Zenon DEF R, S

\* Taking k bytes from the front of the ring.
LEMMA RingShrinks ==
  ASSUME NEW n \in 0 .. UINT - 1, NEW u \in 0 .. PIPESIZE, NEW k \in 1 .. u, NEW d \in [0 .. PIPESIZE - 1 -> Bytes]
  PROVE  Ring((n + k) % UINT, u - k, d) = SubSeq(Ring(n, u, d), k + 1, Len(Ring(n, u, d)))
<1>1. UINT \in Nat \ {0} /\ PIPESIZE \in Nat \ {0} /\ u - k \in 0 .. PIPESIZE /\ u \in Nat /\ k \in Nat
      /\ k \in 0 .. PIPESIZE
  BY PipeAssumption
<1>. DEFINE R == Ring(n, u, d)
            m == (n + k) % UINT
            S == Ring(m, u - k, d)
<1>2. R \in Seq(Bytes) /\ Len(R) = u /\ \A i \in 1 .. u : R[i] = d[Slot(n, i - 1)]
  BY <1>1, RingIs, Zenon
<1>3. m \in 0 .. UINT - 1
  BY <1>1, Later, Zenon
<1>4. S = [i \in 1 .. u - k |-> d[Slot(m, i - 1)]]
  BY Zenon DEF Ring
<1>5. ASSUME NEW i \in 1 .. u - k PROVE d[Slot(m, i - 1)] = R[i + k]
  <2>1. i - 1 \in 0 .. PIPESIZE /\ k + (i - 1) <= PIPESIZE /\ i + k \in 1 .. u /\ (i + k) - 1 = k + (i - 1)
    BY <1>1
  <2>2. Slot(m, i - 1) = Slot(n, k + (i - 1))
    BY <1>1, <2>1, SlotLater, Zenon
  <2>. HIDE DEF R, m
  <2>. QED  BY <1>2, <2>1, <2>2, Zenon
<1>6. SubSeq(R, k + 1, u) = [i \in 1 .. u - k |-> R[i + k]]
  <2>. HIDE DEF R
  <2>. QED  BY <1>1, <1>2
<1>7. S = SubSeq(R, k + 1, Len(R))
  <2>. HIDE DEF R, S, m
  <2>. QED  BY <1>2, <1>4, <1>5, <1>6, Zenon
<1>. QED  BY <1>7, Zenon DEF R, S, m

\* The step of the byte stream, with the queue spelled out.
StreamStep == [Stream!Next]_(Stream!streamVars)

\* Steps that leave the ring and the two flags alone are no steps of the stream.
LEMMA StreamStutters ==
  ASSUME UNCHANGED <<nread, nwrite, data, readopen, writeopen>>
  PROVE  StreamStep
<1>1. Queue' = Queue
  BY Zenon DEF Queue, Used
<1>. QED  BY <1>1, Zenon DEF StreamStep, Stream!streamVars

\* pipewrite() puts its bytes behind those that wait.
LEMMA WriteIsPut ==
  ASSUME PipeInv, TypeOK', NEW p \in Procs, WriteBytes(p)
  PROVE  StreamStep
<1>. USE DEF PipeInv
<1>1. PICK k \in 0 .. PIPESIZE :
        /\ k <= Room /\ nwrite' = (nwrite + k) % UINT
        /\ \E s \in [1 .. k -> Bytes] :
             data' = [j \in 0 .. PIPESIZE - 1 |->
                       IF \E i \in 1 .. k : j = ((nwrite + i - 1) % UINT) % PIPESIZE
                       THEN s[CHOOSE i \in 1 .. k : j = ((nwrite + i - 1) % UINT) % PIPESIZE]
                       ELSE data[j]]
  BY Zenon DEF WriteBytes
<1>2. nread' = nread /\ readopen' = readopen /\ writeopen' = writeopen /\ writeopen = 1
  BY TwoEnds, Zenon DEF WriteBytes, LockAgrees, EndsAgree, TypeOK
<1>3. /\ UINT \in Nat \ {0} /\ PIPESIZE \in Nat \ {0} /\ nread \in 0 .. UINT - 1 /\ nwrite \in 0 .. UINT - 1
      /\ data \in [0 .. PIPESIZE - 1 -> Bytes] /\ data' \in [0 .. PIPESIZE - 1 -> Bytes]
  BY PipeAssumption DEF TypeOK
<1>4. Used \in 0 .. PIPESIZE /\ Used' = Used + k /\ Used + k <= PIPESIZE /\ Used + k \in 0 .. PIPESIZE
  BY <1>1, <1>2, <1>3, UsedRange, WriteUsed DEF Room
<1>5. ASSUME NEW j \in 0 .. PIPESIZE - 1, data'[j] # data[j]
      PROVE  \E i \in 0 .. k - 1 : j = Slot((nread + Used) % UINT, i)
  <2>1. PICK i \in 1 .. k : j = ((nwrite + i - 1) % UINT) % PIPESIZE
    BY <1>1, <1>5, Zenon
  <2>2. i - 1 \in 0 .. k - 1 /\ nwrite + i - 1 = nwrite + (i - 1)
    BY <1>3
  <2>3. j = Slot(nwrite, i - 1)
    BY <2>1, <2>2, Zenon DEF Slot
  <2>4. nwrite = (nread + Used) % UINT
    BY QueueIs, Zenon
  <2>. QED  BY <2>2, <2>3, <2>4, Zenon
<1>6. Queue = Ring(nread, Used, data)
  BY QueueIs, Zenon
<1>7. Queue' = Ring(nread, Used + k, data')
  <2>1. \A i \in 1 .. Used + k : nread + i - 1 = nread + (i - 1)
    BY <1>3, <1>4, Zenon
  <2>. QED  BY <1>2, <1>4, <2>1, Zenon DEF Queue, Ring, Slot
<1>8. Len(Queue') = Len(Queue) + k /\ SubSeq(Queue', 1, Len(Queue)) = Queue
  <2>. DEFINE e == data'
              d == data
              u == Used
  <2>1. \A s \in 0 .. PIPESIZE - 1 : e[s] # d[s] => \E i \in 0 .. k - 1 : s = Slot((nread + u) % UINT, i)
    BY <1>5, Zenon
  <2>2. e \in [0 .. PIPESIZE - 1 -> Bytes] /\ d \in [0 .. PIPESIZE - 1 -> Bytes] /\ u \in 0 .. PIPESIZE
        /\ u + k <= PIPESIZE /\ nread \in 0 .. UINT - 1
    BY <1>3, <1>4, Zenon
  <2>3. Queue = Ring(nread, u, d) /\ Queue' = Ring(nread, u + k, e)
    BY <1>6, <1>7, Zenon
  <2>. HIDE DEF e, d, u
  <2>4. /\ Len(Ring(nread, u + k, e)) = Len(Ring(nread, u, d)) + k
        /\ SubSeq(Ring(nread, u + k, e), 1, Len(Ring(nread, u, d))) = Ring(nread, u, d)
    BY <2>1, <2>2, RingGrows, Zenon
  <2>. QED  BY <2>3, <2>4, Zenon
<1>9. Queue' \in Seq(Bytes) /\ Len(Queue) = Used
  BY <1>3, <1>4, <1>6, <1>7, RingIs, Zenon
<1>10. CASE k = 0
  <2>1. data' = data
    BY <1>1, <1>3, <1>10
  <2>2. nwrite' = nwrite
    BY <1>1, <1>3, <1>10
  <2>. QED  BY <1>2, <2>1, <2>2, StreamStutters, Zenon
<1>11. CASE k # 0
  <2>1. k \in 1 .. PIPESIZE - Len(Queue)
    BY <1>1, <1>3, <1>4, <1>9, <1>11 DEF Room
  <2>2. Stream!Put
    BY <1>2, <1>8, <1>9, <2>1, Zenon DEF Stream!Put
  <2>. QED  BY <2>2, Zenon DEF StreamStep, Stream!Next
<1>. QED  BY <1>10, <1>11, Zenon

\* piperead() takes its bytes from the front.
LEMMA ReadIsTake ==
  ASSUME PipeInv, NEW p \in Procs, ReadBytes(p)
  PROVE  StreamStep
<1>. USE DEF PipeInv
<1>1. PICK k \in 0 .. PIPESIZE : k <= Used /\ nread' = (nread + k) % UINT
  BY Zenon DEF ReadBytes
<1>2. nwrite' = nwrite /\ data' = data /\ readopen' = readopen /\ writeopen' = writeopen /\ readopen = 1
  BY TwoEnds, Zenon DEF ReadBytes, LockAgrees, EndsAgree, TypeOK
<1>3. /\ UINT \in Nat \ {0} /\ PIPESIZE \in Nat \ {0} /\ nread \in 0 .. UINT - 1
      /\ data \in [0 .. PIPESIZE - 1 -> Bytes]
  BY PipeAssumption DEF TypeOK
<1>4. Used \in 0 .. PIPESIZE /\ Used' = Used - k
  BY <1>1, <1>2, <1>3, UsedRange, ReadUsed, Zenon
<1>5. Queue = Ring(nread, Used, data)
  BY QueueIs, Zenon
<1>6. CASE k = 0
  <2>1. nread' = nread
    BY <1>1, <1>3, <1>6
  <2>. QED  BY <1>2, <2>1, StreamStutters, Zenon
<1>7. CASE k # 0
  <2>1. k \in 1 .. Used
    BY <1>1, <1>3, <1>4, <1>7
  <2>2. nread' \in 0 .. UINT - 1
    BY <1>1, <1>3
  <2>3. Queue' = Ring((nread + k) % UINT, Used - k, data)
    <3>1. \A i \in 1 .. Used - k : nread' + i - 1 = nread' + (i - 1)
      BY <1>3, <1>4, <2>2, Zenon
    <3>2. Queue' = Ring(nread', Used - k, data)
      BY <1>2, <1>4, <3>1, Zenon DEF Queue, Ring, Slot
    <3>. QED  BY <1>1, <3>2, Zenon
  <2>4. Queue' = SubSeq(Queue, k + 1, Len(Queue))
    BY <1>3, <1>4, <1>5, <2>1, <2>3, RingShrinks, Zenon
  <2>5. Len(Queue) = Used
    BY <1>3, <1>4, <1>5, RingIs, Zenon
  <2>6. k \in 1 .. Len(Queue)
    BY <2>1, <2>5, Zenon
  <2>7. Stream!Take
    BY <1>2, <2>4, <2>6, Zenon DEF Stream!Take
  <2>. QED  BY <2>7, Zenon DEF StreamStep, Stream!Next
<1>. QED  BY <1>6, <1>7, Zenon

\* pipeclose() closes one end, which was open: only the last user of it gets there.
LEMMA CloseIsClose ==
  ASSUME PipeInv, NEW p \in Procs, PipeClose(p)
  PROVE  StreamStep
<1>1. Queue' = Queue
  BY Zenon DEF PipeClose, Queue, Used
<1>2. CASE End(p) = "w"
  <2>1. writeopen = 1 /\ writeopen' = 0 /\ readopen' = readopen
    BY <1>2, TwoEnds, Zenon DEF PipeInv, PipeClose, End, EndsAgree, TypeOK
  <2>. QED  BY <1>1, <2>1, Zenon DEF StreamStep, Stream!Next, Stream!CloseWrite
<1>3. CASE End(p) # "w"
  <2>1. readopen = 1 /\ readopen' = 0 /\ writeopen' = writeopen
    BY <1>3, TwoEnds, Zenon DEF PipeInv, PipeClose, End, EndsAgree, TypeOK
  <2>. QED  BY <1>1, <2>1, Zenon DEF StreamStep, Stream!Next, Stream!CloseRead
<1>. QED  BY <1>2, <1>3, Zenon

\* Every step of pipe.c is a step of the stream, or none.
LEMMA StreamNext == PipeInv /\ [Next]_vars => StreamStep
<1>. SUFFICES ASSUME PipeInv, [Next]_vars PROVE StreamStep
  BY Zenon
<1>0. CASE UNCHANGED vars
  BY <1>0, StreamStutters, Zenon DEF vars, pipe
<1>. SUFFICES ASSUME NEW p \in Procs, NEW n \in 0 .. MaxN, Step(p, n) PROVE StreamStep
  BY <1>0, MaxNIsNat, Zenon DEF Next, CallStep, Step
<1>1. CASE WriteBytes(p)
  BY <1>1, TypeNext, WriteIsPut, Zenon
<1>2. CASE ReadBytes(p)
  BY <1>2, ReadIsTake, Zenon
<1>3. CASE PipeClose(p)
  BY <1>3, CloseIsClose, Zenon
<1>4. CASE UNCHANGED pipe
  BY <1>4, StreamStutters, Zenon DEF pipe
<1>5. WriteBytes(p) \/ ReadBytes(p) \/ PipeClose(p) \/ UNCHANGED pipe
  BY Zenon DEF Step, StartWrite, WriteFull, StartRead, ReadEmpty, ReadCheckKilled, Sleep, Kill, FileClose
<1>. QED  BY <1>1, <1>2, <1>3, <1>4, <1>5, Zenon

\* pipealloc() makes an empty stream.
LEMMA StreamInit == Init => Stream!Init
<1>. SUFFICES ASSUME Init PROVE Stream!Init
  BY Zenon
<1>1. UINT \in Nat \ {0}
  BY PipeAssumption
<1>2. Used = 0
  <2>1. (0 - 0) % UINT = 0
    BY <1>1, ModIs
  <2>. QED  BY <2>1, Zenon DEF Init, Used
<1>3. Queue = <<>>
  BY <1>2 DEF Queue
<1>. QED  BY <1>3, Zenon DEF Init, Stream!Init

\* Through piperead() and pipewrite() a pipe is a bounded queue of bytes: whatever the
\* number of readers and writers, the bytes come out once, in the order they went in,
\* also where the ring and the 32-bit counters wrap.
THEOREM PipeIsByteStreamTheorem == Spec => PipeIsByteStream
<1>1. PipeInv /\ [Next]_vars => [Stream!Next]_(Stream!streamVars)
  BY StreamNext, Zenon DEF StreamStep
<1>. QED  BY <1>1, StreamInit, PipeCorrect, PTL DEF Spec, PipeIsByteStream, Stream!Spec
=============================================================================
