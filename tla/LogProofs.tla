----------------------------- MODULE LogProofs ------------------------------
(***************************************************************************)
(* Proofs about the write-ahead log (module Log).                          *)
(***************************************************************************)
EXTENDS Log, FiniteSetTheorems, SequenceTheorems, TLAPS

-----------------------------------------------------------------------------
(* Counting what operations have reserved.                                 *)

\* The processes in operations are finitely many.
LEMMA ActiveIsFinite == IsFiniteSet(Active)
  BY LogAssumption, FS_Subset, Zenon DEF Active

\* A set of active processes has at most MAXOPBLOCKS entries each to its credit.
LEMMA CreditBound ==
  ASSUME NEW A, IsFiniteSet(A), NEW U, U \subseteq A \X (1 .. MAXOPBLOCKS)
  PROVE  /\ IsFiniteSet(U)
         /\ Cardinality(U) \in Nat
         /\ Cardinality(U) <= Cardinality(A) * MAXOPBLOCKS
<1>1. IsFiniteSet(1 .. MAXOPBLOCKS) /\ Cardinality(1 .. MAXOPBLOCKS) = MAXOPBLOCKS
  BY LogAssumption, FS_Interval
<1>2. /\ IsFiniteSet(A \X (1 .. MAXOPBLOCKS))
      /\ Cardinality(A \X (1 .. MAXOPBLOCKS)) = Cardinality(A) * MAXOPBLOCKS
  BY ZenonT(30), <1>1, FS_Product
<1>3. QED
  BY <1>2, FS_Subset, FS_CardinalityType, Zenon

\* The reserved blocks that operations have not used are finitely many.
LEMMA UnusedBound ==
  /\ IsFiniteSet(Unused)
  /\ Cardinality(Unused) \in Nat
<1>1. Unused \subseteq Active \X (1 .. MAXOPBLOCKS)
  BY Zenon DEF Unused
<1>2. QED
  BY <1>1, ActiveIsFinite, CreditBound, Zenon

\* There are operations only once recovery is over.
LEMMA UpInOp ==
  ASSUME CountsAgree, NEW p \in Procs, pc[p] \in InOp
  PROVE  phase = "up"
BY Zenon DEF CountsAgree, InOp

\* What an operation has not used is reserved for it.
LEMMA UnusedOfOne ==
  ASSUME NEW p \in Active, Cardinality(wrote[p]) \in Nat, Cardinality(wrote[p]) <= MAXOPBLOCKS
  PROVE  Cardinality(Unused) >= MAXOPBLOCKS - Cardinality(wrote[p])
<1> DEFINE lo == Cardinality(wrote[p]) + 1
           mine == {p} \X (lo .. MAXOPBLOCKS)
<1>1. IsFiniteSet(lo .. MAXOPBLOCKS) /\ Cardinality(lo .. MAXOPBLOCKS) = MAXOPBLOCKS - Cardinality(wrote[p])
  <2>1. lo \in Int /\ MAXOPBLOCKS \in Int
    BY LogAssumption
  <2>2. /\ IsFiniteSet(lo .. MAXOPBLOCKS)
        /\ Cardinality(lo .. MAXOPBLOCKS) = IF lo > MAXOPBLOCKS THEN 0 ELSE MAXOPBLOCKS - lo + 1
    BY ZenonT(30), <2>1, FS_Interval
  <2>3. QED
    BY <2>1, <2>2, LogAssumption
<1>2. IsFiniteSet({p}) /\ Cardinality({p}) = 1
  BY ZenonT(30), FS_Singleton
<1>3. Cardinality(mine) = 1 * (MAXOPBLOCKS - Cardinality(wrote[p]))
  BY ZenonT(30), <1>1, <1>2, FS_Product
<1>4. mine \subseteq Unused
  BY LogAssumption DEF Unused, Active
<1>5. QED
  BY <1>3, <1>4, UnusedBound, FS_Subset, FS_CardinalityType, LogAssumption

-----------------------------------------------------------------------------
\* The initial states satisfy ControlInv.
LEMMA ControlInit == Init => ControlInv
<1> SUFFICES ASSUME Init PROVE ControlInv
  BY Zenon
<1>1. TypeOK
  BY LogAssumption, EmptySeq DEF Init, TypeOK, Phases, PCs
<1>2. Active = {} /\ Unused = {}
  BY Zenon DEF Init, Active, InOp, Unused
<1>3. CountsAgree
  BY <1>2, FS_EmptySet, Zenon DEF Init, CountsAgree, Commit
<1>4. BuffersAgree /\ TailAgrees
  BY FS_EmptySet, LogAssumption DEF Init, BuffersAgree, TailAgrees, LoggedBlocks
<1>5. QuietCommit /\ NoPanic /\ SleepersHaveWaker
  BY Zenon DEF Init, QuietCommit, NoPanic, SleepersHaveWaker, Commit, InOp
<1>6. SpaceReserved
  BY <1>2, FS_EmptySet, LogAssumption DEF Init, SpaceReserved
<1>7. QED
  BY <1>1, <1>3, <1>4, <1>5, <1>6, Zenon DEF ControlInv

\* An entry the loops of write_log() and install_trans() look at.
LEMMA TailEntry ==
  ASSUME TypeOK, SpaceReserved, tail < Len(lh)
  PROVE  /\ tail + 1 \in 1 .. Len(lh)
         /\ lh[tail + 1] \in Blocks
         /\ logd[tail + 1] \in Values
         /\ Contents(lh[tail + 1]) \in Values
<1>1. tail + 1 \in 1 .. Len(lh) /\ lh[tail + 1] \in Blocks
  BY ElementOfSeq DEF TypeOK
<1>2. tail + 1 \in 1 .. NLog - 1
  BY <1>1, LogAssumption DEF SpaceReserved, TypeOK
<1>3. QED
  BY ZenonT(30), <1>1, <1>2 DEF TypeOK, Contents

-----------------------------------------------------------------------------
(* Steps that neither begin nor end an operation.                          *)

\* bget(), when it recycles a buffer, keeps ControlInv.
LEMMA RecycleControl ==
  ASSUME LogFits, ControlInv, NEW b \in Blocks, Recycle(b)
  PROVE  ControlInv'
<1> USE DEF ControlInv
<1>1. TypeOK'
  BY Zenon DEF TypeOK, Recycle, disk, bio, log, local, PCs, InOp, Commit, Phases
<1>2. Active' = Active /\ Unused' = Unused
  BY Zenon DEF TypeOK, Recycle, Active, Unused, InOp, disk, bio, log, local
<1>3. CountsAgree'
  BY <1>2, Zenon DEF TypeOK, Recycle, CountsAgree, TailAgrees, QuietCommit, InOp, Commit, disk, bio, log, local
<1>4. BuffersAgree'
  BY LogAssumption DEF TypeOK, Recycle, BuffersAgree, QuietCommit, CountsAgree, LoggedBlocks, InOp, Commit, disk, bio, log, local
<1>5. TailAgrees'
  BY Zenon DEF TypeOK, Recycle, TailAgrees, CountsAgree, QuietCommit, Commit, disk, bio, log, local
<1>6. QuietCommit' /\ NoPanic' /\ SleepersHaveWaker'
  BY Zenon DEF TypeOK, Recycle, QuietCommit, NoPanic, SleepersHaveWaker, CountsAgree, InOp, Commit, disk, bio, log, local
<1>7. SpaceReserved'
  BY <1>2, UnusedBound, LogAssumption, Zenon DEF TypeOK, Recycle, SpaceReserved, disk, bio, log, local
<1>8. QED
  BY <1>1, <1>3, <1>4, <1>5, <1>6, <1>7, Zenon

\* bread() keeps ControlInv.
LEMMA BreadControl ==
  ASSUME LogFits, ControlInv, NEW p \in Procs, NEW b \in Blocks, Bread(p, b)
  PROVE  ControlInv'
<1> USE DEF ControlInv
<1>1. TypeOK'
  BY DEF TypeOK, Bread, Contents, disk, log, PCs, InOp
<1>2. Active' = Active /\ Unused' = Unused
  BY Zenon DEF TypeOK, Bread, Active, Unused, InOp, disk, log
<1>3. CountsAgree'
  BY <1>2, Zenon DEF TypeOK, Bread, CountsAgree, TailAgrees, QuietCommit, InOp, Commit, disk, log
<1>4. BuffersAgree'
  BY LogAssumption DEF TypeOK, Bread, BuffersAgree, QuietCommit, CountsAgree, LoggedBlocks, InOp, Commit, disk, log
<1>5. TailAgrees'
  BY Zenon DEF TypeOK, Bread, TailAgrees, CountsAgree, QuietCommit, Commit, disk, log
<1>6. QuietCommit' /\ NoPanic' /\ SleepersHaveWaker'
  BY Zenon DEF TypeOK, Bread, QuietCommit, NoPanic, SleepersHaveWaker, CountsAgree, InOp, Commit, disk, log
<1>7. SpaceReserved'
  BY <1>2, UnusedBound, LogAssumption, Zenon DEF TypeOK, Bread, SpaceReserved, disk, log
<1>8. QED
  BY <1>1, <1>3, <1>4, <1>5, <1>6, <1>7, Zenon

\* brelse() keeps ControlInv.
LEMMA BrelseControl ==
  ASSUME LogFits, ControlInv, NEW p \in Procs, Brelse(p)
  PROVE  ControlInv'
<1> USE DEF ControlInv
<1>1. TypeOK'
  BY DEF TypeOK, BuffersAgree, Brelse, disk, log, PCs, InOp
<1>2. Active' = Active /\ Unused' = Unused
  BY Zenon DEF TypeOK, Brelse, Active, Unused, InOp, disk, log
<1>3. CountsAgree'
  BY <1>2, Zenon DEF TypeOK, Brelse, CountsAgree, TailAgrees, QuietCommit, InOp, Commit, disk, log
<1>4. BuffersAgree'
  BY LogAssumption DEF TypeOK, Brelse, BuffersAgree, QuietCommit, CountsAgree, LoggedBlocks, InOp, Commit, disk, log
<1>5. TailAgrees'
  BY Zenon DEF TypeOK, Brelse, TailAgrees, CountsAgree, QuietCommit, Commit, disk, log
<1>6. QuietCommit' /\ NoPanic' /\ SleepersHaveWaker'
  BY Zenon DEF TypeOK, Brelse, QuietCommit, NoPanic, SleepersHaveWaker, CountsAgree, InOp, Commit, disk, log
<1>7. SpaceReserved'
  BY <1>2, UnusedBound, LogAssumption, Zenon DEF TypeOK, Brelse, SpaceReserved, disk, log
<1>8. QED
  BY <1>1, <1>3, <1>4, <1>5, <1>6, <1>7, Zenon

\* log_write(), before it takes log.lock, keeps ControlInv.
LEMMA LogWriteControl ==
  ASSUME LogFits, ControlInv, NEW p \in Procs, NEW v \in Values, LogWrite(p, v)
  PROVE  ControlInv'
<1> USE DEF ControlInv
<1>0. Len(lh) < LOGSIZE /\ Len(lh) < NLog - 1 /\ outstanding >= 1
  <2>1. p \in Active
    BY Zenon DEF LogWrite, Active, InOp
  <2>2. Cardinality(wrote[p]) \in Nat /\ Cardinality(wrote[p]) <= OpBlocks
    BY FS_CardinalityType, Zenon DEF BuffersAgree
  <2>3. Cardinality(Unused) >= MAXOPBLOCKS - Cardinality(wrote[p])
    BY <2>1, <2>2, UnusedOfOne, LogAssumption
  <2>4. Len(lh) \in Nat /\ Len(lh) + MAXOPBLOCKS - OpBlocks <= LOGSIZE
    BY <2>2, <2>3, UnusedBound, LogAssumption DEF SpaceReserved, TypeOK
  <2>5. outstanding >= 1
    BY <2>1, ActiveIsFinite, FS_EmptySet, FS_CardinalityType DEF CountsAgree
  <2>6. QED
    BY <2>4, <2>5, LogAssumption DEF LogFits
<1>1. TypeOK'
  BY ZenonT(30) DEF TypeOK, LogWrite, disk, log, PCs, InOp, Commit, Phases
<1>2. Active' = Active /\ Unused' = Unused
  BY Zenon DEF TypeOK, LogWrite, Active, Unused, InOp, disk, log
<1>3. CountsAgree'
  BY <1>2, Zenon DEF TypeOK, LogWrite, CountsAgree, TailAgrees, QuietCommit, InOp, Commit, disk, log
<1>4. BuffersAgree'
  BY LogAssumption DEF TypeOK, LogWrite, BuffersAgree, QuietCommit, CountsAgree, LoggedBlocks, InOp, Commit, disk, log
<1>5. TailAgrees'
  BY <1>0, LogAssumption, Zenon DEF TypeOK, LogWrite, TailAgrees, CountsAgree, QuietCommit, Commit, disk, log
<1>6. QuietCommit' /\ NoPanic' /\ SleepersHaveWaker'
  BY <1>0, LogAssumption DEF TypeOK, LogWrite, QuietCommit, NoPanic, SleepersHaveWaker, CountsAgree, InOp, Commit, disk, log
<1>7. SpaceReserved'
  BY <1>2, UnusedBound, LogAssumption, Zenon DEF TypeOK, LogWrite, SpaceReserved, disk, log
<1>8. QED
  BY <1>1, <1>3, <1>4, <1>5, <1>6, <1>7, Zenon

\* write_log() keeps ControlInv.
LEMMA WriteLogControl ==
  ASSUME LogFits, ControlInv, NEW p \in Procs, WriteLog(p)
  PROVE  ControlInv'
<1> USE DEF ControlInv
<1>0. /\ tail < Len(lh)
      /\ lh[tail + 1] \in Blocks
      /\ Contents(lh[tail + 1]) \in Values
  BY TailEntry, Zenon DEF WriteLog, TailAgrees
<1>1. TypeOK'
  <2>1. logd' \in [1 .. NLog - 1 -> Values]
    BY ZenonT(30), <1>0 DEF TypeOK, WriteLog
  <2>2. cache' \in [Blocks -> Values \cup {NoData}]
    BY <1>0, Zenon DEF TypeOK, WriteLog
  <2>3. pc' \in [Procs -> PCs]
    BY ZenonT(30) DEF TypeOK, WriteLog, PCs, Commit
  <2>4. tail' \in Nat
    BY DEF TypeOK, WriteLog
  <2>5. QED
    BY <2>1, <2>2, <2>3, <2>4, Zenon DEF TypeOK, WriteLog, log
<1>2. Active' = Active /\ Unused' = Unused
  BY Zenon DEF TypeOK, WriteLog, Active, Unused, InOp, log
<1>3. CountsAgree'
  BY <1>2, Zenon DEF TypeOK, WriteLog, CountsAgree, TailAgrees, QuietCommit, InOp, Commit, log
<1>4. BuffersAgree'
  BY LogAssumption DEF TypeOK, WriteLog, BuffersAgree, QuietCommit, CountsAgree, LoggedBlocks, InOp, Commit, log
<1>5. TailAgrees'
  BY <1>0 DEF TypeOK, WriteLog, TailAgrees, CountsAgree, QuietCommit, Commit, log
<1>6. QuietCommit' /\ NoPanic' /\ SleepersHaveWaker'
  <2>1. /\ \A q \in Procs : pc'[q] \in Commit <=> pc[q] \in Commit
        /\ \A q \in Procs : pc'[q] \in InOp <=> pc[q] \in InOp
        /\ \A q \in Procs : (pc'[q] = "asleep" <=> pc[q] = "asleep") /\ (pc'[q] = "panic" <=> pc[q] = "panic")
    BY Zenon DEF TypeOK, WriteLog, InOp, Commit
  <2>2. UNCHANGED <<outstanding, committing>>
    BY Zenon DEF WriteLog, log
  <2>3. QED
    BY <2>1, <2>2, Zenon DEF QuietCommit, NoPanic, SleepersHaveWaker
<1>7. SpaceReserved'
  BY <1>2, UnusedBound, LogAssumption, Zenon DEF TypeOK, WriteLog, SpaceReserved, log
<1>8. QED
  BY <1>1, <1>3, <1>4, <1>5, <1>6, <1>7, Zenon

\* write_head(), the commit point, keeps ControlInv.
LEMMA WriteHeadControl ==
  ASSUME LogFits, ControlInv, NEW p \in Procs, WriteHead(p)
  PROVE  ControlInv'
<1> USE DEF ControlInv
<1>1. TypeOK'
  BY Zenon DEF TypeOK, WriteHead, bio, log, PCs, InOp, Commit, Phases
<1>2. Active' = Active /\ Unused' = Unused
  BY Zenon DEF TypeOK, WriteHead, Active, Unused, InOp, bio, log
<1>3. CountsAgree'
  BY <1>2, Zenon DEF TypeOK, WriteHead, CountsAgree, TailAgrees, QuietCommit, InOp, Commit, bio, log
<1>4. BuffersAgree'
  BY LogAssumption, Zenon DEF TypeOK, WriteHead, BuffersAgree, QuietCommit, CountsAgree, LoggedBlocks, InOp, Commit, bio, log
<1>5. TailAgrees'
  BY Zenon DEF TypeOK, WriteHead, TailAgrees, CountsAgree, QuietCommit, Commit, bio, log
<1>6. QuietCommit' /\ NoPanic' /\ SleepersHaveWaker'
  BY Zenon DEF TypeOK, WriteHead, QuietCommit, NoPanic, SleepersHaveWaker, CountsAgree, InOp, Commit, bio, log
<1>7. SpaceReserved'
  BY <1>2, UnusedBound, LogAssumption DEF TypeOK, WriteHead, SpaceReserved, bio, log
<1>8. QED
  BY <1>1, <1>3, <1>4, <1>5, <1>6, <1>7, Zenon

\* install_trans() keeps ControlInv.
LEMMA InstallTransControl ==
  ASSUME LogFits, ControlInv, NEW p \in Procs, InstallTrans(p)
  PROVE  ControlInv'
<1> USE DEF ControlInv
<1>0. /\ tail < Len(lh)
      /\ lh[tail + 1] \in Blocks
      /\ logd[tail + 1] \in Values
  BY TailEntry, Zenon DEF InstallTrans, TailAgrees
<1>1. TypeOK'
  BY <1>0 DEF TypeOK, InstallTrans, Install, log, PCs, Commit, Phases
<1>2. Active' = Active /\ Unused' = Unused
  BY Zenon DEF TypeOK, InstallTrans, Install, Active, Unused, InOp, log
<1>3. CountsAgree'
  BY <1>2, Zenon DEF TypeOK, InstallTrans, Install, CountsAgree, TailAgrees, QuietCommit, InOp, Commit, log
<1>4. BuffersAgree'
  BY LogAssumption, Zenon DEF TypeOK, InstallTrans, Install, BuffersAgree, QuietCommit, CountsAgree, LoggedBlocks, InOp, Commit, log
<1>5. TailAgrees'
  BY <1>0, Zenon DEF TypeOK, InstallTrans, Install, TailAgrees, CountsAgree, QuietCommit, Commit, log
<1>6. QuietCommit' /\ NoPanic' /\ SleepersHaveWaker'
  BY <1>0 DEF TypeOK, InstallTrans, Install, QuietCommit, NoPanic, SleepersHaveWaker, CountsAgree, InOp, Commit, log
<1>7. SpaceReserved'
  BY <1>2, UnusedBound, LogAssumption, Zenon DEF TypeOK, InstallTrans, Install, SpaceReserved, log
<1>8. QED
  BY <1>1, <1>3, <1>4, <1>5, <1>6, <1>7, Zenon

\* The erasing of the committed log keeps ControlInv.
LEMMA ClearControl ==
  ASSUME LogFits, ControlInv, NEW p \in Procs, Clear(p)
  PROVE  ControlInv'
<1> USE DEF ControlInv
<1>1. TypeOK'
  BY DEF TypeOK, Clear, bio, PCs, InOp, Commit, Phases
<1>2. Active' = Active /\ Unused' = Unused
  BY Zenon DEF TypeOK, Clear, Active, Unused, InOp, bio
<1>3. CountsAgree'
  BY <1>2, Zenon DEF TypeOK, Clear, CountsAgree, TailAgrees, QuietCommit, InOp, Commit, bio
<1>4. BuffersAgree'
  BY LogAssumption, Zenon DEF TypeOK, Clear, BuffersAgree, QuietCommit, CountsAgree, LoggedBlocks, InOp, Commit, bio
<1>5. TailAgrees'
  BY Zenon DEF TypeOK, Clear, TailAgrees, CountsAgree, QuietCommit, Commit, bio
<1>6. QuietCommit' /\ NoPanic' /\ SleepersHaveWaker'
  BY Zenon DEF TypeOK, Clear, QuietCommit, NoPanic, SleepersHaveWaker, CountsAgree, InOp, Commit, bio
<1>7. SpaceReserved'
  BY <1>2, UnusedBound, LogAssumption DEF TypeOK, Clear, SpaceReserved, bio
<1>8. QED
  BY <1>1, <1>3, <1>4, <1>5, <1>6, <1>7, Zenon

\* The end of a commit keeps ControlInv.
LEMMA EndCommitControl ==
  ASSUME LogFits, ControlInv, NEW p \in Procs, EndCommit(p)
  PROVE  ControlInv'
<1> USE DEF ControlInv
<1>1. TypeOK'
  BY Zenon DEF TypeOK, EndCommit, Awake, disk, bio, PCs, InOp, Commit, Phases
<1>2. Active' = Active /\ Unused' = Unused
  BY Zenon DEF TypeOK, EndCommit, Awake, Active, Unused, InOp, disk, bio
<1>3. CountsAgree'
  BY <1>2, Zenon DEF TypeOK, EndCommit, Awake, CountsAgree, TailAgrees, QuietCommit, InOp, Commit, disk, bio
<1>4. BuffersAgree'
  BY LogAssumption, Zenon DEF TypeOK, EndCommit, Awake, BuffersAgree, QuietCommit, CountsAgree, LoggedBlocks, InOp, Commit, disk, bio
<1>5. TailAgrees'
  BY Zenon DEF TypeOK, EndCommit, Awake, TailAgrees, CountsAgree, QuietCommit, Commit, disk, bio
<1>6. QuietCommit' /\ NoPanic' /\ SleepersHaveWaker'
  BY Zenon DEF TypeOK, EndCommit, Awake, QuietCommit, NoPanic, SleepersHaveWaker, CountsAgree, InOp, Commit, disk, bio
<1>7. SpaceReserved'
  BY <1>2, UnusedBound, LogAssumption, Zenon DEF TypeOK, EndCommit, Awake, SpaceReserved, disk, bio
<1>8. QED
  BY <1>1, <1>3, <1>4, <1>5, <1>6, <1>7, Zenon

\* read_head() keeps ControlInv.
LEMMA ReadHeadControl ==
  ASSUME LogFits, ControlInv, ReadHead
  PROVE  ControlInv'
<1> USE DEF ControlInv
<1>1. TypeOK'
  BY Zenon DEF TypeOK, ReadHead, disk, bio, local, PCs, InOp, Commit, Phases
<1>2. Active' = Active /\ Unused' = Unused
  BY Zenon DEF TypeOK, ReadHead, Active, Unused, InOp, disk, bio, local
<1>3. CountsAgree'
  BY <1>2, Zenon DEF TypeOK, ReadHead, CountsAgree, TailAgrees, QuietCommit, InOp, Commit, disk, bio, local
<1>4. BuffersAgree'
  BY LogAssumption, Zenon DEF TypeOK, ReadHead, BuffersAgree, QuietCommit, CountsAgree, LoggedBlocks, InOp, Commit, disk, bio, local
<1>5. TailAgrees'
  BY Zenon DEF TypeOK, ReadHead, TailAgrees, CountsAgree, QuietCommit, Commit, disk, bio, local
<1>6. QuietCommit' /\ NoPanic' /\ SleepersHaveWaker'
  BY Zenon DEF TypeOK, ReadHead, QuietCommit, NoPanic, SleepersHaveWaker, CountsAgree, InOp, Commit, disk, bio, local
<1>7. SpaceReserved'
  <2>1. Unused = {}
    BY Zenon DEF ReadHead, CountsAgree, Unused, Active, InOp
  <2>2. QED
    BY <1>2, <2>1, FS_EmptySet, LogAssumption DEF TypeOK, ReadHead, SpaceReserved, disk
<1>8. QED
  BY <1>1, <1>3, <1>4, <1>5, <1>6, <1>7, Zenon

\* install_trans() during recovery keeps ControlInv.
LEMMA RecoverInstallControl ==
  ASSUME LogFits, ControlInv, RecoverInstall
  PROVE  ControlInv'
<1> USE DEF ControlInv
<1>0. /\ tail < Len(lh)
      /\ lh[tail + 1] \in Blocks
      /\ logd[tail + 1] \in Values
  BY TailEntry, Zenon DEF RecoverInstall, TailAgrees
<1>1. TypeOK'
  BY <1>0 DEF TypeOK, RecoverInstall, Install, log, local, PCs, Commit, Phases
<1>2. Active' = Active /\ Unused' = Unused
  BY Zenon DEF TypeOK, RecoverInstall, Install, Active, Unused, InOp, log, local
<1>3. CountsAgree'
  BY <1>2, Zenon DEF TypeOK, RecoverInstall, Install, CountsAgree, TailAgrees, QuietCommit, InOp, Commit, log, local
<1>4. BuffersAgree'
  BY LogAssumption, Zenon DEF TypeOK, RecoverInstall, Install, BuffersAgree, QuietCommit, CountsAgree, LoggedBlocks, InOp, Commit, log, local
<1>5. TailAgrees'
  BY <1>0, Zenon DEF TypeOK, RecoverInstall, Install, TailAgrees, CountsAgree, QuietCommit, Commit, log, local
<1>6. QuietCommit' /\ NoPanic' /\ SleepersHaveWaker'
  BY <1>0, Zenon DEF TypeOK, RecoverInstall, Install, QuietCommit, NoPanic, SleepersHaveWaker, CountsAgree, InOp, Commit, log, local
<1>7. SpaceReserved'
  BY <1>2, UnusedBound, LogAssumption, Zenon DEF TypeOK, RecoverInstall, Install, SpaceReserved, log, local
<1>8. QED
  BY <1>1, <1>3, <1>4, <1>5, <1>6, <1>7, Zenon

\* The erasing of the log after recovery keeps ControlInv.
LEMMA RecoverEraseControl ==
  ASSUME LogFits, ControlInv, RecoverErase
  PROVE  ControlInv'
<1> USE DEF ControlInv
<1>1. TypeOK'
  BY DEF TypeOK, RecoverErase, bio, local, PCs, InOp, Commit, Phases
<1>2. Active' = Active /\ Unused' = Unused
  BY Zenon DEF TypeOK, RecoverErase, Active, Unused, InOp, bio, local
<1>3. CountsAgree'
  BY <1>2, Zenon DEF TypeOK, RecoverErase, CountsAgree, TailAgrees, QuietCommit, InOp, Commit, bio, local
<1>4. BuffersAgree'
  BY LogAssumption, Zenon DEF TypeOK, RecoverErase, BuffersAgree, QuietCommit, CountsAgree, LoggedBlocks, InOp, Commit, bio, local
<1>5. TailAgrees'
  BY Zenon DEF TypeOK, RecoverErase, TailAgrees, CountsAgree, QuietCommit, Commit, bio, local
<1>6. QuietCommit' /\ NoPanic' /\ SleepersHaveWaker'
  BY Zenon DEF TypeOK, RecoverErase, QuietCommit, NoPanic, SleepersHaveWaker, CountsAgree, InOp, Commit, bio, local
<1>7. SpaceReserved'
  BY <1>2, UnusedBound, LogAssumption DEF TypeOK, RecoverErase, SpaceReserved, bio, local
<1>8. QED
  BY <1>1, <1>3, <1>4, <1>5, <1>6, <1>7, Zenon

\* The start of the file system after recovery keeps ControlInv.
LEMMA StartControl ==
  ASSUME LogFits, ControlInv, Start
  PROVE  ControlInv'
<1> USE DEF ControlInv
<1>1. TypeOK'
  BY DEF TypeOK, Start, disk, bio, log, local, PCs, InOp, Commit, Phases
<1>2. Active' = Active /\ Unused' = Unused
  BY Zenon DEF TypeOK, Start, Active, Unused, InOp, local
<1>3. CountsAgree'
  BY <1>2, Zenon DEF TypeOK, Start, CountsAgree, log, local
<1>4. BuffersAgree'
  <2>1. UNCHANGED <<lh, pc, buf, wrote>>
    BY Zenon DEF Start, log, local
  <2>2. QED
    BY <2>1 DEF BuffersAgree, LoggedBlocks
<1>5. TailAgrees'
  BY Zenon DEF TypeOK, Start, TailAgrees, log, local
<1>6. QuietCommit' /\ NoPanic' /\ SleepersHaveWaker'
  BY Zenon DEF TypeOK, Start, QuietCommit, NoPanic, SleepersHaveWaker, log, local
<1>7. SpaceReserved'
  BY <1>2, Zenon DEF Start, SpaceReserved, disk, log
<1>8. QED
  BY <1>1, <1>3, <1>4, <1>5, <1>6, <1>7, Zenon

-----------------------------------------------------------------------------
(* Steps that begin an operation, use up its credit, or end it.            *)

\* begin_op() keeps ControlInv.
LEMMA BeginOpControl ==
  ASSUME LogFits, ControlInv, NEW p \in Procs, BeginOp(p)
  PROVE  ControlInv'
<1> USE DEF ControlInv
<1>1. TypeOK'
  <2>1. UNCHANGED <<disk, bio, lh, committing, phase, tail, buf, wrote>>
    BY Zenon DEF BeginOp
  <2>2. outstanding' \in {outstanding, outstanding + 1}
    BY Zenon DEF BeginOp
  <2>3. pc' \in [Procs -> PCs]
    BY ZenonT(30) DEF BeginOp, TypeOK, PCs, InOp
  <2>4. QED
    BY <2>1, <2>2, <2>3 DEF TypeOK, disk, bio
<1>2. BuffersAgree'
  BY ZenonT(30), LogAssumption DEF TypeOK, BeginOp, BuffersAgree, InOp, disk, bio
<1>3. TailAgrees'
  BY Zenon DEF TypeOK, BeginOp, TailAgrees, disk, bio
<1>4. NoPanic'
  BY Zenon DEF TypeOK, BeginOp, NoPanic
<1>5. CASE committing = 1 \/ Len(lh) + (outstanding + 1) * MAXOPBLOCKS > LOGSIZE
  <2>1. Active' = Active /\ Unused' = Unused
    BY <1>5, Zenon DEF TypeOK, BeginOp, Active, Unused, InOp
  <2>2. CountsAgree' /\ QuietCommit'
    BY ZenonT(30), <1>5, <2>1 DEF TypeOK, BeginOp, CountsAgree, QuietCommit, InOp, Commit, disk, bio
  <2>3. outstanding > 0 \/ committing = 1
    <3>1. CASE outstanding = 0 /\ committing = 0
      <4>1. Len(lh) = 0
        BY <3>1, EmptySeq, Zenon DEF CountsAgree, BeginOp
      <4>2. QED
        BY <1>5, <3>1, <4>1, LogAssumption
    <3>2. QED
      BY <3>1, ActiveIsFinite, FS_CardinalityType DEF TypeOK, CountsAgree
  <2>4. SleepersHaveWaker'
    BY <1>5, <2>3, Zenon DEF TypeOK, BeginOp, SleepersHaveWaker
  <2>5. SpaceReserved'
    BY <2>1, Zenon DEF BeginOp, SpaceReserved, disk
  <2>6. QED
    BY <1>1, <1>2, <1>3, <1>4, <2>2, <2>4, <2>5, Zenon
<1>6. CASE ~(committing = 1 \/ Len(lh) + (outstanding + 1) * MAXOPBLOCKS > LOGSIZE)
  <2>1. p \notin Active /\ Active' = Active \cup {p}
    BY <1>6, Zenon DEF TypeOK, BeginOp, Active, InOp
  <2>2. /\ Cardinality(Active) \in Nat
        /\ IsFiniteSet(Active')
        /\ Cardinality(Active') = Cardinality(Active) + 1
    BY <2>1, ActiveIsFinite, FS_AddElement, FS_CardinalityType, Zenon
  <2> /\ pc' = [pc EXCEPT ![p] = "op"] /\ pc \in [Procs -> PCs] /\ pc[p] \notin Commit
      /\ outstanding' = outstanding + 1 /\ UNCHANGED <<committing, lh, phase>>
      /\ phase = "up" /\ committing # 1
    BY <1>6, Zenon DEF TypeOK, BeginOp, Commit, disk, bio
  <2>9. \A q \in Procs : pc[q] \notin Commit /\ pc'[q] \notin Commit
    BY Zenon DEF CountsAgree, Commit
  <2>10. CountsAgree'
    BY <2>2, <2>9 DEF CountsAgree
  <2>3. CountsAgree' /\ QuietCommit'
    BY <2>9, <2>10, Zenon DEF QuietCommit
  <2>4. SleepersHaveWaker'
    BY <1>6, <2>2 DEF TypeOK, BeginOp, CountsAgree, SleepersHaveWaker
  <2>5. Unused' \subseteq Active' \X (1 .. MAXOPBLOCKS)
    BY Zenon DEF Unused
  <2>6. Cardinality(Unused') \in Nat /\ Cardinality(Unused') <= (outstanding + 1) * MAXOPBLOCKS
    BY <2>2, <2>5, CreditBound, Zenon DEF CountsAgree
  <2>7. Len(lh) + Cardinality(Unused') <= LOGSIZE
    <3>1. (outstanding + 1) * MAXOPBLOCKS \in Int
      BY LogAssumption DEF TypeOK
    <3>2. QED
      BY <1>6, <2>6, <3>1, LogAssumption DEF TypeOK
  <2>8. SpaceReserved'
    BY <2>7, Zenon DEF BeginOp, SpaceReserved, disk
  <2>11. QED
    BY <1>1, <1>2, <1>3, <1>4, <2>3, <2>4, <2>8, Zenon
<1>7. QED
  BY <1>5, <1>6, Zenon

\* The blocks of a log with one more entry.
LEMMA LoggedAppend ==
  ASSUME NEW s \in Seq(Blocks), NEW b \in Blocks
  PROVE  /\ Append(s, b) \in Seq(Blocks)
         /\ Len(Append(s, b)) = Len(s) + 1
         /\ Append(s, b)[Len(s) + 1] = b
         /\ \A i \in 1 .. Len(s) : Append(s, b)[i] = s[i]
         /\ LoggedBlocks(Append(s, b)) = LoggedBlocks(s) \cup {b}
<1> DEFINE t == Append(s, b)
<1>1. /\ t \in Seq(Blocks)
      /\ Len(t) = Len(s) + 1
      /\ t[Len(s) + 1] = b
      /\ \A i \in 1 .. Len(s) : t[i] = s[i]
  OBVIOUS
<1>2. DOMAIN t = 1 .. Len(s) + 1 /\ DOMAIN s = 1 .. Len(s) /\ Len(s) \in Nat
  BY <1>1, LenProperties, Zenon
<1> HIDE DEF t
<1>3. LoggedBlocks(t) = LoggedBlocks(s) \cup {b}
  BY <1>1, <1>2 DEF LoggedBlocks
<1>4. QED
  BY <1>1, <1>3, Zenon DEF t

\* log_write(), under log.lock, keeps ControlInv.
LEMMA LogRecordControl ==
  ASSUME LogFits, ControlInv, NEW p \in Procs, LogRecord(p)
  PROVE  ControlInv'
<1> USE DEF ControlInv
<1> DEFINE b == buf[p]
<1>0. b \in Blocks /\ p \in Active
  BY Zenon DEF LogRecord, BuffersAgree, TypeOK, Active, InOp
<1>1. Active' = Active
  BY Zenon DEF TypeOK, LogRecord, Active, InOp
<1>2. /\ lh' \in Seq(Blocks)
      /\ LoggedBlocks(lh') = LoggedBlocks(lh) \cup {b}
  <2>1. CASE b \in LoggedBlocks(lh)
    BY <2>1, Zenon DEF LogRecord, TypeOK
  <2>2. CASE b \notin LoggedBlocks(lh)
    <3>1. lh' = Append(lh, b) /\ lh \in Seq(Blocks)
      BY <2>2, Zenon DEF LogRecord, TypeOK
    <3>2. QED
      BY <3>1, <1>0, LoggedAppend, Zenon
  <2>3. QED
    BY <2>1, <2>2, Zenon
<1>3. TypeOK'
  BY <1>0, <1>2 DEF TypeOK, LogRecord, disk, PCs, InOp
<1>4. QuietCommit' /\ NoPanic' /\ SleepersHaveWaker'
  BY Zenon DEF TypeOK, LogRecord, QuietCommit, NoPanic, SleepersHaveWaker, InOp, Commit
<1>5. CountsAgree'
  BY <1>0, <1>1, ActiveIsFinite, FS_EmptySet, Zenon DEF TypeOK, LogRecord, CountsAgree, InOp, Commit
<1>6. TailAgrees'
  BY Zenon DEF TypeOK, LogRecord, TailAgrees, QuietCommit, CountsAgree, InOp, Commit
<1>7. /\ IsFiniteSet(wrote[p]) /\ Cardinality(wrote[p]) \in Nat /\ Cardinality(wrote[p]) <= OpBlocks
      /\ b \in wrote[p] \/ Cardinality(wrote[p]) < OpBlocks
      /\ wrote[p] \subseteq LoggedBlocks(lh)
  BY FS_CardinalityType, Zenon DEF LogRecord, BuffersAgree
<1>8. /\ IsFiniteSet(wrote[p] \cup {b})
      /\ Cardinality(wrote[p] \cup {b}) = IF b \in wrote[p] THEN Cardinality(wrote[p]) ELSE Cardinality(wrote[p]) + 1
  BY <1>7, FS_AddElement, Zenon
<1>9. wrote' = [wrote EXCEPT ![p] = wrote[p] \cup {b}]
  BY Zenon DEF LogRecord
<1>10. BuffersAgree'
  <2>1. /\ buf' = buf /\ pc[p] = "log_write" /\ pc' = [pc EXCEPT ![p] = "bread"]
        /\ pc \in [Procs -> PCs] /\ wrote \in [Procs -> SUBSET Blocks]
    BY Zenon DEF LogRecord, TypeOK
  <2>2. \A q \in Procs : pc'[q] \in {"bread", "log_write", "panic"} <=> buf'[q] # NoBlock
    BY <2>1, Zenon DEF BuffersAgree
  <2>3. \A q, r \in Procs : buf'[q] = buf'[r] /\ buf'[q] # NoBlock => q = r
    BY <2>1, Zenon DEF BuffersAgree
  <2>4. ASSUME NEW q \in Procs
        PROVE  /\ IsFiniteSet(wrote'[q]) /\ Cardinality(wrote'[q]) <= OpBlocks
               /\ pc'[q] = "log_write" => buf'[q] \in wrote'[q] \/ Cardinality(wrote'[q]) < OpBlocks
               /\ wrote'[q] # {} => pc'[q] \in InOp
               /\ wrote'[q] \subseteq LoggedBlocks(lh')
    <3>1. CASE q = p
      <4>1. wrote'[q] = wrote[p] \cup {b} /\ pc'[q] = "bread" /\ OpBlocks \in Nat
        BY <3>1, <2>1, <1>9, LogAssumption, Zenon
      <4>2. Cardinality(wrote[p] \cup {b}) <= OpBlocks
        BY <1>7, <1>8, LogAssumption
      <4>3. wrote[p] \cup {b} \subseteq LoggedBlocks(lh')
        BY <1>2, <1>7, Zenon
      <4>4. QED
        BY <4>1, <4>2, <4>3, <1>8, Zenon DEF InOp
    <3>2. CASE q # p
      <4>1. wrote'[q] = wrote[q] /\ pc'[q] = pc[q] /\ buf'[q] = buf[q]
        BY <3>2, <2>1, <1>9, Zenon
      <4>2. LoggedBlocks(lh) \subseteq LoggedBlocks(lh')
        BY <1>2, Zenon
      <4>3. QED
        BY <4>1, <4>2, Zenon DEF BuffersAgree
    <3>3. QED
      BY <3>1, <3>2, Zenon
  <2>5. LoggedBlocks(lh)' = LoggedBlocks(lh')
    BY Zenon DEF LoggedBlocks
  <2>6. QED
    BY <2>2, <2>3, <2>4, <2>5, Zenon DEF BuffersAgree
<1>11. Unused' \subseteq Unused
  BY <1>1, <1>7, <1>8, <1>9 DEF Unused, TypeOK
<1>12. Len(lh) + MAXOPBLOCKS - Cardinality(wrote[p]) <= LOGSIZE /\ Len(lh) \in Nat
  <2>1. p \in Active /\ Cardinality(wrote[p]) \in Nat /\ Cardinality(wrote[p]) <= MAXOPBLOCKS
    <3>1. p \in Active
      BY <1>0, Zenon
    <3>2. OpBlocks \in Nat /\ MAXOPBLOCKS \in Nat /\ OpBlocks <= MAXOPBLOCKS
      BY LogAssumption, Zenon
    <3>3. PICK n \in Nat : n = Cardinality(wrote[p]) /\ n <= OpBlocks
      BY <1>7, Zenon
    <3>4. n <= MAXOPBLOCKS
      BY <3>2, <3>3
    <3>5. QED
      BY <3>1, <3>3, <3>4, Zenon
  <2>2. Cardinality(Unused) >= MAXOPBLOCKS - Cardinality(wrote[p])
    BY ZenonT(30), <2>1, UnusedOfOne
  <2>3. Cardinality(Unused) \in Nat /\ MAXOPBLOCKS \in Nat /\ LOGSIZE \in Nat
    BY UnusedBound, LogAssumption, Zenon
  <2>4. Len(lh) \in Nat /\ Len(lh) + Cardinality(Unused) <= LOGSIZE
    BY DEF SpaceReserved, TypeOK
  <2>5. QED
    BY <2>1, <2>2, <2>3, <2>4
<1>13. SpaceReserved'
  <2>1. CASE b \in LoggedBlocks(lh)
    <3>1. Cardinality(Unused') \in Nat /\ Cardinality(Unused') <= Cardinality(Unused)
      BY <1>11, UnusedBound, FS_Subset, FS_CardinalityType, Zenon
    <3>2. lh' = lh /\ hdr' = hdr
      BY <2>1, Zenon DEF LogRecord, disk
    <3>3. Len(lh) + Cardinality(Unused') <= LOGSIZE
      <4>1. Len(lh) \in Nat /\ LOGSIZE \in Nat /\ Cardinality(Unused) \in Nat
        BY UnusedBound, LogAssumption DEF TypeOK
      <4>2. QED
        BY <4>1, <3>1 DEF SpaceReserved
    <3>4. QED
      BY <3>2, <3>3, Zenon DEF SpaceReserved
  <2>2. CASE b \notin LoggedBlocks(lh)
    <3> DEFINE e == <<p, Cardinality(wrote[p]) + 1>>
    <3>1. Cardinality(wrote[p]) < OpBlocks /\ Cardinality(wrote[p] \cup {b}) = Cardinality(wrote[p]) + 1
      BY <2>2, <1>7, <1>8, Zenon
    <3>2. e \in Unused
      BY <1>0, <1>7, <3>1, LogAssumption DEF Unused
    <3>3. Unused' \subseteq Unused \ {e}
      BY <1>0, <1>1, <1>9, <1>11, <3>1, <1>7 DEF Unused, TypeOK
    <3>4. /\ IsFiniteSet(Unused \ {e})
          /\ Cardinality(Unused \ {e}) = Cardinality(Unused) - 1
      BY <3>2, UnusedBound, FS_RemoveElement, Zenon
    <3>5. Cardinality(Unused') \in Nat /\ Cardinality(Unused') <= Cardinality(Unused) - 1
      BY <3>3, <3>4, FS_Subset, FS_CardinalityType
    <3>6. Len(lh') = Len(lh) + 1 /\ hdr' = hdr
      BY <2>2, <1>0 DEF TypeOK, LogRecord, disk
    <3>7. Len(lh) + 1 < NLog
      <4>1. PICK n \in Nat : n = Cardinality(wrote[p])
        BY <1>7, Zenon
      <4>2. /\ OpBlocks \in Nat /\ MAXOPBLOCKS \in Nat /\ LOGSIZE \in Nat /\ NLog \in Nat
            /\ LOGSIZE + OpBlocks + 1 < NLog + MAXOPBLOCKS
        BY LogAssumption, Zenon DEF LogFits
      <4>3. n < OpBlocks /\ Len(lh) + MAXOPBLOCKS - n <= LOGSIZE /\ Len(lh) \in Nat
        BY <4>1, <3>1, <1>12, Zenon
      <4>4. QED
        BY <4>2, <4>3
    <3>8. QED
      BY <3>5, <3>6, <3>7, <1>12, UnusedBound, LogAssumption DEF SpaceReserved
  <2>3. QED
    BY <2>1, <2>2, Zenon
<1>14. QED
  BY <1>3, <1>4, <1>5, <1>6, <1>10, <1>13, Zenon

\* end_op() keeps ControlInv.
LEMMA EndOpControl ==
  ASSUME LogFits, ControlInv, NEW p \in Procs, EndOp(p)
  PROVE  ControlInv'
<1> USE DEF ControlInv
<1>1. p \in Active /\ committing = 0
  BY Zenon DEF EndOp, Active, InOp, CountsAgree, QuietCommit
<1>2. /\ Cardinality(Active) \in Nat /\ IsFiniteSet(Active \ {p})
      /\ Cardinality(Active \ {p}) = Cardinality(Active) - 1
  BY <1>1, ActiveIsFinite, FS_RemoveElement, FS_CardinalityType, Zenon
<1>3. Active' = Active \ {p}
  BY <1>1 DEF TypeOK, EndOp, Awake, Active, InOp
<1> DEFINE to == IF Len(lh) > 0 THEN "write_log" ELSE "end_commit"
<1>4. /\ outstanding' = outstanding - 1
      /\ wrote' = [wrote EXCEPT ![p] = {}]
      /\ UNCHANGED <<disk, bio, lh, phase, buf>>
      /\ \/ outstanding' = 0 /\ committing' = 1 /\ tail' = 0 /\ pc' = [pc EXCEPT ![p] = to]
         \/ outstanding' # 0 /\ committing' = 0 /\ tail' = tail /\ pc' = Awake([pc EXCEPT ![p] = "idle"])
  BY <1>1 DEF EndOp
<1>5. TypeOK' /\ NoPanic'
  <2>1. pc' \in [Procs -> PCs] /\ NoPanic'
    BY ZenonT(30), <1>4 DEF TypeOK, Awake, PCs, Commit, NoPanic
  <2>2. tail' \in Nat /\ committing' \in {0, 1} /\ outstanding' \in Nat
    <3>1. Cardinality(Active \ {p}) \in Nat
      BY <1>2, FS_CardinalityType, Zenon
    <3>2. QED
      BY <1>2, <1>4, <3>1, Zenon DEF TypeOK, CountsAgree
  <2>3. QED
    BY ZenonT(30), <1>4, <2>1, <2>2 DEF TypeOK, disk, bio
<1>6. BuffersAgree'
  <2>1. \A q \in Procs : /\ q # p => pc'[q] = pc[q] \/ (pc[q] = "asleep" /\ pc'[q] = "begin")
                         /\ pc[p] = "op" /\ pc'[p] \in {"write_log", "end_commit", "idle"}
    BY <1>4, Zenon DEF TypeOK, EndOp, Awake
  <2>2. QED
    <3>1. lh' = lh /\ buf' = buf
      BY <1>4, Zenon
    <3>2. /\ \A q \in Procs : pc'[q] \in {"bread", "log_write", "panic"} <=> buf'[q] # NoBlock
          /\ \A q, s \in Procs : buf'[q] = buf'[s] /\ buf'[q] # NoBlock => q = s
      BY <2>1, <3>1, Zenon DEF BuffersAgree, NoPanic
    <3>3. \A q \in Procs : wrote'[q] = IF q = p THEN {} ELSE wrote[q]
      BY <1>4, Zenon DEF TypeOK
    <3>4. ASSUME NEW q \in Procs
          PROVE  /\ IsFiniteSet(wrote'[q]) /\ Cardinality(wrote'[q]) <= OpBlocks
                 /\ wrote'[q] # {} => pc'[q] \in InOp
                 /\ wrote'[q] \subseteq LoggedBlocks(lh)
      <4>1. CASE q = p
        BY <3>3, <4>1, FS_EmptySet, LogAssumption
      <4>2. CASE q # p
        BY <2>1, <3>3, <4>2, Zenon DEF BuffersAgree, InOp
      <4>3. QED
        BY <4>1, <4>2, Zenon
    <3>5. ASSUME NEW q \in Procs, pc'[q] = "log_write"
          PROVE  buf'[q] \in wrote'[q] \/ Cardinality(wrote'[q]) < OpBlocks
      BY <2>1, <3>1, <3>3, <3>5, Zenon DEF BuffersAgree
    <3>6. LoggedBlocks(lh)' = LoggedBlocks(lh)
      BY <3>1, Zenon DEF LoggedBlocks
    <3>7. QED
      BY <3>2, <3>4, <3>5, <3>6, Zenon DEF BuffersAgree
<1>7. TailAgrees'
  <2>1. \A q \in Procs : pc[q] \notin Commit
    BY <1>1 DEF CountsAgree
  <2>2. CASE outstanding' = 0
    <3>1. /\ tail' = 0 /\ lh' = lh /\ phase' = phase /\ lh \in Seq(Blocks)
          /\ pc' = [pc EXCEPT ![p] = IF Len(lh) > 0 THEN "write_log" ELSE "end_commit"]
      BY <1>4, <2>2, Zenon DEF TypeOK, EndOp, CountsAgree, Commit
    <3>2. Len(lh) \in Nat /\ (~(Len(lh) > 0) => lh = <<>>)
      BY <3>1, EmptySeq
    <3>3. \A q \in Procs : q # p => pc'[q] = pc[q] /\ pc'[q] \notin Commit
      BY <2>1, <3>1
    <3>4. pc'[p] \in {"write_log", "end_commit"} /\ (pc'[p] = "write_log" <=> Len(lh) > 0)
      BY <3>1, Zenon DEF TypeOK
    <3>5. QED
      <4>1. \A q \in Procs : pc'[q] \notin {"write_head", "install_trans"}
        BY <3>3, <3>4, Zenon DEF Commit
      <4>2. \A q \in Procs : pc'[q] \in {"write_log", "end_commit"} => q = p
        BY <3>3, Zenon DEF Commit
      <4>3. phase' # "install"
        BY <3>1, <1>1, UpInOp, Zenon DEF Active
      <4>4. QED
        BY <3>1, <3>2, <3>4, <4>1, <4>2, <4>3, Zenon DEF TailAgrees
  <2>3. CASE outstanding' # 0
    BY <1>4, <2>1, <2>3, Zenon DEF TypeOK, TailAgrees, Awake, Commit
  <2>4. QED
    BY <2>2, <2>3, Zenon
<1>8. SpaceReserved'
  <2>1. Unused' \subseteq Unused
    BY <1>3, <1>1, <1>4, Zenon DEF Unused, TypeOK, Active
  <2>2. Cardinality(Unused') \in Nat /\ Cardinality(Unused') <= Cardinality(Unused)
    BY <2>1, UnusedBound, FS_Subset, FS_CardinalityType, Zenon
  <2>3. QED
    BY <1>4, <2>2, UnusedBound, LogAssumption DEF SpaceReserved, disk, TypeOK
<1>9. outstanding' = 0 => Active' = {}
  BY ZenonT(30), <1>2, <1>3, FS_EmptySet DEF EndOp, CountsAgree
<1>10. QuietCommit'
  BY ZenonT(30), <1>1, <1>9, <1>4 DEF TypeOK, Awake, QuietCommit, CountsAgree, Active, InOp, Commit
<1>11. SleepersHaveWaker'
  BY ZenonT(30), <1>4, <1>2 DEF TypeOK, Awake, SleepersHaveWaker, CountsAgree
<1>12. CountsAgree'
  <2>1. outstanding' = Cardinality(Active')
    BY <1>2, <1>3, <1>4, Zenon DEF CountsAgree
  <2>2. committing' = IF \E q \in Procs : pc'[q] \in Commit THEN 1 ELSE 0
    BY ZenonT(30), <1>1, <1>4 DEF TypeOK, Awake, CountsAgree, Commit
  <2>3. QED
    <3>1. phase' = phase /\ lh' = lh
      BY <1>4, Zenon
    <3>2. phase = "up"
      BY <1>1, UpInOp, Zenon DEF Active
    <3>3. ~(outstanding' = 0 /\ committing' = 0)
      BY <1>4 DEF EndOp
    <3>4. QED
      BY <2>1, <2>2, <3>1, <3>2, <3>3, Zenon DEF CountsAgree
<1>13. QED
  BY <1>5, <1>6, <1>7, <1>8, <1>10, <1>11, <1>12, Zenon

\* A crash keeps ControlInv.
LEMMA CrashControl ==
  ASSUME LogFits, ControlInv, Crash
  PROVE  ControlInv'
<1> USE DEF ControlInv
<1>1. Active' = {} /\ Unused' = {}
  BY Zenon DEF Crash, Active, Unused, InOp
<1>2. TypeOK'
  <2>1. lh' \in Seq(Blocks)
    BY EmptySeq, Zenon DEF Crash
  <2>2. /\ cache' \in [Blocks -> Values \cup {NoData}] /\ refcnt' \in [Blocks -> Int]
        /\ pc' \in [Procs -> PCs] /\ buf' \in [Procs -> Blocks \cup {NoBlock}]
        /\ wrote' \in [Procs -> SUBSET Blocks]
    BY DEF Crash, PCs
  <2>3. outstanding' \in Nat /\ committing' \in {0, 1} /\ phase' \in Phases /\ tail' \in Nat
    BY Zenon DEF Crash, Phases
  <2>4. UNCHANGED <<hdr, logd, home>>
    BY Zenon DEF Crash, disk
  <2>5. QED
    BY <2>1, <2>2, <2>3, <2>4, Zenon DEF TypeOK
<1>3. CountsAgree' /\ QuietCommit' /\ NoPanic' /\ SleepersHaveWaker'
  BY <1>1, FS_EmptySet, Zenon DEF Crash, CountsAgree, QuietCommit, NoPanic, SleepersHaveWaker, InOp, Commit
<1>4. BuffersAgree' /\ TailAgrees'
  <2>1. /\ pc' = [q \in Procs |-> "idle"] /\ buf' = [q \in Procs |-> NoBlock]
        /\ wrote' = [q \in Procs |-> {}] /\ tail' = 0 /\ phase' = "read_head"
    BY Zenon DEF Crash
  <2>2. IsFiniteSet({}) /\ Cardinality({}) <= OpBlocks
    BY FS_EmptySet, LogAssumption
  <2>3. TailAgrees'
    BY <2>1, Zenon DEF TailAgrees
  <2>4. BuffersAgree'
    BY <2>1, <2>2, Zenon DEF BuffersAgree
  <2>5. QED
    BY <2>3, <2>4, Zenon
<1>5. SpaceReserved'
  <2>1. Len(lh') = 0 /\ hdr' = hdr
    BY EmptySeq, Zenon DEF Crash, disk
  <2>2. Cardinality(Unused') = 0
    BY <1>1, FS_EmptySet, Zenon
  <2>3. 0 <= LOGSIZE /\ 0 < NLog
    BY LogAssumption
  <2>4. QED
    BY <2>1, <2>2, <2>3 DEF SpaceReserved
<1>6. QED
  BY <1>2, <1>3, <1>4, <1>5, Zenon

-----------------------------------------------------------------------------
\* Every step keeps ControlInv.
LEMMA ControlStep == ASSUME LogFits, ControlInv, [Next]_vars PROVE ControlInv'
<1>1. CASE UNCHANGED vars
  BY ZenonT(30), <1>1 DEF vars, disk, bio, log, local, ControlInv, TypeOK, CountsAgree, BuffersAgree, TailAgrees,
     QuietCommit, SpaceReserved, NoPanic, SleepersHaveWaker, Active, Unused
<1>2. CASE Next
  BY <1>2, RecycleControl, BreadControl, LogWriteControl, BeginOpControl, LogRecordControl, BrelseControl,
     EndOpControl, WriteLogControl, WriteHeadControl, InstallTransControl, ClearControl, EndCommitControl,
     ReadHeadControl, RecoverInstallControl, RecoverEraseControl, StartControl, CrashControl
  DEF Next, CommitStep, Recover
<1>3. QED
  BY <1>1, <1>2, Zenon

\* Counters, positions and reservations of the log agree in every reachable
\* state, for any number of processes and blocks and any sizes that fit.
THEOREM ControlCorrect == ASSUME LogFits PROVE Spec => []ControlInv
<1>1. Init => ControlInv
  BY ControlInit, Zenon
<1>2. ControlInv /\ [Next]_vars => ControlInv'
  BY ControlStep, Zenon
<1>3. QED
  BY <1>1, <1>2, PTL DEF Spec

\* Neither log_write() nor end_op() ever panics.
THEOREM NoPanicTheorem == ASSUME LogFits PROVE Spec => []NoPanic
<1>1. ControlInv => NoPanic
  BY Zenon DEF ControlInv
<1>2. QED
  BY <1>1, ControlCorrect, PTL

\* Every state variable of the log keeps its type.
THEOREM TypeCorrect == ASSUME LogFits PROVE Spec => []TypeOK
<1>1. ControlInv => TypeOK
  BY Zenon DEF ControlInv
<1>2. QED
  BY <1>1, ControlCorrect, PTL

\* commit() runs alone: no operation is in progress and nobody else commits.
THEOREM QuietCommitTheorem == ASSUME LogFits PROVE Spec => []QuietCommit
<1>1. ControlInv => QuietCommit
  BY Zenon DEF ControlInv
<1>2. QED
  BY <1>1, ControlCorrect, PTL

\* Whoever sleeps in begin_op() has a waker left.
THEOREM SleepersHaveWakerTheorem == ASSUME LogFits PROVE Spec => []SleepersHaveWaker
<1>1. ControlInv => SleepersHaveWaker
  BY Zenon DEF ControlInv
<1>2. QED
  BY <1>1, ControlCorrect, PTL

-----------------------------------------------------------------------------
(* The log implements an atomic disk: the data invariant of module Log and *)
(* the refinement of AtomicDisk.                                           *)

(* What the position of one process says about the rest of the state.      *)

\* While operations run, no commit does.
LEMMA DuringOperation ==
  ASSUME ControlInv, DataInv, NEW p \in Procs, pc[p] \in InOp
  PROVE  /\ phase = "up" /\ hdr = <<>>
         /\ \A q \in Procs : pc[q] \notin Commit
         /\ \A i \in Nat : ~Installed(i)
         /\ \A c \in Blocks : Pinned(c) <=> c \in LoggedBlocks(lh)
<1>1. phase = "up" /\ \A q \in Procs : pc[q] \notin Commit
  BY Zenon DEF ControlInv, CountsAgree, QuietCommit, InOp
<1>2. \A i : ~Installed(i)
  BY <1>1, Zenon DEF Installed, Commit
<1>3. hdr = <<>>
  BY <1>1, Zenon DEF DataInv, HeaderAgrees, Commit
<1>4. QED
  BY <1>1, <1>2, <1>3, Zenon DEF Pinned, LoggedBlocks

\* While a commit runs, no operation does.
LEMMA DuringCommit ==
  ASSUME ControlInv, NEW p \in Procs, pc[p] \in Commit
  PROVE  /\ phase = "up"
         /\ \A q \in Procs : buf[q] = NoBlock /\ pc[q] \notin InOp /\ (q # p => pc[q] \notin Commit)
         /\ \A c \in Blocks : ~Held(c) /\ ~Unrecorded(c)
         /\ \A i : Installed(i) <=> pc[p] = "clear" \/ (pc[p] = "install_trans" /\ i <= tail)
<1>1. phase = "up"
  BY Zenon DEF ControlInv, CountsAgree, Commit
<1>2. \A q \in Procs : pc[q] \notin InOp /\ (q # p => pc[q] \notin Commit)
  BY Zenon DEF ControlInv, QuietCommit
<1>3. \A q \in Procs : buf[q] = NoBlock
  BY <1>2, Zenon DEF ControlInv, BuffersAgree, InOp
<1>4. QED
  BY <1>1, <1>2, <1>3, LogAssumption, Zenon DEF Held, Unrecorded, Installed, Commit

\* Before the boot is over nothing else runs.
LEMMA DuringBoot ==
  ASSUME ControlInv, phase # "up"
  PROVE  /\ \A q \in Procs : buf[q] = NoBlock /\ pc[q] = "idle"
         /\ \A c \in Blocks : ~Held(c) /\ ~Unrecorded(c)
         /\ \A i : ~Installed(i)
<1>1. \A q \in Procs : buf[q] = NoBlock /\ pc[q] = "idle"
  BY Zenon DEF ControlInv, CountsAgree, BuffersAgree
<1>2. QED
  BY <1>1, LogAssumption, Zenon DEF Held, Unrecorded, Installed

\* A step of an operation outside commit() leaves these parts of the invariant vacuous.
LEMMA OperationStep ==
  ASSUME DataInv, phase' = "up", hdr' = <<>>, \A q \in Procs : pc'[q] \notin Commit, Distinct(lh')
  PROVE  /\ HeaderAgrees' /\ LogCopied' /\ HomeCopied'
         /\ \A c \in Blocks : Pinned(c)' <=> c \in LoggedBlocks(lh')
<1>1. \A i : ~Installed(i)'
  BY Zenon DEF Installed, Commit
<1>2. Distinct(hdr')
  BY DEF Distinct
<1>3. HeaderAgrees'
  BY <1>2, Zenon DEF HeaderAgrees, Commit
<1>4. LogCopied' /\ HomeCopied'
  BY <1>1, Zenon DEF LogCopied, HomeCopied, Commit
<1>5. QED
  BY <1>1, <1>3, <1>4, Zenon DEF Pinned, LoggedBlocks

\* bread() keeps DataInv.
LEMMA BreadData ==
  ASSUME ControlInv, DataInv, NEW p \in Procs, NEW b \in Blocks, Bread(p, b)
  PROVE  DataInv'
<1> USE DEF DataInv
<1>1. pc[p] \in InOp /\ buf[p] = NoBlock
  BY Zenon DEF Bread, InOp, ControlInv, BuffersAgree
<1>2. UNCHANGED <<hdr, home, lh, phase>> /\ \A q \in Procs : pc'[q] \in Commit => pc[q] \in Commit
  BY Zenon DEF Bread, disk, log, ControlInv, TypeOK, Commit
<1>3. /\ HeaderAgrees' /\ LogCopied' /\ HomeCopied'
      /\ \A c \in Blocks : Pinned(c)' <=> c \in LoggedBlocks(lh)
  BY <1>1, <1>2, DuringOperation, OperationStep, Zenon DEF HeaderAgrees
<1>4. \A c \in Blocks : Contents(c)' = Contents(c) /\ (cache'[c] = NoData => cache[c] = NoData)
  BY <1>2, LogAssumption, Zenon DEF Bread, Contents, ControlInv, TypeOK
<1>5. \A c \in Blocks : Unrecorded(c)' <=> Unrecorded(c)
  BY <1>1, LogAssumption, Zenon DEF Bread, Unrecorded, ControlInv, TypeOK
<1>6. CacheClean'
  BY <1>2, <1>4, <1>5, Zenon DEF CacheClean
<1>7. \A c \in Blocks : Held(c)' <=> c = b \/ Held(c)
  BY <1>1, LogAssumption, Zenon DEF Bread, Held, ControlInv, TypeOK
<1>8. ~Held(b) /\ cache'[b] # NoData
  BY LogAssumption DEF Bread, Held, Contents, ControlInv, TypeOK
<1>9. Referenced'
  <2>1. \A c \in Blocks : Pinned(c)' <=> Pinned(c)
    BY <1>1, <1>3, DuringOperation, Zenon
  <2>2. \A c \in Blocks : refcnt'[c] = IF c = b THEN refcnt[c] + 1 ELSE refcnt[c]
    BY Zenon DEF Bread, ControlInv, TypeOK
  <2>3. \A c \in Blocks : c # b => cache'[c] = cache[c]
    BY Zenon DEF Bread, ControlInv, TypeOK
  <2>4. QED
    BY <1>1, <1>2, <1>7, <1>8, <2>1, <2>2, <2>3, DuringOperation DEF Referenced, Count, ControlInv, TypeOK
<1>10. QED
  BY <1>3, <1>6, <1>9, Zenon

\* brelse() keeps DataInv.
LEMMA BrelseData ==
  ASSUME ControlInv, DataInv, NEW p \in Procs, Brelse(p)
  PROVE  DataInv'
<1> USE DEF DataInv
<1> DEFINE b == buf[p]
<1>1. pc[p] \in InOp /\ b \in Blocks
  BY Zenon DEF Brelse, InOp, ControlInv, BuffersAgree, TypeOK
<1>2. UNCHANGED <<hdr, home, lh, phase, cache>> /\ \A q \in Procs : pc'[q] \in Commit => pc[q] \in Commit
  BY Zenon DEF Brelse, disk, log, ControlInv, TypeOK, Commit
<1>3. /\ HeaderAgrees' /\ LogCopied' /\ HomeCopied'
      /\ \A c \in Blocks : Pinned(c)' <=> c \in LoggedBlocks(lh)
  BY <1>1, <1>2, DuringOperation, OperationStep, Zenon DEF HeaderAgrees
<1>4. \A c \in Blocks : Contents(c)' = Contents(c)
  BY <1>2, Zenon DEF Contents
<1>5. \A c \in Blocks : Unrecorded(c)' <=> Unrecorded(c)
  BY <1>1, LogAssumption, Zenon DEF Brelse, Unrecorded, ControlInv, TypeOK
<1>6. CacheClean'
  BY <1>2, <1>4, <1>5, Zenon DEF CacheClean
<1>7. \A c \in Blocks : Held(c)' <=> c # b /\ Held(c)
  BY <1>1, LogAssumption, Zenon DEF Brelse, Held, ControlInv, TypeOK, BuffersAgree
<1>8. Held(b)
  BY Zenon DEF Held
<1>9. Referenced'
  <2>1. \A c \in Blocks : Pinned(c)' <=> Pinned(c)
    BY <1>1, <1>3, DuringOperation, Zenon
  <2>2. \A c \in Blocks : refcnt'[c] = IF c = b THEN refcnt[c] - 1 ELSE refcnt[c]
    BY Zenon DEF Brelse, ControlInv, TypeOK
  <2>3. SUFFICES ASSUME NEW c \in Blocks
                 PROVE  /\ refcnt'[c] >= Count(Held(c)') + Count(Pinned(c)')
                        /\ Held(c)' \/ Pinned(c)' => cache'[c] # NoData
    BY Zenon DEF Referenced
  <2>4. /\ refcnt[c] \in Int
        /\ refcnt[c] >= Count(Held(c)) + Count(Pinned(c))
        /\ Held(c) \/ Pinned(c) => cache[c] # NoData
    BY <1>1, DuringOperation, Zenon DEF Referenced, ControlInv, TypeOK
  <2>5. QED
    BY <1>2, <1>7, <1>8, <2>1, <2>2, <2>4 DEF Count
<1>10. QED
  BY <1>3, <1>6, <1>9, Zenon

\* log_write(), before it takes log.lock, keeps DataInv.
LEMMA LogWriteData ==
  ASSUME ControlInv, DataInv, NEW p \in Procs, NEW v \in Values, LogWrite(p, v)
  PROVE  DataInv'
<1> USE DEF DataInv
<1> DEFINE b == buf[p]
<1>1. pc[p] \in InOp /\ b \in Blocks
  BY Zenon DEF LogWrite, InOp, ControlInv, BuffersAgree, TypeOK
<1>2. /\ UNCHANGED <<hdr, home, lh, phase, refcnt, buf>>
      /\ \A q \in Procs : pc'[q] \in Commit => pc[q] \in Commit
      /\ pc'[p] \in {"log_write", "panic"}
      /\ \A q \in Procs : q # p => pc'[q] = pc[q]
  BY Zenon DEF LogWrite, disk, log, ControlInv, TypeOK, Commit
<1>3. /\ HeaderAgrees' /\ LogCopied' /\ HomeCopied'
      /\ \A c \in Blocks : Pinned(c)' <=> c \in LoggedBlocks(lh)
  BY <1>1, <1>2, DuringOperation, OperationStep, Zenon DEF HeaderAgrees
<1>4. \A c \in Blocks : cache'[c] = IF c = b THEN v ELSE cache[c]
  BY <1>2, Zenon DEF LogWrite, ControlInv, TypeOK
<1>5. \A c \in Blocks : Unrecorded(c)' <=> c = b \/ Unrecorded(c)
  BY <1>1, <1>2, LogAssumption, Zenon DEF LogWrite, Unrecorded, ControlInv, TypeOK
<1>6. CacheClean'
  BY <1>1, <1>2, <1>4, <1>5, DuringOperation, Zenon DEF CacheClean, Contents
<1>7. \A c \in Blocks : Held(c)' <=> Held(c)
  BY <1>2, Zenon DEF Held
<1>9. Referenced'
  <2>1. \A c \in Blocks : Pinned(c)' <=> Pinned(c)
    BY <1>1, <1>3, DuringOperation, Zenon
  <2>4. QED
    BY <1>1, <1>2, <1>4, <1>7, <2>1, LogAssumption DEF Referenced, Count
<1>10. QED
  BY <1>3, <1>6, <1>9, Zenon

\* log_write(), under log.lock, keeps DataInv.
LEMMA LogRecordData ==
  ASSUME ControlInv, DataInv, NEW p \in Procs, LogRecord(p)
  PROVE  DataInv'
<1> USE DEF DataInv
<1> DEFINE b == buf[p]
<1>1. pc[p] \in InOp /\ b \in Blocks /\ lh \in Seq(Blocks)
  BY Zenon DEF LogRecord, InOp, ControlInv, BuffersAgree, TypeOK
<1>2. /\ UNCHANGED <<hdr, home, phase, cache, buf>>
      /\ \A q \in Procs : pc'[q] \in Commit => pc[q] \in Commit
      /\ pc[p] = "log_write" /\ pc'[p] = "bread"
      /\ \A q \in Procs : q # p => pc'[q] = pc[q]
  BY Zenon DEF LogRecord, disk, ControlInv, TypeOK, Commit
<1>3. /\ LoggedBlocks(lh') = LoggedBlocks(lh) \cup {b}
      /\ Distinct(lh')
      /\ \A c \in Blocks : refcnt'[c] = IF c = b /\ b \notin LoggedBlocks(lh) THEN refcnt[c] + 1 ELSE refcnt[c]
  <2>1. CASE b \in LoggedBlocks(lh)
    BY <2>1, Zenon DEF LogRecord, HeaderAgrees
  <2>2. CASE b \notin LoggedBlocks(lh)
    <3>1. lh' = Append(lh, b) /\ refcnt' = [refcnt EXCEPT ![b] = @ + 1]
      BY <2>2, Zenon DEF LogRecord
    <3>2. /\ lh' \in Seq(Blocks)
          /\ Len(lh') = Len(lh) + 1
          /\ lh'[Len(lh) + 1] = b
          /\ \A i \in 1 .. Len(lh) : lh'[i] = lh[i]
          /\ LoggedBlocks(lh') = LoggedBlocks(lh) \cup {b}
      BY <1>1, <3>1, LoggedAppend, Zenon
    <3>3. DOMAIN lh' = 1 .. Len(lh) + 1 /\ DOMAIN lh = 1 .. Len(lh) /\ Len(lh) \in Nat
      BY <1>1, <3>2, LenProperties, Zenon
    <3>4. \A i \in 1 .. Len(lh) : lh[i] # b
      BY <2>2, <3>3, Zenon DEF LoggedBlocks
    <3>5. Distinct(lh')
      BY <3>2, <3>3, <3>4 DEF Distinct, HeaderAgrees
    <3>6. QED
      BY <2>2, <3>1, <3>2, <3>5, Zenon DEF ControlInv, TypeOK
  <2>3. QED
    BY <2>1, <2>2, Zenon
<1>4. /\ HeaderAgrees' /\ LogCopied' /\ HomeCopied'
      /\ \A c \in Blocks : Pinned(c)' <=> c \in LoggedBlocks(lh')
  BY <1>1, <1>2, <1>3, DuringOperation, OperationStep, Zenon
<1>5. \A c \in Blocks : Contents(c)' = Contents(c)
  BY <1>2, Zenon DEF Contents
<1>6. \A c \in Blocks : c # b => (Unrecorded(c)' <=> Unrecorded(c))
  BY <1>1, <1>2, LogAssumption, Zenon DEF Unrecorded
<1>7. CacheClean'
  BY <1>1, <1>2, <1>3, <1>5, <1>6, DuringOperation, Zenon DEF CacheClean
<1>8. Held(b) /\ \A c \in Blocks : Held(c)' <=> Held(c)
  BY <1>2, Zenon DEF Held
<1>9. Referenced'
  <2>1. SUFFICES ASSUME NEW c \in Blocks
                 PROVE  /\ refcnt'[c] >= Count(Held(c)') + Count(Pinned(c)')
                        /\ Held(c)' \/ Pinned(c)' => cache'[c] # NoData
    BY Zenon DEF Referenced
  <2>2. /\ refcnt[c] \in Int
        /\ refcnt[c] >= Count(Held(c)) + Count(Pinned(c))
        /\ Held(c) \/ Pinned(c) => cache[c] # NoData
        /\ Pinned(c) <=> c \in LoggedBlocks(lh)
    BY <1>1, DuringOperation, Zenon DEF Referenced, ControlInv, TypeOK
  <2>3. QED
    BY <1>2, <1>3, <1>4, <1>8, <2>2 DEF Count
<1>10. QED
  BY <1>4, <1>7, <1>9, Zenon

-----------------------------------------------------------------------------
(* Steps that only move processes.                                         *)

\* Positions the data invariant does not mention.
IdlePCs == {"idle", "begin", "asleep", "op", "bread", "end_commit"}

\* A step between places of IdlePCs that changes nothing else keeps DataInv.
LEMMA MoveData ==
  ASSUME DataInv,
         UNCHANGED <<hdr, logd, home, cache, refcnt, lh, phase, tail, buf>>,
         \A q \in Procs : pc'[q] = pc[q] \/ (pc[q] \in IdlePCs /\ pc'[q] \in IdlePCs)
  PROVE  DataInv'
<1> USE DEF DataInv
<1>1. \A i : Installed(i)' <=> Installed(i)
  BY Zenon DEF Installed, IdlePCs
<1>2. \A c \in Blocks : /\ Contents(c)' = Contents(c)
                        /\ Unrecorded(c)' <=> Unrecorded(c)
                        /\ Held(c)' <=> Held(c)
                        /\ Pinned(c)' <=> Pinned(c)
  BY <1>1, Zenon DEF Contents, Unrecorded, Held, Pinned, IdlePCs
<1>3. HeaderAgrees'
  BY Zenon DEF HeaderAgrees, IdlePCs
<1>4. \A c : Contents(c)' = Contents(c)
  BY Zenon DEF Contents
<1>41. LogCopied'
  BY <1>4, Zenon DEF LogCopied, IdlePCs
<1>42. HomeCopied'
  BY <1>1, <1>4, Zenon DEF HomeCopied
<1>5. CacheClean' /\ Referenced'
  BY <1>2, Zenon DEF CacheClean, Referenced, Count
<1>6. QED
  BY <1>3, <1>41, <1>42, <1>5, Zenon

\* begin_op() keeps DataInv.
LEMMA BeginOpData ==
  ASSUME ControlInv, DataInv, NEW p \in Procs, BeginOp(p)
  PROVE  DataInv'
<1>1. UNCHANGED <<hdr, logd, home, cache, refcnt, lh, phase, tail, buf>>
  BY Zenon DEF BeginOp, disk, bio
<1>2. \A q \in Procs : pc'[q] = pc[q] \/ (pc[q] \in {"idle", "begin"} /\ pc'[q] \in {"asleep", "op"})
  BY Zenon DEF BeginOp, ControlInv, TypeOK
<1>3. QED
  BY <1>1, <1>2, MoveData, Zenon DEF IdlePCs

\* The end of a commit keeps DataInv.
LEMMA EndCommitData ==
  ASSUME ControlInv, DataInv, NEW p \in Procs, EndCommit(p)
  PROVE  DataInv'
<1>1. UNCHANGED <<hdr, logd, home, cache, refcnt, lh, phase, tail, buf>>
  BY Zenon DEF EndCommit, disk, bio
<1>2. \A q \in Procs : pc'[q] = pc[q] \/ (pc[q] \in {"end_commit", "asleep"} /\ pc'[q] \in {"idle", "begin"})
  BY DEF EndCommit, Awake, ControlInv, TypeOK
<1>3. QED
  BY <1>1, <1>2, MoveData, Zenon DEF IdlePCs

\* end_op() keeps DataInv.
LEMMA EndOpData ==
  ASSUME ControlInv, DataInv, NEW p \in Procs, EndOp(p)
  PROVE  DataInv'
<1> USE DEF DataInv
<1>1. pc[p] \in InOp /\ committing = 0
  BY Zenon DEF EndOp, InOp, ControlInv, CountsAgree, QuietCommit
<1>2. /\ UNCHANGED <<hdr, logd, home, cache, refcnt, lh, phase, buf>>
      /\ phase = "up" /\ hdr = <<>> /\ \A q \in Procs : pc[q] \notin Commit
  BY <1>1, DuringOperation, Zenon DEF EndOp, disk, bio
<1>3. \A q \in Procs : /\ pc'[q] \in {"log_write", "panic"} <=> pc[q] \in {"log_write", "panic"}
                       /\ pc'[q] \notin {"write_head", "install_trans", "clear"}
                       /\ pc'[q] = "write_log" => tail' = 0
  BY <1>1, <1>2 DEF EndOp, Awake, ControlInv, TypeOK, Commit
<1>4. \A i : ~Installed(i)' /\ ~Installed(i)
  BY <1>2, <1>3, Zenon DEF Installed, Commit
<1>41. \A c : Contents(c)' = Contents(c) /\ (Held(c)' <=> Held(c)) /\ (Unrecorded(c)' <=> Unrecorded(c))
  BY <1>2, <1>3, Zenon DEF Contents, Unrecorded, Held
<1>5. \A c \in Blocks : Pinned(c)' <=> Pinned(c)
  BY <1>2, <1>4, Zenon DEF Pinned
<1>6. HeaderAgrees'
  BY <1>2, <1>3, Zenon DEF HeaderAgrees
<1>7. LogCopied' /\ HomeCopied'
  <2>1. \A i \in DOMAIN lh' : i \in Nat /\ i > 0
    BY <1>2 DEF ControlInv, TypeOK
  <2>2. QED
    BY <1>2, <1>3, <1>4, <2>1 DEF LogCopied, HomeCopied
<1>8. CacheClean' /\ Referenced'
  BY <1>2, <1>41, <1>5, Zenon DEF CacheClean, Referenced, Count
<1>9. QED
  BY <1>6, <1>7, <1>8, Zenon

-----------------------------------------------------------------------------
(* bget() recycles only buffers that are not needed.                       *)

\* bget(), when it recycles a buffer, keeps DataInv.
LEMMA RecycleData ==
  ASSUME ControlInv, DataInv, NEW b \in Blocks, Recycle(b)
  PROVE  DataInv'
<1> USE DEF DataInv
<1>1. UNCHANGED <<hdr, logd, home, refcnt, lh, phase, tail, pc, buf>>
  BY Zenon DEF Recycle, disk, log, local
<1>2. /\ \A i : Installed(i)' <=> Installed(i)
      /\ \A c : (Held(c)' <=> Held(c)) /\ (Unrecorded(c)' <=> Unrecorded(c)) /\ (Pinned(c)' <=> Pinned(c))
  BY <1>1, Zenon DEF Installed, Held, Unrecorded, Pinned
<1>3. phase = "up" => ~Held(b) /\ ~Pinned(b)
  BY DEF Recycle, Referenced, Count
<1>4. \A c \in Blocks : cache'[c] = IF c = b THEN NoData ELSE cache[c]
  BY Zenon DEF Recycle, ControlInv, TypeOK
<1>5. \A c \in Blocks : Contents(c)' = IF c = b THEN home[c] ELSE Contents(c)
  BY <1>1, <1>4, Zenon DEF Contents
<1>6. \A i \in DOMAIN lh : lh[i] \in Blocks
  BY ElementOfSeq, LenProperties, Zenon DEF ControlInv, TypeOK
<1>7. \A i \in DOMAIN lh : phase = "up" /\ lh[i] = b => Installed(i) /\ home[lh[i]] = logd[i]
  BY <1>3, Zenon DEF Pinned, HomeCopied
<1>8. HeaderAgrees'
  BY <1>1, Zenon DEF HeaderAgrees
<1>9. LogCopied'
  <2>1. SUFFICES ASSUME NEW q \in Procs, NEW i \in DOMAIN lh,
                        pc[q] \in {"write_head", "install_trans"} \/ (pc[q] = "write_log" /\ i <= tail)
                 PROVE  logd[i] = Contents(lh[i])'
    BY <1>1, Zenon DEF LogCopied
  <2>2. phase = "up" /\ logd[i] = Contents(lh[i])
    BY <2>1, Zenon DEF LogCopied, ControlInv, CountsAgree
  <2>3. QED
    BY <1>1, <1>5, <1>6, <1>7, <2>2, Zenon
<1>10. HomeCopied'
  BY <1>1, <1>2, <1>5, <1>6, Zenon DEF HomeCopied
<1>11. CacheClean'
  BY <1>1, <1>2, <1>5, Zenon DEF CacheClean
<1>12. Referenced'
  BY <1>1, <1>2, <1>3, <1>4, Zenon DEF Referenced, Count
<1>13. QED
  BY <1>8, <1>9, <1>10, <1>11, <1>12, Zenon

-----------------------------------------------------------------------------
(* commit()                                                                *)

\* write_log() keeps DataInv.
LEMMA WriteLogData ==
  ASSUME ControlInv, DataInv, NEW p \in Procs, WriteLog(p)
  PROVE  DataInv'
<1> USE DEF DataInv
<1> DEFINE b == lh[tail + 1]
<1>1. /\ tail \in Nat /\ tail < Len(lh) /\ Len(lh) \in Nat /\ Len(lh) < NLog /\ DOMAIN lh = 1 .. Len(lh)
      /\ b \in Blocks /\ Contents(b) \in Values
  BY TailEntry, LenProperties, Zenon DEF WriteLog, ControlInv, TailAgrees, SpaceReserved, TypeOK
<1>2. /\ UNCHANGED <<hdr, home, refcnt, lh, phase, buf>>
      /\ phase = "up" /\ pc[p] = "write_log"
      /\ \A q \in Procs : q # p => pc[q] \notin Commit /\ pc'[q] = pc[q]
      /\ \/ tail + 1 < Len(lh) /\ tail' = tail + 1 /\ pc'[p] = "write_log"
         \/ tail + 1 = Len(lh) /\ tail' = 0 /\ pc'[p] = "write_head"
  <2>1. UNCHANGED <<hdr, home, refcnt, lh, phase, buf>> /\ pc[p] = "write_log" /\ pc \in [Procs -> PCs]
    BY Zenon DEF WriteLog, log, ControlInv, TypeOK
  <2>2. pc[p] \in Commit
    BY <2>1, Zenon DEF Commit
  <2>3. phase = "up" /\ \A q \in Procs : q # p => pc[q] \notin Commit
    BY <2>2, DuringCommit, Zenon
  <2>4. \A q \in Procs : q # p => pc'[q] = pc[q]
    BY <2>1, Zenon DEF WriteLog
  <2>5. CASE tail + 1 < Len(lh)
    BY <2>1, <2>3, <2>4, <2>5, <1>1, Zenon DEF WriteLog
  <2>6. CASE ~(tail + 1 < Len(lh))
    <3>1. tail + 1 = Len(lh)
      <4>1. tail \in Nat /\ Len(lh) \in Nat /\ tail < Len(lh)
        BY <1>1, Zenon
      <4>2. QED
        BY <2>6, <4>1
    <3>2. QED
      BY <2>1, <2>3, <2>4, <2>6, <3>1, Zenon DEF WriteLog
  <2>7. QED
    BY <2>5, <2>6, Zenon
<1>3. \A i : ~Installed(i) /\ ~Installed(i)'
  BY <1>2, Zenon DEF Installed, Commit
<1>4. \A c \in Blocks : ~Held(c) /\ ~Held(c)' /\ ~Unrecorded(c) /\ ~Unrecorded(c)' /\ (Pinned(c)' <=> Pinned(c))
  <2>1. \A c \in Blocks : ~Held(c) /\ ~Unrecorded(c)
    BY <1>2, DuringCommit, Zenon DEF Commit
  <2>2. \A c \in Blocks : ~Held(c)' /\ ~Unrecorded(c)'
    BY <1>2, <2>1, Zenon DEF Held, Unrecorded
  <2>3. QED
    BY <1>2, <1>3, <2>1, <2>2, Zenon DEF Pinned
<1>5. \A c \in Blocks : cache'[c] = IF c = b THEN Contents(b) ELSE cache[c]
  BY Zenon DEF WriteLog, ControlInv, TypeOK
<1>6. \A c \in Blocks : Contents(c)' = Contents(c) /\ (cache'[c] = NoData => cache[c] = NoData)
  BY ZenonT(30), <1>1, <1>2, <1>5, LogAssumption DEF Contents
<1>7. \A i \in 1 .. NLog - 1 : logd'[i] = IF i = tail + 1 THEN Contents(b) ELSE logd[i]
  BY Zenon DEF WriteLog, ControlInv, TypeOK
<1>8. HeaderAgrees'
  BY <1>2, Zenon DEF HeaderAgrees, Commit
<1>9. LogCopied'
  <2>1. SUFFICES ASSUME NEW i \in DOMAIN lh, i <= tail + 1
                 PROVE  logd'[i] = Contents(lh[i])'
    <3>1. \A q \in Procs : pc'[q] \in {"write_log", "write_head", "install_trans"} => q = p
      BY <1>2, Zenon DEF Commit
    <3>2. \A i \in DOMAIN lh : pc'[p] = "write_head" \/ (pc'[p] = "write_log" /\ i <= tail') => i <= tail + 1
      <4>1. CASE tail + 1 = Len(lh)
        BY <1>1, <4>1
      <4>2. CASE tail' = tail + 1 /\ pc'[p] = "write_log"
        BY <4>2, Zenon
      <4>3. QED
        BY <1>2, <4>1, <4>2, Zenon
    <3>3. pc'[p] # "install_trans" /\ lh' = lh
      BY <1>2, Zenon
    <3>4. QED
      BY <2>1, <3>1, <3>2, <3>3, Zenon DEF LogCopied
  <2>2. lh[i] \in Blocks /\ i \in 1 .. NLog - 1
    BY <1>1, ElementOfSeq, LogAssumption DEF ControlInv, TypeOK
  <2>3. i # tail + 1 => logd[i] = Contents(lh[i])
    <3>1. i # tail + 1 => i <= tail
      BY <1>1, <2>1, <2>2
    <3>2. QED
      BY <1>2, <3>1, Zenon DEF LogCopied
  <2>4. QED
    BY <1>2, <1>6, <1>7, <2>2, <2>3, Zenon
<1>10. HomeCopied'
  BY <1>2, <1>3, Zenon DEF HomeCopied
<1>11. CacheClean'
  BY <1>2, <1>4, <1>6, Zenon DEF CacheClean
<1>12. Referenced'
  BY <1>2, <1>4, <1>6, Zenon DEF Referenced, Count
<1>13. QED
  BY <1>8, <1>9, <1>10, <1>11, <1>12, Zenon

\* write_head(), the commit point, keeps DataInv.
LEMMA WriteHeadData ==
  ASSUME ControlInv, DataInv, NEW p \in Procs, WriteHead(p)
  PROVE  DataInv'
<1> USE DEF DataInv
<1>1. /\ UNCHANGED <<logd, home, cache, refcnt, lh, phase, tail, buf>> /\ hdr' = lh
      /\ phase = "up" /\ pc[p] = "write_head" /\ pc'[p] = "install_trans" /\ tail = 0
      /\ \A q \in Procs : q # p => pc[q] \notin Commit /\ pc'[q] = pc[q]
  BY DuringCommit, Zenon DEF WriteHead, bio, log, ControlInv, TailAgrees, TypeOK, Commit
<1>2. \A i \in DOMAIN lh : ~Installed(i) /\ ~Installed(i)'
  <2>1. \A i \in DOMAIN lh : i \in Nat /\ i > 0
    BY DEF ControlInv, TypeOK
  <2>2. QED
    <3>1. TAKE i \in DOMAIN lh
    <3>2. ~(i <= 0)
      BY <2>1
    <3>3. \A q \in Procs : pc[q] # "clear" /\ pc[q] # "install_trans"
      BY <1>1, Zenon DEF Commit
    <3>4. \A q \in Procs : pc'[q] # "clear"
      BY <1>1, <3>3, Zenon
    <3>5. tail' = 0
      BY <1>1, Zenon
    <3>6. QED
      BY <3>2, <3>3, <3>4, <3>5, Zenon DEF Installed
<1>3. \A c : Contents(c)' = Contents(c) /\ (Held(c)' <=> Held(c)) /\ (Unrecorded(c)' <=> Unrecorded(c))
  BY <1>1, Zenon DEF Contents, Held, Unrecorded
<1>4. \A c : Pinned(c)' <=> Pinned(c)
  BY <1>1, <1>2, Zenon DEF Pinned
<1>5. HeaderAgrees'
  BY <1>1, Zenon DEF HeaderAgrees
<1>6. LogCopied'
  BY <1>1, <1>3, Zenon DEF LogCopied, Commit
<1>7. HomeCopied'
  BY <1>1, <1>2, Zenon DEF HomeCopied
<1>8. CacheClean' /\ Referenced'
  BY <1>1, <1>3, <1>4, Zenon DEF CacheClean, Referenced, Count
<1>9. QED
  BY <1>5, <1>6, <1>7, <1>8, Zenon

\* install_trans() keeps DataInv.
LEMMA InstallTransData ==
  ASSUME ControlInv, DataInv, NEW p \in Procs, InstallTrans(p)
  PROVE  DataInv'
<1> USE DEF DataInv
<1>0. PICK t \in Nat, b \in Blocks : t = tail + 1 /\ b = lh[t]
  BY TailEntry DEF InstallTrans, ControlInv, TailAgrees, TypeOK
<1>1. /\ tail \in Nat /\ tail < Len(lh) /\ Len(lh) \in Nat /\ DOMAIN lh = 1 .. Len(lh)
      /\ t = tail + 1 /\ t \in DOMAIN lh /\ lh[t] = b /\ logd[t] \in Values
  BY <1>0, TailEntry, LenProperties, Zenon DEF InstallTrans, ControlInv, TailAgrees, TypeOK
<1>2. /\ UNCHANGED <<hdr, logd, lh, phase, buf>>
      /\ phase = "up" /\ pc[p] = "install_trans"
      /\ \A q \in Procs : q # p => pc[q] \notin Commit /\ pc'[q] = pc[q]
      /\ \/ tail + 1 < Len(lh) /\ tail' = tail + 1 /\ pc'[p] = "install_trans"
         \/ tail + 1 = Len(lh) /\ tail' = 0 /\ pc'[p] = "clear"
  <2>1. UNCHANGED <<hdr, logd, lh, phase, buf>> /\ pc[p] = "install_trans" /\ pc \in [Procs -> PCs]
    BY Zenon DEF InstallTrans, log, ControlInv, TypeOK
  <2>2. pc[p] \in Commit
    BY <2>1, Zenon DEF Commit
  <2>3. phase = "up" /\ \A q \in Procs : q # p => pc[q] \notin Commit
    BY <2>2, DuringCommit, Zenon
  <2>4. \A q \in Procs : q # p => pc'[q] = pc[q]
    BY <2>1, Zenon DEF InstallTrans
  <2>5. CASE tail + 1 < Len(lh)
    BY <2>1, <2>3, <2>4, <2>5, <1>1, Zenon DEF InstallTrans, Install
  <2>6. CASE ~(tail + 1 < Len(lh))
    <3>1. tail + 1 = Len(lh)
      <4>1. tail \in Nat /\ Len(lh) \in Nat /\ tail < Len(lh)
        BY <1>1, Zenon
      <4>2. QED
        BY <2>6, <4>1
    <3>2. QED
      BY <2>1, <2>3, <2>4, <2>6, <3>1, Zenon DEF InstallTrans, Install
  <2>7. QED
    BY <2>5, <2>6, Zenon
<1>3. \A c \in Blocks : /\ cache'[c] = IF c = b THEN logd[t] ELSE cache[c]
                        /\ home'[c] = IF c = b THEN logd[t] ELSE home[c]
                        /\ refcnt'[c] = IF c = b THEN refcnt[c] - 1 ELSE refcnt[c]
  BY <1>1, Zenon DEF InstallTrans, Install, ControlInv, TypeOK
<1>4. \A i \in DOMAIN lh : lh[i] \in Blocks /\ (lh[i] = b => i = t)
  BY ZenonT(30), <1>1, ElementOfSeq DEF HeaderAgrees, Distinct, ControlInv, TypeOK
<1>5. \A i \in DOMAIN lh : (Installed(i) <=> i <= tail) /\ (Installed(i)' <=> i <= t)
  <2>1. \A q \in Procs : pc[q] \in {"install_trans", "clear"} \/ pc'[q] \in {"install_trans", "clear"} => q = p
    BY <1>2, Zenon DEF Commit
  <2>2. TAKE i \in DOMAIN lh
  <2>3. Installed(i) <=> i <= tail
    BY <1>2, <2>1, Zenon DEF Installed
  <2>4. Installed(i)' <=> i <= t
    <3>1. i \in Nat /\ i <= Len(lh)
      BY <1>1
    <3>2. CASE t < Len(lh) /\ tail' = t /\ pc'[p] = "install_trans"
      BY <1>1, <2>1, <3>2, Zenon DEF Installed
    <3>3. CASE t = Len(lh) /\ tail' = 0 /\ pc'[p] = "clear"
      BY <1>1, <3>1, <3>3, Zenon DEF Installed
    <3>4. QED
      BY ZenonT(30), <1>1, <1>2, <3>2, <3>3
  <2>5. QED
    BY <2>3, <2>4, Zenon
<1>6. logd[t] = Contents(b)
  BY ZenonT(30), <1>1, <1>2 DEF LogCopied
<1>7. \A c \in Blocks : Contents(c)' = Contents(c)
  BY <1>1, <1>3, <1>6, LogAssumption, Zenon DEF Contents
<1>8. \A c \in Blocks : ~Held(c) /\ ~Held(c)' /\ ~Unrecorded(c) /\ ~Unrecorded(c)'
  <2>1. \A c \in Blocks : ~Held(c) /\ ~Unrecorded(c)
    BY <1>2, DuringCommit, Zenon DEF Commit
  <2>2. QED
    BY <1>2, <2>1, Zenon DEF Held, Unrecorded
<1>9. Pinned(b) /\ \A c \in Blocks : Pinned(c)' <=> Pinned(c) /\ c # b
  <2>0. \A i \in DOMAIN lh : i # t => (Installed(i)' <=> Installed(i))
    BY <1>1, <1>5
  <2>1. ~Installed(t) /\ Installed(t)' /\ lh[t] = b
    BY <1>1, <1>5
  <2>2. Pinned(b) /\ ~Pinned(b)'
    BY ZenonT(30), <1>1, <1>2, <1>4, <2>1 DEF Pinned
  <2>3. ASSUME NEW c \in Blocks, c # b PROVE Pinned(c)' <=> Pinned(c)
    BY ZenonT(30), <1>1, <1>2, <1>4, <2>0, <2>1, <2>3 DEF Pinned
  <2>4. QED
    BY <2>2, <2>3, Zenon
<1>10. HeaderAgrees'
  BY <1>2, Zenon DEF HeaderAgrees
<1>11. LogCopied'
  BY <1>2, <1>4, <1>7, Zenon DEF LogCopied, Commit
<1>12. HomeCopied'
  <2>1. SUFFICES ASSUME NEW i \in DOMAIN lh, i <= t
                 PROVE  home'[lh[i]] = logd[i] /\ Contents(lh[i])' = logd[i]
    BY ZenonT(30), <1>2, <1>5 DEF HomeCopied
  <2>2. CASE i = t
    BY ZenonT(30), <1>1, <1>2, <1>3, <1>6, <1>7, <2>2
  <2>3. CASE i # t
    <3>1. home[lh[i]] = logd[i] /\ Contents(lh[i]) = logd[i]
      <4>1. i \in Nat /\ tail \in Nat /\ t = tail + 1 /\ i <= t
        BY <1>1, <2>1
      <4>2. i <= tail
        BY <4>1, <2>3
      <4>3. Installed(i)
        BY <4>2, <1>5, Zenon
      <4>4. QED
        BY <4>3, Zenon DEF HomeCopied
    <3>2. QED
      BY <1>2, <1>3, <1>4, <1>7, <2>3, <3>1, Zenon
  <2>4. QED
    BY <2>2, <2>3, Zenon
<1>13. CacheClean'
  <2>1. b \in LoggedBlocks(lh)
    BY <1>1, Zenon DEF LoggedBlocks
  <2>2. QED
    BY ZenonT(30), <1>2, <1>3, <1>7, <1>8, <2>1 DEF CacheClean
<1>14. Referenced'
  <2>1. SUFFICES ASSUME NEW c \in Blocks
                 PROVE  refcnt'[c] >= Count(Held(c)') + Count(Pinned(c)') /\ (Pinned(c)' => cache'[c] # NoData)
    BY <1>8, Zenon DEF Referenced
  <2>2. refcnt[c] \in Int /\ refcnt[c] >= Count(Pinned(c)) /\ (Pinned(c) => cache[c] # NoData)
    BY <1>2, <1>8 DEF Referenced, Count, ControlInv, TypeOK
  <2>3. ~Held(c)' /\ (Pinned(c)' => Pinned(c) /\ c # b)
    BY <1>8, <1>9, Zenon
  <2>4. CASE c = b
    <3>1. ~Pinned(c)' /\ Pinned(c)
      BY <2>3, <2>4, <1>9, Zenon
    <3>2. refcnt[c] \in Int /\ refcnt[c] >= 1
      BY <2>2, <3>1, Zenon DEF Count
    <3>3. refcnt'[c] = refcnt[c] - 1
      BY <1>3, <2>4, Zenon
    <3>4. refcnt'[c] >= 0
      BY <3>2, <3>3
    <3>5. QED
      BY <2>3, <3>1, <3>4 DEF Count
  <2>5. CASE c # b
    <3>1. Pinned(c)' <=> Pinned(c)
      BY <2>5, <1>9, Zenon
    <3>2. refcnt'[c] = refcnt[c] /\ cache'[c] = cache[c]
      BY <1>3, <2>5, Zenon
    <3>3. QED
      BY <2>2, <2>3, <3>1, <3>2 DEF Count
  <2>6. QED
    BY <2>4, <2>5, Zenon
<1>15. QED
  BY <1>10, <1>11, <1>12, <1>13, <1>14, Zenon

\* The erasing of the committed log keeps DataInv.
LEMMA ClearData ==
  ASSUME ControlInv, DataInv, NEW p \in Procs, Clear(p)
  PROVE  DataInv'
<1> USE DEF DataInv
<1>1. /\ UNCHANGED <<home, cache, refcnt, phase, buf>> /\ lh' = <<>> /\ hdr' = <<>>
      /\ phase = "up" /\ pc[p] = "clear" /\ pc'[p] = "end_commit"
      /\ \A q \in Procs : q # p => pc[q] \notin Commit /\ pc'[q] = pc[q]
  BY DuringCommit, Zenon DEF Clear, bio, ControlInv, TypeOK, Commit
<1>2. \A c : Contents(c)' = Contents(c) /\ (Held(c)' <=> Held(c)) /\ ~Pinned(c)'
  <2>1. \A c : Contents(c)' = Contents(c)
    BY <1>1, Zenon DEF Contents
  <2>2. \A c : Held(c)' <=> Held(c)
    BY <1>1, Zenon DEF Held
  <2>3. DOMAIN lh' = {}
    BY <1>1
  <2>4. \A c : ~Pinned(c)'
    BY <2>3, Zenon DEF Pinned
  <2>5. QED
    BY <2>1, <2>2, <2>4, Zenon
<1>3. \A c \in Blocks : ~Held(c) /\ ~Unrecorded(c)
  BY <1>1, DuringCommit, Zenon DEF Commit
<1>4. \A c \in Blocks : Contents(c) = home[c]
  <2>1. SUFFICES ASSUME NEW c \in Blocks, c \in LoggedBlocks(lh)
                 PROVE  Contents(c) = home[c]
    BY <1>3, Zenon DEF CacheClean
  <2>2. PICK i \in DOMAIN lh : lh[i] = c
    BY <2>1, Zenon DEF LoggedBlocks
  <2>3. Installed(i)
    BY <1>1, Zenon DEF Installed
  <2>4. QED
    BY <2>2, <2>3, Zenon DEF HomeCopied
<1>5. HeaderAgrees'
  <2>1. Distinct(lh)' /\ Distinct(hdr)'
    BY <1>1 DEF Distinct
  <2>2. hdr' = <<>> /\ lh' = <<>> /\ phase' = "up"
    BY <1>1, Zenon
  <2>3. QED
    BY <2>1, <2>2, Zenon DEF HeaderAgrees
<1>6. LogCopied' /\ HomeCopied'
  <2>1. DOMAIN lh' = {}
    BY <1>1
  <2>2. QED
    BY <2>1, Zenon DEF LogCopied, HomeCopied
<1>7. CacheClean'
  BY <1>1, <1>2, <1>4, Zenon DEF CacheClean
<1>8. Referenced'
  <2>1. \A c \in Blocks : refcnt[c] \in Int /\ refcnt[c] >= 0
    <3>1. TAKE c \in Blocks
    <3>2. refcnt[c] \in Int /\ refcnt[c] >= Count(Held(c)) + Count(Pinned(c))
      BY <1>1, Zenon DEF Referenced, ControlInv, TypeOK
    <3>3. QED
      BY <3>2 DEF Count
  <2>2. \A c \in Blocks : refcnt'[c] >= Count(Held(c)') + Count(Pinned(c)')
    <3>1. TAKE c \in Blocks
    <3>2. ~Held(c)' /\ ~Pinned(c)' /\ refcnt'[c] = refcnt[c]
      BY <1>1, <1>2, <1>3, Zenon
    <3>3. refcnt'[c] >= 0
      BY <3>2, <2>1, Zenon
    <3>4. QED
      BY <3>2, <3>3 DEF Count
  <2>3. QED
    BY <1>2, <1>3, <2>2, Zenon DEF Referenced
<1>9. QED
  BY <1>5, <1>6, <1>7, <1>8, Zenon

-----------------------------------------------------------------------------
(* Crash and recovery.                                                     *)

\* A crash keeps DataInv.
LEMMA CrashData ==
  ASSUME ControlInv, DataInv, Crash
  PROVE  DataInv'
<1> USE DEF DataInv
<1>1. lh' = <<>> /\ phase' = "read_head" /\ hdr' = hdr
  BY Zenon DEF Crash, disk
<1>2. \A c \in Blocks : Contents(c)' = home'[c]
  BY Zenon DEF Crash, Contents
<1>3. HeaderAgrees'
  BY <1>1 DEF HeaderAgrees, Distinct
<1>4. LogCopied' /\ HomeCopied' /\ CacheClean' /\ Referenced'
  <2>1. DOMAIN lh' = {}
    BY <1>1
  <2>2. LogCopied' /\ HomeCopied'
    BY <2>1, Zenon DEF LogCopied, HomeCopied
  <2>3. CacheClean' /\ Referenced'
    BY <1>1, <1>2, Zenon DEF CacheClean, Referenced
  <2>4. QED
    BY <2>2, <2>3, Zenon
<1>5. QED
  BY <1>3, <1>4, Zenon

\* read_head() keeps DataInv.
LEMMA ReadHeadData ==
  ASSUME ControlInv, DataInv, ReadHead
  PROVE  DataInv'
<1> USE DEF DataInv
<1>1. /\ phase = "read_head" /\ tail = 0 /\ lh' = hdr /\ UNCHANGED <<hdr, logd, home, cache, refcnt, tail, pc, buf>>
      /\ phase' = IF Len(hdr) > 0 THEN "install" ELSE "erase"
  BY Zenon DEF ReadHead, disk, bio, local, ControlInv, TailAgrees
<1>2. /\ \A q \in Procs : pc[q] = "idle"
      /\ \A i : ~Installed(i)'
  BY <1>1, DuringBoot, Zenon DEF Installed
<1>3. HeaderAgrees'
  BY <1>1, Zenon DEF HeaderAgrees
<1>4. LogCopied' /\ Referenced'
  BY <1>1, <1>2, Zenon DEF LogCopied, Referenced
<1>5. HomeCopied'
  <2>1. DOMAIN hdr = 1 .. Len(hdr) /\ Len(hdr) \in Nat
    BY LenProperties, Zenon DEF ControlInv, TypeOK
  <2>2. \A i \in DOMAIN lh' : phase' # "erase" /\ ~(i <= tail')
    BY <1>1, <2>1
  <2>3. QED
    BY <1>2, <2>2, Zenon DEF HomeCopied
<1>6. CacheClean'
  BY <1>1, Zenon DEF CacheClean, Contents
<1>7. QED
  BY <1>3, <1>4, <1>5, <1>6, Zenon

\* install_trans() during recovery keeps DataInv.
LEMMA RecoverInstallData ==
  ASSUME ControlInv, DataInv, RecoverInstall
  PROVE  DataInv'
<1> USE DEF DataInv
<1>0. PICK t \in Nat, b \in Blocks : t = tail + 1 /\ b = lh[t]
  <2>1. phase = "install" /\ TypeOK /\ TailAgrees
    BY Zenon DEF RecoverInstall, ControlInv
  <2>2. tail \in Nat /\ lh \in Seq(Blocks) /\ tail < Len(lh)
    BY <2>1, Zenon DEF TypeOK, TailAgrees
  <2>3. tail + 1 \in Nat /\ lh[tail + 1] \in Blocks
    BY <2>2, TailEntry
  <2>4. QED
    BY <2>3, Zenon
<1>1. /\ tail \in Nat /\ tail < Len(lh) /\ Len(lh) \in Nat /\ DOMAIN lh = 1 .. Len(lh)
      /\ t = tail + 1 /\ t \in DOMAIN lh /\ lh[t] = b /\ logd[t] \in Values
  BY <1>0, TailEntry, LenProperties, Zenon DEF RecoverInstall, ControlInv, TailAgrees, TypeOK
<1>2. /\ UNCHANGED <<hdr, logd, lh, pc, buf>> /\ phase = "install"
      /\ tail' = (IF tail + 1 < Len(lh) THEN tail + 1 ELSE 0)
      /\ phase' = (IF tail + 1 < Len(lh) THEN "install" ELSE "erase")
  BY Zenon DEF RecoverInstall, Install, log, local
<1>3. \A c \in Blocks : /\ cache'[c] = IF c = b THEN logd[t] ELSE cache[c]
                        /\ home'[c] = IF c = b THEN logd[t] ELSE home[c]
  BY <1>1, Zenon DEF RecoverInstall, Install, ControlInv, TypeOK
<1>4. \A i \in DOMAIN lh : lh[i] \in Blocks /\ (lh[i] = b => i = t)
  BY <1>1, ElementOfSeq, Zenon DEF HeaderAgrees, Distinct, ControlInv, TypeOK
<1>5. \A q \in Procs : pc[q] = "idle"
  BY ZenonT(30), <1>2, DuringBoot
<1>6. \A c \in Blocks : Contents(c)' = IF c = b THEN logd[t] ELSE Contents(c)
  BY <1>1, <1>3, LogAssumption, Zenon DEF Contents
<1>7. HeaderAgrees'
  BY <1>2, Zenon DEF HeaderAgrees
<1>8. LogCopied' /\ Referenced'
  BY <1>2, <1>5, Zenon DEF LogCopied, Referenced
<1>9. HomeCopied'
  <2>1. \A i : ~Installed(i)'
    BY <1>2, <1>5, Zenon DEF Installed
  <2>2. \A i \in DOMAIN lh : phase' = "erase" \/ i <= tail' => i <= tail + 1
    <3>1. CASE tail + 1 < Len(lh)
      BY <1>2, <3>1, Zenon
    <3>2. CASE ~(tail + 1 < Len(lh))
      BY <1>1, <3>2
    <3>3. QED
      BY <3>1, <3>2, Zenon
  <2>3. SUFFICES ASSUME NEW i \in DOMAIN lh, i <= tail + 1
                 PROVE  home'[lh[i]] = logd[i] /\ Contents(lh[i])' = logd[i]
    BY <1>2, <2>1, <2>2, Zenon DEF HomeCopied
  <2>4. CASE i = t
    BY <1>1, <1>2, <1>3, <1>6, <2>4, Zenon
  <2>5. CASE i # t
    <3>1. i <= tail
      BY <1>1, <2>3, <2>5
    <3>2. home[lh[i]] = logd[i] /\ Contents(lh[i]) = logd[i]
      BY <1>2, <3>1, Zenon DEF HomeCopied
    <3>3. QED
      BY <1>2, <1>3, <1>4, <1>6, <2>5, <3>2, Zenon
  <2>6. QED
    BY <2>4, <2>5, Zenon
<1>10. CacheClean'
  BY <1>2, <1>3, <1>6, Zenon DEF CacheClean
<1>11. QED
  BY <1>7, <1>8, <1>9, <1>10, Zenon

\* The erasing of the log after recovery keeps DataInv.
LEMMA RecoverEraseData ==
  ASSUME ControlInv, DataInv, RecoverErase
  PROVE  DataInv'
<1> USE DEF DataInv
<1>1. /\ phase = "erase" /\ phase' = "recovered" /\ lh' = <<>> /\ hdr' = <<>>
      /\ UNCHANGED <<home, cache, refcnt, pc, buf>>
  BY Zenon DEF RecoverErase, bio, local
<1>2. HeaderAgrees'
  BY <1>1 DEF HeaderAgrees, Distinct
<1>3. LogCopied' /\ HomeCopied'
  <2>1. DOMAIN lh' = {}
    BY <1>1
  <2>2. QED
    BY <2>1, Zenon DEF LogCopied, HomeCopied
<1>4. CacheClean' /\ Referenced'
  BY <1>1, Zenon DEF CacheClean, Contents, Referenced
<1>5. QED
  BY <1>2, <1>3, <1>4, Zenon

\* The start of the file system after recovery keeps DataInv, when recovery has
\* left no wrapped reference count behind.
LEMMA StartData ==
  ASSUME ControlInv, DataInv, Start, SoundRefcnts'
  PROVE  DataInv'
<1> USE DEF DataInv
<1>1. /\ phase = "recovered" /\ phase' = "up"
      /\ UNCHANGED <<hdr, logd, lh, home, cache, refcnt, tail, pc, buf>>
  BY Zenon DEF Start, disk, bio, log, local
<1>2. /\ \A q \in Procs : pc[q] = "idle" /\ buf[q] = NoBlock
      /\ lh = <<>> /\ hdr = <<>>
  <2>1. \A q \in Procs : pc[q] = "idle" /\ buf[q] = NoBlock
    BY <1>1, DuringBoot, Zenon
  <2>2. outstanding = 0 /\ committing = 0
    <3>1. Active = {} /\ \A q \in Procs : pc[q] \notin Commit
      BY <2>1, Zenon DEF Active, InOp, Commit
    <3>2. QED
      BY <3>1, FS_EmptySet, Zenon DEF ControlInv, CountsAgree
  <2>3. QED
    BY <1>1, <2>1, <2>2, Zenon DEF ControlInv, CountsAgree, HeaderAgrees
<1>3. \A c \in Blocks : ~Held(c)' /\ ~Pinned(c)'
  BY <1>1, <1>2, LogAssumption DEF Held, Pinned
<1>4. HeaderAgrees'
  BY <1>1, <1>2, Zenon DEF HeaderAgrees, Distinct
<1>5. LogCopied' /\ HomeCopied'
  <2>1. DOMAIN lh' = {}
    BY <1>1, <1>2
  <2>2. QED
    BY <2>1, Zenon DEF LogCopied, HomeCopied
<1>6. CacheClean'
  BY <1>1, Zenon DEF CacheClean, Contents
<1>7. Referenced'
  <2>1. \A c \in Blocks : refcnt'[c] >= 0 /\ refcnt' \in [Blocks -> Int]
    BY <1>1, Zenon DEF SoundRefcnts, ControlInv, TypeOK
  <2>2. \A c \in Blocks : Count(Held(c))' + Count(Pinned(c))' = 0
    BY <1>3 DEF Count
  <2>3. QED
    BY <1>3, <2>1, <2>2, Zenon DEF Referenced
<1>8. QED
  BY <1>4, <1>5, <1>6, <1>7, Zenon

-----------------------------------------------------------------------------
\* The initial states satisfy DataInv.
LEMMA DataInit == Init => DataInv
<1> SUFFICES ASSUME Init PROVE DataInv
  BY Zenon
<1>1. DOMAIN lh = {} /\ DOMAIN hdr = {} /\ phase = "read_head"
  BY DEF Init
<1>2. HeaderAgrees
  BY <1>1, Zenon DEF HeaderAgrees, Distinct
<1>3. LogCopied /\ HomeCopied /\ Referenced
  BY <1>1, Zenon DEF LogCopied, HomeCopied, Referenced
<1>4. CacheClean
  BY Zenon DEF Init, CacheClean, Contents
<1>5. QED
  BY <1>2, <1>3, <1>4, Zenon DEF DataInv

\* Every step keeps DataInv.
LEMMA DataStep ==
  ASSUME ControlInv, DataInv, [Next /\ SoundRefcnts']_vars
  PROVE  DataInv'
<1>1. CASE UNCHANGED vars
  <2>1. UNCHANGED <<hdr, logd, home, cache, refcnt, lh, phase, tail, pc, buf>>
    BY <1>1, Zenon DEF vars, disk, bio, log, local
  <2>2. \A c : /\ Contents(c)' = Contents(c) /\ (Installed(c)' <=> Installed(c)) /\ (Pinned(c)' <=> Pinned(c))
              /\ (Held(c)' <=> Held(c)) /\ (Unrecorded(c)' <=> Unrecorded(c))
    BY <2>1, Zenon DEF Contents, Installed, Pinned, Held, Unrecorded
  <2>3. HeaderAgrees' /\ LogCopied'
    BY <2>1, <2>2, Zenon DEF DataInv, HeaderAgrees, LogCopied
  <2>4. HomeCopied' /\ CacheClean'
    BY <2>1, <2>2, Zenon DEF DataInv, HomeCopied, CacheClean
  <2>5. Referenced'
    BY <2>1, <2>2, Zenon DEF DataInv, Referenced, Count
  <2>6. QED
    BY <2>3, <2>4, <2>5, Zenon DEF DataInv
<1>2. CASE \E b \in Blocks : Recycle(b)
  BY <1>2, RecycleData, Zenon
<1>3. CASE \E p \in Procs, b \in Blocks : Bread(p, b)
  BY <1>3, BreadData, Zenon
<1>4. CASE \E p \in Procs, v \in Values : LogWrite(p, v)
  BY <1>4, LogWriteData, Zenon
<1>5. CASE \E p \in Procs : BeginOp(p) \/ LogRecord(p) \/ Brelse(p) \/ EndOp(p)
  BY <1>5, BeginOpData, LogRecordData, BrelseData, EndOpData, Zenon
<1>6. CASE \E p \in Procs : CommitStep(p)
  BY <1>6, WriteLogData, WriteHeadData, InstallTransData, ClearData, EndCommitData, Zenon DEF CommitStep
<1>7. CASE Recover /\ SoundRefcnts'
  BY <1>7, ReadHeadData, RecoverInstallData, RecoverEraseData, StartData, Zenon DEF Recover
<1>8. CASE Crash
  BY <1>8, CrashData, Zenon
<1>9. QED
  BY <1>1, <1>2, <1>3, <1>4, <1>5, <1>6, <1>7, <1>8, Zenon DEF Next

\* While the reference counts are sound, the invariant that says which copy of
\* a block is the good one holds: log.c's order of disk writes, and the pins of
\* log_write(), keep a good copy of every block at every moment.
THEOREM DataCorrect ==
  ASSUME LogFits
  PROVE  SoundSpec => [](ControlInv /\ DataInv)
<1>1. Init => ControlInv /\ DataInv
  BY ControlInit, DataInit, Zenon
<1>2. ControlInv /\ DataInv /\ [Next /\ SoundRefcnts']_vars => (ControlInv /\ DataInv)'
  BY ControlStep, DataStep, Zenon
<1>3. QED
  BY <1>1, <1>2, PTL DEF SoundSpec

\* While the reference counts are sound, a block of the current transaction
\* stays in the cache until it is installed (log_write()'s pin).
THEOREM LoggedBlocksPinnedTheorem ==
  ASSUME LogFits
  PROVE  SoundSpec => []LoggedBlocksPinned
<1>1. ControlInv /\ DataInv => LoggedBlocksPinned
  <2>1. SUFFICES ASSUME ControlInv, DataInv, phase = "up", NEW b \in Blocks, Pinned(b)
                 PROVE  cache[b] # NoData /\ refcnt[b] > 0
    BY Zenon DEF LoggedBlocksPinned
  <2>2. refcnt[b] \in Int /\ refcnt[b] >= Count(Held(b)) + Count(Pinned(b)) /\ cache[b] # NoData
    BY ZenonT(30), <2>1 DEF DataInv, Referenced, ControlInv, TypeOK
  <2>3. QED
    BY <2>1, <2>2 DEF Count
<1>2. QED
  BY <1>1, DataCorrect, PTL

-----------------------------------------------------------------------------
(* The refinement: what each step does to the contents a crash would leave *)
(* and to those the file system reads.                                     *)

\* A logged block has its place in the log.
LEMMA SlotOf ==
  ASSUME NEW s, Distinct(s), NEW i \in DOMAIN s
  PROVE  Slot(s, s[i]) = i
<1>1. \E j \in DOMAIN s : s[j] = s[i]
  BY Zenon
<1>2. Slot(s, s[i]) \in DOMAIN s /\ s[Slot(s, s[i])] = s[i]
  BY <1>1, Zenon DEF Slot
<1>3. QED
  BY <1>2, Zenon DEF Distinct

\* What recovery makes of a block of the log.
LEMMA RecoveryOfLogged ==
  ASSUME Distinct(hdr), NEW i \in DOMAIN hdr, hdr[i] \in Blocks
  PROVE  AfterRecovery[hdr[i]] = logd[i]
BY SlotOf, Zenon DEF AfterRecovery, LoggedBlocks

\* Recovery leaves other blocks alone.
LEMMA RecoveryOfOther ==
  ASSUME NEW b \in Blocks, b \notin LoggedBlocks(hdr)
  PROVE  AfterRecovery[b] = home[b]
BY Zenon DEF AfterRecovery

\* What recovery restores depends only on the disk.
LEMMA RecoverySame ==
  ASSUME UNCHANGED <<hdr, logd, home>>
  PROVE  AfterRecovery' = AfterRecovery
BY DEF AfterRecovery, LoggedBlocks, Slot

\* What operations see depends only on the contents of each block.
LEMMA VisibleSame ==
  ASSUME phase = "up", phase' = "up", \A b \in Blocks : Contents(b)' = Contents(b)
  PROVE  Visible' = Visible
BY Zenon DEF Visible

\* The processes in operations, when none begins or ends one.
LEMMA ActiveSame ==
  ASSUME \A q \in Procs : pc'[q] \in InOp <=> pc[q] \in InOp
  PROVE  Active' = Active
BY Zenon DEF Active

\* A step that leaves the abstract variables alone.
Stutter == /\ AfterRecovery' = AfterRecovery /\ Visible' = Visible /\ Active' = Active
           /\ phase' = "up" <=> phase = "up"

\* A step that leaves what AtomicDisk sees alone is a step of AtomicDisk, or none.
LEMMA StutterRefines ==
  ASSUME Stutter PROVE [Abstract!Next]_(Abstract!absVars)
BY Zenon DEF Stutter, Abstract!absVars

\* The initial states are initial states of AtomicDisk.
LEMMA InitRefines == Init => Abstract!Init
<1> SUFFICES ASSUME Init PROVE Abstract!Init
  BY Zenon
<1>1. hdr = <<>> /\ home \in [Blocks -> Values] /\ phase # "up" /\ \A p \in Procs : pc[p] = "idle"
  BY Zenon DEF Init
<1>2. AfterRecovery = [b \in Blocks |-> home[b]]
  BY <1>1 DEF AfterRecovery, LoggedBlocks
<1>3. AfterRecovery \in [Blocks -> Values]
  BY <1>1, <1>2, Zenon
<1>4. Visible = AfterRecovery /\ Active = {}
  BY <1>1, Zenon DEF Visible, Active, InOp
<1>5. QED
  BY <1>1, <1>3, <1>4, Zenon DEF Abstract!Init

\* bget(), when it recycles a buffer, is a step of AtomicDisk, or none.
LEMMA RecycleRefines ==
  ASSUME ControlInv, DataInv, NEW b \in Blocks, Recycle(b)
  PROVE  Stutter
<1>1. UNCHANGED <<hdr, logd, home, phase, pc>>
  BY Zenon DEF Recycle, disk, local
<1>2. AfterRecovery' = AfterRecovery /\ Active' = Active
  BY <1>1, RecoverySame, ActiveSame, Zenon
<1>3. \A c \in Blocks : Contents(c)' = IF c = b THEN home[c] ELSE Contents(c)
  BY <1>1, Zenon DEF Recycle, Contents, ControlInv, TypeOK
<1>4. phase = "up" => Contents(b) = home[b]
  <2>1. SUFFICES ASSUME phase = "up" PROVE Contents(b) = home[b]
    BY Zenon
  <2>2. ~Held(b) /\ ~Pinned(b)
    BY <2>1 DEF Recycle, DataInv, Referenced, Count
  <2>3. CASE b \in LoggedBlocks(lh)
    <3>1. PICK i \in DOMAIN lh : lh[i] = b
      BY <2>3, Zenon DEF LoggedBlocks
    <3>2. QED
      BY <2>2, <3>1, Zenon DEF Pinned, DataInv, HomeCopied
  <2>4. CASE b \notin LoggedBlocks(lh)
    BY <2>2, <2>4, Zenon DEF Held, Unrecorded, DataInv, CacheClean
  <2>5. QED
    BY <2>3, <2>4, Zenon
<1>5. CASE phase = "up"
  BY <1>1, <1>2, <1>3, <1>4, <1>5, VisibleSame, Zenon DEF Stutter
<1>6. CASE phase # "up"
  BY <1>1, <1>2, <1>6, Zenon DEF Stutter, Visible
<1>7. QED
  BY <1>5, <1>6, Zenon

\* The steps of an operation that move only a process, a pin or a lock.
LEMMA QuietRefines ==
  ASSUME phase = "up", UNCHANGED <<hdr, logd, home, phase>>,
         \A c \in Blocks : Contents(c)' = Contents(c),
         \A q \in Procs : pc'[q] \in InOp <=> pc[q] \in InOp
  PROVE  Stutter
BY RecoverySame, VisibleSame, ActiveSame, Zenon DEF Stutter

\* bread() is a step of AtomicDisk, or none.
LEMMA BreadRefines ==
  ASSUME ControlInv, DataInv, NEW p \in Procs, NEW b \in Blocks, Bread(p, b)
  PROVE  Stutter
<1>1. phase = "up" /\ UNCHANGED <<hdr, logd, home, phase>>
  BY Zenon DEF Bread, disk
<1>2. \A q \in Procs : pc'[q] \in InOp <=> pc[q] \in InOp
  BY Zenon DEF Bread, ControlInv, TypeOK, InOp
<1>3. \A c \in Blocks : Contents(c)' = Contents(c)
  BY <1>1, LogAssumption, Zenon DEF Bread, Contents, ControlInv, TypeOK
<1>4. QED
  BY <1>1, <1>2, <1>3, QuietRefines, Zenon

\* brelse() is a step of AtomicDisk, or none.
LEMMA BrelseRefines ==
  ASSUME ControlInv, DataInv, NEW p \in Procs, Brelse(p)
  PROVE  Stutter
<1>1. UNCHANGED <<hdr, logd, home, phase, cache>>
  BY Zenon DEF Brelse, disk
<1>2. pc[p] = "bread" /\ \A q \in Procs : pc'[q] \in InOp <=> pc[q] \in InOp
  BY Zenon DEF Brelse, ControlInv, TypeOK, InOp
<1>3. phase = "up"
  BY <1>2, Zenon DEF ControlInv, CountsAgree
<1>4. QED
  BY <1>1, <1>2, <1>3, QuietRefines, Zenon DEF Contents

\* log_write(), under log.lock, is a step of AtomicDisk, or none.
LEMMA LogRecordRefines ==
  ASSUME ControlInv, DataInv, NEW p \in Procs, LogRecord(p)
  PROVE  Stutter
<1>1. UNCHANGED <<hdr, logd, home, phase, cache>>
  BY Zenon DEF LogRecord, disk
<1>2. pc[p] = "log_write" /\ \A q \in Procs : pc'[q] \in InOp <=> pc[q] \in InOp
  BY Zenon DEF LogRecord, ControlInv, TypeOK, InOp
<1>3. phase = "up"
  BY <1>2, Zenon DEF ControlInv, CountsAgree
<1>4. QED
  BY <1>1, <1>2, <1>3, QuietRefines, Zenon DEF Contents

\* log_write(), before it takes log.lock, is a step of AtomicDisk, or none.
LEMMA LogWriteRefines ==
  ASSUME ControlInv, DataInv, NEW p \in Procs, NEW v \in Values, LogWrite(p, v)
  PROVE  Abstract!Write(p, buf[p], v) /\ buf[p] \in Blocks
<1>1. UNCHANGED <<hdr, logd, home, phase>> /\ pc[p] = "bread"
  BY ZenonT(30) DEF LogWrite, disk
<1>2. phase = "up" /\ p \in Active /\ buf[p] \in Blocks
  BY <1>1, Zenon DEF ControlInv, TypeOK, CountsAgree, BuffersAgree, Active, InOp
<1>3. AfterRecovery' = AfterRecovery
  BY <1>1, RecoverySame, Zenon
<1>4. Active' = Active
  <2>1. \A q \in Procs : pc'[q] \in InOp <=> pc[q] \in InOp
    BY Zenon DEF LogWrite, ControlInv, TypeOK, InOp
  <2>2. QED
    BY <2>1, ActiveSame, Zenon
<1>5. \A c \in Blocks : Contents(c)' = IF c = buf[p] THEN v ELSE Contents(c)
  BY <1>1, <1>2, LogAssumption, Zenon DEF LogWrite, Contents, ControlInv, TypeOK
<1>6. Visible' = [Visible EXCEPT ![buf[p]] = v]
  BY ZenonT(30), <1>1, <1>2, <1>5 DEF Visible
<1>7. QED
  BY <1>1, <1>2, <1>3, <1>4, <1>6, Zenon DEF Abstract!Write

\* begin_op() is a step of AtomicDisk, or none.
LEMMA BeginOpRefines ==
  ASSUME ControlInv, DataInv, NEW p \in Procs, BeginOp(p)
  PROVE  Stutter \/ Abstract!Begin(p)
<1>1. UNCHANGED <<hdr, logd, home, phase, cache>> /\ phase = "up" /\ pc[p] \in {"idle", "begin"}
  BY Zenon DEF BeginOp, disk, bio
<1>2. AfterRecovery' = AfterRecovery /\ Visible' = Visible
  BY <1>1, RecoverySame, VisibleSame, Zenon DEF Contents
<1>3. CASE pc' = [pc EXCEPT ![p] = "asleep"]
  <2>1. \A q \in Procs : pc'[q] \in InOp <=> pc[q] \in InOp
    BY <1>1, <1>3, Zenon DEF ControlInv, TypeOK, InOp
  <2>2. QED
    BY <1>1, <2>1, QuietRefines, Zenon DEF Contents
<1>4. CASE pc' = [pc EXCEPT ![p] = "op"]
  <2>1. p \notin Active /\ Active' = Active \cup {p}
    BY <1>1, <1>4, Zenon DEF Active, ControlInv, TypeOK, InOp
  <2>2. QED
    BY <1>1, <1>2, <2>1, Zenon DEF Abstract!Begin
<1>5. QED
  BY <1>3, <1>4, Zenon DEF BeginOp

\* end_op() is a step of AtomicDisk, or none.
LEMMA EndOpRefines ==
  ASSUME ControlInv, DataInv, NEW p \in Procs, EndOp(p)
  PROVE  Abstract!End(p)
<1>1. UNCHANGED <<hdr, logd, home, phase, cache>> /\ pc[p] = "op"
  BY Zenon DEF EndOp, disk, bio
<1>2. phase = "up" /\ p \in Active /\ committing # 1
  <2>1. p \in Active
    BY <1>1, Zenon DEF Active, InOp
  <2>2. phase = "up"
    BY <1>1, Zenon DEF ControlInv, CountsAgree
  <2>3. \A q \in Procs : pc[q] \notin Commit
    BY <1>1, Zenon DEF ControlInv, QuietCommit, InOp
  <2>4. QED
    BY <2>1, <2>2, <2>3 DEF ControlInv, CountsAgree
<1>3. AfterRecovery' = AfterRecovery /\ Visible' = Visible
  BY <1>1, <1>2, RecoverySame, VisibleSame, Zenon DEF Contents
<1>4. Active' = Active \ {p}
  <2>1. /\ pc'[p] \notin InOp
        /\ \A q \in Procs : q # p => (pc'[q] \in InOp <=> pc[q] \in InOp)
    BY <1>2, Zenon DEF EndOp, Awake, ControlInv, TypeOK, InOp
  <2>2. QED
    BY <2>1, Zenon DEF Active
<1>5. QED
  BY <1>1, <1>2, <1>3, <1>4, Zenon DEF Abstract!End

\* write_log() is a step of AtomicDisk, or none.
LEMMA WriteLogRefines ==
  ASSUME ControlInv, DataInv, NEW p \in Procs, WriteLog(p)
  PROVE  Stutter
<1>1. UNCHANGED <<hdr, home, phase>> /\ pc[p] = "write_log"
  BY Zenon DEF WriteLog
<1>2. phase = "up" /\ \A q \in Procs : q # p => pc[q] \notin Commit
  BY <1>1, DuringCommit, Zenon DEF Commit
<1>3. hdr = <<>>
  BY <1>1, <1>2, Zenon DEF DataInv, HeaderAgrees, Commit
<1>4. AfterRecovery' = AfterRecovery
  BY <1>1, <1>3 DEF AfterRecovery, LoggedBlocks
<1>5. Active' = Active
  <2>1. \A q \in Procs : pc'[q] \in InOp <=> pc[q] \in InOp
    BY Zenon DEF WriteLog, ControlInv, TypeOK, InOp
  <2>2. QED
    BY <2>1, ActiveSame, Zenon
<1>6. Visible' = Visible
  <2>1. lh[tail + 1] \in Blocks /\ Contents(lh[tail + 1]) \in Values
    BY <1>1, TailEntry, Zenon DEF ControlInv, TailAgrees, TypeOK, Contents
  <2>2. \A c \in Blocks : cache'[c] = IF c = lh[tail + 1] THEN Contents(c) ELSE cache[c]
    BY Zenon DEF WriteLog, ControlInv, TypeOK
  <2>3. \A c \in Blocks : Contents(c)' = Contents(c)
    BY ZenonT(30), <1>1, <2>1, <2>2, LogAssumption DEF Contents
  <2>4. QED
    BY <1>1, <1>2, <2>3, VisibleSame, Zenon
<1>7. QED
  BY <1>1, <1>4, <1>5, <1>6, Zenon DEF Stutter

\* write_head() is the commit point.
LEMMA WriteHeadRefines ==
  ASSUME ControlInv, DataInv, NEW p \in Procs, WriteHead(p)
  PROVE  Abstract!Commit
<1>1. UNCHANGED <<logd, home, cache, phase>> /\ pc[p] = "write_head" /\ hdr' = lh
  BY Zenon DEF WriteHead, bio
<1>2. /\ phase = "up" /\ \A q \in Procs : pc[q] \notin InOp
      /\ \A c \in Blocks : ~Unrecorded(c)
  BY ZenonT(30), <1>1, DuringCommit DEF Commit
<1>3. Active = {} /\ Active' = Active
  BY <1>1, <1>2, Zenon DEF WriteHead, Active, ControlInv, TypeOK, InOp
<1>4. Visible' = Visible
  BY <1>1, <1>2, VisibleSame, Zenon DEF Contents
<1>5. AfterRecovery' = Visible
  <2>1. \A b \in Blocks : AfterRecovery'[b] = Contents(b)
    <3>1. TAKE b \in Blocks
    <3>2. CASE b \in LoggedBlocks(lh)
      <4>1. PICK i \in DOMAIN lh : lh[i] = b
        BY <3>2, Zenon DEF LoggedBlocks
      <4>2. Slot(hdr', b) = i /\ b \in LoggedBlocks(hdr')
        BY <1>1, <3>2, <4>1, SlotOf, Zenon DEF DataInv, HeaderAgrees
      <4>3. logd[i] = Contents(b)
        BY <1>1, <4>1, Zenon DEF DataInv, LogCopied
      <4>4. QED
        BY <1>1, <4>2, <4>3, Zenon DEF AfterRecovery
    <3>3. CASE b \notin LoggedBlocks(lh)
      BY <1>1, <1>2, <3>3, Zenon DEF AfterRecovery, DataInv, CacheClean
    <3>4. QED
      BY <3>2, <3>3, Zenon
  <2>2. QED
    BY <1>2, <2>1, Zenon DEF AfterRecovery, Visible
<1>6. QED
  BY <1>1, <1>2, <1>3, <1>4, <1>5, Zenon DEF Abstract!Commit

\* Writing to the home of a block that the header names changes nothing a crash would show.
LEMMA RecoveryHidesHome ==
  ASSUME UNCHANGED <<hdr, logd>>, \A c \in Blocks : home'[c] = home[c] \/ c \in LoggedBlocks(hdr)
  PROVE  AfterRecovery' = AfterRecovery
BY Zenon DEF AfterRecovery

\* install_trans() is a step of AtomicDisk, or none.
LEMMA InstallTransRefines ==
  ASSUME ControlInv, DataInv, NEW p \in Procs, InstallTrans(p)
  PROVE  Stutter
<1>0. PICK t \in Nat, b \in Blocks : t = tail + 1 /\ b = lh[t] /\ t \in DOMAIN lh /\ logd[t] \in Values
  <2>1. tail < Len(lh) /\ tail \in Nat /\ DOMAIN lh = 1 .. Len(lh)
    BY LenProperties, Zenon DEF InstallTrans, ControlInv, TailAgrees, TypeOK
  <2>2. tail + 1 \in 1 .. Len(lh) /\ lh[tail + 1] \in Blocks /\ logd[tail + 1] \in Values
    BY <2>1, TailEntry, Zenon DEF ControlInv
  <2>3. QED
    BY <2>1, <2>2
<1>1. UNCHANGED <<hdr, logd, phase>> /\ pc[p] = "install_trans"
  BY Zenon DEF InstallTrans
<1>2. phase = "up" /\ hdr = lh
  <2>1. phase = "up"
    BY <1>1, DuringCommit, Zenon DEF Commit
  <2>2. QED
    BY <1>1, <2>1, Zenon DEF DataInv, HeaderAgrees
<1>3. \A c \in Blocks : /\ cache'[c] = IF c = b THEN logd[t] ELSE cache[c]
                        /\ home'[c] = IF c = b THEN logd[t] ELSE home[c]
  BY <1>0, Zenon DEF InstallTrans, Install, ControlInv, TypeOK
<1>4. logd[t] = Contents(b)
  BY <1>0, <1>1, Zenon DEF DataInv, LogCopied
<1>5. \A c \in Blocks : Contents(c)' = Contents(c)
  BY <1>0, <1>3, <1>4, LogAssumption, Zenon DEF Contents
<1>6. b \in LoggedBlocks(hdr)
  BY <1>0, <1>2, Zenon DEF LoggedBlocks
<1>7. AfterRecovery' = AfterRecovery
  BY <1>1, <1>3, <1>6, RecoveryHidesHome, Zenon
<1>8. Active' = Active
  <2>1. \A q \in Procs : pc'[q] \in InOp <=> pc[q] \in InOp
    BY Zenon DEF InstallTrans, ControlInv, TypeOK, InOp
  <2>2. QED
    BY <2>1, ActiveSame, Zenon
<1>9. QED
  BY <1>1, <1>2, <1>5, <1>7, <1>8, VisibleSame, Zenon DEF Stutter

\* Clearing the header changes nothing once every block it names is at home.
LEMMA RecoveryAfterErase ==
  ASSUME hdr' = <<>>, home' = home, home \in [Blocks -> Values], Distinct(hdr),
         \A i \in DOMAIN hdr : home[hdr[i]] = logd[i]
  PROVE  AfterRecovery' = AfterRecovery
<1>1. \A b \in Blocks : AfterRecovery'[b] = home[b]
  <2>1. DOMAIN hdr' = {}
    OBVIOUS
  <2>2. \A b : b \notin LoggedBlocks(hdr)'
    BY <2>1, Zenon DEF LoggedBlocks
  <2>3. QED
    BY <2>2, Zenon DEF AfterRecovery
<1>2. \A b \in Blocks : AfterRecovery[b] = home[b]
  <2>1. TAKE b \in Blocks
  <2>2. CASE b \in LoggedBlocks(hdr)
    <3>1. PICK i \in DOMAIN hdr : hdr[i] = b
      BY <2>2, Zenon DEF LoggedBlocks
    <3>2. QED
      BY <3>1, RecoveryOfLogged, Zenon
  <2>3. CASE b \notin LoggedBlocks(hdr)
    BY <2>3, RecoveryOfOther, Zenon
  <2>4. QED
    BY <2>2, <2>3, Zenon
<1>3. QED
  BY <1>1, <1>2, Zenon DEF AfterRecovery

\* The erasing of the committed log is a step of AtomicDisk, or none.
LEMMA ClearRefines ==
  ASSUME ControlInv, DataInv, NEW p \in Procs, Clear(p)
  PROVE  Stutter
<1>1. UNCHANGED <<logd, home, cache, phase>> /\ hdr' = <<>> /\ pc[p] = "clear"
  BY Zenon DEF Clear, bio
<1>2. phase = "up" /\ hdr = lh
  <2>1. phase = "up"
    BY <1>1, DuringCommit, Zenon DEF Commit
  <2>2. QED
    BY <1>1, <2>1, Zenon DEF DataInv, HeaderAgrees
<1>3. \A i \in DOMAIN hdr : home[hdr[i]] = logd[i]
  BY <1>1, <1>2, Zenon DEF DataInv, HomeCopied, Installed
<1>4. AfterRecovery' = AfterRecovery
  BY <1>1, <1>3, RecoveryAfterErase, Zenon DEF DataInv, HeaderAgrees, ControlInv, TypeOK
<1>5. Active' = Active
  <2>1. \A q \in Procs : pc'[q] \in InOp <=> pc[q] \in InOp
    BY Zenon DEF Clear, ControlInv, TypeOK, InOp
  <2>2. QED
    BY <2>1, ActiveSame, Zenon
<1>6. QED
  BY <1>1, <1>2, <1>4, <1>5, VisibleSame, Zenon DEF Stutter, Contents

\* The end of a commit is a step of AtomicDisk, or none.
LEMMA EndCommitRefines ==
  ASSUME ControlInv, DataInv, NEW p \in Procs, EndCommit(p)
  PROVE  Stutter
<1>1. UNCHANGED <<hdr, logd, home, phase, cache>> /\ pc[p] = "end_commit"
  BY Zenon DEF EndCommit, disk, bio
<1>2. phase = "up"
  BY <1>1, DuringCommit, Zenon DEF Commit
<1>3. \A q \in Procs : pc'[q] \in InOp <=> pc[q] \in InOp
  BY Zenon DEF EndCommit, Awake, ControlInv, TypeOK, InOp
<1>4. QED
  BY <1>1, <1>2, <1>3, QuietRefines, Zenon DEF Contents

\* A crash is a step of AtomicDisk, or none.
LEMMA CrashRefines ==
  ASSUME ControlInv, DataInv, Crash
  PROVE  Abstract!Crash
<1>1. AfterRecovery' = AfterRecovery
  BY RecoverySame, Zenon DEF Crash, disk
<1>2. phase' = "read_head" /\ Active' = {}
  BY Zenon DEF Crash, Active, InOp
<1>3. QED
  BY <1>1, <1>2, Zenon DEF Visible, Abstract!Crash

\* A step of recovery is a step of AtomicDisk, or none.
LEMMA RecoverRefines ==
  ASSUME ControlInv, DataInv, Recover
  PROVE  Stutter \/ Abstract!Boot
<1>1. CASE ReadHead
  <2>1. UNCHANGED <<hdr, logd, home, pc>> /\ phase # "up" /\ phase' # "up"
    BY <1>1, Zenon DEF ReadHead, disk, local
  <2>2. QED
    BY <2>1, RecoverySame, ActiveSame, Zenon DEF Stutter, Visible
<1>2. CASE RecoverInstall
  <2>0. PICK t \in Nat, b \in Blocks : t = tail + 1 /\ b = lh[t] /\ t \in DOMAIN lh
    <3>1. tail < Len(lh) /\ tail \in Nat /\ DOMAIN lh = 1 .. Len(lh)
      BY <1>2, LenProperties, Zenon DEF RecoverInstall, ControlInv, TailAgrees, TypeOK
    <3>2. tail + 1 \in 1 .. Len(lh) /\ lh[tail + 1] \in Blocks
      BY <3>1, TailEntry, Zenon DEF ControlInv
    <3>3. QED
      BY <3>1, <3>2
  <2>1. UNCHANGED <<hdr, logd, pc>> /\ phase = "install" /\ phase' # "up"
    BY <1>2, Zenon DEF RecoverInstall, local
  <2>2. \A c \in Blocks : home'[c] = IF c = b THEN logd[t] ELSE home[c]
    BY <1>2, <2>0, Zenon DEF RecoverInstall, Install, ControlInv, TypeOK
  <2>3. b \in LoggedBlocks(hdr)
    BY <2>0, <2>1, Zenon DEF LoggedBlocks, DataInv, HeaderAgrees
  <2>4. AfterRecovery' = AfterRecovery
    BY <2>1, <2>2, <2>3, RecoveryHidesHome, Zenon
  <2>5. QED
    BY <2>1, <2>4, ActiveSame, Zenon DEF Stutter, Visible
<1>3. CASE RecoverErase
  <2>1. UNCHANGED <<logd, home, pc>> /\ hdr' = <<>> /\ phase = "erase" /\ phase' # "up"
    BY <1>3, Zenon DEF RecoverErase, local
  <2>2. hdr = lh /\ Distinct(hdr) /\ \A i \in DOMAIN hdr : home[hdr[i]] = logd[i]
    BY <2>1, Zenon DEF DataInv, HeaderAgrees, HomeCopied
  <2>3. AfterRecovery' = AfterRecovery
    BY <2>1, <2>2, RecoveryAfterErase, Zenon DEF ControlInv, TypeOK
  <2>4. QED
    BY <2>1, <2>3, ActiveSame, Zenon DEF Stutter, Visible
<1>4. CASE Start
  <2>1. UNCHANGED <<hdr, logd, home, cache, pc>> /\ phase = "recovered" /\ phase' = "up"
    BY <1>4, Zenon DEF Start, disk, bio, local
  <2>2. AfterRecovery' = AfterRecovery
    BY <2>1, RecoverySame, Zenon
  <2>3. hdr = <<>>
    <3>1. Active = {} /\ \A q \in Procs : pc[q] \notin Commit
      BY <2>1, DuringBoot, Zenon DEF Active, InOp, Commit
    <3>2. outstanding = 0 /\ committing = 0
      BY <3>1, FS_EmptySet, Zenon DEF ControlInv, CountsAgree
    <3>3. QED
      BY <2>1, <3>2, Zenon DEF ControlInv, CountsAgree, DataInv, HeaderAgrees
  <2>4. \A b \in Blocks : Contents(b)' = home[b] /\ AfterRecovery'[b] = home[b]
    <3>1. \A b \in Blocks : Contents(b)' = home[b]
      BY <2>1, Zenon DEF Contents, DataInv, CacheClean
    <3>2. LoggedBlocks(hdr)' = {}
      BY <2>1, <2>3 DEF LoggedBlocks
    <3>3. \A b \in Blocks : AfterRecovery'[b] = home'[b]
      BY <3>2, Zenon DEF AfterRecovery
    <3>4. QED
      BY <2>1, <3>1, <3>3, Zenon
  <2>5. Visible' = AfterRecovery' /\ Visible = AfterRecovery
    BY <2>1, <2>4, Zenon DEF Visible, AfterRecovery
  <2>6. QED
    BY <2>1, <2>2, <2>5, ActiveSame, Zenon DEF Abstract!Boot
<1>5. QED
  BY <1>1, <1>2, <1>3, <1>4, Zenon DEF Recover

\* Every step is a step of AtomicDisk, or none.
LEMMA NextRefines ==
  ASSUME ControlInv, DataInv, [Next]_vars
  PROVE  [Abstract!Next]_(Abstract!absVars)
<1>1. CASE UNCHANGED vars
  <2>1. UNCHANGED <<hdr, logd, home, cache, phase, pc>>
    BY <1>1, Zenon DEF vars, disk, bio, local
  <2>2. Stutter
    BY <2>1, RecoverySame, ActiveSame, Zenon DEF Stutter, Visible, Contents
  <2>3. QED
    BY <2>2, StutterRefines, Zenon
<1>2. CASE \E b \in Blocks : Recycle(b)
  BY <1>2, RecycleRefines, StutterRefines, Zenon
<1>3. CASE \E p \in Procs, b \in Blocks : Bread(p, b)
  BY <1>3, BreadRefines, StutterRefines, Zenon
<1>4. CASE \E p \in Procs, v \in Values : LogWrite(p, v)
  BY <1>4, LogWriteRefines, Zenon DEF Abstract!Next
<1>5. CASE \E p \in Procs : BeginOp(p) \/ EndOp(p)
  BY <1>5, BeginOpRefines, EndOpRefines, StutterRefines, Zenon DEF Abstract!Next
<1>6. CASE \E p \in Procs : LogRecord(p) \/ Brelse(p)
  BY <1>6, LogRecordRefines, BrelseRefines, StutterRefines, Zenon
<1>7. CASE \E p \in Procs : CommitStep(p)
  BY <1>7, WriteLogRefines, WriteHeadRefines, InstallTransRefines, ClearRefines, EndCommitRefines,
     StutterRefines DEF CommitStep, Abstract!Next
<1>8. CASE Recover
  BY <1>8, RecoverRefines, StutterRefines, Zenon DEF Abstract!Next
<1>9. CASE Crash
  BY <1>9, CrashRefines, Zenon DEF Abstract!Next
<1>10. QED
  BY <1>1, <1>2, <1>3, <1>4, <1>5, <1>6, <1>7, <1>8, <1>9, Zenon DEF Next

\* While the reference counts are sound, log.c implements an atomic disk:
\* whatever the interleaving of operations, commits and crashes (crashes during
\* recovery included), recovery finds the contents of the last commit, puts
\* them in place and erases the header without changing them, and a commit
\* takes effect in one step, while no operation is in progress.
THEOREM CrashAtomicTheorem ==
  ASSUME LogFits
  PROVE  SoundSpec => CrashAtomic
<1>1. Init => Abstract!Init
  BY InitRefines, Zenon
<1>2. ControlInv /\ DataInv /\ [Next /\ SoundRefcnts']_vars => [Abstract!Next]_(Abstract!absVars)
  BY NextRefines, Zenon
<1>3. SoundSpec => [](ControlInv /\ DataInv)
  BY DataCorrect, Zenon
<1>4. QED
  BY <1>1, <1>2, <1>3, PTL DEF SoundSpec, CrashAtomic, Abstract!Spec
=============================================================================
