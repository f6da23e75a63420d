----------------------------- MODULE ProcProofs -----------------------------
(* Proofs about module Proc, for every size of the process table.  ProcInv *)
(* is inductive: one lemma for each action, with one step for each of its  *)
(* conjuncts.  What carries the argument is who holds which lock           *)
(* (LocksHeld), and that exit() has the lock of the parent it wakes        *)
(* (ParentsAgree).  The order of locks follows from that of pids.          *)
EXTENDS Proc, WellFoundedInduction, TLAPS

-----------------------------------------------------------------------------
(* The slots of the table, and numbers.                                    *)

\* initproc is a slot, None is not.
LEMMA Slots == initproc \in Procs /\ None \notin Procs
  BY ProcAssumption DEF Procs, initproc, None

\* A scan starts before all slots.
LEMMA NoneBefore == \A c \in Procs : ~(c < 0)
  BY ProcAssumption DEF Procs

\* A scan that has come to NPROC has passed every slot.
LEMMA AllBefore == \A c \in Procs : c < NPROC
  BY ProcAssumption DEF Procs

\* One more turn of a scan passes one more slot.
LEMMA ScanNext == \A c, n \in Procs : c < n + 1 => c < n \/ c = n
  BY ProcAssumption DEF Procs

\* The slot that wait() looks at.
LEMMA ScanSlot ==
  ASSUME TypeOK, NEW p \in Procs, Scans(p)
  PROVE  scan[p] \in Procs /\ scan[p] + 1 \in 0 .. NPROC
  BY ProcAssumption DEF TypeOK, Scans, Procs

\* Every non-empty set of natural numbers has a least element.
LEMMA Least ==
  ASSUME NEW S \in SUBSET Nat, S # {}
  PROVE  \E m \in S : \A k \in S : m <= k
<1> DEFINE Less == {ss \in Nat \X Nat : ss[1] < ss[2]}
<1>1. IsWellFoundedOn(Less, Nat)
  BY NatLessThanWellFounded, Zenon DEF OpToRel
<1>2. \A k, m \in Nat : k < m => <<k, m>> \in Less
  BY Zenon
<1> HIDE DEF Less
<1>3. PICK m \in S : \A k \in S : <<k, m>> \notin Less
  BY <1>1, WFMin, Zenon
<1>4. \A k \in S : ~(k < m)
  BY <1>2, <1>3, Zenon
<1>5. QED
  BY <1>3, <1>4

\* reparent() comes to a child as long as there is one.
LEMMA NextChildIsChild ==
  ASSUME NEW p \in Procs, Children(p) # {}
  PROVE  NextChild(p) \in Procs /\ parent[NextChild(p)] = p
<1>1. Children(p) \in SUBSET Nat
  BY ProcAssumption DEF Children, Procs
<1>2. \E c \in Children(p) : \A d \in Children(p) : c <= d
  BY <1>1, Least, Zenon
<1>3. NextChild(p) \in Children(p)
  BY <1>2, Zenon DEF NextChild
<1>4. QED
  BY <1>3, Zenon DEF Children

-----------------------------------------------------------------------------
(* Every action preserves ProcInv.                                         *)

\* fork() takes a free slot: nobody holds its lock, and it has no children.
LEMMA ForkPreserves ==
  ASSUME ProcInv, NEW p \in Procs, NEW np \in Procs, Fork(p, np)
  PROVE  ProcInv'
<1> USE Slots DEF ProcInv
<1>1. TypeOK'
  BY ProcAssumption DEF Fork, MayFork, Free, Runs, TypeOK, PCs, Exiting, Unlocked, States
<1>2. PlaceAgrees'
  BY Zenon DEF Fork, MayFork, Free, Runs, TypeOK, PlaceAgrees, Unlocked
<1>3. LocksHeld'
  BY DEF Fork, MayFork, Free, Runs, TypeOK, LocksHeld, ParentsAgree, PlaceAgrees
<1>4. ParentsAgree'
  BY DEF Fork, MayFork, Free, Runs, TypeOK, ParentsAgree, PlaceAgrees, Exiting
<1>5. PidsGrow'
  BY ProcAssumption DEF Fork, MayFork, Free, Runs, TypeOK, PidsGrow, ParentsAgree, PlaceAgrees, ZombieHasNoChildren
<1>6. ZombieHasNoChildren'
  BY DEF Fork, MayFork, Free, Runs, TypeOK, ZombieHasNoChildren, ParentsAgree, PlaceAgrees
<1>7. NoLostExit'
  BY DEF Fork, MayFork, Free, Runs, TypeOK, NoLostExit, PlaceAgrees, ParentsAgree
<1>8. ScanAgrees'
  BY DEF Fork, MayFork, Free, Runs, TypeOK, ScanAgrees, PlaceAgrees, ParentsAgree
<1>9. ShellAgrees'
  BY DEF Fork, MayFork, Free, Runs, TypeOK, ShellAgrees, PlaceAgrees, ParentsAgree, PidsGrow
<1> QED
  BY <1>1, <1>2, <1>3, <1>4, <1>5, <1>6, <1>7, <1>8, <1>9, Zenon

\* allocproc() without a page for the trapframe leaves only a pid behind.
LEMMA ForkNoTrapframePreserves ==
  ASSUME ProcInv, NEW p \in Procs, NEW np \in Procs, ForkNoTrapframe(p, np)
  PROVE  ProcInv'
<1> USE Slots DEF ProcInv
<1>1. TypeOK'
  BY ProcAssumption DEF ForkNoTrapframe, MayFork, Free, Runs, TypeOK, PCs, Exiting, Unlocked, States
<1>2. PlaceAgrees'
  BY Zenon DEF ForkNoTrapframe, MayFork, Free, Runs, TypeOK, PlaceAgrees, Unlocked
<1>3. LocksHeld'
  BY DEF ForkNoTrapframe, MayFork, Free, Runs, TypeOK, LocksHeld, ParentsAgree, PlaceAgrees
<1>4. ParentsAgree'
  BY Zenon DEF ForkNoTrapframe, MayFork, Free, Runs, TypeOK, ParentsAgree, PlaceAgrees, Exiting
<1>5. PidsGrow'
  BY ProcAssumption DEF ForkNoTrapframe, MayFork, Free, Runs, TypeOK, PidsGrow, ParentsAgree, PlaceAgrees, ZombieHasNoChildren
<1>6. ZombieHasNoChildren'
  BY Zenon DEF ForkNoTrapframe, MayFork, Free, Runs, TypeOK, ZombieHasNoChildren, ParentsAgree, PlaceAgrees
<1>7. NoLostExit'
  BY DEF ForkNoTrapframe, MayFork, Free, Runs, TypeOK, NoLostExit, PlaceAgrees, ParentsAgree
<1>8. ScanAgrees'
  BY DEF ForkNoTrapframe, MayFork, Free, Runs, TypeOK, ScanAgrees, PlaceAgrees, ParentsAgree
<1>9. ShellAgrees'
  BY Zenon DEF ForkNoTrapframe, MayFork, Free, Runs, TypeOK, ShellAgrees, PlaceAgrees, ParentsAgree
<1> QED
  BY <1>1, <1>2, <1>3, <1>4, <1>5, <1>6, <1>7, <1>8, <1>9, Zenon

\* A fork() that fails later gives its slot back.
LEMMA ForkNoMemoryPreserves ==
  ASSUME ProcInv, NEW p \in Procs, NEW np \in Procs, ForkNoMemory(p, np)
  PROVE  ProcInv'
<1> USE Slots DEF ProcInv
<1>1. TypeOK'
  BY ProcAssumption DEF ForkNoMemory, MayFork, Free, Runs, FreeProc, TypeOK, PCs, Exiting, Unlocked, States
<1>2. PlaceAgrees'
  BY Zenon DEF ForkNoMemory, MayFork, Free, Runs, FreeProc, TypeOK, PlaceAgrees, Unlocked
<1>3. LocksHeld'
  BY DEF ForkNoMemory, MayFork, Free, Runs, FreeProc, TypeOK, LocksHeld, ParentsAgree, PlaceAgrees
<1>4. ParentsAgree'
  BY Zenon DEF ForkNoMemory, MayFork, Free, Runs, FreeProc, TypeOK, ParentsAgree, PlaceAgrees, Exiting
<1>5. PidsGrow'
  BY ProcAssumption DEF ForkNoMemory, MayFork, Free, Runs, FreeProc, TypeOK, PidsGrow, ParentsAgree, PlaceAgrees, ZombieHasNoChildren
<1>6. ZombieHasNoChildren'
  BY DEF ForkNoMemory, MayFork, Free, Runs, FreeProc, TypeOK, ZombieHasNoChildren, ParentsAgree, PlaceAgrees
<1>7. NoLostExit'
  BY DEF ForkNoMemory, MayFork, Free, Runs, FreeProc, TypeOK, NoLostExit, PlaceAgrees, ParentsAgree
<1>8. ScanAgrees'
  BY DEF ForkNoMemory, MayFork, Free, Runs, FreeProc, TypeOK, ScanAgrees, PlaceAgrees, ParentsAgree
<1>9. ShellAgrees'
  BY DEF ForkNoMemory, MayFork, Free, Runs, FreeProc, TypeOK, ShellAgrees, PlaceAgrees, ParentsAgree
<1> QED
  BY <1>1, <1>2, <1>3, <1>4, <1>5, <1>6, <1>7, <1>8, <1>9, Zenon

\* kill() at most ends a sleep.
LEMMA KillPreserves ==
  ASSUME ProcInv, NEW p \in Procs, NEW n \in KillPids, Kill(p, n)
  PROVE  ProcInv'
<1> USE Slots DEF ProcInv
<1>1. TypeOK'
  BY ProcAssumption, Zenon DEF Kill, Runs, TypeOK, PCs, Exiting, Unlocked, States
<1>2. PlaceAgrees'
  BY DEF Kill, Runs, TypeOK, PlaceAgrees, Unlocked
<1>3. LocksHeld'
  BY DEF Kill, Runs, TypeOK, LocksHeld, ParentsAgree, PlaceAgrees
<1>4. ParentsAgree'
  BY DEF Kill, Runs, TypeOK, ParentsAgree, PlaceAgrees, Exiting
<1>5. PidsGrow'
  BY DEF Kill, Runs, TypeOK, PidsGrow, ParentsAgree
<1>6. ZombieHasNoChildren'
  BY DEF Kill, Runs, TypeOK, ZombieHasNoChildren, ParentsAgree, PlaceAgrees
<1>7. NoLostExit'
  BY DEF Kill, Runs, TypeOK, NoLostExit, PlaceAgrees, ParentsAgree
<1>8. ScanAgrees'
  BY DEF Kill, Runs, TypeOK, ScanAgrees, PlaceAgrees, ParentsAgree
<1>9. ShellAgrees'
  BY DEF Kill, Runs, TypeOK, ShellAgrees, PlaceAgrees, ParentsAgree
<1> QED
  BY <1>1, <1>2, <1>3, <1>4, <1>5, <1>6, <1>7, <1>8, <1>9, Zenon

\* A process that slept in wait() resumes with its own lock.
LEMMA SchedulePreserves ==
  ASSUME ProcInv, NEW p \in Procs, Schedule(p)
  PROVE  ProcInv'
<1> USE Slots DEF ProcInv
<1>1. TypeOK'
  BY ProcAssumption DEF Schedule, TypeOK, PCs, Exiting, Unlocked, States
<1>2. PlaceAgrees'
  BY DEF Schedule, TypeOK, PlaceAgrees, Unlocked
<1>3. LocksHeld'
  BY DEF Schedule, TypeOK, LocksHeld, ParentsAgree, PlaceAgrees
<1>4. ParentsAgree'
  BY DEF Schedule, TypeOK, ParentsAgree, PlaceAgrees, Exiting
<1>5. PidsGrow'
  BY Zenon DEF Schedule, TypeOK, PidsGrow, ParentsAgree
<1>6. ZombieHasNoChildren'
  BY DEF Schedule, TypeOK, ZombieHasNoChildren, ParentsAgree, PlaceAgrees
<1>7. NoLostExit'
  BY DEF Schedule, TypeOK, NoLostExit, PlaceAgrees, ParentsAgree
<1>8. ScanAgrees'
  BY NoneBefore DEF Schedule, TypeOK, ScanAgrees, PlaceAgrees, ParentsAgree
<1>9. ShellAgrees'
  BY NoneBefore DEF Schedule, TypeOK, ShellAgrees, PlaceAgrees, ParentsAgree
<1> QED
  BY <1>1, <1>2, <1>3, <1>4, <1>5, <1>6, <1>7, <1>8, <1>9, Zenon

\* yield() gives up the CPU, nothing else.
LEMMA YieldPreserves ==
  ASSUME ProcInv, NEW p \in Procs, Yield(p)
  PROVE  ProcInv'
<1> USE Slots DEF ProcInv
<1>1. TypeOK'
  BY ProcAssumption, Zenon DEF Yield, Runs, TypeOK, PCs, Exiting, Unlocked, States
<1>2. PlaceAgrees'
  BY Zenon DEF Yield, Runs, TypeOK, PlaceAgrees, Unlocked
<1>3. LocksHeld'
  BY DEF Yield, Runs, TypeOK, LocksHeld, ParentsAgree, PlaceAgrees
<1>4. ParentsAgree'
  BY DEF Yield, Runs, TypeOK, ParentsAgree, PlaceAgrees, Exiting
<1>5. PidsGrow'
  BY Zenon DEF Yield, Runs, TypeOK, PidsGrow, ParentsAgree
<1>6. ZombieHasNoChildren'
  BY DEF Yield, Runs, TypeOK, ZombieHasNoChildren, ParentsAgree, PlaceAgrees
<1>7. NoLostExit'
  BY DEF Yield, Runs, TypeOK, NoLostExit, PlaceAgrees, ParentsAgree
<1>8. ScanAgrees'
  BY DEF Yield, Runs, TypeOK, ScanAgrees, PlaceAgrees, ParentsAgree
<1>9. ShellAgrees'
  BY DEF Yield, Runs, TypeOK, ShellAgrees, PlaceAgrees, ParentsAgree
<1> QED
  BY <1>1, <1>2, <1>3, <1>4, <1>5, <1>6, <1>7, <1>8, <1>9, Zenon

\* The scheduler releases the lock of a zombie after it has left the stack.
LEMMA SwitchAwayPreserves ==
  ASSUME ProcInv, NEW p \in Procs, SwitchAway(p)
  PROVE  ProcInv'
<1> USE Slots DEF ProcInv
<1>1. TypeOK'
  BY ProcAssumption, Zenon DEF SwitchAway, TypeOK, PCs, Exiting, Unlocked, States
<1>2. PlaceAgrees'
  BY Zenon DEF SwitchAway, TypeOK, PlaceAgrees, Unlocked
<1>3. LocksHeld'
  BY DEF SwitchAway, TypeOK, LocksHeld, ParentsAgree, PlaceAgrees
<1>4. ParentsAgree'
  BY Zenon DEF SwitchAway, TypeOK, ParentsAgree, PlaceAgrees, Exiting
<1>5. PidsGrow'
  BY Zenon DEF SwitchAway, TypeOK, PidsGrow, ParentsAgree
<1>6. ZombieHasNoChildren'
  BY Zenon DEF SwitchAway, TypeOK, ZombieHasNoChildren, ParentsAgree, PlaceAgrees
<1>7. NoLostExit'
  BY DEF SwitchAway, TypeOK, NoLostExit, PlaceAgrees, ParentsAgree
<1>8. ScanAgrees'
  BY DEF SwitchAway, TypeOK, ScanAgrees, PlaceAgrees, ParentsAgree
<1>9. ShellAgrees'
  BY Zenon DEF SwitchAway, TypeOK, ShellAgrees, PlaceAgrees, ParentsAgree
<1> QED
  BY <1>1, <1>2, <1>3, <1>4, <1>5, <1>6, <1>7, <1>8, <1>9, Zenon

\* exit() begins without locks.
LEMMA ExitPreserves ==
  ASSUME ProcInv, NEW p \in Procs, Exit(p)
  PROVE  ProcInv'
<1> USE Slots DEF ProcInv
<1>1. TypeOK'
  BY ProcAssumption, Zenon DEF Exit, Runs, TypeOK, PCs, Exiting, Unlocked, States
<1>2. PlaceAgrees'
  BY Zenon DEF Exit, Runs, TypeOK, PlaceAgrees, Unlocked
<1>3. LocksHeld'
  BY DEF Exit, Runs, TypeOK, LocksHeld, ParentsAgree, PlaceAgrees
<1>4. ParentsAgree'
  BY Zenon DEF Exit, Runs, TypeOK, ParentsAgree, PlaceAgrees, Exiting
<1>5. PidsGrow'
  BY Zenon DEF Exit, Runs, TypeOK, PidsGrow, ParentsAgree
<1>6. ZombieHasNoChildren'
  BY Zenon DEF Exit, Runs, TypeOK, ZombieHasNoChildren, ParentsAgree, PlaceAgrees
<1>7. NoLostExit'
  BY DEF Exit, Runs, TypeOK, NoLostExit, PlaceAgrees, ParentsAgree
<1>8. ScanAgrees'
  BY DEF Exit, Runs, TypeOK, ScanAgrees, PlaceAgrees, ParentsAgree
<1>9. ShellAgrees'
  BY Zenon DEF Exit, Runs, TypeOK, ShellAgrees, PlaceAgrees, ParentsAgree
<1> QED
  BY <1>1, <1>2, <1>3, <1>4, <1>5, <1>6, <1>7, <1>8, <1>9, Zenon

\* The early wakeup of init.
LEMMA ExitWakeInitPreserves ==
  ASSUME ProcInv, NEW p \in Procs, ExitWakeInit(p)
  PROVE  ProcInv'
<1> USE Slots DEF ProcInv
<1>1. TypeOK'
  BY ProcAssumption, Zenon DEF ExitWakeInit, Runs, Wakeup1, TypeOK, PCs, Exiting, Unlocked, States
<1>2. PlaceAgrees'
  BY Zenon DEF ExitWakeInit, Runs, Wakeup1, TypeOK, PlaceAgrees, Unlocked
<1>3. LocksHeld'
  BY DEF ExitWakeInit, Runs, Wakeup1, TypeOK, LocksHeld, ParentsAgree, PlaceAgrees
<1>4. ParentsAgree'
  BY Zenon DEF ExitWakeInit, Runs, Wakeup1, TypeOK, ParentsAgree, PlaceAgrees, Exiting
<1>5. PidsGrow'
  BY Zenon DEF ExitWakeInit, Runs, Wakeup1, TypeOK, PidsGrow, ParentsAgree
<1>6. ZombieHasNoChildren'
  BY Zenon DEF ExitWakeInit, Runs, Wakeup1, TypeOK, ZombieHasNoChildren, ParentsAgree, PlaceAgrees
<1>7. NoLostExit'
  BY DEF ExitWakeInit, Runs, Wakeup1, TypeOK, NoLostExit, PlaceAgrees, ParentsAgree
<1>8. ScanAgrees'
  BY DEF ExitWakeInit, Runs, Wakeup1, TypeOK, ScanAgrees, PlaceAgrees, ParentsAgree
<1>9. ShellAgrees'
  BY DEF ExitWakeInit, Runs, Wakeup1, TypeOK, ShellAgrees, PlaceAgrees, ParentsAgree
<1> QED
  BY <1>1, <1>2, <1>3, <1>4, <1>5, <1>6, <1>7, <1>8, <1>9, Zenon

\* exit() notes its parent.
LEMMA ExitGetParentPreserves ==
  ASSUME ProcInv, NEW p \in Procs, ExitGetParent(p)
  PROVE  ProcInv'
<1> USE Slots DEF ProcInv
<1>1. TypeOK'
  BY ProcAssumption, Zenon DEF ExitGetParent, Runs, TypeOK, PCs, Exiting, Unlocked, States
<1>2. PlaceAgrees'
  BY Zenon DEF ExitGetParent, Runs, TypeOK, PlaceAgrees, Unlocked
<1>3. LocksHeld'
  BY DEF ExitGetParent, Runs, TypeOK, LocksHeld, ParentsAgree, PlaceAgrees
<1>4. ParentsAgree'
  BY Zenon DEF ExitGetParent, Runs, TypeOK, ParentsAgree, PlaceAgrees, Exiting
<1>5. PidsGrow'
  BY Zenon DEF ExitGetParent, Runs, TypeOK, PidsGrow, ParentsAgree
<1>6. ZombieHasNoChildren'
  BY Zenon DEF ExitGetParent, Runs, TypeOK, ZombieHasNoChildren, ParentsAgree, PlaceAgrees
<1>7. NoLostExit'
  BY DEF ExitGetParent, Runs, TypeOK, NoLostExit, PlaceAgrees, ParentsAgree
<1>8. ScanAgrees'
  BY DEF ExitGetParent, Runs, TypeOK, ScanAgrees, PlaceAgrees, ParentsAgree
<1>9. ShellAgrees'
  BY Zenon DEF ExitGetParent, Runs, TypeOK, ShellAgrees, PlaceAgrees, ParentsAgree
<1> QED
  BY <1>1, <1>2, <1>3, <1>4, <1>5, <1>6, <1>7, <1>8, <1>9, Zenon

\* exit() takes the lock of the parent it noted.
LEMMA ExitLockParentPreserves ==
  ASSUME ProcInv, NEW p \in Procs, ExitLockParent(p)
  PROVE  ProcInv'
<1> USE Slots DEF ProcInv
<1>1. TypeOK'
  BY ProcAssumption, Zenon DEF ExitLockParent, Runs, TypeOK, PCs, Exiting, Unlocked, States
<1>2. PlaceAgrees'
  BY Zenon DEF ExitLockParent, Runs, TypeOK, PlaceAgrees, Unlocked
<1>3. LocksHeld'
  BY DEF ExitLockParent, Runs, TypeOK, LocksHeld, ParentsAgree, PlaceAgrees
<1>4. ParentsAgree'
  BY Zenon DEF ExitLockParent, Runs, TypeOK, ParentsAgree, PlaceAgrees, Exiting
<1>5. PidsGrow'
  BY Zenon DEF ExitLockParent, Runs, TypeOK, PidsGrow, ParentsAgree
<1>6. ZombieHasNoChildren'
  BY Zenon DEF ExitLockParent, Runs, TypeOK, ZombieHasNoChildren, ParentsAgree, PlaceAgrees
<1>7. NoLostExit'
  BY DEF ExitLockParent, Runs, TypeOK, NoLostExit, PlaceAgrees, ParentsAgree
<1>8. ScanAgrees'
  BY DEF ExitLockParent, Runs, TypeOK, ScanAgrees, PlaceAgrees, ParentsAgree
<1>9. ShellAgrees'
  BY Zenon DEF ExitLockParent, Runs, TypeOK, ShellAgrees, PlaceAgrees, ParentsAgree
<1> QED
  BY <1>1, <1>2, <1>3, <1>4, <1>5, <1>6, <1>7, <1>8, <1>9, Zenon

\* exit() takes its own lock besides.
LEMMA ExitLockSelfPreserves ==
  ASSUME ProcInv, NEW p \in Procs, ExitLockSelf(p)
  PROVE  ProcInv'
<1> USE Slots DEF ProcInv
<1>1. TypeOK'
  BY ProcAssumption, Zenon DEF ExitLockSelf, Runs, TypeOK, PCs, Exiting, Unlocked, States
<1>2. PlaceAgrees'
  BY Zenon DEF ExitLockSelf, Runs, TypeOK, PlaceAgrees, Unlocked
<1>3. LocksHeld'
  BY DEF ExitLockSelf, Runs, TypeOK, LocksHeld, ParentsAgree, PlaceAgrees
<1>4. ParentsAgree'
  BY Zenon DEF ExitLockSelf, Runs, TypeOK, ParentsAgree, PlaceAgrees, Exiting
<1>5. PidsGrow'
  BY Zenon DEF ExitLockSelf, Runs, TypeOK, PidsGrow, ParentsAgree
<1>6. ZombieHasNoChildren'
  BY Zenon DEF ExitLockSelf, Runs, TypeOK, ZombieHasNoChildren, ParentsAgree, PlaceAgrees
<1>7. NoLostExit'
  BY DEF ExitLockSelf, Runs, TypeOK, NoLostExit, PlaceAgrees, ParentsAgree
<1>8. ScanAgrees'
  BY DEF ExitLockSelf, Runs, TypeOK, ScanAgrees, PlaceAgrees, ParentsAgree
<1>9. ShellAgrees'
  BY Zenon DEF ExitLockSelf, Runs, TypeOK, ShellAgrees, PlaceAgrees, ParentsAgree
<1> QED
  BY <1>1, <1>2, <1>3, <1>4, <1>5, <1>6, <1>7, <1>8, <1>9, Zenon

\* A child that is given to init had another parent, and init does not exit.
LEMMA ReparentPreserves ==
  ASSUME ProcInv, NEW p \in Procs, Reparent(p)
  PROVE  ProcInv'
<1> USE Slots DEF ProcInv
<1>0. NextChild(p) \in Procs /\ parent[NextChild(p)] = p
  BY NextChildIsChild, Zenon DEF Reparent
<1>1. TypeOK'
  BY <1>0, ProcAssumption, Zenon DEF Reparent, Runs, TypeOK, PCs, Exiting, Unlocked, States
<1>2. PlaceAgrees'
  BY <1>0, Zenon DEF Reparent, Runs, TypeOK, PlaceAgrees, Unlocked
<1>3. LocksHeld'
  BY <1>0 DEF Reparent, Runs, TypeOK, LocksHeld, ParentsAgree, PlaceAgrees
<1>4. ParentsAgree'
  BY <1>0 DEF Reparent, Runs, TypeOK, ParentsAgree, PlaceAgrees, Exiting
<1>5. PidsGrow'
  BY <1>0 DEF Reparent, Runs, TypeOK, PidsGrow, ParentsAgree
<1>6. ZombieHasNoChildren'
  BY <1>0, Zenon DEF Reparent, Runs, TypeOK, ZombieHasNoChildren, ParentsAgree, PlaceAgrees
<1>7. NoLostExit'
  BY <1>0 DEF Reparent, Runs, TypeOK, NoLostExit, PlaceAgrees, ParentsAgree
<1>8. ScanAgrees'
  BY <1>0 DEF Reparent, Runs, TypeOK, ScanAgrees, PlaceAgrees, ParentsAgree
<1>9. ShellAgrees'
  BY <1>0, Zenon DEF Reparent, Runs, TypeOK, ShellAgrees, PlaceAgrees, ParentsAgree
<1> QED
  BY <1>1, <1>2, <1>3, <1>4, <1>5, <1>6, <1>7, <1>8, <1>9, Zenon

\* The parent that exit() wakes is its parent, or init is.
LEMMA ExitZombiePreserves ==
  ASSUME ProcInv, NEW p \in Procs, ExitZombie(p)
  PROVE  ProcInv'
<1> USE Slots DEF ProcInv
<1>1. TypeOK'
  BY ProcAssumption, Zenon DEF ExitZombie, Runs, Wakeup1, TypeOK, PCs, Exiting, Unlocked, States
<1>2. PlaceAgrees'
  BY Zenon DEF ExitZombie, Runs, Wakeup1, TypeOK, PlaceAgrees, Unlocked
<1>3. LocksHeld'
  BY DEF ExitZombie, Runs, Wakeup1, TypeOK, LocksHeld, ParentsAgree, PlaceAgrees
<1>4. ParentsAgree'
  BY DEF ExitZombie, Runs, Wakeup1, TypeOK, ParentsAgree, PlaceAgrees, Exiting
<1>5. PidsGrow'
  BY Zenon DEF ExitZombie, Runs, Wakeup1, TypeOK, PidsGrow, ParentsAgree
<1>6. ZombieHasNoChildren'
  BY DEF ExitZombie, Runs, Wakeup1, TypeOK, ZombieHasNoChildren, ParentsAgree, PlaceAgrees, Children
<1>7. NoLostExit'
  BY DEF ExitZombie, Runs, Wakeup1, TypeOK, NoLostExit, PlaceAgrees, ParentsAgree
<1>8. ScanAgrees'
  BY DEF ExitZombie, Runs, Wakeup1, TypeOK, ScanAgrees, PlaceAgrees, ParentsAgree, LocksHeld
<1>9. ShellAgrees'
  BY DEF ExitZombie, Runs, Wakeup1, TypeOK, ShellAgrees, PlaceAgrees, ParentsAgree
<1> QED
  BY <1>1, <1>2, <1>3, <1>4, <1>5, <1>6, <1>7, <1>8, <1>9, Zenon

\* wait() begins; init does so only when it has a shell.
LEMMA WaitPreserves ==
  ASSUME ProcInv, NEW p \in Procs, Wait(p)
  PROVE  ProcInv'
<1> USE Slots DEF ProcInv
<1>1. TypeOK'
  BY ProcAssumption, Zenon DEF Wait, Runs, TypeOK, PCs, Exiting, Unlocked, States
<1>2. PlaceAgrees'
  BY Zenon DEF Wait, Runs, TypeOK, PlaceAgrees, Unlocked
<1>3. LocksHeld'
  BY DEF Wait, Runs, TypeOK, LocksHeld, ParentsAgree, PlaceAgrees
<1>4. ParentsAgree'
  BY DEF Wait, Runs, TypeOK, ParentsAgree, PlaceAgrees, Exiting
<1>5. PidsGrow'
  BY Zenon DEF Wait, Runs, TypeOK, PidsGrow, ParentsAgree
<1>6. ZombieHasNoChildren'
  BY Zenon DEF Wait, Runs, TypeOK, ZombieHasNoChildren, ParentsAgree, PlaceAgrees
<1>7. NoLostExit'
  BY DEF Wait, Runs, TypeOK, NoLostExit, PlaceAgrees, ParentsAgree
<1>8. ScanAgrees'
  BY DEF Wait, Runs, TypeOK, ScanAgrees, PlaceAgrees, ParentsAgree
<1>9. ShellAgrees'
  BY Zenon DEF Wait, Runs, TypeOK, ShellAgrees, PlaceAgrees, ParentsAgree
<1> QED
  BY <1>1, <1>2, <1>3, <1>4, <1>5, <1>6, <1>7, <1>8, <1>9, Zenon

\* The scan begins with p->lock held.
LEMMA WaitLockPreserves ==
  ASSUME ProcInv, NEW p \in Procs, WaitLock(p)
  PROVE  ProcInv'
<1> USE Slots DEF ProcInv
<1>1. TypeOK'
  BY ProcAssumption DEF WaitLock, Runs, TypeOK, PCs, Exiting, Unlocked, States
<1>2. PlaceAgrees'
  BY Zenon DEF WaitLock, Runs, TypeOK, PlaceAgrees, Unlocked
<1>3. LocksHeld'
  BY DEF WaitLock, Runs, TypeOK, LocksHeld, ParentsAgree, PlaceAgrees
<1>4. ParentsAgree'
  BY Zenon DEF WaitLock, Runs, TypeOK, ParentsAgree, PlaceAgrees, Exiting
<1>5. PidsGrow'
  BY Zenon DEF WaitLock, Runs, TypeOK, PidsGrow, ParentsAgree
<1>6. ZombieHasNoChildren'
  BY Zenon DEF WaitLock, Runs, TypeOK, ZombieHasNoChildren, ParentsAgree, PlaceAgrees
<1>7. NoLostExit'
  BY DEF WaitLock, Runs, TypeOK, NoLostExit, PlaceAgrees, ParentsAgree
<1>8. ScanAgrees'
  BY NoneBefore DEF WaitLock, Runs, TypeOK, ScanAgrees, PlaceAgrees, ParentsAgree
<1>9. ShellAgrees'
  BY NoneBefore, Zenon DEF WaitLock, Runs, TypeOK, ShellAgrees, PlaceAgrees, ParentsAgree
<1> QED
  BY <1>1, <1>2, <1>3, <1>4, <1>5, <1>6, <1>7, <1>8, <1>9, Zenon

\* A slot of somebody else is passed.
LEMMA WaitNotMinePreserves ==
  ASSUME ProcInv, NEW p \in Procs, WaitNotMine(p)
  PROVE  ProcInv'
<1> USE Slots DEF ProcInv
<1>0. scan[p] \in Procs /\ scan[p] + 1 \in 0 .. NPROC
  BY ScanSlot, Zenon DEF WaitNotMine
<1>1. TypeOK'
  BY <1>0, ProcAssumption, Zenon DEF WaitNotMine, Scans, Runs, TypeOK, PCs, Exiting, Unlocked, States
<1>2. PlaceAgrees'
  BY <1>0, Zenon DEF WaitNotMine, Scans, Runs, TypeOK, PlaceAgrees, Unlocked
<1>3. LocksHeld'
  BY <1>0 DEF WaitNotMine, Scans, Runs, TypeOK, LocksHeld, ParentsAgree, PlaceAgrees
<1>4. ParentsAgree'
  BY <1>0, Zenon DEF WaitNotMine, Scans, Runs, TypeOK, ParentsAgree, PlaceAgrees, Exiting
<1>5. PidsGrow'
  BY <1>0, Zenon DEF WaitNotMine, Scans, Runs, TypeOK, PidsGrow, ParentsAgree
<1>6. ZombieHasNoChildren'
  BY <1>0, Zenon DEF WaitNotMine, Scans, Runs, TypeOK, ZombieHasNoChildren, ParentsAgree, PlaceAgrees
<1>7. NoLostExit'
  BY <1>0 DEF WaitNotMine, Scans, Runs, TypeOK, NoLostExit, PlaceAgrees, ParentsAgree
<1>8. ScanAgrees'
  BY <1>0, ScanNext DEF WaitNotMine, Scans, Runs, TypeOK, ScanAgrees, PlaceAgrees, ParentsAgree
<1>9. ShellAgrees'
  BY <1>0, ScanNext, Zenon DEF WaitNotMine, Scans, Runs, TypeOK, ShellAgrees, PlaceAgrees, ParentsAgree
<1> QED
  BY <1>1, <1>2, <1>3, <1>4, <1>5, <1>6, <1>7, <1>8, <1>9, Zenon

\* A child that is no zombie is passed.
LEMMA WaitAlivePreserves ==
  ASSUME ProcInv, NEW p \in Procs, WaitAlive(p)
  PROVE  ProcInv'
<1> USE Slots DEF ProcInv
<1>0. scan[p] \in Procs /\ scan[p] + 1 \in 0 .. NPROC
  BY ScanSlot, Zenon DEF WaitAlive
<1>1. TypeOK'
  BY <1>0, ProcAssumption, Zenon DEF WaitAlive, Scans, Runs, TypeOK, PCs, Exiting, Unlocked, States
<1>2. PlaceAgrees'
  BY <1>0, Zenon DEF WaitAlive, Scans, Runs, TypeOK, PlaceAgrees, Unlocked
<1>3. LocksHeld'
  BY <1>0 DEF WaitAlive, Scans, Runs, TypeOK, LocksHeld, ParentsAgree, PlaceAgrees
<1>4. ParentsAgree'
  BY <1>0, Zenon DEF WaitAlive, Scans, Runs, TypeOK, ParentsAgree, PlaceAgrees, Exiting
<1>5. PidsGrow'
  BY <1>0, Zenon DEF WaitAlive, Scans, Runs, TypeOK, PidsGrow, ParentsAgree
<1>6. ZombieHasNoChildren'
  BY <1>0, Zenon DEF WaitAlive, Scans, Runs, TypeOK, ZombieHasNoChildren, ParentsAgree, PlaceAgrees
<1>7. NoLostExit'
  BY <1>0 DEF WaitAlive, Scans, Runs, TypeOK, NoLostExit, PlaceAgrees, ParentsAgree
<1>8. ScanAgrees'
  BY <1>0, ScanNext DEF WaitAlive, Scans, Runs, TypeOK, ScanAgrees, PlaceAgrees, ParentsAgree
<1>9. ShellAgrees'
  BY <1>0, ScanNext, Zenon DEF WaitAlive, Scans, Runs, TypeOK, ShellAgrees, PlaceAgrees, ParentsAgree
<1> QED
  BY <1>1, <1>2, <1>3, <1>4, <1>5, <1>6, <1>7, <1>8, <1>9, Zenon

\* A zombie whose lock is free is off its CPU.
LEMMA WaitFoundPreserves ==
  ASSUME ProcInv, NEW p \in Procs, WaitFound(p)
  PROVE  ProcInv'
<1> USE Slots DEF ProcInv
<1>0. scan[p] \in Procs
  BY ScanSlot, Zenon DEF WaitFound
<1>1. TypeOK'
  BY <1>0, ProcAssumption DEF WaitFound, Scans, Runs, FreeProc, Return, TypeOK, PCs, Exiting, Unlocked, States
<1>2. PlaceAgrees'
  BY <1>0 DEF WaitFound, Scans, Runs, FreeProc, Return, TypeOK, PlaceAgrees, Unlocked, LocksHeld
<1>3. LocksHeld'
  BY <1>0 DEF WaitFound, Scans, Runs, FreeProc, Return, TypeOK, LocksHeld, ParentsAgree, PlaceAgrees
<1>4. ParentsAgree'
  BY <1>0 DEF WaitFound, Scans, Runs, FreeProc, Return, TypeOK, ParentsAgree, PlaceAgrees, Exiting
<1>5. PidsGrow'
  BY <1>0 DEF WaitFound, Scans, Runs, FreeProc, Return, TypeOK, PidsGrow, ParentsAgree, ZombieHasNoChildren
<1>6. ZombieHasNoChildren'
  BY <1>0 DEF WaitFound, Scans, Runs, FreeProc, Return, TypeOK, ZombieHasNoChildren, ParentsAgree, PlaceAgrees
<1>7. NoLostExit'
  BY <1>0 DEF WaitFound, Scans, Runs, FreeProc, Return, TypeOK, NoLostExit, PlaceAgrees, ParentsAgree
<1>8. ScanAgrees'
  BY <1>0 DEF WaitFound, Scans, Runs, FreeProc, Return, TypeOK, ScanAgrees, PlaceAgrees, ParentsAgree
<1>9. ShellAgrees'
  BY <1>0 DEF WaitFound, Scans, Runs, FreeProc, Return, TypeOK, ShellAgrees, PlaceAgrees, ParentsAgree
<1> QED
  BY <1>1, <1>2, <1>3, <1>4, <1>5, <1>6, <1>7, <1>8, <1>9, Zenon

\* copyout() failed: the zombie stays.
LEMMA WaitBadAddressPreserves ==
  ASSUME ProcInv, NEW p \in Procs, WaitBadAddress(p)
  PROVE  ProcInv'
<1> USE Slots DEF ProcInv
<1>0. scan[p] \in Procs
  BY ScanSlot, Zenon DEF WaitBadAddress
<1>1. TypeOK'
  BY <1>0, ProcAssumption DEF WaitBadAddress, Scans, Runs, Return, TypeOK, PCs, Exiting, Unlocked, States
<1>2. PlaceAgrees'
  BY <1>0, Zenon DEF WaitBadAddress, Scans, Runs, Return, TypeOK, PlaceAgrees, Unlocked
<1>3. LocksHeld'
  BY <1>0 DEF WaitBadAddress, Scans, Runs, Return, TypeOK, LocksHeld, ParentsAgree, PlaceAgrees
<1>4. ParentsAgree'
  BY <1>0, Zenon DEF WaitBadAddress, Scans, Runs, Return, TypeOK, ParentsAgree, PlaceAgrees, Exiting
<1>5. PidsGrow'
  BY <1>0, Zenon DEF WaitBadAddress, Scans, Runs, Return, TypeOK, PidsGrow, ParentsAgree
<1>6. ZombieHasNoChildren'
  BY <1>0, Zenon DEF WaitBadAddress, Scans, Runs, Return, TypeOK, ZombieHasNoChildren, ParentsAgree, PlaceAgrees
<1>7. NoLostExit'
  BY <1>0 DEF WaitBadAddress, Scans, Runs, Return, TypeOK, NoLostExit, PlaceAgrees, ParentsAgree
<1>8. ScanAgrees'
  BY <1>0 DEF WaitBadAddress, Scans, Runs, Return, TypeOK, ScanAgrees, PlaceAgrees, ParentsAgree
<1>9. ShellAgrees'
  BY <1>0, Zenon DEF WaitBadAddress, Scans, Runs, Return, TypeOK, ShellAgrees, PlaceAgrees, ParentsAgree
<1> QED
  BY <1>1, <1>2, <1>3, <1>4, <1>5, <1>6, <1>7, <1>8, <1>9, Zenon

\* wait() returns without a child.
LEMMA WaitNonePreserves ==
  ASSUME ProcInv, NEW p \in Procs, WaitNone(p)
  PROVE  ProcInv'
<1> USE Slots DEF ProcInv
<1>1. TypeOK'
  BY ProcAssumption DEF WaitNone, Runs, Return, TypeOK, PCs, Exiting, Unlocked, States
<1>2. PlaceAgrees'
  BY Zenon DEF WaitNone, Runs, Return, TypeOK, PlaceAgrees, Unlocked
<1>3. LocksHeld'
  BY DEF WaitNone, Runs, Return, TypeOK, LocksHeld, ParentsAgree, PlaceAgrees
<1>4. ParentsAgree'
  BY Zenon DEF WaitNone, Runs, Return, TypeOK, ParentsAgree, PlaceAgrees, Exiting
<1>5. PidsGrow'
  BY Zenon DEF WaitNone, Runs, Return, TypeOK, PidsGrow, ParentsAgree
<1>6. ZombieHasNoChildren'
  BY Zenon DEF WaitNone, Runs, Return, TypeOK, ZombieHasNoChildren, ParentsAgree, PlaceAgrees
<1>7. NoLostExit'
  BY DEF WaitNone, Runs, Return, TypeOK, NoLostExit, PlaceAgrees, ParentsAgree
<1>8. ScanAgrees'
  BY DEF WaitNone, Runs, Return, TypeOK, ScanAgrees, PlaceAgrees, ParentsAgree
<1>9. ShellAgrees'
  BY Zenon DEF WaitNone, Runs, Return, TypeOK, ShellAgrees, PlaceAgrees, ParentsAgree
<1> QED
  BY <1>1, <1>2, <1>3, <1>4, <1>5, <1>6, <1>7, <1>8, <1>9, Zenon

\* wait() sleeps when its scan has seen no zombie.
LEMMA WaitSleepPreserves ==
  ASSUME ProcInv, NEW p \in Procs, WaitSleep(p)
  PROVE  ProcInv'
<1> USE Slots DEF ProcInv
<1>1. TypeOK'
  BY ProcAssumption DEF WaitSleep, Runs, TypeOK, PCs, Exiting, Unlocked, States
<1>2. PlaceAgrees'
  BY Zenon DEF WaitSleep, Runs, TypeOK, PlaceAgrees, Unlocked
<1>3. LocksHeld'
  BY DEF WaitSleep, Runs, TypeOK, LocksHeld, ParentsAgree, PlaceAgrees
<1>4. ParentsAgree'
  BY Zenon DEF WaitSleep, Runs, TypeOK, ParentsAgree, PlaceAgrees, Exiting
<1>5. PidsGrow'
  BY Zenon DEF WaitSleep, Runs, TypeOK, PidsGrow, ParentsAgree
<1>6. ZombieHasNoChildren'
  BY Zenon DEF WaitSleep, Runs, TypeOK, ZombieHasNoChildren, ParentsAgree, PlaceAgrees
<1>7. NoLostExit'
  BY AllBefore DEF WaitSleep, Runs, TypeOK, NoLostExit, PlaceAgrees, ParentsAgree, ScanAgrees
<1>8. ScanAgrees'
  BY DEF WaitSleep, Runs, TypeOK, ScanAgrees, PlaceAgrees, ParentsAgree
<1>9. ShellAgrees'
  BY DEF WaitSleep, Runs, TypeOK, ShellAgrees, PlaceAgrees, ParentsAgree
<1> QED
  BY <1>1, <1>2, <1>3, <1>4, <1>5, <1>6, <1>7, <1>8, <1>9, Zenon

-----------------------------------------------------------------------------
\* userinit() leaves a table that satisfies ProcInv.
LEMMA InitInv == Init => ProcInv
<1> SUFFICES ASSUME Init PROVE ProcInv
  BY Zenon
<1> USE Slots, ProcAssumption DEF Init
<1>1. TypeOK
  BY DEF TypeOK, PCs, States
<1>2. PlaceAgrees /\ LocksHeld /\ NoLostExit /\ ScanAgrees /\ ShellAgrees
  BY Zenon DEF PlaceAgrees, LocksHeld, NoLostExit, ScanAgrees, ShellAgrees, Unlocked
<1>3. ParentsAgree /\ PidsGrow /\ ZombieHasNoChildren
  BY DEF ParentsAgree, PidsGrow, ZombieHasNoChildren, Exiting
<1> QED
  BY <1>1, <1>2, <1>3, Zenon DEF ProcInv

\* Every step of a process or of the scheduler preserves ProcInv.
LEMMA Inductive == ProcInv /\ [Next]_vars => ProcInv'
<1> SUFFICES ASSUME ProcInv, [Next]_vars PROVE ProcInv'
  BY Zenon
<1>1. CASE UNCHANGED vars
  <2> USE <1>1 DEF vars, ProcInv
  <2>1. TypeOK'
    BY Zenon DEF TypeOK
  <2>2. PlaceAgrees'
    BY Zenon DEF PlaceAgrees
  <2>3. LocksHeld'
    BY Zenon DEF LocksHeld
  <2>4. ParentsAgree' /\ PidsGrow'
    BY Zenon DEF ParentsAgree, PidsGrow
  <2>5. ZombieHasNoChildren' /\ NoLostExit'
    BY Zenon DEF ZombieHasNoChildren, NoLostExit
  <2>6. ScanAgrees' /\ ShellAgrees'
    BY Zenon DEF ScanAgrees, ShellAgrees
  <2>7. QED
    BY <2>1, <2>2, <2>3, <2>4, <2>5, <2>6, Zenon
<1>2. CASE Next
  <2>1. PICK p \in Procs :
          \/ Schedule(p) \/ Yield(p) \/ SwitchAway(p)
          \/ \E np \in Procs : Fork(p, np) \/ ForkNoTrapframe(p, np) \/ ForkNoMemory(p, np)
          \/ \E n \in KillPids : Kill(p, n)
          \/ Exit(p) \/ ExitStep(p)
          \/ Wait(p) \/ WaitStep(p)
    BY <1>2, Zenon DEF Next
  <2>2. CASE Schedule(p) \/ Yield(p) \/ SwitchAway(p)
    BY <2>2, SchedulePreserves, YieldPreserves, SwitchAwayPreserves, Zenon
  <2>3. CASE \E np \in Procs : Fork(p, np) \/ ForkNoTrapframe(p, np) \/ ForkNoMemory(p, np)
    BY <2>3, ForkPreserves, ForkNoTrapframePreserves, ForkNoMemoryPreserves, Zenon
  <2>4. CASE \E n \in KillPids : Kill(p, n)
    BY <2>4, KillPreserves, Zenon
  <2>5. CASE Exit(p) \/ ExitStep(p)
    BY <2>5, ExitPreserves, ExitWakeInitPreserves, ExitGetParentPreserves, ExitLockParentPreserves,
       ExitLockSelfPreserves, ReparentPreserves, ExitZombiePreserves DEF ExitStep
  <2>6. CASE Wait(p) \/ WaitStep(p)
    BY <2>6, WaitPreserves, WaitLockPreserves, WaitNotMinePreserves, WaitAlivePreserves, WaitFoundPreserves,
       WaitBadAddressPreserves, WaitNonePreserves, WaitSleepPreserves DEF WaitStep
  <2>7. QED
    BY <2>1, <2>2, <2>3, <2>4, <2>5, <2>6, Zenon
<1>3. QED
  BY <1>1, <1>2, Zenon

\* ProcInv holds in every reachable state, whatever the size of the process
\* table, the number of CPUs and the pids given to kill().
THEOREM ProcCorrect == Spec => []ProcInv
  BY InitInv, Inductive, PTL DEF Spec

\* The type invariant, for every size of the table.
THEOREM TypeCorrect == Spec => []TypeOK
<1>1. ProcInv => TypeOK
  BY Zenon DEF ProcInv
<1> QED
  BY <1>1, ProcCorrect, PTL

\* wait() frees a slot only when its process has left its kernel stack.
THEOREM FreedOffCPUTheorem == Spec => []FreedOffCPU
<1>1. ProcInv => FreedOffCPU
  BY Zenon DEF ProcInv, PlaceAgrees, FreedOffCPU
<1> QED
  BY <1>1, ProcCorrect, PTL

\* reparent() leaves no child to a zombie or to a free slot.
THEOREM ZombieHasNoChildrenTheorem == Spec => []ZombieHasNoChildren
<1>1. ProcInv => ZombieHasNoChildren
  BY Zenon DEF ProcInv
<1> QED
  BY <1>1, ProcCorrect, PTL

\* exit() never loses its wakeup to a parent on the way to sleep in wait().
THEOREM NoLostExitTheorem == Spec => []NoLostExit
<1>1. ProcInv => NoLostExit
  BY Zenon DEF ProcInv
<1> QED
  BY <1>1, ProcCorrect, PTL

\* wait() returns -1 without being killed only when there is no child, though
\* it reads np->parent without np->lock.
THEOREM WaitFailsOnlyChildlessTheorem == Spec => WaitFailsOnlyChildless
<1>1. ASSUME ProcInv, NEW p \in Procs, WaitNone(p), killed[p] = 0
      PROVE  Children(p) = {}
  <2>1. pc[p] = "scan" /\ scan[p] = NPROC /\ havekids[p] = 0
    BY <1>1 DEF WaitNone
  <2>2. CASE p = initproc
    BY <1>1, <2>1, <2>2, AllBefore DEF ProcInv, ShellAgrees
  <2>3. CASE p # initproc
    BY <1>1, <2>1, <2>3, AllBefore DEF ProcInv, ScanAgrees, Children
  <2>4. QED
    BY <2>2, <2>3, Zenon
<1>2. ProcInv => \A p \in Procs : WaitNone(p) /\ killed[p] = 0 => Children(p) = {}
  BY <1>1, Zenon
<1>3. ProcInv => [\A p \in Procs : WaitNone(p) /\ killed[p] = 0 => Children(p) = {}]_vars
  BY <1>2, Zenon
<1> QED
  BY <1>3, ProcCorrect, PTL DEF WaitFailsOnlyChildless

\* What a process waits for is a lock of the table.
LEMMA WaitsForSlot ==
  ASSUME ProcInv, NEW p \in Procs, WaitsFor(p) # None
  PROVE  WaitsFor(p) \in Procs
<1>1. CASE pc[p] = "lock_parent"
  BY <1>1, Zenon DEF WaitsFor, ProcInv, ParentsAgree
<1>2. CASE pc[p] = "lock_self"
  BY <1>2, Zenon DEF WaitsFor
<1>3. CASE pc[p] = "reparent" /\ Children(p) # {}
  BY <1>3, NextChildIsChild, Zenon DEF WaitsFor
<1>4. CASE pc[p] = "scan" /\ scan[p] < NPROC /\ parent[scan[p]] = p
  <2>1. scan[p] \in Procs
    BY <1>4, ProcAssumption DEF ProcInv, TypeOK, Procs
  <2>2. QED
    BY <1>4, <2>1, Zenon DEF WaitsFor
<1>5. QED
  BY <1>1, <1>2, <1>3, <1>4, Zenon DEF WaitsFor

\* As long as nobody holds the lock of a former parent, a process that holds a
\* lock waits only for younger ones.
LEMMA WaitsForYounger ==
  ASSUME ProcInv,
         \A r \in Procs : pc[r] \in {"lock_self", "reparent"} => orig[r] = parent[r],
         NEW p \in Procs, NEW x \in Procs, lock[x] = p, WaitsFor(p) # None,
         NEW q \in Procs, lock[WaitsFor(p)] = q
  PROVE  pid[p] < pid[q]
<1> USE Slots DEF ProcInv
<1>1. \A c, r \in Procs : parent[c] = r /\ state[c] # "UNUSED" => pid[r] < pid[c]
  BY Zenon DEF ParentsAgree, PidsGrow
<1>2. ASSUME NEW c \in Procs, NEW h \in Procs, lock[c] = h
      PROVE  state[c] # "UNUSED" /\ (h = c \/ (parent[h] = c /\ state[h] # "UNUSED"))
  BY <1>2 DEF LocksHeld, PlaceAgrees, ZombieHasNoChildren
<1>3. \A c \in Procs : pid[c] \in Nat
  BY ProcAssumption DEF TypeOK
<1>4. ASSUME NEW c \in Procs, parent[c] = p, lock[c] = q
      PROVE  pid[p] < pid[q]
  <2>1. pid[p] < pid[c] /\ (q = c \/ pid[c] < pid[q])
    BY <1>1, <1>2, <1>4, Zenon
  <2>2. QED
    BY <1>3, <2>1
<1>5. pc[p] \in {"scan", "lock_self", "reparent"}
  BY Zenon DEF LocksHeld, WaitsFor
<1>6. CASE pc[p] = "lock_self"
  <2>1. lock[p] = q /\ q # p
    BY <1>6 DEF WaitsFor, LocksHeld, ParentsAgree
  <2>2. QED
    BY <1>1, <1>2, <2>1
<1>7. CASE pc[p] = "reparent"
  <2>1. Children(p) # {} /\ WaitsFor(p) = NextChild(p)
    BY <1>7, Zenon DEF WaitsFor
  <2>2. QED
    BY <1>4, <2>1, NextChildIsChild, Zenon
<1>8. CASE pc[p] = "scan"
  <2>1. WaitsFor(p) = scan[p] /\ parent[scan[p]] = p
    BY <1>8, Zenon DEF WaitsFor
  <2>2. QED
    BY <1>4, <2>1, WaitsForSlot, Zenon
<1>9. QED
  BY <1>5, <1>6, <1>7, <1>8, Zenon

\* The processes of a deadlock that hold a lock have no youngest one, unless one
\* of them holds the lock of a parent that was replaced.
LEMMA NoFreshDeadlock == ProcInv => OrderedLocks
<1> SUFFICES ASSUME ProcInv, Deadlocked,
                    \A r \in Procs : pc[r] \in {"lock_self", "reparent"} => orig[r] = parent[r]
             PROVE  FALSE
  BY Zenon DEF OrderedLocks
<1>1. PICK S \in (SUBSET Procs) \ {{}} : \A p \in S : WaitsFor(p) # None /\ lock[WaitsFor(p)] \in S
  BY Zenon DEF Deadlocked, Waiting
<1> DEFINE Holders == {h \in S : \E x \in Procs : lock[x] = h}
<1>2. \A p \in S : \E q \in Holders : lock[WaitsFor(p)] = q
  BY <1>1, WaitsForSlot, Zenon
<1>3. \A p \in Holders : \E q \in Holders : pid[p] < pid[q]
  BY <1>1, <1>2, WaitsForYounger, Zenon
<1>4. Holders \subseteq Procs /\ Holders # {}
  <2>1. Holders \subseteq Procs
    BY <1>1, Zenon
  <2>2. PICK p : p \in S
    BY <1>1, Zenon
  <2>3. QED
    BY <1>2, <2>1, <2>2, Zenon
<1> HIDE DEF Holders
<1> DEFINE Ages == {MaxPid - pid[h] : h \in Holders}
<1>5. \A h \in Holders : pid[h] \in 0 .. MaxPid
  BY <1>4, Zenon DEF ProcInv, TypeOK
<1>6. Ages \in SUBSET Nat /\ Ages # {}
  BY <1>4, <1>5, ProcAssumption
<1>7. PICK m \in Ages : \A k \in Ages : m <= k
  BY <1>6, Least, Zenon
<1>8. PICK h \in Holders : m = MaxPid - pid[h]
  BY <1>7, Zenon
<1>9. PICK q \in Holders : pid[h] < pid[q]
  BY <1>3, Zenon
<1>10. MaxPid - pid[q] \in Ages
  BY Zenon
<1>11. m <= MaxPid - pid[q]
  BY <1>7, <1>10, Zenon
<1> HIDE DEF Ages
<1>12. QED
  BY <1>5, <1>8, <1>9, <1>11, ProcAssumption

\* exit(), reparent() and wait() wait for each other's locks for ever only if
\* some exit() holds the lock of a parent that has meanwhile been replaced.
THEOREM OrderedLocksTheorem == Spec => []OrderedLocks
  BY NoFreshDeadlock, ProcCorrect, PTL

\* kill() and wait() exclude each other by p->lock: only wait() puts a process
\* to sleep, and only one that is not killed; kill() wakes whom it marks.
THEOREM KilledNeverSleepsTheorem == Spec => []KilledNeverSleeps
<1>1. Init => KilledNeverSleeps
  BY DEF Init, KilledNeverSleeps
<1>2. ProcInv /\ KilledNeverSleeps /\ [Next]_vars => KilledNeverSleeps'
  <2> SUFFICES ASSUME ProcInv, KilledNeverSleeps, [Next]_vars
               PROVE  KilledNeverSleeps'
    OBVIOUS
  <2> USE DEF KilledNeverSleeps
  <2>1. TypeOK
    BY Zenon DEF ProcInv
  <2>2. ASSUME NEW p \in Procs, NEW np \in Procs, Fork(p, np) \/ ForkNoTrapframe(p, np) \/ ForkNoMemory(p, np)
        PROVE  KilledNeverSleeps'
    BY <2>1, <2>2 DEF TypeOK, Fork, ForkNoTrapframe, ForkNoMemory, FreeProc
  <2>3. ASSUME NEW p \in Procs, NEW n \in KillPids, Kill(p, n)
        PROVE  KilledNeverSleeps'
    BY <2>1, <2>3 DEF TypeOK, Kill
  <2>4. ASSUME NEW p \in Procs, Schedule(p) \/ Yield(p) \/ SwitchAway(p)
        PROVE  KilledNeverSleeps'
    BY <2>1, <2>4 DEF TypeOK, Schedule, Yield, SwitchAway
  <2>5. ASSUME NEW p \in Procs, Exit(p) \/ ExitStep(p)
        PROVE  KilledNeverSleeps'
    BY <2>1, <2>5 DEF TypeOK, Exit, ExitStep, ExitWakeInit, ExitGetParent, ExitLockParent, ExitLockSelf,
                      Reparent, ExitZombie, Wakeup1
  <2>6. ASSUME NEW p \in Procs, Wait(p) \/ WaitLock(p) \/ WaitNotMine(p) \/ WaitAlive(p) \/ WaitBadAddress(p) \/ WaitNone(p)
        PROVE  KilledNeverSleeps'
    BY <2>6 DEF Wait, WaitLock, WaitNotMine, WaitAlive, WaitBadAddress, WaitNone
  <2>7. ASSUME NEW p \in Procs, WaitFound(p)
        PROVE  KilledNeverSleeps'
    BY <2>1, <2>7 DEF TypeOK, WaitFound, FreeProc
  <2>8. ASSUME NEW p \in Procs, WaitSleep(p)
        PROVE  KilledNeverSleeps'
    BY <2>1, <2>8 DEF TypeOK, WaitSleep
  <2>9. CASE UNCHANGED vars
    BY <2>9 DEF vars
  <2>10. QED
    BY <2>2, <2>3, <2>4, <2>5, <2>6, <2>7, <2>8, <2>9, Zenon DEF Next, WaitStep
<1>3. QED
  BY <1>1, <1>2, ProcCorrect, PTL DEF Spec
=============================================================================
