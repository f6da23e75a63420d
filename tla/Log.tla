-------------------------------- MODULE Log ---------------------------------
(***************************************************************************)
(* The write-ahead log of the xv6 file system, kernel/log.c, with the part *)
(* of the buffer cache (kernel/bio.c) it relies on: cached contents,       *)
(* reference counts, pinning, and recycling of unreferenced buffers.       *)
(*                                                                         *)
(* The sections of the code that run under log.lock are single actions;    *)
(* the checks log_write() makes before it takes the lock, and every disk   *)
(* write of commit() and of recovery, are actions of their own, so that    *)
(* other processes and crashes come between them.  One disk block is       *)
(* written atomically.                                                     *)
(***************************************************************************)
EXTENDS Integers, FiniteSets, Sequences

CONSTANTS
  Procs,        \* processes that make file-system calls
  Blocks,       \* home blocks on the disk (outside the log)
  Values,       \* contents of a block
  Zero,         \* the contents mkfs gives the blocks of the log
  NoData,       \* "no buffer caches this block"; not a member of Values
  NoBlock,      \* "no buffer locked"; not a member of Blocks
  MAXOPBLOCKS,  \* param.h: log space begin_op() reserves for one operation
  LOGSIZE,      \* param.h: entries of the log header, and begin_op()'s limit
  NLog,         \* superblock.nlog: blocks of the on-disk log, header included
  OpBlocks      \* different blocks one operation really logs, at most

ASSUME LogAssumption ==
  /\ MAXOPBLOCKS \in Nat \ {0}
  /\ LOGSIZE \in Nat /\ MAXOPBLOCKS <= LOGSIZE
  /\ NLog \in Nat \ {0}
  /\ OpBlocks \in Nat /\ OpBlocks <= MAXOPBLOCKS
  /\ Zero \in Values
  /\ NoData \notin Values
  /\ NoBlock \notin Blocks
  /\ IsFiniteSet(Procs)

VARIABLES
  \* the disk
  hdr,          \* the header block of the log: the block numbers of a committed transaction
  logd,         \* the data blocks of the log, slot 1 .. NLog-1
  home,         \* the home blocks
  \* memory, lost in a crash
  cache,        \* contents of the buffer that caches a block, or NoData
  refcnt,       \* b->refcnt of that buffer; -1 stands for the wrapped uint 2^32-1
  lh,           \* log.lh: the blocks of the current transaction
  outstanding,  \* log.outstanding
  committing,   \* log.committing
  phase,        \* where the boot is: "read_head", "install", "erase", "recovered", then "up"
  tail,         \* the loop counter of write_log() and install_trans()
  pc,           \* where each process is
  buf,          \* the block whose buffer a process holds locked, or NoBlock
  wrote         \* the blocks a process has logged in its current operation

disk  == <<hdr, logd, home>>
bio   == <<cache, refcnt>>
log   == <<lh, outstanding, committing>>
local == <<pc, buf, wrote>>
vars  == <<disk, bio, log, phase, tail, local>>

Phases == {"read_head", "install", "erase", "recovered", "up"}
InOp   == {"op", "bread", "log_write", "panic"}
Commit == {"write_log", "write_head", "install_trans", "clear", "end_commit"}
PCs    == {"idle", "begin", "asleep"} \cup InOp \cup Commit

LoggedBlocks(s) == {s[i] : i \in DOMAIN s}

-----------------------------------------------------------------------------
(* Buffer cache, as far as the log uses it.                                *)

\* bread() of a home block: the cached contents if a buffer has the block,
\* otherwise what is on the disk.
Contents(b) == IF cache[b] = NoData THEN home[b] ELSE cache[b]

\* bget() called for some other block recycles a buffer nobody references.
\* Its contents are dropped, whatever they are.
Recycle(b) ==
  /\ cache[b] # NoData
  /\ refcnt[b] = 0
  /\ cache' = [cache EXCEPT ![b] = NoData]
  /\ UNCHANGED <<disk, refcnt, log, phase, tail, local>>

\* b = bread(dev, blockno) in an operation: takes a reference and the lock.
Bread(p, b) ==
  /\ phase = "up"
  /\ pc[p] = "op"
  /\ \A q \in Procs : buf[q] # b
  /\ cache' = [cache EXCEPT ![b] = Contents(b)]
  /\ refcnt' = [refcnt EXCEPT ![b] = @ + 1]
  /\ pc' = [pc EXCEPT ![p] = "bread"]
  /\ buf' = [buf EXCEPT ![p] = b]
  /\ UNCHANGED <<disk, log, phase, tail, wrote>>

Brelse(p) ==
  /\ pc[p] = "bread"
  /\ refcnt' = [refcnt EXCEPT ![buf[p]] = @ - 1]
  /\ pc' = [pc EXCEPT ![p] = "op"]
  /\ buf' = [buf EXCEPT ![p] = NoBlock]
  /\ UNCHANGED <<disk, cache, log, phase, tail, wrote>>

-----------------------------------------------------------------------------
(* The operations of a file-system call.                                   *)

\* wakeup(&log): every process asleep in begin_op() goes round its loop again.
Awake(f) == [q \in Procs |-> IF f[q] = "asleep" THEN "begin" ELSE f[q]]

\* Mutant: an operation starts although a commit is running.
BeginOpDuringCommit(p) ==
  /\ phase = "up"
  /\ pc[p] \in {"idle", "begin"}
  /\ IF Len(lh) + (outstanding + 1) * MAXOPBLOCKS > LOGSIZE
     THEN pc' = [pc EXCEPT ![p] = "asleep"] /\ UNCHANGED outstanding
     ELSE pc' = [pc EXCEPT ![p] = "op"] /\ outstanding' = outstanding + 1
  /\ UNCHANGED <<disk, bio, lh, committing, phase, tail, buf, wrote>>

BeginOp(p) ==
  /\ phase = "up"
  /\ pc[p] \in {"idle", "begin"}
  /\ IF committing = 1 \/ Len(lh) + (outstanding + 1) * MAXOPBLOCKS > LOGSIZE
     THEN /\ pc' = [pc EXCEPT ![p] = "asleep"]
          /\ UNCHANGED outstanding
     ELSE /\ pc' = [pc EXCEPT ![p] = "op"]
          /\ outstanding' = outstanding + 1
  /\ UNCHANGED <<disk, bio, lh, committing, phase, tail, buf, wrote>>

\* The caller changes b->data and calls log_write(b), which looks at log.lh.n
\* and log.outstanding before it takes log.lock.  An operation logs at most
\* OpBlocks different blocks.
LogWrite(p, v) ==
  /\ pc[p] = "bread"
  /\ buf[p] \in wrote[p] \/ Cardinality(wrote[p]) < OpBlocks
  /\ cache' = [cache EXCEPT ![buf[p]] = v]
  /\ pc' = [pc EXCEPT ![p] = IF Len(lh) >= LOGSIZE \/ Len(lh) >= NLog - 1 \/ outstanding < 1
                             THEN "panic" ELSE "log_write"]
  /\ UNCHANGED <<disk, refcnt, log, phase, tail, buf, wrote>>

\* Mutant: the buffer is not pinned.
LogRecordNoPin(p) ==
  /\ pc[p] = "log_write"
  /\ lh' = IF buf[p] \in LoggedBlocks(lh) THEN lh ELSE Append(lh, buf[p])
  /\ wrote' = [wrote EXCEPT ![p] = @ \cup {buf[p]}]
  /\ pc' = [pc EXCEPT ![p] = "bread"]
  /\ UNCHANGED <<disk, bio, outstanding, committing, phase, tail, buf>>

\* The rest of log_write(), under log.lock: absorb, or append and pin.
LogRecord(p) ==
  /\ pc[p] = "log_write"
  /\ IF buf[p] \in LoggedBlocks(lh)
     THEN UNCHANGED <<lh, refcnt>>
     ELSE /\ lh' = Append(lh, buf[p])
          /\ refcnt' = [refcnt EXCEPT ![buf[p]] = @ + 1]
  /\ wrote' = [wrote EXCEPT ![p] = @ \cup {buf[p]}]
  /\ pc' = [pc EXCEPT ![p] = "bread"]
  /\ UNCHANGED <<disk, cache, outstanding, committing, phase, tail, buf>>

EndOp(p) ==
  /\ pc[p] = "op"
  /\ outstanding' = outstanding - 1
  /\ IF committing = 1
     THEN pc' = [pc EXCEPT ![p] = "panic"] /\ UNCHANGED <<committing, tail>>
     ELSE IF outstanding' = 0
     THEN /\ committing' = 1
          /\ tail' = 0
          /\ pc' = [pc EXCEPT ![p] = IF Len(lh) > 0 THEN "write_log" ELSE "end_commit"]
     ELSE pc' = Awake([pc EXCEPT ![p] = "idle"]) /\ UNCHANGED <<committing, tail>>
  /\ wrote' = [wrote EXCEPT ![p] = {}]
  /\ UNCHANGED <<disk, bio, lh, phase, buf>>

-----------------------------------------------------------------------------
(* commit(), run by the last operation to end, one disk write at a time.   *)

WriteLog(p) ==
  /\ pc[p] = "write_log"
  /\ logd' = [logd EXCEPT ![tail + 1] = Contents(lh[tail + 1])]
  /\ cache' = [cache EXCEPT ![lh[tail + 1]] = Contents(lh[tail + 1])]
  /\ IF tail + 1 < Len(lh)
     THEN tail' = tail + 1 /\ UNCHANGED pc
     ELSE tail' = 0 /\ pc' = [pc EXCEPT ![p] = "write_head"]
  /\ UNCHANGED <<hdr, home, refcnt, log, phase, buf, wrote>>

WriteHead(p) ==
  /\ pc[p] = "write_head"
  /\ hdr' = lh
  /\ pc' = [pc EXCEPT ![p] = "install_trans"]
  /\ UNCHANGED <<logd, home, bio, log, phase, tail, buf, wrote>>

\* One turn of install_trans(): bread(), copy, bwrite(), bunpin(), brelse().
Install ==
  LET b == lh[tail + 1] IN
  /\ cache' = [cache EXCEPT ![b] = logd[tail + 1]]
  /\ home' = [home EXCEPT ![b] = logd[tail + 1]]
  /\ refcnt' = [refcnt EXCEPT ![b] = @ - 1]
  /\ tail' = IF tail + 1 < Len(lh) THEN tail + 1 ELSE 0

\* Mutant: the loop stops one block short.
InstallTransShort(p) ==
  /\ pc[p] = "install_trans"
  /\ Install
  /\ pc' = [pc EXCEPT ![p] = IF tail + 2 < Len(lh) THEN @ ELSE "clear"]
  /\ UNCHANGED <<hdr, logd, log, phase, buf, wrote>>

InstallTrans(p) ==
  /\ pc[p] = "install_trans"
  /\ Install
  /\ pc' = [pc EXCEPT ![p] = IF tail + 1 < Len(lh) THEN @ ELSE "clear"]
  /\ UNCHANGED <<hdr, logd, log, phase, buf, wrote>>

\* log.lh.n = 0; write_head();
Clear(p) ==
  /\ pc[p] = "clear"
  /\ lh' = <<>>
  /\ hdr' = <<>>
  /\ pc' = [pc EXCEPT ![p] = "end_commit"]
  /\ UNCHANGED <<logd, home, bio, outstanding, committing, phase, tail, buf, wrote>>

\* Mutant: nobody is woken after the commit.
EndCommitNoWakeup(p) ==
  /\ pc[p] = "end_commit"
  /\ committing' = 0
  /\ pc' = [pc EXCEPT ![p] = "idle"]
  /\ UNCHANGED <<disk, bio, lh, outstanding, phase, tail, buf, wrote>>

\* The end of end_op(), under log.lock.
EndCommit(p) ==
  /\ pc[p] = "end_commit"
  /\ committing' = 0
  /\ pc' = Awake([pc EXCEPT ![p] = "idle"])
  /\ UNCHANGED <<disk, bio, lh, outstanding, phase, tail, buf, wrote>>

-----------------------------------------------------------------------------
(* Crash and recovery.  initlog() runs recover_from_log() before any       *)
(* process makes a file-system call.                                       *)

Crash ==
  /\ cache' = [b \in Blocks |-> NoData]
  /\ refcnt' = [b \in Blocks |-> 0]
  /\ lh' = <<>>
  /\ outstanding' = 0
  /\ committing' = 0
  /\ phase' = "read_head"
  /\ tail' = 0
  /\ pc' = [p \in Procs |-> "idle"]
  /\ buf' = [p \in Procs |-> NoBlock]
  /\ wrote' = [p \in Procs |-> {}]
  /\ UNCHANGED disk

ReadHead ==
  /\ phase = "read_head"
  /\ lh' = hdr
  /\ phase' = IF Len(hdr) > 0 THEN "install" ELSE "erase"
  /\ UNCHANGED <<disk, bio, outstanding, committing, tail, local>>

RecoverInstall ==
  /\ phase = "install"
  /\ Install
  /\ phase' = IF tail + 1 < Len(lh) THEN phase ELSE "erase"
  /\ UNCHANGED <<hdr, logd, log, local>>

\* log.lh.n = 0; write_head(); at the end of recover_from_log().
RecoverErase ==
  /\ phase = "erase"
  /\ lh' = <<>>
  /\ hdr' = <<>>
  /\ phase' = "recovered"
  /\ UNCHANGED <<logd, home, bio, outstanding, committing, tail, local>>

\* initlog() and fsinit() return to forkret(), and the first process goes to
\* user space: from here on there are file-system calls.
Start ==
  /\ phase = "recovered"
  /\ phase' = "up"
  /\ UNCHANGED <<disk, bio, log, tail, local>>

-----------------------------------------------------------------------------
\* mkfs writes an all-zero log; the machine is switched on.
Init ==
  /\ hdr = <<>>
  /\ logd = [i \in 1 .. NLog - 1 |-> Zero]
  /\ home \in [Blocks -> Values]
  /\ cache = [b \in Blocks |-> NoData]
  /\ refcnt = [b \in Blocks |-> 0]
  /\ lh = <<>>
  /\ outstanding = 0
  /\ committing = 0
  /\ phase = "read_head"
  /\ tail = 0
  /\ pc = [p \in Procs |-> "idle"]
  /\ buf = [p \in Procs |-> NoBlock]
  /\ wrote = [p \in Procs |-> {}]

CommitStep(p) == WriteLog(p) \/ WriteHead(p) \/ InstallTrans(p) \/ Clear(p) \/ EndCommit(p)

Recover == ReadHead \/ RecoverInstall \/ RecoverErase \/ Start

Next ==
  \/ \E b \in Blocks : Recycle(b)
  \/ \E p \in Procs, b \in Blocks : Bread(p, b)
  \/ \E p \in Procs, v \in Values : LogWrite(p, v)
  \/ \E p \in Procs : BeginOp(p) \/ LogRecord(p) \/ Brelse(p) \/ EndOp(p) \/ CommitStep(p)
  \/ Recover
  \/ Crash

Spec == Init /\ [][Next]_vars

(***************************************************************************)
(* install_trans() releases the pin of every block it installs, and during *)
(* recovery nothing has pinned them: each installed block leaves recovery  *)
(* with a reference count of -1 (wrapped).  SoundRefcnts excludes the      *)
(* states in which operations run on such counts, and nothing else: a      *)
(* recovery installs the transaction and erases the header as always, but  *)
(* only one that had nothing to install is followed by Start.  After the   *)
(* others the machine is switched off and on once more: a Crash in phase   *)
(* "recovered" leads to an empty header, and from there to phase "up".     *)
(***************************************************************************)
SoundRefcnts == phase = "up" => \A b \in Blocks : refcnt[b] >= 0

SoundSpec == Init /\ [][Next /\ SoundRefcnts']_vars

\* Every operation comes to its end_op(): file-system calls are finite loops.
\* A woken process runs again, and commit() and the boot go on; none of them
\* waits for anything but the steps below.  Nothing forces a crash, and no
\* process need start an operation.
Fairness ==
  /\ WF_vars(Recover)
  /\ \A p \in Procs : /\ WF_vars(pc[p] = "begin" /\ BeginOp(p))
                      /\ WF_vars(LogRecord(p))
                      /\ SF_vars(Brelse(p))
                      /\ SF_vars(EndOp(p))
                      /\ WF_vars(CommitStep(p))

FairSpec == Spec /\ Fairness

-----------------------------------------------------------------------------
\* The type of the state: in particular log.outstanding never goes below zero,
\* and log.lh and the header on disk name blocks of the file system only.
TypeOK ==
  /\ hdr \in Seq(Blocks)
  /\ logd \in [1 .. NLog - 1 -> Values]
  /\ home \in [Blocks -> Values]
  /\ cache \in [Blocks -> Values \cup {NoData}]
  /\ refcnt \in [Blocks -> Int]
  /\ lh \in Seq(Blocks)
  /\ outstanding \in Nat
  /\ committing \in {0, 1}
  /\ phase \in Phases
  /\ tail \in Nat
  /\ pc \in [Procs -> PCs]
  /\ buf \in [Procs -> Blocks \cup {NoBlock}]
  /\ wrote \in [Procs -> SUBSET Blocks]

(***************************************************************************)
(* Control: who is where, and how much of the log is spoken for.           *)
(***************************************************************************)
Active == {p \in Procs : pc[p] \in InOp}

\* No process runs into one of the panics of log_write() and end_op(): "too
\* big a transaction", "log_write outside of trans", "log.committing".
NoPanic == \A p \in Procs : pc[p] # "panic"

\* A commit runs only while no file-system call is between begin_op() and
\* end_op(), and only one process commits (log.c:12-16).
QuietCommit ==
  /\ \A p, q \in Procs : pc[p] \in Commit /\ pc[q] \in Commit => p = q
  /\ \A p, q \in Procs : pc[p] \in Commit => pc[q] \notin InOp

\* Whoever sleeps in begin_op() has somebody left to wake it: an operation
\* that will call end_op(), or a commit that will finish.
SleepersHaveWaker ==
  \A p \in Procs : pc[p] = "asleep" => outstanding > 0 \/ committing = 1

\* The entries of the log that running operations have reserved and not used.
Unused == {r \in Procs \X (1 .. MAXOPBLOCKS) :
             r[1] \in Active /\ r[2] > Cardinality(wrote[r[1]])}

\* What is logged and what is reserved fit, and what is logged fits on the disk.
SpaceReserved ==
  /\ Len(lh) + Cardinality(Unused) <= LOGSIZE
  /\ Len(lh) < NLog
  /\ Len(hdr) <= LOGSIZE
  /\ Len(hdr) < NLog

\* The counters agree with where the processes are, and an idle log is empty.
CountsAgree ==
  /\ outstanding = Cardinality(Active)
  /\ committing = IF \E p \in Procs : pc[p] \in Commit THEN 1 ELSE 0
  /\ (outstanding = 0 /\ committing = 0 /\ phase \in {"recovered", "up"}) => lh = <<>>
  /\ phase # "up" => \A p \in Procs : pc[p] = "idle"

\* A process is where its locked buffer and its writes say.
BuffersAgree ==
  /\ \A p \in Procs : pc[p] \in {"bread", "log_write", "panic"} <=> buf[p] # NoBlock
  /\ \A p, q \in Procs : buf[p] = buf[q] /\ buf[p] # NoBlock => p = q
  /\ \A p \in Procs :
       /\ IsFiniteSet(wrote[p]) /\ Cardinality(wrote[p]) <= OpBlocks
       /\ pc[p] = "log_write" => buf[p] \in wrote[p] \/ Cardinality(wrote[p]) < OpBlocks
       /\ wrote[p] # {} => pc[p] \in InOp
       /\ wrote[p] \subseteq LoggedBlocks(lh)

\* The loops of commit() and of recovery stay within the transaction.
TailAgrees ==
  /\ \A p \in Procs : /\ pc[p] \in {"write_log", "write_head", "install_trans"} => tail < Len(lh)
                      /\ pc[p] = "write_head" => tail = 0
                      /\ pc[p] = "end_commit" => lh = <<>>
  /\ phase = "read_head" => tail = 0
  /\ phase = "install" => tail < Len(lh)

\* The inductive invariant behind the absence of panics and lost wakeups.
ControlInv ==
  /\ TypeOK
  /\ CountsAgree
  /\ BuffersAgree
  /\ TailAgrees
  /\ QuietCommit
  /\ SpaceReserved
  /\ NoPanic
  /\ SleepersHaveWaker

\* The sizes of the log fit the operations: with at most OpBlocks blocks per
\* operation the reservation of begin_op() leaves room in the log on disk.
\* (xv6: 7 < 10 and 30 + 7 + 1 < 30 + 10.)
LogFits ==
  /\ OpBlocks < MAXOPBLOCKS
  /\ LOGSIZE + OpBlocks + 1 < NLog + MAXOPBLOCKS

(***************************************************************************)
(* Data: which copy of a block is the good one.                            *)
(***************************************************************************)
Distinct(s) == \A i, j \in DOMAIN s : s[i] = s[j] => i = j

\* Entry i of the transaction has been copied to its home block.
Installed(i) ==
  \E p \in Procs : pc[p] = "clear" \/ (pc[p] = "install_trans" /\ i <= tail)

Pinned(b) == \E i \in DOMAIN lh : lh[i] = b /\ ~Installed(i)

Held(b) == \E p \in Procs : buf[p] = b

\* Changed, and not yet recorded in the log header.
Unrecorded(b) == \E p \in Procs : pc[p] \in {"log_write", "panic"} /\ buf[p] = b

Count(B) == IF B THEN 1 ELSE 0

\* The header on disk names the transaction from write_head() until it is cleared.
HeaderAgrees ==
  /\ Distinct(lh) /\ Distinct(hdr)
  /\ phase = "up" => hdr = IF \E p \in Procs : pc[p] \in {"install_trans", "clear"} THEN lh ELSE <<>>
  /\ phase \in {"install", "erase", "recovered"} => hdr = lh

\* The log on disk has the new contents before the header names them.
LogCopied ==
  \A p \in Procs, i \in DOMAIN lh :
    pc[p] \in {"write_head", "install_trans"} \/ (pc[p] = "write_log" /\ i <= tail)
      => logd[i] = Contents(lh[i])

\* The home blocks have the new contents before the header is cleared.
HomeCopied ==
  \A i \in DOMAIN lh :
    Installed(i) \/ phase = "erase" \/ (phase = "install" /\ i <= tail)
      => home[lh[i]] = logd[i] /\ Contents(lh[i]) = logd[i]

\* A block outside the transaction is the same in the cache and on disk.
CacheClean ==
  \A b \in Blocks :
    phase # "up" \/ (b \notin LoggedBlocks(lh) /\ ~Unrecorded(b)) => Contents(b) = home[b]

\* Every lock holder and every pin is counted, and keeps the buffer in the cache.
Referenced ==
  phase = "up" => \A b \in Blocks : /\ refcnt[b] >= Count(Held(b)) + Count(Pinned(b))
                                    /\ Held(b) \/ Pinned(b) => cache[b] # NoData

\* The inductive invariant behind crash atomicity.
DataInv == HeaderAgrees /\ LogCopied /\ HomeCopied /\ CacheClean /\ Referenced

\* A block of the current transaction that is not yet at home is in the cache
\* and cannot be recycled (log_write() "pin in the cache").
LoggedBlocksPinned ==
  phase = "up" => \A b \in Blocks : Pinned(b) => cache[b] # NoData /\ refcnt[b] > 0

\* No wakeup is lost: a process asleep in begin_op() is woken.
SleepersWake == \A p \in Procs : pc[p] = "asleep" ~> pc[p] # "asleep"

-----------------------------------------------------------------------------
(* The abstraction: the contents a crash would leave, and those the file   *)
(* system sees.                                                            *)

Slot(s, b) == CHOOSE i \in DOMAIN s : s[i] = b

AfterRecovery ==
  [b \in Blocks |-> IF b \in LoggedBlocks(hdr) THEN logd[Slot(hdr, b)] ELSE home[b]]

Visible ==
  IF phase = "up" THEN [b \in Blocks |-> Contents(b)] ELSE AfterRecovery

Abstract == INSTANCE AtomicDisk WITH
  disk <- AfterRecovery, mem <- Visible, active <- Active,
  up <- (phase = "up")

\* The log implements an atomic disk.
CrashAtomic == Abstract!Spec
=============================================================================
