-------------------------------- MODULE Pipe --------------------------------
(***************************************************************************)
(* Pipes: kernel/pipe.c, with the reference counts of kernel/file.c that   *)
(* decide when an end is closed, and sleep(), wakeup() and kill() of       *)
(* kernel/proc.c as pipes use them.                                        *)
(*                                                                         *)
(* A section that runs under pi->lock is one step, except where the code   *)
(* reads pr->killed, which kill() sets without pi->lock: the check and the *)
(* sleep that follows it are two steps with the lock held throughout.      *)
(***************************************************************************)
EXTENDS Integers, Sequences, FiniteSets

CONSTANTS
  Readers,    \* processes that have the read end open
  Writers,    \* processes that have the write end open
  Bytes,      \* values of a byte
  PIPESIZE,   \* pipe.c
  UINT,       \* 2^32: nread and nwrite are uints
  MaxN        \* bound: the largest n of a read or write

ASSUME PipeAssumption ==
  /\ PIPESIZE \in Nat \ {0}
  /\ UINT \in Nat /\ UINT > PIPESIZE /\ UINT % PIPESIZE = 0
  /\ MaxN \in Nat
  /\ IsFiniteSet(Readers) /\ IsFiniteSet(Writers)
  /\ Readers \cap Writers = {}
  /\ "none" \notin Readers \cup Writers   \* None is no process
  /\ Bytes # {}

Procs == Readers \cup Writers

VARIABLES
  nread, nwrite, data, readopen, writeopen,   \* struct pipe
  freed,      \* 1 after kfree(pi)
  lock,       \* the process that holds pi->lock, or None
  ref,        \* f->ref of the two files, "r" and "w"
  pc,         \* where each process is
  left,       \* bytes its call has still to transfer
  killed      \* p->killed

pipe == <<nread, nwrite, data, readopen, writeopen, freed>>
vars == <<pipe, lock, ref, pc, left, killed>>

None == "none"

\* Inside piperead() or pipewrite().
Waiting  == {"empty", "full", "sleepy", "asleep"}
InCall   == {"read", "write"} \cup Waiting
PCs      == {"open", "closing", "closed"} \cup InCall

Used  == (nwrite - nread) % UINT

Room == PIPESIZE - Used

\* The bytes in the ring, oldest first.
Queue == [i \in 1 .. Used |-> data[((nread + i - 1) % UINT) % PIPESIZE]]

\* Mutant: the wakeup is forgotten.
WakeNobody(f) == f

\* wakeup(&pi->nread) and wakeup(&pi->nwrite): the sleepers go on to acquire
\* pi->lock and to test their condition again.
WakeReaders(f) == [p \in Procs |-> IF p \in Readers /\ f[p] = "asleep" THEN "read" ELSE f[p]]
WakeWriters(f) == [p \in Procs |-> IF p \in Writers /\ f[p] = "asleep" THEN "write" ELSE f[p]]

-----------------------------------------------------------------------------
(* pipewrite(); usertrap() begins no system call for a killed process.     *)

StartWrite(p, n) ==
  /\ p \in Writers /\ pc[p] = "open" /\ killed[p] = 0
  /\ pc' = [pc EXCEPT ![p] = "write"]
  /\ left' = [left EXCEPT ![p] = n]
  /\ UNCHANGED <<pipe, lock, ref, killed>>

\* k bytes are copied in: all that are left; or as many as there is room for,
\* and the loop finds the pipe full; or fewer, because copyin() failed.
WriteBytes(p) ==
  /\ pc[p] = "write" /\ lock = None
  /\ \E k \in 0 .. PIPESIZE :
       /\ k <= left[p] /\ k <= Room
       /\ \E s \in [1 .. k -> Bytes] :
            data' = [j \in 0 .. PIPESIZE - 1 |->
                       IF \E i \in 1 .. k : j = ((nwrite + i - 1) % UINT) % PIPESIZE
                       THEN s[CHOOSE i \in 1 .. k : j = ((nwrite + i - 1) % UINT) % PIPESIZE]
                       ELSE data[j]]
       /\ nwrite' = (nwrite + k) % UINT
       /\ IF k < left[p] /\ k = Room
          THEN /\ lock' = p
               /\ pc' = [pc EXCEPT ![p] = "full"]
               /\ left' = [left EXCEPT ![p] = @ - k]
          ELSE /\ pc' = WakeReaders([pc EXCEPT ![p] = "open"])
               /\ left' = [left EXCEPT ![p] = 0]
               /\ UNCHANGED lock
  /\ UNCHANGED <<nread, readopen, writeopen, freed, ref, killed>>

\* The pipe is full: give up, or wake the readers and sleep.
WriteFull(p) ==
  /\ pc[p] = "full"
  /\ IF readopen = 0 \/ killed[p] = 1
     THEN /\ pc' = [pc EXCEPT ![p] = "open"]
          /\ left' = [left EXCEPT ![p] = 0]
          /\ lock' = None
     ELSE /\ pc' = WakeReaders([pc EXCEPT ![p] = "sleepy"])
          /\ UNCHANGED <<left, lock>>
  /\ UNCHANGED <<pipe, ref, killed>>

-----------------------------------------------------------------------------
(* piperead()                                                              *)

StartRead(p, n) ==
  /\ p \in Readers /\ pc[p] = "open" /\ killed[p] = 0
  /\ pc' = [pc EXCEPT ![p] = "read"]
  /\ left' = [left EXCEPT ![p] = n]
  /\ UNCHANGED <<pipe, lock, ref, killed>>

ReadEmpty(p) ==
  /\ pc[p] = "read" /\ lock = None
  /\ nread = nwrite /\ writeopen = 1
  /\ lock' = p
  /\ pc' = [pc EXCEPT ![p] = "empty"]
  /\ UNCHANGED <<pipe, ref, left, killed>>

\* The loop of piperead(): it takes what there is, up to n bytes, or stops after
\* a byte that copyout() could not deliver.
ReadBytes(p) ==
  /\ pc[p] = "read" /\ lock = None
  /\ nread # nwrite \/ writeopen = 0
  /\ \E k \in 0 .. PIPESIZE :
       /\ k <= left[p] /\ k <= Used
       /\ k = 0 => left[p] = 0 \/ Used = 0
       /\ nread' = (nread + k) % UINT
  /\ pc' = WakeWriters([pc EXCEPT ![p] = "open"])
  /\ left' = [left EXCEPT ![p] = 0]
  /\ UNCHANGED <<nwrite, data, readopen, writeopen, freed, lock, ref, killed>>

ReadCheckKilled(p) ==
  /\ pc[p] = "empty"
  /\ IF killed[p] = 1
     THEN /\ pc' = [pc EXCEPT ![p] = "open"]
          /\ left' = [left EXCEPT ![p] = 0]
          /\ lock' = None
     ELSE /\ pc' = [pc EXCEPT ![p] = "sleepy"]
          /\ UNCHANGED <<left, lock>>
  /\ UNCHANGED <<pipe, ref, killed>>

-----------------------------------------------------------------------------
\* sleep(chan, &pi->lock): p->lock is taken before pi->lock is released, so
\* that a wakeup() comes before or after both.
Sleep(p) ==
  /\ pc[p] = "sleepy"
  /\ pc' = [pc EXCEPT ![p] = "asleep"]
  /\ lock' = None
  /\ UNCHANGED <<pipe, ref, left, killed>>

\* kill(): sets p->killed and ends the sleep, whatever its channel.
Kill(p) ==
  /\ killed[p] = 0
  /\ killed' = [killed EXCEPT ![p] = 1]
  /\ pc' = [pc EXCEPT ![p] = IF @ # "asleep" THEN @ ELSE IF p \in Readers THEN "read" ELSE "write"]
  /\ UNCHANGED <<pipe, lock, ref, left>>

-----------------------------------------------------------------------------
(* fileclose() and pipeclose()                                             *)

End(p) == IF p \in Writers THEN "w" ELSE "r"

\* Mutant: the first close of a file closes the end.
FileCloseFirst(p) ==
  /\ pc[p] = "open"
  /\ ref' = [ref EXCEPT ![End(p)] = @ - 1]
  /\ pc' = [pc EXCEPT ![p] = "closing"]
  /\ UNCHANGED <<pipe, lock, left, killed>>

FileClose(p) ==
  /\ pc[p] = "open"
  /\ ref' = [ref EXCEPT ![End(p)] = @ - 1]
  /\ pc' = [pc EXCEPT ![p] = IF ref[End(p)] - 1 > 0 THEN "closed" ELSE "closing"]
  /\ UNCHANGED <<pipe, lock, left, killed>>

FreeWhen(r, w) == IF r = 0 /\ w = 0 THEN 1 ELSE 0

\* Mutant: closing the write end throws away what was not read.
PipeCloseDiscards(p) ==
  /\ pc[p] = "closing" /\ lock = None
  /\ IF End(p) = "w"
     THEN /\ writeopen' = 0 /\ nwrite' = nread
          /\ pc' = WakeReaders([pc EXCEPT ![p] = "closed"])
          /\ UNCHANGED readopen
     ELSE /\ readopen' = 0
          /\ pc' = WakeWriters([pc EXCEPT ![p] = "closed"])
          /\ UNCHANGED <<writeopen, nwrite>>
  /\ freed' = FreeWhen(readopen', writeopen')
  /\ UNCHANGED <<nread, data, lock, ref, left, killed>>

PipeClose(p) ==
  /\ pc[p] = "closing" /\ lock = None
  /\ IF End(p) = "w"
     THEN /\ writeopen' = 0
          /\ pc' = WakeReaders([pc EXCEPT ![p] = "closed"])
          /\ UNCHANGED readopen
     ELSE /\ readopen' = 0
          /\ pc' = WakeWriters([pc EXCEPT ![p] = "closed"])
          /\ UNCHANGED writeopen
  /\ freed' = FreeWhen(readopen', writeopen')
  /\ UNCHANGED <<nread, nwrite, data, lock, ref, left, killed>>

-----------------------------------------------------------------------------
\* pipealloc(); fork() and dup() have given the ends to Readers and Writers.
Init ==
  /\ nread = 0 /\ nwrite = 0
  /\ data = [j \in 0 .. PIPESIZE - 1 |-> CHOOSE b \in Bytes : TRUE]   \* kalloc()'s junk
  /\ readopen = 1 /\ writeopen = 1
  /\ freed = 0
  /\ lock = None
  /\ ref = [e \in {"r", "w"} |-> Cardinality(IF e = "r" THEN Readers ELSE Writers)]
  /\ pc = [p \in Procs |-> "open"]
  /\ left = [p \in Procs |-> 0]
  /\ killed = [p \in Procs |-> 0]

\* The steps of a call once it has begun.
CallStep(p) ==
  \/ WriteBytes(p) \/ WriteFull(p)
  \/ ReadEmpty(p) \/ ReadCheckKilled(p) \/ ReadBytes(p)
  \/ Sleep(p)

Next ==
  \E p \in Procs :
    \/ \E n \in 0 .. MaxN : StartWrite(p, n) \/ StartRead(p, n)
    \/ CallStep(p)
    \/ Kill(p)
    \/ FileClose(p) \/ PipeClose(p)

Spec == Init /\ [][Next]_vars

\* A process in the kernel goes on, and one that waits for pi->lock gets it:
\* every section under the lock is finite.  Nobody has to make a call.
Fairness == \A p \in Procs : SF_vars(CallStep(p) \/ PipeClose(p))

FairSpec == Spec /\ Fairness

-----------------------------------------------------------------------------
\* The type of the state; the two counters stay within PIPESIZE of each other.
TypeOK ==
  /\ nread \in 0 .. UINT - 1 /\ nwrite \in 0 .. UINT - 1
  /\ Used <= PIPESIZE
  /\ data \in [0 .. PIPESIZE - 1 -> Bytes]
  /\ {readopen, writeopen, freed} \subseteq {0, 1}
  /\ lock \in Procs \cup {None}
  /\ ref \in [{"r", "w"} -> Nat]
  /\ pc \in [Procs -> PCs]
  /\ left \in [Procs -> 0 .. MaxN]
  /\ killed \in [Procs -> {0, 1}]

\* After kfree(pi) nobody is, or will be, inside pipe.c.
NoUseAfterFree == freed = 1 => \A p \in Procs : pc[p] = "closed"

\* No wakeup is lost: while nobody holds pi->lock, a writer sleeps only if the
\* pipe is full and can be read, and a reader only if it can be written and is
\* empty.  A writer that is killed leaves a full pipe without a wakeup, so the
\* last claim needs that no writer was.
NoLostWakeup ==
  lock = None =>
    /\ \A w \in Writers : pc[w] = "asleep" => Used = PIPESIZE /\ readopen = 1
    /\ \A r \in Readers : pc[r] = "asleep" =>
         writeopen = 1 /\ ((\A w \in Writers : killed[w] = 0) => Used = 0)

\* pi->lock is held where a call is between its test and its sleep, and the two
\* ends run only their own half of pipe.c.
LockAgrees ==
  \A p \in Procs :
    /\ pc[p] \in {"empty", "full", "sleepy"} <=> lock = p
    /\ p \in Readers => pc[p] \notin {"write", "full"}
    /\ p \in Writers => pc[p] \notin {"read", "empty"}

\* The processes that still have end e open.
Using(e) == {p \in Procs : End(p) = e /\ pc[p] \notin {"closing", "closed"}}

\* f->ref counts the users of an end; only the last of them closes it.
EndsAgree ==
  /\ \A e \in {"r", "w"} : ref[e] = Cardinality(Using(e))
  /\ \A p, q \in Procs : pc[p] = "closing" /\ End(q) = End(p) /\ q # p => pc[q] = "closed"
  /\ readopen = 0 => \A p \in Readers : pc[p] = "closed"
  /\ writeopen = 0 => \A p \in Writers : pc[p] = "closed"
  /\ freed = FreeWhen(readopen, writeopen)

\* What a call has found out about the pipe stays true until it sleeps, and
\* while it sleeps; a writer on its way to sleep has woken the readers.
WaitersAgree ==
  /\ \A w \in Writers :
       /\ pc[w] \in {"full", "sleepy", "asleep"} => Used = PIPESIZE
       /\ pc[w] \in {"sleepy", "asleep"} => readopen = 1
       /\ pc[w] = "sleepy" => \A r \in Readers : pc[r] # "asleep"
  /\ \A r \in Readers :
       /\ pc[r] \in {"empty", "sleepy"} => Used = 0
       /\ pc[r] \in {"empty", "sleepy", "asleep"} => writeopen = 1
       /\ pc[r] = "asleep" => Used = 0 \/ \E w \in Writers : killed[w] = 1 \/ pc[w] = "full"

\* The inductive invariant of the pipe.
PipeInv == TypeOK /\ LockAgrees /\ EndsAgree /\ WaitersAgree

\* A read that finds nothing returns (0 bytes: end of file) only after the last
\* writer closed the pipe.
EofOnlyAfterClose ==
  [][\A p \in Readers : ReadBytes(p) /\ Used = 0 => \A w \in Writers : pc[w] = "closed"]_vars

\* When one end is closed, a call at the other end that waits for it returns.
ClosedEndReleases ==
  /\ \A p \in Readers : pc[p] \in InCall /\ writeopen = 0 ~> pc[p] \notin InCall
  /\ \A p \in Writers : pc[p] \in InCall /\ readopen = 0 ~> pc[p] \notin InCall

Stream == INSTANCE ByteStream WITH
  queue <- Queue, wopen <- writeopen, ropen <- readopen, Capacity <- PIPESIZE

\* A pipe is a first-in first-out queue of bytes of bounded size.
PipeIsByteStream == Stream!Spec
=============================================================================
