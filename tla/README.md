# xv6 (RISC-V): TLA+ models, model checking and proofs

This directory holds TLA+ specifications of the xv6 kernel in `../src/kernel` and
of the programs in `../src/user` that have a protocol or an algorithm worth
checking. Every module is a translation of the C code; `PROJECT.json` maps each
definition to the lines it models. TLC checks the modules on small instances, and
TLAPS proves the main invariants of eight of them for every value of the constants.

Contents: 1 the system, 2 modules and code, 3 runs, 4 fairness, 5 proofs,
6 where code and comments disagree, 7 other behaviours worth knowing, 8 limits.

## 1. The system and its parts

xv6 is a small multiprocessor Unix kernel. Processes enter it by system calls and
interrupts. Inside, one thread per process, one scheduler per CPU and the
interrupt handlers share data under spin locks, sleep on channels and are woken.

| Part | Source | What makes it correct | Modules |
|---|---|---|---|
| Spin locks, interrupt flag, traps, clock, scheduler | `spinlock.c`, `trap.c`, `kernelvec.S`, `proc.c`, `sysproc.c` | no panic over a lock; interrupts off whenever they must be; one CPU per kernel stack; no lost tick | `Harts`, `HartsProofs` |
| Process table | `proc.c` | no exit lost to a waiting parent, slots freed off the CPU, lock order | `Proc`, `ProcProofs` |
| Memory and open files of processes | `kalloc.c`, `vm.c`, `exec.c`, `file.c`, `proc.c` | one owner per page, nothing leaked on a failure path, counted references | `PageTable`, `Resources` |
| Sleep locks and buffer cache | `sleeplock.c`, `bio.c` | one buffer per block, current contents, counted users | `Buffers`, `BuffersProofs` |
| Disk driver | `virtio_disk.c` | descriptors owned once, requests neither lost nor duplicated | `VirtioDisk`, `VirtioProofs` |
| Log | `log.c` | operations are on disk entirely or not at all after any crash | `Log`, `AtomicDisk`, `LogProofs` |
| File contents, block allocation | `fs.c`, `file.c` | a file is a sequence of bytes; blocks owned once; reservations kept | `FileData`, `ByteFile` |
| Inodes and directories | `fs.c`, `sysfile.c` | references and links counted, no deadlock among inode locks | `FsTree` |
| Pipes | `pipe.c` | a bounded queue of bytes, end of file only after close | `Pipe`, `ByteStream`, `PipeProofs` |
| Console and UART | `console.c`, `uart.c` | lines in order, output in order, no lost wakeup | `Console`, `LineInput`, `ConsoleProofs` |
| Shell, `init` | `user/sh.c`, `user/init.c` | lines parsed and run as written, the prompt comes back | `ShParse`, `ShGrammar`, `Shell` |
| User allocator | `user/umalloc.c` | blocks tile the heap, the free list is sorted and joined, `malloc()` fails only when nothing fits | `Malloc`, `MallocProofs` |
| `find`, `pingpong`, `grep` | `user/*.c` | complete, ordered, exact | `Find`, `Pingpong`, `Grep` |

How they interact: a file-system call runs as `begin_op(); ...; end_op();` around
operations of `fs.c`, which change blocks through `bio.c` and hand them to
`log_write()`; `bio.c` uses `virtio_disk.c`, which sleeps until its interrupt
handler wakes it. Sleeping rests on `sleep()`, `wakeup()` and the scheduler, and
these on spin locks with interrupts off. Each module takes the layer below it as
what that layer's own module shows: `Log` uses a cache that may recycle any
buffer without a reference, `Buffers` a disk whose requests begin and end,
`FsTree` and `FileData` operations that are atomic on disk, `Proc`, `Pipe` and
the others a `sleep()` that does not lose a `wakeup()`.

## 2. Modules and code

The same conventions hold throughout. What a thread does under a spin lock is one
action, split where somebody who does not take that lock can see the difference
(the device, `kill()`, a field read without the lock) and where a second lock is
taken. A `sleep()` is a state that only a wakeup or a kill leaves. Data are
abstracted to what properties tell apart. A definition whose name adds an error
to that of the one that follows it (`SleepUnlocksFirst` before `Sleep`) is a wrong
variant: each property was seen to fail when some variant takes the place of its
original, and none is part of the specification.

**`Harts`** has the CPUs (`struct cpu` and the interrupt flag), the locks, and for
each thread its place in its own code and in a trap on top of it. A step goes up
to the next `acquire()` or `swtch()`. A timer interrupt may come whenever the flag
is on. `sys_sleep()` and `kill()` are the system calls; `sys_sleep()` tests
`p->killed` without `p->lock`, so the test and the `sleep()` are two steps
(`CallSleep`, `Sleep`) with room for a `kill()`. `exit()` only leaves a zombie, its
rest is in `Proc`. C's flags are the numbers 0 and 1, as in the code.

**`Proc`** is the process table with one lock per slot. Taking a lock while
another is held is a step of its own, because that is where lock order matters;
`wait()` scans slot by slot; `exit()` reads its parent, unlocks, and locks the
copy. Process 0 behaves as `init.c`.

**`Resources`** and **`PageTable`** have the memory and the files of processes.
Fork, exec and sbrk are split at every new page of a process, so that other
processes may take the last page in between. A step gets a page together with the
page-table pages that `walk()` adds for it: up to three `kalloc()`s, each of which may
fail, with what was obtained before it kept or freed as the code does. Page tables
have a fan-out of 3 in place of 512.

**`Buffers`** is `bget()` with its list in order of use, the sleep locks, pins and
contents. A process of `Deep` may ask for a second buffer while it holds one, as
`bmap()`, `itrunc()`, `write_log()` and `install_trans()` do; `Nested` says for
which blocks, and `outer` is the one it has put aside. **`VirtioDisk`** has the
driver, the two rings, and the device as an actor that takes no lock and finishes
requests in any order. **`MCBlockIO`** checks both, one at a time: `watched` says
which of the two moves.

**`Log`** has the disk (header, log, home), memory that a crash loses, and each
process's place in an operation. Each disk write of `commit()` and of recovery is
an action and `Crash` may come between any two. Recovery ends with the header erased
on disk, and `Start`, the first file-system call becoming possible, is a step of its
own. `Recycle` is `bget()` reusing an unreferenced buffer. **`AtomicDisk`** is the
promise: operations change a volatile copy, a commit makes all of it durable at once,
a crash goes back to the last commit.

**`FileData`** is `bmap()`, `balloc()`, `itrunc()`, `readi()`, `writei()`,
`fileread()` and `filewrite()` with its division into transactions; **`ByteFile`**
is the file as a sequence of bytes with atomic pieces. When `either_copyin()` fails,
`writei()` leaves bytes in a buffer that it does not log. `kept` has the contents
without such bytes, and `Recycle` brings a block back to them; `ByteFile` gives each
position the set of bytes it may have and lets an unlogged one be lost. `ByteFile` is
about what the calls do to files, not about the numbers they return.

**`FsTree`** is the inode cache and the calls on directories, with the inode locks each
holds; path lookup moves one component at a time, `..` included. The auxiliary
variable `strayed` notes that a lookup has left a removed directory through `..` for a
parent that is removed too (6); what is said of names and links is said up to then.

**`Pipe`** splits a call where `pr->killed` is read, since `kill()` does not take
`pi->lock`; counters are modulo `UINT`. **`ByteStream`** is the queue it
implements. **`Console`** has the line buffer with its three wrapping indices, the
transmit ring, the interrupt handler and the UART; **`LineInput`** is a terminal
with lines.

**`ShParse`** is the recursive-descent parser of `sh.c`, compared with the grammar
in **`ShGrammar`**; **`Shell`** runs the parsed line: forks, pipes, redirections,
descriptors, and `init` with its failing `fork()` and `exec()`. **`Malloc`** is
`malloc()`, `free()`, `morecore()` on a heap whose `sbrk()` takes an `int` and may leave
gaps. **`Find`** walks a tree that changes meanwhile, within the limits on descriptors
and on the length of a path that the kernel and `find` have,
**`Pingpong`** has the two processes and their pipes, **`Grep`** compares the
buffered loop and the matcher with their meaning. **`MCUserland`** checks them,
one `part` at a time.

## 3. Runs

| Run | Bounds | Properties and what they say |
|---|---|---|
| `log_atomic` | 2 processes, 3 blocks, 2 values, 2 blocks per operation | `CrashAtomic`: `log.c` implements `AtomicDisk`, crashes at every step; `DataInv`: which copy of each block is the good one. Under `SoundSpec`, see 5 |
| `log_control` | 4 blocks, a log with room for two reservations | `ControlInv`: space, counters, exclusive commits, a waker for every sleeper; `SleepersWake` |
| `log_refcnt` | as `log_atomic`, without `SoundSpec` | violation, finding in 6 |
| `proc` | 4 slots, 2 CPUs, 5 pids of which the last stays in user space, kill of one | `ProcInv`, `OrderedLocks`, `KilledNeverSleeps`, `WaitFailsOnlyChildless` |
| `harts` | 2 CPUs, 2 processes, sleeps of 1 tick or without end, 1 kill | `HartsInv`, `NoPanic`, `OneStack`; deadlock is checked |
| `resources` | 2 processes, 17 pages, 2 descriptors, 3 files, 5 calls | `MemoryInv`: one owner per page at every step, memory is what `sz` says; `FileRefs` |
| `blockio` | 4 processes, the real 8 descriptors, indices modulo 16; 2 processes, one of which holds two buffers at a time, 4 buffers, 5 blocks | `DiskInv`; `CacheInv` |
| `filedata` | 2 processes, 2 files, 6 blocks of 2 bytes, 1 direct and 2 indirect | `BytesInOrder` (refinement of `ByteFile`), `FileInv`, `LogBudget` |
| `fstree` | a maker and a remover of files and directories, 4 inodes, 2 names and `..`, a fresh image and one with `/a/a`, 4 calls | `FsInv`, `NoPanic`, `RemovedEmpty`, `CallsReturn` |
| `pipe` | 1 reader, 2 writers, ring of 2, counters modulo 4, up to 3 bytes | `PipeIsByteStream` (refinement), `PipeInv`, `EofOnlyAfterClose`, `ClosedEndReleases` |
| `console` | 2 processes (one reads, several readers are left to the proofs), line buffer of 3, transmit ring of 2, indices modulo 6 that start at 4 | `LinesInOrder` (refinement of `LineInput`), `ConsoleInv`, `OutputDrains`, `ReadersProgress` |
| `userland` | lines of 5 characters, 11 command lines, a heap of 8 units, trees of 5 directories, patterns and inputs of up to 4 characters | `ParserInv`, `JobsInOrder`, `Wired`, `PromptReturns`, `HeapInv`, `FailsOnlyWhenFull`, `FindComplete`, `PingBeforePong`, `PingpongEnds`, `GrepExact` |

Why the bounds are enough to be of use. Two processes already share a transaction
and race in `log_write()`; three blocks let a transaction hold some and leave others
to be recycled. Four slots with five pids are reused by children of processes that
exit, and are the least in which the stale copy of `proc.c:332` closes a circle of
locks, so that `OrderedLocks` has a deadlock to speak of. Requests of three bytes
overfill a pipe of two, and counters modulo 4 wrap often. Eight descriptors serve
two requests and leave two for the failure path of `alloc3_desc()`, for which the
other two processes contend. Seventeen pages are what one process and part of a
second need, so each `kalloc()` of fork and exec fails in some behaviour. Six blocks
let a file grow to its largest size and the disk fill up. The proofs in 5 remove the
bounds for `Log`, `Proc`, `Pipe`, `Harts`, `Buffers`, `VirtioDisk`, `Console` and
`Malloc`.

`blockio` has a view that leaves out ring slots and free descriptors whose contents
are overwritten before they are read. Symmetry is used only in runs without
liveness, over processes, blocks and values that no definition tells apart.

Deadlock is not checked where the system may stop: processes need not make calls,
bounds on calls and pids run out, and a lost completion stops the disk.

## 4. Fairness

Each `FairSpec` is weak fairness of steps that the code takes once it has begun.

- `Log`: operations end, commits and the boot go on. File-system calls are finite.
- `Pipe`, `FsTree`: a call that has begun goes on, and gets the lock in the end.
  Spin locks are not fair, so this is an assumption about the machine.
- `Console`: the handler runs when the device asks, the device sends, calls go on.
- `Shell`, `Pingpong`, `Malloc`: processes run; a program started by the shell ends
  when its input does.

`Proc` has no liveness property. That a killed process comes to its `exit()`, or that a
`wait()` returns, does not hold of the code: an `exit()` and a `wait()` may each hold the
lock that the other needs (`ProcDeadlock` in 6). What is checked and proved is the safe part, that a killed
process is never left asleep in `wait()`. The two liveness properties of `Console`
have the premise that the kernel does not panic in `WriteFull` (`ConsoleFull` in 6).

## 5. What is proved

Every theorem holds for all values of the constants that satisfy the named
assumption of the module (`LogFits`, `HartsAssumption`, ...), which are what the
code needs: sizes at least 1, a ring size that divides the width of its counters.
In each module one invariant is inductive, and the properties follow from it.

**`LogProofs`** (`ControlCorrect`, `NoPanicTheorem`, `QuietCommitTheorem`,
`SleepersHaveWakerTheorem`, `TypeCorrect`). `ControlInv` says that `outstanding`
counts the processes inside operations, loop counters stay inside the transaction,
commits run alone, and the space not yet used by admitted operations still fits.
The last, `SpaceReserved`, is what makes `NoPanic` inductive: the bound is on a sum
over processes. `LogFits` asks that what operations really write fits the log; in
xv6 that is at most 7 blocks.

Its second half (`DataCorrect`, `LoggedBlocksPinnedTheorem`, `CrashAtomicTheorem`)
is about the contents. `DataInv` says which copy of a block is the good one: the
cache while the block is pinned, the log once copied, home once installed. With it
each step of `log.c` is a step of `AtomicDisk` or none. *These are theorems about
`SoundSpec`*, which excludes operations that run with a reference count below zero;
the code reaches those after a recovery that installed something (6). Recovery
itself is not restricted: it installs, erases the header and ends, and may be cut
short by a crash at each step. Only `Start` asks for sound counts, so that after a
recovery that installed something the machine boots once more before it runs
operations. The theorems say that every crash and every recovery leaves exactly the
last commit, and that the operations that follow are atomic apart from that defect;
not that the code as it stands is.

**`ProcProofs`** (`ProcCorrect`, `FreedOffCPUTheorem`, `ZombieHasNoChildrenTheorem`,
`NoLostExitTheorem`, `KilledNeverSleepsTheorem`, `WaitFailsOnlyChildlessTheorem`,
`OrderedLocksTheorem`).
`ProcInv` says which locks a process holds at each place, that an exiting process
holds its parent's lock while it wakes it, and that pids grow from parent to child.
The last gives the order in which locks are taken and so `OrderedLocks`: waiting
in a circle needs an `exit()` whose copy of its parent is stale. That case does
occur (6).

**`PipeProofs`** (`PipeCorrect`, `PipeTypeCorrect`, `NoUseAfterFreeTheorem`,
`NoLostWakeupTheorem`, `EofOnlyAfterCloseTheorem`, `PipeIsByteStreamTheorem`), for
any ring size and counter width. `PipeInv` relates the open flags to the file
references, the lock to the places, and sleepers to what they sleep for; `nwrite` is
at most `PIPESIZE` ahead of `nread` also when the counters wrap. The last theorem is
the refinement: every step of `pipe.c` is a step of `ByteStream` or none. It rests
on two facts about the ring. Slots less than `PIPESIZE` apart differ, also across
the wrap of the counters, because `PIPESIZE` divides `UINT` (`SlotsDiffer`), so the
bytes that `pipewrite()` adds leave those that wait alone (`RingGrows`); and a
counter that has advanced by `k` finds the slots that were `k` further on
(`SlotLater`, `RingShrinks`). A ring size that does not divide 2^32 would break
both.

**`BuffersProofs`** (`CacheCorrect`, `OneCopyTheorem`, `BuffersSufficeTheorem`), for
any finite set of processes and any blocks and buffers. `CacheInv` is inductive.
What makes it so: `refcnt` is the number of users plus the pin (`RefsCounted`), so
that a recycled buffer has neither; and a block's last contents are in its valid
buffer while it is pinned and on the disk otherwise (`Contents`), so that a buffer
that is read in again is current. `BuffersSuffice` follows by counting: if every
buffer is in use while a process asks for one, the pinned blocks and the buffers of
processes, two for those of `Deep` and none yet for the one that asks for its first,
are at least `NBUF`. So a request is served when `NBUF >= MaxPinned + |CacheProcs| +
|Deep|`.

**`VirtioProofs`** (`DiskCorrect`, `DescOwnedOnceTheorem`,
`DeviceHoldsOnlyLiveTheorem`, `RequestNotLostTheorem`), for any number of processes,
any `NUM` of at least 3 and any width of the 16-bit indices that is a multiple of
it. `DiskInv` is inductive. Besides the properties it needs three more parts: a
process holds `vdisk_lock` between `Alloc` and `Publish`, when its chain is in the
next slot of the avail ring and nowhere else (`LockAgrees`); the chain of a request
has three different descriptors and leads back to its buffer (`ChainsFormed`); and
neither ring overruns or holds a chain twice (`RingsFit`). That the rings fit
follows by counting: what is in a ring are different first descriptors of requests,
and the second descriptor of a request is none of them, so there are fewer than
`NUM`. The lemmas on the ring say what one more or one less entry does to the set of
chains between two indices that wrap at different widths: `used_idx` modulo `NUM`,
`avail[1]` and `used->id` modulo 2^16. That a finished request is *seen* is no
theorem, since the code does not promise it (`VirtioLost` in 6).

**`ConsoleProofs`** (`ConsoleCorrect`, `LinesInOrderTheorem`, `NoLostWakeupTheorem`,
`OutputInOrderTheorem`), for any number of processes, any sizes of the two rings and
any width of the indices that `INPUT_BUF` divides. `ConsoleInv` is inductive: the
indices `r`, `w`, `e` follow each other at most `INPUT_BUF` apart (`IndicesFit`); a
`read()` that still has its whole length before it has got nothing (`CallsAgree`),
so that an end of file is consumed only by a `read()` that returns nothing;
no reader sleeps while there is input; and what was sent, what the UART holds and
what waits in the transmit ring are together the characters written, in order
(`OutputInOrder`). `LinesInOrderTheorem` is the refinement of `LineInput`. The lemmas
on rings (`RingWrite`, `RingTail`, `RingFront`, `RingCat`) say what one entry more or
less at either end does to the sequence between two indices; `Wrap` carries them
over the wrap of a `uint`, since `INPUT_BUF` divides 2^32. The panic of `WriteFull`
(6) is a step of the model, after which nothing moves: the theorems are about
executions up to it.

**`HartsProofs`** (`HartsCorrect`, `NoPanicTheorem`, `InterruptFlagTheorem`,
`OneStackTheorem`, `NoOversleepTheorem`), for any number of CPUs and processes.
`HartsInv` says for each CPU which lock it holds, from the places of its scheduler
and its process; that `noff` counts it, that interrupts are on only with `noff` 0
and outside traps, and what `intena` and `sched()`'s copy of it are worth; that
`p->state` and being on a CPU agree but for the way into `sched()`; and that a
sleeper whose time has come is still before the `wakeup()` under way. The proof
takes the invariant apart into what it says of one CPU and of one process
(`Parts`). A step is about one CPU (`Local`), so the parts of the others stand
(`OthersStay`), and per action only the moving CPU and thread are left.

**`MallocProofs`** (`HeapCorrect`, `FailsOnlyWhenFullTheorem`), for a heap, a header
and a least request to `sbrk()` of any size, an `int` of any width, and all requests that
fit an `int` when rounded up to units (`MallocAssumption`). That `sbrk()` then gets the
number that `morecore()` computed is part of the proof. `HeapInv` is inductive with two parts
besides the properties: where the call in progress stands on the list
(`CallPlaced`), and that the blocks between `freep` and `p`, the way `malloc()` goes
round, were too small (`PassedSmall`), from which `FailsOnlyWhenFull` follows. The
proof is about five operations on a tiled heap with a sorted list: a block goes in
(`AddBlock`), two that touch become one (`JoinBlock`), one is taken whole
(`TakeBlock`) or cut (`CutBlock`), and the arena grows (`GrowBlock`). What `free()`
writes after its loop is the first, then up to two of the second; in between the
new block and the one before it may touch the next, and `Heap` names them as
exceptions.

Only model-checked: all liveness, since fairness and `ENABLED` are outside the
prover's reach; the refinement of `ByteFile`; the invariants of `Resources`,
`FsTree`, `FileData` and the user programs other than the allocator.
`ShParse`, `ShGrammar`, `Find` and `Grep` are recursive, and what they compute for
every input is out of reach.

## 6. Where code and comments disagree

`log_refcnt` is a finding of `PROJECT.json`: recovery calls `bunpin()` for blocks
that nothing pinned, so that reference counts go below zero and a later pin does
not hold its block in the cache.

Seven further configurations are kept beside the runs. Each states what a comment,
a panic or a test expects, and TLC finds it violated; they are here to be run by
hand (`tlc -config <file>.cfg <module>`).

| Configuration | Module | What it shows |
|---|---|---|
| `LogSpace` | `MCLog` | the log on disk has one data block less than `begin_op()` reserves; the present calls write fewer blocks than they reserve and do not reach it |
| `ProcDeadlock` | `MCProc` | `exit()` holds the lock of a stale `original_parent`, whose slot a grandchild has got by now, and needs that of its child, whose `wait()` needs the first; the comment at `proc.c:325-331` expects "a harmless spurious wakeup" |
| `ProcKill` | `MCProc` | `kill(0)` marks a free slot, and the next process there is killed |
| `ConsoleFull` | `MCConsole` | a `write()` that fills the transmit buffer sleeps with `cons.lock` held and `sched()` panics; `uart.c:80-83` and `94-95` say that it "blocks if the output buffer is full" and waits for space |
| `VirtioLost` | `MCBlockIO` | a completion between the last look at the used ring and the acknowledgement loses its interrupt |
| `FsParent` | `MCFsTree` | `..` of a directory whose parent is gone leads to "ilock: no type" |
| `FileUnreadable` | `MCFileData` | a `write()` of at most one transaction from memory that cannot be read returns n; `usertests.c:38-40` expects an error of a longer one, which gets it only because its second piece starts beyond the end of the file |

## 7. Other behaviours worth knowing

These were met while modelling, and no comment or test of the repository speaks
against them.

- A zombie given to `init` after its early wakeup is not collected until something
  else wakes `init`; a comment in `exit()` accepts this.
- A writer killed while the pipe is full returns without waking a reader that went
  to sleep meanwhile; `PipeInv` makes an exception for killed writers.
- A killed sleeper in `sys_sleep()` leaves at once, unless the `kill()` came between
  the test of `p->killed` and the `sleep()`: then it sleeps until the next tick.
  `sleep(-1)` lasts until a kill. A timer interrupt that comes before the last is
  acknowledged is lost, so time may run late.
- `NBUF` is `LOGSIZE`: a full transaction and one more reader exhaust the cache, so
  the premise of `BuffersSuffice`, room for the pinned blocks, one buffer per
  process and another for each that holds two, does not hold for the largest
  transactions.
- `NFILE` is 100 and `NINODE` is 50: `iget()` may panic before files run out.
- An unlinked file that is open at a crash keeps its inode and blocks for ever. A
  link into a directory that another process removes meanwhile leaks a link.
- `growproc()` computes with a `uint`, and the wrapped size is handled as no change.
- `a > x > y` writes to `x`: the outer redirection is opened first.
- `find` does not print its starting directory and goes as deep as descriptors and
  `MAXPATH` last; `grep` stops silently at a line that fills its buffer.
- The size that `malloc()` computes is 64 bits wide and does not wrap, but `sbrk()`
  takes an `int`: from 2^31 bytes on it gets another number than `morecore()` asked
  for, and the new block is taken to have the size asked for all the same.
- Bytes that a `write()` copied before it met memory it cannot read are in the
  buffer but not in the log: they are read back until the buffer is recycled, and
  may then be gone.
- The exit of `init` panics the kernel.

## 8. Limits

`PROJECT.json` lists each component with its status. Not modelled: assembly beyond
what `Harts` takes from it, machine setup, `printf()` and string functions, argument
fetching and system-call dispatch, the remaining user programs and tests, the unused
RAM disk. Errors reported by the disk are not modelled; the driver panics on them.
The one-page user stack and the `chdir()` of the shell are left out. Contents of
pages, permissions in page tables and the exact numbers of `param.h` are abstracted;
the constants name them.
