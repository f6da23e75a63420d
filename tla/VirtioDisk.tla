----------------------------- MODULE VirtioDisk -----------------------------
(***************************************************************************)
(* The disk driver, kernel/virtio_disk.c: processes in virtio_disk_rw(),   *)
(* the interrupt handler virtio_disk_intr(), and the device, which shares  *)
(* the descriptors and the two rings with them and takes no lock.          *)
(*                                                                         *)
(* A process has its own struct buf (it holds the buffer's sleep lock), so *)
(* a process also stands for the buffer it passes to virtio_disk_rw().     *)
(* What a process does under vdisk_lock is split where the device can see  *)
(* the difference.                                                         *)
(***************************************************************************)
EXTENDS Integers, Sequences, FiniteSets, FiniteSetsExt

CONSTANTS
  Procs,    \* processes that read and write blocks
  NUM,      \* descriptors and slots of a ring, virtio.h
  UINT16    \* 2^16: avail[1] and used->id are uint16s

ASSUME VirtioAssumption ==
  /\ NUM \in Nat /\ NUM >= 3
  /\ UINT16 \in Nat /\ UINT16 >= NUM /\ UINT16 % NUM = 0
  /\ "intr" \notin Procs /\ "none" \notin Procs   \* None is no process

VARIABLES
  free,       \* the descriptors with disk.free[i] = 1
  next,       \* desc[i].next where desc[i].flags has NEXT, else NoNext
  info,       \* info[i].b
  avail,      \* avail[2..], first descriptors of chains
  availIdx,   \* avail[1]
  used,       \* used->elems[], first descriptors of chains
  usedId,     \* used->id
  used_idx,   \* disk.used_idx
  devIdx,     \* device: how far it has looked in avail
  devBusy,    \* device: the chains it is working on
  isr,        \* device: 1 when INTERRUPT_STATUS is not 0
  lock,       \* who holds vdisk_lock: a process, "intr" or None
  intr,       \* where the interrupt handler is
  pc,         \* where each process is
  idx,        \* idx[0] of each process
  disk        \* b->disk of each process's buffer

driver == <<free, next, info, avail, availIdx, used_idx>>
device == <<used, usedId, devIdx, devBusy, isr>>
vars == <<driver, device, lock, intr, pc, idx, disk>>

None  == "none"
NoNext == -1
Descs == 0 .. NUM - 1
PCs   == {"idle", "alloc", "nodesc", "publish", "asleep", "woken"}

-----------------------------------------------------------------------------
(* Descriptors                                                             *)

\* free_desc()'s wakeup(&disk.free[0]).
WakeAllocators(f) == [p \in Procs |-> IF f[p] = "nodesc" THEN "alloc" ELSE f[p]]

\* The chain that free_chain(i) walks: virtio_disk_rw() links three descriptors.
Chain(i) == {i, next[i], next[next[i]]}

\* alloc_desc(), three times: the free descriptors with the lowest numbers.
Lowest3 ==
  LET a == Min(free)
      b == Min(free \ {a})
      c == Min(free \ {a, b})
  IN <<a, b, c>>

-----------------------------------------------------------------------------
(* virtio_disk_rw()                                                        *)

Start(p) ==
  /\ pc[p] = "idle"
  /\ pc' = [pc EXCEPT ![p] = "alloc"]
  /\ UNCHANGED <<driver, device, lock, intr, idx, disk>>

\* alloc3_desc() succeeds; the chain is formatted and put in the avail ring,
\* where the device does not look yet.
Alloc(p) ==
  /\ pc[p] = "alloc" /\ lock = None
  /\ Cardinality(free) >= 3
  /\ LET d == Lowest3
     IN /\ free' = free \ {d[1], d[2], d[3]}
        /\ next' = [next EXCEPT ![d[1]] = d[2], ![d[2]] = d[3], ![d[3]] = NoNext]
        /\ info' = [info EXCEPT ![d[1]] = p]
        /\ avail' = [avail EXCEPT ![availIdx % NUM] = d[1]]
        /\ idx' = [idx EXCEPT ![p] = d[1]]
  /\ disk' = [disk EXCEPT ![p] = 1]
  /\ lock' = p
  /\ pc' = [pc EXCEPT ![p] = "publish"]
  /\ UNCHANGED <<availIdx, used_idx, device, intr>>

\* alloc3_desc() fails.  It frees the descriptors it got, each with a wakeup of
\* the others that wait for descriptors, and the process sleeps.
AllocFail(p) ==
  /\ pc[p] = "alloc" /\ lock = None
  /\ Cardinality(free) < 3
  /\ pc' = [(IF free = {} THEN pc ELSE WakeAllocators(pc)) EXCEPT ![p] = "nodesc"]
  /\ UNCHANGED <<driver, device, lock, intr, idx, disk>>

\* avail[1]++ and QUEUE_NOTIFY; then the process sleeps on its buffer, as
\* b->disk is still 1: virtio_disk_intr() needs the lock to clear it.
Publish(p) ==
  /\ pc[p] = "publish"
  /\ availIdx' = (availIdx + 1) % UINT16
  /\ pc' = [pc EXCEPT ![p] = "asleep"]
  /\ lock' = None
  /\ UNCHANGED <<free, next, info, avail, used_idx, device, intr, idx, disk>>

\* The sleeper was woken, but not for its request.
SleepAgain(p) ==
  /\ pc[p] = "woken" /\ lock = None
  /\ disk[p] = 1
  /\ pc' = [pc EXCEPT ![p] = "asleep"]
  /\ UNCHANGED <<driver, device, lock, intr, idx, disk>>

\* Mutant: a sleeper that is woken does not test b->disk again.
FinishUnchecked(p) ==
  /\ pc[p] = "woken" /\ lock = None
  /\ info' = [info EXCEPT ![idx[p]] = None]
  /\ free' = free \cup Chain(idx[p])
  /\ idx' = [idx EXCEPT ![p] = 0]
  /\ pc' = WakeAllocators([pc EXCEPT ![p] = "idle"])
  /\ UNCHANGED <<next, avail, availIdx, used_idx, device, lock, intr, disk>>

\* The request has finished: free_chain() and return.
Finish(p) ==
  /\ pc[p] = "woken" /\ lock = None
  /\ disk[p] = 0
  /\ info' = [info EXCEPT ![idx[p]] = None]
  /\ free' = free \cup Chain(idx[p])
  /\ idx' = [idx EXCEPT ![p] = 0]
  /\ pc' = WakeAllocators([pc EXCEPT ![p] = "idle"])
  /\ UNCHANGED <<next, avail, availIdx, used_idx, device, lock, intr, disk>>

\* kill() ends any sleep; virtio_disk_rw() does not look at p->killed.
Kill(p) ==
  /\ pc[p] \in {"asleep", "nodesc"}
  /\ pc' = [pc EXCEPT ![p] = IF @ = "asleep" THEN "woken" ELSE "alloc"]
  /\ UNCHANGED <<driver, device, lock, intr, idx, disk>>

-----------------------------------------------------------------------------
(* virtio_disk_intr().  The PLIC gives the interrupt to one CPU at a time. *)

IntrBegin ==
  /\ intr = "off" /\ isr = 1 /\ lock = None
  /\ intr' = "loop"
  /\ lock' = "intr"
  /\ UNCHANGED <<driver, device, pc, idx, disk>>

IntrLoop ==
  /\ intr = "loop"
  /\ used_idx % NUM # usedId % NUM
  /\ LET p == info[used[used_idx]]
     IN /\ disk' = [disk EXCEPT ![p] = 0]
        /\ pc' = [pc EXCEPT ![p] = IF @ = "asleep" THEN "woken" ELSE @]
  /\ used_idx' = (used_idx + 1) % NUM
  /\ UNCHANGED <<free, next, info, avail, availIdx, device, lock, intr, idx>>

IntrLast ==
  /\ intr = "loop"
  /\ used_idx % NUM = usedId % NUM
  /\ intr' = "ack"
  /\ UNCHANGED <<driver, device, lock, pc, idx, disk>>

IntrAck ==
  /\ intr = "ack"
  /\ isr' = 0
  /\ intr' = "off"
  /\ lock' = None
  /\ UNCHANGED <<driver, used, usedId, devIdx, devBusy, pc, idx, disk>>

-----------------------------------------------------------------------------
(* The device                                                              *)

DevTake ==
  /\ devIdx # availIdx
  /\ devBusy' = devBusy \cup {avail[devIdx % NUM]}
  /\ devIdx' = (devIdx + 1) % UINT16
  /\ UNCHANGED <<driver, used, usedId, isr, lock, intr, pc, idx, disk>>

\* Requests finish in any order.
DevFinish(i) ==
  /\ i \in devBusy
  /\ devBusy' = devBusy \ {i}
  /\ used' = [used EXCEPT ![usedId % NUM] = i]
  /\ usedId' = (usedId + 1) % UINT16
  /\ isr' = 1
  /\ UNCHANGED <<driver, devIdx, lock, intr, pc, idx, disk>>

-----------------------------------------------------------------------------
Init ==
  /\ free = Descs
  /\ next = [i \in Descs |-> NoNext]
  /\ info = [i \in Descs |-> None]
  /\ avail = [i \in Descs |-> 0] /\ availIdx = 0
  /\ used = [i \in Descs |-> 0] /\ usedId = 0 /\ used_idx = 0
  /\ devIdx = 0 /\ devBusy = {} /\ isr = 0
  /\ lock = None
  /\ intr = "off"
  /\ pc = [p \in Procs |-> "idle"]
  /\ idx = [p \in Procs |-> 0]
  /\ disk = [p \in Procs |-> 0]

Intr == IntrBegin \/ IntrLoop \/ IntrLast \/ IntrAck

\* A process inside virtio_disk_rw().
RW(p) == Alloc(p) \/ AllocFail(p) \/ Publish(p) \/ SleepAgain(p) \/ Finish(p)

Next ==
  \/ \E p \in Procs : Start(p) \/ RW(p) \/ Kill(p)
  \/ Intr
  \/ DevTake
  \/ \E i \in Descs : DevFinish(i)

Spec == Init /\ [][Next]_vars

-----------------------------------------------------------------------------
\* The type of the state.
TypeOK ==
  /\ free \subseteq Descs
  /\ next \in [Descs -> Descs \cup {NoNext}]
  /\ info \in [Descs -> Procs \cup {None}]
  /\ avail \in [Descs -> Descs] /\ used \in [Descs -> Descs]
  /\ {availIdx, usedId, devIdx} \subseteq 0 .. UINT16 - 1
  /\ used_idx \in Descs
  /\ devBusy \subseteq Descs
  /\ isr \in {0, 1}
  /\ lock \in Procs \cup {"intr", None}
  /\ intr \in {"off", "loop", "ack"}
  /\ pc \in [Procs -> PCs]
  /\ idx \in [Procs -> Descs]
  /\ disk \in [Procs -> {0, 1}]

\* Processes that own a chain of descriptors.
Owners == {p \in Procs : pc[p] \in {"publish", "asleep", "woken"}}

\* Every descriptor is free or in the chain of one request: no descriptor is
\* freed twice (the panics of free_desc()) and none is leaked.
DescOwnedOnce ==
  /\ \A p, q \in Owners : p # q => Chain(idx[p]) \cap Chain(idx[q]) = {}
  /\ free = Descs \ UNION {Chain(idx[p]) : p \in Owners}

\* The requests the device has still to take, and the finished ones that
\* virtio_disk_intr() has not seen, as the ring indices tell.
NPending == (availIdx - devIdx) % UINT16
NUnseen  == (usedId - used_idx) % NUM

InRing(ring, i, n) == {ring[(i + k) % NUM] : k \in 0 .. n - 1}
Pending == InRing(avail, devIdx, NPending)
Unseen  == InRing(used, used_idx, NUnseen)

\* The rings do not overrun, and nothing is in them twice.
Once(ring, i, n) == \A j, k \in 0 .. n - 1 : ring[(i + j) % NUM] = ring[(i + k) % NUM] => j = k
RingsFit == NPending < NUM /\ Once(avail, devIdx, NPending) /\ Once(used, used_idx, NUnseen)

\* The device and the used ring hold only chains of requests that wait for them,
\* so descriptors are not reused while the device may access them.
DeviceHoldsOnlyLive ==
  \A i \in Pending \cup devBusy \cup Unseen :
    \E p \in Owners : idx[p] = i /\ info[i] = p /\ disk[p] = 1

\* A request that waits is in exactly one place: to be taken, being worked on,
\* or finished and not yet seen.
RequestNotLost ==
  /\ Pending \cap devBusy = {} /\ Pending \cap Unseen = {} /\ devBusy \cap Unseen = {}
  /\ \A p \in Owners \ {lock} : disk[p] = 1 => idx[p] \in Pending \cup devBusy \cup Unseen

\* vdisk_lock is held by the handler, or by a process whose request is in the avail
\* ring, where the device does not know of it yet.
LockAgrees ==
  /\ lock = "intr" <=> intr # "off"
  /\ \A p \in Procs : /\ lock = p <=> pc[p] = "publish"
                      /\ lock = p => /\ disk[p] = 1 /\ avail[availIdx % NUM] = idx[p]
                                     /\ idx[p] \notin Pending \cup devBusy \cup Unseen

\* A request has a chain of three descriptors that leads back to its buffer.
ChainsFormed ==
  \A p \in Owners : /\ info[idx[p]] = p
                    /\ next[idx[p]] \in Descs /\ next[next[idx[p]]] \in Descs
                    /\ next[idx[p]] # idx[p] /\ next[next[idx[p]]] \notin {idx[p], next[idx[p]]}

\* A request that has finished is seen: by the handler that runs, or by the one
\* that the pending interrupt will start.
CompletionsSeen == intr = "off" /\ isr = 0 => Unseen = {}

\* The driver, the device and the memory they share agree on every request.
DiskInv ==
  /\ TypeOK /\ LockAgrees /\ ChainsFormed /\ DescOwnedOnce
  /\ RingsFit /\ DeviceHoldsOnlyLive /\ RequestNotLost
=============================================================================
