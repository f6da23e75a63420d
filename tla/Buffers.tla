------------------------------- MODULE Buffers ------------------------------
(* The buffer cache (kernel/bio.c) and the sleep locks of its buffers      *)
(* (kernel/sleeplock.c), used the way the file system and its log use      *)
(* them: a block that was changed stays pinned until it is written home,   *)
(* and a process holds two buffers at a time at most.                      *)
(*                                                                         *)
(* A step is what happens under bcache.lock, or under the spin lock of a   *)
(* sleep lock.  virtio_disk_rw() (module VirtioDisk) starts and ends.      *)
EXTENDS Integers, FiniteSets

CONSTANTS CacheProcs, Nil, Blocks,   \* Nil is neither a process nor a block
          NBUF,
          Nested,      \* <<j, k>>: k may be looked at with the buffer of j in hand
          Deep,        \* the processes that do so (others hold one buffer at a time)
          MaxPinned,   \* blocks in a transaction
          Values       \* bound: contents are 0 .. Values - 1

ASSUME BuffersAssumption ==
  /\ IsFiniteSet(CacheProcs) /\ Nil \notin CacheProcs \cup Blocks
  /\ NBUF \in Nat /\ MaxPinned \in Nat /\ Values \in Nat \ {0}
  /\ (\A k \in Blocks : <<k, k>> \notin Nested) /\ Deep \subseteq CacheProcs

VARIABLES buf,         \* [blockno, valid, refcnt, locked, data] of each buffer
          lru,         \* position in the list from bcache.head.next -> buffer
          home,        \* contents of the disk
          pinned,      \* blocks in the log's transaction
          t,           \* process -> [pc, b]: where it is, and its buffer
          outer,       \* process -> another buffer it has locked, or 0
          last         \* auxiliary: what was last written to each block

cacheVars == <<buf, lru, home, pinned, t, outer, last>>
Bufs == 1 .. NBUF

\* binit(): each buffer goes to the front of the list.
CacheInit ==
  /\ buf = [b \in Bufs |-> [blockno |-> Nil, valid |-> 0, refcnt |-> 0, locked |-> Nil, data |-> 0]]
  /\ lru = [i \in Bufs |-> NBUF + 1 - i]
  /\ home = [k \in Blocks |-> 0]
  /\ pinned = {}
  /\ t = [p \in CacheProcs |-> [pc |-> "idle", b |-> 0]]
  /\ outer = [p \in CacheProcs |-> 0]
  /\ last = [k \in Blocks |-> 0]

At(p, pc) == t[p].pc = pc
B(p) == buf[t[p].b]
Goto(p, pc) == t' = [t EXCEPT ![p].pc = pc]

-----------------------------------------------------------------------------
(* bget().                                                                 *)

Cached(k) == {b \in Bufs : buf[b].blockno = k}
Unused == {b \in Bufs : buf[b].refcnt = 0}

\* The least recently used of the buffers that nobody uses.
Victim == lru[CHOOSE i \in Bufs : lru[i] \in Unused /\ \A j \in i + 1 .. NBUF : lru[j] \notin Unused]

\* Buffer b for block k, to be read.
RecycledStillValid(b, k) == [b EXCEPT !.blockno = k, !.refcnt = 1]
Recycled(b, k) == [b EXCEPT !.blockno = k, !.valid = 0, !.refcnt = 1]

\* bmap() and itrunc() call it for the bitmap with the indirect block in hand,
\* write_log() and install_trans() for a home block with one of the log's.
bget(p, k) ==
  /\ At(p, "idle") \/ (At(p, "locked") /\ outer[p] = 0 /\ p \in Deep /\ <<B(p).blockno, k>> \in Nested)
  /\ outer' = [outer EXCEPT ![p] = t[p].b]
  /\ \/ \E b \in Cached(k) : /\ buf' = [buf EXCEPT ![b].refcnt = @ + 1]
                             /\ t' = [t EXCEPT ![p] = [pc |-> "acquiresleep", b |-> b]]
     \/ /\ Cached(k) = {} /\ Unused # {}
        /\ buf' = [buf EXCEPT ![Victim] = Recycled(@, k)]
        /\ t' = [t EXCEPT ![p] = [pc |-> "acquiresleep", b |-> Victim]]
  /\ UNCHANGED <<lru, home, pinned, last>>

-----------------------------------------------------------------------------
(* Sleep locks.                                                            *)

\* The loop of acquiresleep(); sleep() and the test are atomic under lk->lk.
acquiresleep(p) ==
  /\ At(p, "acquiresleep")
  /\ \/ B(p).locked = Nil /\ buf' = [buf EXCEPT ![t[p].b].locked = p] /\ Goto(p, "bread")
     \/ B(p).locked # Nil /\ Goto(p, "asleep") /\ UNCHANGED buf
  /\ UNCHANGED <<lru, home, pinned, outer, last>>

\* Whoever sleeps on buffer b is made runnable.
Wakeup(b, s) == [q \in CacheProcs |-> IF s[q].pc = "asleep" /\ s[q].b = b THEN [s[q] EXCEPT !.pc = "acquiresleep"] ELSE s[q]]

releasesleep(p) ==
  /\ At(p, "locked")
  /\ buf' = [buf EXCEPT ![t[p].b].locked = Nil]
  /\ t' = Wakeup(t[p].b, [t EXCEPT ![p].pc = "brelse"])
  /\ UNCHANGED <<lru, home, pinned, outer, last>>

-----------------------------------------------------------------------------
(* bread(), bwrite() and brelse().                                         *)

bread(p) ==
  /\ At(p, "bread")
  /\ \/ B(p).valid = 1 /\ Goto(p, "locked")
     \/ B(p).valid = 0 /\ Goto(p, "reading")
  /\ UNCHANGED <<buf, lru, home, pinned, outer, last>>

ReadDone(p) ==
  /\ At(p, "reading")
  /\ buf' = [buf EXCEPT ![t[p].b] = [B(p) EXCEPT !.data = home[B(p).blockno], !.valid = 1]]
  /\ Goto(p, "locked")
  /\ UNCHANGED <<lru, home, pinned, outer, last>>

\* The list with b moved to its front; those that were before b move back by one.
ToFront(b) ==
  LET n == CHOOSE i \in Bufs : lru[i] = b IN
  [i \in Bufs |-> IF i = 1 THEN b ELSE IF i <= n THEN lru[i - 1] ELSE lru[i]]

\* The end of brelse(): a buffer that is not used any more moves to the front.
\* A process that holds another one goes on with that.
brelse(p) ==
  LET b == t[p].b IN
  /\ At(p, "brelse")
  /\ buf' = [buf EXCEPT ![b].refcnt = @ - 1]
  /\ lru' = IF B(p).refcnt = 1 THEN ToFront(b) ELSE lru
  /\ t' = [t EXCEPT ![p] = [pc |-> IF outer[p] = 0 THEN "idle" ELSE "locked", b |-> outer[p]]]
  /\ outer' = [outer EXCEPT ![p] = 0]
  /\ UNCHANGED <<home, pinned, last>>

-----------------------------------------------------------------------------
(* What the file system does with a locked buffer.                         *)

\* Change it and log_write() it, which pins it the first time.
Modify(p) ==
  LET k == B(p).blockno
      v == (B(p).data + 1) % Values IN
  /\ At(p, "locked")
  /\ k \in pinned \/ Cardinality(pinned) < MaxPinned
  /\ buf' = [buf EXCEPT ![t[p].b] = [B(p) EXCEPT !.data = v, !.refcnt = IF k \in pinned THEN @ ELSE @ + 1]]
  /\ pinned' = pinned \cup {k}
  /\ last' = [last EXCEPT ![k] = v]
  /\ UNCHANGED <<lru, home, t, outer>>

\* install_trans() writes it home with bwrite() and unpins it.
bwrite(p) ==
  /\ At(p, "locked") /\ B(p).blockno \in pinned
  /\ Goto(p, "writing")
  /\ UNCHANGED <<buf, lru, home, pinned, outer, last>>

bunpin(p) ==
  LET k == B(p).blockno IN
  /\ At(p, "writing")
  /\ home' = [home EXCEPT ![k] = B(p).data]
  /\ buf' = [buf EXCEPT ![t[p].b].refcnt = @ - 1]
  /\ pinned' = pinned \ {k}
  /\ Goto(p, "locked")
  /\ UNCHANGED <<lru, outer, last>>

\* Of two buffers a process turns to either: install_trans() releases the outer
\* one first, the others the inner one.
Other(p) ==
  /\ At(p, "locked") /\ outer[p] # 0
  /\ t' = [t EXCEPT ![p].b = outer[p]]
  /\ outer' = [outer EXCEPT ![p] = t[p].b]
  /\ UNCHANGED <<buf, lru, home, pinned, last>>

\* kill() ends the sleep in acquiresleep(), which tests the lock again.
CacheKill(p) == At(p, "asleep") /\ Goto(p, "acquiresleep") /\ UNCHANGED <<buf, lru, home, pinned, outer, last>>

CacheNext == \E p \in CacheProcs :
  \/ \E k \in Blocks : bget(p, k)
  \/ acquiresleep(p) \/ releasesleep(p) \/ bread(p) \/ ReadDone(p) \/ brelse(p)
  \/ Modify(p) \/ bwrite(p) \/ bunpin(p) \/ Other(p) \/ CacheKill(p)

CacheSpec == CacheInit /\ [][CacheNext]_cacheVars

-----------------------------------------------------------------------------
(* Properties.                                                             *)

CachePCs == {"idle", "acquiresleep", "asleep", "bread", "reading", "locked", "writing", "brelse"}

CacheTypeOK ==
  /\ buf \in [Bufs -> [blockno : Blocks \cup {Nil}, valid : 0 .. 1, refcnt : Nat, locked : CacheProcs \cup {Nil},
                       data : 0 .. Values - 1]]
  /\ lru \in [Bufs -> Bufs] /\ \A b \in Bufs : \E i \in Bufs : lru[i] = b
  /\ home \in [Blocks -> 0 .. Values - 1] /\ last \in [Blocks -> 0 .. Values - 1]
  /\ pinned \subseteq Blocks /\ IsFiniteSet(pinned) /\ Cardinality(pinned) <= MaxPinned
  /\ t \in [CacheProcs -> [pc : CachePCs, b : 0 .. NBUF]] /\ outer \in [CacheProcs -> 0 .. NBUF]

\* A block has one buffer, and whoever holds it sees what was last written to
\* the block, by whomever and however long ago.
OneCopy ==
  /\ \A k \in Blocks : \A b, c \in Cached(k) : b = c
  /\ \A p \in CacheProcs : /\ t[p].pc = "locked" => B(p).data = last[B(p).blockno]
                           /\ outer[p] # 0 => buf[outer[p]].data = last[buf[outer[p]].blockno]

\* Where that is: in the buffer, if it is valid; on the disk, unless it is pinned.
Contents ==
  /\ \A b \in Bufs : buf[b].valid = 1 => buf[b].blockno # Nil /\ buf[b].data = last[buf[b].blockno]
  /\ \A k \in Blocks : \/ k \in pinned /\ \E b \in Cached(k) : buf[b].valid = 1
                       \/ k \notin pinned /\ home[k] = last[k]

\* The buffer of a process, by where it is.
UsersAgree == \A p \in CacheProcs :
  /\ t[p].b = 0 <=> t[p].pc = "idle"
  /\ t[p].b # 0 => B(p).blockno # Nil
  /\ t[p].pc \in {"locked", "writing"} => B(p).valid = 1
  /\ t[p].pc = "reading" => B(p).valid = 0
  /\ t[p].pc = "writing" => B(p).blockno \in pinned
  /\ outer[p] # 0 => p \in Deep /\ t[p].b \notin {0, outer[p]} /\ buf[outer[p]].valid = 1

\* A buffer counts its users and the log's pin, so it is not recycled under them.
Users(b) == {p \in CacheProcs : t[p].b = b \/ outer[p] = b}
RefsCounted ==
  \A b \in Bufs : buf[b].refcnt = Cardinality(Users(b)) + (IF buf[b].blockno \in pinned THEN 1 ELSE 0)

\* A sleep lock has one holder, who knows it.
Holds(x) == x.pc \in {"bread", "reading", "locked", "writing"}
Owns(p, b) == (t[p].b = b /\ Holds(t[p])) \/ outer[p] = b
Exclusive == \A p \in CacheProcs, b \in Bufs : buf[b].locked = p <=> Owns(p, b)

\* Somebody is left to wake each sleeper: the wakeup() of releasesleep() is not
\* lost between the test of the lock and the sleep.
SleepersHaveWaker == \A p \in CacheProcs : t[p].pc = "asleep" => B(p).locked \notin {Nil, p}

\* bget() finds a buffer as long as there are as many as the transaction pins and
\* the processes hold at most: one each, two for those that are Deep.
Asks(p) == t[p].pc = "idle" \/ (t[p].pc = "locked" /\ outer[p] = 0 /\ p \in Deep)
BuffersSuffice ==
  NBUF >= MaxPinned + Cardinality(CacheProcs) + Cardinality(Deep)
    => Unused # {} \/ \A p \in CacheProcs : ~Asks(p)

\* The buffer cache and its sleep locks.
CacheInv ==
  /\ CacheTypeOK /\ OneCopy /\ Contents /\ UsersAgree
  /\ RefsCounted /\ Exclusive /\ SleepersHaveWaker /\ BuffersSuffice
=============================================================================
