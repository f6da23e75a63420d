------------------------------ MODULE FileData ------------------------------
(* The contents of files: reading, writing and truncating an inode         *)
(* (kernel/fs.c) and the chunks in which filewrite() (kernel/file.c)       *)
(* splits a write over transactions.                                       *)
(*                                                                         *)
(* The unit of interleaving is one use of a buffer: blocks are locked one  *)
(* at a time, the inode during all of readi(), writei() or itrunc().       *)
(* Modules Buffers and Log are about the buffer cache and transactions:    *)
(* here a block has the contents that its buffer, or else the disk, holds, *)
(* and the contents that remain when a buffer nobody logged is recycled.   *)
EXTENDS Integers, Sequences, FiniteSets, FiniteSetsExt, SequencesExt

CONSTANTS Procs, None, Inodes,
          Files, FileOf,      \* open files, and the inode of each
          NBlocks, BPB,       \* data blocks, and how many of them one bitmap block describes
          BSIZE, NDIRECT, NINDIRECT, MAXOPBLOCKS,
          UINT,               \* stands for 2^32
          Calls, MaxCalls     \* bounds: the calls <<what, file, length>>, how many there are

ASSUME FileAssumption == /\ NINDIRECT <= BSIZE /\ MAXOPBLOCKS >= 6 /\ UINT > 2 * BSIZE * (NDIRECT + NINDIRECT)

VARIABLES bitmap,   \* blocks marked as used
          data,     \* contents of the blocks: bytes, or the numbers of blocks
          kept,     \* the same, without the bytes that are in an unlogged buffer only
          inode,    \* [addrs, size]
          lock,     \* inode -> process in between ilock() and iunlock(), or None
          off,      \* file -> f->off
          t,        \* process -> its call
          got,      \* process -> what its last read() returned
          calls, panic,
          saved     \* auxiliary: inode -> its contents when it was locked

vars == <<bitmap, data, kept, inode, lock, off, t, got, calls, panic, saved>>
disk == <<bitmap, data, kept, inode>>

Blocks == 1 .. NBlocks
MAXFILE == NDIRECT + NINDIRECT
Zero == [i \in 0 .. BSIZE - 1 |-> 0]

\* The byte at position k of what process p writes.
Byte(p, k) == p * UINT + k

NoCall == [pc |-> "user", f |-> 0, ip |-> 0, n |-> 0, i |-> 0, n1 |-> 0, off |-> 0, tot |-> 0, r |-> 0,
           buf |-> <<>>, fault |-> FALSE, logged |-> {}]

Init ==
  /\ bitmap = {}
  /\ data = [b \in Blocks |-> Zero] /\ kept = data
  /\ inode = [i \in Inodes |-> [addrs |-> [k \in 0 .. NDIRECT |-> 0], size |-> 0]]
  /\ lock = [i \in Inodes |-> None]
  /\ off = [f \in Files |-> 0]
  /\ t = [p \in Procs |-> NoCall]
  /\ got = [p \in Procs |-> <<>>]
  /\ calls = 0 /\ panic = FALSE
  /\ saved = [i \in Inodes |-> <<>>]

At(p, pc) == t[p].pc = pc
Goto(p, c) == t' = [t EXCEPT ![p] = c]

\* What bmap() finds: the block, or 0.
Indirect(i) == inode[i].addrs[NDIRECT]
Addr(i, bn) == CASE bn < NDIRECT -> inode[i].addrs[bn]
                 [] bn >= NDIRECT /\ Indirect(i) = 0 -> 0
                 [] OTHER -> data[Indirect(i)][bn - NDIRECT]
\* The bytes of a file; where a failed write left a byte in an unlogged
\* buffer, a reader may find that byte or, later, the one before.
Contents(i) == [k \in 1 .. inode[i].size |->
                  {d[Addr(i, (k - 1) \div BSIZE)][(k - 1) % BSIZE] : d \in {data, kept}}]

\* log_write() of block b: it is pinned until it is on disk.
log_write(b) == kept' = [kept EXCEPT ![b] = data'[b]]

\* The blocks that calls log, by name.  The inode is noted with the first block:
\* iupdate() always follows.
BitmapOf(b) == <<"bitmap", b \div BPB>>
InodeOf(i) == <<"inode", i>>
Block(b) == <<"block", b>>

ilock(p, i) == lock[i] = None /\ lock' = [lock EXCEPT ![i] = p] /\ saved' = [saved EXCEPT ![i] = Contents(i)]
iunlock(i) == lock' = [lock EXCEPT ![i] = None] /\ UNCHANGED saved

-----------------------------------------------------------------------------
(* bmap(): the missing blocks of the file, one balloc() at a time.  p is   *)
(* in writei() and about to use block t[p].off \div BSIZE.                 *)

bn(p) == t[p].off \div BSIZE
Mapped(p) == Addr(t[p].ip, bn(p)) # 0

\* balloc() of the first free block: marked, zeroed, and its number put where
\* it was missing.  Nobody else can refer to the block in between.
balloc(p) ==
  LET i == t[p].ip
      b == Min(Blocks \ bitmap)
      direct == bn(p) < NDIRECT \/ Indirect(i) = 0 IN
  /\ At(p, "writei") /\ ~Mapped(p) /\ Blocks \ bitmap # {}
  /\ bitmap' = bitmap \cup {b}
  /\ \/ /\ direct
        /\ data' = [data EXCEPT ![b] = Zero]
        /\ log_write(b)
        /\ inode' = [inode EXCEPT ![i].addrs[IF bn(p) < NDIRECT THEN bn(p) ELSE NDIRECT] = b]
        /\ t' = [t EXCEPT ![p].logged = @ \cup {BitmapOf(b), Block(b)}]
     \/ /\ ~direct
        /\ data' = [data EXCEPT ![b] = Zero, ![Indirect(i)][bn(p) - NDIRECT] = b]
        /\ kept' = [kept EXCEPT ![b] = Zero, ![Indirect(i)] = data'[Indirect(i)]]
        /\ t' = [t EXCEPT ![p].logged = @ \cup {BitmapOf(b), Block(b), Block(Indirect(i))}]
        /\ UNCHANGED inode
  /\ UNCHANGED <<lock, off, panic, saved>>

PanicBalloc(p) ==
  /\ At(p, "writei") /\ ~Mapped(p) /\ Blocks \subseteq bitmap
  /\ panic' = TRUE
  /\ UNCHANGED <<disk, lock, off, t, saved>>

-----------------------------------------------------------------------------
(* filewrite() and writei().                                               *)

\* The most that filewrite() writes in one transaction.
maxNoSlop == ((MAXOPBLOCKS - 1 - 1) \div 2) * BSIZE
max == ((MAXOPBLOCKS - 1 - 1 - 2) \div 2) * BSIZE

WriteCall(p, f, n) ==
  /\ At(p, "user")
  /\ Goto(p, [NoCall EXCEPT !.pc = IF n > 0 THEN "filewrite" ELSE "user", !.f = f, !.ip = FileOf[f], !.n = n, !.r = -1])
  /\ UNCHANGED <<disk, lock, off, panic, saved>>

\* The early returns of writei().
Refuses(i, o, n) == \/ o > inode[i].size \/ (o + n) % UINT < o
                    \/ (o + n) % UINT > MAXFILE * BSIZE

\* begin_op(), ilock() and the start of writei().
Chunk(p) ==
  LET c == t[p]
      n1 == IF c.n - c.i > max THEN max ELSE c.n - c.i IN
  /\ At(p, "filewrite")
  /\ ilock(p, c.ip)
  /\ Goto(p, [c EXCEPT !.n1 = n1, !.off = off[c.f], !.tot = 0, !.logged = {},
                       !.pc = IF Refuses(c.ip, off[c.f], n1) THEN "refused" ELSE "writei",
                       !.r = IF Refuses(c.ip, off[c.f], n1) THEN -1 ELSE n1])
  /\ UNCHANGED <<disk, off, panic>>

\* min(n - tot, BSIZE - off % BSIZE)
m(p) == Min({t[p].n1 - t[p].tot, BSIZE - (t[p].off % BSIZE)})

\* data with k bytes copied to the block.
CopiedToStart(p, k) ==
  [data EXCEPT ![Addr(t[p].ip, bn(p))] = [j \in DOMAIN @ |-> IF j < k THEN Byte(p, t[p].i + t[p].tot + j) ELSE @[j]]]
Copied(p, k) ==
  LET c == t[p]
      at == c.off % BSIZE IN
  [data EXCEPT ![Addr(c.ip, bn(p))] =
     [j \in DOMAIN @ |-> IF j \in at .. at + k - 1 THEN Byte(p, c.i + c.tot + j - at) ELSE @[j]]]

\* One round of the loop; the last one goes on to iupdate().
WriteBlock(p) ==
  /\ At(p, "writei") /\ Mapped(p)
  /\ data' = Copied(p, m(p)) /\ log_write(Addr(t[p].ip, bn(p)))
  /\ t' = [t EXCEPT ![p].tot = @ + m(p), ![p].off = @ + m(p), ![p].logged = @ \cup {Block(Addr(t[p].ip, bn(p))), InodeOf(t[p].ip)},
                    ![p].pc = IF t[p].tot + m(p) = t[p].n1 THEN "iupdate" ELSE "writei"]
  /\ UNCHANGED <<bitmap, inode, lock, off, panic, saved>>

\* either_copyin() fails, maybe after some bytes: the loop ends without
\* log_write(), and writei() returns n all the same.  The bytes are kept if the
\* block is in the log already, from this call or from another one whose
\* transaction has not been committed.  Bound: once in a write.
WriteFault(p) ==
  LET b == Addr(t[p].ip, bn(p)) IN
  /\ At(p, "writei") /\ Mapped(p) /\ ~t[p].fault
  /\ \E k \in 0 .. m(p) - 1 : data' = Copied(p, k)
  /\ log_write(b) \/ (Block(b) \notin t[p].logged /\ UNCHANGED kept)
  /\ t' = [t EXCEPT ![p].pc = "iupdate", ![p].fault = TRUE, ![p].logged = @ \cup {InodeOf(t[p].ip)}]
  /\ UNCHANGED <<bitmap, inode, lock, off, panic, saved>>

\* bget() recycles a buffer that is not pinned: what it held is gone.
Recycle(b) ==
  /\ data[b] # kept[b]
  /\ data' = [data EXCEPT ![b] = kept[b]]
  /\ UNCHANGED <<bitmap, kept, inode, lock, off, t, got, calls, panic, saved>>

\* f->off after writei() returned r.
Advance(o, r) == IF r > 0 THEN o + r ELSE o

\* iupdate(), f->off += r, iunlock(), end_op(), and on to the next piece or back
\* to the caller.
ChunkDone(p) ==
  LET c == t[p]
      i == c.i + c.r IN
  /\ At(p, "iupdate") \/ At(p, "refused")
  /\ inode' = [inode EXCEPT ![c.ip].size = IF At(p, "iupdate") /\ c.off > @ THEN c.off ELSE @]
  /\ off' = [off EXCEPT ![c.f] = Advance(@, c.r)]
  /\ iunlock(c.ip)
  /\ \/ /\ c.r >= 0 /\ i < c.n
        /\ Goto(p, [c EXCEPT !.pc = "filewrite", !.i = i])
     \/ /\ c.r < 0 \/ i >= c.n
        /\ Goto(p, [NoCall EXCEPT !.r = IF c.r >= 0 /\ i = c.n THEN c.n ELSE -1, !.fault = c.fault])
  /\ UNCHANGED <<bitmap, data, kept, panic>>

-----------------------------------------------------------------------------
(* fileread() and readi(); n is converted to uint.                         *)

ReadCall(p, f, n) ==
  LET i == FileOf[f]
      o == off[f]
      none == o > inode[i].size \/ (o + n) % UINT < o
      n1 == IF (o + n) % UINT > inode[i].size THEN inode[i].size - o ELSE n % UINT IN
  /\ At(p, "user")
  /\ ilock(p, i)
  /\ Goto(p, [NoCall EXCEPT !.f = f, !.ip = i, !.off = o, !.n1 = IF none THEN 0 ELSE n1, !.pc = "readi"])
  /\ UNCHANGED <<disk, off, panic>>

ReadBlock(p) ==
  LET c == t[p]
      b == data[Addr(c.ip, bn(p))] IN
  /\ At(p, "readi") /\ c.tot < c.n1
  /\ t' = [t EXCEPT ![p].tot = @ + m(p), ![p].off = @ + m(p),
                    ![p].buf = @ \o [k \in 1 .. m(p) |-> b[(c.off % BSIZE) + k - 1]]]
  /\ UNCHANGED <<disk, lock, off, panic, saved>>

\* The loop is done, or either_copyout() failed.
ReadDone(p, fault) ==
  LET c == t[p] IN
  /\ At(p, "readi") /\ fault = (c.tot < c.n1)
  /\ off' = [off EXCEPT ![c.f] = @ + c.tot]
  /\ iunlock(c.ip)
  /\ got' = [got EXCEPT ![p] = c.buf]
  /\ Goto(p, [NoCall EXCEPT !.r = c.tot])
  /\ UNCHANGED <<disk, panic>>

-----------------------------------------------------------------------------
(* itrunc(), as open(O_TRUNC) calls it.  t[p].i counts the addresses.      *)

TruncCall(p, i) ==
  /\ At(p, "user")
  /\ ilock(p, i)
  /\ Goto(p, [NoCall EXCEPT !.pc = "itrunc", !.ip = i])
  /\ UNCHANGED <<disk, off, panic>>

\* The blocks that are left to free: direct ones, those in the indirect block, the indirect block.
ToFreeKeepsIndirect(p) == {k \in t[p].i .. MAXFILE - 1 : Addr(t[p].ip, k) # 0}
ToFree(p) ==
  LET i == t[p].ip IN
  {k \in t[p].i .. MAXFILE : IF k < MAXFILE THEN Addr(i, k) # 0 ELSE Indirect(i) # 0}

bfree(p) ==
  LET c == t[p]
      k == Min(ToFree(p))
      b == IF k < MAXFILE THEN Addr(c.ip, k) ELSE Indirect(c.ip) IN
  /\ At(p, "itrunc") /\ ToFree(p) # {}
  /\ t' = [t EXCEPT ![p].i = k + 1, ![p].logged = @ \cup {BitmapOf(b), InodeOf(c.ip)}]
  /\ bitmap' = bitmap \ {b}
  /\ inode' = [inode EXCEPT ![c.ip].addrs = [j \in DOMAIN @ |-> IF @[j] = b THEN 0 ELSE @[j]]]
  /\ UNCHANGED <<data, kept, lock, off, panic, saved>>

TruncDone(p) ==
  /\ At(p, "itrunc") /\ ToFree(p) = {}
  /\ inode' = [inode EXCEPT ![t[p].ip].size = 0]
  /\ iunlock(t[p].ip)
  /\ Goto(p, NoCall)
  /\ UNCHANGED <<bitmap, data, kept, off, panic>>

Call(p) ==
  \E c \in Calls : \/ c[1] = "read" /\ ReadCall(p, c[2], c[3])
                   \/ c[1] = "write" /\ WriteCall(p, c[2], c[3])
                   \/ c[1] = "trunc" /\ TruncCall(p, FileOf[c[2]])

Step(p) ==
  \/ Chunk(p) \/ balloc(p) \/ PanicBalloc(p) \/ WriteBlock(p) \/ WriteFault(p) \/ ChunkDone(p)
  \/ ReadBlock(p) \/ bfree(p) \/ TruncDone(p)

Next ==
  /\ ~panic
  /\ \/ \E p \in Procs :
          \/ calls < MaxCalls /\ calls' = calls + 1 /\ Call(p) /\ UNCHANGED got
          \/ UNCHANGED <<calls, got>> /\ Step(p)
          \/ UNCHANGED calls /\ \E fault \in BOOLEAN : ReadDone(p, fault)
     \/ \E b \in Blocks : Recycle(b)

Spec == Init /\ [][Next]_vars

-----------------------------------------------------------------------------
(* Properties.                                                             *)

TypeOK ==
  /\ bitmap \subseteq Blocks
  /\ \A b \in Blocks : DOMAIN data[b] = 0 .. BSIZE - 1 /\ DOMAIN kept[b] = 0 .. BSIZE - 1
  /\ \A i \in Inodes : /\ inode[i].addrs \in [0 .. NDIRECT -> 0 .. NBlocks]
                        /\ inode[i].size \in 0 .. MAXFILE * BSIZE
                        /\ lock[i] \in Procs \cup {None}
  /\ off \in [Files -> 0 .. MAXFILE * BSIZE]
  /\ \A p \in Procs : t[p].ip \in Inodes \cup {0} /\ t[p].tot \in 0 .. t[p].n1

\* Where a block is in use: in an inode or in an indirect block.  An inode that itrunc() is freeing does not
\* use the entries of the indirect block it is past.
Past(i) == IF lock[i] # None /\ At(lock[i], "itrunc") THEN t[lock[i]].i - NDIRECT ELSE 0
Uses(b) ==
  {<<"inode", x[1], x[2]>> : x \in {y \in Inodes \X (0 .. NDIRECT) : inode[y[1]].addrs[y[2]] = b}}
  \cup {<<"indirect", x[1], x[2]>> : x \in {y \in Inodes \X (0 .. NINDIRECT - 1) :
           Indirect(y[1]) # 0 /\ y[2] >= Past(y[1]) /\ data[Indirect(y[1])][y[2]] = b}}

\* A block is marked in the bitmap when it is in use, and then by one user only:
\* files share no block whatever they do at the same time, bfree() never meets
\* a free block, and no block is lost.
BlocksOwned == ~panic => \A b \in Blocks : Cardinality(Uses(b)) = IF b \in bitmap THEN 1 ELSE 0

\* A file has a block for every byte below its size, so that the bmap() in
\* readi() finds one: it runs outside of a transaction and must not allocate.
NoHoles == \A i \in Inodes : ~(lock[i] # None /\ At(lock[i], "itrunc"))
             => \A k \in 0 .. inode[i].size - 1 : Addr(i, k \div BSIZE) # 0

\* One transaction logs no more than the MAXOPBLOCKS blocks that begin_op()
\* reserved: what filewrite() computes max for, with every block of the bitmap
\* a different one.
LogBudget == \A p \in Procs : Cardinality(t[p].logged) <= MAXOPBLOCKS

\* Files behave as sequences of bytes (module ByteFile).
File == INSTANCE ByteFile WITH
  content <- [i \in Inodes |-> IF lock[i] = None THEN Contents(i) ELSE saved[i]],
  Pieces <- {[k \in 1 .. n |-> Byte(p, o + k - 1)] : p \in Procs, n \in 1 .. max, o \in {k * max : k \in 0 .. MAXFILE}},
  MaxPiece <- max
BytesInOrder == File!Spec

\* A write whose source cannot be read fails.
UnreadableFails == \A p \in Procs : At(p, "user") /\ t[p].fault => t[p].r = -1

\* The blocks of the disk, however calls on several files interleave: each has one
\* owner, and files have all the blocks their size promises.
FileInv == TypeOK /\ BlocksOwned /\ NoHoles
=============================================================================
