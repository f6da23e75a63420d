----------------------------- MODULE Resources ------------------------------
(* What processes own: memory (fork(), exec(), sbrk(), exit(), wait()) and *)
(* open files (pipe(), dup(), close(); kernel/file.c), down to the pages   *)
(* and the references that every failing call has to give back.            *)
(*                                                                         *)
(* A step of fork(), exec() or sbrk() is what happens around one kalloc(), *)
(* or adds one page to a page table, with the kalloc()s that walk() needs  *)
(* for it: up to three, any of which may fail, with no process between.    *)
(* Giving pages back, and a call on files, is one step.  Inodes are the    *)
(* subject of module FsTree: all files here are pipes.                     *)
EXTENDS PageTable, Sequences, SequencesExt

CONSTANTS NPages,         \* pages that kinit() frees
          NPROC, NOFILE, NFILE,
          MaxSz,          \* bound: sbrk() takes a process to this many bytes
          Programs,       \* what exec() loads: the ends of the segments of each program
          MaxArgs,        \* bound: arguments of exec()
          MaxCalls        \* bound: system calls

VARIABLES free,           \* the free list, as a set
          proc,           \* process table
          op,             \* per process: the call it is in
          ftable,         \* file table
          calls,          \* how many system calls there were
          pipes           \* page -> which ends are open, for pages that are pipes

vars == <<free, proc, op, ftable, pipes, calls>>
files == <<ftable, pipes>>

Slots == 1 .. NPROC
Fds == 0 .. NOFILE - 1
Files == 1 .. NFILE

NoProc == [state |-> "unused", parent |-> 0, tf |-> 0, pt |-> NoTable, sz |-> 0, ofile |-> [fd \in Fds |-> 0]]
NoFile == [ref |-> 0, type |-> "none", pipe |-> 0, writable |-> FALSE]
NoOp == [pc |-> "user", np |-> 0, pt |-> NoTable, i |-> 0, end |-> 0, sz |-> 0, args |-> <<>>, segs |-> <<>>]

\* userinit(): trapframe, page table and one user page for the first process.
FirstProcess ==
  LET root == [free |-> 3 .. NPages, pt |-> [NoTable EXCEPT !.root = 2]]
      r1 == mappages(root, TRAMPOLINE, Kernel)
      r2 == mappages([free |-> r1.free, pt |-> r1.pt], TRAPFRAME, 1) IN
  NewPage([free |-> r2.free, pt |-> r2.pt], 0)

Init ==
  /\ free = FirstProcess.free
  /\ proc = [p \in Slots |-> IF p = 1 THEN [NoProc EXCEPT !.state = "used", !.tf = 1, !.pt = FirstProcess.pt, !.sz = PGSIZE]
                             ELSE NoProc]
  /\ op = [p \in Slots |-> NoOp]
  /\ ftable = [f \in Files |-> NoFile]
  /\ pipes = <<>>
  /\ calls = 0

At(p, pc) == proc[p].state = "used" /\ op[p].pc = pc
Runs(p) == At(p, "user") /\ UNCHANGED op
Goto(p, o) == op' = [op EXCEPT ![p] = o]
Memory(p) == [free |-> free, pt |-> op[p].pt]

-----------------------------------------------------------------------------
(* sbrk().                                                                 *)

\* growproc(): sz is a uint, so that the size asked for wraps around when it is
\* negative; UINT stands for 2^32.
UINT == 2^20
Sbrk(p, n) ==
  LET sz == proc[p].sz
      newsz == (sz + n) % UINT
      r == uvmdealloc([free |-> free, pt |-> proc[p].pt], sz, newsz) IN
  /\ At(p, "user") /\ sz + n <= MaxSz /\ n # 0
  /\ \/ n > 0 /\ Goto(p, [NoOp EXCEPT !.pc = "sbrk", !.i = Pages(sz), !.end = newsz]) /\ UNCHANGED <<free, proc>>
     \/ /\ n < 0 /\ free' = r.free
        /\ proc' = [proc EXCEPT ![p].pt = r.pt, ![p].sz = IF newsz >= sz THEN sz ELSE newsz]
        /\ UNCHANGED op
  /\ UNCHANGED files

SbrkPage(p) ==
  LET i == op[p].i
      r == NewPage([free |-> free, pt |-> proc[p].pt], i)
      u == uvmdealloc([free |-> r.free, pt |-> r.pt], i * PGSIZE, PGROUNDUP(proc[p].sz)) IN
  /\ At(p, "sbrk") /\ i < Pages(op[p].end)
  /\ \/ r.ok /\ free' = r.free /\ proc' = [proc EXCEPT ![p].pt = r.pt] /\ op' = [op EXCEPT ![p].i = i + 1]
     \/ ~r.ok /\ free' = u.free /\ proc' = [proc EXCEPT ![p].pt = u.pt] /\ Goto(p, NoOp)
  /\ UNCHANGED files

SbrkDone(p) ==
  /\ At(p, "sbrk") /\ op[p].i = Pages(op[p].end)
  /\ proc' = [proc EXCEPT ![p].sz = op[p].end]
  /\ Goto(p, NoOp)
  /\ UNCHANGED <<free, files>>

-----------------------------------------------------------------------------
(* fork(), and exec() up to the new page table.                            *)

\* allocproc(): a slot and its trapframe.
Fork(p) ==
  LET unused == {q \in Slots : proc[q].state = "unused"} IN
  /\ At(p, "user") /\ unused # {} /\ free # {}
  /\ proc' = [proc EXCEPT ![Min(unused)].state = "embryo", ![Min(unused)].tf = Kalloc(free)]
  /\ free' = free \ {Kalloc(free)}
  /\ Goto(p, [NoOp EXCEPT !.pc = "root", !.np = Min(unused)])
  /\ UNCHANGED files

\* sys_exec() copies the arguments, each to a page of its own.
Exec(p, segs) ==
  /\ At(p, "user")
  /\ Goto(p, [NoOp EXCEPT !.pc = "args", !.segs = segs])
  /\ UNCHANGED <<free, proc, files>>

Forking(p) == op[p].np # 0

\* Back to user space, with these pages free: the child's slot, or the arguments, are given up.
GiveUp(p, pages) ==
  /\ free' = pages \cup (IF Forking(p) THEN {proc[op[p].np].tf} ELSE Range(op[p].args))
  /\ proc' = IF Forking(p) THEN [proc EXCEPT ![op[p].np] = NoProc] ELSE proc
  /\ Goto(p, NoOp)
  /\ UNCHANGED files

ExecArg(p) ==
  /\ At(p, "args")
  /\ \/ /\ Len(op[p].args) < MaxArgs /\ free # {}
        /\ free' = free \ {Kalloc(free)}
        /\ op' = [op EXCEPT ![p].args = Append(@, Kalloc(free))]
     \/ op' = [op EXCEPT ![p].pc = "root"] /\ UNCHANGED free
  /\ UNCHANGED <<proc, files>>

\* No page for an argument, or the string or the file cannot be read.
ExecBadArg(p) == At(p, "args") /\ GiveUp(p, free)

\* proc_pagetable()
Root(p) ==
  /\ At(p, "root") /\ free # {}
  /\ free' = free \ {Kalloc(free)}
  /\ op' = [op EXCEPT ![p].pt.root = Kalloc(free), ![p].pc = "trampoline"]
  /\ UNCHANGED <<proc, files>>

NoRoot(p) == At(p, "root") /\ free = {} /\ GiveUp(p, free)

Maps(p, r, next) == /\ free' = r.free
                    /\ op' = [op EXCEPT ![p].pt = r.pt, ![p].pc = next]
                    /\ UNCHANGED <<proc, files>>

MapTrampoline(p) ==
  LET r == mappages(Memory(p), TRAMPOLINE, Kernel) IN
  /\ At(p, "trampoline")
  /\ \/ r.ok /\ Maps(p, r, "trapframe")
     \/ ~r.ok /\ GiveUp(p, uvmfree(r, 0).free)

\* The trampoline's page-table pages serve the trapframe too: this cannot fail.
MapTrapframe(p) ==
  LET r == mappages(Memory(p), TRAPFRAME, IF Forking(p) THEN proc[op[p].np].tf ELSE proc[p].tf) IN
  /\ At(p, "trapframe")
  /\ Maps(p, r, IF Forking(p) THEN "copy" ELSE "segment")

\* One page of uvmcopy(); np->sz is still 0 when it fails.
ForkPage(p) ==
  LET r == NewPage(Memory(p), op[p].i)
      u == uvmunmap(r, 0 .. op[p].i - 1, TRUE) IN
  /\ At(p, "copy") /\ op[p].i < Pages(proc[p].sz)
  /\ \/ /\ r.ok /\ free' = r.free /\ UNCHANGED <<proc, files>>
        /\ op' = [op EXCEPT ![p].pt = r.pt, ![p].i = @ + 1]
     \/ ~r.ok /\ GiveUp(p, proc_freepagetable(u, 0).free)

\* filedup() of every open descriptor.
NoDups(ft, ofile) == ft
Dups(ft, ofile) == [f \in Files |-> [ft[f] EXCEPT !.ref = @ + Cardinality({fd \in Fds : ofile[fd] = f})]]

ForkDone(p) ==
  /\ At(p, "copy") /\ op[p].i = Pages(proc[p].sz)
  /\ proc' = [proc EXCEPT ![op[p].np] = [@ EXCEPT !.state = "used", !.parent = p, !.pt = op[p].pt,
                                                 !.sz = proc[p].sz, !.ofile = proc[p].ofile]]
  /\ ftable' = Dups(ftable, proc[p].ofile)
  /\ Goto(p, NoOp)
  /\ UNCHANGED <<free, pipes>>

-----------------------------------------------------------------------------
(* exec(): the segments, the stack, the new image.                         *)

\* Start uvmalloc() of the next segment, or of the guard page and the stack.
Grow(o, end, pc) == [o EXCEPT !.i = Pages(o.sz), !.end = IF end < o.sz THEN o.sz ELSE end, !.pc = pc]

Segment(p) ==
  LET o == op[p] IN
  /\ At(p, "segment")
  /\ \/ o.segs # <<>> /\ Goto(p, [Grow(o, Head(o.segs), "load") EXCEPT !.segs = Tail(@)])
     \/ o.segs = <<>> /\ Goto(p, Grow([o EXCEPT !.sz = PGROUNDUP(@)], PGROUNDUP(o.sz) + 2 * PGSIZE, "stack"))
  /\ UNCHANGED <<free, proc, files>>

ExecPage(p) ==
  LET r == NewPage(Memory(p), op[p].i)
      u == uvmdealloc([free |-> r.free, pt |-> r.pt], op[p].i * PGSIZE, PGROUNDUP(op[p].sz)) IN
  /\ At(p, "load") \/ At(p, "stack")
  /\ op[p].i < Pages(op[p].end)
  /\ \/ /\ r.ok /\ free' = r.free /\ UNCHANGED <<proc, files>>
        /\ op' = [op EXCEPT ![p].pt = r.pt, ![p].i = @ + 1]
     \/ ~r.ok /\ GiveUp(p, proc_freepagetable(u, op[p].sz).free)

ExecGrown(p) ==
  /\ At(p, "load") \/ At(p, "stack")
  /\ op[p].i = Pages(op[p].end)
  /\ op' = [op EXCEPT ![p].sz = op[p].end, ![p].pc = IF op[p].pc = "load" THEN "segment" ELSE "commit"]
  /\ UNCHANGED <<free, proc, files>>

\* A bad program header, a segment that cannot be read, arguments that do not fit the stack.
ExecBad(p) ==
  /\ At(p, "segment") \/ At(p, "commit")
  /\ GiveUp(p, proc_freepagetable(Memory(p), op[p].sz).free)

ExecCommit(p) ==
  /\ At(p, "commit")
  /\ free' = proc_freepagetable([free |-> free, pt |-> proc[p].pt], proc[p].sz).free \cup Range(op[p].args)
  /\ proc' = [proc EXCEPT ![p].pt = op[p].pt, ![p].sz = op[p].sz]
  /\ Goto(p, NoOp)
  /\ UNCHANGED files

-----------------------------------------------------------------------------
(* Files.  A state of the file system is s = [free, ftable, pipes].        *)

State == [free |-> free, ftable |-> ftable, pipes |-> pipes]

\* pipeclose(): the page goes with the last end.
pipeclose(s, pi, writable) ==
  LET open == s.pipes[pi] \ {writable} IN
  IF open = {} THEN [s EXCEPT !.free = @ \cup {pi}, !.pipes = [q \in DOMAIN @ \ {pi} |-> @[q]]]
  ELSE [s EXCEPT !.pipes[pi] = open]

fileclose(s, f) ==
  LET ff == s.ftable[f]
      s1 == [s EXCEPT !.ftable[f] = IF ff.ref > 1 THEN [@ EXCEPT !.ref = @ - 1] ELSE NoFile] IN
  IF ff.ref = 1 /\ ff.type = "pipe" THEN pipeclose(s1, ff.pipe, ff.writable) ELSE s1

\* filealloc(): the first unused file, or 0.
filealloc(ft) == LET unused == {f \in Files : ft[f].ref = 0} IN IF unused = {} THEN 0 ELSE Min(unused)

\* pipealloc(): rf and wf are 0 on failure.
pipealloc(s) ==
  LET f0 == filealloc(s.ftable)
      s0 == [s EXCEPT !.ftable[f0].ref = 1]
      f1 == filealloc(s0.ftable)
      s1 == [s0 EXCEPT !.ftable[f1].ref = 1]
      pi == Kalloc(s.free)
      End(w) == [ref |-> 1, type |-> "pipe", pipe |-> pi, writable |-> w] IN
  CASE f0 = 0 -> [s |-> s, rf |-> 0, wf |-> 0]
    [] f0 # 0 /\ f1 = 0 -> [s |-> fileclose(s0, f0), rf |-> 0, wf |-> 0]
    [] f0 # 0 /\ f1 # 0 /\ s.free = {} -> [s |-> fileclose(fileclose(s1, f0), f1), rf |-> 0, wf |-> 0]
    [] OTHER -> [s |-> [free |-> s.free \ {pi}, ftable |-> [s1.ftable EXCEPT ![f0] = End(FALSE), ![f1] = End(TRUE)],
                        pipes |-> [q \in DOMAIN s.pipes \cup {pi} |-> IF q = pi THEN {TRUE, FALSE} ELSE s.pipes[q]]],
                 rf |-> f0, wf |-> f1]

\* fdalloc(): the lowest free descriptor, or -1.
fdalloc(ofile) == LET unused == {fd \in Fds : ofile[fd] = 0} IN IF unused = {} THEN -1 ELSE Min(unused)

Becomes(s) == free' = s.free /\ ftable' = s.ftable /\ pipes' = s.pipes

\* sys_pipe(); addr says whether the user's array can be written.
PipeCall(p, addr) ==
  LET a == pipealloc(State)
      fd0 == fdalloc(proc[p].ofile)
      of0 == [proc[p].ofile EXCEPT ![fd0] = a.rf]
      fd1 == fdalloc(of0) IN
  /\ Runs(p)
  /\ \/ a.rf = 0 /\ Becomes(a.s) /\ UNCHANGED proc
     \/ /\ a.rf # 0 /\ (fd0 = -1 \/ fd1 = -1 \/ ~addr)
        /\ Becomes(fileclose(fileclose(a.s, a.rf), a.wf)) /\ UNCHANGED proc
     \/ /\ a.rf # 0 /\ fd0 # -1 /\ fd1 # -1 /\ addr
        /\ Becomes(a.s) /\ proc' = [proc EXCEPT ![p].ofile = [of0 EXCEPT ![fd1] = a.wf]]

Dup(p, fd) ==
  LET f == proc[p].ofile[fd]
      new == fdalloc(proc[p].ofile) IN
  /\ Runs(p) /\ f # 0 /\ new # -1
  /\ proc' = [proc EXCEPT ![p].ofile[new] = f]
  /\ ftable' = [ftable EXCEPT ![f].ref = @ + 1]
  /\ UNCHANGED <<free, pipes>>

Close(p, fd) ==
  /\ Runs(p) /\ proc[p].ofile[fd] # 0
  /\ proc' = [proc EXCEPT ![p].ofile[fd] = 0]
  /\ Becomes(fileclose(State, proc[p].ofile[fd]))

\* exit(): close all files, give the children to init.
CloseAll(s, ofile) ==
  FoldLeft(LAMBDA acc, fd : IF ofile[fd - 1] = 0 THEN acc ELSE fileclose(acc, ofile[fd - 1]), s, [fd \in 1 .. NOFILE |-> fd])

Exit(p) ==
  /\ Runs(p) /\ p # 1
  /\ Becomes(CloseAll(State, proc[p].ofile))
  /\ proc' = [q \in Slots |-> IF q = p THEN [proc[p] EXCEPT !.state = "zombie", !.ofile = NoProc.ofile]
                              ELSE IF proc[q].parent = p THEN [proc[q] EXCEPT !.parent = 1] ELSE proc[q]]

Wait(p, q) ==
  /\ Runs(p) /\ proc[q].parent = p /\ proc[q].state = "zombie"
  /\ free' = proc_freepagetable([free |-> free \cup {proc[q].tf}, pt |-> proc[q].pt], proc[q].sz).free
  /\ proc' = [proc EXCEPT ![q] = NoProc]
  /\ UNCHANGED <<ftable, pipes>>

Call(p) ==
  \/ \E n \in {-3 * PGSIZE, -1, 1, 2 * PGSIZE} : Sbrk(p, n)
  \/ Fork(p) \/ \E segs \in Programs : Exec(p, segs)
  \/ \E addr \in BOOLEAN : PipeCall(p, addr)
  \/ \E fd \in Fds : Dup(p, fd) \/ Close(p, fd)
  \/ Exit(p) \/ \E q \in Slots : Wait(p, q)

Step(p) ==
  \/ SbrkPage(p) \/ SbrkDone(p)
  \/ ExecArg(p) \/ ExecBadArg(p) \/ Root(p) \/ NoRoot(p) \/ MapTrampoline(p) \/ MapTrapframe(p)
  \/ ForkPage(p) \/ ForkDone(p)
  \/ Segment(p) \/ ExecPage(p) \/ ExecGrown(p) \/ ExecBad(p) \/ ExecCommit(p)

Next == \E p \in Slots :
  \/ calls < MaxCalls /\ calls' = calls + 1 /\ Call(p)
  \/ UNCHANGED calls /\ Step(p)

Spec == Init /\ [][Next]_vars

-----------------------------------------------------------------------------
(* Properties.                                                             *)

TypeOK ==
  /\ free \subseteq 1 .. NPages
  /\ \A p \in Slots : /\ proc[p].state \in {"unused", "embryo", "used", "zombie"} /\ proc[p].parent \in 0 .. NPROC
                      /\ proc[p].tf \in 0 .. NPages /\ proc[p].sz \in Nat /\ proc[p].ofile \in [Fds -> 0 .. NFILE]
                      /\ op[p].np \in 0 .. NPROC /\ op[p].i \in Nat /\ op[p].args \in Seq(1 .. NPages)
  /\ \A f \in Files : ftable[f].ref \in Nat
  /\ \A q \in DOMAIN pipes : q \in 1 .. NPages /\ pipes[q] \subseteq BOOLEAN

\* The page tables there are, and the user pages each of them maps.
AllTables == {<<p, "proc">> : p \in Slots} \cup {<<p, "op">> : p \in Slots}
TableOf(x) == IF x[2] = "proc" THEN proc[x[1]].pt ELSE op[x[1]].pt
UserPages == 0 .. TRAPFRAME - 1

\* The owners of page q: the free list, page tables, user mappings, trapframes, arguments of exec(), pipes.
Owners(q) ==
  (IF q \in free THEN 1 ELSE 0) + (IF q \in DOMAIN pipes THEN 1 ELSE 0)
  + Cardinality({x \in AllTables : q \in Interior(TableOf(x))})
  + Cardinality({x \in AllTables \X UserPages : TableOf(x[1]).leaf[x[2]] = q})
  + Cardinality({p \in Slots : proc[p].tf = q}) + Cardinality({p \in Slots : q \in Range(op[p].args)})

\* Every page has exactly one owner: no call leaks a page, frees one twice or
\* uses one after kfree(), wherever memory runs out and whoever else takes it.
PagesHaveOneOwner == \A q \in 1 .. NPages : Owners(q) = 1

\* The memory of a process is what its size says, with the trampoline and its own
\* trapframe on top; anything else is a panic in uvmunmap(), uvmcopy() or freewalk().
SizeIsMapped ==
  \A p \in Slots :
    /\ proc[p].state \in {"used", "zombie"} /\ op[p].pc # "sbrk"
         => CanFree(proc[p].pt, proc[p].sz) /\ proc[p].pt.leaf[TRAPFRAME] = proc[p].tf
    /\ op[p].pc = "trapframe" => op[p].pt.l0[PX1(TRAPFRAME)] # 0
    /\ op[p].pc = "sbrk" => CanFree(proc[p].pt, op[p].i * PGSIZE)
    /\ op[p].pc \in {"segment", "commit"} => CanFree(op[p].pt, op[p].sz)
    /\ op[p].pc \in {"copy", "load", "stack"} => CanFree(op[p].pt, op[p].i * PGSIZE)

\* A file has one reference for each descriptor, and a pipe is open at an end
\* as long as a descriptor refers to a file for that end.
FileRefs ==
  /\ \A f \in Files : ftable[f].ref = Cardinality({x \in Slots \X Fds : proc[x[1]].ofile[x[2]] = f})
  /\ \A q \in 1 .. NPages, w \in BOOLEAN :
       (q \in DOMAIN pipes /\ w \in pipes[q]) <=>
         \E f \in Files : ftable[f].ref > 0 /\ ftable[f].type = "pipe" /\ ftable[f].pipe = q /\ ftable[f].writable = w

\* Memory is accounted for, page by page and process by process.
MemoryInv == TypeOK /\ PagesHaveOneOwner /\ SizeIsMapped
=============================================================================
