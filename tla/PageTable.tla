----------------------------- MODULE PageTable ------------------------------
(* The page allocator (kernel/kalloc.c) and user page tables (kernel/vm.c) *)
(* as operators.  A page table is a record: the pages of its three levels  *)
(* and the pages that its leaves map; 0 is an invalid entry.  The numbers  *)
(* are scaled down: a page-table page has Fan entries in place of 512, a   *)
(* page PGSIZE bytes.  Virtual addresses are page numbers.  What pages     *)
(* contain and what the flags allow is left out.                           *)
EXTENDS Integers, FiniteSets, FiniteSetsExt

CONSTANTS Fan, PGSIZE

MAXVA == Fan * Fan * Fan
TRAMPOLINE == MAXVA - 1
TRAPFRAME == MAXVA - 2
Kernel == -1              \* the page of trampoline.S, part of the kernel

NoTable == [root |-> 0, l1 |-> [i \in 0 .. Fan - 1 |-> 0], l0 |-> [i \in 0 .. Fan * Fan - 1 |-> 0],
            leaf |-> [va \in 0 .. MAXVA - 1 |-> 0]]

PGROUNDUP(sz) == ((sz + PGSIZE - 1) \div PGSIZE) * PGSIZE
Pages(sz) == PGROUNDUP(sz) \div PGSIZE
PX2(va) == va \div (Fan * Fan)
PX1(va) == va \div Fan                 \* with the level-2 index in front

\* kalloc() takes this page; kfree() puts pages back.
Kalloc(free) == Min(free)

\* walk() with alloc: a page for each level that has none, as long as there are
\* free ones.  r = [free, pt].
WalkL1(r, va) ==
  IF r.pt.l1[PX2(va)] # 0 \/ r.free = {} THEN r
  ELSE [free |-> r.free \ {Kalloc(r.free)}, pt |-> [r.pt EXCEPT !.l1[PX2(va)] = Kalloc(r.free)]]
WalkL0(r, va) ==
  IF r.pt.l1[PX2(va)] = 0 \/ r.pt.l0[PX1(va)] # 0 \/ r.free = {} THEN r
  ELSE [free |-> r.free \ {Kalloc(r.free)}, pt |-> [r.pt EXCEPT !.l0[PX1(va)] = Kalloc(r.free)]]
Walk(r, va) == WalkL0(WalkL1(r, va), va)

\* mappages() of one page: it fails when walk() found no page, having kept those it did find.
mappages(r, va, pa) ==
  LET w == Walk(r, va) IN
  IF w.pt.l0[PX1(va)] = 0 THEN [free |-> w.free, pt |-> w.pt, ok |-> FALSE]
  ELSE [free |-> w.free, pt |-> [w.pt EXCEPT !.leaf[va] = pa], ok |-> TRUE]

\* The body of the loops of uvmalloc() and uvmcopy(): a new page at va, with up
\* to two pages for the table.  It is freed again when one of these is missing.
NewPageLeaks(r, va) ==
  IF r.free = {} THEN [free |-> r.free, pt |-> r.pt, ok |-> FALSE]
  ELSE mappages([r EXCEPT !.free = @ \ {Kalloc(@)}], va, Kalloc(r.free))
NewPage(r, va) ==
  LET pa == Kalloc(r.free)
      p == mappages([r EXCEPT !.free = @ \ {pa}], va, pa) IN
  IF r.free = {} THEN [free |-> r.free, pt |-> r.pt, ok |-> FALSE]
  ELSE IF p.ok THEN p ELSE [p EXCEPT !.free = @ \cup {pa}]

\* uvmunmap(): with do_free the pages go back.
uvmunmap(r, vas, do_free) ==
  [free |-> IF do_free THEN r.free \cup {r.pt.leaf[va] : va \in vas} ELSE r.free,
   pt |-> [r.pt EXCEPT !.leaf = [va \in DOMAIN @ |-> IF va \in vas THEN 0 ELSE @[va]]]]

\* uvmdealloc() from oldsz to newsz bytes; and where the loop of uvmalloc() gives up.
uvmdealloc(r, oldsz, newsz) ==
  IF newsz >= oldsz THEN r ELSE uvmunmap(r, Pages(newsz) .. Pages(oldsz) - 1, TRUE)

\* freewalk(): all page-table pages.
Interior(pt) == ({pt.root} \cup {pt.l1[i] : i \in DOMAIN pt.l1} \cup {pt.l0[i] : i \in DOMAIN pt.l0}) \ {0}
freewalk(r) == [free |-> r.free \cup Interior(r.pt), pt |-> NoTable]

uvmfree(r, sz) == freewalk(uvmunmap(r, 0 .. Pages(sz) - 1, TRUE))

\* proc_freepagetable() (kernel/proc.c)
proc_freepagetable(r, sz) == uvmfree(uvmunmap(r, {TRAMPOLINE, TRAPFRAME}, FALSE), sz)

\* What these functions panic without: the entries to unmap are there, and none but them.
CanFree(pt, sz) == {va \in DOMAIN pt.leaf : pt.leaf[va] # 0} = 0 .. Pages(sz) - 1 \cup {TRAMPOLINE, TRAPFRAME}
=============================================================================
