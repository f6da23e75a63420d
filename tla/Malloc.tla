------------------------------- MODULE Malloc -------------------------------
(* The storage allocator of user programs, user/umalloc.c, one turn of a   *)
(* loop at a time.  Addresses are in units of sizeof(Header); base lies    *)
(* below the heap, at address 0, and the heap is 1 .. HEAP.  sbrk() gives  *)
(* the units from brk on, or fails beyond HEAP; the program may call it    *)
(* itself, leaving a gap between two arenas.                               *)
EXTENDS Integers

CONSTANTS HEAP,      \* where sbrk() fails
          MINCORE,   \* 4096 in the code: the least that morecore() asks for
          HDR,       \* sizeof(Header), 16 in the code
          INT,       \* 2^31 in the code: an int is in -INT .. INT - 1
          Requests,  \* the sizes asked for, in bytes
          MaxGaps    \* bound: the program's own calls of sbrk()

\* malloc() takes an unsigned number of bytes, but sbrk() an int: the requests are those
\* that still fit one when they are rounded up to units.
ASSUME MallocAssumption ==
  /\ HEAP \in Nat /\ MINCORE \in Nat \ {0} /\ HDR \in Nat \ {0} /\ INT \in Nat /\ MaxGaps \in Nat
  /\ Requests \subseteq 0 .. INT - 2 * HDR
  /\ MINCORE * HDR < INT

VARIABLES ptr, size,   \* the headers; 0 where there is none
          freep, brk,
          op,          \* the call in progress: where it is, bytes asked for (-1: none), prevp, p and bp
          live,        \* the blocks the program holds: header -> bytes asked for
          arena,       \* the units that morecore() obtained
          gaps
mvars == <<ptr, size, freep, brk, op, live, arena, gaps>>

base == 0
Null == -1
Units == 0 .. HEAP
Idle == [at |-> "idle", bytes |-> -1, prevp |-> base, p |-> base, bp |-> base]

MallocInit ==
  /\ ptr = [a \in Units |-> base] /\ size = [a \in Units |-> 0]
  /\ freep = Null /\ brk = 1
  /\ op = Idle
  /\ live = <<>> /\ arena = {} /\ gaps = 0

\* sizeof(Header) is 64 bits wide, and so is the sum.
nunits(nbytes) == (nbytes + HDR - 1) \div HDR + 1
Searching(nbytes, prevp) == [Idle EXCEPT !.at = "search", !.bytes = nbytes, !.prevp = prevp, !.p = ptr'[prevp]]

\* malloc() up to its loop: the first call makes base the free list.
Malloc(nbytes) ==
  /\ op.at = "idle"
  /\ freep' = IF freep = Null THEN base ELSE freep
  /\ ptr' = IF freep = Null THEN [ptr EXCEPT ![base] = base] ELSE ptr
  /\ size' = IF freep = Null THEN [size EXCEPT ![base] = 0] ELSE size
  /\ op' = Searching(nbytes, freep')
  /\ UNCHANGED <<brk, live, arena, gaps>>

Fits == op.at = "search" /\ size[op.p] >= nunits(op.bytes)
Small == op.at = "search" /\ size[op.p] < nunits(op.bytes)
Holding(q) == [a \in DOMAIN live \cup {q} |-> IF a = q THEN op.bytes ELSE live[a]]

TakeWhole ==
  /\ Fits /\ size[op.p] = nunits(op.bytes)
  /\ ptr' = [ptr EXCEPT ![op.prevp] = ptr[op.p], ![op.p] = base]
  /\ freep' = op.prevp
  /\ live' = Holding(op.p)
  /\ op' = Idle
  /\ UNCHANGED <<size, brk, arena, gaps>>

TakeTail ==
  LET q == op.p + size[op.p] - nunits(op.bytes) IN
  /\ Fits /\ size[op.p] # nunits(op.bytes)
  /\ size' = [size EXCEPT ![op.p] = @ - nunits(op.bytes), ![q] = nunits(op.bytes)]
  /\ freep' = op.prevp
  /\ live' = Holding(q)
  /\ op' = Idle
  /\ UNCHANGED <<ptr, brk, arena, gaps>>

NextBlock ==
  /\ Small /\ op.p # freep
  /\ op' = [op EXCEPT !.prevp = op.p, !.p = ptr[op.p]]
  /\ UNCHANGED <<ptr, size, freep, brk, live, arena, gaps>>

CoreUnits(nu) == IF nu < MINCORE THEN MINCORE ELSE nu

\* The argument of sbrk() is cut to an int; sbrk() moves brk by that many bytes.
ToInt(x) == ((x + INT) % (2 * INT)) - INT
Asked(nu) == ToInt(CoreUnits(nu) * HDR) \div HDR
HasCore(nu) == brk + Asked(nu) <= HEAP + 1

\* morecore() up to its call of free(): whatever sbrk() made of its argument, the new
\* block is taken to have nu units.
MoreCore ==
  LET nu == CoreUnits(nunits(op.bytes)) IN
  /\ Small /\ op.p = freep /\ HasCore(nunits(op.bytes))
  /\ brk' = brk + Asked(nunits(op.bytes))
  /\ size' = [size EXCEPT ![brk] = nu]
  /\ arena' = arena \cup (brk .. brk + nu - 1)
  /\ op' = [op EXCEPT !.at = "free", !.bp = brk, !.p = freep]
  /\ UNCHANGED <<ptr, freep, live, gaps>>

\* Mutant: gives up at the end of the list.
NoCoreAsked ==
  /\ Small /\ op.p = freep
  /\ op' = Idle
  /\ UNCHANGED <<ptr, size, freep, brk, live, arena, gaps>>

\* malloc() returns 0.
NoCore ==
  /\ Small /\ op.p = freep /\ ~HasCore(nunits(op.bytes))
  /\ op' = Idle
  /\ UNCHANGED <<ptr, size, freep, brk, live, arena, gaps>>

Free(bp) ==
  /\ op.at = "idle"
  /\ live' = [a \in DOMAIN live \ {bp} |-> live[a]]
  /\ op' = [Idle EXCEPT !.at = "free", !.bp = bp, !.p = freep]
  /\ UNCHANGED <<ptr, size, freep, brk, arena, gaps>>

\* The conditions that end the loop of free(): bp goes between p and the block after it, or at either end of the list.
GoesAfter(bp, p) == (bp > p /\ bp < ptr[p]) \/ (p >= ptr[p] /\ (bp > p \/ bp < ptr[p]))

NextFree ==
  /\ op.at = "free" /\ ~GoesAfter(op.bp, op.p)
  /\ op' = [op EXCEPT !.p = ptr[op.p]]
  /\ UNCHANGED <<ptr, size, freep, brk, live, arena, gaps>>

\* free() after its loop, joining bp to the blocks that touch it, and the
\* return into malloc()'s loop when morecore() called it.
\* Mutant: bp is not joined to the block below it.
InsertUp ==
  LET bp == op.bp
      p == op.p
      next == ptr[p]
      up == bp + size[bp] = next IN
  /\ op.at = "free" /\ GoesAfter(bp, p)
  /\ size' = [size EXCEPT ![bp] = IF up THEN @ + size[next] ELSE @, ![next] = IF up THEN 0 ELSE @]
  /\ ptr' = [ptr EXCEPT ![bp] = IF up THEN ptr[next] ELSE next, ![next] = IF up THEN base ELSE @, ![p] = bp]
  /\ freep' = p
  /\ op' = IF op.bytes = -1 THEN Idle ELSE Searching(op.bytes, p)
  /\ UNCHANGED <<brk, live, arena, gaps>>

Insert ==
  LET bp == op.bp
      p == op.p
      next == ptr[p]
      up == bp + size[bp] = next
      down == p + size[p] = bp
      joined == IF up THEN size[bp] + size[next] ELSE size[bp]
      after == IF up THEN ptr[next] ELSE next IN
  /\ op.at = "free" /\ GoesAfter(bp, p)
  /\ size' = [a \in Units |-> CASE a = p /\ down -> size[p] + joined
                                [] a = bp -> IF down THEN 0 ELSE joined
                                [] a = next /\ up -> 0
                                [] OTHER -> size[a]]
  /\ ptr' = [a \in Units |-> CASE a = p -> IF down THEN after ELSE bp
                               [] a = bp -> IF down THEN base ELSE after
                               [] a = next /\ up -> base
                               [] OTHER -> ptr[a]]
  /\ freep' = p
  /\ op' = IF op.bytes = -1 THEN Idle ELSE Searching(op.bytes, p)
  /\ UNCHANGED <<brk, live, arena, gaps>>

Sbrk ==
  /\ op.at = "idle" /\ gaps < MaxGaps /\ brk <= HEAP
  /\ brk' = brk + 1
  /\ gaps' = gaps + 1
  /\ UNCHANGED <<ptr, size, freep, op, live, arena>>

MallocNext ==
  \/ \E n \in Requests : Malloc(n)
  \/ \E bp \in DOMAIN live : Free(bp)
  \/ TakeWhole \/ TakeTail \/ NextBlock \/ MoreCore \/ NoCore \/ NextFree \/ Insert \/ Sbrk

MallocSpec == MallocInit /\ [][MallocNext]_mvars

-----------------------------------------------------------------------------
\* The blocks: a header is where size is not 0.
Headers == {a \in Units : size[a] # 0}
Returned == IF op.at = "free" THEN {op.bp} ELSE {}
FreeBlocks == (Headers \ DOMAIN live) \ Returned
Block(a) == a .. a + size[a] - 1

HeapTypeOK ==
  /\ ptr \in [Units -> Units] /\ size \in [Units -> Nat]
  /\ freep \in Units \cup {Null} /\ brk \in 1 .. HEAP + 1 /\ gaps \in Nat
  /\ op \in [at : {"idle", "search", "free"}, bytes : Requests \cup {-1}, prevp : Units, p : Units, bp : Units]
  /\ DOMAIN live \subseteq Units /\ \A a \in DOMAIN live : live[a] \in Requests
  /\ arena \subseteq 1 .. brk - 1

\* The blocks of the free list, those the program holds and the one being
\* returned tile the units that morecore() obtained: none is lost, none handed
\* out twice, after any sequence of malloc() and free(), whether the arenas
\* touch or not.
HeapTiled ==
  /\ UNION {Block(a) : a \in Headers} = arena
  /\ \A a, b \in Headers : a # b => Block(a) \cap Block(b) = {}
  /\ DOMAIN live \cup Returned \subseteq Headers

\* The free list is one cycle through base in the order of addresses, and no
\* two of its blocks touch: free() finds its place and joins both neighbours.
ListSorted ==
  freep # Null =>
    /\ freep \in FreeBlocks \cup {base}
    /\ \A a \in FreeBlocks \cup {base} :
         \/ ptr[a] \in FreeBlocks /\ ptr[a] > a + size[a] /\ \A b \in FreeBlocks : ~(a < b /\ b < ptr[a])
         \/ ptr[a] = base /\ \A b \in FreeBlocks : b <= a

\* A block that malloc() returned has room for the bytes asked for, for as long
\* as the program holds it, whatever else is allocated and freed.
RoomEnough == \A a \in DOMAIN live : (size[a] - 1) * HDR >= live[a]

\* Where a call is: on the free list, which exists since the first malloc(), with
\* prevp one behind p; and the block it returns is nobody's.
CallPlaced ==
  /\ freep = Null => op.at = "idle" /\ Headers = {}
  /\ op.at = "search" => op.prevp \in FreeBlocks \cup {base} /\ op.p = ptr[op.prevp] /\ op.bytes \in Requests
  /\ op.at = "free" => op.p \in FreeBlocks \cup {base} /\ op.bp \notin DOMAIN live

\* The blocks that malloc()'s loop has passed, on its way round from freep to p,
\* are too small.
Passed(b) == IF op.p > freep THEN freep < b /\ b < op.p ELSE freep < b \/ b < op.p
PassedSmall == op.at = "search" => \A b \in FreeBlocks : Passed(b) => size[b] < nunits(op.bytes)

\* malloc() returns 0 only when no free block is large enough and sbrk() fails:
\* its loop went all the way round the list from wherever freep was.
FailsOnlyWhenFull ==
  [][op.at = "search" /\ op'.at = "idle" /\ live' = live =>
       (\A a \in FreeBlocks : size[a] < nunits(op.bytes)) /\ ~HasCore(nunits(op.bytes))]_mvars

\* malloc() and free() keep the heap in order.
HeapInv == HeapTypeOK /\ HeapTiled /\ ListSorted /\ RoomEnough /\ CallPlaced /\ PassedSmall
=============================================================================
