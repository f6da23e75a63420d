------------------------------- MODULE FsTree -------------------------------
(* The inode cache, directories and path lookup of kernel/fs.c, and the    *)
(* system calls of kernel/sysfile.c that name files.                       *)
(*                                                                         *)
(* An action is a piece of a system call between two points where another  *)
(* process can interfere: waiting for an inode's sleep lock, and the       *)
(* critical sections of icache.lock.  A lock taken and released inside one *)
(* action does not show.  Transactions are the subject of module Log, file *)
(* contents of module FileData, descriptors of module Resources: here a    *)
(* process has one descriptor, and a directory is a function from names.   *)
EXTENDS Integers, Sequences, FiniteSets, FiniteSetsExt

CONSTANTS Procs, None,
          NInodes,        \* on-disk inodes
          NINODE,         \* inode cache entries
          Names,          \* file names
          Calls,          \* the system calls each process makes: <<call, path, new path of link()>>,
                          \* a path being a sequence of elements, "/" first if absolute
          MaxCalls,       \* bound on their number
          Images          \* what the disk may hold at boot: [dinode, ents]

VARIABLES dinode,         \* on-disk inodes, as the buffer cache has them
          ents,           \* directory contents
          icache,
          cwd, ofile,     \* per process: current directory, the one descriptor (0 if none)
          t,              \* per process: where its system call is
          calls,          \* how many system calls there were
          strayed,        \* auxiliary: a lookup went to a removed directory through ".."
          panic

vars == <<dinode, ents, icache, cwd, ofile, t, calls, strayed, panic>>
disk == <<dinode, ents>>
fds  == <<cwd, ofile>>

ROOTINO == 1
Inums == 1..NInodes
Slots == 1..NINODE
Elements == Names \cup {".", ".."}
Types == {"free", "dir", "file", "device"}
NoEntries == [n \in Elements |-> 0]

\* Calls whose path is looked up with nameiparent().
Creates == {"create", "mkdir", "mknod"}
CreateType == [create |-> "file", mkdir |-> "dir", mknod |-> "device"]
ToParent == Creates \cup {"unlink", "link_new"}

Idle == [pc |-> "user", call |-> "none", path |-> <<>>, new |-> <<>>, inum |-> 0, ip |-> 0, dp |-> 0, put |-> <<>>, iput |-> "check"]

\* A cache entry with ref 0: what else it holds is never read.
NoInode == [inum |-> 0, ref |-> 0, valid |-> FALSE, type |-> "free", nlink |-> 0, holder |-> None]

\* A fresh image of mkfs: the root, and one file in it.
Fresh ==
  [dinode |-> [i \in Inums |-> CASE i = ROOTINO -> [type |-> "dir", nlink |-> 1]
                                 [] i = 2 -> [type |-> "file", nlink |-> 1]
                                 [] OTHER -> [type |-> "free", nlink |-> 0]],
   ents   |-> [i \in Inums |-> IF i = ROOTINO THEN [NoEntries EXCEPT !["."] = 1, ![".."] = 1, !["b"] = 2] ELSE NoEntries]]

Init ==
  /\ \E image \in Images : dinode = image.dinode /\ ents = image.ents
  /\ icache = [s \in Slots |-> IF s = 1 THEN [NoInode EXCEPT !.inum = ROOTINO, !.ref = Cardinality(Procs)]
                               ELSE NoInode]
  /\ cwd = [p \in Procs |-> 1]
  /\ ofile = [p \in Procs |-> 0]
  /\ t = [p \in Procs |-> Idle]
  /\ calls = 0
  /\ strayed = FALSE
  /\ panic = "none"

-----------------------------------------------------------------------------
(* The inode cache.                                                        *)

\* iget(): the entry for inode i, or else the first unused one.
CachedAndRead(i) == {s \in Slots : icache[s].ref > 0 /\ icache[s].valid /\ icache[s].inum = i}
Cached(i) == {s \in Slots : icache[s].ref > 0 /\ icache[s].inum = i}
Unused == {s \in Slots : icache[s].ref = 0}
IgetSlot(i) == IF Cached(i) # {} THEN Min(Cached(i)) ELSE Min(Unused)
Iget(ic, i) ==
  LET s == IgetSlot(i) IN
  [ic EXCEPT ![s] = IF Cached(i) # {} THEN [@ EXCEPT !.ref = @ + 1]
                    ELSE [NoInode EXCEPT !.inum = i, !.ref = 1]]

Idup(ic, s) == [ic EXCEPT ![s].ref = @ + 1]

\* ilock(): read the inode from disk if the entry does not have it.
Ilock(s) ==
  IF icache[s].valid THEN icache
  ELSE [icache EXCEPT ![s].valid = TRUE, ![s].type = dinode[icache[s].inum].type,
                      ![s].nlink = dinode[icache[s].inum].nlink]
Free(s) == icache[s].holder = None
Hold(ic, s, p) == [ic EXCEPT ![s].holder = p]
Iunlock(ic, s) == [ic EXCEPT ![s].holder = None]

\* Change nlink in the entry and, with iupdate(), on disk.
SetLinks(ic, s, n) == [ic EXCEPT ![s].nlink = n]
Iupdate(d, ic, s) == [d EXCEPT ![ic[s].inum] = [type |-> ic[s].type, nlink |-> ic[s].nlink]]

\* Process p is at the given point of its system call and has no iput() to finish.
At(p, pc) == panic = "none" /\ t[p].pc = pc /\ t[p].put = <<>>

\* ilock() on the way; IlockPanics below is what happens when the inode turns out to be free.
Locks(p, pc, s) == At(p, pc) /\ Free(s) /\ Ilock(s)[s].type # "free"
Goto(p, pc) == t' = [t EXCEPT ![p].pc = pc]
Return(p, put) == t' = [t EXCEPT ![p] = [Idle EXCEPT !.put = put]]

\* iput(): the entries in put are dropped one by one before p goes on.
LastLink(e) == e.valid /\ e.nlink = 0
LastReference(e) == e.ref = 1 /\ e.valid /\ e.nlink = 0
Putting(p, iput) == panic = "none" /\ t[p].put # <<>> /\ t[p].iput = iput
Drop(p, s) ==
  /\ icache' = [icache EXCEPT ![s] = IF @.ref = 1 THEN NoInode ELSE [@ EXCEPT !.ref = @ - 1]]
  /\ t' = [t EXCEPT ![p].put = Tail(@), ![p].iput = "check"]

IputDrop(p) ==
  /\ Putting(p, "check") /\ ~LastReference(icache[Head(t[p].put)])
  /\ Drop(p, Head(t[p].put))
  /\ UNCHANGED <<disk, fds, calls, strayed, panic>>

IputLock(p) ==
  LET s == Head(t[p].put) IN
  /\ Putting(p, "check") /\ LastReference(icache[s])
  /\ Free(s)
  /\ icache' = Hold(icache, s, p)
  /\ t' = [t EXCEPT ![p].iput = "free"]
  /\ UNCHANGED <<disk, fds, calls, strayed, panic>>

\* itrunc(), type 0, iupdate().
IputFree(p) ==
  LET s == Head(t[p].put) IN
  /\ Putting(p, "free")
  /\ dinode' = [dinode EXCEPT ![icache[s].inum] = [type |-> "free", nlink |-> icache[s].nlink]]
  /\ ents' = [ents EXCEPT ![icache[s].inum] = NoEntries]
  /\ icache' = [Iunlock(icache, s) EXCEPT ![s].valid = FALSE, ![s].type = "free"]
  /\ t' = [t EXCEPT ![p].iput = "drop"]
  /\ UNCHANGED <<fds, calls, strayed, panic>>

IputForget(p) ==
  /\ Putting(p, "drop")
  /\ Drop(p, Head(t[p].put))
  /\ UNCHANGED <<disk, fds, calls, strayed, panic>>

-----------------------------------------------------------------------------
(* namex().                                                                *)

\* Where the lookup goes on: at another element, or back in the caller.
Onward(call, path) == IF path = <<>> THEN call ELSE "walk"

\* Start the lookup of path at the root or at the current directory.
Namex(p, ic, call, path, new, dp) ==
  LET abs == path # <<>> /\ Head(path) = "/"
      rest == IF abs THEN Tail(path) ELSE path IN
  /\ icache' = IF abs THEN Iget(ic, ROOTINO) ELSE Idup(ic, cwd[p])
  /\ t' = [t EXCEPT ![p] = [Idle EXCEPT !.pc = Onward(call, rest), !.call = call, !.path = rest, !.new = new,
                                        !.ip = IF abs THEN IgetSlot(ROOTINO) ELSE cwd[p], !.dp = dp]]

\* namex() returns 0; sys_link() then has a link count to undo.
Missing(p, put) ==
  IF t[p].call = "link_new" THEN t' = [t EXCEPT ![p].pc = "link_bad", ![p].ip = 0, ![p].put = put]
  ELSE Return(p, put)

AtDirectory(p) == Ilock(t[p].ip)[t[p].ip].type = "dir"
Entry(p) == ents[icache[t[p].ip].inum][Head(t[p].path)]
LastElement(p) == t[p].call \in ToParent /\ Len(t[p].path) = 1
\* A directory keeps its ".." when it is removed, and the parent may go after it.
Strays(p) == Head(t[p].path) = ".." /\ dinode[Entry(p)].nlink = 0

Walk(p) ==
  LET s == t[p].ip IN
  /\ Locks(p, "walk", s)
  /\ \/ ~AtDirectory(p) /\ Missing(p, <<s>>) /\ icache' = Ilock(s) /\ UNCHANGED strayed
     \/ AtDirectory(p) /\ LastElement(p) /\ Goto(p, t[p].call) /\ icache' = Ilock(s) /\ UNCHANGED strayed
     \/ AtDirectory(p) /\ ~LastElement(p) /\ Entry(p) = 0 /\ Missing(p, <<s>>) /\ icache' = Ilock(s) /\ UNCHANGED strayed
     \/ /\ AtDirectory(p) /\ ~LastElement(p) /\ Entry(p) # 0
        /\ icache' = Iget(Ilock(s), Entry(p))
        /\ t' = [t EXCEPT ![p].ip = IgetSlot(Entry(p)), ![p].path = Tail(@), ![p].put = <<s>>,
                          ![p].pc = Onward(t[p].call, Tail(t[p].path))]
        /\ strayed' = (strayed \/ Strays(p))
  /\ UNCHANGED <<disk, fds, calls, panic>>

-----------------------------------------------------------------------------
(* create().                                                               *)

FreeInodes == {i \in Inums : dinode[i].type = "free"}

CreateLookup(p) ==
  LET s == t[p].ip  i == Entry(p) IN
  /\ \E call \in Creates : Locks(p, call, s)
  /\ \/ /\ i # 0
        /\ icache' = Iget(Ilock(s), i)
        /\ t' = [t EXCEPT ![p].pc = "exists", ![p].ip = IgetSlot(i), ![p].put = <<s>>]
        /\ UNCHANGED dinode
     \/ /\ i = 0 /\ FreeInodes # {}
        /\ icache' = Hold(Ilock(s), s, p)
        /\ dinode' = [dinode EXCEPT ![Min(FreeInodes)] = [type |-> CreateType[t[p].call], nlink |-> 0]]
        /\ t' = [t EXCEPT ![p].pc = "ialloc", ![p].ip = 0, ![p].dp = s, ![p].inum = Min(FreeInodes)]
  /\ UNCHANGED <<ents, fds, calls, strayed, panic>>

\* ialloc() calls iget() after it has released the block.
IallocIget(p) ==
  /\ At(p, "ialloc")
  /\ icache' = Iget(icache, t[p].inum)
  /\ t' = [t EXCEPT ![p].pc = "init", ![p].ip = IgetSlot(t[p].inum)]
  /\ UNCHANGED <<disk, fds, calls, strayed, panic>>

CreateLink(p) ==
  LET s == t[p].ip  d == t[p].dp  i == icache[s].inum  di == icache[d].inum
      isdir == t[p].call = "mkdir"
      ic1 == SetLinks(Ilock(s), s, 1)
      ic2 == IF isdir THEN SetLinks(ic1, d, icache[d].nlink + 1) ELSE ic1
      mine == IF isdir THEN [NoEntries EXCEPT !["."] = i, ![".."] = di] ELSE NoEntries IN
  /\ Locks(p, "init", s)
  /\ icache' = Iunlock(Hold(ic2, s, p), d)
  /\ dinode' = Iupdate(Iupdate(dinode, ic2, s), ic2, d)
  /\ ents' = [ents EXCEPT ![i] = mine, ![di][Head(t[p].path)] = i]
  /\ t' = [t EXCEPT ![p].pc = IF t[p].call = "create" THEN "opening" ELSE "made", ![p].dp = 0, ![p].put = <<d>>]
  /\ UNCHANGED <<fds, calls, strayed, panic>>

\* sys_mkdir(), sys_mknod()
Made(p) ==
  /\ At(p, "made")
  /\ icache' = Iunlock(icache, t[p].ip)
  /\ Return(p, <<t[p].ip>>)
  /\ UNCHANGED <<disk, fds, calls, strayed, panic>>

Exists(p) ==
  LET s == t[p].ip  ic == Ilock(s) IN
  /\ Locks(p, "exists", s)
  /\ \/ t[p].call = "create" /\ ic[s].type # "dir" /\ Goto(p, "opening") /\ icache' = Hold(ic, s, p)
     \/ ~(t[p].call = "create" /\ ic[s].type # "dir") /\ Return(p, <<s>>) /\ icache' = ic
  /\ UNCHANGED <<disk, fds, calls, strayed, panic>>

-----------------------------------------------------------------------------
(* The system calls.                                                       *)

Open(p) ==
  LET s == t[p].ip  ic == Ilock(s) IN
  /\ Locks(p, "open", s)
  /\ \/ Goto(p, "opening") /\ icache' = Hold(ic, s, p)
     \/ ic[s].type = "dir" /\ Return(p, <<s>>) /\ icache' = ic    \* not O_RDONLY
  /\ UNCHANGED <<disk, fds, calls, strayed, panic>>

\* filealloc(), fdalloc() and the end of sys_open()
Opened(p) ==
  LET s == t[p].ip IN
  /\ At(p, "opening")
  /\ icache' = Iunlock(icache, s)
  /\ \/ ofile[p] = 0 /\ ofile' = [ofile EXCEPT ![p] = s] /\ Return(p, <<>>)
     \/ /\ ofile[p] # 0 \/ icache[s].type = "device"               \* or its major is out of range
        /\ Return(p, <<s>>) /\ UNCHANGED ofile
  /\ UNCHANGED <<disk, cwd, calls, strayed, panic>>

Close(p) ==
  /\ At(p, "user") /\ ofile[p] # 0
  /\ ofile' = [ofile EXCEPT ![p] = 0]
  /\ Return(p, <<ofile[p]>>)
  /\ UNCHANGED <<disk, icache, cwd, calls, strayed, panic>>

Chdir(p) ==
  LET s == t[p].ip  ic == Ilock(s) IN
  /\ Locks(p, "chdir", s)
  /\ icache' = ic
  /\ \/ ic[s].type # "dir" /\ Return(p, <<s>>) /\ UNCHANGED cwd
     \/ ic[s].type = "dir" /\ Return(p, <<cwd[p]>>) /\ cwd' = [cwd EXCEPT ![p] = s]
  /\ UNCHANGED <<disk, ofile, calls, strayed, panic>>

LinkOld(p) ==
  LET s == t[p].ip  ic == SetLinks(Ilock(s), s, Ilock(s)[s].nlink + 1) IN
  /\ Locks(p, "link", s)
  /\ \/ ic[s].type = "dir" /\ Return(p, <<s>>) /\ icache' = Ilock(s) /\ UNCHANGED dinode
     \/ /\ ic[s].type # "dir"
        /\ dinode' = Iupdate(dinode, ic, s)
        /\ Namex(p, ic, "link_new", t[p].new, <<>>, s)
  /\ UNCHANGED <<ents, fds, calls, strayed, panic>>

\* dirlink() of the old inode, which dp holds, in the new parent; an entry of
\* that name makes it fail, after an iget() and an iput() of what it names.
LinkNew(p) ==
  LET d == t[p].ip  s == t[p].dp  di == icache[d].inum IN
  /\ Locks(p, "link_new", d)
  /\ \/ /\ Entry(p) = 0
        /\ icache' = Ilock(d)
        /\ ents' = [ents EXCEPT ![di][Head(t[p].path)] = icache[s].inum]
        /\ Return(p, <<d, s>>)
     \/ /\ Entry(p) # 0
        /\ icache' = Iget(Hold(Ilock(d), d, p), Entry(p))
        /\ t' = [t EXCEPT ![p].pc = "link_taken", ![p].put = <<IgetSlot(Entry(p))>>]
        /\ UNCHANGED ents
  /\ UNCHANGED <<dinode, fds, calls, strayed, panic>>

LinkTaken(p) ==
  /\ At(p, "link_taken")
  /\ icache' = Iunlock(icache, t[p].ip)
  /\ t' = [t EXCEPT ![p].pc = "link_bad", ![p].ip = 0, ![p].put = <<t[p].ip>>]
  /\ UNCHANGED <<disk, fds, calls, strayed, panic>>

LinkBad(p) ==
  LET s == t[p].dp  ic == SetLinks(Ilock(s), s, Ilock(s)[s].nlink - 1) IN
  /\ Locks(p, "link_bad", s)
  /\ icache' = ic
  /\ dinode' = Iupdate(dinode, ic, s)
  /\ Return(p, <<s>>)
  /\ UNCHANGED <<ents, fds, calls, strayed, panic>>

UnlinkLookupDots(p) ==
  LET d == t[p].ip IN
  /\ Locks(p, "unlink", d)
  /\ \/ Entry(p) = 0 /\ Return(p, <<d>>) /\ icache' = Ilock(d)
     \/ /\ Entry(p) # 0
        /\ icache' = Iget(Hold(Ilock(d), d, p), Entry(p))
        /\ t' = [t EXCEPT ![p].pc = "unlink_entry", ![p].dp = d, ![p].ip = IgetSlot(Entry(p))]
  /\ UNCHANGED <<disk, fds, calls, strayed, panic>>
UnlinkLookup(p) ==
  LET d == t[p].ip IN
  /\ Locks(p, "unlink", d)
  /\ \/ (Head(t[p].path) \in {".", ".."} \/ Entry(p) = 0) /\ Return(p, <<d>>) /\ icache' = Ilock(d)
     \/ /\ Head(t[p].path) \notin {".", ".."} /\ Entry(p) # 0
        /\ icache' = Iget(Hold(Ilock(d), d, p), Entry(p))
        /\ t' = [t EXCEPT ![p].pc = "unlink_entry", ![p].dp = d, ![p].ip = IgetSlot(Entry(p))]
  /\ UNCHANGED <<disk, fds, calls, strayed, panic>>

NotLooking(i) == TRUE
isdirempty(i) == \A n \in Names : ents[i][n] = 0

UnlinkEntry(p) ==
  LET s == t[p].ip  d == t[p].dp  ic == Ilock(s)
      isdir == ic[s].type = "dir"
      ic2 == IF isdir THEN SetLinks(ic, d, ic[d].nlink - 1) ELSE ic IN
  /\ Locks(p, "unlink_entry", s) /\ ic[s].nlink >= 1
  /\ \/ /\ isdir /\ ~isdirempty(ic[s].inum)
        /\ icache' = ic
        /\ t' = [t EXCEPT ![p].pc = "unlink_bad", ![p].ip = 0, ![p].put = <<s>>]
        /\ UNCHANGED disk
     \/ /\ ~(isdir /\ ~isdirempty(ic[s].inum))
        /\ ents' = [ents EXCEPT ![ic[d].inum][Head(t[p].path)] = 0]
        /\ dinode' = Iupdate(dinode, ic2, d)
        /\ icache' = Iunlock(Hold(ic2, s, p), d)
        /\ t' = [t EXCEPT ![p].pc = "unlink_inode", ![p].dp = 0, ![p].put = <<d>>]
  /\ UNCHANGED <<fds, calls, strayed, panic>>

UnlinkBad(p) ==
  /\ At(p, "unlink_bad")
  /\ icache' = Iunlock(icache, t[p].dp)
  /\ Return(p, <<t[p].dp>>)
  /\ UNCHANGED <<disk, fds, calls, strayed, panic>>

UnlinkInode(p) ==
  LET s == t[p].ip  ic == SetLinks(icache, s, icache[s].nlink - 1) IN
  /\ At(p, "unlink_inode")
  /\ icache' = Iunlock(ic, s)
  /\ dinode' = Iupdate(dinode, ic, s)
  /\ Return(p, <<s>>)
  /\ UNCHANGED <<ents, fds, calls, strayed, panic>>

Syscall(p) ==
  /\ At(p, "user") /\ calls < MaxCalls
  /\ calls' = calls + 1
  /\ \E c \in Calls[p] : Namex(p, icache, c[1], c[2], c[3], 0)
  /\ UNCHANGED <<disk, fds, strayed, panic>>

\* What p's next step would lock with ilock(), if anything.
Wants(p) ==
  CASE t[p].pc \in {"walk", "open", "chdir", "link", "link_new", "unlink", "exists", "init", "unlink_entry"}
                    \cup Creates -> t[p].ip
    [] t[p].pc = "link_bad" -> t[p].dp
    [] OTHER -> 0

\* Where ilock() panics ("ilock: no type") and where sys_unlink() does ("unlink: nlink < 1").
IlockPanics(p) == /\ At(p, t[p].pc) /\ Wants(p) # 0 /\ Free(Wants(p))
                  /\ Ilock(Wants(p))[Wants(p)].type = "free"
UnlinkPanics(p) == Locks(p, "unlink_entry", t[p].ip) /\ Ilock(t[p].ip)[t[p].ip].nlink < 1

PanicIlock(p) ==
  /\ IlockPanics(p)
  /\ panic' = "ilock: no type"
  /\ UNCHANGED <<disk, icache, fds, t, calls, strayed>>

PanicIalloc(p) ==
  /\ \E call \in Creates : Locks(p, call, t[p].ip)
  /\ Entry(p) = 0 /\ FreeInodes = {}
  /\ panic' = "ialloc: no inodes"
  /\ UNCHANGED <<disk, icache, fds, t, calls, strayed>>

Step(p) ==
  \/ IputDrop(p) \/ IputLock(p) \/ IputFree(p) \/ IputForget(p)
  \/ Walk(p)
  \/ CreateLookup(p) \/ IallocIget(p) \/ CreateLink(p) \/ Made(p) \/ Exists(p)
  \/ Open(p) \/ Opened(p) \/ Chdir(p)
  \/ LinkOld(p) \/ LinkNew(p) \/ LinkTaken(p) \/ LinkBad(p)
  \/ UnlinkLookup(p) \/ UnlinkEntry(p) \/ UnlinkBad(p) \/ UnlinkInode(p)
  \/ PanicIlock(p) \/ PanicIalloc(p)

Next == \E p \in Procs : Step(p) \/ Syscall(p) \/ Close(p)

Spec == Init /\ [][Next]_vars
\* A process that can go on does; the kernel preempts but never abandons it.
FairSpec == Spec /\ \A p \in Procs : WF_vars(Step(p))

-----------------------------------------------------------------------------
(* Properties.                                                             *)

TypeOK ==
  /\ dinode \in [Inums -> [type : Types, nlink : Nat]]
  /\ ents \in [Inums -> [Elements -> 0..NInodes]]
  /\ \A s \in Slots : icache[s].ref \in Nat /\ icache[s].nlink \in Nat /\ icache[s].holder \in Procs \cup {None}
  /\ cwd \in [Procs -> Slots] /\ ofile \in [Procs -> 0..NINODE]
  /\ \A p \in Procs : t[p].ip \in 0..NINODE /\ t[p].dp \in 0..NINODE /\ t[p].put \in Seq(Slots)

\* The in-memory pointers to cache entry s: current directories, open files,
\* and the local variables of system calls in progress.
Pointers(s) ==
  Cardinality({p \in Procs : cwd[p] = s}) + Cardinality({p \in Procs : ofile[p] = s})
  + Cardinality({p \in Procs : t[p].ip = s}) + Cardinality({p \in Procs : t[p].dp = s})
  + Cardinality({x \in Procs \X (1..2) : x[2] <= Len(t[x[1]].put) /\ t[x[1]].put[x[2]] = s})

\* "ip->ref tracks the number of in-memory pointers to the entry" (kernel/fs.c):
\* no error path of the system calls loses a reference or drops one twice.
RefsCounted == \A s \in Slots : icache[s].ref = Pointers(s)

\* iget() never gives one inode two entries, whose locks would not exclude each other.
OneEntryPerInode ==
  \A s, u \in Slots : icache[s].ref > 0 /\ icache[u].ref > 0 /\ icache[s].inum = icache[u].inum => s = u

\* "ip->ref == 1 means no other process can have ip locked, so this
\* acquiresleep() won't block (or deadlock)" (iput()), with icache.lock held.
IputNeverBlocks ==
  \A p \in Procs : Putting(p, "check") /\ LastReference(icache[Head(t[p].put)]) => Free(Head(t[p].put))

\* An inode has at least as many links as allocated directories have names for
\* it, through link(), unlink(), eviction from the cache and failed calls, until a
\* lookup strays: it may then free an inode that ialloc() has just marked.
LinksCoverNames ==
  ~strayed => \A i \in Inums :
    Cardinality({x \in Inums \X Names : dinode[x[1]].type = "dir" /\ ents[x[1]][x[2]] = i}) <= dinode[i].nlink

\* A file that is open, or a current directory, is not freed under its user.
OpenInodesStay ==
  \A p \in Procs : /\ dinode[icache[cwd[p]].inum].type = "dir"
                    /\ ofile[p] # 0 => dinode[icache[ofile[p]].inum].type # "free"

\* What ilock() locks is allocated: the panic "ilock: no type" never happens.
IlockFindsType == \A p \in Procs : ~IlockPanics(p)

\* ilock() never meets a free inode, and unlink() never one without links, as
\* long as no lookup follows the ".." of a removed directory (fs.c:576) to a
\* parent that has been removed too: nothing keeps that parent, and the next
\* ilock() of it may panic.
NoPanic == ~strayed => IlockFindsType /\ \A p \in Procs : ~UnlinkPanics(p)

\* A directory that loses its last link is empty, though unlink() looks for
\* entries before it updates the parent and drops the link after it.  Once a
\* lookup has strayed the inode may be another directory's as well.
RemovedEmpty ==
  [][~strayed => \A i \in Inums : dinode[i].type = "dir" /\ dinode[i].nlink > 0 /\ dinode'[i].nlink = 0
                       => \A n \in Names : ents[i][n] = 0]_vars

\* Every system call returns, unless ialloc() panics for want of inodes or
\* ilock() after a lookup strayed (NoPanic): unlink(), which locks an entry while it
\* holds the directory, never waits for a call that holds locks the other way
\* round, although paths lead up through ".." as well as down.
CallsReturn == \A p \in Procs : t[p].pc # "user" \/ t[p].put # <<>> ~> (t[p].pc = "user" /\ t[p].put = <<>>) \/ panic # "none"

\* The inode cache agrees with the calls that use it and with the directories.
FsInv ==
  /\ TypeOK
  /\ RefsCounted /\ OneEntryPerInode /\ IputNeverBlocks
  /\ LinksCoverNames /\ OpenInodesStay
=============================================================================
