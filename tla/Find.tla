-------------------------------- MODULE Find --------------------------------
(* The program find, user/find.c, walking a directory tree that another    *)
(* process changes.  A path is the sequence of names below the starting    *)
(* directory; open() and stat() resolve it anew each time, while read()    *)
(* goes on in the directory that was opened.                               *)
EXTENDS Integers, Sequences, FiniteSets

CONSTANTS FDS, target,   \* NOFILE, and the name looked for
          MAXPATH, PATHBUF, NAMESIZE,   \* sizes of the kernel's and find's buffers for a path, and of a name: DIRSIZ
          StartLen, NameLen,   \* strlen() of the path find is started with, and of every name
          Dirs, root, Tree0,   \* the directories, the first one, and what each holds at first: a sequence of entries
          MaxChanges           \* bound: calls of unlink(), and of open() or mknod() that create, by the other process

ASSUME FindAssumption ==
  /\ {FDS, MAXPATH, PATHBUF, NAMESIZE, StartLen, MaxChanges} \subseteq Nat /\ root \in Dirs
  /\ \A name \in DOMAIN NameLen : NameLen[name] \in 1 .. NAMESIZE
  /\ StartLen < MAXPATH /\ MAXPATH + NAMESIZE + 1 <= PATHBUF

VARIABLES tree,    \* directory -> sequence of entries [name, node]; node "none" is a free entry
          stack,   \* the active do_find()s on directories: [node, path, off], each with one descriptor
          call,    \* what the innermost one does next: [at, path]
          found,   \* the paths printed
          kept,    \* the paths present since the start
          changes
fvars == <<tree, stack, call, found, kept, changes>>

Entry(name, node) == [name |-> name, node |-> node]
FreeEntry == Entry("", "none")
Dots == {".", ".."}

\* The nodes a path names: none or one, and whether one is a directory.
RECURSIVE Resolve(_, _)
Resolve(node, path) ==
  IF path = <<>> THEN {node}
  ELSE IF node \notin Dirs THEN {}
  ELSE UNION {Resolve(tree[node][i].node, Tail(path)) : i \in {j \in DOMAIN tree[node] : tree[node][j].name = Head(path) /\ tree[node][j].node # "none"}}

RECURSIVE PathsBelow(_, _)
PathsBelow(node, path) ==
  IF node \notin Dirs THEN {}
  ELSE UNION {{Append(path, e.name)} \cup PathsBelow(e.node, Append(path, e.name)) :
                e \in {tree[node][i] : i \in {j \in DOMAIN tree[node] : tree[node][j].node # "none" /\ tree[node][j].name \notin Dots}}}

\* strlen() of a path as find puts it together, with a '/' before each name.
RECURSIVE PathLen(_)
PathLen(path) == IF path = <<>> THEN StartLen ELSE 1 + NameLen[Head(path)] + PathLen(Tail(path))

\* Descriptors 0 to 2, one for each directory being read.
HasFd == 3 + Len(stack) < FDS

\* What open(path) opens: none when the path, with its '\0', is too long for the kernel.
Opens(path) == IF HasFd /\ PathLen(path) < MAXPATH THEN Resolve(root, path) ELSE {}

\* do_find() has room to append '/' and any name to the path.
HasRoom(path) == PathLen(path) + 1 + NAMESIZE + 1 <= PATHBUF

FindInit ==
  /\ tree = Tree0
  /\ stack = <<>> /\ found = <<>> /\ changes = 0
  /\ call = [at |-> "open", path |-> <<>>]
  /\ kept = PathsBelow(root, <<>>)

Return(st) == IF st = <<>> THEN [at |-> "done", path |-> <<>>] ELSE [at |-> "read", path |-> <<>>]
Matched(path) == IF path # <<>> /\ path[Len(path)] = target THEN Append(found, path) ELSE found

\* do_find() up to its loop.  What stat() saw as a directory may be gone or something
\* else by now: a file is matched, a device ignored.
Open ==
  /\ call.at = "open"
  /\ \/ /\ Opens(call.path) = {}
        /\ call' = Return(stack)
        /\ UNCHANGED <<stack, found>>
     \/ \E node \in Opens(call.path) :
          /\ stack' = IF node \in Dirs /\ HasRoom(call.path) THEN Append(stack, [node |-> node, path |-> call.path, off |-> 1]) ELSE stack
          /\ found' = IF node = "file" THEN Matched(call.path) ELSE found
          /\ call' = Return(stack')
  /\ UNCHANGED <<tree, kept, changes>>

Top == stack[Len(stack)]
Advance == [stack EXCEPT ![Len(stack)].off = @ + 1]

Skipped(e) == e.node = "none" \/ e.name \in Dots

\* read() of the next entry, or the end of the directory and close().
Read ==
  /\ call.at = "read"
  /\ IF Top.off > Len(tree[Top.node])
       THEN /\ stack' = SubSeq(stack, 1, Len(stack) - 1)
            /\ call' = Return(stack')
       ELSE /\ stack' = Advance
            /\ LET e == tree[Top.node][Top.off] IN
               call' = IF Skipped(e) THEN Return(stack) ELSE [at |-> "stat", path |-> Append(Top.path, e.name)]
  /\ UNCHANGED <<tree, found, kept, changes>>

\* Mutant: only files are printed, directories only entered.
StatFiles ==
  /\ call.at = "stat"
  /\ found' = IF Opens(call.path) \cap {"file", "device"} # {} THEN Matched(call.path) ELSE found
  /\ call' = IF Opens(call.path) \cap Dirs # {} THEN [call EXCEPT !.at = "open"] ELSE Return(stack)
  /\ UNCHANGED <<tree, stack, kept, changes>>

\* stat(buf), which opens the path itself; the match, whatever the type; the recursion.
Stat ==
  /\ call.at = "stat"
  /\ found' = IF Opens(call.path) # {} THEN Matched(call.path) ELSE found
  /\ call' = IF Opens(call.path) \cap Dirs # {} THEN [call EXCEPT !.at = "open"] ELSE Return(stack)
  /\ UNCHANGED <<tree, stack, kept, changes>>

\* The other process: unlink() of a file or an empty directory, creation of a file or
\* a device in the first free entry or at the end.
Unlink(d, i) ==
  /\ changes < MaxChanges
  /\ tree[d][i].node # "none" /\ tree[d][i].name \notin Dots
  /\ tree[d][i].node \in Dirs => \A j \in DOMAIN tree[tree[d][i].node] : Skipped(tree[tree[d][i].node][j])
  /\ tree' = [tree EXCEPT ![d][i] = FreeEntry]
  /\ kept' = kept \ {p \in kept : p[Len(p)] = tree[d][i].name /\ Resolve(root, SubSeq(p, 1, Len(p) - 1)) = {d}}
  /\ changes' = changes + 1
  /\ UNCHANGED <<stack, call, found>>

Create(d, name, node) ==
  LET free == {i \in DOMAIN tree[d] : tree[d][i].node = "none"} IN
  /\ changes < MaxChanges
  /\ \A i \in DOMAIN tree[d] : tree[d][i].node # "none" => tree[d][i].name # name
  /\ \E p \in {<<>>} \cup PathsBelow(root, <<>>) : Resolve(root, p) = {d}
  /\ tree' = IF free = {} THEN [tree EXCEPT ![d] = Append(@, Entry(name, node))]
             ELSE [tree EXCEPT ![d][CHOOSE i \in free : \A j \in free : i <= j] = Entry(name, node)]
  /\ changes' = changes + 1
  /\ UNCHANGED <<stack, call, found, kept>>

FindNext ==
  \/ Open \/ Read \/ Stat
  \/ \E d \in Dirs, node \in {"file", "device"} : Create(d, target, node)
  \/ \E d \in Dirs : \E i \in DOMAIN tree[d] : Unlink(d, i)

-----------------------------------------------------------------------------
\* The directory of a path is listed with one descriptor for each directory
\* above it and for itself, and one more for stat(), which takes paths of less than
\* MAXPATH characters.
WithinReach(path) == 3 + Len(path) < FDS /\ PathLen(path) < MAXPATH

\* When find is done it has printed every path named target that was there all
\* the time, as far down as its descriptors and the length of a path reach, and
\* printed none of them twice, however the tree changed meanwhile: entries do not
\* move, "." and ".." are skipped, and every do_find() closes its descriptor.
FindComplete ==
  call.at = "done" =>
    \A p \in kept : p[Len(p)] = target /\ WithinReach(p) => Cardinality({i \in DOMAIN found : found[i] = p}) = 1
=============================================================================
