-------------------------------- MODULE Shell -------------------------------
(* Running shell lines: main() and runcmd() of user/sh.c, the init process *)
(* of user/init.c that restarts the shell and reaps orphans, and the       *)
(* program cat of user/cat.c.  A process that runs a command is at a node  *)
(* of the parsed line cmd, named by the path to it.  The system calls are  *)
(* used with the results the kernel gives them: fork(), pipe(), open() and *)
(* init's exec() fail when something runs out, at most MaxFaults times.    *)
EXTENDS ShParse, SequencesExt

CONSTANTS NPROC, NOFILE, PIPESIZE,
          Lines,      \* the lines typed
          Programs,   \* the names exec() finds; each is cat
          MaxLines, MaxBytes, MaxFaults   \* bounds: lines typed, bytes a console or file yields per reader, failing calls

ASSUME ShellAssumption == NPROC \in Nat /\ NOFILE \in Nat /\ PIPESIZE \in Nat \ {0} /\ NOFILE >= 5 /\ MaxFaults \in Nat \ {0} /\ MAXARGS \in Nat

VARIABLES proc, pipe, typed, faults
vars == <<proc, pipe, typed, faults>>

Slots == 1 .. NPROC
init == 1
Fds == 0 .. NOFILE - 1

\* What a descriptor refers to.
Closed == [kind |-> "closed"]
Console == [kind |-> "console"]
File(word) == [kind |-> "file", word |-> word]
End(id, end) == [kind |-> "pipe", id |-> id, end |-> end]
StdFds == [fd \in Fds |-> IF fd < 3 THEN Console ELSE Closed]

Text(line, word) == SubSeq(line, word[1], word[2] - 1)
Sub(cmd, path) == FoldLeft(LAMBDA c, d : CASE d = "left" -> c.left [] d = "right" -> c.right [] OTHER -> c.cmd, cmd, path)
Cmd(r) == Sub(r.cmd, r.path)

\* A process: n counts waits, arguments or bytes, p holds pipe()'s descriptors.
Process(pc, parent) == [pc |-> pc, parent |-> parent, job |-> 0, line |-> <<>>, cmd |-> execcmd, path |-> <<>>, fds |-> StdFds, n |-> 0, p |-> <<>>]
NoProcess == [Process("free", 0) EXCEPT !.fds = [fd \in Fds |-> Closed]]
Live(r) == r.pc \notin {"free", "zombie"}
Unused == {q \in Slots : proc[q].pc = "free"}

Init ==
  /\ proc = [q \in Slots |-> IF q = init THEN Process("start", 0) ELSE NoProcess]
  /\ pipe = <<>>
  /\ typed = 0
  /\ faults = 0

LowestFd(fds) == Min({fd \in Fds : fds[fd] = Closed})
Ends(pr, id, end) == {q \in Slots : \E fd \in Fds : pr[q].fds[fd] = End(id, end)}
Pipes(pr) == UNION {{pr[q].fds[fd].id : fd \in {f \in Fds : pr[q].fds[f].kind = "pipe"}} : q \in Slots}

\* The processes become pr; a pipe lives as long as an end of it is open.
Become(pr, content) ==
  /\ proc' = pr
  /\ pipe' = [id \in Pipes(pr) |-> IF id \in DOMAIN content THEN content[id] ELSE 0]

Goes(p, r) == Become([proc EXCEPT ![p] = r], pipe)

\* exit(): closes every descriptor and gives the children to init; the kernel panics if
\* it is init that exits.
Panicked == proc[init].pc = "panic"
exit(p) ==
  IF p = init THEN Goes(init, [proc[init] EXCEPT !.pc = "panic"]) ELSE
  Become([q \in Slots |-> CASE q = p -> [NoProcess EXCEPT !.pc = "zombie", !.parent = proc[p].parent, !.job = proc[p].job]
                            [] proc[q].parent = p /\ q # p -> [proc[q] EXCEPT !.parent = init]
                            [] OTHER -> proc[q]], pipe)

Fault == faults < MaxFaults /\ faults' = faults + 1
\* fork() fails, for want of memory or of a slot.
ForkFault == IF Unused = {} THEN faults' = Min({MaxFaults, faults + 1}) ELSE Fault

\* fork1(): the child starts as child, the parent goes on as r; a failing fork() is a panic.
fork1(p, r, child) ==
  \/ /\ Unused # {}
     /\ Become([proc EXCEPT ![p] = r, ![Min(Unused)] = [child EXCEPT !.parent = p]], pipe)
     /\ UNCHANGED <<typed, faults>>
  \/ exit(p) /\ ForkFault /\ UNCHANGED typed

\* wait(0) in p, which goes on as r.
wait(p, r) ==
  \E q \in Slots :
    /\ proc[q].pc = "zombie" /\ proc[q].parent = p
    /\ Become([proc EXCEPT ![p] = r, ![q] = NoProcess], pipe)
    /\ UNCHANGED <<typed, faults>>

-----------------------------------------------------------------------------
(* The main program of init, in slot 1.                                    *)
InitStart ==
  /\ proc[init].pc = "start"
  /\ fork1(init, [proc[init] EXCEPT !.pc = "reap"], Process("execsh", init))

\* The child's exec("sh"), or its failure and exit(1).
InitExec(p) ==
  /\ proc[p].pc = "execsh"
  /\ \/ Goes(p, [proc[p] EXCEPT !.pc = "prompt"]) /\ UNCHANGED faults
     \/ exit(p) /\ Fault
  /\ UNCHANGED typed

\* Waits until the process that exits is the shell, which has no job of its own.
InitReap ==
  /\ proc[init].pc = "reap"
  /\ \E q \in Slots :
       /\ proc[q].pc = "zombie" /\ proc[q].parent = init
       /\ Become([proc EXCEPT ![init].pc = IF proc[q].job = 0 THEN "start" ELSE "reap", ![q] = NoProcess], pipe)
       /\ UNCHANGED <<typed, faults>>

-----------------------------------------------------------------------------
(* The main program of sh: getcmd() reads a line or the end of the input.  *)
IsCd(line) == Len(line) >= 3 /\ SubSeq(line, 1, 3) = <<"c", "d", " ">>

ShMain(p) ==
  /\ proc[p].pc = "prompt" /\ typed < MaxLines
  /\ \E line \in Lines :
       /\ typed' = typed + 1
       /\ IF IsCd(line) \/ line = <<>>
            THEN (IF line = <<>> THEN exit(p) ELSE Goes(p, proc[p])) /\ UNCHANGED faults
            ELSE LET child == [proc[p] EXCEPT !.pc = "parse", !.parent = p, !.job = typed + 1, !.line = line] IN
                 \/ /\ Unused # {}
                    /\ Become([proc EXCEPT ![p].pc = "shwait", ![Min(Unused)] = child], pipe)
                    /\ UNCHANGED faults
                 \/ exit(p) /\ ForkFault

ShWait(p) == proc[p].pc = "shwait" /\ wait(p, [proc[p] EXCEPT !.pc = "prompt"])

-----------------------------------------------------------------------------
(* runcmd(), one action for each kind of command.                          *)
At(p, type) == proc[p].pc = "runcmd" /\ Cmd(proc[p]).type = type
Down(r, d) == [r EXCEPT !.pc = "runcmd", !.path = Append(@, d), !.p = <<>>, !.n = 0]

Parse(p) ==
  /\ proc[p].pc = "parse"
  /\ \/ \E cmd \in parsecmd(proc[p].line) : Goes(p, [proc[p] EXCEPT !.pc = "runcmd", !.cmd = cmd])
     \/ parsecmd(proc[p].line) = {} /\ exit(p)
  /\ UNCHANGED <<typed, faults>>

RunExec(p) ==
  /\ At(p, "exec")
  /\ LET argv == Cmd(proc[p]).argv IN
     IF argv # <<>> /\ Text(proc[p].line, argv[1]) \in Programs
       THEN Goes(p, [proc[p] EXCEPT !.pc = IF Len(argv) = 1 THEN "read" ELSE "open", !.n = 0])
       ELSE exit(p)
  /\ UNCHANGED <<typed, faults>>

\* close(rcmd->fd), then open() takes the lowest free descriptor.
RunRedir(p) ==
  /\ At(p, "redir")
  /\ LET r == proc[p]
         fds == [r.fds EXCEPT ![Cmd(r).fd] = Closed] IN
     \/ Goes(p, Down([r EXCEPT !.fds = [fds EXCEPT ![LowestFd(fds)] = File(Cmd(r).file)]], "cmd")) /\ UNCHANGED faults
     \/ exit(p) /\ Fault
  /\ UNCHANGED typed

RunList(p) ==
  /\ At(p, "list")
  /\ fork1(p, [proc[p] EXCEPT !.pc = "listwait"], Down(proc[p], "left"))

ListWait(p) == proc[p].pc = "listwait" /\ wait(p, Down(proc[p], "right"))

RunBack(p) == At(p, "back") /\ fork1(p, [proc[p] EXCEPT !.pc = "exit"], Down(proc[p], "cmd"))

\* exit(0) at the end of runcmd().
RunExit(p) == proc[p].pc = "exit" /\ exit(p) /\ UNCHANGED <<typed, faults>>

RunPipe(p) ==
  /\ At(p, "pipe")
  /\ LET r == proc[p]
         id == <<r.job, r.path>>
         p0 == LowestFd(r.fds)
         p1 == LowestFd([r.fds EXCEPT ![p0] = End(id, "r")]) IN
     \/ /\ Goes(p, [r EXCEPT !.pc = "pipeleft", !.p = <<p0, p1>>, !.fds[p0] = End(id, "r"), !.fds[p1] = End(id, "w")])
        /\ UNCHANGED faults
     \/ exit(p) /\ Fault
  /\ UNCHANGED typed

\* Mutant: the child takes the other end.
RedirectOther(r, fd, i) ==
  [r EXCEPT !.fds = [r.fds EXCEPT ![fd] = r.fds[r.p[3 - i]], ![r.p[1]] = Closed, ![r.p[2]] = Closed]]

\* close(fd); dup(p[i]); close(p[0]); close(p[1]) in a child.
Redirect(r, fd, i) ==
  LET closed == [r.fds EXCEPT ![fd] = Closed]
      duped == [closed EXCEPT ![LowestFd(closed)] = r.fds[r.p[i]]] IN
  [r EXCEPT !.fds = [duped EXCEPT ![r.p[1]] = Closed, ![r.p[2]] = Closed]]

PipeLeft(p) ==
  /\ proc[p].pc = "pipeleft"
  /\ fork1(p, [proc[p] EXCEPT !.pc = "piperight"], Down(Redirect(proc[p], 1, 2), "left"))
PipeRight(p) ==
  /\ proc[p].pc = "piperight"
  /\ fork1(p, [proc[p] EXCEPT !.pc = "pipeclose"], Down(Redirect(proc[p], 0, 1), "right"))

\* Mutant: the parent keeps the write end.
PipeCloseReadEnd(p) ==
  /\ proc[p].pc = "pipeclose"
  /\ Goes(p, [proc[p] EXCEPT !.pc = "pipewait", !.n = 2, !.fds[proc[p].p[1]] = Closed])
  /\ UNCHANGED <<typed, faults>>
PipeClose(p) ==
  /\ proc[p].pc = "pipeclose"
  /\ Goes(p, [proc[p] EXCEPT !.pc = "pipewait", !.n = 2, !.fds[proc[p].p[1]] = Closed, !.fds[proc[p].p[2]] = Closed])
  /\ UNCHANGED <<typed, faults>>

\* Mutant: one wait(0).
PipeWaitOnce(p) == proc[p].pc = "pipewait" /\ wait(p, [proc[p] EXCEPT !.n = 0, !.pc = "exit"])
PipeWait(p) ==
  /\ proc[p].pc = "pipewait"
  /\ wait(p, [proc[p] EXCEPT !.n = @ - 1, !.pc = IF proc[p].n = 1 THEN "exit" ELSE "pipewait"])

-----------------------------------------------------------------------------
(* cat: copies descriptor 0, or each file named, to descriptor 1.  p holds *)
(* the argument's descriptor and index while one is open.                  *)
Source(r) == IF r.p = <<>> THEN 0 ELSE r.p[1]
Arg(r) == IF r.p = <<>> THEN 1 ELSE r.p[2]

\* The main loop of cat: open(argv[i]) or the exit after the last one.
CatOpen(p) ==
  /\ proc[p].pc = "open"
  /\ LET r == proc[p]
         argv == Cmd(r).argv IN
     \/ /\ Arg(r) < Len(argv)
        /\ Goes(p, [r EXCEPT !.pc = "read", !.n = 0, !.p = <<LowestFd(r.fds), Arg(r) + 1>>, !.fds[LowestFd(r.fds)] = File(argv[Arg(r) + 1])])
        /\ UNCHANGED faults
     \/ Arg(r) < Len(argv) /\ exit(p) /\ Fault
     \/ Arg(r) = Len(argv) /\ exit(p) /\ UNCHANGED faults
  /\ UNCHANGED typed

\* The end of the input: exit, or close and the next file.
CatDone(p) ==
  IF proc[p].p = <<>> THEN exit(p) ELSE Goes(p, [proc[p] EXCEPT !.pc = "open", !.n = 0, !.fds[Source(proc[p])] = Closed])

\* read(): a pipe yields what is in it, nothing once all write ends are closed, and blocks otherwise.
CatRead(p) ==
  /\ proc[p].pc = "read"
  /\ LET r == proc[p]
         f == r.fds[Source(r)] IN
     \/ /\ f.kind = "pipe" /\ pipe[f.id] > 0
        /\ Become([proc EXCEPT ![p].pc = "write"], [pipe EXCEPT ![f.id] = @ - 1])
     \/ f.kind # "pipe" /\ r.n < MaxBytes /\ Goes(p, [r EXCEPT !.pc = "write", !.n = @ + 1])
     \/ (f.kind = "pipe" => pipe[f.id] = 0 /\ Ends(proc, f.id, "w") = {}) /\ CatDone(p)
  /\ UNCHANGED <<typed, faults>>

\* write(): a full pipe blocks, or fails when nobody can read it, and cat exits; while
\* there is room it is not asked whether somebody can.
CatWrite(p) ==
  /\ proc[p].pc = "write"
  /\ LET f == proc[p].fds[1] IN
     \/ f.kind # "pipe" /\ Goes(p, [proc[p] EXCEPT !.pc = "read"])
     \/ f.kind = "pipe" /\ pipe[f.id] = PIPESIZE /\ Ends(proc, f.id, "r") = {} /\ exit(p)
     \/ /\ f.kind = "pipe" /\ pipe[f.id] < PIPESIZE
        /\ Become([proc EXCEPT ![p].pc = "read"], [pipe EXCEPT ![f.id] = @ + 1])
  /\ UNCHANGED <<typed, faults>>

-----------------------------------------------------------------------------
Step(p) ==
  \/ InitExec(p) \/ ShWait(p) \/ Parse(p) \/ RunExec(p) \/ RunRedir(p) \/ RunList(p) \/ ListWait(p) \/ RunBack(p) \/ RunExit(p)
  \/ RunPipe(p) \/ PipeLeft(p) \/ PipeRight(p) \/ PipeClose(p) \/ PipeWait(p) \/ CatOpen(p) \/ CatRead(p) \/ CatWrite(p)

\* What the processes do by themselves; ShMain waits for somebody to type.
Progress == ~Panicked /\ (InitStart \/ InitReap \/ \E p \in Slots : Step(p))
Next == Progress \/ (~Panicked /\ \E p \in Slots : ShMain(p))

-----------------------------------------------------------------------------
Values == {Closed, Console} \cup [kind : {"file"}, word : Nat \X Nat]

\* Types: descriptors refer to something, a pipe holds at most PIPESIZE bytes
\* and every pipe a descriptor names exists (fork1(), exit(), the closes of
\* runcmd()); a live process other than init has a parent that is not free.
TypeOK ==
  /\ \A q \in Slots, fd \in Fds : proc[q].fds[fd].kind # "pipe" => proc[q].fds[fd] \in Values
  /\ DOMAIN pipe = Pipes(proc)
  /\ \A id \in DOMAIN pipe : pipe[id] \in 0 .. PIPESIZE
  /\ \A q \in Slots \ {init} : proc[q].pc # "free" => proc[q].parent \in Slots /\ proc[proc[q].parent].pc # "free"
  /\ typed \in 0 .. MaxLines /\ faults \in 0 .. MaxFaults

Prefix(path, k) == SubSeq(path, 1, k)

\* What the line says descriptor fd of the command at r's path refers to: the
\* innermost pipe or redirection above it that is about fd.
Meant(r, fd) ==
  LET Above(k) == Sub(r.cmd, Prefix(r.path, k))
      about == {k \in 0 .. Len(r.path) - 1 :
                  \/ Above(k).type = "redir" /\ Above(k).fd = fd
                  \/ Above(k).type = "pipe" /\ r.path[k + 1] = IF fd = 0 THEN "right" ELSE "left"}
      k == Max(about) IN
  IF about = {} THEN Console
  ELSE IF Above(k).type = "redir" THEN File(Above(k).file)
  ELSE End(<<r.job, Prefix(r.path, k)>>, IF fd = 0 THEN "r" ELSE "w")

\* A program runs with the descriptors its place in the line gives it and with
\* no other one open, whatever pipes, blocks and redirections are around it:
\* the order of close(), dup() and open() in runcmd() relies on the lowest free
\* descriptor being the one just closed.
Wired ==
  \A q \in Slots :
    proc[q].pc \in {"read", "write", "open"} =>
      /\ \A fd \in {0, 1} : proc[q].fds[fd] = Meant(proc[q], fd)
      /\ proc[q].fds[2] = Console
      /\ \A fd \in 3 .. NOFILE - 1 : proc[q].fds[fd] # Closed => proc[q].pc # "open" /\ Source(proc[q]) = fd

InBackground(r, from) == \E k \in from .. Len(r.path) - 1 : Sub(r.cmd, Prefix(r.path, k)).type = "back"

\* While the shell prompts, nothing of a line it has run is left running but
\* what the line put in the background with "&", as long as no call failed: the
\* wait(0)s of main() and runcmd() are as many as the processes they wait for.
ForegroundDone ==
  (faults = 0 /\ \E p \in Slots : proc[p].pc = "prompt") =>
    \A q \in Slots : Live(proc[q]) /\ proc[q].job > 0 => proc[q].path # <<>> /\ InBackground(proc[q], 0)

\* In "left ; right" no process of right runs while one of left does, except
\* for what left put in the background: the wait(0) of the LIST case.
ListInOrder ==
  faults = 0 =>
    \A p, q \in Slots : \A k \in 0 .. Len(proc[p].path) :
      (/\ Live(proc[p]) /\ Live(proc[q]) /\ proc[p].job = proc[q].job /\ proc[p].job > 0
       /\ k < Len(proc[p].path) /\ k < Len(proc[q].path)
       /\ Prefix(proc[p].path, k) = Prefix(proc[q].path, k)
       /\ Sub(proc[p].cmd, Prefix(proc[p].path, k)).type = "list"
       /\ proc[p].path[k + 1] = "right" /\ proc[q].path[k + 1] = "left")
      => InBackground(proc[q], k)

\* init runs one shell at a time: only the shell's own exit makes it start
\* another, not that of an orphan it reaps in the same wait().
OneShell == Cardinality({p \in Slots : proc[p].pc \in {"execsh", "prompt", "shwait"}}) <= 1

\* After a line the prompt comes back, from the shell or from the one init
\* starts in its place, unless init itself could not fork and exits, which is a panic: no reader of a
\* pipeline waits for a writer that is only a process which waits for it.
PromptReturns ==
  (\E p \in Slots : proc[p].pc = "shwait") ~> (Panicked \/ \E p \in Slots : proc[p].pc = "prompt")

\* The shell waits for what it has to wait for, and init for its shell.
JobsInOrder == TypeOK /\ ForegroundDone /\ ListInOrder /\ OneShell
=============================================================================
