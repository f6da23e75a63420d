------------------------------ MODULE Pingpong ------------------------------
(* The program pingpong, user/pingpong.c: a parent and a child exchange    *)
(* their pids over two pipes.  Each is a sequence of system calls; another *)
(* process may kill either of them.  A write of an int to an empty pipe is *)
(* one step: pipewrite() holds the pipe's lock throughout.  It has room,   *)
(* so it does not ask whether there is a reader, and succeeds.             *)
EXTENDS Integers, Sequences, FiniteSets

VARIABLES pc,     \* the next call of each, 0 before fork(), "exited" as Len + 1
          open,   \* <<process, pipe, end>> of each open descriptor
          data,   \* what is in each pipe
          got,    \* the pid each has printed
          kills
pvars == <<pc, open, data, got, kills>>

Both == {"parent", "child"}
Peer(p) == IF p = "parent" THEN "child" ELSE "parent"
Call(op, pipe, end) == [op |-> op, pipe |-> pipe, end |-> end]

Parent == <<Call("close", "f2c", "r"), Call("close", "c2f", "w"), Call("write", "f2c", "w"), Call("close", "f2c", "w"),
            Call("read", "c2f", "r"), Call("close", "c2f", "r"), Call("wait", "", "")>>
\* Mutant: the child keeps the end of f2c that it does not use.
ChildKeepsWriteEnd == <<Call("close", "c2f", "r"), Call("read", "f2c", "r"), Call("write", "c2f", "w"),
                        Call("close", "f2c", "r"), Call("close", "c2f", "w")>>
\* Mutant: the child answers before it has been asked.
ChildWritesFirst == <<Call("close", "f2c", "w"), Call("close", "c2f", "r"), Call("write", "c2f", "w"), Call("read", "f2c", "r"),
                      Call("close", "f2c", "r"), Call("close", "c2f", "w")>>
Child == <<Call("close", "f2c", "w"), Call("close", "c2f", "r"), Call("read", "f2c", "r"), Call("write", "c2f", "w"),
           Call("close", "f2c", "r"), Call("close", "c2f", "w")>>
Program(p) == IF p = "parent" THEN Parent ELSE Child
Exit(p) == Len(Program(p)) + 1
Active(p) == pc[p] > 0 /\ pc[p] < Exit(p)
Next1(p) == Program(p)[pc[p]]

PingInit ==
  /\ pc = [p \in Both |-> 0]
  /\ open = {"parent"} \X {"f2c", "c2f"} \X {"r", "w"}
  /\ data = [x \in {"f2c", "c2f"} |-> <<>>]
  /\ got = [p \in Both |-> "none"]
  /\ kills = 0

Exits(p) == pc' = [pc EXCEPT ![p] = Exit(p)] /\ open' = {o \in open : o[1] # p}

\* fork(), or its failure (or that of pipe()) and exit(1).
PingFork ==
  /\ pc["parent"] = 0
  /\ \/ pc' = [p \in Both |-> 1] /\ open' = Both \X {"f2c", "c2f"} \X {"r", "w"}
     \/ pc' = [p \in Both |-> Exit(p)] /\ open' = {}
  /\ UNCHANGED <<data, got, kills>>

PingClose(p) ==
  /\ Active(p) /\ Next1(p).op = "close"
  /\ open' = open \ {<<p, Next1(p).pipe, Next1(p).end>>}
  /\ pc' = [pc EXCEPT ![p] = @ + 1]
  /\ UNCHANGED <<data, got, kills>>

Holders(x, end) == {o \in open : o[2] = x /\ o[3] = end}

\* write(), into a pipe that is empty: each process writes once.
PingWrite(p) ==
  /\ Active(p) /\ Next1(p).op = "write"
  /\ data' = [data EXCEPT ![Next1(p).pipe] = Append(@, p)]
  /\ pc' = [pc EXCEPT ![p] = @ + 1]
  /\ UNCHANGED <<open, got, kills>>

\* read(): waits for data or for the last writer to be gone; then the program exits.
PingRead(p) ==
  /\ Active(p) /\ Next1(p).op = "read"
  /\ LET x == Next1(p).pipe IN
     \/ /\ data[x] # <<>>
        /\ data' = [data EXCEPT ![x] = Tail(@)]
        /\ got' = [got EXCEPT ![p] = Head(data[x])]
        /\ pc' = [pc EXCEPT ![p] = @ + 1] /\ UNCHANGED open
     \/ data[x] = <<>> /\ Holders(x, "w") = {} /\ Exits(p) /\ UNCHANGED <<data, got>>
  /\ UNCHANGED kills

\* The last call before exit(0), which closes what is still open; the parent's is wait(0).
PingWait ==
  /\ pc["parent"] = Len(Parent) /\ ~Active("child")
  /\ Exits("parent")
  /\ UNCHANGED <<data, got, kills>>

PingKill(p) == Active(p) /\ kills = 0 /\ kills' = 1 /\ Exits(p) /\ UNCHANGED <<data, got>>

PingStep(p) == PingClose(p) \/ PingWrite(p) \/ PingRead(p)
PingProgress == PingFork \/ PingWait \/ \E p \in Both : PingStep(p)
PingNext == PingProgress \/ \E p \in Both : PingKill(p)

-----------------------------------------------------------------------------
\* The parent prints the pong only after the child has printed the ping, each
\* with the other's pid; when neither is killed and the calls succeed, both do.
PingBeforePong ==
  /\ \A p \in Both : got[p] \in {"none", Peer(p)}
  /\ got["parent"] # "none" => got["child"] # "none"
  /\ kills = 0 /\ pc["parent"] = Exit("parent") /\ got["parent"] = "none" => got["child"] = "none"

\* Both exit, also when the other is killed at any point, and has perhaps been written
\* to since: each has closed the ends it does not use, so that a read() sees the end of
\* the pipe.
PingpongEnds == (pc["parent"] > 0) ~> (\A p \in Both : pc[p] = Exit(p))
=============================================================================
