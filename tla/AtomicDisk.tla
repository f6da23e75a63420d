----------------------------- MODULE AtomicDisk -----------------------------
(***************************************************************************)
(* What the logging layer (kernel/log.c) promises to the file system: a    *)
(* disk whose contents survive a crash only as they were at a moment when  *)
(* no file-system operation was in progress.  Operations see their own and *)
(* each other's writes at once (mem); the durable contents (disk) move     *)
(* forward only by a commit of everything, taken while no operation is     *)
(* active; a crash falls back to the last commit.                          *)
(***************************************************************************)
CONSTANTS Procs,    \* the processes that run file-system calls
          Blocks,   \* the home blocks of the file system
          Values    \* the contents a block may have

VARIABLES disk,     \* the contents a crash preserves
          mem,      \* the contents the file system reads
          active,   \* the processes between begin_op() and end_op()
          up        \* the machine has booted and not crashed since

absVars == <<disk, mem, active, up>>

Init ==
  /\ disk \in [Blocks -> Values]
  /\ mem = disk
  /\ active = {}
  /\ up = FALSE

Boot ==
  /\ ~up
  /\ up' = TRUE
  /\ UNCHANGED <<disk, mem, active>>

Begin(p) ==
  /\ up
  /\ p \notin active
  /\ active' = active \cup {p}
  /\ UNCHANGED <<disk, mem, up>>

Write(p, b, v) ==
  /\ up
  /\ p \in active
  /\ mem' = [mem EXCEPT ![b] = v]
  /\ UNCHANGED <<disk, active, up>>

End(p) ==
  /\ up
  /\ p \in active
  /\ active' = active \ {p}
  /\ UNCHANGED <<disk, mem, up>>

Commit ==
  /\ up
  /\ active = {}
  /\ disk' = mem
  /\ UNCHANGED <<mem, active, up>>

Crash ==
  /\ mem' = disk
  /\ active' = {}
  /\ up' = FALSE
  /\ UNCHANGED disk

Next ==
  \/ Boot
  \/ \E p \in Procs : Begin(p) \/ End(p) \/ \E b \in Blocks, v \in Values : Write(p, b, v)
  \/ Commit
  \/ Crash

Spec == Init /\ [][Next]_absVars
=============================================================================
