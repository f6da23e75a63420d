------------------------------- MODULE MCProc -------------------------------
(* Instances of module Proc for TLC.                                       *)
EXTENDS Proc

\* Bounds: the process with the last pid, which is there to take a freed slot,
\* makes no system call, and there is none where kill() was called.
LastStaysUser ==
  /\ \A p \in Procs : pid[p] = MaxPid => pc[p] = "user"
  /\ victims # {} => nextpid <= MaxPid
=============================================================================
