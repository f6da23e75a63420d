-------------------------------- MODULE Proc --------------------------------
(***************************************************************************)
(* The life of a process, kernel/proc.c: fork(), exit(), wait(), kill(),   *)
(* reparent() and the hand-over between a process and the scheduler, with  *)
(* the per-process spinlock p->lock that protects most of struct proc.     *)
(*                                                                         *)
(* Every acquire() that can be reached with a lock held, and every access  *)
(* to another process's fields, is a step of its own.  A section that runs *)
(* under a single p->lock and touches nothing else is one step.            *)
(* user/init.c is the program of the first process.                        *)
(***************************************************************************)
EXTENDS Integers, FiniteSets

CONSTANTS
  NPROC,      \* param.h: slots of the process table
  NCPU,       \* param.h: CPUs
  MaxPid,     \* bound: pids handed out
  KillPids    \* bound: the arguments kill() is called with

ASSUME ProcAssumption ==
  /\ NPROC \in Nat \ {0}
  /\ NCPU \in Nat \ {0}
  /\ MaxPid \in Nat \ {0}
  /\ KillPids \subseteq Nat

VARIABLES
  state,      \* p->state
  parent,     \* p->parent, or None
  pid,        \* p->pid, 0 if none
  killed,     \* p->killed
  lock,       \* the process that holds p->lock, or None
  pc,         \* where the process of a slot is
  scan,       \* the loop variable of its wait()
  havekids,   \* the local variable of its wait()
  orig,       \* original_parent, the local variable of its exit()
  nextpid,    \* the global nextpid
  shell,      \* init.c: the pid init waits for, 0 before the fork
  victims     \* the pids kill() has been called with

vars == <<state, parent, pid, killed, lock, pc, scan, havekids, orig, nextpid, shell, victims>>

Procs    == 0 .. NPROC - 1
initproc == 0
None     == NPROC

States   == {"UNUSED", "SLEEPING", "RUNNABLE", "RUNNING", "ZOMBIE"}
Exiting  == {"exit", "get_parent", "lock_parent", "lock_self", "reparent"}
PCs      == {"none", "user", "wait", "scan", "asleep", "switch"} \cup Exiting

\* The pcs at which a process holds no lock, so that it may be interrupted.
Unlocked == {"user", "wait", "exit", "get_parent", "lock_parent"}

OnCPU == {p \in Procs : state[p] = "RUNNING" \/ pc[p] = "switch"}

Runs(p) == state[p] = "RUNNING"

-----------------------------------------------------------------------------
(* The scheduler.                                                          *)

\* One turn of scheduler()'s loop that finds a process: it goes on in
\* forkret() or yield(), which release p->lock, or in sleep() called by
\* wait(), which keeps it.
Schedule(p) ==
  /\ state[p] = "RUNNABLE"
  /\ lock[p] = None
  /\ Cardinality(OnCPU) < NCPU
  /\ state' = [state EXCEPT ![p] = "RUNNING"]
  /\ IF pc[p] = "asleep"
     THEN /\ lock' = [lock EXCEPT ![p] = p]
          /\ pc' = [pc EXCEPT ![p] = "scan"]
          /\ scan' = [scan EXCEPT ![p] = 0]
          /\ havekids' = [havekids EXCEPT ![p] = 0]
     ELSE UNCHANGED <<lock, pc, scan, havekids>>
  /\ UNCHANGED <<parent, pid, killed, orig, nextpid, shell, victims>>

\* A timer interrupt, yield(), and the scheduler's release of p->lock.
Yield(p) ==
  /\ Runs(p)
  /\ pc[p] \in Unlocked
  /\ lock[p] = None
  /\ state' = [state EXCEPT ![p] = "RUNNABLE"]
  /\ UNCHANGED <<parent, pid, killed, lock, pc, scan, havekids, orig, nextpid, shell, victims>>

\* The scheduler releases the lock of a process that left in exit().
SwitchAway(p) ==
  /\ pc[p] = "switch"
  /\ lock' = [lock EXCEPT ![p] = None]
  /\ pc' = [pc EXCEPT ![p] = "none"]
  /\ UNCHANGED <<state, parent, pid, killed, scan, havekids, orig, nextpid, shell, victims>>

-----------------------------------------------------------------------------
(* fork()                                                                  *)

\* init.c forks when it has no shell and then only waits.
MayFork(p) == Runs(p) /\ pc[p] = "user" /\ killed[p] = 0 /\ (p = initproc => shell = 0)

\* A free slot allocproc()'s scan may stop at (slots freed behind it are missed).
Free(np) == state[np] = "UNUSED" /\ lock[np] = None

Fork(p, np) ==
  /\ MayFork(p)
  /\ Free(np)
  /\ nextpid <= MaxPid
  /\ nextpid' = nextpid + 1
  /\ pid' = [pid EXCEPT ![np] = nextpid]
  /\ parent' = [parent EXCEPT ![np] = p]
  /\ state' = [state EXCEPT ![np] = "RUNNABLE"]
  /\ pc' = [pc EXCEPT ![np] = "user"]
  /\ shell' = IF p = initproc THEN nextpid ELSE shell
  /\ UNCHANGED <<killed, lock, scan, havekids, orig, victims>>

\* No page for the trapframe: allocproc() gives up with p->pid already set.
ForkNoTrapframe(p, np) ==
  /\ MayFork(p)
  /\ Free(np)
  /\ nextpid <= MaxPid
  /\ nextpid' = nextpid + 1
  /\ pid' = [pid EXCEPT ![np] = nextpid]
  /\ UNCHANGED <<state, parent, killed, lock, pc, scan, havekids, orig, shell, victims>>

\* The fields freeproc() clears.
FreeProc(np) ==
  /\ pid' = [pid EXCEPT ![np] = 0]
  /\ parent' = [parent EXCEPT ![np] = None]
  /\ killed' = [killed EXCEPT ![np] = 0]
  /\ state' = [state EXCEPT ![np] = "UNUSED"]

\* No memory for the page table or for the copy of the parent's memory.
ForkNoMemory(p, np) ==
  /\ MayFork(p)
  /\ Free(np)
  /\ nextpid <= MaxPid
  /\ nextpid' = nextpid + 1
  /\ FreeProc(np)
  /\ UNCHANGED <<lock, pc, scan, havekids, orig, shell, victims>>

-----------------------------------------------------------------------------
(* kill()                                                                  *)

\* Mutant: a victim asleep is left asleep.
KillNoWakeup(p, n) ==
  /\ Runs(p) /\ pc[p] = "user" /\ killed[p] = 0 /\ p # initproc
  /\ \E v \in Procs :
       /\ pid[v] = n /\ \A u \in 0 .. v - 1 : pid[u] # n
       /\ lock[v] = None
       /\ killed' = [killed EXCEPT ![v] = 1]
  /\ victims' = victims \cup {n}
  /\ UNCHANGED <<state, parent, pid, lock, pc, scan, havekids, orig, nextpid, shell>>

\* kill() stops at the first slot whose p->pid is the one given.
Kill(p, n) ==
  /\ Runs(p) /\ pc[p] = "user" /\ killed[p] = 0 /\ p # initproc
  /\ \E v \in Procs :
       /\ pid[v] = n /\ \A u \in 0 .. v - 1 : pid[u] # n
       /\ lock[v] = None
       /\ killed' = [killed EXCEPT ![v] = 1]
       /\ state' = [state EXCEPT ![v] = IF @ = "SLEEPING" THEN "RUNNABLE" ELSE @]
  /\ victims' = victims \cup {n}
  /\ UNCHANGED <<parent, pid, lock, pc, scan, havekids, orig, nextpid, shell>>

-----------------------------------------------------------------------------
(* exit()                                                                  *)

\* wakeup1(p): p is asleep in wait().
Wakeup1(p) ==
  [state EXCEPT ![p] = IF pc[p] = "asleep" /\ @ = "SLEEPING" THEN "RUNNABLE" ELSE @]

\* The system call, or the return to user space of a killed process.  The
\* files are closed; then exit() wakes init.
Exit(p) ==
  /\ Runs(p) /\ pc[p] = "user" /\ p # initproc
  /\ pc' = [pc EXCEPT ![p] = "exit"]
  /\ UNCHANGED <<state, parent, pid, killed, lock, scan, havekids, orig, nextpid, shell, victims>>

ExitWakeInit(p) ==
  /\ Runs(p) /\ pc[p] = "exit"
  /\ lock[initproc] = None
  /\ state' = Wakeup1(initproc)
  /\ pc' = [pc EXCEPT ![p] = "get_parent"]
  /\ UNCHANGED <<parent, pid, killed, lock, scan, havekids, orig, nextpid, shell, victims>>

\* Mutant: p->lock is kept while the parent's lock is acquired.
ExitGetParentKeepsLock(p) ==
  /\ Runs(p) /\ pc[p] = "get_parent"
  /\ lock[p] = None
  /\ lock' = [lock EXCEPT ![p] = p]
  /\ orig' = [orig EXCEPT ![p] = parent[p]]
  /\ pc' = [pc EXCEPT ![p] = "lock_parent"]
  /\ UNCHANGED <<state, parent, pid, killed, scan, havekids, nextpid, shell, victims>>

ExitGetParent(p) ==
  /\ Runs(p) /\ pc[p] = "get_parent"
  /\ lock[p] = None
  /\ orig' = [orig EXCEPT ![p] = parent[p]]
  /\ pc' = [pc EXCEPT ![p] = "lock_parent"]
  /\ UNCHANGED <<state, parent, pid, killed, lock, scan, havekids, nextpid, shell, victims>>

ExitLockParent(p) ==
  /\ Runs(p) /\ pc[p] = "lock_parent"
  /\ lock[orig[p]] = None
  /\ lock' = [lock EXCEPT ![orig[p]] = p]
  /\ pc' = [pc EXCEPT ![p] = "lock_self"]
  /\ UNCHANGED <<state, parent, pid, killed, scan, havekids, orig, nextpid, shell, victims>>

ExitLockSelf(p) ==
  /\ Runs(p) /\ pc[p] = "lock_self"
  /\ lock[p] = None
  /\ lock' = [lock EXCEPT ![p] = p]
  /\ pc' = [pc EXCEPT ![p] = "reparent"]
  /\ UNCHANGED <<state, parent, pid, killed, scan, havekids, orig, nextpid, shell, victims>>

Children(p) == {c \in Procs : parent[c] = p}

\* The child reparent() comes to next.  Nobody else adds or removes children
\* of an exiting process, so that the scan never has to go back.
NextChild(p) == CHOOSE c \in Children(p) : \A d \in Children(p) : c <= d

Reparent(p) ==
  /\ Runs(p) /\ pc[p] = "reparent"
  /\ Children(p) # {}
  /\ lock[NextChild(p)] = None
  /\ parent' = [parent EXCEPT ![NextChild(p)] = initproc]
  /\ UNCHANGED <<state, pid, killed, lock, pc, scan, havekids, orig, nextpid, shell, victims>>

\* Mutant: the parent is woken before it can see a zombie, and not after.
ExitZombieNoWakeup(p) ==
  /\ Runs(p) /\ pc[p] = "reparent"
  /\ Children(p) = {}
  /\ state' = [state EXCEPT ![p] = "ZOMBIE"]
  /\ lock' = [lock EXCEPT ![orig[p]] = None]
  /\ pc' = [pc EXCEPT ![p] = "switch"]
  /\ orig' = [orig EXCEPT ![p] = None]
  /\ UNCHANGED <<parent, pid, killed, scan, havekids, nextpid, shell, victims>>

\* wakeup1(original_parent); p->state = ZOMBIE; release(&original_parent->lock); sched();
ExitZombie(p) ==
  /\ Runs(p) /\ pc[p] = "reparent"
  /\ Children(p) = {}
  /\ state' = [Wakeup1(orig[p]) EXCEPT ![p] = "ZOMBIE"]
  /\ lock' = [lock EXCEPT ![orig[p]] = None]
  /\ pc' = [pc EXCEPT ![p] = "switch"]
  /\ orig' = [orig EXCEPT ![p] = None]
  /\ UNCHANGED <<parent, pid, killed, scan, havekids, nextpid, shell, victims>>

-----------------------------------------------------------------------------
(* wait()                                                                  *)

Wait(p) ==
  /\ Runs(p) /\ pc[p] = "user" /\ killed[p] = 0 /\ (p = initproc => shell # 0)
  /\ pc' = [pc EXCEPT ![p] = "wait"]
  /\ UNCHANGED <<state, parent, pid, killed, lock, scan, havekids, orig, nextpid, shell, victims>>

WaitLock(p) ==
  /\ Runs(p) /\ pc[p] = "wait"
  /\ lock[p] = None
  /\ lock' = [lock EXCEPT ![p] = p]
  /\ scan' = [scan EXCEPT ![p] = 0]
  /\ havekids' = [havekids EXCEPT ![p] = 0]
  /\ pc' = [pc EXCEPT ![p] = "scan"]
  /\ UNCHANGED <<state, parent, pid, killed, orig, nextpid, shell, victims>>

Scans(p) == Runs(p) /\ pc[p] = "scan" /\ scan[p] < NPROC

\* Mutant: havekids is only about the last slot looked at.
WaitNotMineForgets(p) ==
  /\ Scans(p)
  /\ parent[scan[p]] # p
  /\ scan' = [scan EXCEPT ![p] = @ + 1]
  /\ havekids' = [havekids EXCEPT ![p] = 0]
  /\ UNCHANGED <<state, parent, pid, killed, lock, pc, orig, nextpid, shell, victims>>

\* np->parent is read without np->lock.
WaitNotMine(p) ==
  /\ Scans(p)
  /\ parent[scan[p]] # p
  /\ scan' = [scan EXCEPT ![p] = @ + 1]
  /\ UNCHANGED <<state, parent, pid, killed, lock, pc, havekids, orig, nextpid, shell, victims>>

WaitAlive(p) ==
  /\ Scans(p)
  /\ parent[scan[p]] = p
  /\ lock[scan[p]] = None
  /\ state[scan[p]] # "ZOMBIE"
  /\ havekids' = [havekids EXCEPT ![p] = 1]
  /\ scan' = [scan EXCEPT ![p] = @ + 1]
  /\ UNCHANGED <<state, parent, pid, killed, lock, pc, orig, nextpid, shell, victims>>

\* wait() returns: it releases p->lock.
Return(p) ==
  /\ lock' = [lock EXCEPT ![p] = None]
  /\ pc' = [pc EXCEPT ![p] = "user"]
  /\ scan' = [scan EXCEPT ![p] = 0]
  /\ havekids' = [havekids EXCEPT ![p] = 0]

WaitFound(p) ==
  /\ Scans(p)
  /\ parent[scan[p]] = p
  /\ lock[scan[p]] = None
  /\ state[scan[p]] = "ZOMBIE"
  /\ FreeProc(scan[p])
  /\ shell' = IF p = initproc /\ pid[scan[p]] = shell THEN 0 ELSE shell
  /\ Return(p)
  /\ UNCHANGED <<orig, nextpid, victims>>

\* copyout() of the status fails (init passes no address).
WaitBadAddress(p) ==
  /\ p # initproc
  /\ Scans(p)
  /\ parent[scan[p]] = p
  /\ lock[scan[p]] = None
  /\ state[scan[p]] = "ZOMBIE"
  /\ Return(p)
  /\ UNCHANGED <<state, parent, pid, killed, orig, nextpid, shell, victims>>

WaitNone(p) ==
  /\ Runs(p) /\ pc[p] = "scan" /\ scan[p] = NPROC
  /\ havekids[p] = 0 \/ killed[p] = 1
  /\ Return(p)
  /\ UNCHANGED <<state, parent, pid, killed, orig, nextpid, shell, victims>>

\* sleep(p, &p->lock), and the scheduler's release of p->lock.
WaitSleep(p) ==
  /\ Runs(p) /\ pc[p] = "scan" /\ scan[p] = NPROC
  /\ havekids[p] = 1 /\ killed[p] = 0
  /\ state' = [state EXCEPT ![p] = "SLEEPING"]
  /\ lock' = [lock EXCEPT ![p] = None]
  /\ pc' = [pc EXCEPT ![p] = "asleep"]
  /\ scan' = [scan EXCEPT ![p] = 0]
  /\ havekids' = [havekids EXCEPT ![p] = 0]
  /\ UNCHANGED <<parent, pid, killed, orig, nextpid, shell, victims>>

-----------------------------------------------------------------------------
\* procinit() and userinit().
Init ==
  /\ state = [p \in Procs |-> IF p = initproc THEN "RUNNABLE" ELSE "UNUSED"]
  /\ parent = [p \in Procs |-> None]
  /\ pid = [p \in Procs |-> IF p = initproc THEN 1 ELSE 0]
  /\ killed = [p \in Procs |-> 0]
  /\ lock = [p \in Procs |-> None]
  /\ pc = [p \in Procs |-> IF p = initproc THEN "user" ELSE "none"]
  /\ scan = [p \in Procs |-> 0]
  /\ havekids = [p \in Procs |-> 0]
  /\ orig = [p \in Procs |-> None]
  /\ nextpid = 2
  /\ shell = 0
  /\ victims = {}

ExitStep(p) ==
  ExitWakeInit(p) \/ ExitGetParent(p) \/ ExitLockParent(p) \/ ExitLockSelf(p) \/ Reparent(p) \/ ExitZombie(p)

WaitStep(p) ==
  \/ WaitLock(p) \/ WaitNotMine(p) \/ WaitAlive(p) \/ WaitFound(p) \/ WaitBadAddress(p)
  \/ WaitNone(p) \/ WaitSleep(p)

Next ==
  \E p \in Procs :
    \/ Schedule(p) \/ Yield(p) \/ SwitchAway(p)
    \/ \E np \in Procs : Fork(p, np) \/ ForkNoTrapframe(p, np) \/ ForkNoMemory(p, np)
    \/ \E n \in KillPids : Kill(p, n)
    \/ Exit(p) \/ ExitStep(p)
    \/ Wait(p) \/ WaitStep(p)

Spec == Init /\ [][Next]_vars

-----------------------------------------------------------------------------
\* The type of the state.
TypeOK ==
  /\ state \in [Procs -> States]
  /\ parent \in [Procs -> Procs \cup {None}]
  /\ pid \in [Procs -> 0 .. MaxPid]
  /\ killed \in [Procs -> {0, 1}]
  /\ lock \in [Procs -> Procs \cup {None}]
  /\ pc \in [Procs -> PCs]
  /\ scan \in [Procs -> 0 .. NPROC]
  /\ havekids \in [Procs -> {0, 1}]
  /\ orig \in [Procs -> Procs \cup {None}]
  /\ nextpid \in Nat
  /\ shell \in Nat
  /\ victims \subseteq KillPids

\* A slot is freed, and its kernel stack reused, only when the process that ran
\* on it has been switched away from: UNUSED slots have no thread.
FreedOffCPU == \A p \in Procs : state[p] = "UNUSED" => pc[p] = "none"

\* A zombie has no children any more: reparent() gave them all to init.
ZombieHasNoChildren == \A p, c \in Procs : state[p] \in {"ZOMBIE", "UNUSED"} => parent[c] # p

\* No wakeup is lost between a child's exit() and its parent's wait(): a process
\* other than init does not sleep in wait() while it has a zombie child.
NoLostExit ==
  \A p \in Procs \ {initproc}, c \in Procs :
    state[p] = "SLEEPING" /\ parent[c] = p => state[c] # "ZOMBIE"

Live(p) == state[p] \notin {"UNUSED", "ZOMBIE"}

\* wait() returns -1 to a process that is not killed only if it has no children
\* (wait()'s comment), although it reads np->parent without np->lock.
WaitFailsOnlyChildless ==
  [][\A p \in Procs : WaitNone(p) /\ killed[p] = 0 => Children(p) = {}]_vars

-----------------------------------------------------------------------------
(* Why no exit is lost and no slot freed too early.                        *)

\* Where a process is agrees with the state the scheduler sees.
PlaceAgrees ==
  \A p \in Procs : /\ state[p] = "UNUSED" => pc[p] = "none"
                   /\ state[p] = "ZOMBIE" => pc[p] \in {"none", "switch"}
                   /\ state[p] = "SLEEPING" => pc[p] = "asleep"
                   /\ state[p] = "RUNNABLE" => pc[p] \in Unlocked \cup {"asleep"}
                   /\ state[p] = "RUNNING" => pc[p] \notin {"none", "asleep", "switch"}

\* Who scans, exits or is being switched away from holds the locks it took, and
\* no others are held.
LocksHeld ==
  \A p, q \in Procs :
    lock[q] = p <=> \/ q = p /\ pc[p] \in {"scan", "reparent", "switch"}
                    \/ q = orig[p] /\ pc[p] \in {"lock_self", "reparent"}

\* init stays, every other process has a parent, and the one that exit() has
\* noted is still it unless init has taken its place.
ParentsAgree ==
  /\ parent[initproc] = None /\ state[initproc] \notin {"UNUSED", "ZOMBIE"} /\ pc[initproc] \notin Exiting
  /\ \A p \in Procs \ {initproc} : state[p] # "UNUSED" => parent[p] \in Procs \ {p}
  /\ \A p \in Procs : pc[p] \in {"lock_parent", "lock_self", "reparent"} =>
       orig[p] \in Procs \ {p} /\ (orig[p] = parent[p] \/ parent[p] = initproc)

\* Pids grow from parent to child.
PidsGrow ==
  /\ nextpid > 1 /\ pid[initproc] = 1
  /\ \A p \in Procs \ {initproc} : state[p] # "UNUSED" => pid[p] \in 2 .. nextpid - 1 /\ pid[parent[p]] < pid[p]

\* What a scan has passed stays as it was seen: the children lack their
\* parent's lock, which they need to become zombies.
ScanAgrees ==
  \A p \in Procs \ {initproc}, c \in Procs :
    pc[p] = "scan" /\ c < scan[p] /\ parent[c] = p => state[c] # "ZOMBIE" /\ havekids[p] = 1

\* init waits only while it has a shell, and does not overlook it.
ShellAgrees ==
  /\ pc[initproc] \in {"wait", "scan", "asleep"} => shell # 0
  /\ shell # 0 => \E c \in Procs : /\ parent[c] = initproc /\ pid[c] = shell /\ state[c] # "UNUSED"
                                   /\ pc[initproc] = "scan" /\ c < scan[initproc] => havekids[initproc] = 1

\* The inductive invariant of fork(), exit(), wait() and kill().
ProcInv ==
  /\ TypeOK
  /\ PlaceAgrees
  /\ LocksHeld
  /\ ParentsAgree
  /\ PidsGrow
  /\ ZombieHasNoChildren
  /\ NoLostExit
  /\ ScanAgrees
  /\ ShellAgrees

-----------------------------------------------------------------------------
\* The lock a process is about to acquire, if it may hold another one.
WaitsFor(p) ==
  CASE pc[p] = "lock_parent" -> orig[p]
    [] pc[p] = "lock_self" -> p
    [] pc[p] = "reparent" /\ Children(p) # {} -> NextChild(p)
    [] pc[p] = "scan" /\ scan[p] < NPROC /\ parent[scan[p]] = p -> scan[p]
    [] OTHER -> None

\* Processes that wait for each other's locks for ever.
Waiting == {p \in Procs : WaitsFor(p) # None}
Deadlocked == \E S \in (SUBSET Waiting) \ {{}} : \A p \in S : lock[WaitsFor(p)] \in S

NoDeadlock == ~Deadlocked

\* The parent-then-child order of locks excludes deadlock, unless some process
\* holds the lock of a parent it no longer has.
OrderedLocks ==
  Deadlocked => \E p \in Procs : pc[p] \in {"lock_self", "reparent"} /\ orig[p] # parent[p]

\* A killed process is not asleep in wait(): whichever of kill() and of the test
\* of p->killed in wait() comes first, under p->lock, the process gets to see it.
KilledNeverSleeps == \A p \in Procs : killed[p] = 1 => state[p] # "SLEEPING"

\* Only a process whose pid was given to kill() is killed.
OnlyVictimsKilled == \A p \in Procs : Live(p) /\ killed[p] = 1 => pid[p] \in victims
=============================================================================
