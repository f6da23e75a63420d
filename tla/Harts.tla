-------------------------------- MODULE Harts -------------------------------
(* What CPUs do between user programs: spin locks and the interrupt flag   *)
(* (kernel/spinlock.c), traps and the clock (kernel/trap.c, kernelvec.S),  *)
(* the scheduler, sched(), yield(), sleep() and wakeup() (kernel/proc.c),  *)
(* with sys_sleep() (kernel/sysproc.c) as the system call.                 *)
(*                                                                         *)
(* A step goes up to the next acquire() or swtch(); code that touches only *)
(* what its locks protect is not split.  exit() here only leaves a zombie: *)
(* the rest of it is in module Proc.                                       *)
EXTENDS Integers, FiniteSets

CONSTANTS NCPU, NPROC,
          MaxN,       \* sleep()s of up to MaxN ticks; MaxN + 1 stands for a negative n
          MaxKilled   \* bound: processes killed

ASSUME HartsAssumption == NCPU \in Nat \ {0} /\ NPROC \in Nat \ {0} /\ MaxN \in Nat

VARIABLES cpu,     \* [proc, noff, intena] of struct cpu; sie: interrupts are on
          lock,    \* lock -> the CPU that holds it, or None
          th,      \* thread -> where it is
          state,   \* p->state
          killed   \* the processes with p->killed

vars == <<cpu, lock, th, state, killed>>

CPUs  == 0 .. NCPU - 1
Procs == 1 .. NPROC
tickslock == 0                     \* the others are the p->lock
Locks == {tickslock} \cup Procs
None  == -1

\* A thread is a process, or the scheduler of CPU c, which is thread -c.  [at] is its
\* place in its own code and [trap] that in usertrap() or kerneltrap() on top of it,
\* [i] and [found] are the scheduler's variables, [w] is wakeup()'s, [saved] is the
\* intena of sched(), [n] and [passed] are sys_sleep()'s n and ticks - ticks0.
Threads == Procs \cup {-c : c \in CPUs}
Running(c) == IF cpu[c].proc # 0 THEN cpu[c].proc ELSE -c

Init ==
  /\ cpu = [c \in CPUs |-> [proc |-> 0, noff |-> 0, intena |-> 0, sie |-> 0]]
  /\ lock = [l \in Locks |-> None]
  /\ th = [x \in Threads |-> [at |-> IF x \in Procs THEN "forkret" ELSE "scheduler", trap |-> "no", i |-> 1,
                              found |-> 0, w |-> 1, saved |-> 0, n |-> 0, passed |-> 0]]
  /\ state = [p \in Procs |-> "RUNNABLE"]
  /\ killed = {}

-----------------------------------------------------------------------------
(* spinlock.c                                                              *)

push_offStaysOn(k) == [k EXCEPT !.noff = @ + 1, !.intena = IF k.noff = 0 THEN k.sie ELSE @]
push_off(k) == [k EXCEPT !.sie = 0, !.noff = @ + 1, !.intena = IF k.noff = 0 THEN k.sie ELSE @]
pop_off(k) == [k EXCEPT !.noff = @ - 1, !.sie = IF k.noff = 1 THEN k.intena ELSE 0]

Free(l) == lock[l] = None
acquire(c, l) == Free(l) /\ lock' = [lock EXCEPT ![l] = c] /\ cpu' = [cpu EXCEPT ![c] = push_off(@)]
release(c, l) == lock' = [lock EXCEPT ![l] = None] /\ cpu' = [cpu EXCEPT ![c] = pop_off(@)]

\* The thread on CPU c is at a place of its own code, or of the trap on top of it.
At(c, at)     == th[Running(c)].trap = "no" /\ th[Running(c)].at = at
InTrap(c, at) == th[Running(c)].trap = at
Goto(c, at)   == th' = [th EXCEPT ![Running(c)].at = at]
Trap(c, at)   == th' = [th EXCEPT ![Running(c)].trap = at]

-----------------------------------------------------------------------------
(* scheduler()                                                             *)

\* The top of the loop, with intr_on().
Top(c) ==
  /\ At(c, "scheduler")
  /\ cpu' = [cpu EXCEPT ![c].sie = 1]
  /\ th' = [th EXCEPT ![-c] = [@ EXCEPT !.at = "scan", !.i = 1, !.found = 0]]
  /\ UNCHANGED <<lock, state, killed>>

\* The scan after process i, with intr_on() and wfi after the last one if none was found.
After(s, found) ==
  IF s.i < NPROC THEN [s EXCEPT !.at = "scan", !.i = @ + 1, !.found = found]
  ELSE [s EXCEPT !.at = IF found = 1 THEN "scheduler" ELSE "wfi", !.found = 0, !.i = 1]

Skip(c) ==
  LET s == th[-c] IN
  /\ At(c, "scan") /\ Free(s.i) /\ state[s.i] # "RUNNABLE"
  /\ th' = [th EXCEPT ![-c] = After(s, s.found)]
  /\ cpu' = [cpu EXCEPT ![c].sie = IF s.i = NPROC /\ s.found = 0 THEN 1 ELSE @]
  /\ UNCHANGED <<lock, state, killed>>

\* Run process i, which goes on in sched() or forkret().
Run(c) ==
  LET i == th[-c].i IN
  /\ At(c, "scan") /\ Free(i) /\ state[i] = "RUNNABLE"
  /\ lock' = [lock EXCEPT ![i] = c]
  /\ cpu' = [cpu EXCEPT ![c] = [push_off(@) EXCEPT !.proc = i]]
  /\ state' = [state EXCEPT ![i] = "RUNNING"]
  /\ th' = [th EXCEPT ![-c].at = "back"]
  /\ UNCHANGED killed

Back(c) ==
  /\ At(c, "back")
  /\ release(c, th[-c].i)
  /\ th' = [th EXCEPT ![-c] = After(@, 1)]
  /\ UNCHANGED <<state, killed>>

\* sched(): save intena and switch to the scheduler.
sched(c, at, trap) ==
  LET p == cpu[c].proc IN
  /\ th' = [th EXCEPT ![p] = [@ EXCEPT !.at = at, !.trap = trap, !.saved = cpu[c].intena]]
  /\ cpu' = [cpu EXCEPT ![c].proc = 0]

\* CPU c after sched() has returned, on whichever CPU, and p->lock is released.
Resumed(c, p) == pop_off([cpu[c] EXCEPT !.intena = th[p].saved])

-----------------------------------------------------------------------------
(* usertrap(), for system calls; a process calls sleep() and kill().       *)

forkret(c) ==
  LET p == cpu[c].proc IN
  /\ At(c, "forkret")
  /\ lock' = [lock EXCEPT ![p] = None]
  /\ cpu' = [cpu EXCEPT ![c] = [pop_off(@) EXCEPT !.sie = 1]]      \* usertrapret()
  /\ Goto(c, "user")
  /\ UNCHANGED <<state, killed>>

Syscall(c, n) ==
  LET p == cpu[c].proc IN
  /\ At(c, "user")
  /\ th' = [th EXCEPT ![p] = IF p \in killed THEN [@ EXCEPT !.at = "exit"]
                             ELSE [@ EXCEPT !.at = "sys_sleep", !.n = n, !.passed = 0]]
  /\ UNCHANGED <<cpu, lock, state, killed>>

kill(c, q) ==
  /\ At(c, "user") /\ cpu[c].proc \notin killed /\ Free(q)
  /\ q \notin killed /\ Cardinality(killed) < MaxKilled
  /\ killed' = killed \cup {q}
  /\ state' = [state EXCEPT ![q] = IF @ = "SLEEPING" THEN "RUNNABLE" ELSE @]
  /\ Goto(c, "return")
  /\ UNCHANGED <<cpu, lock>>

\* The system call is over: usertrap() ends in exit() or in usertrapret().
Return(c) ==
  /\ At(c, "return")
  /\ Goto(c, IF cpu[c].proc \in killed THEN "exit" ELSE "user")
  /\ UNCHANGED <<cpu, lock, state, killed>>

exit(c) ==
  LET p == cpu[c].proc IN
  /\ At(c, "exit")
  /\ acquire(c, p)
  /\ state' = [state EXCEPT ![p] = "ZOMBIE"]
  /\ Goto(c, "gone")
  /\ UNCHANGED killed

Gone(c) == At(c, "gone") /\ sched(c, "gone", "no") /\ UNCHANGED <<lock, state, killed>>

-----------------------------------------------------------------------------
(* sys_sleep()                                                             *)

SysSleep(c) ==
  /\ At(c, "sys_sleep")
  /\ acquire(c, tickslock)
  /\ th' = [th EXCEPT ![cpu[c].proc] = [@ EXCEPT !.at = "test", !.passed = 0]]     \* ticks0 = ticks
  /\ UNCHANGED <<state, killed>>

\* The condition of the loop.
GoesOn(p) == th[p].passed < th[p].n /\ p \notin killed

Slept(c) ==
  /\ At(c, "test") /\ ~GoesOn(cpu[c].proc)
  /\ release(c, tickslock)
  /\ th' = [th EXCEPT ![cpu[c].proc] = [@ EXCEPT !.at = "return", !.n = 0, !.passed = 0]]
  /\ UNCHANGED <<state, killed>>

\* The loop's condition and p->killed say to sleep; the latter without p->lock, so
\* that kill() may set it from here on.
CallSleep(c) == At(c, "test") /\ GoesOn(cpu[c].proc) /\ Goto(c, "entering") /\ UNCHANGED <<cpu, lock, state, killed>>

\* sleep(&ticks, &tickslock): take p->lock, release tickslock, and switch.
SleepUnlocksFirst(c) ==
  LET p == cpu[c].proc IN
  \/ /\ At(c, "entering") /\ release(c, tickslock) /\ Goto(c, "sleeplock") /\ UNCHANGED <<state, killed>>
  \/ /\ At(c, "sleeplock") /\ acquire(c, p) /\ state' = [state EXCEPT ![p] = "SLEEPING"]
     /\ Goto(c, "sleep") /\ UNCHANGED killed
Sleep(c) ==
  LET p == cpu[c].proc IN
  /\ At(c, "entering") /\ Free(p)
  /\ lock' = [lock EXCEPT ![p] = c, ![tickslock] = None]
  /\ cpu' = [cpu EXCEPT ![c] = pop_off(push_off(@))]
  /\ state' = [state EXCEPT ![p] = "SLEEPING"]
  /\ Goto(c, "sleep")
  /\ UNCHANGED killed

SleepSched(c) == At(c, "sleep") /\ sched(c, "asleep", "no") /\ UNCHANGED <<lock, state, killed>>

Awake(c) ==
  LET p == cpu[c].proc IN
  /\ At(c, "asleep")
  /\ lock' = [lock EXCEPT ![p] = None]
  /\ cpu' = [cpu EXCEPT ![c] = Resumed(c, p)]
  /\ Goto(c, "relock")
  /\ UNCHANGED <<state, killed>>

Relock(c) ==
  /\ At(c, "relock")
  /\ acquire(c, tickslock)
  /\ Goto(c, "test")
  /\ UNCHANGED <<state, killed>>

-----------------------------------------------------------------------------
(* The timer and its interrupt.                                            *)

\* The timer's interrupt, forwarded by timervec, is taken when interrupts are on.  The
\* trap turns them off and ends a wfi.  Only CPU 0 keeps the time; an interrupt that
\* comes before the last one is acknowledged is lost.
Interrupt(c) ==
  LET x == Running(c) IN
  /\ cpu[c].sie = 1
  /\ cpu' = [cpu EXCEPT ![c].sie = 0]
  /\ th' = [th EXCEPT ![x].trap = IF c = 0 THEN "clockintr" ELSE "handled",
                      ![x].at = IF @ = "wfi" THEN "scheduler" ELSE @]
  /\ UNCHANGED <<lock, state, killed>>

\* Another tick for whoever counts them, up to the longest sleep.
Tick(x) == [x EXCEPT !.passed = IF @ < MaxN /\ x.n > 0 THEN @ + 1 ELSE @]

clockintr(c) ==
  /\ InTrap(c, "clockintr")
  /\ acquire(c, tickslock)
  /\ th' = [x \in Threads |-> IF x = Running(c) THEN [Tick(th[x]) EXCEPT !.trap = "wakeup", !.w = 1] ELSE Tick(th[x])]
  /\ UNCHANGED <<state, killed>>

\* wakeup(&ticks), one process at a time.
Wakeup(c) ==
  LET x == Running(c)
      q == th[x].w IN
  /\ InTrap(c, "wakeup") /\ q \in Procs /\ Free(q)
  /\ state' = [state EXCEPT ![q] = IF @ = "SLEEPING" THEN "RUNNABLE" ELSE @]
  /\ th' = [th EXCEPT ![x].w = @ + 1]
  /\ UNCHANGED <<cpu, lock, killed>>

WakeupDone(c) ==
  LET x == Running(c) IN
  /\ InTrap(c, "wakeup") /\ th[x].w \notin Procs
  /\ release(c, tickslock)
  /\ th' = [th EXCEPT ![x] = [@ EXCEPT !.trap = "handled", !.w = 1]]
  /\ UNCHANGED <<state, killed>>

\* A killed process that was in user space exits.
TrapExit(c) ==
  LET x == Running(c) IN
  /\ InTrap(c, "handled") /\ th[x].at = "user" /\ x \in killed
  /\ th' = [th EXCEPT ![x] = [@ EXCEPT !.trap = "no", !.at = "exit"]]
  /\ UNCHANGED <<cpu, lock, state, killed>>

Preempts(c) == cpu[c].proc # 0 /\ state[cpu[c].proc] = "RUNNING" /\ ~(th[cpu[c].proc].at = "user" /\ cpu[c].proc \in killed)

\* yield(): take p->lock and switch to the scheduler.
YieldUnlocked(c) ==
  LET p == cpu[c].proc IN
  /\ InTrap(c, "handled") /\ Preempts(c)
  /\ Free(p) /\ state' = [state EXCEPT ![p] = "RUNNABLE"]
  /\ Trap(c, "yield")
  /\ UNCHANGED <<lock, cpu, killed>>
Yield(c) ==
  LET p == cpu[c].proc IN
  /\ InTrap(c, "handled") /\ Preempts(c)
  /\ acquire(c, p)
  /\ state' = [state EXCEPT ![p] = "RUNNABLE"]
  /\ Trap(c, "yield")
  /\ UNCHANGED killed

YieldSched(c) == InTrap(c, "yield") /\ sched(c, th[cpu[c].proc].at, "yielded") /\ UNCHANGED <<lock, state, killed>>

Yielded(c) ==
  LET p == cpu[c].proc IN
  /\ InTrap(c, "yielded")
  /\ lock' = [lock EXCEPT ![p] = None]
  /\ cpu' = [cpu EXCEPT ![c] = Resumed(c, p)]
  /\ Trap(c, "sret")
  /\ UNCHANGED <<state, killed>>

\* sret: back with interrupts on, as they were.
Sret(c) ==
  /\ InTrap(c, "sret") \/ (InTrap(c, "handled") /\ cpu[c].proc = 0)
  /\ cpu' = [cpu EXCEPT ![c].sie = 1]
  /\ Trap(c, "no")
  /\ UNCHANGED <<lock, state, killed>>

-----------------------------------------------------------------------------
Step(c) ==
  \/ Top(c) \/ Skip(c) \/ Run(c) \/ Back(c)
  \/ forkret(c) \/ Return(c) \/ exit(c) \/ Gone(c)
  \/ SysSleep(c) \/ Slept(c) \/ CallSleep(c) \/ Sleep(c) \/ SleepSched(c) \/ Awake(c) \/ Relock(c)
  \/ Interrupt(c) \/ clockintr(c) \/ Wakeup(c) \/ WakeupDone(c) \/ TrapExit(c)
  \/ Yield(c) \/ YieldSched(c) \/ Yielded(c) \/ Sret(c)

Next == \E c \in CPUs :
  \/ Step(c)
  \/ \E n \in 1 .. MaxN + 1 : Syscall(c, n)
  \/ \E q \in Procs : kill(c, q)

Spec == Init /\ [][Next]_vars

-----------------------------------------------------------------------------
(* Properties.                                                             *)

Held(c) == {l \in Locks : lock[l] = c}

Ats == {"scheduler", "scan", "wfi", "back", "forkret", "user", "return", "exit", "gone",
        "sys_sleep", "test", "entering", "sleep", "asleep", "relock"}
Traps == {"no", "clockintr", "wakeup", "handled", "yield", "yielded", "sret"}

\* The type of the state; noff counts the locks of a CPU.
TypeOK ==
  /\ cpu \in [CPUs -> [proc : {0} \cup Procs, noff : 0 .. 1, intena : 0 .. 1, sie : 0 .. 1]]
  /\ \A c \in CPUs : cpu[c].noff = Cardinality(Held(c))
  /\ lock \in [Locks -> CPUs \cup {None}]
  /\ th \in [Threads -> [at : Ats, trap : Traps, i : Procs, found : 0 .. 1, w : 1 .. NPROC + 1,
                         saved : 0 .. 1, n : 0 .. MaxN + 1, passed : 0 .. MaxN]]
  /\ state \in [Procs -> {"RUNNABLE", "RUNNING", "SLEEPING", "ZOMBIE"}]
  /\ killed \subseteq Procs

\* The places of a thread at which it holds tickslock, or its own p->lock; the scheduler
\* holds the lock of the process it runs from before one swtch() to after the other,
\* except while the process has released it.
HoldsTicks(x) == x.trap = "wakeup" \/ (x.trap = "no" /\ x.at \in {"test", "entering"})
HoldsSelf(x) ==
  \/ x.trap \in {"yield", "yielded"}
  \/ x.trap = "no" /\ x.at \in {"forkret", "sleep", "asleep", "gone"}
HoldsProc(c) == th[-c].at = "back" /\ (cpu[c].proc = 0 \/ HoldsSelf(th[cpu[c].proc]))

LocksAgree == \A c \in CPUs :
  /\ lock[tickslock] = c <=> HoldsTicks(th[Running(c)])
  /\ \A p \in Procs : lock[p] = c <=> HoldsProc(c) /\ th[-c].i = p
  /\ cpu[c].noff = IF HoldsTicks(th[Running(c)]) \/ HoldsProc(c) THEN 1 ELSE 0

\* The interrupt flag, and the one that push_off() or sched() has saved.
Interruptible == {"user", "sys_sleep", "relock", "return", "exit"}
FlagsAgree ==
  /\ \A c \in CPUs :
       LET x == th[Running(c)] IN
       /\ cpu[c].sie = 1 => cpu[c].noff = 0 /\ x.trap = "no"
       /\ x.trap = "no" /\ x.at \in Interruptible \ {"exit"} => cpu[c].sie = 1
       /\ x.trap \in {"wakeup", "yield"} => cpu[c].intena = 0
       /\ x.trap = "no" /\ x.at \in {"test", "entering", "sleep"} => cpu[c].intena = 1
  /\ \A p \in Procs :
       /\ th[p].trap = "yielded" => th[p].saved = 0
       /\ th[p].trap = "no" /\ th[p].at = "asleep" => th[p].saved = 1

\* Where the schedulers and the processes can be; a scheduler knows whom it runs.
SchedulerAts == {"scheduler", "scan", "wfi", "back"}
PlacesAgree ==
  /\ \A c \in CPUs :
       /\ th[-c].at \in SchedulerAts
       /\ th[-c].trap \in {"no", "clockintr", "wakeup", "handled"}
       /\ th[-c].at = "back" => th[-c].trap = "no"
       /\ cpu[c].proc # 0 => th[-c].at = "back" /\ th[-c].i = cpu[c].proc
  /\ \A c, d \in CPUs : cpu[c].proc = cpu[d].proc /\ cpu[c].proc # 0 => c = d
  /\ \A p \in Procs :
       /\ th[p].at \notin SchedulerAts
       /\ th[p].trap # "no" => th[p].at \in Interruptible

\* A process is RUNNING while it is on a CPU, but for its way into sched().
On(p)     == \E c \in CPUs : cpu[c].proc = p
Leaves(x) == x.trap = "yield" \/ (x.trap = "no" /\ x.at \in {"sleep", "gone"})
StatesAgree == \A p \in Procs :
  /\ state[p] = "RUNNING" => On(p)
  /\ state[p] # "RUNNING" /\ On(p) => Leaves(th[p])
  /\ state[p] = "SLEEPING" => th[p].trap = "no" /\ th[p].at \in {"sleep", "asleep"}
  /\ th[p].trap = "yield" => state[p] = "RUNNABLE"
  /\ th[p].trap = "no" /\ th[p].at = "sleep" => state[p] = "SLEEPING"
  /\ th[p].trap = "no" /\ th[p].at = "gone" => state[p] = "ZOMBIE"
  /\ On(p) \/ th[p].trap = "yielded" \/ (th[p].trap = "no" /\ th[p].at \in {"forkret", "asleep", "gone"})

\* Who goes to sleep has ticks left, and who has slept long enough is still to be woken
\* by the wakeup() under way.
SleepersAgree == \A p \in Procs :
  /\ th[p].at = "entering" => th[p].passed < th[p].n
  /\ state[p] = "SLEEPING" =>
       \/ th[p].passed < th[p].n
       \/ \E c \in CPUs : th[Running(c)].trap = "wakeup" /\ th[Running(c)].w <= p

\* The inductive invariant of locks, interrupts and the scheduler.
HartsInv == TypeOK /\ LocksAgree /\ FlagsAgree /\ PlacesAgree /\ StatesAgree /\ SleepersAgree

\* The panics: acquire() of a lock the CPU has, release() of one it does not have, with
\* interrupts on; sched() with another lock, interrupts on, or the process RUNNING.
Wanted(c) ==
  LET x == Running(c) IN
  CASE InTrap(c, "clockintr") \/ At(c, "sys_sleep") \/ At(c, "relock") -> {tickslock}
    [] InTrap(c, "wakeup") -> {th[x].w} \cap Procs
    [] At(c, "scan") -> {th[x].i}
    [] (InTrap(c, "handled") /\ Preempts(c)) \/ At(c, "entering") \/ At(c, "exit") -> {x}
    [] OTHER -> {}
Released(c) ==
  LET x == Running(c) IN
  CASE InTrap(c, "wakeup") \/ At(c, "test") \/ At(c, "entering") -> {tickslock}
    [] InTrap(c, "yielded") \/ At(c, "forkret") \/ At(c, "asleep") -> {x}
    [] At(c, "back") -> {th[x].i}
    [] OTHER -> {}
Switches(c) == InTrap(c, "yield") \/ At(c, "sleep") \/ At(c, "gone")
NoPanic == \A c \in CPUs :
  /\ Wanted(c) \cap Held(c) = {}
  /\ Released(c) \subseteq Held(c)
  /\ Released(c) # {} => cpu[c].sie = 0 /\ cpu[c].noff >= 1
  /\ Switches(c) => Held(c) = {cpu[c].proc} /\ cpu[c].noff = 1 /\ cpu[c].sie = 0 /\ state[cpu[c].proc] # "RUNNING"

\* Interrupts are off while a lock is held and in the handlers, and on in a system call
\* that holds no lock, on whichever CPU it goes on: intena belongs to the thread.
InterruptFlag == \A c \in CPUs :
  /\ Held(c) # {} \/ ~InTrap(c, "no") => cpu[c].sie = 0
  /\ Held(c) = {} /\ th[Running(c)].trap = "no" /\ th[Running(c)].at \in {"user", "sys_sleep", "relock", "return"} => cpu[c].sie = 1

\* A kernel stack is used by one CPU: a process another CPU may pick, or that sleeps, has
\* left its own, or its p->lock is still held there.
OneStack == \A p \in Procs :
  LET on == {c \in CPUs : cpu[c].proc = p} IN
  /\ Cardinality(on) <= 1
  /\ state[p] = "RUNNING" => on # {}
  /\ state[p] # "RUNNING" => \A c \in on : lock[p] = c

\* After a tick nobody sleeps on who has slept long enough: sleep() has p->lock before
\* it releases tickslock, so wakeup() does not pass between.
NoOversleep == \A p \in Procs : state[p] = "SLEEPING" /\ Free(tickslock) => th[p].passed < th[p].n
=============================================================================
