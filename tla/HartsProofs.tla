---------------------------- MODULE HartsProofs -----------------------------
(***************************************************************************)
(* Proofs about module Harts, for any number of CPUs and processes: the    *)
(* kernel does not panic over its spin locks or in sched(), interrupts are *)
(* off whenever they have to be, a kernel stack is in use by one CPU, and  *)
(* sleep() loses no wakeup().                                              *)
(***************************************************************************)
EXTENDS Harts, FiniteSetTheorems, TLAPS

-----------------------------------------------------------------------------
(* The invariant, taken apart: what it says of one CPU and of one process. *)

\* struct cpu and the interrupt flag.
CpuType == [proc : {0} \cup Procs, noff : 0 .. 1, intena : 0 .. 1, sie : 0 .. 1]

\* A thread: its place, the trap on top of it, and the locals it keeps.
ThreadType == [at : Ats, trap : Traps, i : Procs, found : 0 .. 1, w : 1 .. NPROC + 1,
               saved : 0 .. 1, n : 0 .. MaxN + 1, passed : 0 .. MaxN]

\* The variables have their types.
Types ==
  /\ cpu \in [CPUs -> CpuType]
  /\ lock \in [Locks -> CPUs \cup {None}]
  /\ th \in [Threads -> ThreadType]
  /\ state \in [Procs -> {"RUNNABLE", "RUNNING", "SLEEPING", "ZOMBIE"}]
  /\ killed \subseteq Procs

\* The lock that a CPU holds.
CpuLocks(c) ==
  /\ lock[tickslock] = c <=> HoldsTicks(th[Running(c)])
  /\ \A p \in Procs : lock[p] = c <=> HoldsProc(c) /\ th[-c].i = p
  /\ cpu[c].noff = IF HoldsTicks(th[Running(c)]) \/ HoldsProc(c) THEN 1 ELSE 0

\* The interrupt flag of a CPU, and the copies of it.
CpuFlags(c) ==
  /\ cpu[c].sie = 1 => cpu[c].noff = 0 /\ th[Running(c)].trap = "no"
  /\ th[Running(c)].trap = "no" /\ th[Running(c)].at \in Interruptible \ {"exit"} => cpu[c].sie = 1
  /\ th[Running(c)].trap \in {"wakeup", "yield"} => cpu[c].intena = 0
  /\ th[Running(c)].trap = "no" /\ th[Running(c)].at \in {"test", "entering", "sleep"} => cpu[c].intena = 1

\* The places of a CPU's scheduler and of its process.
CpuPlaces(c) ==
  /\ th[-c].at \in SchedulerAts
  /\ th[-c].trap \in {"no", "clockintr", "wakeup", "handled"}
  /\ th[-c].at = "back" => th[-c].trap = "no"
  /\ cpu[c].proc # 0 => th[-c].at = "back" /\ th[-c].i = cpu[c].proc

\* The places of a process, and what sched() saved for it.
ProcPlaces(p) ==
  /\ th[p].at \notin SchedulerAts
  /\ th[p].trap # "no" => th[p].at \in Interruptible
  /\ th[p].trap = "yielded" => th[p].saved = 0
  /\ th[p].trap = "no" /\ th[p].at = "asleep" => th[p].saved = 1

\* p->state, and where the process is.
ProcState(p) ==
  /\ state[p] = "RUNNING" => On(p)
  /\ state[p] # "RUNNING" /\ On(p) => Leaves(th[p])
  /\ state[p] = "SLEEPING" => th[p].trap = "no" /\ th[p].at \in {"sleep", "asleep"}
  /\ th[p].trap = "yield" => state[p] = "RUNNABLE"
  /\ th[p].trap = "no" /\ th[p].at = "sleep" => state[p] = "SLEEPING"
  /\ th[p].trap = "no" /\ th[p].at = "gone" => state[p] = "ZOMBIE"
  /\ On(p) \/ th[p].trap = "yielded" \/ (th[p].trap = "no" /\ th[p].at \in {"forkret", "asleep", "gone"})

\* No process is on two CPUs.
OneCPU == \A c, d \in CPUs : cpu[c].proc = cpu[d].proc /\ cpu[c].proc # 0 => c = d

\* The invariant without SleepersAgree, in parts.
Parts ==
  /\ Types
  /\ \A c \in CPUs : CpuLocks(c) /\ CpuFlags(c) /\ CpuPlaces(c)
  /\ \A p \in Procs : ProcPlaces(p) /\ ProcState(p)
  /\ OneCPU

\* CPUs, schedulers, processes and locks are told apart by their numbers.
LEMMA Numbers ==
  /\ \A c \in CPUs : c \in Nat /\ c # None /\ -c \in Threads /\ -c \notin Procs
  /\ \A c, d \in CPUs : -c = -d => c = d
  /\ Procs \subseteq Threads /\ Procs \subseteq Locks /\ 0 \notin Procs
  /\ tickslock \in Locks /\ tickslock \notin Procs
  /\ \A p \in Procs : p \in Nat /\ p <= NPROC
  BY HartsAssumption DEF CPUs, Procs, Threads, Locks, tickslock, None

\* The threads that run on two CPUs are different, and not the other's scheduler.
LEMMA RunningThread ==
  ASSUME Parts, NEW c \in CPUs
  PROVE  /\ cpu[c].proc = 0 => Running(c) = -c
         /\ cpu[c].proc # 0 => Running(c) = cpu[c].proc /\ cpu[c].proc \in Procs
         /\ Running(c) \in Threads
         /\ \A d \in CPUs \ {c} : Running(d) # Running(c) /\ Running(d) # -c /\ Running(c) # -d
<1>1. \A d \in CPUs : cpu[d].proc \in {0} \cup Procs
  BY Zenon DEF Parts, Types, CpuType
<1>. QED  BY <1>1, Numbers DEF Running, Parts, OneCPU

\* The places of scheduler() are those of a CPU's own thread.
LEMMA WhoIsAt ==
  ASSUME Parts, NEW c \in CPUs
  PROVE  /\ th[Running(c)].at \in SchedulerAts => cpu[c].proc = 0 /\ Running(c) = -c
         /\ th[Running(c)].at \notin SchedulerAts => Running(c) = cpu[c].proc /\ cpu[c].proc \in Procs
  BY RunningThread, Zenon DEF Parts, CpuPlaces, ProcPlaces

-----------------------------------------------------------------------------
\* A process that is not RUNNING and whose p->lock is free is on no CPU.
LEMMA Unlocked ==
  ASSUME Parts, NEW p \in Procs, lock[p] = None, state[p] # "RUNNING"
  PROVE  ~On(p)
<1>. SUFFICES ASSUME NEW c \in CPUs, cpu[c].proc = p PROVE FALSE
  BY Zenon DEF On
<1>1. Leaves(th[p])
  BY Zenon DEF On, Parts, ProcState
<1>2. HoldsProc(c) /\ th[-c].i = p
  BY <1>1, Numbers, Zenon DEF Parts, CpuPlaces, HoldsProc, HoldsSelf, Leaves
<1>. QED  BY <1>2, Numbers DEF Parts, CpuLocks

-----------------------------------------------------------------------------
\* A thread is where it was.
Same(y) ==
  /\ th'[y].at = th[y].at /\ th'[y].trap = th[y].trap /\ th'[y].i = th[y].i
  /\ th'[y].saved = th[y].saved /\ th'[y].w = th[y].w

\* What a step of CPU c leaves alone when it goes on running the same thread.
Stays(c) ==
  /\ cpu'[c].proc = cpu[c].proc
  /\ \A d \in CPUs \ {c} : cpu'[d] = cpu[d]
  /\ \A y \in Threads \ {Running(c)} : Same(y)
  /\ \A l \in Locks : lock'[l] # lock[l] => lock[l] \in {c, None} /\ lock'[l] \in {c, None}
  /\ \A p \in Procs \ {Running(c)} :
       state'[p] # state[p] => lock[p] = None /\ state[p] = "SLEEPING" /\ state'[p] = "RUNNABLE"

\* Then the other CPUs and processes are as the invariant says.
LEMMA OthersStay ==
  ASSUME Parts, Types', NEW c \in CPUs, Stays(c)
  PROVE  /\ Running(c)' = Running(c)
         /\ OneCPU'
         /\ \A p \in Procs : On(p)' = On(p)
         /\ \A d \in CPUs \ {c} : (CpuLocks(d) /\ CpuFlags(d) /\ CpuPlaces(d))'
         /\ \A p \in Procs \ {Running(c)} : (ProcPlaces(p) /\ ProcState(p))'
<1>1. Running(c)' = Running(c) /\ \A d \in CPUs \ {c} : Running(d)' = Running(d)
  BY Zenon DEF Stays, Running
<1>2. \A d \in CPUs : cpu'[d].proc = cpu[d].proc
  BY Zenon DEF Stays
<1>3. OneCPU'
  BY <1>2, Zenon DEF Parts, OneCPU
<1>4. \A p \in Procs : On(p)' <=> On(p)
  BY <1>2, Zenon DEF On
<1>5. ASSUME NEW d \in CPUs \ {c} PROVE (CpuLocks(d) /\ CpuFlags(d) /\ CpuPlaces(d))'
  <2>1. Running(d) \in Threads /\ Running(d) # Running(c) /\ -d \in Threads /\ -d # Running(c)
    BY RunningThread, Numbers, Zenon
  <2>2. Same(Running(d)) /\ Same(-d) /\ cpu'[d] = cpu[d] /\ Running(d)' = Running(d)
    BY <1>1, <2>1, Zenon DEF Stays
  <2>3. HoldsTicks(th[Running(d)])' <=> HoldsTicks(th[Running(d)])
    BY <2>2, Zenon DEF HoldsTicks, Same
  <2>4. HoldsProc(d)' <=> HoldsProc(d)
    <3>1. cpu[d].proc # 0 => Running(d) = cpu[d].proc
      BY RunningThread, Zenon
    <3>. QED  BY <2>2, <3>1, Zenon DEF HoldsProc, HoldsSelf, Same
  <2>5. \A l \in Locks : lock'[l] = d <=> lock[l] = d
    BY Numbers, Zenon DEF Stays
  <2>6. CpuLocks(d)'
    BY <2>2, <2>3, <2>4, <2>5, Numbers DEF Parts, CpuLocks, Same
  <2>7. CpuFlags(d)'
    BY <2>2 DEF Parts, CpuFlags, Same
  <2>8. CpuPlaces(d)'
    BY <2>2, Zenon DEF Parts, CpuPlaces, Same
  <2>. QED  BY <2>6, <2>7, <2>8, Zenon
<1>6. ASSUME NEW p \in Procs \ {Running(c)} PROVE (ProcPlaces(p) /\ ProcState(p))'
  <2>1. Same(p)
    BY Numbers, Zenon DEF Stays
  <2>2. ProcPlaces(p)'
    BY <2>1, Zenon DEF Same, ProcPlaces, Parts
  <2>3. CASE state'[p] = state[p]
    BY <1>4, <2>1, <2>2, <2>3, Zenon DEF Same, ProcState, Parts, Leaves
  <2>4. CASE state'[p] # state[p]
    <3>1. lock[p] = None /\ state[p] = "SLEEPING" /\ state'[p] = "RUNNABLE"
      BY <2>4, Zenon DEF Stays
    <3>2. th[p].trap = "no" /\ th[p].at \in {"sleep", "asleep"}
      BY <3>1, Zenon DEF Parts, ProcState
    <3>3. ~On(p)
      BY <3>1, <3>2, Unlocked, Zenon
    <3>4. th[p].at = "asleep"
      BY <3>2, <3>3, Zenon DEF Parts, ProcState
    <3>. QED  BY <1>4, <2>1, <2>2, <3>1, <3>2, <3>3, <3>4, Zenon DEF Same, ProcState, Leaves
  <2>. QED  BY <2>3, <2>4, Zenon
<1>7. \A p \in Procs : On(p)' = On(p)
  BY <1>2, Zenon DEF On
<1>. QED  BY <1>1, <1>3, <1>5, <1>6, <1>7, Zenon

-----------------------------------------------------------------------------
\* push_off() and pop_off() of a CPU that holds no lock, and one.
LEMMA PushPop ==
  ASSUME NEW k \in CpuType
  PROVE  /\ k.noff = 0 => /\ push_off(k) \in CpuType /\ push_off(k).proc = k.proc /\ push_off(k).noff = 1
                          /\ push_off(k).sie = 0 /\ push_off(k).intena = k.sie
         /\ k.noff = 1 => /\ pop_off(k) \in CpuType /\ pop_off(k).proc = k.proc /\ pop_off(k).noff = 0
                          /\ pop_off(k).sie = k.intena
<1>1. k.intena \in 0 .. 1 /\ k.sie \in 0 .. 1 /\ 0 \in 0 .. 1 /\ 1 \in 0 .. 1
  BY DEF CpuType
<1>2. [k EXCEPT !.sie = 0, !.noff = 1, !.intena = k.sie] \in CpuType
  <2>1. \A i, n, s \in 0 .. 1 : [k EXCEPT !.sie = s, !.noff = n, !.intena = i] \in CpuType
    BY Zenon DEF CpuType
  <2>. QED  BY <1>1, <2>1, Zenon
<1>3. [k EXCEPT !.noff = 0, !.sie = k.intena] \in CpuType
  <2>1. \A n, s \in 0 .. 1 : [k EXCEPT !.noff = n, !.sie = s] \in CpuType
    BY Zenon DEF CpuType
  <2>. QED  BY <1>1, <2>1, Zenon
<1>4. k.noff = 0 => push_off(k) = [k EXCEPT !.sie = 0, !.noff = 1, !.intena = k.sie]
  BY DEF push_off
<1>5. k.noff = 1 => pop_off(k) = [k EXCEPT !.noff = 0, !.sie = k.intena]
  BY DEF pop_off
<1>6. (k.noff = 0 => push_off(k) \in CpuType) /\ (k.noff = 1 => pop_off(k) \in CpuType)
  BY <1>2, <1>3, <1>4, <1>5, Zenon
<1>7. k.noff = 0 => push_off(k).proc = k.proc /\ push_off(k).noff = 1 /\ push_off(k).sie = 0 /\ push_off(k).intena = k.sie
  BY DEF CpuType, push_off
<1>8. k.noff = 1 => pop_off(k).proc = k.proc /\ pop_off(k).noff = 0 /\ pop_off(k).sie = k.intena
  BY DEF CpuType, pop_off
<1>. QED  BY <1>6, <1>7, <1>8, Zenon

\* Thread x goes to r; of the others at most [passed] changes.
ThreadMoves(x, r) ==
  /\ th' \in [Threads -> ThreadType]
  /\ th'[x] = r
  /\ \A y \in Threads \ {x} : Same(y)

\* A step that changes one CPU or one thread.
LEMMA Update ==
  ASSUME Parts
  PROVE  /\ \A c \in CPUs, k \in CpuType :
              cpu' = [cpu EXCEPT ![c] = k] =>
                cpu' \in [CPUs -> CpuType] /\ cpu'[c] = k /\ \A d \in CPUs \ {c} : cpu'[d] = cpu[d]
         /\ \A c \in CPUs : cpu' = cpu => cpu' = [cpu EXCEPT ![c] = cpu[c]]
         /\ \A x \in Threads, r \in ThreadType : th' = [th EXCEPT ![x] = r] => ThreadMoves(x, r)
  BY Zenon DEF Parts, Types, ThreadMoves, Same

-----------------------------------------------------------------------------
\* A step of CPU c is about c and the thread it runs.
Local(c) ==
  /\ \A d \in CPUs \ {c} : cpu'[d] = cpu[d]
  /\ \A y \in Threads \ {Running(c)} : Same(y)

\* What the invariant says of a CPU, k, the process on it, r, and its state, s ...
Process(k, r, s) ==
  /\ k.noff = IF HoldsTicks(r) \/ HoldsSelf(r) THEN 1 ELSE 0
  /\ k.sie = 1 => k.noff = 0 /\ r.trap = "no"
  /\ r.trap = "no" /\ r.at \in Interruptible \ {"exit"} => k.sie = 1
  /\ r.trap \in {"wakeup", "yield"} => k.intena = 0
  /\ r.trap = "no" /\ r.at \in {"test", "entering", "sleep"} => k.intena = 1
  /\ r.at \notin SchedulerAts
  /\ r.trap # "no" => r.at \in Interruptible
  /\ r.trap = "yielded" => r.saved = 0
  /\ r.trap = "no" /\ r.at = "asleep" => r.saved = 1
  /\ s # "RUNNING" => Leaves(r)
  /\ s = "SLEEPING" => r.trap = "no" /\ r.at \in {"sleep", "asleep"}
  /\ r.trap = "yield" => s = "RUNNABLE"
  /\ r.trap = "no" /\ r.at = "sleep" => s = "SLEEPING"
  /\ r.trap = "no" /\ r.at = "gone" => s = "ZOMBIE"

\* ... which holds of CPU c, its process p and the locks.
LEMMA ProcessRuns ==
  ASSUME Parts, NEW c \in CPUs, NEW p \in Procs, cpu[c].proc = p
  PROVE  /\ p \in Threads /\ Running(c) = p /\ p # -c /\ p # 0 /\ p \in Locks /\ p # tickslock
         /\ cpu[c] \in CpuType /\ th[p] \in ThreadType
         /\ Process(cpu[c], th[p], state[p])
         /\ lock[tickslock] = c <=> HoldsTicks(th[p])
         /\ lock[p] = c <=> HoldsSelf(th[p])
         /\ th[-c].at = "back" /\ th[-c].i = p /\ th[-c].trap = "no" /\ On(p)
<1>1. p \in Threads /\ Running(c) = p /\ p # -c /\ p # 0 /\ p \in Locks /\ p # tickslock
  BY RunningThread, Numbers, Zenon
<1>2. On(p)
  BY Zenon DEF On
<1>3. th[-c].at = "back" /\ th[-c].i = p /\ th[-c].trap = "no"
  BY <1>1, Zenon DEF Parts, CpuPlaces
<1>4. HoldsProc(c) <=> HoldsSelf(th[p])
  BY <1>1, <1>3, Numbers, Zenon DEF HoldsProc
<1>5. CpuLocks(c) /\ CpuFlags(c) /\ ProcPlaces(p) /\ ProcState(p)
  BY <1>1, Zenon DEF Parts
<1>6. /\ lock[tickslock] = c <=> HoldsTicks(th[p])
      /\ lock[p] = c <=> HoldsSelf(th[p])
      /\ cpu[c].noff = IF HoldsTicks(th[p]) \/ HoldsSelf(th[p]) THEN 1 ELSE 0
  BY <1>1, <1>3, <1>4, <1>5, Zenon DEF CpuLocks
<1>7. Process(cpu[c], th[p], state[p])
  BY <1>1, <1>2, <1>5, <1>6, Zenon DEF CpuFlags, ProcPlaces, ProcState, Process
<1>8. cpu[c] \in CpuType /\ th[p] \in ThreadType
  BY <1>1, Zenon DEF Parts, Types
<1>. QED  BY <1>1, <1>2, <1>3, <1>6, <1>7, <1>8, Zenon

\* The same, under one name.
RunsOn(c, p) ==
  /\ p \in Threads /\ Running(c) = p /\ p # -c /\ p # 0 /\ p \in Locks /\ p # tickslock
  /\ cpu[c] \in CpuType /\ th[p] \in ThreadType
  /\ Process(cpu[c], th[p], state[p])
  /\ lock[tickslock] = c <=> HoldsTicks(th[p])
  /\ lock[p] = c <=> HoldsSelf(th[p])
  /\ th[-c].at = "back" /\ th[-c].i = p /\ th[-c].trap = "no" /\ On(p)

\* The process that a CPU runs.
LEMMA ProcessOn ==
  ASSUME Parts, NEW c \in CPUs, NEW p \in Procs, p = cpu[c].proc
  PROVE  RunsOn(c, p)
  BY ProcessRuns DEF RunsOn

\* The functions and their domains.
LEMMA Tables ==
  ASSUME Parts
  PROVE  /\ lock \in [Locks -> CPUs \cup {None}] /\ killed \subseteq Procs
         /\ state \in [Procs -> {"RUNNABLE", "RUNNING", "SLEEPING", "ZOMBIE"}]
  BY Zenon DEF Parts, Types

\* tickslock is the lock of no process.
LEMMA LockNames == Procs \subseteq Locks /\ tickslock \in Locks /\ tickslock \notin Procs /\ \A c \in CPUs : c # None
  BY Numbers, Zenon

\* What a process may do to locks and states: take and release its own and tickslock, and
\* wake others whose lock is free.
ProcessEffect(c, p) ==
  /\ lock' \in [Locks -> CPUs \cup {None}]
  /\ state' \in [Procs -> {"RUNNABLE", "RUNNING", "SLEEPING", "ZOMBIE"}]
  /\ killed' \subseteq Procs
  /\ \A q \in Procs \ {p} : lock'[q] = lock[q]
  /\ \A l \in {p, tickslock} : lock'[l] # lock[l] => lock[l] \in {c, None} /\ lock'[l] \in {c, None}
  /\ \A q \in Procs \ {p} :
       state'[q] # state[q] => lock[q] = None /\ state[q] = "SLEEPING" /\ state'[q] = "RUNNABLE"

\* A step that touches no lock and no state.
LEMMA NoEffect ==
  ASSUME Parts, NEW c \in CPUs, NEW p \in Procs, lock' = lock, state' = state, killed' = killed
  PROVE  ProcessEffect(c, p)
  BY Tables, Zenon DEF ProcessEffect

\* A step that takes or releases one of its own locks.
LEMMA LockEffect ==
  ASSUME Parts, NEW c \in CPUs, NEW p \in Procs, NEW l \in {p, tickslock}, NEW v \in {c, None}, lock[l] \in {c, None},
         lock' = [lock EXCEPT ![l] = v], state' = state, killed' = killed
  PROVE  ProcessEffect(c, p) /\ lock'[l] = v /\ \A m \in {p, tickslock} \ {l} : lock'[m] = lock[m]
  BY Tables, LockNames, Zenon DEF ProcessEffect

\* A step into sched(), with p->lock.
LEMMA MoveEffect ==
  ASSUME Parts, NEW c \in CPUs, NEW p \in Procs, lock[p] \in {c, None}, NEW s \in {"RUNNABLE", "RUNNING", "SLEEPING", "ZOMBIE"},
         lock' = [lock EXCEPT ![p] = c], state' = [state EXCEPT ![p] = s], killed' = killed
  PROVE  ProcessEffect(c, p) /\ lock'[p] = c /\ lock'[tickslock] = lock[tickslock] /\ state'[p] = s
  BY Tables, LockNames, Zenon DEF ProcessEffect

\* The process on a CPU goes from th[p] to r, its CPU to k.
LEMMA ProcessMoves ==
  ASSUME Parts, NEW c \in CPUs, NEW p \in Procs, cpu[c].proc = p,
         NEW k \in CpuType, k.proc = p, NEW r \in ThreadType,
         cpu' = [cpu EXCEPT ![c] = k], ThreadMoves(p, r),
         ProcessEffect(c, p), Process(k, r, state'[p]),
         lock'[tickslock] = c <=> HoldsTicks(r),
         lock'[p] = c <=> HoldsSelf(r)
  PROVE  Parts' /\ Local(c)
<1>1. /\ p \in Threads /\ Running(c) = p /\ p # -c /\ p # 0 /\ p \in Locks
      /\ th[-c].at = "back" /\ th[-c].i = p /\ th[-c].trap = "no"
  BY ProcessRuns, Zenon
<1>2. /\ cpu' \in [CPUs -> CpuType] /\ th' \in [Threads -> ThreadType]
      /\ cpu'[c] = k /\ th'[p] = r
      /\ \A d \in CPUs \ {c} : cpu'[d] = cpu[d]
      /\ \A y \in Threads \ {p} : Same(y)
  BY <1>1, Update, Zenon DEF ThreadMoves
<1>3. Types'
  BY <1>2, Zenon DEF Types, ProcessEffect
<1>4. Stays(c)
  BY <1>1, <1>2, Zenon DEF Stays, ProcessEffect, Locks
<1>5. Same(-c) /\ cpu'[c].proc = p /\ On(p)' /\ Running(c)' = p
  BY <1>1, <1>2, <1>3, <1>4, OthersStay, Numbers, Zenon DEF On
<1>6. HoldsProc(c)' <=> HoldsSelf(r)
  BY <1>1, <1>2, <1>5, Zenon DEF HoldsProc, Same
<1>7. \A q \in Procs \ {p} : lock'[q] # c
  BY <1>1 DEF ProcessEffect, Parts, CpuLocks
<1>8. CpuLocks(c)'
  BY <1>1, <1>2, <1>5, <1>6, <1>7 DEF CpuLocks, Process, Same
<1>9. CpuFlags(c)'
  BY <1>2, <1>5, Zenon DEF CpuFlags, Process
<1>10. CpuPlaces(c)'
  BY <1>1, <1>2, <1>5, Zenon DEF CpuPlaces, SchedulerAts, Same
<1>11. ProcPlaces(p)' /\ ProcState(p)'
  BY <1>2, <1>5, Zenon DEF ProcPlaces, ProcState, Process
<1>12. Local(c)
  BY <1>4, Zenon DEF Stays, Local
<1>. QED  BY <1>1, <1>3, <1>4, <1>8, <1>9, <1>10, <1>11, <1>12, OthersStay, Zenon DEF Parts

-----------------------------------------------------------------------------
\* What the invariant says of a CPU, k, that runs its scheduler, x.
Scheduler(k, x) ==
  /\ k.noff = IF x.trap = "wakeup" \/ x.at = "back" THEN 1 ELSE 0
  /\ k.sie = 1 => k.noff = 0 /\ x.trap = "no"
  /\ x.trap = "wakeup" => k.intena = 0
  /\ x.at \in SchedulerAts
  /\ x.trap \in {"no", "clockintr", "wakeup", "handled"}
  /\ x.at = "back" => x.trap = "no"

\* What the invariant says of a CPU whose own thread, the scheduler, runs.
LEMMA SchedulerRuns ==
  ASSUME Parts, NEW c \in CPUs, cpu[c].proc = 0
  PROVE  /\ Running(c) = -c /\ -c \in Threads /\ -c \notin Procs
         /\ cpu[c] \in CpuType /\ th[-c] \in ThreadType /\ th[-c].i \in Procs
         /\ Scheduler(cpu[c], th[-c])
         /\ lock[tickslock] = c <=> th[-c].trap = "wakeup"
         /\ \A p \in Procs : lock[p] = c <=> th[-c].at = "back" /\ th[-c].i = p
<1>1. Running(c) = -c /\ -c \in Threads /\ -c \notin Procs
  BY RunningThread, Numbers, Zenon
<1>2. CpuLocks(c) /\ CpuFlags(c) /\ CpuPlaces(c)
  BY Zenon DEF Parts
<1>3. HoldsProc(c) <=> th[-c].at = "back"
  BY Zenon DEF HoldsProc
<1>4. HoldsTicks(th[-c]) <=> th[-c].trap = "wakeup"
  BY <1>2, Zenon DEF HoldsTicks, CpuPlaces, SchedulerAts
<1>5. cpu[c] \in CpuType /\ th[-c] \in ThreadType
  BY <1>1, Zenon DEF Parts, Types
<1>6. th[-c].i \in Procs
  BY <1>5, Zenon DEF ThreadType
<1>. QED  BY <1>1, <1>2, <1>3, <1>4, <1>5, <1>6, Zenon DEF Scheduler, CpuLocks, CpuFlags, CpuPlaces

\* What the scheduler may do to locks and states.
SchedulerEffect(c) ==
  /\ lock' \in [Locks -> CPUs \cup {None}]
  /\ state' \in [Procs -> {"RUNNABLE", "RUNNING", "SLEEPING", "ZOMBIE"}]
  /\ killed' = killed
  /\ \A l \in Locks : lock'[l] # lock[l] => lock[l] \in {c, None} /\ lock'[l] \in {c, None}
  /\ \A q \in Procs :
       state'[q] # state[q] => lock[q] = None /\ state[q] = "SLEEPING" /\ state'[q] = "RUNNABLE"

\* The scheduler of CPU c goes to x, and c to k.
LEMMA SchedulerMoves ==
  ASSUME Parts, NEW c \in CPUs, cpu[c].proc = 0,
         NEW k \in CpuType, k.proc = 0, NEW x \in ThreadType,
         cpu' = [cpu EXCEPT ![c] = k], ThreadMoves(-c, x),
         SchedulerEffect(c), Scheduler(k, x),
         lock'[tickslock] = c <=> x.trap = "wakeup",
         \A p \in Procs : lock'[p] = c <=> x.at = "back" /\ x.i = p
  PROVE  Parts' /\ Local(c)
<1>1. Running(c) = -c /\ -c \in Threads /\ -c \notin Procs
  BY SchedulerRuns, Zenon
<1>2. /\ cpu' \in [CPUs -> CpuType] /\ th' \in [Threads -> ThreadType]
      /\ cpu'[c] = k /\ th'[-c] = x
      /\ \A d \in CPUs \ {c} : cpu'[d] = cpu[d]
      /\ \A y \in Threads \ {-c} : Same(y)
  BY <1>1, Update, Zenon DEF ThreadMoves
<1>3. Types'
  BY <1>2, Zenon DEF Types, SchedulerEffect, Parts
<1>4. Stays(c)
  BY <1>1, <1>2, Zenon DEF Stays, SchedulerEffect
<1>5. Running(c)' = -c
  BY <1>1, <1>3, <1>4, OthersStay, Zenon
<1>6. HoldsProc(c)' <=> x.at = "back"
  BY <1>2, Zenon DEF HoldsProc
<1>7. HoldsTicks(x) <=> x.trap = "wakeup"
  BY Zenon DEF HoldsTicks, Scheduler, SchedulerAts
<1>8. CpuLocks(c)'
  BY <1>2, <1>5, <1>6, <1>7, Zenon DEF CpuLocks, Scheduler
<1>9. CpuFlags(c)'
  BY <1>2, <1>5, Zenon DEF CpuFlags, Scheduler, SchedulerAts, Interruptible
<1>10. CpuPlaces(c)'
  BY <1>2, Zenon DEF CpuPlaces, Scheduler
<1>11. Local(c)
  BY <1>4, Zenon DEF Stays, Local
<1>. QED  BY <1>1, <1>3, <1>4, <1>8, <1>9, <1>10, <1>11, OthersStay, Zenon DEF Parts

-----------------------------------------------------------------------------
(* The actions, one lemma each.                                            *)

\* Records of the type of a thread, with other fields.
LEMMA ThreadFields ==
  ASSUME NEW r \in ThreadType
  PROVE  /\ \A w \in 1 .. NPROC + 1 : [r EXCEPT !.w = w] \in ThreadType
         /\ \A a \in Ats : [r EXCEPT !.at = a] \in ThreadType
         /\ \A a \in Ats, q \in 0 .. MaxN : [r EXCEPT !.at = a, !.passed = q] \in ThreadType
         /\ \A a \in Ats, m \in 0 .. MaxN + 1, q \in 0 .. MaxN :
              [r EXCEPT !.at = a, !.n = m, !.passed = q] \in ThreadType
         /\ \A a \in Ats, t \in Traps : [r EXCEPT !.trap = t, !.at = a] \in ThreadType
         /\ \A t \in Traps, w \in 1 .. NPROC + 1 : [r EXCEPT !.trap = t, !.w = w] \in ThreadType
         /\ \A a \in Ats, t \in Traps, s \in 0 .. 1 : [r EXCEPT !.at = a, !.trap = t, !.saved = s] \in ThreadType
         /\ \A a \in Ats, i \in Procs, f \in 0 .. 1 : [r EXCEPT !.at = a, !.i = i, !.found = f] \in ThreadType
         /\ \A a \in Ats, i \in Procs, f \in 0 .. 1 : [r EXCEPT !.at = a, !.found = f, !.i = i] \in ThreadType
<1>1. \A a \in Ats, q \in 0 .. MaxN : [r EXCEPT !.at = a, !.passed = q] \in ThreadType
  BY Zenon DEF ThreadType
<1>2. \A a \in Ats, m \in 0 .. MaxN + 1, q \in 0 .. MaxN : [r EXCEPT !.at = a, !.n = m, !.passed = q] \in ThreadType
  BY Zenon DEF ThreadType
<1>3. \A a \in Ats, t \in Traps : [r EXCEPT !.trap = t, !.at = a] \in ThreadType
  BY Zenon DEF ThreadType
<1>4. \A t \in Traps, w \in 1 .. NPROC + 1 : [r EXCEPT !.trap = t, !.w = w] \in ThreadType
  BY Zenon DEF ThreadType
<1>5. \A a \in Ats, t \in Traps, s \in 0 .. 1 : [r EXCEPT !.at = a, !.trap = t, !.saved = s] \in ThreadType
  BY Zenon DEF ThreadType
<1>6. \A a \in Ats, i \in Procs, f \in 0 .. 1 : [r EXCEPT !.at = a, !.i = i, !.found = f] \in ThreadType
  BY Zenon DEF ThreadType
<1>7. \A a \in Ats, i \in Procs, f \in 0 .. 1 : [r EXCEPT !.at = a, !.found = f, !.i = i] \in ThreadType
  BY Zenon DEF ThreadType
<1>8. \A a \in Ats : [r EXCEPT !.at = a] \in ThreadType
  BY Zenon DEF ThreadType
<1>9. \A w \in 1 .. NPROC + 1 : [r EXCEPT !.w = w] \in ThreadType
  BY Zenon DEF ThreadType
<1>. QED  BY <1>1, <1>2, <1>3, <1>4, <1>5, <1>6, <1>7, <1>8, <1>9, Zenon

\* A tick changes nothing of a thread but [passed].
LEMMA TickKeeps ==
  ASSUME NEW r \in ThreadType
  PROVE  /\ Tick(r) \in ThreadType
         /\ Tick(r).at = r.at /\ Tick(r).trap = r.trap /\ Tick(r).i = r.i /\ Tick(r).saved = r.saved /\ Tick(r).w = r.w
         /\ Tick(r).n = r.n /\ (Tick(r).passed = r.passed \/ Tick(r).passed = r.passed + 1)
<1> DEFINE q == IF r.passed < MaxN /\ r.n > 0 THEN r.passed + 1 ELSE r.passed
<1>1. q \in 0 .. MaxN /\ (q = r.passed \/ q = r.passed + 1)
  BY HartsAssumption DEF ThreadType
<1>2. Tick(r) = [r EXCEPT !.passed = q]
  BY Zenon DEF Tick
<1>. HIDE DEF q
<1>. QED  BY <1>1, <1>2, Zenon DEF ThreadType

\* sleep() takes a second lock before it releases the first.
LEMMA NestedLocks ==
  ASSUME NEW k \in CpuType, k.noff = 1
  PROVE  LET h == pop_off(push_off(k)) IN
         h \in CpuType /\ h.proc = k.proc /\ h.noff = 1 /\ h.sie = 0 /\ h.intena = k.intena
<1>1. push_off(k).noff = 2 /\ push_off(k).proc = k.proc /\ push_off(k).intena = k.intena /\ push_off(k).sie = 0
  BY DEF CpuType, push_off
<1>2. pop_off(push_off(k)) = [push_off(k) EXCEPT !.noff = 1, !.sie = 0]
  BY <1>1 DEF pop_off
<1>3. push_off(k) = [k EXCEPT !.sie = 0, !.noff = 2, !.intena = k.intena]
  BY DEF push_off
<1>4. k.intena \in 0 .. 1
  BY Zenon DEF CpuType
<1>5. [k EXCEPT !.sie = 0] \in CpuType
  BY DEF CpuType
<1>6. [[k EXCEPT !.sie = 0, !.noff = 2, !.intena = k.intena] EXCEPT !.noff = 1, !.sie = 0] = [k EXCEPT !.sie = 0]
  BY <1>4, Zenon DEF CpuType
<1>. QED  BY <1>1, <1>2, <1>3, <1>5, <1>6, Zenon DEF CpuType

\* The CPU after sched(): the process's flag is restored.
LEMMA ResumedCPU ==
  ASSUME Parts, NEW c \in CPUs, NEW p \in Procs, cpu[c].noff = 1
  PROVE  /\ Resumed(c, p) \in CpuType /\ Resumed(c, p).proc = cpu[c].proc
         /\ Resumed(c, p).noff = 0 /\ Resumed(c, p).sie = th[p].saved
<1>1. cpu[c] \in CpuType /\ th[p].saved \in 0 .. 1
  BY Numbers, Zenon DEF Parts, Types, ThreadType
<1> DEFINE k == [cpu[c] EXCEPT !.intena = th[p].saved]
<1>2. k \in CpuType /\ k.noff = 1 /\ k.proc = cpu[c].proc /\ k.intena = th[p].saved
  BY <1>1, Zenon DEF CpuType
<1>. HIDE DEF k
<1>. QED  BY <1>2, PushPop, Zenon DEF Resumed, k

\* forkret(): release p->lock and go to user space, with interrupts on.
LEMMA ForkretKeeps == ASSUME Parts, NEW c \in CPUs, forkret(c) PROVE Parts' /\ Local(c)
<1>1. PICK p \in Procs : p = cpu[c].proc /\ th[p].trap = "no" /\ th[p].at = "forkret"
  BY WhoIsAt, Zenon DEF forkret, At, SchedulerAts
<1>on. RunsOn(c, p)
  BY <1>1, ProcessOn, Zenon
<1>2. Running(c) = p /\ cpu[c].noff = 1 /\ lock[p] = c /\ lock[tickslock] # c /\ state[p] = "RUNNING"
  BY <1>1, <1>on, Zenon DEF RunsOn, Process, HoldsTicks, HoldsSelf, Leaves
<1> DEFINE k == [pop_off(cpu[c]) EXCEPT !.sie = 1]
           r == [th[p] EXCEPT !.at = "user"]
<1>3. k \in CpuType /\ k.proc = p /\ k.noff = 0 /\ k.sie = 1
  BY <1>1, <1>2, <1>on, PushPop, Zenon DEF RunsOn, CpuType
<1>4. r \in ThreadType /\ r.at = "user" /\ r.trap = "no"
  BY <1>1, <1>2, <1>on, HartsAssumption, Zenon DEF RunsOn, ThreadType, Ats, Traps
<1>5. cpu' = [cpu EXCEPT ![c] = k] /\ th' = [th EXCEPT ![p] = r]
  BY <1>1, <1>2, Update, Zenon DEF forkret, Goto, Trap, At
<1>. HIDE DEF k, r
<1>6. ProcessEffect(c, p) /\ lock'[p] = None /\ lock'[tickslock] = lock[tickslock] /\ state'[p] = state[p]
  <2>1. lock' = [lock EXCEPT ![p] = None] /\ state' = state /\ killed' = killed /\ lock[p] \in {c, None}
    BY <1>1, <1>2, Zenon DEF forkret
  <2>. QED  BY <2>1, LockEffect, LockNames, Zenon
<1>7. Process(k, r, state'[p])
  BY <1>1, <1>2, <1>3, <1>4, <1>6, <1>on, Zenon DEF RunsOn, Process, HoldsTicks, HoldsSelf, Leaves, Interruptible, SchedulerAts
<1>8. (lock'[tickslock] = c <=> HoldsTicks(r)) /\ (lock'[p] = c <=> HoldsSelf(r))
  BY <1>2, <1>4, <1>6, Numbers, Zenon DEF HoldsTicks, HoldsSelf
<1>9. ThreadMoves(p, r)
  BY <1>1, <1>4, <1>5, <1>on, Update, Zenon DEF RunsOn
<1>. QED  BY <1>1, <1>3, <1>4, <1>5, <1>6, <1>7, <1>8, <1>9, ProcessMoves, Zenon

\* A system call, or exit() of a killed process.
LEMMA SyscallKeeps == ASSUME Parts, NEW c \in CPUs, NEW n \in 1 .. MaxN + 1, Syscall(c, n) PROVE Parts' /\ Local(c)
<1>1. PICK p \in Procs : p = cpu[c].proc /\ th[p].trap = "no" /\ th[p].at = "user"
  BY WhoIsAt, Zenon DEF Syscall, At, SchedulerAts
<1>on. RunsOn(c, p)
  BY <1>1, ProcessOn, Zenon
<1>2. Running(c) = p /\ cpu[c].noff = 0 /\ lock[p] # c /\ lock[tickslock] # c /\ state[p] = "RUNNING" /\ cpu[c].sie = 1
  BY <1>1, <1>on, Zenon DEF RunsOn, Process, HoldsTicks, HoldsSelf, Leaves, Interruptible
<1> DEFINE k == cpu[c]
           r == IF p \in killed THEN [th[p] EXCEPT !.at = "exit"]
                ELSE [th[p] EXCEPT !.at = "sys_sleep", !.n = n, !.passed = 0]
<1>3. k \in CpuType /\ k.proc = p /\ k = cpu[c]
  BY <1>1, <1>2, <1>on, Zenon DEF RunsOn
<1>4. r \in ThreadType /\ r.at \in {"exit", "sys_sleep"} /\ r.trap = "no"
  <2>1. th[p] \in ThreadType
    BY <1>1, <1>on, Zenon DEF RunsOn
  <2>2. "exit" \in Ats /\ "sys_sleep" \in Ats /\ n \in 0 .. MaxN + 1 /\ 0 \in 0 .. MaxN
    BY HartsAssumption DEF Ats, Traps
  <2>3. /\ [th[p] EXCEPT !.at = "exit"] \in ThreadType
        /\ [th[p] EXCEPT !.at = "sys_sleep", !.n = n, !.passed = 0] \in ThreadType
    BY <2>1, <2>2, ThreadFields, Zenon
  <2>. QED  BY <1>1, <2>1, <2>3, Zenon DEF ThreadType
<1>5. cpu' = [cpu EXCEPT ![c] = k] /\ th' = [th EXCEPT ![p] = r]
  BY <1>1, <1>2, Update, Zenon DEF Syscall, Goto, Trap, At
<1>. HIDE DEF k, r
<1>6. ProcessEffect(c, p) /\ lock'[p] = lock[p] /\ lock'[tickslock] = lock[tickslock] /\ state'[p] = state[p]
  <2>1. lock' = lock /\ state' = state /\ killed' = killed
    BY Zenon DEF Syscall
  <2>. QED  BY <2>1, NoEffect, Zenon
<1>7. Process(k, r, state'[p])
  BY <1>1, <1>2, <1>3, <1>4, <1>6, <1>on, Zenon DEF RunsOn, Process, HoldsTicks, HoldsSelf, Leaves, Interruptible, SchedulerAts
<1>8. (lock'[tickslock] = c <=> HoldsTicks(r)) /\ (lock'[p] = c <=> HoldsSelf(r))
  BY <1>2, <1>4, <1>6, Numbers, Zenon DEF HoldsTicks, HoldsSelf
<1>9. ThreadMoves(p, r)
  BY <1>1, <1>4, <1>5, <1>on, Update, Zenon DEF RunsOn
<1>. QED  BY <1>1, <1>3, <1>4, <1>5, <1>6, <1>7, <1>8, <1>9, ProcessMoves, Zenon

\* kill(): wake a sleeper.
LEMMA KillKeeps == ASSUME Parts, NEW c \in CPUs, NEW q \in Procs, kill(c, q) PROVE Parts' /\ Local(c)
<1>1. PICK p \in Procs : p = cpu[c].proc /\ th[p].trap = "no" /\ th[p].at = "user"
  BY WhoIsAt, Zenon DEF kill, At, SchedulerAts
<1>on. RunsOn(c, p)
  BY <1>1, ProcessOn, Zenon
<1>2. Running(c) = p /\ cpu[c].noff = 0 /\ lock[p] # c /\ lock[tickslock] # c /\ state[p] = "RUNNING" /\ cpu[c].sie = 1
  BY <1>1, <1>on, Zenon DEF RunsOn, Process, HoldsTicks, HoldsSelf, Leaves, Interruptible
<1> DEFINE k == cpu[c]
           r == [th[p] EXCEPT !.at = "return"]
<1>3. k \in CpuType /\ k.proc = p /\ k = cpu[c]
  BY <1>1, <1>2, <1>on, Zenon DEF RunsOn
<1>4. r \in ThreadType /\ r.at = "return" /\ r.trap = "no"
  BY <1>1, <1>2, <1>on, HartsAssumption DEF RunsOn, ThreadType, Ats, Traps
<1>5. cpu' = [cpu EXCEPT ![c] = k] /\ th' = [th EXCEPT ![p] = r]
  BY <1>1, <1>2, Update, Zenon DEF kill, Goto, Trap, At
<1>. HIDE DEF k, r
<1>6. ProcessEffect(c, p) /\ lock'[p] = lock[p] /\ lock'[tickslock] = lock[tickslock] /\ state'[p] = state[p]
  BY <1>1, <1>2, Tables, LockNames, Zenon DEF kill, Free, ProcessEffect
<1>7. Process(k, r, state'[p])
  BY <1>1, <1>2, <1>3, <1>4, <1>6, <1>on, Zenon DEF RunsOn, Process, HoldsTicks, HoldsSelf, Leaves, Interruptible, SchedulerAts
<1>8. (lock'[tickslock] = c <=> HoldsTicks(r)) /\ (lock'[p] = c <=> HoldsSelf(r))
  BY <1>2, <1>4, <1>6, Numbers, Zenon DEF HoldsTicks, HoldsSelf
<1>9. ThreadMoves(p, r)
  BY <1>1, <1>4, <1>5, <1>on, Update, Zenon DEF RunsOn
<1>. QED  BY <1>1, <1>3, <1>4, <1>5, <1>6, <1>7, <1>8, <1>9, ProcessMoves, Zenon

\* The end of a system call.
LEMMA ReturnKeeps == ASSUME Parts, NEW c \in CPUs, Return(c) PROVE Parts' /\ Local(c)
<1>1. PICK p \in Procs : p = cpu[c].proc /\ th[p].trap = "no" /\ th[p].at = "return"
  BY WhoIsAt, Zenon DEF Return, At, SchedulerAts
<1>on. RunsOn(c, p)
  BY <1>1, ProcessOn, Zenon
<1>2. Running(c) = p /\ cpu[c].noff = 0 /\ lock[p] # c /\ lock[tickslock] # c /\ state[p] = "RUNNING" /\ cpu[c].sie = 1
  BY <1>1, <1>on, Zenon DEF RunsOn, Process, HoldsTicks, HoldsSelf, Leaves, Interruptible
<1> DEFINE k == cpu[c]
           r == [th[p] EXCEPT !.at = IF p \in killed THEN "exit" ELSE "user"]
<1>3. k \in CpuType /\ k.proc = p /\ k = cpu[c]
  BY <1>1, <1>2, <1>on, Zenon DEF RunsOn
<1>4. r \in ThreadType /\ r.at \in {"exit", "user"} /\ r.trap = "no"
  BY <1>1, <1>2, <1>on, HartsAssumption DEF RunsOn, ThreadType, Ats, Traps
<1>5. cpu' = [cpu EXCEPT ![c] = k] /\ th' = [th EXCEPT ![p] = r]
  BY <1>1, <1>2, Update, Zenon DEF Return, Goto, Trap, At
<1>. HIDE DEF k, r
<1>6. ProcessEffect(c, p) /\ lock'[p] = lock[p] /\ lock'[tickslock] = lock[tickslock] /\ state'[p] = state[p]
  <2>1. lock' = lock /\ state' = state /\ killed' = killed
    BY Zenon DEF Return
  <2>. QED  BY <2>1, NoEffect, Zenon
<1>7. Process(k, r, state'[p])
  BY <1>1, <1>2, <1>3, <1>4, <1>6, <1>on, Zenon DEF RunsOn, Process, HoldsTicks, HoldsSelf, Leaves, Interruptible, SchedulerAts
<1>8. (lock'[tickslock] = c <=> HoldsTicks(r)) /\ (lock'[p] = c <=> HoldsSelf(r))
  BY <1>2, <1>4, <1>6, Numbers, Zenon DEF HoldsTicks, HoldsSelf
<1>9. ThreadMoves(p, r)
  BY <1>1, <1>4, <1>5, <1>on, Update, Zenon DEF RunsOn
<1>. QED  BY <1>1, <1>3, <1>4, <1>5, <1>6, <1>7, <1>8, <1>9, ProcessMoves, Zenon

\* exit(): take p->lock and become a zombie.
LEMMA ExitKeeps == ASSUME Parts, NEW c \in CPUs, exit(c) PROVE Parts' /\ Local(c)
<1>1. PICK p \in Procs : p = cpu[c].proc /\ th[p].trap = "no" /\ th[p].at = "exit"
  BY WhoIsAt, Zenon DEF exit, At, SchedulerAts
<1>on. RunsOn(c, p)
  BY <1>1, ProcessOn, Zenon
<1>2. Running(c) = p /\ cpu[c].noff = 0 /\ lock[p] # c /\ lock[tickslock] # c /\ state[p] = "RUNNING" /\ Free(p)
  <2>1. Free(p)
    BY <1>1, Zenon DEF exit, acquire
  <2>. QED  BY <1>1, <1>on, <2>1, Zenon DEF RunsOn, Process, HoldsTicks, HoldsSelf, Leaves
<1> DEFINE k == push_off(cpu[c])
           r == [th[p] EXCEPT !.at = "gone"]
<1>3. k \in CpuType /\ k.proc = p /\ k.noff = 1 /\ k.sie = 0
  BY <1>1, <1>2, <1>on, PushPop, Zenon DEF RunsOn
<1>4. r \in ThreadType /\ r.at = "gone" /\ r.trap = "no"
  BY <1>1, <1>2, <1>on, HartsAssumption DEF RunsOn, ThreadType, Ats, Traps
<1>5. cpu' = [cpu EXCEPT ![c] = k] /\ th' = [th EXCEPT ![p] = r]
  BY <1>1, <1>2, Update, Zenon DEF exit, Goto, Trap, acquire, Free, At
<1>. HIDE DEF k, r
<1>6. ProcessEffect(c, p) /\ lock'[p] = c /\ lock'[tickslock] = lock[tickslock] /\ state'[p] = "ZOMBIE"
  <2>1. lock' = [lock EXCEPT ![p] = c] /\ state' = [state EXCEPT ![p] = "ZOMBIE"] /\ killed' = killed /\ lock[p] \in {c, None}
    BY <1>1, <1>2, Zenon DEF exit, acquire, Free
  <2>. QED  BY <2>1, MoveEffect, Zenon
<1>7. Process(k, r, state'[p])
  BY <1>1, <1>2, <1>3, <1>4, <1>6, <1>on, Zenon DEF RunsOn, Process, HoldsTicks, HoldsSelf, Leaves, Interruptible, SchedulerAts
<1>8. (lock'[tickslock] = c <=> HoldsTicks(r)) /\ (lock'[p] = c <=> HoldsSelf(r))
  BY <1>2, <1>4, <1>6, Numbers, Zenon DEF HoldsTicks, HoldsSelf
<1>9. ThreadMoves(p, r)
  BY <1>1, <1>4, <1>5, <1>on, Update, Zenon DEF RunsOn
<1>. QED  BY <1>1, <1>3, <1>4, <1>5, <1>6, <1>7, <1>8, <1>9, ProcessMoves, Zenon

\* sys_sleep() takes tickslock.
LEMMA SysSleepKeeps == ASSUME Parts, NEW c \in CPUs, SysSleep(c) PROVE Parts' /\ Local(c)
<1>1. PICK p \in Procs : p = cpu[c].proc /\ th[p].trap = "no" /\ th[p].at = "sys_sleep"
  BY WhoIsAt, Zenon DEF SysSleep, At, SchedulerAts
<1>on. RunsOn(c, p)
  BY <1>1, ProcessOn, Zenon
<1>2. Running(c) = p /\ cpu[c].noff = 0 /\ lock[p] # c /\ lock[tickslock] # c /\ state[p] = "RUNNING" /\ cpu[c].sie = 1 /\ lock[tickslock] = None
  <2>1. lock[tickslock] = None
    BY <1>1, Zenon DEF SysSleep, acquire, Free
  <2>. QED  BY <1>1, <1>on, <2>1, Zenon DEF RunsOn, Process, HoldsTicks, HoldsSelf, Leaves, Interruptible
<1> DEFINE k == push_off(cpu[c])
           r == [th[p] EXCEPT !.at = "test", !.passed = 0]
<1>3. k \in CpuType /\ k.proc = p /\ k.noff = 1 /\ k.sie = 0 /\ k.intena = 1
  BY <1>1, <1>2, <1>on, PushPop, Zenon DEF RunsOn
<1>4. r \in ThreadType /\ r.at = "test" /\ r.trap = "no"
  <2>1. th[p] \in ThreadType
    BY <1>1, <1>on, Zenon DEF RunsOn
  <2>2. "test" \in Ats /\ 0 \in 0 .. MaxN
    BY HartsAssumption DEF Ats, Traps
  <2>3. r \in ThreadType
    BY <2>1, <2>2, ThreadFields, Zenon
  <2>. QED  BY <1>1, <2>1, <2>3, Zenon DEF ThreadType
<1>5. cpu' = [cpu EXCEPT ![c] = k] /\ th' = [th EXCEPT ![p] = r]
  BY <1>1, <1>2, Update, Zenon DEF SysSleep, Goto, Trap, acquire, Free, At
<1>. HIDE DEF k, r
<1>6. ProcessEffect(c, p) /\ lock'[p] = lock[p] /\ lock'[tickslock] = c /\ state'[p] = state[p]
  <2>1. lock' = [lock EXCEPT ![tickslock] = c] /\ state' = state /\ killed' = killed /\ lock[tickslock] \in {c, None}
    BY <1>1, <1>2, Zenon DEF SysSleep, acquire, Free
  <2>. QED  BY <2>1, LockEffect, LockNames, Zenon
<1>7. Process(k, r, state'[p])
  BY <1>1, <1>2, <1>3, <1>4, <1>6, <1>on, Zenon DEF RunsOn, Process, HoldsTicks, HoldsSelf, Leaves, Interruptible, SchedulerAts
<1>8. (lock'[tickslock] = c <=> HoldsTicks(r)) /\ (lock'[p] = c <=> HoldsSelf(r))
  BY <1>2, <1>4, <1>6, Numbers, Zenon DEF HoldsTicks, HoldsSelf
<1>9. ThreadMoves(p, r)
  BY <1>1, <1>4, <1>5, <1>on, Update, Zenon DEF RunsOn
<1>. QED  BY <1>1, <1>3, <1>4, <1>5, <1>6, <1>7, <1>8, <1>9, ProcessMoves, Zenon

\* sys_sleep() returns.
LEMMA SleptKeeps == ASSUME Parts, NEW c \in CPUs, Slept(c) PROVE Parts' /\ Local(c)
<1>1. PICK p \in Procs : p = cpu[c].proc /\ th[p].trap = "no" /\ th[p].at = "test"
  BY WhoIsAt, Zenon DEF Slept, At, SchedulerAts
<1>on. RunsOn(c, p)
  BY <1>1, ProcessOn, Zenon
<1>2. Running(c) = p /\ cpu[c].noff = 1 /\ lock[p] # c /\ lock[tickslock] = c /\ state[p] = "RUNNING" /\ cpu[c].intena = 1
  BY <1>1, <1>on, Zenon DEF RunsOn, Process, HoldsTicks, HoldsSelf, Leaves
<1> DEFINE k == pop_off(cpu[c])
           r == [th[p] EXCEPT !.at = "return", !.n = 0, !.passed = 0]
<1>3. k \in CpuType /\ k.proc = p /\ k.noff = 0 /\ k.sie = 1
  BY <1>1, <1>2, <1>on, PushPop, Zenon DEF RunsOn
<1>4. r \in ThreadType /\ r.at = "return" /\ r.trap = "no"
  <2>1. th[p] \in ThreadType
    BY <1>1, <1>on, Zenon DEF RunsOn
  <2>2. "return" \in Ats /\ 0 \in 0 .. MaxN + 1 /\ 0 \in 0 .. MaxN
    BY HartsAssumption DEF Ats, Traps
  <2>3. r \in ThreadType
    BY <2>1, <2>2, ThreadFields, Zenon
  <2>. QED  BY <1>1, <2>1, <2>3, Zenon DEF ThreadType
<1>5. cpu' = [cpu EXCEPT ![c] = k] /\ th' = [th EXCEPT ![p] = r]
  BY <1>1, <1>2, Update, Zenon DEF Slept, Goto, Trap, release, At
<1>. HIDE DEF k, r
<1>6. ProcessEffect(c, p) /\ lock'[p] = lock[p] /\ lock'[tickslock] = None /\ state'[p] = state[p]
  <2>1. lock' = [lock EXCEPT ![tickslock] = None] /\ state' = state /\ killed' = killed /\ lock[tickslock] \in {c, None}
    BY <1>1, <1>2, Zenon DEF Slept, release
  <2>. QED  BY <2>1, LockEffect, LockNames, Zenon
<1>7. Process(k, r, state'[p])
  BY <1>1, <1>2, <1>3, <1>4, <1>6, <1>on, Zenon DEF RunsOn, Process, HoldsTicks, HoldsSelf, Leaves, Interruptible, SchedulerAts
<1>8. (lock'[tickslock] = c <=> HoldsTicks(r)) /\ (lock'[p] = c <=> HoldsSelf(r))
  BY <1>2, <1>4, <1>6, Numbers, Zenon DEF HoldsTicks, HoldsSelf
<1>9. ThreadMoves(p, r)
  BY <1>1, <1>4, <1>5, <1>on, Update, Zenon DEF RunsOn
<1>. QED  BY <1>1, <1>3, <1>4, <1>5, <1>6, <1>7, <1>8, <1>9, ProcessMoves, Zenon

\* sys_sleep() is to sleep, and calls sleep().
LEMMA CallSleepKeeps == ASSUME Parts, NEW c \in CPUs, CallSleep(c) PROVE Parts' /\ Local(c)
<1>1. PICK p \in Procs : p = cpu[c].proc /\ th[p].trap = "no" /\ th[p].at = "test"
  BY WhoIsAt, Zenon DEF CallSleep, At, SchedulerAts
<1>on. RunsOn(c, p)
  BY <1>1, ProcessOn, Zenon
<1>2. Running(c) = p /\ cpu[c].noff = 1 /\ lock[p] # c /\ lock[tickslock] = c /\ state[p] = "RUNNING" /\ cpu[c].intena = 1
  BY <1>1, <1>on, Zenon DEF RunsOn, Process, HoldsTicks, HoldsSelf, Leaves
<1> DEFINE k == cpu[c]
           r == [th[p] EXCEPT !.at = "entering"]
<1>3. k \in CpuType /\ k.proc = p /\ k = cpu[c]
  BY <1>1, <1>2, <1>on, Zenon DEF RunsOn
<1>4. r \in ThreadType /\ r.at = "entering" /\ r.trap = "no"
  BY <1>1, <1>2, <1>on, HartsAssumption, Zenon DEF RunsOn, ThreadType, Ats, Traps
<1>5. cpu' = [cpu EXCEPT ![c] = k] /\ th' = [th EXCEPT ![p] = r]
  BY <1>1, <1>2, Update, Zenon DEF CallSleep, Goto, Trap, At
<1>. HIDE DEF k, r
<1>6. ProcessEffect(c, p) /\ lock'[p] = lock[p] /\ lock'[tickslock] = lock[tickslock] /\ state'[p] = state[p]
  <2>1. lock' = lock /\ state' = state /\ killed' = killed
    BY Zenon DEF CallSleep
  <2>. QED  BY <2>1, NoEffect, Zenon
<1>7. Process(k, r, state'[p])
  BY <1>1, <1>2, <1>3, <1>4, <1>6, <1>on, Zenon DEF RunsOn, Process, HoldsTicks, HoldsSelf, Leaves, Interruptible, SchedulerAts
<1>8. (lock'[tickslock] = c <=> HoldsTicks(r)) /\ (lock'[p] = c <=> HoldsSelf(r))
  BY <1>2, <1>4, <1>6, Numbers, Zenon DEF HoldsTicks, HoldsSelf
<1>9. ThreadMoves(p, r)
  BY <1>1, <1>4, <1>5, <1>on, Update, Zenon DEF RunsOn
<1>. QED  BY <1>1, <1>3, <1>4, <1>5, <1>6, <1>7, <1>8, <1>9, ProcessMoves, Zenon

\* sleep(): take p->lock, release tickslock.
LEMMA SleepKeeps == ASSUME Parts, NEW c \in CPUs, Sleep(c) PROVE Parts' /\ Local(c)
<1>1. PICK p \in Procs : p = cpu[c].proc /\ th[p].trap = "no" /\ th[p].at = "entering"
  BY WhoIsAt, Zenon DEF Sleep, At, SchedulerAts
<1>on. RunsOn(c, p)
  BY <1>1, ProcessOn, Zenon
<1>2. Running(c) = p /\ cpu[c].noff = 1 /\ lock[p] # c /\ lock[tickslock] = c /\ state[p] = "RUNNING" /\ cpu[c].intena = 1 /\ lock[p] = None
  <2>1. lock[p] = None
    BY <1>1, Zenon DEF Sleep, Free
  <2>. QED  BY <1>1, <1>on, <2>1, Zenon DEF RunsOn, Process, HoldsTicks, HoldsSelf, Leaves
<1> DEFINE k == pop_off(push_off(cpu[c]))
           r == [th[p] EXCEPT !.at = "sleep"]
<1>3. k \in CpuType /\ k.proc = p /\ k.noff = 1 /\ k.sie = 0 /\ k.intena = 1
  BY <1>1, <1>2, <1>on, NestedLocks, Zenon DEF RunsOn
<1>4. r \in ThreadType /\ r.at = "sleep" /\ r.trap = "no"
  BY <1>1, <1>2, <1>on, HartsAssumption, Zenon DEF RunsOn, ThreadType, Ats, Traps
<1>5. cpu' = [cpu EXCEPT ![c] = k] /\ th' = [th EXCEPT ![p] = r]
  BY <1>1, <1>2, Update, Zenon DEF Sleep, Goto, Trap, At
<1>. HIDE DEF k, r
<1>6. ProcessEffect(c, p) /\ lock'[p] = c /\ lock'[tickslock] = None /\ state'[p] = "SLEEPING"
  <2>1. p # tickslock /\ p \in Locks /\ tickslock \in Locks /\ tickslock \notin Procs /\ Procs \subseteq Locks
    BY <1>1, <1>on, Numbers, Zenon DEF RunsOn
  <2>2. lock \in [Locks -> CPUs \cup {None}] /\ state \in [Procs -> {"RUNNABLE", "RUNNING", "SLEEPING", "ZOMBIE"}] /\ killed \subseteq Procs
    BY Zenon DEF Parts, Types
  <2>3. lock' = [lock EXCEPT ![p] = c, ![tickslock] = None] /\ state' = [state EXCEPT ![p] = "SLEEPING"] /\ killed' = killed
    BY <1>1, Zenon DEF Sleep
  <2>. QED  BY <1>2, <2>1, <2>2, <2>3, Zenon DEF ProcessEffect
<1>7. Process(k, r, state'[p])
  BY <1>1, <1>2, <1>3, <1>4, <1>6, <1>on, Zenon DEF RunsOn, Process, HoldsTicks, HoldsSelf, Leaves, Interruptible, SchedulerAts
<1>8. (lock'[tickslock] = c <=> HoldsTicks(r)) /\ (lock'[p] = c <=> HoldsSelf(r))
  BY <1>2, <1>4, <1>6, Numbers, Zenon DEF HoldsTicks, HoldsSelf
<1>9. ThreadMoves(p, r)
  BY <1>1, <1>4, <1>5, <1>on, Update, Zenon DEF RunsOn
<1>. QED  BY <1>1, <1>3, <1>4, <1>5, <1>6, <1>7, <1>8, <1>9, ProcessMoves, Zenon

\* sleep() goes on after sched(), with the interrupt flag it had.
LEMMA AwakeKeeps == ASSUME Parts, NEW c \in CPUs, Awake(c) PROVE Parts' /\ Local(c)
<1>1. PICK p \in Procs : p = cpu[c].proc /\ th[p].trap = "no" /\ th[p].at = "asleep"
  BY WhoIsAt, Zenon DEF Awake, At, SchedulerAts
<1>on. RunsOn(c, p)
  BY <1>1, ProcessOn, Zenon
<1>2. Running(c) = p /\ cpu[c].noff = 1 /\ lock[p] = c /\ lock[tickslock] # c /\ state[p] = "RUNNING" /\ th[p].saved = 1
  BY <1>1, <1>on, Zenon DEF RunsOn, Process, HoldsTicks, HoldsSelf, Leaves
<1> DEFINE k == Resumed(c, p)
           r == [th[p] EXCEPT !.at = "relock"]
<1>3. k \in CpuType /\ k.proc = p /\ k.noff = 0 /\ k.sie = 1
  BY <1>1, <1>2, <1>on, ResumedCPU, Zenon DEF RunsOn
<1>4. r \in ThreadType /\ r.at = "relock" /\ r.trap = "no"
  BY <1>1, <1>2, <1>on, HartsAssumption, Zenon DEF RunsOn, ThreadType, Ats, Traps
<1>5. cpu' = [cpu EXCEPT ![c] = k] /\ th' = [th EXCEPT ![p] = r]
  BY <1>1, <1>2, Update, Zenon DEF Awake, Goto, Trap, At
<1>. HIDE DEF k, r
<1>6. ProcessEffect(c, p) /\ lock'[p] = None /\ lock'[tickslock] = lock[tickslock] /\ state'[p] = state[p]
  <2>1. lock' = [lock EXCEPT ![p] = None] /\ state' = state /\ killed' = killed /\ lock[p] \in {c, None}
    BY <1>1, <1>2, Zenon DEF Awake
  <2>. QED  BY <2>1, LockEffect, LockNames, Zenon
<1>7. Process(k, r, state'[p])
  BY <1>1, <1>2, <1>3, <1>4, <1>6, <1>on, Zenon DEF RunsOn, Process, HoldsTicks, HoldsSelf, Leaves, Interruptible, SchedulerAts
<1>8. (lock'[tickslock] = c <=> HoldsTicks(r)) /\ (lock'[p] = c <=> HoldsSelf(r))
  BY <1>2, <1>4, <1>6, Numbers, Zenon DEF HoldsTicks, HoldsSelf
<1>9. ThreadMoves(p, r)
  BY <1>1, <1>4, <1>5, <1>on, Update, Zenon DEF RunsOn
<1>. QED  BY <1>1, <1>3, <1>4, <1>5, <1>6, <1>7, <1>8, <1>9, ProcessMoves, Zenon

\* sleep() takes tickslock again.
LEMMA RelockKeeps == ASSUME Parts, NEW c \in CPUs, Relock(c) PROVE Parts' /\ Local(c)
<1>1. PICK p \in Procs : p = cpu[c].proc /\ th[p].trap = "no" /\ th[p].at = "relock"
  BY WhoIsAt, Zenon DEF Relock, At, SchedulerAts
<1>on. RunsOn(c, p)
  BY <1>1, ProcessOn, Zenon
<1>2. Running(c) = p /\ cpu[c].noff = 0 /\ lock[p] # c /\ lock[tickslock] # c /\ state[p] = "RUNNING" /\ cpu[c].sie = 1 /\ lock[tickslock] = None
  <2>1. lock[tickslock] = None
    BY <1>1, Zenon DEF Relock, acquire, Free
  <2>. QED  BY <1>1, <1>on, <2>1, Zenon DEF RunsOn, Process, HoldsTicks, HoldsSelf, Leaves, Interruptible
<1> DEFINE k == push_off(cpu[c])
           r == [th[p] EXCEPT !.at = "test"]
<1>3. k \in CpuType /\ k.proc = p /\ k.noff = 1 /\ k.sie = 0 /\ k.intena = 1
  BY <1>1, <1>2, <1>on, PushPop, Zenon DEF RunsOn
<1>4. r \in ThreadType /\ r.at = "test" /\ r.trap = "no"
  BY <1>1, <1>2, <1>on, HartsAssumption DEF RunsOn, ThreadType, Ats, Traps
<1>5. cpu' = [cpu EXCEPT ![c] = k] /\ th' = [th EXCEPT ![p] = r]
  BY <1>1, <1>2, Update, Zenon DEF Relock, Goto, Trap, acquire, Free, At
<1>. HIDE DEF k, r
<1>6. ProcessEffect(c, p) /\ lock'[p] = lock[p] /\ lock'[tickslock] = c /\ state'[p] = state[p]
  <2>1. lock' = [lock EXCEPT ![tickslock] = c] /\ state' = state /\ killed' = killed /\ lock[tickslock] \in {c, None}
    BY <1>1, <1>2, Zenon DEF Relock, acquire, Free
  <2>. QED  BY <2>1, LockEffect, LockNames, Zenon
<1>7. Process(k, r, state'[p])
  BY <1>1, <1>2, <1>3, <1>4, <1>6, <1>on, Zenon DEF RunsOn, Process, HoldsTicks, HoldsSelf, Leaves, Interruptible, SchedulerAts
<1>8. (lock'[tickslock] = c <=> HoldsTicks(r)) /\ (lock'[p] = c <=> HoldsSelf(r))
  BY <1>2, <1>4, <1>6, Numbers, Zenon DEF HoldsTicks, HoldsSelf
<1>9. ThreadMoves(p, r)
  BY <1>1, <1>4, <1>5, <1>on, Update, Zenon DEF RunsOn
<1>. QED  BY <1>1, <1>3, <1>4, <1>5, <1>6, <1>7, <1>8, <1>9, ProcessMoves, Zenon

\* usertrap() ends in exit() for a killed process.
LEMMA TrapExitKeeps == ASSUME Parts, NEW c \in CPUs, TrapExit(c) PROVE Parts' /\ Local(c)
<1>1. PICK p \in Procs : p = cpu[c].proc /\ th[p].trap = "handled" /\ th[p].at = "user"
  BY WhoIsAt, RunningThread, Zenon DEF TrapExit, InTrap, Parts, CpuPlaces, Preempts, SchedulerAts
<1>on. RunsOn(c, p)
  BY <1>1, ProcessOn, Zenon
<1>2. Running(c) = p /\ cpu[c].noff = 0 /\ lock[p] # c /\ lock[tickslock] # c /\ state[p] = "RUNNING" /\ cpu[c].sie = 0
  BY <1>1, <1>on DEF RunsOn, Process, HoldsTicks, HoldsSelf, Leaves, CpuType
<1> DEFINE k == cpu[c]
           r == [th[p] EXCEPT !.trap = "no", !.at = "exit"]
<1>3. k \in CpuType /\ k.proc = p /\ k = cpu[c]
  BY <1>1, <1>2, <1>on, Zenon DEF RunsOn
<1>4. r \in ThreadType /\ r.at = "exit" /\ r.trap = "no"
  <2>1. th[p] \in ThreadType
    BY <1>1, <1>on, Zenon DEF RunsOn
  <2>2. "no" \in Traps /\ "exit" \in Ats
    BY HartsAssumption, Zenon DEF Ats, Traps
  <2>3. r \in ThreadType
    BY <2>1, <2>2, ThreadFields, Zenon
  <2>. QED  BY <1>1, <2>1, <2>3, Zenon DEF ThreadType
<1>5. cpu' = [cpu EXCEPT ![c] = k] /\ th' = [th EXCEPT ![p] = r]
  BY <1>1, <1>2, Update, Zenon DEF TrapExit, Goto, Trap, At
<1>. HIDE DEF k, r
<1>6. ProcessEffect(c, p) /\ lock'[p] = lock[p] /\ lock'[tickslock] = lock[tickslock] /\ state'[p] = state[p]
  <2>1. lock' = lock /\ state' = state /\ killed' = killed
    BY Zenon DEF TrapExit
  <2>. QED  BY <2>1, NoEffect, Zenon
<1>7. Process(k, r, state'[p])
  BY <1>1, <1>2, <1>3, <1>4, <1>6, <1>on, Zenon DEF RunsOn, Process, HoldsTicks, HoldsSelf, Leaves, Interruptible, SchedulerAts
<1>8. (lock'[tickslock] = c <=> HoldsTicks(r)) /\ (lock'[p] = c <=> HoldsSelf(r))
  BY <1>2, <1>4, <1>6, Numbers, Zenon DEF HoldsTicks, HoldsSelf
<1>9. ThreadMoves(p, r)
  BY <1>1, <1>4, <1>5, <1>on, Update, Zenon DEF RunsOn
<1>. QED  BY <1>1, <1>3, <1>4, <1>5, <1>6, <1>7, <1>8, <1>9, ProcessMoves, Zenon

\* yield(): take p->lock.
LEMMA YieldKeeps == ASSUME Parts, NEW c \in CPUs, Yield(c) PROVE Parts' /\ Local(c)
<1>1. PICK p \in Procs : p = cpu[c].proc /\ th[p].trap = "handled"
  BY WhoIsAt, RunningThread, Zenon DEF Yield, InTrap, Parts, CpuPlaces, Preempts
<1>on. RunsOn(c, p)
  BY <1>1, ProcessOn, Zenon
<1>2. Running(c) = p /\ cpu[c].noff = 0 /\ lock[p] # c /\ lock[tickslock] # c /\ state[p] = "RUNNING" /\ cpu[c].sie = 0 /\ Free(p)
  <2>1. Free(p)
    BY <1>1, Zenon DEF Yield, acquire
  <2>. QED  BY <1>1, <1>on, <2>1 DEF RunsOn, Process, HoldsTicks, HoldsSelf, Leaves, CpuType
<1> DEFINE k == push_off(cpu[c])
           r == [th[p] EXCEPT !.trap = "yield"]
<1>3. k \in CpuType /\ k.proc = p /\ k.noff = 1 /\ k.sie = 0 /\ k.intena = 0
  BY <1>1, <1>2, <1>on, PushPop, Zenon DEF RunsOn
<1>4. r \in ThreadType /\ r.at = th[p].at /\ r.trap = "yield"
  BY <1>1, <1>2, <1>on, HartsAssumption, Zenon DEF RunsOn, ThreadType, Ats, Traps
<1>5. cpu' = [cpu EXCEPT ![c] = k] /\ th' = [th EXCEPT ![p] = r]
  BY <1>1, <1>2, Update, Zenon DEF Yield, Goto, Trap, acquire, Free, At
<1>. HIDE DEF k, r
<1>6. ProcessEffect(c, p) /\ lock'[p] = c /\ lock'[tickslock] = lock[tickslock] /\ state'[p] = "RUNNABLE"
  <2>1. lock' = [lock EXCEPT ![p] = c] /\ state' = [state EXCEPT ![p] = "RUNNABLE"] /\ killed' = killed /\ lock[p] \in {c, None}
    BY <1>1, <1>2, Zenon DEF Yield, acquire, Free
  <2>. QED  BY <2>1, MoveEffect, Zenon
<1>7. Process(k, r, state'[p])
  BY <1>1, <1>2, <1>3, <1>4, <1>6, <1>on, Zenon DEF RunsOn, Process, HoldsTicks, HoldsSelf, Leaves, Interruptible, SchedulerAts
<1>8. (lock'[tickslock] = c <=> HoldsTicks(r)) /\ (lock'[p] = c <=> HoldsSelf(r))
  BY <1>2, <1>4, <1>6, Numbers, Zenon DEF HoldsTicks, HoldsSelf
<1>9. ThreadMoves(p, r)
  BY <1>1, <1>4, <1>5, <1>on, Update, Zenon DEF RunsOn
<1>. QED  BY <1>1, <1>3, <1>4, <1>5, <1>6, <1>7, <1>8, <1>9, ProcessMoves, Zenon

\* yield() goes on after sched(), with interrupts off.
LEMMA YieldedKeeps == ASSUME Parts, NEW c \in CPUs, Yielded(c) PROVE Parts' /\ Local(c)
<1>1. PICK p \in Procs : p = cpu[c].proc /\ th[p].trap = "yielded"
  BY WhoIsAt, RunningThread, Zenon DEF Yielded, InTrap, Parts, CpuPlaces, Preempts
<1>on. RunsOn(c, p)
  BY <1>1, ProcessOn, Zenon
<1>2. Running(c) = p /\ cpu[c].noff = 1 /\ lock[p] = c /\ lock[tickslock] # c /\ state[p] = "RUNNING" /\ th[p].saved = 0
  BY <1>1, <1>on, Zenon DEF RunsOn, Process, HoldsTicks, HoldsSelf, Leaves
<1> DEFINE k == Resumed(c, p)
           r == [th[p] EXCEPT !.trap = "sret"]
<1>3. k \in CpuType /\ k.proc = p /\ k.noff = 0 /\ k.sie = 0
  BY <1>1, <1>2, <1>on, ResumedCPU, Zenon DEF RunsOn
<1>4. r \in ThreadType /\ r.at = th[p].at /\ r.trap = "sret"
  BY <1>1, <1>2, <1>on, HartsAssumption DEF RunsOn, ThreadType, Ats, Traps
<1>5. cpu' = [cpu EXCEPT ![c] = k] /\ th' = [th EXCEPT ![p] = r]
  BY <1>1, <1>2, Update, Zenon DEF Yielded, Goto, Trap, At
<1>. HIDE DEF k, r
<1>6. ProcessEffect(c, p) /\ lock'[p] = None /\ lock'[tickslock] = lock[tickslock] /\ state'[p] = state[p]
  <2>1. lock' = [lock EXCEPT ![p] = None] /\ state' = state /\ killed' = killed /\ lock[p] \in {c, None}
    BY <1>1, <1>2, Zenon DEF Yielded
  <2>. QED  BY <2>1, LockEffect, LockNames, Zenon
<1>7. Process(k, r, state'[p])
  BY <1>1, <1>2, <1>3, <1>4, <1>6, <1>on DEF RunsOn, Process, HoldsTicks, HoldsSelf, Leaves, Interruptible, SchedulerAts
<1>8. (lock'[tickslock] = c <=> HoldsTicks(r)) /\ (lock'[p] = c <=> HoldsSelf(r))
  BY <1>2, <1>4, <1>6, Numbers, Zenon DEF HoldsTicks, HoldsSelf
<1>9. ThreadMoves(p, r)
  BY <1>1, <1>4, <1>5, <1>on, Update, Zenon DEF RunsOn
<1>. QED  BY <1>1, <1>3, <1>4, <1>5, <1>6, <1>7, <1>8, <1>9, ProcessMoves, Zenon

\* An interrupt of a process: it held no lock, and it is at a place with interrupts on.
LEMMA InterruptProcess == ASSUME Parts, NEW c \in CPUs, cpu[c].proc # 0, Interrupt(c) PROVE Parts' /\ Local(c)
<1>1. PICK p \in Procs : p = cpu[c].proc
  BY RunningThread, Zenon
<1>on. RunsOn(c, p)
  BY <1>1, ProcessOn, Zenon
<1>2. /\ Running(c) = p /\ cpu[c].sie = 1 /\ cpu[c].noff = 0 /\ th[p].trap = "no"
      /\ lock[p] # c /\ lock[tickslock] # c /\ ~HoldsTicks(th[p]) /\ ~HoldsSelf(th[p])
  <2>1. /\ Running(c) = p /\ cpu[c].sie = 1 /\ Process(cpu[c], th[p], state[p])
        /\ (lock[tickslock] = c <=> HoldsTicks(th[p])) /\ (lock[p] = c <=> HoldsSelf(th[p]))
    BY <1>on, Zenon DEF RunsOn, Interrupt
  <2>2. cpu[c].noff = 0 /\ th[p].trap = "no" /\ cpu[c].noff = IF HoldsTicks(th[p]) \/ HoldsSelf(th[p]) THEN 1 ELSE 0
    BY <2>1, Zenon DEF Process
  <2>3. ~HoldsTicks(th[p]) /\ ~HoldsSelf(th[p])
    <3>1. 0 # 1
      OBVIOUS
    <3>. QED  BY <2>2, <3>1, Zenon
  <2>. QED  BY <2>1, <2>2, <2>3, Zenon
<1>3. th[p].at \in Interruptible /\ th[p].at # "wfi" /\ state[p] = "RUNNING"
  BY <1>1, <1>2, <1>on, Zenon DEF RunsOn, Process, HoldsTicks, HoldsSelf, Leaves, ThreadType, Ats, Interruptible, SchedulerAts
<1> DEFINE t == IF c = 0 THEN "clockintr" ELSE "handled"
           k == [cpu[c] EXCEPT !.sie = 0]
           r == [th[p] EXCEPT !.trap = t, !.at = th[p].at]
<1>4. k \in CpuType /\ k.proc = p /\ k.noff = 0 /\ k.sie = 0
  BY <1>1, <1>2, <1>on, Zenon DEF RunsOn, CpuType
<1>5. t \in {"clockintr", "handled"} /\ t \in Traps /\ th[p].at \in Ats
  BY <1>1, <1>on, Zenon DEF RunsOn, Traps, ThreadType
<1>6. th' = [th EXCEPT ![p] = r] /\ cpu' = [cpu EXCEPT ![c] = k]
  <2>1. cpu' = [cpu EXCEPT ![c] = k]
    BY Zenon DEF Interrupt
  <2>2. th' = [th EXCEPT ![Running(c)] = [th[Running(c)] EXCEPT !.trap = t, !.at = IF th[Running(c)].at = "wfi" THEN "scheduler" ELSE th[Running(c)].at]]
    BY Zenon DEF Interrupt
  <2>. QED  BY <1>2, <1>3, <2>1, <2>2, Zenon
<1>. HIDE DEF t
<1>7. r \in ThreadType
  <2>1. th[p] \in ThreadType
    BY <1>1, <1>on, Zenon DEF RunsOn
  <2>. QED  BY <1>5, <2>1, ThreadFields, Zenon
<1>8. r.trap = t /\ r.at = th[p].at
  BY <1>1, <1>on, Zenon DEF RunsOn, ThreadType
<1>. HIDE DEF k, r
<1>9. ProcessEffect(c, p) /\ UNCHANGED <<lock, state>>
  BY Zenon DEF Interrupt, ProcessEffect, Parts, Types
<1>10. Process(k, r, state'[p])
  BY <1>3, <1>4, <1>5, <1>8, <1>9 DEF Process, HoldsTicks, HoldsSelf, Leaves, Interruptible, SchedulerAts
<1>11. (lock'[tickslock] = c <=> HoldsTicks(r)) /\ (lock'[p] = c <=> HoldsSelf(r))
  BY <1>2, <1>5, <1>8, <1>9, Zenon DEF HoldsTicks, HoldsSelf
<1>12. ThreadMoves(p, r)
  BY <1>1, <1>6, <1>7, <1>on, Update, Zenon DEF RunsOn
<1>. QED  BY <1>1, <1>4, <1>6, <1>7, <1>9, <1>10, <1>11, <1>12, ProcessMoves, Zenon

\* An interrupt of the scheduler, which ends its wfi.
LEMMA InterruptScheduler == ASSUME Parts, NEW c \in CPUs, cpu[c].proc = 0, Interrupt(c) PROVE Parts' /\ Local(c)
<1>1. /\ Running(c) = -c /\ cpu[c].sie = 1 /\ cpu[c].noff = 0 /\ th[-c].trap = "no" /\ th[-c].at # "back"
      /\ lock[tickslock] # c /\ \A p \in Procs : lock[p] # c
  BY SchedulerRuns DEF Interrupt, Scheduler
<1> DEFINE t == IF c = 0 THEN "clockintr" ELSE "handled"
           a == IF th[-c].at = "wfi" THEN "scheduler" ELSE th[-c].at
           k == [cpu[c] EXCEPT !.sie = 0]
           x == [th[-c] EXCEPT !.trap = t, !.at = a]
<1>2. k \in CpuType /\ k.proc = 0 /\ k.noff = 0 /\ k.sie = 0
  BY <1>1, SchedulerRuns DEF CpuType
<1>3. t \in {"clockintr", "handled"} /\ t \in Traps /\ a \in Ats /\ a \in SchedulerAts /\ a # "back"
  BY <1>1, SchedulerRuns, Zenon DEF Traps, Ats, Scheduler, SchedulerAts
<1>4. th' = [th EXCEPT ![-c] = x] /\ cpu' = [cpu EXCEPT ![c] = k]
  <2>1. cpu' = [cpu EXCEPT ![c] = k]
    BY Zenon DEF Interrupt
  <2>2. th' = [th EXCEPT ![Running(c)] = [th[Running(c)] EXCEPT !.trap = t, !.at = IF th[Running(c)].at = "wfi" THEN "scheduler" ELSE th[Running(c)].at]]
    BY Zenon DEF Interrupt
  <2>. QED  BY <1>1, <2>1, <2>2, Zenon
<1>. HIDE DEF t, a
<1>5. x \in ThreadType
  <2>1. th[-c] \in ThreadType
    BY SchedulerRuns
  <2>. QED  BY <1>3, <2>1, ThreadFields, Zenon
<1>6. x.trap = t /\ x.at = a
  BY SchedulerRuns DEF ThreadType
<1>. HIDE DEF k, x
<1>7. SchedulerEffect(c) /\ UNCHANGED lock
  BY Zenon DEF Interrupt, SchedulerEffect, Parts, Types
<1>8. Scheduler(k, x)
  BY <1>2, <1>3, <1>6 DEF Scheduler
<1>9. (lock'[tickslock] = c <=> x.trap = "wakeup") /\ \A p \in Procs : lock'[p] = c <=> x.at = "back" /\ x.i = p
  BY <1>1, <1>3, <1>6, <1>7, Zenon
<1>10. ThreadMoves(-c, x)
  BY <1>4, <1>5, SchedulerRuns, Update, Zenon
<1>. QED  BY <1>2, <1>4, <1>5, <1>7, <1>8, <1>9, <1>10, SchedulerMoves, Zenon

\* clockintr() counts a tick under tickslock: for a process ...
LEMMA ClockProcess == ASSUME Parts, NEW c \in CPUs, cpu[c].proc # 0, clockintr(c) PROVE Parts' /\ Local(c)
<1>0. /\ th[Running(c)].trap = "clockintr" /\ lock[tickslock] = None /\ lock' = [lock EXCEPT ![tickslock] = c]
      /\ UNCHANGED <<state, killed>>
  BY Zenon DEF clockintr, InTrap, acquire, Free
<1>1. PICK p \in Procs : p = cpu[c].proc
  BY RunningThread, Zenon
<1>on. RunsOn(c, p)
  BY <1>1, ProcessOn, Zenon
<1>2. /\ Running(c) = p /\ cpu[c].noff = 0 /\ th[p].trap = "clockintr" /\ cpu[c].sie = 0
      /\ lock[p] # c /\ lock[tickslock] = None /\ state[p] = "RUNNING" /\ th[p].at \in Interruptible
  <2>1. Running(c) = p /\ th[p].trap = "clockintr" /\ lock[tickslock] = None
    BY <1>0, <1>on, Zenon DEF RunsOn
  <2>. QED  BY <1>1, <1>on, <2>1 DEF RunsOn, Process, HoldsTicks, HoldsSelf, Leaves, CpuType
<1> DEFINE k == push_off(cpu[c])
           r == [Tick(th[p]) EXCEPT !.trap = "wakeup", !.w = 1]
<1>3. k \in CpuType /\ k.proc = p /\ k.noff = 1 /\ k.sie = 0 /\ k.intena = 0
  BY <1>1, <1>2, <1>on, PushPop, Zenon DEF RunsOn
<1>4. r \in ThreadType /\ r.trap = "wakeup" /\ r.at = th[p].at
  <2>1. Tick(th[p]) \in ThreadType /\ Tick(th[p]).at = th[p].at
    BY <1>1, <1>on, TickKeeps, Zenon DEF RunsOn
  <2>2. "wakeup" \in Traps /\ 1 \in 1 .. NPROC + 1
    BY HartsAssumption DEF Traps
  <2>3. r \in ThreadType
    BY <2>1, <2>2, ThreadFields, Zenon
  <2>. QED  BY <2>1, <2>3, Zenon DEF ThreadType
<1>5. cpu' = [cpu EXCEPT ![c] = k]
  BY Zenon DEF clockintr, acquire
<1>6. ThreadMoves(p, r)
  <2>1. th' = [y \in Threads |-> IF y = p THEN r ELSE Tick(th[y])]
    BY <1>2, Zenon DEF clockintr
  <2>2. \A y \in Threads : th[y] \in ThreadType
    BY Zenon DEF Parts, Types
  <2>. HIDE DEF r
  <2>. QED  BY <1>1, <1>4, <2>1, <2>2, <1>on, TickKeeps, Zenon DEF RunsOn, ThreadMoves, Same
<1>. HIDE DEF k, r
<1>7. ProcessEffect(c, p) /\ lock'[p] = lock[p] /\ lock'[tickslock] = c /\ state'[p] = state[p]
  <2>1. lock' = [lock EXCEPT ![tickslock] = c] /\ state' = state /\ killed' = killed /\ lock[tickslock] \in {c, None}
    BY <1>0, <1>2, Zenon
  <2>. QED  BY <2>1, LockEffect, LockNames, Zenon
<1>8. Process(k, r, state'[p])
  BY <1>2, <1>3, <1>4, <1>7 DEF Process, HoldsTicks, HoldsSelf, Leaves, Interruptible, SchedulerAts
<1>9. (lock'[tickslock] = c <=> HoldsTicks(r)) /\ (lock'[p] = c <=> HoldsSelf(r))
  BY <1>2, <1>4, <1>7, Zenon DEF HoldsTicks, HoldsSelf
<1>. QED  BY <1>1, <1>3, <1>4, <1>5, <1>6, <1>7, <1>8, <1>9, ProcessMoves, Zenon

\* ... and over the scheduler.
LEMMA ClockScheduler == ASSUME Parts, NEW c \in CPUs, cpu[c].proc = 0, clockintr(c) PROVE Parts' /\ Local(c)
<1>0. /\ th[Running(c)].trap = "clockintr" /\ lock[tickslock] = None /\ lock' = [lock EXCEPT ![tickslock] = c]
      /\ UNCHANGED <<state, killed>>
  BY Zenon DEF clockintr, InTrap, acquire, Free
<1>1. /\ Running(c) = -c /\ cpu[c].noff = 0 /\ th[-c].trap = "clockintr" /\ cpu[c].sie = 0 /\ th[-c].at # "back"
      /\ lock[tickslock] = None /\ \A p \in Procs : lock[p] # c
  BY <1>0, SchedulerRuns DEF Scheduler, CpuType
<1> DEFINE k == push_off(cpu[c])
           x == [Tick(th[-c]) EXCEPT !.trap = "wakeup", !.w = 1]
<1>2. k \in CpuType /\ k.proc = 0 /\ k.noff = 1 /\ k.sie = 0 /\ k.intena = 0
  BY <1>1, SchedulerRuns, PushPop, Zenon
<1>3. x \in ThreadType /\ x.trap = "wakeup" /\ x.at = th[-c].at
  <2>1. Tick(th[-c]) \in ThreadType /\ Tick(th[-c]).at = th[-c].at
    BY SchedulerRuns, TickKeeps, Zenon
  <2>2. "wakeup" \in Traps /\ 1 \in 1 .. NPROC + 1
    BY HartsAssumption DEF Traps
  <2>3. x \in ThreadType
    BY <2>1, <2>2, ThreadFields, Zenon
  <2>. QED  BY <2>1, <2>3, Zenon DEF ThreadType
<1>4. cpu' = [cpu EXCEPT ![c] = k]
  BY Zenon DEF clockintr, acquire
<1>5. ThreadMoves(-c, x)
  <2>1. th' = [y \in Threads |-> IF y = -c THEN x ELSE Tick(th[y])]
    BY <1>1, Zenon DEF clockintr
  <2>2. \A y \in Threads : th[y] \in ThreadType
    BY Zenon DEF Parts, Types
  <2>. HIDE DEF x
  <2>. QED  BY <1>3, <2>1, <2>2, SchedulerRuns, TickKeeps, Zenon DEF ThreadMoves, Same
<1>. HIDE DEF k, x
<1>6. SchedulerEffect(c) /\ lock'[tickslock] = c /\ \A p \in Procs : lock'[p] = lock[p]
  BY <1>0, <1>1, Numbers, Zenon DEF SchedulerEffect, Parts, Types
<1>7. Scheduler(k, x)
  BY <1>1, <1>2, <1>3, SchedulerRuns DEF Scheduler
<1>8. (lock'[tickslock] = c <=> x.trap = "wakeup") /\ \A p \in Procs : lock'[p] = c <=> x.at = "back" /\ x.i = p
  BY <1>1, <1>3, <1>6, Zenon
<1>. QED  BY <1>2, <1>3, <1>4, <1>5, <1>6, <1>7, <1>8, SchedulerMoves, Zenon

\* wakeup() makes sleepers RUNNABLE, one after the other: over a process ...
LEMMA WakeupProcess == ASSUME Parts, NEW c \in CPUs, cpu[c].proc # 0, Wakeup(c) PROVE Parts' /\ Local(c)
<1>1. PICK p \in Procs : p = cpu[c].proc
  BY RunningThread, Zenon
<1>on. RunsOn(c, p)
  BY <1>1, ProcessOn, Zenon
<1>2. /\ Running(c) = p /\ th[p].trap = "wakeup" /\ lock[p] # c /\ lock[tickslock] = c /\ state[p] = "RUNNING"
  BY <1>1, <1>on, Zenon DEF RunsOn, Wakeup, InTrap, Process, HoldsTicks, HoldsSelf, Leaves
<1> DEFINE q == th[p].w
           r == [th[p] EXCEPT !.w = q + 1]
<1>3. /\ q \in Procs /\ lock[q] = None /\ UNCHANGED <<cpu, lock, killed>>
      /\ state' = [state EXCEPT ![q] = IF state[q] = "SLEEPING" THEN "RUNNABLE" ELSE state[q]]
      /\ th' = [th EXCEPT ![p] = r]
  BY <1>2, Zenon DEF Wakeup, Free
<1>4. r \in ThreadType /\ r.trap = th[p].trap /\ r.at = th[p].at /\ r.saved = th[p].saved
  <2>1. th[p] \in ThreadType
    BY <1>1, <1>on, Zenon DEF RunsOn
  <2>2. q + 1 \in 1 .. NPROC + 1
    BY <1>3, HartsAssumption DEF Procs
  <2>. HIDE DEF q
  <2>3. r \in ThreadType
    BY <2>1, <2>2, ThreadFields, Zenon
  <2>. QED  BY <2>1, <2>3, Zenon DEF ThreadType
<1>. HIDE DEF q, r
<1>5. ProcessEffect(c, p) /\ state'[p] = state[p]
  BY <1>2, <1>3, Tables, LockNames, Zenon DEF ProcessEffect
<1>6. Process(cpu[c], r, state'[p])
  <2>1. Process(cpu[c], th[p], state[p])
    BY <1>1, <1>on, Zenon DEF RunsOn
  <2>. QED  BY <1>4, <1>5, <2>1, Zenon DEF Process, HoldsTicks, HoldsSelf, Leaves
<1>7. (lock'[tickslock] = c <=> HoldsTicks(r)) /\ (lock'[p] = c <=> HoldsSelf(r))
  BY <1>2, <1>3, <1>4, Zenon DEF HoldsTicks, HoldsSelf
<1>8. ThreadMoves(p, r) /\ cpu' = [cpu EXCEPT ![c] = cpu[c]]
  BY <1>1, <1>3, <1>4, <1>on, Update, Zenon DEF RunsOn
<1>9. cpu[c] \in CpuType /\ cpu[c].proc = p
  BY <1>1, <1>on, Zenon DEF RunsOn
<1>. QED  BY <1>4, <1>5, <1>6, <1>7, <1>8, <1>9, ProcessMoves, Zenon

\* ... and over the scheduler.
LEMMA WakeupScheduler == ASSUME Parts, NEW c \in CPUs, cpu[c].proc = 0, Wakeup(c) PROVE Parts' /\ Local(c)
<1>1. /\ Running(c) = -c /\ th[-c].trap = "wakeup" /\ lock[tickslock] = c /\ th[-c].at # "back" /\ \A p \in Procs : lock[p] # c
  BY SchedulerRuns DEF Wakeup, InTrap, Scheduler
<1> DEFINE q == th[-c].w
           x == [th[-c] EXCEPT !.w = q + 1]
<1>2. /\ q \in Procs /\ lock[q] = None /\ UNCHANGED <<cpu, lock, killed>>
      /\ state' = [state EXCEPT ![q] = IF state[q] = "SLEEPING" THEN "RUNNABLE" ELSE state[q]]
      /\ th' = [th EXCEPT ![-c] = x]
  BY <1>1, Zenon DEF Wakeup, Free
<1>3. x \in ThreadType /\ x.trap = th[-c].trap /\ x.at = th[-c].at
  <2>1. th[-c] \in ThreadType
    BY SchedulerRuns
  <2>2. q + 1 \in 1 .. NPROC + 1
    BY <1>2, HartsAssumption DEF Procs
  <2>. HIDE DEF q
  <2>3. x \in ThreadType
    BY <2>1, <2>2, ThreadFields, Zenon
  <2>. QED  BY <2>1, <2>3, Zenon DEF ThreadType
<1>. HIDE DEF q, x
<1>4. SchedulerEffect(c)
  BY <1>1, <1>2, Zenon DEF SchedulerEffect, Parts, Types
<1>5. Scheduler(cpu[c], x)
  BY <1>3, SchedulerRuns DEF Scheduler
<1>6. (lock'[tickslock] = c <=> x.trap = "wakeup") /\ \A p \in Procs : lock'[p] = c <=> x.at = "back" /\ x.i = p
  BY <1>1, <1>2, <1>3, Zenon
<1>7. ThreadMoves(-c, x) /\ cpu' = [cpu EXCEPT ![c] = cpu[c]] /\ cpu[c] \in CpuType
  BY <1>2, <1>3, SchedulerRuns, Update, Zenon
<1>. QED  BY <1>3, <1>4, <1>5, <1>6, <1>7, SchedulerMoves, Zenon


\* The end of wakeup(): clockintr() releases tickslock.
LEMMA WakeupDoneProcess == ASSUME Parts, NEW c \in CPUs, cpu[c].proc # 0, WakeupDone(c) PROVE Parts' /\ Local(c)
<1>1. PICK p \in Procs : p = cpu[c].proc
  BY RunningThread, Zenon
<1>2. /\ Running(c) = p /\ th[p].trap = "wakeup" /\ lock[p] # c /\ lock[tickslock] = c /\ state[p] = "RUNNING"
      /\ cpu[c].noff = 1 /\ cpu[c].intena = 0 /\ th[p].at \in Interruptible
  BY <1>1, ProcessRuns DEF WakeupDone, InTrap, Process, HoldsTicks, HoldsSelf, Leaves
<1> DEFINE k == pop_off(cpu[c])
           r == [th[p] EXCEPT !.trap = "handled", !.w = 1]
<1>3. k \in CpuType /\ k.proc = p /\ k.noff = 0 /\ k.sie = 0
  BY <1>1, <1>2, ProcessRuns, PushPop
<1>4. r \in ThreadType /\ r.trap = "handled" /\ r.at = th[p].at
  <2>1. th[p] \in ThreadType
    BY <1>1, ProcessRuns
  <2>2. "handled" \in Traps /\ 1 \in 1 .. NPROC + 1
    BY HartsAssumption DEF Traps
  <2>3. r \in ThreadType
    BY <2>1, <2>2, ThreadFields, Zenon
  <2>. QED  BY <2>1, <2>3, Zenon DEF ThreadType
<1>5. cpu' = [cpu EXCEPT ![c] = k] /\ th' = [th EXCEPT ![p] = r] /\ lock' = [lock EXCEPT ![tickslock] = None] /\ UNCHANGED <<state, killed>>
  BY <1>2, Zenon DEF WakeupDone, release
<1>. HIDE DEF k, r
<1>6. ProcessEffect(c, p) /\ lock'[p] = lock[p] /\ lock'[tickslock] = None /\ state'[p] = state[p]
  <2>1. p # tickslock /\ p \in Locks /\ tickslock \in Locks /\ tickslock \notin Procs /\ Procs \subseteq Locks
    BY <1>1, ProcessRuns, Numbers, Zenon
  <2>2. lock \in [Locks -> CPUs \cup {None}] /\ state \in [Procs -> {"RUNNABLE", "RUNNING", "SLEEPING", "ZOMBIE"}] /\ killed \subseteq Procs
    BY Zenon DEF Parts, Types
  <2>3. lock'[tickslock] = None /\ lock' \in [Locks -> CPUs \cup {None}] /\ \A q \in Procs : lock'[q] = lock[q]
    BY <1>5, <2>1, <2>2, Zenon
  <2>4. lock[tickslock] = c
    BY <1>1, <1>2, ProcessRuns, Zenon
  <2>. QED  BY <1>5, <2>1, <2>2, <2>3, <2>4, Zenon DEF ProcessEffect
<1>7. Process(k, r, state'[p])
  BY <1>2, <1>3, <1>4, <1>6 DEF Process, HoldsTicks, HoldsSelf, Leaves, Interruptible, SchedulerAts
<1>8. (lock'[tickslock] = c <=> HoldsTicks(r)) /\ (lock'[p] = c <=> HoldsSelf(r))
  BY <1>2, <1>4, <1>6, Numbers, Zenon DEF HoldsTicks, HoldsSelf
<1>9. ThreadMoves(p, r)
  BY <1>1, <1>4, <1>5, ProcessRuns, Update, Zenon
<1>. QED  BY <1>1, <1>3, <1>4, <1>5, <1>6, <1>7, <1>8, <1>9, ProcessMoves, Zenon

\* The same over the scheduler.
LEMMA WakeupDoneScheduler == ASSUME Parts, NEW c \in CPUs, cpu[c].proc = 0, WakeupDone(c) PROVE Parts' /\ Local(c)
<1>1. /\ Running(c) = -c /\ th[-c].trap = "wakeup" /\ lock[tickslock] = c /\ th[-c].at # "back"
      /\ cpu[c].noff = 1 /\ cpu[c].intena = 0 /\ \A p \in Procs : lock[p] # c
  BY SchedulerRuns DEF WakeupDone, InTrap, Scheduler
<1> DEFINE k == pop_off(cpu[c])
           x == [th[-c] EXCEPT !.trap = "handled", !.w = 1]
<1>2. k \in CpuType /\ k.proc = 0 /\ k.noff = 0 /\ k.sie = 0
  BY <1>1, SchedulerRuns, PushPop, Zenon
<1>3. x \in ThreadType /\ x.trap = "handled" /\ x.at = th[-c].at
  <2>1. th[-c] \in ThreadType
    BY SchedulerRuns, Zenon
  <2>2. "handled" \in Traps /\ 1 \in 1 .. NPROC + 1
    BY HartsAssumption DEF Traps
  <2>3. x \in ThreadType
    BY <2>1, <2>2, ThreadFields, Zenon
  <2>. QED  BY <2>1, <2>3, Zenon DEF ThreadType
<1>4. cpu' = [cpu EXCEPT ![c] = k] /\ th' = [th EXCEPT ![-c] = x] /\ lock' = [lock EXCEPT ![tickslock] = None] /\ UNCHANGED <<state, killed>>
  BY <1>1, Zenon DEF WakeupDone, release
<1>. HIDE DEF k, x
<1>5. SchedulerEffect(c) /\ lock'[tickslock] = None /\ \A p \in Procs : lock'[p] = lock[p]
  BY <1>1, <1>4, Numbers, Zenon DEF SchedulerEffect, Parts, Types
<1>6. Scheduler(k, x)
  BY <1>1, <1>2, <1>3, SchedulerRuns DEF Scheduler
<1>7. (lock'[tickslock] = c <=> x.trap = "wakeup") /\ \A p \in Procs : lock'[p] = c <=> x.at = "back" /\ x.i = p
  BY <1>1, <1>3, <1>5, Numbers, Zenon
<1>8. ThreadMoves(-c, x)
  BY <1>3, <1>4, SchedulerRuns, Update, Zenon
<1>. QED  BY <1>2, <1>3, <1>4, <1>5, <1>6, <1>7, <1>8, SchedulerMoves, Zenon

\* sret: the interrupted code goes on with interrupts on.
LEMMA SretProcess == ASSUME Parts, NEW c \in CPUs, cpu[c].proc # 0, Sret(c) PROVE Parts' /\ Local(c)
<1>1. PICK p \in Procs : p = cpu[c].proc
  BY RunningThread, Zenon
<1>2. /\ Running(c) = p /\ th[p].trap = "sret" /\ lock[p] # c /\ lock[tickslock] # c /\ state[p] = "RUNNING"
      /\ cpu[c].noff = 0 /\ th[p].at \in Interruptible
  BY <1>1, ProcessRuns DEF Sret, InTrap, Process, HoldsTicks, HoldsSelf, Leaves
<1> DEFINE k == [cpu[c] EXCEPT !.sie = 1]
           r == [th[p] EXCEPT !.trap = "no"]
<1>3. k \in CpuType /\ k.proc = p /\ k.noff = 0 /\ k.sie = 1
  BY <1>1, <1>2, ProcessRuns DEF CpuType
<1>4. r \in ThreadType /\ r.trap = "no" /\ r.at = th[p].at
  BY <1>1, ProcessRuns DEF ThreadType, Traps
<1>5. cpu' = [cpu EXCEPT ![c] = k] /\ th' = [th EXCEPT ![p] = r] /\ UNCHANGED <<lock, state, killed>>
  BY <1>2, Zenon DEF Sret, Trap
<1>. HIDE DEF k, r
<1>6. ProcessEffect(c, p)
  BY <1>5, Zenon DEF ProcessEffect, Parts, Types
<1>7. Process(k, r, state'[p])
  BY <1>2, <1>3, <1>4, <1>5, Zenon DEF Process, HoldsTicks, HoldsSelf, Leaves, Interruptible, SchedulerAts
<1>8. (lock'[tickslock] = c <=> HoldsTicks(r)) /\ (lock'[p] = c <=> HoldsSelf(r))
  BY <1>2, <1>4, <1>5, Zenon DEF HoldsTicks, HoldsSelf, Interruptible
<1>9. ThreadMoves(p, r)
  BY <1>1, <1>4, <1>5, ProcessRuns, Update, Zenon
<1>. QED  BY <1>1, <1>3, <1>4, <1>5, <1>6, <1>7, <1>8, <1>9, ProcessMoves, Zenon

\* The same of a scheduler that was interrupted.
LEMMA SretScheduler == ASSUME Parts, NEW c \in CPUs, cpu[c].proc = 0, Sret(c) PROVE Parts' /\ Local(c)
<1>1. /\ Running(c) = -c /\ th[-c].trap = "handled" /\ lock[tickslock] # c /\ th[-c].at # "back"
      /\ cpu[c].noff = 0 /\ \A p \in Procs : lock[p] # c
  BY SchedulerRuns DEF Sret, InTrap, Scheduler
<1> DEFINE k == [cpu[c] EXCEPT !.sie = 1]
           x == [th[-c] EXCEPT !.trap = "no"]
<1>2. k \in CpuType /\ k.proc = 0 /\ k.noff = 0 /\ k.sie = 1
  BY <1>1, SchedulerRuns DEF CpuType
<1>3. x \in ThreadType /\ x.trap = "no" /\ x.at = th[-c].at
  BY SchedulerRuns DEF ThreadType, Traps
<1>4. cpu' = [cpu EXCEPT ![c] = k] /\ th' = [th EXCEPT ![-c] = x] /\ UNCHANGED <<lock, state, killed>>
  BY <1>1, Zenon DEF Sret, Trap
<1>. HIDE DEF k, x
<1>5. SchedulerEffect(c)
  BY <1>4, Zenon DEF SchedulerEffect, Parts, Types
<1>6. Scheduler(k, x)
  BY <1>1, <1>2, <1>3, SchedulerRuns, Zenon DEF Scheduler
<1>7. (lock'[tickslock] = c <=> x.trap = "wakeup") /\ \A p \in Procs : lock'[p] = c <=> x.at = "back" /\ x.i = p
  BY <1>1, <1>3, <1>4, Zenon
<1>8. ThreadMoves(-c, x)
  BY <1>3, <1>4, SchedulerRuns, Update, Zenon
<1>. QED  BY <1>2, <1>3, <1>4, <1>5, <1>6, <1>7, <1>8, SchedulerMoves, Zenon

\* The scheduler at the top of its loop.
LEMMA TopKeeps == ASSUME Parts, NEW c \in CPUs, Top(c) PROVE Parts' /\ Local(c)
<1>1. cpu[c].proc = 0 /\ th[-c].at = "scheduler" /\ th[-c].trap = "no" /\ Running(c) = -c
  BY WhoIsAt, Zenon DEF Top, At, SchedulerAts
<1>2. lock[tickslock] # c /\ cpu[c].noff = 0 /\ \A p \in Procs : lock[p] # c
  BY <1>1, SchedulerRuns DEF Scheduler
<1> DEFINE k == [cpu[c] EXCEPT !.sie = 1]
           x == [th[-c] EXCEPT !.at = "scan", !.i = 1, !.found = 0]
<1>3. k \in CpuType /\ k.proc = 0 /\ k.noff = 0 /\ k.sie = 1
  BY <1>1, <1>2, SchedulerRuns DEF CpuType
<1>4. x \in ThreadType /\ x.trap = "no" /\ x.at = "scan"
  <2>1. th[-c] \in ThreadType
    BY <1>1, SchedulerRuns, Zenon
  <2>2. "scan" \in Ats /\ 1 \in Procs /\ 0 \in 0 .. 1
    BY HartsAssumption DEF Ats, Procs
  <2>3. x \in ThreadType
    BY <2>1, <2>2, ThreadFields, Zenon
  <2>. QED  BY <1>1, <2>1, <2>3, Zenon DEF ThreadType
<1>5. cpu' = [cpu EXCEPT ![c] = k] /\ th' = [th EXCEPT ![-c] = x] /\ UNCHANGED <<lock, state, killed>>
  BY Zenon DEF Top
<1>. HIDE DEF k, x
<1>6. SchedulerEffect(c)
  BY <1>5, Zenon DEF SchedulerEffect, Parts, Types
<1>7. Scheduler(k, x)
  BY <1>3, <1>4, Zenon DEF Scheduler, SchedulerAts
<1>8. (lock'[tickslock] = c <=> x.trap = "wakeup") /\ \A p \in Procs : lock'[p] = c <=> x.at = "back" /\ x.i = p
  BY <1>2, <1>4, <1>5, Zenon
<1>9. ThreadMoves(-c, x)
  BY <1>1, <1>4, <1>5, SchedulerRuns, Update, Zenon
<1>. QED  BY <1>1, <1>3, <1>4, <1>5, <1>6, <1>7, <1>8, <1>9, SchedulerMoves, Zenon

\* The scan goes on after a process.
LEMMA AfterKeeps ==
  ASSUME NEW s \in ThreadType, NEW f \in 0 .. 1
  PROVE  /\ After(s, f) \in ThreadType /\ After(s, f).trap = s.trap
         /\ After(s, f).at \in {"scan", "scheduler", "wfi"}
<1>1. CASE s.i < NPROC
  <2>1. After(s, f) = [s EXCEPT !.at = "scan", !.i = s.i + 1, !.found = f]
    BY <1>1, Zenon DEF After
  <2>2. "scan" \in Ats /\ s.i + 1 \in Procs
    BY <1>1, HartsAssumption DEF Ats, Procs, ThreadType
  <2> DEFINE i == s.i + 1
  <2>. HIDE DEF i
  <2>3. [s EXCEPT !.at = "scan", !.i = i, !.found = f] \in ThreadType
    BY <2>2, ThreadFields, Zenon DEF i
  <2>. QED  BY <2>1, <2>3, Zenon DEF ThreadType, i
<1>2. CASE ~(s.i < NPROC)
  <2> DEFINE a == IF f = 1 THEN "scheduler" ELSE "wfi"
  <2>1. After(s, f) = [s EXCEPT !.at = a, !.found = 0, !.i = 1]
    BY <1>2, Zenon DEF After
  <2>2. a \in Ats /\ a \in {"scheduler", "wfi"} /\ 1 \in Procs /\ 0 \in 0 .. 1
    BY HartsAssumption DEF Ats, Procs
  <2>. HIDE DEF a
  <2>3. [s EXCEPT !.at = a, !.found = 0, !.i = 1] \in ThreadType
    <3>1. \A i \in Procs, g \in 0 .. 1 : [s EXCEPT !.at = a, !.found = g, !.i = i] \in ThreadType
      BY <2>2, ThreadFields, Zenon
    <3>. QED  BY <2>2, <3>1, Zenon
  <2>. QED  BY <2>1, <2>2, <2>3, Zenon DEF ThreadType
<1>. QED  BY <1>1, <1>2, Zenon

\* The scheduler passes over a process it cannot run.
LEMMA SkipKeeps == ASSUME Parts, NEW c \in CPUs, Skip(c) PROVE Parts' /\ Local(c)
<1>1. cpu[c].proc = 0 /\ th[-c].at = "scan" /\ th[-c].trap = "no" /\ Running(c) = -c
  BY WhoIsAt, Zenon DEF Skip, At, SchedulerAts
<1>2. lock[tickslock] # c /\ cpu[c].noff = 0 /\ (\A p \in Procs : lock[p] # c) /\ th[-c].found \in 0 .. 1
  BY <1>1, SchedulerRuns, Zenon DEF Scheduler, ThreadType
<1> DEFINE s == th[-c]
           e == IF s.i = NPROC /\ s.found = 0 THEN 1 ELSE cpu[c].sie
           k == [cpu[c] EXCEPT !.sie = e]
           x == After(s, s.found)
<1>3. cpu' = [cpu EXCEPT ![c] = k] /\ th' = [th EXCEPT ![-c] = x] /\ UNCHANGED <<lock, state, killed>>
  BY Zenon DEF Skip
<1>4. e \in 0 .. 1
  BY <1>1, SchedulerRuns DEF CpuType
<1>. HIDE DEF e
<1>5. k \in CpuType /\ k.proc = 0 /\ k.noff = 0
  BY <1>1, <1>2, <1>4, SchedulerRuns DEF CpuType
<1>6. x \in ThreadType /\ x.trap = "no" /\ x.at \in {"scan", "scheduler", "wfi"}
  BY <1>1, <1>2, SchedulerRuns, AfterKeeps
<1>. HIDE DEF k, x
<1>7. SchedulerEffect(c)
  BY <1>3, Zenon DEF SchedulerEffect, Parts, Types
<1>8. Scheduler(k, x)
  BY <1>5, <1>6, Zenon DEF Scheduler, SchedulerAts
<1>9. (lock'[tickslock] = c <=> x.trap = "wakeup") /\ \A p \in Procs : lock'[p] = c <=> x.at = "back" /\ x.i = p
  BY <1>2, <1>3, <1>6, Zenon
<1>10. ThreadMoves(-c, x)
  BY <1>1, <1>3, <1>6, SchedulerRuns, Update, Zenon
<1>. QED  BY <1>1, <1>3, <1>5, <1>6, <1>7, <1>8, <1>9, <1>10, SchedulerMoves, Zenon

\* The scheduler releases the lock of the process that has left.
LEMMA BackKeeps == ASSUME Parts, NEW c \in CPUs, Back(c) PROVE Parts' /\ Local(c)
<1>1. cpu[c].proc = 0 /\ th[-c].at = "back" /\ th[-c].trap = "no" /\ Running(c) = -c
  BY WhoIsAt, Zenon DEF Back, At, SchedulerAts
<1> DEFINE i == th[-c].i
           k == pop_off(cpu[c])
           x == After(th[-c], 1)
<1>2. /\ lock[tickslock] # c /\ cpu[c].noff = 1 /\ i \in Procs
      /\ \A p \in Procs : lock[p] = c <=> i = p
  BY <1>1, SchedulerRuns DEF Scheduler
<1>3. /\ cpu' = [cpu EXCEPT ![c] = k] /\ th' = [th EXCEPT ![-c] = x] /\ lock' = [lock EXCEPT ![i] = None]
      /\ UNCHANGED <<state, killed>>
  BY Zenon DEF Back, release
<1>4. k \in CpuType /\ k.proc = 0 /\ k.noff = 0
  BY <1>1, <1>2, SchedulerRuns, PushPop, Zenon
<1>5. x \in ThreadType /\ x.trap = "no" /\ x.at \in {"scan", "scheduler", "wfi"}
  BY <1>1, SchedulerRuns, AfterKeeps
<1>. HIDE DEF k, x, i
<1>6. SchedulerEffect(c) /\ lock'[tickslock] # c /\ \A p \in Procs : lock'[p] # c
  BY <1>2, <1>3, Numbers, Zenon DEF SchedulerEffect, Parts, Types
<1>7. Scheduler(k, x)
  BY <1>4, <1>5, Zenon DEF Scheduler, SchedulerAts
<1>8. (lock'[tickslock] = c <=> x.trap = "wakeup") /\ \A p \in Procs : lock'[p] = c <=> x.at = "back" /\ x.i = p
  BY <1>5, <1>6, Zenon
<1>9. ThreadMoves(-c, x)
  BY <1>1, <1>3, <1>5, SchedulerRuns, Update, Zenon
<1>. QED  BY <1>1, <1>3, <1>4, <1>5, <1>6, <1>7, <1>8, <1>9, SchedulerMoves, Zenon

-----------------------------------------------------------------------------
(* swtch(): the CPU goes to another thread.                                *)

\* The process that a scheduler finds RUNNABLE, with its lock free, is on no CPU; it has
\* stopped in sched() or forkret(), where it expects its lock to be held.
LEMMA RunnableParked ==
  ASSUME Parts, NEW p \in Procs, lock[p] = None, state[p] = "RUNNABLE"
  PROVE  /\ ~On(p)
         /\ th[p].trap = "yielded" \/ (th[p].trap = "no" /\ th[p].at \in {"forkret", "asleep"})
<1>1. ~On(p)
  BY Unlocked, Zenon
<1>2. ProcState(p)
  BY Zenon DEF Parts
<1>. QED  BY <1>1, <1>2, Zenon DEF ProcState

\* scheduler() switches to a process.
LEMMA RunKeeps == ASSUME Parts, NEW c \in CPUs, Run(c) PROVE Parts' /\ Local(c)
<1>1. cpu[c].proc = 0 /\ th[-c].at = "scan" /\ th[-c].trap = "no" /\ Running(c) = -c
  BY WhoIsAt, Zenon DEF Run, At, SchedulerAts
<1>2. PICK i \in Procs : i = th[-c].i /\ lock[i] = None /\ state[i] = "RUNNABLE"
  BY <1>1, SchedulerRuns, Zenon DEF Run, Free
<1>3. /\ lock[tickslock] # c /\ cpu[c].noff = 0 /\ \A p \in Procs : lock[p] # c
  BY <1>1, SchedulerRuns, Zenon DEF Scheduler
<1>4. /\ ~On(i) /\ i \in Threads /\ i # -c /\ i # 0 /\ i \in Locks /\ i # tickslock
      /\ th[i].trap = "yielded" \/ (th[i].trap = "no" /\ th[i].at \in {"forkret", "asleep"})
  BY <1>2, RunnableParked, Numbers, Zenon
<1> DEFINE h == push_off(cpu[c])
           k == [h EXCEPT !.proc = i]
           x == [th[-c] EXCEPT !.at = "back"]
<1>5. /\ cpu' = [cpu EXCEPT ![c] = k] /\ th' = [th EXCEPT ![-c] = x] /\ lock' = [lock EXCEPT ![i] = c]
      /\ state' = [state EXCEPT ![i] = "RUNNING"] /\ UNCHANGED killed
  BY <1>2, Zenon DEF Run
<1>6. k \in CpuType /\ k.proc = i /\ k.noff = 1 /\ k.sie = 0
  <2>1. h \in CpuType /\ h.noff = 1 /\ h.sie = 0
    BY <1>1, <1>3, SchedulerRuns, PushPop, Zenon
  <2>. HIDE DEF h
  <2>. QED  BY <2>1, Zenon DEF CpuType
<1>7. x \in ThreadType /\ x.at = "back" /\ x.trap = "no" /\ x.i = i
  BY <1>1, <1>2, SchedulerRuns DEF ThreadType, Ats
<1>. HIDE DEF h, k, x
<1>8. /\ cpu' \in [CPUs -> CpuType] /\ cpu'[c] = k /\ \A d \in CPUs \ {c} : cpu'[d] = cpu[d]
  BY <1>5, <1>6, Update, Zenon
<1>9. /\ th' \in [Threads -> ThreadType] /\ th'[-c] = x /\ \A y \in Threads \ {-c} : Same(y)
  BY <1>1, <1>5, <1>7, SchedulerRuns, Update, Zenon DEF ThreadMoves
<1>10. /\ lock'[i] = c /\ \A l \in Locks \ {i} : lock'[l] = lock[l]
       /\ state'[i] = "RUNNING" /\ \A p \in Procs \ {i} : state'[p] = state[p]
  BY <1>4, <1>5, Zenon DEF Parts, Types
<1>11. Types'
  BY <1>4, <1>5, <1>8, <1>9, Zenon DEF Parts, Types
<1>12. Running(c)' = i /\ \A d \in CPUs \ {c} : Running(d)' = Running(d)
  BY <1>4, <1>6, <1>8, Zenon DEF Running
<1>13. On(i)' /\ \A p \in Procs \ {i} : On(p)' <=> On(p)
  BY <1>1, <1>6, <1>8, Numbers, Zenon DEF On
<1>14. OneCPU'
  BY <1>4, <1>6, <1>8 DEF OneCPU, Parts, On
<1>15. Same(i)
  BY <1>4, <1>9, Zenon
<1>16. CpuLocks(c)'
  <2>1. HoldsSelf(th[i])' /\ ~HoldsTicks(th[i])'
    BY <1>4, <1>15, Zenon DEF HoldsSelf, HoldsTicks, Same
  <2>2. HoldsProc(c)'
    BY <1>6, <1>7, <1>8, <1>9, <2>1, Zenon DEF HoldsProc
  <2>3. lock'[tickslock] # c /\ \A p \in Procs \ {i} : lock'[p] # c
    BY <1>3, <1>4, <1>10, Numbers, Zenon
  <2>. QED  BY <1>6, <1>7, <1>8, <1>9, <1>10, <1>12, <2>1, <2>2, <2>3, Zenon DEF CpuLocks
<1>17. CpuFlags(c)'
  BY <1>4, <1>6, <1>8, <1>12, <1>15 DEF CpuFlags, Same, Interruptible
<1>18. CpuPlaces(c)'
  BY <1>6, <1>7, <1>8, <1>9, Zenon DEF CpuPlaces, SchedulerAts
<1>19. ASSUME NEW d \in CPUs \ {c} PROVE (CpuLocks(d) /\ CpuFlags(d) /\ CpuPlaces(d))'
  <2>1. Running(d) \in Threads /\ Running(d) # -c /\ -d \in Threads /\ -d # -c
    BY <1>1, RunningThread, Numbers, Zenon
  <2>2. Same(Running(d)) /\ Same(-d) /\ cpu'[d] = cpu[d] /\ Running(d)' = Running(d)
    BY <1>8, <1>9, <1>12, <2>1, Zenon
  <2>3. HoldsTicks(th[Running(d)])' <=> HoldsTicks(th[Running(d)])
    BY <2>2, Zenon DEF HoldsTicks, Same
  <2>4. HoldsProc(d)' <=> HoldsProc(d)
    <3>1. cpu[d].proc # 0 => Running(d) = cpu[d].proc
      BY RunningThread, Zenon
    <3>. QED  BY <2>2, <3>1, Zenon DEF HoldsProc, HoldsSelf, Same
  <2>5. \A l \in Locks : lock'[l] = d <=> lock[l] = d
    BY <1>2, <1>4, <1>10, Numbers, Zenon
  <2>6. CpuLocks(d)'
    <3>1. th'[-d].i = th[-d].i /\ CpuLocks(d)
      BY <2>2, Zenon DEF Parts, Same
    <3>2. tickslock \in Locks /\ Procs \subseteq Locks
      BY Numbers, Zenon
    <3>. QED  BY <2>2, <2>3, <2>4, <2>5, <3>1, <3>2, Zenon DEF CpuLocks
  <2>7. CpuFlags(d)'
    BY <2>2, Zenon DEF Parts, CpuFlags, Same
  <2>8. CpuPlaces(d)'
    BY <2>2, Zenon DEF Parts, CpuPlaces, Same
  <2>. QED  BY <2>6, <2>7, <2>8, Zenon
<1>20. ASSUME NEW p \in Procs PROVE (ProcPlaces(p) /\ ProcState(p))'
  <2>1. Same(p) /\ ProcPlaces(p) /\ ProcState(p)
    BY <1>9, Numbers, Zenon DEF Parts
  <2>2. ProcPlaces(p)'
    BY <2>1, Zenon DEF ProcPlaces, Same
  <2>3. CASE p = i
    BY <1>4, <1>10, <1>13, <2>1, <2>2, <2>3, Zenon DEF ProcState, Same
  <2>4. CASE p # i
    BY <1>10, <1>13, <2>1, <2>2, <2>4, Zenon DEF ProcState, Same, Leaves
  <2>. QED  BY <2>2, <2>3, <2>4, Zenon
<1>21. Local(c)
  BY <1>1, <1>8, <1>9, Zenon DEF Local
<1>. QED  BY <1>11, <1>14, <1>16, <1>17, <1>18, <1>19, <1>20, <1>21, Zenon DEF Parts

\* sched() switches back, with the process parked at r.
LEMMA SchedKeeps ==
  ASSUME Parts, NEW c \in CPUs, NEW p \in Procs, cpu[c].proc = p, Leaves(th[p]),
         NEW r \in ThreadType, th' = [th EXCEPT ![p] = r], cpu' = [cpu EXCEPT ![c].proc = 0],
         UNCHANGED <<lock, state, killed>>,
         r.at \notin SchedulerAts, r.trap # "no" => r.at \in Interruptible,
         r.trap = "yielded" => r.saved = 0, r.trap = "no" /\ r.at = "asleep" => r.saved = 1,
         r.trap = "yielded" \/ (r.trap = "no" /\ r.at \in {"asleep", "gone"}),
         state[p] = "SLEEPING" => r.trap = "no" /\ r.at = "asleep",
         r.trap = "no" /\ r.at = "gone" => state[p] = "ZOMBIE"
  PROVE  Parts' /\ Local(c)
<1>1. /\ p \in Threads /\ Running(c) = p /\ p # -c /\ p # 0 /\ p \in Locks /\ p # tickslock
      /\ th[-c].at = "back" /\ th[-c].i = p /\ th[-c].trap = "no" /\ cpu[c] \in CpuType
  BY ProcessRuns
<1>2. /\ lock[tickslock] # c /\ lock[p] = c /\ cpu[c].noff = 1 /\ cpu[c].sie = 0 /\ state[p] # "RUNNING"
  BY ProcessRuns DEF Process, HoldsTicks, HoldsSelf, Leaves, CpuType
<1> DEFINE k == [cpu[c] EXCEPT !.proc = 0]
<1>3. k \in CpuType /\ k.proc = 0 /\ k.noff = 1 /\ k.sie = 0
  BY <1>1, <1>2, Zenon DEF CpuType
<1>4. cpu' = [cpu EXCEPT ![c] = k]
  BY Zenon
<1>. HIDE DEF k
<1>5. /\ cpu' \in [CPUs -> CpuType] /\ cpu'[c] = k /\ \A d \in CPUs \ {c} : cpu'[d] = cpu[d]
  BY <1>3, <1>4, Update, Zenon
<1>6. /\ th' \in [Threads -> ThreadType] /\ th'[p] = r /\ \A y \in Threads \ {p} : Same(y)
  BY <1>1, Update, Zenon DEF ThreadMoves
<1>7. Types'
  BY <1>5, <1>6, Zenon DEF Parts, Types
<1>8. Running(c)' = -c /\ \A d \in CPUs \ {c} : Running(d)' = Running(d)
  BY <1>3, <1>5, Zenon DEF Running
<1>9. ~On(p)' /\ \A q \in Procs \ {p} : On(q)' <=> On(q)
  BY <1>1, <1>3, <1>5, Numbers DEF On, Parts, OneCPU
<1>10. OneCPU'
  BY <1>3, <1>5, Zenon DEF OneCPU, Parts
<1>11. Same(-c)
  BY <1>1, <1>6, Numbers, Zenon
<1>12. CpuLocks(c)'
  <2>1. HoldsProc(c)' /\ ~HoldsTicks(th[-c])'
    BY <1>1, <1>3, <1>5, <1>11, Zenon DEF HoldsProc, HoldsTicks, Same
  <2>2. \A q \in Procs \ {p} : lock[q] # c
    BY <1>1, Zenon DEF Parts, CpuLocks
  <2>. QED  BY <1>1, <1>2, <1>3, <1>5, <1>8, <1>11, <2>1, <2>2 DEF CpuLocks, Same
<1>13. CpuFlags(c)'
  BY <1>1, <1>3, <1>5, <1>8, <1>11, Zenon DEF CpuFlags, Same, Interruptible
<1>14. CpuPlaces(c)'
  BY <1>1, <1>3, <1>5, <1>11, Zenon DEF CpuPlaces, SchedulerAts, Same
<1>15. ASSUME NEW d \in CPUs \ {c} PROVE (CpuLocks(d) /\ CpuFlags(d) /\ CpuPlaces(d))'
  <2>1. Running(d) \in Threads /\ Running(d) # p /\ -d \in Threads /\ -d # p
    BY <1>1, RunningThread, Numbers, Zenon
  <2>2. Same(Running(d)) /\ Same(-d) /\ cpu'[d] = cpu[d] /\ Running(d)' = Running(d)
    BY <1>5, <1>6, <1>8, <2>1, Zenon
  <2>3. HoldsTicks(th[Running(d)])' <=> HoldsTicks(th[Running(d)])
    BY <2>2, Zenon DEF HoldsTicks, Same
  <2>4. HoldsProc(d)' <=> HoldsProc(d)
    <3>1. cpu[d].proc # 0 => Running(d) = cpu[d].proc
      BY RunningThread, Zenon
    <3>. QED  BY <2>2, <3>1 DEF HoldsProc, HoldsSelf, Same
  <2>5. CpuLocks(d)'
    BY <2>2, <2>3, <2>4, Numbers DEF Parts, CpuLocks, Same
  <2>6. CpuFlags(d)'
    BY <2>2 DEF Parts, CpuFlags, Same
  <2>7. CpuPlaces(d)'
    BY <2>2 DEF Parts, CpuPlaces, Same
  <2>. QED  BY <2>5, <2>6, <2>7, Zenon
<1>16. (ProcPlaces(p) /\ ProcState(p))'
  BY <1>2, <1>6, <1>9, Zenon DEF ProcPlaces, ProcState
<1>17. ASSUME NEW q \in Procs \ {p} PROVE (ProcPlaces(q) /\ ProcState(q))'
  <2>1. Same(q) /\ ProcPlaces(q) /\ ProcState(q)
    BY <1>6, Numbers, Zenon DEF Parts
  <2>. QED  BY <1>9, <2>1, Zenon DEF ProcPlaces, ProcState, Same, Leaves
<1>18. Local(c)
  BY <1>1, <1>5, <1>6, Zenon DEF Local
<1>. QED  BY <1>7, <1>10, <1>12, <1>13, <1>14, <1>15, <1>16, <1>17, <1>18, Zenon DEF Parts

\* sleep() has switched away.
LEMMA SleepSchedKeeps == ASSUME Parts, NEW c \in CPUs, SleepSched(c) PROVE Parts' /\ Local(c)
<1>1. PICK p \in Procs : p = cpu[c].proc /\ th[p].trap = "no" /\ th[p].at = "sleep"
  BY WhoIsAt, Zenon DEF SleepSched, At, SchedulerAts
<1>2. cpu[c].intena = 1 /\ state[p] = "SLEEPING" /\ th[p] \in ThreadType /\ Leaves(th[p])
  BY <1>1, ProcessRuns, Zenon DEF Process, Leaves
<1> DEFINE r == [th[p] EXCEPT !.at = "asleep", !.trap = "no", !.saved = cpu[c].intena]
<1>3. th' = [th EXCEPT ![p] = r] /\ cpu' = [cpu EXCEPT ![c].proc = 0] /\ UNCHANGED <<lock, state, killed>>
  BY <1>1, Zenon DEF SleepSched, sched
<1>4. r \in ThreadType
  <2>1. "asleep" \in Ats /\ "no" \in Traps /\ cpu[c].intena \in 0 .. 1
    BY <1>2 DEF Ats, Traps
  <2>. QED  BY <1>2, <2>1, ThreadFields, Zenon
<1>5. r.at = "asleep" /\ r.trap = "no" /\ r.saved = 1
  BY <1>2, Zenon DEF ThreadType
<1>. HIDE DEF r
<1>. QED  BY <1>1, <1>2, <1>3, <1>4, <1>5, SchedKeeps, Zenon DEF SchedulerAts

\* exit() has switched away.
LEMMA GoneKeeps == ASSUME Parts, NEW c \in CPUs, Gone(c) PROVE Parts' /\ Local(c)
<1>1. PICK p \in Procs : p = cpu[c].proc /\ th[p].trap = "no" /\ th[p].at = "gone"
  BY WhoIsAt, Zenon DEF Gone, At, SchedulerAts
<1>2. cpu[c].intena \in 0 .. 1 /\ state[p] = "ZOMBIE" /\ th[p] \in ThreadType /\ Leaves(th[p])
  BY <1>1, ProcessRuns DEF Process, Leaves, CpuType
<1> DEFINE r == [th[p] EXCEPT !.at = "gone", !.trap = "no", !.saved = cpu[c].intena]
<1>3. th' = [th EXCEPT ![p] = r] /\ cpu' = [cpu EXCEPT ![c].proc = 0] /\ UNCHANGED <<lock, state, killed>>
  BY <1>1, Zenon DEF Gone, sched
<1>4. r \in ThreadType
  <2>1. "gone" \in Ats /\ "no" \in Traps
    BY Zenon DEF Ats, Traps
  <2>. QED  BY <1>2, <2>1, ThreadFields, Zenon
<1>5. r.at = "gone" /\ r.trap = "no"
  BY <1>2, Zenon DEF ThreadType
<1>. HIDE DEF r
<1>. QED  BY <1>1, <1>2, <1>3, <1>4, <1>5, SchedKeeps, Zenon DEF SchedulerAts

\* yield() has switched away.
LEMMA YieldSchedKeeps == ASSUME Parts, NEW c \in CPUs, YieldSched(c) PROVE Parts' /\ Local(c)
<1>1. cpu[c].proc # 0
  BY RunningThread, Zenon DEF YieldSched, InTrap, Parts, CpuPlaces
<1>2. PICK p \in Procs : p = cpu[c].proc
  BY <1>1, RunningThread, Zenon
<1>3. th[p].trap = "yield"
  BY <1>2, ProcessRuns DEF YieldSched, InTrap
<1>4. /\ cpu[c].intena = 0 /\ state[p] = "RUNNABLE" /\ th[p] \in ThreadType /\ Leaves(th[p])
      /\ th[p].at \in Interruptible /\ th[p].at \notin SchedulerAts
  BY <1>2, <1>3, ProcessRuns, Zenon DEF Process, Leaves
<1> DEFINE r == [th[p] EXCEPT !.at = th[p].at, !.trap = "yielded", !.saved = cpu[c].intena]
<1>5. th' = [th EXCEPT ![p] = r] /\ cpu' = [cpu EXCEPT ![c].proc = 0] /\ UNCHANGED <<lock, state, killed>>
  BY <1>2, Zenon DEF YieldSched, sched
<1>6. r \in ThreadType
  <2>1. th[p].at \in Ats /\ "yielded" \in Traps /\ cpu[c].intena \in 0 .. 1
    BY <1>4 DEF ThreadType, Traps
  <2>. QED  BY <1>4, <2>1, ThreadFields, Zenon
<1>7. r.at = th[p].at /\ r.trap = "yielded" /\ r.saved = 0
  BY <1>4, Zenon DEF ThreadType
<1>. HIDE DEF r
<1>. QED  BY <1>2, <1>4, <1>5, <1>6, <1>7, SchedKeeps, Zenon

-----------------------------------------------------------------------------
(* All the steps.                                                          *)

\* What CPU c does.
Acts(c) ==
  \/ Step(c)
  \/ \E n \in 1 .. MaxN + 1 : Syscall(c, n)
  \/ \E q \in Procs : kill(c, q)

\* No step breaks a part of the invariant, and each is the affair of one CPU.
LEMMA PartsStep == ASSUME Parts, NEW c \in CPUs, Acts(c) PROVE Parts' /\ Local(c)
<1>1. CASE Interrupt(c)
  BY <1>1, InterruptProcess, InterruptScheduler, Zenon
<1>2. CASE clockintr(c)
  BY <1>2, ClockProcess, ClockScheduler, Zenon
<1>3. CASE Wakeup(c)
  BY <1>3, WakeupProcess, WakeupScheduler, Zenon
<1>4. CASE WakeupDone(c)
  BY <1>4, WakeupDoneProcess, WakeupDoneScheduler, Zenon
<1>5. CASE Sret(c)
  BY <1>5, SretProcess, SretScheduler, Zenon
<1>6. CASE \E n \in 1 .. MaxN + 1 : Syscall(c, n)
  BY <1>6, SyscallKeeps, Zenon
<1>7. CASE \E q \in Procs : kill(c, q)
  BY <1>7, KillKeeps, Zenon
<1>8. CASE Top(c) \/ Skip(c) \/ Run(c) \/ Back(c)
  BY <1>8, TopKeeps, SkipKeeps, RunKeeps, BackKeeps, Zenon
<1>9. CASE forkret(c) \/ Return(c) \/ exit(c) \/ Gone(c)
  BY <1>9, ForkretKeeps, ReturnKeeps, ExitKeeps, GoneKeeps, Zenon
<1>10. CASE SysSleep(c) \/ Slept(c) \/ CallSleep(c) \/ Sleep(c) \/ SleepSched(c) \/ Awake(c) \/ Relock(c)
  BY <1>10, SysSleepKeeps, SleptKeeps, CallSleepKeeps, SleepKeeps, SleepSchedKeeps, AwakeKeeps, RelockKeeps, Zenon
<1>11. CASE TrapExit(c) \/ Yield(c) \/ YieldSched(c) \/ Yielded(c)
  BY <1>11, TrapExitKeeps, YieldKeeps, YieldSchedKeeps, YieldedKeeps, Zenon
<1>. QED  BY <1>1, <1>2, <1>3, <1>4, <1>5, <1>6, <1>7, <1>8, <1>9, <1>10, <1>11, Zenon DEF Acts, Step

-----------------------------------------------------------------------------
(* Sleepers.                                                               *)

\* A process is asleep after the step because it was, or it has ticks left to sleep;
\* and the same of one that is about to sleep.
Sleeps(p) ==
  \/ th'[p].passed < th'[p].n
  \/ /\ state'[p] = "SLEEPING" =>
          state[p] = "SLEEPING" /\ th'[p].n = th[p].n /\ th'[p].passed = th[p].passed
     /\ th'[p].at = "entering" =>
          th[p].at = "entering" /\ th'[p].n = th[p].n /\ th'[p].passed = th[p].passed

\* The steps that leave state alone, or the sleep of a process that has one.
LEMMA SameSleep ==
  ASSUME Parts, NEW c \in CPUs, NEW p \in Procs,
         \/ Top(c) \/ Skip(c) \/ Back(c) \/ Run(c) \/ forkret(c) \/ Return(c) \/ exit(c) \/ Gone(c)
         \/ SleepSched(c) \/ Awake(c) \/ Relock(c) \/ Interrupt(c) \/ Wakeup(c) \/ WakeupDone(c)
         \/ TrapExit(c) \/ Yield(c) \/ YieldSched(c) \/ Yielded(c) \/ Sret(c)
         \/ \E q \in Procs : kill(c, q)
  PROVE  Sleeps(p)
<1>0. p \in Threads /\ th[p] \in ThreadType /\ Running(c) \in Threads /\ p # -c /\ -c \in Threads
  BY Numbers, RunningThread, Zenon DEF Parts, Types
<1>1. th \in [Threads -> ThreadType] /\ state \in [Procs -> {"RUNNABLE", "RUNNING", "SLEEPING", "ZOMBIE"}]
  BY Zenon DEF Parts, Types
<1>. USE <1>0, <1>1
<1>2. CASE Top(c) \/ Skip(c) \/ Back(c) \/ Run(c)
  BY <1>2, Zenon DEF Top, Skip, Back, Run, Sleeps, ThreadType
<1>3. CASE forkret(c) \/ Return(c) \/ exit(c) \/ Awake(c) \/ Relock(c)
  <2>1. PICK at : Goto(c, at) /\ at # "entering" /\ (state'[p] = "SLEEPING" => state[p] = "SLEEPING")
    BY <1>3, Zenon DEF forkret, Return, exit, Awake, Relock
  <2>. QED  BY <2>1, Zenon DEF Goto, Sleeps, ThreadType
<1>4. CASE Gone(c) \/ SleepSched(c) \/ YieldSched(c)
  <2>1. CASE Gone(c)
    BY <2>1 DEF Gone, sched, Sleeps, ThreadType
  <2>2. CASE SleepSched(c)
    BY <2>2 DEF SleepSched, sched, Sleeps, ThreadType
  <2>3. CASE YieldSched(c)
    BY <2>3 DEF YieldSched, sched, Sleeps, ThreadType
  <2>. QED  BY <1>4, <2>1, <2>2, <2>3, Zenon
<1>5. CASE Interrupt(c) \/ WakeupDone(c) \/ TrapExit(c)
  <2>1. state' = state
    BY <1>5, Zenon DEF Interrupt, WakeupDone, TrapExit
  <2>2. CASE Interrupt(c)
    BY <2>1, <2>2, Zenon DEF Interrupt, Sleeps, ThreadType
  <2>3. CASE WakeupDone(c)
    BY <2>1, <2>3, Zenon DEF WakeupDone, Sleeps, ThreadType
  <2>4. CASE TrapExit(c)
    BY <2>1, <2>4, Zenon DEF TrapExit, Sleeps, ThreadType
  <2>. QED  BY <1>5, <2>2, <2>3, <2>4, Zenon
<1>6. CASE Wakeup(c) \/ \E q \in Procs : kill(c, q)
  BY <1>6 DEF Wakeup, kill, Goto, Sleeps, ThreadType
<1>7. CASE Yield(c) \/ Yielded(c) \/ Sret(c)
  BY <1>7 DEF Yield, Yielded, Sret, Trap, Sleeps, ThreadType
<1>. QED  BY <1>2, <1>3, <1>4, <1>5, <1>6, <1>7, Zenon

\* sys_sleep() of a process is not about one that sleeps, until it is in sleep() itself.
LEMMA NewSleep ==
  ASSUME Parts, SleepersAgree, NEW c \in CPUs, NEW p \in Procs,
         SysSleep(c) \/ Slept(c) \/ CallSleep(c) \/ Sleep(c) \/ \E n \in 1 .. MaxN + 1 : Syscall(c, n)
  PROVE  Sleeps(p)
<1>1. th \in [Threads -> ThreadType] /\ state \in [Procs -> {"RUNNABLE", "RUNNING", "SLEEPING", "ZOMBIE"}]
  BY Zenon DEF Parts, Types
<1>2. PICK i \in Procs : i = cpu[c].proc /\ i = Running(c) /\ th[i].trap = "no" /\ th[i].at \in {"sys_sleep", "test", "entering", "user"}
  BY WhoIsAt, Zenon DEF SysSleep, Slept, CallSleep, Sleep, Syscall, At, SchedulerAts
<1>3. i \in Threads /\ p \in Threads /\ th[p] \in ThreadType /\ th[i] \in ThreadType
  BY <1>1, Numbers, Zenon
<1>4. state[i] # "SLEEPING"
  BY <1>2, Zenon DEF Parts, ProcState
<1>5. CASE p # i
  <2>1. CASE SysSleep(c) \/ Slept(c) \/ \E n \in 1 .. MaxN + 1 : Syscall(c, n)
    BY <1>1, <1>2, <1>3, <1>5, <2>1, Zenon DEF SysSleep, Slept, Syscall, Sleeps
  <2>2. CASE CallSleep(c) \/ Sleep(c)
    BY <1>1, <1>2, <1>3, <1>5, <2>2, Zenon DEF CallSleep, Sleep, Goto, Sleeps
  <2>. QED  BY <2>1, <2>2, Zenon
<1>6. CASE p = i
  <2>1. CASE SysSleep(c) \/ Slept(c) \/ \E n \in 1 .. MaxN + 1 : Syscall(c, n)
    <3>1. state'[p] # "SLEEPING"
      BY <1>4, <1>6, <2>1, Zenon DEF SysSleep, Slept, Syscall
    <3>2. th'[p].at # "entering"
      <4>1. CASE SysSleep(c)
        <5>1. th'[p] = [th[p] EXCEPT !.at = "test", !.passed = 0]
          BY <1>1, <1>2, <1>3, <1>6, <4>1, Zenon DEF SysSleep
        <5>2. [th[p] EXCEPT !.at = "test", !.passed = 0].at = "test"
          BY <1>3 DEF ThreadType
        <5>. QED  BY <5>1, <5>2
      <4>2. CASE Slept(c)
        <5>1. th'[p] = [th[p] EXCEPT !.at = "return", !.n = 0, !.passed = 0]
          BY <1>1, <1>2, <1>3, <1>6, <4>2, Zenon DEF Slept
        <5>2. [th[p] EXCEPT !.at = "return", !.n = 0, !.passed = 0].at = "return"
          BY <1>3 DEF ThreadType
        <5>. QED  BY <5>1, <5>2
      <4>3. ASSUME NEW n \in 1 .. MaxN + 1, Syscall(c, n) PROVE th'[p].at # "entering"
        <5>1. th'[p] \in {[th[p] EXCEPT !.at = "exit"], [th[p] EXCEPT !.at = "sys_sleep", !.n = n, !.passed = 0]}
          BY <1>1, <1>2, <1>3, <1>6, <4>3, Zenon DEF Syscall
        <5>2. [th[p] EXCEPT !.at = "exit"].at = "exit" /\ [th[p] EXCEPT !.at = "sys_sleep", !.n = n, !.passed = 0].at = "sys_sleep"
          BY <1>3 DEF ThreadType
        <5>. QED  BY <5>1, <5>2, Zenon
      <4>. QED  BY <2>1, <4>1, <4>2, <4>3, Zenon
    <3>. QED  BY <3>1, <3>2, Zenon DEF Sleeps
  <2>2. CASE CallSleep(c) \/ Sleep(c)
    <3>1. th[p].passed < th[p].n
      <4>1. CASE CallSleep(c)
        BY <1>2, <1>6, <4>1, Zenon DEF CallSleep, GoesOn
      <4>2. CASE Sleep(c)
        <5>1. th[p].at = "entering"
          BY <1>2, <1>6, <4>2, Zenon DEF Sleep, At
        <5>. QED  BY <5>1, Zenon DEF SleepersAgree
      <4>. QED  BY <2>2, <4>1, <4>2, Zenon
    <3>2. th'[p].passed = th[p].passed /\ th'[p].n = th[p].n
      BY <1>1, <1>2, <1>3, <1>6, <2>2 DEF CallSleep, Sleep, Goto, ThreadType
    <3>. QED  BY <3>1, <3>2, Zenon DEF Sleeps
  <2>. QED  BY <2>1, <2>2, Zenon
<1>. QED  BY <1>5, <1>6, Zenon

\* wakeup() on a CPU goes on as the other CPUs take steps.
LEMMA OthersWake ==
  ASSUME Parts, NEW c \in CPUs, Local(c), NEW d \in CPUs \ {c}
  PROVE  Running(d)' = Running(d) /\ th'[Running(d)].trap = th[Running(d)].trap /\ th'[Running(d)].w = th[Running(d)].w
<1>1. Running(d)' = Running(d)
  BY Zenon DEF Local, Running
<1>2. Running(d) \in Threads /\ Running(d) # Running(c)
  BY RunningThread, Zenon
<1>. QED  BY <1>1, <1>2, Zenon DEF Local, Same

\* No tick passes while a process is about to sleep: it holds tickslock.
LEMMA NoTickEntering ==
  ASSUME Parts, NEW c \in CPUs, clockintr(c), NEW p \in Procs
  PROVE  th[p].at # "entering"
<1>. SUFFICES ASSUME th[p].at = "entering" PROVE FALSE
  BY Zenon
<1>1. ProcPlaces(p) /\ ProcState(p) /\ p # 0
  BY Numbers, Zenon DEF Parts
<1>2. th[p].trap = "no"
  BY <1>1, Zenon DEF ProcPlaces, Interruptible
<1>3. PICK d \in CPUs : cpu[d].proc = p
  BY <1>1, <1>2, Zenon DEF ProcState, On
<1>4. Running(d) = p
  BY <1>1, <1>3, Zenon DEF Running
<1>5. lock[tickslock] = d
  BY <1>2, <1>4, Zenon DEF Parts, CpuLocks, HoldsTicks
<1>6. lock[tickslock] = None /\ d # None
  BY Numbers, Zenon DEF clockintr, acquire, Free
<1>. QED  BY <1>5, <1>6, Zenon

\* A sleeper whose time has come is before the wakeup() under way: clockintr() starts one
\* at the first process, and it goes on only past processes it has woken.
LEMMA SleepersStep ==
  ASSUME Parts, SleepersAgree, NEW c \in CPUs, Acts(c), Parts', Local(c)
  PROVE  SleepersAgree'
<1>enter. ASSUME NEW p \in Procs, th'[p].at = "entering" PROVE th'[p].passed < th'[p].n
  <2>1. CASE clockintr(c)
    <3>1. p \in Threads /\ th[p] \in ThreadType /\ th[p].at # "entering"
      BY <2>1, NoTickEntering, Numbers, Zenon DEF Parts, Types
    <3>2. th'[p].at = th[p].at
      BY <2>1, <3>1, Zenon DEF clockintr, Tick, ThreadType
    <3>. QED  BY <1>enter, <3>1, <3>2, Zenon
  <2>2. CASE ~clockintr(c)
    <3>1. Sleeps(p)
      BY <2>2, SameSleep, NewSleep, Zenon DEF Acts, Step
    <3>. QED  BY <1>enter, <3>1, Zenon DEF Sleeps, SleepersAgree
  <2>. QED  BY <2>1, <2>2, Zenon
<1>. SUFFICES ASSUME NEW p \in Procs, state'[p] = "SLEEPING"
              PROVE  \/ th'[p].passed < th'[p].n
                     \/ \E d \in CPUs : th'[Running(d)'].trap = "wakeup" /\ th'[Running(d)'].w <= p
  BY <1>enter, Zenon DEF SleepersAgree
<1>0. /\ th \in [Threads -> ThreadType] /\ Running(c) \in Threads /\ p \in Threads /\ p \in Nat /\ p >= 1
      /\ th[Running(c)] \in ThreadType
      /\ state \in [Procs -> {"RUNNABLE", "RUNNING", "SLEEPING", "ZOMBIE"}]
  <2>1. th \in [Threads -> ThreadType] /\ state \in [Procs -> {"RUNNABLE", "RUNNING", "SLEEPING", "ZOMBIE"}]
    BY Zenon DEF Parts, Types
  <2>2. p \in Threads /\ p \in Nat /\ p >= 1
    BY Numbers DEF Procs
  <2>3. Running(c) \in Threads
    BY RunningThread, Zenon
  <2>. QED  BY <2>1, <2>2, <2>3, Zenon
<1>1. CASE clockintr(c)
  <2>1. Running(c)' = Running(c)
    <3>1. cpu[c] \in CpuType
      BY Zenon DEF Parts, Types
    <3>. QED  BY <1>1, <3>1, Zenon DEF clockintr, acquire, push_off, CpuType, Running, Parts, Types
  <2>2. th'[Running(c)].trap = "wakeup" /\ th'[Running(c)].w = 1
    BY <1>0, <1>1, Zenon DEF clockintr, Tick, ThreadType
  <2>. QED  BY <1>0, <2>1, <2>2, Zenon
<1>2. CASE ~clockintr(c)
  <2>1. Sleeps(p)
    BY <1>2, SameSleep, NewSleep, Zenon DEF Acts, Step
  <2>2. CASE th'[p].passed < th'[p].n
    BY <2>2, Zenon
  <2>3. CASE ~(th'[p].passed < th'[p].n)
    <3>1. state[p] = "SLEEPING" /\ ~(th[p].passed < th[p].n)
      BY <2>1, <2>3, Zenon DEF Sleeps
    <3>2. PICK d \in CPUs : th[Running(d)].trap = "wakeup" /\ th[Running(d)].w <= p
      BY <3>1, Zenon DEF SleepersAgree
    <3>3. CASE d # c
      BY <3>2, <3>3, OthersWake, Zenon
    <3>4. CASE d = c
      <4>1. th[Running(c)].trap = "wakeup" /\ th[Running(c)].w <= p
        BY <3>2, <3>4, Zenon
      <4>2. Wakeup(c) \/ WakeupDone(c)
        <5>1. cpu[c].sie # 1
          BY <4>1, Zenon DEF Parts, CpuFlags
        <5>. QED  BY <4>1, <5>1, <1>2, Zenon DEF Acts, Step, At, InTrap, Top, Skip, Run, Back, forkret, Return, exit, Gone, SysSleep,
                     Slept, CallSleep, Sleep, SleepSched, Awake, Relock, Interrupt, TrapExit, Yield, YieldSched, Yielded, Sret, Syscall, kill
      <4>3. th[Running(c)].w \in Procs
        <5>1. th[Running(c)].w \in 1 .. NPROC + 1
          BY <1>0, Zenon DEF ThreadType
        <5>2. p \in 1 .. NPROC
          BY Zenon DEF Procs
        <5>. QED  BY <4>1, <5>1, <5>2, HartsAssumption DEF Procs
      <4>4. Wakeup(c)
        BY <4>2, <4>3, Zenon DEF WakeupDone
      <4>5. th[Running(c)].w # p
        BY <1>0, <3>1, <4>4, Zenon DEF Wakeup
      <4>6. Running(c)' = Running(c)
        BY <4>4, Zenon DEF Wakeup, Running
      <4>7. th'[Running(c)].trap = "wakeup" /\ th'[Running(c)].w = th[Running(c)].w + 1
        BY <1>0, <4>1, <4>4, Zenon DEF Wakeup, ThreadType
      <4>8. th[Running(c)].w \in Int /\ p \in Int
        BY <1>0, <4>3 DEF Procs
      <4>9. th'[Running(c)'].w <= p
        BY <4>1, <4>5, <4>6, <4>7, <4>8
      <4>. QED  BY <4>6, <4>7, <4>9, Zenon
    <3>. QED  BY <3>3, <3>4, Zenon
  <2>. QED  BY <2>2, <2>3, Zenon
<1>. QED  BY <1>1, <1>2, Zenon

-----------------------------------------------------------------------------
(* The invariant.                                                          *)

\* A CPU holds at most one lock, and noff says so.
LEMMA HeldCount ==
  ASSUME Parts, NEW c \in CPUs
  PROVE  /\ HoldsTicks(th[Running(c)]) => Held(c) = {tickslock} /\ ~HoldsProc(c)
         /\ HoldsProc(c) => Held(c) = {th[-c].i}
         /\ ~HoldsTicks(th[Running(c)]) /\ ~HoldsProc(c) => Held(c) = {}
         /\ cpu[c].noff = Cardinality(Held(c))
<1>1. th[-c].i \in Procs /\ Locks = {tickslock} \cup Procs /\ tickslock \notin Procs
  BY Numbers, Zenon DEF Parts, Types, ThreadType, Locks
<1>2. HoldsTicks(th[Running(c)]) => ~HoldsProc(c)
  BY RunningThread, Zenon DEF HoldsTicks, HoldsProc, HoldsSelf, Parts, CpuPlaces
<1>3. \A l \in Locks : lock[l] = c <=> \/ l = tickslock /\ HoldsTicks(th[Running(c)])
                                       \/ l = th[-c].i /\ HoldsProc(c)
  BY <1>1 DEF Parts, CpuLocks
<1>4. HoldsTicks(th[Running(c)]) => Held(c) = {tickslock}
  BY <1>1, <1>2, <1>3, Zenon DEF Held
<1>5. HoldsProc(c) => Held(c) = {th[-c].i}
  BY <1>1, <1>2, <1>3, Zenon DEF Held
<1>6. ~HoldsTicks(th[Running(c)]) /\ ~HoldsProc(c) => Held(c) = {}
  BY <1>1, <1>3, Zenon DEF Held
<1>7. cpu[c].noff = IF HoldsTicks(th[Running(c)]) \/ HoldsProc(c) THEN 1 ELSE 0
  BY Zenon DEF Parts, CpuLocks
<1>8. Cardinality({}) = 0 /\ Cardinality({tickslock}) = 1 /\ Cardinality({th[-c].i}) = 1
  BY FS_EmptySet, FS_Singleton, Zenon
<1>. QED  BY <1>2, <1>4, <1>5, <1>6, <1>7, <1>8, Zenon

\* The parts are HartsInv.
LEMMA PartsAreHartsInv == HartsInv <=> Parts /\ SleepersAgree
<1>1. Parts => TypeOK
  BY HeldCount, Zenon DEF Parts, Types, TypeOK, CpuType, ThreadType
<1>2. TypeOK => Types
  BY Zenon DEF Types, TypeOK, CpuType, ThreadType
<1>3. (\A c \in CPUs : CpuLocks(c)) <=> LocksAgree
  BY Zenon DEF CpuLocks, LocksAgree
<1>4. (\A c \in CPUs : CpuFlags(c) /\ CpuPlaces(c)) /\ (\A p \in Procs : ProcPlaces(p)) /\ OneCPU <=> FlagsAgree /\ PlacesAgree
  BY Zenon DEF CpuFlags, CpuPlaces, ProcPlaces, FlagsAgree, PlacesAgree, OneCPU
<1>5. (\A p \in Procs : ProcState(p)) <=> StatesAgree
  BY Zenon DEF ProcState, StatesAgree
<1>. QED  BY <1>1, <1>2, <1>3, <1>4, <1>5, Zenon DEF Parts, HartsInv

\* After procinit(), with nobody on a CPU.
LEMMA InitParts == Init => Parts /\ SleepersAgree
<1>. SUFFICES ASSUME Init PROVE Parts /\ SleepersAgree
  BY Zenon
<1>. USE HartsAssumption
<1>1. Types
  <2>1. 0 \in 0 .. 1 /\ 1 \in Procs /\ 1 \in 1 .. NPROC + 1 /\ 0 \in 0 .. MaxN /\ 0 \in 0 .. MaxN + 1
    BY DEF Procs
  <2>2. cpu \in [CPUs -> CpuType]
    BY <2>1, Zenon DEF Init, CpuType
  <2>3. \A at \in Ats : [at |-> at, trap |-> "no", i |-> 1, found |-> 0, w |-> 1, saved |-> 0, n |-> 0, passed |-> 0] \in ThreadType
    BY <2>1, Zenon DEF ThreadType, Traps
  <2>4. "forkret" \in Ats /\ "scheduler" \in Ats
    BY Zenon DEF Ats
  <2>5. th \in [Threads -> ThreadType]
    <3>. SUFFICES ASSUME NEW x \in Threads PROVE th[x] \in ThreadType
      BY Zenon DEF Init
    <3>. QED  BY <2>3, <2>4, Zenon DEF Init
  <2>. QED  BY <2>2, <2>5, Zenon DEF Types, Init
<1>2. /\ \A c \in CPUs : /\ Running(c) = -c /\ -c \in Threads /\ th[-c].at = "scheduler" /\ th[-c].trap = "no"
                         /\ cpu[c].proc = 0 /\ cpu[c].noff = 0 /\ cpu[c].sie = 0
      /\ \A p \in Procs : th[p].at = "forkret" /\ th[p].trap = "no" /\ state[p] = "RUNNABLE" /\ ~On(p)
      /\ \A l \in Locks : lock[l] = None
  BY Numbers, Zenon DEF Init, Running, On
<1>3. \A c \in CPUs : CpuLocks(c) /\ CpuFlags(c) /\ CpuPlaces(c)
  BY <1>2, Numbers DEF CpuLocks, CpuFlags, CpuPlaces, HoldsTicks, HoldsProc, Interruptible, SchedulerAts
<1>4. \A p \in Procs : ProcPlaces(p) /\ ProcState(p)
  BY <1>2, Zenon DEF ProcPlaces, ProcState, SchedulerAts
<1>5. OneCPU /\ SleepersAgree
  BY <1>2, Zenon DEF OneCPU, SleepersAgree
<1>. QED  BY <1>1, <1>3, <1>4, <1>5, Zenon DEF Parts

\* Locks, interrupts, the scheduler and the sleepers are as HartsInv says: in every state
\* of kernel/spinlock.c, trap.c and proc.c, for any number of CPUs and processes.
THEOREM HartsCorrect == Spec => []HartsInv
<1>1. Init => Parts /\ SleepersAgree
  BY InitParts, Zenon
<1>2. Parts /\ SleepersAgree /\ [Next]_vars => (Parts /\ SleepersAgree)'
  <2>. SUFFICES ASSUME Parts, SleepersAgree, [Next]_vars PROVE (Parts /\ SleepersAgree)'
    BY Zenon
  <2>1. CASE Next
    <3>1. PICK c \in CPUs : Acts(c)
      BY <2>1, Zenon DEF Next, Acts
    <3>2. Parts' /\ Local(c)
      BY <3>1, PartsStep, Zenon
    <3>. QED  BY <3>1, <3>2, SleepersStep, Zenon
  <2>2. CASE UNCHANGED vars
    <3>1. Parts'
      <4>1. \A c \in CPUs : (CpuLocks(c) /\ CpuFlags(c) /\ CpuPlaces(c))'
        <5>. SUFFICES ASSUME NEW c \in CPUs PROVE (CpuLocks(c) /\ CpuFlags(c) /\ CpuPlaces(c))'
          BY Zenon
        <5>1. Running(c)' = Running(c) /\ (HoldsProc(c)' <=> HoldsProc(c))
          BY <2>2, Zenon DEF vars, Running, HoldsProc
        <5>2. CpuLocks(c)'
          BY <2>2, <5>1 DEF vars, Parts, CpuLocks
        <5>3. CpuFlags(c)'
          BY <2>2, <5>1, Zenon DEF vars, Parts, CpuFlags
        <5>4. CpuPlaces(c)'
          BY <2>2, Zenon DEF vars, Parts, CpuPlaces
        <5>. QED  BY <5>2, <5>3, <5>4, Zenon
      <4>2. \A p \in Procs : (ProcPlaces(p) /\ ProcState(p))'
        <5>. SUFFICES ASSUME NEW p \in Procs PROVE (ProcPlaces(p) /\ ProcState(p))'
          BY Zenon
        <5>1. th' = th /\ state' = state /\ (On(p)' <=> On(p))
          BY <2>2, Zenon DEF vars, On
        <5>2. ProcPlaces(p)'
          BY <5>1, Zenon DEF Parts, ProcPlaces
        <5>3. ProcState(p)'
          BY <5>1, Zenon DEF Parts, ProcState
        <5>. QED  BY <5>2, <5>3, Zenon
      <4>3. Types' /\ OneCPU'
        BY <2>2, Zenon DEF vars, Parts, Types, OneCPU
      <4>. QED  BY <4>1, <4>2, <4>3, Zenon DEF Parts
    <3>2. SleepersAgree'
      BY <2>2, Zenon DEF vars, SleepersAgree, Running
    <3>. QED  BY <3>1, <3>2, Zenon
  <2>. QED  BY <2>1, <2>2, Zenon
<1>. QED  BY <1>1, <1>2, PartsAreHartsInv, PTL DEF Spec

\* HartsInv, in parts, as a premise of the other theorems.
LEMMA HartsParts == HartsInv => Parts /\ SleepersAgree
  BY PartsAreHartsInv, Zenon

\* spinlock.c and sched() do not panic: no acquire() of a lock the CPU holds, no release()
\* of one it does not, no pop_off() with interrupts on or noff 0, and sched() is entered
\* with p->lock alone, interrupts off and the process not RUNNING.
THEOREM NoPanicTheorem == Spec => []NoPanic
<1>1. HartsInv => NoPanic
  <2>. SUFFICES ASSUME Parts, NEW c \in CPUs
                PROVE  /\ Wanted(c) \cap Held(c) = {}
                       /\ Released(c) \subseteq Held(c)
                       /\ Released(c) # {} => cpu[c].sie = 0 /\ cpu[c].noff >= 1
                       /\ Switches(c) => /\ Held(c) = {cpu[c].proc} /\ cpu[c].noff = 1 /\ cpu[c].sie = 0
                                         /\ state[cpu[c].proc] # "RUNNING"
    BY HartsParts, Zenon DEF NoPanic
  <2> DEFINE x == Running(c)
  <2>1. /\ x \in Threads /\ th[x] \in ThreadType /\ cpu[c] \in CpuType
        /\ cpu[c].proc = 0 => x = -c
        /\ cpu[c].proc # 0 => x = cpu[c].proc /\ x \in Procs
    BY RunningThread, Zenon DEF Parts, Types
  <2>2. CpuLocks(c) /\ CpuFlags(c) /\ CpuPlaces(c)
    BY Zenon DEF Parts
  <2>3. x \in Procs => ProcPlaces(x) /\ ProcState(x)
    BY Zenon DEF Parts
  <2>4. cpu[c].noff = 1 => cpu[c].sie = 0
    BY <2>1, <2>2 DEF CpuFlags, CpuType
  <2>5. cpu[c].noff = IF HoldsTicks(th[x]) \/ HoldsProc(c) THEN 1 ELSE 0
    BY <2>2, Zenon DEF CpuLocks
  <2>6. cpu[c].proc # 0 => (HoldsProc(c) <=> HoldsSelf(th[x])) /\ th[-c].i = x
    BY <2>1, <2>2, Zenon DEF HoldsProc, CpuPlaces
  <2>7. cpu[c].proc = 0 => (HoldsProc(c) <=> th[x].at = "back")
    BY <2>1, Zenon DEF HoldsProc
  <2>8. 0 \notin Procs /\ tickslock = 0
    BY Numbers, Zenon DEF tickslock
  <2>9. Released(c) \subseteq Held(c) /\ (Released(c) # {} => HoldsTicks(th[x]) \/ HoldsProc(c))
    <3>1. CASE cpu[c].proc = 0
      BY <2>1, <2>2, <2>7, <3>1, HeldCount, Zenon DEF Released, InTrap, At, CpuPlaces, SchedulerAts, HoldsTicks
    <3>2. CASE cpu[c].proc # 0
      <4>1. HoldsTicks(th[x]) => Held(c) = {tickslock}
        BY HeldCount, Zenon
      <4>2. HoldsSelf(th[x]) => Held(c) = {x} /\ HoldsProc(c)
        BY <2>6, <3>2, HeldCount, Zenon
      <4>3. x \in Procs /\ th[x].at \notin SchedulerAts
        BY <2>1, <2>3, <3>2, Zenon DEF ProcPlaces
      <4>4. CASE Released(c) = {}
        BY <4>4, Zenon
      <4>5. CASE Released(c) = {tickslock} /\ HoldsTicks(th[x])
        BY <4>1, <4>5, Zenon
      <4>6. CASE Released(c) = {x} /\ HoldsSelf(th[x])
        BY <4>2, <4>6, Zenon
      <4>7. ~At(c, "back")
        BY <4>3, Zenon DEF At, SchedulerAts
      <4>8. CASE InTrap(c, "wakeup") \/ At(c, "test") \/ At(c, "entering")
        BY <4>5, <4>8, Zenon DEF Released, InTrap, At, HoldsTicks
      <4>9. CASE InTrap(c, "yielded") \/ At(c, "forkret") \/ At(c, "asleep")
        BY <4>6, <4>9, Zenon DEF Released, InTrap, At, HoldsSelf
      <4>10. CASE ~(InTrap(c, "wakeup") \/ At(c, "test") \/ At(c, "entering") \/ InTrap(c, "yielded") \/ At(c, "forkret") \/ At(c, "asleep"))
        BY <4>4, <4>7, <4>10, Zenon DEF Released
      <4>. QED  BY <4>8, <4>9, <4>10, Zenon
    <3>. QED  BY <3>1, <3>2, Zenon
  <2>10. Wanted(c) \cap Held(c) = {}
    <3>1. CASE cpu[c].proc = 0
      <4>1. Preempts(c) = FALSE
        BY <3>1, Zenon DEF Preempts
      <4>2. th[x].i \in Procs
        BY <2>1, Zenon DEF ThreadType
      <4>. QED  BY <2>1, <2>2, <2>7, <2>8, <3>1, <4>1, <4>2, HeldCount, Zenon DEF Wanted, InTrap, At, CpuPlaces, SchedulerAts, HoldsTicks
    <3>2. CASE cpu[c].proc # 0
      <4>1. HoldsTicks(th[x]) => Held(c) = {tickslock}
        BY HeldCount, Zenon
      <4>2. ~HoldsTicks(th[x]) /\ ~HoldsSelf(th[x]) => Held(c) = {}
        BY <2>6, <3>2, HeldCount, Zenon
      <4>3. x \in Procs /\ th[x].at \notin SchedulerAts
        BY <2>1, <2>3, <3>2, Zenon DEF ProcPlaces
      <4>4. Wanted(c) = {} \/ ~HoldsSelf(th[x])
        <5>1. CASE th[x].trap \in {"yield", "yielded"}
          BY <5>1, Zenon DEF Wanted, InTrap, At
        <5>2. CASE th[x].trap \notin {"no", "yield", "yielded"}
          BY <5>2, Zenon DEF HoldsSelf
        <5>3. CASE th[x].trap = "no"
          BY <4>3, <5>3, Zenon DEF Wanted, InTrap, At, HoldsSelf, SchedulerAts
        <5>. QED  BY <5>1, <5>2, <5>3, Zenon
      <4>5. HoldsTicks(th[x]) => Wanted(c) \subseteq Procs
        <5>1. CASE th[x].trap = "wakeup"
          BY <5>1, Zenon DEF Wanted, InTrap, At
        <5>2. CASE th[x].trap = "no" /\ th[x].at \in {"test", "entering"}
          BY <4>3, <5>2, Zenon DEF Wanted, InTrap, At
        <5>. QED  BY <5>1, <5>2, Zenon DEF HoldsTicks
      <4>. QED  BY <2>8, <4>1, <4>2, <4>4, <4>5, Zenon
    <3>. QED  BY <3>1, <3>2, Zenon
  <2>11. ASSUME Switches(c) PROVE /\ Held(c) = {cpu[c].proc} /\ cpu[c].noff = 1 /\ cpu[c].sie = 0
                                  /\ state[cpu[c].proc] # "RUNNING"
    <3>1. cpu[c].proc # 0
      BY <2>1, <2>2, <2>11, Zenon DEF Switches, InTrap, At, CpuPlaces, SchedulerAts
    <3>2. Leaves(th[x]) /\ HoldsSelf(th[x])
      BY <2>11, Zenon DEF Switches, InTrap, At, Leaves, HoldsSelf
    <3>3. Held(c) = {x} /\ cpu[c].noff = 1
      BY <2>5, <2>6, <3>1, <3>2, HeldCount, Zenon
    <3>4. state[x] # "RUNNING"
      BY <2>1, <2>3, <3>1, <3>2, Zenon DEF ProcState, Leaves
    <3>. QED  BY <2>1, <2>4, <3>1, <3>3, <3>4, Zenon
  <2>. QED  BY <2>4, <2>5, <2>9, <2>10, <2>11
<1>. QED  BY <1>1, HartsCorrect, PTL

\* Interrupts are off while a lock is held and in a handler, and on in a system call that
\* holds none: push_off(), pop_off() and sched()'s intena restore the flag of the thread.
THEOREM InterruptFlagTheorem == Spec => []InterruptFlag
<1>1. HartsInv => InterruptFlag
  <2>. SUFFICES ASSUME Parts, NEW c \in CPUs
                PROVE  /\ Held(c) # {} \/ ~InTrap(c, "no") => cpu[c].sie = 0
                       /\ Held(c) = {} /\ th[Running(c)].trap = "no"
                            /\ th[Running(c)].at \in {"user", "sys_sleep", "relock", "return"} => cpu[c].sie = 1
    BY HartsParts, Zenon DEF InterruptFlag
  <2>1. CpuFlags(c) /\ CpuLocks(c) /\ cpu[c] \in CpuType
    BY Zenon DEF Parts, Types
  <2>2. Held(c) # {} => cpu[c].noff = 1
    BY <2>1, HeldCount, Zenon DEF CpuLocks
  <2>. QED  BY <2>1, <2>2 DEF CpuFlags, CpuType, InTrap, Interruptible
<1>. QED  BY <1>1, HartsCorrect, PTL

\* A kernel stack is used by one CPU at a time: a process that is not RUNNING but still on
\* a CPU has its p->lock held there, so no scheduler() can pick it up.
THEOREM OneStackTheorem == Spec => []OneStack
<1>1. HartsInv => OneStack
  <2>. SUFFICES ASSUME Parts, NEW p \in Procs, NEW on, on = {c \in CPUs : cpu[c].proc = p}
                PROVE  /\ Cardinality(on) <= 1
                       /\ state[p] = "RUNNING" => on # {}
                       /\ state[p] # "RUNNING" => \A c \in on : lock[p] = c
    BY HartsParts, Zenon DEF OneStack
  <2>1. Cardinality(on) <= 1
    <3>1. CASE on = {}
      BY <3>1, FS_EmptySet
    <3>2. CASE on # {}
      <4>1. PICK c \in on : TRUE
        BY <3>2, Zenon
      <4>2. on = {c}
        BY <4>1, Numbers, Zenon DEF Parts, OneCPU
      <4>3. Cardinality({c}) = 1
        BY FS_Singleton, Zenon
      <4>4. Cardinality(on) = 1
        BY <4>2, <4>3, Zenon
      <4>. QED  BY <4>4
    <3>. QED  BY <3>1, <3>2, Zenon
  <2>2. state[p] = "RUNNING" => on # {}
    BY Zenon DEF Parts, ProcState, On
  <2>3. ASSUME state[p] # "RUNNING", NEW c \in on PROVE lock[p] = c
    <3>1. Leaves(th[p])
      BY <2>3, Zenon DEF Parts, ProcState, On
    <3>2. HoldsProc(c) /\ th[-c].i = p
      BY <3>1, Numbers, Zenon DEF Parts, CpuPlaces, HoldsProc, HoldsSelf, Leaves
    <3>. QED  BY <3>2, Zenon DEF Parts, CpuLocks
  <2>. QED  BY <2>1, <2>2, <2>3, Zenon
<1>. QED  BY <1>1, HartsCorrect, PTL

\* sleep() loses no wakeup(): whenever tickslock is free, who sleeps has ticks left.
THEOREM NoOversleepTheorem == Spec => []NoOversleep
<1>1. HartsInv => NoOversleep
  <2>. SUFFICES ASSUME Parts, SleepersAgree, NEW p \in Procs, state[p] = "SLEEPING", Free(tickslock)
                PROVE  th[p].passed < th[p].n
    BY HartsParts, Zenon DEF NoOversleep
  <2>1. \A c \in CPUs : lock[tickslock] # c
    BY Numbers, Zenon DEF Free
  <2>2. \A c \in CPUs : th[Running(c)].trap # "wakeup"
    BY <2>1, Zenon DEF Parts, CpuLocks, HoldsTicks
  <2>. QED  BY <2>2, Zenon DEF SleepersAgree
<1>. QED  BY <1>1, HartsCorrect, PTL
=============================================================================
