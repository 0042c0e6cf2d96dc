----------------------------- MODULE Scheduler -----------------------------
(***************************************************************************)
(* The process table and the scheduler of MyUnivOS: src/scheduler.c, the   *)
(* creation and destruction of processes in src/kproc.c, and the kernel    *)
(* entry of src/kernel.c that drives them.                                 *)
(*                                                                         *)
(* There is one CPU and interrupts are off inside the kernel, so a kernel  *)
(* entry runs to its end: one handler, then scheduler_run, then the return *)
(* to a process.  pc is where the CPU is in that path:                     *)
(*   "user"   a process runs (or main spins, before the first interrupt)   *)
(*   "timer"  in the loop of scheduler_timer over the sleep queue          *)
(*   "sched"  the handler has returned, scheduler_run is next              *)
(*   "halt"   kernel_panic                                                 *)
(***************************************************************************)
EXTENDS Integers, Sequences, FiniteSets

CONSTANTS PROC_MAX,             \* entries of the process table
          QUEUE_SIZE,           \* capacity of every queue
          SCHEDULER_TIMESLICE,  \* ticks a process may run before it is unscheduled
          NBoot,                \* processes kproc_init creates, the idle task first
          MaxPid,               \* bound: no process is created from this pid on
          SleepTicks            \* the sleep times the programs ask for, in ticks

ASSUME SchedulerAssumption ==
    /\ PROC_MAX \in Nat \ {0}
    /\ QUEUE_SIZE \in Nat /\ PROC_MAX <= QUEUE_SIZE
    /\ SCHEDULER_TIMESLICE \in Nat \ {0}
    /\ NBoot \in 1 .. PROC_MAX
    /\ MaxPid \in Nat /\ NBoot <= MaxPid
    /\ SleepTicks \subseteq Nat

VARIABLES
    pc,               \* where the CPU is
    loop_i,           \* i of the loop in scheduler_timer
    active_proc,      \* table entry of the scheduled process, or None
    pid,              \* per entry: process id, 0 when the entry is free
    state,            \* per entry: state_t
    cpu_time,         \* per entry: ticks used of the time slice
    sleep_time,       \* per entry: ticks left to sleep
    scheduler_queue,  \* per entry: which queue the PCB points to
    run_queue,        \* pids, oldest first
    sleep_queue,      \* pids, oldest first
    proc_allocator,   \* free entries, oldest first
    next_pid          \* next process id

pcb   == <<pid, state, cpu_time, sleep_time, scheduler_queue>>
lists == <<run_queue, sleep_queue, proc_allocator, next_pid>>
vars  == <<pc, loop_i, active_proc, pcb, lists>>

Entry    == 0 .. PROC_MAX - 1
None     == -1                              \* NULL
Pid      == 0 .. MaxPid
Program  == 1 .. NBoot - 1                  \* pids of the shells, pings and pongs
State    == {"NONE", "IDLE", "ACTIVE", "SLEEPING", "WAITING"}

SchedTypeOK ==
    /\ pc \in {"user", "timer", "sched", "halt"}
    /\ loop_i \in Nat
    /\ active_proc \in Entry \cup {None}
    /\ pid \in [Entry -> Pid]
    /\ state \in [Entry -> State]
    /\ cpu_time \in [Entry -> 0 .. SCHEDULER_TIMESLICE]
    /\ sleep_time \in [Entry -> Int]
    /\ scheduler_queue \in [Entry -> {"none", "run", "sleep"}]
    /\ run_queue \in Seq(Pid)
    /\ sleep_queue \in Seq(Pid)
    /\ proc_allocator \in Seq(Entry)
    /\ next_pid \in 1 .. MaxPid

-----------------------------------------------------------------------------
\* pid_to_proc: the first entry with the process id.  A free entry has pid 0
\* as well, but entry 0 belongs to the idle task for good.
pid_to_proc(p) ==
    IF \E e \in Entry : pid[e] = p
    THEN CHOOSE e \in Entry : pid[e] = p /\ \A f \in Entry : pid[f] = p => e <= f
    ELSE None

\* Mutant: a queue that is a stack.
QueueInFront(q, x) == IF Len(q) = QUEUE_SIZE THEN q ELSE <<x>> \o q

\* queue_in, when its return code is not looked at.
QueueIn(q, x) == IF Len(q) = QUEUE_SIZE THEN q ELSE Append(q, x)

\* The loop of scheduler_remove over the queue q: a pass takes the head and
\* queues it again unless it is p.  The bound of the loop is the size, which
\* shrinks with every p that is dropped, so the last passes may be missing.
Without(q, p) ==
    LET pass[k \in 0 .. Len(q)] ==
            IF k = 0 THEN q
            ELSE LET r == pass[k - 1]
                 IN  IF Len(r) < k THEN r
                     ELSE IF Head(r) = p THEN Tail(r) ELSE Append(Tail(r), Head(r))
    IN  pass[Len(q)]

\* What scheduler_remove(e) leaves of the queue q called name.
Remaining(name, q, e) == IF scheduler_queue[e] = name THEN Without(q, pid[e]) ELSE q

\* scheduler_add of the process of entry e: e is idle at the end of the run
\* queue, or kernel_panic when the queue is full; then control goes to next.
scheduler_add(e, next) ==
    /\ run_queue' = QueueIn(run_queue, pid[e])
    /\ state' = [state EXCEPT ![e] = "IDLE"]
    /\ cpu_time' = [cpu_time EXCEPT ![e] = 0]
    /\ scheduler_queue' = [scheduler_queue EXCEPT ![e] = "run"]
    /\ pc' = IF Len(run_queue) = QUEUE_SIZE THEN "halt" ELSE next
-----------------------------------------------------------------------------
\* kproc_init: the boot processes are created in turn, the rest of the table
\* is free.  active_proc is NULL until the first interrupt.
Init ==
    /\ pc = "user"
    /\ loop_i = 0
    /\ active_proc = None
    /\ pid = [e \in Entry |-> IF e < NBoot THEN e ELSE 0]
    /\ state = [e \in Entry |-> IF e < NBoot THEN "IDLE" ELSE "NONE"]
    /\ cpu_time = [e \in Entry |-> 0]
    /\ sleep_time = [e \in Entry |-> 0]
    /\ scheduler_queue = [e \in Entry |-> IF e < NBoot THEN "run" ELSE "none"]
    /\ run_queue = [k \in 1 .. NBoot |-> k - 1]
    /\ sleep_queue = <<>>
    /\ proc_allocator = [k \in 1 .. PROC_MAX - NBoot |-> NBoot + k - 1]
    /\ next_pid = NBoot

\* The timer interrupt up to the loop of scheduler_timer.
TimerIrq ==
    /\ pc = "user"
    /\ cpu_time' = IF active_proc = None THEN cpu_time
                   ELSE [cpu_time EXCEPT ![active_proc] = @ + 1]
    /\ loop_i' = 0
    /\ pc' = "timer"
    /\ UNCHANGED <<active_proc, pid, state, sleep_time, scheduler_queue, lists>>

\* Mutant: the bound of the loop is off by one, the head is visited twice.
SleepScanOneMore ==
    /\ pc = "timer"
    /\ loop_i <= Len(sleep_queue) /\ sleep_queue # <<>>
    /\ loop_i' = loop_i + 1
    /\ LET p == Head(sleep_queue)
           e == pid_to_proc(p)
       IN  /\ sleep_time' = [sleep_time EXCEPT ![e] = @ - 1]
           /\ \/ /\ sleep_time[e] >= 0
                 /\ sleep_queue' = Append(Tail(sleep_queue), p)
                 /\ UNCHANGED <<pc, state, cpu_time, scheduler_queue, run_queue>>
              \/ /\ sleep_time[e] < 0
                 /\ sleep_queue' = Tail(sleep_queue)
                 /\ scheduler_add(e, "timer")
    /\ UNCHANGED <<active_proc, pid, proc_allocator, next_pid>>

\* Mutant: a process that is woken is queued to sleep again all the same.
SleepScanKeepsWoken ==
    /\ pc = "timer"
    /\ loop_i < Len(sleep_queue)
    /\ loop_i' = loop_i + 1
    /\ LET p == Head(sleep_queue)
           e == pid_to_proc(p)
       IN  /\ sleep_time' = [sleep_time EXCEPT ![e] = @ - 1]
           /\ sleep_queue' = Append(Tail(sleep_queue), p)
           /\ \/ /\ e # None => sleep_time[e] >= 0
                 /\ UNCHANGED <<pc, state, cpu_time, scheduler_queue, run_queue>>
              \/ /\ e # None /\ sleep_time[e] < 0
                 /\ scheduler_add(e, "timer")
    /\ UNCHANGED <<active_proc, pid, proc_allocator, next_pid>>

\* One pass of the loop of scheduler_timer.  The bound of the loop is the
\* current size of the queue, which shrinks when a sleeper is woken.
SleepScan ==
    /\ pc = "timer"
    /\ loop_i < Len(sleep_queue)
    /\ loop_i' = loop_i + 1
    /\ LET p == Head(sleep_queue)
           e == pid_to_proc(p)
       IN  /\ sleep_time' = [sleep_time EXCEPT ![e] = @ - 1]
           /\ \/ /\ e # None => sleep_time[e] >= 0
                 /\ sleep_queue' = IF e = None THEN Tail(sleep_queue)
                                   ELSE Append(Tail(sleep_queue), p)
                 /\ UNCHANGED <<pc, state, cpu_time, scheduler_queue, run_queue>>
              \/ /\ e # None /\ sleep_time[e] < 0
                 /\ sleep_queue' = Tail(sleep_queue)
                 /\ scheduler_add(e, "timer")
    /\ UNCHANGED <<active_proc, pid, proc_allocator, next_pid>>

\* Mutant: the loop never gets to the last item.
SleepScanDoneEarly ==
    /\ pc = "timer"
    /\ loop_i + 1 >= Len(sleep_queue)
    /\ pc' = "sched"
    /\ UNCHANGED <<loop_i, active_proc, pcb, lists>>

SleepScanDone ==
    /\ pc = "timer"
    /\ loop_i >= Len(sleep_queue)
    /\ pc' = "sched"
    /\ UNCHANGED <<loop_i, active_proc, pcb, lists>>
-----------------------------------------------------------------------------
\* The process that scheduler_run takes off the queue `ready`, by default the
\* idle task, becomes active; states are the states before.  A queue beyond its
\* size, or no process, is a kernel_panic.
Dispatch(ready, states) ==
    LET next == pid_to_proc(IF ready = <<>> THEN 0 ELSE Head(ready))
    IN  /\ active_proc' = next
        /\ state' = [states EXCEPT ![next] = "ACTIVE"]
        /\ run_queue' = IF ready = <<>> THEN ready ELSE Tail(ready)
        /\ pc' = IF next = None \/ Len(ready) > QUEUE_SIZE THEN "halt" ELSE "user"

Scheduled == active_proc # None /\ state[active_proc] = "ACTIVE"

\* Mutants: the slice ends one tick late; the idle task is never unscheduled.
ExpiredLate    == cpu_time[active_proc] > SCHEDULER_TIMESLICE
ExpiredNotIdle == cpu_time[active_proc] >= SCHEDULER_TIMESLICE /\ pid[active_proc] # 0

Expired == cpu_time[active_proc] >= SCHEDULER_TIMESLICE

\* scheduler_run when the active process goes on.
RunKeep ==
    /\ pc = "sched"
    /\ Scheduled /\ ~Expired
    /\ pc' = "user"
    /\ UNCHANGED <<loop_i, active_proc, pcb, lists>>

\* Mutant: an expired process is put back without becoming idle first, and
\* the process at the head of the queue runs besides it.
RunPreemptStaysActive ==
    /\ pc = "sched"
    /\ Scheduled /\ Expired
    /\ cpu_time' = [cpu_time EXCEPT ![active_proc] = 0]
    /\ Dispatch(IF pid[active_proc] = 0 THEN run_queue
                ELSE Append(run_queue, pid[active_proc]), state)
    /\ UNCHANGED <<loop_i, pid, sleep_time, scheduler_queue, sleep_queue,
                   proc_allocator, next_pid>>

\* Mutant: an expired process is put back before those who wait.
RunPreemptInFront ==
    /\ pc = "sched"
    /\ Scheduled /\ Expired
    /\ cpu_time' = [cpu_time EXCEPT ![active_proc] = 0]
    /\ Dispatch(IF pid[active_proc] = 0 THEN run_queue
                ELSE <<pid[active_proc]>> \o run_queue,
                [state EXCEPT ![active_proc] = "IDLE"])
    /\ UNCHANGED <<loop_i, pid, sleep_time, scheduler_queue, sleep_queue,
                   proc_allocator, next_pid>>

\* scheduler_run when its time slice is used up: every process but the idle
\* task goes through scheduler_add to the end of the run queue.
RunPreempt ==
    /\ pc = "sched"
    /\ Scheduled /\ Expired
    /\ cpu_time' = [cpu_time EXCEPT ![active_proc] = 0]
    /\ scheduler_queue' = IF pid[active_proc] = 0 THEN scheduler_queue
                          ELSE [scheduler_queue EXCEPT ![active_proc] = "run"]
    /\ Dispatch(IF pid[active_proc] = 0 THEN run_queue
                ELSE Append(run_queue, pid[active_proc]),
                [state EXCEPT ![active_proc] = "IDLE"])
    /\ UNCHANGED <<loop_i, pid, sleep_time, sleep_queue, proc_allocator, next_pid>>

\* scheduler_run when no process is active, or the active one is no longer
\* in the state ACTIVE.
RunDispatch ==
    /\ pc = "sched"
    /\ ~Scheduled
    /\ Dispatch(run_queue, state)
    /\ UNCHANGED <<loop_i, pid, cpu_time, sleep_time, scheduler_queue,
                   sleep_queue, proc_allocator, next_pid>>
-----------------------------------------------------------------------------
\* A program's system call is about to run.  The idle task and the test
\* processes of Ctrl-N loop without a system call.
SystemCall == /\ pc = "user"
              /\ active_proc # None
              /\ pid[active_proc] \in Program

\* proc_sleep for t ticks: ksyscall_proc_sleep has multiplied the seconds of the
\* program by 100, which is not modelled.  The caller is active, so the early
\* return of scheduler_sleep for a process that sleeps already is never taken;
\* the return code of queue_in is ignored.
SysSleep(t) ==
    /\ SystemCall
    /\ LET e == active_proc
       IN  /\ sleep_time' = [sleep_time EXCEPT ![e] = t]
           /\ state' = [state EXCEPT ![e] = "SLEEPING"]
           /\ scheduler_queue' = [scheduler_queue EXCEPT ![e] = "sleep"]
           /\ run_queue' = Remaining("run", run_queue, e)
           /\ sleep_queue' = QueueIn(Remaining("sleep", sleep_queue, e), pid[e])
    /\ active_proc' = None
    /\ pc' = "sched"
    /\ UNCHANGED <<loop_i, pid, cpu_time, proc_allocator, next_pid>>

\* kproc_destroy(active_proc): out of the scheduler, the control block
\* cleared, the entry back to the allocator.
kproc_destroy ==
    LET e == active_proc
    IN  /\ run_queue' = Remaining("run", run_queue, e)
        /\ sleep_queue' = Remaining("sleep", sleep_queue, e)
        /\ proc_allocator' = QueueIn(proc_allocator, pid_to_proc(pid[e]))
        /\ pid' = [pid EXCEPT ![e] = 0]
        /\ state' = [state EXCEPT ![e] = "NONE"]
        /\ cpu_time' = [cpu_time EXCEPT ![e] = 0]
        /\ sleep_time' = [sleep_time EXCEPT ![e] = 0]
        /\ scheduler_queue' = [scheduler_queue EXCEPT ![e] = "none"]
        /\ active_proc' = None
        /\ pc' = "sched"
        /\ UNCHANGED <<loop_i, next_pid>>

\* proc_exit, which only the shells call.
SysExit == SystemCall /\ kproc_destroy

\* Ctrl-Q destroys whichever process is active, but never the idle task.  The
\* press of Ctrl was an interrupt of its own, so a process is scheduled by now.
KeyDestroy ==
    /\ pc = "user"
    /\ active_proc # None
    /\ pid[active_proc] # 0
    /\ kproc_destroy

\* kproc_create of a test process by Ctrl-N, when an entry is free.
KeyCreate ==
    /\ pc = "user"
    /\ active_proc # None
    /\ proc_allocator # <<>>
    /\ next_pid < MaxPid
    /\ LET e == Head(proc_allocator)
       IN  /\ pid' = [pid EXCEPT ![e] = next_pid]
           /\ sleep_time' = [sleep_time EXCEPT ![e] = 0]
           /\ state' = [state EXCEPT ![e] = "IDLE"]
           /\ cpu_time' = [cpu_time EXCEPT ![e] = 0]
           /\ scheduler_queue' = [scheduler_queue EXCEPT ![e] = "run"]
    /\ run_queue' = QueueIn(run_queue, next_pid)
    /\ pc' = IF Len(run_queue) = QUEUE_SIZE THEN "halt" ELSE "sched"
    /\ proc_allocator' = Tail(proc_allocator)
    /\ next_pid' = next_pid + 1
    /\ UNCHANGED <<loop_i, active_proc, sleep_queue>>

\* Every other kernel entry, which leaves processes alone: a key press, the
\* remaining system calls, Ctrl-N without a free entry, Ctrl-Q on the idle task.
OtherEntry ==
    /\ pc = "user"
    /\ pc' = "sched"
    /\ UNCHANGED <<loop_i, active_proc, pcb, lists>>
-----------------------------------------------------------------------------
SchedulerRun == RunKeep \/ RunPreempt \/ RunDispatch

Kernel == SleepScan \/ SleepScanDone \/ SchedulerRun

Next == \/ TimerIrq
        \/ Kernel
        \/ \E t \in SleepTicks : SysSleep(t)
        \/ SysExit
        \/ KeyDestroy
        \/ KeyCreate
        \/ OtherEntry

\* The kernel runs to its end.  The timer is raised for ever and the PIC keeps
\* a tick pending while interrupts are off, so it is not passed over for ever
\* by the system calls and keys that come first.
Fairness == WF_vars(Kernel) /\ SF_vars(TimerIrq)

Spec     == Init /\ [][Next]_vars
FairSpec == Spec /\ Fairness
-----------------------------------------------------------------------------
IsInjectiveSeq(q) == \A i, j \in 1 .. Len(q) : q[i] = q[j] => i = j
Holds(q, x)       == \E k \in 1 .. Len(q) : q[k] = x

\* Process ids name processes: the idle task keeps entry 0, free entries are
\* cleared, no id is in use twice and none is handed out again.
PidsUnique ==
    /\ pid[0] = 0 /\ state[0] \in {"IDLE", "ACTIVE"}
    /\ \A e \in Entry : state[e] = "NONE" => pid[e] = 0
    /\ \A e \in Entry \ {0} : state[e] # "NONE" => pid[e] \in 1 .. next_pid - 1
    /\ \A e, f \in Entry : state[e] # "NONE" /\ state[f] # "NONE"
                             /\ pid[e] = pid[f] => e = f

\* The process that active_proc points to is the one in state ACTIVE.
OneActive == \A e \in Entry : state[e] = "ACTIVE" <=> e = active_proc

\* The run queue holds every idle process once, and nothing else.  (The idle
\* task need not be queued: it runs when nobody else can.)
RunQueueExact ==
    /\ IsInjectiveSeq(run_queue)
    /\ \A p \in Pid : Holds(run_queue, p) =>
                       \E e \in Entry : pid[e] = p /\ state[e] = "IDLE"
    /\ \A e \in Entry \ {0} : state[e] = "IDLE" => Holds(run_queue, pid[e])

\* The sleep queue holds every sleeping process once, and nothing else.
SleepQueueExact ==
    /\ IsInjectiveSeq(sleep_queue)
    /\ \A p \in Pid : Holds(sleep_queue, p) =>
                       \E e \in Entry : pid[e] = p /\ state[e] = "SLEEPING"
    /\ \A e \in Entry : state[e] = "SLEEPING" => Holds(sleep_queue, pid[e])

\* The allocator holds every free entry once: entries are neither leaked nor
\* given to two processes.
EntriesConserved ==
    /\ IsInjectiveSeq(proc_allocator)
    /\ \A e \in Entry : state[e] = "NONE" <=> Holds(proc_allocator, e)

\* The queue a control block points to is the queue its process is in; the
\* active process keeps a pointer to the run queue though it is not in it.
QueuePointers ==
    \A e \in Entry :
        /\ scheduler_queue[e] = "sleep" <=> state[e] = "SLEEPING"
        /\ scheduler_queue[e] = "run" <=> state[e] \in {"IDLE", "ACTIVE"}

(* Each process is in exactly one place at every step of a kernel entry:    *)
(* active, in the run queue or in the sleep queue, and its table entry is   *)
(* used or free, never both.  A process in no queue would never run again,  *)
(* one in two queues would be dispatched twice.                             *)
Placement == /\ PidsUnique
             /\ OneActive
             /\ RunQueueExact
             /\ SleepQueueExact
             /\ EntriesConserved
             /\ QueuePointers

(* No kernel entry ends in kernel_panic: a queue never overflows and        *)
(* scheduler_run always finds a process ("Unable to schedule a process!").  *)
NeverPanics == pc # "halt"

(* A process in the run queue runs some day: round robin starves nobody,    *)
(* though processes sleep, exit and are created meanwhile.                  *)
EveryReadyRuns ==
    \A e \in Entry \ {0} : state[e] = "IDLE" ~> state[e] = "ACTIVE"

(* A sleeper is woken, although the loop of scheduler_timer leaves out      *)
(* some of the queue in a tick that wakes somebody.                         *)
SleepersWake ==
    \A e \in Entry : state[e] = "SLEEPING" ~> state[e] \in {"IDLE", "ACTIVE"}

(* The table, the queues of ids and the kernel entries implement round      *)
(* robin: ids become ready in an order and run in that order, whatever      *)
(* interrupts come in between and whatever entries are reused.              *)
RR == INSTANCE RoundRobin WITH
        Boot     <- NBoot,
        LastPid  <- MaxPid,
        running  <- IF active_proc = None THEN -1 ELSE pid[active_proc],
        ready    <- run_queue,
        sleeping <- {pid[e] : e \in {f \in Entry : state[f] = "SLEEPING"}},
        fresh    <- next_pid
ImplementsRoundRobin == RR!Spec
=============================================================================
