-------------------------------- MODULE KSem --------------------------------
(***************************************************************************)
(* The semaphores of src/ksem.c on top of the scheduler.                   *)
(*                                                                         *)
(* ksem_wait takes its caller out of the scheduler first, which sets       *)
(* active_proc to NULL, and only then writes active_proc->state and queues *)
(* active_proc->pid.  Paging is off, so nothing traps: the state of        *)
(* the caller stays ACTIVE, and the id that is queued is whatever the low  *)
(* memory holds where the pid of a PCB would be.  No code writes there, so *)
(* null_pid is chosen once.                                                *)
(***************************************************************************)
EXTENDS Scheduler

CONSTANTS SEM_MAX,      \* number of semaphores
          Values,       \* initial counts the programs ask for
          NullPids,     \* what may be read as NULL->pid
          MaxTokens     \* bound: no post to a semaphore with that many tokens

ASSUME SemAssumption ==
    /\ SEM_MAX \in Nat /\ SEM_MAX <= QUEUE_SIZE
    /\ Values \subseteq Nat
    /\ NullPids \subseteq Int
    /\ MaxTokens \in Nat

VARIABLES
    allocated,    \* per semaphore: 1 when it has been allocated
    count,        \* per semaphore: the current count
    wait_queue,   \* per semaphore: ids, oldest first
    sem_queue,    \* semaphore ids to be allocated
    null_pid,     \* the word of low memory read as NULL->pid
    blocked,      \* per entry: the semaphore whose wait took it off the CPU
    tokens        \* per semaphore: initial count and posts, less the waits that
                  \* were granted

sems    == <<allocated, count, wait_queue, sem_queue>>
semVars == <<sems, null_pid, blocked, tokens>>
allVars == <<vars, semVars>>

Sem == 0 .. SEM_MAX - 1

SemTypeOK ==
    /\ SchedTypeOK
    /\ allocated \in [Sem -> {0, 1}]
    /\ count \in [Sem -> Nat]
    /\ wait_queue \in [Sem -> Seq(Int)]
    /\ sem_queue \in Seq(Sem)
    /\ null_pid \in Int
    /\ blocked \in [Entry -> Sem \cup {None}]
    /\ tokens \in [Sem -> Nat]
-----------------------------------------------------------------------------
\* ksemaphores_init
SemInit ==
    /\ Init
    /\ allocated = [s \in Sem |-> 0]
    /\ count = [s \in Sem |-> 0]
    /\ wait_queue = [s \in Sem |-> <<>>]
    /\ sem_queue = [k \in 1 .. SEM_MAX |-> k - 1]
    /\ null_pid \in NullPids
    /\ blocked = [e \in Entry |-> None]
    /\ tokens = [s \in Sem |-> 0]

ReturnToScheduler == pc' = "sched" /\ UNCHANGED <<loop_i, active_proc, pcb, lists>>

ksem_init(value) ==
    /\ SystemCall
    /\ ReturnToScheduler
    /\ \/ /\ sem_queue # <<>>
          /\ LET s == Head(sem_queue)
             IN  /\ allocated' = [allocated EXCEPT ![s] = 1]
                 /\ count' = [count EXCEPT ![s] = value]
                 /\ tokens' = [tokens EXCEPT ![s] = value]
                 /\ wait_queue' = [wait_queue EXCEPT ![s] = <<>>]
          /\ sem_queue' = Tail(sem_queue)
          /\ UNCHANGED <<null_pid, blocked>>
       \/ /\ sem_queue = <<>>
          /\ UNCHANGED semVars

\* Mutant: an id that is free already is queued again.
DestroyUnallocated(s) ==
    /\ SystemCall
    /\ ReturnToScheduler
    /\ wait_queue[s] = <<>>
    /\ allocated' = [allocated EXCEPT ![s] = 0]
    /\ sem_queue' = QueueIn(sem_queue, s)
    /\ UNCHANGED <<count, wait_queue, null_pid, blocked, tokens>>

\* Mutant: a semaphore that processes wait on is destroyed.
DestroyAwaited(s) ==
    /\ SystemCall
    /\ ReturnToScheduler
    /\ allocated[s] = 1
    /\ allocated' = [allocated EXCEPT ![s] = 0]
    /\ sem_queue' = QueueIn(sem_queue, s)
    /\ UNCHANGED <<count, wait_queue, null_pid, blocked, tokens>>

ksem_destroy(s) ==
    /\ SystemCall
    /\ ReturnToScheduler
    /\ \/ /\ allocated[s] = 1 /\ wait_queue[s] = <<>>
          /\ allocated' = [allocated EXCEPT ![s] = 0]
          /\ sem_queue' = QueueIn(sem_queue, s)
          /\ UNCHANGED <<count, wait_queue, null_pid, blocked, tokens>>
       \/ /\ allocated[s] = 0 \/ wait_queue[s] # <<>>
          /\ UNCHANGED semVars

\* Mutant: the count is taken whether it is positive or not.
WaitUnchecked(s) ==
    /\ SystemCall
    /\ allocated[s] = 1
    /\ count' = [count EXCEPT ![s] = @ - 1]
    /\ tokens' = [tokens EXCEPT ![s] = @ - 1]
    /\ ReturnToScheduler
    /\ UNCHANGED <<allocated, wait_queue, sem_queue, null_pid, blocked>>

\* Mutant: a wait is granted, but the count stays.
WaitKeepsCount(s) ==
    /\ SystemCall
    /\ allocated[s] = 1 /\ count[s] > 0
    /\ tokens' = [tokens EXCEPT ![s] = @ - 1]
    /\ ReturnToScheduler
    /\ UNCHANGED <<count, allocated, wait_queue, sem_queue, null_pid, blocked>>

\* ksem_wait: a positive count is taken; else the caller leaves the CPU.
ksem_wait(s) ==
    /\ SystemCall
    /\ UNCHANGED <<allocated, sem_queue, null_pid>>
    /\ \/ /\ allocated[s] = 0
          /\ ReturnToScheduler
          /\ UNCHANGED <<count, wait_queue, blocked, tokens>>
       \/ /\ allocated[s] = 1 /\ count[s] > 0
          /\ count' = [count EXCEPT ![s] = @ - 1]
          /\ tokens' = [tokens EXCEPT ![s] = @ - 1]
          /\ ReturnToScheduler
          /\ UNCHANGED <<wait_queue, blocked>>
       \/ /\ allocated[s] = 1 /\ count[s] = 0
          /\ run_queue' = Remaining("run", run_queue, active_proc)
          /\ sleep_queue' = Remaining("sleep", sleep_queue, active_proc)
          /\ scheduler_queue' = [scheduler_queue EXCEPT ![active_proc] = "none"]
          /\ active_proc' = None
          /\ wait_queue' = [wait_queue EXCEPT ![s] = QueueIn(@, null_pid)]
          /\ blocked' = [blocked EXCEPT ![active_proc] = s]
          /\ pc' = "sched"
          /\ UNCHANGED <<loop_i, pid, state, cpu_time, sleep_time, proc_allocator,
                         next_pid, count, tokens>>

\* The id that ksem_post takes off the wait queue is used as an index of the
\* table; the process it finds there runs, whatever it was doing.
Wake(s, p) ==
    /\ wait_queue' = [wait_queue EXCEPT ![s] = Tail(@)]
    /\ \/ /\ p \in Entry /\ state[p] # "NONE"
          /\ scheduler_add(p, "sched")
          /\ blocked' = [blocked EXCEPT ![p] = None]
          /\ tokens' = [tokens EXCEPT ![s] = IF blocked[p] = s THEN @ ELSE @ + 1]
          /\ UNCHANGED <<count, loop_i, active_proc, pid, sleep_time, sleep_queue,
                         proc_allocator, next_pid>>
       \/ /\ p \notin Entry \/ (p \in Entry /\ state[p] = "NONE")
          /\ ReturnToScheduler
          /\ count' = [count EXCEPT ![s] = @ + 1]
          /\ tokens' = [tokens EXCEPT ![s] = @ + 1]
          /\ UNCHANGED blocked

\* Mutant: the count is not given back when a waiter is woken.
PostKeepsCount(s) ==
    /\ SystemCall
    /\ allocated[s] = 1 /\ wait_queue[s] # <<>> /\ tokens[s] < MaxTokens
    /\ LET p == Head(wait_queue[s])
       IN  /\ p \in Entry /\ state[p] # "NONE"
           /\ scheduler_add(p, "sched")
           /\ blocked' = [blocked EXCEPT ![p] = None]
           /\ tokens' = [tokens EXCEPT ![s] = IF blocked[p] = s THEN @ ELSE @ + 1]
    /\ count' = [count EXCEPT ![s] = @ + 1]
    /\ wait_queue' = [wait_queue EXCEPT ![s] = Tail(@)]
    /\ UNCHANGED <<allocated, sem_queue, null_pid, loop_i, active_proc, pid, sleep_time,
                   sleep_queue, proc_allocator, next_pid>>

ksem_post(s) ==
    /\ SystemCall
    /\ UNCHANGED <<allocated, sem_queue, null_pid>>
    /\ \/ /\ allocated[s] = 0
          /\ ReturnToScheduler
          /\ UNCHANGED <<count, wait_queue, blocked, tokens>>
       \/ /\ allocated[s] = 1 /\ wait_queue[s] = <<>> /\ tokens[s] < MaxTokens
          /\ count' = [count EXCEPT ![s] = @ + 1]
          /\ tokens' = [tokens EXCEPT ![s] = @ + 1]
          /\ ReturnToScheduler
          /\ UNCHANGED <<wait_queue, blocked>>
       \/ /\ allocated[s] = 1 /\ wait_queue[s] # <<>> /\ tokens[s] < MaxTokens
          /\ Wake(s, Head(wait_queue[s]))

\* A process that is destroyed or created anew waits for nothing.
SchedulerStep ==
    /\ Next
    /\ blocked' = [e \in Entry |-> IF state'[e] = "NONE" THEN None ELSE blocked[e]]
    /\ UNCHANGED <<sems, null_pid, tokens>>

\* The kernel checks the id of every call, so the programs may pass any.
SemNext ==
    \/ SchedulerStep
    \/ \E v \in Values : ksem_init(v)
    \/ \E s \in Sem : ksem_destroy(s) \/ ksem_wait(s) \/ ksem_post(s)

SemSpec == SemInit /\ [][SemNext]_allVars
-----------------------------------------------------------------------------
(* Every semaphore is allocated or waits in the pool once: no id is handed  *)
(* to two programs and none is lost, whatever ids the programs pass.        *)
SemIdsExact ==
    /\ IsInjectiveSeq(sem_queue)
    /\ \A s \in Sem : allocated[s] = 0 <=> Holds(sem_queue, s)

(* The kernel never grants more waits than the initial count and the posts  *)
(* allow: a post that wakes a waiter hands its token over and does not also *)
(* leave it in the count.                                                   *)
NoTokenCreated == \A s \in Sem : allocated[s] = 1 => count[s] <= tokens[s]

(* A semaphore goes back to the pool only when nobody is queued on it, so   *)
(* its next user never inherits somebody else's waiters.                    *)
PoolHasNoWaiters == \A s \in Sem : allocated[s] = 0 => wait_queue[s] = <<>>

(* ksem.c: "If the semaphore count is 0, then the process must wait: set    *)
(* the state to WAITING, add to the semaphore's wait queue, remove from the *)
(* scheduler."  A process that sem_wait took off the CPU is WAITING and     *)
(* queued on its semaphore, so that a post can wake it.                     *)
BlockedAreQueued ==
    \A e \in Entry : blocked[e] # None =>
        /\ state[e] = "WAITING"
        /\ Holds(wait_queue[blocked[e]], pid[e])
=============================================================================
