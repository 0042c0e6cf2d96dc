------------------------------- MODULE KMutex -------------------------------
(***************************************************************************)
(* The mutexes of src/kmutex.c on top of the scheduler: the table, the     *)
(* pool of free ids, and lock and unlock as the programs call them.        *)
(*                                                                         *)
(* The kernel does not check that an id is allocated when it locks, unlocks *)
(* or destroys a mutex: the programs are trusted to pass only ids they     *)
(* were given and have not destroyed, and that is assumed here.            *)
(***************************************************************************)
EXTENDS Scheduler

CONSTANT MUTEX_MAX   \* number of mutexes

ASSUME MutexAssumption == MUTEX_MAX \in Nat /\ MUTEX_MAX <= QUEUE_SIZE

VARIABLES
    allocated,    \* per mutex: 1 when it has been allocated
    locks,        \* per mutex: the holder and everybody who waits
    owner,        \* per mutex: table entry of the holder, or None
    wait_queue,   \* per mutex: pids, oldest first
    mutex_queue,  \* ids to be allocated
    locked        \* per entry: mutexes its program locked and has not unlocked

mutexes   == <<allocated, locks, owner, wait_queue, mutex_queue>>
mutexVars == <<mutexes, locked>>
allVars   == <<vars, mutexVars>>

Mutex == 0 .. MUTEX_MAX - 1

MutexTypeOK ==
    /\ SchedTypeOK
    /\ allocated \in [Mutex -> {0, 1}]
    /\ locks \in [Mutex -> 0 .. PROC_MAX]
    /\ owner \in [Mutex -> Entry \cup {None}]
    /\ wait_queue \in [Mutex -> Seq(Pid)]
    /\ mutex_queue \in Seq(Mutex)
    /\ locked \in [Entry -> SUBSET Mutex]
-----------------------------------------------------------------------------
\* kmutexes_init
MutexInit ==
    /\ Init
    /\ allocated = [m \in Mutex |-> 0]
    /\ locks = [m \in Mutex |-> 0]
    /\ owner = [m \in Mutex |-> None]
    /\ wait_queue = [m \in Mutex |-> <<>>]
    /\ mutex_queue = [k \in 1 .. MUTEX_MAX |-> k - 1]
    /\ locked = [e \in Entry |-> {}]

\* The tail of a system call that leaves the scheduler alone.
ReturnToScheduler == pc' = "sched" /\ UNCHANGED <<loop_i, active_proc, pcb, lists>>

\* Mutant: the id is read from the pool and left there.
InitKeepsId ==
    /\ SystemCall
    /\ ReturnToScheduler
    /\ Len(mutex_queue) > 1
    /\ LET m == Head(mutex_queue)
       IN  /\ allocated' = [allocated EXCEPT ![m] = 1]
           /\ locks' = [locks EXCEPT ![m] = 0]
           /\ owner' = [owner EXCEPT ![m] = None]
           /\ wait_queue' = [wait_queue EXCEPT ![m] = <<>>]
    /\ UNCHANGED <<mutex_queue, locked>>

\* kmutex_init: the last free id is taken off the pool, but -1 is returned
\* because the pool is empty by then.
kmutex_init ==
    /\ SystemCall
    /\ ReturnToScheduler
    /\ \/ /\ Len(mutex_queue) > 1
          /\ LET m == Head(mutex_queue)
             IN  /\ allocated' = [allocated EXCEPT ![m] = 1]
                 /\ locks' = [locks EXCEPT ![m] = 0]
                 /\ owner' = [owner EXCEPT ![m] = None]
                 /\ wait_queue' = [wait_queue EXCEPT ![m] = <<>>]
          /\ mutex_queue' = Tail(mutex_queue)
          /\ UNCHANGED locked
       \/ /\ Len(mutex_queue) <= 1
          /\ mutex_queue' = <<>>
          /\ UNCHANGED <<allocated, locks, owner, wait_queue, locked>>

\* Mutant: the lock count is not looked at.
DestroyLocked(m) ==
    /\ SystemCall
    /\ ReturnToScheduler
    /\ mutex_queue' = QueueIn(mutex_queue, m)
    /\ allocated' = [allocated EXCEPT ![m] = 0]
    /\ locks' = [locks EXCEPT ![m] = 0]
    /\ owner' = [owner EXCEPT ![m] = None]
    /\ wait_queue' = [wait_queue EXCEPT ![m] = <<>>]
    /\ UNCHANGED locked

\* Mutant: the table entry is not cleared when the id goes back to the pool.
DestroyKeepsEntry(m) ==
    /\ SystemCall
    /\ ReturnToScheduler
    /\ locks[m] = 0
    /\ mutex_queue' = QueueIn(mutex_queue, m)
    /\ UNCHANGED <<allocated, locks, owner, wait_queue, locked>>

kmutex_destroy(m) ==
    /\ SystemCall
    /\ ReturnToScheduler
    /\ \/ /\ locks[m] > 0
          /\ UNCHANGED mutexVars
       \/ /\ locks[m] = 0
          /\ mutex_queue' = QueueIn(mutex_queue, m)
          /\ allocated' = [allocated EXCEPT ![m] = 0]
          /\ owner' = [owner EXCEPT ![m] = None]
          /\ wait_queue' = [wait_queue EXCEPT ![m] = <<>>]
          /\ UNCHANGED <<locks, locked>>

\* Mutant: only the locks that wait count.
GrantNotCounted(m) ==
    /\ owner' = [owner EXCEPT ![m] = active_proc]
    /\ ReturnToScheduler
    /\ UNCHANGED <<locks, wait_queue>>

\* kmutex_lock of a free mutex: the caller takes it.
Grant(m) ==
    /\ locks' = [locks EXCEPT ![m] = 1]
    /\ owner' = [owner EXCEPT ![m] = active_proc]
    /\ ReturnToScheduler
    /\ UNCHANGED wait_queue

\* Mutant: the caller is queued but not taken out of the schedule.
BlockKeepsRunning(m) ==
    /\ locks' = [locks EXCEPT ![m] = @ + 1]
    /\ wait_queue' = [wait_queue EXCEPT ![m] = QueueIn(@, pid[active_proc])]
    /\ ReturnToScheduler
    /\ UNCHANGED owner

\* The caller leaves the scheduler: scheduler_remove.
TakeOff == /\ state' = [state EXCEPT ![active_proc] = "WAITING"]
           /\ run_queue' = Remaining("run", run_queue, active_proc)
           /\ sleep_queue' = Remaining("sleep", sleep_queue, active_proc)
           /\ scheduler_queue' = [scheduler_queue EXCEPT ![active_proc] = "none"]
           /\ active_proc' = None
           /\ pc' = "sched"
           /\ UNCHANGED <<loop_i, pid, cpu_time, sleep_time, proc_allocator, next_pid>>

\* Mutant: only the lock that is granted counts, not the one that waits.
BlockNotCounted(m) ==
    /\ wait_queue' = [wait_queue EXCEPT ![m] = QueueIn(@, pid[active_proc])]
    /\ TakeOff
    /\ UNCHANGED <<locks, owner>>

\* kmutex_lock of a locked mutex: the caller waits, even for a mutex it holds
\* itself.
Block(m) ==
    /\ locks' = [locks EXCEPT ![m] = @ + 1]
    /\ wait_queue' = [wait_queue EXCEPT ![m] = QueueIn(@, pid[active_proc])]
    /\ TakeOff
    /\ UNCHANGED owner

kmutex_lock(m) ==
    /\ SystemCall
    /\ \/ locks[m] = 0 /\ Grant(m)
       \/ locks[m] > 0 /\ Block(m)
    /\ locked' = [locked EXCEPT ![active_proc] = @ \cup {m}]
    /\ UNCHANGED <<allocated, mutex_queue>>

\* Mutant: the waiter is woken, but the mutex is left for anybody to take.
ReleaseForAnybody(m) ==
    /\ locked' = [locked EXCEPT ![active_proc] = @ \ {m}]
    /\ owner' = [owner EXCEPT ![m] = None]
    /\ locks' = [locks EXCEPT ![m] = @ - 1]
    /\ locks[m] > 1
    /\ wait_queue' = [wait_queue EXCEPT ![m] = Tail(@)]
    /\ scheduler_add(pid_to_proc(Head(wait_queue[m])), "sched")
    /\ UNCHANGED <<allocated, mutex_queue, loop_i, active_proc, pid, sleep_time,
                   sleep_queue, proc_allocator, next_pid>>

\* Mutant: the mutex is handed over, but the waiter stays out of the schedule.
ReleaseWakesNobody(m) ==
    /\ locks' = [locks EXCEPT ![m] = @ - 1]
    /\ locked' = [locked EXCEPT ![active_proc] = @ \ {m}]
    /\ owner' = [owner EXCEPT ![m] = IF wait_queue[m] = <<>> THEN None
                                     ELSE pid_to_proc(Head(wait_queue[m]))]
    /\ wait_queue' = [wait_queue EXCEPT ![m] = IF @ = <<>> THEN @ ELSE Tail(@)]
    /\ ReturnToScheduler
    /\ UNCHANGED <<allocated, mutex_queue>>

\* kmutex_unlock by the holder: the mutex goes to the process that has waited
\* longest, or becomes free.
Release(m) ==
    /\ locks' = [locks EXCEPT ![m] = @ - 1]
    /\ locked' = [locked EXCEPT ![active_proc] = @ \ {m}]
    /\ UNCHANGED <<allocated, mutex_queue>>
    /\ \/ /\ locks[m] = 1
          /\ owner' = [owner EXCEPT ![m] = None]
          /\ ReturnToScheduler
          /\ UNCHANGED wait_queue
       \/ /\ locks[m] > 1
          /\ LET next == IF wait_queue[m] = <<>> THEN None
                         ELSE pid_to_proc(Head(wait_queue[m]))
             IN  IF next = None
                 THEN ReturnToScheduler /\ UNCHANGED owner
                 ELSE /\ owner' = [owner EXCEPT ![m] = next]
                      /\ scheduler_add(next, "sched")
                      /\ UNCHANGED <<loop_i, active_proc, pid, sleep_time, sleep_queue,
                                     proc_allocator, next_pid>>
          /\ wait_queue' = [wait_queue EXCEPT ![m] = IF @ = <<>> THEN @ ELSE Tail(@)]

\* Mutant: anybody may unlock.
UnlockByAnybody(m) ==
    /\ SystemCall
    /\ locks[m] > 0
    /\ Release(m)

kmutex_unlock(m) ==
    /\ SystemCall
    /\ \/ /\ locks[m] > 0 /\ owner[m] = active_proc
          /\ Release(m)
       \/ /\ locks[m] = 0 \/ owner[m] # active_proc
          /\ ReturnToScheduler
          /\ UNCHANGED mutexVars

\* A process that is destroyed forgets what it locked; the mutexes do not.
SchedulerStep ==
    /\ Next
    /\ locked' = [e \in Entry |-> IF state'[e] = "NONE" THEN {} ELSE locked[e]]
    /\ UNCHANGED mutexes
-----------------------------------------------------------------------------
\* Programs that pass ids of mutexes they were given and have not destroyed.
MutexNext ==
    \/ SchedulerStep
    \/ kmutex_init
    \/ \E m \in Mutex : /\ allocated[m] = 1
                        /\ kmutex_destroy(m) \/ kmutex_lock(m) \/ kmutex_unlock(m)

MutexSpec == MutexInit /\ [][MutexNext]_allVars
-----------------------------------------------------------------------------
\* The process of entry e has locked m and is not waiting for it.
Inside(e, m) == m \in locked[e] /\ ~Holds(wait_queue[m], pid[e])

(* Two processes are never inside the same mutex, and the one inside is the *)
(* owner, so that its unlock is accepted: through hand-offs, processes that *)
(* are destroyed while they hold or before they are woken, reuse of their   *)
(* table entries and reuse of the ids of destroyed mutexes.                 *)
MutualExclusion == \A m \in Mutex, e \in Entry : Inside(e, m) => owner[m] = e

(* locks counts the holder and those who wait (kmutex.h "The current number *)
(* of locks held"): the count and the queue cannot drift apart, or unlock   *)
(* would free a mutex others wait for, or keep one that nobody holds.       *)
LockCount == \A m \in Mutex :
                \/ locks[m] = 0 /\ owner[m] = None /\ wait_queue[m] = <<>>
                \/ locks[m] = 1 + Len(wait_queue[m]) /\ owner[m] # None

(* A process in the state WAITING is in the wait queue of exactly one mutex *)
(* and once; a process in a wait queue is WAITING.  One that waits in no    *)
(* queue would never be woken.                                              *)
WaitersQueued ==
    /\ \A e \in Entry : state[e] = "WAITING" =>
          \E m \in Mutex : /\ Holds(wait_queue[m], pid[e])
                           /\ \A n \in Mutex \ {m} : ~Holds(wait_queue[n], pid[e])
    /\ \A m \in Mutex : /\ IsInjectiveSeq(wait_queue[m])
                        /\ \A p \in Pid : Holds(wait_queue[m], p) =>
                              \E e \in Entry : pid[e] = p /\ state[e] = "WAITING"

(* An id is handed out to one caller at a time: while it is allocated it is *)
(* not in the pool, and the pool holds no id twice.                         *)
IdsExclusive ==
    /\ IsInjectiveSeq(mutex_queue)
    /\ \A m \in Mutex : Holds(mutex_queue, m) => allocated[m] = 0

(* No barging: while somebody waits, a mutex passes from its holder to the  *)
(* process that has waited longest, in one step, whoever asks meanwhile;    *)
(* those who remain keep their order.                                       *)
HandOff ==
    [][\A m \in Mutex :
          wait_queue[m] # <<>> /\ owner'[m] # owner[m] =>
              /\ owner'[m] = pid_to_proc(Head(wait_queue[m]))
              /\ wait_queue'[m] = Tail(wait_queue[m])]_allVars

(* Every id is allocated or can be allocated (kmutex.c "Add the id back     *)
(* into the mutex queue to be re-used later", kmutex.h MUTEX_MAX "Maximum   *)
(* number of mutexes supported"): none is lost.                             *)
IdsConserved == \A m \in Mutex : allocated[m] = 1 \/ Holds(mutex_queue, m)
=============================================================================
