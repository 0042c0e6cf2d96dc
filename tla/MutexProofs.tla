----------------------------- MODULE MutexProofs -----------------------------
(***************************************************************************)
(* The mutexes for every number of processes and of mutexes, over all      *)
(* interleavings of their calls with the scheduler: who is inside, who     *)
(* waits, and which ids are free.  None of the four properties is          *)
(* inductive on its own: a hand-off keeps MutualExclusion because waiters  *)
(* are found through their pids (WaitersQueued, and PidsUnique of the      *)
(* scheduler), and kmutex_init, which clears the entry it hands out,       *)
(* strands nobody because an id of the pool is not locked (PoolUnlocked).  *)
(*                                                                         *)
(* The second half is about the shells, for every number of processes,     *)
(* mutexes and shared ids.  A step of theirs is a step that KMutex allows, *)
(* because the only ids they pass are -1, which is refused, and ids of     *)
(* allocated mutexes (SharedIdsValid); so everything proved about mutexes  *)
(* holds there too.  ReadersExclusive follows by looking at what a shell   *)
(* has locked where it uses the terminal (LockedInside).                   *)
(***************************************************************************)
EXTENDS Shell, SchedulerProofs

\* An id of the pool is not locked, or kmutex_init would lose its waiters.
PoolUnlocked == \A m \in Mutex : allocated[m] = 0 => locks[m] = 0

\* A free table entry has locked nothing, so its next process starts clean.
FreeHoldsNothing == \A e \in Entry : state[e] = "NONE" => locked[e] = {}

MInv == /\ IInv
        /\ MutexTypeOK
        /\ LockCount
        /\ WaitersQueued
        /\ IdsExclusive
        /\ MutualExclusion
        /\ PoolUnlocked
        /\ FreeHoldsNothing
-----------------------------------------------------------------------------
\* A call of the mutexes that moves no process is to the scheduler what any
\* other kernel entry is.
LEMMA ReturnInv ==
    ASSUME IInv, SystemCall, ReturnToScheduler
    PROVE  /\ IInv'
           /\ UNCHANGED <<pid, state, active_proc>>
<1>1. OtherEntry
  BY DEF SystemCall, ReturnToScheduler, OtherEntry
<1>2. IInv'
  BY <1>1, ControlInv
<1> QED BY <1>2 DEF ReturnToScheduler, pcb

\* The process that makes a system call is the one in state ACTIVE.
LEMMA Caller ==
    ASSUME IInv, SystemCall
    PROVE  /\ active_proc \in Entry
           /\ active_proc # 0
           /\ state[active_proc] = "ACTIVE"
           /\ pid[active_proc] \in Pid
<1>1. SchedTypeOK /\ Placement /\ PidsUnique /\ active_proc # None
  BY DEF IInv, Placement, SystemCall
<1>2. pid[active_proc] # 0
  BY SchedulerAssumption DEF SystemCall, Program
<1> QED BY <1>1, <1>2, ActiveNotQueued DEF SchedTypeOK, PidsUnique

\* A caller that has to wait is in no queue of the scheduler.
LEMMA TakeOffInv ==
    ASSUME IInv, SystemCall, TakeOff
    PROVE  /\ IInv'
           /\ pid' = pid
           /\ state' = [state EXCEPT ![active_proc] = "WAITING"]
<1> DEFINE a == active_proc
<1>0. SchedTypeOK /\ Placement /\ PidsUnique /\ a # None
  BY DEF IInv, Placement, SystemCall
<1>1. a \in Entry /\ state[a] = "ACTIVE" /\ pid[a] \in Pid /\ a # 0
  BY Caller
<1>2. /\ UNCHANGED <<loop_i, pid, cpu_time, sleep_time, run_queue, sleep_queue,
                     proc_allocator, next_pid>>
      /\ state' = [state EXCEPT ![a] = "WAITING"]
      /\ scheduler_queue' = [scheduler_queue EXCEPT ![a] = "none"]
      /\ active_proc' = None /\ pc' = "sched"
  BY <1>0, ActiveNotQueued DEF TakeOff
<1> HIDE DEF a
<1>3. \A f \in Entry : state'[f] = IF f = a THEN "WAITING" ELSE state[f]
  BY <1>0, <1>1, <1>2 DEF SchedTypeOK
<1>4. SchedTypeOK'
  <2>1. /\ state' \in [Entry -> State]
        /\ scheduler_queue' \in [Entry -> {"none", "run", "sleep"}]
    BY <1>0, <1>2 DEF SchedTypeOK, State
  <2> QED BY <1>0, <1>2, <2>1 DEF SchedTypeOK
<1>5. PidsUnique'
  BY <1>0, <1>1, <1>2, <1>3, LookupIdle DEF PidsUnique
<1>6. OneActive'
  BY <1>0, <1>2, <1>3 DEF Placement, OneActive, Entry, None, a
<1>7. RunQueueExact'
  BY <1>0, <1>1, <1>2, <1>3 DEF Placement, RunQueueExact
<1>8. SleepQueueExact'
  BY <1>0, <1>1, <1>2, <1>3 DEF Placement, SleepQueueExact
<1>9. EntriesConserved'
  BY <1>0, <1>1, <1>2, <1>3 DEF Placement, EntriesConserved
<1>10. QueuePointers'
  BY <1>0, <1>1, <1>2, <1>3 DEF SchedTypeOK, Placement, QueuePointers
<1>11. SliceInv' /\ NeverPanics'
  BY <1>2, <1>3 DEF IInv, SliceInv, NeverPanics
<1> QED BY <1>2, <1>4, <1>5, <1>6, <1>7, <1>8, <1>9, <1>10, <1>11 DEF IInv, Placement, a

\* scheduler_add of a process that waits puts it into the run queue, where it
\* was not, and there is room for it.
LEMMA WakeInv ==
    ASSUME IInv, NEW e \in Entry, state[e] = "WAITING", scheduler_add(e, "sched"),
           UNCHANGED <<loop_i, active_proc, pid, sleep_time, sleep_queue,
                       proc_allocator, next_pid>>
    PROVE  /\ IInv'
           /\ state' = [state EXCEPT ![e] = "IDLE"]
<1>0. SchedTypeOK /\ Placement /\ PidsUnique /\ RunQueueExact
  BY DEF IInv, Placement
<1>1. e # 0 /\ e # active_proc /\ pid[e] \in Pid
  BY <1>0 DEF PidsUnique, Placement, OneActive, SchedTypeOK
<1>2. Len(run_queue) < QUEUE_SIZE /\ Len(run_queue) \in Nat /\ run_queue \in Seq(Pid)
  BY <1>0, Room, LenProperties DEF SchedTypeOK
<1>3. /\ run_queue' = Append(run_queue, pid[e])
      /\ state' = [state EXCEPT ![e] = "IDLE"]
      /\ cpu_time' = [cpu_time EXCEPT ![e] = 0]
      /\ scheduler_queue' = [scheduler_queue EXCEPT ![e] = "run"]
      /\ pc' = "sched"
  BY <1>2, SchedulerAssumption DEF scheduler_add, QueueIn
<1>4. ~Holds(run_queue, pid[e])
  <2> SUFFICES ASSUME Holds(run_queue, pid[e]) PROVE FALSE
    OBVIOUS
  <2>1. state[pid_to_proc(pid[e])] = "IDLE"
    BY <1>0, <1>1, LookupReady
  <2> QED BY <2>1, <1>0, Lookup
<1>5. /\ run_queue' \in Seq(Pid)
      /\ IsInjectiveSeq(run_queue')
      /\ \A y : Holds(run_queue', y) <=> Holds(run_queue, y) \/ y = pid[e]
  BY <1>0, <1>1, <1>2, <1>3, <1>4, AppendHolds DEF RunQueueExact
<1>6. \A f \in Entry : state'[f] = IF f = e THEN "IDLE" ELSE state[f]
  BY <1>0, <1>3 DEF SchedTypeOK
<1>7. SchedTypeOK'
  <2>1. cpu_time' \in [Entry -> 0 .. SCHEDULER_TIMESLICE]
    <3>1. 0 \in 0 .. SCHEDULER_TIMESLICE
      BY SchedulerAssumption
    <3> QED BY <3>1, <1>0, <1>3 DEF SchedTypeOK
  <2>2. state' \in [Entry -> State] /\ scheduler_queue' \in [Entry -> {"none", "run", "sleep"}]
    BY <1>0, <1>3 DEF SchedTypeOK, State
  <2> QED BY <1>0, <1>3, <1>5, <2>1, <2>2 DEF SchedTypeOK
<1>8. PidsUnique'
  BY <1>0, <1>1, <1>6, LookupIdle DEF PidsUnique
<1>9. OneActive'
  BY <1>0, <1>1, <1>6 DEF Placement, OneActive
<1>10. RunQueueExact'
  <2>1. ASSUME NEW q \in Pid, Holds(run_queue', q)
        PROVE  \E f \in Entry : pid'[f] = q /\ state'[f] = "IDLE"
    <3>1. CASE q = pid[e]
      BY <3>1, <1>6
    <3>2. CASE Holds(run_queue, q)
      BY <3>2, <1>0, <1>6 DEF RunQueueExact
    <3> QED BY <2>1, <1>5, <3>1, <3>2
  <2>2. ASSUME NEW f \in Entry \ {0}, state'[f] = "IDLE" PROVE Holds(run_queue', pid'[f])
    BY <2>2, <1>0, <1>5, <1>6 DEF RunQueueExact
  <2> QED BY <1>5, <2>1, <2>2 DEF RunQueueExact
<1>11. SleepQueueExact'
  BY <1>0, <1>6 DEF Placement, SleepQueueExact
<1>12. EntriesConserved'
  BY <1>0, <1>6 DEF Placement, EntriesConserved
<1>13. QueuePointers'
  BY <1>0, <1>3, <1>6 DEF SchedTypeOK, Placement, QueuePointers
<1>14. SliceInv' /\ NeverPanics'
  BY <1>0, <1>1, <1>3, <1>6 DEF IInv, SliceInv, NeverPanics, SchedTypeOK
<1> QED BY <1>3, <1>7, <1>8, <1>9, <1>10, <1>11, <1>12, <1>13, <1>14 DEF IInv, Placement

\* No step of the scheduler wakes a process that waits for a mutex, puts one
\* to wait, or changes the pid of a process.
LEMMA SchedulerKeeps ==
    ASSUME IInv, Next
    PROVE  \A e \in Entry :
              /\ state'[e] = "WAITING" <=> state[e] = "WAITING"
              /\ state[e] # "NONE" /\ state'[e] # "NONE" => pid'[e] = pid[e]
<1>0. SchedTypeOK /\ Placement /\ IInv' /\ QueuePointers'
  BY NextInv DEF IInv, Placement
<1>1. CASE UNCHANGED <<pid, state>>
  BY <1>1
<1>2. CASE SleepScan
  <2> DEFINE p == Head(sleep_queue)
             e == pid_to_proc(p)
  <2>1. sleep_queue \in Seq(Pid) /\ sleep_queue # <<>> /\ IsInjectiveSeq(sleep_queue)
    <3>1. sleep_queue \in Seq(Pid) /\ IsInjectiveSeq(sleep_queue) /\ loop_i \in Nat
      BY <1>0 DEF SchedTypeOK, Placement, SleepQueueExact
    <3>2. loop_i < Len(sleep_queue)
      BY <1>2 DEF SleepScan
    <3> QED BY <3>1, <3>2
  <2>2. p \in Pid /\ Holds(sleep_queue, p)
    BY <2>1, TailHolds
  <2>3. e \in Entry /\ state[e] = "SLEEPING"
    BY <1>0, <2>2, LookupSleeper DEF Placement
  <2>4. pid' = pid /\ (state' = state \/ state' = [state EXCEPT ![e] = "IDLE"])
    BY <1>2 DEF SleepScan, scheduler_add
  <2> QED BY <1>0, <2>3, <2>4 DEF SchedTypeOK
<1>3. CASE RunDispatch \/ RunPreempt
  <2>1. /\ pid' = pid
        /\ \/ /\ state' = [state EXCEPT ![active_proc'] = "ACTIVE"]
              /\ scheduler_queue' = scheduler_queue
           \/ /\ state' = [[state EXCEPT ![active_proc] = "IDLE"]
                              EXCEPT ![active_proc'] = "ACTIVE"]
              /\ active_proc \in Entry /\ state[active_proc] = "ACTIVE"
              /\ \/ scheduler_queue' = scheduler_queue
                 \/ scheduler_queue' = [scheduler_queue EXCEPT ![active_proc] = "run"]
    BY <1>0, <1>3, ActiveNotQueued DEF RunDispatch, RunPreempt, Dispatch, Scheduled
  <2>2. ASSUME NEW e \in Entry
        PROVE  state'[e] = "WAITING" <=> state[e] = "WAITING"
    <3>1. CASE state[e] = "WAITING"
      <4>1. scheduler_queue'[e] = scheduler_queue[e] /\ scheduler_queue[e] # "run"
        BY <3>1, <1>0, <2>1 DEF SchedTypeOK, Placement, QueuePointers
      <4>2. state'[e] # "ACTIVE"
        BY <4>1, <1>0 DEF QueuePointers
      <4> QED BY <3>1, <4>2, <1>0, <2>1 DEF SchedTypeOK
    <3>2. CASE state[e] # "WAITING"
      BY <3>2, <1>0, <2>1 DEF SchedTypeOK
    <3> QED BY <3>1, <3>2
  <2> QED BY <2>1, <2>2
<1>4. CASE (\E t \in SleepTicks : SysSleep(t)) \/ SysExit \/ KeyDestroy
  <2>1. active_proc \in Entry /\ state[active_proc] = "ACTIVE"
    BY <1>0, <1>4, ActiveNotQueued DEF SysSleep, SysExit, SystemCall, KeyDestroy
  <2>2. \/ pid' = pid /\ state' = [state EXCEPT ![active_proc] = "SLEEPING"]
        \/ /\ pid' = [pid EXCEPT ![active_proc] = 0]
           /\ state' = [state EXCEPT ![active_proc] = "NONE"]
    BY <1>4 DEF SysSleep, SysExit, KeyDestroy, kproc_destroy
  <2> QED BY <1>0, <2>1, <2>2 DEF SchedTypeOK
<1>5. CASE KeyCreate
  <2> DEFINE e == Head(proc_allocator)
  <2>1. e \in Entry /\ state[e] = "NONE"
    <3>1. /\ proc_allocator \in Seq(Entry) /\ IsInjectiveSeq(proc_allocator)
          /\ proc_allocator # <<>>
      BY <1>0, <1>5 DEF SchedTypeOK, Placement, EntriesConserved, KeyCreate
    <3>2. e \in Entry /\ Holds(proc_allocator, e)
      BY <3>1, TailHolds
    <3> QED BY <3>2, <1>0 DEF Placement, EntriesConserved
  <2>2. pid' = [pid EXCEPT ![e] = next_pid] /\ state' = [state EXCEPT ![e] = "IDLE"]
    BY <1>5 DEF KeyCreate
  <2> QED BY <1>0, <2>1, <2>2 DEF SchedTypeOK
<1>6. CASE TimerIrq \/ SleepScanDone \/ RunKeep \/ OtherEntry
  BY <1>1, <1>6 DEF TimerIrq, SleepScanDone, RunKeep, OtherEntry, pcb
<1> QED BY <1>2, <1>3, <1>4, <1>5, <1>6 DEF Next, Kernel, SchedulerRun
-----------------------------------------------------------------------------
\* A wait queue has room for its caller: it holds each waiter once, and neither
\* the idle task nor the caller waits.
LEMMA WaitRoom ==
    ASSUME MInv, SystemCall, NEW m \in Mutex
    PROVE  /\ Len(wait_queue[m]) \in Nat
           /\ Len(wait_queue[m]) + 1 < PROC_MAX
           /\ Len(wait_queue[m]) # QUEUE_SIZE
<1> DEFINE q == wait_queue[m]
           T == {e \in Entry : state[e] = "WAITING"}
<1>1. q \in Seq(Pid) /\ IsInjectiveSeq(q) /\ pid \in [Entry -> Pid]
  BY DEF MInv, MutexTypeOK, SchedTypeOK, WaitersQueued
<1>2. active_proc \in Entry /\ active_proc # 0 /\ active_proc \notin T
  BY Caller DEF MInv
<1>3. 0 \in Entry /\ 0 \notin T
  BY SchedulerAssumption DEF MInv, IInv, Placement, PidsUnique, Entry
<1>4. \A x \in Pid : Holds(q, x) => \E e \in T : pid[e] = x
  BY DEF MInv, WaitersQueued
<1>5. T \in SUBSET Entry
  OBVIOUS
<1> HIDE DEF T, q
<1>6. Len(q) \in Nat /\ Cardinality(T) \in Nat /\ Len(q) <= Cardinality(T)
  BY <1>1, <1>4, <1>5, QueueCount
<1>7. IsFiniteSet(T) /\ IsFiniteSet(Entry) /\ Cardinality(Entry) = PROC_MAX
  BY <1>5, EntryCount, FS_Subset
<1>8. /\ IsFiniteSet(T \cup {0}) /\ Cardinality(T \cup {0}) = Cardinality(T) + 1
  BY <1>3, <1>7, FS_AddElement
<1>9. T \cup {0} \in SUBSET Entry /\ T \cup {0} # Entry
  BY <1>2, <1>3, <1>5
<1>10. /\ Cardinality(T \cup {0}) <= Cardinality(Entry)
       /\ Cardinality(T \cup {0}) # Cardinality(Entry)
  BY <1>7, <1>9, FS_Subset
<1>11. Len(q) + 1 < PROC_MAX
  BY <1>6, <1>7, <1>8, <1>10, SchedulerAssumption
<1>12. Len(q) # QUEUE_SIZE
  BY <1>6, <1>11, SchedulerAssumption
<1> QED BY <1>6, <1>11, <1>12 DEF q

\* Whose pid is in a wait queue waits, unless its entry is free.
LEMMA WhoWaits ==
    ASSUME MInv, NEW e \in Entry, state[e] # "NONE",
           NEW m \in Mutex, Holds(wait_queue[m], pid[e])
    PROVE  state[e] = "WAITING"
<1>1. pid[e] \in Pid /\ PidsUnique
  BY DEF MInv, IInv, SchedTypeOK, Placement
<1>2. PICK f \in Entry : pid[f] = pid[e] /\ state[f] = "WAITING"
  BY <1>1 DEF MInv, WaitersQueued
<1> QED BY <1>1, <1>2 DEF PidsUnique

\* A step of the scheduler after which some programs have forgotten what they
\* locked, those whose entries are free among them, keeps the invariant.
LEMMA ForgetInv ==
    ASSUME MInv, Next, UNCHANGED mutexes,
           locked' \in [Entry -> SUBSET Mutex],
           \A e \in Entry : locked'[e] \subseteq locked[e],
           \A e \in Entry : state'[e] = "NONE" => locked'[e] = {}
    PROVE  MInv'
<1>1. IInv /\ IInv'
  BY NextInv DEF MInv
<1>2. \A e \in Entry :
         /\ state'[e] = "WAITING" <=> state[e] = "WAITING"
         /\ state[e] # "NONE" /\ state'[e] # "NONE" => pid'[e] = pid[e]
  BY <1>1, SchedulerKeeps
<1>3. UNCHANGED <<allocated, locks, owner, wait_queue, mutex_queue>>
  BY DEF mutexes
<1>4. MutexTypeOK'
  BY <1>1, <1>3 DEF MInv, IInv, MutexTypeOK
<1>5. WaitersQueued'
  BY <1>2, <1>3 DEF MInv, WaitersQueued
<1>6. MutualExclusion'
  <2> SUFFICES ASSUME NEW m \in Mutex, NEW e \in Entry, Inside(e, m)'
               PROVE  owner'[m] = e
    BY DEF MutualExclusion
  <2>1. m \in locked[e] /\ state[e] # "NONE" /\ state'[e] # "NONE"
    BY DEF Inside, MInv, FreeHoldsNothing
  <2>2. Inside(e, m)
    BY <1>2, <1>3, <2>1 DEF Inside
  <2> QED BY <1>3, <2>2 DEF MInv, MutualExclusion
<1>7. LockCount' /\ IdsExclusive' /\ PoolUnlocked' /\ FreeHoldsNothing'
  BY <1>3 DEF MInv, LockCount, IdsExclusive, PoolUnlocked, FreeHoldsNothing
<1> QED BY <1>1, <1>4, <1>5, <1>6, <1>7 DEF MInv

\* A step of the scheduler: who was destroyed has locked nothing any more.
LEMMA SchedulerStepInv == MInv /\ SchedulerStep => MInv'
<1> SUFFICES ASSUME MInv, SchedulerStep PROVE MInv'
  OBVIOUS
<1>1. /\ Next /\ UNCHANGED mutexes
      /\ locked' = [e \in Entry |-> IF state'[e] = "NONE" THEN {} ELSE locked[e]]
      /\ locked \in [Entry -> SUBSET Mutex]
  BY DEF SchedulerStep, MInv, MutexTypeOK
<1>2. locked' \in [Entry -> SUBSET Mutex]
  BY <1>1
<1> QED BY <1>1, <1>2, ForgetInv

\* A mutex that nobody has locked has no owner and no waiters, so that clearing
\* its entry (kmutex_init, kmutex_destroy) changes nothing but `allocated`.
LEMMA AtRest ==
    ASSUME MInv, NEW m \in Mutex, locks[m] = 0
    PROVE  owner[m] = None /\ wait_queue[m] = <<>> /\ \A e \in Entry : m \notin locked[e]
<1>1. owner[m] = None /\ wait_queue[m] = <<>>
  <2>1. Len(wait_queue[m]) \in Nat
    BY LenProperties DEF MInv, MutexTypeOK
  <2>2. locks[m] # 1 + Len(wait_queue[m])
    BY <2>1
  <2> QED BY <2>2 DEF MInv, LockCount
<1>2. ASSUME NEW e \in Entry, m \in locked[e] PROVE FALSE
  <2>1. ~Holds(wait_queue[m], pid[e])
    BY <1>1 DEF Holds
  <2>2. owner[m] = e
    BY <1>2, <2>1 DEF MInv, MutualExclusion, Inside
  <2> QED BY <1>1, <2>2 DEF Entry, None
<1> QED BY <1>1, <1>2

\* kmutex_init hands out the id at the head of the pool, or none.
LEMMA InitCallInv == MInv /\ kmutex_init => MInv'
<1> SUFFICES ASSUME MInv, kmutex_init PROVE MInv'
  OBVIOUS
<1>1. IInv' /\ UNCHANGED <<pid, state, active_proc>>
  BY ReturnInv DEF kmutex_init, MInv
<1>2. mutex_queue \in Seq(Mutex) /\ IsInjectiveSeq(mutex_queue)
  BY DEF MInv, MutexTypeOK, IdsExclusive
<1>3. CASE Len(mutex_queue) > 1
  <2> DEFINE m == Head(mutex_queue)
  <2>1. mutex_queue # <<>>
    BY <1>2, <1>3
  <2>2. /\ Tail(mutex_queue) \in Seq(Mutex) /\ m \in Mutex
        /\ Holds(mutex_queue, m) /\ IsInjectiveSeq(Tail(mutex_queue))
        /\ \A y : Holds(Tail(mutex_queue), y) <=> Holds(mutex_queue, y) /\ y # m
    BY <1>2, <2>1, TailHolds
  <2>3. allocated[m] = 0 /\ locks[m] = 0
    BY <2>2 DEF MInv, IdsExclusive, PoolUnlocked
  <2>4. owner[m] = None /\ wait_queue[m] = <<>>
    BY <2>2, <2>3, AtRest
  <2>5. /\ allocated' = [allocated EXCEPT ![m] = 1]
        /\ locks' = [locks EXCEPT ![m] = 0]
        /\ owner' = [owner EXCEPT ![m] = None]
        /\ wait_queue' = [wait_queue EXCEPT ![m] = <<>>]
        /\ mutex_queue' = Tail(mutex_queue)
        /\ locked' = locked
    BY <1>2, <1>3 DEF kmutex_init
  <2> HIDE DEF m
  <2>6. locks' = locks /\ owner' = owner /\ wait_queue' = wait_queue
    BY <2>2, <2>3, <2>4, <2>5 DEF MInv, MutexTypeOK
  <2>7. allocated' \in [Mutex -> {0, 1}] /\ \A n \in Mutex : n # m => allocated'[n] = allocated[n]
    BY <2>5 DEF MInv, MutexTypeOK
  <2>8. MutexTypeOK'
    BY <1>1, <2>2, <2>5, <2>6, <2>7 DEF MInv, IInv, MutexTypeOK
  <2>9. IdsExclusive'
    <3>1. \A n \in Mutex : Holds(mutex_queue', n) => allocated'[n] = 0
      BY <2>2, <2>5, <2>7 DEF MInv, IdsExclusive
    <3> QED BY <2>2, <2>5, <3>1 DEF IdsExclusive
  <2>10. PoolUnlocked'
    BY <2>3, <2>6, <2>7 DEF MInv, PoolUnlocked
  <2>11. LockCount' /\ WaitersQueued' /\ MutualExclusion' /\ FreeHoldsNothing'
    BY <1>1, <2>5, <2>6
       DEF MInv, LockCount, WaitersQueued, MutualExclusion, Inside, FreeHoldsNothing
  <2> QED BY <1>1, <2>8, <2>9, <2>10, <2>11 DEF MInv
<1>4. CASE ~(Len(mutex_queue) > 1)
  <2>1. /\ mutex_queue' = <<>>
        /\ UNCHANGED <<allocated, locks, owner, wait_queue, locked>>
    BY <1>4 DEF kmutex_init
  <2>2. MutexTypeOK'
    BY <1>1, <2>1 DEF MInv, IInv, MutexTypeOK
  <2>3. IdsExclusive'
    BY <2>1 DEF IdsExclusive, IsInjectiveSeq, Holds
  <2>4. /\ LockCount' /\ WaitersQueued' /\ MutualExclusion'
        /\ PoolUnlocked' /\ FreeHoldsNothing'
    BY <1>1, <2>1 DEF MInv, LockCount, WaitersQueued, MutualExclusion, Inside, PoolUnlocked,
                      FreeHoldsNothing
  <2> QED BY <1>1, <2>2, <2>3, <2>4 DEF MInv
<1> QED BY <1>3, <1>4

\* Only a mutex that is not locked goes back to the pool, and only one that is
\* allocated, so that it was not there yet.
LEMMA DestroyCallInv ==
    ASSUME MInv, NEW m \in Mutex, allocated[m] = 1, kmutex_destroy(m)
    PROVE  MInv'
<1>1. IInv' /\ UNCHANGED <<pid, state, active_proc>>
  BY ReturnInv DEF kmutex_destroy, MInv
<1>2. CASE UNCHANGED mutexVars
  <2>1. UNCHANGED <<allocated, locks, owner, wait_queue, mutex_queue, locked>>
    BY <1>2 DEF mutexVars, mutexes
  <2> QED BY <1>1, <2>1 DEF MInv, IInv, MutexTypeOK, LockCount, WaitersQueued, IdsExclusive,
                            MutualExclusion, Inside, PoolUnlocked, FreeHoldsNothing
<1>3. CASE ~UNCHANGED mutexVars
  <2>1. /\ locks[m] = 0
        /\ mutex_queue' = QueueIn(mutex_queue, m)
        /\ allocated' = [allocated EXCEPT ![m] = 0]
        /\ owner' = [owner EXCEPT ![m] = None]
        /\ wait_queue' = [wait_queue EXCEPT ![m] = <<>>]
        /\ UNCHANGED <<locks, locked>>
    BY <1>3 DEF kmutex_destroy
  <2>2. owner[m] = None /\ wait_queue[m] = <<>>
    BY <2>1, AtRest
  <2>3. owner' = owner /\ wait_queue' = wait_queue
    BY <2>1, <2>2 DEF MInv, MutexTypeOK
  <2>4. \A n \in Mutex : allocated'[n] = IF n = m THEN 0 ELSE allocated[n]
    BY <2>1 DEF MInv, MutexTypeOK
  <2>5. /\ mutex_queue' \in Seq(Mutex) /\ IsInjectiveSeq(mutex_queue')
        /\ \A y : Holds(mutex_queue', y) => Holds(mutex_queue, y) \/ y = m
    <3>1. /\ mutex_queue \in Seq(Mutex) /\ IsInjectiveSeq(mutex_queue)
          /\ ~Holds(mutex_queue, m)
      BY DEF MInv, MutexTypeOK, IdsExclusive
    <3>2. mutex_queue' = mutex_queue \/ mutex_queue' = Append(mutex_queue, m)
      BY <2>1 DEF QueueIn
    <3>3. CASE mutex_queue' = mutex_queue
      BY <3>1, <3>3
    <3>4. CASE mutex_queue' = Append(mutex_queue, m)
      BY <3>1, <3>4, AppendHolds
    <3> QED BY <3>2, <3>3, <3>4
  <2>6. MutexTypeOK'
    <3>1. allocated' \in [Mutex -> {0, 1}]
      BY <2>1 DEF MInv, MutexTypeOK
    <3> QED BY <3>1, <1>1, <2>1, <2>3, <2>5 DEF MInv, IInv, MutexTypeOK
  <2>7. IdsExclusive' /\ PoolUnlocked'
    BY <2>1, <2>4, <2>5 DEF MInv, IdsExclusive, PoolUnlocked
  <2>8. LockCount' /\ WaitersQueued' /\ MutualExclusion' /\ FreeHoldsNothing'
    BY <1>1, <2>1, <2>3
       DEF MInv, LockCount, WaitersQueued, MutualExclusion, Inside, FreeHoldsNothing
  <2> QED BY <1>1, <2>6, <2>7, <2>8 DEF MInv
<1> QED BY <1>2, <1>3

\* A mutex that is free is taken by its caller.
LEMMA GrantInv ==
    ASSUME MInv, NEW m \in Mutex, allocated[m] = 1, SystemCall, locks[m] = 0, Grant(m),
           locked' = [locked EXCEPT ![active_proc] = @ \cup {m}],
           UNCHANGED <<allocated, mutex_queue>>
    PROVE  MInv'
<1> DEFINE a == active_proc
<1>1. IInv' /\ UNCHANGED <<pid, state, active_proc>>
  BY ReturnInv DEF Grant, MInv
<1>2. a \in Entry /\ a # None /\ state[a] = "ACTIVE"
  BY Caller DEF MInv, SystemCall
<1>3. /\ locks' = [locks EXCEPT ![m] = 1]
      /\ owner' = [owner EXCEPT ![m] = a]
      /\ wait_queue' = wait_queue
  BY DEF Grant
<1> HIDE DEF a
<1>4. wait_queue[m] = <<>> /\ \A e \in Entry : m \notin locked[e]
  BY AtRest
<1>5. \A n \in Mutex : /\ locks'[n] = IF n = m THEN 1 ELSE locks[n]
                       /\ owner'[n] = IF n = m THEN a ELSE owner[n]
  BY <1>3 DEF MInv, MutexTypeOK
<1>6. locked \in [Entry -> SUBSET Mutex] /\ locked' = [locked EXCEPT ![a] = @ \cup {m}]
  BY DEF MInv, MutexTypeOK, a
<1>7. \A e \in Entry, n \in Mutex : n \in locked'[e] <=> n \in locked[e] \/ (e = a /\ n = m)
  BY <1>2, <1>6
<1>8. MutexTypeOK'
  <2>1. locks' \in [Mutex -> 0 .. PROC_MAX] /\ owner' \in [Mutex -> Entry \cup {None}]
    BY <1>2, <1>3, SchedulerAssumption DEF MInv, MutexTypeOK
  <2>2. locked' \in [Entry -> SUBSET Mutex]
    <3>1. locked[a] \cup {m} \in SUBSET Mutex
      BY <1>2, <1>6
    <3> QED BY <3>1, <1>6, ExceptType
  <2> QED BY <1>1, <1>3, <2>1, <2>2 DEF MInv, IInv, MutexTypeOK
<1>9. LockCount'
  BY <1>2, <1>3, <1>4, <1>5 DEF MInv, LockCount
<1>10. MutualExclusion'
  BY <1>1, <1>3, <1>4, <1>5, <1>7 DEF MInv, MutualExclusion, Inside
<1>11. WaitersQueued' /\ IdsExclusive'
  BY <1>1, <1>3 DEF MInv, WaitersQueued, IdsExclusive
<1>12. PoolUnlocked'
  BY <1>5 DEF MInv, PoolUnlocked
<1>13. FreeHoldsNothing'
  BY <1>1, <1>2, <1>6 DEF MInv, FreeHoldsNothing
<1> QED BY <1>1, <1>8, <1>9, <1>10, <1>11, <1>12, <1>13 DEF MInv

\* A caller of a locked mutex is queued behind those who wait for it, and
\* waits nowhere else.
LEMMA BlockInv ==
    ASSUME MInv, NEW m \in Mutex, allocated[m] = 1, SystemCall, locks[m] > 0, Block(m),
           locked' = [locked EXCEPT ![active_proc] = @ \cup {m}],
           UNCHANGED <<allocated, mutex_queue>>
    PROVE  MInv'
<1> DEFINE a == active_proc
<1>1. /\ IInv' /\ pid' = pid
      /\ state' = [state EXCEPT ![a] = "WAITING"]
  BY TakeOffInv DEF Block, MInv
<1>2. a \in Entry /\ state[a] = "ACTIVE" /\ pid[a] \in Pid
  BY Caller DEF MInv
<1>3. /\ Len(wait_queue[m]) \in Nat
      /\ Len(wait_queue[m]) + 1 < PROC_MAX
      /\ Len(wait_queue[m]) # QUEUE_SIZE
  BY WaitRoom
<1>4. /\ locks' = [locks EXCEPT ![m] = @ + 1]
      /\ wait_queue' = [wait_queue EXCEPT ![m] = Append(@, pid[a])]
      /\ owner' = owner
  BY <1>3 DEF Block, QueueIn
<1>5. \A f \in Entry : state'[f] = IF f = a THEN "WAITING" ELSE state[f]
  BY <1>1, <1>2 DEF MInv, IInv, SchedTypeOK
<1>6. locked \in [Entry -> SUBSET Mutex] /\ locked' = [locked EXCEPT ![a] = @ \cup {m}]
  BY DEF MInv, MutexTypeOK
<1> HIDE DEF a
<1>7. \A e \in Entry, n \in Mutex : n \in locked'[e] <=> n \in locked[e] \/ (e = a /\ n = m)
  BY <1>2, <1>6
<1>8. \A n \in Mutex : ~Holds(wait_queue[n], pid[a])
  BY <1>2, WhoWaits
<1>9. wait_queue \in [Mutex -> Seq(Pid)] /\ \A n \in Mutex : IsInjectiveSeq(wait_queue[n])
  BY DEF MInv, MutexTypeOK, WaitersQueued
<1>10. /\ wait_queue'[m] \in Seq(Pid) /\ IsInjectiveSeq(wait_queue'[m])
       /\ \A y : Holds(wait_queue'[m], y) <=> Holds(wait_queue[m], y) \/ y = pid[a]
       /\ Len(wait_queue'[m]) = Len(wait_queue[m]) + 1
       /\ \A n \in Mutex : n # m => wait_queue'[n] = wait_queue[n]
  <2>1. wait_queue'[m] = Append(wait_queue[m], pid[a])
    BY <1>4, <1>9
  <2>2. Len(Append(wait_queue[m], pid[a])) = Len(wait_queue[m]) + 1
    BY <1>2, <1>9, AppendProperties
  <2> QED BY <2>1, <2>2, <1>2, <1>4, <1>8, <1>9, AppendHolds
<1>11. locks[m] = 1 + Len(wait_queue[m]) /\ owner[m] # None
  <2>1. locks[m] # 0
    BY DEF MInv, MutexTypeOK
  <2> QED BY <2>1 DEF MInv, LockCount
<1>12. \A n \in Mutex : locks'[n] = IF n = m THEN locks[m] + 1 ELSE locks[n]
  BY <1>4 DEF MInv, MutexTypeOK
<1>13. MutexTypeOK'
  <2>1. locks[m] + 1 \in 0 .. PROC_MAX
    BY <1>3, <1>11, SchedulerAssumption
  <2>2. locks' \in [Mutex -> 0 .. PROC_MAX]
    BY <1>4, <2>1 DEF MInv, MutexTypeOK
  <2>3. wait_queue' \in [Mutex -> Seq(Pid)]
    <3>1. Append(wait_queue[m], pid[a]) \in Seq(Pid)
      BY <1>2, <1>9
    <3> QED BY <3>1, <1>4, <1>9, ExceptType
  <2>4. locked' \in [Entry -> SUBSET Mutex]
    <3>1. locked[a] \cup {m} \in SUBSET Mutex
      BY <1>2, <1>6
    <3> QED BY <3>1, <1>6, ExceptType
  <2> QED BY <1>1, <1>4, <2>2, <2>3, <2>4 DEF MInv, IInv, MutexTypeOK
<1>14. LockCount'
  <2> SUFFICES ASSUME NEW n \in Mutex
               PROVE  \/ locks'[n] = 0 /\ owner'[n] = None /\ wait_queue'[n] = <<>>
                      \/ locks'[n] = 1 + Len(wait_queue'[n]) /\ owner'[n] # None
    BY DEF LockCount
  <2>1. CASE n = m
    BY <2>1, <1>3, <1>4, <1>10, <1>11, <1>12
  <2>2. CASE n # m
    BY <2>2, <1>4, <1>10, <1>12 DEF MInv, LockCount
  <2> QED BY <2>1, <2>2
<1>15. WaitersQueued'
  <2>1. ASSUME NEW e \in Entry, state'[e] = "WAITING"
        PROVE  \E n \in Mutex : /\ Holds(wait_queue'[n], pid'[e])
                                /\ \A k \in Mutex \ {n} : ~Holds(wait_queue'[k], pid'[e])
    <3>1. CASE e = a
      BY <3>1, <1>1, <1>8, <1>10
    <3>2. CASE e # a
      <4>1. state[e] = "WAITING" /\ pid[e] # pid[a]
        BY <2>1, <3>2, <1>2, <1>5 DEF MInv, IInv, Placement, PidsUnique
      <4>2. PICK n \in Mutex : /\ Holds(wait_queue[n], pid[e])
                               /\ \A k \in Mutex \ {n} : ~Holds(wait_queue[k], pid[e])
        BY <4>1 DEF MInv, WaitersQueued
      <4>3. \A k \in Mutex : Holds(wait_queue'[k], pid[e]) <=> Holds(wait_queue[k], pid[e])
        BY <4>1, <1>10
      <4> QED BY <4>2, <4>3, <1>1
    <3> QED BY <3>1, <3>2
  <2>2. ASSUME NEW n \in Mutex
        PROVE  /\ IsInjectiveSeq(wait_queue'[n])
               /\ \A p \in Pid : Holds(wait_queue'[n], p) =>
                     \E e \in Entry : pid'[e] = p /\ state'[e] = "WAITING"
    <3>1. IsInjectiveSeq(wait_queue'[n])
      BY <1>9, <1>10
    <3>2. ASSUME NEW p \in Pid, Holds(wait_queue'[n], p)
          PROVE  \E e \in Entry : pid'[e] = p /\ state'[e] = "WAITING"
      <4>1. CASE p = pid[a]
        BY <4>1, <1>1, <1>2, <1>5
      <4>2. CASE Holds(wait_queue[n], p)
        BY <4>2, <1>1, <1>5 DEF MInv, WaitersQueued
      <4> QED BY <3>2, <4>1, <4>2, <1>10
    <3> QED BY <3>1, <3>2
  <2> QED BY <2>1, <2>2 DEF WaitersQueued
<1>16. MutualExclusion'
  <2> SUFFICES ASSUME NEW n \in Mutex, NEW e \in Entry, Inside(e, n)'
               PROVE  owner'[n] = e
    BY DEF MutualExclusion
  <2>1. n \in locked'[e] /\ ~Holds(wait_queue'[n], pid[e])
    BY <1>1 DEF Inside
  <2>2. ~(e = a /\ n = m)
    BY <2>1, <1>10
  <2>3. Inside(e, n)
    BY <2>1, <2>2, <1>7, <1>10 DEF Inside
  <2> QED BY <2>3, <1>4 DEF MInv, MutualExclusion
<1>17. IdsExclusive'
  BY DEF MInv, IdsExclusive
<1>18. PoolUnlocked' /\ FreeHoldsNothing'
  BY <1>2, <1>5, <1>6, <1>12 DEF MInv, PoolUnlocked, FreeHoldsNothing
<1> QED BY <1>1, <1>13, <1>14, <1>15, <1>16, <1>17, <1>18 DEF MInv

\* kmutex_lock grants a free mutex and blocks its caller on one that is not.
LEMMA LockCallInv ==
    ASSUME MInv, NEW m \in Mutex, allocated[m] = 1, kmutex_lock(m)
    PROVE  MInv'
<1>1. CASE locks[m] = 0 /\ Grant(m)
  BY <1>1, GrantInv DEF kmutex_lock
<1>2. CASE locks[m] > 0 /\ Block(m)
  BY <1>2, BlockInv DEF kmutex_lock
<1> QED BY <1>1, <1>2 DEF kmutex_lock

\* The last unlock leaves a mutex that nobody is inside or waits for.
LEMMA FreeInv ==
    ASSUME MInv, NEW m \in Mutex, allocated[m] = 1, SystemCall,
           owner[m] = active_proc, locks[m] = 1,
           locks' = [locks EXCEPT ![m] = @ - 1],
           locked' = [locked EXCEPT ![active_proc] = @ \ {m}],
           owner' = [owner EXCEPT ![m] = None],
           ReturnToScheduler,
           UNCHANGED <<allocated, mutex_queue, wait_queue>>
    PROVE  MInv'
<1> DEFINE a == active_proc
<1>1. IInv' /\ UNCHANGED <<pid, state, active_proc>>
  BY ReturnInv DEF MInv
<1>2. a \in Entry /\ a # None
  BY Caller DEF MInv, SystemCall
<1>3. locked \in [Entry -> SUBSET Mutex] /\ locked' = [locked EXCEPT ![a] = @ \ {m}]
  BY DEF MInv, MutexTypeOK
<1> HIDE DEF a
<1>4. wait_queue[m] = <<>>
  <2>1. wait_queue[m] \in Seq(Pid) /\ Len(wait_queue[m]) \in Nat
    BY LenProperties DEF MInv, MutexTypeOK
  <2>2. Len(wait_queue[m]) = 0
    BY <2>1 DEF MInv, LockCount
  <2> QED BY <2>1, <2>2, EmptySeq
<1>5. \A n \in Mutex : /\ locks'[n] = IF n = m THEN 0 ELSE locks[n]
                       /\ owner'[n] = IF n = m THEN None ELSE owner[n]
  BY DEF MInv, MutexTypeOK
<1>6. \A e \in Entry, n \in Mutex : n \in locked'[e] <=> n \in locked[e] /\ ~(e = a /\ n = m)
  BY <1>2, <1>3
<1>7. MutexTypeOK'
  <2>1. locks' \in [Mutex -> 0 .. PROC_MAX] /\ owner' \in [Mutex -> Entry \cup {None}]
    BY SchedulerAssumption DEF MInv, MutexTypeOK
  <2>2. locked' \in [Entry -> SUBSET Mutex]
    <3>1. locked[a] \ {m} \in SUBSET Mutex
      BY <1>2, <1>3
    <3> QED BY <3>1, <1>3, ExceptType
  <2> QED BY <1>1, <2>1, <2>2 DEF MInv, IInv, MutexTypeOK
<1>8. LockCount'
  BY <1>4, <1>5 DEF MInv, LockCount
<1>9. MutualExclusion'
  <2> SUFFICES ASSUME NEW n \in Mutex, NEW e \in Entry, Inside(e, n)'
               PROVE  owner'[n] = e
    BY DEF MutualExclusion
  <2>1. Inside(e, n) /\ ~(e = a /\ n = m)
    BY <1>1, <1>6 DEF Inside
  <2>2. owner[n] = e
    BY <2>1 DEF MInv, MutualExclusion
  <2>3. n # m
    BY <2>1, <2>2 DEF a
  <2> QED BY <2>2, <2>3, <1>5
<1>10. WaitersQueued' /\ IdsExclusive'
  BY <1>1 DEF MInv, WaitersQueued, IdsExclusive
<1>11. PoolUnlocked' /\ FreeHoldsNothing'
  BY <1>1, <1>2, <1>3, <1>5 DEF MInv, PoolUnlocked, FreeHoldsNothing
<1> QED BY <1>1, <1>7, <1>8, <1>9, <1>10, <1>11 DEF MInv

\* The process at the head of a wait queue is the one that unlock finds.
LEMMA FirstWaiter ==
    ASSUME MInv, NEW m \in Mutex, wait_queue[m] # <<>>
    PROVE  LET next == pid_to_proc(Head(wait_queue[m]))
           IN  /\ next \in Entry /\ next # None
               /\ pid[next] = Head(wait_queue[m])
               /\ state[next] = "WAITING"
               /\ Holds(wait_queue[m], pid[next])
               /\ \A n \in Mutex \ {m} : ~Holds(wait_queue[n], pid[next])
<1> DEFINE p == Head(wait_queue[m])
<1>1. p \in Pid /\ Holds(wait_queue[m], p)
  BY TailHolds DEF MInv, MutexTypeOK, WaitersQueued
<1>2. PICK e \in Entry : pid[e] = p /\ state[e] = "WAITING"
  BY <1>1 DEF MInv, WaitersQueued
<1>3. pid_to_proc(p) = e
  <2>1. pid_to_proc(pid[e]) = e
    BY <1>2, Lookup DEF MInv, IInv, Placement
  <2> QED BY <2>1, <1>2
<1>4. e # None
  BY DEF Entry, None
<1>5. \A n \in Mutex \ {m} : ~Holds(wait_queue[n], pid[e])
  <2>1. PICK k \in Mutex : /\ Holds(wait_queue[k], pid[e])
                           /\ \A n \in Mutex \ {k} : ~Holds(wait_queue[n], pid[e])
    BY <1>2 DEF MInv, WaitersQueued
  <2> QED BY <2>1, <1>1, <1>2
<1> QED BY <1>1, <1>2, <1>3, <1>4, <1>5

\* An unlock while others wait hands the mutex to the first of them.
LEMMA HandOverInv ==
    ASSUME MInv, NEW m \in Mutex, allocated[m] = 1, SystemCall,
           owner[m] = active_proc, locks[m] > 1, Release(m)
    PROVE  /\ MInv'
           /\ wait_queue[m] # <<>>
           /\ owner' = [owner EXCEPT ![m] = pid_to_proc(Head(wait_queue[m]))]
           /\ wait_queue' = [wait_queue EXCEPT ![m] = Tail(@)]
<1> DEFINE a == active_proc
           next == pid_to_proc(Head(wait_queue[m]))
<1>1. a \in Entry /\ a # None /\ state[a] = "ACTIVE"
  BY Caller DEF MInv, SystemCall
<1>2. /\ wait_queue \in [Mutex -> Seq(Pid)]
      /\ \A n \in Mutex : IsInjectiveSeq(wait_queue[n])
      /\ Len(wait_queue[m]) \in Nat
  BY LenProperties DEF MInv, MutexTypeOK, WaitersQueued
<1>3. locks[m] = 1 + Len(wait_queue[m]) /\ locks[m] \in 0 .. PROC_MAX /\ wait_queue[m] # <<>>
  <2>1. locks[m] \in 0 .. PROC_MAX /\ locks[m] # 0
    BY DEF MInv, MutexTypeOK
  <2>2. locks[m] = 1 + Len(wait_queue[m])
    BY <2>1 DEF MInv, LockCount
  <2> QED BY <1>2, <2>1, <2>2
<1>4. /\ next \in Entry /\ next # None
      /\ pid[next] = Head(wait_queue[m])
      /\ state[next] = "WAITING"
      /\ Holds(wait_queue[m], pid[next])
      /\ \A n \in Mutex \ {m} : ~Holds(wait_queue[n], pid[next])
  BY <1>3, FirstWaiter
<1>5. /\ locks' = [locks EXCEPT ![m] = @ - 1]
      /\ locked' = [locked EXCEPT ![a] = @ \ {m}]
      /\ owner' = [owner EXCEPT ![m] = next]
      /\ wait_queue' = [wait_queue EXCEPT ![m] = Tail(@)]
      /\ scheduler_add(next, "sched")
      /\ UNCHANGED <<allocated, mutex_queue, loop_i, active_proc, pid, sleep_time, sleep_queue,
                     proc_allocator, next_pid>>
  BY <1>3, <1>4 DEF Release
<1> HIDE DEF next
<1>6. IInv' /\ state' = [state EXCEPT ![next] = "IDLE"]
  BY <1>4, <1>5, WakeInv DEF MInv
<1>7. \A f \in Entry : state'[f] = IF f = next THEN "IDLE" ELSE state[f]
  BY <1>4, <1>6 DEF MInv, IInv, SchedTypeOK
<1>8. locked \in [Entry -> SUBSET Mutex]
  BY DEF MInv, MutexTypeOK
<1>9. \A e \in Entry, n \in Mutex : n \in locked'[e] <=> n \in locked[e] /\ ~(e = a /\ n = m)
  BY <1>1, <1>5, <1>8
<1>10. /\ wait_queue'[m] \in Seq(Pid) /\ IsInjectiveSeq(wait_queue'[m])
       /\ \A y : Holds(wait_queue'[m], y) <=> Holds(wait_queue[m], y) /\ y # pid[next]
       /\ Len(wait_queue'[m]) = Len(wait_queue[m]) - 1
       /\ \A n \in Mutex : n # m => wait_queue'[n] = wait_queue[n]
  <2>1. wait_queue'[m] = Tail(wait_queue[m])
    BY <1>2, <1>5
  <2>2. Len(Tail(wait_queue[m])) = Len(wait_queue[m]) - 1
    BY <1>2, <1>3, HeadTailProperties
  <2>3. /\ Tail(wait_queue[m]) \in Seq(Pid) /\ IsInjectiveSeq(Tail(wait_queue[m]))
        /\ \A y : Holds(Tail(wait_queue[m]), y) <=> Holds(wait_queue[m], y) /\ y # Head(wait_queue[m])
    BY <1>2, <1>3, TailHolds
  <2> QED BY <2>1, <2>2, <2>3, <1>2, <1>4, <1>5
<1>11. \A n \in Mutex : /\ locks'[n] = IF n = m THEN locks[m] - 1 ELSE locks[n]
                        /\ owner'[n] = IF n = m THEN next ELSE owner[n]
  BY <1>5 DEF MInv, MutexTypeOK
<1>12. MutexTypeOK'
  <2>1. locks' \in [Mutex -> 0 .. PROC_MAX]
    <3>1. locks[m] - 1 \in 0 .. PROC_MAX
      BY <1>2, <1>3, SchedulerAssumption
    <3> QED BY <3>1, <1>5 DEF MInv, MutexTypeOK
  <2>2. owner' \in [Mutex -> Entry \cup {None}]
    BY <1>4, <1>5 DEF MInv, MutexTypeOK
  <2>3. wait_queue' \in [Mutex -> Seq(Pid)]
    <3>1. Tail(wait_queue[m]) \in Seq(Pid)
      BY <1>2, <1>3, TailHolds
    <3> QED BY <3>1, <1>2, <1>5, ExceptType
  <2>4. locked' \in [Entry -> SUBSET Mutex]
    <3>1. locked[a] \ {m} \in SUBSET Mutex
      BY <1>1, <1>8
    <3> QED BY <3>1, <1>5, <1>8, ExceptType
  <2> QED BY <1>5, <1>6, <2>1, <2>2, <2>3, <2>4 DEF MInv, IInv, MutexTypeOK
<1>13. LockCount'
  <2> SUFFICES ASSUME NEW n \in Mutex
               PROVE  \/ locks'[n] = 0 /\ owner'[n] = None /\ wait_queue'[n] = <<>>
                      \/ locks'[n] = 1 + Len(wait_queue'[n]) /\ owner'[n] # None
    BY DEF LockCount
  <2>1. CASE n = m
    BY <2>1, <1>2, <1>3, <1>4, <1>10, <1>11
  <2>2. CASE n # m
    BY <2>2, <1>10, <1>11 DEF MInv, LockCount
  <2> QED BY <2>1, <2>2
<1>14. WaitersQueued'
  <2>1. ASSUME NEW e \in Entry, state'[e] = "WAITING"
        PROVE  \E n \in Mutex : /\ Holds(wait_queue'[n], pid'[e])
                                /\ \A k \in Mutex \ {n} : ~Holds(wait_queue'[k], pid'[e])
    <3>1. state[e] = "WAITING" /\ e # next
      BY <2>1, <1>7
    <3>2. pid[e] # pid[next]
      BY <3>1, <1>4 DEF MInv, IInv, Placement, PidsUnique
    <3>3. PICK n \in Mutex : /\ Holds(wait_queue[n], pid[e])
                             /\ \A k \in Mutex \ {n} : ~Holds(wait_queue[k], pid[e])
      BY <3>1 DEF MInv, WaitersQueued
    <3>4. \A k \in Mutex : Holds(wait_queue'[k], pid[e]) <=> Holds(wait_queue[k], pid[e])
      BY <3>2, <1>10
    <3> QED BY <3>3, <3>4, <1>5
  <2>2. ASSUME NEW n \in Mutex
        PROVE  /\ IsInjectiveSeq(wait_queue'[n])
               /\ \A p \in Pid : Holds(wait_queue'[n], p) =>
                     \E e \in Entry : pid'[e] = p /\ state'[e] = "WAITING"
    <3>1. IsInjectiveSeq(wait_queue'[n])
      BY <1>2, <1>10
    <3>2. ASSUME NEW p \in Pid, Holds(wait_queue'[n], p)
          PROVE  \E e \in Entry : pid'[e] = p /\ state'[e] = "WAITING"
      <4>1. Holds(wait_queue[n], p) /\ p # pid[next]
        BY <3>2, <1>4, <1>10
      <4>2. PICK e \in Entry : pid[e] = p /\ state[e] = "WAITING"
        BY <4>1 DEF MInv, WaitersQueued
      <4> QED BY <4>1, <4>2, <1>5, <1>7
    <3> QED BY <3>1, <3>2
  <2> QED BY <2>1, <2>2 DEF WaitersQueued
<1>15. MutualExclusion'
  <2> SUFFICES ASSUME NEW n \in Mutex, NEW e \in Entry, Inside(e, n)'
               PROVE  owner'[n] = e
    BY DEF MutualExclusion
  <2>1. n \in locked[e] /\ ~(e = a /\ n = m) /\ ~Holds(wait_queue'[n], pid[e])
    BY <1>5, <1>9 DEF Inside
  <2>2. CASE n # m
    <3>1. Inside(e, n)
      BY <2>1, <2>2, <1>10 DEF Inside
    <3> QED BY <3>1, <2>2, <1>11 DEF MInv, MutualExclusion
  <2>3. CASE n = m /\ pid[e] = pid[next]
    <3>1. state[e] # "NONE"
      BY <2>1 DEF MInv, FreeHoldsNothing
    <3>2. e = next
      BY <3>1, <2>3, <1>4 DEF MInv, IInv, Placement, PidsUnique
    <3> QED BY <3>2, <2>3, <1>11
  <2>4. CASE n = m /\ pid[e] # pid[next]
    <3>1. Inside(e, m)
      BY <2>1, <2>4, <1>10 DEF Inside
    <3>2. e = a
      BY <3>1 DEF MInv, MutualExclusion
    <3> QED BY <3>2, <2>1, <2>4
  <2> QED BY <2>2, <2>3, <2>4
<1>16. IdsExclusive'
  BY <1>5 DEF MInv, IdsExclusive
<1>17. PoolUnlocked' /\ FreeHoldsNothing'
  BY <1>1, <1>4, <1>5, <1>7, <1>8, <1>11 DEF MInv, PoolUnlocked, FreeHoldsNothing
<1>18. MInv'
  BY <1>6, <1>12, <1>13, <1>14, <1>15, <1>16, <1>17 DEF MInv
<1> QED BY <1>3, <1>5, <1>18 DEF next

\* kmutex_unlock refuses who is no owner, hands the mutex over or frees it.
LEMMA UnlockCallInv ==
    ASSUME MInv, NEW m \in Mutex, allocated[m] = 1, kmutex_unlock(m)
    PROVE  MInv'
<1>0. SystemCall
  BY DEF kmutex_unlock
<1>1. CASE locks[m] > 0 /\ owner[m] = active_proc /\ Release(m)
  <2>1. CASE locks[m] = 1
    <3>1. /\ locks' = [locks EXCEPT ![m] = @ - 1]
          /\ locked' = [locked EXCEPT ![active_proc] = @ \ {m}]
          /\ owner' = [owner EXCEPT ![m] = None]
          /\ ReturnToScheduler
          /\ UNCHANGED <<allocated, mutex_queue, wait_queue>>
      BY <1>1, <2>1 DEF Release
    <3> QED BY <3>1, <1>0, <1>1, <2>1, FreeInv
  <2>2. CASE locks[m] > 1
    BY <2>2, <1>0, <1>1, HandOverInv
  <2>3. locks[m] = 1 \/ locks[m] > 1
    <3>1. locks[m] \in 0 .. PROC_MAX
      BY DEF MInv, MutexTypeOK
    <3> QED BY <3>1, <1>1, SchedulerAssumption
  <2> QED BY <2>1, <2>2, <2>3
<1>2. CASE ReturnToScheduler /\ UNCHANGED mutexVars
  <2>1. IInv' /\ UNCHANGED <<pid, state, active_proc>>
    BY <1>0, <1>2, ReturnInv DEF MInv
  <2>2. UNCHANGED <<allocated, locks, owner, wait_queue, mutex_queue, locked>>
    BY <1>2 DEF mutexVars, mutexes
  <2> QED BY <2>1, <2>2 DEF MInv, IInv, MutexTypeOK, LockCount, WaitersQueued, IdsExclusive,
                            MutualExclusion, Inside, PoolUnlocked, FreeHoldsNothing
<1> QED BY <1>1, <1>2 DEF kmutex_unlock

\* kmutexes_init: every id is in the pool once, and nobody waits.
LEMMA MutexInitInv == MutexInit => MInv
<1> SUFFICES ASSUME MutexInit PROVE MInv
  OBVIOUS
<1>1. IInv
  BY InitInv DEF MutexInit
<1>2. \A e \in Entry : state[e] # "WAITING"
  BY DEF MutexInit, Init
<1>3. /\ mutex_queue \in Seq(Mutex) /\ IsInjectiveSeq(mutex_queue)
  <2>1. mutex_queue \in [1 .. MUTEX_MAX -> Mutex] /\ MUTEX_MAX \in Nat
    BY MutexAssumption DEF MutexInit, Mutex
  <2>2. mutex_queue \in Seq(Mutex) /\ Len(mutex_queue) = MUTEX_MAX
    BY <2>1
  <2>3. \A k \in 1 .. MUTEX_MAX : mutex_queue[k] = k - 1
    BY DEF MutexInit
  <2> QED BY <2>1, <2>2, <2>3 DEF IsInjectiveSeq
<1>4. \A m \in Mutex : /\ allocated[m] = 0 /\ locks[m] = 0 /\ owner[m] = None
                       /\ wait_queue[m] = <<>>
  BY DEF MutexInit
<1>5. \A e \in Entry : locked[e] = {}
  BY DEF MutexInit
<1>6. MutexTypeOK
  <2>1. wait_queue \in [Mutex -> Seq(Pid)]
    BY DEF MutexInit
  <2> QED BY <1>1, <1>3, <2>1, SchedulerAssumption DEF MutexInit, IInv, MutexTypeOK
<1>7. WaitersQueued
  BY <1>2, <1>4 DEF WaitersQueued, IsInjectiveSeq, Holds
<1>8. LockCount /\ IdsExclusive /\ MutualExclusion /\ PoolUnlocked /\ FreeHoldsNothing
  BY <1>3, <1>4, <1>5 DEF LockCount, IdsExclusive, MutualExclusion, Inside, PoolUnlocked,
                          FreeHoldsNothing
<1> QED BY <1>1, <1>6, <1>7, <1>8 DEF MInv
-----------------------------------------------------------------------------
\* Every step of the mutexes, or of the scheduler between their calls.
LEMMA MutexNextInv == MInv /\ [MutexNext]_allVars => MInv'
<1> SUFFICES ASSUME MInv, [MutexNext]_allVars PROVE MInv'
  OBVIOUS
<1>1. CASE SchedulerStep
  BY <1>1, SchedulerStepInv
<1>2. CASE kmutex_init
  BY <1>2, InitCallInv
<1>3. ASSUME NEW m \in Mutex, allocated[m] = 1, kmutex_destroy(m) PROVE MInv'
  BY <1>3, DestroyCallInv
<1>4. ASSUME NEW m \in Mutex, allocated[m] = 1, kmutex_lock(m) PROVE MInv'
  BY <1>4, LockCallInv
<1>5. ASSUME NEW m \in Mutex, allocated[m] = 1, kmutex_unlock(m) PROVE MInv'
  BY <1>5, UnlockCallInv
<1>6. CASE UNCHANGED allVars
  <2>1. /\ UNCHANGED vars /\ UNCHANGED <<pid, state>>
        /\ UNCHANGED <<allocated, locks, owner, wait_queue, mutex_queue, locked>>
    BY <1>6 DEF allVars, mutexVars, mutexes, vars, pcb
  <2>2. IInv'
    BY <2>1, NextInv DEF MInv
  <2> QED BY <2>1, <2>2 DEF MInv, IInv, MutexTypeOK, LockCount, WaitersQueued, IdsExclusive,
                            MutualExclusion, Inside, PoolUnlocked, FreeHoldsNothing
<1> QED BY <1>1, <1>2, <1>3, <1>4, <1>5, <1>6 DEF MutexNext

\* The invariant of the mutexes holds at every step.
LEMMA MutexInvariance == MutexSpec => []MInv
<1>1. MutexInit => MInv  BY MutexInitInv
<1>2. MInv /\ [MutexNext]_allVars => MInv'  BY MutexNextInv
<1> QED BY <1>1, <1>2, PTL DEF MutexSpec

\* Two processes are never inside the same mutex, and the one inside is its
\* owner, however mutexes are handed over, destroyed and allocated again and
\* whichever processes are destroyed meanwhile.
THEOREM MutualExclusionCorrect == MutexSpec => []MutualExclusion
<1>1. MInv => MutualExclusion  BY DEF MInv
<1> QED BY <1>1, MutexInvariance, PTL

\* locks is the holder and the length of the wait queue, at every step.
THEOREM LockCountCorrect == MutexSpec => []LockCount
<1>1. MInv => LockCount  BY DEF MInv
<1> QED BY <1>1, MutexInvariance, PTL

\* Who is WAITING is in one wait queue, once, and who is in a wait queue is
\* WAITING, although programs are destroyed and their pids looked up again.
THEOREM WaitersQueuedCorrect == MutexSpec => []WaitersQueued
<1>1. MInv => WaitersQueued  BY DEF MInv
<1> QED BY <1>1, MutexInvariance, PTL

\* No id is handed out while it is in use, and none is in the pool twice.
THEOREM IdsExclusiveCorrect == MutexSpec => []IdsExclusive
<1>1. MInv => IdsExclusive  BY DEF MInv
<1> QED BY <1>1, MutexInvariance, PTL

\* Processes that wait for a mutex are a fifth place besides those of the
\* scheduler, and with them the kernel still loses no process and no entry and
\* does not panic.
THEOREM PlacementWithMutexes == MutexSpec => [](Placement /\ NeverPanics)
<1>1. MInv => Placement /\ NeverPanics  BY DEF MInv, IInv
<1> QED BY <1>1, MutexInvariance, PTL

\* A mutex that others wait for passes to the first of them and to nobody
\* else, in one step: nobody who calls mutex_lock meanwhile gets in between.
THEOREM HandOffCorrect == MutexSpec => HandOff
<1> DEFINE Passes ==
      \A m \in Mutex :
         wait_queue[m] # <<>> /\ owner'[m] # owner[m] =>
             /\ owner'[m] = pid_to_proc(Head(wait_queue[m]))
             /\ wait_queue'[m] = Tail(wait_queue[m])
<1>1. ASSUME MInv, [MutexNext]_allVars PROVE Passes
  <2> SUFFICES ASSUME NEW m \in Mutex, wait_queue[m] # <<>>, owner'[m] # owner[m]
               PROVE  /\ owner'[m] = pid_to_proc(Head(wait_queue[m]))
                      /\ wait_queue'[m] = Tail(wait_queue[m])
    OBVIOUS
  <2>1. locks[m] # 0
    BY AtRest, <1>1
  <2>2. /\ owner \in [Mutex -> Entry \cup {None}] /\ wait_queue \in [Mutex -> Seq(Pid)]
        /\ \A n \in Mutex : locks[n] \in 0 .. PROC_MAX
    BY <1>1 DEF MInv, MutexTypeOK
  <2>3. ASSUME kmutex_init PROVE FALSE
    <3>1. CASE Len(mutex_queue) > 1
      <4>1. /\ mutex_queue \in Seq(Mutex) /\ IsInjectiveSeq(mutex_queue)
            /\ mutex_queue # <<>>
        BY <3>1, <1>1 DEF MInv, MutexTypeOK, IdsExclusive
      <4>2. Head(mutex_queue) \in Mutex /\ Holds(mutex_queue, Head(mutex_queue))
        BY <4>1, TailHolds
      <4>3. locks[Head(mutex_queue)] = 0
        BY <4>2, <1>1 DEF MInv, IdsExclusive, PoolUnlocked
      <4>4. m # Head(mutex_queue)
        BY <4>3, <2>1
      <4> QED BY <4>1, <4>4, <2>2, <2>3, <3>1 DEF kmutex_init
    <3>2. CASE ~(Len(mutex_queue) > 1)
      BY <3>2, <2>3 DEF kmutex_init
    <3> QED BY <3>1, <3>2
  <2>4. ASSUME NEW n \in Mutex, kmutex_destroy(n) PROVE FALSE
    <3>1. UNCHANGED mutexVars => owner' = owner
      BY DEF mutexVars, mutexes
    <3> QED BY <3>1, <2>1, <2>2, <2>4 DEF kmutex_destroy
  <2>5. ASSUME NEW n \in Mutex, kmutex_lock(n) PROVE FALSE
    BY <2>1, <2>2, <2>5 DEF kmutex_lock, Grant, Block
  <2>6. ASSUME NEW n \in Mutex, allocated[n] = 1, kmutex_unlock(n)
        PROVE  /\ owner'[m] = pid_to_proc(Head(wait_queue[m]))
               /\ wait_queue'[m] = Tail(wait_queue[m])
    <3>1. owner' # owner
      OBVIOUS
    <3>2. SystemCall /\ owner[n] = active_proc /\ locks[n] > 0 /\ Release(n)
      BY <3>1, <2>6 DEF kmutex_unlock, mutexVars, mutexes
    <3>3. n = m
      <4> SUFFICES ASSUME n # m PROVE owner'[m] = owner[m]
        OBVIOUS
      <4>1. owner' = owner \/ \E e \in Entry \cup {None} : owner' = [owner EXCEPT ![n] = e]
        <5>1. pid_to_proc(Head(wait_queue[n])) \in Entry \cup {None}
          BY DEF pid_to_proc
        <5> QED BY <5>1, <3>2 DEF Release
      <4> QED BY <4>1, <2>2
    <3>4. locks[m] > 1
      <4>1. locks[m] = 1 + Len(wait_queue[m]) /\ Len(wait_queue[m]) \in Nat
        BY <1>1, <2>1, <2>2, LenProperties DEF MInv, LockCount
      <4>2. Len(wait_queue[m]) # 0
        BY <2>2, EmptySeq
      <4> QED BY <4>1, <4>2
    <3>5. /\ owner' = [owner EXCEPT ![m] = pid_to_proc(Head(wait_queue[m]))]
          /\ wait_queue' = [wait_queue EXCEPT ![m] = Tail(@)]
      BY <1>1, <2>6, <3>2, <3>3, <3>4, HandOverInv
    <3> QED BY <3>5, <2>2
  <2>7. ASSUME SchedulerStep \/ UNCHANGED allVars PROVE FALSE
    BY <2>7 DEF SchedulerStep, allVars, mutexVars, mutexes
  <2> QED BY <1>1, <2>3, <2>4, <2>5, <2>6, <2>7 DEF MutexNext
<1>2. MInv /\ [MutexNext]_allVars => [Passes]_allVars
  BY <1>1
<1> QED BY <1>2, MutexInvariance, PTL DEF HandOff, MutexSpec
-----------------------------------------------------------------------------
\* Shells are processes, and without shells no id is ever shared.
ShellPlaces ==
    /\ \A e \in Entry : at[e] # "other" => state[e] # "NONE" /\ pid[e] \in shells
    /\ \A k \in Index : shell_mutex[k] # -1 => shells # {}

\* The id that mutex_init left in EAX is allocated and nobody else has it.
AssignFresh ==
    \A e \in Entry : at[e] = "assign" /\ eax[e] # -1 =>
        /\ eax[e] \in Mutex
        /\ allocated[eax[e]] = 1
        /\ \A k \in Index : shell_mutex[k] # eax[e]
        /\ \A f \in Entry \ {e} : at[f] = "assign" => eax[f] # eax[e]

\* Places a shell is at before it has come by the assignment or the test.
Unready == {"other", "test", "init", "assign"}

\* The id that the shell of entry e shares, and whether that is in doubt.
IdOf(e)   == shell_mutex[IndexOf(pid[e])]
LostId(e) == IndexOf(pid[e]) \in lost

IdsKnown == \A e \in Entry : at[e] \notin Unready => LostId(e) \/ IdOf(e) # -1

\* Where it uses the terminal, a shell has locked the mutex it shares.
LockedInside == \A e \in Entry : at[e] \in Critical => LostId(e) \/ IdOf(e) \in locked[e]

SInv == /\ MInv
        /\ ShellTypeOK
        /\ SharedIdsValid
        /\ ShellPlaces
        /\ AssignFresh
        /\ IdsKnown
        /\ LockedInside
-----------------------------------------------------------------------------
\* A pid has a place in the array of shell mutexes.
LEMMA IndexType ==
    ASSUME NEW p \in Pid
    PROVE  IndexOf(p) \in Index
<1>1. p \in Nat /\ SHELL_MUTEXES \in Nat /\ SHELL_MUTEXES > 0
  BY SchedulerAssumption, ShellAssumption DEF Pid
<1>2. p % SHELL_MUTEXES \in 0 .. SHELL_MUTEXES - 1
  BY <1>1
<1> QED BY <1>2 DEF IndexOf, Index

\* What a shell takes for its mutex is -1 or an id.
LEMMA IdType ==
    ASSUME SInv, NEW e \in Entry
    PROVE  IndexOf(pid[e]) \in Index /\ IdOf(e) \in Mutex \cup {-1}
<1>1. pid[e] \in Pid /\ shell_mutex \in [Index -> Mutex \cup {-1}]
  BY DEF SInv, ShellTypeOK, MutexTypeOK, SchedTypeOK
<1> QED BY <1>1, IndexType DEF IdOf

\* What a call of the mutexes, or proc_sleep, does to the processes.
LEMMA CallKeeps ==
    ASSUME MInv,
           \/ kmutex_init
           \/ \E m \in Mutex : kmutex_destroy(m) \/ kmutex_lock(m) \/ kmutex_unlock(m)
           \/ SystemCall /\ Refused
           \/ \E t \in SleepTicks : SysSleep(t)
    PROVE  /\ pid' = pid
           /\ \A e \in Entry : state'[e] = "NONE" <=> state[e] = "NONE"
           /\ active_proc' \in {active_proc, None}
<1>0. state \in [Entry -> State]
  BY DEF MInv, IInv, SchedTypeOK
<1>1. ASSUME ReturnToScheduler
      PROVE  pid' = pid /\ state' = state /\ active_proc' = active_proc
  BY <1>1 DEF ReturnToScheduler, pcb
<1>2. CASE kmutex_init \/ (SystemCall /\ Refused) \/ \E m \in Mutex : kmutex_destroy(m)
  BY <1>1, <1>2 DEF kmutex_init, Refused, kmutex_destroy
<1>3. ASSUME NEW m \in Mutex, kmutex_lock(m)
      PROVE  /\ pid' = pid
             /\ \A e \in Entry : state'[e] = "NONE" <=> state[e] = "NONE"
             /\ active_proc' \in {active_proc, None}
  <2>1. active_proc \in Entry /\ state[active_proc] = "ACTIVE"
    BY <1>3, Caller DEF kmutex_lock, MInv
  <2> QED BY <1>0, <1>1, <1>3, <2>1 DEF kmutex_lock, Grant, Block, TakeOff
<1>4. ASSUME NEW m \in Mutex, kmutex_unlock(m)
      PROVE  /\ pid' = pid
             /\ \A e \in Entry : state'[e] = "NONE" <=> state[e] = "NONE"
             /\ active_proc' \in {active_proc, None}
  <2>1. CASE ReturnToScheduler
    BY <1>1, <2>1
  <2>2. CASE ~ReturnToScheduler
    <3> DEFINE next == pid_to_proc(Head(wait_queue[m]))
    <3>1. /\ wait_queue[m] # <<>>
          /\ scheduler_add(next, "sched")
          /\ UNCHANGED <<active_proc, pid>>
      BY <1>4, <2>2 DEF kmutex_unlock, Release
    <3>2. next \in Entry /\ state[next] = "WAITING"
      BY <3>1, FirstWaiter
    <3>3. state' = [state EXCEPT ![next] = "IDLE"]
      BY <3>1 DEF scheduler_add
    <3> QED BY <1>0, <3>1, <3>2, <3>3
  <2> QED BY <2>1, <2>2
<1>5. ASSUME NEW t \in SleepTicks, SysSleep(t)
      PROVE  /\ pid' = pid
             /\ \A e \in Entry : state'[e] = "NONE" <=> state[e] = "NONE"
             /\ active_proc' \in {active_proc, None}
  <2>1. active_proc \in Entry /\ state[active_proc] = "ACTIVE"
    BY <1>5, Caller DEF SysSleep, MInv
  <2> QED BY <1>0, <1>5, <2>1 DEF SysSleep
<1> QED BY <1>2, <1>3, <1>4, <1>5

\* A system call that leaves the mutexes alone and destroys nobody is a step
\* of the scheduler.
LEMMA QuietStep ==
    ASSUME MInv, Next, UNCHANGED mutexVars,
           \A e \in Entry : state'[e] = "NONE" <=> state[e] = "NONE"
    PROVE  SchedulerStep
<1>1. locked \in [Entry -> SUBSET Mutex] /\ locked' = locked /\ UNCHANGED mutexes
  BY DEF MInv, MutexTypeOK, mutexVars
<1>2. \A e \in Entry : state'[e] = "NONE" => locked[e] = {}
  BY DEF MInv, FreeHoldsNothing
<1> QED BY <1>1, <1>2 DEF SchedulerStep

\* Every step of the shells, and of everybody else, is one that KMutex allows.
LEMMA StepMaps == SInv /\ [ShellNext]_systemVars => [MutexNext]_allVars
<1> SUFFICES ASSUME SInv, [ShellNext]_systemVars PROVE [MutexNext]_allVars
  OBVIOUS
<1>0. MInv
  BY DEF SInv
<1>1. CASE ShellTest \/ ShellAssign \/ ShellRead \/ ShellCommand
  BY <1>1 DEF ShellTest, ShellAssign, ShellRead, ShellCommand
<1>2. CASE ShellMutexInit
  BY <1>2 DEF ShellMutexInit, mutex_init, MutexNext
<1>3. ASSUME SystemCall, Refused PROVE MutexNext
  <2>1. OtherEntry /\ UNCHANGED mutexVars
    BY <1>3 DEF SystemCall, Refused, ReturnToScheduler, OtherEntry
  <2>2. SchedulerStep
    BY <1>0, <1>3, <2>1, CallKeeps, QuietStep DEF Next
  <2> QED BY <2>2 DEF MutexNext
<1>4. CASE ShellSleep
  <2>1. PICK t \in SleepTicks : SysSleep(t) /\ UNCHANGED mutexVars
    BY <1>4 DEF ShellSleep, proc_sleep
  <2>2. SchedulerStep
    BY <1>0, <2>1, CallKeeps, QuietStep DEF Next
  <2> QED BY <2>2 DEF MutexNext
<1>5. SystemCall => /\ SharedIndex \in Index
                    /\ SharedId \in Mutex => allocated[SharedId] = 1
  <2> SUFFICES ASSUME SystemCall
               PROVE  /\ SharedIndex \in Index
                      /\ SharedId \in Mutex => allocated[SharedId] = 1
    OBVIOUS
  <2>1. active_proc \in Entry
    BY <1>0, Caller DEF MInv
  <2>2. SharedIndex \in Index
    BY <2>1, IdType DEF SharedIndex
  <2>3. -1 \notin Mutex
    BY DEF Mutex
  <2> QED BY <2>2, <2>3 DEF SharedId, SInv, SharedIdsValid
<1>6. CASE ShellLock \/ ShellUnlock
  <2>1. SystemCall
    BY <1>6 DEF ShellLock, ShellUnlock, ShellAt
  <2>2. CASE SharedId \in Mutex
    <3>1. kmutex_lock(SharedId) \/ kmutex_unlock(SharedId)
      BY <1>6, <2>2 DEF ShellLock, ShellUnlock, mutex_lock, mutex_unlock
    <3> QED BY <1>5, <2>1, <2>2, <3>1 DEF MutexNext
  <2>3. CASE SharedId \notin Mutex
    <3>1. Refused
      BY <1>6, <2>3 DEF ShellLock, ShellUnlock, mutex_lock, mutex_unlock
    <3> QED BY <1>3, <2>1, <3>1
  <2> QED BY <2>2, <2>3
<1>7. CASE ShellExit \/ Elsewhere
  <2>1. Next /\ Forget
    BY <1>7 DEF ShellExit, Elsewhere, OtherCall, Next
  <2> QED BY <2>1 DEF Forget, SchedulerStep, MutexNext
<1>8. CASE MutexCall
  BY <1>8 DEF MutexCall, MutexNext
<1>9. CASE UNCHANGED systemVars
  BY <1>9 DEF systemVars
<1> QED BY <1>1, <1>2, <1>4, <1>6, <1>7, <1>8, <1>9 DEF ShellNext, ShellStep
-----------------------------------------------------------------------------
\* A step of the shell that runs, unless it is one of mutex_init, of the
\* assignment of the id, or the last: it goes to `place`, and the processes
\* and the ids are as before.
LEMMA ShellMoves ==
    ASSUME SInv, SystemCall, at[active_proc] # "other", [MutexNext]_allVars,
           NEW place \in Place \ {"other", "assign"}, Goto(place),
           pid' = pid,
           \A e \in Entry : state'[e] = "NONE" <=> state[e] = "NONE",
           eax' \in [Entry -> Int],
           \A e \in Entry \ {active_proc} : eax'[e] = eax[e] /\ locked'[e] = locked[e],
           UNCHANGED <<allocated, shells, shell_mutex, lost>>,
           place \notin Unready => LostId(active_proc) \/ SharedId # -1,
           place \in Critical => LostId(active_proc) \/ SharedId \in locked'[active_proc]
    PROVE  SInv'
<1> DEFINE a == active_proc
<1>0. MInv' /\ MInv
  BY MutexNextInv DEF SInv
<1>1. a \in Entry
  BY Caller DEF SInv, MInv
<1>2. at' = [at EXCEPT ![a] = place] /\ at \in [Entry -> Place]
  BY DEF Goto, SInv, ShellTypeOK
<1>3. SharedId = IdOf(a)
  BY DEF SharedId, SharedIndex, IdOf
<1>4. \A e \in Entry : /\ at'[e] = IF e = a THEN place ELSE at[e]
                       /\ IdOf(e)' = IdOf(e) /\ LostId(e)' = LostId(e)
  BY <1>1, <1>2 DEF IdOf, LostId
<1> HIDE DEF a
<1>5. ShellTypeOK'
  BY <1>0, <1>2 DEF SInv, MInv, ShellTypeOK
<1>6. SharedIdsValid'
  BY DEF SInv, SharedIdsValid
<1>7. ShellPlaces'
  BY <1>1, <1>4 DEF SInv, ShellPlaces, a
<1>8. AssignFresh'
  <2>1. \A e \in Entry : at'[e] = "assign" => e # a /\ at[e] = "assign" /\ eax'[e] = eax[e]
    BY <1>4 DEF a
  <2> QED BY <2>1 DEF SInv, AssignFresh
<1>9. IdsKnown'
  BY <1>3, <1>4 DEF SInv, IdsKnown, a
<1>10. LockedInside'
  BY <1>3, <1>4 DEF SInv, LockedInside, a
<1> QED BY <1>0, <1>5, <1>6, <1>7, <1>8, <1>9, <1>10 DEF SInv

\* Kernel entries that are no calls of the shells: what a destroyed process
\* was doing is forgotten.
LEMMA ForgetKeeps ==
    ASSUME SInv, Next, Forget
    PROVE  SInv'
<1>0. MInv
  BY DEF SInv
<1>1. MInv'
  <2>1. SchedulerStep
    BY DEF Forget, SchedulerStep
  <2> QED BY <1>0, <2>1, SchedulerStepInv
<1>2. \A e \in Entry : state[e] # "NONE" /\ state'[e] # "NONE" => pid'[e] = pid[e]
  BY <1>0, SchedulerKeeps DEF MInv
<1>3. /\ at' = [e \in Entry |-> IF state'[e] = "NONE" THEN "other" ELSE at[e]]
      /\ eax' = [e \in Entry |-> IF state'[e] = "NONE" THEN 0 ELSE eax[e]]
      /\ locked' = [e \in Entry |-> IF state'[e] = "NONE" THEN {} ELSE locked[e]]
      /\ UNCHANGED <<allocated, shells, shell_mutex, lost>>
  BY DEF Forget, mutexes
<1>4. \A e \in Entry : at'[e] # "other" =>
         /\ at'[e] = at[e] /\ eax'[e] = eax[e] /\ locked'[e] = locked[e]
         /\ state'[e] # "NONE" /\ pid'[e] = pid[e]
  BY <1>2, <1>3 DEF SInv, ShellPlaces
<1>5. ShellTypeOK'
  <2>1. at' \in [Entry -> Place] /\ eax' \in [Entry -> Int]
    BY <1>3 DEF SInv, ShellTypeOK, Place
  <2> QED BY <1>1, <1>3, <2>1 DEF SInv, MInv, ShellTypeOK
<1>6. SharedIdsValid'
  BY <1>3 DEF SInv, SharedIdsValid
<1>7. ShellPlaces'
  BY <1>3, <1>4 DEF SInv, ShellPlaces
<1>8. AssignFresh'
  BY <1>3, <1>4 DEF SInv, AssignFresh
<1>9. \A e \in Entry : at'[e] # "other" => IdOf(e)' = IdOf(e) /\ LostId(e)' = LostId(e)
  BY <1>3, <1>4 DEF IdOf, LostId
<1>10. IdsKnown' /\ LockedInside'
  BY <1>4, <1>9 DEF SInv, IdsKnown, LockedInside, Unready, Critical
<1> QED BY <1>1, <1>5, <1>6, <1>7, <1>8, <1>10 DEF SInv

\* The id that mutex_init returns is new: it was in the pool, so no shell has
\* it in EAX and none shares it.
LEMMA ShellMutexInitInv == SInv /\ ShellMutexInit => SInv'
<1> SUFFICES ASSUME SInv, ShellMutexInit PROVE SInv'
  OBVIOUS
<1> DEFINE a  == active_proc
           rc == IF Len(mutex_queue) > 1 THEN Head(mutex_queue) ELSE -1
<1>0. MInv /\ kmutex_init /\ SystemCall /\ at[a] = "init"
  BY DEF SInv, ShellMutexInit, mutex_init, ShellAt
<1>1. MInv'
  BY <1>0, InitCallInv
<1>2. /\ a \in Entry /\ a # None
      /\ UNCHANGED <<pid, state, active_proc>>
  BY <1>0, Caller, ReturnInv DEF MInv, SystemCall, kmutex_init
<1>3. /\ at' = [at EXCEPT ![a] = "assign"]
      /\ UNCHANGED <<shells, shell_mutex, lost>>
      /\ locked' = locked
      /\ at \in [Entry -> Place] /\ eax \in [Entry -> Int]
  BY DEF ShellMutexInit, mutex_init, kmutex_init, Goto, SInv, ShellTypeOK
<1>4. eax' = [[eax EXCEPT ![a] = SYSCALL_MUTEX_INIT] EXCEPT ![a] = rc]
  BY <1>2 DEF ShellMutexInit, mutex_init, Return, Loaded
<1>5. /\ rc \in Mutex \cup {-1} /\ rc \in Int
      /\ rc # -1 => allocated[rc] = 0 /\ allocated'[rc] = 1
      /\ allocated' \in [Mutex -> {0, 1}]
      /\ \A m \in Mutex : allocated[m] = 1 => allocated'[m] = 1
  <2>1. mutex_queue \in Seq(Mutex) /\ IsInjectiveSeq(mutex_queue)
    BY <1>0 DEF MInv, MutexTypeOK, IdsExclusive
  <2>2. allocated' \in [Mutex -> {0, 1}] /\ allocated \in [Mutex -> {0, 1}]
    BY <1>0, <1>1 DEF MInv, MutexTypeOK
  <2>3. CASE Len(mutex_queue) > 1
    <3>1. mutex_queue # <<>>
      BY <2>1, <2>3
    <3>2. Head(mutex_queue) \in Mutex /\ Holds(mutex_queue, Head(mutex_queue))
      BY <2>1, <3>1, TailHolds
    <3>3. allocated[Head(mutex_queue)] = 0
      BY <1>0, <3>2 DEF MInv, IdsExclusive
    <3>4. allocated' = [allocated EXCEPT ![Head(mutex_queue)] = 1]
      BY <1>0, <2>1, <2>3 DEF kmutex_init
    <3> QED BY <2>2, <2>3, <3>2, <3>3, <3>4 DEF Mutex
  <2>4. CASE ~(Len(mutex_queue) > 1)
    BY <1>0, <2>2, <2>4 DEF kmutex_init
  <2> QED BY <2>3, <2>4
<1> HIDE DEF a, rc
<1>6. \A e \in Entry : /\ at'[e] = IF e = a THEN "assign" ELSE at[e]
                       /\ eax'[e] = IF e = a THEN rc ELSE eax[e]
                       /\ IdOf(e)' = IdOf(e) /\ LostId(e)' = LostId(e)
  BY <1>2, <1>3, <1>4 DEF IdOf, LostId
<1>7. ShellTypeOK'
  <2>1. eax' \in [Entry -> Int]
    BY <1>2, <1>3, <1>4, <1>5 DEF SYSCALL_MUTEX_INIT
  <2>2. at' \in [Entry -> Place]
    BY <1>3 DEF Place
  <2> QED BY <1>1, <1>3, <2>1, <2>2 DEF SInv, MInv, ShellTypeOK
<1>8. SharedIdsValid'
  BY <1>3, <1>5 DEF SInv, SharedIdsValid
<1>9. ShellPlaces'
  BY <1>0, <1>2, <1>3, <1>6 DEF SInv, ShellPlaces, a
<1>10. AssignFresh'
  <2>1. \A k \in Index : shell_mutex[k] # -1 => allocated[shell_mutex[k]] = 1
    BY DEF SInv, SharedIdsValid
  <2>2. \A f \in Entry : at[f] = "assign" /\ eax[f] # -1 =>
                           eax[f] \in Mutex /\ allocated[eax[f]] = 1
    BY DEF SInv, AssignFresh
  <2>3. ASSUME NEW e \in Entry, at'[e] = "assign", eax'[e] # -1
        PROVE  /\ eax'[e] \in Mutex
               /\ allocated'[eax'[e]] = 1
               /\ \A k \in Index : shell_mutex'[k] # eax'[e]
               /\ \A f \in Entry \ {e} : at'[f] = "assign" => eax'[f] # eax'[e]
    <3>1. CASE e = a
      <4>1. eax'[e] = rc /\ rc # -1 /\ rc \in Mutex /\ allocated[rc] = 0 /\ allocated'[rc] = 1
        BY <2>3, <3>1, <1>5, <1>6
      <4>2. \A k \in Index : shell_mutex[k] # rc
        BY <2>1, <4>1
      <4>3. \A f \in Entry \ {e} : at'[f] = "assign" => eax'[f] # rc
        BY <2>2, <3>1, <4>1, <1>6
      <4> QED BY <1>3, <4>1, <4>2, <4>3
    <3>2. CASE e # a
      <4>1. at[e] = "assign" /\ eax'[e] = eax[e] /\ eax[e] # -1
        BY <2>3, <3>2, <1>6
      <4>2. eax[e] # rc
        BY <2>2, <4>1, <1>5
      <4>3. \A f \in Entry \ {e} : at[f] = "assign" => eax[f] # eax[e]
        BY <4>1 DEF SInv, AssignFresh
      <4>4. \A f \in Entry \ {e} : at'[f] = "assign" => eax'[f] # eax[e]
        BY <4>2, <4>3, <1>6
      <4> QED BY <4>1, <4>4, <1>3, <1>5 DEF SInv, AssignFresh
    <3> QED BY <3>1, <3>2
  <2> QED BY <2>3 DEF AssignFresh
<1>11. IdsKnown' /\ LockedInside'
  BY <1>3, <1>6 DEF SInv, IdsKnown, LockedInside, Unready, Critical
<1> QED BY <1>1, <1>7, <1>8, <1>9, <1>10, <1>11 DEF SInv

\* The assignment shares an id that nobody shared, or loses one and says so.
LEMMA ShellAssignInv == SInv /\ ShellAssign => SInv'
<1> SUFFICES ASSUME SInv, ShellAssign PROVE SInv'
  OBVIOUS
<1> DEFINE a  == active_proc
           k  == IndexOf(pid[a])
           id == eax[a]
<1>0. /\ SystemCall /\ at[a] = "assign" /\ UNCHANGED allVars
      /\ shell_mutex' = [shell_mutex EXCEPT ![k] = id]
      /\ lost' = IF shell_mutex[k] = -1 /\ id # -1 THEN lost ELSE lost \cup {k}
      /\ at' = [at EXCEPT ![a] = "nap"]
      /\ UNCHANGED <<shells, eax>>
  BY DEF ShellAssign, ShellAt, SharedIndex, SharedId, Goto
<1>1. MInv' /\ UNCHANGED <<pid, state, allocated, locked>>
  BY <1>0, MutexNextInv DEF SInv, allVars, vars, pcb, mutexVars, mutexes
<1>2. a \in Entry /\ k \in Index
  <2>1. a \in Entry
    BY <1>0, Caller DEF SInv, MInv
  <2> QED BY <2>1, IdType
<1>3. /\ id \in Mutex \cup {-1}
      /\ id # -1 => /\ allocated[id] = 1
                    /\ \A j \in Index : shell_mutex[j] # id
                    /\ \A f \in Entry \ {a} : at[f] = "assign" => eax[f] # id
  BY <1>0, <1>2 DEF SInv, AssignFresh
<1>4. /\ at \in [Entry -> Place] /\ shell_mutex \in [Index -> Mutex \cup {-1}]
      /\ lost \subseteq Index
  BY DEF SInv, ShellTypeOK
<1>5. k \notin lost' => k \notin lost /\ shell_mutex[k] = -1 /\ id # -1
  BY <1>0
<1>6. \A j \in Index : j # k => (j \in lost' <=> j \in lost)
  BY <1>0
<1> HIDE DEF a, k, id
<1>7. /\ \A e \in Entry : at'[e] = IF e = a THEN "nap" ELSE at[e]
      /\ \A j \in Index : shell_mutex'[j] = IF j = k THEN id ELSE shell_mutex[j]
  BY <1>0, <1>4
<1>8. ShellTypeOK'
  <2>1. /\ at' \in [Entry -> Place] /\ shell_mutex' \in [Index -> Mutex \cup {-1}]
        /\ lost' \subseteq Index
    BY <1>0, <1>2, <1>3, <1>4 DEF Place
  <2> QED BY <1>0, <1>1, <2>1 DEF SInv, MInv, ShellTypeOK
<1>9. SharedIdsValid'
  BY <1>1, <1>3, <1>7 DEF SInv, SharedIdsValid
<1>10. ShellPlaces'
  <2>1. shells # {}
    BY <1>0, <1>2 DEF SInv, ShellPlaces, a
  <2> QED BY <2>1, <1>0, <1>1, <1>7 DEF SInv, ShellPlaces, a
<1>11. AssignFresh'
  <2>1. \A e \in Entry : at'[e] = "assign" => e # a /\ at[e] = "assign" /\ eax'[e] = eax[e]
    BY <1>0, <1>7
  <2>2. \A e \in Entry : at'[e] = "assign" /\ eax[e] # -1 => eax[e] # id
    BY <2>1, <1>3
  <2> QED BY <2>1, <2>2, <1>0, <1>1, <1>7 DEF SInv, AssignFresh
<1>12. ASSUME NEW e \in Entry, IndexOf(pid[e]) \notin lost'
       PROVE  /\ IndexOf(pid[e]) \notin lost
              /\ IndexOf(pid[e]) # k => IdOf(e)' = IdOf(e)
              /\ IndexOf(pid[e]) = k => IdOf(e) = -1 /\ IdOf(e)' # -1
  <2>1. IndexOf(pid[e]) \in Index
    BY IdType
  <2> QED BY <2>1, <1>1, <1>2, <1>5, <1>6, <1>7, <1>12 DEF IdOf
<1>13. IdsKnown'
  <2> SUFFICES ASSUME NEW e \in Entry, at'[e] \notin Unready, ~LostId(e)'
               PROVE  IdOf(e)' # -1
    BY DEF IdsKnown, Unready
  <2>1. IndexOf(pid[e]) \notin lost'
    BY <1>1 DEF LostId
  <2>2. CASE IndexOf(pid[e]) = k
    BY <2>1, <2>2, <1>12
  <2>3. CASE IndexOf(pid[e]) # k
    <3>1. e # a
      BY <2>3 DEF k
    <3> QED BY <2>1, <2>3, <3>1, <1>7, <1>12 DEF SInv, IdsKnown, LostId
  <2> QED BY <2>2, <2>3
<1>14. LockedInside'
  <2> SUFFICES ASSUME NEW e \in Entry, at'[e] \in Critical, ~LostId(e)'
               PROVE  IdOf(e)' \in locked'[e]
    BY DEF LockedInside, Critical
  <2>1. IndexOf(pid[e]) \notin lost' /\ IndexOf(pid[e]) \notin lost
    BY <1>1, <1>12 DEF LostId
  <2>2. e # a /\ at[e] \in Critical /\ at[e] \notin Unready
    BY <1>7 DEF Critical, Unready
  <2>3. IdOf(e) # -1 /\ IdOf(e) \in locked[e]
    BY <2>1, <2>2 DEF SInv, IdsKnown, LockedInside, LostId
  <2>4. IdOf(e)' = IdOf(e)
    BY <2>1, <2>3, <1>12
  <2> QED BY <2>3, <2>4, <1>1
<1> QED BY <1>1, <1>8, <1>9, <1>10, <1>11, <1>13, <1>14 DEF SInv

\* What a call leaves in EAX is a number, and EAX of the others is not touched.
LEMMA ReturnKeeps ==
    ASSUME SInv, active_proc \in Entry, NEW call \in Int, NEW rc \in Int,
           active_proc' \in {active_proc, None}, Return(call, rc)
    PROVE  /\ eax' \in [Entry -> Int]
           /\ \A e \in Entry \ {active_proc} : eax'[e] = eax[e]
<1>1. eax \in [Entry -> Int]
  BY DEF SInv, ShellTypeOK
<1> QED BY <1>1 DEF Return, Loaded

\* The steps of a shell that are no system call.
LEMMA ShellLocalInv == SInv /\ (ShellTest \/ ShellRead \/ ShellCommand) => SInv'
<1> SUFFICES ASSUME SInv, ShellTest \/ ShellRead \/ ShellCommand PROVE SInv'
  OBVIOUS
<1> DEFINE a == active_proc
<1>1. /\ SystemCall /\ at[a] \in {"test", "read", "command"} /\ UNCHANGED allVars
      /\ UNCHANGED <<shells, shell_mutex, eax, lost>>
  BY DEF ShellTest, ShellRead, ShellCommand, ShellAt
<1>2. UNCHANGED <<pid, state, allocated, locked>>
  BY <1>1 DEF allVars, vars, pcb, mutexVars, mutexes
<1>3. eax' \in [Entry -> Int]
  BY <1>1 DEF SInv, ShellTypeOK
<1>4. a \in Entry /\ SharedId = IdOf(a)
  BY <1>1, Caller DEF SInv, MInv, SharedId, SharedIndex, IdOf
<1>5. SharedId \in Mutex \cup {-1}
  BY <1>4, IdType
<1>6. PICK place \in {"init", "nap", "unlock", "unlock_line", "command_nap", "lock_lock",
                      "lock"} :
         /\ Goto(place)
         /\ place = "nap" => SharedId # -1
         /\ place # "init" /\ place # "nap" => at[a] \in {"read", "command"}
         /\ place \in Critical => at[a] = "read"
  <2>1. CASE ShellTest
    BY <2>1, <1>5 DEF ShellTest, Critical
  <2>2. CASE ShellRead
    BY <2>2 DEF ShellRead, ShellAt
  <2>3. CASE ShellCommand
    BY <2>3 DEF ShellCommand, ShellAt, Critical
  <2> QED BY <2>1, <2>2, <2>3
<1>7. place \in Place \ {"other", "assign"}
  BY DEF Place, Critical
<1>8. place \notin Unready => LostId(a) \/ SharedId # -1
  <2>1. CASE at[a] \in {"read", "command"}
    BY <2>1, <1>4 DEF SInv, IdsKnown, Unready
  <2>2. CASE at[a] = "test"
    BY <2>2, <1>6 DEF Unready
  <2> QED BY <1>1, <2>1, <2>2
<1>9. place \in Critical => LostId(a) \/ SharedId \in locked'[a]
  BY <1>2, <1>4, <1>6 DEF SInv, LockedInside, Critical
<1> QED BY <1>1, <1>2, <1>3, <1>6, <1>7, <1>8, <1>9, ShellMoves

\* A nap keeps what the shell has locked.
LEMMA ShellSleepInv == SInv /\ ShellSleep => SInv'
<1> SUFFICES ASSUME SInv, ShellSleep PROVE SInv'
  OBVIOUS
<1> DEFINE a == active_proc
           place == IF at[a] = "lock_nap" THEN "lock_unlock" ELSE "lock"
<1>1. PICK t \in SleepTicks : SysSleep(t) /\ UNCHANGED mutexVars /\ Return(SYSCALL_PROC_SLEEP, 0)
  BY DEF ShellSleep, proc_sleep
<1>2. /\ SystemCall /\ at[a] \in {"nap", "command_nap", "lock_nap"} /\ Goto(place)
      /\ UNCHANGED <<shells, shell_mutex, lost>>
  BY DEF ShellSleep, ShellAt
<1>3. /\ pid' = pid
      /\ \A e \in Entry : state'[e] = "NONE" <=> state[e] = "NONE"
      /\ active_proc' \in {active_proc, None}
  BY <1>1, CallKeeps DEF SInv
<1>4. a \in Entry /\ SharedId = IdOf(a)
  BY <1>2, Caller DEF SInv, MInv, SharedId, SharedIndex, IdOf
<1>5. eax' \in [Entry -> Int] /\ \A e \in Entry \ {a} : eax'[e] = eax[e]
  BY <1>1, <1>3, <1>4, ReturnKeeps DEF SYSCALL_PROC_SLEEP
<1>6. [MutexNext]_allVars
  BY StepMaps DEF ShellNext, ShellStep
<1>7. UNCHANGED <<allocated, locked>>
  BY <1>1 DEF mutexVars, mutexes
<1>8. place \in Place \ {"other", "assign"}
  BY DEF Place, Critical
<1>9. LostId(a) \/ SharedId # -1
  BY <1>2, <1>4 DEF SInv, IdsKnown, Unready
<1>10. place \in Critical => LostId(a) \/ SharedId \in locked'[a]
  BY <1>4, <1>7 DEF SInv, LockedInside, Critical
<1> HIDE DEF place
<1> QED BY <1>2, <1>3, <1>5, <1>6, <1>7, <1>8, <1>9, <1>10, ShellMoves

\* A shell comes to the terminal with its mutex locked, granted at once or
\* waited for, and gives it back when it leaves.
LEMMA ShellLockInv == SInv /\ (ShellLock \/ ShellUnlock) => SInv'
<1> SUFFICES ASSUME SInv, ShellLock \/ ShellUnlock PROVE SInv'
  OBVIOUS
<1> DEFINE a == active_proc
<1>0. /\ SystemCall /\ UNCHANGED <<shells, shell_mutex, lost>>
      /\ at[a] \notin Unready
  BY DEF ShellLock, ShellUnlock, ShellAt, Unready
<1>1. a \in Entry /\ SharedId = IdOf(a)
  BY <1>0, Caller DEF SInv, MInv, SharedId, SharedIndex, IdOf
<1>2. SharedId \in Mutex \cup {-1} /\ (LostId(a) \/ SharedId # -1)
  BY <1>0, <1>1, IdType DEF SInv, IdsKnown
<1>3. [MutexNext]_allVars
  BY StepMaps DEF ShellNext, ShellStep
<1>4. PICK place \in {"read", "lock_nap", "command", "lock"} :
         Goto(place) /\ (place \in Critical => ShellLock)
  <2>1. CASE ShellLock
    BY <2>1 DEF ShellLock
  <2>2. CASE ShellUnlock
    BY <2>2 DEF ShellUnlock, Critical
  <2> QED BY <2>1, <2>2
<1>5. place \in Place \ {"other", "assign"}
  BY DEF Place, Critical
<1>6. /\ locks \in [Mutex -> 0 .. PROC_MAX] /\ locked \in [Entry -> SUBSET Mutex]
      /\ locks' \in [Mutex -> 0 .. PROC_MAX]
  <2>1. MInv'
    BY <1>3, MutexNextInv DEF SInv
  <2> QED BY <2>1 DEF SInv, MInv, MutexTypeOK
<1>7. CASE SharedId \in Mutex
  <2> DEFINE m == SharedId
  <2>1. \/ /\ ShellLock /\ kmutex_lock(m) /\ Return(SYSCALL_MUTEX_LOCK, locks[m] + 1)
        \/ /\ ShellUnlock /\ kmutex_unlock(m)
           /\ \E rc \in {-1, locks'[m]} : Return(SYSCALL_MUTEX_UNLOCK, rc)
    BY <1>7 DEF ShellLock, ShellUnlock, mutex_lock, mutex_unlock
  <2> HIDE DEF m
  <2>2. /\ pid' = pid
        /\ \A e \in Entry : state'[e] = "NONE" <=> state[e] = "NONE"
        /\ active_proc' \in {active_proc, None}
    BY <2>1, <1>7, CallKeeps DEF SInv, m
  <2>3. PICK call \in Int, rc \in Int : Return(call, rc)
    <3>1. locks[m] + 1 \in Int /\ locks'[m] \in Int /\ -1 \in Int
      BY <1>6, <1>7, SchedulerAssumption DEF m
    <3> QED BY <2>1, <3>1 DEF SYSCALL_MUTEX_LOCK, SYSCALL_MUTEX_UNLOCK
  <2>4. eax' \in [Entry -> Int] /\ \A e \in Entry \ {a} : eax'[e] = eax[e]
    BY <1>1, <2>2, <2>3, ReturnKeeps
  <2>5. /\ allocated' = allocated
        /\ \A e \in Entry \ {a} : locked'[e] = locked[e]
        /\ ShellLock => m \in locked'[a]
    <3>1. CASE kmutex_lock(m)
      BY <3>1, <1>1, <1>6 DEF kmutex_lock
    <3>2. CASE ShellUnlock /\ kmutex_unlock(m)
      <4>1. at[a] \in {"unlock", "unlock_line", "lock_unlock"}
        BY <3>2 DEF ShellUnlock, ShellAt
      <4>2. ~ShellLock
        BY <4>1 DEF ShellLock, ShellAt
      <4> QED BY <3>2, <4>2, <1>6 DEF kmutex_unlock, Release, mutexVars, mutexes
    <3> QED BY <2>1, <3>1, <3>2
  <2>6. place \in Critical => SharedId \in locked'[a]
    BY <1>4, <2>5 DEF m
  <2> QED BY <1>0, <1>2, <1>3, <1>4, <1>5, <2>2, <2>4, <2>5, <2>6, ShellMoves DEF Unready
<1>8. CASE SharedId \notin Mutex
  <2>1. Refused /\ \E call \in Int, rc \in Int : Return(call, rc)
    BY <1>8 DEF ShellLock, ShellUnlock, mutex_lock, mutex_unlock, SYSCALL_MUTEX_LOCK,
                SYSCALL_MUTEX_UNLOCK
  <2>2. /\ pid' = pid
        /\ \A e \in Entry : state'[e] = "NONE" <=> state[e] = "NONE"
        /\ active_proc' \in {active_proc, None}
    BY <1>0, <2>1, CallKeeps DEF SInv
  <2>3. eax' \in [Entry -> Int] /\ \A e \in Entry \ {a} : eax'[e] = eax[e]
    BY <1>1, <2>1, <2>2, ReturnKeeps
  <2>4. UNCHANGED <<allocated, locked>>
    BY <2>1 DEF Refused, mutexVars, mutexes
  <2>5. LostId(a)
    BY <1>2, <1>8
  <2> QED BY <1>0, <1>3, <1>4, <1>5, <2>2, <2>3, <2>4, <2>5, ShellMoves DEF Unready
<1> QED BY <1>7, <1>8

\* Where there are no shells the calls of the mutexes disturb none.
LEMMA MutexCallInv == SInv /\ MutexCall => SInv'
<1> SUFFICES ASSUME SInv, MutexCall PROVE SInv'
  OBVIOUS
<1>1. /\ shells = {} /\ UNCHANGED <<shells, shell_mutex, at, eax, lost>>
      /\ MutexNext
  BY DEF MutexCall, shellVars, MutexNext
<1>2. MInv'
  BY <1>1, MutexNextInv DEF SInv
<1>3. \A e \in Entry : at[e] = "other"
  BY <1>1 DEF SInv, ShellPlaces
<1>4. \A k \in Index : shell_mutex[k] = -1
  BY <1>1 DEF SInv, ShellPlaces
<1>5. ShellTypeOK'
  BY <1>1, <1>2 DEF SInv, MInv, ShellTypeOK
<1>6. SharedIdsValid' /\ ShellPlaces'
  BY <1>1, <1>3, <1>4 DEF SharedIdsValid, ShellPlaces
<1>7. AssignFresh' /\ IdsKnown' /\ LockedInside'
  BY <1>1, <1>3 DEF AssignFresh, IdsKnown, LockedInside, Unready, Critical
<1> QED BY <1>2, <1>5, <1>6, <1>7 DEF SInv

\* The shells begin with no mutex, inside none.
LEMMA ShellInitInv == ShellInit => SInv
<1> SUFFICES ASSUME ShellInit PROVE SInv
  OBVIOUS
<1>1. MInv
  BY MutexInitInv DEF ShellInit
<1>2. /\ \A k \in Index : shell_mutex[k] = -1
      /\ \A e \in Entry : /\ at[e] = IF e < NBoot /\ e \in shells THEN "test" ELSE "other"
                          /\ pid[e] = IF e < NBoot THEN e ELSE 0
                          /\ state[e] = IF e < NBoot THEN "IDLE" ELSE "NONE"
  BY DEF ShellInit, MutexInit, Init
<1>3. ShellTypeOK
  BY <1>1 DEF ShellInit, MInv, ShellTypeOK, Place
<1>4. SharedIdsValid /\ ShellPlaces
  BY <1>2 DEF SharedIdsValid, ShellPlaces
<1>5. AssignFresh /\ IdsKnown /\ LockedInside
  BY <1>2 DEF AssignFresh, IdsKnown, LockedInside, Unready, Critical
<1> QED BY <1>1, <1>3, <1>4, <1>5 DEF SInv

\* Every step of a shell or of anybody else, by the lemmas above.
LEMMA ShellNextInv == SInv /\ [ShellNext]_systemVars => SInv'
<1> SUFFICES ASSUME SInv, [ShellNext]_systemVars PROVE SInv'
  OBVIOUS
<1>1. CASE ShellStep
  <2>1. CASE ShellExit
    <3>1. Next /\ Forget
      BY <2>1 DEF ShellExit, Next
    <3> QED BY <3>1, ForgetKeeps
  <2> QED BY <1>1, <2>1, ShellMutexInitInv, ShellAssignInv, ShellLocalInv, ShellSleepInv,
             ShellLockInv DEF ShellStep
<1>2. CASE Elsewhere
  <2>1. Next /\ Forget
    BY <1>2 DEF Elsewhere, OtherCall, Next
  <2> QED BY <2>1, ForgetKeeps
<1>3. CASE MutexCall
  BY <1>3, MutexCallInv
<1>4. CASE UNCHANGED systemVars
  <2>1. /\ UNCHANGED allVars /\ UNCHANGED <<shells, shell_mutex, at, eax, lost>>
    BY <1>4 DEF systemVars, shellVars
  <2>2. UNCHANGED <<pid, state, allocated, locked>>
    BY <2>1 DEF allVars, vars, pcb, mutexVars, mutexes
  <2>3. MInv'
    BY <2>1, MutexNextInv DEF SInv
  <2> QED BY <2>1, <2>2, <2>3 DEF SInv, MInv, ShellTypeOK, SharedIdsValid, ShellPlaces,
             AssignFresh, IdsKnown, LockedInside, IdOf, LostId, Unready, Critical
<1> QED BY <1>1, <1>2, <1>3, <1>4 DEF ShellNext

\* The invariant of the shells holds at every step.
LEMMA ShellInvariance == ShellSpec => []SInv
<1>1. ShellInit => SInv  BY ShellInitInv
<1>2. SInv /\ [ShellNext]_systemVars => SInv'  BY ShellNextInv
<1> QED BY <1>1, <1>2, PTL DEF ShellSpec
-----------------------------------------------------------------------------
\* The shells use the mutexes as KMutex assumes: they never pass an id that
\* was not handed out to one of them.
THEOREM ShellImplementsMutex == ShellSpec => MutexSpec
<1>1. ShellInit => MutexInit  BY DEF ShellInit
<1>2. SInv /\ [ShellNext]_systemVars => [MutexNext]_allVars  BY StepMaps
<1> QED BY <1>1, <1>2, ShellInvariance, PTL DEF ShellSpec, MutexSpec

\* Everything that KMutex promises, it promises to the shells: they run over the
\* mutexes in every state that the scheduler brings about.
THEOREM ShellMutexesCorrect ==
    ShellSpec => /\ [](MutualExclusion /\ LockCount /\ WaitersQueued /\ IdsExclusive)
                 /\ [](Placement /\ NeverPanics)
                 /\ HandOff
BY ShellImplementsMutex, MutualExclusionCorrect, LockCountCorrect, WaitersQueuedCorrect,
   IdsExclusiveCorrect, PlacementWithMutexes, HandOffCorrect, PTL

\* The variables keep their types: a shell mutex is -1 or the id of a mutex.
THEOREM ShellTypeCorrect == ShellSpec => []ShellTypeOK
<1>1. SInv => ShellTypeOK  BY DEF SInv
<1> QED BY <1>1, ShellInvariance, PTL

\* What the shells take for an id is the id of an allocated mutex, and no two
\* groups of shells share one.
THEOREM SharedIdsCorrect == ShellSpec => []SharedIdsValid
<1>1. SInv => SharedIdsValid  BY DEF SInv
<1> QED BY <1>1, ShellInvariance, PTL

\* Of the shells that share a mutex one at most uses the terminal, unless the
\* unprotected test of prog_shell has lost an id they had locked.
THEOREM ReadersExclusiveCorrect == ShellSpec => []ReadersExclusive
<1>1. ASSUME SInv PROVE ReadersExclusive
  <2> SUFFICES ASSUME NEW e \in Entry, NEW f \in Entry,
                      UsesTerminal(e), UsesTerminal(f),
                      IndexOf(pid[e]) = IndexOf(pid[f]), IndexOf(pid[e]) \notin lost
               PROVE  e = f
    BY DEF ReadersExclusive
  <2> DEFINE m == IdOf(e)
  <2>1. m = IdOf(f) /\ m \in locked[e] /\ m \in locked[f]
    BY <1>1 DEF UsesTerminal, SInv, LockedInside, IdOf, LostId
  <2>2. m \in Mutex
    BY <1>1, <2>1 DEF SInv, MInv, MutexTypeOK
  <2>3. ASSUME NEW g \in Entry, UsesTerminal(g), m \in locked[g]
        PROVE  owner[m] = g
    <3>1. state[g] # "NONE" /\ state[g] # "WAITING"
      BY <1>1, <2>3 DEF UsesTerminal, SInv, MInv, FreeHoldsNothing
    <3>2. ~Holds(wait_queue[m], pid[g])
      BY <1>1, <2>2, <3>1, WhoWaits DEF SInv
    <3> QED BY <1>1, <2>2, <2>3, <3>2 DEF SInv, MInv, MutualExclusion, Inside
  <2> QED BY <2>1, <2>3
<1> QED BY <1>1, ShellInvariance, PTL
=============================================================================
