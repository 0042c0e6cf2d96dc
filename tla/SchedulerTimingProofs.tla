----------------------- MODULE SchedulerTimingProofs -----------------------
(***************************************************************************)
(* The bounds on waiting and sleeping for every table size, time slice,    *)
(* number of programs and set of sleep times.  A process that waits has    *)
(* one time slice less ahead of it for every place it advances in the run  *)
(* queue; a tick either counts for a sleeper or brings it nearer to the    *)
(* head of the sleep queue.                                                *)
(***************************************************************************)
EXTENDS SchedulerTiming, SchedulerProofs

\* The ticks that the running process has left of its slice.
Left == IF active_proc = None THEN 0 ELSE SCHEDULER_TIMESLICE - cpu_time[active_proc]

\* The slices of those before place k of the run queue.
Before(k) == (k - 1) * SCHEDULER_TIMESLICE

HistoryOK == /\ waited \in [Process -> Nat]
             /\ slept \in [Process -> Nat]
             /\ asked \in [Process -> Nat]

\* Only processes in the run queue wait, and none waits longer than those
\* before it, and the one that runs, leave it to.
WaitInv ==
    /\ \A e \in Process : state[e] # "IDLE" => waited[e] = 0
    /\ pc = "user" /\ active_proc = None => \A e \in Process : waited[e] = 0
    /\ \A e \in Process : \A k \in 1 .. Len(run_queue) :
          state[e] = "IDLE" /\ run_queue[k] = pid[e]
            => (waited[e] + Before(k)) + Left <= Before(PROC_MAX) + 1

\* The passes over a sleeper that were made since it went to sleep, and the
\* ticks in which these and the next one must come.
Passes(e) == asked[e] - sleep_time[e]
Ticks(n)  == (n + 1) * (NBoot - 1)

\* The entry e at place k of the sleep queue: every pass took a tick, and the
\* tick of the current loop is over and above when the loop has yet to come to
\* e.  Ticks without a pass brought it from the end of the queue to place k.
OnTime(e, k) ==
    /\ Passes(e) <= slept[e]
    /\ pc = "timer" /\ k + loop_i <= Len(sleep_queue) => Passes(e) < slept[e]
    /\ \/ slept[e] + k <= Ticks(Passes(e))
       \/ pc = "timer" /\ (slept[e] + k) + loop_i <= Ticks(Passes(e)) + 1

SleepInv ==
    /\ \A k \in 1 .. Len(sleep_queue) : sleep_queue[k] \in Program
    /\ \A e \in Process : state[e] # "SLEEPING" => slept[e] = 0 /\ asked[e] = 0
    /\ \A e \in Process : state[e] = "SLEEPING" => sleep_time[e] \in -1 .. asked[e]
    /\ \A e \in Process : \A k \in 1 .. Len(sleep_queue) :
          state[e] = "SLEEPING" /\ sleep_queue[k] = pid[e] => OnTime(e, k)

HInv == HistoryOK /\ WaitInv /\ SleepInv
-----------------------------------------------------------------------------
\* The histories constrain nothing: every step is one of the scheduler.
LEMMA TimingSteps == [TimingNext]_<<vars, history>> => [Next]_vars
BY DEF TimingNext

\* With the histories, the scheduler does what it does without them.
LEMMA TimingScheduler == TimingSpec => Spec /\ []IInv
<1>1. TimingInit => Init  BY DEF TimingInit
<1>2. TimingSpec => Spec
  BY <1>1, TimingSteps, PTL DEF TimingSpec, Spec
<1> QED BY <1>2, Invariance, PTL
-----------------------------------------------------------------------------
\* Arithmetic of places and passes, whose products are not linear.
LEMMA BeforeFacts ==
    /\ \A k \in Nat \ {0} : Before(k) \in Nat /\ Before(k + 1) = Before(k) + SCHEDULER_TIMESLICE
    /\ \A j, k \in Nat \ {0} : j <= k => Before(j) <= Before(k)
<1>1. SCHEDULER_TIMESLICE \in Nat
  BY SchedulerAssumption
<1>2. \A j, k, s \in Nat : j * s \in Nat /\ (j + 1) * s = j * s + s
  OBVIOUS
<1>3. \A j, k, s \in Nat : j <= k => j * s <= k * s
  OBVIOUS
<1>4. \A k \in Nat \ {0} : k - 1 \in Nat /\ (k + 1) - 1 = (k - 1) + 1
  OBVIOUS
<1>5. \A j, k \in Nat \ {0} : j <= k => j - 1 <= k - 1
  OBVIOUS
<1>6. ASSUME NEW k \in Nat \ {0}
      PROVE  Before(k) \in Nat /\ Before(k + 1) = Before(k) + SCHEDULER_TIMESLICE
  BY <1>1, <1>2, <1>4 DEF Before
<1>7. ASSUME NEW j \in Nat \ {0}, NEW k \in Nat \ {0}, j <= k PROVE Before(j) <= Before(k)
  BY <1>1, <1>3, <1>4, <1>5, <1>7 DEF Before
<1> QED BY <1>6, <1>7

\* The ticks for n passes grow with n.
LEMMA TicksFacts ==
    /\ NBoot - 1 \in Nat
    /\ \A n \in Nat : Ticks(n) \in Nat /\ Ticks(n + 1) = Ticks(n) + (NBoot - 1)
    /\ Ticks(0) = NBoot - 1
    /\ \A n, m \in Nat : n <= m => Ticks(n) <= Ticks(m)
<1>1. NBoot - 1 \in Nat
  BY SchedulerAssumption
<1>2. \A n, b \in Nat : (n + 1) * b \in Nat /\ ((n + 1) + 1) * b = (n + 1) * b + b
  OBVIOUS
<1>3. \A n, m, b \in Nat : n <= m => (n + 1) * b <= (m + 1) * b
  OBVIOUS
<1>4. ASSUME NEW n \in Nat
      PROVE  Ticks(n) \in Nat /\ Ticks(n + 1) = Ticks(n) + (NBoot - 1)
  BY <1>1, <1>2 DEF Ticks
<1>5. ASSUME NEW n \in Nat, NEW m \in Nat, n <= m PROVE Ticks(n) <= Ticks(m)
  BY <1>1, <1>3, <1>5 DEF Ticks
<1>6. Ticks(0) = NBoot - 1
  BY <1>1 DEF Ticks
<1> QED BY <1>1, <1>4, <1>5, <1>6
-----------------------------------------------------------------------------
\* The run queue has a place for every entry, but for the one that runs.
LineRoom == /\ Len(run_queue) \in Nat /\ Len(run_queue) <= PROC_MAX
            /\ active_proc # None => Len(run_queue) < PROC_MAX

\* Entries that wait are no more than the table has, less the one that runs.
LEMMA Waiting == IInv => LineRoom
<1> SUFFICES ASSUME SchedTypeOK, Placement PROVE LineRoom
  BY DEF IInv
<1> DEFINE T == {e \in Entry : state[e] = "IDLE"}
<1>1. /\ run_queue \in Seq(Pid) /\ pid \in [Entry -> Pid] /\ IsInjectiveSeq(run_queue)
      /\ \A x \in Pid : Holds(run_queue, x) => \E e \in T : pid[e] = x
  BY DEF SchedTypeOK, Placement, RunQueueExact
<1>2. /\ Len(run_queue) \in Nat /\ Cardinality(T) \in Nat
      /\ Len(run_queue) <= Cardinality(T)
  BY <1>1, QueueCount
<1>3. Cardinality(T) <= PROC_MAX /\ (T # Entry => Cardinality(T) # PROC_MAX)
  BY EntryCount, FS_Subset
<1>4. active_proc # None => T # Entry
  BY ActiveNotQueued
<1> QED BY <1>2, <1>3, <1>4, SchedulerAssumption DEF LineRoom

\* Only programs sleep, each once.
OnlyPrograms == \A k \in 1 .. Len(sleep_queue) : sleep_queue[k] \in Program
SleepRoom    == Len(sleep_queue) \in Nat /\ Len(sleep_queue) <= NBoot - 1

\* Programs that sleep are no more than there are programs.
LEMMA Sleepers == IInv /\ OnlyPrograms => SleepRoom
<1> SUFFICES ASSUME SchedTypeOK, Placement, OnlyPrograms PROVE SleepRoom
  BY DEF IInv
<1> DEFINE m == [e \in Entry |-> e]
<1>1. sleep_queue \in Seq(Nat) /\ IsInjectiveSeq(sleep_queue)
  <2>1. sleep_queue \in Seq(Pid)
    BY DEF SchedTypeOK
  <2>2. Len(sleep_queue) \in Nat /\ sleep_queue \in [1 .. Len(sleep_queue) -> Pid]
    BY <2>1, LenProperties
  <2>3. sleep_queue \in [1 .. Len(sleep_queue) -> Nat]
    BY <2>2 DEF Pid
  <2>4. sleep_queue \in Seq(Nat)
    BY <2>2, <2>3, SeqDef
  <2> QED BY <2>4 DEF Placement, SleepQueueExact
<1>2. Program \in SUBSET Entry /\ m \in [Entry -> Nat]
  BY SchedulerAssumption DEF Program, Entry
<1>3. \A x \in Nat : Holds(sleep_queue, x) => \E e \in Program : m[e] = x
  BY <1>2 DEF Holds, OnlyPrograms
<1> HIDE DEF m
<1>4. Len(sleep_queue) \in Nat /\ Len(sleep_queue) <= Cardinality(Program)
  BY <1>1, <1>2, <1>3, QueueCount, Zenon
<1>5. Cardinality(1 .. NBoot - 1) = NBoot - 1
  <2>1. NBoot - 1 \in Nat
    BY SchedulerAssumption
  <2>2. Cardinality(1 .. NBoot - 1) = IF 1 > NBoot - 1 THEN 0 ELSE (NBoot - 1) - 1 + 1
    BY <2>1, FS_Interval
  <2> QED BY <2>1, <2>2
<1> QED BY <1>4, <1>5, SchedulerAssumption DEF Program, SleepRoom
-----------------------------------------------------------------------------
\* What is left of a slice is no more than one.
LeftOK == Left \in 0 .. SCHEDULER_TIMESLICE

\* The slice of who runs is never overdrawn, as SliceInv says.
LEMMA LeftType == IInv => LeftOK
BY SchedulerAssumption DEF IInv, SchedTypeOK, LeftOK, Left, None, Entry

\* A step that is no tick keeps WaitInv when everybody who waited and still
\* does keeps the place, or advances by one for at most a whole slice.  Who
\* becomes ready gets a place that the table has room for.
LEMMA LineStep ==
    ASSUME IInv, IInv', HistoryOK, WaitInv, TimingNext, Tick = 0,
           pc' = "user" => active_proc' # None,
           \A e \in Process : \A k \in 1 .. Len(run_queue') :
              state[e] = "IDLE" /\ state'[e] = "IDLE" /\ run_queue'[k] = pid'[e]
                => \/ /\ k \in 1 .. Len(run_queue) /\ run_queue[k] = pid[e]
                      /\ Left' <= Left
                   \/ /\ k + 1 \in 1 .. Len(run_queue) /\ run_queue[k + 1] = pid[e]
                      /\ Left' <= Left + SCHEDULER_TIMESLICE
    PROVE  WaitInv'
<1>1. Left \in Int /\ Left' \in Int /\ Left' <= SCHEDULER_TIMESLICE /\ 0 <= Left'
  <2>1. IInv' => LeftOK'
    BY LeftType, PTL
  <2> QED BY <2>1, LeftType, SchedulerAssumption DEF LeftOK
<1>2. SCHEDULER_TIMESLICE \in Nat /\ PROC_MAX \in Nat \ {0}
  BY SchedulerAssumption
<1>3. \A e \in Process : /\ waited[e] \in Nat
                         /\ waited'[e] = IF state'[e] = "IDLE" THEN waited[e] ELSE 0
  BY DEF HistoryOK, TimingNext
<1>4. /\ Len(run_queue') \in Nat /\ Len(run_queue') <= PROC_MAX
      /\ active_proc' # None => Len(run_queue') < PROC_MAX
  <2>1. IInv' => LineRoom'
    BY Waiting, PTL
  <2> QED BY <2>1 DEF LineRoom
<1>5. ASSUME NEW e \in Process, NEW k \in 1 .. Len(run_queue'),
             state'[e] = "IDLE", run_queue'[k] = pid'[e]
      PROVE  (waited'[e] + Before(k)) + Left' <= Before(PROC_MAX) + 1
  <2>1. k \in Nat \ {0} /\ k <= Len(run_queue') /\ k + 1 \in Nat \ {0}
    BY <1>4
  <2>2. Before(k) \in Nat /\ Before(k + 1) = Before(k) + SCHEDULER_TIMESLICE
        /\ Before(PROC_MAX) \in Nat
    BY <2>1, <1>2, BeforeFacts
  <2>3. CASE state[e] = "IDLE"
    <3>1. CASE /\ k \in 1 .. Len(run_queue) /\ run_queue[k] = pid[e]
               /\ Left' <= Left
      <4>1. (waited[e] + Before(k)) + Left <= Before(PROC_MAX) + 1
        BY <2>3, <3>1 DEF WaitInv
      <4>2. waited[e] \in Nat /\ waited'[e] = waited[e]
        BY <1>3, <1>5
      <4> QED BY <1>1, <2>2, <3>1, <4>1, <4>2
    <3>2. CASE /\ k + 1 \in 1 .. Len(run_queue) /\ run_queue[k + 1] = pid[e]
               /\ Left' <= Left + SCHEDULER_TIMESLICE
      <4>1. (waited[e] + Before(k + 1)) + Left <= Before(PROC_MAX) + 1
        BY <2>3, <3>2 DEF WaitInv
      <4>2. waited[e] \in Nat /\ waited'[e] = waited[e]
        BY <1>3, <1>5
      <4>3. (waited[e] + (Before(k) + SCHEDULER_TIMESLICE)) + Left <= Before(PROC_MAX) + 1
        BY <2>2, <4>1
      <4>4. \A w, b, s, l, m, n \in Int : (w + (b + s)) + l <= m /\ n <= l + s => (w + b) + n <= m
        OBVIOUS
      <4>5. /\ waited[e] \in Int /\ Before(k) \in Int /\ SCHEDULER_TIMESLICE \in Int
            /\ Left \in Int /\ Before(PROC_MAX) + 1 \in Int /\ Left' \in Int
        BY <1>1, <1>2, <2>2, <4>2
      <4>6. (waited[e] + Before(k)) + Left' <= Before(PROC_MAX) + 1
        BY <3>2, <4>3, <4>4, <4>5
      <4> QED BY <4>2, <4>6
    <3> QED BY <1>5, <2>3, <3>1, <3>2
  <2>4. CASE state[e] # "IDLE"
    <3>1. waited'[e] = 0
      BY <1>3, <1>5, <2>4 DEF WaitInv
    <3>2. Before(k) + Left' <= Before(PROC_MAX)
      <4>1. CASE active_proc' = None
        <5>1. Left' = 0 /\ k <= PROC_MAX
          BY <4>1, <1>2, <1>4, <2>1 DEF Left
        <5>2. Before(k) <= Before(PROC_MAX)
          BY <5>1, <1>2, <2>1, BeforeFacts
        <5> QED BY <5>1, <5>2, <2>2
      <4>2. CASE active_proc' # None
        <5>1. k + 1 <= PROC_MAX
          BY <4>2, <1>2, <1>4, <2>1
        <5>2. Before(k + 1) <= Before(PROC_MAX)
          BY <5>1, <1>2, <2>1, BeforeFacts
        <5> QED BY <5>2, <1>1, <1>2, <2>2
      <4> QED BY <4>1, <4>2
    <3> QED BY <1>1, <1>2, <2>2, <3>1, <3>2
  <2> QED BY <2>3, <2>4
<1>6. \A e \in Process : state'[e] # "IDLE" => waited'[e] = 0
  BY <1>3
<1> QED BY <1>5, <1>6 DEF WaitInv, Before

\* A tick adds one to what a process has waited and takes one off what is left
\* to the one that runs.  None runs only before the first process does.
LEMMA WaitTick ==
    ASSUME IInv, IInv', HistoryOK, WaitInv, TimingNext, TimerIrq
    PROVE  WaitInv'
<1>1. /\ SchedTypeOK /\ SliceInv /\ pc = "user" /\ pc' = "timer"
      /\ UNCHANGED <<active_proc, pid, state, run_queue>>
      /\ cpu_time' = IF active_proc = None THEN cpu_time
                     ELSE [cpu_time EXCEPT ![active_proc] = @ + 1]
  BY DEF IInv, TimerIrq, lists
<1>2. SCHEDULER_TIMESLICE \in Nat /\ PROC_MAX \in Nat \ {0}
  BY SchedulerAssumption
<1>3. \A e \in Process : /\ waited[e] \in Nat
                         /\ waited'[e] = IF state[e] = "IDLE" THEN waited[e] + 1 ELSE 0
  BY <1>1 DEF HistoryOK, TimingNext, Tick
<1>4. /\ Len(run_queue) \in Nat /\ Len(run_queue) <= PROC_MAX
  BY Waiting DEF LineRoom
<1>5. ASSUME NEW e \in Process, NEW k \in 1 .. Len(run_queue),
             state[e] = "IDLE", run_queue[k] = pid[e]
      PROVE  (waited'[e] + Before(k)) + Left' <= Before(PROC_MAX) + 1
  <2>1. k \in Nat \ {0} /\ k <= PROC_MAX
    BY <1>2, <1>4
  <2>2. Before(k) \in Nat /\ Before(PROC_MAX) \in Nat /\ Before(k) <= Before(PROC_MAX)
    BY <2>1, <1>2, BeforeFacts
  <2>3. CASE active_proc = None
    <3>1. waited[e] = 0 /\ Left' = 0
      BY <1>1, <2>3 DEF WaitInv, Left
    <3> QED BY <1>3, <1>5, <2>2, <3>1
  <2>4. CASE active_proc # None
    <3>1. active_proc \in Entry /\ cpu_time[active_proc] \in Nat
      BY <1>1, <2>4 DEF SchedTypeOK
    <3>2. Left' = SCHEDULER_TIMESLICE - (cpu_time[active_proc] + 1)
      BY <1>1, <2>4, <3>1 DEF SchedTypeOK, Left
    <3>3. Left = SCHEDULER_TIMESLICE - cpu_time[active_proc]
      BY <2>4 DEF Left
    <3>4. (waited[e] + Before(k)) + Left <= Before(PROC_MAX) + 1
      BY <1>5 DEF WaitInv
    <3>5. waited[e] \in Nat /\ waited'[e] = waited[e] + 1
      BY <1>3, <1>5
    <3>6. (waited[e] + Before(k)) + (SCHEDULER_TIMESLICE - cpu_time[active_proc])
             <= Before(PROC_MAX) + 1
      BY <3>3, <3>4
    <3>7. \A w, b, m, s, c \in Int :
              (w + b) + (s - c) <= m + 1 => ((w + 1) + b) + (s - (c + 1)) <= m + 1
      OBVIOUS
    <3>8. SCHEDULER_TIMESLICE \in Int /\ cpu_time[active_proc] \in Int
          /\ Before(k) \in Int /\ Before(PROC_MAX) \in Int /\ waited[e] \in Int
      BY <1>2, <2>2, <3>1, <3>5
    <3>9. ((waited[e] + 1) + Before(k)) + (SCHEDULER_TIMESLICE - (cpu_time[active_proc] + 1))
             <= Before(PROC_MAX) + 1
      BY <3>6, <3>7, <3>8
    <3> QED BY <3>2, <3>5, <3>9
  <2> QED BY <2>3, <2>4
<1> QED BY <1>1, <1>3, <1>5 DEF WaitInv, Before
-----------------------------------------------------------------------------
\* What a pass of the loop of scheduler_timer does to the head of the queue.
LEMMA ScanEffect ==
    ASSUME IInv, SleepScan
    PROVE  \E e \in Process :
              /\ pc = "timer" /\ pc' = "timer" /\ loop_i' = loop_i + 1
              /\ loop_i < Len(sleep_queue) /\ sleep_queue # <<>>
              /\ Head(sleep_queue) = pid[e] /\ state[e] = "SLEEPING"
              /\ sleep_time' = [sleep_time EXCEPT ![e] = @ - 1]
              /\ UNCHANGED <<active_proc, pid>>
              /\ \/ /\ sleep_time[e] >= 0
                    /\ sleep_queue' = Append(Tail(sleep_queue), pid[e])
                    /\ UNCHANGED <<state, cpu_time, run_queue>>
                 \/ /\ sleep_time[e] < 0
                    /\ sleep_queue' = Tail(sleep_queue)
                    /\ state' = [state EXCEPT ![e] = "IDLE"]
                    /\ cpu_time' = [cpu_time EXCEPT ![e] = 0]
                    /\ run_queue' = Append(run_queue, pid[e])
<1> DEFINE p == Head(sleep_queue)
           e == pid_to_proc(p)
<1>1. SchedTypeOK /\ Placement /\ PidsUnique /\ SleepQueueExact
  BY DEF IInv, Placement
<1>2. loop_i < Len(sleep_queue) /\ sleep_queue # <<>>
  <2>1. loop_i \in Nat /\ loop_i < Len(sleep_queue)
    BY <1>1 DEF SchedTypeOK, SleepScan
  <2>2. Len(<<>>) = 0
    OBVIOUS
  <2> QED BY <2>1, <2>2
<1>3. e \in Entry /\ pid[e] = p /\ state[e] = "SLEEPING" /\ e # None
  <2>1. p \in Pid /\ Holds(sleep_queue, p)
    BY <1>1, <1>2, TailHolds DEF SchedTypeOK, SleepQueueExact
  <2> QED BY <1>1, <2>1, LookupSleeper DEF Entry, None
<1>4. e \in Process
  BY <1>1, <1>3 DEF PidsUnique, Process
<1>5. Len(run_queue) # QUEUE_SIZE
  BY <1>1, <1>3, Room, SchedulerAssumption
<1>6. /\ pc = "timer" /\ loop_i' = loop_i + 1
      /\ sleep_time' = [sleep_time EXCEPT ![e] = @ - 1]
      /\ UNCHANGED <<active_proc, pid>>
      /\ \/ /\ e # None => sleep_time[e] >= 0
            /\ sleep_queue' = IF e = None THEN Tail(sleep_queue)
                              ELSE Append(Tail(sleep_queue), p)
            /\ UNCHANGED <<pc, state, cpu_time, scheduler_queue, run_queue>>
         \/ /\ e # None /\ sleep_time[e] < 0
            /\ sleep_queue' = Tail(sleep_queue)
            /\ scheduler_add(e, "timer")
  BY DEF SleepScan
<1> HIDE DEF p, e
<1>7. CASE scheduler_add(e, "timer")
  <2>1. /\ run_queue' = Append(run_queue, p) /\ pc' = "timer"
        /\ state' = [state EXCEPT ![e] = "IDLE"]
        /\ cpu_time' = [cpu_time EXCEPT ![e] = 0]
    BY <1>3, <1>5, <1>7 DEF scheduler_add, QueueIn
  <2>2. CASE sleep_time[e] < 0 /\ sleep_queue' = Tail(sleep_queue)
    BY <1>2, <1>3, <1>4, <1>6, <2>1, <2>2 DEF p
  <2>3. CASE UNCHANGED <<state, cpu_time, run_queue, pc>> /\ sleep_time[e] >= 0
              /\ sleep_queue' = Append(Tail(sleep_queue), p)
    BY <1>2, <1>3, <1>4, <1>6, <2>3 DEF p
  <2> QED BY <1>3, <1>6, <2>2, <2>3
<1>8. CASE /\ sleep_time[e] >= 0
           /\ sleep_queue' = Append(Tail(sleep_queue), p)
           /\ UNCHANGED <<pc, state, cpu_time, run_queue>>
  BY <1>2, <1>3, <1>4, <1>6, <1>8 DEF p
<1> QED BY <1>3, <1>6, <1>7, <1>8

\* proc_sleep(t) puts the active process at the end of the sleep queue.
LEMMA SleepEffect ==
    ASSUME IInv, NEW t \in SleepTicks, SysSleep(t)
    PROVE  \E e \in Process :
              /\ pc = "user" /\ pc' = "sched" /\ active_proc' = None
              /\ pid[e] \in Program /\ state[e] = "ACTIVE"
              /\ sleep_time' = [sleep_time EXCEPT ![e] = t]
              /\ state' = [state EXCEPT ![e] = "SLEEPING"]
              /\ sleep_queue' = Append(sleep_queue, pid[e])
              /\ UNCHANGED <<pid, run_queue>>
<1> DEFINE e == active_proc
<1>1. SchedTypeOK /\ Placement /\ e # None /\ pid[e] \in Program
  BY DEF IInv, SysSleep, SystemCall
<1>2. /\ e \in Entry /\ state[e] = "ACTIVE"
      /\ Remaining("run", run_queue, e) = run_queue
      /\ Remaining("sleep", sleep_queue, e) = sleep_queue
  BY <1>1, ActiveNotQueued
<1>3. e \in Process
  BY <1>1, <1>2 DEF Program, Process, Placement, PidsUnique
<1>4. Len(sleep_queue) # QUEUE_SIZE
  BY <1>1, Room, SchedulerAssumption
<1> QED BY <1>1, <1>2, <1>3, <1>4 DEF SysSleep, SystemCall, QueueIn

\* kproc_destroy leaves the queues and everybody but the active process alone.
LEMMA DestroyEffect ==
    ASSUME IInv, SysExit \/ KeyDestroy
    PROVE  \E e \in Process :
              /\ pc = "user" /\ pc' = "sched" /\ active_proc' = None
              /\ state[e] = "ACTIVE"
              /\ pid' = [pid EXCEPT ![e] = 0]
              /\ state' = [state EXCEPT ![e] = "NONE"]
              /\ sleep_time' = [sleep_time EXCEPT ![e] = 0]
              /\ UNCHANGED <<run_queue, sleep_queue>>
<1> DEFINE e == active_proc
<1>1. /\ SchedTypeOK /\ Placement /\ e # None /\ pid[e] # 0 /\ pc = "user"
      /\ kproc_destroy
  BY DEF IInv, SysExit, KeyDestroy, SystemCall, Program
<1>2. /\ e \in Entry /\ state[e] = "ACTIVE"
      /\ Remaining("run", run_queue, e) = run_queue
      /\ Remaining("sleep", sleep_queue, e) = sleep_queue
  BY <1>1, ActiveNotQueued
<1>3. e \in Process
  BY <1>1, <1>2 DEF Process, Placement, PidsUnique
<1> QED BY <1>1, <1>2, <1>3 DEF kproc_destroy

\* kproc_create takes a free entry and puts it at the end of the run queue.
LEMMA CreateEffect ==
    ASSUME IInv, KeyCreate
    PROVE  \E e \in Process :
              /\ pc = "user" /\ pc' = "sched" /\ active_proc # None
              /\ state[e] = "NONE" /\ UNCHANGED <<active_proc, sleep_queue>>
              /\ pid' = [pid EXCEPT ![e] = next_pid]
              /\ state' = [state EXCEPT ![e] = "IDLE"]
              /\ cpu_time' = [cpu_time EXCEPT ![e] = 0]
              /\ sleep_time' = [sleep_time EXCEPT ![e] = 0]
              /\ run_queue' = Append(run_queue, next_pid)
<1> DEFINE e == Head(proc_allocator)
<1>1. SchedTypeOK /\ Placement /\ EntriesConserved
  BY DEF IInv, Placement
<1>2. e \in Entry /\ state[e] = "NONE"
  <2>1. e \in Entry /\ Holds(proc_allocator, e)
    BY <1>1, TailHolds DEF KeyCreate, SchedTypeOK, EntriesConserved
  <2> QED BY <2>1, <1>1 DEF EntriesConserved
<1>3. e \in Process
  BY <1>1, <1>2 DEF Process, Placement, PidsUnique
<1>4. Len(run_queue) # QUEUE_SIZE
  BY <1>1, <1>2, Room, SchedulerAssumption
<1> QED BY <1>2, <1>3, <1>4 DEF KeyCreate, QueueIn
-----------------------------------------------------------------------------
\* Places in a queue after one item is added or taken.
LEMMA AppendPlace ==
    ASSUME NEW S, NEW q \in Seq(S), NEW x \in S, NEW y, NEW k \in 1 .. Len(Append(q, x)),
           Append(q, x)[k] = y
    PROVE  /\ \/ k \in 1 .. Len(q) /\ q[k] = y
              \/ k = Len(q) + 1 /\ y = x
           /\ Len(q) \in Nat /\ Len(Append(q, x)) = Len(q) + 1
<1>1. /\ Len(q) \in Nat /\ Len(Append(q, x)) = Len(q) + 1
      /\ \A i \in 1 .. Len(q) : Append(q, x)[i] = q[i]
      /\ Append(q, x)[Len(q) + 1] = x
  BY LenProperties, AppendProperties
<1>2. k \in 1 .. Len(q) \/ k = Len(q) + 1
  BY <1>1
<1> QED BY <1>1, <1>2

\* Taking the head brings everybody else one place nearer to it.
LEMMA TailPlace ==
    ASSUME NEW S, NEW q \in Seq(S), q # <<>>, NEW k \in 1 .. Len(Tail(q))
    PROVE  /\ k \in Nat \ {0} /\ k + 1 \in 1 .. Len(q) /\ q[k + 1] = Tail(q)[k]
           /\ Len(q) \in Nat /\ Len(Tail(q)) = Len(q) - 1
<1>1. /\ Len(q) \in Nat /\ Len(Tail(q)) = Len(q) - 1
      /\ \A i \in 1 .. Len(Tail(q)) : Tail(q)[i] = q[i + 1]
  BY LenProperties, HeadTailProperties
<1> QED BY <1>1

\* Taking the head makes a queue shorter by one.
LEMMA TailLength ==
    ASSUME NEW S, NEW q \in Seq(S), q # <<>>
    PROVE  /\ Tail(q) \in Seq(S) /\ Len(q) \in Nat /\ Len(Tail(q)) \in Nat
           /\ Len(q) = Len(Tail(q)) + 1 /\ Len(Tail(q)) <= Len(q)
<1> DEFINE t == Tail(q)
<1>1. t \in Seq(S) /\ Len(t) = Len(q) - 1
  BY HeadTailProperties, Zenon
<1> HIDE DEF t
<1>2. Len(q) \in Nat /\ Len(t) \in Nat
  BY <1>1, LenProperties, Zenon
<1>3. Len(q) = Len(t) + 1 /\ Len(t) <= Len(q)
  BY <1>1, <1>2
<1> QED BY <1>1, <1>2, <1>3, Zenon DEF t

\* The queue q without its head, t, gets another item at its end: everybody else
\* is one place nearer.
LEMMA RotatePlace ==
    ASSUME NEW S, NEW q \in Seq(S), NEW t \in Seq(S), Len(q) = Len(t) + 1,
           \A j \in 1 .. Len(t) : j \in Nat /\ j + 1 \in 1 .. Len(q) /\ q[j + 1] = t[j],
           NEW x \in S, NEW k \in 1 .. Len(Append(t, x))
    PROVE  /\ \/ /\ k \in Nat /\ k + 1 \in 1 .. Len(q)
                 /\ q[k + 1] = Append(t, x)[k]
              \/ k = Len(q) /\ Append(t, x)[k] = x
           /\ Len(Append(t, x)) = Len(q)
<1>1. /\ \/ k \in 1 .. Len(t) /\ t[k] = Append(t, x)[k]
         \/ k = Len(t) + 1 /\ Append(t, x)[k] = x
      /\ Len(Append(t, x)) = Len(t) + 1
  BY AppendPlace
<1> QED BY <1>1

\* Who is ready has another id than who is not.
LEMMA OtherIds ==
    ASSUME IInv, NEW e \in Process, state[e] # "NONE"
    PROVE  /\ pid[e] # next_pid
           /\ \A f \in Process : state[f] # "NONE" /\ f # e => pid[f] # pid[e]
<1>1. /\ PidsUnique /\ next_pid \in Int /\ e \in Entry \ {0}
  BY DEF IInv, Placement, SchedTypeOK, Process
<1>2. pid[e] \in 1 .. next_pid - 1
  BY <1>1 DEF PidsUnique
<1> QED BY <1>1, <1>2 DEF PidsUnique, Process
-----------------------------------------------------------------------------
\* scheduler_run takes the head off the run queue: everybody advances, and
\* whoever used his slice up is behind them.
LEMMA WaitRun ==
    ASSUME IInv, IInv', HistoryOK, WaitInv, TimingNext, RunPreempt \/ RunDispatch
    PROVE  WaitInv'
<1> DEFINE a == active_proc
           Takes(ready) == /\ run_queue' = IF ready = <<>> THEN ready ELSE Tail(ready)
                           /\ active_proc' = None => pc' = "halt"
<1>1. run_queue \in Seq(Pid) /\ pid \in [Entry -> Pid]
  BY DEF IInv, SchedTypeOK
<1>2. pc = "sched" /\ UNCHANGED pid
  BY DEF RunPreempt, RunDispatch
<1>3. \/ Takes(run_queue)
      \/ a \in Entry /\ state[a] = "ACTIVE" /\ Takes(Append(run_queue, pid[a]))
  <2>1. CASE RunPreempt
    <3>1. a \in Entry /\ state[a] = "ACTIVE"
      BY <2>1 DEF RunPreempt, Scheduled, IInv, SchedTypeOK
    <3>2. CASE pid[a] = 0
      BY <2>1, <3>2 DEF RunPreempt, Dispatch
    <3>3. CASE pid[a] # 0
      BY <2>1, <3>1, <3>3 DEF RunPreempt, Dispatch
    <3> QED BY <3>2, <3>3
  <2>2. CASE RunDispatch
    BY <2>2 DEF RunDispatch, Dispatch
  <2> QED BY <2>1, <2>2
<1>4. Left' <= Left + SCHEDULER_TIMESLICE
  <2>1. IInv' => LeftOK'
    BY LeftType, PTL
  <2> QED BY <2>1, LeftType, SchedulerAssumption DEF LeftOK
<1>5. ASSUME NEW ready \in Seq(Pid), Takes(ready), NEW k \in 1 .. Len(run_queue')
      PROVE  k + 1 \in 1 .. Len(ready) /\ ready[k + 1] = run_queue'[k]
  <2>1. ready # <<>> /\ run_queue' = Tail(ready)
    <3>1. Len(<<>>) = 0
      OBVIOUS
    <3> QED BY <1>5, <3>1
  <2> QED BY <1>5, <2>1, TailPlace
<1>6. ASSUME NEW e \in Process, NEW k \in 1 .. Len(run_queue'),
             state[e] = "IDLE", run_queue'[k] = pid'[e]
      PROVE  k + 1 \in 1 .. Len(run_queue) /\ run_queue[k + 1] = pid[e]
  <2>1. CASE Takes(run_queue)
    BY <1>1, <1>2, <1>5, <1>6, <2>1
  <2>2. CASE a \in Entry /\ state[a] = "ACTIVE" /\ Takes(Append(run_queue, pid[a]))
    <3>1. pid[e] # pid[a]
      BY <1>6, <2>2 DEF IInv, Placement, PidsUnique, Process
    <3>2. Append(run_queue, pid[a]) \in Seq(Pid) /\ pid[a] \in Pid
      BY <1>1, <2>2, AppendHolds
    <3> HIDE DEF Takes
    <3>3. k + 1 \in 1 .. Len(Append(run_queue, pid[a]))
          /\ Append(run_queue, pid[a])[k + 1] = pid[e]
      BY <1>2, <1>5, <1>6, <2>2, <3>2
    <3> QED BY <1>1, <3>1, <3>2, <3>3, AppendPlace
  <2> QED BY <1>3, <2>1, <2>2
<1>7. Tick = 0 /\ (pc' = "user" => active_proc' # None)
  BY <1>2, <1>3 DEF Tick
<1> QED BY <1>4, <1>6, <1>7, LineStep

\* Who becomes ready, woken or new, waits behind all others.
LEMMA WaitScan ==
    ASSUME IInv, IInv', HistoryOK, WaitInv, TimingNext, SleepScan
    PROVE  WaitInv'
<1>1. PICK w \in Process :
          /\ pc = "timer" /\ pc' = "timer" /\ state[w] = "SLEEPING"
          /\ UNCHANGED <<active_proc, pid>>
          /\ \/ UNCHANGED <<state, cpu_time, run_queue>>
             \/ /\ cpu_time' = [cpu_time EXCEPT ![w] = 0]
                /\ run_queue' = Append(run_queue, pid[w])
  BY ScanEffect
<1>2. Tick = 0 /\ pc' # "user"
  BY <1>1 DEF Tick
<1>3. /\ run_queue \in Seq(Pid) /\ w \in Entry /\ pid[w] \in Pid
      /\ active_proc # w
  BY <1>1 DEF IInv, SchedTypeOK, Process, Placement, OneActive
<1>4. Left' = Left
  <2>1. active_proc # None => cpu_time'[active_proc] = cpu_time[active_proc]
    BY <1>1, <1>3 DEF IInv, SchedTypeOK
  <2> QED BY <1>1, <2>1 DEF Left
<1>5. Left' <= Left
  <2>1. Left \in Int
    BY LeftType, SchedulerAssumption DEF LeftOK
  <2> QED BY <1>4, <2>1
<1>6. ASSUME NEW e \in Process, NEW k \in 1 .. Len(run_queue'),
             state[e] = "IDLE", run_queue'[k] = pid'[e]
      PROVE  k \in 1 .. Len(run_queue) /\ run_queue[k] = pid[e]
  <2>1. pid[e] # pid[w]
    BY <1>1, <1>6, OtherIds
  <2> QED BY <1>1, <1>3, <1>6, <2>1, AppendPlace
<1> QED BY <1>2, <1>5, <1>6, LineStep

\* Who is new waits behind all others, too.
LEMMA WaitCreate ==
    ASSUME IInv, IInv', HistoryOK, WaitInv, TimingNext, KeyCreate
    PROVE  WaitInv'
<1>1. PICK w \in Process :
          /\ pc = "user" /\ pc' = "sched" /\ state[w] = "NONE"
          /\ UNCHANGED active_proc
          /\ pid' = [pid EXCEPT ![w] = next_pid]
          /\ cpu_time' = [cpu_time EXCEPT ![w] = 0]
          /\ run_queue' = Append(run_queue, next_pid)
  BY CreateEffect
<1>2. Tick = 0 /\ pc' # "user"
  BY <1>1 DEF Tick
<1>3. /\ run_queue \in Seq(Pid) /\ w \in Entry /\ next_pid \in Pid
      /\ active_proc # w
  BY <1>1, SchedulerAssumption DEF IInv, SchedTypeOK, Process, Placement, OneActive, Pid
<1>4. Left' = Left
  <2>1. active_proc # None => cpu_time'[active_proc] = cpu_time[active_proc]
    BY <1>1, <1>3 DEF IInv, SchedTypeOK
  <2> QED BY <1>1, <2>1 DEF Left
<1>5. Left' <= Left
  <2>1. Left \in Int
    BY LeftType, SchedulerAssumption DEF LeftOK
  <2> QED BY <1>4, <2>1
<1>6. ASSUME NEW e \in Process, NEW k \in 1 .. Len(run_queue'),
             state[e] = "IDLE", run_queue'[k] = pid'[e]
      PROVE  k \in 1 .. Len(run_queue) /\ run_queue[k] = pid[e]
  <2>1. pid[e] # next_pid
    BY <1>6, OtherIds
  <2>2. pid'[e] = pid[e]
    BY <1>1, <1>6 DEF IInv, SchedTypeOK, Process
  <2> QED BY <1>1, <1>3, <1>6, <2>1, <2>2, AppendPlace
<1> QED BY <1>2, <1>5, <1>6, LineStep

\* Who leaves the processor early leaves the rest of the slice to nobody.
LEMMA WaitLeave ==
    ASSUME IInv, IInv', HistoryOK, WaitInv, TimingNext,
           SysExit \/ KeyDestroy \/ \E t \in SleepTicks : SysSleep(t)
    PROVE  WaitInv'
<1>1. /\ active_proc' = None /\ pc = "user" /\ pc' = "sched"
      /\ UNCHANGED run_queue
      /\ \A e \in Process : state[e] = "IDLE" => pid'[e] = pid[e]
  <2>1. CASE SysExit \/ KeyDestroy
    BY <2>1, DestroyEffect DEF IInv, SchedTypeOK, Process
  <2>2. CASE \E t \in SleepTicks : SysSleep(t)
    BY <2>2, SleepEffect
  <2> QED BY <2>1, <2>2
<1>2. Tick = 0 /\ pc' # "user"
  BY <1>1 DEF Tick
<1>3. Left' <= Left
  <2>1. Left' = 0 /\ Left \in Int /\ 0 <= Left
    BY <1>1, LeftType, SchedulerAssumption DEF Left, LeftOK
  <2> QED BY <2>1
<1> QED BY <1>1, <1>2, <1>3, LineStep

\* Steps that leave the queue and the processor alone.
LEMMA WaitKept ==
    ASSUME IInv, IInv', HistoryOK, WaitInv, TimingNext,
           RunKeep \/ SleepScanDone \/ OtherEntry
    PROVE  WaitInv'
<1>1. /\ UNCHANGED <<active_proc, pid, cpu_time, run_queue>>
      /\ Tick = 0 /\ (pc' = "user" => active_proc # None)
  BY DEF RunKeep, SleepScanDone, OtherEntry, Scheduled, pcb, lists, Tick
<1>2. Left' = Left /\ Left \in Int
  BY <1>1, LeftType, SchedulerAssumption DEF Left, LeftOK
<1>3. Left' <= Left
  BY <1>2
<1> QED BY <1>1, <1>3, LineStep
-----------------------------------------------------------------------------
\* The histories keep their types when who goes to sleep asks for a number of
\* ticks; a sleeper that goes on sleeping counts the tick, if there is one.
LEMMA HistoryStep ==
    ASSUME HistoryOK, TimingNext,
           \A e \in Process : state[e] # "SLEEPING" /\ state'[e] = "SLEEPING"
                              => sleep_time'[e] \in Nat
    PROVE  /\ HistoryOK'
           /\ \A e \in Process : state'[e] # "SLEEPING" => slept'[e] = 0 /\ asked'[e] = 0
           /\ \A e \in Process : state[e] = "SLEEPING" /\ state'[e] = "SLEEPING"
                 => slept'[e] = slept[e] + Tick /\ asked'[e] = asked[e]
<1>1. Tick \in Nat
  BY DEF Tick
<1>2. \A e \in Process : waited[e] \in Nat /\ slept[e] \in Nat /\ asked[e] \in Nat
  BY DEF HistoryOK
<1>3. /\ waited' = [e \in Process |-> IF state'[e] = "IDLE" THEN waited[e] + Tick ELSE 0]
      /\ slept'  = [e \in Process |-> IF state'[e] = "SLEEPING" THEN slept[e] + Tick ELSE 0]
      /\ asked'  = [e \in Process |->
                      IF state'[e] # "SLEEPING" THEN 0
                      ELSE IF state[e] = "SLEEPING" THEN asked[e] ELSE sleep_time'[e]]
  BY DEF TimingNext
<1>4. \A e \in Process : waited[e] + Tick \in Nat /\ slept[e] + Tick \in Nat
  BY <1>1, <1>2
<1>5. waited' \in [Process -> Nat] /\ slept' \in [Process -> Nat]
  BY <1>3, <1>4
<1>6. asked' \in [Process -> Nat]
  BY <1>2, <1>3
<1> QED BY <1>3, <1>5, <1>6 DEF HistoryOK

\* Where the pids and queues stay, the same entries sleep.
LEMMA SameSleepers ==
    ASSUME IInv, IInv', UNCHANGED <<pid, sleep_queue, proc_allocator>>, NEW e \in Entry
    PROVE  state'[e] = "SLEEPING" <=> state[e] = "SLEEPING"
<1>1. /\ SleepQueueExact /\ SleepQueueExact' /\ EntriesConserved /\ EntriesConserved'
      /\ PidsUnique /\ PidsUnique' /\ pid[e] \in Pid
  BY DEF IInv, Placement, SchedTypeOK
<1>2. state[e] = "NONE" <=> state'[e] = "NONE"
  BY <1>1 DEF EntriesConserved
<1>3. ASSUME state[e] = "SLEEPING" PROVE state'[e] = "SLEEPING"
  <2>1. PICK f \in Entry : pid'[f] = pid[e] /\ state'[f] = "SLEEPING"
    BY <1>1, <1>3 DEF SleepQueueExact
  <2> QED BY <1>1, <1>2, <1>3, <2>1 DEF PidsUnique
<1>4. ASSUME state'[e] = "SLEEPING" PROVE state[e] = "SLEEPING"
  <2>1. PICK f \in Entry : pid[f] = pid[e] /\ state[f] = "SLEEPING"
    BY <1>1, <1>4 DEF SleepQueueExact
  <2> QED BY <1>1, <1>2, <1>4, <2>1 DEF PidsUnique
<1> QED BY <1>3, <1>4

\* What SleepInv says of a sleeper, with the ranges the arithmetic needs.
LEMMA SleeperFacts ==
    ASSUME IInv, HistoryOK, SleepInv, NEW e \in Process, state[e] = "SLEEPING"
    PROVE  /\ slept[e] \in Nat /\ asked[e] \in Nat /\ sleep_time[e] \in Int
           /\ -1 <= sleep_time[e] /\ sleep_time[e] <= asked[e]
           /\ Passes(e) \in Nat /\ Passes(e) <= asked[e] + 1
           /\ Ticks(Passes(e)) \in Nat
           /\ Ticks(Passes(e) + 1) = Ticks(Passes(e)) + (NBoot - 1)
<1>1. slept[e] \in Nat /\ asked[e] \in Nat /\ sleep_time[e] \in Int
  BY DEF HistoryOK, IInv, SchedTypeOK, Process
<1>2. -1 <= sleep_time[e] /\ sleep_time[e] <= asked[e]
  BY <1>1 DEF SleepInv
<1>3. Passes(e) \in Nat /\ Passes(e) <= asked[e] + 1
  BY <1>1, <1>2 DEF Passes
<1> QED BY <1>1, <1>2, <1>3, TicksFacts
-----------------------------------------------------------------------------
\* Steps outside the loop of scheduler_timer that leave the sleepers alone.
LEMMA SleepKept ==
    ASSUME IInv, IInv', HistoryOK, SleepInv, TimingNext, Tick = 0,
           pc # "timer", pc' # "timer", UNCHANGED sleep_queue,
           \A e \in Process : state'[e] = "SLEEPING" <=> state[e] = "SLEEPING",
           \A e \in Process : state[e] = "SLEEPING" => /\ pid'[e] = pid[e]
                                                     /\ sleep_time'[e] = sleep_time[e]
    PROVE  HistoryOK' /\ SleepInv'
<1>1. /\ HistoryOK'
      /\ \A e \in Process : state'[e] # "SLEEPING" => slept'[e] = 0 /\ asked'[e] = 0
      /\ \A e \in Process : state[e] = "SLEEPING"
            => slept'[e] = slept[e] + 0 /\ asked'[e] = asked[e]
  BY HistoryStep
<1>2. ASSUME NEW e \in Process, state'[e] = "SLEEPING"
      PROVE  /\ slept'[e] = slept[e] /\ asked'[e] = asked[e] /\ Passes(e)' = Passes(e)
             /\ sleep_time'[e] \in -1 .. asked'[e]
  <2>1. state[e] = "SLEEPING" /\ slept[e] \in Nat
    BY <1>2 DEF HistoryOK
  <2>2. slept'[e] = slept[e] /\ asked'[e] = asked[e] /\ sleep_time'[e] = sleep_time[e]
    BY <1>1, <2>1
  <2> QED BY <2>1, <2>2 DEF Passes, SleepInv
<1>3. ASSUME NEW e \in Process, NEW k \in 1 .. Len(sleep_queue'),
             state'[e] = "SLEEPING", sleep_queue'[k] = pid'[e]
      PROVE  OnTime(e, k)'
  <2>1. OnTime(e, k)
    BY <1>3 DEF SleepInv
  <2> QED BY <1>2, <1>3, <2>1 DEF OnTime, Ticks
<1> QED BY <1>1, <1>2, <1>3 DEF SleepInv

\* scheduler_run and the kernel entries but proc_sleep are such steps.
LEMMA SleepOthers ==
    ASSUME IInv, IInv', HistoryOK, SleepInv, TimingNext,
           SchedulerRun \/ OtherEntry \/ SysExit \/ KeyDestroy \/ KeyCreate
    PROVE  HistoryOK' /\ SleepInv'
<1>1. CASE SchedulerRun \/ OtherEntry
  <2>1. /\ UNCHANGED <<pid, sleep_queue, sleep_time, proc_allocator>>
        /\ pc # "timer" /\ pc' # "timer"
    BY <1>1 DEF SchedulerRun, RunKeep, RunPreempt, RunDispatch, Dispatch, OtherEntry, pcb, lists
  <2>2. \A e \in Process : state'[e] = "SLEEPING" <=> state[e] = "SLEEPING"
    BY <2>1, SameSleepers DEF Process
  <2> QED BY <2>1, <2>2, SleepKept DEF Tick
<1>2. CASE SysExit \/ KeyDestroy
  <2>1. PICK a \in Process :
            /\ pc = "user" /\ pc' = "sched" /\ state[a] = "ACTIVE"
            /\ pid' = [pid EXCEPT ![a] = 0]
            /\ state' = [state EXCEPT ![a] = "NONE"]
            /\ sleep_time' = [sleep_time EXCEPT ![a] = 0]
            /\ UNCHANGED sleep_queue
    BY <1>2, DestroyEffect
  <2>2. \A e \in Process : /\ state'[e] = "SLEEPING" <=> state[e] = "SLEEPING"
                           /\ state[e] = "SLEEPING" => /\ pid'[e] = pid[e]
                                                      /\ sleep_time'[e] = sleep_time[e]
    BY <2>1 DEF IInv, SchedTypeOK, Process
  <2> QED BY <2>1, <2>2, SleepKept DEF Tick
<1>3. CASE KeyCreate
  <2>1. PICK a \in Process :
            /\ pc = "user" /\ pc' = "sched" /\ state[a] = "NONE"
            /\ pid' = [pid EXCEPT ![a] = next_pid]
            /\ state' = [state EXCEPT ![a] = "IDLE"]
            /\ sleep_time' = [sleep_time EXCEPT ![a] = 0]
            /\ UNCHANGED sleep_queue
    BY <1>3, CreateEffect
  <2>2. \A e \in Process : /\ state'[e] = "SLEEPING" <=> state[e] = "SLEEPING"
                           /\ state[e] = "SLEEPING" => /\ pid'[e] = pid[e]
                                                      /\ sleep_time'[e] = sleep_time[e]
    BY <2>1 DEF IInv, SchedTypeOK, Process
  <2> QED BY <2>1, <2>2, SleepKept DEF Tick
<1> QED BY <1>1, <1>2, <1>3

\* A tick begins: the loop has yet to come to every sleeper.
LEMMA SleepTick ==
    ASSUME IInv, IInv', HistoryOK, SleepInv, TimingNext, TimerIrq
    PROVE  HistoryOK' /\ SleepInv'
<1>1. /\ UNCHANGED <<pid, state, sleep_time, sleep_queue>>
      /\ pc = "user" /\ loop_i' = 0 /\ Tick = 1
  BY DEF TimerIrq, Tick, lists
<1>2. /\ HistoryOK'
      /\ \A e \in Process : state'[e] # "SLEEPING" => slept'[e] = 0 /\ asked'[e] = 0
      /\ \A e \in Process : state[e] = "SLEEPING"
            => slept'[e] = slept[e] + 1 /\ asked'[e] = asked[e]
  BY <1>1, HistoryStep
<1>3. ASSUME NEW e \in Process, NEW k \in 1 .. Len(sleep_queue),
             state[e] = "SLEEPING", sleep_queue[k] = pid[e]
      PROVE  OnTime(e, k)'
  <2>1. OnTime(e, k) /\ pc # "timer"
    BY <1>1, <1>3 DEF SleepInv
  <2>2. slept[e] \in Nat /\ Passes(e) \in Nat /\ Ticks(Passes(e)) \in Nat
    BY <1>3, SleeperFacts
  <2>3. /\ slept'[e] = slept[e] + 1 /\ Passes(e)' = Passes(e)
        /\ Ticks(Passes(e))' = Ticks(Passes(e))
    BY <1>1, <1>2, <1>3 DEF Passes, Ticks
  <2>4. Passes(e) <= slept[e] /\ slept[e] + k <= Ticks(Passes(e))
    BY <2>1 DEF OnTime
  <2>5. Passes(e) < slept[e] + 1 /\ ((slept[e] + 1) + k) + 0 <= Ticks(Passes(e)) + 1
    BY <2>2, <2>4
  <2>6. pc' = "timer" /\ Passes(e) <= slept[e] + 1
    BY <2>2, <2>4 DEF TimerIrq
  <2> QED BY <1>1, <2>3, <2>5, <2>6 DEF OnTime
<1> QED BY <1>1, <1>2, <1>3 DEF SleepInv

\* The loop ends: it made a pass, so whom it left out came nearer to the head.
LEMMA SleepScanEnd ==
    ASSUME IInv, IInv', HistoryOK, SleepInv, TimingNext, SleepScanDone
    PROVE  HistoryOK' /\ SleepInv'
<1>1. /\ UNCHANGED <<loop_i, pid, state, sleep_time, sleep_queue>>
      /\ pc = "timer" /\ pc' = "sched" /\ Tick = 0 /\ loop_i >= Len(sleep_queue)
  BY DEF SleepScanDone, Tick, pcb, lists
<1>2. /\ HistoryOK'
      /\ \A e \in Process : state'[e] # "SLEEPING" => slept'[e] = 0 /\ asked'[e] = 0
      /\ \A e \in Process : state[e] = "SLEEPING"
            => slept'[e] = slept[e] + 0 /\ asked'[e] = asked[e]
  BY <1>1, HistoryStep
<1>3. ASSUME NEW e \in Process, NEW k \in 1 .. Len(sleep_queue),
             state[e] = "SLEEPING", sleep_queue[k] = pid[e]
      PROVE  OnTime(e, k)'
  <2>1. OnTime(e, k)
    BY <1>3 DEF SleepInv
  <2>2. slept[e] \in Nat /\ Passes(e) \in Nat /\ Ticks(Passes(e)) \in Nat
    BY <1>3, SleeperFacts
  <2>3. /\ slept'[e] = slept[e] /\ Passes(e)' = Passes(e)
        /\ Ticks(Passes(e))' = Ticks(Passes(e))
    BY <1>1, <1>2, <1>3, <2>2 DEF Passes, Ticks
  <2>4. loop_i \in Nat /\ loop_i >= 1
    <3>1. Len(sleep_queue) \in Nat /\ loop_i \in Nat
      BY LenProperties DEF IInv, SchedTypeOK
    <3> QED BY <1>1, <3>1
  <2>5. Passes(e) <= slept[e]
    BY <2>1 DEF OnTime
  <2>6. slept[e] + k <= Ticks(Passes(e))
    <3>1. CASE slept[e] + k <= Ticks(Passes(e))
      BY <3>1
    <3>2. CASE (slept[e] + k) + loop_i <= Ticks(Passes(e)) + 1
      BY <2>2, <2>4, <3>2
    <3> QED BY <2>1, <3>1, <3>2 DEF OnTime
  <2> QED BY <1>1, <2>3, <2>5, <2>6 DEF OnTime
<1> QED BY <1>1, <1>2, <1>3 DEF SleepInv

\* A pass of the loop: everybody behind the head comes nearer to it.  Who goes to
\* the end of the queue has a whole round of passes over others ahead of it.
LEMMA SleepPass ==
    ASSUME IInv, IInv', HistoryOK, SleepInv, TimingNext, SleepScan
    PROVE  HistoryOK' /\ SleepInv'
<1> DEFINE q == sleep_queue
<1>1. PICK w \in Process :
          /\ pc = "timer" /\ pc' = "timer" /\ loop_i' = loop_i + 1
          /\ loop_i < Len(q) /\ q # <<>>
          /\ Head(q) = pid[w] /\ state[w] = "SLEEPING"
          /\ sleep_time' = [sleep_time EXCEPT ![w] = @ - 1]
          /\ UNCHANGED pid
          /\ \/ /\ sleep_time[w] >= 0
                /\ sleep_queue' = Append(Tail(q), pid[w])
                /\ UNCHANGED state
             \/ /\ sleep_queue' = Tail(q)
                /\ state' = [state EXCEPT ![w] = "IDLE"]
  BY ScanEffect
<1>2. /\ q \in Seq(Pid) /\ w \in Entry /\ pid[w] \in Pid /\ loop_i \in Nat
      /\ sleep_time \in [Entry -> Int] /\ DOMAIN state = Entry
  BY <1>1 DEF IInv, SchedTypeOK, Process
<1>3. /\ Tail(q) \in Seq(Pid) /\ Len(q) \in Nat /\ Len(Tail(q)) = Len(q) - 1
      /\ Head(q) = q[1] /\ 1 \in 1 .. Len(q)
  BY <1>1, <1>2, HeadTailProperties, LenProperties
<1>4. /\ HistoryOK'
      /\ \A e \in Process : state'[e] # "SLEEPING" => slept'[e] = 0 /\ asked'[e] = 0
      /\ \A e \in Process : state[e] = "SLEEPING" /\ state'[e] = "SLEEPING"
            => slept'[e] = slept[e] /\ asked'[e] = asked[e]
  <2>1. Tick = 0
    BY <1>1 DEF Tick
  <2>2. \A e \in Process : state'[e] = "SLEEPING" => state[e] = "SLEEPING"
    BY <1>1, <1>2 DEF Process
  <2>3. \A e \in Process : slept[e] + 0 = slept[e]
    BY DEF HistoryOK
  <2> QED BY <2>1, <2>2, <2>3, HistoryStep
<1>5. \A e \in Process : state'[e] = "SLEEPING" => state[e] = "SLEEPING"
  BY <1>1, <1>2 DEF Process
<1>6. ASSUME NEW k \in 1 .. Len(sleep_queue')
      PROVE  \/ /\ k \in Nat /\ k + 1 \in 1 .. Len(q) /\ q[k + 1] = sleep_queue'[k]
                /\ Len(sleep_queue') <= Len(q)
             \/ /\ k = Len(q) /\ Len(sleep_queue') = Len(q)
                /\ sleep_time[w] >= 0 /\ sleep_queue'[k] = pid[w]
  <2>1. PICK t \in Seq(Pid) :
            /\ \/ sleep_time[w] >= 0 /\ sleep_queue' = Append(t, pid[w])
               \/ sleep_queue' = t
            /\ Len(q) = Len(t) + 1 /\ Len(t) <= Len(q)
            /\ \A j \in 1 .. Len(t) : j \in Nat /\ j + 1 \in 1 .. Len(q) /\ q[j + 1] = t[j]
    <3>1. \A j \in 1 .. Len(Tail(q)) :
             j \in Nat /\ j + 1 \in 1 .. Len(q) /\ q[j + 1] = Tail(q)[j]
      BY <1>1, <1>2, TailPlace, Zenon
    <3>2. \/ sleep_time[w] >= 0 /\ sleep_queue' = Append(Tail(q), pid[w])
          \/ sleep_queue' = Tail(q)
      BY <1>1, Zenon
    <3> QED BY <1>1, <1>2, <3>1, <3>2, TailLength, Zenon
  <2>2. CASE sleep_time[w] >= 0 /\ sleep_queue' = Append(t, pid[w])
    <3>1. k \in 1 .. Len(Append(t, pid[w]))
      BY <1>6, <2>2, Zenon
    <3>2. /\ \/ /\ k \in Nat /\ k + 1 \in 1 .. Len(q)
                /\ q[k + 1] = Append(t, pid[w])[k]
             \/ k = Len(q) /\ Append(t, pid[w])[k] = pid[w]
          /\ Len(Append(t, pid[w])) = Len(q)
      BY <1>2, <2>1, <3>1, RotatePlace
    <3>3. Len(q) <= Len(q)
      BY <1>3
    <3> QED BY <2>2, <3>2, <3>3, Zenon
  <2>3. CASE sleep_queue' = t
    BY <1>6, <2>1, <2>3, Zenon
  <2> QED BY <2>1, <2>2, <2>3
<1>7. ASSUME NEW k \in 1 .. Len(sleep_queue') PROVE sleep_queue'[k] \in Program
  <2>1. \A j \in 1 .. Len(q) : q[j] \in Program
    BY Zenon DEF SleepInv
  <2>2. pid[w] \in Program
    BY <1>1, <1>3, <2>1, Zenon
  <2> QED BY <1>6, <1>7, <2>1, <2>2, Zenon
<1>8. \A e \in Process : state'[e] = "SLEEPING" => sleep_time'[e] \in -1 .. asked'[e]
  <2> SUFFICES ASSUME NEW e \in Process, state'[e] = "SLEEPING"
               PROVE  sleep_time'[e] \in -1 .. asked'[e]
    OBVIOUS
  <2>1. state[e] = "SLEEPING" /\ asked'[e] = asked[e] /\ asked[e] \in Nat /\ e \in Entry
    BY <1>4, <1>5 DEF HistoryOK, Process
  <2>2. sleep_time[e] \in -1 .. asked[e]
    BY <2>1 DEF SleepInv
  <2>3. e = w => sleep_time[w] >= 0
    BY <1>1, <1>2
  <2> QED BY <1>1, <1>2, <2>1, <2>2, <2>3
<1>9. ASSUME NEW e \in Process, NEW k \in 1 .. Len(sleep_queue'),
             state'[e] = "SLEEPING", sleep_queue'[k] = pid'[e]
      PROVE  OnTime(e, k)'
  <2>1. /\ slept[e] \in Nat /\ Passes(e) \in Nat /\ Ticks(Passes(e)) \in Nat
        /\ Ticks(Passes(e) + 1) = Ticks(Passes(e)) + (NBoot - 1)
        /\ asked[e] \in Nat /\ sleep_time[e] \in Int
    BY <1>5, <1>9, SleeperFacts
  <2>2. slept'[e] = slept[e] /\ asked'[e] = asked[e] /\ state[e] = "SLEEPING"
    BY <1>4, <1>5, <1>9
  <2>3. CASE e # w
    <3>1. pid[e] # pid[w] /\ sleep_time'[e] = sleep_time[e]
      BY <1>1, <1>2, <2>2, <2>3, OtherIds
    <3>2. /\ k \in Nat /\ k + 1 \in 1 .. Len(q) /\ q[k + 1] = pid[e]
          /\ Len(sleep_queue') <= Len(q)
      BY <1>1, <1>6, <1>9, <3>1
    <3>3. OnTime(e, k + 1)
      BY <2>2, <3>2 DEF SleepInv
    <3>4. Passes(e)' = Passes(e) /\ Ticks(Passes(e))' = Ticks(Passes(e))
      BY <2>2, <3>1 DEF Passes, Ticks
    <3>5. Len(sleep_queue') \in Nat
      BY <1>1, <1>3, AppendProperties, LenProperties
    <3>6. Passes(e) <= slept[e]
      BY <3>3 DEF OnTime
    <3>7. k + (loop_i + 1) <= Len(sleep_queue') => Passes(e) < slept[e]
      <4>1. (k + 1) + loop_i <= Len(q) => Passes(e) < slept[e]
        BY <1>1, <3>3 DEF OnTime
      <4> QED BY <1>2, <1>3, <2>1, <3>2, <3>5, <4>1
    <3>8. \/ slept[e] + k <= Ticks(Passes(e))
          \/ (slept[e] + k) + (loop_i + 1) <= Ticks(Passes(e)) + 1
      <4>1. \/ slept[e] + (k + 1) <= Ticks(Passes(e))
            \/ (slept[e] + (k + 1)) + loop_i <= Ticks(Passes(e)) + 1
        BY <3>3 DEF OnTime
      <4>2. \A n, i, l, m \in Int :
                \/ n + (i + 1) <= m
                \/ (n + (i + 1)) + l <= m + 1
                => n + i <= m \/ (n + i) + (l + 1) <= m + 1
        OBVIOUS
      <4>3. slept[e] \in Int /\ k \in Int /\ loop_i \in Int /\ Ticks(Passes(e)) \in Int
        BY <1>2, <2>1, <3>2
      <4> QED BY <4>1, <4>2, <4>3
    <3> QED BY <1>1, <2>2, <3>4, <3>6, <3>7, <3>8 DEF OnTime
  <2>4. CASE e = w
    <3>1. /\ k = Len(q) /\ Len(sleep_queue') = Len(q) /\ sleep_time[w] >= 0
      <4>1. ~(k \in Nat /\ k + 1 \in 1 .. Len(q) /\ q[k + 1] = sleep_queue'[k])
        <5>1. IsInjectiveSeq(q)
          BY DEF IInv, Placement, SleepQueueExact
        <5> QED BY <1>1, <1>3, <1>9, <2>4, <5>1 DEF IsInjectiveSeq
      <4> QED BY <1>6, <4>1
    <3>2. OnTime(w, 1)
      BY <1>1, <1>3 DEF SleepInv
    <3>3. Passes(w) < slept[w]
      BY <1>1, <1>2, <1>3, <3>2 DEF OnTime
    <3>4. slept[w] <= Ticks(Passes(w))
      <4>1. \/ slept[w] + 1 <= Ticks(Passes(w))
            \/ (slept[w] + 1) + loop_i <= Ticks(Passes(w)) + 1
        BY <3>2 DEF OnTime
      <4>2. \A n, m \in Int : \A l \in Nat : n + 1 <= m \/ (n + 1) + l <= m + 1 => n <= m
        OBVIOUS
      <4>3. slept[w] \in Int /\ Ticks(Passes(w)) \in Int
        BY <2>1, <2>4
      <4> QED BY <1>2, <4>1, <4>2, <4>3
    <3>5. Len(q) <= NBoot - 1
      BY Sleepers DEF SleepInv, OnlyPrograms, SleepRoom
    <3>6. sleep_time'[w] = sleep_time[w] - 1
      BY <1>1, <1>2
    <3>7. Passes(w)' = Passes(w) + 1
      BY <2>1, <2>2, <2>4, <3>6 DEF Passes
    <3>8. Ticks(Passes(w))' = Ticks(Passes(w)) + (NBoot - 1)
      BY <2>1, <2>4, <3>7 DEF Ticks
    <3>9. NBoot - 1 \in Nat
      BY TicksFacts
    <3>10. Passes(w) + 1 <= slept[w] /\ slept[w] + k <= Ticks(Passes(w)) + (NBoot - 1)
      BY <1>3, <2>1, <2>4, <3>1, <3>3, <3>4, <3>5, <3>9
    <3>11. ~(k + (loop_i + 1) <= Len(sleep_queue'))
      BY <1>2, <1>3, <3>1
    <3> QED BY <1>1, <2>2, <2>4, <3>7, <3>8, <3>10, <3>11 DEF OnTime
  <2> QED BY <2>3, <2>4
<1> QED BY <1>4, <1>7, <1>8, <1>9 DEF SleepInv

\* Who goes to sleep is the last of at most NBoot - 1 sleepers.
LEMMA SleepCall ==
    ASSUME IInv, IInv', HistoryOK, SleepInv, TimingNext, NEW t \in SleepTicks, SysSleep(t)
    PROVE  HistoryOK' /\ SleepInv'
<1>1. PICK w \in Process :
          /\ pc = "user" /\ pc' = "sched"
          /\ pid[w] \in Program /\ state[w] = "ACTIVE"
          /\ sleep_time' = [sleep_time EXCEPT ![w] = t]
          /\ state' = [state EXCEPT ![w] = "SLEEPING"]
          /\ sleep_queue' = Append(sleep_queue, pid[w])
          /\ UNCHANGED pid
  BY SleepEffect
<1>2. /\ sleep_queue \in Seq(Pid) /\ w \in Entry /\ pid[w] \in Pid /\ t \in Nat
      /\ DOMAIN sleep_time = Entry /\ DOMAIN state = Entry
  BY <1>1, SchedulerAssumption DEF IInv, SchedTypeOK, Process
<1>3. /\ sleep_time'[w] = t /\ state'[w] = "SLEEPING"
      /\ \A e \in Process : e # w => sleep_time'[e] = sleep_time[e] /\ state'[e] = state[e]
  BY <1>1, <1>2 DEF Process
<1>4. /\ HistoryOK'
      /\ \A e \in Process : state'[e] # "SLEEPING" => slept'[e] = 0 /\ asked'[e] = 0
      /\ \A e \in Process : state[e] = "SLEEPING" /\ state'[e] = "SLEEPING"
            => slept'[e] = slept[e] /\ asked'[e] = asked[e]
  <2>1. Tick = 0
    BY <1>1 DEF Tick
  <2>2. \A e \in Process : state[e] # "SLEEPING" /\ state'[e] = "SLEEPING"
                              => sleep_time'[e] \in Nat
    BY <1>2, <1>3
  <2>3. \A e \in Process : slept[e] + 0 = slept[e]
    BY DEF HistoryOK
  <2> QED BY <2>1, <2>2, <2>3, HistoryStep
<1>5. slept'[w] = 0 /\ asked'[w] = t
  <2>1. slept[w] = 0
    BY <1>1 DEF SleepInv
  <2> QED BY <1>1, <1>3, <2>1 DEF TimingNext, Tick
<1>6. ASSUME NEW k \in 1 .. Len(sleep_queue') PROVE sleep_queue'[k] \in Program
  <2>1. \/ k \in 1 .. Len(sleep_queue) /\ sleep_queue[k] = sleep_queue'[k]
        \/ sleep_queue'[k] = pid[w]
    BY <1>1, <1>2, <1>6, AppendPlace
  <2> QED BY <1>1, <2>1 DEF SleepInv
<1>7. SleepRoom'
  <2>1. IInv' /\ OnlyPrograms' => SleepRoom'
    BY Sleepers, PTL
  <2> QED BY <1>6, <2>1 DEF OnlyPrograms
<1>8. ASSUME NEW e \in Process, state'[e] = "SLEEPING"
      PROVE  sleep_time'[e] \in -1 .. asked'[e]
  <2>1. CASE e = w
    BY <1>2, <1>3, <1>5, <2>1
  <2>2. CASE e # w
    BY <1>3, <1>4, <1>8, <2>2 DEF SleepInv
  <2> QED BY <2>1, <2>2
<1>9. ASSUME NEW e \in Process, NEW k \in 1 .. Len(sleep_queue'),
             state'[e] = "SLEEPING", sleep_queue'[k] = pid'[e]
      PROVE  OnTime(e, k)'
  <2>1. CASE e # w
    <3>1. /\ state[e] = "SLEEPING" /\ sleep_time'[e] = sleep_time[e]
          /\ slept'[e] = slept[e] /\ asked'[e] = asked[e]
      BY <1>3, <1>4, <1>9, <2>1
    <3>2. pid[e] # pid[w]
      BY <1>1, <2>1, <3>1, OtherIds
    <3>3. k \in 1 .. Len(sleep_queue) /\ sleep_queue[k] = pid[e]
      BY <1>1, <1>2, <1>9, <3>2, AppendPlace
    <3>4. OnTime(e, k)
      BY <3>1, <3>3 DEF SleepInv
    <3> QED BY <1>1, <3>1, <3>4 DEF OnTime, Passes, Ticks
  <2>2. CASE e = w
    <3>1. Passes(w)' = 0
      BY <1>2, <1>3, <1>5 DEF Passes
    <3>2. Ticks(Passes(w))' = NBoot - 1
      BY <3>1, TicksFacts DEF Ticks
    <3>3. k \in Nat /\ k <= NBoot - 1
      BY <1>7, <1>9, TicksFacts DEF SleepRoom
    <3> QED BY <1>1, <1>5, <2>2, <3>1, <3>2, <3>3 DEF OnTime
  <2> QED BY <2>1, <2>2
<1> QED BY <1>4, <1>6, <1>8, <1>9 DEF SleepInv
-----------------------------------------------------------------------------
\* At the start nobody has waited, and the queue fits the table.
LEMMA HistoryInit == TimingInit => HInv
<1> SUFFICES ASSUME TimingInit PROVE HInv
  OBVIOUS
<1>1. HistoryOK
  BY DEF TimingInit, HistoryOK
<1>2. WaitInv
  <2>1. /\ IInv /\ active_proc = None
        /\ \A e \in Process : waited[e] = 0
    BY InitInv DEF TimingInit, Init
  <2>2. Left = 0 /\ LineRoom
    BY <2>1, Waiting DEF Left
  <2>3. ASSUME NEW k \in 1 .. Len(run_queue)
        PROVE  /\ Before(k) \in Nat /\ Before(PROC_MAX) \in Nat
               /\ Before(k) <= Before(PROC_MAX)
    <3>1. k \in Nat \ {0} /\ k <= PROC_MAX /\ PROC_MAX \in Nat \ {0}
      BY <2>2, <2>3, SchedulerAssumption DEF LineRoom
    <3> QED BY <3>1, BeforeFacts
  <2>4. ASSUME NEW k \in 1 .. Len(run_queue)
        PROVE  (0 + Before(k)) + Left <= Before(PROC_MAX) + 1
    BY <2>2, <2>3, <2>4
  <2> QED BY <2>1, <2>4 DEF WaitInv
<1>3. SleepInv
  <2>1. /\ sleep_queue = <<>>
        /\ \A e \in Process : slept[e] = 0 /\ asked[e] = 0 /\ state[e] # "SLEEPING"
    BY DEF TimingInit, Init, Process
  <2>2. ~ \E k \in 1 .. Len(sleep_queue) : TRUE
    <3>1. Len(<<>>) = 0
      OBVIOUS
    <3> QED BY <2>1, <3>1
  <2> QED BY <2>1, <2>2 DEF SleepInv
<1> QED BY <1>1, <1>2, <1>3 DEF HInv

\* Every step keeps both bounds, each action by its own lemma.
LEMMA HistoryNext ==
    IInv /\ IInv' /\ HInv /\ [TimingNext]_<<vars, history>> => HInv'
<1> SUFFICES ASSUME IInv, IInv', HistoryOK, WaitInv, SleepInv,
                    [TimingNext]_<<vars, history>>
             PROVE  HistoryOK' /\ WaitInv' /\ SleepInv'
  BY DEF HInv
<1>1. CASE TimingNext
  <2> USE <1>1
  <2>1. CASE TimerIrq
    BY <2>1, WaitTick, SleepTick
  <2>2. CASE SleepScan
    BY <2>2, WaitScan, SleepPass
  <2>3. CASE SleepScanDone
    BY <2>3, WaitKept, SleepScanEnd
  <2>4. CASE SchedulerRun
    BY <2>4, WaitKept, WaitRun, SleepOthers DEF SchedulerRun
  <2>5. ASSUME NEW t \in SleepTicks, SysSleep(t)
        PROVE  HistoryOK' /\ WaitInv' /\ SleepInv'
    BY <2>5, WaitLeave, SleepCall
  <2>6. CASE SysExit \/ KeyDestroy
    BY <2>6, WaitLeave, SleepOthers
  <2>7. CASE KeyCreate
    BY <2>7, WaitCreate, SleepOthers
  <2>8. CASE OtherEntry
    BY <2>8, WaitKept, SleepOthers
  <2> QED BY <1>1, <2>1, <2>2, <2>3, <2>4, <2>5, <2>6, <2>7, <2>8
          DEF TimingNext, Next, Kernel
<1>2. CASE UNCHANGED <<vars, history>>
  BY <1>2 DEF vars, pcb, lists, history, HistoryOK, WaitInv, SleepInv,
              Left, Before, OnTime, Passes, Ticks
<1> QED BY <1>1, <1>2

\* The invariants of the scheduler and of the histories hold at every step.
LEMMA HistoryInvariance == TimingSpec => []IInv /\ []HInv
<1>1. IInv /\ [TimingNext]_<<vars, history>> => IInv'
  BY TimingSteps, NextInv
<1>2. IInv /\ HInv /\ [TimingNext]_<<vars, history>> => IInv' /\ HInv'
  BY <1>1, HistoryNext
<1>3. TimingInit => IInv /\ HInv
  BY HistoryInit, InitInv DEF TimingInit
<1> QED BY <1>2, <1>3, PTL DEF TimingSpec
-----------------------------------------------------------------------------
\* The histories leave the scheduler what it is: every process is in its place
\* and no kernel entry panics while they are recorded, and ids take their turns.
THEOREM SchedulerKept ==
    TimingSpec => [](SchedTypeOK /\ Placement /\ NeverPanics) /\ ImplementsRoundRobin
<1>1. IInv => SchedTypeOK /\ Placement /\ NeverPanics
  BY DEF IInv
<1> QED BY <1>1, TimingScheduler, RoundRobinCorrect, PTL

\* A ready process runs within one time slice of every other entry of the table,
\* whatever sleeps, exits, is created and is destroyed meanwhile.
THEOREM WaitBoundCorrect == TimingSpec => []WaitBound
<1>1. IInv /\ HInv => WaitBound
  <2> SUFFICES ASSUME IInv, HInv, NEW e \in Process
               PROVE  waited[e] <= (PROC_MAX - 1) * SCHEDULER_TIMESLICE + 1
    BY DEF WaitBound
  <2>1. HistoryOK /\ WaitInv /\ waited[e] \in Nat
    BY DEF HInv, HistoryOK
  <2>2. PROC_MAX \in Nat \ {0} /\ Before(PROC_MAX) \in Nat
    BY SchedulerAssumption, BeforeFacts
  <2>3. CASE state[e] = "IDLE"
    <3>1. PICK k \in 1 .. Len(run_queue) : run_queue[k] = pid[e]
      BY <2>3 DEF IInv, Placement, RunQueueExact, Holds, Process
    <3>2. (waited[e] + Before(k)) + Left <= Before(PROC_MAX) + 1
      BY <2>1, <2>3, <3>1 DEF WaitInv
    <3>3. Before(k) \in Nat /\ Left \in Nat
      <4>1. k \in Nat \ {0}
        BY <3>1, Waiting DEF LineRoom
      <4> QED BY <4>1, BeforeFacts, LeftType, SchedulerAssumption DEF LeftOK
    <3> QED BY <2>1, <2>2, <3>2, <3>3 DEF Before
  <2>4. CASE state[e] # "IDLE"
    BY <2>1, <2>2, <2>4 DEF WaitInv, Before
  <2> QED BY <2>3, <2>4
<1> QED BY <1>1, HistoryInvariance, PTL

\* A sleeper sleeps no longer than the ticks in which t + 2 passes over it must
\* come, although the loop of scheduler_timer leaves out the end of its queue.
THEOREM WakeBoundCorrect == TimingSpec => []WakeBound
<1>1. IInv /\ HInv => WakeBound
  <2> SUFFICES ASSUME IInv, HInv, NEW e \in Process
               PROVE  slept[e] <= Ticks(asked[e] + 1)
    BY DEF WakeBound, Ticks, HInv, HistoryOK
  <2>1. HistoryOK /\ SleepInv /\ slept[e] \in Nat /\ asked[e] \in Nat
    BY DEF HInv, HistoryOK
  <2>2. asked[e] + 1 \in Nat /\ Ticks(asked[e] + 1) \in Nat
    <3>1. asked[e] + 1 \in Nat
      BY <2>1
    <3> QED BY <3>1, TicksFacts
  <2>3. CASE state[e] = "SLEEPING"
    <3>1. PICK k \in 1 .. Len(sleep_queue) : sleep_queue[k] = pid[e]
      BY <2>3 DEF IInv, Placement, SleepQueueExact, Holds, Process
    <3>2. OnTime(e, k)
      BY <2>1, <2>3, <3>1 DEF SleepInv
    <3>3. k \in Nat \ {0} /\ loop_i \in Nat
      <4>1. Len(sleep_queue) \in Nat /\ loop_i \in Nat
        BY LenProperties DEF IInv, SchedTypeOK
      <4> QED BY <4>1, <3>1
    <3>4. /\ Passes(e) \in Nat /\ Passes(e) <= asked[e] + 1
          /\ Ticks(Passes(e)) \in Nat
      BY <2>1, <2>3, SleeperFacts
    <3>5. slept[e] <= Ticks(Passes(e))
      <4>1. \/ slept[e] + k <= Ticks(Passes(e))
            \/ (slept[e] + k) + loop_i <= Ticks(Passes(e)) + 1
        BY <3>2 DEF OnTime
      <4> QED BY <2>1, <3>3, <3>4, <4>1
    <3>6. Ticks(Passes(e)) <= Ticks(asked[e] + 1) /\ Ticks(asked[e] + 1) \in Nat
      BY <2>1, <2>2, <3>4, TicksFacts
    <3> QED BY <2>1, <2>2, <3>4, <3>5, <3>6
  <2>4. CASE state[e] # "SLEEPING"
    <3>1. slept[e] = 0
      BY <2>1, <2>4 DEF SleepInv
    <3> QED BY <2>2, <3>1
  <2> QED BY <2>3, <2>4
<1> QED BY <1>1, HistoryInvariance, PTL

\* proc_sleep(t) lasts more than t ticks: only the pass that finds the time below
\* zero wakes, the passes before it took a tick each and so did this one.
THEOREM NoEarlyWakeCorrect == TimingSpec => NoEarlyWake
<1> DEFINE OnlyLate == \A e \in Process : state[e] = "SLEEPING" /\ state'[e] = "IDLE"
                                            => slept[e] > asked[e]
<1>1. IInv /\ IInv' /\ HInv /\ [TimingNext]_<<vars, history>>
        => [OnlyLate]_<<vars, history>>
  <2> SUFFICES ASSUME IInv, IInv', HistoryOK, SleepInv, TimingNext, NEW e \in Process,
                      state[e] = "SLEEPING", state'[e] = "IDLE"
               PROVE  slept[e] > asked[e]
    BY DEF HInv
  <2>1. CASE SleepScan
    <3>1. PICK w \in Process :
              /\ pc = "timer" /\ loop_i < Len(sleep_queue) /\ sleep_queue # <<>>
              /\ Head(sleep_queue) = pid[w]
              /\ \/ UNCHANGED state
                 \/ sleep_time[w] < 0 /\ state' = [state EXCEPT ![w] = "IDLE"]
      BY <2>1, ScanEffect
    <3>2. e = w /\ sleep_time[e] < 0
      BY <3>1 DEF IInv, SchedTypeOK, Process
    <3>3. Len(sleep_queue) \in Nat /\ loop_i \in Nat /\ Head(sleep_queue) = sleep_queue[1]
      BY <3>1, LenProperties, HeadTailProperties DEF IInv, SchedTypeOK
    <3>4. OnTime(e, 1)
      BY <3>1, <3>2, <3>3 DEF SleepInv
    <3>5. Passes(e) < slept[e]
      BY <3>1, <3>3, <3>4 DEF OnTime
    <3>6. slept[e] \in Nat /\ asked[e] \in Nat /\ sleep_time[e] \in Int
      BY SleeperFacts
    <3> QED BY <3>2, <3>5, <3>6 DEF Passes
  <2>2. CASE TimerIrq \/ SleepScanDone \/ SchedulerRun \/ OtherEntry
    <3>1. UNCHANGED <<pid, sleep_queue, proc_allocator>>
      BY <2>2 DEF TimerIrq, SleepScanDone, SchedulerRun, RunKeep, RunPreempt, RunDispatch,
                  Dispatch, OtherEntry, pcb, lists
    <3> QED BY <3>1, SameSleepers DEF Process
  <2>3. ASSUME NEW t \in SleepTicks, SysSleep(t) PROVE FALSE
    BY <2>3, SleepEffect DEF IInv, SchedTypeOK, Process
  <2>4. CASE SysExit \/ KeyDestroy
    BY <2>4, DestroyEffect DEF IInv, SchedTypeOK, Process
  <2>5. CASE KeyCreate
    BY <2>5, CreateEffect DEF IInv, SchedTypeOK, Process
  <2> QED BY <2>1, <2>2, <2>3, <2>4, <2>5 DEF TimingNext, Next, Kernel
<1> QED BY <1>1, HistoryInvariance, PTL DEF TimingSpec, NoEarlyWake
=============================================================================
