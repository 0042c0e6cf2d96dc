----------------------------- MODULE KSemProofs -----------------------------
(***************************************************************************)
(* The ids and the tokens of the semaphores for every number of processes, *)
(* of semaphores and of counts, under any callers (SemSpec) and under the  *)
(* pings and pongs (PingPongSpec); then the types of the composed system   *)
(* (TypeInv) and the turns of the pings and pongs (TurnInv).  Placement of *)
(* the scheduler is not used and would not hold: sem_wait takes its caller *)
(* off the CPU before it sets the state.  What is left of it for the       *)
(* programs is Placed below.                                               *)
(***************************************************************************)
EXTENDS PingPong, SchedulerProofs, WellFoundedInduction

\* The variables of the semaphores keep their types.
SemVarsOK == /\ allocated \in [Sem -> {0, 1}]
             /\ count \in [Sem -> Nat]
             /\ wait_queue \in [Sem -> Seq(Int)]
             /\ sem_queue \in Seq(Sem)
             /\ null_pid \in Int
             /\ tokens \in [Sem -> Nat]

KInv == SemVarsOK /\ SemIdsExact /\ NoTokenCreated /\ PoolHasNoWaiters
-----------------------------------------------------------------------------
\* A step that leaves the semaphores alone.
LEMMA SemUnchanged ==
    ASSUME KInv, UNCHANGED <<sems, null_pid, tokens>>
    PROVE  KInv'
BY DEF KInv, SemVarsOK, SemIdsExact, NoTokenCreated, PoolHasNoWaiters, sems

\* What is queued under QueueIn, whether the queue is full or not.
LEMMA QueueInType ==
    ASSUME NEW S, NEW q \in Seq(S), NEW x \in S
    PROVE  QueueIn(q, x) \in Seq(S)
BY AppendHolds DEF QueueIn

\* There are SEM_MAX ids, so the pool has room for one that is not in it.
LEMMA PoolRoom ==
    ASSUME NEW q \in Seq(Sem), IsInjectiveSeq(q), NEW s \in Sem, ~Holds(q, s)
    PROVE  Len(q) < QUEUE_SIZE
<1>1. IsFiniteSet(Sem) /\ Cardinality(Sem) = SEM_MAX
  <2>1. 0 <= SEM_MAX - 1
    BY SemAssumption DEF Sem
  <2>2. Cardinality(0 .. SEM_MAX - 1) = (SEM_MAX - 1) - 0 + 1
    BY <2>1, SemAssumption, FS_Interval
  <2> QED BY <2>2, SemAssumption, FS_Interval DEF Sem
<1>2. Append(q, s) \in Seq(Sem) /\ IsInjectiveSeq(Append(q, s))
  BY AppendHolds
<1> DEFINE p == Append(q, s)
<1>3. Len(p) = Len(q) + 1 /\ Len(q) \in Nat /\ \A k \in 1 .. Len(p) : p[k] \in Sem
  BY <1>2, AppendProperties, LenProperties, ElementOfSeq
<1>4. [k \in 1 .. Len(p) |-> p[k]] \in Injection(1 .. Len(p), Sem)
  BY <1>2, <1>3, Fun_IsInj DEF IsInjectiveSeq
<1>5. IsFiniteSet(1 .. Len(p)) /\ Cardinality(1 .. Len(p)) = Len(p)
  <2>1. 1 <= Len(p) /\ Len(p) \in Int
    BY <1>3
  <2>2. Cardinality(1 .. Len(p)) = Len(p) - 1 + 1
    BY <2>1, FS_Interval
  <2> QED BY <2>1, <2>2, FS_Interval
<1>6. Len(p) <= SEM_MAX
  BY <1>1, <1>4, <1>5, FS_Injection
<1> HIDE DEF p
<1> QED BY <1>3, <1>6, SemAssumption, SchedulerAssumption
-----------------------------------------------------------------------------
\* sem_init: the id at the head leaves the pool, with as many tokens as count.
LEMMA SemInitCall == ASSUME KInv, NEW v \in Nat, ksem_init(v) PROVE KInv'
<1>1. CASE sem_queue = <<>>
  <2>1. UNCHANGED semVars
    BY <1>1 DEF ksem_init
  <2> QED BY <2>1, SemUnchanged DEF semVars
<1>2. CASE sem_queue # <<>>
  <2> DEFINE s == Head(sem_queue)
  <2>1. /\ allocated' = [allocated EXCEPT ![s] = 1]
        /\ count' = [count EXCEPT ![s] = v]
        /\ tokens' = [tokens EXCEPT ![s] = v]
        /\ wait_queue' = [wait_queue EXCEPT ![s] = <<>>]
        /\ sem_queue' = Tail(sem_queue)
        /\ null_pid' = null_pid
    BY <1>2 DEF ksem_init
  <2>2. /\ s \in Sem /\ sem_queue' \in Seq(Sem) /\ IsInjectiveSeq(sem_queue')
        /\ \A y : Holds(sem_queue', y) <=> Holds(sem_queue, y) /\ y # s
    BY <1>2, <2>1, TailHolds DEF KInv, SemVarsOK, SemIdsExact
  <2> HIDE DEF s
  <2>3. \A x \in Sem : /\ allocated'[x] = IF x = s THEN 1 ELSE allocated[x]
                       /\ count'[x] = IF x = s THEN v ELSE count[x]
                       /\ tokens'[x] = IF x = s THEN v ELSE tokens[x]
                       /\ wait_queue'[x] = IF x = s THEN <<>> ELSE wait_queue[x]
    BY <2>1 DEF KInv, SemVarsOK
  <2>4. SemVarsOK'
    <3>1. wait_queue' \in [Sem -> Seq(Int)]
      <4>1. <<>> \in Seq(Int)
        OBVIOUS
      <4> QED BY <2>1, <4>1, ExceptType DEF KInv, SemVarsOK
    <3> QED BY <2>1, <2>2, <3>1 DEF KInv, SemVarsOK
  <2>5. SemIdsExact'
    BY <2>2, <2>3 DEF KInv, SemIdsExact
  <2>6. NoTokenCreated' /\ PoolHasNoWaiters'
    BY <2>3 DEF KInv, NoTokenCreated, PoolHasNoWaiters
  <2> QED BY <2>4, <2>5, <2>6 DEF KInv
<1> QED BY <1>1, <1>2

\* sem_destroy: an id that nobody waits on goes back to the pool, which has
\* room for it.
LEMMA SemDestroyCall == ASSUME KInv, NEW s \in Sem, ksem_destroy(s) PROVE KInv'
<1>1. CASE UNCHANGED semVars
  BY <1>1, SemUnchanged DEF semVars
<1>2. CASE ~UNCHANGED semVars
  <2>1. /\ allocated[s] = 1 /\ wait_queue[s] = <<>>
        /\ allocated' = [allocated EXCEPT ![s] = 0]
        /\ sem_queue' = QueueIn(sem_queue, s)
        /\ UNCHANGED <<count, wait_queue, null_pid, tokens>>
    BY <1>2 DEF ksem_destroy
  <2>2. sem_queue \in Seq(Sem) /\ IsInjectiveSeq(sem_queue) /\ ~Holds(sem_queue, s)
    BY <2>1 DEF KInv, SemVarsOK, SemIdsExact
  <2>3. sem_queue' = Append(sem_queue, s)
    <3>1. Len(sem_queue) # QUEUE_SIZE
      BY <2>2, PoolRoom, SchedulerAssumption
    <3> QED BY <2>1, <3>1 DEF QueueIn
  <2>4. /\ sem_queue' \in Seq(Sem) /\ IsInjectiveSeq(sem_queue')
        /\ \A y : Holds(sem_queue', y) <=> Holds(sem_queue, y) \/ y = s
    BY <2>2, <2>3, AppendHolds
  <2>5. \A x \in Sem : allocated'[x] = IF x = s THEN 0 ELSE allocated[x]
    BY <2>1 DEF KInv, SemVarsOK
  <2>6. SemVarsOK'
    <3>1. allocated' \in [Sem -> {0, 1}]
      BY <2>1 DEF KInv, SemVarsOK
    <3> QED BY <2>1, <2>4, <3>1 DEF KInv, SemVarsOK
  <2>7. SemIdsExact'
    BY <2>4, <2>5 DEF KInv, SemIdsExact
  <2>8. NoTokenCreated' /\ PoolHasNoWaiters'
    BY <2>1, <2>5 DEF KInv, NoTokenCreated, PoolHasNoWaiters
  <2> QED BY <2>6, <2>7, <2>8 DEF KInv
<1> QED BY <1>1, <1>2

\* sem_wait: a count that is positive is taken together with a token; a caller
\* that is blocked is queued on a semaphore that is allocated.
LEMMA SemWaitCall == ASSUME KInv, NEW s \in Sem, ksem_wait(s) PROVE KInv'
<1>0. UNCHANGED <<allocated, sem_queue, null_pid>>
  BY DEF ksem_wait
<1>1. CASE UNCHANGED <<count, wait_queue, tokens>>
  BY <1>0, <1>1, SemUnchanged DEF sems
<1>2. CASE /\ allocated[s] = 1 /\ count[s] > 0
           /\ count' = [count EXCEPT ![s] = @ - 1]
           /\ tokens' = [tokens EXCEPT ![s] = @ - 1]
           /\ wait_queue' = wait_queue
  <2>1. count[s] \in Nat \ {0} /\ tokens[s] \in Nat /\ count[s] <= tokens[s]
    BY <1>2 DEF KInv, SemVarsOK, NoTokenCreated
  <2>2. count[s] - 1 \in Nat /\ tokens[s] - 1 \in Nat /\ count[s] - 1 <= tokens[s] - 1
    BY <2>1
  <2>3. SemVarsOK'
    BY <1>0, <1>2, <2>2 DEF KInv, SemVarsOK
  <2>4. NoTokenCreated'
    <3>1. \A x \in Sem : /\ count'[x] = IF x = s THEN count[s] - 1 ELSE count[x]
                         /\ tokens'[x] = IF x = s THEN tokens[s] - 1 ELSE tokens[x]
      BY <1>2 DEF KInv, SemVarsOK
    <3> QED BY <1>0, <2>2, <3>1 DEF KInv, NoTokenCreated
  <2> QED BY <1>0, <1>2, <2>3, <2>4 DEF KInv, SemIdsExact, PoolHasNoWaiters
<1>3. CASE /\ allocated[s] = 1
           /\ wait_queue' = [wait_queue EXCEPT ![s] = QueueIn(@, null_pid)]
           /\ UNCHANGED <<count, tokens>>
  <2>1. wait_queue[s] \in Seq(Int) /\ null_pid \in Int
    BY DEF KInv, SemVarsOK
  <2>2. QueueIn(wait_queue[s], null_pid) \in Seq(Int)
    BY <2>1, QueueInType
  <2>3. SemVarsOK'
    BY <1>0, <1>3, <2>2, ExceptType DEF KInv, SemVarsOK
  <2>4. PoolHasNoWaiters'
    BY <1>0, <1>3 DEF KInv, SemVarsOK, PoolHasNoWaiters
  <2> QED BY <1>0, <1>3, <2>3, <2>4 DEF KInv, SemIdsExact, NoTokenCreated
<1> QED BY <1>1, <1>2, <1>3 DEF ksem_wait

\* sem_post: a token more in the count, or one handed to the waiter that is
\* woken, or one more in both when that process waited for something else.
LEMMA SemPostCall == ASSUME KInv, NEW s \in Sem, ksem_post(s) PROVE KInv'
<1>0. UNCHANGED <<allocated, sem_queue, null_pid>>
  BY DEF ksem_post
<1>1. count[s] \in Nat /\ tokens[s] \in Nat
  BY DEF KInv, SemVarsOK
<1>2. CASE UNCHANGED <<count, wait_queue, tokens>>
  BY <1>0, <1>2, SemUnchanged DEF sems
<1>3. CASE /\ allocated[s] = 1
           /\ \/ wait_queue' = wait_queue
              \/ /\ wait_queue[s] # <<>>
                 /\ wait_queue' = [wait_queue EXCEPT ![s] = Tail(@)]
           /\ \/ /\ count' = count
                 /\ tokens' = tokens \/ tokens' = [tokens EXCEPT ![s] = @ + 1]
              \/ /\ count' = [count EXCEPT ![s] = @ + 1]
                 /\ tokens' = [tokens EXCEPT ![s] = @ + 1]
  <2>1. wait_queue' \in [Sem -> Seq(Int)]
    <3>1. wait_queue[s] # <<>> => Tail(wait_queue[s]) \in Seq(Int)
      BY HeadTailProperties DEF KInv, SemVarsOK
    <3> QED BY <1>3, <3>1, ExceptType DEF KInv, SemVarsOK
  <2>2. count' \in [Sem -> Nat] /\ tokens' \in [Sem -> Nat]
    <3>1. count[s] + 1 \in Nat /\ tokens[s] + 1 \in Nat
      BY <1>1
    <3>2. /\ [count EXCEPT ![s] = @ + 1] \in [Sem -> Nat]
          /\ [tokens EXCEPT ![s] = @ + 1] \in [Sem -> Nat]
      BY <3>1, ExceptType DEF KInv, SemVarsOK
    <3> QED BY <1>3, <3>2 DEF KInv, SemVarsOK
  <2>3. SemVarsOK'
    BY <1>0, <2>1, <2>2 DEF KInv, SemVarsOK
  <2>4. NoTokenCreated'
    <3>1. \/ count'[s] = count[s] /\ tokens'[s] = tokens[s]
          \/ count'[s] = count[s] /\ tokens'[s] = tokens[s] + 1
          \/ count'[s] = count[s] + 1 /\ tokens'[s] = tokens[s] + 1
      BY <1>3 DEF KInv, SemVarsOK
    <3>2. count'[s] <= tokens'[s]
      BY <1>1, <1>3, <3>1 DEF KInv, NoTokenCreated
    <3>3. \A x \in Sem : x # s => count'[x] = count[x] /\ tokens'[x] = tokens[x]
      BY <1>3 DEF KInv, SemVarsOK
    <3> QED BY <1>0, <3>2, <3>3 DEF KInv, NoTokenCreated
  <2>5. PoolHasNoWaiters'
    BY <1>0, <1>3 DEF KInv, SemVarsOK, PoolHasNoWaiters
  <2> QED BY <1>0, <2>3, <2>4, <2>5 DEF KInv, SemIdsExact
<1>4. CASE allocated[s] = 0
  BY <1>2, <1>4 DEF ksem_post
<1>5. CASE allocated[s] = 1 /\ wait_queue[s] = <<>>
  BY <1>3, <1>5 DEF ksem_post
<1>6. CASE allocated[s] = 1 /\ wait_queue[s] # <<>>
  <2>1. Wake(s, Head(wait_queue[s]))
    BY <1>6 DEF ksem_post
  <2>2. \/ count' = count /\ (tokens' = tokens \/ tokens' = [tokens EXCEPT ![s] = @ + 1])
        \/ /\ count' = [count EXCEPT ![s] = @ + 1]
           /\ tokens' = [tokens EXCEPT ![s] = @ + 1]
    BY <2>1 DEF Wake, KInv, SemVarsOK
  <2>3. wait_queue' = [wait_queue EXCEPT ![s] = Tail(@)]
    BY <2>1 DEF Wake
  <2> QED BY <1>3, <1>6, <2>2, <2>3
<1>7. allocated[s] \in {0, 1}
  BY DEF KInv, SemVarsOK
<1> QED BY <1>4, <1>5, <1>6, <1>7
-----------------------------------------------------------------------------
\* ksemaphores_init puts every id into the pool, once.
LEMMA SemInitInv == SemInit => KInv
<1> SUFFICES ASSUME SemInit PROVE KInv
  OBVIOUS
<1> USE SemAssumption
<1>1. /\ sem_queue \in Seq(Sem) /\ Len(sem_queue) = SEM_MAX
      /\ \A k \in 1 .. SEM_MAX : sem_queue[k] = k - 1
  <2>1. sem_queue \in [1 .. SEM_MAX -> Sem] /\ SEM_MAX \in Nat
    BY DEF SemInit, Sem
  <2> QED BY <2>1 DEF SemInit
<1>2. \A s \in Sem : Holds(sem_queue, s)
  <2>1. \A s \in Sem : s + 1 \in 1 .. SEM_MAX /\ sem_queue[s + 1] = s
    BY <1>1 DEF Sem
  <2> QED BY <1>1, <2>1 DEF Holds
<1>3. SemIdsExact
  BY <1>1, <1>2 DEF SemInit, SemIdsExact, IsInjectiveSeq
<1>4. SemVarsOK
  BY <1>1 DEF SemInit, SemVarsOK
<1> QED BY <1>3, <1>4 DEF SemInit, KInv, NoTokenCreated, PoolHasNoWaiters

\* Any calls keep the invariant.
LEMMA SemNextInv == KInv /\ [SemNext]_allVars => KInv'
<1> SUFFICES ASSUME KInv, [SemNext]_allVars PROVE KInv'
  OBVIOUS
<1>1. CASE SchedulerStep
  BY <1>1, SemUnchanged DEF SchedulerStep
<1>2. ASSUME NEW v \in Values, ksem_init(v) PROVE KInv'
  BY <1>2, SemInitCall, SemAssumption
<1>3. ASSUME NEW s \in Sem, ksem_destroy(s) \/ ksem_wait(s) \/ ksem_post(s) PROVE KInv'
  BY <1>3, SemDestroyCall, SemWaitCall, SemPostCall
<1>4. CASE UNCHANGED allVars
  BY <1>4, SemUnchanged DEF allVars, semVars
<1> QED BY <1>1, <1>2, <1>3, <1>4 DEF SemNext

\* So do the programs: they ask for counts of 0 and 1, and use the ids that
\* sem_init returned, or -1, which the kernel refuses.
LEMMA PingPongNextInv == KInv /\ [PingPongNext]_systemVars => KInv'
<1> SUFFICES ASSUME KInv, [PingPongNext]_systemVars PROVE KInv'
  OBVIOUS
<1>1. CASE ProgramStep
  <2>1. CASE \/ Test(0, "init0", "test1") \/ Test(1, "init1", Begin)
             \/ Assign(0, "test1") \/ Assign(1, Begin)
    <3>1. UNCHANGED allVars
      BY <2>1 DEF Test, Assign
    <3> QED BY <3>1, SemUnchanged DEF allVars, semVars
  <2>2. ASSUME NEW k \in Side, SemaphoreInit(k) PROVE KInv'
    <3>1. ksem_init(1) \/ ksem_init(0)
      BY <2>2 DEF SemaphoreInit
    <3> QED BY <3>1, SemInitCall
  <2>3. CASE SemWait
    <3>1. CASE Refused
      BY <3>1, SemUnchanged DEF Refused, semVars
    <3>2. CASE pingpong_semaphores[Mine] \in Sem /\ ksem_wait(pingpong_semaphores[Mine])
      BY <3>2, SemWaitCall
    <3> QED BY <2>3, <3>1, <3>2 DEF SemWait
  <2>4. CASE Nap
    BY <2>4, SemUnchanged DEF Nap, semVars
  <2>5. CASE SemPost
    <3>1. CASE Refused
      BY <3>1, SemUnchanged DEF Refused, semVars
    <3>2. CASE pingpong_semaphores[Theirs] \in Sem /\ ksem_post(pingpong_semaphores[Theirs])
      BY <3>2, SemPostCall
    <3> QED BY <2>5, <3>1, <3>2 DEF SemPost
  <2> QED BY <1>1, <2>1, <2>2, <2>3, <2>4, <2>5 DEF ProgramStep
<1>2. CASE Elsewhere
  BY <1>2, SemUnchanged DEF Elsewhere
<1>3. CASE AnyCall
  <2>1. ASSUME NEW v \in Values, ksem_init(v) PROVE KInv'
    BY <2>1, SemInitCall, SemAssumption
  <2>2. ASSUME NEW s \in Sem, ksem_destroy(s) \/ ksem_wait(s) \/ ksem_post(s) PROVE KInv'
    BY <2>2, SemDestroyCall, SemWaitCall, SemPostCall
  <2> QED BY <1>3, <2>1, <2>2 DEF AnyCall
<1>4. CASE UNCHANGED systemVars
  BY <1>4, SemUnchanged DEF systemVars, allVars, semVars
<1> QED BY <1>1, <1>2, <1>3, <1>4 DEF PingPongNext

\* KInv is an invariant whoever calls.
LEMMA SemInvariance == SemSpec => []KInv
<1>1. SemInit => KInv  BY SemInitInv
<1>2. KInv /\ [SemNext]_allVars => KInv'  BY SemNextInv
<1> QED BY <1>1, <1>2, PTL DEF SemSpec

\* The invariant of the semaphores holds at every step.
LEMMA PingPongInvariance == PingPongSpec => []KInv
<1>1. PingPongInit => KInv  BY SemInitInv DEF PingPongInit
<1>2. KInv /\ [PingPongNext]_systemVars => KInv'  BY PingPongNextInv
<1> QED BY <1>1, <1>2, PTL DEF PingPongSpec

\* Whatever programs run and whatever ids they pass, the semaphores keep their
\* ids, tokens and waiters apart.
THEOREM SemaphoresCorrect ==
    SemSpec => [](SemIdsExact /\ NoTokenCreated /\ PoolHasNoWaiters)
<1>1. KInv => SemIdsExact /\ NoTokenCreated /\ PoolHasNoWaiters  BY DEF KInv
<1> QED BY <1>1, SemInvariance, PTL

\* Every semaphore is allocated or in the pool, once: the queue of free ids
\* never overflows, so no destroyed semaphore is lost.
THEOREM SemIdsCorrect == PingPongSpec => []SemIdsExact
<1>1. KInv => SemIdsExact  BY DEF KInv
<1> QED BY <1>1, PingPongInvariance, PTL

\* No more waits are granted than the initial counts and the posts allow.
THEOREM NoTokenCreatedCorrect == PingPongSpec => []NoTokenCreated
<1>1. KInv => NoTokenCreated  BY DEF KInv
<1> QED BY <1>1, PingPongInvariance, PTL

\* A semaphore that is handed out again has no waiters of its former users.
THEOREM PoolHasNoWaitersCorrect == PingPongSpec => []PoolHasNoWaiters
<1>1. KInv => PoolHasNoWaiters  BY DEF KInv
<1> QED BY <1>1, PingPongInvariance, PTL
-----------------------------------------------------------------------------
(***************************************************************************)
(* The types, under the pings and pongs.  The table stays well-typed though*)
(* sem_wait leaves its caller active and off the CPU, and though sem_post  *)
(* may make any process ready: scheduler_add, scheduler_remove and         *)
(* scheduler_run check the entry and not the state.                        *)
(***************************************************************************)

\* The process that runs is active, and nobody has used up its time slice but
\* the active process, which scheduler_run unschedules then.
SliceLeft == \A e \in Entry : \/ cpu_time[e] < SCHEDULER_TIMESLICE
                              \/ pc # "user" /\ e = active_proc /\ state[e] = "ACTIVE"
RunsActive == pc = "user" /\ active_proc # None => state[active_proc] = "ACTIVE"
TableOK == SchedTypeOK /\ SliceLeft /\ RunsActive

\* A set of entries has a first one: pid_to_proc scans the table from 0.
LEMMA FirstEntry ==
    ASSUME NEW T \in SUBSET Entry, T # {}
    PROVE  \E e \in T : \A f \in T : e <= f
<1> DEFINE R == {ss \in Nat \X Nat : ss[1] < ss[2]}
<1>1. T \subseteq Nat
  BY SchedulerAssumption DEF Entry
<1>2. PICK x \in T : \A y \in T : <<y, x>> \notin R
  <2>1. IsWellFoundedOn(R, Nat)
    BY NatLessThanWellFounded DEF OpToRel
  <2> HIDE DEF R
  <2> QED BY <2>1, <1>1, WFMin
<1>3. \A y \in T : ~(y < x)
  <2> SUFFICES ASSUME NEW y \in T, y < x PROVE FALSE
    OBVIOUS
  <2>1. <<y, x>> \in Nat \X Nat /\ <<y, x>>[1] = y /\ <<y, x>>[2] = x
    BY <1>1
  <2>2. <<y, x>> \in R
    BY <2>1
  <2> QED BY <2>2, <1>2
<1> QED BY <1>1, <1>3

\* pid_to_proc returns an entry with the id, if there is one.
LEMMA LookupType ==
    ASSUME NEW p
    PROVE  /\ pid_to_proc(p) \in Entry \cup {None}
           /\ pid_to_proc(p) # None => pid[pid_to_proc(p)] = p
           /\ \A e \in Entry : pid[e] = p => pid_to_proc(p) # None
<1> DEFINE T == {e \in Entry : pid[e] = p}
<1>1. CASE T = {}
  BY <1>1 DEF pid_to_proc
<1>2. CASE T # {}
  <2>1. PICK e \in T : \A f \in T : e <= f
    BY <1>2, FirstEntry
  <2>2. \E x \in Entry : pid[x] = p /\ \A f \in Entry : pid[f] = p => x <= f
    BY <2>1
  <2>3. pid_to_proc(p) \in Entry /\ pid[pid_to_proc(p)] = p
    BY <2>2 DEF pid_to_proc
  <2> QED BY <2>3, SchedulerAssumption DEF Entry, None
<1> QED BY <1>1, <1>2

\* The queue that queue_out leaves, and the item that it returns.
LEMMA TailType ==
    ASSUME NEW S, NEW q \in Seq(S), q # <<>>
    PROVE  Tail(q) \in Seq(S) /\ Head(q) \in S
BY HeadTailProperties

\* scheduler_remove leaves a queue of ids a queue of ids.
LEMMA RemainingType ==
    ASSUME NEW S, NEW q \in Seq(S), NEW name, NEW e
    PROVE  Remaining(name, q, e) \in Seq(S)
BY WithoutType DEF Remaining
-----------------------------------------------------------------------------
\* scheduler_run runs an entry of the table, which becomes active, or panics.
LEMMA DispatchTypes ==
    ASSUME SchedTypeOK, NEW ready \in Seq(Pid), NEW states \in [Entry -> State],
           Dispatch(ready, states)
    PROVE  /\ active_proc' \in Entry \cup {None}
           /\ state' \in [Entry -> State]
           /\ run_queue' \in Seq(Pid)
           /\ pc' \in {"user", "halt"}
           /\ pc' = "user" => active_proc' # None /\ state'[active_proc'] = "ACTIVE"
<1> DEFINE a == pid_to_proc(IF ready = <<>> THEN 0 ELSE Head(ready))
<1>1. a \in Entry \cup {None}
  BY LookupType
<1> HIDE DEF a
<1>2. active_proc' = a /\ state' = [states EXCEPT ![a] = "ACTIVE"]
  BY DEF Dispatch, a
<1>3. run_queue' = (IF ready = <<>> THEN ready ELSE Tail(ready)) /\ pc' \in {"user", "halt"}
      /\ (pc' = "user" => a # None)
  BY DEF Dispatch, a
<1>4. run_queue' \in Seq(Pid)
  BY <1>3, TailType
<1>5. state' \in [Entry -> State]
  BY <1>2 DEF State
<1> QED BY <1>1, <1>2, <1>3, <1>4, <1>5

\* The timer interrupt counts a tick for the active process, which was not at
\* its limit before.
LEMMA TableTimerIrq == TableOK /\ TimerIrq => TableOK'
<1> SUFFICES ASSUME TableOK, TimerIrq PROVE TableOK'
  OBVIOUS
<1> USE DEF TableOK, TimerIrq, lists
<1>1. CASE active_proc = None
  <2>1. cpu_time' = cpu_time
    BY <1>1
  <2> QED BY <1>1, <2>1 DEF SchedTypeOK, SliceLeft, RunsActive
<1>2. CASE active_proc # None
  <2>1. cpu_time' = [cpu_time EXCEPT ![active_proc] = @ + 1] /\ active_proc \in Entry
    BY <1>2 DEF SchedTypeOK
  <2>2. state[active_proc] = "ACTIVE" /\ cpu_time[active_proc] < SCHEDULER_TIMESLICE
    BY <1>2, <2>1 DEF RunsActive, SliceLeft
  <2>3. cpu_time[active_proc] + 1 \in 0 .. SCHEDULER_TIMESLICE
    BY <2>1, <2>2, SchedulerAssumption DEF SchedTypeOK
  <2>4. cpu_time' \in [Entry -> 0 .. SCHEDULER_TIMESLICE]
    BY <2>1, <2>3 DEF SchedTypeOK
  <2>5. SchedTypeOK'
    BY <2>4 DEF SchedTypeOK
  <2>6. SliceLeft'
    BY <2>1, <2>2 DEF SliceLeft, SchedTypeOK
  <2>7. RunsActive'
    BY DEF RunsActive
  <2> QED BY <2>5, <2>6, <2>7
<1> QED BY <1>1, <1>2

\* scheduler_add of an entry leaves its process with a whole time slice.
LEMMA TableAdd ==
    ASSUME TableOK, NEW e \in Entry, NEW next \in {"timer", "sched"}, scheduler_add(e, next),
           pc' = "timer" => pc # "user",
           loop_i' \in Nat, sleep_time' \in [Entry -> Int], sleep_queue' \in Seq(Pid),
           UNCHANGED <<active_proc, pid, proc_allocator, next_pid>>,
           pc \in {"user", "timer"},
           pc = "timer" \/ RunsActive
    PROVE  TableOK'
<1>1. pid[e] \in Pid /\ 0 \in 0 .. SCHEDULER_TIMESLICE
  BY SchedulerAssumption DEF TableOK, SchedTypeOK
<1>2. run_queue' \in Seq(Pid)
  BY <1>1, QueueInType DEF TableOK, SchedTypeOK, scheduler_add
<1>3. /\ state' \in [Entry -> State] /\ cpu_time' \in [Entry -> 0 .. SCHEDULER_TIMESLICE]
      /\ scheduler_queue' \in [Entry -> {"none", "run", "sleep"}]
      /\ pc' \in {next, "halt"}
  BY <1>1 DEF TableOK, SchedTypeOK, scheduler_add, State
<1>4. SchedTypeOK'
  BY <1>2, <1>3 DEF TableOK, SchedTypeOK
<1>5. \A f \in Entry : f # e => cpu_time'[f] = cpu_time[f] /\ state'[f] = state[f]
  BY DEF scheduler_add, TableOK, SchedTypeOK
<1>6. cpu_time'[e] = 0 /\ 0 < SCHEDULER_TIMESLICE
  BY SchedulerAssumption DEF scheduler_add, TableOK, SchedTypeOK
<1>7. SliceLeft' /\ RunsActive'
  BY <1>3, <1>5, <1>6 DEF SliceLeft, RunsActive, TableOK
<1> QED BY <1>4, <1>7 DEF TableOK

\* scheduler_timer looks at one sleeper, even one that is no process.
LEMMA TableSleepScan == TableOK /\ SleepScan => TableOK'
<1> SUFFICES ASSUME TableOK, SleepScan PROVE TableOK'
  OBVIOUS
<1> DEFINE p == Head(sleep_queue)
           e == pid_to_proc(p)
<1>1. e \in Entry \cup {None}
  BY LookupType
<1>2. sleep_queue # <<>> /\ sleep_queue \in Seq(Pid)
  <2>1. Len(sleep_queue) # 0
    BY DEF SleepScan, TableOK, SchedTypeOK
  <2> QED BY <2>1, EmptySeq DEF TableOK, SchedTypeOK
<1>3. p \in Pid /\ Tail(sleep_queue) \in Seq(Pid)
  BY <1>2, TailType
<1> HIDE DEF p, e
<1>4. /\ pc = "timer" /\ loop_i' = loop_i + 1
      /\ sleep_time' = [sleep_time EXCEPT ![e] = @ - 1]
      /\ UNCHANGED <<active_proc, pid, proc_allocator, next_pid>>
  BY DEF SleepScan, p, e
<1>5. sleep_time' \in [Entry -> Int]
  <2>1. sleep_time \in [Entry -> Int]
    BY DEF TableOK, SchedTypeOK
  <2> DEFINE left == sleep_time[e] - 1
  <2>2. sleep_time' = [sleep_time EXCEPT ![e] = left]
    BY <1>4
  <2>3. e \in Entry => left \in Int
    BY <2>1
  <2> HIDE DEF left
  <2>4. CASE e \in Entry
    <3>1. left \in Int
      BY <2>3, <2>4
    <3>2. [sleep_time EXCEPT ![e] = left] \in [Entry -> Int]
      BY <2>1, <3>1, ExceptType
    <3> QED BY <2>2, <3>2
  <2>5. CASE e \notin Entry
    <3>1. [sleep_time EXCEPT ![e] = left] = sleep_time
      BY <2>1, <2>5
    <3> QED BY <2>1, <2>2, <3>1
  <2> QED BY <2>4, <2>5
<1>5a. loop_i' \in Nat
  BY <1>4 DEF TableOK, SchedTypeOK
<1>6. CASE /\ sleep_queue' = IF e = None THEN Tail(sleep_queue) ELSE Append(Tail(sleep_queue), p)
           /\ UNCHANGED <<pc, state, cpu_time, scheduler_queue, run_queue>>
  <2>1. sleep_queue' \in Seq(Pid)
    BY <1>3, <1>6, AppendProperties
  <2> QED BY <1>4, <1>5, <1>5a, <1>6, <2>1 DEF TableOK, SchedTypeOK, SliceLeft, RunsActive
<1>7. CASE e # None /\ sleep_queue' = Tail(sleep_queue) /\ scheduler_add(e, "timer")
  BY <1>1, <1>3, <1>4, <1>5, <1>5a, <1>7, TableAdd DEF TableOK
<1> QED BY <1>6, <1>7 DEF SleepScan, p, e

\* A step that moves the control alone, out of the programs.
LEMMA TableControl ==
    ASSUME TableOK, UNCHANGED <<active_proc, pcb, lists>>, loop_i' \in Nat,
           pc' \in {"timer", "sched", "halt"} \/ UNCHANGED pc
    PROVE  TableOK'
BY DEF TableOK, SchedTypeOK, SliceLeft, RunsActive, pcb, lists

\* scheduler_run leaves the active process where it is.
LEMMA TableRunKeep == TableOK /\ RunKeep => TableOK'
BY SchedulerAssumption DEF TableOK, SchedTypeOK, SliceLeft, RunsActive, pcb, lists, RunKeep, Scheduled, Expired

\* scheduler_run preempts the active process.
LEMMA TableRunPreempt == TableOK /\ RunPreempt => TableOK'
<1> SUFFICES ASSUME TableOK, RunPreempt PROVE TableOK'
  OBVIOUS
<1> DEFINE a == active_proc
           ready == IF pid[a] = 0 THEN run_queue ELSE Append(run_queue, pid[a])
           states == [state EXCEPT ![a] = "IDLE"]
<1>1. /\ a \in Entry /\ pid[a] \in Pid /\ run_queue \in Seq(Pid)
  BY DEF RunPreempt, Scheduled, TableOK, SchedTypeOK
<1>2. ready \in Seq(Pid) /\ states \in [Entry -> State]
  BY <1>1, AppendProperties DEF TableOK, SchedTypeOK, State
<1>3. /\ cpu_time' = [cpu_time EXCEPT ![a] = 0]
      /\ scheduler_queue' \in [Entry -> {"none", "run", "sleep"}]
      /\ Dispatch(ready, states)
      /\ UNCHANGED <<loop_i, pid, sleep_time, sleep_queue, proc_allocator, next_pid>>
  BY DEF RunPreempt, TableOK, SchedTypeOK
<1> HIDE DEF ready, states
<1>4. /\ active_proc' \in Entry \cup {None} /\ state' \in [Entry -> State]
      /\ run_queue' \in Seq(Pid) /\ pc' \in {"user", "halt"}
      /\ pc' = "user" => active_proc' # None /\ state'[active_proc'] = "ACTIVE"
  BY <1>2, <1>3, DispatchTypes DEF TableOK
<1>5. cpu_time' \in [Entry -> 0 .. SCHEDULER_TIMESLICE]
  <2>1. 0 \in 0 .. SCHEDULER_TIMESLICE
    BY SchedulerAssumption
  <2> QED BY <1>3, <2>1, ExceptType DEF TableOK, SchedTypeOK
<1>6. SchedTypeOK'
  BY <1>3, <1>4, <1>5 DEF TableOK, SchedTypeOK
<1>7. \A e \in Entry : cpu_time'[e] < SCHEDULER_TIMESLICE
  BY <1>3, SchedulerAssumption DEF TableOK, SchedTypeOK, SliceLeft
<1> QED BY <1>4, <1>6, <1>7 DEF TableOK, SliceLeft, RunsActive

\* scheduler_run when nobody is active.
LEMMA TableRunDispatch == TableOK /\ RunDispatch => TableOK'
<1> SUFFICES ASSUME TableOK, RunDispatch PROVE TableOK'
  OBVIOUS
<1>1. /\ UNCHANGED <<loop_i, pid, cpu_time, sleep_time, scheduler_queue, sleep_queue,
                     proc_allocator, next_pid>>
      /\ Dispatch(run_queue, state) /\ ~Scheduled
  BY DEF RunDispatch
<1>2. /\ active_proc' \in Entry \cup {None} /\ state' \in [Entry -> State]
      /\ run_queue' \in Seq(Pid) /\ pc' \in {"user", "halt"}
      /\ pc' = "user" => active_proc' # None /\ state'[active_proc'] = "ACTIVE"
  BY <1>1, DispatchTypes DEF TableOK, SchedTypeOK
<1>3. SchedTypeOK'
  BY <1>1, <1>2 DEF TableOK, SchedTypeOK
<1>4. \A e \in Entry : cpu_time'[e] < SCHEDULER_TIMESLICE
  <2>1. ASSUME NEW e \in Entry PROVE e # None
    BY SchedulerAssumption DEF Entry, None
  <2> QED BY <1>1, <2>1 DEF TableOK, SliceLeft, Scheduled
<1> QED BY <1>2, <1>3, <1>4 DEF TableOK, SliceLeft, RunsActive

\* proc_sleep of the active process.
LEMMA TableSleep == ASSUME TableOK, NEW t \in SleepTicks, SysSleep(t) PROVE TableOK'
<1> DEFINE e == active_proc
<1>1. e \in Entry /\ pid[e] \in Pid /\ t \in Int
  BY SchedulerAssumption DEF SysSleep, SystemCall, TableOK, SchedTypeOK
<1>2. /\ sleep_time' \in [Entry -> Int] /\ state' \in [Entry -> State]
      /\ scheduler_queue' \in [Entry -> {"none", "run", "sleep"}]
      /\ active_proc' = None /\ pc' = "sched" /\ pc = "user"
      /\ UNCHANGED <<loop_i, pid, cpu_time, proc_allocator, next_pid>>
  BY <1>1 DEF SysSleep, SystemCall, TableOK, SchedTypeOK, State
<1>3. run_queue' \in Seq(Pid) /\ sleep_queue' \in Seq(Pid)
  <2>1. Remaining("run", run_queue, e) \in Seq(Pid) /\ Remaining("sleep", sleep_queue, e) \in Seq(Pid)
    BY RemainingType DEF TableOK, SchedTypeOK
  <2> QED BY <1>1, <2>1, QueueInType DEF SysSleep
<1>4. SchedTypeOK'
  BY <1>2, <1>3 DEF TableOK, SchedTypeOK
<1> QED BY <1>2, <1>4 DEF TableOK, SliceLeft, RunsActive

\* kproc_destroy of the active process, by its own exit or by Ctrl-Q.
LEMMA TableDestroy ==
    ASSUME TableOK, pc = "user", active_proc # None, kproc_destroy PROVE TableOK'
<1> DEFINE e == active_proc
<1>1. e \in Entry /\ pid[e] \in Pid /\ pid_to_proc(pid[e]) \in Entry /\ 0 \in Pid
      /\ 0 \in 0 .. SCHEDULER_TIMESLICE
  BY LookupType, SchedulerAssumption DEF TableOK, SchedTypeOK, Pid
<1>2. /\ sleep_time' \in [Entry -> Int] /\ state' \in [Entry -> State]
      /\ pid' \in [Entry -> Pid] /\ cpu_time' \in [Entry -> 0 .. SCHEDULER_TIMESLICE]
      /\ scheduler_queue' \in [Entry -> {"none", "run", "sleep"}]
      /\ active_proc' = None /\ pc' = "sched"
      /\ UNCHANGED <<loop_i, next_pid>>
      /\ cpu_time' = [cpu_time EXCEPT ![e] = 0]
  BY <1>1 DEF kproc_destroy, TableOK, SchedTypeOK, State
<1>3. run_queue' \in Seq(Pid) /\ sleep_queue' \in Seq(Pid) /\ proc_allocator' \in Seq(Entry)
  <2>1. Remaining("run", run_queue, e) \in Seq(Pid) /\ Remaining("sleep", sleep_queue, e) \in Seq(Pid)
    BY RemainingType DEF TableOK, SchedTypeOK
  <2>2. QueueIn(proc_allocator, pid_to_proc(pid[e])) \in Seq(Entry)
    BY <1>1, QueueInType DEF TableOK, SchedTypeOK
  <2> QED BY <2>1, <2>2 DEF kproc_destroy
<1>4. SchedTypeOK'
  BY <1>2, <1>3 DEF TableOK, SchedTypeOK
<1>5. \A f \in Entry : cpu_time'[f] < SCHEDULER_TIMESLICE
  BY <1>2, SchedulerAssumption DEF TableOK, SliceLeft, SchedTypeOK
<1> QED BY <1>2, <1>4, <1>5 DEF TableOK, SliceLeft, RunsActive

\* kproc_create, on Ctrl-N.
LEMMA TableCreate == TableOK /\ KeyCreate => TableOK'
<1> SUFFICES ASSUME TableOK, KeyCreate PROVE TableOK'
  OBVIOUS
<1> DEFINE e == Head(proc_allocator)
<1>1. e \in Entry /\ Tail(proc_allocator) \in Seq(Entry)
  BY TailType DEF KeyCreate, TableOK, SchedTypeOK
<1>2. next_pid \in Pid /\ next_pid + 1 \in 1 .. MaxPid
  BY SchedulerAssumption DEF KeyCreate, TableOK, SchedTypeOK, Pid
<1>3. run_queue' \in Seq(Pid)
  BY <1>2, QueueInType DEF KeyCreate, TableOK, SchedTypeOK
<1> HIDE DEF e
<1>4. /\ pid' = [pid EXCEPT ![e] = next_pid] /\ sleep_time' = [sleep_time EXCEPT ![e] = 0]
      /\ state' = [state EXCEPT ![e] = "IDLE"] /\ cpu_time' = [cpu_time EXCEPT ![e] = 0]
      /\ scheduler_queue' = [scheduler_queue EXCEPT ![e] = "run"]
      /\ pc = "user" /\ pc' \in {"halt", "sched"}
      /\ proc_allocator' = Tail(proc_allocator) /\ next_pid' = next_pid + 1
      /\ UNCHANGED <<loop_i, active_proc, sleep_queue>>
  BY DEF KeyCreate, e
<1>5. SchedTypeOK'
  BY <1>1, <1>2, <1>3, <1>4, SchedulerAssumption DEF TableOK, SchedTypeOK, State
<1>6. \A f \in Entry : cpu_time'[f] < SCHEDULER_TIMESLICE
  BY <1>4, SchedulerAssumption DEF TableOK, SliceLeft, SchedTypeOK
<1> QED BY <1>4, <1>5, <1>6 DEF TableOK, SliceLeft, RunsActive
-----------------------------------------------------------------------------
\* Every step of the scheduler alone.
LEMMA TableNext ==
    ASSUME TableOK, TimerIrq \/ Kernel \/ KeyDestroy \/ KeyCreate \/ OtherEntry \/ SysExit
                    \/ \E t \in SleepTicks : SysSleep(t)
    PROVE  TableOK'
<1>1. CASE Kernel
  <2>1. CASE SleepScanDone
    <3>1. UNCHANGED <<active_proc, pcb, lists>> /\ loop_i' = loop_i /\ pc' = "sched"
      BY <2>1 DEF SleepScanDone
    <3>2. loop_i' \in Nat
      BY <3>1 DEF TableOK, SchedTypeOK
    <3> QED BY <3>1, <3>2, TableControl
  <2> QED BY <1>1, <2>1, TableSleepScan, TableRunKeep, TableRunPreempt, TableRunDispatch
          DEF Kernel, SchedulerRun
<1>2. CASE OtherEntry
  <2>1. UNCHANGED <<active_proc, pcb, lists>> /\ loop_i' = loop_i /\ pc' = "sched"
    BY <1>2 DEF OtherEntry
  <2>2. loop_i' \in Nat
    BY <2>1 DEF TableOK, SchedTypeOK
  <2> QED BY <2>1, <2>2, TableControl
<1>3. CASE KeyDestroy \/ SysExit
  BY <1>3, TableDestroy DEF KeyDestroy, SysExit, SystemCall
<1>4. CASE TimerIrq
  BY <1>4, TableTimerIrq
<1>5. CASE KeyCreate
  BY <1>5, TableCreate
<1> QED BY <1>1, <1>2, <1>3, <1>4, <1>5, TableSleep

\* A call that returns to the scheduler and changes no process.
LEMMA TableReturn == ASSUME TableOK, ReturnToScheduler PROVE TableOK'
<1>1. UNCHANGED <<active_proc, pcb, lists>> /\ loop_i' = loop_i /\ pc' = "sched"
  BY DEF ReturnToScheduler
<1>2. loop_i' \in Nat
  BY <1>1 DEF TableOK, SchedTypeOK
<1> QED BY <1>1, <1>2, TableControl

\* A process waits on a semaphore or on none.
BlockedOK == blocked \in [Entry -> Sem \cup {None}]

\* ksem_init touches neither the process table nor who is blocked.
LEMMA TableInit ==
    ASSUME TableOK, BlockedOK, NEW v, ksem_init(v) PROVE TableOK' /\ BlockedOK'
<1>1. TableOK'
  BY TableReturn DEF ksem_init
<1>2. blocked' = blocked
  BY DEF ksem_init, semVars
<1> QED BY <1>1, <1>2 DEF BlockedOK

\* Nor does ksem_destroy.
LEMMA TableSemDestroy ==
    ASSUME TableOK, BlockedOK, NEW s \in Sem, ksem_destroy(s) PROVE TableOK' /\ BlockedOK'
<1>1. TableOK'
  BY TableReturn DEF ksem_destroy
<1>2. blocked' = blocked
  BY DEF ksem_destroy, semVars
<1> QED BY <1>1, <1>2 DEF BlockedOK

\* ksem_wait takes its caller off the CPU, or leaves everybody alone.
LEMMA TableWait ==
    ASSUME TableOK, BlockedOK, NEW s \in Sem, ksem_wait(s) PROVE TableOK' /\ BlockedOK'
<1>1. CASE ReturnToScheduler /\ blocked' = blocked
  BY <1>1, TableReturn DEF BlockedOK
<1>2. CASE ~(ReturnToScheduler /\ blocked' = blocked)
  <2>1. /\ run_queue' = Remaining("run", run_queue, active_proc)
        /\ sleep_queue' = Remaining("sleep", sleep_queue, active_proc)
        /\ scheduler_queue' = [scheduler_queue EXCEPT ![active_proc] = "none"]
        /\ active_proc' = None
        /\ blocked' = [blocked EXCEPT ![active_proc] = s]
        /\ pc' = "sched" /\ pc = "user"
        /\ UNCHANGED <<loop_i, pid, state, cpu_time, sleep_time, proc_allocator, next_pid>>
    BY <1>2 DEF ksem_wait, SystemCall
  <2>2. run_queue' \in Seq(Pid) /\ sleep_queue' \in Seq(Pid)
    BY <2>1, RemainingType DEF TableOK, SchedTypeOK
  <2>3. scheduler_queue' \in [Entry -> {"none", "run", "sleep"}]
    BY <2>1 DEF TableOK, SchedTypeOK
  <2>4. SchedTypeOK'
    BY <2>1, <2>2, <2>3 DEF TableOK, SchedTypeOK
  <2>5. SliceLeft' /\ RunsActive'
    BY <2>1 DEF TableOK, SliceLeft, RunsActive
  <2>6. BlockedOK'
    BY <2>1 DEF BlockedOK
  <2> QED BY <2>4, <2>5, <2>6 DEF TableOK
<1> QED BY <1>1, <1>2

\* ksem_post makes the process ready that it takes the waiter to be.
LEMMA TablePost ==
    ASSUME TableOK, BlockedOK, NEW s \in Sem, ksem_post(s) PROVE TableOK' /\ BlockedOK'
<1>1. CASE ReturnToScheduler /\ blocked' = blocked
  BY <1>1, TableReturn DEF BlockedOK
<1>2. CASE ~(ReturnToScheduler /\ blocked' = blocked)
  <2> DEFINE p == Head(wait_queue[s])
  <2>1. /\ p \in Entry /\ scheduler_add(p, "sched")
        /\ blocked' = [blocked EXCEPT ![p] = None]
        /\ UNCHANGED <<loop_i, active_proc, pid, sleep_time, sleep_queue, proc_allocator, next_pid>>
        /\ pc = "user"
    BY <1>2 DEF ksem_post, Wake, SystemCall
  <2> HIDE DEF p
  <2>2. /\ loop_i' \in Nat /\ sleep_time' \in [Entry -> Int] /\ sleep_queue' \in Seq(Pid)
    BY <2>1 DEF TableOK, SchedTypeOK
  <2>3. pc' # "timer"
    BY <2>1 DEF scheduler_add
  <2>4. TableOK'
    BY <2>1, <2>2, <2>3, TableAdd DEF TableOK
  <2>5. BlockedOK'
    BY <2>1 DEF BlockedOK
  <2> QED BY <2>4, <2>5
<1> QED BY <1>1, <1>2
-----------------------------------------------------------------------------
\* The programs' own variables.
ProgramsOK == /\ pings \in PingChoices /\ pongs \in PongChoices
              /\ pingpong_semaphores \in [Side -> Sem \cup {-1}]
              /\ at \in [Entry -> Place]
              /\ rc \in [Entry -> Sem \cup {-1}]
              /\ minted \in Nat
              /\ failed \in BOOLEAN

\* The inductive invariant of the types.
TypeInv == KInv /\ TableOK /\ BlockedOK /\ ProgramsOK

\* The invariant gives every variable its type.
LEMMA TypeInvOK == TypeInv => PingPongTypeOK
BY DEF TypeInv, KInv, TableOK, BlockedOK, ProgramsOK, PingPongTypeOK, SemTypeOK, SemVarsOK

\* It holds after the boot.
LEMMA TypeInit == PingPongInit => TypeInv
<1> SUFFICES ASSUME PingPongInit PROVE TypeInv
  OBVIOUS
<1>1. KInv
  BY SemInitInv DEF PingPongInit
<1>2. IInv
  BY InitInv DEF PingPongInit, SemInit
<1>3. TableOK
  <2>1. pc = "user" /\ active_proc = None /\ cpu_time = [e \in Entry |-> 0]
    BY DEF PingPongInit, SemInit, Init
  <2>2. SliceLeft /\ RunsActive
    BY <2>1, SchedulerAssumption DEF SliceLeft, RunsActive
  <2> QED BY <1>2, <2>2 DEF TableOK, IInv
<1>4. BlockedOK
  BY DEF PingPongInit, SemInit, BlockedOK
<1>5. ProgramsOK
  BY DEF PingPongInit, ProgramsOK, Place
<1> QED BY <1>1, <1>3, <1>4, <1>5 DEF TypeInv

\* A program goes to a place of its text.
LEMMA GotoType ==
    ASSUME at \in [Entry -> Place], NEW place \in Place, Goto(place)
    PROVE  at' \in [Entry -> Place]
BY ExceptType DEF Goto

\* The calls of the pings and the pongs keep it, whatever id they pass.
LEMMA TypeProgram == ASSUME TypeInv, ProgramStep PROVE TableOK' /\ BlockedOK' /\ ProgramsOK'
<1> USE DEF TypeInv
<1>0. Begin \in Place /\ {"test1", "init0", "init1", "assign0", "assign1", "nap", "post", "wait"} \subseteq Place
  BY DEF Begin, Place
<1>1. ASSUME NEW k \in Side, NEW p \in Place, NEW q \in Place, Test(k, p, q)
      PROVE  TableOK' /\ BlockedOK' /\ ProgramsOK'
  <2>1. at' \in [Entry -> Place]
    BY <1>1, GotoType DEF Test, ProgramsOK
  <2>2. UNCHANGED allVars /\ UNCHANGED <<pings, pongs, pingpong_semaphores, rc, minted, failed>>
    BY <1>1 DEF Test
  <2>3. TableOK' /\ BlockedOK'
    BY <2>2 DEF allVars, vars, semVars, TableOK, SchedTypeOK, SliceLeft, RunsActive, BlockedOK,
                pcb, lists
  <2> QED BY <2>1, <2>2, <2>3 DEF ProgramsOK
<1>2. ASSUME NEW k \in Side, NEW p \in Place, Assign(k, p)
      PROVE  TableOK' /\ BlockedOK' /\ ProgramsOK'
  <2>1. at' \in [Entry -> Place]
    BY <1>2, GotoType DEF Assign, ProgramsOK
  <2>2. UNCHANGED allVars /\ UNCHANGED <<pings, pongs, rc, minted, failed>>
    BY <1>2 DEF Assign
  <2>3. TableOK' /\ BlockedOK'
    BY <2>2 DEF allVars, vars, semVars, TableOK, SchedTypeOK, SliceLeft, RunsActive, BlockedOK,
                pcb, lists
  <2>4. rc[active_proc] \in Sem \cup {-1}
    BY <1>2 DEF Assign, ProgramAt, SystemCall, ProgramsOK, TableOK, SchedTypeOK
  <2>5. pingpong_semaphores' \in [Side -> Sem \cup {-1}]
    BY <1>2, <2>4, ExceptType DEF Assign, ProgramsOK
  <2> QED BY <2>1, <2>2, <2>3, <2>5 DEF ProgramsOK
<1>3. ASSUME NEW k \in Side, SemaphoreInit(k) PROVE TableOK' /\ BlockedOK' /\ ProgramsOK'
  <2> DEFINE v == IF k = Mine THEN 1 ELSE 0
             r == IF sem_queue = <<>> THEN -1 ELSE Head(sem_queue)
  <2>1. TableOK' /\ BlockedOK'
    BY <1>3, TableInit DEF SemaphoreInit
  <2>2. at' \in [Entry -> Place]
    BY <1>0, <1>3, GotoType DEF SemaphoreInit, ProgramsOK
  <2>3. r \in Sem \cup {-1}
    BY TailType DEF KInv, SemVarsOK
  <2>4. rc' \in [Entry -> Sem \cup {-1}]
    BY <1>3, <2>3, ExceptType DEF SemaphoreInit, ProgramsOK
  <2>5. minted' \in Nat /\ failed' \in BOOLEAN
    BY <1>3 DEF SemaphoreInit, ProgramsOK
  <2>6. UNCHANGED <<pings, pongs, pingpong_semaphores>>
    BY <1>3 DEF SemaphoreInit
  <2> QED BY <2>1, <2>2, <2>4, <2>5, <2>6 DEF ProgramsOK
<1>4. ASSUME Refused PROVE TableOK' /\ BlockedOK'
  BY <1>4, TableReturn DEF Refused, semVars, BlockedOK
<1>5. CASE SemWait
  <2>1. TableOK' /\ BlockedOK'
    BY <1>4, <1>5, TableWait DEF SemWait
  <2>2. at' \in [Entry -> Place] /\ UNCHANGED <<pings, pongs, pingpong_semaphores, rc, minted, failed>>
    BY <1>0, <1>5, GotoType DEF SemWait, ProgramsOK
  <2> QED BY <2>1, <2>2 DEF ProgramsOK
<1>6. CASE Nap
  <2>1. TableOK'
    BY <1>6, TableSleep DEF Nap
  <2>2. at' \in [Entry -> Place] /\ UNCHANGED <<pings, pongs, pingpong_semaphores, rc, minted, failed>>
    BY <1>0, <1>6, GotoType DEF Nap, ProgramsOK
  <2>3. BlockedOK'
    BY <1>6 DEF Nap, semVars, BlockedOK
  <2> QED BY <2>1, <2>2, <2>3 DEF ProgramsOK
<1>7. CASE SemPost
  <2>1. TableOK' /\ BlockedOK'
    BY <1>4, <1>7, TablePost DEF SemPost
  <2>2. at' \in [Entry -> Place] /\ UNCHANGED <<pings, pongs, pingpong_semaphores, rc, failed>>
    BY <1>0, <1>7, GotoType DEF SemPost, ProgramsOK
  <2>3. minted' \in Nat
    BY <1>7 DEF SemPost, ProgramsOK
  <2> QED BY <2>1, <2>2, <2>3 DEF ProgramsOK
<1>8. {0, 1} = Side
  BY DEF Side
<1> QED BY <1>0, <1>1, <1>2, <1>3, <1>5, <1>6, <1>7, <1>8 DEF ProgramStep

\* Every step keeps it.
LEMMA TypeNext == TypeInv /\ [PingPongNext]_systemVars => TypeInv'
<1> SUFFICES ASSUME TypeInv, [PingPongNext]_systemVars PROVE TypeInv'
  OBVIOUS
<1>1. KInv'
  BY PingPongNextInv DEF TypeInv
<1>2. CASE ProgramStep
  BY <1>1, <1>2, TypeProgram DEF TypeInv
<1>3. CASE Elsewhere
  <2>1. TableOK'
    BY <1>3, TableNext DEF Elsewhere, TypeInv
  <2>2. BlockedOK'
    BY <1>3 DEF Elsewhere, BlockedOK, TypeInv
  <2>3. ProgramsOK'
    BY <1>3 DEF Elsewhere, ProgramsOK, TypeInv, Place
  <2> QED BY <1>1, <2>1, <2>2, <2>3 DEF TypeInv
<1>4. CASE AnyCall
  <2>1. TableOK' /\ BlockedOK'
    BY <1>4, TableInit, TableSemDestroy, TableWait, TablePost DEF AnyCall, TypeInv
  <2>2. ProgramsOK'
    BY <1>4 DEF AnyCall, programVars, ProgramsOK, TypeInv
  <2> QED BY <1>1, <2>1, <2>2 DEF TypeInv
<1>5. CASE UNCHANGED systemVars
  <2>1. TableOK' /\ BlockedOK'
    BY <1>5 DEF systemVars, allVars, vars, semVars, TypeInv, TableOK, SchedTypeOK, SliceLeft,
                RunsActive, BlockedOK, pcb, lists
  <2>2. ProgramsOK'
    BY <1>5 DEF systemVars, programVars, ProgramsOK, TypeInv
  <2> QED BY <1>1, <2>1, <2>2 DEF TypeInv
<1> QED BY <1>2, <1>3, <1>4, <1>5 DEF PingPongNext

\* TypeInv is an invariant of the pings and pongs.
LEMMA TypeInvariance == PingPongSpec => []TypeInv
<1>1. PingPongInit => TypeInv  BY TypeInit
<1>2. TypeInv /\ [PingPongNext]_systemVars => TypeInv'  BY TypeNext
<1> QED BY <1>1, <1>2, PTL DEF PingPongSpec

\* Every variable of the scheduler, the semaphores and the programs of
\* prog_user.c keeps its type: no entry, id, count or place out of its range is
\* ever stored, whatever the processes waiting on a semaphore are taken to be.
THEOREM PingPongTypeCorrect == PingPongSpec => []PingPongTypeOK
<1>1. TypeInv => PingPongTypeOK  BY TypeInvOK
<1> QED BY <1>1, TypeInvariance, PTL
-----------------------------------------------------------------------------
(***************************************************************************)
(* Where the programs are, when null_pid names none of them: each is in the*)
(* entry it was created in, in one queue at most and as its state says, or *)
(* on the CPU, or lost by sem_wait for good.                               *)
(***************************************************************************)

\* A program's process keeps the entry it was created in.
Home     == \A e \in Entry : pid[e] \in Program => pid[e] = e /\ state[e] # "NONE"
FreeOnly == \A e \in Entry : Holds(proc_allocator, e) => pid[e] \notin Program
\* A program is in a queue once at most, and its state says in which.
QueuedIn(ready, asleep, states) ==
    \A p \in Program : /\ Once(ready, p) /\ Once(asleep, p)
                       /\ Holds(ready, p) => pid[p] = p /\ states[p] = "IDLE"
                       /\ Holds(asleep, p) => pid[p] = p /\ states[p] = "SLEEPING"
Queued  == QueuedIn(run_queue, sleep_queue, state)
\* A program on the CPU is active: only a process that is no program may be
\* made ready by a sem_post while it runs.
ProgramRuns == active_proc # None /\ pid[active_proc] \in Program => state[active_proc] = "ACTIVE"
\* New processes get other ids.
Placed  == NBoot <= next_pid /\ Home /\ FreeOnly /\ Queued /\ ProgramRuns

\* A program that nothing will ever run again.
Stuck(e) == pid[e] \in Program /\ state[e] = "ACTIVE" /\ e # active_proc

\* A step keeps a program where it is, or destroys it.
Kept == \A e \in Entry : /\ pid'[e] \in Program <=> pid[e] \in Program /\ state'[e] # "NONE"
                         /\ Stuck(e) => Stuck(e)'

\* The programs are created at boot, each in the entry of its id, and none of
\* them is the idle process.
LEMMA ProgramPids == Program \subseteq Entry /\ Program \subseteq Pid /\ 0 \notin Program
                     /\ None \notin Entry /\ None \notin Program
BY SchedulerAssumption DEF Program, Entry, Pid, None

\* An item that was not queued is queued once.
LEMMA AppendOnce ==
    ASSUME NEW S, NEW q \in Seq(S), NEW x \in S, NEW y, Once(q, y), x = y => ~Holds(q, y)
    PROVE  Once(Append(q, x), y)
<1>1. /\ Len(Append(q, x)) = Len(q) + 1 /\ Len(q) \in Nat
      /\ \A i \in 1 .. Len(q) : Append(q, x)[i] = q[i]
      /\ Append(q, x)[Len(q) + 1] = x
  BY AppendProperties, LenProperties
<1>2. \A i \in 1 .. Len(q) + 1 : i = Len(q) + 1 \/ i \in 1 .. Len(q)
  BY <1>1
<1> DEFINE u == Append(q, x)
<1> SUFFICES ASSUME NEW i \in 1 .. Len(u), NEW j \in 1 .. Len(u), u[i] = y, u[j] = y
             PROVE  i = j
  BY DEF Once
<1>3. CASE x = y
  BY <1>1, <1>2, <1>3 DEF Holds
<1>4. CASE x # y
  BY <1>1, <1>2, <1>4 DEF Once
<1> QED BY <1>3, <1>4

\* The queue without its head, and with one more item.
LEMMA TailOnce ==
    ASSUME NEW S, NEW q \in Seq(S), q # <<>>
    PROVE  /\ Tail(q) \in Seq(S) /\ Head(q) \in S /\ Holds(q, Head(q))
           /\ \A y : Holds(Tail(q), y) => Holds(q, y)
           /\ \A y : Once(q, y) => Once(Tail(q), y) /\ (y = Head(q) => ~Holds(Tail(q), y))
<1> DEFINE t == Tail(q)
<1>1. /\ t \in Seq(S) /\ Len(t) = Len(q) - 1 /\ Head(q) \in S /\ Head(q) = q[1]
      /\ \A i \in 1 .. Len(t) : t[i] = q[i + 1]
      /\ Len(q) \in Nat \ {0}
  BY HeadTailProperties, LenProperties, EmptySeq
<1> HIDE DEF t
<1>2. \A i \in 1 .. Len(t) : i + 1 \in 1 .. Len(q) /\ i + 1 # 1
  BY <1>1
<1>3. 1 \in 1 .. Len(q)
  BY <1>1
<1>4. Holds(q, Head(q))
  BY <1>1, <1>3 DEF Holds
<1>5. ASSUME NEW y, Holds(t, y) PROVE Holds(q, y)
  BY <1>1, <1>2, <1>5 DEF Holds
<1>6. ASSUME NEW y, Once(q, y) PROVE Once(t, y) /\ (y = Head(q) => ~Holds(t, y))
  <2>1. Once(t, y)
    BY <1>1, <1>2, <1>6 DEF Once
  <2>2. y = Head(q) => ~Holds(t, y)
    BY <1>1, <1>2, <1>3, <1>6 DEF Once, Holds
  <2> QED BY <2>1, <2>2
<1> QED BY <1>1, <1>4, <1>5, <1>6 DEF t

\* queue_in adds its item at most, which is queued once if it was not queued.
LEMMA QueueInOnce ==
    ASSUME NEW S, NEW q \in Seq(S), NEW x \in S
    PROVE  /\ \A y : Holds(QueueIn(q, x), y) => Holds(q, y) \/ y = x
           /\ \A y : Once(q, y) /\ (x = y => ~Holds(q, y)) => Once(QueueIn(q, x), y)
BY AppendOnce, AppendHolds DEF QueueIn

\* scheduler_remove adds nothing to a queue and doubles nothing in it.
LEMMA RemainingOnce ==
    ASSUME NEW S, NEW q \in Seq(S), NEW name, NEW e
    PROVE  /\ Remaining(name, q, e) \in Seq(S)
           /\ \A y : Holds(Remaining(name, q, e), y) => Holds(q, y)
           /\ \A y : Once(q, y) => Once(Remaining(name, q, e), y)
BY WithoutType, WithoutOnce DEF Remaining

\* pid_to_proc finds a program at home.
LEMMA HomeLookup ==
    ASSUME Home, NEW p, p \notin Program \/ pid[p] = p
    PROVE  /\ pid_to_proc(p) \in Entry \cup {None}
           /\ pid_to_proc(p) # None => pid[pid_to_proc(p)] = p
           /\ p \in Program => pid_to_proc(p) = p
<1>1. /\ pid_to_proc(p) \in Entry \cup {None}
      /\ pid_to_proc(p) # None => pid[pid_to_proc(p)] = p
      /\ \A e \in Entry : pid[e] = p => pid_to_proc(p) # None
  BY LookupType
<1>2. ASSUME p \in Program PROVE pid_to_proc(p) = p
  <2>1. p \in Entry /\ pid[p] = p
    BY <1>2, ProgramPids
  <2>2. pid_to_proc(p) \in Entry /\ pid[pid_to_proc(p)] = p
    BY <1>1, <2>1
  <2> QED BY <1>2, <2>2 DEF Home
<1> QED BY <1>1, <1>2
-----------------------------------------------------------------------------
\* A step that leaves the queues and the states alone.
LEMMA PlacedSame ==
    ASSUME Placed, UNCHANGED <<active_proc, pid, state, run_queue, sleep_queue, proc_allocator, next_pid>>
    PROVE  Placed' /\ Kept
<1>1. Placed'
  BY DEF Placed, Home, FreeOnly, Queued, QueuedIn, ProgramRuns, Holds, Once
<1>2. Kept
  BY DEF Kept, Placed, Home, Stuck
<1> QED BY <1>1, <1>2

\* scheduler_add of a program that sleeps, or of anybody else.
LEMMA PlacedAdd ==
    ASSUME SchedTypeOK, Placed, NEW e \in Entry, NEW next, scheduler_add(e, next),
           pid[e] \in Program => state[e] = "SLEEPING" /\ ~Holds(sleep_queue', pid[e]),
           \A p \in Program : Once(sleep_queue', p) /\ (Holds(sleep_queue', p) => Holds(sleep_queue, p)),
           UNCHANGED <<active_proc, pid, proc_allocator, next_pid>>
    PROVE  Placed' /\ Kept
<1>1. /\ run_queue' = QueueIn(run_queue, pid[e])
      /\ state' = [state EXCEPT ![e] = "IDLE"]
  BY DEF scheduler_add
<1>2. run_queue \in Seq(Pid) /\ pid[e] \in Pid
  BY DEF SchedTypeOK
<1>3. state'[e] = "IDLE" /\ \A x \in Entry : x # e => state'[x] = state[x]
  BY <1>1 DEF SchedTypeOK
<1>4. pid[e] \in Program => pid[e] = e
  BY DEF Placed, Home
<1>5. ASSUME NEW p \in Program
      PROVE  /\ Once(run_queue', p)
             /\ Holds(run_queue', p) => pid[p] = p /\ state'[p] = "IDLE"
             /\ Holds(sleep_queue', p) => pid[p] = p /\ state'[p] = "SLEEPING"
  <2>1. /\ Once(run_queue, p)
        /\ Holds(run_queue, p) => pid[p] = p /\ state[p] = "IDLE"
        /\ Holds(sleep_queue, p) => pid[p] = p /\ state[p] = "SLEEPING"
    BY DEF Placed, Queued, QueuedIn
  <2>2. Holds(run_queue', p) => Holds(run_queue, p) \/ p = pid[e]
    BY <1>1, <1>2, QueueInOnce
  <2>3. pid[e] = p => e = p /\ ~Holds(run_queue, p) /\ ~Holds(sleep_queue', p)
    BY <1>4, <2>1
  <2>4. Once(run_queue', p)
    BY <1>1, <1>2, <2>1, <2>3, QueueInOnce
  <2>5. p \in Entry
    BY ProgramPids
  <2>6. pid[p] = p /\ p = e => pid[e] = p
    OBVIOUS
  <2> QED BY <1>3, <2>1, <2>2, <2>3, <2>4, <2>5, <2>6
<1>6. Queued'
  BY <1>5 DEF Queued, QueuedIn
<1>7. Home' /\ FreeOnly' /\ (NBoot <= next_pid)'
  BY <1>3 DEF Placed, Home, FreeOnly
<1>8. ProgramRuns'
  <2>1. active_proc # None => active_proc \in Entry
    BY DEF SchedTypeOK
  <2> QED BY <1>3, <2>1 DEF ProgramRuns, Placed
<1>9. Kept
  BY <1>3 DEF Kept, Stuck, Placed, Home
<1> QED BY <1>6, <1>7, <1>8, <1>9 DEF Placed

\* scheduler_timer wakes a program out of the sleep queue, or leaves it there.
LEMMA PlacedSleepScan == ASSUME SchedTypeOK, Placed, SleepScan PROVE Placed' /\ Kept
<1> DEFINE p == Head(sleep_queue)
           e == pid_to_proc(p)
           t == Tail(sleep_queue)
<1>1. sleep_queue # <<>> /\ sleep_queue \in Seq(Pid)
  <2>1. Len(sleep_queue) # 0
    BY DEF SleepScan, SchedTypeOK
  <2> QED BY <2>1, EmptySeq DEF SchedTypeOK
<1>2. /\ t \in Seq(Pid) /\ p \in Pid /\ Holds(sleep_queue, p)
      /\ \A y : Holds(t, y) => Holds(sleep_queue, y)
      /\ \A y \in Program : Once(t, y) /\ (y = p => ~Holds(t, y))
  <2>1. \A y \in Program : Once(sleep_queue, y)
    BY DEF Placed, Queued, QueuedIn
  <2> QED BY <1>1, <2>1, TailOnce
<1>3. /\ e \in Entry \cup {None}
      /\ e # None => pid[e] = p
      /\ p \in Program => e = p /\ state[p] = "SLEEPING"
  <2>1. p \in Program => pid[p] = p /\ state[p] = "SLEEPING"
    BY <1>2 DEF Placed, Queued, QueuedIn
  <2> HIDE DEF p
  <2>2. /\ e \in Entry \cup {None}
        /\ e # None => pid[e] = p
        /\ p \in Program => e = p
    BY <2>1, HomeLookup DEF Placed
  <2> QED BY <2>1, <2>2
<1>4. UNCHANGED <<active_proc, pid, proc_allocator, next_pid>>
  BY DEF SleepScan
<1>5. \/ /\ sleep_queue' = IF e = None THEN t ELSE Append(t, p)
         /\ UNCHANGED <<state, run_queue>>
      \/ /\ e # None /\ sleep_queue' = t /\ scheduler_add(e, "timer")
  BY DEF SleepScan
<1> HIDE DEF p, e, t
<1>6. CASE /\ sleep_queue' = IF e = None THEN t ELSE Append(t, p)
           /\ UNCHANGED <<state, run_queue>>
  <2>1. ASSUME NEW y \in Program
        PROVE  Once(sleep_queue', y) /\ (Holds(sleep_queue', y) => Holds(sleep_queue, y))
    <3>1. CASE e = None
      BY <1>2, <1>6, <3>1
    <3>2. CASE e # None
      <4>1. sleep_queue' = Append(t, p)
        BY <1>6, <3>2
      <4>2. Once(Append(t, p), y)
        BY <1>2, AppendOnce
      <4>3. Holds(Append(t, p), y) => Holds(t, y) \/ y = p
        BY <1>2, AppendHolds
      <4> QED BY <1>2, <4>1, <4>2, <4>3
    <3> QED BY <3>1, <3>2
  <2>2. Queued'
    BY <1>4, <1>6, <2>1 DEF Queued, QueuedIn, Placed, Once, Holds
  <2>3. Home' /\ FreeOnly' /\ ProgramRuns' /\ (NBoot <= next_pid)'
    BY <1>4, <1>6 DEF Placed, Home, FreeOnly, ProgramRuns, Holds
  <2>4. Kept
    BY <1>4, <1>6 DEF Kept, Placed, Home, Stuck
  <2> QED BY <2>2, <2>3, <2>4 DEF Placed
<1>7. CASE e # None /\ sleep_queue' = t /\ scheduler_add(e, "timer")
  <2>1. e \in Entry /\ pid[e] = p
    BY <1>3, <1>7
  <2>2. pid[e] \in Program => state[e] = "SLEEPING" /\ ~Holds(sleep_queue', pid[e])
    BY <1>2, <1>3, <1>7, <2>1
  <2>3. \A y \in Program : Once(sleep_queue', y) /\ (Holds(sleep_queue', y) => Holds(sleep_queue, y))
    BY <1>2, <1>7
  <2> QED BY <1>4, <1>7, <2>1, <2>2, <2>3, PlacedAdd
<1> QED BY <1>5, <1>6, <1>7

\* What scheduler_run makes of a queue and of states in which nobody is active.
LEMMA PlacedDispatch ==
    ASSUME Home, NEW ready \in Seq(Pid), NEW states \in [Entry -> State],
           QueuedIn(ready, sleep_queue, states), Dispatch(ready, states),
           UNCHANGED <<pid, sleep_queue>>
    PROVE  /\ Queued' /\ ProgramRuns'
           /\ \A e \in Entry : state'[e] \in {states[e], "ACTIVE"}
           /\ \A e \in Entry : pid[e] \in Program /\ states[e] = "ACTIVE" => e # active_proc'
<1> DEFINE p == IF ready = <<>> THEN 0 ELSE Head(ready)
           a == pid_to_proc(p)
           rest == IF ready = <<>> THEN ready ELSE Tail(ready)
<1>1. active_proc' = a /\ state' = [states EXCEPT ![a] = "ACTIVE"] /\ run_queue' = rest
  BY DEF Dispatch
<1>2. /\ p \in Program => Holds(ready, p)
      /\ \A y : Holds(rest, y) => Holds(ready, y)
      /\ \A y \in Program : Once(rest, y) /\ (y = p => ~Holds(rest, y))
  <2>1. \A y \in Program : Once(ready, y)
    BY DEF QueuedIn
  <2>2. CASE ready = <<>>
    <3>1. p = 0 /\ rest = ready
      BY <2>2
    <3> HIDE DEF p, rest
    <3> QED BY <2>1, <3>1, ProgramPids
  <2>3. CASE ready # <<>>
    <3>1. p = Head(ready) /\ rest = Tail(ready)
      BY <2>3
    <3> HIDE DEF p, rest
    <3> QED BY <2>1, <2>3, <3>1, TailOnce
  <2> QED BY <2>2, <2>3
<1> HIDE DEF p, rest
<1>3. p \in Program => pid[p] = p /\ states[p] = "IDLE" /\ ~Holds(sleep_queue, p)
  BY <1>2 DEF QueuedIn
<1>4. /\ a \in Entry \cup {None}
      /\ a # None => pid[a] = p
      /\ p \in Program => a = p
  BY <1>3, HomeLookup
<1> HIDE DEF a
<1>5. \A e \in Entry : state'[e] = IF e = a THEN "ACTIVE" ELSE states[e]
  BY <1>1
<1>6. ASSUME NEW y \in Program
      PROVE  /\ Once(run_queue', y) /\ Once(sleep_queue, y)
             /\ Holds(run_queue', y) => pid[y] = y /\ state'[y] = "IDLE"
             /\ Holds(sleep_queue, y) => pid[y] = y /\ state'[y] = "SLEEPING"
  <2>1. /\ Once(sleep_queue, y)
        /\ Holds(ready, y) => pid[y] = y /\ states[y] = "IDLE"
        /\ Holds(sleep_queue, y) => pid[y] = y /\ states[y] = "SLEEPING"
    BY DEF QueuedIn
  <2>2. y \in Entry /\ y # None
    BY ProgramPids
  <2>3. pid[y] = y /\ y = a => y = p
    BY <1>4, <2>2
  <2> QED BY <1>1, <1>2, <1>3, <1>5, <2>1, <2>2, <2>3
<1>7. Queued'
  BY <1>6 DEF Queued, QueuedIn, Once, Holds
<1>8. ProgramRuns'
  BY <1>1, <1>4, <1>5 DEF ProgramRuns
<1>9. ASSUME NEW e \in Entry, pid[e] \in Program, states[e] = "ACTIVE" PROVE e # active_proc'
  <2>1. pid[e] = e
    BY <1>9 DEF Home
  <2>2. e # None
    BY ProgramPids
  <2> QED BY <1>1, <1>3, <1>4, <1>9, <2>1, <2>2
<1> QED BY <1>5, <1>7, <1>8, <1>9

\* scheduler_run when nobody is active.
LEMMA PlacedRunDispatch == ASSUME SchedTypeOK, Placed, RunDispatch PROVE Placed' /\ Kept
<1>1. /\ UNCHANGED <<pid, sleep_queue, proc_allocator, next_pid>>
      /\ Dispatch(run_queue, state)
  BY DEF RunDispatch
<1>2. /\ Queued' /\ ProgramRuns'
      /\ \A e \in Entry : state'[e] \in {state[e], "ACTIVE"}
      /\ \A e \in Entry : pid[e] \in Program /\ state[e] = "ACTIVE" => e # active_proc'
  BY <1>1, PlacedDispatch DEF SchedTypeOK, Placed, Queued
<1>3. Home' /\ FreeOnly' /\ (NBoot <= next_pid)'
  BY <1>1, <1>2 DEF Placed, Home, FreeOnly, Holds
<1>4. Kept
  BY <1>1, <1>2 DEF Kept, Stuck, Placed, Home
<1> QED BY <1>2, <1>3, <1>4 DEF Placed

\* scheduler_run puts the active process back and runs the next.
LEMMA PlacedRunPreempt == ASSUME SchedTypeOK, Placed, RunPreempt PROVE Placed' /\ Kept
<1> DEFINE a == active_proc
           ready == IF pid[a] = 0 THEN run_queue ELSE Append(run_queue, pid[a])
           states == [state EXCEPT ![a] = "IDLE"]
<1>1. /\ UNCHANGED <<pid, sleep_queue, proc_allocator, next_pid>>
      /\ Dispatch(ready, states) /\ state[a] = "ACTIVE"
      /\ a \in Entry /\ pid[a] \in Pid /\ run_queue \in Seq(Pid)
  BY DEF RunPreempt, Scheduled, SchedTypeOK
<1>2. /\ ready \in Seq(Pid) /\ states \in [Entry -> State]
      /\ \A e \in Entry : states[e] = IF e = a THEN "IDLE" ELSE state[e]
  BY <1>1, AppendProperties DEF SchedTypeOK, State
<1>3. \A y \in Program : Holds(ready, y) => Holds(run_queue, y) \/ y = pid[a]
  BY <1>1, AppendHolds
<1>4. ASSUME NEW y \in Program, Once(run_queue, y), y = pid[a] => ~Holds(run_queue, y)
      PROVE  Once(ready, y)
  BY <1>1, <1>4, AppendOnce
<1> HIDE DEF ready, states, a
<1>5. ASSUME NEW y \in Program
      PROVE  /\ Once(ready, y) /\ Once(sleep_queue, y)
             /\ Holds(ready, y) => pid[y] = y /\ states[y] = "IDLE"
             /\ Holds(sleep_queue, y) => pid[y] = y /\ states[y] = "SLEEPING"
  <2>1. /\ Once(run_queue, y) /\ Once(sleep_queue, y)
        /\ Holds(run_queue, y) => pid[y] = y /\ state[y] = "IDLE"
        /\ Holds(sleep_queue, y) => pid[y] = y /\ state[y] = "SLEEPING"
    BY DEF Placed, Queued, QueuedIn
  <2>2. y \in Entry /\ (y = pid[a] => y = a)
    BY <1>1, ProgramPids DEF Placed, Home
  <2>3. y = a => ~Holds(run_queue, y) /\ ~Holds(sleep_queue, y)
    BY <1>1, <2>1
  <2>4. Once(ready, y)
    BY <1>4, <2>1, <2>2, <2>3
  <2> QED BY <1>2, <1>3, <2>1, <2>2, <2>3, <2>4
<1>6. QueuedIn(ready, sleep_queue, states)
  BY <1>5 DEF QueuedIn
<1>7. /\ Queued' /\ ProgramRuns'
      /\ \A e \in Entry : state'[e] \in {states[e], "ACTIVE"}
      /\ \A e \in Entry : pid[e] \in Program /\ states[e] = "ACTIVE" => e # active_proc'
  BY <1>1, <1>2, <1>6, PlacedDispatch DEF Placed
<1>8. \A e \in Entry : states[e] = "NONE" => state[e] = "NONE"
  BY <1>2
<1>9. Home' /\ FreeOnly' /\ (NBoot <= next_pid)'
  BY <1>1, <1>7, <1>8 DEF Placed, Home, FreeOnly, Holds
<1>10. Kept
  <2>1. ASSUME NEW e \in Entry
        PROVE  pid'[e] \in Program <=> pid[e] \in Program /\ state'[e] # "NONE"
    BY <1>1, <1>7, <1>8 DEF Placed, Home
  <2>2. ASSUME NEW e \in Entry, Stuck(e) PROVE Stuck(e)'
    <3>1. e # a /\ pid[e] \in Program /\ state[e] = "ACTIVE"
      BY <2>2 DEF Stuck, a
    <3>2. states[e] = "ACTIVE"
      BY <1>2, <3>1
    <3> QED BY <1>1, <1>7, <3>1, <3>2 DEF Stuck
  <2> QED BY <2>1, <2>2 DEF Kept
<1> QED BY <1>7, <1>9, <1>10 DEF Placed

\* The process that runs is in no queue, if it is a program.
LEMMA RunningAlone ==
    ASSUME SchedTypeOK, Placed, active_proc # None, NEW y \in Program,
           Holds(run_queue, y) \/ Holds(sleep_queue, y)
    PROVE  active_proc \in Entry /\ y # active_proc /\ y # pid[active_proc] /\ pid[y] = y
<1>1. active_proc \in Entry
  BY DEF SchedTypeOK
<1>2. pid[y] = y /\ state[y] # "ACTIVE"
  BY DEF Placed, Queued, QueuedIn
<1>3. pid[active_proc] = y => active_proc = y
  BY <1>1 DEF Placed, Home
<1> QED BY <1>1, <1>2, <1>3 DEF Placed, ProgramRuns

\* A process leaves the CPU and its queue.
LEMMA PlacedLeave ==
    ASSUME SchedTypeOK, Placed, active_proc # None,
           active_proc' = None, NEW st \in {"SLEEPING", "ACTIVE"},
           state' = [state EXCEPT ![active_proc] = st],
           run_queue' = Remaining("run", run_queue, active_proc),
           \/ sleep_queue' = Remaining("sleep", sleep_queue, active_proc)
           \/ /\ st = "SLEEPING"
              /\ sleep_queue' = QueueIn(Remaining("sleep", sleep_queue, active_proc), pid[active_proc]),
           UNCHANGED <<pid, proc_allocator, next_pid>>
    PROVE  Placed' /\ Kept
<1> DEFINE a == active_proc
           rest == Remaining("run", run_queue, a)
           asleep == Remaining("sleep", sleep_queue, a)
<1>1. a \in Entry /\ pid[a] \in Pid /\ run_queue \in Seq(Pid) /\ sleep_queue \in Seq(Pid)
  BY DEF SchedTypeOK
<1>2. /\ asleep \in Seq(Pid)
      /\ \A y : Holds(rest, y) => Holds(run_queue, y)
      /\ \A y : Once(run_queue, y) => Once(rest, y)
      /\ \A y : Holds(asleep, y) => Holds(sleep_queue, y)
      /\ \A y : Once(sleep_queue, y) => Once(asleep, y)
  BY <1>1, RemainingOnce
<1> HIDE DEF rest, asleep
<1>3. \A x \in Entry : state'[x] = IF x = a THEN st ELSE state[x]
  BY DEF SchedTypeOK
<1>4. /\ \A y : Holds(sleep_queue', y) => Holds(asleep, y) \/ (y = pid[a] /\ st = "SLEEPING")
      /\ \A y : Once(asleep, y) /\ (y = pid[a] => ~Holds(asleep, y)) => Once(sleep_queue', y)
  <2>1. CASE sleep_queue' = asleep
    BY <2>1
  <2>2. CASE st = "SLEEPING" /\ sleep_queue' = QueueIn(asleep, pid[a])
    BY <1>1, <1>2, <2>2, QueueInOnce
  <2> QED BY <2>1, <2>2 DEF asleep
<1>5. run_queue' = rest
  BY DEF rest
<1>6. ASSUME NEW y \in Program
      PROVE  /\ Once(run_queue', y) /\ Once(sleep_queue', y)
             /\ Holds(run_queue', y) => pid[y] = y /\ state'[y] = "IDLE"
             /\ Holds(sleep_queue', y) => pid[y] = y /\ state'[y] = "SLEEPING"
  <2>1. /\ Once(run_queue, y) /\ Once(sleep_queue, y)
        /\ Holds(run_queue, y) => pid[y] = y /\ state[y] = "IDLE"
        /\ Holds(sleep_queue, y) => pid[y] = y /\ state[y] = "SLEEPING"
    BY DEF Placed, Queued, QueuedIn
  <2>2. y \in Entry /\ (y = pid[a] => y = a)
    BY <1>1, ProgramPids DEF Placed, Home
  <2>3. Holds(run_queue, y) \/ Holds(sleep_queue, y) => y # a /\ y # pid[a]
    BY RunningAlone
  <2>4. Once(run_queue', y) /\ Once(sleep_queue', y)
    BY <1>2, <1>4, <1>5, <2>1, <2>3
  <2>5. Holds(run_queue', y) => pid[y] = y /\ state'[y] = "IDLE"
    BY <1>2, <1>3, <1>5, <2>1, <2>2, <2>3
  <2>6. Holds(sleep_queue', y) => pid[y] = y /\ state'[y] = "SLEEPING"
    BY <1>2, <1>3, <1>4, <2>1, <2>2, <2>3
  <2> QED BY <2>4, <2>5, <2>6
<1>7. Queued'
  BY <1>6 DEF Queued, QueuedIn, Once, Holds
<1>8. Home' /\ FreeOnly' /\ ProgramRuns' /\ (NBoot <= next_pid)'
  BY <1>3 DEF Placed, Home, FreeOnly, ProgramRuns, Holds
<1>9. Kept
  <2>1. \A e \in Entry : e # None
    BY ProgramPids
  <2> QED BY <1>3, <1>8, <2>1 DEF Kept, Stuck, Placed, Home
<1> QED BY <1>7, <1>8, <1>9 DEF Placed

\* proc_sleep of a program.
LEMMA PlacedSleep ==
    ASSUME SchedTypeOK, Placed, NEW t \in SleepTicks, SysSleep(t) PROVE Placed' /\ Kept
<1>1. active_proc # None
  BY DEF SysSleep, SystemCall
<1>2. /\ active_proc' = None
      /\ state' = [state EXCEPT ![active_proc] = "SLEEPING"]
      /\ run_queue' = Remaining("run", run_queue, active_proc)
      /\ sleep_queue' = QueueIn(Remaining("sleep", sleep_queue, active_proc), pid[active_proc])
      /\ UNCHANGED <<pid, proc_allocator, next_pid>>
  BY DEF SysSleep
<1> QED BY <1>1, <1>2, PlacedLeave

\* kproc_destroy: the entry it clears is the one that pid_to_proc finds, for a
\* program its own.
LEMMA PlacedDestroy ==
    ASSUME SchedTypeOK, Placed, active_proc # None, kproc_destroy PROVE Placed' /\ Kept
<1> DEFINE a == active_proc
           f == pid_to_proc(pid[a])
<1>1. a \in Entry /\ pid[a] \in Pid /\ run_queue \in Seq(Pid) /\ sleep_queue \in Seq(Pid)
      /\ proc_allocator \in Seq(Entry)
  BY DEF SchedTypeOK
<1>2. /\ \A y : Holds(run_queue', y) => Holds(run_queue, y)
      /\ \A y : Once(run_queue, y) => Once(run_queue', y)
      /\ \A y : Holds(sleep_queue', y) => Holds(sleep_queue, y)
      /\ \A y : Once(sleep_queue, y) => Once(sleep_queue', y)
  <2>1. /\ run_queue' = Remaining("run", run_queue, a)
        /\ sleep_queue' = Remaining("sleep", sleep_queue, a)
    BY DEF kproc_destroy
  <2> QED BY <1>1, <2>1, RemainingOnce
<1>3. f \in Entry /\ pid[f] = pid[a]
  BY <1>1, LookupType
<1>4. pid[a] \in Program => f = a
  BY <1>1, <1>3 DEF Placed, Home
<1>5. /\ \A x \in Entry : pid'[x] = IF x = a THEN 0 ELSE pid[x]
      /\ \A x \in Entry : state'[x] = IF x = a THEN "NONE" ELSE state[x]
      /\ active_proc' = None /\ next_pid' = next_pid
      /\ proc_allocator' = QueueIn(proc_allocator, f)
  BY DEF kproc_destroy, SchedTypeOK
<1> HIDE DEF f
<1>6. \A e \in Entry : Holds(proc_allocator', e) => Holds(proc_allocator, e) \/ e = f
  BY <1>1, <1>3, <1>5, QueueInOnce
<1>7. ASSUME NEW y \in Program
      PROVE  /\ Once(run_queue', y) /\ Once(sleep_queue', y)
             /\ Holds(run_queue', y) => pid'[y] = y /\ state'[y] = "IDLE"
             /\ Holds(sleep_queue', y) => pid'[y] = y /\ state'[y] = "SLEEPING"
  <2>1. /\ Once(run_queue, y) /\ Once(sleep_queue, y)
        /\ Holds(run_queue, y) => pid[y] = y /\ state[y] = "IDLE"
        /\ Holds(sleep_queue, y) => pid[y] = y /\ state[y] = "SLEEPING"
    BY DEF Placed, Queued, QueuedIn
  <2>2. y \in Entry
    BY ProgramPids
  <2>3. Holds(run_queue, y) \/ Holds(sleep_queue, y) => y # a
    BY RunningAlone
  <2> QED BY <1>2, <1>5, <2>1, <2>2, <2>3
<1>8. Queued'
  BY <1>7 DEF Queued, QueuedIn, Once, Holds
<1>9. Home' /\ ProgramRuns' /\ (NBoot <= next_pid)'
  BY <1>5, ProgramPids DEF Placed, Home, ProgramRuns
<1>10. FreeOnly'
  <2>1. ASSUME NEW e \in Entry, Holds(proc_allocator', e) PROVE pid'[e] \notin Program
    BY <1>3, <1>4, <1>5, <1>6, <2>1, ProgramPids DEF Placed, FreeOnly
  <2> QED BY <2>1 DEF FreeOnly, Holds
<1>11. Kept
  <2>1. \A e \in Entry : e # None
    BY ProgramPids
  <2> QED BY <1>5, <2>1, ProgramPids DEF Kept, Stuck, Placed, Home
<1> QED BY <1>8, <1>9, <1>10, <1>11 DEF Placed

\* kproc_create takes an entry that no program has and an id past theirs.
LEMMA PlacedCreate == ASSUME SchedTypeOK, Placed, KeyCreate PROVE Placed' /\ Kept
<1> DEFINE e == Head(proc_allocator)
<1>1. /\ e \in Entry /\ Holds(proc_allocator, e)
      /\ \A y : Holds(Tail(proc_allocator), y) => Holds(proc_allocator, y)
  BY TailOnce DEF SchedTypeOK, KeyCreate
<1>2. next_pid \in Pid /\ next_pid \notin Program /\ NBoot <= next_pid + 1
  BY SchedulerAssumption DEF SchedTypeOK, Placed, Pid, Program
<1>3. pid[e] \notin Program
  BY <1>1 DEF Placed, FreeOnly
<1>4. /\ pid' = [pid EXCEPT ![e] = next_pid] /\ state' = [state EXCEPT ![e] = "IDLE"]
      /\ run_queue' = QueueIn(run_queue, next_pid) /\ proc_allocator' = Tail(proc_allocator)
      /\ next_pid' = next_pid + 1 /\ UNCHANGED <<active_proc, sleep_queue>>
  BY DEF KeyCreate
<1> HIDE DEF e
<1>5. /\ \A x \in Entry : pid'[x] = IF x = e THEN next_pid ELSE pid[x]
      /\ \A x \in Entry : state'[x] = IF x = e THEN "IDLE" ELSE state[x]
  BY <1>4 DEF SchedTypeOK
<1>6. ASSUME NEW y \in Program
      PROVE  /\ Once(run_queue', y) /\ Once(sleep_queue', y)
             /\ Holds(run_queue', y) => pid'[y] = y /\ state'[y] = "IDLE"
             /\ Holds(sleep_queue', y) => pid'[y] = y /\ state'[y] = "SLEEPING"
  <2>1. /\ Once(run_queue, y) /\ Once(sleep_queue, y)
        /\ Holds(run_queue, y) => pid[y] = y /\ state[y] = "IDLE"
        /\ Holds(sleep_queue, y) => pid[y] = y /\ state[y] = "SLEEPING"
    BY DEF Placed, Queued, QueuedIn
  <2>2. y \in Entry /\ (pid[y] = y => y # e)
    BY <1>3, ProgramPids
  <2>3. run_queue \in Seq(Pid) /\ y # next_pid
    BY <1>2 DEF SchedTypeOK
  <2>4. /\ Holds(run_queue', y) => Holds(run_queue, y)
        /\ Once(run_queue', y)
    BY <1>2, <1>4, <2>1, <2>3, QueueInOnce
  <2>5. sleep_queue' = sleep_queue
    BY <1>4
  <2> QED BY <1>5, <2>1, <2>2, <2>4, <2>5
<1>7. Queued'
  BY <1>6 DEF Queued, QueuedIn, Once, Holds
<1>8. Home' /\ (NBoot <= next_pid)'
  BY <1>2, <1>4, <1>5 DEF Placed, Home
<1>9. FreeOnly'
  <2>1. ASSUME NEW x \in Entry, Holds(proc_allocator', x) PROVE pid'[x] \notin Program
    BY <1>1, <1>2, <1>4, <1>5, <2>1 DEF Placed, FreeOnly
  <2> QED BY <2>1 DEF FreeOnly, Holds
<1>10. ProgramRuns'
  <2>1. active_proc # None => active_proc \in Entry
    BY DEF SchedTypeOK
  <2> QED BY <1>2, <1>4, <1>5, <2>1 DEF Placed, ProgramRuns
<1>11. Kept
  BY <1>2, <1>3, <1>4, <1>5 DEF Kept, Stuck, Placed, Home
<1> QED BY <1>7, <1>8, <1>9, <1>10, <1>11 DEF Placed

\* Every step of the scheduler alone.
LEMMA PlacedNext ==
    ASSUME SchedTypeOK, Placed,
           TimerIrq \/ Kernel \/ KeyDestroy \/ KeyCreate \/ OtherEntry \/ SysExit
           \/ \E t \in SleepTicks : SysSleep(t)
    PROVE  Placed' /\ Kept
<1>1. CASE TimerIrq \/ SleepScanDone \/ RunKeep \/ OtherEntry
  <2>1. UNCHANGED <<active_proc, pid, state, run_queue, sleep_queue, proc_allocator, next_pid>>
    BY <1>1 DEF TimerIrq, SleepScanDone, RunKeep, OtherEntry, pcb, lists
  <2> QED BY <2>1, PlacedSame
<1>2. CASE KeyDestroy \/ SysExit
  BY <1>2, PlacedDestroy DEF KeyDestroy, SysExit, SystemCall
<1> QED BY <1>1, <1>2, PlacedSleepScan, PlacedRunDispatch, PlacedRunPreempt, PlacedSleep,
           PlacedCreate DEF Kernel, SchedulerRun

\* sem_wait that blocks: the caller is stuck.
LEMMA PlacedWait ==
    ASSUME SchedTypeOK, Placed, NEW s \in Sem, ksem_wait(s)
    PROVE  /\ Placed' /\ Kept
           /\ active_proc \in Entry /\ pid[active_proc] \in Program
           /\ \A e \in Entry : e = active_proc /\ allocated[s] = 1 /\ count[s] = 0 => Stuck(e)'
<1>1. active_proc \in Entry /\ pid[active_proc] \in Program /\ active_proc # None
  BY DEF ksem_wait, SystemCall, SchedTypeOK
<1>2. state[active_proc] = "ACTIVE"
  BY <1>1 DEF Placed, ProgramRuns
<1>3. CASE ReturnToScheduler /\ ~(allocated[s] = 1 /\ count[s] = 0)
  <2>1. UNCHANGED <<active_proc, pid, state, run_queue, sleep_queue, proc_allocator, next_pid>>
    BY <1>3 DEF ReturnToScheduler, pcb, lists
  <2> QED BY <1>1, <1>3, <2>1, PlacedSame
<1>4. CASE ~(ReturnToScheduler /\ ~(allocated[s] = 1 /\ count[s] = 0))
  <2>1. /\ run_queue' = Remaining("run", run_queue, active_proc)
        /\ sleep_queue' = Remaining("sleep", sleep_queue, active_proc)
        /\ active_proc' = None
        /\ UNCHANGED <<pid, state, proc_allocator, next_pid>>
    BY <1>4 DEF ksem_wait
  <2>2. state' = [state EXCEPT ![active_proc] = "ACTIVE"]
    BY <1>2, <2>1 DEF SchedTypeOK
  <2>3. Placed' /\ Kept
    BY <1>1, <2>1, <2>2, PlacedLeave
  <2>4. ASSUME NEW e \in Entry, e = active_proc PROVE Stuck(e)'
    BY <1>1, <1>2, <2>1, <2>4, ProgramPids DEF Stuck
  <2> QED BY <1>1, <2>3, <2>4
<1> QED BY <1>3, <1>4

\* Only what may be read as the pid of no process waits on a semaphore.
Waiters == wait_queue \in [Sem -> Seq({null_pid})]

\* sem_post: whoever null_pid names is made ready, if it is no program.
LEMMA PlacedPost ==
    ASSUME SchedTypeOK, Placed, Waiters, null_pid \notin Program, NEW s \in Sem, ksem_post(s)
    PROVE  Placed' /\ Kept
<1>1. CASE ReturnToScheduler
  <2>1. UNCHANGED <<active_proc, pid, state, run_queue, sleep_queue, proc_allocator, next_pid>>
    BY <1>1 DEF ReturnToScheduler, pcb, lists
  <2> QED BY <2>1, PlacedSame
<1>2. CASE ~ReturnToScheduler
  <2> DEFINE p == Head(wait_queue[s])
  <2>1. /\ wait_queue[s] # <<>> /\ p \in Entry /\ scheduler_add(p, "sched")
        /\ UNCHANGED <<active_proc, pid, sleep_queue, proc_allocator, next_pid>>
    BY <1>2 DEF ksem_post, Wake
  <2>2. p \notin Program
    <3>1. wait_queue[s] \in Seq({null_pid})
      BY DEF Waiters
    <3>2. p \in {null_pid}
      BY <2>1, <3>1, TailType
    <3> QED BY <3>2
  <2> HIDE DEF p
  <2>3. pid[p] \notin Program
    BY <2>1, <2>2 DEF Placed, Home
  <2>4. \A y \in Program : Once(sleep_queue', y) /\ (Holds(sleep_queue', y) => Holds(sleep_queue, y))
    BY <2>1 DEF Placed, Queued, QueuedIn
  <2> QED BY <2>1, <2>3, <2>4, PlacedAdd
<1> QED BY <1>1, <1>2

\* A call that returns to the scheduler and changes no process.
LEMMA PlacedReturn == ASSUME Placed, ReturnToScheduler PROVE Placed' /\ Kept
<1>1. UNCHANGED <<active_proc, pid, state, run_queue, sleep_queue, proc_allocator, next_pid>>
  BY DEF ReturnToScheduler, pcb, lists
<1> QED BY <1>1, PlacedSame

\* Every call of a semaphore, and every step of a program.
LEMMA PlacedCall ==
    ASSUME SchedTypeOK, Placed, Waiters, null_pid \notin Program, AnyCall \/ ProgramStep
    PROVE  Placed' /\ Kept
<1>1. ASSUME NEW s \in Sem, ksem_destroy(s) \/ ksem_wait(s) \/ ksem_post(s) PROVE Placed' /\ Kept
  BY <1>1, PlacedReturn, PlacedWait, PlacedPost DEF ksem_destroy
<1>2. ASSUME NEW v, ksem_init(v) PROVE Placed' /\ Kept
  BY <1>2, PlacedReturn DEF ksem_init
<1>3. CASE AnyCall
  BY <1>1, <1>2, <1>3 DEF AnyCall
<1>4. CASE ProgramStep
  <2>1. ASSUME UNCHANGED allVars PROVE Placed' /\ Kept
    BY <2>1, PlacedSame DEF allVars, vars, pcb, lists
  <2>2. CASE Nap
    BY <2>2, PlacedSleep DEF Nap
  <2>3. CASE SemWait \/ SemPost
    BY <1>1, <2>3, PlacedReturn DEF SemWait, SemPost, Refused
  <2>4. ASSUME NEW k \in Side, SemaphoreInit(k) PROVE Placed' /\ Kept
    BY <1>2, <2>4 DEF SemaphoreInit
  <2> QED BY <1>4, <2>1, <2>2, <2>3, <2>4 DEF ProgramStep, Test, Assign
<1> QED BY <1>3, <1>4

\* ksem_wait queues the id that a null active_proc is read to have, and nothing
\* else queues.
LEMMA WaitersCall ==
    ASSUME Waiters, NEW s \in Sem, ksem_destroy(s) \/ ksem_wait(s) \/ ksem_post(s)
    PROVE  Waiters' /\ null_pid' = null_pid
<1> DEFINE q == wait_queue[s]
<1>1. /\ QueueIn(q, null_pid) \in Seq({null_pid})
      /\ q # <<>> => Tail(q) \in Seq({null_pid})
  <2>1. q \in Seq({null_pid})
    BY DEF Waiters
  <2> HIDE DEF q
  <2>2. QueueIn(q, null_pid) \in Seq({null_pid})
    BY <2>1, QueueInType
  <2>3. q # <<>> => Tail(q) \in Seq({null_pid})
    BY <2>1, TailType
  <2> QED BY <2>2, <2>3
<1> HIDE DEF q
<1>2. CASE ksem_destroy(s)
  <2>1. wait_queue' = wait_queue /\ null_pid' = null_pid
    BY <1>2 DEF ksem_destroy, semVars, sems
  <2> QED BY <2>1 DEF Waiters
<1>3. CASE ksem_wait(s)
  <2>1. null_pid' = null_pid /\ wait_queue' \in {wait_queue, [wait_queue EXCEPT ![s] = QueueIn(q, null_pid)]}
    BY <1>3 DEF ksem_wait, q
  <2> QED BY <1>1, <2>1, ExceptType DEF Waiters
<1>4. CASE ksem_post(s)
  <2>1. null_pid' = null_pid
    BY <1>4 DEF ksem_post
  <2>2. wait_queue' = wait_queue \/ (q # <<>> /\ wait_queue' = [wait_queue EXCEPT ![s] = Tail(q)])
    BY <1>4 DEF ksem_post, Wake, q
  <2> QED BY <1>1, <2>1, <2>2, ExceptType DEF Waiters
<1> QED BY <1>2, <1>3, <1>4

\* Nor does ksem_init, which empties the queue of the semaphore it hands out.
LEMMA WaitersInit ==
    ASSUME Waiters, NEW v, ksem_init(v) PROVE Waiters' /\ null_pid' = null_pid
<1>1. null_pid' = null_pid
  BY DEF ksem_init, semVars
<1>2. <<>> \in Seq({null_pid})
  OBVIOUS
<1>3. CASE wait_queue' = wait_queue
  BY <1>1, <1>3 DEF Waiters
<1>4. CASE wait_queue' = [wait_queue EXCEPT ![Head(sem_queue)] = <<>>]
  BY <1>1, <1>2, <1>4, ExceptType DEF Waiters
<1> QED BY <1>3, <1>4 DEF ksem_init, semVars, sems
-----------------------------------------------------------------------------
(***************************************************************************)
(* The turns of the pings and pongs.                                       *)
(***************************************************************************)

\* The pings and pongs play, and sem_wait queues the id of no program.
Playing == pings \cup pongs # {} /\ null_pid \notin Program /\ ~failed
\* The programs are where their text is, the other processes are elsewhere.
Where   == \A e \in Entry : at[e] # "other" <=> pid[e] \in Program
\* A program that sem_wait took off the CPU never runs again.
Lost    == \A e \in Entry : pid[e] \in Program /\ blocked[e] # None => Stuck(e)
\* The programs use semaphores that are allocated.
Ids     == \A k \in Side : pingpong_semaphores[k] # -1 => allocated[pingpong_semaphores[k]] = 1
\* Who passed a test has an id, and who is to assign one got it from sem_init.
Through == \A e \in Entry :
    /\ at[e] \in {"test1", "init1", "assign1"} => pingpong_semaphores[0] # -1
    /\ at[e] \in {"first_post", "wait", "nap", "post"} => \A k \in Side : pingpong_semaphores[k] # -1
    /\ at[e] \in {"assign0", "assign1"} => rc[e] # -1 /\ allocated[rc[e]] = 1
\* Between sem_wait and sem_post, and in the counts.
Budget  == IsFiniteSet(Banked) /\ Turns <= minted

\* What holds of a game.
PlayInv == Where /\ Lost /\ Ids /\ Through /\ Budget
-----------------------------------------------------------------------------
\* The tokens in the counts.
Bank(al, ct) == UNION {{s} \X (1 .. ct[s]) : s \in {x \in Sem : al[x] = 1}}

\* A token is the number s of an allocated semaphore and a number below its
\* count.
LEMMA InBank ==
    ASSUME NEW al, NEW ct, NEW x
    PROVE  x \in Bank(al, ct) <=> \E s \in Sem : al[s] = 1 /\ \E n \in 1 .. ct[s] : x = <<s, n>>
BY DEF Bank

\* A post adds a token, a wait takes the last one.
LEMMA BankPost ==
    ASSUME NEW al, NEW ct \in [Sem -> Nat], NEW s \in Sem, al[s] = 1, NEW ct2 \in [Sem -> Nat],
           ct2[s] = ct[s] + 1, \A x \in Sem : x # s => ct2[x] = ct[x]
    PROVE  Bank(al, ct2) = Bank(al, ct) \cup {<<s, ct2[s]>>}
<1>1. \A n : n \in 1 .. ct2[s] <=> n \in 1 .. ct[s] \/ n = ct2[s]
  OBVIOUS
<1>2. ASSUME NEW x PROVE x \in Bank(al, ct2) <=> x \in Bank(al, ct) \/ x = <<s, ct2[s]>>
  <2>1. ASSUME x \in Bank(al, ct2) PROVE x \in Bank(al, ct) \/ x = <<s, ct2[s]>>
    <3>1. PICK y \in Sem : al[y] = 1 /\ \E n \in 1 .. ct2[y] : x = <<y, n>>
      BY <2>1, InBank
    <3>2. PICK n \in 1 .. ct2[y] : x = <<y, n>>
      BY <3>1
    <3>3. n \in 1 .. ct[y] \/ (y = s /\ n = ct2[s])
      BY <1>1
    <3> QED BY <3>1, <3>2, <3>3, InBank
  <2>2. ASSUME x \in Bank(al, ct) PROVE x \in Bank(al, ct2)
    <3>1. PICK y \in Sem : al[y] = 1 /\ \E n \in 1 .. ct[y] : x = <<y, n>>
      BY <2>2, InBank
    <3>2. PICK n \in 1 .. ct[y] : x = <<y, n>>
      BY <3>1
    <3>3. n \in 1 .. ct2[y]
      BY <1>1
    <3> QED BY <3>1, <3>2, <3>3, InBank
  <2>3. <<s, ct2[s]>> \in Bank(al, ct2)
    <3>1. ct2[s] \in 1 .. ct2[s]
      BY <1>1
    <3> QED BY <3>1, InBank
  <2> QED BY <2>1, <2>2, <2>3
<1> QED BY <1>2

\* A semaphore that is allocated with no token, or with one.
LEMMA BankInit ==
    ASSUME NEW al, NEW al2, NEW ct, NEW ct2, NEW s \in Sem, al[s] # 1,
           \A x \in Sem : x # s => al2[x] = al[x] /\ ct2[x] = ct[x]
    PROVE  /\ ct2[s] = 0 => Bank(al2, ct2) = Bank(al, ct)
           /\ al2[s] = 1 /\ ct2[s] = 1 => Bank(al2, ct2) = Bank(al, ct) \cup {<<s, 1>>}
<1>1. ASSUME NEW x PROVE /\ ct2[s] = 0 => (x \in Bank(al2, ct2) <=> x \in Bank(al, ct))
                         /\ al2[s] = 1 /\ ct2[s] = 1 =>
                              (x \in Bank(al2, ct2) <=> x \in Bank(al, ct) \/ x = <<s, 1>>)
  <2>1. x \in Bank(al, ct) => x \in Bank(al2, ct2)
    BY InBank
  <2>2. ct2[s] = 0 /\ x \in Bank(al2, ct2) => x \in Bank(al, ct)
    <3>1. 1 .. 0 = {}
      OBVIOUS
    <3> QED BY <3>1, InBank
  <2>3. ct2[s] = 1 /\ x \in Bank(al2, ct2) => x \in Bank(al, ct) \/ x = <<s, 1>>
    <3>1. 1 .. 1 = {1}
      OBVIOUS
    <3> QED BY <3>1, InBank
  <2>4. al2[s] = 1 /\ ct2[s] = 1 => <<s, 1>> \in Bank(al2, ct2)
    <3>1. 1 .. 1 = {1}
      OBVIOUS
    <3> QED BY <3>1, InBank
  <2> QED BY <2>1, <2>2, <2>3, <2>4
<1> QED BY <1>1

\* Cardinalities of sets that gain or lose one element.
LEMMA CardAdd ==
    ASSUME NEW S, IsFiniteSet(S), NEW x
    PROVE  /\ Cardinality(S) \in Nat /\ IsFiniteSet(S \cup {x})
           /\ Cardinality(S \cup {x}) <= Cardinality(S) + 1
           /\ x \notin S => Cardinality(S \cup {x}) = Cardinality(S) + 1
BY FS_AddElement, FS_CardinalityType

\* A subset has no more elements.
LEMMA CardSubset ==
    ASSUME NEW S, NEW T, IsFiniteSet(T), S \subseteq T
    PROVE  IsFiniteSet(S) /\ Cardinality(S) \in Nat /\ Cardinality(T) \in Nat
           /\ Cardinality(S) <= Cardinality(T)
BY FS_Subset, FS_CardinalityType

\* No more programs hold a turn than there are entries.
LEMMA HoldingFinite == IsFiniteSet(Holding) /\ Cardinality(Holding) \in Nat
<1>1. Holding \subseteq Entry
  BY DEF Holding
<1> QED BY <1>1, EntryCount, FS_Subset, FS_CardinalityType

\* What a step may do to the turns: none gained, one taken from the counts by
\* entry e, one put back by e, or as many more as are minted.
LEMMA BudgetKept ==
    ASSUME Budget, minted \in Nat, minted' \in Nat, minted <= minted',
           Holding' \subseteq Holding, Banked' = Banked
    PROVE  Budget'
<1>1. Cardinality(Holding') \in Nat /\ Cardinality(Holding) \in Nat
      /\ Cardinality(Holding') <= Cardinality(Holding) /\ Cardinality(Banked) \in Nat
  BY HoldingFinite, CardSubset, FS_CardinalityType DEF Budget
<1> QED BY <1>1 DEF Budget, Turns

\* A token more in the counts is paid by the one that is minted.
LEMMA BudgetMinted ==
    ASSUME Budget, minted \in Nat, minted' = minted + 1,
           Holding' \subseteq Holding, NEW x, Banked' = Banked \cup {x}
    PROVE  Budget'
<1>1. Cardinality(Holding') \in Nat /\ Cardinality(Holding) \in Nat
      /\ Cardinality(Holding') <= Cardinality(Holding)
  BY HoldingFinite, CardSubset
<1>2. IsFiniteSet(Banked') /\ Cardinality(Banked) \in Nat /\ Cardinality(Banked') \in Nat
      /\ Cardinality(Banked') <= Cardinality(Banked) + 1
  BY CardAdd, FS_CardinalityType DEF Budget
<1> QED BY <1>1, <1>2 DEF Budget, Turns

\* A program that posts gives its turn back.
LEMMA BudgetPost ==
    ASSUME Budget, minted \in Nat, minted' = minted, NEW e, e \in Holding, e \notin Holding',
           Holding' \subseteq Holding, NEW x, Banked' \in {Banked, Banked \cup {x}}
    PROVE  Budget'
<1>1. /\ IsFiniteSet(Holding') /\ Cardinality(Holding') \in Nat /\ Cardinality(Holding) \in Nat
      /\ Cardinality(Holding') + 1 <= Cardinality(Holding)
  <2>1. IsFiniteSet(Holding) /\ Cardinality(Holding) \in Nat
    BY HoldingFinite
  <2>2. IsFiniteSet(Holding') /\ Cardinality(Holding') \in Nat
    BY <2>1, CardSubset
  <2>3. Cardinality(Holding' \cup {e}) = Cardinality(Holding') + 1
    BY <2>2, CardAdd
  <2>4. Holding' \cup {e} \subseteq Holding
    OBVIOUS
  <2>5. Cardinality(Holding' \cup {e}) <= Cardinality(Holding)
    BY <2>1, <2>4, CardSubset
  <2> QED BY <2>1, <2>2, <2>3, <2>5
<1>2. IsFiniteSet(Banked') /\ Cardinality(Banked) \in Nat /\ Cardinality(Banked') \in Nat
      /\ Cardinality(Banked') <= Cardinality(Banked) + 1
  <2>1. IsFiniteSet(Banked) /\ Cardinality(Banked) \in Nat
    BY FS_CardinalityType DEF Budget
  <2> QED BY <2>1, CardAdd, FS_CardinalityType
<1> QED BY <1>1, <1>2 DEF Budget, Turns

\* A wait that is granted moves a token from the count to the program.
LEMMA BudgetWait ==
    ASSUME Budget, minted \in Nat, minted' = minted, NEW e, Holding' \subseteq Holding \cup {e},
           NEW x, x \notin Banked', Banked = Banked' \cup {x}
    PROVE  Budget'
<1>1. /\ Cardinality(Holding') \in Nat /\ Cardinality(Holding) \in Nat
      /\ Cardinality(Holding') <= Cardinality(Holding) + 1
  <2>1. IsFiniteSet(Holding) /\ Cardinality(Holding) \in Nat
    BY HoldingFinite
  <2>2. IsFiniteSet(Holding \cup {e}) /\ Cardinality(Holding \cup {e}) <= Cardinality(Holding) + 1
        /\ Cardinality(Holding \cup {e}) \in Nat
    BY <2>1, CardAdd, FS_CardinalityType
  <2>3. Cardinality(Holding') \in Nat /\ Cardinality(Holding') <= Cardinality(Holding \cup {e})
    BY <2>2, CardSubset
  <2> QED BY <2>1, <2>2, <2>3
<1>2. IsFiniteSet(Banked') /\ Cardinality(Banked') \in Nat
      /\ Cardinality(Banked) = Cardinality(Banked') + 1
  <2>1. IsFiniteSet(Banked')
    BY CardSubset DEF Budget
  <2> QED BY <2>1, CardAdd
<1> QED BY <1>1, <1>2 DEF Budget, Turns
-----------------------------------------------------------------------------
\* What the lemmas below assume of the state before a step.
InPlay == TypeInv /\ Placed /\ Waiters /\ Playing /\ PlayInv

\* The program that runs was not taken off the CPU by a wait.
LEMMA Caller ==
    ASSUME InPlay, NEW place, ProgramAt(place)
    PROVE  /\ active_proc \in Entry /\ pid[active_proc] \in Program
           /\ at[active_proc] = place /\ blocked[active_proc] = None
BY DEF InPlay, ProgramAt, SystemCall, TypeInv, TableOK, SchedTypeOK, PlayInv, Lost, Stuck

\* The program that runs goes to a place of its text, nobody else does.
LEMMA GotoPlay ==
    ASSUME InPlay, active_proc \in Entry, pid[active_proc] \in Program,
           NEW place \in Place \ {"other"}, Goto(place), pid' = pid,
           \A e \in Entry : e # active_proc => blocked'[e] = blocked[e] \/ at[e] = "other"
    PROVE  /\ Where'
           /\ Holding' \subseteq Holding \cup {active_proc}
           /\ place \notin {"nap", "post"} \/ blocked'[active_proc] # None
                => Holding' \subseteq Holding /\ active_proc \notin Holding'
<1>1. \A e \in Entry : at'[e] = IF e = active_proc THEN place ELSE at[e]
  BY DEF Goto, InPlay, TypeInv, ProgramsOK
<1>2. Where'
  BY <1>1 DEF Where, InPlay, PlayInv
<1>3. \A e \in Entry : HasTurn(e)' => HasTurn(e) \/ e = active_proc
  BY <1>1 DEF HasTurn
<1>4. Holding' \subseteq Holding \cup {active_proc}
  BY <1>3 DEF Holding
<1>5. ASSUME place \notin {"nap", "post"} \/ blocked'[active_proc] # None
      PROVE  \A e \in Entry : e = active_proc => ~HasTurn(e)'
  BY <1>1, <1>5 DEF HasTurn
<1> QED BY <1>2, <1>3, <1>4, <1>5 DEF Holding

\* A program that is stuck stays stuck, and no other becomes blocked.
LEMMA LostKept ==
    ASSUME InPlay, Kept,
           \A e \in Entry : pid'[e] \in Program /\ blocked'[e] # None => blocked[e] # None \/ Stuck(e)'
    PROVE  Lost'
<1>1. ASSUME NEW e \in Entry, pid'[e] \in Program, blocked'[e] # None PROVE Stuck(e)'
  <2>1. pid[e] \in Program
    BY <1>1 DEF Kept
  <2>2. Stuck(e) => Stuck(e)'
    BY DEF Kept
  <2> QED BY <1>1, <2>1, <2>2 DEF InPlay, PlayInv, Lost
<1> QED BY <1>1 DEF Lost

\* What the place of the program that runs says of the ids.
Ready(place, r) ==
    /\ place \in {"test1", "init1", "assign1"} => pingpong_semaphores[0] # -1
    /\ place \in {"first_post", "wait", "nap", "post"} => \A k \in Side : pingpong_semaphores[k] # -1
    /\ place \in {"assign0", "assign1"} => r # -1 /\ allocated[r] = 1

\* A program that goes to a place where its ids are ready leaves Through true.
LEMMA ThroughKept ==
    ASSUME InPlay, NEW a \in Entry, a = active_proc, NEW place, Goto(place),
           \A s \in Sem : allocated[s] = 1 => allocated'[s] = 1,
           \A k \in Side : pingpong_semaphores[k] # -1 => pingpong_semaphores'[k] # -1,
           \A e \in Entry : e # a => rc'[e] = rc[e],
           Ready(place, rc[a])'
    PROVE  Through'
<1>1. \A e \in Entry : at'[e] = IF e = a THEN place ELSE at[e]
  BY DEF Goto, InPlay, TypeInv, ProgramsOK
<1>2. ASSUME NEW e \in Entry, e # a PROVE Ready(at[e], rc[e])'
  <2>1. at'[e] = at[e] /\ rc'[e] = rc[e] /\ rc[e] \in Sem \cup {-1} /\ 0 \in Side
    BY <1>1, <1>2 DEF InPlay, TypeInv, ProgramsOK, Side
  <2>2. Ready(at[e], rc[e])
    BY DEF Ready, InPlay, PlayInv, Through
  <2> QED BY <2>1, <2>2 DEF Ready
<1>3. ASSUME NEW e \in Entry PROVE Ready(at[e], rc[e])'
  BY <1>1, <1>2 DEF Ready
<1> QED BY <1>3 DEF Ready, Through

\* The places where a program has no turn.
Between == Place \ {"other", "nap", "post"}

\* A step of a program that leaves the semaphores and the scheduler's view of
\* everybody alone.
LEMMA PlayLocal ==
    ASSUME InPlay, NEW a \in Entry, a = active_proc, pid[a] \in Program,
           NEW place \in Between, Goto(place), UNCHANGED allVars, minted' = minted,
           \A e \in Entry : e # a => rc'[e] = rc[e],
           \A k \in Side : pingpong_semaphores[k] # -1 => pingpong_semaphores'[k] # -1,
           Ids', Ready(place, rc[a])'
    PROVE  PlayInv'
<1>1. /\ pid' = pid /\ blocked' = blocked /\ allocated' = allocated /\ count' = count
      /\ active_proc' = active_proc /\ state' = state
  BY DEF allVars, vars, semVars, sems, pcb
<1>2. place \in Place \ {"other"} /\ place \notin {"nap", "post"}
  BY DEF Between
<1>3. Where' /\ Holding' \subseteq Holding
  BY <1>1, <1>2, GotoPlay
<1>4. Lost'
  BY <1>1 DEF Lost, Stuck, InPlay, PlayInv
<1>5. Through'
  BY <1>1, ThroughKept
<1>6. Banked' = Banked
  BY <1>1 DEF Banked
<1>7. Budget'
  BY <1>3, <1>6, BudgetKept DEF InPlay, PlayInv, TypeInv, ProgramsOK
<1> QED BY <1>3, <1>4, <1>5, <1>7 DEF PlayInv

\* `if (*ping < 0)` and `if (*pong < 0)`
LEMMA PlayTest ==
    ASSUME InPlay, NEW k \in Side, NEW initial \in Between, NEW otherwise \in Between,
           Test(k, initial, otherwise),
           Ready(initial, rc[active_proc]),
           pingpong_semaphores[k] # -1 => Ready(otherwise, rc[active_proc])
    PROVE  PlayInv'
<1>1. PICK a \in Entry : a = active_proc /\ pid[a] \in Program
  BY Caller DEF Test
<1>2. UNCHANGED <<allVars, pings, pongs, pingpong_semaphores, rc, minted, failed>>
  BY DEF Test
<1>3. PICK place \in Between : Goto(place) /\ Ready(place, rc[a])
  <2>1. pingpong_semaphores[k] \in Sem \cup {-1}
    BY DEF InPlay, TypeInv, ProgramsOK
  <2>2. CASE pingpong_semaphores[k] < 0
    <3>1. Goto(initial)
      BY <2>2 DEF Test
    <3> QED BY <1>1, <3>1
  <2>3. CASE ~(pingpong_semaphores[k] < 0)
    <3>1. Goto(otherwise) /\ pingpong_semaphores[k] # -1
      BY <2>1, <2>3 DEF Test
    <3> QED BY <1>1, <3>1
  <2> QED BY <2>2, <2>3
<1>4. /\ UNCHANGED allVars /\ allocated' = allocated
      /\ pingpong_semaphores' = pingpong_semaphores /\ rc' = rc /\ minted' = minted
  BY <1>2 DEF allVars, semVars, sems
<1>5. Ready(place, rc[a])'
  BY <1>3, <1>4 DEF Ready
<1>6. Ids'
  BY <1>4 DEF Ids, InPlay, PlayInv
<1> QED BY <1>1, <1>3, <1>4, <1>5, <1>6, PlayLocal

\* What sem_init returned becomes the shared id.
LEMMA PlayAssign ==
    ASSUME InPlay, NEW k \in Side, NEW next \in Between \ {"assign0", "assign1"}, Assign(k, next),
           (next = "test1" /\ k = 0) \/ (next \in {"first_post", "wait"} /\ k = 1)
    PROVE  PlayInv'
<1> DEFINE place == IF k = 0 THEN "assign0" ELSE "assign1"
<1>1. PICK a \in Entry : a = active_proc /\ pid[a] \in Program /\ at[a] = place
  BY Caller DEF Assign
<1>2. /\ UNCHANGED <<allVars, rc, minted>> /\ Goto(next)
      /\ pingpong_semaphores' = [pingpong_semaphores EXCEPT ![k] = rc[a]]
  BY <1>1 DEF Assign
<1>3. rc[a] # -1 /\ allocated[rc[a]] = 1
  BY <1>1 DEF InPlay, PlayInv, Through
<1>4. k = 1 => pingpong_semaphores[0] # -1
  BY <1>1 DEF InPlay, PlayInv, Through, Side
<1>5. /\ allocated' = allocated
      /\ \A x \in Side : pingpong_semaphores'[x] = IF x = k THEN rc[a] ELSE pingpong_semaphores[x]
  BY <1>2 DEF allVars, semVars, sems, InPlay, TypeInv, ProgramsOK
<1>6. Ids'
  BY <1>3, <1>5 DEF Ids, InPlay, PlayInv
<1>7. Ready(next, rc[a])'
  <2>1. \A x \in Side : x = 0 \/ x = 1
    BY DEF Side
  <2>2. 0 \in Side
    BY DEF Side
  <2> QED BY <1>3, <1>4, <1>5, <2>1, <2>2 DEF Ready
<1>8. \A x \in Side : pingpong_semaphores[x] # -1 => pingpong_semaphores'[x] # -1
  BY <1>3, <1>5
<1> QED BY <1>1, <1>2, <1>6, <1>7, <1>8, PlayLocal

\* A semaphore that a program initialises has as many tokens as are minted.
LEMMA PlayInit ==
    ASSUME InPlay, NEW k \in Side, SemaphoreInit(k), ~failed', Kept
    PROVE  PlayInv'
<1> DEFINE v == IF k = Mine THEN 1 ELSE 0
           s == Head(sem_queue)
           place == IF k = 0 THEN "assign0" ELSE "assign1"
<1>1. PICK a \in Entry : a = active_proc /\ pid[a] \in Program
                          /\ at[a] = IF k = 0 THEN "init0" ELSE "init1"
  BY Caller DEF SemaphoreInit
<1>2. /\ sem_queue # <<>> /\ minted' = minted + v /\ rc' = [rc EXCEPT ![a] = s]
      /\ Goto(place) /\ pingpong_semaphores' = pingpong_semaphores
      /\ ksem_init(v)
  BY <1>1 DEF SemaphoreInit
<1>3. /\ allocated' = [allocated EXCEPT ![s] = 1]
      /\ count' = [count EXCEPT ![s] = v]
      /\ blocked' = blocked
      /\ ReturnToScheduler
  BY <1>2 DEF ksem_init
<1>4. /\ s \in Sem /\ allocated[s] # 1 /\ v \in {0, 1}
      /\ allocated \in [Sem -> {0, 1}] /\ count \in [Sem -> Nat]
  <2>1. s \in Sem /\ Holds(sem_queue, s)
    BY <1>2, TailOnce DEF InPlay, TypeInv, KInv, SemVarsOK
  <2>2. allocated[s] = 0
    BY <2>1 DEF InPlay, TypeInv, KInv, SemIdsExact
  <2> QED BY <2>1, <2>2 DEF InPlay, TypeInv, KInv, SemVarsOK
<1> HIDE DEF s, v
<1>5. /\ \A x \in Sem : allocated'[x] = IF x = s THEN 1 ELSE allocated[x]
      /\ \A x \in Sem : count'[x] = IF x = s THEN v ELSE count[x]
      /\ rc'[a] = s /\ \A e \in Entry : e # a => rc'[e] = rc[e]
  BY <1>2, <1>3, <1>4 DEF InPlay, TypeInv, ProgramsOK
<1>6. /\ pid' = pid /\ active_proc' = active_proc /\ state' = state
  BY <1>3 DEF ReturnToScheduler, pcb
<1>7. Where' /\ Holding' \subseteq Holding
  <2>1. place \in Place \ {"other"} /\ place \notin {"nap", "post"}
    BY DEF Place
  <2> HIDE DEF place
  <2> QED BY <1>1, <1>2, <1>3, <1>6, <2>1, GotoPlay
<1>8. Lost'
  BY <1>3, <1>6, LostKept
<1>9. Ids'
  <2>1. ASSUME NEW x \in Side, pingpong_semaphores'[x] # -1 PROVE allocated'[pingpong_semaphores'[x]] = 1
    <3>1. pingpong_semaphores[x] \in Sem /\ allocated[pingpong_semaphores[x]] = 1
      BY <1>2, <2>1 DEF InPlay, PlayInv, Ids, TypeInv, ProgramsOK
    <3> QED BY <1>2, <1>5, <3>1
  <2> QED BY <2>1 DEF Ids
<1>10. Through'
  <2>1. \A x \in Sem : allocated[x] = 1 => allocated'[x] = 1
    BY <1>5
  <2>2. at[a] = "init1" => pingpong_semaphores[0] # -1
    BY DEF InPlay, PlayInv, Through
  <2>3. k \in {0, 1} /\ s # -1 /\ allocated'[s] = 1
    BY <1>4, <1>5 DEF Side, Sem
  <2>4. Ready(place, rc[a])'
    BY <1>1, <1>2, <1>5, <2>2, <2>3 DEF Ready
  <2> HIDE DEF place
  <2> QED BY <1>1, <1>2, <1>5, <2>1, <2>4, ThroughKept
<1>11. Banked' = IF v = 0 THEN Banked ELSE Banked \cup {<<s, 1>>}
  <2>1. allocated'[s] = 1 /\ count'[s] = v
    BY <1>4, <1>5
  <2>2. /\ count'[s] = 0 => Bank(allocated', count') = Bank(allocated, count)
        /\ allocated'[s] = 1 /\ count'[s] = 1 =>
              Bank(allocated', count') = Bank(allocated, count) \cup {<<s, 1>>}
    BY <1>4, <1>5, BankInit
  <2>3. Banked = Bank(allocated, count) /\ Banked' = Bank(allocated', count')
    BY DEF Banked, Bank
  <2> QED BY <1>4, <2>1, <2>2, <2>3
<1>12. Budget'
  <2>1. Budget /\ minted \in Nat
    BY DEF InPlay, PlayInv, TypeInv, ProgramsOK
  <2>2. CASE v = 0
    <3>1. Banked' = Banked /\ minted' = minted
      BY <1>2, <1>11, <2>1, <2>2
    <3> QED BY <1>7, <2>1, <3>1, BudgetKept
  <2>3. CASE v = 1
    <3>1. Banked' = Banked \cup {<<s, 1>>} /\ minted' = minted + 1
      BY <1>2, <1>11, <2>3
    <3> QED BY <1>7, <2>1, <3>1, BudgetMinted
  <2> QED BY <1>4, <2>2, <2>3
<1> QED BY <1>7, <1>8, <1>9, <1>10, <1>12 DEF PlayInv

\* sem_wait: the program takes a turn, or is lost.
LEMMA PlayWait ==
    ASSUME InPlay, SemWait PROVE PlayInv'
<1>1. PICK a \in Entry : a = active_proc /\ pid[a] \in Program /\ at[a] = "wait" /\ blocked[a] = None
  BY Caller DEF SemWait
<1>2. PICK k \in Side : k = Mine
  BY DEF Mine, Side
<1>3. PICK s \in Sem : s = pingpong_semaphores[k] /\ allocated[s] = 1
  <2>1. pingpong_semaphores[k] # -1
    BY <1>1 DEF InPlay, PlayInv, Through
  <2>2. pingpong_semaphores[k] \in Sem
    BY <2>1 DEF InPlay, TypeInv, ProgramsOK
  <2> QED BY <2>1, <2>2 DEF InPlay, PlayInv, Ids
<1>4. /\ ksem_wait(s) /\ Goto("nap") /\ pingpong_semaphores' = pingpong_semaphores
      /\ rc' = rc /\ minted' = minted
  <2>1. s # -1
    BY DEF Sem
  <2> QED BY <1>2, <1>3, <2>1 DEF SemWait
<1>5. /\ Kept
      /\ count[s] = 0 => Stuck(a)'
  BY <1>1, <1>3, <1>4, PlacedWait DEF InPlay, TypeInv, TableOK
<1>6. /\ allocated' = allocated /\ pid' = pid
      /\ blocked' = IF count[s] = 0 THEN [blocked EXCEPT ![a] = s] ELSE blocked
      /\ count' = IF count[s] = 0 THEN count ELSE [count EXCEPT ![s] = @ - 1]
      /\ count \in [Sem -> Nat] /\ blocked \in [Entry -> Sem \cup {None}]
  <2>1. count \in [Sem -> Nat] /\ blocked \in [Entry -> Sem \cup {None}]
    BY DEF InPlay, TypeInv, KInv, SemVarsOK, BlockedOK
  <2>2. pid' = pid
    BY <1>4 DEF ksem_wait, ReturnToScheduler, pcb
  <2>3. count[s] = 0 \/ count[s] > 0
    BY <2>1
  <2> QED BY <1>1, <1>3, <1>4, <2>1, <2>2, <2>3 DEF ksem_wait
<1>7. /\ \A e \in Entry : e # a => blocked'[e] = blocked[e]
      /\ blocked'[a] = IF count[s] = 0 THEN s ELSE None
  BY <1>1, <1>6
<1>8. /\ Where' /\ Holding' \subseteq Holding \cup {a}
      /\ count[s] = 0 => Holding' \subseteq Holding
  <2>1. "nap" \in Place \ {"other"} /\ s # None
    BY DEF Place, Sem, None
  <2> QED BY <1>1, <1>4, <1>6, <1>7, <2>1, GotoPlay
<1>9. Lost'
  BY <1>1, <1>5, <1>7, LostKept
<1>10. Ids'
  BY <1>4, <1>6 DEF Ids, InPlay, PlayInv
<1>11. Through'
  <2>1. Ready("wait", rc[a])
    BY <1>1 DEF Ready, InPlay, PlayInv, Through
  <2>2. Ready("nap", rc[a])'
    BY <1>4, <2>1 DEF Ready
  <2> QED BY <1>1, <1>4, <1>6, <2>2, ThroughKept
<1>12. Budget'
  <2>1. Budget /\ minted \in Nat
    BY DEF InPlay, PlayInv, TypeInv, ProgramsOK
  <2>2. CASE count[s] = 0
    <3>1. Banked' = Banked
      BY <1>6, <2>2 DEF Banked
    <3> QED BY <1>4, <1>8, <2>1, <2>2, <3>1, BudgetKept
  <2>3. CASE count[s] # 0
    <3>1. /\ count' \in [Sem -> Nat] /\ count[s] = count'[s] + 1
          /\ \A x \in Sem : x # s => count[x] = count'[x]
      BY <1>6, <2>3
    <3>2. Bank(allocated, count) = Bank(allocated, count') \cup {<<s, count[s]>>}
      <4>1. count \in [Sem -> Nat] /\ allocated[s] = 1
        BY <1>3, <1>6
      <4> QED BY <3>1, <4>1, BankPost
    <3>3. Banked = Banked' \cup {<<s, count[s]>>}
      BY <1>6, <3>2 DEF Banked, Bank
    <3>4. <<s, count[s]>> \notin Banked'
      <4>1. count[s] \notin 1 .. count'[s]
        BY <3>1
      <4>2. <<s, count[s]>> \notin Bank(allocated, count')
        BY <4>1, InBank
      <4> QED BY <1>6, <4>2 DEF Banked, Bank
    <3> QED BY <1>4, <1>8, <2>1, <3>3, <3>4, BudgetWait
  <2> QED BY <2>2, <2>3
<1> QED BY <1>8, <1>9, <1>10, <1>11, <1>12 DEF PlayInv

\* proc_sleep in the middle of a turn.
LEMMA PlayNap ==
    ASSUME InPlay, Nap, Kept PROVE PlayInv'
<1>1. PICK a \in Entry : a = active_proc /\ pid[a] \in Program /\ at[a] = "nap" /\ blocked[a] = None
  BY Caller DEF Nap
<1>2. /\ Goto("post") /\ pid' = pid /\ blocked' = blocked /\ allocated' = allocated
      /\ count' = count /\ pingpong_semaphores' = pingpong_semaphores /\ rc' = rc
      /\ minted' = minted
  BY DEF Nap, SysSleep, semVars, sems
<1>3. Where' /\ Holding' \subseteq Holding \cup {a}
  <2>1. "post" \in Place \ {"other"}
    BY DEF Place
  <2> QED BY <1>1, <1>2, <2>1, GotoPlay
<1>4. a \in Holding
  BY <1>1 DEF Holding, HasTurn
<1>5. Lost'
  BY <1>2, LostKept
<1>6. Ids'
  BY <1>2 DEF Ids, InPlay, PlayInv
<1>7. Through'
  <2>1. Ready("nap", rc[a])
    BY <1>1 DEF Ready, InPlay, PlayInv, Through
  <2>2. Ready("post", rc[a])'
    BY <1>2, <2>1 DEF Ready
  <2> QED BY <1>1, <1>2, <2>2, ThroughKept
<1>8. Budget'
  <2>1. Banked' = Banked /\ Holding' \subseteq Holding
    BY <1>2, <1>3, <1>4 DEF Banked
  <2> QED BY <1>2, <2>1, BudgetKept DEF InPlay, PlayInv, TypeInv, ProgramsOK
<1> QED BY <1>3, <1>5, <1>6, <1>7, <1>8 DEF PlayInv

\* sem_post: the turn is passed on, or lost with a wake-up of nobody.
LEMMA PlayPost ==
    ASSUME InPlay, SemPost, Kept PROVE PlayInv'
<1>1. PICK a \in Entry : a = active_proc /\ pid[a] \in Program /\ blocked[a] = None
                          /\ at[a] \in {"post", "first_post"}
  BY Caller DEF SemPost
<1>2. PICK k \in Side : k = Theirs
  BY DEF Mine, Theirs, Side
<1>3. PICK s \in Sem : s = pingpong_semaphores[k] /\ allocated[s] = 1
  <2>1. pingpong_semaphores[k] # -1
    BY <1>1 DEF InPlay, PlayInv, Through
  <2>2. pingpong_semaphores[k] \in Sem
    BY <2>1 DEF InPlay, TypeInv, ProgramsOK
  <2> QED BY <2>1, <2>2 DEF InPlay, PlayInv, Ids
<1>4. /\ ksem_post(s) /\ Goto("wait") /\ pingpong_semaphores' = pingpong_semaphores
      /\ rc' = rc /\ minted' = IF at[a] = "first_post" THEN minted + 1 ELSE minted
  <2>1. s # -1
    BY DEF Sem
  <2> QED BY <1>1, <1>2, <1>3, <2>1 DEF SemPost
<1>5. /\ allocated' = allocated /\ pid' = pid
  BY <1>4 DEF ksem_post, Wake, ReturnToScheduler, pcb
<1>6. count \in [Sem -> Nat] /\ blocked \in [Entry -> Sem \cup {None}]
  BY DEF InPlay, TypeInv, KInv, SemVarsOK, BlockedOK
<1>7. count' \in {count, [count EXCEPT ![s] = @ + 1]}
  BY <1>3, <1>4 DEF ksem_post, Wake
<1>8. \A e \in Entry : \/ blocked'[e] = blocked[e]
                       \/ at[e] = "other" /\ blocked'[e] = None
  <2> DEFINE p == Head(wait_queue[s])
  <2>1. CASE blocked' = blocked
    BY <2>1
  <2>2. CASE wait_queue[s] # <<>> /\ p \in Entry /\ blocked' = [blocked EXCEPT ![p] = None]
    <3>1. wait_queue[s] \in Seq({null_pid})
      BY DEF InPlay, Waiters
    <3>2. p \in {null_pid}
      BY <2>2, <3>1, TailType
    <3> HIDE DEF p
    <3>3. p \notin Program /\ pid[p] \notin Program
      BY <2>2, <3>2 DEF InPlay, Playing, Placed, Home
    <3>4. at[p] = "other"
      BY <2>2, <3>3 DEF InPlay, PlayInv, Where
    <3> QED BY <1>6, <2>2, <3>4
  <2> QED BY <1>3, <1>4, <2>1, <2>2 DEF ksem_post, Wake
<1>9. Where' /\ Holding' \subseteq Holding /\ a \notin Holding'
  <2>1. "wait" \in Place \ {"other"} /\ "wait" \notin {"nap", "post"}
    BY DEF Place
  <2> QED BY <1>1, <1>4, <1>5, <1>8, <2>1, GotoPlay
<1>10. Lost'
  BY <1>8, LostKept
<1>11. Ids'
  BY <1>4, <1>5 DEF Ids, InPlay, PlayInv
<1>12. Through'
  <2>1. Ready(at[a], rc[a])
    BY <1>1 DEF Ready, InPlay, PlayInv, Through
  <2>2. Ready("wait", rc[a])'
    BY <1>1, <1>4, <2>1 DEF Ready
  <2> QED BY <1>1, <1>4, <1>5, <2>2, ThroughKept
<1>13. \E x : Banked' \in {Banked, Banked \cup {x}}
  <2>1. CASE count' = count
    BY <1>5, <2>1 DEF Banked
  <2>2. CASE count' = [count EXCEPT ![s] = @ + 1]
    <3>1. /\ count' \in [Sem -> Nat] /\ count'[s] = count[s] + 1
          /\ \A x \in Sem : x # s => count'[x] = count[x]
      BY <1>6, <2>2
    <3>2. Bank(allocated, count') = Bank(allocated, count) \cup {<<s, count'[s]>>}
      BY <1>3, <1>6, <3>1, BankPost
    <3>3. Banked' = Banked \cup {<<s, count'[s]>>}
      BY <1>5, <3>2 DEF Banked, Bank
    <3> QED BY <3>3
  <2> QED BY <1>7, <2>1, <2>2
<1>14. Budget'
  <2>1. Budget /\ minted \in Nat
    BY DEF InPlay, PlayInv, TypeInv, ProgramsOK
  <2>2. PICK x : Banked' \in {Banked, Banked \cup {x}}
    BY <1>13
  <2>3. CASE at[a] = "post"
    <3>1. a \in Holding
      BY <1>1, <2>3 DEF Holding, HasTurn
    <3>2. minted' = minted
      BY <1>4, <2>3
    <3> QED BY <1>9, <2>1, <2>2, <3>1, <3>2, BudgetPost
  <2>4. CASE at[a] = "first_post"
    <3>1. minted' = minted + 1 /\ minted <= minted'
      BY <1>4, <2>1, <2>4
    <3>2. minted' \in Nat
      BY <2>1, <3>1
    <3> QED BY <1>9, <2>1, <2>2, <3>1, <3>2, BudgetKept, BudgetMinted
  <2> QED BY <1>1, <2>3, <2>4
<1> QED BY <1>9, <1>10, <1>11, <1>12, <1>14 DEF PlayInv
-----------------------------------------------------------------------------
\* The scheduler and the keys: a turn may be lost with a program that Ctrl-Q
\* destroys, and no other changes hands.
LEMMA PlayElsewhere ==
    ASSUME InPlay, Elsewhere, Kept PROVE PlayInv'
<1>1. /\ blocked' = [e \in Entry |-> IF state'[e] = "NONE" THEN None ELSE blocked[e]]
      /\ at' = [e \in Entry |-> IF state'[e] = "NONE" THEN "other" ELSE at[e]]
      /\ rc' = [e \in Entry |-> IF state'[e] = "NONE" THEN -1 ELSE rc[e]]
      /\ allocated' = allocated /\ count' = count /\ minted' = minted
      /\ pingpong_semaphores' = pingpong_semaphores
  BY DEF Elsewhere, sems
<1>2. Where'
  BY <1>1 DEF Where, Kept, InPlay, PlayInv
<1>3. Lost'
  BY <1>1, LostKept
<1>4. Ids'
  BY <1>1 DEF Ids, InPlay, PlayInv
<1>5. Through'
  BY <1>1 DEF Through, InPlay, PlayInv
<1>6. Holding' \subseteq Holding
  BY <1>1 DEF Holding, HasTurn
<1>7. Banked' = Banked
  BY <1>1 DEF Banked
<1>8. Budget'
  BY <1>1, <1>6, <1>7, BudgetKept DEF InPlay, PlayInv, TypeInv, ProgramsOK
<1> QED BY <1>2, <1>3, <1>4, <1>5, <1>8 DEF PlayInv

\* Every step of a program.
LEMMA PlaySteps == ASSUME InPlay, ProgramStep, ~failed', Kept PROVE PlayInv'
<1>1. {"init0", "init1", "test1", "first_post", "wait"} \subseteq Between
      /\ Begin \in {"first_post", "wait"} /\ 0 \in Side /\ 1 \in Side
      /\ \A k \in Side : k = 0 \/ k = 1
  BY DEF Between, Place, Begin, Side
<1>2. CASE Test(0, "init0", "test1")
  <2>1. /\ Ready("init0", rc[active_proc])
        /\ pingpong_semaphores[0] # -1 => Ready("test1", rc[active_proc])
    BY DEF Ready
  <2> QED BY <1>1, <1>2, <2>1, PlayTest
<1>3. CASE Test(1, "init1", Begin)
  <2>1. active_proc \in Entry /\ at[active_proc] = "test1"
    BY <1>3, Caller DEF Test
  <2>2. pingpong_semaphores[0] # -1
    BY <2>1 DEF InPlay, PlayInv, Through
  <2>3. /\ Ready("init1", rc[active_proc])
        /\ pingpong_semaphores[1] # -1 => Ready(Begin, rc[active_proc])
    BY <1>1, <2>2 DEF Ready
  <2>4. PICK b \in Between : b = Begin
    BY <1>1
  <2>5. Test(1, "init1", b) /\ (pingpong_semaphores[1] # -1 => Ready(b, rc[active_proc]))
    BY <1>3, <2>3, <2>4
  <2>6. "init1" \in Between /\ 1 \in Side
    BY <1>1
  <2>7. Ready("init1", rc[active_proc])
    BY <2>3
  <2> QED BY <2>5, <2>6, <2>7, PlayTest
<1>4. ASSUME NEW k \in Side, SemaphoreInit(k) PROVE PlayInv'
  BY <1>4, PlayInit
<1>5. CASE Assign(0, "test1")
  <2>1. PICK t \in Between \ {"assign0", "assign1"} : t = "test1"
    BY <1>1
  <2>2. PICK k \in Side : k = 0
    BY <1>1
  <2>3. Assign(k, t)
    BY <1>5, <2>1, <2>2
  <2>4. t = "test1" /\ k = 0
    BY <2>1, <2>2
  <2> QED BY <2>3, <2>4, PlayAssign
<1>6. CASE Assign(1, Begin)
  <2>1. PICK b \in Between \ {"assign0", "assign1"} : b = Begin
    BY <1>1
  <2>2. PICK k \in Side : k = 1
    BY <1>1
  <2>3. Assign(k, b)
    BY <1>6, <2>1, <2>2
  <2>4. b \in {"first_post", "wait"} /\ k = 1
    BY <1>1, <2>1, <2>2
  <2> QED BY <2>3, <2>4, PlayAssign
<1> QED BY <1>2, <1>3, <1>4, <1>5, <1>6, PlayWait, PlayNap, PlayPost DEF ProgramStep
-----------------------------------------------------------------------------
\* The inductive invariant of the turns.
TurnInv == /\ TypeInv
           /\ Waiters
           /\ null_pid \notin Program => Placed
           /\ Playing => PlayInv

\* TurnInv holds after the boot: nobody has initialised a semaphore.
LEMMA TurnInit == PingPongInit => TurnInv
<1> SUFFICES ASSUME PingPongInit PROVE TurnInv
  OBVIOUS
<1>1. TypeInv
  BY TypeInit
<1>2. Waiters
  BY DEF PingPongInit, SemInit, Waiters
<1>3. /\ pid = [e \in Entry |-> IF e < NBoot THEN e ELSE 0]
      /\ state = [e \in Entry |-> IF e < NBoot THEN "IDLE" ELSE "NONE"]
      /\ active_proc = None /\ sleep_queue = <<>> /\ next_pid = NBoot
      /\ run_queue = [k \in 1 .. NBoot |-> k - 1]
      /\ proc_allocator = [k \in 1 .. PROC_MAX - NBoot |-> NBoot + k - 1]
  BY DEF PingPongInit, SemInit, Init
<1>4. Placed
  <2>1. Home
    BY <1>3, ProgramPids DEF Home, Program
  <2>2. FreeOnly
    <3>1. ASSUME NEW e \in Entry, Holds(proc_allocator, e) PROVE pid[e] \notin Program
      <4>1. PICK k \in 1 .. Len(proc_allocator) : proc_allocator[k] = e
        BY <3>1 DEF Holds
      <4>2. Len(proc_allocator) = PROC_MAX - NBoot
        BY <1>3, SchedulerAssumption
      <4>3. e >= NBoot
        BY <1>3, <4>1, <4>2, SchedulerAssumption
      <4> QED BY <1>3, <4>3, ProgramPids, SchedulerAssumption DEF Entry
    <3> QED BY <3>1 DEF FreeOnly
  <2>3. Queued
    <3>1. ASSUME NEW p \in Program
          PROVE  /\ Once(run_queue, p) /\ Once(sleep_queue, p)
                 /\ Holds(run_queue, p) => pid[p] = p /\ state[p] = "IDLE"
                 /\ Holds(sleep_queue, p) => pid[p] = p /\ state[p] = "SLEEPING"
      <4>1. Once(run_queue, p)
        <5>1. Len(run_queue) = NBoot
          BY <1>3, SchedulerAssumption
        <5> QED BY <1>3, <5>1, SchedulerAssumption DEF Once
      <4>2. Once(sleep_queue, p) /\ ~Holds(sleep_queue, p)
        BY <1>3 DEF Once, Holds
      <4>3. pid[p] = p /\ state[p] = "IDLE"
        BY <1>3, ProgramPids, SchedulerAssumption DEF Program
      <4> QED BY <4>1, <4>2, <4>3
    <3> QED BY <3>1 DEF Queued, QueuedIn
  <2>4. ProgramRuns /\ NBoot <= next_pid
    BY <1>3, SchedulerAssumption DEF ProgramRuns
  <2> QED BY <2>1, <2>2, <2>3, <2>4 DEF Placed
<1>5. ASSUME Playing PROVE PlayInv
  <2>1. /\ pings \cup pongs = Program
        /\ pingpong_semaphores = [k \in Side |-> -1]
        /\ at = [e \in Entry |-> IF e \in pings \cup pongs THEN "test0" ELSE "other"]
        /\ minted = 0 /\ allocated = [s \in Sem |-> 0] /\ blocked = [e \in Entry |-> None]
    BY <1>5 DEF PingPongInit, SemInit, Playing
  <2>2. Where
    <3>1. ASSUME NEW e \in Entry PROVE at[e] # "other" <=> pid[e] \in Program
      <4>1. at[e] # "other" <=> e \in Program
        BY <2>1
      <4>2. pid[e] \in Program <=> e \in Program
        BY <1>3, SchedulerAssumption DEF Program, Entry
      <4> QED BY <4>1, <4>2
    <3> QED BY <3>1 DEF Where
  <2>3. Lost /\ Ids /\ Through
    BY <2>1 DEF Lost, Ids, Through
  <2>4. Budget
    <3>1. Banked = {}
      BY <2>1 DEF Banked
    <3>2. Holding = {}
      BY <2>1 DEF Holding, HasTurn
    <3> QED BY <2>1, <3>1, <3>2, FS_EmptySet DEF Budget, Turns
  <2> QED BY <2>2, <2>3, <2>4 DEF PlayInv
<1> QED BY <1>1, <1>2, <1>4, <1>5 DEF TurnInv

\* No step queues another waiter than null_pid, and none changes who plays.
LEMMA WaitersNext ==
    ASSUME TypeInv, Waiters, [PingPongNext]_systemVars
    PROVE  /\ Waiters' /\ null_pid' = null_pid
           /\ pings' = pings /\ pongs' = pongs /\ (~failed' => ~failed)
<1> DEFINE Same == pings' = pings /\ pongs' = pongs /\ (~failed' => ~failed)
           Keep == Waiters' /\ null_pid' = null_pid
<1>1. UNCHANGED <<pings, pongs, failed>> => Same
  OBVIOUS
<1>2. UNCHANGED <<wait_queue, null_pid>> => Keep
  BY DEF Waiters
<1>3. ASSUME ProgramStep PROVE Same /\ Keep
  <2>1. ASSUME NEW k \in Side, SemaphoreInit(k) PROVE Same /\ Keep
    <3>1. Same
      BY <2>1 DEF SemaphoreInit
    <3> QED BY <2>1, <3>1, WaitersInit DEF SemaphoreInit
  <2>2. CASE SemWait \/ SemPost
    <3>1. Same
      BY <2>2 DEF SemWait, SemPost
    <3>2. ASSUME Refused PROVE Keep
      BY <1>2, <3>2 DEF Refused, semVars, sems
    <3>3. ASSUME NEW s \in Sem, ksem_wait(s) \/ ksem_post(s) PROVE Keep
      BY <3>3, WaitersCall
    <3> QED BY <2>2, <3>1, <3>2, <3>3 DEF SemWait, SemPost
  <2>3. ASSUME UNCHANGED semVars, UNCHANGED <<pings, pongs, failed>> PROVE Same /\ Keep
    BY <1>1, <1>2, <2>3 DEF semVars, sems
  <2>4. CASE Nap \/ Test(0, "init0", "test1") \/ Test(1, "init1", Begin)
             \/ Assign(0, "test1") \/ Assign(1, Begin)
    BY <2>3, <2>4 DEF Nap, Test, Assign, allVars
  <2> QED BY <1>3, <2>1, <2>2, <2>4 DEF ProgramStep
<1>4. ASSUME Elsewhere PROVE Same /\ Keep
  BY <1>1, <1>2, <1>4 DEF Elsewhere, sems
<1>5. ASSUME AnyCall PROVE Same /\ Keep
  <2>1. Same
    BY <1>1, <1>5 DEF AnyCall, programVars
  <2>2. Keep
    BY <1>5, WaitersInit, WaitersCall DEF AnyCall
  <2> QED BY <2>1, <2>2
<1>6. ASSUME UNCHANGED systemVars PROVE Same /\ Keep
  BY <1>1, <1>2, <1>6 DEF systemVars, programVars, allVars, semVars, sems
<1> QED BY <1>3, <1>4, <1>5, <1>6 DEF PingPongNext

\* Every step keeps it.
LEMMA TurnNext == TurnInv /\ [PingPongNext]_systemVars => TurnInv'
<1> SUFFICES ASSUME TurnInv, [PingPongNext]_systemVars PROVE TurnInv'
  OBVIOUS
<1>1. TypeInv'
  BY TypeNext DEF TurnInv
<1>2. /\ Waiters' /\ null_pid' = null_pid
      /\ pings' = pings /\ pongs' = pongs /\ (~failed' => ~failed)
  BY WaitersNext DEF TurnInv
<1>3. SchedTypeOK
  BY DEF TurnInv, TypeInv, TableOK
<1>4. ASSUME null_pid \notin Program PROVE Placed' /\ (PingPongNext => Kept)
  <2>1. Placed
    BY <1>4 DEF TurnInv
  <2>2. CASE ProgramStep \/ AnyCall
    BY <1>3, <1>4, <2>1, <2>2, PlacedCall DEF TurnInv
  <2>3. CASE Elsewhere
    BY <1>3, <2>1, <2>3, PlacedNext DEF Elsewhere
  <2>4. CASE UNCHANGED systemVars
    <3>1. Placed' /\ Kept
      BY <2>1, <2>4, PlacedSame DEF systemVars, allVars, vars, pcb, lists
    <3> QED BY <3>1
  <2> QED BY <2>2, <2>3, <2>4 DEF PingPongNext
<1>5. ASSUME Playing' PROVE PlayInv'
  <2>1. InPlay /\ ~failed'
    BY <1>2, <1>5 DEF Playing, TurnInv, InPlay
  <2>2. PingPongNext => Kept
    BY <1>4, <2>1 DEF InPlay, Playing
  <2>3. CASE ProgramStep
    BY <2>1, <2>2, <2>3, PlaySteps DEF PingPongNext
  <2>4. CASE Elsewhere
    BY <2>1, <2>2, <2>4, PlayElsewhere DEF PingPongNext
  <2>5. CASE AnyCall
    <3>1. active_proc \in Entry /\ pid[active_proc] \in Program /\ at[active_proc] = "other"
      BY <2>1, <2>5, Caller DEF AnyCall
    <3> QED BY <2>1, <3>1 DEF InPlay, PlayInv, Where
  <2>6. CASE UNCHANGED systemVars
    BY <2>1, <2>6 DEF InPlay, systemVars, programVars, allVars, vars, semVars, sems, pcb, lists, PlayInv,
        Where, Lost, Stuck, Ids, Through, Budget, Turns, Banked, Holding, HasTurn
  <2> QED BY <2>3, <2>4, <2>5, <2>6 DEF PingPongNext
<1> QED BY <1>1, <1>2, <1>4, <1>5 DEF TurnInv

\* TurnInv is an invariant of the pings and pongs.
LEMMA TurnInvariance == PingPongSpec => []TurnInv
<1>1. PingPongInit => TurnInv  BY TurnInit
<1>2. TurnInv /\ [PingPongNext]_systemVars => TurnInv'  BY TurnNext
<1> QED BY <1>1, <1>2, PTL DEF PingPongSpec

\* However many pings and pongs run, however often each initialises which of the
\* two semaphores, and though every process that sem_wait blocks is lost, the
\* programs between sem_wait and sem_post and the tokens left in the counts are
\* no more than were put in at the start: a turn is passed on or lost, never
\* doubled.
THEOREM TurnsBoundedCorrect == PingPongSpec => []TurnsBounded
<1>1. TurnInv => TurnsBounded
  BY DEF TurnInv, Playing, PlayInv, Budget, TurnsBounded
<1> QED BY <1>1, TurnInvariance, PTL
=============================================================================
