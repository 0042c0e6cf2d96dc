------------------------------ MODULE PingPong ------------------------------
(***************************************************************************)
(* prog_ping and prog_pong of src/prog_user.c over the semaphores and the  *)
(* scheduler.  All of them share two semaphores, which whoever comes first *)
(* allocates after a test that nothing protects; a ping and a pong ask for *)
(* opposite initial counts.  Where the programs play no role, they make    *)
(* any call of the scheduler and of the semaphores.                        *)
(***************************************************************************)
EXTENDS KSem

CONSTANTS PingChoices,   \* the sets of pids that may be pings
          PongChoices    \* the sets of pids that may be pongs

ASSUME RoleAssumption == PingChoices \cup PongChoices \subseteq SUBSET Program

VARIABLES
    pings, pongs,         \* the pids of the programs
    pingpong_semaphores,  \* the shared ids: 0 is for ping, 1 for pong
    at,                   \* per entry: where the program is, "other" for others
    rc,                   \* per entry: what sem_init returned
    minted,               \* history: the initial counts and the first posts
    failed                \* history: the pool of ids was empty for a sem_init

programVars == <<pings, pongs, pingpong_semaphores, at, rc, minted, failed>>
systemVars  == <<allVars, programVars>>

Side  == {0, 1}
Place == {"other", "test0", "init0", "assign0", "test1", "init1", "assign1",
          "first_post", "wait", "nap", "post"}

PingPongTypeOK ==
    /\ SemTypeOK
    /\ pings \in PingChoices /\ pongs \in PongChoices
    /\ pingpong_semaphores \in [Side -> Sem \cup {-1}]
    /\ at \in [Entry -> Place]
    /\ rc \in [Entry -> Sem \cup {-1}]
    /\ minted \in Nat
    /\ failed \in BOOLEAN
-----------------------------------------------------------------------------
PingPongInit ==
    /\ SemInit
    /\ pings \in PingChoices /\ pongs \in PongChoices
    /\ pings \cap pongs = {} /\ pings \cup pongs \in {{}, Program}
    /\ pingpong_semaphores = [k \in Side |-> -1]
    /\ at = [e \in Entry |-> IF e \in pings \cup pongs THEN "test0" ELSE "other"]
    /\ rc = [e \in Entry |-> -1]
    /\ minted = 0
    /\ failed = FALSE

ProgramAt(place) == SystemCall /\ at[active_proc] = place
Goto(place)      == at' = [at EXCEPT ![active_proc] = place]

IsPing == pid[active_proc] \in pings
\* The side whose semaphore the program waits on; it posts the other one.
Mine   == IF IsPing THEN 0 ELSE 1
Theirs == 1 - Mine

\* `if (*ping < 0)` and `if (*pong < 0)`
Test(k, initial, otherwise) ==
    /\ ProgramAt(IF k = 0 THEN "test0" ELSE "test1")
    /\ Goto(IF pingpong_semaphores[k] < 0 THEN initial ELSE otherwise)
    /\ UNCHANGED <<allVars, pings, pongs, pingpong_semaphores, rc, minted, failed>>

\* A ping starts with a post, a pong waits at once.
Begin == IF IsPing THEN "first_post" ELSE "wait"

\* A program asks for a count of 1 where it waits, and of 0 where it posts.
SemaphoreInit(k) ==
    /\ ProgramAt(IF k = 0 THEN "init0" ELSE "init1")
    /\ LET value == IF k = Mine THEN 1 ELSE 0
       IN  /\ ksem_init(value)
           /\ minted' = IF sem_queue = <<>> THEN minted ELSE minted + value
    /\ rc' = [rc EXCEPT ![active_proc] = IF sem_queue = <<>> THEN -1 ELSE Head(sem_queue)]
    /\ failed' = (failed \/ sem_queue = <<>>)
    /\ Goto(IF k = 0 THEN "assign0" ELSE "assign1")
    /\ UNCHANGED <<pings, pongs, pingpong_semaphores>>

Assign(k, next) ==
    /\ ProgramAt(IF k = 0 THEN "assign0" ELSE "assign1")
    /\ pingpong_semaphores' = [pingpong_semaphores EXCEPT ![k] = rc[active_proc]]
    /\ Goto(next)
    /\ UNCHANGED <<allVars, pings, pongs, rc, minted, failed>>

\* The kernel refuses the id -1.
Refused == ReturnToScheduler /\ UNCHANGED semVars

SemWait ==
    /\ ProgramAt("wait")
    /\ \/ /\ pingpong_semaphores[Mine] \in Sem
          /\ ksem_wait(pingpong_semaphores[Mine])
       \/ /\ pingpong_semaphores[Mine] = -1
          /\ Refused
    /\ Goto("nap")
    /\ UNCHANGED <<pings, pongs, pingpong_semaphores, rc, minted, failed>>

Nap ==
    /\ ProgramAt("nap")
    /\ \E t \in SleepTicks : SysSleep(t)
    /\ Goto("post")
    /\ UNCHANGED <<semVars, pings, pongs, pingpong_semaphores, rc, minted, failed>>

\* The post that ends a turn, and the one a ping starts with.
SemPost ==
    /\ ProgramAt("post") \/ ProgramAt("first_post")
    /\ \/ /\ pingpong_semaphores[Theirs] \in Sem
          /\ ksem_post(pingpong_semaphores[Theirs])
       \/ /\ pingpong_semaphores[Theirs] = -1
          /\ Refused
    /\ minted' = IF at[active_proc] = "first_post" THEN minted + 1 ELSE minted
    /\ Goto("wait")
    /\ UNCHANGED <<pings, pongs, pingpong_semaphores, rc, failed>>

ProgramStep ==
    \/ Test(0, "init0", "test1") \/ Test(1, "init1", Begin)
    \/ \E k \in Side : SemaphoreInit(k)
    \/ Assign(0, "test1") \/ Assign(1, Begin)
    \/ SemWait \/ Nap \/ SemPost
-----------------------------------------------------------------------------
\* What a destroyed process was doing is forgotten.
Elsewhere ==
    /\ \/ TimerIrq \/ Kernel \/ KeyDestroy \/ KeyCreate \/ OtherEntry
       \/ ProgramAt("other") /\ (SysExit \/ \E t \in SleepTicks : SysSleep(t))
    /\ blocked' = [e \in Entry |-> IF state'[e] = "NONE" THEN None ELSE blocked[e]]
    /\ at' = [e \in Entry |-> IF state'[e] = "NONE" THEN "other" ELSE at[e]]
    /\ rc' = [e \in Entry |-> IF state'[e] = "NONE" THEN -1 ELSE rc[e]]
    /\ UNCHANGED <<sems, null_pid, tokens, pings, pongs, pingpong_semaphores, minted, failed>>

AnyCall ==
    /\ ProgramAt("other")
    /\ \/ \E v \in Values : ksem_init(v)
       \/ \E s \in Sem : ksem_destroy(s) \/ ksem_wait(s) \/ ksem_post(s)
    /\ UNCHANGED programVars

PingPongNext == ProgramStep \/ Elsewhere \/ AnyCall

PingPongSpec == PingPongInit /\ [][PingPongNext]_systemVars
-----------------------------------------------------------------------------
\* A turn is a token: in a count, or with a program that was granted a wait
\* and has not posted yet.
HasTurn(e) == at[e] \in {"nap", "post"} /\ blocked[e] = None
Holding    == {e \in Entry : HasTurn(e)}
Banked     == UNION {{s} \X (1 .. count[s]) : s \in {x \in Sem : allocated[x] = 1}}
Turns      == Cardinality(Banked) + Cardinality(Holding)

(* Pings and pongs never take more turns at once than the initial counts    *)
(* they asked for and the first posts of the pings provide, whoever         *)
(* initialised which semaphore, however often, and though a process blocked *)
(* by sem_wait is lost: a turn is passed on or lost, never doubled.  A      *)
(* wake-up of the wrong program (null_pid names one) is not covered.        *)
TurnsBounded ==
    pings \cup pongs # {} /\ null_pid \notin Program /\ ~failed => Turns <= minted
=============================================================================
