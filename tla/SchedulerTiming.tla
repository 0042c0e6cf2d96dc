-------------------------- MODULE SchedulerTiming --------------------------
(***************************************************************************)
(* How long processes wait and sleep, counted in timer ticks: Scheduler    *)
(* with two histories, the ticks since a process became ready and the      *)
(* ticks since it went to sleep.  The histories constrain nothing.         *)
(***************************************************************************)
EXTENDS Scheduler

VARIABLES waited,   \* per entry but the idle task's: ticks in the run queue
          slept,    \* per entry: ticks in the sleep queue
          asked     \* per entry: the ticks it asked to sleep for

history == <<waited, slept, asked>>

Process == Entry \ {0}

TimingInit == /\ Init
              /\ waited = [e \in Process |-> 0]
              /\ slept  = [e \in Process |-> 0]
              /\ asked  = [e \in Process |-> 0]

\* The ticks a step adds: one when the timer interrupt is taken.
Tick == IF pc = "user" /\ pc' = "timer" THEN 1 ELSE 0

TimingNext ==
    /\ Next
    /\ waited' = [e \in Process |-> IF state'[e] = "IDLE" THEN waited[e] + Tick ELSE 0]
    /\ slept'  = [e \in Process |-> IF state'[e] = "SLEEPING" THEN slept[e] + Tick ELSE 0]
    /\ asked'  = [e \in Process |->
                    IF state'[e] # "SLEEPING" THEN 0
                    ELSE IF state[e] = "SLEEPING" THEN asked[e] ELSE sleep_time'[e]]

TimingSpec == TimingInit /\ [][TimingNext]_<<vars, history>>
-----------------------------------------------------------------------------
(* A ready process runs within one time slice of every other entry of the  *)
(* table, the idle task included: scheduler_run unschedules whoever used   *)
(* its slice up, scheduler_add queues it behind all who wait.  The tick on *)
(* top is one taken before the first process runs, while main spins.       *)
WaitBound == \A e \in Process :
                waited[e] <= (PROC_MAX - 1) * SCHEDULER_TIMESLICE + 1

(* proc_sleep(t) lasts at least t whole ticks: one more than t ticks pass, *)
(* for the first may come right after the call.                            *)
NoEarlyWake == [][\A e \in Process :
                    state[e] = "SLEEPING" /\ state'[e] = "IDLE"
                      => slept[e] > asked[e]]_<<vars, history>>

(* proc_sleep(t) ends after t + 2 passes of the loop of scheduler_timer over *)
(* the sleeper.  The loop shrinks its own bound when it wakes somebody and  *)
(* leaves the end of the sleep queue out, again and again when programs keep *)
(* sleeping and waking: the longer the sleep, the later it may end.  But    *)
(* every tick that leaves a sleeper out brings it nearer to the head, so at *)
(* least one tick in NBoot - 1 counts.                                      *)
WakeBound == \A e \in Process : slept[e] <= (asked[e] + 2) * (NBoot - 1)
=============================================================================
