-------------------------------- MODULE Shell --------------------------------
(***************************************************************************)
(* The shells of src/prog_user.c over the mutexes and the scheduler, with  *)
(* what a system call leaves in EAX (src/ksyscall.c, src/syscall.c).       *)
(*                                                                         *)
(* Shells whose pids agree modulo SHELL_MUTEXES share a mutex id that the  *)
(* first of them allocates, after a test that nothing protects.  The calls *)
(* that change no process (printing, flushing, names, time, pid) are the   *)
(* OtherEntry steps of Scheduler.  Where there are no shells, all programs *)
(* make any call of the scheduler and, with ids they were given, any call  *)
(* of the mutexes.                                                         *)
(***************************************************************************)
EXTENDS KMutex

CONSTANTS SHELL_MUTEXES,   \* size of shell_mutex, 2 in the program
          ShellChoices     \* the sets of pids that may be shells

ASSUME ShellAssumption ==
    /\ SHELL_MUTEXES \in Nat \ {0}
    /\ ShellChoices \subseteq SUBSET Program

VARIABLES
    shells,        \* the pids of the shells
    shell_mutex,   \* the shared ids, -1 before they are allocated
    at,            \* per entry: where prog_shell is, "other" for other processes
    eax,           \* per entry: the register EAX
    lost           \* history: the indices whose id was overwritten by another,
                   \* or that were given none because the pool was empty

shellVars == <<shells, shell_mutex, at, eax, lost>>
systemVars == <<allVars, shellVars>>

SYSCALL_PROC_SLEEP   == 6
SYSCALL_MUTEX_INIT   == 10
SYSCALL_MUTEX_LOCK   == 12
SYSCALL_MUTEX_UNLOCK == 13

Index    == 0 .. SHELL_MUTEXES - 1
IndexOf(p) == p % SHELL_MUTEXES

\* Where a shell that is not waiting uses the terminal alone: the line is read
\* and echoed, or the `lock` command sleeps.
Critical == {"read", "unlock", "unlock_line", "lock_nap", "lock_unlock"}
Place    == {"other", "test", "init", "assign", "nap", "lock", "command", "lock_lock",
             "command_nap"} \cup Critical

ShellTypeOK ==
    /\ MutexTypeOK
    /\ shells \in ShellChoices
    /\ shell_mutex \in [Index -> Mutex \cup {-1}]
    /\ at \in [Entry -> Place]
    /\ eax \in [Entry -> Int]
    /\ lost \subseteq Index
-----------------------------------------------------------------------------
ShellInit ==
    /\ MutexInit
    /\ shells \in ShellChoices
    /\ shell_mutex = [k \in Index |-> -1]
    /\ at = [e \in Entry |-> IF e < NBoot /\ e \in shells THEN "test" ELSE "other"]
    /\ eax = [e \in Entry |-> 0]
    /\ lost = {}

Goto(place) == at' = [at EXCEPT ![active_proc] = place]

\* The shell that runs is at one of the places, and the id it shares.
ShellAt(places) == SystemCall /\ at[active_proc] \in places
SharedIndex     == IndexOf(pid[active_proc])
SharedId        == shell_mutex[SharedIndex]

\* The program loads the number of the call; arguments are not modelled.
Loaded(call) == [eax EXCEPT ![active_proc] = call]

\* The system call handler stores the return code for the process that is
\* active after the call, if there is one.
Return(call, rc) ==
    eax' = IF active_proc' = None THEN Loaded(call)
           ELSE [Loaded(call) EXCEPT ![active_proc'] = rc]

mutex_init ==
    /\ kmutex_init
    /\ Return(SYSCALL_MUTEX_INIT, IF Len(mutex_queue) > 1 THEN Head(mutex_queue) ELSE -1)

\* An id out of range is refused.
Refused == ReturnToScheduler /\ UNCHANGED mutexVars

mutex_lock(id) ==
    \/ /\ id \in Mutex
       /\ kmutex_lock(id)
       /\ Return(SYSCALL_MUTEX_LOCK, locks[id] + 1)
    \/ /\ id \notin Mutex
       /\ Refused
       /\ Return(SYSCALL_MUTEX_LOCK, -1)

mutex_unlock(id) ==
    \/ /\ id \in Mutex
       /\ kmutex_unlock(id)
       /\ Return(SYSCALL_MUTEX_UNLOCK,
                 IF locks[id] > 0 /\ owner[id] # active_proc THEN -1 ELSE locks'[id])
    \/ /\ id \notin Mutex
       /\ Refused
       /\ Return(SYSCALL_MUTEX_UNLOCK, -1)

\* For t ticks, see SysSleep.
proc_sleep(t) == SysSleep(t) /\ UNCHANGED mutexVars /\ Return(SYSCALL_PROC_SLEEP, 0)
-----------------------------------------------------------------------------
\* `if (shell_mutex[pid % 2] < 0)`
ShellTest ==
    /\ ShellAt({"test"})
    /\ Goto(IF SharedId < 0 THEN "init" ELSE "nap")
    /\ UNCHANGED <<allVars, shells, shell_mutex, eax, lost>>

ShellMutexInit ==
    /\ ShellAt({"init"})
    /\ mutex_init
    /\ Goto("assign")
    /\ UNCHANGED <<shells, shell_mutex, lost>>

ShellAssign ==
    /\ ShellAt({"assign"})
    /\ shell_mutex' = [shell_mutex EXCEPT ![SharedIndex] = eax[active_proc]]
    /\ lost' = IF SharedId = -1 /\ eax[active_proc] # -1 THEN lost
               ELSE lost \cup {SharedIndex}
    /\ Goto("nap")
    /\ UNCHANGED <<allVars, shells, eax>>

\* proc_sleep: at the start, and for the commands `sleep` and `lock`.
ShellSleep ==
    /\ ShellAt({"nap", "command_nap", "lock_nap"})
    /\ \E t \in SleepTicks : proc_sleep(t)
    /\ Goto(IF at[active_proc] = "lock_nap" THEN "lock_unlock" ELSE "lock")
    /\ UNCHANGED <<shells, shell_mutex, lost>>

\* mutex_lock, to read a line or for the command `lock`; a shell that has to
\* wait goes on from there when it is woken.
ShellLock ==
    /\ ShellAt({"lock", "lock_lock"})
    /\ mutex_lock(SharedId)
    /\ Goto(IF at[active_proc] = "lock" THEN "read" ELSE "lock_nap")
    /\ UNCHANGED <<shells, shell_mutex, lost>>

\* io_read of whatever was typed, and the echo: the line is complete or not.
ShellRead ==
    /\ ShellAt({"read"})
    /\ \E place \in {"unlock", "unlock_line"} : Goto(place)
    /\ UNCHANGED <<allVars, shells, shell_mutex, eax, lost>>
-----------------------------------------------------------------------------
\* mutex_unlock: reading goes on, the line is a command, or `lock` has ended.
ShellUnlock ==
    /\ ShellAt({"unlock", "unlock_line", "lock_unlock"})
    /\ mutex_unlock(SharedId)
    /\ Goto(IF at[active_proc] = "unlock_line" THEN "command" ELSE "lock")
    /\ UNCHANGED <<shells, shell_mutex, lost>>

\* The command is `sleep`, `lock`, or one that only prints.
ShellCommand ==
    /\ ShellAt({"command"})
    /\ \E place \in {"command_nap", "lock_lock", "lock"} : Goto(place)
    /\ UNCHANGED <<allVars, shells, shell_mutex, eax, lost>>

\* What a destroyed process was doing is forgotten, except its mutexes.
Forget ==
    /\ locked' = [e \in Entry |-> IF state'[e] = "NONE" THEN {} ELSE locked[e]]
    /\ at' = [e \in Entry |-> IF state'[e] = "NONE" THEN "other" ELSE at[e]]
    /\ eax' = [e \in Entry |-> IF state'[e] = "NONE" THEN 0 ELSE eax[e]]
    /\ UNCHANGED <<mutexes, shells, shell_mutex, lost>>

ShellExit == ShellAt({"command"}) /\ SysExit /\ Forget

ShellStep ==
    \/ ShellTest \/ ShellMutexInit \/ ShellAssign \/ ShellSleep
    \/ ShellLock \/ ShellRead \/ ShellUnlock \/ ShellCommand \/ ShellExit

\* The calls of the programs that are no shells.
OtherCall == ShellAt({"other"}) /\ (SysExit \/ \E t \in SleepTicks : SysSleep(t))

Elsewhere ==
    /\ TimerIrq \/ Kernel \/ KeyDestroy \/ KeyCreate \/ OtherEntry \/ OtherCall
    /\ Forget

\* Without shells the mutexes are called in any order.
MutexCall ==
    /\ shells = {}
    /\ \/ kmutex_init
       \/ \E m \in Mutex : /\ allocated[m] = 1
                           /\ kmutex_destroy(m) \/ kmutex_lock(m) \/ kmutex_unlock(m)
    /\ UNCHANGED shellVars

ShellNext == ShellStep \/ Elsewhere \/ MutexCall

\* A process that is dispatched again and again executes its instructions: a
\* slice is many of them, and no interrupt keeps cutting it short before any.
ShellFairness ==
    /\ WF_systemVars(Kernel /\ Forget)
    /\ SF_systemVars(TimerIrq /\ Forget)
    /\ \A p \in Program : SF_systemVars(ShellStep /\ pid[active_proc] = p)

ShellSpec     == ShellInit /\ [][ShellNext]_systemVars
ShellFairSpec == ShellSpec /\ ShellFairness
-----------------------------------------------------------------------------
\* The shell of entry e has come through mutex_lock and not yet called
\* mutex_unlock.
UsesTerminal(e) == at[e] \in Critical /\ state[e] # "WAITING"

(* Two shells that share a mutex never use the terminal at the same time,   *)
(* through hand-offs, naps inside, Ctrl-Q and exits, unless both passed the *)
(* unprotected test and one id was overwritten.                             *)
ReadersExclusive ==
    \A e, f \in Entry :
        /\ e # f /\ UsesTerminal(e) /\ UsesTerminal(f)
        /\ IndexOf(pid[e]) = IndexOf(pid[f])
        => IndexOf(pid[e]) \in lost

(* Each group of shells that has an id shares an allocated mutex, and no    *)
(* two groups the same one: though the id is stored several steps after the *)
(* call that allocated it, with calls of other processes and the end of the *)
(* caller between them.                                                     *)
SharedIdsValid ==
    \A k \in Index : shell_mutex[k] # -1 =>
        /\ shell_mutex[k] \in Mutex
        /\ allocated[shell_mutex[k]] = 1
        /\ \A j \in Index \ {k} : shell_mutex[j] # shell_mutex[k]

\* The holder of m was destroyed inside.
Orphaned(m) == owner[m] # None /\ m \notin locked[owner[m]]

(* A shell that waits for its mutex gets it, though the holder naps inside  *)
(* and comes back for it at once, as long as no holder was destroyed inside *)
(* and no id was lost.                                                      *)
LockGranted ==
    \A e \in Entry, m \in Mutex :
        state[e] = "WAITING" /\ m \in locked[e] /\ pid[e] \in shells
            ~> state[e] # "WAITING" \/ Orphaned(m) \/ lost # {}
=============================================================================
