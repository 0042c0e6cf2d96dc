----------------------------- MODULE RoundRobin -----------------------------
(***************************************************************************)
(* What the scheduler promises to processes, with no table, no entries and *)
(* no interrupts: at most one process runs; ready processes run in the     *)
(* order in which they became ready; a process that gives up the CPU       *)
(* sleeps, exits or goes to the back; process 0 gives way to the others    *)
(* and runs when no other can.                                             *)
(***************************************************************************)
EXTENDS Integers, Sequences

CONSTANTS Boot,     \* number of processes at the start
          LastPid   \* ids handed out are below this

VARIABLES running,   \* id of the process that runs, -1 between two processes
          ready,     \* ids, in the order in which they became ready
          sleeping,  \* set of ids
          fresh      \* the next id

vars == <<running, ready, sleeping, fresh>>

Init == /\ running = -1
        /\ ready = [k \in 1 .. Boot |-> k - 1]
        /\ sleeping = {}
        /\ fresh = Boot

\* The next process of a queue, or process 0.
Run(queue) == /\ running' = IF queue = <<>> THEN 0 ELSE Head(queue)
              /\ ready' = IF queue = <<>> THEN <<>> ELSE Tail(queue)

Dispatch == running = -1 /\ Run(ready) /\ UNCHANGED <<sleeping, fresh>>

Preempt == /\ running # -1
           /\ Run(IF running = 0 THEN ready ELSE Append(ready, running))
           /\ UNCHANGED <<sleeping, fresh>>

Sleep == /\ running > 0
         /\ sleeping' = sleeping \cup {running}
         /\ running' = -1
         /\ UNCHANGED <<ready, fresh>>

Wake(p) == /\ sleeping' = sleeping \ {p}
           /\ ready' = Append(ready, p)
           /\ UNCHANGED <<running, fresh>>

Exit == running > 0 /\ running' = -1 /\ UNCHANGED <<ready, sleeping, fresh>>

Create == /\ fresh < LastPid
          /\ ready' = Append(ready, fresh)
          /\ fresh' = fresh + 1
          /\ UNCHANGED <<running, sleeping>>

Next == Dispatch \/ Preempt \/ Sleep \/ Exit \/ Create \/ \E p \in sleeping : Wake(p)

Spec == Init /\ [][Next]_vars
=============================================================================
