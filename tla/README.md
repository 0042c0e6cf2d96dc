# A verification of MyUnivOS

MyUnivOS is a small operating system for one 386-class CPU: processes scheduled
round robin, sleeping, mutexes, semaphores, timers, and virtual terminals that
programs read and write through ring buffers. This directory holds TLA+ modules
of its kernel, the TLC configurations that check them on small instances, and
proofs of their most important properties for every size. `PROJECT.json` lists
the components, the runs, the mutants that show that each property can fail, the
source lines of every definition, the hazards and the findings.

    tlc -config Queue.cfg Queue.tla         # a run: a .cfg and its module
    tlapm SchedulerProofs.tla               # the proofs of a module

## 1. Inventory

There is one CPU. Interrupts are off in the kernel, so a kernel entry
(`kernel_context_enter`, kernel.c:230) runs to its end: the handler of the
interrupt, then `scheduler_run`, then the return into a process. Processes
interleave only at kernel entries; the three sources are the timer (100 a
second), the keyboard and system calls.

| component | state | operations | correct when |
|---|---|---|---|
| queues (queue.c) | array, head, tail, size | init, in, out | bounded FIFO |
| process table (kproc.c) | table of control blocks, allocator, next_pid | create, destroy, lookup | an entry is used or free, a pid names one process |
| scheduler (scheduler.c, kernel.c) | active_proc, run and sleep queue, cpu_time, sleep_time, state | timer, run, add, remove, sleep | every process in one place, no panic, round robin, bounded waiting, timely wake-up |
| mutexes (kmutex.c) | table (allocated, locks, owner, wait queue), id pool | init, destroy, lock, unlock | mutual exclusion, FIFO hand-off, ids conserved |
| semaphores (ksem.c) | table (allocated, count, wait queue), id pool | init, destroy, wait, post | tokens and ids conserved, blocked processes can be woken |
| timers (timer.c) | ticks, table (callback, interval, repeat), allocator | register, unregister, interrupt | periodic calls, entries conserved |
| ring buffers (ringbuf.c) | head, tail, size, data | read, write, read_mem, write_mem, flush | bounded byte stream |
| terminals (tty.c) | table (buf, cursor, refresh, buffers), active_tty | select, refresh, update, input | the screen shows the active terminal, a terminal what was written, input goes to the active one |
| system calls (ksyscall.c, syscall.c) | the caller's EAX | one per call | a result goes to the process that made the call (it does not always: ksyscall.c:128, section 3) |
| keyboard (keyboard.c) | modifiers, escape count | decode | what is meant by the keys reaches the shell, in order; Ctrl-N creates, Ctrl-Q destroys, Alt-digit selects |
| interrupts, PIC (interrupts.c) | handlers, masks | register, enable, disable, dismiss, dispatch | enabled lines have handlers, none is left blocked, ticks and keys are taken |
| user programs (prog_user.c) | shared ids of mutexes and semaphores, the line being read | shell, ping, pong | shells that share a mutex read alone and get it in the end, turns are not doubled |
| screen (vga.c, test.h) | video memory | putc_at, puts_at, clear; spinner, clock, process list | nothing of another terminal remains on the screen |
| start-up (main.c) | - | the init functions, in order | handlers before interrupts |
| context.S, kernel.c logging, bit_util.c | - | - | assembly, output, unused functions |

What calls what: timer interrupt -> `timer_irq_handler` -> callbacks
(`scheduler_timer` every tick, `tty_refresh` every second tick). System calls ->
`ksyscall_irq_handler` -> scheduler, mutexes, semaphores, ring buffers. Keyboard
-> `tty_select`, `kproc_create`, `kproc_destroy(active_proc)`, `tty_input`;
`io_read` brings the characters to the shell, whose echo goes back by `io_write`. All
lists are queues of ids; mutexes and semaphores take processes out of the
scheduler and put them back with `scheduler_remove` and `scheduler_add`.

What is hard here: the order of kernel entries and what they leave in the
queues; loops whose bound changes while they run (scheduler.c:38 and 147); the
mixture of pids, table indices and pointers to entries, with reuse of the
entries; processes that are destroyed in the middle of something; state used
after it was reset (ksem.c:127); wrap-arounds. `hazards` in PROJECT.json lists
each one at its line.

## 2. Modules

| module | models | composes |
|---|---|---|
| `BoundedFifo` | what queue.h promises | |
| `Queue` | the circular queue | implements `BoundedFifo` |
| `RoundRobin` | what the scheduler promises | |
| `Scheduler` | process table, scheduler, kernel entry, Ctrl-N and Ctrl-Q | queues as sequences, implements `RoundRobin` |
| `SchedulerTiming` | `Scheduler` with histories of ticks | extends `Scheduler` |
| `SchedulerProofs` | proofs about `Scheduler`, its refinement of `RoundRobin` among them | `FoldProofs` of the loop of scheduler_remove |
| `SchedulerTimingProofs` | the bounds on waiting and sleeping | extends `SchedulerProofs` |
| `KMutex` | mutexes | extends `Scheduler` |
| `Shell` | the shells of prog_user.c, return values in EAX | extends `KMutex` |
| `MutexProofs` | proofs about `KMutex` and `Shell`, the refinement of one by the other among them | extends `SchedulerProofs` |
| `KSem` | semaphores | extends `Scheduler` |
| `PingPong` | ping and pong of prog_user.c | extends `KSem` |
| `KSemProofs` | proofs about the semaphores under any callers, and about `PingPong` | extends `SchedulerProofs` |
| `Timer` | timer table and interrupt handler | |
| `Interrupts` | registration, PIC masks, start-up, dispatch | extends `Timer` |
| `InterruptsProofs` | proofs about `Timer` and `Interrupts`, the refinement of one by the other among them | |
| `ByteStream` | what ringbuf.h promises | |
| `RingBuf` | ring buffers | implements `ByteStream` |
| `FoldProofs` | induction over numbers and over a fold, for any operator `Op` | |
| `BufferProofs` | proofs about `Queue` and `RingBuf`, their refinements among them | `FoldProofs` of the loop of ringbuf_write_mem |
| `Vga` | the text screen, as operators | |
| `Tty` | output of the terminals, io_write, io_flush, the drawing callbacks of test.h | extends `Vga`, streams as sequences |
| `Console` | keyboard, input of the terminals, io_read, the reading loop of the shells | extends `Tty` |
| `ConsoleProofs` | proofs about `Tty` and `Console` | `FoldProofs` of five loops of the drivers and the shells |

`Queue` is checked and proved to be a FIFO once; the other modules then use
sequences with a capacity (`QueueIn`). `RingBuf`, checked and proved to be a byte
stream, plays the same part for `Tty`.

**Scheduler.** Variables carry the names of the C globals and of the fields of
`proc_t`; a control block is addressed by its table entry. `pc` is the position
in the kernel entry: `TimerIrq` enters the timer handler, each `SleepScan` is one
pass of the loop in `scheduler_timer`, `SleepScanDone` leaves it, and one of
`RunKeep`, `RunPreempt`, `RunDispatch` is `scheduler_run` (the process keeps the
CPU, its slice is used up, there is none). `SysSleep`, `SysExit`, `KeyDestroy`,
`KeyCreate` are whole handlers; `OtherEntry` stands for every kernel entry that
leaves processes alone. `kernel_panic` is `pc = "halt"`, so that "never panics"
is an invariant. The programs, pids 1 to NBoot - 1, may make any call at any
time; the idle task and the test processes of Ctrl-N make none. Ctrl-N and
Ctrl-Q need a process that is scheduled, since the press of Ctrl was an
interrupt before them. `Without` is the rotating loop of `scheduler_remove`, its
shrinking bound included: `pass[i]` is the queue after i passes.

**KMutex** and **KSem** add their tables and let `Next` of `Scheduler` run
between their calls. `locked` in KMutex, `blocked` and `tokens` in KSem are
histories of what programs did; no guard but a bound reads them. ksem_wait
uses active_proc after `scheduler_remove` set it to NULL: paging is off, nothing
traps, and the id that is queued is a word of low memory, `null_pid`, chosen once
from `NullPids`, since no code writes there. The state it writes to low memory is
never read as a state.

**Shell** puts programs over KMutex. `at` is the place of a shell between two of
its system calls: `ShellTest` and `ShellAssign` are the unprotected test of
`shell_mutex` and the assignment of what `mutex_init` left in EAX, `ShellLock`,
`ShellRead`, `ShellUnlock` the loop that reads a line, `ShellCommand` the choice
of a command. `Return` stores a result for the process that is active after the
call, or for nobody, as `ksyscall_irq_handler` does (ksyscall.c:128). `shells` is
chosen from `ShellChoices`; where it is empty the programs make any call of the
mutexes with ids they were given (`MutexCall`).

**PingPong** does the same over KSem: `Test`, `SemaphoreInit`, `Assign` for each of
the two ids, then `SemWait`, `Nap`, `SemPost` in a loop. Where there are no pings and
pongs the programs make any call of the semaphores (`AnyCall`). `minted` counts what
the programs put into circulation; `Turns`, what is there, is the number of programs
between a wait and a post and of tokens in the counts (`Holding`, `Banked`).

**Timer.** One action is one tick and the whole loop. `timer_ticks` wraps at
`TICK_LIMIT`, which is 2^31 in the program. `Ascending` lists the ids that expire
in one tick as the loop meets them. `asked`, `calls` and `since` are histories.

**Interrupts.** `Boot` is main, one init function after the other, with the timers
they register; `Accept` is the processor taking a line from the controllers,
`interrupts_irq_handler` the dispatch with the dismissal, `kernel_context_exit` the
return. The controllers keep what is raised (`request`), what is accepted and not
dismissed (`service`), and `mask`. `mode` says whether there are further drivers
that register lines and disable enabled ones, or only callers of the timers.

**RingBuf.** The structure begins with its cursors, so the memset of
`RINGBUF_SIZE` bytes leaves as many bytes of data at the end as the cursors
take; `Cursors` is that number (12 in the program).

**Vga** and **Tty.** `tty_refresh` drains the active terminal's output and paints it
with `vga_putc_at`; the callbacks of test.h draw over it. A store outside of `buf`
sets `overrun`, and what follows it is not modelled, for it overwrites the
terminal's own fields. `text` is the history of what the terminal was given, and
`output` the set of characters that the programs write.

**Console.** `Press`, `Repeat` and `Release` are the interrupts that a key causes:
`keyboard_decode` has one action for each thing it may do with a make code
(`StatusKey`, `SelectKey`, `EscapeKey`, `OtherKey`, `InputKey`), `BreakCode` is a
release. `kbd_status` is what the code believes, `held` what is down, and `locks` which
of Caps and Num Lock are on for the user: a press turns one, a repeated code does not.
A shell is `FlushIn`, `FlushOut`, then `ksyscall_io_read`, `Echo` for each character and `Command`
in a loop. `typed` is the reference: the character that each key means under the
keys that are really down and the locks that are on, for the terminal that is active;
it reads none of the keyboard's own state. Either keys are pressed or programs write, as `KeyChoices` and `OutputChoices` say.

## 3. Runs and bounds

| run | module, specification | constants | distinct states |
|---|---|---|---|
| queue | Queue | 3 slots, 3 items | 612 |
| scheduler | SchedulerTiming, TimingSpec | 5 entries, slice 2, 4 boot processes, pids up to 5, sleeps of 0 and 4 ticks | 1720081 |
| scheduler_live | Shell, ShellFairSpec | 3 entries, slice 2, 3 boot processes, pids up to 4, sleeps of 1 tick, 2 mutexes; two shells that share one, or any calls | 85642 |
| kmutex | Shell, ShellSpec | 4 processes (1 idle), 4 entries, slice 1, 3 mutexes; no shells, two that share a mutex or two with one each | 2456959 |
| kmutex_ids | KMutex, MutexSpec | 2 mutexes | (violation) |
| ksem | PingPong, PingPongSpec | 3 processes, 3 semaphores, counts 0 and 1, 2 tokens, null_pid 0, 1 or 77; a ping and a pong, or any calls | 2399241 |
| ksem_blocked | KSem, SemSpec | 2 semaphores | (violation) |
| timer | Interrupts, IrqSpec | 3 timers, intervals 1 and 2, repeats 0, 2, for ever, wrap at 4; lines 0, 1 and 9 | 171460 |
| timer_repeat | Timer | as timer | (violation) |
| ringbuf | RingBuf | 4 bytes, 2 cursor bytes, writes and reads of up to 5 | 11008 |
| tty | Console, ConsoleSpec | 2 terminals of 2x2, buffers of 2; writes of up to 2, 4 characters in all; or one of 6 sets of keys, 2 held at once, 3 characters typed, one shell | 667428 |
| tty_cursor | Tty | the writes of tty | (violation) |

Why these are enough: the queue wraps at every position. The table of the
scheduler run has a spare entry that is used, freed and reused, while three
programs sleep at once, so that the loop of `scheduler_timer` skips sleepers, and
4 ticks are long enough for it to skip the same one twice;
the slice of 2 makes both outcomes of the test happen. kmutex_init
loses the last id of its pool, so that n mutexes are n - 1 that can be had: with 3,
two processes wait for one mutex while the other is destroyed and allocated again, or
one waits for each, and each of two groups of shells gets an id of its own; a holder or
a process on its way is destroyed. In scheduler_live one mutex is enough, for its
shells are one group. null_pid 0 is the idle task, 1 a program that
may be doing anything, 77 nobody. With three timers one expires before, between
and after others. A flush in the ring buffer leaves bytes behind, writes wrap
and do not fit. Four characters fill a row, scroll a screen of two rows, and
leave the screen. The sets of keys have the two Shift keys, the two Alt keys with
digits, Ctrl with a command key and Escape, the toggled modifiers with a key of the
numeric block, Caps Lock with a letter, a Shift and another modifier, Num Lock with a key
of the numeric block and a Shift, and one modifier of each kind together; three characters are a line,
its newline and one more that is typed ahead. Two shells that share a mutex pass
the unprotected test together or one after the other, with pids that agree modulo 2
and pids that do not. Line 9 is on the secondary controller. Every bound beyond the program's own constants is in a guard:
`MaxPid` (process ids), `MaxTokens` (posts), `MaxCalls` (a history), `MaxWrite`
and `MaxText` (written text), `MaxDrawn` (text written before the last drawing of a
callback), `MaxHeld` and `MaxTyped` (keys), `TICK_LIMIT` (stands for the width of an
int).

Deadlock is checked except in KSem and PingPong, where a wrong id in the run queue
may end in `kernel_panic`, and in Tty and Console, where nothing follows an overrun
or the third Escape, which is `kernel_exit`.

What the runs show:

- *queue*: `ImplementsFifo`, the array with wrapping cursors is a bounded FIFO;
  `RingInv`, the cursors agree and the slots that hold nothing are 0, as
  lines 34 and 96 of queue.c leave them. The comments say -1.
- *scheduler*: `Placement`, each process is active, ready or asleep, in exactly
  that queue and once, and its entry is used or free; `NeverPanics`; a ready
  process waits at most (PROC_MAX - 1) slices and a tick (`WaitBound`); a sleeper
  sleeps more ticks than it asked for, t, (`NoEarlyWake`) and at most
  (t + 2) * (NBoot - 1) (`WakeBound`), although a tick that wakes somebody skips
  others. The bound grows with the sleep because the code lets it: whenever a
  program wakes, the last sleeper of the queue loses that tick, and programs that
  sleep briefly again and again can make it lose one tick after the other (with
  three programs TLC finds sleeps of 14 ticks that last 19 and more).
  `ImplementsRoundRobin`: ids run in the order in which they became ready.
- *scheduler_live*: ready processes run, sleepers wake; `LockGranted`, a shell that
  waits for its mutex gets it, though the holder sleeps inside and comes back for it
  at once, unless a holder was destroyed inside or an id was lost.
- *kmutex*: `MutualExclusion` of processes inside a mutex, with the owner being
  the one inside; `LockCount`, the count is the holder and the wait queue;
  `WaitersQueued`, one who waits is in one queue, once; `IdsExclusive`;
  `HandOff`, the longest waiter gets the mutex in the step that releases it.
  `ReadersExclusive`, shells that share a mutex never use the terminal at once, except
  when both passed the unprotected test; `SharedIdsValid`, what they share are ids
  of mutexes they were given, one per group, whichever way the calls of mutex_init of
  both groups interleave with their tests and assignments. It says nothing of results
  in general: a shell that waited for its mutex finds none.
  `IdsExclusive` is for programs that destroy only mutexes they hold an id of: the code
  does not look (kmutex.c:90 among the hazards).
- *ksem*: ids are conserved (`SemIdsExact`), no wait is granted that count and
  posts do not allow (`NoTokenCreated`, an upper bound: tokens do get lost, with the
  process that sem_wait forgets), and nobody inherits waiters
  (`PoolHasNoWaiters`), all in spite of the defect below. `TurnsBounded`, ping and
  pong never have more turns at once than they put into circulation, although both
  initialise the same semaphores after an unprotected test.
- *timer*: `IdsExact`; `Periodic`, calls come interval ticks apart, across the
  wrap when the interval divides 2^32, as those of the scheduler and the
  terminals do. `LinesReady`, whenever a process runs, no line is in service, the
  enabled lines are those registered and not disabled since, and each has a handler:
  the order of main and the dismissal of both controllers; `LinesServed`, a tick that
  is raised is taken, and a key unless ticks come faster than the kernel returns.
- *ringbuf*: `ImplementsStream`, results included: a write of several bytes takes all
  and returns 0, or none and returns -1.
- *tty*: `ScreenInSync`, what is painted is the active terminal, with at most what the
  callbacks drew for it; `ShowsText`, a terminal shows the last rows of lines that
  fit, however writes were cut up; `TypedArrives`, the characters that were meant by
  the keys pressed, and no others, are in order in the commands of the shell of the
  terminal that was selected, or on their way. The locks are
  those of the user, not the bits of the code. It says nothing once two keys of one
  modifier were held at once (they share a bit, so that releasing one clears it), the
  code of a lock key was repeated (it toggles again) or a buffer was full. A character under
  Ctrl that is no command counts as meant, and arrives. It is about characters, not lines: what is typed ahead of a
  command may be joined to it (prog_user.c:83), which no comment promises otherwise.

Four runs end in a violation, each a disagreement between the code and what its
comments say: the last id of the mutex pool is lost (*kmutex_ids*, kmutex.c:49);
a process blocked by sem_wait is neither WAITING nor queued (*ksem_blocked*,
ksem.c:127); repeat counts ticks, not intervals (*timer_repeat*, timer.c:139);
the cursor leaves the screen (*tty_cursor*, tty.c:153; rows of two cells show it with
the third character, those of 80 need an 81st, or a tab near the edge).

Other comments disagree with what passing runs show the code to do:

- queue.c:23 and queue.h:25 say that empty items are set to -1. They are set to 0
  (queue.c:34 and 96; `RingInv` in *queue*).
- ksyscall.c:142 says that io_write copies up to n bytes and returns their number. It
  copies all or none, and returns 0 or -1 (ksyscall.c:165; `ImplementsStream` in
  *ringbuf*).
- keyboard.c:419 says that presses are ignored and releases processed. Characters come
  with the presses (keyboard.c:420; `TypedArrives` in *tty*).
- keyboard.c:45 and 343 say that Ctrl with another character calls a debug command.
  A few characters are commands and the others go to the terminal (keyboard.c:459;
  `TypedArrives` in *tty*).

Two more are in the models, and no property is about them: keyboard.c:55 says that Caps
and Num Lock toggle when they are pressed and released, and they toggle at every make
code, those repeated among them (keyboard.c:405 and 413), which `TypedArrives` leaves
out; and syscall.c:193 says that mutex_lock returns -1 or 0, while a caller that had to
wait finds the number of the call in EAX, since nothing was stored for it
(ksyscall.c:128). No program looks at that result.

**Fairness.** Two specifications have any.

`ShellFairness`: `WF(Kernel)`, a kernel entry goes on to its end, for nothing else
runs meanwhile. `SF(TimerIrq)`, the timer raises its line 100 times a second, and the
PIC keeps the request while interrupts are off, so that a program which makes one
system call after the other cannot keep it out; weak fairness would not do, because
the interrupt is not enabled inside the kernel. `SF(ShellStep)` for each program: one
that is dispatched again and again executes its instructions, since a slice is
hundreds of thousands of them. Programs that are no shells are not assumed to do
anything.

`IrqFairness` is about the level below, and justifies the strong fairness above:
`WF(Boot)` and `WF(Kernel)`, code runs on; `WF(Accept(0))`, the processor takes the
line of highest priority while it stays pending between instructions; `SF(Accept(1))`,
it takes the keyboard's line when that is first again and again. `LinesServed` then
says that masks, priorities and dismissals let every tick and key through.

## 4. Proofs

Every invariant and every action or refinement property of a passing run is proved;
only the four liveness properties are not. The eight proof modules hold for all values
of the constants under the named assumptions of the modules they are about:
`QueueAssumption` (the size is positive, 0 is an item), `RingAssumption` (the cursors
fit into the buffer, and some call has a byte), `SchedulerAssumption` (a table no
larger than a queue, a positive slice, at least the idle task at the start),
`MutexAssumption`, `SemAssumption`, `TimerAssumption` and `ShellAssumption` (the tables
are no larger than a queue, and the like), `RoleAssumption` (pings and pongs are
programs), `IntervalsAssumption` (the intervals 1 and 2 of the kernel's own timers are
possible ones), `VgaAssumption` and `TtyAssumption` (positive sizes, and programs do not
write the character 0), `KeyAssumption` (the characters of the keys that are used are in
`Char`). `Dividing`, a hypothesis of the two theorems about `Periodic`, is not an
assumption of a module: every interval divides 2^32. It is true of the intervals 1
(scheduler), 2 (terminals) and false of those of the test callbacks (10 and 25 ticks),
whose calls do shift at a wrap.

**Loops.** The code's loops over data are folds in the models. The induction theorems
of the library take a predicate, which the provers cannot supply; `FoldProofs` has
induction over the members of a *set* (`Induction`, from the well-foundedness of <),
and with it, for a CONSTANT operator `Op`: a fold over a sequence is the last of the
values that the loop goes through (`Fold`), and it can be cut in two (`FoldConcat`);
these are lemmas for the theorems below and say nothing of the code themselves. An
INSTANCE names the operator: the painting of a cell, the update of a terminal, the rotation of a queue.

**Queue.** `QueueInv`, `QueueTypeCorrect`: `Spec => [](TypeOK /\ RingInv)`. The two are
inductive together; the proof is about where `SlotAt` puts the slots after a cursor
moved. `QueueRefinement`: `Spec => ImplementsFifo`; with `QueueInv`, each call maps to
the same call of `BoundedFifo`, and the lemmas say how `Contents` changes.

**Ring buffer.** `RingTypeCorrect`, `RingRefinement`: reads, writes and flushes of any
length on a buffer of any size are those of `ByteStream`. `RingBufInv` says that the
cursors differ by the size, modulo the capacity; one byte written or read changes
`Content` by that byte (`PutByte`, `DropBytes`), and the loops follow by `FoldProofs`.

**Scheduler.** `TypeCorrect`, `PlacementCorrect`, `NoPanic`. The inductive invariant
`IInv` joins the three with `SliceInv`, that a process in the run queue has used no
tick of its slice and one that runs has some left: without it the bound on
`cpu_time` in the type invariant is not kept by `TimerIrq`. Typing, placement and
the absence of panics need each other: a queue does not overflow because it holds
processes of different entries (`Placement`), and `Placement` is kept because
nothing was dropped by a full queue. The step from "no repetitions" to "shorter
than the queue" is a counting argument (`QueueCount`, with the cardinality of an
injection). There is one lemma per action. What `Without` leaves of a queue is proved
from the loop, pass by pass (`WithoutAbsent`, `WithoutOnce`): a queue that does not hold
the process only turns, once around, and the active process is in no queue
(`ActiveNotQueued`), so scheduler_remove leaves the order as it was. `RoundRobinCorrect`:
`Spec => ImplementsRoundRobin`. A step that looks a process up by its pid maps to
one of `RoundRobin` only if the pid names one entry, which is `IInv`.

**Timing.** `WaitBoundCorrect`, `WakeBoundCorrect`, `NoEarlyWakeCorrect`. The bounds
are not inductive, as they say nothing of how long the rest of the queue will take.
`HInv` adds it. For a process at place k of the run queue, what it has waited, the
slices of those before it and the rest of the slice of who runs are together no more
than PROC_MAX - 1 slices and a tick: a tick moves one from the last term to the
first, a dispatch one slice from the second to the last. For a sleeper at place k
(`OnTime`) there is one tick per pass, and `slept + k` is no more than
`Ticks(passes) == (passes + 1) * (NBoot - 1)`: a pass puts it at the end of at most
NBoot - 1 sleepers and allows as many ticks more, and a tick that leaves it out makes
at least one pass over somebody else, which brings it nearer to the head. In the
middle of the loop `loop_i` counts the passes of this tick. `SchedulerKept`: the
histories change nothing of what the scheduler does.

**Mutexes.** `MutualExclusionCorrect`, `LockCountCorrect`, `WaitersQueuedCorrect`,
`IdsExclusiveCorrect`, `HandOffCorrect`, and `PlacementWithMutexes`: the places of
processes stay exact when mutexes take processes out of the scheduler and put them
back. The inductive invariant `MInv` is the four properties, `IInv`, and two more
parts: an id of the pool is not locked (`PoolUnlocked`), or kmutex_init would clear
the entry under its holder; a free table entry has locked nothing
(`FreeHoldsNothing`), or the next process of the entry would be inside where it
never went. A step of the scheduler keeps `MInv` because it starts or ends nobody's
wait and changes no pid (`SchedulerKeeps`).

**Shells.** `ShellImplementsMutex`: every step of the shells is one of KMutex, so that
all of the above holds for them (`ShellMutexesCorrect`); this needs that they pass
only ids they were given. `SharedIdsCorrect`, `ReadersExclusiveCorrect`: `SInv` adds
where each shell is: the id on its way from EAX to `shell_mutex` is allocated and
nobody else's (`AssignFresh`), a shell past the test has an id (`IdsKnown`), one that
uses the terminal holds its mutex (`LockedInside`), unless that id was lost by
the unprotected test.

**Semaphores.** `SemIdsCorrect`, `NoTokenCreatedCorrect`, `PoolHasNoWaitersCorrect`,
under arbitrary callers (`SemaphoresCorrect`, for `SemSpec`) and under ping and pong.
`KInv` is the three and the types of the tables. Nothing of the scheduler is used,
which is the point: ksem_wait leaves its caller in no queue and not WAITING
(*ksem_blocked*), so placement is broken, and still ids and tokens are conserved,
whatever word the NULL `active_proc` yields.

**Ping and pong.** `PingPongTypeCorrect`: `TypeInv` joins the types of everything with
`SliceLeft` and `RunsActive`, the part of the scheduler's invariant that survives
ksem_wait: a process that runs is ACTIVE, and only the active process may have used up
its slice, until scheduler_run takes the CPU from it, or `cpu_time` would leave its
range at the next tick.

`TurnsBoundedCorrect`: a turn is passed on or lost, never doubled. `TurnInv` needs where the programs are, which `Placement`
no longer says: each is in the entry it was created in, and in one queue at most, the
one its state names (`Placed`); a program that sem_wait took off the CPU is ACTIVE, not
on the CPU and in no queue, and stays so (`Stuck`, `Lost`), for the semaphore queues
hold nothing but `null_pid` (`Waiters`), which is the id of no program here. `Ids` and
`Through` say that programs past the unprotected tests use semaphores that are
allocated, though they may not be the same ones for all. `Budget` is the bound
itself, by the cardinality of the tokens: a wait takes one out of `Banked` and adds its
caller to `Holding`, a post does the reverse or wakes nobody, sem_init and the first
post of a ping mint what they add, and Ctrl-Q takes a turn away at most.

**Timers and interrupts.** `TimerIdsCorrect`: no entry is lost whatever number of
timers expires in one tick; `Ascending` is proved to list a set once. `PeriodicCorrect`:
the ticks since the last call are the remainder of `timer_ticks` by the interval
(`Phase`), which a wrap by 2^32 keeps if the interval divides it.
`InterruptsImplementTimers` carries both over to the whole (`IdsExactCorrect`,
`IrqPeriodicCorrect`). `LinesReadyCorrect`, `IrqTypeCorrect`: `LInv` adds which of
main's init functions have been called (`BootOK`), so that no line is enabled before
it has a handler, and what is in service while a handler runs (`ServiceOK`): a line
of the secondary controller holds line 2 of the primary, and both are dismissed.

**Terminals.** `ConsoleTypeCorrect`, `ScreenShowsActive`: `ConsoleInv` joins the types,
`TextType` and `InSync`, which is `ScreenInSync` with no exception for an overrun. A
step that leaves `refresh` 0 either paints every cell (`tty_refresh`, whose loops paint
each cell once) or draws within the cells of `Overlay`. `TerminalsShowText`: that every
cell shows its character is not inductive; `TextShown` adds where the cursor stands,
the row after the newlines and the column after the last one. Its step is about a single
character (`Shows` is kept by `tty_update` whether the text scrolls or not), and the fold
of `tty_refresh` carries it to any output.

**Keyboard.** `TypedArrivesAlways`: `InputInv` adds, while nothing ambiguous was typed,
that the bits of the modifiers are those of the keys that are down and of the locks
that are on (`Bits`), that no two
keys of one modifier are (`Apart`; without it a release would clear the bit of the
other), that a shell which has not flushed its terminal yet has read nothing
(`Starting`), so that what it flushes is all that `typed` has, and that the line being
read has no newline (`OneLine`).

What could not be proved is checked by TLC only: liveness (`EveryReadyRuns`,
`SleepersWake`, `LockGranted`, `LinesServed`), since temporal proofs under fairness need
ENABLED, which tlapm does not reason about. `SleepersWake` has its safety half in
`WakeBoundCorrect`, and `EveryReadyRuns` in `WaitBoundCorrect`, as long as ticks come;
`LockGranted` has its in `HandOffCorrect`, and `LinesServed` in `LinesReadyCorrect`.

## 5. Not modelled

- Stacks, trapframes and the registers in the context switch, colours, the hardware
  cursor, logging and its level, `breakpoint`, the IDT and the initialisation words
  of the controllers: nothing that the modelled code decides depends on them.
- The calls that only read (time, names, pid), and what the programs print.
- Keys with the prefix 0xE0 other than right Ctrl and Alt, whose sequences may
  contain the codes of a Shift.
- The size of the array `input` of the shell: nothing bounds the line (prog_user.c:88
  among the hazards).
- Programs that pass ids of mutexes they do not hold or have destroyed: the kernel
  does not check them (see the hazards).
- Units of time: `SysSleep` and `proc_sleep` take ticks. ksyscall_proc_sleep multiplies
  the caller's seconds by 100 (ksyscall.c:242), while scheduler.h:44 calls the argument
  of scheduler_sleep seconds; neither the conversion nor its overflow is covered. The
  programs of the repository pass small constants.
- Three guards stand for callers who behave, where the code does not look: `MutexNext`
  destroys only mutexes that are allocated (kmutex.c:90), `timer_callback_unregister`
  takes a timer that has a callback and repeats for ever (timer.c:80), `Driver` disables
  a line that is enabled (interrupts.c:184, where the mask is toggled). What would
  happen otherwise is not modelled.
- The masks that the controllers start with (`LoaderMask`) are an assumption on what
  runs before main.
- bit_util.c, whose functions are not called.

## 6. Plan

Done: the models of all components but bit_util.c, and proofs of every safety property
that the runs check, with the five refinements between the modules.

What is left, in the order of importance:

1. The liveness properties, if a prover for ENABLED is at hand: `SleepersWake` from the
   measure of `OnTime`, `LockGranted` from `HandOff` and the order of the wait queue.
2. The calls that only read, if something is to be said of what they return while
   processes are created and destroyed.
3. bit_util.c as operators, against a reference definition.
