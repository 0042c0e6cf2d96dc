----------------------------- MODULE Interrupts -----------------------------
(***************************************************************************)
(* How interrupts reach their handlers: src/interrupts.c, the start-up in  *)
(* src/main.c that registers them, and kernel_context_enter around them,   *)
(* over the timers.  The two interrupt controllers and the devices are     *)
(* modelled as the code relies on them: a controller keeps a raised line   *)
(* until it is accepted, lower lines first, and blocks a line and those    *)
(* after it until it is dismissed; the secondary one is on line 2 of the   *)
(* primary.                                                                *)
(*                                                                         *)
(* mode chooses among the kernel, the kernel with drivers that register,   *)
(* enable and disable lines, and the timers alone with any callers.        *)
(***************************************************************************)
EXTENDS Timer

CONSTANT Lines   \* lines of the controllers that devices raise, the timer (0)
                 \* and the keyboard (1) among them

ASSUME LinesAssumption == {0, 1} \subseteq Lines /\ Lines \subseteq 0 .. 15 \ {2}

\* The scheduler registers a timer of 1 tick, the terminals one of 2.
ASSUME IntervalsAssumption == {1, 2} \subseteq Intervals

VARIABLES
    mode,           \* "kernel", "drivers" or "timers"
    todo,           \* what main has not called yet
    pc,             \* "boot", "user", "entry", "sched" or "halt"
    irq,            \* the interrupt being handled
    irq_handlers,   \* per interrupt: the handler registered, or "none"
    mask,           \* per controller: the lines that are disabled
    request,        \* per controller: the lines raised and not yet accepted
    service,        \* per controller: the lines accepted and not yet dismissed
    wanted          \* history: the lines enabled and not disabled since

irqVars == <<mode, todo, pc, irq, irq_handlers, mask, request, service, wanted>>
allVars == <<vars, irqVars>>

Pic == {1, 2}
Bit == 0 .. 7

IRQ_TIMER    == 32
IRQ_KEYBOARD == 33
IRQ_SYSCALL  == 128
Irq          == {32 + l : l \in Lines} \cup {IRQ_SYSCALL}

IrqTypeOK ==
    /\ TimerTypeOK
    /\ pc \in {"boot", "user", "entry", "sched", "halt"}
    /\ irq \in Irq
    /\ irq_handlers \in [Irq -> {"none", "timer", "keyboard", "syscall", "driver"}]
    /\ mask \in [Pic -> SUBSET Bit]
    /\ request \in [Pic -> SUBSET Bit]
    /\ service \in [Pic -> SUBSET Bit]
    /\ wanted \subseteq Lines
-----------------------------------------------------------------------------
\* The controller and the bit of a line; irq & 0xf undoes the remapping.
PicOf(n) == IF n % 16 >= 8 THEN 2 ELSE 1
BitOf(n) == n % 8

\* mask &= ~(1 << irq)
pic_irq_enable(n) == mask' = [mask EXCEPT ![PicOf(n)] = @ \ {BitOf(n)}]

\* mask ^ (1 << irq): the bit changes, whatever it was.
pic_irq_disable(n) ==
    mask' = [mask EXCEPT ![PicOf(n)] = (@ \ {BitOf(n)}) \cup ({BitOf(n)} \ @)]

pic_irq_enabled(n) == BitOf(n) \notin mask[PicOf(n)]

\* What the end-of-interrupt command does to the lines in service.
EndOfInterrupt(lines) == {l \in lines : \E k \in lines : k < l}

\* Mutant: the primary controller is not told of a line of the secondary one.
DismissOne(n) == service' = [service EXCEPT ![PicOf(n)] = EndOfInterrupt(@)]

pic_irq_dismiss(n) ==
    service' = [p \in Pic |-> IF p = 1 \/ PicOf(n) = 2 THEN EndOfInterrupt(service[p])
                              ELSE service[p]]

\* Mutant: the line is left disabled.
RegisterOnly(n, handler) ==
    /\ irq_handlers' = [irq_handlers EXCEPT ![n] = handler]
    /\ wanted' = IF n \in 32 .. 47 THEN wanted \cup {n - 32} ELSE wanted
    /\ UNCHANGED mask

interrupts_irq_register(n, handler) ==
    /\ irq_handlers' = [irq_handlers EXCEPT ![n] = handler]
    /\ \/ n \in 32 .. 47 /\ pic_irq_enable(n) /\ wanted' = wanted \cup {n - 32}
       \/ n \notin 32 .. 47 /\ UNCHANGED <<mask, wanted>>
-----------------------------------------------------------------------------
InitCalls == <<"interrupts_init", "timer_init", "tty_init", "keyboard_init",
               "scheduler_init", "ksyscall_init", "test_spinner", "test_timer",
               "test_proc_list", "interrupts_enable">>

\* What is assumed of the loader, for no code of the kernel sets the masks: it
\* has disabled all lines, but for the one of the secondary controller.
LoaderMask == [p \in Pic |-> IF p = 1 THEN Bit \ {2} ELSE Bit]

\* Where main begins.
IrqInit ==
    /\ Init
    /\ mode \in {"kernel", "drivers", "timers"}
    /\ todo = InitCalls
    /\ pc = "boot"
    /\ irq = IRQ_SYSCALL
    /\ irq_handlers = [n \in Irq |-> "none"]
    /\ mask = LoaderMask
    /\ request = [p \in Pic |-> {}]
    /\ service = [p \in Pic |-> {}]
    /\ wanted = {}

\* main calls f.
Calls(f) ==
    /\ mode # "timers" /\ pc = "boot" /\ todo # <<>> /\ Head(todo) = f
    /\ todo' = Tail(todo)
    /\ pc' = IF f = "interrupts_enable" THEN "user" ELSE "boot"
    /\ UNCHANGED <<mode, irq, request, service>>

\* timer_callback_register, whose result the callers ignore.
Register(n) == \/ timer_callback_register(n, Forever)
               \/ timer_allocator = <<>> /\ UNCHANGED vars

interrupts_init == /\ Calls("interrupts_init")
                   /\ irq_handlers' = [n \in Irq |-> "none"]
                   /\ UNCHANGED <<vars, mask, wanted>>
\* The timers are reset: what Init of Timer says, and nothing has changed yet.
timer_init      == /\ Calls("timer_init")
                   /\ interrupts_irq_register(IRQ_TIMER, "timer")
                   /\ UNCHANGED vars
tty_init        == Calls("tty_init") /\ Register(2) /\ UNCHANGED <<irq_handlers, mask, wanted>>
keyboard_init   == /\ Calls("keyboard_init")
                   /\ interrupts_irq_register(IRQ_KEYBOARD, "keyboard")
                   /\ UNCHANGED vars
scheduler_init  == /\ Calls("scheduler_init")
                   /\ Register(1)
                   /\ UNCHANGED <<irq_handlers, mask, wanted>>
ksyscall_init   == /\ Calls("ksyscall_init")
                   /\ interrupts_irq_register(IRQ_SYSCALL, "syscall")
                   /\ UNCHANGED vars
\* Three timers, every 10 and 25 ticks in the program.
test_init       == /\ \/ Calls("test_spinner") \/ Calls("test_timer")
                      \/ Calls("test_proc_list")
                   /\ \E n \in Intervals : Register(n)
                   /\ UNCHANGED <<irq_handlers, mask, wanted>>
interrupts_enable == Calls("interrupts_enable") /\ UNCHANGED <<vars, irq_handlers, mask, wanted>>

Boot == \/ interrupts_init \/ timer_init \/ tty_init \/ keyboard_init \/ scheduler_init
        \/ ksyscall_init \/ test_init \/ interrupts_enable
-----------------------------------------------------------------------------
\* A device raises its line, at any time.
Raise(l) ==
    /\ mode # "timers"
    /\ request' = [request EXCEPT ![PicOf(l)] = @ \cup {BitOf(l)}]
    /\ UNCHANGED <<vars, mode, todo, pc, irq, irq_handlers, mask, service, wanted>>

\* The lines a controller would pass on.
Eligible(p, lines) == {l \in lines \ mask[p] : \A k \in service[p] : l < k}
Secondary == Eligible(2, request[2])
Primary   == Eligible(1, request[1] \cup IF Secondary = {} THEN {} ELSE {2})
First(lines, l) == l \in lines /\ \A k \in lines : l <= k

\* The processor accepts the line l between two instructions of a process.
Accept(l) ==
    /\ pc = "user"
    /\ LET b == BitOf(l)
       IN  \/ /\ PicOf(l) = 1 /\ First(Primary, b)
              /\ request' = [request EXCEPT ![1] = @ \ {b}]
              /\ service' = [service EXCEPT ![1] = @ \cup {b}]
           \/ /\ PicOf(l) = 2 /\ First(Primary, 2) /\ First(Secondary, b)
              /\ request' = [request EXCEPT ![2] = @ \ {b}]
              /\ service' = [p \in Pic |-> service[p] \cup {IF p = 1 THEN 2 ELSE b}]
    /\ irq' = 32 + l
    /\ pc' = "entry"
    /\ UNCHANGED <<vars, mode, todo, irq_handlers, mask, wanted>>

\* int 0x80; a line that is raised comes first.
SystemCall ==
    /\ pc = "user" /\ Primary = {}
    /\ irq' = IRQ_SYSCALL
    /\ pc' = "entry"
    /\ UNCHANGED <<vars, mode, todo, irq_handlers, mask, request, service, wanted>>

\* kernel_panic without a handler; else the handler, and the line is dismissed.
interrupts_irq_handler ==
    /\ pc = "entry"
    /\ \/ /\ irq_handlers[irq] = "none"
          /\ pc' = "halt"
          /\ UNCHANGED <<vars, service>>
       \/ /\ irq_handlers[irq] # "none"
          /\ pc' = "sched"
          /\ IF irq_handlers[irq] = "timer" THEN timer_irq_handler ELSE UNCHANGED vars
          /\ IF irq \in 32 .. 47 THEN pic_irq_dismiss(irq - 32) ELSE UNCHANGED service
    /\ UNCHANGED <<mode, todo, irq, irq_handlers, mask, request, wanted>>

\* scheduler_run and the return to a process, where interrupts are on.
kernel_context_exit ==
    /\ pc = "sched"
    /\ pc' = "user"
    /\ irq' = IRQ_SYSCALL
    /\ UNCHANGED <<vars, mode, todo, irq_handlers, mask, request, service, wanted>>

\* A driver registers a line, or disables one that is enabled.
Driver(l) ==
    /\ mode = "drivers" /\ pc = "sched" /\ l \notin {0, 1}
    /\ \/ interrupts_irq_register(32 + l, "driver")
       \/ /\ pic_irq_enabled(32 + l)
          /\ pic_irq_disable(32 + l)
          /\ wanted' = wanted \ {l}
          /\ UNCHANGED irq_handlers
    /\ UNCHANGED <<vars, mode, todo, pc, irq, request, service>>

Kernel == interrupts_irq_handler \/ kernel_context_exit

IrqNext ==
    \/ Boot
    \/ \E l \in Lines : Raise(l) \/ Accept(l) \/ Driver(l)
    \/ SystemCall
    \/ Kernel
    \/ mode = "timers" /\ Next /\ UNCHANGED irqVars

\* The kernel runs to its end; the processor accepts a line that stays pending,
\* or that is the first one pending again and again.
IrqFairness ==
    /\ WF_allVars(Boot)
    /\ WF_allVars(Kernel)
    /\ WF_allVars(Accept(0))
    /\ SF_allVars(Accept(1))

IrqSpec == IrqInit /\ [][IrqNext]_allVars /\ IrqFairness
-----------------------------------------------------------------------------
(* Whenever a process runs, no line is in service, so none is blocked; the  *)
(* lines that are enabled are the ones that were registered and not         *)
(* disabled since, on both controllers, with the timer and the keyboard     *)
(* among them, and each has a handler.                                      *)
LinesReady ==
    /\ pc # "halt"
    /\ pc = "user" => /\ service = [p \in Pic |-> {}]
                      /\ \A l \in Lines : pic_irq_enabled(l) <=> l \in wanted
                      /\ {0, 1} \subseteq wanted
                      /\ \A l \in wanted : irq_handlers[32 + l] # "none"

Raised(l)   == pc = "user" /\ BitOf(l) \in request[PicOf(l)]
Accepted(l) == BitOf(l) \notin request[PicOf(l)]

(* A tick is taken, whatever system calls, keys and other interrupts come   *)
(* first, and a key is taken unless ticks come faster than the kernel       *)
(* returns to a process: the controllers are never left blocked or masked.  *)
LinesServed ==
    /\ Raised(0) ~> Accepted(0)
    /\ []<>(pc = "user" /\ Accepted(0)) => (Raised(1) ~> Accepted(1))
=============================================================================
