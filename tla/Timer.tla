------------------------------- MODULE Timer -------------------------------
(***************************************************************************)
(* The timers of src/timer.c: a table of callbacks, the allocator of its   *)
(* entries, and the interrupt handler that calls them.  The callbacks of   *)
(* the kernel (scheduler_timer, tty_refresh, those of test.h) neither      *)
(* register nor unregister timers.                                         *)
(***************************************************************************)
EXTENDS Integers, Sequences, FiniteSets

CONSTANTS TIMERS_MAX,   \* entries of the table
          QUEUE_SIZE,   \* capacity of the allocator
          TICK_LIMIT,   \* 2^31: timer_ticks wraps from TICK_LIMIT - 1 to -TICK_LIMIT
          Intervals,    \* intervals the callers ask for
          Repeats       \* repeat counts the callers ask for, beside Forever

ASSUME TimerAssumption ==
    /\ TIMERS_MAX \in Nat /\ QUEUE_SIZE \in Nat /\ TIMERS_MAX <= QUEUE_SIZE
    /\ TICK_LIMIT \in Nat \ {0}
    /\ Intervals \subseteq Nat \ {0}
    /\ Repeats \subseteq Nat

VARIABLES
    timer_ticks,      \* ticks since startup
    callback,         \* per entry: 1 when a function is registered, 0 for NULL
    interval,         \* per entry: ticks between calls
    repeat,           \* per entry: ticks left, or Forever
    timer_allocator,  \* free entries, oldest first
    asked,            \* per entry: the repeat count it was registered with
    calls,            \* per entry: calls since it was registered, MaxCalls at most
    since             \* per entry: ticks since the last call, or since it was
                      \* registered

table   == <<callback, interval, repeat, timer_allocator>>
history == <<asked, calls, since>>
vars    == <<timer_ticks, table, history>>

TimerId  == 0 .. TIMERS_MAX - 1
Forever  == -1
MaxCalls == 2                          \* bound: further calls are not counted

TimerTypeOK ==
    /\ timer_ticks \in -TICK_LIMIT .. TICK_LIMIT - 1
    /\ callback \in [TimerId -> {0, 1}]
    /\ interval \in [TimerId -> Intervals \cup {0}]
    /\ repeat \in [TimerId -> Nat \cup {Forever}]
    /\ timer_allocator \in Seq(TimerId)
-----------------------------------------------------------------------------
\* timer_init
Init ==
    /\ timer_ticks = 0
    /\ callback = [i \in TimerId |-> 0]
    /\ interval = [i \in TimerId |-> 0]
    /\ repeat = [i \in TimerId |-> 0]
    /\ timer_allocator = [k \in 1 .. TIMERS_MAX |-> k - 1]
    /\ asked = [i \in TimerId |-> 0]
    /\ calls = [i \in TimerId |-> 0]
    /\ since = [i \in TimerId |-> 0]

\* timer_callback_register; without a free entry nothing changes.
timer_callback_register(n, r) ==
    /\ timer_allocator # <<>>
    /\ LET i == Head(timer_allocator)
       IN  /\ callback' = [callback EXCEPT ![i] = 1]
           /\ interval' = [interval EXCEPT ![i] = n]
           /\ repeat' = [repeat EXCEPT ![i] = r]
           /\ asked' = [asked EXCEPT ![i] = r]
           /\ calls' = [calls EXCEPT ![i] = 0]
           /\ since' = [since EXCEPT ![i] = 0]
    /\ timer_allocator' = Tail(timer_allocator)
    /\ UNCHANGED timer_ticks

\* queue_in of each id of ids in turn; a full queue refuses.
Freed(q, ids) == SubSeq(q \o ids, 1, IF Len(q \o ids) < QUEUE_SIZE
                                     THEN Len(q \o ids) ELSE QUEUE_SIZE)

Cleared(f, S) == [i \in TimerId |-> IF i \in S THEN 0 ELSE f[i]]

\* The ids of S in the order in which the loop of timer_irq_handler meets them.
Ascending(S) ==
    [k \in 1 .. Cardinality(S) |-> CHOOSE i \in S : Cardinality({j \in S : j <= i}) = k]

\* timer_callback_unregister by the owner of a timer that never expires.
timer_callback_unregister(i) ==
    /\ callback[i] = 1 /\ repeat[i] = Forever
    /\ callback' = Cleared(callback, {i})
    /\ interval' = Cleared(interval, {i})
    /\ repeat' = Cleared(repeat, {i})
    /\ timer_allocator' = Freed(timer_allocator, <<i>>)
    /\ UNCHANGED <<timer_ticks, history>>

\* Mutant: an int that does not wrap.
TicksUnbounded(t) == t + 1

\* timer_ticks++
NextTick(t) == IF t = TICK_LIMIT - 1 THEN -TICK_LIMIT ELSE t + 1

\* Mutant: the loop stops at the first free entry.
HitUntilFree(t) == {i \in TimerId : /\ \A j \in 0 .. i : callback[j] = 1
                                    /\ t % interval[i] = 0}

\* The timers whose interval is hit at tick t.
Hit(t) == {i \in TimerId : callback[i] = 1 /\ t % interval[i] = 0}

\* Mutant: the entry goes back to the allocator with its callback.
ExpireKeepsCallback(gone) == UNCHANGED <<callback, repeat>>

\* The entries that expire are cleared, the others lose one of their repeats
\* whether the interval was hit or not.
Expire(gone) ==
    /\ callback' = Cleared(callback, gone)
    /\ repeat' = [i \in TimerId |-> IF callback[i] = 1 /\ repeat[i] > 0
                                    THEN repeat[i] - 1 ELSE repeat[i]]

timer_irq_handler ==
    LET t      == NextTick(timer_ticks)
        called == Hit(t)
        gone   == {i \in TimerId : callback[i] = 1 /\ repeat[i] = 0}
    IN  /\ timer_ticks' = t
        /\ Expire(gone)
        /\ interval' = Cleared(interval, gone)
        /\ timer_allocator' = Freed(timer_allocator, Ascending(gone))
        /\ calls' = [i \in TimerId |-> IF i \in called /\ calls[i] < MaxCalls
                                       THEN calls[i] + 1 ELSE calls[i]]
        /\ since' = [i \in TimerId |-> IF i \in called \/ callback[i] = 0
                                       THEN 0 ELSE since[i] + 1]
        /\ UNCHANGED asked

Next == \/ timer_irq_handler
        \/ \E n \in Intervals, r \in Repeats \cup {Forever} : timer_callback_register(n, r)
        \/ \E i \in TimerId : timer_callback_unregister(i)

Spec == Init /\ [][Next]_vars
-----------------------------------------------------------------------------
Called(i) == timer_ticks' # timer_ticks /\ callback[i] = 1 /\ since'[i] = 0

(* Every entry is registered or free, once: timers that expire inside the   *)
(* loop of the handler, with others before and after them, are neither lost *)
(* nor handed out twice.                                                    *)
IdsExact ==
    /\ \A j, k \in 1 .. Len(timer_allocator) :
          timer_allocator[j] = timer_allocator[k] => j = k
    /\ \A i \in TimerId :
          callback[i] = 0 <=> \E k \in 1 .. Len(timer_allocator) : timer_allocator[k] = i

(* Calls come exactly `interval` ticks apart, whatever other timers come    *)
(* and go, and across the wrap of timer_ticks when the interval divides     *)
(* 2^31, as those of the scheduler (1) and the terminals (2) do.            *)
Periodic ==
    /\ [][\A i \in TimerId : callback[i] = 1 /\ callback'[i] = 1 => since'[i] < interval[i]]_vars
    /\ [][\A i \in TimerId : Called(i) /\ calls[i] > 0 => since[i] + 1 = interval[i]]_vars

(* timer.c: "@param repeat - Indicate how many intervals to repeat": a      *)
(* timer that expires has been called for as many intervals as it was       *)
(* asked to repeat.                                                         *)
RepeatsIntervals ==
    [][\A i \in TimerId : callback[i] = 1 /\ repeat[i] = 0 /\ callback'[i] = 0
          => calls'[i] >= asked[i]]_vars
=============================================================================
