------------------------------- MODULE Queue -------------------------------
(***************************************************************************)
(* The circular queue of src/queue.c, on which every list of the kernel is *)
(* built: the process allocator, the run and sleep queues, the id pools of *)
(* the mutexes, semaphores and timers, and the wait queues.                *)
(* The callers never pass NULL, so the pointer checks are left out.        *)
(***************************************************************************)
EXTENDS Integers, Sequences

CONSTANTS QUEUE_SIZE,   \* number of slots
          Item          \* values the callers queue: process ids, table indices

ASSUME QueueAssumption == /\ QUEUE_SIZE \in Nat \ {0}
                          /\ Item \subseteq Int
                          /\ 0 \in Item

VARIABLES items,   \* the slots
          head,    \* slot of the oldest item
          tail,    \* slot the next item goes to
          size,    \* number of items
          item,    \* *item of the last successful queue_out
          rc       \* return code of the last call

vars == <<items, head, tail, size, item, rc>>

Slot == 0 .. QUEUE_SIZE - 1

TypeOK == /\ items \in [Slot -> Item]
          /\ head \in Slot
          /\ tail \in Slot
          /\ size \in 0 .. QUEUE_SIZE
          /\ item \in Item
          /\ rc \in {-1, 0}
-----------------------------------------------------------------------------
\* A queue as queue_init leaves it; item is the caller's own variable.
Init == /\ items = [s \in Slot |-> 0]
        /\ head = 0
        /\ tail = 0
        /\ size = 0
        /\ item \in Item
        /\ rc = 0

queue_init == /\ items' = [s \in Slot |-> 0]
              /\ head' = 0
              /\ tail' = 0
              /\ size' = 0
              /\ rc' = 0
              /\ UNCHANGED item

\* Mutant: the end of the array is noticed one slot too late.
ForwardLate(s) == IF s = QUEUE_SIZE THEN 0 ELSE s + 1

\* "Move forward; at the end of the array, move to the beginning."
Forward(s) == IF s + 1 = QUEUE_SIZE THEN 0 ELSE s + 1

queue_is_empty == size = 0

\* Mutant: the full queue is not refused, the oldest item is overwritten.
QueueInUnchecked(x) ==
    /\ items' = [items EXCEPT ![tail] = x]
    /\ tail' = Forward(tail)
    /\ size' = IF size = QUEUE_SIZE THEN size ELSE size + 1
    /\ rc' = 0
    /\ UNCHANGED <<head, item>>

queue_in(x) ==
    \/ /\ size = QUEUE_SIZE
       /\ rc' = -1
       /\ UNCHANGED <<items, head, tail, size, item>>
    \/ /\ size # QUEUE_SIZE
       /\ items' = [items EXCEPT ![tail] = x]
       /\ tail' = Forward(tail)
       /\ size' = size + 1
       /\ rc' = 0
       /\ UNCHANGED <<head, item>>

\* Mutant: the slot is not cleared when its item leaves.
QueueOutKeepsSlot ==
    /\ ~queue_is_empty
    /\ item' = items[head]
    /\ head' = Forward(head)
    /\ size' = size - 1
    /\ rc' = 0
    /\ UNCHANGED <<items, tail>>

queue_out ==
    \/ /\ queue_is_empty
       /\ rc' = -1
       /\ UNCHANGED <<items, head, tail, size, item>>
    \/ /\ ~queue_is_empty
       /\ item' = items[head]
       /\ items' = [items EXCEPT ![head] = 0]
       /\ head' = Forward(head)
       /\ size' = size - 1
       /\ rc' = 0
       /\ UNCHANGED tail

Next == queue_init \/ queue_out \/ \E x \in Item : queue_in(x)

Spec == Init /\ [][Next]_vars
-----------------------------------------------------------------------------
\* The slot k positions after the head, for k in 0 .. QUEUE_SIZE.
SlotAt(k) == IF head + k < QUEUE_SIZE THEN head + k ELSE head + k - QUEUE_SIZE

\* The k-th oldest item is k-1 slots after the head.
Contents == [k \in 1 .. size |-> items[SlotAt(k - 1)]]

(* The three cursors agree whatever wraps happened: the tail is size slots  *)
(* after the head, and no slot outside the occupied window keeps an item    *)
(* that has left (queue.c "Reset the empty item").  What such a slot holds  *)
(* is 0, which is an id as well; queue.c:23 and queue.h:25 say it is -1,    *)
(* so that an empty slot could be told from one that holds the id 0.        *)
RingInv == /\ tail = SlotAt(size)
           /\ \A k \in 0 .. QUEUE_SIZE - 1 : k >= size => items[SlotAt(k)] = 0

(* The array with its wrapping cursors behaves as a bounded FIFO: nothing   *)
(* is lost, duplicated or reordered, whatever sequence of calls is made and *)
(* wherever in the array the window lies.                                   *)
Fifo == INSTANCE BoundedFifo WITH Capacity <- QUEUE_SIZE, contents <- Contents
ImplementsFifo == Fifo!Spec
=============================================================================
