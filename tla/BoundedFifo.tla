---------------------------- MODULE BoundedFifo ----------------------------
(***************************************************************************)
(* What include/queue.h promises: a first-in first-out sequence of at most *)
(* Capacity items.  Put fails on a full queue and Get on an empty one; a   *)
(* failing call changes nothing but its return code.                       *)
(***************************************************************************)
EXTENDS Integers, Sequences

CONSTANTS Capacity,   \* QUEUE_SIZE
          Item        \* the values callers put in a queue

VARIABLES contents,   \* the items, oldest first
          item,       \* what the last successful Get delivered
          rc          \* return code of the last call

vars == <<contents, item, rc>>

Init == contents = <<>> /\ item \in Item /\ rc = 0

Clear == contents' = <<>> /\ rc' = 0 /\ UNCHANGED item

Put(x) ==
    \/ /\ Len(contents) < Capacity
       /\ contents' = Append(contents, x)
       /\ rc' = 0
       /\ UNCHANGED item
    \/ /\ Len(contents) = Capacity
       /\ rc' = -1
       /\ UNCHANGED <<contents, item>>

Get ==
    \/ /\ contents # <<>>
       /\ item' = Head(contents)
       /\ contents' = Tail(contents)
       /\ rc' = 0
    \/ /\ contents = <<>>
       /\ rc' = -1
       /\ UNCHANGED <<contents, item>>

Next == Clear \/ Get \/ \E x \in Item : Put(x)

Spec == Init /\ [][Next]_vars
=============================================================================
