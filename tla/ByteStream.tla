----------------------------- MODULE ByteStream -----------------------------
(***************************************************************************)
(* What include/ringbuf.h promises: a bounded stream of bytes.  A write of *)
(* several bytes is all or nothing, a read delivers the oldest bytes there *)
(* are, at most as many as were asked for.                                 *)
(***************************************************************************)
EXTENDS Integers, Sequences, SequencesExt

CONSTANTS Capacity,   \* RINGBUF_SIZE
          Byte,       \* what the callers write
          MaxLen      \* longest write and read

VARIABLES stream,     \* the bytes, oldest first
          mem,        \* what the last read delivered
          rc          \* return code of the last call

vars == <<stream, mem, rc>>

Init == stream = <<>> /\ mem = <<>> /\ rc = 0

Write(bytes) ==
    /\ \/ /\ Len(stream) + Len(bytes) <= Capacity
          /\ stream' = stream \o bytes /\ rc' = 0
       \/ /\ Len(stream) + Len(bytes) > Capacity
          /\ stream' = stream /\ rc' = -1
    /\ UNCHANGED mem

Read(n) ==
    LET k == IF n < Len(stream) THEN n ELSE Len(stream)
    IN  /\ mem' = SubSeq(stream, 1, k)
        /\ stream' = SubSeq(stream, k + 1, Len(stream))
        /\ rc' = k

ReadByte ==
    \/ /\ stream # <<>>
       /\ mem' = <<Head(stream)>> /\ stream' = Tail(stream) /\ rc' = 0
    \/ /\ stream = <<>>
       /\ rc' = -1 /\ UNCHANGED <<stream, mem>>

Flush == stream' = <<>> /\ rc' = 0 /\ UNCHANGED mem

Next == \/ \E bytes \in BoundedSeq(Byte, MaxLen) : Write(bytes)
        \/ \E n \in 0 .. MaxLen : Read(n)
        \/ ReadByte
        \/ Flush

Spec == Init /\ [][Next]_vars
=============================================================================
