------------------------------ MODULE RingBuf ------------------------------
(***************************************************************************)
(* The ring buffers of src/ringbuf.c, through which the keyboard, the      *)
(* programs and the terminals exchange bytes.  The callers never pass      *)
(* NULL.                                                                   *)
(***************************************************************************)
EXTENDS Integers, Sequences, SequencesExt

CONSTANTS RINGBUF_SIZE,   \* bytes of data
          Cursors,        \* bytes of head, tail and size, which come before data
          Byte,           \* values the callers write, 0 among them
          MaxLen          \* longest write and read

ASSUME RingAssumption == /\ RINGBUF_SIZE \in Nat \ {0}
                         /\ Cursors \in 0 .. RINGBUF_SIZE
                         /\ 0 \in Byte
                         /\ MaxLen \in Nat \ {0}

VARIABLES buf,   \* the buffer: head, tail, size and data
          mem,   \* the bytes the last successful read copied to its caller
          ret    \* return code of the last call

ringVars == <<buf, mem, ret>>

Index == 0 .. RINGBUF_SIZE - 1

RingTypeOK == /\ buf \in [head : Index, tail : Index, size : 0 .. RINGBUF_SIZE,
                          data : [Index -> Byte]]
              /\ mem \in Seq(Byte)
              /\ ret \in -1 .. RINGBUF_SIZE
-----------------------------------------------------------------------------
Advance(s) == IF s + 1 = RINGBUF_SIZE THEN 0 ELSE s + 1

\* memset(buf, 0, RINGBUF_SIZE): the buffer begins with the cursors, so as
\* many bytes at the end of data are left as they were.
Memset(b) == [head |-> 0, tail |-> 0, size |-> 0,
              data |-> [s \in Index |-> IF s < RINGBUF_SIZE - Cursors THEN 0 ELSE b.data[s]]]

\* ringbuf_write: a full buffer stays as it is.
Put(b, byte) ==
    IF b.size = RINGBUF_SIZE THEN b
    ELSE [b EXCEPT !.data[b.tail] = byte, !.tail = Advance(@), !.size = @ + 1]

\* Mutant: the head runs off the end of data.
DropNoWrap(b, n) == [b EXCEPT !.head = @ + n, !.size = @ - n]

\* The n oldest bytes are read.
Drop(b, n) == [b EXCEPT !.head = (@ + n) % RINGBUF_SIZE, !.size = @ - n]

\* The n oldest bytes of b.
Oldest(b, n) == [k \in 1 .. n |-> b.data[(b.head + k - 1) % RINGBUF_SIZE]]
-----------------------------------------------------------------------------
\* A zeroed buffer, as the terminals start with.
RingInit == /\ buf = [head |-> 0, tail |-> 0, size |-> 0, data |-> [s \in Index |-> 0]]
            /\ mem = <<>>
            /\ ret = 0

ringbuf_write(byte) ==
    /\ ret' = IF buf.size = RINGBUF_SIZE THEN -1 ELSE 0
    /\ buf' = Put(buf, byte)
    /\ UNCHANGED mem

ringbuf_read ==
    \/ /\ buf.size = 0
       /\ ret' = -1
       /\ UNCHANGED <<buf, mem>>
    \/ /\ buf.size # 0
       /\ mem' = Oldest(buf, 1)
       /\ buf' = Drop(buf, 1)
       /\ ret' = 0

\* Mutant: the error is noticed when the buffer is full already.
WriteWhatFits(bytes) ==
    /\ ret' = IF buf.size + Len(bytes) > RINGBUF_SIZE THEN -1 ELSE 0
    /\ buf' = FoldLeft(Put, buf, bytes)
    /\ UNCHANGED mem

ringbuf_write_mem(bytes) ==
    /\ \/ /\ buf.size + Len(bytes) > RINGBUF_SIZE
          /\ ret' = -1
          /\ UNCHANGED buf
       \/ /\ buf.size + Len(bytes) <= RINGBUF_SIZE
          /\ ret' = 0
          /\ buf' = FoldLeft(Put, buf, bytes)
    /\ UNCHANGED mem

ringbuf_read_mem(n) ==
    LET count == IF n < buf.size THEN n ELSE buf.size
    IN  /\ ret' = count
        /\ mem' = Oldest(buf, count)
        /\ buf' = Drop(buf, count)

\* ringbuf_flush, and ringbuf_init
ringbuf_flush == /\ buf' = Memset(buf)
                 /\ ret' = 0
                 /\ UNCHANGED mem

RingNext == \/ \E byte \in Byte : ringbuf_write(byte)
            \/ ringbuf_read
            \/ \E bytes \in BoundedSeq(Byte, MaxLen) : ringbuf_write_mem(bytes)
            \/ \E n \in 0 .. MaxLen : ringbuf_read_mem(n)
            \/ ringbuf_flush

RingSpec == RingInit /\ [][RingNext]_ringVars
-----------------------------------------------------------------------------
(* The buffer is a bounded byte stream (ringbuf.h): bytes come out in the   *)
(* order they went in, a write that does not fit leaves nothing behind, and *)
(* nothing of what was there before a flush is ever read, though the flush  *)
(* does not clear all of the data.                                          *)
Stream == INSTANCE ByteStream WITH Capacity <- RINGBUF_SIZE,
                                   stream   <- Oldest(buf, buf.size),
                                   rc       <- ret
ImplementsStream == Stream!Spec
=============================================================================
