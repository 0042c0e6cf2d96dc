---------------------------- MODULE BufferProofs ----------------------------
(***************************************************************************)
(* The two circular buffers the kernel is built on, for every capacity and *)
(* every set of items.  src/queue.c is a bounded FIFO: RingInv ties its    *)
(* cursors together, and with it each operation on the array maps to the   *)
(* operation of the same name on the sequence.  src/ringbuf.c is a bounded *)
(* byte stream: RingBufInv does the same, and the loop of                  *)
(* ringbuf_write_mem goes through the buffers of FoldProofs!Trace.         *)
(***************************************************************************)
EXTENDS Queue, RingBuf, SequenceTheorems, TLAPS

Inv == TypeOK /\ RingInv

\* The cursor types and the ring relation hold after every call.
LEMMA InitInv == Init => Inv
<1> SUFFICES ASSUME Init PROVE Inv
  OBVIOUS
<1>2. TypeOK
  BY QueueAssumption DEF Init, TypeOK, Slot
<1>3. RingInv
  BY QueueAssumption DEF Init, RingInv, SlotAt, Slot
<1> QED BY <1>2, <1>3 DEF Inv

\* Each call moves a cursor by one slot, or wraps it, and keeps the relation.
LEMMA NextInv == Inv /\ [Next]_vars => Inv'
<1> SUFFICES ASSUME Inv, [Next]_vars PROVE Inv'
  OBVIOUS
<1> USE QueueAssumption DEF Inv, TypeOK, Slot
<1>1. CASE queue_init
  BY <1>1 DEF queue_init, RingInv, SlotAt
<1>2. CASE queue_out
  <2>1. CASE queue_is_empty
    BY <1>2, <2>1 DEF queue_out, queue_is_empty, RingInv, SlotAt
  <2>2. CASE ~queue_is_empty
    <3>1. TypeOK'
      BY <1>2, <2>2 DEF queue_out, queue_is_empty, Forward
    <3>2. tail' = SlotAt(size)'
      BY <1>2, <2>2 DEF queue_out, queue_is_empty, Forward, SlotAt, RingInv
    <3>3. ASSUME NEW k \in 0 .. QUEUE_SIZE - 1, k >= size'
          PROVE  items'[SlotAt(k)'] = 0
      <4>1. CASE k = QUEUE_SIZE - 1
        <5>1. SlotAt(k)' = head
          BY <1>2, <2>2, <4>1 DEF queue_out, queue_is_empty, Forward, SlotAt
        <5> QED BY <5>1, <1>2, <2>2 DEF queue_out
      <4>2. CASE k # QUEUE_SIZE - 1
        <5>1. k + 1 \in 0 .. QUEUE_SIZE - 1 /\ k + 1 >= size
          BY <4>2, <3>3, <1>2, <2>2 DEF queue_out, queue_is_empty
        <5>2. SlotAt(k)' = SlotAt(k + 1) /\ SlotAt(k + 1) \in Slot
          BY <5>1, <1>2, <2>2 DEF queue_out, queue_is_empty, Forward, SlotAt
        <5>3. items[SlotAt(k + 1)] = 0
          BY <5>1 DEF RingInv
        <5> QED BY <5>2, <5>3, <1>2, <2>2 DEF queue_out
      <4> QED BY <4>1, <4>2
    <3> QED BY <3>1, <3>2, <3>3 DEF RingInv
  <2> QED BY <2>1, <2>2
<1>3. ASSUME NEW x \in Item, queue_in(x) PROVE Inv'
  <2>1. CASE size = QUEUE_SIZE
    BY <1>3, <2>1 DEF queue_in, RingInv, SlotAt
  <2>2. CASE size # QUEUE_SIZE
    <3>1. TypeOK'
      BY <1>3, <2>2 DEF queue_in, Forward
    <3>2. tail' = SlotAt(size)'
      BY <1>3, <2>2 DEF queue_in, Forward, SlotAt, RingInv
    <3>3. ASSUME NEW k \in 0 .. QUEUE_SIZE - 1, k >= size'
          PROVE  items'[SlotAt(k)'] = 0
      <4>1. SlotAt(k)' = SlotAt(k) /\ SlotAt(k) # tail /\ k >= size
        BY <3>3, <1>3, <2>2 DEF queue_in, SlotAt, RingInv
      <4> QED BY <4>1, <1>3, <2>2 DEF queue_in, RingInv, SlotAt
    <3> QED BY <3>1, <3>2, <3>3 DEF RingInv
  <2> QED BY <2>1, <2>2
<1>4. CASE UNCHANGED vars
  BY <1>4 DEF vars, RingInv, SlotAt
<1> QED BY <1>1, <1>2, <1>3, <1>4 DEF Next

\* Types, the ring relation and the cleared free slots are invariant for
\* every QUEUE_SIZE, which src/queue.c keeps across any number of wraps.
THEOREM QueueInv == Spec => [](TypeOK /\ RingInv)
<1>1. Init => Inv  BY InitInv
<1>2. Inv /\ [Next]_vars => Inv'  BY NextInv
<1> QED BY <1>1, <1>2, PTL DEF Spec, Inv

\* The cursors stay inside the array and the size within its bound: no call of
\* queue.c reads or writes beyond the items.
THEOREM QueueTypeCorrect == Spec => []TypeOK
<1>1. TypeOK /\ RingInv => TypeOK
  OBVIOUS
<1> QED BY <1>1, QueueInv, PTL
-----------------------------------------------------------------------------
\* Facts of arithmetic about the wrapping index.
LEMMA SlotRange ==
    \A h \in Slot, k \in 0 .. QUEUE_SIZE :
        (IF h + k < QUEUE_SIZE THEN h + k ELSE h + k - QUEUE_SIZE) \in Slot
BY QueueAssumption DEF Slot

\* The place of an item is an offset that SlotAt takes.
LEMMA OffsetRange ==
    \A n \in 0 .. QUEUE_SIZE, k \in Int : k \in 1 .. n => k - 1 \in 0 .. QUEUE_SIZE
BY QueueAssumption

\* The window of occupied slots, read from the head, is a sequence of items.
LEMMA ContentsType == Inv => Contents \in Seq(Item) /\ Len(Contents) = size
<1> SUFFICES ASSUME Inv PROVE Contents \in Seq(Item) /\ Len(Contents) = size
  OBVIOUS
<1>1. \A k \in 1 .. size : SlotAt(k - 1) \in Slot
  BY QueueAssumption DEF Inv, TypeOK, SlotAt, Slot
<1>2. Contents \in [1 .. size -> Item]
  BY <1>1 DEF Contents, Inv, TypeOK
<1>3. size \in Nat
  BY QueueAssumption DEF Inv, TypeOK
<1> QED BY <1>2, <1>3

\* The same of the window after a call.
LEMMA ContentsTypeNext ==
    Inv' => Contents' \in Seq(Item) /\ Len(Contents') = size'
<1> SUFFICES ASSUME Inv'
             PROVE  Contents' \in Seq(Item) /\ Len(Contents') = size'
  OBVIOUS
<1>1. ASSUME NEW k \in 1 .. size' PROVE SlotAt(k - 1)' \in Slot
  <2>1. head' \in Slot /\ size' \in 0 .. QUEUE_SIZE
    BY DEF Inv, TypeOK
  <2>2. k - 1 \in 0 .. QUEUE_SIZE
    BY <1>1, <2>1, OffsetRange
  <2> QED BY <2>1, <2>2, SlotRange DEF SlotAt
<1>2. Contents' \in [1 .. size' -> Item]
  BY <1>1 DEF Contents, Inv, TypeOK
<1>3. size' \in Nat
  BY QueueAssumption DEF Inv, TypeOK
<1> QED BY <1>2, <1>3

\* queue_in appends, or refuses when the sequence is full.
LEMMA PutStep == ASSUME Inv, NEW x \in Item, queue_in(x) PROVE Fifo!Put(x)
<1> USE QueueAssumption
<1>0. Contents \in Seq(Item) /\ Len(Contents) = size
  BY ContentsType
<1>1. CASE size = QUEUE_SIZE
  <2>1. Contents' = Contents
    BY <1>1 DEF queue_in, Contents, SlotAt
  <2> QED BY <1>0, <1>1, <2>1 DEF queue_in, Fifo!Put
<1>2. CASE size # QUEUE_SIZE
  <2>1. size' = size + 1 /\ head' = head /\ size < QUEUE_SIZE
    BY <1>2 DEF queue_in, Inv, TypeOK
  <2>2. \A k \in 1 .. size : Contents'[k] = Contents[k]
    <3> SUFFICES ASSUME NEW k \in 1 .. size PROVE Contents'[k] = Contents[k]
      OBVIOUS
    <3>1. SlotAt(k - 1)' = SlotAt(k - 1)
      BY <2>1 DEF SlotAt
    <3>2. SlotAt(k - 1) # tail /\ SlotAt(k - 1) \in Slot
      BY <2>1 DEF SlotAt, Inv, TypeOK, RingInv, Slot
    <3>3. Contents'[k] = items'[SlotAt(k - 1)']
      BY <2>1 DEF Contents, Inv, TypeOK
    <3> QED BY <3>1, <3>2, <3>3, <1>2 DEF queue_in, Contents, Inv, TypeOK
  <2>3. Contents'[size + 1] = x
    <3>1. Contents'[size + 1] = items'[tail]
      BY <2>1 DEF Contents, SlotAt, Inv, TypeOK, RingInv
    <3> QED BY <3>1, <1>2 DEF queue_in, Inv, TypeOK
  <2>4. Contents' = Append(Contents, x)
    <3>1. Contents' \in Seq(Item) /\ Len(Contents') = size + 1
      BY ContentsTypeNext, NextInv, <2>1 DEF Next
    <3>2. /\ Append(Contents, x) \in Seq(Item)
          /\ Len(Append(Contents, x)) = size + 1
          /\ \A k \in 1 .. size : Append(Contents, x)[k] = Contents[k]
          /\ Append(Contents, x)[size + 1] = x
      BY <1>0, AppendProperties
    <3>3. \A k \in 1 .. size + 1 : k = size + 1 \/ k \in 1 .. size
      BY <2>1 DEF Inv, TypeOK
    <3>4. \A k \in 1 .. Len(Contents') : Contents'[k] = Append(Contents, x)[k]
      BY <3>1, <3>2, <3>3, <2>2, <2>3
    <3> QED BY <3>1, <3>2, <3>4, SeqEqual
  <2> QED BY <1>0, <2>1, <2>4, <1>2 DEF queue_in, Fifo!Put
<1> QED BY <1>1, <1>2

\* queue_out delivers the oldest item, or fails when there is none.
LEMMA GetStep == ASSUME Inv, queue_out PROVE Fifo!Get
<1> USE QueueAssumption
<1>0. Contents \in Seq(Item) /\ Len(Contents) = size
  BY ContentsType
<1>1. CASE queue_is_empty
  <2>1. Contents' = Contents
    BY <1>1 DEF queue_out, Contents, SlotAt, queue_is_empty
  <2>2. Contents = <<>>
    BY <1>0, <1>1 DEF queue_is_empty
  <2> QED BY <2>1, <2>2, <1>1 DEF queue_out, Fifo!Get, queue_is_empty
<1>2. CASE ~queue_is_empty
  <2>1. size \in 1 .. QUEUE_SIZE /\ size' = size - 1 /\ head' = Forward(head)
    BY <1>2 DEF queue_out, queue_is_empty, Inv, TypeOK
  <2>2. Contents # <<>> /\ item' = Head(Contents)
    <3>1. Contents[1] = items[head]
      BY <2>1 DEF Contents, SlotAt, Inv, TypeOK, Slot
    <3> QED BY <3>1, <1>0, <2>1, <1>2 DEF queue_out
  <2>3. \A k \in 1 .. size - 1 : Contents'[k] = Contents[k + 1]
    <3> SUFFICES ASSUME NEW k \in 1 .. size - 1
                 PROVE  Contents'[k] = Contents[k + 1]
      OBVIOUS
    <3>1. SlotAt(k - 1)' = SlotAt(k) /\ SlotAt(k) # head /\ SlotAt(k) \in Slot
      BY <2>1 DEF SlotAt, Forward, Inv, TypeOK, Slot
    <3>2. Contents'[k] = items'[SlotAt(k - 1)']
      BY <2>1 DEF Contents
    <3>3. Contents[k + 1] = items[SlotAt((k + 1) - 1)]
      BY <2>1 DEF Contents
    <3>4. (k + 1) - 1 = k
      BY <2>1
    <3> QED BY <3>1, <3>2, <3>3, <3>4, <1>2 DEF queue_out, Inv, TypeOK
  <2>4. Contents' = Tail(Contents)
    <3>1. Contents' \in Seq(Item) /\ Len(Contents') = size - 1
      BY ContentsTypeNext, NextInv, <2>1 DEF Next
    <3>2. /\ Tail(Contents) \in Seq(Item)
          /\ Len(Tail(Contents)) = size - 1
          /\ \A k \in 1 .. size - 1 : Tail(Contents)[k] = Contents[k + 1]
      BY <1>0, <2>2, HeadTailProperties
    <3>3. \A k \in 1 .. Len(Contents') : Contents'[k] = Tail(Contents)[k]
      BY <3>1, <3>2, <2>3
    <3> QED BY <3>1, <3>2, <3>3, SeqEqual
  <2> QED BY <2>2, <2>4, <1>2 DEF queue_out, Fifo!Get, queue_is_empty
<1> QED BY <1>1, <1>2

\* src/queue.c is a bounded FIFO: every behaviour of the array with its
\* wrapping cursors is a behaviour of BoundedFifo, for every QUEUE_SIZE.
THEOREM QueueRefinement == Spec => ImplementsFifo
<1>1. Init => Fifo!Init
  BY QueueAssumption DEF Init, Fifo!Init, Contents
<1>2. Inv /\ [Next]_vars => [Fifo!Next]_(Fifo!vars)
  <2> SUFFICES ASSUME Inv, [Next]_vars PROVE [Fifo!Next]_(Fifo!vars)
    OBVIOUS
  <2>1. CASE queue_init
    <3>1. Contents' = <<>>
      BY <2>1 DEF queue_init, Contents
    <3> QED BY <2>1, <3>1 DEF queue_init, Fifo!Next, Fifo!Clear
  <2>2. CASE queue_out
    BY <2>2, GetStep DEF Fifo!Next
  <2>3. ASSUME NEW x \in Item, queue_in(x) PROVE Fifo!Next
    BY <2>3, PutStep DEF Fifo!Next
  <2>4. CASE UNCHANGED vars
    BY <2>4 DEF vars, Fifo!vars, Contents, SlotAt
  <2> QED BY <2>1, <2>2, <2>3, <2>4 DEF Next
<1>3. Spec => []Inv
  BY QueueInv, PTL DEF Inv
<1> QED BY <1>1, <1>2, <1>3, PTL DEF Spec, ImplementsFifo, Fifo!Spec
-----------------------------------------------------------------------------
Loops == INSTANCE FoldProofs WITH Op <- Put
-----------------------------------------------------------------------------
\* The place k after h, in the terms of the conditional of ringbuf_write.
Place(h, k) == IF h + k < RINGBUF_SIZE THEN h + k ELSE h + k - RINGBUF_SIZE

\* A remainder is the only one there is.
LEMMA Remainder ==
    ASSUME NEW n \in Nat \ {0}, NEW q \in Int, NEW r \in 0 .. n - 1
    PROVE  (n * q + r) % n = r
OBVIOUS

\* The remainder and the condition wrap the index alike.
LEMMA Wrap ==
    ASSUME NEW h \in Index, NEW k \in 0 .. RINGBUF_SIZE
    PROVE  (h + k) % RINGBUF_SIZE = Place(h, k) /\ Place(h, k) \in Index
<1> DEFINE n == RINGBUF_SIZE
<1>1. n \in Nat \ {0} /\ h \in 0 .. n - 1 /\ k \in 0 .. n
  BY RingAssumption DEF Index
<1>2. CASE h + k < n
  <2>1. h + k = n * 0 + (h + k) /\ h + k \in 0 .. n - 1
    BY <1>1, <1>2
  <2> QED BY <2>1, <1>1, <1>2, Remainder DEF Place, Index
<1>3. CASE ~(h + k < n)
  <2>1. h + k = n * 1 + (h + k - n) /\ h + k - n \in 0 .. n - 1
    BY <1>1, <1>3
  <2> QED BY <2>1, <1>1, <1>3, Remainder DEF Place, Index
<1> QED BY <1>2, <1>3

\* Going on in two steps is going on in one.
LEMMA PlaceAgain ==
    ASSUME NEW h \in Index, NEW j \in 0 .. RINGBUF_SIZE, NEW k \in 0 .. RINGBUF_SIZE,
           j + k <= RINGBUF_SIZE
    PROVE  Place(Place(h, j), k) = Place(h, j + k)
<1>1. RINGBUF_SIZE \in Nat \ {0} /\ h \in 0 .. RINGBUF_SIZE - 1
  BY RingAssumption DEF Index
<1>2. CASE h + j < RINGBUF_SIZE
  <2>1. Place(h, j) = h + j
    BY <1>2 DEF Place
  <2> QED BY <1>1, <1>2, <2>1 DEF Place
<1>3. CASE ~(h + j < RINGBUF_SIZE)
  <2>1. Place(h, j) = h + j - RINGBUF_SIZE
    BY <1>3 DEF Place
  <2> QED BY <1>1, <1>3, <2>1 DEF Place
<1> QED BY <1>2, <1>3

\* The next place is one further on.
LEMMA PlaceNext ==
    ASSUME NEW h \in Index, NEW k \in 0 .. RINGBUF_SIZE - 1
    PROVE  Advance(Place(h, k)) = Place(h, k + 1)
BY RingAssumption DEF Advance, Place, Index

\* The places before one are others.
LEMMA PlaceOther ==
    ASSUME NEW h \in Index, NEW j \in 0 .. RINGBUF_SIZE - 1, NEW k \in 1 .. j
    PROVE  Place(h, k - 1) # Place(h, j)
BY RingAssumption DEF Place, Index

\* Buffers whose cursors agree.
Buffers == {b \in [head : Index, tail : Index, size : 0 .. RINGBUF_SIZE, data : [Index -> Byte]] :
               b.tail = Place(b.head, b.size)}

Content(b) == Oldest(b, b.size)

\* The oldest bytes are a sequence of as many bytes.
LEMMA OldestBytes ==
    ASSUME NEW b \in Buffers, NEW n \in 0 .. b.size
    PROVE  /\ Oldest(b, n) \in Seq(Byte) /\ Len(Oldest(b, n)) = n
           /\ \A k \in 1 .. n : Oldest(b, n)[k] = b.data[Place(b.head, k - 1)]
<1>1. n \in Nat /\ n <= RINGBUF_SIZE /\ b.head \in Index /\ b.data \in [Index -> Byte]
  BY RingAssumption DEF Buffers
<1>2. ASSUME NEW k \in 1 .. n
      PROVE  /\ (b.head + k - 1) % RINGBUF_SIZE = Place(b.head, k - 1)
             /\ Place(b.head, k - 1) \in Index
  <2>1. k - 1 \in 0 .. RINGBUF_SIZE /\ b.head + (k - 1) = b.head + k - 1
    BY <1>1, RingAssumption DEF Index
  <2> QED BY <1>1, <2>1, Wrap
<1>3. Oldest(b, n) \in [1 .. n -> Byte]
  BY <1>1, <1>2 DEF Oldest
<1>4. \A k \in 1 .. n : Oldest(b, n)[k] = b.data[Place(b.head, k - 1)]
  BY <1>2 DEF Oldest
<1> QED BY <1>1, <1>3, <1>4

\* What a buffer holds is as long as its size says.
LEMMA ContentBytes ==
    ASSUME NEW b \in Buffers
    PROVE  /\ Content(b) \in Seq(Byte) /\ Len(Content(b)) = b.size
           /\ \A k \in 1 .. b.size : Content(b)[k] = b.data[Place(b.head, k - 1)]
<1>1. b.size \in 0 .. b.size
  BY RingAssumption DEF Buffers
<1> QED BY <1>1, OldestBytes DEF Content

\* A byte that fits goes after the others.
LEMMA PutByte ==
    ASSUME NEW b \in Buffers, NEW x \in Byte, b.size < RINGBUF_SIZE
    PROVE  /\ Put(b, x) \in Buffers
           /\ Put(b, x).size = b.size + 1
           /\ Content(Put(b, x)) = Append(Content(b), x)
<1> DEFINE c == Put(b, x)
<1>1. /\ RINGBUF_SIZE \in Nat \ {0} /\ b.size \in 0 .. RINGBUF_SIZE - 1 /\ b.head \in Index /\ b.data \in [Index -> Byte]
      /\ b.tail \in Index /\ b.tail = Place(b.head, b.size)
  BY RingAssumption DEF Buffers
<1>2. c = [head |-> b.head, tail |-> Advance(b.tail), size |-> b.size + 1,
           data |-> [b.data EXCEPT ![b.tail] = x]]
  <2>1. c = [b EXCEPT !.data[b.tail] = x, !.tail = Advance(b.tail), !.size = b.size + 1]
    BY <1>1 DEF Put
  <2>2. b = [head |-> b.head, tail |-> b.tail, size |-> b.size, data |-> b.data]
    BY DEF Buffers
  <2> QED BY <2>1, <2>2
<1> HIDE DEF c
<1>3. c.size = b.size + 1 /\ c.head = b.head /\ c.tail = Advance(b.tail)
      /\ c.data = [b.data EXCEPT ![b.tail] = x]
  BY <1>2
<1>4. c \in Buffers
  <2>1. Advance(b.tail) \in Index /\ b.size + 1 \in 0 .. RINGBUF_SIZE
    BY <1>1, RingAssumption DEF Advance, Index
  <2>2. [b.data EXCEPT ![b.tail] = x] \in [Index -> Byte]
    BY <1>1
  <2>3. Advance(Place(b.head, b.size)) = Place(b.head, b.size + 1)
    BY <1>1, PlaceNext
  <2> QED BY <1>1, <1>2, <1>3, <2>1, <2>2, <2>3 DEF Buffers
<1>5. Content(b) \in Seq(Byte) /\ Len(Content(b)) = b.size
      /\ \A k \in 1 .. b.size : Content(b)[k] = b.data[Place(b.head, k - 1)]
  BY ContentBytes
<1>6. Content(c) \in Seq(Byte) /\ Len(Content(c)) = b.size + 1
      /\ \A k \in 1 .. b.size + 1 : Content(c)[k] = c.data[Place(b.head, k - 1)]
  <2>1. Content(c) \in Seq(Byte) /\ Len(Content(c)) = c.size
        /\ \A k \in 1 .. c.size : Content(c)[k] = c.data[Place(c.head, k - 1)]
    BY <1>4, ContentBytes
  <2> QED BY <2>1, <1>3
<1>7. ASSUME NEW k \in 1 .. b.size PROVE Content(c)[k] = Content(b)[k]
  <2>1. k \in 1 .. b.size + 1 /\ k - 1 \in 0 .. RINGBUF_SIZE
    BY <1>1
  <2>2. Place(b.head, k - 1) # b.tail
    BY <1>1, PlaceOther
  <2>3. Place(b.head, k - 1) \in Index
    BY <1>1, <2>1, Wrap
  <2> QED BY <1>1, <1>3, <1>5, <1>6, <2>1, <2>2, <2>3
<1>8. Content(c)[b.size + 1] = x
  <2>1. b.size + 1 \in 1 .. b.size + 1 /\ (b.size + 1) - 1 = b.size
    BY <1>1
  <2> QED BY <1>1, <1>3, <1>6, <2>1
<1>9. Content(c) = Append(Content(b), x)
  <2>1. /\ Append(Content(b), x) \in Seq(Byte)
        /\ Len(Append(Content(b), x)) = b.size + 1
        /\ \A k \in 1 .. b.size : Append(Content(b), x)[k] = Content(b)[k]
        /\ Append(Content(b), x)[b.size + 1] = x
    BY <1>5, AppendProperties
  <2>2. \A k \in 1 .. b.size + 1 : k = b.size + 1 \/ k \in 1 .. b.size
    BY <1>1
  <2>3. \A k \in 1 .. b.size + 1 : Content(c)[k] = Append(Content(b), x)[k]
    BY <2>1, <2>2, <1>7, <1>8
  <2> QED BY <1>6, <2>1, <2>3, SeqEqual
<1> QED BY <1>3, <1>4, <1>9 DEF c

\* Put keeps the cursors in agreement, whether the byte fits or not.
LEMMA PutType == \A b \in Buffers, x \in Byte : Put(b, x) \in Buffers
<1> SUFFICES ASSUME NEW b \in Buffers, NEW x \in Byte PROVE Put(b, x) \in Buffers
  OBVIOUS
<1>1. b.size \in 0 .. RINGBUF_SIZE
  BY DEF Buffers
<1>2. CASE b.size = RINGBUF_SIZE
  BY <1>2 DEF Put
<1>3. CASE b.size # RINGBUF_SIZE
  BY <1>1, <1>3, PutByte, RingAssumption
<1> QED BY <1>2, <1>3

\* A sequence with the first items of another is its front.
LEMMA FrontItems ==
    \A S : \A s, t \in Seq(S) : \A n \in 0 .. Len(s) :
        Len(t) = n /\ (\A k \in 1 .. n : t[k] = s[k]) => t = SubSeq(s, 1, n)
<1> SUFFICES ASSUME NEW S, NEW s \in Seq(S), NEW t \in Seq(S), NEW n \in 0 .. Len(s),
                    Len(t) = n, \A k \in 1 .. n : t[k] = s[k]
             PROVE  t = SubSeq(s, 1, n)
  OBVIOUS
<1>1. /\ SubSeq(s, 1, n) \in Seq(S) /\ Len(SubSeq(s, 1, n)) = n
      /\ \A k \in 1 .. n : SubSeq(s, 1, n)[k] = s[k]
  BY LenProperties
<1> QED BY <1>1, SeqEqual

\* A sequence with the items after those is the rest of it.
LEMMA RestItems ==
    \A S : \A s, t \in Seq(S) : \A n \in 0 .. Len(s) :
        Len(t) = Len(s) - n /\ (\A k \in 1 .. Len(s) - n : t[k] = s[k + n])
            => t = SubSeq(s, n + 1, Len(s))
<1> SUFFICES ASSUME NEW S, NEW s \in Seq(S), NEW t \in Seq(S), NEW n \in 0 .. Len(s),
                    Len(t) = Len(s) - n, \A k \in 1 .. Len(s) - n : t[k] = s[k + n]
             PROVE  t = SubSeq(s, n + 1, Len(s))
  OBVIOUS
<1>1. /\ SubSeq(s, n + 1, Len(s)) \in Seq(S) /\ Len(SubSeq(s, n + 1, Len(s))) = Len(s) - n
      /\ \A k \in 1 .. Len(s) - n : SubSeq(s, n + 1, Len(s))[k] = s[k + n]
  BY LenProperties
<1> QED BY <1>1, SeqEqual

\* The front of a sequence grows by its next item.
LEMMA FrontGrows ==
    ASSUME NEW S, NEW s \in Seq(S), NEW n \in 0 .. Len(s) - 1
    PROVE  /\ SubSeq(s, 1, n) \in Seq(S) /\ s[n + 1] \in S
           /\ SubSeq(s, 1, n + 1) = Append(SubSeq(s, 1, n), s[n + 1])
<1> DEFINE u == SubSeq(s, 1, n)
           x == s[n + 1]
<1>1. Len(s) \in Nat /\ n \in Nat /\ n + 1 \in 1 .. Len(s) /\ n + 1 \in 0 .. Len(s)
  BY LenProperties
<1>2. x \in S
  BY <1>1, ElementOfSeq
<1>3. u \in Seq(S) /\ Len(u) = n /\ \A k \in 1 .. n : u[k] = s[k]
  BY <1>1
<1>4. x = s[n + 1]
  OBVIOUS
<1> HIDE DEF u, x
<1>5. /\ Append(u, x) \in Seq(S) /\ Len(Append(u, x)) = n + 1
      /\ \A k \in 1 .. n : Append(u, x)[k] = u[k]
      /\ Append(u, x)[n + 1] = x
  BY <1>2, <1>3, AppendProperties
<1>6. ASSUME NEW k \in 1 .. n + 1 PROVE Append(u, x)[k] = s[k]
  <2>1. k = n + 1 \/ k \in 1 .. n
    BY <1>1
  <2> QED BY <2>1, <1>3, <1>4, <1>5
<1>7. Append(u, x) = SubSeq(s, 1, n + 1)
  BY <1>1, <1>5, <1>6, FrontItems, Zenon
<1> QED BY <1>2, <1>3, <1>7 DEF u, x

Joined(r, s, t) == (r \o s) \o t = r \o (s \o t)

\* Three sequences are joined in either order.
LEMMA JoinedAlike == \A S : \A r, s, t \in Seq(S) : Joined(r, s, t)
BY ConcatAssociative DEF Joined

\* So does a sequence that it is joined to.
LEMMA JoinGrows ==
    ASSUME NEW S, NEW c \in Seq(S), NEW s \in Seq(S), NEW n \in 0 .. Len(s) - 1
    PROVE  Append(c \o SubSeq(s, 1, n), s[n + 1]) = c \o SubSeq(s, 1, n + 1)
<1> DEFINE u == SubSeq(s, 1, n)
           x == s[n + 1]
<1>1. u \in Seq(S) /\ x \in S /\ SubSeq(s, 1, n + 1) = Append(u, x)
  BY FrontGrows
<1> HIDE DEF u, x
<1>2. Append(u, x) = u \o <<x>> /\ <<x>> \in Seq(S) /\ c \o u \in Seq(S)
  BY <1>1, AppendIsConcat, ConcatProperties
<1>3. Append(c \o u, x) = (c \o u) \o <<x>>
  BY <1>1, <1>2, AppendIsConcat
<1>4. (c \o u) \o <<x>> = c \o (u \o <<x>>)
  <2> DEFINE v == <<x>>
  <2>1. u \in Seq(S) /\ v \in Seq(S)
    BY <1>1, <1>2
  <2> HIDE DEF v
  <2>2. Joined(c, u, v)
    BY <2>1, JoinedAlike
  <2> QED BY <2>2 DEF v, Joined
<1>5. Append(c \o u, x) = c \o SubSeq(s, 1, n + 1)
  BY <1>1, <1>2, <1>3, <1>4
<1> QED BY <1>5 DEF u, x

\* The loop of ringbuf_write_mem puts all its bytes after those there are.
LEMMA PutAll ==
    ASSUME NEW b \in Buffers, NEW bytes \in Seq(Byte), b.size + Len(bytes) <= RINGBUF_SIZE
    PROVE  /\ FoldLeft(Put, b, bytes) \in Buffers
           /\ Content(FoldLeft(Put, b, bytes)) = Content(b) \o bytes
<1> DEFINE m == Len(bytes)
           all == Loops!Folded(b, bytes)
<1>1. all = FoldLeft(Put, b, bytes)
  BY Zenon DEF Loops!Folded, Loops!FoldLeft, FoldLeft, Loops!MapThenFoldSet, MapThenFoldSet,
               Loops!Max, Max
<1>2. PICK f \in [0 .. m -> Buffers] : Loops!Trace(f, b, bytes)
  BY PutType, Loops!Fold, Zenon
<1>3. f[0] = b /\ all = f[m] /\ \A n \in 1 .. m : f[n] = Put(f[n - 1], bytes[n])
  BY <1>2 DEF Loops!Trace
<1>4. m \in Nat /\ b.size \in Nat /\ Content(b) \in Seq(Byte) /\ \A n \in 1 .. m : bytes[n] \in Byte
  <2>1. b.size \in Nat
    BY RingAssumption DEF Buffers
  <2> QED BY <2>1, ContentBytes, LenProperties, ElementOfSeq
<1> HIDE DEF all, m
<1> DEFINE T == {n \in 0 .. m : /\ f[n].size = b.size + n
                                /\ Content(f[n]) = Content(b) \o SubSeq(bytes, 1, n)}
<1>5. 0 \in T
  <2>1. SubSeq(bytes, 1, 0) = <<>>
    OBVIOUS
  <2>2. Content(b) \o <<>> = Content(b)
    BY <1>4
  <2> QED BY <1>3, <1>4, <2>1, <2>2
<1>6. ASSUME NEW n \in 0 .. m - 1, n \in T PROVE n + 1 \in T
  <2>1. n + 1 \in 1 .. m /\ (n + 1) - 1 = n /\ n \in 0 .. m
    BY <1>4
  <2>2. f[n] \in Buffers /\ bytes[n + 1] \in Byte /\ f[n].size = b.size + n /\ b.size + n < RINGBUF_SIZE
    <3>1. f[n] \in Buffers /\ bytes[n + 1] \in Byte
      BY <1>2, <1>4, <2>1
    <3>2. n < m /\ RINGBUF_SIZE \in Nat
      BY <1>4, RingAssumption
    <3> QED BY <3>1, <3>2, <1>4, <1>6 DEF m
  <2>3. f[n + 1] = Put(f[n], bytes[n + 1])
    BY <1>3, <2>1
  <2>4. f[n + 1].size = b.size + (n + 1)
        /\ Content(f[n + 1]) = Append(Content(f[n]), bytes[n + 1])
    <3> HIDE DEF T
    <3>1. f[n].size < RINGBUF_SIZE /\ f[n] \in Buffers /\ bytes[n + 1] \in Byte
      BY <2>2
    <3>2. /\ Put(f[n], bytes[n + 1]).size = f[n].size + 1
          /\ Content(Put(f[n], bytes[n + 1])) = Append(Content(f[n]), bytes[n + 1])
      BY <3>1, PutByte
    <3>3. n \in Int /\ (b.size + n) + 1 = b.size + (n + 1)
      <4> DEFINE z == b.size
      <4>1. z \in Nat
        BY <1>4
      <4> HIDE DEF z
      <4>2. (z + n) + 1 = z + (n + 1)
        BY <4>1
      <4> QED BY <4>2 DEF z
    <3> QED BY <2>2, <2>3, <3>2, <3>3
  <2>5. Append(Content(b) \o SubSeq(bytes, 1, n), bytes[n + 1]) = Content(b) \o SubSeq(bytes, 1, n + 1)
    <3> HIDE DEF T
    <3> QED BY <1>4, <2>1, JoinGrows DEF m
  <2>6. n \in 0 .. m /\ Content(f[n]) = Content(b) \o SubSeq(bytes, 1, n)
    BY <1>6, <2>1
  <2>7. Content(f[n + 1]) = Content(b) \o SubSeq(bytes, 1, n + 1)
    BY <2>4, <2>5, <2>6
  <2>8. n + 1 \in 0 .. m
    BY <2>1
  <2> QED BY <2>4, <2>7, <2>8
<1>7. 0 .. m \subseteq T
  <2> HIDE DEF T
  <2> QED BY <1>4, <1>5, <1>6, Loops!InductionTo
<1>8. m \in 0 .. m /\ SubSeq(bytes, 1, m) = bytes
  BY <1>4 DEF m
<1>9. Content(all) = Content(b) \o bytes /\ all \in Buffers
  BY <1>2, <1>3, <1>7, <1>8
<1> QED BY <1>1, <1>9

\* The n oldest bytes are the front of what there is; the others stay.
LEMMA DropBytes ==
    ASSUME NEW b \in Buffers, NEW n \in 0 .. b.size
    PROVE  /\ Drop(b, n) \in Buffers
           /\ Oldest(b, n) = SubSeq(Content(b), 1, n)
           /\ Content(Drop(b, n)) = SubSeq(Content(b), n + 1, b.size)
<1> DEFINE c == Drop(b, n)
<1>1. /\ RINGBUF_SIZE \in Nat \ {0} /\ b.size \in 0 .. RINGBUF_SIZE /\ b.head \in Index /\ b.data \in [Index -> Byte]
      /\ b.tail \in Index /\ b.tail = Place(b.head, b.size)
      /\ b.size \in 0 .. b.size
  BY RingAssumption DEF Buffers
<1>2. n \in 0 .. RINGBUF_SIZE /\ b.size - n \in 0 .. RINGBUF_SIZE
  BY <1>1, RingAssumption
<1>3. c = [head |-> Place(b.head, n), tail |-> b.tail, size |-> b.size - n, data |-> b.data]
      /\ Place(b.head, n) \in Index
  <2>1. b = [head |-> b.head, tail |-> b.tail, size |-> b.size, data |-> b.data]
    BY DEF Buffers
  <2>2. c = [b EXCEPT !.head = (b.head + n) % RINGBUF_SIZE, !.size = b.size - n]
    BY DEF Drop
  <2>3. (b.head + n) % RINGBUF_SIZE = Place(b.head, n) /\ Place(b.head, n) \in Index
    BY <1>1, <1>2, Wrap
  <2> QED BY <2>1, <2>2, <2>3
<1> HIDE DEF c
<1>4. c \in Buffers
  <2>1. Place(b.head, b.size) = Place(Place(b.head, n), b.size - n)
    <3>1. n + (b.size - n) = b.size /\ b.size <= RINGBUF_SIZE
      BY <1>1, <1>2
    <3> QED BY <1>1, <1>2, <3>1, PlaceAgain
  <2>2. c.tail = Place(c.head, c.size)
    BY <1>1, <1>3, <2>1
  <2> QED BY <1>1, <1>2, <1>3, <2>2 DEF Buffers
<1>5. /\ Content(b) \in Seq(Byte) /\ Len(Content(b)) = b.size
      /\ \A k \in 1 .. b.size : Content(b)[k] = b.data[Place(b.head, k - 1)]
  BY ContentBytes
<1>6. /\ Oldest(b, n) \in Seq(Byte) /\ Len(Oldest(b, n)) = n
      /\ \A k \in 1 .. n : Oldest(b, n)[k] = b.data[Place(b.head, k - 1)]
  BY OldestBytes
<1>7. /\ Content(c) \in Seq(Byte) /\ Len(Content(c)) = b.size - n
      /\ \A k \in 1 .. b.size - n : Content(c)[k] = b.data[Place(c.head, k - 1)]
  <2>1. c.size = b.size - n /\ c.data = b.data
    BY <1>3
  <2> QED BY <2>1, <1>4, ContentBytes
<1>8. Oldest(b, n) = SubSeq(Content(b), 1, n)
  <2>1. \A k \in 1 .. n : k \in 1 .. b.size
    BY <1>1
  <2>2. \A k \in 1 .. n : Oldest(b, n)[k] = Content(b)[k]
    BY <1>5, <1>6, <2>1
  <2>3. n \in 0 .. Len(Content(b))
    BY <1>5
  <2> QED BY <1>5, <1>6, <2>2, <2>3, FrontItems, Zenon
<1>9. Content(c) = SubSeq(Content(b), n + 1, Len(Content(b)))
  <2>1. ASSUME NEW k \in 1 .. b.size - n PROVE Content(c)[k] = Content(b)[k + n]
    <3>1. k + n \in 1 .. b.size /\ (k + n) - 1 = n + (k - 1)
      BY <1>1, <1>2
    <3>2. Place(c.head, k - 1) = Place(b.head, n + (k - 1))
      <4>1. k - 1 \in 0 .. RINGBUF_SIZE /\ n + (k - 1) <= RINGBUF_SIZE
        BY <1>1, <1>2
      <4>2. Place(Place(b.head, n), k - 1) = Place(b.head, n + (k - 1))
        BY <1>1, <1>2, <4>1, PlaceAgain
      <4> QED BY <4>2, <1>3
    <3> QED BY <1>5, <1>7, <3>1, <3>2
  <2>2. n \in 0 .. Len(Content(b))
    BY <1>5
  <2>3. /\ Len(Content(c)) = Len(Content(b)) - n
        /\ \A k \in 1 .. Len(Content(b)) - n : Content(c)[k] = Content(b)[k + n]
    BY <1>5, <1>7, <2>1
  <2> QED BY <1>5, <1>7, <2>2, <2>3, RestItems, Zenon
<1> QED BY <1>4, <1>5, <1>8, <1>9 DEF c
-----------------------------------------------------------------------------
\* A flushed buffer is empty, whatever its data.
LEMMA MemsetEmpty ==
    ASSUME NEW b \in Buffers PROVE Memset(b) \in Buffers /\ Content(Memset(b)) = <<>>
<1>1. RINGBUF_SIZE \in Nat \ {0} /\ 0 \in Byte /\ 0 \in Index /\ b.data \in [Index -> Byte]
  BY RingAssumption DEF Buffers, Index
<1>2. Memset(b).data \in [Index -> Byte]
  BY <1>1 DEF Memset
<1>3. Memset(b) \in Buffers
  BY <1>1, <1>2 DEF Memset, Buffers, Place
<1>4. Memset(b).size = 0
  BY DEF Memset
<1> QED BY <1>3, <1>4 DEF Content, Oldest

\* The inductive invariant of the ring buffer.
RingBufInv == buf \in Buffers /\ mem \in Seq(Byte) /\ ret \in -1 .. RINGBUF_SIZE

\* A zeroed buffer has its cursors in agreement.
LEMMA RingInitInv == RingInit => RingBufInv
<1> SUFFICES ASSUME RingInit PROVE RingBufInv
  OBVIOUS
<1>1. RINGBUF_SIZE \in Nat \ {0} /\ 0 \in Byte /\ 0 \in Index
  BY RingAssumption DEF Index
<1> QED BY <1>1 DEF RingInit, RingBufInv, Buffers, Place

\* Sequences up to a length are sequences.
LEMMA BoundedBytes ==
    ASSUME NEW bytes \in BoundedSeq(Byte, MaxLen) PROVE bytes \in Seq(Byte)
BY RingAssumption DEF BoundedSeq, SeqOf

\* Every call keeps the cursors in agreement.
LEMMA RingNextInv == RingBufInv /\ [RingNext]_ringVars => RingBufInv'
<1> SUFFICES ASSUME RingBufInv, [RingNext]_ringVars PROVE RingBufInv'
  OBVIOUS
<1>1. /\ RINGBUF_SIZE \in Nat \ {0} /\ buf \in Buffers /\ buf.size \in 0 .. RINGBUF_SIZE
      /\ mem \in Seq(Byte) /\ ret \in -1 .. RINGBUF_SIZE
  BY RingAssumption DEF RingBufInv, Buffers
<1>2. \A n \in 0 .. buf.size : Oldest(buf, n) \in Seq(Byte)
  BY <1>1, OldestBytes
<1>3. \A n \in 0 .. buf.size : Drop(buf, n) \in Buffers
  BY <1>1, DropBytes
<1>4. ASSUME NEW byte \in Byte, ringbuf_write(byte) PROVE RingBufInv'
  <2>1. Put(buf, byte) \in Buffers
    BY <1>1, PutType
  <2> QED BY <1>1, <1>4, <2>1 DEF ringbuf_write, RingBufInv
<1>5. CASE ringbuf_read
  <2>1. CASE buf.size = 0
    BY <1>1, <1>5, <2>1 DEF ringbuf_read, RingBufInv
  <2>2. CASE buf.size # 0
    <3>1. 1 \in 0 .. buf.size
      BY <1>1, <2>2
    <3> QED BY <1>1, <1>2, <1>3, <1>5, <2>2, <3>1 DEF ringbuf_read, RingBufInv
  <2> QED BY <2>1, <2>2
<1>6. ASSUME NEW bytes \in BoundedSeq(Byte, MaxLen), ringbuf_write_mem(bytes) PROVE RingBufInv'
  <2>1. ret' \in -1 .. RINGBUF_SIZE /\ mem' = mem
    BY <1>1, <1>6 DEF ringbuf_write_mem
  <2>2. buf' \in Buffers
    <3>1. CASE buf.size + Len(bytes) > RINGBUF_SIZE /\ UNCHANGED buf
      BY <1>1, <3>1
    <3>2. CASE buf.size + Len(bytes) <= RINGBUF_SIZE /\ buf' = FoldLeft(Put, buf, bytes)
      BY <1>1, <3>2, BoundedBytes, PutAll
    <3> QED BY <1>6, <3>1, <3>2 DEF ringbuf_write_mem
  <2> QED BY <1>1, <2>1, <2>2 DEF RingBufInv
<1>7. ASSUME NEW n \in 0 .. MaxLen, ringbuf_read_mem(n) PROVE RingBufInv'
  <2> DEFINE count == IF n < buf.size THEN n ELSE buf.size
  <2>1. count \in 0 .. buf.size /\ count \in -1 .. RINGBUF_SIZE
    BY <1>1, RingAssumption
  <2>2. ret' = count /\ mem' = Oldest(buf, count) /\ buf' = Drop(buf, count)
    BY <1>7 DEF ringbuf_read_mem
  <2> HIDE DEF count
  <2> QED BY <1>1, <1>2, <1>3, <2>1, <2>2 DEF RingBufInv
<1>8. CASE ringbuf_flush
  BY <1>1, <1>8, MemsetEmpty DEF ringbuf_flush, RingBufInv
<1>9. CASE UNCHANGED ringVars
  BY <1>9 DEF ringVars, RingBufInv
<1> QED BY <1>4, <1>5, <1>6, <1>7, <1>8, <1>9 DEF RingNext

\* The cursors of src/ringbuf.c agree after any calls, for every buffer size.
THEOREM RingBufInvariant == RingSpec => []RingBufInv
<1> QED BY RingInitInv, RingNextInv, PTL DEF RingSpec

\* The cursors stay in the data and the size within its bound: no call of
\* ringbuf.c reads or writes beyond the buffer.
THEOREM RingTypeCorrect == RingSpec => []RingTypeOK
<1>1. RingBufInv => RingTypeOK
  BY DEF RingBufInv, RingTypeOK, Buffers
<1> QED BY <1>1, RingBufInvariant, PTL
-----------------------------------------------------------------------------
\* One byte is a sequence that may be written.
LEMMA OneByte ==
    ASSUME NEW byte \in Byte
    PROVE  /\ <<byte>> \in BoundedSeq(Byte, MaxLen) /\ <<byte>> \in Seq(Byte)
           /\ Len(<<byte>>) = 1
<1>1. <<byte>> \in [1 .. 1 -> Byte] /\ 1 \in 0 .. MaxLen
  BY RingAssumption
<1> QED BY <1>1 DEF BoundedSeq, SeqOf

\* What the buffer holds is as long as its size says.
LEMMA StreamLength ==
    ASSUME RingBufInv
    PROVE  /\ RINGBUF_SIZE \in Nat \ {0} /\ buf \in Buffers
           /\ buf.size \in 0 .. RINGBUF_SIZE
           /\ Content(buf) \in Seq(Byte) /\ Len(Content(buf)) = buf.size
<1>1. buf \in Buffers /\ buf.size \in 0 .. RINGBUF_SIZE /\ RINGBUF_SIZE \in Nat \ {0}
  BY RingAssumption DEF RingBufInv, Buffers
<1> QED BY <1>1, ContentBytes

\* ringbuf_write is a write of one byte.
LEMMA WriteStep == ASSUME RingBufInv, NEW byte \in Byte, ringbuf_write(byte) PROVE Stream!Write(<<byte>>)
<1>1. /\ RINGBUF_SIZE \in Nat \ {0} /\ buf \in Buffers /\ buf.size \in 0 .. RINGBUF_SIZE
      /\ Content(buf) \in Seq(Byte) /\ Len(Content(buf)) = buf.size
  BY StreamLength
<1>2. ret' = (IF buf.size = RINGBUF_SIZE THEN -1 ELSE 0) /\ buf' = Put(buf, byte) /\ mem' = mem
  BY DEF ringbuf_write
<1>3. CASE buf.size = RINGBUF_SIZE
  <2>1. buf' = buf
    BY <1>2, <1>3 DEF Put
  <2>2. Content(buf)' = Content(buf)
    BY <2>1 DEF Content, Oldest
  <2> QED BY <1>1, <1>2, <1>3, <2>2, OneByte DEF Stream!Write, Content
<1>4. CASE buf.size # RINGBUF_SIZE
  <2>1. Content(Put(buf, byte)) = Append(Content(buf), byte)
    BY <1>1, <1>4, PutByte
  <2>2. Content(buf)' = Content(buf')
    BY DEF Content, Oldest
  <2>3. Append(Content(buf), byte) = Content(buf) \o <<byte>>
    BY <1>1, AppendIsConcat
  <2>4. Content(buf)' = Content(buf) \o <<byte>>
    BY <1>2, <2>1, <2>2, <2>3
  <2> QED BY <1>1, <1>2, <1>4, <2>4, OneByte DEF Stream!Write, Content
<1> QED BY <1>3, <1>4

\* ringbuf_write_mem writes all its bytes or none.
LEMMA WriteMemStep ==
    ASSUME RingBufInv, NEW bytes \in BoundedSeq(Byte, MaxLen), ringbuf_write_mem(bytes)
    PROVE  Stream!Write(bytes)
<1>1. /\ RINGBUF_SIZE \in Nat \ {0} /\ buf \in Buffers /\ buf.size \in 0 .. RINGBUF_SIZE
      /\ Content(buf) \in Seq(Byte) /\ Len(Content(buf)) = buf.size
  BY StreamLength
<1>2. bytes \in Seq(Byte) /\ Len(bytes) \in Nat
  BY BoundedBytes, LenProperties
<1>3. mem' = mem
  BY DEF ringbuf_write_mem
<1>4. CASE buf.size + Len(bytes) > RINGBUF_SIZE
  <2>1. ret' = -1 /\ buf' = buf
    BY <1>1, <1>2, <1>4 DEF ringbuf_write_mem
  <2>2. Content(buf)' = Content(buf)
    BY <2>1 DEF Content, Oldest
  <2> QED BY <1>1, <1>3, <1>4, <2>1, <2>2 DEF Stream!Write, Content
<1>5. CASE buf.size + Len(bytes) <= RINGBUF_SIZE
  <2>1. ret' = 0 /\ buf' = FoldLeft(Put, buf, bytes)
    BY <1>1, <1>2, <1>5 DEF ringbuf_write_mem
  <2>2. Content(FoldLeft(Put, buf, bytes)) = Content(buf) \o bytes
    BY <1>1, <1>2, <1>5, PutAll
  <2>3. Content(buf)' = Content(buf')
    BY DEF Content, Oldest
  <2>4. Content(buf)' = Content(buf) \o bytes
    BY <2>1, <2>2, <2>3
  <2> QED BY <1>1, <1>3, <1>5, <2>1, <2>4 DEF Stream!Write, Content
<1> QED BY <1>1, <1>2, <1>4, <1>5

\* ringbuf_read_mem reads what there is, the oldest bytes first.
LEMMA ReadMemStep ==
    ASSUME RingBufInv, NEW n \in 0 .. MaxLen, ringbuf_read_mem(n) PROVE Stream!Read(n)
<1> DEFINE count == IF n < buf.size THEN n ELSE buf.size
<1>1. /\ RINGBUF_SIZE \in Nat \ {0} /\ buf \in Buffers /\ buf.size \in 0 .. RINGBUF_SIZE
      /\ Content(buf) \in Seq(Byte) /\ Len(Content(buf)) = buf.size
  BY StreamLength
<1>2. count \in 0 .. buf.size
  BY <1>1, RingAssumption
<1>3. ret' = count /\ mem' = Oldest(buf, count) /\ buf' = Drop(buf, count)
  BY DEF ringbuf_read_mem
<1>4. count = IF n < Len(Content(buf)) THEN n ELSE Len(Content(buf))
  BY <1>1
<1> HIDE DEF count
<1>5. /\ Oldest(buf, count) = SubSeq(Content(buf), 1, count)
      /\ Content(Drop(buf, count)) = SubSeq(Content(buf), count + 1, buf.size)
  BY <1>1, <1>2, DropBytes
<1>6. Content(buf)' = Content(buf')
  BY DEF Content, Oldest
<1>7. /\ mem' = SubSeq(Content(buf), 1, count)
      /\ Content(buf)' = SubSeq(Content(buf), count + 1, Len(Content(buf)))
  BY <1>1, <1>3, <1>5, <1>6
<1> QED BY <1>3, <1>4, <1>7 DEF Stream!Read, Content

\* ringbuf_read delivers the oldest byte, or fails when there is none.
LEMMA ReadStep == ASSUME RingBufInv, ringbuf_read PROVE Stream!ReadByte
<1>1. /\ RINGBUF_SIZE \in Nat \ {0} /\ buf \in Buffers /\ buf.size \in 0 .. RINGBUF_SIZE
      /\ Content(buf) \in Seq(Byte) /\ Len(Content(buf)) = buf.size
  BY StreamLength
<1>2. CASE buf.size = 0
  <2>1. ret' = -1 /\ buf' = buf /\ mem' = mem
    BY <1>2 DEF ringbuf_read
  <2>2. Content(buf)' = Content(buf)
    BY <2>1 DEF Content, Oldest
  <2>3. Content(buf) = <<>>
    BY <1>1, <1>2
  <2> QED BY <2>1, <2>2, <2>3 DEF Stream!ReadByte, Content
<1>3. CASE buf.size # 0
  <2>1. mem' = Oldest(buf, 1) /\ buf' = Drop(buf, 1) /\ ret' = 0
    BY <1>3 DEF ringbuf_read
  <2>2. 1 \in 0 .. buf.size
    BY <1>1, <1>3
  <2>3. /\ Oldest(buf, 1) = SubSeq(Content(buf), 1, 1)
        /\ Content(Drop(buf, 1)) = SubSeq(Content(buf), 1 + 1, buf.size)
    BY <1>1, <2>2, DropBytes
  <2>4. Content(buf)' = Content(buf')
    BY DEF Content, Oldest
  <2>5. SubSeq(Content(buf), 1, 1) = <<Head(Content(buf))>> /\ Content(buf) # <<>>
    <3>1. Content(buf) # <<>> /\ Content(buf)[1] \in Byte
      BY <1>1, <2>2, ElementOfSeq
    <3>2. Head(Content(buf)) = Content(buf)[1]
      BY <1>1, <3>1
    <3>3. /\ SubSeq(Content(buf), 1, 1) \in Seq(Byte) /\ Len(SubSeq(Content(buf), 1, 1)) = 1
          /\ SubSeq(Content(buf), 1, 1)[1] = Content(buf)[1]
      BY <1>1, <2>2
    <3>4. <<Content(buf)[1]>> \in Seq(Byte) /\ Len(<<Content(buf)[1]>>) = 1
      BY <3>1
    <3>5. \A k \in 1 .. 1 : SubSeq(Content(buf), 1, 1)[k] = <<Content(buf)[1]>>[k]
      BY <3>3
    <3>6. SubSeq(Content(buf), 1, 1) = <<Content(buf)[1]>>
      BY <3>3, <3>4, <3>5, SeqEqual
    <3> QED BY <3>1, <3>2, <3>6
  <2>6. SubSeq(Content(buf), 1 + 1, buf.size) = Tail(Content(buf))
    BY <1>1, <2>2, <2>5
  <2>7. mem' = <<Head(Content(buf))>> /\ Content(buf)' = Tail(Content(buf))
    BY <2>1, <2>3, <2>4, <2>5, <2>6
  <2> QED BY <2>1, <2>5, <2>7 DEF Stream!ReadByte, Content
<1> QED BY <1>2, <1>3

\* src/ringbuf.c is a bounded byte stream: every behaviour of the buffer with
\* its wrapping cursors, and with the data a flush leaves behind, is a
\* behaviour of ByteStream, for every size of the buffer and of its cursors.
THEOREM RingRefinement == RingSpec => ImplementsStream
<1>1. RingInit => Stream!Init
  BY DEF RingInit, Stream!Init, Oldest
<1>2. RingBufInv /\ [RingNext]_ringVars => [Stream!Next]_(Stream!vars)
  <2> SUFFICES ASSUME RingBufInv, [RingNext]_ringVars PROVE [Stream!Next]_(Stream!vars)
    OBVIOUS
  <2>1. ASSUME NEW byte \in Byte, ringbuf_write(byte) PROVE Stream!Next
    BY <2>1, WriteStep, OneByte
       DEF Stream!Next, Stream!BoundedSeq, Stream!SeqOf, BoundedSeq, SeqOf
  <2>2. CASE ringbuf_read
    BY <2>2, ReadStep DEF Stream!Next
  <2>3. ASSUME NEW bytes \in BoundedSeq(Byte, MaxLen), ringbuf_write_mem(bytes) PROVE Stream!Next
    BY <2>3, WriteMemStep
       DEF Stream!Next, Stream!BoundedSeq, Stream!SeqOf, BoundedSeq, SeqOf
  <2>4. ASSUME NEW n \in 0 .. MaxLen, ringbuf_read_mem(n) PROVE Stream!Next
    BY <2>4, ReadMemStep DEF Stream!Next
  <2>5. CASE ringbuf_flush
    <3>1. ret' = 0 /\ mem' = mem /\ buf' = Memset(buf)
      BY <2>5 DEF ringbuf_flush
    <3>2. Content(buf)' = Content(buf')
      BY DEF Content, Oldest
    <3>3. Content(buf)' = <<>>
      BY <3>1, <3>2, StreamLength, MemsetEmpty
    <3> QED BY <3>1, <3>3 DEF Stream!Next, Stream!Flush, Content
  <2>6. CASE UNCHANGED ringVars
    BY <2>6 DEF ringVars, Stream!vars, Oldest
  <2> QED BY <2>1, <2>2, <2>3, <2>4, <2>5, <2>6 DEF RingNext
<1> QED BY <1>1, <1>2, RingBufInvariant, PTL DEF RingSpec, ImplementsStream, Stream!Spec
=============================================================================
