-------------------------- MODULE SchedulerProofs --------------------------
(***************************************************************************)
(* Type correctness, Placement, NeverPanics and the refinement of          *)
(* RoundRobin for every table size, time slice, number of boot processes   *)
(* and set of sleep times.  The inductive invariant adds to them where the *)
(* ticks of a time slice are: a process that waits has used none, and one  *)
(* that runs has some left.                                                *)
(***************************************************************************)
EXTENDS Scheduler, SequenceTheorems, FunctionTheorems, FiniteSetTheorems, TLAPS

SliceInv == /\ \A e \in Entry : state[e] = "IDLE" => cpu_time[e] = 0
            /\ pc = "user" /\ active_proc # None
                 => cpu_time[active_proc] < SCHEDULER_TIMESLICE

IInv == SchedTypeOK /\ Placement /\ NeverPanics /\ SliceInv
-----------------------------------------------------------------------------
\* A function that is updated with a value of its range keeps its type.
LEMMA ExceptType ==
    ASSUME NEW S, NEW T, NEW f \in [S -> T], NEW x, NEW v \in T
    PROVE  [f EXCEPT ![x] = v] \in [S -> T]
OBVIOUS

\* Queues as sets of what they hold: what queueing and dequeueing change.
LEMMA HoldsType ==
    ASSUME NEW S, NEW q \in Seq(S), NEW x, Holds(q, x)
    PROVE  x \in S
BY DEF Holds

\* What a queue holds after an item is appended.
LEMMA AppendHolds ==
    ASSUME NEW S, NEW q \in Seq(S), NEW x \in S
    PROVE  /\ Append(q, x) \in Seq(S)
           /\ \A y : Holds(Append(q, x), y) <=> Holds(q, y) \/ y = x
           /\ IsInjectiveSeq(q) /\ ~Holds(q, x) => IsInjectiveSeq(Append(q, x))
<1>1. /\ Append(q, x) \in Seq(S)
      /\ Len(Append(q, x)) = Len(q) + 1
      /\ \A i \in 1 .. Len(q) : Append(q, x)[i] = q[i]
      /\ Append(q, x)[Len(q) + 1] = x
      /\ Len(q) \in Nat
  BY AppendProperties, LenProperties
<1>2. \A i \in 1 .. Len(q) + 1 : i = Len(q) + 1 \/ i \in 1 .. Len(q)
  BY <1>1
<1>3. \A y : Holds(Append(q, x), y) <=> Holds(q, y) \/ y = x
  BY <1>1, <1>2 DEF Holds
<1>4. ASSUME IsInjectiveSeq(q), ~Holds(q, x)
      PROVE  IsInjectiveSeq(Append(q, x))
  BY <1>1, <1>2, <1>4 DEF IsInjectiveSeq, Holds
<1> QED BY <1>1, <1>3, <1>4

\* What a queue without repetitions holds after its head is taken.
LEMMA TailHolds ==
    ASSUME NEW S, NEW q \in Seq(S), q # <<>>, IsInjectiveSeq(q)
    PROVE  /\ Tail(q) \in Seq(S)
           /\ Head(q) \in S
           /\ Holds(q, Head(q))
           /\ IsInjectiveSeq(Tail(q))
           /\ \A y : Holds(Tail(q), y) <=> Holds(q, y) /\ y # Head(q)
<1>1. /\ Tail(q) \in Seq(S)
      /\ Len(Tail(q)) = Len(q) - 1
      /\ \A i \in 1 .. Len(Tail(q)) : Tail(q)[i] = q[i + 1]
      /\ Head(q) \in S /\ Head(q) = q[1]
      /\ Len(q) \in Nat \ {0}
  BY HeadTailProperties, LenProperties, EmptySeq
<1>2. \A i \in 1 .. Len(q) - 1 : i + 1 \in 1 .. Len(q) /\ i + 1 # 1
  BY <1>1
<1>3. \A i \in 1 .. Len(q) : i = 1 \/ (i - 1 \in 1 .. Len(q) - 1 /\ (i - 1) + 1 = i)
  BY <1>1
<1>4. 1 \in 1 .. Len(q)
  BY <1>1
<1>5. Holds(q, Head(q))
  BY <1>1, <1>4 DEF Holds
<1>6. IsInjectiveSeq(Tail(q))
  BY <1>1, <1>2 DEF IsInjectiveSeq
<1>7. ASSUME NEW y PROVE Holds(Tail(q), y) <=> Holds(q, y) /\ y # Head(q)
  BY <1>1, <1>2, <1>3, <1>4 DEF Holds, IsInjectiveSeq
<1> QED BY <1>1, <1>5, <1>6, <1>7

\* The process table has PROC_MAX entries.
LEMMA EntryCount == IsFiniteSet(Entry) /\ Cardinality(Entry) = PROC_MAX
<1>1. Cardinality(0 .. PROC_MAX - 1) = (PROC_MAX - 1) - 0 + 1
  BY SchedulerAssumption, FS_Interval
<1> QED BY <1>1, SchedulerAssumption, FS_Interval DEF Entry

\* A queue without repetitions is no longer than the set of entries behind it.
LEMMA QueueCount ==
    ASSUME NEW S, NEW q \in Seq(S), IsInjectiveSeq(q),
           NEW T \in SUBSET Entry, NEW m \in [Entry -> S],
           \A x \in S : Holds(q, x) => \E e \in T : m[e] = x
    PROVE  /\ Len(q) \in Nat /\ IsFiniteSet(T) /\ Cardinality(T) \in Nat
           /\ Len(q) <= Cardinality(T)
<1>1. Len(q) \in Nat /\ \A k \in 1 .. Len(q) : q[k] \in S /\ Holds(q, q[k])
  BY LenProperties, ElementOfSeq DEF Holds
<1>2. PICK h \in [1 .. Len(q) -> T] : \A k \in 1 .. Len(q) : m[h[k]] = q[k]
  <2> DEFINE g == [k \in 1 .. Len(q) |-> CHOOSE e \in T : m[e] = q[k]]
  <2>1. \A k \in 1 .. Len(q) : \E e \in T : m[e] = q[k]
    BY <1>1
  <2>2. \A k \in 1 .. Len(q) : g[k] \in T /\ m[g[k]] = q[k]
    BY <2>1
  <2>3. g \in [1 .. Len(q) -> T]
    BY <2>1
  <2> QED BY <2>2, <2>3
<1>4. IsFiniteSet(T) /\ Cardinality(T) \in Nat
  <2>1. IsFiniteSet(T)
    BY EntryCount, FS_Subset
  <2> QED BY <2>1, FS_CardinalityType
<1>5. IsFiniteSet(1 .. Len(q)) /\ Cardinality(1 .. Len(q)) = Len(q)
  <2>1. /\ IsFiniteSet(1 .. Len(q))
        /\ Cardinality(1 .. Len(q)) = IF 1 > Len(q) THEN 0 ELSE Len(q) - 1 + 1
    BY <1>1, FS_Interval
  <2> QED BY <1>1, <2>1
<1>6. \A i, j \in 1 .. Len(q) : h[i] = h[j] => i = j
  BY <1>2 DEF IsInjectiveSeq
<1>7. h \in Injection(1 .. Len(q), T)
  BY <1>2, <1>6, Fun_IsInj
<1>8. Len(q) <= Cardinality(T)
  BY <1>4, <1>5, <1>7, FS_Injection
<1> QED BY <1>1, <1>4, <1>8

\* It fits, and has room left when one of the processes is elsewhere.
LEMMA QueueFits ==
    ASSUME NEW S, NEW q \in Seq(S), IsInjectiveSeq(q), NEW m \in [Entry -> S],
           \A x \in S : Holds(q, x) => \E e \in Entry : m[e] = x
    PROVE  Len(q) <= QUEUE_SIZE
<1>1. Len(q) \in Nat /\ Len(q) <= Cardinality(Entry)
  BY QueueCount
<1> QED BY <1>1, EntryCount, SchedulerAssumption

\* A queue of processes lacks one of the table, so that there is room for it.
LEMMA QueueNotFull ==
    ASSUME NEW S, NEW q \in Seq(S), IsInjectiveSeq(q),
           NEW T \in SUBSET Entry, T # Entry, NEW m \in [Entry -> S],
           \A x \in S : Holds(q, x) => \E e \in T : m[e] = x
    PROVE  Len(q) < QUEUE_SIZE
<1>1. Len(q) \in Nat /\ Cardinality(T) \in Nat /\ Len(q) <= Cardinality(T)
  BY QueueCount
<1>2. Cardinality(T) <= Cardinality(Entry) /\ Cardinality(T) # Cardinality(Entry)
  BY EntryCount, FS_Subset
<1> QED BY <1>1, <1>2, EntryCount, SchedulerAssumption
-----------------------------------------------------------------------------
\* The folds' lemmas, for the induction over the passes of a loop.
PassLoop == INSTANCE FoldProofs WITH Op <- QueueIn

\* Pass k of the loop of scheduler_remove over what the queue has become.
OnePass(r, k, p) == IF Len(r) < k THEN r
                    ELSE IF Head(r) = p THEN Tail(r) ELSE Append(Tail(r), Head(r))

\* f is what the queue q becomes, pass after pass.
IsPasses(f, q, p) == /\ f[0] = q
                     /\ \A k \in 1 .. Len(q) : f[k] = OnePass(f[k - 1], k, p)
                     /\ Without(q, p) = f[Len(q)]

\* The loop goes from the queue to what is left of it, pass after pass.
LEMMA WithoutRun ==
    ASSUME NEW S, NEW q \in Seq(S), NEW p
    PROVE  \E f \in [0 .. Len(q) -> Seq(S)] : IsPasses(f, q, p)
<1> DEFINE m == Len(q)
           A == Seq(S)
           step == [x \in A \X (1 .. m) |-> OnePass(x[1], x[2], p)]
           Body(F) == [k \in 0 .. m |->
                IF k = 0 THEN q
                ELSE LET r == F[k - 1]
                     IN  IF Len(r) < k THEN r
                         ELSE IF Head(r) = p THEN Tail(r) ELSE Append(Tail(r), Head(r))]
           G == CHOOSE F : F = Body(F)
<1>1. m \in Nat /\ q \in A
  BY LenProperties
<1>2. ASSUME NEW r \in A, NEW k \in 1 .. m PROVE OnePass(r, k, p) \in A
  <2>1. CASE Len(r) < k
    BY <2>1 DEF OnePass
  <2>2. CASE ~(Len(r) < k)
    <3>1. Len(r) \in Nat /\ r # <<>>
      BY <2>2, LenProperties, EmptySeq
    <3>2. Head(r) \in S /\ Tail(r) \in Seq(S)
      BY <3>1, HeadTailProperties
    <3>3. Append(Tail(r), Head(r)) \in Seq(S)
      BY <3>2, AppendProperties
    <3> QED BY <2>2, <3>2, <3>3 DEF OnePass
  <2> QED BY <2>1, <2>2
<1>3. step \in [A \X (1 .. m) -> A]
  <2> HIDE DEF A, m
  <2> QED BY <1>2
<1>4. PICK f \in [0 .. m -> A] : PassLoop!IsRun(f, m, q, step)
  <2> HIDE DEF A, m, step
  <2> QED BY <1>1, <1>3, PassLoop!Loop
<1>5. ASSUME NEW k \in 1 .. m PROVE f[k] = OnePass(f[k - 1], k, p)
  <2>1. k - 1 \in 0 .. m
    BY <1>1
  <2>2. <<f[k - 1], k>> \in A \X (1 .. m)
    BY <2>1
  <2>3. step[<<f[k - 1], k>>] = OnePass(f[k - 1], k, p)
    BY <2>2
  <2>4. f[k] = step[<<f[k - 1], k>>]
    <3> HIDE DEF step, A, m
    <3> QED BY <1>4 DEF PassLoop!IsRun
  <2> QED BY <2>3, <2>4
<1>6. f[0] = q
  BY <1>4 DEF PassLoop!IsRun
<1>7. f = Body(f)
  <2>1. ASSUME NEW k \in 0 .. m PROVE f[k] = Body(f)[k]
    <3>1. k # 0 => k \in 1 .. m
      BY <1>1
    <3> QED BY <1>5, <1>6, <3>1 DEF OnePass
  <2> QED BY <2>1
<1>8. G = Body(G)
  <2> HIDE DEF Body
  <2> QED BY <1>7
<1>9. Without(q, p) = G[m]
  BY DEF Without
<1> HIDE DEF G
<1>10. G[0] = q
  BY <1>1, <1>8
<1>11. ASSUME NEW k \in 1 .. m PROVE G[k] = OnePass(G[k - 1], k, p)
  <2>1. k \in 0 .. m /\ k # 0
    BY <1>1
  <2>2. G[k] = Body(G)[k]
    <3> HIDE DEF Body
    <3> QED BY <1>8
  <2>3. Body(G)[k] = OnePass(G[k - 1], k, p)
    BY <2>1 DEF OnePass
  <2> QED BY <2>2, <2>3
<1>12. \A k \in 0 .. m : PassLoop!Same(G, f, k)
  <2>1. ASSUME NEW k \in 1 .. m PROVE PassLoop!SameStep(G, f, k)
    BY <1>5, <1>11 DEF PassLoop!SameStep
  <2>2. G[0] = f[0]
    BY <1>6, <1>10
  <2> HIDE DEF m
  <2> QED BY <1>1, <2>1, <2>2, PassLoop!SameRun
<1>13. Without(q, p) = f[m]
  <2>1. m \in 0 .. m
    BY <1>1
  <2> QED BY <1>9, <1>12, <2>1 DEF PassLoop!Same
<1> QED BY <1>4, <1>5, <1>6, <1>13 DEF IsPasses

\* What the loop keeps of a queue: a queue of the same kind, of items it held.
LEMMA WithoutType ==
    ASSUME NEW S, NEW q \in Seq(S), NEW p
    PROVE  Without(q, p) \in Seq(S) /\ \A y : Holds(Without(q, p), y) => Holds(q, y)
<1> DEFINE T == {y \in S : Holds(q, y)}
<1>1. q \in Seq(T)
  <2>1. Len(q) \in Nat /\ \A k \in 1 .. Len(q) : q[k] \in S /\ Holds(q, q[k])
    BY LenProperties, ElementOfSeq DEF Holds
  <2>2. \A k \in 1 .. Len(q) : q[k] \in T
    BY <2>1
  <2> HIDE DEF T
  <2>3. q = [k \in 1 .. Len(q) |-> q[k]]
    OBVIOUS
  <2> QED BY <2>1, <2>2, <2>3
<1>2. Without(q, p) \in Seq(T)
  <2> HIDE DEF T
  <2>1. PICK f \in [0 .. Len(q) -> Seq(T)] : IsPasses(f, q, p)
    BY <1>1, WithoutRun
  <2>2. Len(q) \in 0 .. Len(q)
    BY LenProperties
  <2> QED BY <2>1, <2>2 DEF IsPasses
<1> DEFINE w == Without(q, p)
<1> HIDE DEF w
<1>3. w \in Seq(T)
  BY <1>2 DEF w
<1>4. \A k \in 1 .. Len(w) : w[k] \in T
  <2> HIDE DEF T
  <2> QED BY <1>3, ElementOfSeq
<1>5. w \in Seq(S)
  <2>1. Len(w) \in Nat /\ w = [k \in 1 .. Len(w) |-> w[k]]
    BY <1>3, LenProperties
  <2> QED BY <1>4, <2>1
<1>6. \A y : Holds(w, y) => Holds(q, y)
  BY <1>4 DEF Holds
<1> QED BY <1>5, <1>6 DEF w

\* q holds y once at most.
Once(q, y) == \A i, j \in 1 .. Len(q) : q[i] = y /\ q[j] = y => i = j

\* What a queue holds once, a queue of one pass more holds once at most.
LEMMA OnePassOnce ==
    ASSUME NEW S, NEW r \in Seq(S), NEW k \in Nat \ {0}, NEW p, NEW y, Once(r, y)
    PROVE  Once(OnePass(r, k, p), y)
<1>1. CASE Len(r) < k
  BY <1>1 DEF OnePass
<1>2. CASE ~(Len(r) < k)
  <2> DEFINE t == Tail(r)
             h == Head(r)
             u == Append(t, h)
  <2>1. r # <<>> /\ Len(r) \in Nat \ {0}
    BY <1>2, LenProperties, EmptySeq
  <2>2. /\ t \in Seq(S) /\ h \in S /\ Len(t) = Len(r) - 1 /\ h = r[1]
        /\ \A i \in 1 .. Len(t) : t[i] = r[i + 1]
    BY <2>1, HeadTailProperties
  <2> HIDE DEF t, h
  <2>3. /\ Len(u) = Len(t) + 1 /\ u[Len(t) + 1] = h
        /\ \A i \in 1 .. Len(t) : u[i] = t[i]
    BY <2>2, AppendProperties
  <2> HIDE DEF u
  <2>4. \A i \in 1 .. Len(t) : i + 1 \in 1 .. Len(r) /\ i + 1 # 1
    BY <2>1, <2>2
  <2>5. Once(t, y)
    BY <2>2, <2>4 DEF Once
  <2>6. \A i \in 1 .. Len(u) : u[i] = y => (i = Len(u) /\ r[1] = y) \/
                                     (i + 1 \in 1 .. Len(r) /\ i + 1 # 1 /\ r[i + 1] = y)
    <3> SUFFICES ASSUME NEW i \in 1 .. Len(u), u[i] = y
                 PROVE  (i = Len(u) /\ r[1] = y) \/
                        (i + 1 \in 1 .. Len(r) /\ i + 1 # 1 /\ r[i + 1] = y)
      OBVIOUS
    <3>1. i = Len(t) + 1 \/ i \in 1 .. Len(t)
      BY <2>1, <2>2, <2>3
    <3> QED BY <3>1, <2>2, <2>3, <2>4
  <2>7. Once(u, y)
    <3>1. 1 \in 1 .. Len(r)
      BY <2>1
    <3> SUFFICES ASSUME NEW i \in 1 .. Len(u), NEW j \in 1 .. Len(u), u[i] = y, u[j] = y
                 PROVE  i = j
      BY DEF Once
    <3> QED BY <2>6, <3>1 DEF Once
  <2> QED BY <1>2, <2>5, <2>7 DEF OnePass, t, h, u
<1> QED BY <1>1, <1>2

\* scheduler_remove repeats nothing that the queue holds once.
LEMMA WithoutOnce ==
    ASSUME NEW S, NEW q \in Seq(S), NEW p, NEW y, Once(q, y)
    PROVE  Once(Without(q, p), y)
<1>1. PICK f \in [0 .. Len(q) -> Seq(S)] : IsPasses(f, q, p)
  BY WithoutRun
<1> DEFINE T == {k \in 0 .. Len(q) : Once(f[k], y)}
<1>2. Len(q) \in Nat
  BY LenProperties
<1>3. 0 \in T
  BY <1>1, <1>2 DEF IsPasses
<1>4. ASSUME NEW k \in 0 .. Len(q) - 1, k \in T PROVE k + 1 \in T
  <2>1. k + 1 \in 1 .. Len(q) /\ (k + 1) - 1 = k /\ k \in 0 .. Len(q) /\ k + 1 \in Nat \ {0}
    BY <1>2
  <2>2. f[k + 1] = OnePass(f[k], k + 1, p) /\ f[k] \in Seq(S)
    BY <1>1, <2>1 DEF IsPasses
  <2>3. Once(f[k], y)
    BY <1>4
  <2>4. Once(OnePass(f[k], k + 1, p), y)
    BY <2>1, <2>2, <2>3, OnePassOnce
  <2> QED BY <2>1, <2>2, <2>4
<1>5. 0 .. Len(q) \subseteq T
  <2> HIDE DEF T
  <2> QED BY <1>2, <1>3, <1>4, PassLoop!InductionTo
<1> QED BY <1>1, <1>2, <1>5 DEF IsPasses

\* q after k of its items went from its head to its end.
Turned(r, q, k) ==
    /\ Len(r) = Len(q)
    /\ \A i \in 1 .. Len(q) : r[i] = IF k + i <= Len(q) THEN q[k + i] ELSE q[k + i - Len(q)]

\* A pass over another id turns the queue once more.
LEMMA OnePassTurns ==
    ASSUME NEW S, NEW q \in Seq(S), NEW r \in Seq(S), NEW p, ~Holds(q, p),
           NEW k \in 0 .. Len(q) - 1, Turned(r, q, k)
    PROVE  Turned(OnePass(r, k + 1, p), q, k + 1)
<1> DEFINE t == Tail(r)
           h == Head(r)
           u == Append(t, h)
<1>1. Len(q) \in Nat \ {0} /\ Len(r) = Len(q) /\ r # <<>>
  BY LenProperties, EmptySeq DEF Turned
<1>2. /\ t \in Seq(S) /\ h \in S /\ Len(t) = Len(q) - 1 /\ h = r[1]
      /\ \A i \in 1 .. Len(t) : t[i] = r[i + 1]
  BY <1>1, HeadTailProperties
<1>3. h = q[k + 1] /\ h # p
  <2>1. 1 \in 1 .. Len(q) /\ k + 1 \in 1 .. Len(q) /\ k + 1 <= Len(q)
    BY <1>1
  <2>2. r[1] = q[k + 1]
    BY <2>1 DEF Turned
  <2> QED BY <1>2, <2>1, <2>2 DEF Holds
<1> HIDE DEF t, h
<1>4. /\ Len(u) = Len(q) /\ u[Len(q)] = h
      /\ \A i \in 1 .. Len(q) - 1 : u[i] = r[i + 1]
  BY <1>1, <1>2, AppendProperties
<1> HIDE DEF u
<1>5. ASSUME NEW i \in 1 .. Len(q)
      PROVE  u[i] = IF (k + 1) + i <= Len(q) THEN q[(k + 1) + i] ELSE q[(k + 1) + i - Len(q)]
  <2>1. CASE i = Len(q)
    <3>1. ~((k + 1) + i <= Len(q)) /\ (k + 1) + i - Len(q) = k + 1
      BY <1>1, <2>1 DEF IsPasses
    <3> QED BY <1>3, <1>4, <2>1, <3>1
  <2>2. CASE i # Len(q)
    <3>1. i \in 1 .. Len(q) - 1 /\ i + 1 \in 1 .. Len(q) /\ k + (i + 1) = (k + 1) + i
      BY <1>1, <2>2
    <3>2. u[i] = r[i + 1]
      BY <1>4, <3>1
    <3>3. r[i + 1] = IF k + (i + 1) <= Len(q) THEN q[k + (i + 1)] ELSE q[k + (i + 1) - Len(q)]
      BY <3>1 DEF Turned
    <3> QED BY <3>1, <3>2, <3>3
  <2> QED BY <2>1, <2>2
<1>6. Turned(u, q, k + 1)
  BY <1>4, <1>5 DEF Turned
<1>7. OnePass(r, k + 1, p) = u
  <2>1. ~(Len(r) < k + 1)
    BY <1>1
  <2> QED BY <2>1, <1>3 DEF OnePass, u, t, h
<1> QED BY <1>6, <1>7

\* A queue that does not hold the id comes back as it was.
LEMMA WithoutAbsent ==
    ASSUME NEW S, NEW q \in Seq(S), NEW p, ~Holds(q, p)
    PROVE  Without(q, p) = q
<1>1. PICK f \in [0 .. Len(q) -> Seq(S)] : IsPasses(f, q, p)
  BY WithoutRun
<1> DEFINE T == {k \in 0 .. Len(q) : Turned(f[k], q, k)}
<1>2. Len(q) \in Nat
  BY LenProperties
<1>3. 0 \in T
  <2>1. Turned(q, q, 0)
    BY <1>2 DEF Turned
  <2> QED BY <1>1, <1>2, <2>1 DEF IsPasses
<1>4. ASSUME NEW k \in 0 .. Len(q) - 1, k \in T PROVE k + 1 \in T
  <2>1. k + 1 \in 1 .. Len(q) /\ (k + 1) - 1 = k /\ k \in 0 .. Len(q)
    BY <1>2
  <2>2. f[k + 1] = OnePass(f[k], k + 1, p) /\ f[k] \in Seq(S)
    BY <1>1, <2>1 DEF IsPasses
  <2>3. Turned(f[k], q, k)
    BY <1>4
  <2>4. Turned(OnePass(f[k], k + 1, p), q, k + 1)
    BY <2>2, <2>3, OnePassTurns
  <2> QED BY <2>1, <2>2, <2>4
<1>5. 0 .. Len(q) \subseteq T
  <2> HIDE DEF T
  <2> QED BY <1>2, <1>3, <1>4, PassLoop!InductionTo
<1> DEFINE w == f[Len(q)]
<1>6. w \in Seq(S) /\ Turned(w, q, Len(q))
  BY <1>1, <1>2, <1>5
<1> HIDE DEF w
<1>7. Len(w) = Len(q) /\ \A i \in 1 .. Len(q) : w[i] = q[i]
  <2>1. \A i \in 1 .. Len(q) : ~(Len(q) + i <= Len(q)) /\ Len(q) + i - Len(q) = i
    BY <1>2
  <2> QED BY <1>6, <2>1 DEF Turned
<1>8. w = q
  BY <1>6, <1>7, SeqEqual
<1> QED BY <1>1, <1>8 DEF w, IsPasses
-----------------------------------------------------------------------------
\* pid_to_proc finds the entry of every process that exists.
LEMMA Lookup ==
    ASSUME SchedTypeOK, PidsUnique, NEW e \in Entry, state[e] # "NONE"
    PROVE  pid_to_proc(pid[e]) = e
<1>1. ASSUME NEW f \in Entry, pid[f] = pid[e] PROVE e <= f
  <2>1. CASE state[f] = "NONE"
    <3>1. pid[e] = 0 /\ 0 \in Entry
      BY <1>1, <2>1, SchedulerAssumption DEF PidsUnique, Entry
    <3>2. e = 0
      BY <3>1 DEF PidsUnique
    <3> QED BY <3>2, SchedulerAssumption DEF Entry
  <2>2. CASE state[f] # "NONE"
    <3>1. e = f
      BY <1>1, <2>2 DEF PidsUnique
    <3> QED BY <3>1 DEF Entry
  <2> QED BY <2>1, <2>2
<1>2. \A g \in Entry : pid[g] = pid[e] /\ (\A f \in Entry : pid[f] = pid[e] => g <= f)
                         => g = e
  BY <1>1 DEF Entry
<1> QED BY <1>1, <1>2 DEF pid_to_proc

\* The default of scheduler_run is the idle task.
LEMMA LookupIdle ==
    ASSUME SchedTypeOK, PidsUnique
    PROVE  0 \in Entry /\ pid_to_proc(0) = 0
<1>1. 0 \in Entry
  BY SchedulerAssumption DEF Entry
<1>2. pid[0] = 0 /\ state[0] # "NONE"
  BY DEF PidsUnique
<1>3. pid_to_proc(pid[0]) = 0
  BY <1>1, <1>2, Lookup
<1> QED BY <1>1, <1>2, <1>3

\* A process in the run queue is found, and is idle.
LEMMA LookupReady ==
    ASSUME SchedTypeOK, PidsUnique, RunQueueExact,
           NEW p \in Pid, Holds(run_queue, p)
    PROVE  /\ pid_to_proc(p) \in Entry
           /\ pid[pid_to_proc(p)] = p
           /\ state[pid_to_proc(p)] = "IDLE"
<1>1. PICK e \in Entry : pid[e] = p /\ state[e] = "IDLE"
  BY DEF RunQueueExact
<1> QED BY <1>1, Lookup

\* A process in the sleep queue is found, and is asleep.
LEMMA LookupSleeper ==
    ASSUME SchedTypeOK, PidsUnique, SleepQueueExact,
           NEW p \in Pid, Holds(sleep_queue, p)
    PROVE  /\ pid_to_proc(p) \in Entry
           /\ pid[pid_to_proc(p)] = p
           /\ state[pid_to_proc(p)] = "SLEEPING"
<1>1. PICK e \in Entry : pid[e] = p /\ state[e] = "SLEEPING"
  BY DEF SleepQueueExact
<1> QED BY <1>1, Lookup

\* While some process is not idle there is room in the run queue; the sleep
\* queue and the allocator always have room for one more process or entry.
LEMMA Room ==
    ASSUME SchedTypeOK, Placement
    PROVE  /\ (\E e \in Entry : state[e] # "IDLE") => Len(run_queue) < QUEUE_SIZE
           /\ Len(sleep_queue) < QUEUE_SIZE
           /\ Len(proc_allocator) < QUEUE_SIZE
<1>0. 0 \in Entry /\ state[0] # "SLEEPING" /\ state[0] # "NONE"
  BY SchedulerAssumption DEF Entry, Placement, PidsUnique
<1>1. ASSUME \E e \in Entry : state[e] # "IDLE" PROVE Len(run_queue) < QUEUE_SIZE
  <2> DEFINE T == {e \in Entry : state[e] = "IDLE"}
  <2>1. T \in SUBSET Entry /\ T # Entry
    BY <1>1
  <2>2. \A x \in Pid : Holds(run_queue, x) => \E e \in T : pid[e] = x
    BY DEF Placement, RunQueueExact
  <2>3. run_queue \in Seq(Pid) /\ pid \in [Entry -> Pid] /\ IsInjectiveSeq(run_queue)
    BY DEF SchedTypeOK, Placement, RunQueueExact
  <2> HIDE DEF T
  <2> QED BY <2>1, <2>2, <2>3, QueueNotFull
<1>2. Len(sleep_queue) < QUEUE_SIZE
  <2> DEFINE T == {e \in Entry : state[e] = "SLEEPING"}
  <2>1. T \in SUBSET Entry /\ T # Entry
    BY <1>0
  <2>2. \A x \in Pid : Holds(sleep_queue, x) => \E e \in T : pid[e] = x
    BY DEF Placement, SleepQueueExact
  <2>3. sleep_queue \in Seq(Pid) /\ pid \in [Entry -> Pid] /\ IsInjectiveSeq(sleep_queue)
    BY DEF SchedTypeOK, Placement, SleepQueueExact
  <2> HIDE DEF T
  <2> QED BY <2>1, <2>2, <2>3, QueueNotFull
<1>3. Len(proc_allocator) < QUEUE_SIZE
  <2> DEFINE T == {e \in Entry : state[e] = "NONE"}
             m == [e \in Entry |-> e]
  <2>1. T \in SUBSET Entry /\ T # Entry
    BY <1>0
  <2>2. \A x \in Entry : Holds(proc_allocator, x) => \E e \in T : m[e] = x
    BY DEF Placement, EntriesConserved
  <2>3. proc_allocator \in Seq(Entry) /\ IsInjectiveSeq(proc_allocator)
    BY DEF SchedTypeOK, Placement, EntriesConserved
  <2>4. m \in [Entry -> Entry]
    OBVIOUS
  <2> HIDE DEF T, m
  <2> QED BY <2>1, <2>2, <2>3, <2>4, QueueNotFull
<1> QED BY <1>1, <1>2, <1>3

\* Nor does the run queue exceed its size when every process is idle.
LEMMA FullTable ==
    ASSUME SchedTypeOK, Placement
    PROVE  Len(run_queue) <= QUEUE_SIZE
<1>1. run_queue \in Seq(Pid) /\ pid \in [Entry -> Pid] /\ IsInjectiveSeq(run_queue)
  BY DEF SchedTypeOK, Placement, RunQueueExact
<1>2. \A x \in Pid : Holds(run_queue, x) => \E e \in Entry : pid[e] = x
  BY DEF Placement, RunQueueExact
<1> QED BY <1>1, <1>2, QueueFits

\* scheduler_remove of the active process finds it in no queue.
LEMMA ActiveNotQueued ==
    ASSUME SchedTypeOK, Placement, active_proc # None
    PROVE  /\ active_proc \in Entry
           /\ state[active_proc] = "ACTIVE"
           /\ scheduler_queue[active_proc] = "run"
           /\ ~Holds(run_queue, pid[active_proc])
           /\ ~Holds(sleep_queue, pid[active_proc])
           /\ Remaining("run", run_queue, active_proc) = run_queue
           /\ Remaining("sleep", sleep_queue, active_proc) = sleep_queue
<1>1. active_proc \in Entry /\ state[active_proc] = "ACTIVE" /\ pid[active_proc] \in Pid
  BY DEF SchedTypeOK, Placement, OneActive
<1>2. scheduler_queue[active_proc] = "run"
  BY <1>1 DEF Placement, QueuePointers
<1>3. ~Holds(run_queue, pid[active_proc])
  <2> SUFFICES ASSUME Holds(run_queue, pid[active_proc]) PROVE FALSE
    OBVIOUS
  <2>1. PICK e \in Entry : pid[e] = pid[active_proc] /\ state[e] = "IDLE"
    BY <1>1 DEF Placement, RunQueueExact
  <2> QED BY <1>1, <2>1 DEF Placement, PidsUnique
<1>4. ~Holds(sleep_queue, pid[active_proc])
  <2> SUFFICES ASSUME Holds(sleep_queue, pid[active_proc]) PROVE FALSE
    OBVIOUS
  <2>1. PICK e \in Entry : pid[e] = pid[active_proc] /\ state[e] = "SLEEPING"
    BY <1>1 DEF Placement, SleepQueueExact
  <2> QED BY <1>1, <2>1 DEF Placement, PidsUnique
<1>5. Without(run_queue, pid[active_proc]) = run_queue
  <2>1. run_queue \in Seq(Pid)
    BY DEF SchedTypeOK
  <2> QED BY <1>3, <2>1, WithoutAbsent
<1> QED BY <1>1, <1>2, <1>3, <1>4, <1>5 DEF Remaining
-----------------------------------------------------------------------------
\* What scheduler_run makes of a run queue `ready` and process states
\* `states` in which nobody is active: the next process is active, everybody
\* else stays where he is.
LEMMA DispatchStep ==
    ASSUME SchedTypeOK, Placement,
           NEW ready \in Seq(Pid), IsInjectiveSeq(ready), Len(ready) <= QUEUE_SIZE,
           NEW states \in [Entry -> State],
           \A e \in Entry : states[e] # "ACTIVE",
           \A e \in Entry : states[e] = "NONE" <=> state[e] = "NONE",
           \A e \in Entry : states[e] = "SLEEPING" <=> state[e] = "SLEEPING",
           states[0] = "IDLE",
           \A p \in Pid : Holds(ready, p) =>
                             \E e \in Entry : pid[e] = p /\ states[e] = "IDLE",
           \A e \in Entry \ {0} : states[e] = "IDLE" => Holds(ready, pid[e]),
           \A e \in Entry : scheduler_queue'[e] = "sleep" <=> states[e] = "SLEEPING",
           \A e \in Entry : scheduler_queue'[e] = "run" <=> states[e] = "IDLE",
           UNCHANGED <<pid, sleep_queue, proc_allocator, next_pid>>,
           Dispatch(ready, states)
    PROVE  /\ active_proc' \in Entry
           /\ states[active_proc'] = "IDLE"
           /\ state' \in [Entry -> State]
           /\ state' = [states EXCEPT ![active_proc'] = "ACTIVE"]
           /\ run_queue' \in Seq(Pid)
           /\ pc' = "user"
           /\ Placement'
<1> DEFINE p == IF ready = <<>> THEN 0 ELSE Head(ready)
           a == pid_to_proc(p)
<1>0. PidsUnique
  BY DEF Placement
<1>1. a \in Entry /\ pid[a] = p /\ states[a] = "IDLE"
  <2>1. CASE ready = <<>>
    BY <2>1, <1>0, LookupIdle DEF PidsUnique
  <2>2. CASE ready # <<>>
    <3>1. p \in Pid /\ Holds(ready, p)
      BY <2>2, TailHolds
    <3>2. PICK e \in Entry : pid[e] = p /\ states[e] = "IDLE"
      BY <3>1
    <3>3. pid_to_proc(pid[e]) = e
      BY <3>2, <1>0, Lookup
    <3> QED BY <3>2, <3>3
  <2> QED BY <2>1, <2>2
<1>2. /\ run_queue' \in Seq(Pid)
      /\ IsInjectiveSeq(run_queue')
      /\ \A y : Holds(run_queue', y) <=> Holds(ready, y) /\ y # p
  <2>1. CASE ready = <<>>
    <3>1. run_queue' = <<>>
      BY <2>1 DEF Dispatch
    <3>2. \A y : ~Holds(<<>>, y)
      BY DEF Holds
    <3> QED BY <3>1, <3>2, <2>1 DEF IsInjectiveSeq
  <2>2. CASE ready # <<>>
    <3>1. run_queue' = Tail(ready)
      BY <2>2 DEF Dispatch
    <3> QED BY <3>1, <2>2, TailHolds
  <2> QED BY <2>1, <2>2
<1>3. /\ active_proc' = a
      /\ state' = [states EXCEPT ![a] = "ACTIVE"]
      /\ pc' = "user"
  <2>1. Len(ready) \in Nat /\ a # None
    BY <1>1, LenProperties DEF Entry, None
  <2> QED BY <2>1, SchedulerAssumption DEF Dispatch
<1> HIDE DEF p, a
<1>4. state' \in [Entry -> State]
  BY <1>3 DEF State
<1>5. \A e \in Entry : state'[e] = IF e = a THEN "ACTIVE" ELSE states[e]
  BY <1>3
<1>6. PidsUnique'
  BY <1>0, <1>1, <1>5, LookupIdle DEF PidsUnique
<1>7. OneActive'
  BY <1>3, <1>5 DEF OneActive
<1>8. RunQueueExact'
  <2>1. ASSUME NEW q \in Pid, Holds(run_queue', q)
        PROVE  \E e \in Entry : pid'[e] = q /\ state'[e] = "IDLE"
    <3>1. Holds(ready, q) /\ q # p
      BY <2>1, <1>2
    <3>2. PICK e \in Entry : pid[e] = q /\ states[e] = "IDLE"
      BY <3>1
    <3> QED BY <3>1, <3>2, <1>1, <1>5
  <2>2. ASSUME NEW e \in Entry \ {0}, state'[e] = "IDLE"
        PROVE  Holds(run_queue', pid'[e])
    <3>1. e # a /\ states[e] = "IDLE" /\ Holds(ready, pid[e])
      BY <2>2, <1>5
    <3>2. pid[e] # p
      BY <3>1, <1>0, <1>1 DEF PidsUnique
    <3> QED BY <3>1, <3>2, <1>2
  <2> QED BY <1>2, <2>1, <2>2 DEF RunQueueExact
<1>9. SleepQueueExact'
  BY <1>1, <1>5 DEF Placement, SleepQueueExact
<1>10. EntriesConserved'
  BY <1>1, <1>5 DEF Placement, EntriesConserved
<1>11. QueuePointers'
  BY <1>1, <1>5 DEF QueuePointers
<1> QED BY <1>1, <1>2, <1>3, <1>4, <1>6, <1>7, <1>8, <1>9, <1>10, <1>11 DEF Placement

\* scheduler_run keeps the invariant when the active process is unscheduled.
LEMMA RunPreemptInv == IInv /\ RunPreempt => IInv'
<1> SUFFICES ASSUME IInv, RunPreempt PROVE IInv'
  OBVIOUS
<1> DEFINE a      == active_proc
           ready  == IF pid[a] = 0 THEN run_queue ELSE Append(run_queue, pid[a])
           states == [state EXCEPT ![a] = "IDLE"]
<1>0. SchedTypeOK /\ Placement /\ PidsUnique
  BY DEF IInv, Placement
<1>1. /\ a \in Entry /\ state[a] = "ACTIVE" /\ a # None
      /\ ~Holds(run_queue, pid[a]) /\ pid[a] \in Pid
  BY <1>0, ActiveNotQueued DEF RunPreempt, Scheduled, SchedTypeOK
<1>2. a = 0 <=> pid[a] = 0
  BY <1>0, <1>1 DEF PidsUnique
<1>3. run_queue \in Seq(Pid) /\ IsInjectiveSeq(run_queue) /\ Len(run_queue) < QUEUE_SIZE
  <2>1. Len(run_queue) < QUEUE_SIZE
    BY <1>0, <1>1, Room
  <2> QED BY <2>1, <1>0 DEF SchedTypeOK, Placement, RunQueueExact
<1>4. /\ ready \in Seq(Pid) /\ IsInjectiveSeq(ready) /\ Len(ready) <= QUEUE_SIZE
      /\ \A y : Holds(ready, y) <=> Holds(run_queue, y) \/ (pid[a] # 0 /\ y = pid[a])
  <2>1. CASE pid[a] = 0
    BY <2>1, <1>3, LenProperties, SchedulerAssumption
  <2>2. CASE pid[a] # 0
    <3>1. Len(Append(run_queue, pid[a])) = Len(run_queue) + 1 /\ Len(run_queue) \in Nat
      BY <1>1, <1>3, AppendProperties, LenProperties
    <3> QED BY <2>2, <3>1, <1>1, <1>3, AppendHolds, SchedulerAssumption
  <2> QED BY <2>1, <2>2
<1>5. /\ states \in [Entry -> State]
      /\ \A e \in Entry : states[e] = IF e = a THEN "IDLE" ELSE state[e]
  BY <1>0, <1>1 DEF SchedTypeOK, State
<1>6. \A e \in Entry : states[e] # "ACTIVE"
  BY <1>0, <1>5 DEF Placement, OneActive
<1>7. states[0] = "IDLE"
  BY <1>0, <1>5, <1>6, LookupIdle DEF PidsUnique
<1>8. ASSUME NEW q \in Pid, Holds(ready, q)
      PROVE  \E e \in Entry : pid[e] = q /\ states[e] = "IDLE"
  <2>1. CASE Holds(run_queue, q)
    BY <2>1, <1>0, <1>5 DEF Placement, RunQueueExact
  <2>2. CASE q = pid[a]
    BY <2>2, <1>1, <1>5
  <2> QED BY <1>8, <1>4, <2>1, <2>2
<1>9. ASSUME NEW e \in Entry \ {0}, states[e] = "IDLE" PROVE Holds(ready, pid[e])
  <2>1. CASE e = a
    BY <2>1, <1>2, <1>4
  <2>2. CASE e # a
    BY <2>2, <1>9, <1>0, <1>4, <1>5 DEF Placement, RunQueueExact
  <2> QED BY <2>1, <2>2
<1>10. scheduler_queue' = IF pid[a] = 0 THEN scheduler_queue
                          ELSE [scheduler_queue EXCEPT ![a] = "run"]
  BY DEF RunPreempt
<1>11. \A e \in Entry : /\ scheduler_queue'[e] = "sleep" <=> states[e] = "SLEEPING"
                        /\ scheduler_queue'[e] = "run" <=> states[e] = "IDLE"
  BY <1>0, <1>1, <1>5, <1>6, <1>10 DEF SchedTypeOK, Placement, QueuePointers, OneActive
<1>12. Dispatch(ready, states) /\ UNCHANGED <<pid, sleep_queue, proc_allocator, next_pid>>
  BY DEF RunPreempt
<1> HIDE DEF ready, states
<1>13. /\ active_proc' \in Entry
       /\ states[active_proc'] = "IDLE"
       /\ state' \in [Entry -> State]
       /\ state' = [states EXCEPT ![active_proc'] = "ACTIVE"]
       /\ run_queue' \in Seq(Pid)
       /\ pc' = "user"
       /\ Placement'
  BY <1>0, <1>1, <1>4, <1>5, <1>6, <1>7, <1>8, <1>9, <1>11, <1>12, DispatchStep
<1>14. cpu_time' = [cpu_time EXCEPT ![a] = 0] /\ cpu_time \in [Entry -> 0 .. SCHEDULER_TIMESLICE]
  BY <1>0 DEF RunPreempt, SchedTypeOK
<1>15. SchedTypeOK'
  <2>1. cpu_time' \in [Entry -> 0 .. SCHEDULER_TIMESLICE]
    <3>1. 0 \in 0 .. SCHEDULER_TIMESLICE
      BY SchedulerAssumption
    <3> QED BY <3>1, <1>14
  <2>2. scheduler_queue' \in [Entry -> {"none", "run", "sleep"}]
    BY <1>0, <1>10 DEF SchedTypeOK
  <2> QED BY <1>0, <1>13, <2>1, <2>2 DEF RunPreempt, SchedTypeOK
<1>16. SliceInv'
  <2>1. \A e \in Entry : states[e] = "IDLE" => cpu_time'[e] = 0
    BY <1>1, <1>5, <1>14, SchedulerAssumption DEF IInv, SliceInv
  <2>2. \A e \in Entry : state'[e] = "IDLE" => states[e] = "IDLE"
    BY <1>5, <1>13
  <2>3. cpu_time'[active_proc'] = 0
    BY <1>13, <2>1
  <2> QED BY <2>1, <2>2, <2>3, SchedulerAssumption DEF SliceInv
<1>17. NeverPanics'
  BY <1>13 DEF NeverPanics
<1> QED BY <1>13, <1>15, <1>16, <1>17 DEF IInv

\* scheduler_run keeps it when nobody is active.
LEMMA RunDispatchInv == IInv /\ RunDispatch => IInv'
<1> SUFFICES ASSUME IInv, RunDispatch PROVE IInv'
  OBVIOUS
<1>0. SchedTypeOK /\ Placement /\ PidsUnique
  BY DEF IInv, Placement
<1>1. active_proc = None
  BY <1>0 DEF RunDispatch, Scheduled, SchedTypeOK, Placement, OneActive
<1>2. \A e \in Entry : state[e] # "ACTIVE"
  BY <1>0, <1>1 DEF Placement, OneActive, Entry, None
<1>3. state[0] = "IDLE"
  BY <1>0, <1>2, LookupIdle DEF PidsUnique
<1>4. run_queue \in Seq(Pid) /\ IsInjectiveSeq(run_queue) /\ state \in [Entry -> State]
  BY <1>0 DEF SchedTypeOK, Placement, RunQueueExact
<1>5. Len(run_queue) <= QUEUE_SIZE
  BY <1>0, FullTable
<1>6. \A e \in Entry : /\ scheduler_queue'[e] = "sleep" <=> state[e] = "SLEEPING"
                       /\ scheduler_queue'[e] = "run" <=> state[e] = "IDLE"
  BY <1>0, <1>2 DEF RunDispatch, Placement, QueuePointers
<1>7. /\ \A p \in Pid : Holds(run_queue, p) =>
                          \E e \in Entry : pid[e] = p /\ state[e] = "IDLE"
      /\ \A e \in Entry \ {0} : state[e] = "IDLE" => Holds(run_queue, pid[e])
  BY <1>0 DEF Placement, RunQueueExact
<1>8. /\ Dispatch(run_queue, state)
      /\ UNCHANGED <<pid, sleep_queue, proc_allocator, next_pid>>
  BY DEF RunDispatch
<1>9. /\ active_proc' \in Entry
      /\ state[active_proc'] = "IDLE"
      /\ state' \in [Entry -> State]
      /\ state' = [state EXCEPT ![active_proc'] = "ACTIVE"]
      /\ run_queue' \in Seq(Pid)
      /\ pc' = "user"
      /\ Placement'
  BY <1>0, <1>2, <1>3, <1>4, <1>5, <1>6, <1>7, <1>8, DispatchStep
<1>10. SchedTypeOK'
  BY <1>0, <1>9 DEF RunDispatch, SchedTypeOK
<1>11. SliceInv'
  BY <1>4, <1>9, SchedulerAssumption DEF RunDispatch, IInv, SliceInv
<1> QED BY <1>9, <1>10, <1>11 DEF IInv, NeverPanics

\* It keeps it when the active process goes on.
LEMMA RunKeepInv == IInv /\ RunKeep => IInv'
<1> SUFFICES ASSUME IInv, RunKeep PROVE IInv'
  OBVIOUS
<1>1. /\ UNCHANGED <<loop_i, active_proc, pid, state, cpu_time, sleep_time, scheduler_queue,
                     run_queue, sleep_queue, proc_allocator, next_pid>>
      /\ pc' = "user" /\ ~Expired
  BY DEF RunKeep, pcb, lists
<1>2. SchedTypeOK'
  BY <1>1 DEF IInv, SchedTypeOK
<1>3. Placement'
  BY <1>1 DEF IInv, Placement, PidsUnique, OneActive, RunQueueExact, SleepQueueExact,
              EntriesConserved, QueuePointers
<1>4. SliceInv'
  BY <1>1, SchedulerAssumption DEF IInv, SliceInv, Expired, SchedTypeOK
<1> QED BY <1>1, <1>2, <1>3, <1>4 DEF IInv, NeverPanics

\* The handlers that leave processes alone.
LEMMA ControlInv == IInv /\ (SleepScanDone \/ OtherEntry) => IInv'
<1> SUFFICES ASSUME IInv, SleepScanDone \/ OtherEntry PROVE IInv'
  OBVIOUS
<1>1. /\ UNCHANGED <<loop_i, active_proc, pid, state, cpu_time, sleep_time, scheduler_queue,
                     run_queue, sleep_queue, proc_allocator, next_pid>>
      /\ pc' = "sched"
  BY DEF SleepScanDone, OtherEntry, pcb, lists
<1>2. SchedTypeOK'
  BY <1>1 DEF IInv, SchedTypeOK
<1>3. Placement'
  BY <1>1 DEF IInv, Placement, PidsUnique, OneActive, RunQueueExact, SleepQueueExact,
              EntriesConserved, QueuePointers
<1>4. SliceInv'
  BY <1>1 DEF IInv, SliceInv
<1> QED BY <1>1, <1>2, <1>3, <1>4 DEF IInv, NeverPanics

\* A tick is charged to the active process, who had one left.
LEMMA TimerIrqInv == IInv /\ TimerIrq => IInv'
<1> SUFFICES ASSUME IInv, TimerIrq PROVE IInv'
  OBVIOUS
<1>0. SchedTypeOK /\ Placement
  BY DEF IInv
<1>1. /\ UNCHANGED <<active_proc, pid, state, sleep_time, scheduler_queue,
                     run_queue, sleep_queue, proc_allocator, next_pid>>
      /\ pc' = "timer" /\ loop_i' = 0
  BY DEF TimerIrq, lists
<1>2. Placement'
  BY <1>1 DEF IInv, Placement, PidsUnique, OneActive, RunQueueExact, SleepQueueExact,
              EntriesConserved, QueuePointers
<1>3. CASE active_proc = None
  <2>1. cpu_time' = cpu_time
    BY <1>3 DEF TimerIrq
  <2>2. SchedTypeOK'
    BY <1>0, <1>1, <2>1 DEF SchedTypeOK
  <2>3. SliceInv'
    BY <1>1, <2>1 DEF IInv, SliceInv
  <2> QED BY <1>1, <1>2, <2>2, <2>3 DEF IInv, NeverPanics
<1>4. CASE active_proc # None
  <2>1. cpu_time' = [cpu_time EXCEPT ![active_proc] = @ + 1]
    BY <1>4 DEF TimerIrq
  <2>2. active_proc \in Entry /\ state[active_proc] = "ACTIVE"
    BY <1>0, <1>4, ActiveNotQueued
  <2>3. cpu_time[active_proc] + 1 \in 0 .. SCHEDULER_TIMESLICE
    <3>1. cpu_time[active_proc] \in 0 .. SCHEDULER_TIMESLICE
      BY <1>0, <2>2 DEF SchedTypeOK
    <3>2. cpu_time[active_proc] < SCHEDULER_TIMESLICE
      BY <1>4 DEF IInv, SliceInv, TimerIrq
    <3> QED BY <3>1, <3>2, SchedulerAssumption
  <2>4. SchedTypeOK'
    BY <1>0, <1>1, <2>1, <2>3 DEF SchedTypeOK
  <2>5. SliceInv'
    BY <1>0, <1>1, <2>1, <2>2 DEF IInv, SliceInv, SchedTypeOK
  <2> QED BY <1>1, <1>2, <2>4, <2>5 DEF IInv, NeverPanics
<1> QED BY <1>3, <1>4

\* The loop of scheduler_timer puts the sleeper it takes off the sleep queue
\* back to its end or, when its time is over, to the end of the run queue.
LEMMA SleepScanInv == IInv /\ SleepScan => IInv'
<1> SUFFICES ASSUME IInv, SleepScan PROVE IInv'
  OBVIOUS
<1> DEFINE p == Head(sleep_queue)
           e == pid_to_proc(p)
<1>0. SchedTypeOK /\ Placement /\ PidsUnique /\ SleepQueueExact
  BY DEF IInv, Placement
<1>1. sleep_queue \in Seq(Pid) /\ sleep_queue # <<>> /\ IsInjectiveSeq(sleep_queue)
  <2>1. sleep_queue \in Seq(Pid) /\ IsInjectiveSeq(sleep_queue)
    BY <1>0 DEF SchedTypeOK, SleepQueueExact
  <2>2. 0 < Len(sleep_queue)
    BY <1>0, <2>1, LenProperties DEF SleepScan, SchedTypeOK
  <2> QED BY <2>1, <2>2
<1>2. /\ Tail(sleep_queue) \in Seq(Pid)
      /\ p \in Pid
      /\ Holds(sleep_queue, p)
      /\ IsInjectiveSeq(Tail(sleep_queue))
      /\ \A y : Holds(Tail(sleep_queue), y) <=> Holds(sleep_queue, y) /\ y # p
  BY <1>1, TailHolds
<1>3. e \in Entry /\ pid[e] = p /\ state[e] = "SLEEPING" /\ e # None /\ e # 0
  BY <1>0, <1>2, LookupSleeper DEF PidsUnique, Entry, None
<1>4. /\ loop_i' = loop_i + 1
      /\ UNCHANGED <<active_proc, pid, proc_allocator, next_pid>>
      /\ sleep_time' = [sleep_time EXCEPT ![e] = @ - 1]
  BY DEF SleepScan
<1> HIDE DEF p, e
<1>5. loop_i' \in Nat /\ sleep_time' \in [Entry -> Int]
  <2>1. sleep_time \in [Entry -> Int] /\ loop_i \in Nat
    BY <1>0 DEF SchedTypeOK
  <2>2. sleep_time[e] - 1 \in Int
    BY <2>1, <1>3
  <2>3. [sleep_time EXCEPT ![e] = sleep_time[e] - 1] \in [Entry -> Int]
    BY <2>1, <2>2, ExceptType
  <2> QED BY <1>4, <2>1, <2>3
<1>6. CASE sleep_time[e] >= 0
  <2>1. /\ sleep_queue' = Append(Tail(sleep_queue), p)
        /\ UNCHANGED <<pc, state, cpu_time, scheduler_queue, run_queue>>
    <3>1. sleep_time[e] \in Int
      BY <1>0, <1>3 DEF SchedTypeOK
    <3> QED BY <1>3, <1>6, <3>1 DEF SleepScan, p, e
  <2>2. /\ sleep_queue' \in Seq(Pid)
        /\ IsInjectiveSeq(sleep_queue')
        /\ \A y : Holds(sleep_queue', y) <=> Holds(sleep_queue, y)
    BY <1>2, <2>1, AppendHolds
  <2>3. SchedTypeOK'
    BY <1>0, <1>4, <1>5, <2>1, <2>2 DEF SchedTypeOK
  <2>4. SleepQueueExact'
    BY <1>0, <1>4, <2>1, <2>2 DEF SleepQueueExact
  <2>5. Placement'
    BY <1>0, <1>4, <2>1, <2>4 DEF Placement, PidsUnique, OneActive, RunQueueExact,
                                 EntriesConserved, QueuePointers
  <2>6. SliceInv' /\ NeverPanics'
    BY <1>4, <2>1 DEF IInv, SliceInv, NeverPanics
  <2> QED BY <2>3, <2>5, <2>6 DEF IInv
<1>7. CASE ~(sleep_time[e] >= 0)
  <2>1. sleep_queue' = Tail(sleep_queue) /\ scheduler_add(e, "timer")
    BY <1>3, <1>7 DEF SleepScan, p, e
  <2>2. Len(run_queue) < QUEUE_SIZE /\ Len(run_queue) \in Nat /\ run_queue \in Seq(Pid)
    BY <1>0, <1>3, Room, LenProperties DEF SchedTypeOK
  <2>3. /\ run_queue' = Append(run_queue, p)
        /\ state' = [state EXCEPT ![e] = "IDLE"]
        /\ cpu_time' = [cpu_time EXCEPT ![e] = 0]
        /\ scheduler_queue' = [scheduler_queue EXCEPT ![e] = "run"]
        /\ pc' = "timer"
    BY <1>3, <2>1, <2>2, SchedulerAssumption DEF scheduler_add, QueueIn
  <2>4. ~Holds(run_queue, p)
    <3> SUFFICES ASSUME Holds(run_queue, p) PROVE FALSE
      OBVIOUS
    <3>1. state[pid_to_proc(p)] = "IDLE"
      BY <1>0, <1>2, LookupReady DEF Placement
    <3> QED BY <3>1, <1>3 DEF e
  <2>5. /\ run_queue' \in Seq(Pid)
        /\ IsInjectiveSeq(run_queue')
        /\ \A y : Holds(run_queue', y) <=> Holds(run_queue, y) \/ y = p
    BY <1>0, <1>2, <2>2, <2>3, <2>4, AppendHolds DEF Placement, RunQueueExact
  <2>6. \A f \in Entry : state'[f] = IF f = e THEN "IDLE" ELSE state[f]
    BY <1>0, <1>3, <2>3 DEF SchedTypeOK
  <2>7. \A f \in Entry : f # e /\ state[f] # "NONE" => pid[f] # p
    BY <1>0, <1>3 DEF PidsUnique
  <2>8. SchedTypeOK'
    <3>1. cpu_time' \in [Entry -> 0 .. SCHEDULER_TIMESLICE]
      <4>1. 0 \in 0 .. SCHEDULER_TIMESLICE
        BY SchedulerAssumption
      <4> QED BY <4>1, <1>0, <2>3 DEF SchedTypeOK
    <3>2. state' \in [Entry -> State] /\ scheduler_queue' \in [Entry -> {"none", "run", "sleep"}]
      BY <1>0, <2>3 DEF SchedTypeOK, State
    <3> QED BY <1>0, <1>2, <1>4, <1>5, <2>1, <2>3, <2>5, <3>1, <3>2 DEF SchedTypeOK
  <2>9. PidsUnique'
    BY <1>0, <1>3, <1>4, <2>6, LookupIdle DEF PidsUnique
  <2>10. OneActive'
    BY <1>0, <1>3, <1>4, <2>6 DEF Placement, OneActive
  <2>11. RunQueueExact'
    <3>1. ASSUME NEW q \in Pid, Holds(run_queue', q)
          PROVE  \E f \in Entry : pid'[f] = q /\ state'[f] = "IDLE"
      <4>1. CASE q = p
        BY <4>1, <1>3, <1>4, <2>6
      <4>2. CASE q # p
        <5>1. PICK f \in Entry : pid[f] = q /\ state[f] = "IDLE"
          BY <4>2, <3>1, <2>5, <1>0 DEF Placement, RunQueueExact
        <5> QED BY <5>1, <1>4, <2>6
      <4> QED BY <4>1, <4>2
    <3>2. ASSUME NEW f \in Entry \ {0}, state'[f] = "IDLE" PROVE Holds(run_queue', pid'[f])
      BY <3>2, <1>0, <1>3, <1>4, <2>5, <2>6 DEF Placement, RunQueueExact
    <3> QED BY <2>5, <3>1, <3>2 DEF RunQueueExact
  <2>12. SleepQueueExact'
    <3>1. ASSUME NEW q \in Pid, Holds(sleep_queue', q)
          PROVE  \E f \in Entry : pid'[f] = q /\ state'[f] = "SLEEPING"
      <4>1. Holds(sleep_queue, q) /\ q # p
        BY <3>1, <1>2, <2>1
      <4>2. PICK f \in Entry : pid[f] = q /\ state[f] = "SLEEPING"
        BY <4>1, <1>0 DEF SleepQueueExact
      <4> QED BY <4>1, <4>2, <1>3, <1>4, <2>6
    <3>2. ASSUME NEW f \in Entry, state'[f] = "SLEEPING" PROVE Holds(sleep_queue', pid'[f])
      BY <3>2, <1>0, <1>2, <1>4, <2>1, <2>6, <2>7 DEF SleepQueueExact
    <3> QED BY <1>2, <2>1, <3>1, <3>2 DEF SleepQueueExact
  <2>13. EntriesConserved'
    BY <1>0, <1>3, <1>4, <2>6 DEF Placement, EntriesConserved
  <2>14. QueuePointers'
    BY <1>0, <1>3, <2>3, <2>6 DEF SchedTypeOK, Placement, QueuePointers
  <2>15. SliceInv'
    BY <1>0, <1>3, <2>3, <2>6 DEF IInv, SliceInv, SchedTypeOK
  <2> QED BY <2>3, <2>8, <2>9, <2>10, <2>11, <2>12, <2>13, <2>14, <2>15
          DEF IInv, Placement, NeverPanics
<1> QED BY <1>6, <1>7

\* proc_sleep moves the active process to the end of the sleep queue.
LEMMA SysSleepInv == ASSUME IInv, NEW t \in SleepTicks, SysSleep(t) PROVE IInv'
<1> DEFINE a == active_proc
<1>0. SchedTypeOK /\ Placement /\ PidsUnique /\ a # None
  BY DEF IInv, Placement, SysSleep, SystemCall
<1>1. /\ a \in Entry /\ state[a] = "ACTIVE" /\ pid[a] \in Pid /\ pid[a] # 0 /\ a # 0
      /\ ~Holds(sleep_queue, pid[a])
  <2>1. pid[a] # 0
    BY DEF SysSleep, SystemCall, Program
  <2> QED BY <2>1, <1>0, ActiveNotQueued DEF SchedTypeOK, PidsUnique
<1>2. /\ UNCHANGED <<loop_i, pid, cpu_time, run_queue, proc_allocator, next_pid>>
      /\ sleep_queue' = Append(sleep_queue, pid[a])
      /\ active_proc' = None /\ pc' = "sched"
      /\ sleep_time' = [sleep_time EXCEPT ![a] = t]
      /\ state' = [state EXCEPT ![a] = "SLEEPING"]
      /\ scheduler_queue' = [scheduler_queue EXCEPT ![a] = "sleep"]
  <2>1. Len(sleep_queue) # QUEUE_SIZE
    <3>1. Len(sleep_queue) < QUEUE_SIZE
      BY <1>0, Room
    <3> QED BY <3>1, SchedulerAssumption
  <2> QED BY <2>1, <1>0, ActiveNotQueued DEF SysSleep, QueueIn
<1> HIDE DEF a
<1>3. /\ sleep_queue' \in Seq(Pid)
      /\ IsInjectiveSeq(sleep_queue')
      /\ \A y : Holds(sleep_queue', y) <=> Holds(sleep_queue, y) \/ y = pid[a]
  BY <1>0, <1>1, <1>2, AppendHolds DEF SchedTypeOK, Placement, SleepQueueExact
<1>4. \A f \in Entry : state'[f] = IF f = a THEN "SLEEPING" ELSE state[f]
  BY <1>0, <1>1, <1>2 DEF SchedTypeOK
<1>5. SchedTypeOK'
  <2>1. /\ state' \in [Entry -> State]
        /\ scheduler_queue' \in [Entry -> {"none", "run", "sleep"}]
        /\ sleep_time' \in [Entry -> Int]
    <3>1. t \in Int
      BY SchedulerAssumption
    <3> QED BY <3>1, <1>0, <1>2 DEF SchedTypeOK, State
  <2> QED BY <1>0, <1>2, <1>3, <2>1 DEF SchedTypeOK
<1>6. PidsUnique'
  BY <1>0, <1>1, <1>2, <1>4, LookupIdle DEF PidsUnique
<1>7. OneActive'
  BY <1>0, <1>2, <1>4 DEF Placement, OneActive, Entry, None, a
<1>8. RunQueueExact'
  BY <1>0, <1>1, <1>2, <1>4 DEF Placement, RunQueueExact
<1>9. SleepQueueExact'
  <2>1. ASSUME NEW q \in Pid, Holds(sleep_queue', q)
        PROVE  \E f \in Entry : pid'[f] = q /\ state'[f] = "SLEEPING"
    <3>1. CASE q = pid[a]
      BY <3>1, <1>1, <1>2, <1>4
    <3>2. CASE Holds(sleep_queue, q)
      BY <3>2, <1>0, <1>2, <1>4 DEF Placement, SleepQueueExact
    <3> QED BY <2>1, <1>3, <3>1, <3>2
  <2>2. ASSUME NEW f \in Entry, state'[f] = "SLEEPING" PROVE Holds(sleep_queue', pid'[f])
    BY <2>2, <1>0, <1>2, <1>3, <1>4 DEF Placement, SleepQueueExact
  <2> QED BY <1>3, <2>1, <2>2 DEF SleepQueueExact
<1>10. EntriesConserved'
  BY <1>0, <1>1, <1>2, <1>4 DEF Placement, EntriesConserved
<1>11. QueuePointers'
  BY <1>0, <1>1, <1>2, <1>4 DEF SchedTypeOK, Placement, QueuePointers
<1>12. SliceInv' /\ NeverPanics'
  BY <1>2, <1>4 DEF IInv, SliceInv, NeverPanics
<1> QED BY <1>5, <1>6, <1>7, <1>8, <1>9, <1>10, <1>11, <1>12 DEF IInv, Placement

\* Destroying the active process frees its entry.
LEMMA DestroyInv ==
    ASSUME IInv, active_proc # None, pid[active_proc] # 0, kproc_destroy
    PROVE  IInv'
<1> DEFINE a == active_proc
<1>0. SchedTypeOK /\ Placement /\ PidsUnique /\ a # None
  BY DEF IInv, Placement
<1>1. a \in Entry /\ state[a] = "ACTIVE" /\ pid[a] \in Pid /\ pid[a] # 0 /\ a # 0
  BY <1>0, ActiveNotQueued DEF SchedTypeOK, PidsUnique
<1>2. /\ UNCHANGED <<loop_i, run_queue, sleep_queue, next_pid>>
      /\ proc_allocator' = Append(proc_allocator, a)
      /\ pid' = [pid EXCEPT ![a] = 0]
      /\ state' = [state EXCEPT ![a] = "NONE"]
      /\ cpu_time' = [cpu_time EXCEPT ![a] = 0]
      /\ sleep_time' = [sleep_time EXCEPT ![a] = 0]
      /\ scheduler_queue' = [scheduler_queue EXCEPT ![a] = "none"]
      /\ active_proc' = None /\ pc' = "sched"
  <2>1. Len(proc_allocator) # QUEUE_SIZE
    <3>1. Len(proc_allocator) < QUEUE_SIZE
      BY <1>0, Room
    <3> QED BY <3>1, SchedulerAssumption
  <2>2. pid_to_proc(pid[a]) = a
    BY <1>0, <1>1, Lookup
  <2> QED BY <2>1, <2>2, <1>0, ActiveNotQueued DEF kproc_destroy, QueueIn
<1> HIDE DEF a
<1>3. /\ proc_allocator' \in Seq(Entry)
      /\ IsInjectiveSeq(proc_allocator')
      /\ \A y : Holds(proc_allocator', y) <=> Holds(proc_allocator, y) \/ y = a
  <2>1. ~Holds(proc_allocator, a)
    BY <1>0, <1>1 DEF Placement, EntriesConserved
  <2> QED BY <2>1, <1>0, <1>1, <1>2, AppendHolds DEF SchedTypeOK, Placement, EntriesConserved
<1>4. \A f \in Entry : /\ state'[f] = IF f = a THEN "NONE" ELSE state[f]
                       /\ pid'[f] = IF f = a THEN 0 ELSE pid[f]
  BY <1>0, <1>1, <1>2 DEF SchedTypeOK
<1>5. SchedTypeOK'
  <2>0. 0 \in Pid /\ 0 \in 0 .. SCHEDULER_TIMESLICE /\ 0 \in Int
    BY SchedulerAssumption DEF Pid
  <2>1. /\ state' \in [Entry -> State]
        /\ scheduler_queue' \in [Entry -> {"none", "run", "sleep"}]
        /\ sleep_time' \in [Entry -> Int]
        /\ cpu_time' \in [Entry -> 0 .. SCHEDULER_TIMESLICE]
        /\ pid' \in [Entry -> Pid]
    BY <1>0, <1>2, <2>0 DEF SchedTypeOK, State
  <2> QED BY <1>0, <1>2, <1>3, <2>1 DEF SchedTypeOK
<1>6. PidsUnique'
  BY <1>0, <1>1, <1>2, <1>4, LookupIdle DEF PidsUnique
<1>7. OneActive'
  BY <1>0, <1>2, <1>4 DEF Placement, OneActive, Entry, None, a
<1>8. RunQueueExact'
  BY <1>0, <1>1, <1>2, <1>4 DEF Placement, RunQueueExact
<1>9. SleepQueueExact'
  BY <1>0, <1>1, <1>2, <1>4 DEF Placement, SleepQueueExact
<1>10. EntriesConserved'
  BY <1>0, <1>1, <1>3, <1>4 DEF Placement, EntriesConserved
<1>11. QueuePointers'
  BY <1>0, <1>1, <1>2, <1>4 DEF SchedTypeOK, Placement, QueuePointers
<1>12. SliceInv' /\ NeverPanics'
  BY <1>0, <1>1, <1>2, <1>4 DEF IInv, SliceInv, NeverPanics, SchedTypeOK
<1> QED BY <1>5, <1>6, <1>7, <1>8, <1>9, <1>10, <1>11, <1>12 DEF IInv, Placement

\* A test process takes a free entry and a fresh id.
LEMMA KeyCreateInv == IInv /\ KeyCreate => IInv'
<1> SUFFICES ASSUME IInv, KeyCreate PROVE IInv'
  OBVIOUS
<1> DEFINE e == Head(proc_allocator)
<1>0. SchedTypeOK /\ Placement /\ PidsUnique /\ EntriesConserved
  BY DEF IInv, Placement
<1>1. /\ proc_allocator' \in Seq(Entry)
      /\ e \in Entry
      /\ IsInjectiveSeq(proc_allocator')
      /\ \A y : Holds(proc_allocator', y) <=> Holds(proc_allocator, y) /\ y # e
      /\ Holds(proc_allocator, e)
  <2>1. /\ proc_allocator \in Seq(Entry) /\ IsInjectiveSeq(proc_allocator)
        /\ proc_allocator # <<>> /\ proc_allocator' = Tail(proc_allocator)
    BY <1>0 DEF SchedTypeOK, EntriesConserved, KeyCreate
  <2> QED BY <2>1, TailHolds
<1>2. state[e] = "NONE" /\ e # 0 /\ e # active_proc
  BY <1>0, <1>1, SchedulerAssumption DEF EntriesConserved, PidsUnique, Placement, OneActive
<1>3. next_pid \in Pid /\ next_pid + 1 \in 1 .. MaxPid /\ next_pid # 0
  BY <1>0, SchedulerAssumption DEF SchedTypeOK, KeyCreate, Pid
<1>4. /\ UNCHANGED <<loop_i, active_proc, sleep_queue>>
      /\ run_queue' = Append(run_queue, next_pid)
      /\ pid' = [pid EXCEPT ![e] = next_pid]
      /\ sleep_time' = [sleep_time EXCEPT ![e] = 0]
      /\ state' = [state EXCEPT ![e] = "IDLE"]
      /\ cpu_time' = [cpu_time EXCEPT ![e] = 0]
      /\ scheduler_queue' = [scheduler_queue EXCEPT ![e] = "run"]
      /\ pc' = "sched"
      /\ next_pid' = next_pid + 1
  <2>1. Len(run_queue) # QUEUE_SIZE
    <3>1. Len(run_queue) < QUEUE_SIZE
      BY <1>0, <1>1, <1>2, Room
    <3> QED BY <3>1, SchedulerAssumption
  <2> QED BY <2>1 DEF KeyCreate, QueueIn
<1> HIDE DEF e
<1>5. \A f \in Entry : state[f] # "NONE" => pid[f] \in 0 .. next_pid - 1 /\ pid[f] # next_pid
  BY <1>0, <1>3 DEF PidsUnique, SchedTypeOK
<1>6. \A f \in Entry : /\ state'[f] = IF f = e THEN "IDLE" ELSE state[f]
                       /\ pid'[f] = IF f = e THEN next_pid ELSE pid[f]
  BY <1>0, <1>1, <1>4 DEF SchedTypeOK
<1>7. /\ run_queue' \in Seq(Pid)
      /\ IsInjectiveSeq(run_queue')
      /\ \A y : Holds(run_queue', y) <=> Holds(run_queue, y) \/ y = next_pid
  <2>1. ~Holds(run_queue, next_pid)
    BY <1>0, <1>3, <1>5 DEF Placement, RunQueueExact
  <2> QED BY <2>1, <1>0, <1>3, <1>4, AppendHolds DEF SchedTypeOK, Placement, RunQueueExact
<1>8. SchedTypeOK'
  <2>0. 0 \in 0 .. SCHEDULER_TIMESLICE /\ 0 \in Int
    BY SchedulerAssumption
  <2>1. /\ state' \in [Entry -> State]
        /\ scheduler_queue' \in [Entry -> {"none", "run", "sleep"}]
        /\ sleep_time' \in [Entry -> Int]
        /\ cpu_time' \in [Entry -> 0 .. SCHEDULER_TIMESLICE]
        /\ pid' \in [Entry -> Pid]
    BY <1>0, <1>3, <1>4, <2>0 DEF SchedTypeOK, State
  <2> QED BY <1>0, <1>1, <1>3, <1>4, <1>7, <2>1 DEF SchedTypeOK
<1>9. PidsUnique'
  <2>1. pid'[0] = 0 /\ state'[0] \in {"IDLE", "ACTIVE"}
    BY <1>0, <1>2, <1>6, LookupIdle DEF PidsUnique
  <2>2. \A f \in Entry : state'[f] = "NONE" => pid'[f] = 0
    BY <1>0, <1>6 DEF PidsUnique
  <2>3. ASSUME NEW f \in Entry \ {0}, state'[f] # "NONE" PROVE pid'[f] \in 1 .. next_pid' - 1
    <3>1. next_pid \in Nat \ {0} /\ next_pid' - 1 = next_pid
      BY <1>0, <1>4, SchedulerAssumption DEF SchedTypeOK
    <3>2. CASE f = e
      BY <3>1, <3>2, <1>6
    <3>3. CASE f # e
      <4>1. pid[f] \in 1 .. next_pid - 1
        BY <2>3, <3>3, <1>0, <1>6 DEF PidsUnique
      <4> QED BY <3>1, <3>3, <4>1, <1>6
    <3> QED BY <3>2, <3>3
  <2>4. \A f, g \in Entry : state'[f] # "NONE" /\ state'[g] # "NONE" /\ pid'[f] = pid'[g]
                              => f = g
    BY <1>0, <1>5, <1>6 DEF PidsUnique
  <2> QED BY <2>1, <2>2, <2>3, <2>4 DEF PidsUnique
<1>10. OneActive'
  BY <1>0, <1>2, <1>4, <1>6 DEF Placement, OneActive
<1>11. RunQueueExact'
  <2>1. ASSUME NEW q \in Pid, Holds(run_queue', q)
        PROVE  \E f \in Entry : pid'[f] = q /\ state'[f] = "IDLE"
    <3>1. CASE q = next_pid
      BY <3>1, <1>1, <1>6
    <3>2. CASE Holds(run_queue, q)
      BY <3>2, <1>0, <1>2, <1>6 DEF Placement, RunQueueExact
    <3> QED BY <2>1, <1>7, <3>1, <3>2
  <2>2. ASSUME NEW f \in Entry \ {0}, state'[f] = "IDLE" PROVE Holds(run_queue', pid'[f])
    BY <2>2, <1>0, <1>6, <1>7 DEF Placement, RunQueueExact
  <2> QED BY <1>7, <2>1, <2>2 DEF RunQueueExact
<1>12. SleepQueueExact'
  BY <1>0, <1>2, <1>4, <1>6 DEF Placement, SleepQueueExact
<1>13. EntriesConserved'
  BY <1>0, <1>1, <1>6 DEF EntriesConserved
<1>14. QueuePointers'
  BY <1>0, <1>1, <1>2, <1>4, <1>6 DEF SchedTypeOK, Placement, QueuePointers
<1>15. SliceInv' /\ NeverPanics'
  BY <1>0, <1>2, <1>4, <1>6 DEF IInv, SliceInv, NeverPanics, SchedTypeOK
<1> QED BY <1>8, <1>9, <1>10, <1>11, <1>12, <1>13, <1>14, <1>15 DEF IInv, Placement

\* kproc_init leaves the table and the queues in agreement.
LEMMA InitInv == Init => IInv
<1> SUFFICES ASSUME Init PROVE IInv
  OBVIOUS
<1> USE SchedulerAssumption
<1>1. /\ run_queue \in Seq(Pid) /\ IsInjectiveSeq(run_queue)
      /\ \A y : Holds(run_queue, y) <=> y \in 0 .. NBoot - 1
  <2>1. run_queue \in [1 .. NBoot -> Pid] /\ NBoot \in Nat
    BY DEF Init, Pid
  <2>2. run_queue \in Seq(Pid) /\ Len(run_queue) = NBoot
    BY <2>1
  <2>3. \A k \in 1 .. NBoot : run_queue[k] = k - 1
    BY DEF Init
  <2>4. \A y \in 0 .. NBoot - 1 : y + 1 \in 1 .. NBoot /\ (y + 1) - 1 = y
    OBVIOUS
  <2>5. \A y : Holds(run_queue, y) <=> y \in 0 .. NBoot - 1
    <3>1. ASSUME NEW y \in 0 .. NBoot - 1 PROVE Holds(run_queue, y)
      <4>1. run_queue[y + 1] = y
        BY <2>3, <2>4
      <4> QED BY <4>1, <2>2, <2>4 DEF Holds
    <3>2. \A k \in 1 .. NBoot : run_queue[k] \in 0 .. NBoot - 1
      BY <2>3
    <3> QED BY <3>1, <3>2, <2>2 DEF Holds
  <2> QED BY <2>2, <2>3, <2>5 DEF IsInjectiveSeq
<1>2. /\ proc_allocator \in Seq(Entry) /\ IsInjectiveSeq(proc_allocator)
      /\ \A y : Holds(proc_allocator, y) <=> y \in NBoot .. PROC_MAX - 1
  <2> DEFINE n == PROC_MAX - NBoot
  <2>0. n \in Nat
    OBVIOUS
  <2>1. proc_allocator \in [1 .. n -> Entry]
    BY DEF Init, Entry
  <2>2. proc_allocator \in Seq(Entry) /\ Len(proc_allocator) = n
    BY <2>0, <2>1
  <2>3. \A k \in 1 .. n : proc_allocator[k] = NBoot + k - 1
    BY DEF Init
  <2>4. \A y \in NBoot .. PROC_MAX - 1 : /\ y - NBoot + 1 \in 1 .. n
                                         /\ NBoot + (y - NBoot + 1) - 1 = y
    OBVIOUS
  <2>5. \A y : Holds(proc_allocator, y) <=> y \in NBoot .. PROC_MAX - 1
    <3>1. ASSUME NEW y \in NBoot .. PROC_MAX - 1 PROVE Holds(proc_allocator, y)
      <4>1. proc_allocator[y - NBoot + 1] = y
        BY <2>3, <2>4
      <4> QED BY <4>1, <2>2, <2>4 DEF Holds
    <3>2. \A k \in 1 .. n : proc_allocator[k] \in NBoot .. PROC_MAX - 1
      BY <2>3
    <3> QED BY <3>1, <3>2, <2>2 DEF Holds
  <2>6. IsInjectiveSeq(proc_allocator)
    BY <2>0, <2>2, <2>3 DEF IsInjectiveSeq
  <2> QED BY <2>2, <2>5, <2>6
<1>3. /\ sleep_queue = <<>> /\ sleep_queue \in Seq(Pid) /\ IsInjectiveSeq(sleep_queue)
      /\ \A y : ~Holds(sleep_queue, y)
  BY DEF Init, Holds, IsInjectiveSeq
<1>4. \A e \in Entry : /\ pid[e] = IF e < NBoot THEN e ELSE 0
                       /\ state[e] = IF e < NBoot THEN "IDLE" ELSE "NONE"
                       /\ scheduler_queue[e] = IF e < NBoot THEN "run" ELSE "none"
                       /\ cpu_time[e] = 0
  BY DEF Init
<1>5. \A e \in Entry : e < NBoot <=> e \in 0 .. NBoot - 1
  BY DEF Entry
<1>6. SchedTypeOK
  <2>1. /\ pid \in [Entry -> Pid] /\ state \in [Entry -> State]
        /\ scheduler_queue \in [Entry -> {"none", "run", "sleep"}]
        /\ cpu_time \in [Entry -> 0 .. SCHEDULER_TIMESLICE]
        /\ sleep_time \in [Entry -> Int]
    BY DEF Init, Entry, Pid, State
  <2> QED BY <1>1, <1>2, <1>3, <2>1 DEF Init, SchedTypeOK
<1>7. PidsUnique
  BY <1>4 DEF Init, PidsUnique, Entry
<1>8. OneActive
  BY <1>4 DEF Init, OneActive, Entry, None
<1>9. RunQueueExact
  <2>1. ASSUME NEW q \in Pid, Holds(run_queue, q)
        PROVE  \E e \in Entry : pid[e] = q /\ state[e] = "IDLE"
    <3>1. q \in 0 .. NBoot - 1 /\ q \in Entry /\ q < NBoot
      BY <2>1, <1>1 DEF Entry
    <3> QED BY <3>1, <1>4
  <2>2. \A e \in Entry \ {0} : state[e] = "IDLE" => Holds(run_queue, pid[e])
    BY <1>1, <1>4, <1>5
  <2> QED BY <1>1, <2>1, <2>2 DEF RunQueueExact
<1>10. SleepQueueExact
  BY <1>3, <1>4 DEF SleepQueueExact
<1>11. EntriesConserved
  <2>1. \A e \in Entry : e < NBoot \/ e \in NBoot .. PROC_MAX - 1
    BY DEF Entry
  <2>2. \A e \in Entry : ~(e < NBoot /\ e \in NBoot .. PROC_MAX - 1)
    BY DEF Entry
  <2> QED BY <1>2, <1>4, <2>1, <2>2 DEF EntriesConserved
<1>12. QueuePointers
  BY <1>4 DEF QueuePointers
<1>13. SliceInv /\ NeverPanics
  BY <1>4 DEF Init, SliceInv, NeverPanics
<1> QED BY <1>6, <1>7, <1>8, <1>9, <1>10, <1>11, <1>12, <1>13 DEF IInv, Placement
-----------------------------------------------------------------------------
\* Every step of the kernel keeps the invariant.
LEMMA NextInv == IInv /\ [Next]_vars => IInv'
<1> SUFFICES ASSUME IInv, [Next]_vars PROVE IInv'
  OBVIOUS
<1>1. CASE TimerIrq
  BY <1>1, TimerIrqInv
<1>2. CASE Kernel
  BY <1>2, SleepScanInv, ControlInv, RunKeepInv, RunPreemptInv, RunDispatchInv
     DEF Kernel, SchedulerRun
<1>3. ASSUME NEW t \in SleepTicks, SysSleep(t) PROVE IInv'
  BY <1>3, SysSleepInv
<1>4. CASE SysExit
  BY <1>4, DestroyInv DEF SysExit, SystemCall, Program
<1>5. CASE KeyDestroy
  BY <1>5, DestroyInv DEF KeyDestroy
<1>6. CASE KeyCreate
  BY <1>6, KeyCreateInv
<1>7. CASE OtherEntry
  BY <1>7, ControlInv
<1>8. CASE UNCHANGED vars
  <2>1. UNCHANGED <<pc, loop_i, active_proc, pid, state, cpu_time, sleep_time, scheduler_queue,
                    run_queue, sleep_queue, proc_allocator, next_pid>>
    BY <1>8 DEF vars, pcb, lists
  <2> QED BY <2>1 DEF IInv, SchedTypeOK, Placement, PidsUnique, OneActive, RunQueueExact,
                      SleepQueueExact, EntriesConserved, QueuePointers, NeverPanics, SliceInv
<1> QED BY <1>1, <1>2, <1>3, <1>4, <1>5, <1>6, <1>7, <1>8 DEF Next

\* The invariant of the scheduler holds at every step of every kernel entry.
LEMMA Invariance == Spec => []IInv
<1>1. Init => IInv  BY InitInv
<1>2. IInv /\ [Next]_vars => IInv'  BY NextInv
<1> QED BY <1>1, <1>2, PTL DEF Spec

\* The variables of the kernel keep their types; in particular no process uses
\* more ticks than SCHEDULER_TIMESLICE before scheduler_run unschedules it.
THEOREM TypeCorrect == Spec => []SchedTypeOK
<1>1. IInv => SchedTypeOK  BY DEF IInv
<1> QED BY <1>1, Invariance, PTL

\* Every process is in exactly one place and every table entry is free or used,
\* at every step of every kernel entry.
THEOREM PlacementCorrect == Spec => []Placement
<1>1. IInv => Placement  BY DEF IInv
<1> QED BY <1>1, Invariance, PTL

\* No queue overflows and scheduler_run finds a process: the kernel never
\* panics, because the table is no larger than a queue (SchedulerAssumption).
THEOREM NoPanic == Spec => []NeverPanics
<1>1. IInv => NeverPanics  BY DEF IInv
<1> QED BY <1>1, Invariance, PTL
-----------------------------------------------------------------------------
\* The variables of RoundRobin, as RR in Scheduler substitutes them.  The mapping
\* needs IInv: a process id must name one table entry, or the entry that
\* scheduler_run and scheduler_timer look up is another one.
Running == IF active_proc = None THEN -1 ELSE pid[active_proc]
Asleep  == {pid[e] : e \in {f \in Entry : state[f] = "SLEEPING"}}
-----------------------------------------------------------------------------
\* A step that keeps what RoundRobin sees is a stuttering step of it.
LEMMA Stutters ==
    ASSUME UNCHANGED <<active_proc, pid, state, run_queue, next_pid>>
    PROVE  UNCHANGED RR!vars
BY DEF RR!vars

\* When the same entries sleep under the same ids, the same ids are asleep.
LEMMA SameAsleep ==
    ASSUME \A e \in Entry : state'[e] = "SLEEPING" <=> state[e] = "SLEEPING",
           \A e \in Entry : state[e] = "SLEEPING" => pid'[e] = pid[e]
    PROVE  Asleep' = Asleep
BY DEF Asleep

\* scheduler_run takes the head of `ready`, or the idle task, out of the queue
\* and runs it, and wakes nobody.
LEMMA DispatchMaps ==
    ASSUME IInv,
           NEW ready \in Seq(Pid),
           \A p \in Pid : Holds(ready, p) =>
               \E e \in Entry : pid[e] = p /\ state[e] \in {"IDLE", "ACTIVE"},
           NEW states \in [Entry -> State],
           \A e \in Entry : states[e] = "SLEEPING" <=> state[e] = "SLEEPING",
           UNCHANGED <<pid, next_pid>>,
           Dispatch(ready, states)
    PROVE  /\ Running' = IF ready = <<>> THEN 0 ELSE Head(ready)
           /\ run_queue' = IF ready = <<>> THEN <<>> ELSE Tail(ready)
           /\ Asleep' = Asleep
<1> DEFINE p == IF ready = <<>> THEN 0 ELSE Head(ready)
           a == pid_to_proc(p)
<1>0. SchedTypeOK /\ PidsUnique
  BY DEF IInv, Placement
<1>1. a \in Entry /\ pid[a] = p /\ state[a] \in {"IDLE", "ACTIVE"}
  <2>1. CASE ready = <<>>
    BY <2>1, <1>0, LookupIdle DEF PidsUnique
  <2>2. CASE ready # <<>>
    <3>1. p \in Pid /\ Holds(ready, p)
      <4>1. 1 \in 1 .. Len(ready) /\ Head(ready) = ready[1] /\ Head(ready) \in Pid
        BY <2>2, HeadTailProperties, LenProperties, EmptySeq
      <4> QED BY <2>2, <4>1 DEF Holds
    <3>2. PICK e \in Entry : pid[e] = p /\ state[e] \in {"IDLE", "ACTIVE"}
      BY <3>1
    <3>3. pid_to_proc(pid[e]) = e
      BY <3>2, <1>0, Lookup
    <3> QED BY <3>2, <3>3
  <2> QED BY <2>1, <2>2
<1>2. /\ active_proc' = a
      /\ state' = [states EXCEPT ![a] = "ACTIVE"]
      /\ run_queue' = IF ready = <<>> THEN <<>> ELSE Tail(ready)
  BY DEF Dispatch
<1> HIDE DEF a
<1>3. Running' = p
  BY <1>1, <1>2 DEF Running, Entry, None
<1>4. \A e \in Entry : state'[e] = "SLEEPING" <=> state[e] = "SLEEPING"
  BY <1>1, <1>2
<1>5. Asleep' = Asleep
  BY <1>4, SameAsleep
<1> QED BY <1>2, <1>3, <1>5
-----------------------------------------------------------------------------
\* The process that is used up goes to the back and the next one runs.
LEMMA PreemptMaps == IInv /\ RunPreempt => RR!Preempt
<1> SUFFICES ASSUME IInv, RunPreempt PROVE RR!Preempt
  OBVIOUS
<1> DEFINE e == active_proc
           ready == IF pid[e] = 0 THEN run_queue ELSE Append(run_queue, pid[e])
           states == [state EXCEPT ![e] = "IDLE"]
<1>1. /\ SchedTypeOK /\ Placement /\ e \in Entry /\ e # None
      /\ state[e] = "ACTIVE" /\ pid[e] \in Pid
  BY DEF IInv, SchedTypeOK, RunPreempt, Scheduled
<1>2. states \in [Entry -> State] /\ Dispatch(ready, states) /\ UNCHANGED <<pid, next_pid>>
  BY <1>1 DEF SchedTypeOK, RunPreempt, State
<1>3. \A q \in Pid : Holds(run_queue, q) => \E f \in Entry : pid[f] = q /\ state[f] = "IDLE"
  BY <1>1 DEF Placement, RunQueueExact
<1>4. /\ ready \in Seq(Pid)
      /\ \A q \in Pid : Holds(ready, q) =>
             \E f \in Entry : pid[f] = q /\ state[f] \in {"IDLE", "ACTIVE"}
  <2>1. CASE pid[e] = 0
    BY <2>1, <1>1, <1>3 DEF SchedTypeOK
  <2>2. CASE pid[e] # 0
    <3>1. /\ ready \in Seq(Pid)
          /\ \A y : Holds(ready, y) <=> Holds(run_queue, y) \/ y = pid[e]
      BY <2>2, <1>1, AppendHolds DEF SchedTypeOK
    <3> QED BY <3>1, <1>1, <1>3
  <2> QED BY <2>1, <2>2
<1>5. \A f \in Entry : states[f] = "SLEEPING" <=> state[f] = "SLEEPING"
  BY <1>1 DEF SchedTypeOK
<1>6. Running = pid[e] /\ Running # -1
  BY <1>1 DEF Running, Pid
<1>7. ready = IF Running = 0 THEN run_queue ELSE Append(run_queue, Running)
  BY <1>6
<1> HIDE DEF ready, states
<1>8. /\ Running' = IF ready = <<>> THEN 0 ELSE Head(ready)
      /\ run_queue' = IF ready = <<>> THEN <<>> ELSE Tail(ready)
      /\ Asleep' = Asleep
  BY <1>2, <1>4, <1>5, DispatchMaps
<1> QED BY <1>2, <1>6, <1>7, <1>8 DEF RR!Preempt, RR!Run, Running, Asleep

\* Nobody runs, and the next process does.
LEMMA DispatchOnlyMaps == IInv /\ RunDispatch => RR!Dispatch
<1> SUFFICES ASSUME IInv, RunDispatch PROVE RR!Dispatch
  OBVIOUS
<1>1. SchedTypeOK /\ Placement
  BY DEF IInv
<1>2. active_proc = None /\ Running = -1
  BY <1>1 DEF RunDispatch, Scheduled, Placement, OneActive, SchedTypeOK, Running
<1>3. \A q \in Pid : Holds(run_queue, q) =>
          \E f \in Entry : pid[f] = q /\ state[f] \in {"IDLE", "ACTIVE"}
  BY <1>1 DEF Placement, RunQueueExact
<1>4. /\ run_queue \in Seq(Pid) /\ state \in [Entry -> State]
      /\ Dispatch(run_queue, state) /\ UNCHANGED <<pid, next_pid>>
  BY <1>1 DEF SchedTypeOK, RunDispatch
<1>5. /\ Running' = IF run_queue = <<>> THEN 0 ELSE Head(run_queue)
      /\ run_queue' = IF run_queue = <<>> THEN <<>> ELSE Tail(run_queue)
      /\ Asleep' = Asleep
  BY <1>3, <1>4, DispatchMaps
<1> QED BY <1>2, <1>4, <1>5 DEF RR!Dispatch, RR!Run, Running, Asleep

\* proc_sleep puts the process that runs among the sleepers.
LEMMA SleepMaps == ASSUME IInv, NEW t \in SleepTicks, SysSleep(t) PROVE RR!Sleep
<1> DEFINE e == active_proc
<1>1. SchedTypeOK /\ Placement /\ e # None /\ pid[e] \in Program
  BY DEF IInv, SysSleep, SystemCall
<1>2. /\ e \in Entry /\ state[e] = "ACTIVE" /\ pid[e] > 0
      /\ Remaining("run", run_queue, e) = run_queue
  BY <1>1, ActiveNotQueued, SchedulerAssumption DEF Program
<1>3. /\ active_proc' = None /\ UNCHANGED <<pid, next_pid>>
      /\ run_queue' = run_queue
      /\ state' = [state EXCEPT ![e] = "SLEEPING"]
  BY <1>2 DEF SysSleep
<1> HIDE DEF e
<1>4. \A f \in Entry : state'[f] = "SLEEPING" <=> state[f] = "SLEEPING" \/ f = e
  BY <1>1, <1>2, <1>3 DEF SchedTypeOK
<1>5. Asleep' = Asleep \cup {pid[e]}
  BY <1>2, <1>3, <1>4 DEF Asleep
<1>6. Running = pid[e] /\ Running' = -1
  BY <1>1, <1>3 DEF Running, e
<1> QED BY <1>2, <1>3, <1>5, <1>6 DEF RR!Sleep, Running, Asleep

\* A process that is destroyed ran, and is in no queue.
LEMMA DestroyMaps ==
    ASSUME IInv, active_proc # None, pid[active_proc] # 0, kproc_destroy
    PROVE  RR!Exit
<1> DEFINE e == active_proc
<1>1. SchedTypeOK /\ Placement
  BY DEF IInv
<1>2. /\ e \in Entry /\ state[e] = "ACTIVE" /\ pid[e] \in Pid
      /\ Remaining("run", run_queue, e) = run_queue
  BY <1>1, ActiveNotQueued DEF SchedTypeOK
<1>3. /\ active_proc' = None /\ next_pid' = next_pid
      /\ run_queue' = run_queue
      /\ state' = [state EXCEPT ![e] = "NONE"]
      /\ pid' = [pid EXCEPT ![e] = 0]
  BY <1>2 DEF kproc_destroy
<1>4. Asleep' = Asleep
  <2>1. \A f \in Entry : state'[f] = "SLEEPING" <=> state[f] = "SLEEPING"
    BY <1>1, <1>2, <1>3 DEF SchedTypeOK
  <2>2. \A f \in Entry : state[f] = "SLEEPING" => pid'[f] = pid[f]
    BY <1>1, <1>2, <1>3 DEF SchedTypeOK
  <2> QED BY <2>1, <2>2, SameAsleep
<1>5. Running = pid[e] /\ pid[e] > 0 /\ Running' = -1
  BY <1>2, <1>3, SchedulerAssumption DEF Running, Pid
<1> QED BY <1>3, <1>4, <1>5 DEF RR!Exit, Running, Asleep

\* A new process is ready after all others, under the next id.
LEMMA CreateMaps == IInv /\ KeyCreate => RR!Create
<1> SUFFICES ASSUME IInv, KeyCreate PROVE RR!Create
  OBVIOUS
<1> DEFINE e == Head(proc_allocator)
<1>1. SchedTypeOK /\ Placement /\ EntriesConserved /\ active_proc # None
  BY DEF IInv, Placement, KeyCreate
<1>2. e \in Entry /\ state[e] = "NONE"
  <2>1. e \in Entry /\ Holds(proc_allocator, e)
    BY <1>1, TailHolds DEF KeyCreate, SchedTypeOK, EntriesConserved
  <2> QED BY <2>1, <1>1 DEF EntriesConserved
<1>3. active_proc \in Entry /\ active_proc # e
  BY <1>1, <1>2, ActiveNotQueued
<1>4. run_queue' = Append(run_queue, next_pid)
  <2>1. Len(run_queue) # QUEUE_SIZE
    BY <1>1, <1>2, Room, SchedulerAssumption
  <2> QED BY <2>1 DEF KeyCreate, QueueIn
<1>5. /\ next_pid < MaxPid /\ next_pid' = next_pid + 1 /\ active_proc' = active_proc
      /\ state' = [state EXCEPT ![e] = "IDLE"]
      /\ pid' = [pid EXCEPT ![e] = next_pid]
  BY DEF KeyCreate
<1> HIDE DEF e
<1>6. Asleep' = Asleep
  <2>1. \A f \in Entry : state'[f] = "SLEEPING" <=> state[f] = "SLEEPING"
    BY <1>1, <1>2, <1>5 DEF SchedTypeOK
  <2>2. \A f \in Entry : state[f] = "SLEEPING" => pid'[f] = pid[f]
    BY <1>1, <1>2, <1>5 DEF SchedTypeOK
  <2> QED BY <2>1, <2>2, SameAsleep
<1>7. Running' = Running
  BY <1>1, <1>3, <1>5 DEF Running, SchedTypeOK
<1> QED BY <1>4, <1>5, <1>6, <1>7 DEF RR!Create, Running, Asleep

\* A pass over the sleep queue wakes the process it looks at, or nobody.
LEMMA SleepScanMaps ==
    IInv /\ SleepScan => UNCHANGED RR!vars \/ \E p \in Asleep : RR!Wake(p)
<1> SUFFICES ASSUME IInv, SleepScan
             PROVE  UNCHANGED RR!vars \/ \E p \in Asleep : RR!Wake(p)
  OBVIOUS
<1> DEFINE p == Head(sleep_queue)
           e == pid_to_proc(p)
<1>1. SchedTypeOK /\ Placement /\ PidsUnique /\ SleepQueueExact
  BY DEF IInv, Placement
<1>2. sleep_queue # <<>> /\ UNCHANGED <<active_proc, pid, next_pid>>
  <2>1. loop_i \in Nat /\ loop_i < Len(sleep_queue)
    BY <1>1 DEF SchedTypeOK, SleepScan
  <2>2. Len(<<>>) = 0
    OBVIOUS
  <2> QED BY <2>1, <2>2 DEF SleepScan
<1>3. e \in Entry /\ pid[e] = p /\ state[e] = "SLEEPING"
  <2>1. p \in Pid /\ Holds(sleep_queue, p)
    BY <1>1, <1>2, TailHolds DEF SchedTypeOK, SleepQueueExact
  <2> QED BY <1>1, <2>1, LookupSleeper
<1>4. CASE UNCHANGED <<state, run_queue>>
  BY <1>2, <1>4, Stutters
<1>5. CASE scheduler_add(e, "timer")
  <2>1. run_queue' = Append(run_queue, p)
    <3>1. Len(run_queue) # QUEUE_SIZE
      BY <1>1, <1>3, Room, SchedulerAssumption
    <3> QED BY <1>3, <1>5, <3>1 DEF scheduler_add, QueueIn
  <2>2. state' = [state EXCEPT ![e] = "IDLE"]
    BY <1>5 DEF scheduler_add
  <2> HIDE DEF p, e
  <2>3. \A f \in Entry : state'[f] = "SLEEPING" <=> state[f] = "SLEEPING" /\ f # e
    BY <1>1, <1>3, <2>2 DEF SchedTypeOK
  <2>4. \A f \in Entry : state[f] = "SLEEPING" /\ pid[f] = p => f = e
    BY <1>1, <1>3 DEF PidsUnique
  <2>5. Asleep' = Asleep \ {p}
    BY <1>2, <1>3, <2>3, <2>4 DEF Asleep
  <2>6. Running' = Running
    BY <1>2 DEF Running
  <2>7. p \in Asleep
    BY <1>3 DEF Asleep
  <2> QED BY <1>2, <2>1, <2>5, <2>6, <2>7 DEF RR!Wake, Running, Asleep
<1>6. UNCHANGED <<state, run_queue>> \/ scheduler_add(e, "timer")
  BY Zenon DEF SleepScan
<1> QED BY <1>4, <1>5, <1>6
-----------------------------------------------------------------------------
\* The boot processes are ready in the order of their ids.
LEMMA InitMaps == Init => RR!Init
<1> SUFFICES ASSUME Init PROVE RR!Init
  OBVIOUS
<1>1. Asleep = {}
  BY DEF Init, Asleep
<1> QED BY <1>1 DEF Init, RR!Init, Asleep

\* Every step of a kernel entry is a step of round robin, or none.
LEMMA NextMaps == IInv /\ [Next]_vars => [RR!Next]_RR!vars
<1> SUFFICES ASSUME IInv, [Next]_vars PROVE [RR!Next]_RR!vars
  OBVIOUS
<1>1. CASE TimerIrq \/ SleepScanDone \/ RunKeep \/ OtherEntry \/ UNCHANGED vars
  <2>1. UNCHANGED <<active_proc, pid, state, run_queue, next_pid>>
    BY <1>1 DEF TimerIrq, SleepScanDone, RunKeep, OtherEntry, vars, pcb, lists
  <2> QED BY <2>1, Stutters
<1>2. CASE SleepScan
  <2>1. (\E p \in Asleep : RR!Wake(p)) => RR!Next
    BY DEF RR!Next, Asleep
  <2> QED BY <1>2, <2>1, SleepScanMaps
<1>3. CASE RunPreempt
  BY <1>3, PreemptMaps DEF RR!Next
<1>4. CASE RunDispatch
  BY <1>4, DispatchOnlyMaps DEF RR!Next
<1>5. ASSUME NEW t \in SleepTicks, SysSleep(t) PROVE RR!Next
  BY <1>5, SleepMaps DEF RR!Next
<1>6. CASE SysExit \/ KeyDestroy
  <2>1. active_proc # None /\ pid[active_proc] # 0 /\ kproc_destroy
    BY <1>6, SchedulerAssumption DEF SysExit, SystemCall, Program, KeyDestroy
  <2> QED BY <2>1, DestroyMaps DEF RR!Next
<1>7. CASE KeyCreate
  BY <1>7, CreateMaps DEF RR!Next
<1> QED BY <1>1, <1>2, <1>3, <1>4, <1>5, <1>6, <1>7 DEF Next, Kernel, SchedulerRun

\* The process table, the queues of ids and the kernel entries implement round
\* robin: processes run in the order in which they became ready, whatever
\* interrupts come in between and whatever table entries are used again.
THEOREM RoundRobinCorrect == Spec => ImplementsRoundRobin
<1>1. Init => RR!Init  BY InitMaps
<1>2. IInv /\ [Next]_vars => [RR!Next]_RR!vars  BY NextMaps
<1> QED BY <1>1, <1>2, Invariance, PTL DEF Spec, ImplementsRoundRobin, RR!Spec
=============================================================================
