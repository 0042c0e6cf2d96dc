-------------------------- MODULE InterruptsProofs ---------------------------
(***************************************************************************)
(* The timers for every size of the table, range of timer_ticks and set of *)
(* intervals and repeat counts: no entry is lost or handed out twice, and  *)
(* calls come exactly one interval apart.  The second needs a relation     *)
(* between the history and the clock: the ticks since the last call are    *)
(* the remainder of timer_ticks by the interval.  The wrap of timer_ticks  *)
(* keeps it only when the interval divides 2^32 (Dividing).                *)
(*                                                                         *)
(* The second half is about interrupt dispatch, for every set of lines and *)
(* of timers.  It uses the timers through their operations only, so their  *)
(* theorems hold in the whole.  LinesReady needs where the start-up is (an *)
(* interrupt comes only after its handler is registered) and which lines   *)
(* are in service while a handler runs, so that dismissing it frees all of *)
(* them.                                                                   *)
(***************************************************************************)
EXTENDS Interrupts, SequenceTheorems, FiniteSetTheorems, FunctionTheorems, TLAPS

Once(q)      == \A j, k \in 1 .. Len(q) : q[j] = q[k] => j = k
Occurs(q, i) == \E k \in 1 .. Len(q) : q[k] = i

TInv == TimerTypeOK /\ IdsExact
-----------------------------------------------------------------------------
\* A function that is updated with a value of its range keeps its type.
LEMMA UpdateType ==
    ASSUME NEW S, NEW T, NEW f \in [S -> T], NEW x, NEW v \in T
    PROVE  [f EXCEPT ![x] = v] \in [S -> T]
OBVIOUS

\* The table has TIMERS_MAX entries.
LEMMA IdCount == IsFiniteSet(TimerId) /\ Cardinality(TimerId) = TIMERS_MAX
<1>1. 0 <= TIMERS_MAX => Cardinality(0 .. TIMERS_MAX - 1) = (TIMERS_MAX - 1) - 0 + 1
  BY TimerAssumption, FS_Interval
<1> QED BY <1>1, TimerAssumption, FS_Interval DEF TimerId

\* Ids that occur once are no more than the table has.
LEMMA IdsFit ==
    ASSUME NEW q \in Seq(TimerId), Once(q)
    PROVE  Len(q) \in Nat /\ Len(q) <= QUEUE_SIZE
<1>1. Len(q) \in Nat /\ \A k \in 1 .. Len(q) : q[k] \in TimerId
  BY LenProperties, ElementOfSeq
<1>2. [k \in 1 .. Len(q) |-> q[k]] \in Injection(1 .. Len(q), TimerId)
  BY <1>1, Fun_IsInj DEF Once
<1>3. IsFiniteSet(1 .. Len(q)) /\ Cardinality(1 .. Len(q)) = Len(q)
  <2>1. \A n \in Nat : IsFiniteSet(1 .. n) /\ Cardinality(1 .. n) = n
    <3>1. \A n \in Nat : Cardinality(1 .. n) = IF 1 > n THEN 0 ELSE n - 1 + 1
      BY FS_Interval
    <3> QED BY <3>1, FS_Interval
  <2> QED BY <1>1, <2>1
<1>4. Len(q) <= TIMERS_MAX
  BY <1>2, <1>3, IdCount, FS_Injection
<1> QED BY <1>1, <1>4, TimerAssumption

\* Ascending lists a set of ids: each of them, once.
LEMMA AscendingLists ==
    ASSUME NEW S \in SUBSET TimerId
    PROVE  /\ Ascending(S) \in Seq(TimerId)
           /\ Once(Ascending(S))
           /\ \A i : Occurs(Ascending(S), i) <=> i \in S
<1> DEFINE n       == Cardinality(S)
           Upto(i) == {j \in S : j <= i}
           rank    == [i \in S |-> Cardinality(Upto(i))]
<1>1. IsFiniteSet(S) /\ n \in Nat
  BY IdCount, FS_Subset, FS_CardinalityType
<1>2. \A i \in S : /\ IsFiniteSet(Upto(i)) /\ Cardinality(Upto(i)) \in 1 .. n
  <2> SUFFICES ASSUME NEW i \in S
               PROVE  IsFiniteSet(Upto(i)) /\ Cardinality(Upto(i)) \in 1 .. n
    OBVIOUS
  <2>1. Upto(i) \subseteq S /\ i \in Upto(i)
    BY DEF TimerId
  <2>2. IsFiniteSet(Upto(i)) /\ Cardinality(Upto(i)) \in Nat /\ Cardinality(Upto(i)) <= n
    BY <1>1, <2>1, FS_Subset, FS_CardinalityType
  <2>3. Cardinality(Upto(i)) # 0
    BY <2>1, <2>2, FS_EmptySet
  <2> QED BY <1>1, <2>2, <2>3
<1>3. \A i, j \in S : i < j => Cardinality(Upto(i)) < Cardinality(Upto(j))
  <2> SUFFICES ASSUME NEW i \in S, NEW j \in S, i < j
               PROVE  Cardinality(Upto(i)) < Cardinality(Upto(j))
    OBVIOUS
  <2>0. \A k \in S : k \in Int
    BY DEF TimerId
  <2>1. Upto(i) \subseteq Upto(j) /\ j \in Upto(j) /\ j \notin Upto(i)
    BY <2>0
  <2>2. /\ Cardinality(Upto(i)) <= Cardinality(Upto(j))
        /\ Cardinality(Upto(i)) # Cardinality(Upto(j))
    BY <1>2, <2>1, FS_Subset
  <2> QED BY <1>2, <2>2
<1>4. \A i, j \in S : Cardinality(Upto(i)) = Cardinality(Upto(j)) => i = j
  <2> SUFFICES ASSUME NEW i \in S, NEW j \in S, Cardinality(Upto(i)) = Cardinality(Upto(j))
               PROVE  i = j
    OBVIOUS
  <2>1. i < j \/ j < i \/ i = j
    BY DEF TimerId
  <2> QED BY <1>2, <1>3, <2>1
<1>5. rank \in Surjection(S, 1 .. n)
  <2>1. rank \in Injection(S, 1 .. n)
    BY <1>2, <1>4, Fun_IsInj
  <2>2. IsFiniteSet(1 .. n) /\ Cardinality(1 .. n) = n
    <3>1. Cardinality(1 .. n) = IF 1 > n THEN 0 ELSE n - 1 + 1
      BY <1>1, FS_Interval
    <3> QED BY <1>1, <3>1, FS_Interval
  <2> HIDE DEF rank
  <2> QED BY <2>1, <2>2, FS_Injection
<1>6. \A k \in 1 .. n : \E i \in S : Cardinality(Upto(i)) = k
  <2>1. \A k \in 1 .. n : \E i \in S : rank[i] = k
    BY <1>5 DEF Surjection
  <2> QED BY <2>1
<1>7. \A k \in 1 .. n : Ascending(S)[k] \in S /\ Cardinality(Upto(Ascending(S)[k])) = k
  BY <1>6 DEF Ascending
<1>8. Ascending(S) \in [1 .. n -> TimerId] /\ Len(Ascending(S)) = n
  <2> DEFINE a == [k \in 1 .. n |-> CHOOSE i \in S : Cardinality(Upto(i)) = k]
  <2>1. Ascending(S) = a
    BY DEF Ascending
  <2>2. \A k \in 1 .. n : a[k] \in TimerId
    BY <1>7, <2>1
  <2>3. a \in [1 .. n -> TimerId]
    BY <2>2
  <2> HIDE DEF a, n
  <2>4. Len(a) = n
    BY <1>1, <2>3
  <2> QED BY <2>1, <2>3, <2>4
<1> HIDE DEF n, Upto, rank
<1>9. Ascending(S) \in Seq(TimerId)
  BY <1>1, <1>8
<1>10. Once(Ascending(S))
  BY <1>7, <1>8 DEF Once
<1>11. ASSUME NEW i \in S PROVE Occurs(Ascending(S), i)
  BY <1>2, <1>4, <1>7, <1>8 DEF Occurs
<1>12. \A i : Occurs(Ascending(S), i) => i \in S
  BY <1>7, <1>8 DEF Occurs
<1> QED BY <1>9, <1>10, <1>11, <1>12

\* Ids that were not in the allocator all find room in it.
LEMMA FreedHolds ==
    ASSUME NEW q \in Seq(TimerId), Once(q), NEW ids \in Seq(TimerId), Once(ids),
           \A i : ~(Occurs(q, i) /\ Occurs(ids, i))
    PROVE  /\ Freed(q, ids) \in Seq(TimerId)
           /\ Once(Freed(q, ids))
           /\ \A i : Occurs(Freed(q, ids), i) <=> Occurs(q, i) \/ Occurs(ids, i)
<1> DEFINE r == q \o ids
<1>1. /\ r \in Seq(TimerId)
      /\ Len(q) \in Nat /\ Len(ids) \in Nat /\ Len(r) = Len(q) + Len(ids)
      /\ \A k \in 1 .. Len(r) : r[k] = IF k <= Len(q) THEN q[k] ELSE ids[k - Len(q)]
  BY ConcatProperties, LenProperties
<1> HIDE DEF r
<1>2. \A k \in 1 .. Len(r) : \/ k \in 1 .. Len(q) /\ r[k] = q[k]
                             \/ k - Len(q) \in 1 .. Len(ids) /\ r[k] = ids[k - Len(q)]
  BY <1>1
<1>3. \A i : Occurs(r, i) <=> Occurs(q, i) \/ Occurs(ids, i)
  <2>1. \A i : Occurs(r, i) => Occurs(q, i) \/ Occurs(ids, i)
    BY <1>2 DEF Occurs
  <2>2. \A k \in 1 .. Len(q) : k \in 1 .. Len(r) /\ r[k] = q[k]
    BY <1>1
  <2>3. \A k \in 1 .. Len(ids) : k + Len(q) \in 1 .. Len(r) /\ r[k + Len(q)] = ids[k]
    BY <1>1
  <2> QED BY <2>1, <2>2, <2>3 DEF Occurs
<1>4. Once(r)
  <2> SUFFICES ASSUME NEW j \in 1 .. Len(r), NEW k \in 1 .. Len(r), r[j] = r[k]
               PROVE  j = k
    BY DEF Once
  <2>1. CASE j \in 1 .. Len(q) /\ r[j] = q[j] /\ k \in 1 .. Len(q) /\ r[k] = q[k]
    BY <2>1 DEF Once
  <2>2. CASE /\ j - Len(q) \in 1 .. Len(ids) /\ r[j] = ids[j - Len(q)]
             /\ k - Len(q) \in 1 .. Len(ids) /\ r[k] = ids[k - Len(q)]
    <3>1. j - Len(q) = k - Len(q)
      BY <2>2 DEF Once
    <3> QED BY <3>1, <1>1
  <2>3. CASE /\ j \in 1 .. Len(q) /\ r[j] = q[j]
             /\ k - Len(q) \in 1 .. Len(ids) /\ r[k] = ids[k - Len(q)]
    BY <2>3 DEF Occurs
  <2>4. CASE /\ k \in 1 .. Len(q) /\ r[k] = q[k]
             /\ j - Len(q) \in 1 .. Len(ids) /\ r[j] = ids[j - Len(q)]
    BY <2>4 DEF Occurs
  <2> QED BY <1>2, <2>1, <2>2, <2>3, <2>4
<1>5. Freed(q, ids) = r
  <2>1. Len(r) \in Nat /\ Len(r) <= QUEUE_SIZE
    BY <1>1, <1>4, IdsFit
  <2>2. Freed(q, ids) = SubSeq(r, 1, Len(r))
    BY <2>1, TimerAssumption DEF Freed, r
  <2>3. SubSeq(r, 1, Len(r)) = r
    BY <1>1, <2>1
  <2> QED BY <2>2, <2>3
<1> QED BY <1>1, <1>3, <1>4, <1>5
-----------------------------------------------------------------------------
\* IdsExact in terms of Once and Occurs.
LEMMA Exact ==
    IdsExact <=> /\ Once(timer_allocator)
                 /\ \A i \in TimerId : callback[i] = 0 <=> Occurs(timer_allocator, i)
BY DEF IdsExact, Once, Occurs

\* The same in the next state.
LEMMA ExactNext ==
    IdsExact' <=> /\ Once(timer_allocator')
                  /\ \A i \in TimerId : callback'[i] = 0 <=> Occurs(timer_allocator', i)
BY DEF IdsExact, Once, Occurs
-----------------------------------------------------------------------------
\* A new timer takes the id at the head of the allocator.
LEMMA RegisterInv ==
    ASSUME TInv, NEW n \in Intervals, NEW r \in Repeats \cup {Forever},
           timer_callback_register(n, r)
    PROVE  TInv'
<1> DEFINE i == Head(timer_allocator)
<1>1. timer_allocator \in Seq(TimerId) /\ timer_allocator # <<>>
  BY DEF TInv, TimerTypeOK, timer_callback_register
<1>2. /\ i \in TimerId /\ Tail(timer_allocator) \in Seq(TimerId)
      /\ Len(timer_allocator) \in Nat \ {0}
      /\ Len(Tail(timer_allocator)) = Len(timer_allocator) - 1
      /\ i = timer_allocator[1]
      /\ \A k \in 1 .. Len(timer_allocator) - 1 :
             Tail(timer_allocator)[k] = timer_allocator[k + 1]
  BY <1>1, HeadTailProperties, LenProperties, EmptySeq
<1>3. /\ timer_allocator' = Tail(timer_allocator)
      /\ callback' = [callback EXCEPT ![i] = 1]
      /\ interval' = [interval EXCEPT ![i] = n]
      /\ repeat' = [repeat EXCEPT ![i] = r]
      /\ timer_ticks' = timer_ticks
  BY DEF timer_callback_register
<1> HIDE DEF i
<1>4. TimerTypeOK'
  <2>1. r \in Nat \cup {Forever}
    BY TimerAssumption
  <2>2. /\ callback' \in [TimerId -> {0, 1}]
        /\ interval' \in [TimerId -> Intervals \cup {0}]
        /\ repeat' \in [TimerId -> Nat \cup {Forever}]
    BY <1>3, <2>1, UpdateType DEF TInv, TimerTypeOK
  <2> QED BY <1>2, <1>3, <2>2 DEF TInv, TimerTypeOK
<1>5. Once(timer_allocator) /\ \A x \in TimerId : callback[x] = 0 <=> Occurs(timer_allocator, x)
  BY Exact DEF TInv
<1>6. \A k \in 1 .. Len(timer_allocator) - 1 : /\ k + 1 \in 1 .. Len(timer_allocator)
                                              /\ k + 1 # 1
  BY <1>2
<1>7. \A k \in 1 .. Len(timer_allocator) : \/ k = 1
                                           \/ /\ k - 1 \in 1 .. Len(timer_allocator) - 1
                                              /\ (k - 1) + 1 = k
  BY <1>2
<1>8. 1 \in 1 .. Len(timer_allocator)
  BY <1>2
<1>9. Once(timer_allocator')
  BY <1>2, <1>3, <1>5, <1>6 DEF Once
<1>10. \A x : Occurs(timer_allocator', x) <=> Occurs(timer_allocator, x) /\ x # i
  <2>1. ASSUME NEW x, Occurs(timer_allocator', x) PROVE Occurs(timer_allocator, x) /\ x # i
    <3>1. PICK k \in 1 .. Len(timer_allocator) - 1 : timer_allocator[k + 1] = x
      BY <1>2, <1>3, <2>1 DEF Occurs
    <3> QED BY <1>2, <1>5, <1>6, <1>8, <3>1 DEF Once, Occurs
  <2>2. ASSUME NEW x, Occurs(timer_allocator, x), x # i PROVE Occurs(timer_allocator', x)
    <3>1. PICK k \in 1 .. Len(timer_allocator) : timer_allocator[k] = x
      BY <2>2 DEF Occurs
    <3> QED BY <1>2, <1>3, <1>7, <2>2, <3>1 DEF Occurs
  <2> QED BY <2>1, <2>2
<1>11. \A x \in TimerId : callback'[x] = IF x = i THEN 1 ELSE callback[x]
  BY <1>3 DEF TInv, TimerTypeOK
<1>12. IdsExact'
  BY <1>5, <1>9, <1>10, <1>11, ExactNext
<1> QED BY <1>4, <1>12 DEF TInv

\* The entries in `gone` are cleared and their ids go back to the allocator.
LEMMA ClearInv ==
    ASSUME TInv, NEW gone \in SUBSET TimerId, \A i \in gone : callback[i] = 1,
           NEW ids \in Seq(TimerId), Once(ids), \A i : Occurs(ids, i) <=> i \in gone,
           callback' = Cleared(callback, gone),
           timer_allocator' = Freed(timer_allocator, ids)
    PROVE  /\ callback' \in [TimerId -> {0, 1}]
           /\ timer_allocator' \in Seq(TimerId)
           /\ IdsExact'
<1>1. /\ timer_allocator \in Seq(TimerId) /\ Once(timer_allocator)
      /\ \A x \in TimerId : callback[x] = 0 <=> Occurs(timer_allocator, x)
  BY Exact DEF TInv, TimerTypeOK
<1>2. \A i : ~(Occurs(timer_allocator, i) /\ Occurs(ids, i))
  BY <1>1
<1>3. /\ timer_allocator' \in Seq(TimerId) /\ Once(timer_allocator')
      /\ \A i : Occurs(timer_allocator', i) <=> Occurs(timer_allocator, i) \/ i \in gone
  BY <1>1, <1>2, FreedHolds
<1>4. \A i \in TimerId : callback'[i] = IF i \in gone THEN 0 ELSE callback[i]
  BY DEF Cleared
<1>5. callback' \in [TimerId -> {0, 1}]
  BY DEF Cleared, TInv, TimerTypeOK
<1> QED BY <1>1, <1>3, <1>4, <1>5, ExactNext

\* A timer that its owner gives up.
LEMMA UnregisterInv ==
    ASSUME TInv, NEW i \in TimerId, timer_callback_unregister(i)
    PROVE  TInv'
<1>1. /\ <<i>> \in Seq(TimerId) /\ Once(<<i>>) /\ \A x : Occurs(<<i>>, x) <=> x \in {i}
  BY DEF Once, Occurs
<1>2. callback[i] = 1
  BY DEF timer_callback_unregister
<1>3. /\ callback' \in [TimerId -> {0, 1}]
      /\ timer_allocator' \in Seq(TimerId)
      /\ IdsExact'
  BY <1>1, <1>2, ClearInv DEF timer_callback_unregister
<1>4. TimerTypeOK'
  BY <1>3 DEF TInv, TimerTypeOK, timer_callback_unregister, Cleared
<1> QED BY <1>3, <1>4 DEF TInv

\* The handler: any number of timers expire in one pass of the loop.
LEMMA HandlerInv == TInv /\ timer_irq_handler => TInv'
<1> SUFFICES ASSUME TInv, timer_irq_handler PROVE TInv'
  OBVIOUS
<1> DEFINE gone == {i \in TimerId : callback[i] = 1 /\ repeat[i] = 0}
<1>1. /\ Ascending(gone) \in Seq(TimerId) /\ Once(Ascending(gone))
      /\ \A i : Occurs(Ascending(gone), i) <=> i \in gone
  BY AscendingLists
<1>2. /\ callback' = Cleared(callback, gone)
      /\ repeat' = [i \in TimerId |-> IF callback[i] = 1 /\ repeat[i] > 0
                                      THEN repeat[i] - 1 ELSE repeat[i]]
      /\ interval' = Cleared(interval, gone)
      /\ timer_allocator' = Freed(timer_allocator, Ascending(gone))
      /\ timer_ticks' = NextTick(timer_ticks)
  BY DEF timer_irq_handler, Expire
<1>3. \A i \in gone : callback[i] = 1
  OBVIOUS
<1>4. gone \in SUBSET TimerId
  OBVIOUS
<1> HIDE DEF gone
<1>5. /\ callback' \in [TimerId -> {0, 1}]
      /\ timer_allocator' \in Seq(TimerId)
      /\ IdsExact'
  BY <1>1, <1>2, <1>3, <1>4, ClearInv
<1>6. timer_ticks' \in -TICK_LIMIT .. TICK_LIMIT - 1
  BY <1>2, TimerAssumption DEF TInv, TimerTypeOK, NextTick
<1>7. interval' \in [TimerId -> Intervals \cup {0}]
  BY <1>2 DEF TInv, TimerTypeOK, Cleared
<1>8. repeat' \in [TimerId -> Nat \cup {Forever}]
  <2>1. \A i \in TimerId : repeat[i] \in Nat \cup {Forever}
    BY DEF TInv, TimerTypeOK
  <2>2. \A i \in TimerId : repeat[i] > 0 => repeat[i] - 1 \in Nat
    BY <2>1 DEF Forever
  <2> QED BY <1>2, <2>1, <2>2
<1> QED BY <1>5, <1>6, <1>7, <1>8 DEF TInv, TimerTypeOK

\* timer_init fills the allocator with every id.
LEMMA InitInv == Init => TInv
<1> SUFFICES ASSUME Init PROVE TInv
  OBVIOUS
<1> USE TimerAssumption
<1>1. /\ timer_allocator \in Seq(TimerId) /\ Len(timer_allocator) = TIMERS_MAX
      /\ \A k \in 1 .. TIMERS_MAX : timer_allocator[k] = k - 1
  <2>1. timer_allocator \in [1 .. TIMERS_MAX -> TimerId] /\ TIMERS_MAX \in Nat
    BY DEF Init, TimerId
  <2> QED BY <2>1 DEF Init
<1>2. \A i \in TimerId : i + 1 \in 1 .. TIMERS_MAX /\ timer_allocator[i + 1] = i
  BY <1>1 DEF TimerId
<1>3. IdsExact
  <2>1. Once(timer_allocator)
    BY <1>1 DEF Once
  <2>2. \A i \in TimerId : callback[i] = 0 /\ Occurs(timer_allocator, i)
    BY <1>1, <1>2 DEF Init, Occurs
  <2> QED BY <2>1, <2>2, Exact
<1>4. TimerTypeOK
  BY <1>1 DEF Init, TimerTypeOK
<1> QED BY <1>3, <1>4 DEF TInv

\* Registering, giving up and the handler keep the table and the allocator exact.
LEMMA NextInv == TInv /\ [Next]_vars => TInv'
<1> SUFFICES ASSUME TInv, [Next]_vars PROVE TInv'
  OBVIOUS
<1>1. CASE timer_irq_handler
  BY <1>1, HandlerInv
<1>2. ASSUME NEW n \in Intervals, NEW r \in Repeats \cup {Forever},
             timer_callback_register(n, r)
      PROVE  TInv'
  BY <1>2, RegisterInv
<1>3. ASSUME NEW i \in TimerId, timer_callback_unregister(i) PROVE TInv'
  BY <1>3, UnregisterInv
<1>4. CASE UNCHANGED vars
  BY <1>4 DEF vars, table, TInv, TimerTypeOK, IdsExact
<1> QED BY <1>1, <1>2, <1>3, <1>4 DEF Next

\* Every entry of the table is registered or free, once, whatever timers expire
\* in the same tick: the allocator never refuses one.
THEOREM TimerIdsCorrect == Spec => [](TimerTypeOK /\ IdsExact)
<1>1. Init => TInv  BY InitInv
<1>2. TInv /\ [Next]_vars => TInv'  BY NextInv
<1> QED BY <1>1, <1>2, PTL DEF Spec, TInv
-----------------------------------------------------------------------------
\* Division with remainder, and that the remainder is unique.
LEMMA DivMod ==
    ASSUME NEW n \in Nat \ {0}, NEW t \in Int
    PROVE  /\ t \div n \in Int /\ t % n \in 0 .. n - 1
           /\ t = n * (t \div n) + (t % n)
OBVIOUS

\* A remainder is the only one there is.
LEMMA Remainder ==
    ASSUME NEW n \in Nat \ {0}, NEW q \in Int, NEW r \in 0 .. n - 1
    PROVE  (n * q + r) % n = r
OBVIOUS

\* The remainder of the next tick.
LEMMA ModStep ==
    ASSUME NEW n \in Nat \ {0}, NEW t \in Int
    PROVE  (t + 1) % n = IF t % n = n - 1 THEN 0 ELSE (t % n) + 1
<1> DEFINE q == t \div n
           r == t % n
<1>1. q \in Int /\ r \in 0 .. n - 1 /\ t = n * q + r
  BY DivMod
<1> HIDE DEF q
<1>2. CASE r = n - 1
  <2>1. t + 1 = n * (q + 1) + 0
    BY <1>1, <1>2
  <2>2. 0 \in 0 .. n - 1 /\ q + 1 \in Int
    BY <1>1
  <2> QED BY <2>1, <2>2, <1>2, Remainder
<1>3. CASE r # n - 1
  <2>1. t + 1 = n * q + (r + 1) /\ r + 1 \in 0 .. n - 1
    BY <1>1, <1>3
  <2> QED BY <2>1, <1>1, <1>3, Remainder
<1> QED BY <1>2, <1>3

\* A wrap by a multiple of n keeps the remainder.
LEMMA ModWrap ==
    ASSUME NEW n \in Nat \ {0}, NEW a \in Int, NEW w \in Int, w % n = 0
    PROVE  (a - w) % n = a % n
<1> DEFINE q == a \div n
           r == a % n
           p == w \div n
<1>1. q \in Int /\ r \in 0 .. n - 1 /\ a = n * q + r /\ p \in Int /\ w = n * p + 0
  BY DivMod
<1> HIDE DEF q, r, p
<1>2. a - w = n * (q - p) + r
  BY <1>1
<1>3. (a - w) % n = r
  BY <1>1, <1>2, Remainder
<1> QED BY <1>3 DEF r

\* The wrap of timer_ticks is by 2 * TICK_LIMIT, 2^32 in the program.
Dividing == \A n \in Intervals : (2 * TICK_LIMIT) % n = 0

\* The handler's clock goes on by one, modulo every interval.
LEMMA NextTickMod ==
    ASSUME Dividing, TimerTypeOK, NEW n \in Intervals
    PROVE  /\ timer_ticks % n \in 0 .. n - 1
           /\ NextTick(timer_ticks) % n =
                 IF timer_ticks % n = n - 1 THEN 0 ELSE (timer_ticks % n) + 1
           /\ NextTick(timer_ticks) # timer_ticks
<1> USE TimerAssumption
<1>1. n \in Nat \ {0} /\ timer_ticks \in Int /\ 2 * TICK_LIMIT \in Int
  BY DEF TimerTypeOK
<1>2. (timer_ticks + 1) % n = IF timer_ticks % n = n - 1 THEN 0 ELSE (timer_ticks % n) + 1
  BY <1>1, ModStep
<1>3. NextTick(timer_ticks) % n = (timer_ticks + 1) % n
  <2>1. CASE timer_ticks = TICK_LIMIT - 1
    <3>1. (2 * TICK_LIMIT) % n = 0 /\ timer_ticks + 1 \in Int
      BY <1>1 DEF Dividing
    <3>2. ((timer_ticks + 1) - 2 * TICK_LIMIT) % n = (timer_ticks + 1) % n
      BY <1>1, <3>1, ModWrap
    <3>3. NextTick(timer_ticks) = (timer_ticks + 1) - 2 * TICK_LIMIT
      BY <2>1 DEF NextTick
    <3> QED BY <3>2, <3>3
  <2>2. CASE timer_ticks # TICK_LIMIT - 1
    BY <2>2 DEF NextTick
  <2> QED BY <2>1, <2>2
<1>4. NextTick(timer_ticks) # timer_ticks
  BY DEF NextTick, TimerTypeOK
<1> QED BY <1>1, <1>2, <1>3, <1>4, DivMod

HistoryOK == /\ since \in [TimerId -> Nat]
             /\ calls \in [TimerId -> Nat]

\* The ticks since the last call are the remainder of the clock; before the
\* first call they are no more than that.
Phase(i) == /\ interval[i] \in Intervals
            /\ since[i] <= timer_ticks % interval[i]
            /\ calls[i] > 0 => since[i] = timer_ticks % interval[i]

PInv == TInv /\ HistoryOK /\ \A i \in TimerId : callback[i] = 1 => Phase(i)

\* A tick: what it does to a timer that stays, and that the timer is called
\* when the interval is over.
LEMMA TickPhase ==
    ASSUME PInv, Dividing, timer_irq_handler, NEW i \in TimerId, callback[i] = 1
    PROVE  /\ callback'[i] = 1 => Phase(i)' /\ since'[i] < interval[i]
           /\ since'[i] = 0 /\ calls[i] > 0 => since[i] + 1 = interval[i]
           /\ since'[i] \in Nat /\ calls'[i] \in Nat
<1> DEFINE n == interval[i]
           t == NextTick(timer_ticks)
           r == timer_ticks % n
<1>1. /\ n \in Intervals /\ n \in Nat \ {0}
      /\ since[i] \in Nat /\ calls[i] \in Nat /\ since[i] <= r
      /\ calls[i] > 0 => since[i] = r
  BY TimerAssumption DEF PInv, Phase, HistoryOK
<1>2. r \in 0 .. n - 1 /\ t % n = IF r = n - 1 THEN 0 ELSE r + 1
  BY <1>1, NextTickMod DEF PInv, TInv
<1>3. i \in Hit(t) <=> t % n = 0
  BY DEF Hit
<1>4. /\ timer_ticks' = t
      /\ since'[i] = IF i \in Hit(t) THEN 0 ELSE since[i] + 1
      /\ calls'[i] = IF i \in Hit(t) /\ calls[i] < MaxCalls THEN calls[i] + 1 ELSE calls[i]
  BY DEF timer_irq_handler
<1>5. callback'[i] = 1 => interval'[i] = n
  BY DEF timer_irq_handler, Expire, Cleared
<1> HIDE DEF n, t, r
<1>6. CASE r = n - 1
  <2>1. t % n = 0 /\ since'[i] = 0
    BY <1>2, <1>3, <1>4, <1>6
  <2>2. calls'[i] \in Nat
    BY <1>1, <1>4
  <2>3. callback'[i] = 1 => Phase(i)'
    BY <1>1, <1>4, <1>5, <2>1, <2>2 DEF Phase
  <2> QED BY <1>1, <1>6, <2>1, <2>2, <2>3 DEF n
<1>7. CASE r # n - 1
  <2>1. t % n = r + 1 /\ since'[i] = since[i] + 1 /\ calls'[i] = calls[i]
    BY <1>1, <1>2, <1>3, <1>4, <1>7
  <2>2. callback'[i] = 1 => Phase(i)'
    BY <1>1, <1>2, <1>4, <1>5, <2>1 DEF Phase
  <2>3. since'[i] < n /\ since'[i] \in Nat /\ since'[i] # 0
    BY <1>1, <1>2, <1>7, <2>1
  <2> QED BY <1>1, <2>1, <2>2, <2>3 DEF n
<1> QED BY <1>6, <1>7

\* The handler keeps every timer that goes on in phase.
LEMMA PhaseHandler ==
    ASSUME PInv, Dividing, timer_irq_handler
    PROVE  HistoryOK' /\ \A i \in TimerId : callback'[i] = 1 => Phase(i)'
<1>1. \A i \in TimerId : callback[i] = 1 =>
          /\ callback'[i] = 1 => Phase(i)'
          /\ since'[i] \in Nat /\ calls'[i] \in Nat
  BY TickPhase
<1>2. \A i \in TimerId : callback[i] # 1 => /\ callback'[i] # 1
                                           /\ since'[i] = 0 /\ calls'[i] = calls[i]
  <2>1. \A i \in TimerId : callback[i] \in {0, 1}
    BY DEF PInv, TInv, TimerTypeOK
  <2>2. \A t, i : i \in Hit(t) => callback[i] = 1
    BY DEF Hit
  <2> QED BY <2>1, <2>2 DEF timer_irq_handler, Expire, Cleared
<1>3. \A i \in TimerId : since'[i] \in Nat /\ calls'[i] \in Nat
  BY <1>1, <1>2 DEF PInv, HistoryOK
<1>4. HistoryOK'
  <2>1. /\ since' = [i \in TimerId |-> since'[i]]
        /\ calls' = [i \in TimerId |-> calls'[i]]
    BY DEF timer_irq_handler
  <2> QED BY <1>3, <2>1 DEF HistoryOK
<1> QED BY <1>1, <1>2, <1>4

\* A timer starts with no ticks and no calls; the others are left alone.
LEMMA PhaseRegister ==
    ASSUME PInv, Dividing, NEW n \in Intervals, NEW r \in Repeats \cup {Forever},
           timer_callback_register(n, r)
    PROVE  /\ HistoryOK' /\ \A i \in TimerId : callback'[i] = 1 => Phase(i)'
           /\ timer_ticks' = timer_ticks
           /\ \A i \in TimerId : callback[i] = 1 => since'[i] < interval[i]
<1> DEFINE h == Head(timer_allocator)
<1>1. h \in TimerId /\ callback[h] = 0
  <2>1. /\ h \in TimerId /\ h = timer_allocator[1]
        /\ 1 \in 1 .. Len(timer_allocator)
    BY HeadTailProperties, LenProperties, EmptySeq
       DEF PInv, TInv, TimerTypeOK, timer_callback_register
  <2> QED BY <2>1 DEF PInv, TInv, IdsExact
<1>2. /\ callback' = [callback EXCEPT ![h] = 1]
      /\ interval' = [interval EXCEPT ![h] = n]
      /\ calls' = [calls EXCEPT ![h] = 0]
      /\ since' = [since EXCEPT ![h] = 0]
      /\ timer_ticks' = timer_ticks
  BY DEF timer_callback_register
<1> HIDE DEF h
<1>3. \A i \in TimerId : /\ callback'[i] = IF i = h THEN 1 ELSE callback[i]
                         /\ interval'[i] = IF i = h THEN n ELSE interval[i]
                         /\ calls'[i] = IF i = h THEN 0 ELSE calls[i]
                         /\ since'[i] = IF i = h THEN 0 ELSE since[i]
  BY <1>2 DEF PInv, TInv, TimerTypeOK, HistoryOK
<1>4. \A m \in Intervals : timer_ticks % m \in 0 .. m - 1 /\ m \in Nat
  BY NextTickMod, TimerAssumption DEF PInv, TInv
<1>5. HistoryOK'
  BY <1>2 DEF PInv, HistoryOK
<1>6. ASSUME NEW i \in TimerId, i = h PROVE Phase(i)'
  <2>1. timer_ticks % n >= 0
    BY <1>4
  <2> QED BY <1>2, <1>3, <1>6, <2>1 DEF Phase
<1>7. ASSUME NEW i \in TimerId, callback[i] = 1 PROVE Phase(i)' /\ since'[i] < interval[i]
  <2>1. i # h /\ Phase(i)
    BY <1>1, <1>7 DEF PInv
  <2>2. since[i] < interval[i]
    BY <1>4, <2>1 DEF Phase, PInv, HistoryOK
  <2> QED BY <1>2, <1>3, <2>1, <2>2 DEF Phase
<1>8. \A i \in TimerId : callback'[i] = 1 => i = h \/ callback[i] = 1
  BY <1>3
<1> QED BY <1>2, <1>5, <1>6, <1>7, <1>8

\* Giving up a timer leaves the others in phase.
LEMMA PhaseUnregister ==
    ASSUME PInv, Dividing, NEW j \in TimerId, timer_callback_unregister(j)
    PROVE  /\ HistoryOK' /\ \A i \in TimerId : callback'[i] = 1 => Phase(i)'
           /\ timer_ticks' = timer_ticks
           /\ \A i \in TimerId : callback[i] = 1 => since'[i] < interval[i]
<1>1. UNCHANGED <<timer_ticks, calls, since>>
  BY DEF timer_callback_unregister, history
<1>2. \A i \in TimerId : callback'[i] = 1 => callback[i] = 1 /\ interval'[i] = interval[i]
  BY DEF timer_callback_unregister, Cleared
<1>3. \A m \in Intervals : timer_ticks % m \in 0 .. m - 1 /\ m \in Nat
  BY NextTickMod, TimerAssumption DEF PInv, TInv
<1>4. \A i \in TimerId : callback[i] = 1 => since[i] < interval[i]
  BY <1>3 DEF PInv, Phase, HistoryOK
<1> QED BY <1>1, <1>2, <1>4 DEF PInv, HistoryOK, Phase

\* What Periodic says of one step.
PeriodicStep ==
    /\ \A i \in TimerId : callback[i] = 1 /\ callback'[i] = 1 => since'[i] < interval[i]
    /\ \A i \in TimerId : Called(i) /\ calls[i] > 0 => since[i] + 1 = interval[i]

\* No step puts a timer out of phase, or calls one at another time.
LEMMA NextPhase ==
    ASSUME PInv, Dividing, Next
    PROVE  PInv' /\ PeriodicStep
<1>0. TInv'
  BY NextInv DEF PInv
<1>1. CASE timer_irq_handler
  BY <1>0, <1>1, PhaseHandler, TickPhase DEF PInv, PeriodicStep, Called
<1>2. ASSUME NEW n \in Intervals, NEW r \in Repeats \cup {Forever},
             timer_callback_register(n, r)
      PROVE  PInv' /\ PeriodicStep
  BY <1>0, <1>2, PhaseRegister DEF PInv, PeriodicStep, Called
<1>3. ASSUME NEW i \in TimerId, timer_callback_unregister(i) PROVE PInv' /\ PeriodicStep
  BY <1>0, <1>3, PhaseUnregister DEF PInv, PeriodicStep, Called
<1> QED BY <1>1, <1>2, <1>3 DEF Next

\* timer_init registers nothing.
LEMMA InitPhase == Init => PInv
<1> SUFFICES ASSUME Init PROVE PInv
  OBVIOUS
<1>1. \A i \in TimerId : callback[i] = 0
  BY DEF Init
<1>2. HistoryOK
  BY DEF Init, HistoryOK
<1> QED BY <1>1, <1>2, InitInv DEF PInv

\* Calls come exactly `interval` ticks apart, whatever other timers come and
\* go, across every wrap of timer_ticks, for intervals that divide its range.
THEOREM PeriodicCorrect == ASSUME Dividing PROVE Spec => Periodic
<1>1. Init => PInv  BY InitPhase
<1>2. PInv /\ [Next]_vars => PInv'
  <2>1. PInv /\ UNCHANGED vars => PInv'
    BY DEF vars, table, history, PInv, TInv, TimerTypeOK, IdsExact, HistoryOK, Phase
  <2> QED BY <2>1, NextPhase
<1>3. PInv /\ [Next]_vars =>
        [\A i \in TimerId : callback[i] = 1 /\ callback'[i] = 1 => since'[i] < interval[i]]_vars
  BY NextPhase DEF PeriodicStep
<1>4. PInv /\ [Next]_vars =>
        [\A i \in TimerId : Called(i) /\ calls[i] > 0 => since[i] + 1 = interval[i]]_vars
  BY NextPhase DEF PeriodicStep
<1> QED BY <1>1, <1>2, <1>3, <1>4, PTL DEF Spec, Periodic
-----------------------------------------------------------------------------
Idle == [p \in Pic |-> {}]

\* What the controllers have in service while the line l is handled.
Serving(l) == [p \in Pic |-> IF p = PicOf(l) THEN {BitOf(l)} ELSE IF p = 1 THEN {2} ELSE {}]

LinesTypeOK ==
    /\ pc \in {"boot", "user", "entry", "sched", "halt"}
    /\ irq \in Irq
    /\ irq_handlers \in [Irq -> {"none", "timer", "keyboard", "syscall", "driver"}]
    /\ mask \in [Pic -> SUBSET Bit]
    /\ request \in [Pic -> SUBSET Bit]
    /\ service \in [Pic -> SUBSET Bit]
    /\ wanted \subseteq Lines

\* The lines that are enabled are the wanted ones, and each has a handler.
MaskExact == /\ \A l \in Lines : BitOf(l) \notin mask[PicOf(l)] <=> l \in wanted
             /\ \A l \in wanted : irq_handlers[32 + l] # "none"

\* The functions main calls.
Names == {InitCalls[i] : i \in 1 .. 10}

\* What main still has to call, and what the calls before have registered.
BootOK == /\ todo \in Seq(Names) /\ Len(todo) <= 10
          /\ \A j \in 1 .. Len(todo) : todo[j] = InitCalls[(10 - Len(todo)) + j]
          /\ pc # "boot" => Len(todo) = 0
          /\ Len(todo) = 10 => wanted = {}
          /\ Len(todo) <= 8 => 0 \in wanted
          /\ Len(todo) <= 6 => 1 \in wanted
          /\ Len(todo) <= 4 => irq_handlers[IRQ_SYSCALL] # "none"

\* A line is in service only while its handler runs.
ServiceOK == /\ pc # "halt"
             /\ pc # "entry" => service = Idle
             /\ pc = "entry" => irq_handlers[irq] # "none"
             /\ pc = "entry" => \/ irq = IRQ_SYSCALL /\ service = Idle
                                \/ \E l \in Lines : irq = 32 + l /\ service = Serving(l)

LInv == LinesTypeOK /\ MaskExact /\ BootOK /\ ServiceOK
-----------------------------------------------------------------------------
\* Every step of the interrupt layer is one of the timers, or none.
LEMMA TimerSteps == [IrqNext]_allVars => [Next]_vars
<1> SUFFICES ASSUME [IrqNext]_allVars PROVE [Next]_vars
  OBVIOUS
<1>1. ASSUME NEW n \in Intervals, Register(n) PROVE [Next]_vars
  BY <1>1 DEF Register, Next
<1>2. CASE Boot
  <2>1. 1 \in Intervals /\ 2 \in Intervals
    BY IntervalsAssumption
  <2> QED BY <1>1, <1>2, <2>1
          DEF Boot, interrupts_init, timer_init, tty_init, keyboard_init, scheduler_init,
              ksyscall_init, test_init, interrupts_enable
<1>3. ASSUME NEW l \in Lines, Raise(l) \/ Accept(l) \/ Driver(l) PROVE [Next]_vars
  BY <1>3 DEF Raise, Accept, Driver
<1>4. CASE SystemCall \/ kernel_context_exit \/ UNCHANGED allVars
  BY <1>4 DEF SystemCall, kernel_context_exit, allVars
<1>5. CASE interrupts_irq_handler
  BY <1>5 DEF interrupts_irq_handler, Next
<1> QED BY <1>2, <1>3, <1>4, <1>5 DEF IrqNext, Kernel

\* Nothing that interrupts and drivers do can break what the timers promise.
THEOREM InterruptsImplementTimers == IrqSpec => Spec
<1>1. IrqInit => Init  BY DEF IrqInit
<1> QED BY <1>1, TimerSteps, PTL DEF IrqSpec, Spec

\* Every timer entry is registered or free, once, with the start-up, the
\* interrupts and the drivers around the timers.
THEOREM IdsExactCorrect == IrqSpec => []IdsExact
BY TimerIdsCorrect, InterruptsImplementTimers, PTL
-----------------------------------------------------------------------------
\* A line and its interrupt share a controller and a bit, which no other line
\* has.
LEMMA LineBits ==
    /\ \A l \in Lines : /\ PicOf(l) \in Pic /\ BitOf(l) \in Bit
                        /\ PicOf(32 + l) = PicOf(l) /\ BitOf(32 + l) = BitOf(l)
                        /\ 32 + l \in 32 .. 47 /\ 32 + l \in Irq /\ (32 + l) - 32 = l
    /\ \A l, m \in Lines : PicOf(l) = PicOf(m) /\ BitOf(l) = BitOf(m) => l = m
    /\ \A l, m \in Lines : 32 + l = 32 + m => l = m
    /\ IRQ_SYSCALL \in Irq /\ IRQ_SYSCALL \notin 32 .. 47
    /\ \A l \in Lines : 32 + l # IRQ_SYSCALL
<1>1. \A l \in Lines : l \in 0 .. 15
  BY LinesAssumption
<1>2. \A l \in 0 .. 15 : /\ PicOf(l) \in Pic /\ BitOf(l) \in Bit
                         /\ PicOf(32 + l) = PicOf(l) /\ BitOf(32 + l) = BitOf(l)
                         /\ 32 + l \in 32 .. 47 /\ (32 + l) - 32 = l /\ 32 + l # 128
  BY DEF PicOf, BitOf, Pic, Bit
<1>3. \A l, m \in 0 .. 15 : PicOf(l) = PicOf(m) /\ BitOf(l) = BitOf(m) => l = m
  BY DEF PicOf, BitOf
<1> QED BY <1>1, <1>2, <1>3 DEF Irq, IRQ_SYSCALL

\* Registering a handler enables its line and nothing else.
LEMMA RegisterLine ==
    ASSUME LinesTypeOK, MaskExact, NEW l \in Lines,
           NEW h \in {"timer", "keyboard", "syscall", "driver"},
           interrupts_irq_register(32 + l, h)
    PROVE  /\ MaskExact'
           /\ wanted' = wanted \cup {l} /\ wanted' \subseteq Lines
           /\ mask' \in [Pic -> SUBSET Bit]
           /\ irq_handlers' \in [Irq -> {"none", "timer", "keyboard", "syscall", "driver"}]
           /\ \A n \in Irq : irq_handlers[n] # "none" => irq_handlers'[n] # "none"
<1>1. /\ irq_handlers' = [irq_handlers EXCEPT ![32 + l] = h]
      /\ mask' = [mask EXCEPT ![PicOf(l)] = @ \ {BitOf(l)}]
      /\ wanted' = wanted \cup {l}
  BY LineBits DEF interrupts_irq_register, pic_irq_enable
<1>2. \A n \in Irq : irq_handlers'[n] = IF n = 32 + l THEN h ELSE irq_handlers[n]
  BY <1>1 DEF LinesTypeOK
<1>3. \A p \in Pic : mask'[p] = IF p = PicOf(l) THEN mask[p] \ {BitOf(l)} ELSE mask[p]
  BY <1>1, LineBits DEF LinesTypeOK
<1>4. mask' \in [Pic -> SUBSET Bit]
  <2>1. mask[PicOf(l)] \ {BitOf(l)} \in SUBSET Bit
    BY LineBits DEF LinesTypeOK
  <2> QED BY <1>1, <2>1, UpdateType DEF LinesTypeOK
<1>5. irq_handlers' \in [Irq -> {"none", "timer", "keyboard", "syscall", "driver"}]
  BY <1>1 DEF LinesTypeOK
<1>6. \A m \in Lines : BitOf(m) \notin mask'[PicOf(m)] <=> m \in wanted'
  BY <1>1, <1>3, LineBits DEF MaskExact
<1>7. \A m \in wanted' : irq_handlers'[32 + m] # "none"
  BY <1>1, <1>2, LineBits DEF MaskExact, LinesTypeOK
<1> QED BY <1>1, <1>2, <1>4, <1>5, <1>6, <1>7 DEF MaskExact, LinesTypeOK

\* The handler of system calls has no line.
LEMMA RegisterCall ==
    ASSUME LinesTypeOK, MaskExact, interrupts_irq_register(IRQ_SYSCALL, "syscall")
    PROVE  /\ MaskExact' /\ UNCHANGED <<mask, wanted>>
           /\ irq_handlers' \in [Irq -> {"none", "timer", "keyboard", "syscall", "driver"}]
           /\ irq_handlers'[IRQ_SYSCALL] # "none"
<1>1. UNCHANGED <<mask, wanted>>
      /\ irq_handlers' = [irq_handlers EXCEPT ![IRQ_SYSCALL] = "syscall"]
  BY LineBits DEF interrupts_irq_register
<1>2. \A n \in Irq : irq_handlers'[n] = IF n = IRQ_SYSCALL THEN "syscall" ELSE irq_handlers[n]
  BY <1>1 DEF LinesTypeOK
<1>3. irq_handlers' \in [Irq -> {"none", "timer", "keyboard", "syscall", "driver"}]
  BY <1>1 DEF LinesTypeOK
<1>4. \A l \in wanted : irq_handlers'[32 + l] # "none"
  BY <1>2, LineBits DEF MaskExact, LinesTypeOK
<1> QED BY <1>1, <1>2, <1>3, <1>4, LineBits DEF MaskExact
-----------------------------------------------------------------------------
\* The ten calls, by number.
LEMMA UpToTen == \A i \in 1 .. 10 : \/ i = 1 \/ i = 2 \/ i = 3 \/ i = 4 \/ i = 5
                                    \/ i = 6 \/ i = 7 \/ i = 8 \/ i = 9 \/ i = 10
OBVIOUS

\* The order in which main calls.
LEMMA CallOrder ==
    /\ \A i \in 1 .. 10 : InitCalls[i] = "interrupts_init" <=> i = 1
    /\ \A i \in 1 .. 10 : InitCalls[i] = "timer_init" <=> i = 2
    /\ \A i \in 1 .. 10 : InitCalls[i] = "tty_init" <=> i = 3
    /\ \A i \in 1 .. 10 : InitCalls[i] = "keyboard_init" <=> i = 4
    /\ \A i \in 1 .. 10 : InitCalls[i] = "scheduler_init" <=> i = 5
    /\ \A i \in 1 .. 10 : InitCalls[i] = "ksyscall_init" <=> i = 6
    /\ \A i \in 1 .. 10 : InitCalls[i] \in {"test_spinner", "test_timer", "test_proc_list"}
                             <=> i \in 7 .. 9
    /\ \A i \in 1 .. 10 : InitCalls[i] = "interrupts_enable" <=> i = 10
<1>1. /\ InitCalls[1] = "interrupts_init" /\ InitCalls[2] = "timer_init"
      /\ InitCalls[3] = "tty_init" /\ InitCalls[4] = "keyboard_init"
      /\ InitCalls[5] = "scheduler_init" /\ InitCalls[6] = "ksyscall_init"
      /\ InitCalls[7] = "test_spinner" /\ InitCalls[8] = "test_timer"
      /\ InitCalls[9] = "test_proc_list" /\ InitCalls[10] = "interrupts_enable"
  BY DEF InitCalls
<1> QED BY <1>1, UpToTen

\* A call of main is the next one; interrupts are enabled by the last.
LEMMA BootCall ==
    ASSUME BootOK, NEW f, Calls(f)
    PROVE  \E n \in 1 .. 10 :
               /\ pc = "boot" /\ Len(todo) = n /\ f = InitCalls[11 - n]
               /\ todo' \in Seq(Names) /\ Len(todo') = n - 1
               /\ \A j \in 1 .. n - 1 : todo'[j] = InitCalls[(11 - n) + j]
               /\ pc' \in {"boot", "user"} /\ (pc' # "boot" => n = 1)
               /\ UNCHANGED <<mode, irq, request, service>>
<1>1. /\ todo \in Seq(Names) /\ todo # <<>> /\ pc = "boot"
      /\ todo' = Tail(todo) /\ Head(todo) = f
  BY DEF BootOK, Calls
<1>2. PICK n \in 1 .. 10 : Len(todo) = n
  <2>1. \A m \in Nat : m # 0 /\ m <= 10 => m \in 1 .. 10
    OBVIOUS
  <2>2. Len(todo) \in Nat /\ Len(todo) # 0
    BY <1>1, LenProperties, EmptySeq
  <2>3. Len(todo) \in 1 .. 10
    BY <2>1, <2>2 DEF BootOK
  <2> QED BY <2>3, Zenon
<1>3. /\ f = todo[1] /\ Len(todo') = n - 1
      /\ todo' \in Seq(Names)
      /\ \A j \in 1 .. n - 1 : todo'[j] = todo[j + 1]
  BY <1>1, <1>2, HeadTailProperties
<1>4. f = InitCalls[11 - n]
  <2>1. 1 \in 1 .. n /\ (10 - n) + 1 = 11 - n
    OBVIOUS
  <2>2. todo[1] = InitCalls[(10 - n) + 1]
    BY <1>2, <2>1 DEF BootOK
  <2> QED BY <1>3, <2>1, <2>2
<1>5. \A j \in 1 .. n - 1 : todo'[j] = InitCalls[(11 - n) + j]
  <2> SUFFICES ASSUME NEW j \in 1 .. n - 1 PROVE todo'[j] = InitCalls[(11 - n) + j]
    OBVIOUS
  <2>1. j + 1 \in 1 .. n /\ (10 - n) + (j + 1) = (11 - n) + j
    OBVIOUS
  <2>2. todo[j + 1] = InitCalls[(10 - n) + (j + 1)]
    BY <1>2, <2>1 DEF BootOK
  <2> QED BY <1>3, <2>1, <2>2
<1>6. f = "interrupts_enable" => n = 1
  <2>1. 11 - n \in 1 .. 10 /\ (11 - n = 10 => n = 1)
    OBVIOUS
  <2> QED BY <1>4, <2>1, CallOrder
<1> QED BY <1>1, <1>2, <1>3, <1>4, <1>5, <1>6 DEF Calls

\* What a call of main must establish.
LEMMA BootStep ==
    ASSUME LInv, NEW f, Calls(f), MaskExact',
           mask' \in [Pic -> SUBSET Bit], wanted' \subseteq Lines,
           irq_handlers' \in [Irq -> {"none", "timer", "keyboard", "syscall", "driver"}],
           f = "interrupts_init" \/ wanted \subseteq wanted',
           f = "timer_init" => 0 \in wanted',
           f = "keyboard_init" => 1 \in wanted',
           f = "ksyscall_init" => irq_handlers'[IRQ_SYSCALL] # "none",
           f = "interrupts_init" \/ (irq_handlers[IRQ_SYSCALL] # "none"
                                      => irq_handlers'[IRQ_SYSCALL] # "none")
    PROVE  LInv'
<1>1. PICK n \in 1 .. 10 :
          /\ pc = "boot" /\ Len(todo) = n /\ f = InitCalls[11 - n]
          /\ todo' \in Seq(Names) /\ Len(todo') = n - 1
          /\ \A j \in 1 .. n - 1 : todo'[j] = InitCalls[(11 - n) + j]
          /\ pc' \in {"boot", "user"} /\ (pc' # "boot" => n = 1)
          /\ UNCHANGED <<mode, irq, request, service>>
  BY BootCall DEF LInv
<1>2. LinesTypeOK'
  BY <1>1 DEF LInv, LinesTypeOK
<1>3. ServiceOK'
  BY <1>1 DEF LInv, ServiceOK, Idle
<1>4. BootOK'
  <2>1. 11 - n \in 1 .. 10 /\ \A i \in 1 .. 10 : 11 - n = i <=> n = 11 - i
    OBVIOUS
  <2>2. /\ (f = "interrupts_init" <=> n = 10) /\ (f = "timer_init" <=> n = 9)
        /\ (f = "keyboard_init" <=> n = 7) /\ (f = "ksyscall_init" <=> n = 5)
    <3>1. PICK i \in 1 .. 10 : i = 11 - n /\ f = InitCalls[i]
      BY <1>1, <2>1, Zenon
    <3>2. /\ f = "interrupts_init" <=> i = 1
          /\ f = "timer_init" <=> i = 2
          /\ f = "keyboard_init" <=> i = 4
          /\ f = "ksyscall_init" <=> i = 6
      BY <3>1, CallOrder, ZenonT(60)
    <3> QED BY <3>1, <3>2
  <2>3. /\ n <= 8 => 0 \in wanted
        /\ n <= 6 => 1 \in wanted
        /\ n <= 4 => irq_handlers[IRQ_SYSCALL] # "none"
    BY <1>1 DEF LInv, BootOK
  <2>4. /\ n - 1 <= 8 => 0 \in wanted'
        /\ n - 1 <= 6 => 1 \in wanted'
        /\ n - 1 <= 4 => irq_handlers'[IRQ_SYSCALL] # "none"
    BY <2>2, <2>3
  <2>5. n - 1 <= 10 /\ n - 1 # 10 /\ (n = 1 => n - 1 = 0)
    OBVIOUS
  <2>6. \A j \in 1 .. n - 1 : todo'[j] = InitCalls[(10 - (n - 1)) + j]
    <3>1. \A j \in 1 .. n - 1 : (10 - (n - 1)) + j = (11 - n) + j
      OBVIOUS
    <3> QED BY <1>1, <3>1
  <2> QED BY <1>1, <2>4, <2>5, <2>6 DEF BootOK
<1> QED BY <1>2, <1>3, <1>4 DEF LInv

\* Every call of main keeps the invariant.
LEMMA BootInv == LInv /\ Boot => LInv'
<1> SUFFICES ASSUME LInv, Boot PROVE LInv'
  OBVIOUS
<1>0. LinesTypeOK /\ MaskExact /\ BootOK
  BY DEF LInv
<1>1. CASE interrupts_init
  <2>1. Calls("interrupts_init") /\ UNCHANGED <<mask, wanted>>
        /\ irq_handlers' = [n \in Irq |-> "none"]
    BY <1>1 DEF interrupts_init
  <2>2. wanted = {}
    <3>1. PICK n \in 1 .. 10 : Len(todo) = n /\ InitCalls[11 - n] = "interrupts_init"
      BY <1>0, <2>1, BootCall
    <3>2. 11 - n \in 1 .. 10 /\ (11 - n = 1 => n = 10)
      OBVIOUS
    <3> QED BY <3>1, <3>2, <1>0, CallOrder DEF BootOK
  <2>3. MaskExact'
    BY <1>0, <2>1, <2>2 DEF MaskExact
  <2> QED BY <1>0, <2>1, <2>3, BootStep DEF LinesTypeOK
<1>2. CASE timer_init
  <2>1. Calls("timer_init") /\ interrupts_irq_register(32 + 0, "timer")
    BY <1>2 DEF timer_init, IRQ_TIMER
  <2>2. 0 \in Lines
    BY LinesAssumption
  <2> QED BY <1>0, <2>1, <2>2, RegisterLine, LineBits, BootStep
<1>3. CASE keyboard_init
  <2>1. Calls("keyboard_init") /\ interrupts_irq_register(32 + 1, "keyboard")
    BY <1>3 DEF keyboard_init, IRQ_KEYBOARD
  <2>2. 1 \in Lines
    BY LinesAssumption
  <2> QED BY <1>0, <2>1, <2>2, RegisterLine, LineBits, BootStep
<1>4. CASE ksyscall_init
  <2>1. Calls("ksyscall_init") /\ interrupts_irq_register(IRQ_SYSCALL, "syscall")
    BY <1>4 DEF ksyscall_init
  <2> QED BY <1>0, <2>1, RegisterCall, BootStep DEF LinesTypeOK
<1>5. CASE tty_init \/ scheduler_init \/ test_init \/ interrupts_enable
  <2>1. UNCHANGED <<irq_handlers, mask, wanted>>
    BY <1>5 DEF tty_init, scheduler_init, test_init, interrupts_enable
  <2>2. PICK f \in {"tty_init", "scheduler_init", "test_spinner", "test_timer",
                    "test_proc_list", "interrupts_enable"} : Calls(f)
    BY <1>5 DEF tty_init, scheduler_init, test_init, interrupts_enable
  <2>3. MaskExact'
    BY <1>0, <2>1 DEF MaskExact
  <2> QED BY <1>0, <2>1, <2>2, <2>3, BootStep DEF LinesTypeOK
<1> QED BY <1>1, <1>2, <1>3, <1>4, <1>5 DEF Boot
-----------------------------------------------------------------------------
\* Raising a line asks for it and changes nothing else.
LEMMA RaiseInv ==
    ASSUME LInv, NEW l \in Lines, Raise(l)
    PROVE  LInv'
<1>1. request' \in [Pic -> SUBSET Bit]
  <2>1. request[PicOf(l)] \cup {BitOf(l)} \in SUBSET Bit
    BY LineBits DEF LInv, LinesTypeOK
  <2> QED BY <2>1, UpdateType DEF Raise, LInv, LinesTypeOK
<1> QED BY <1>1 DEF Raise, LInv, LinesTypeOK, MaskExact, BootOK, ServiceOK

\* A line that the controllers pass on is enabled, so it has a handler; it is
\* the only one then in service.
LEMMA AcceptInv ==
    ASSUME LInv, NEW l \in Lines, Accept(l)
    PROVE  LInv'
<1>0. /\ LinesTypeOK /\ MaskExact /\ BootOK /\ ServiceOK
      /\ pc = "user" /\ irq' = 32 + l /\ pc' = "entry" /\ service = Idle
      /\ UNCHANGED <<todo, irq_handlers, mask, wanted>>
  BY DEF LInv, Accept, ServiceOK
<1>1. /\ l \in wanted /\ service' = Serving(l)
      /\ request' \in [Pic -> SUBSET Bit]
  <2>1. CASE /\ PicOf(l) = 1 /\ First(Primary, BitOf(l))
             /\ request' = [request EXCEPT ![1] = @ \ {BitOf(l)}]
             /\ service' = [service EXCEPT ![1] = @ \cup {BitOf(l)}]
    <3>1. BitOf(l) \notin mask[1]
      BY <2>1 DEF First, Primary, Eligible
    <3>2. service' = Serving(l)
      BY <1>0, <2>1 DEF Idle, Serving, Pic
    <3>3. request[1] \ {BitOf(l)} \in SUBSET Bit
      BY <1>0 DEF LinesTypeOK, Pic
    <3>4. request' \in [Pic -> SUBSET Bit]
      BY <1>0, <2>1, <3>3, UpdateType DEF LinesTypeOK
    <3> QED BY <1>0, <2>1, <3>1, <3>2, <3>4 DEF MaskExact
  <2>2. CASE /\ PicOf(l) = 2 /\ First(Primary, 2) /\ First(Secondary, BitOf(l))
             /\ request' = [request EXCEPT ![2] = @ \ {BitOf(l)}]
             /\ service' = [p \in Pic |-> service[p] \cup {IF p = 1 THEN 2 ELSE BitOf(l)}]
    <3>1. BitOf(l) \notin mask[2]
      BY <2>2 DEF First, Secondary, Eligible
    <3>2. service' = Serving(l)
      BY <1>0, <2>2 DEF Idle, Serving, Pic
    <3>3. request[2] \ {BitOf(l)} \in SUBSET Bit
      BY <1>0 DEF LinesTypeOK, Pic
    <3>4. request' \in [Pic -> SUBSET Bit]
      BY <1>0, <2>2, <3>3, UpdateType DEF LinesTypeOK
    <3> QED BY <1>0, <2>2, <3>1, <3>2, <3>4 DEF MaskExact
  <2> QED BY <2>1, <2>2 DEF Accept
<1>2. LinesTypeOK'
  <2>1. service' \in [Pic -> SUBSET Bit]
    BY <1>1, LineBits DEF Serving, Pic, Bit
  <2> QED BY <1>0, <1>1, <2>1, LineBits DEF LinesTypeOK
<1>3. MaskExact' /\ BootOK'
  BY <1>0 DEF MaskExact, BootOK
<1>4. ServiceOK'
  BY <1>0, <1>1 DEF ServiceOK, MaskExact
<1> QED BY <1>2, <1>3, <1>4 DEF LInv

\* A process runs only after main has registered the handler of system calls.
LEMMA SystemCallInv == LInv /\ SystemCall => LInv'
<1> SUFFICES ASSUME LInv, SystemCall PROVE LInv'
  OBVIOUS
<1>1. irq_handlers[IRQ_SYSCALL] # "none"
  <2>1. Len(todo) = 0 /\ (Len(todo) <= 4 => irq_handlers[IRQ_SYSCALL] # "none")
    BY DEF LInv, BootOK, SystemCall
  <2> QED BY <2>1
<1>2. LinesTypeOK' /\ MaskExact' /\ BootOK'
  BY LineBits DEF LInv, SystemCall, LinesTypeOK, MaskExact, BootOK
<1>3. ServiceOK'
  BY <1>1 DEF LInv, SystemCall, ServiceOK
<1> QED BY <1>2, <1>3 DEF LInv

\* The handler ends with nothing in service: dismissing a line frees it and,
\* behind the secondary controller, the line of the primary one as well.
LEMMA DispatchInv ==
    ASSUME LInv, interrupts_irq_handler
    PROVE  LInv'
<1>0. /\ LinesTypeOK /\ MaskExact /\ BootOK /\ ServiceOK
      /\ pc = "entry" /\ pc' = "sched" /\ irq_handlers[irq] # "none"
      /\ IF irq \in 32 .. 47 THEN pic_irq_dismiss(irq - 32) ELSE UNCHANGED service
      /\ UNCHANGED <<todo, irq, irq_handlers, mask, request, wanted>>
  BY DEF LInv, interrupts_irq_handler, ServiceOK
<1>1. service' = Idle
  <2>1. CASE irq = IRQ_SYSCALL /\ service = Idle
    BY <1>0, <2>1, LineBits
  <2>2. ASSUME NEW l \in Lines, irq = 32 + l, service = Serving(l) PROVE service' = Idle
    <3>1. /\ pic_irq_dismiss(l) /\ PicOf(l) \in Pic
      BY <1>0, <2>2, LineBits
    <3>2. EndOfInterrupt({2}) = {} /\ EndOfInterrupt({}) = {}
      BY DEF EndOfInterrupt
    <3>3. EndOfInterrupt({BitOf(l)}) = {}
      <4>1. BitOf(l) \in Int
        BY LineBits DEF Bit
      <4> QED BY <4>1 DEF EndOfInterrupt
    <3>4. CASE PicOf(l) = 1
      BY <2>2, <3>1, <3>2, <3>3, <3>4 DEF pic_irq_dismiss, Serving, Idle, Pic
    <3>5. CASE PicOf(l) = 2
      BY <2>2, <3>1, <3>2, <3>3, <3>5 DEF pic_irq_dismiss, Serving, Idle, Pic
    <3> QED BY <3>1, <3>4, <3>5 DEF Pic
  <2> QED BY <1>0, <2>1, <2>2 DEF ServiceOK
<1>2. LinesTypeOK'
  BY <1>0, <1>1 DEF LinesTypeOK, Idle
<1>3. MaskExact' /\ BootOK'
  BY <1>0 DEF MaskExact, BootOK
<1>4. ServiceOK'
  BY <1>0, <1>1 DEF ServiceOK
<1> QED BY <1>2, <1>3, <1>4 DEF LInv

\* A driver that disables a line it has enabled leaves it out of the wanted
\* ones; the toggled bit of any other line would enable it.
LEMMA DriverInv ==
    ASSUME LInv, NEW l \in Lines, Driver(l)
    PROVE  LInv'
<1>0. /\ LinesTypeOK /\ MaskExact /\ BootOK /\ ServiceOK
      /\ pc = "sched" /\ l \notin {0, 1}
      /\ UNCHANGED <<todo, pc, irq, request, service>>
  BY DEF LInv, Driver
<1>1. /\ MaskExact' /\ wanted' \subseteq Lines /\ wanted \ {l} \subseteq wanted'
      /\ mask' \in [Pic -> SUBSET Bit]
      /\ irq_handlers' \in [Irq -> {"none", "timer", "keyboard", "syscall", "driver"}]
      /\ \A n \in Irq : irq_handlers[n] # "none" => irq_handlers'[n] # "none"
  <2>1. CASE interrupts_irq_register(32 + l, "driver")
    BY <1>0, <2>1, RegisterLine
  <2>2. CASE /\ pic_irq_enabled(32 + l) /\ pic_irq_disable(32 + l)
             /\ wanted' = wanted \ {l} /\ UNCHANGED irq_handlers
    <3>1. /\ mask' = [mask EXCEPT ![PicOf(l)] = @ \cup {BitOf(l)}]
          /\ mask[PicOf(l)] \cup {BitOf(l)} \in SUBSET Bit
      <4>1. BitOf(l) \notin mask[PicOf(l)]
        BY <2>2, LineBits DEF pic_irq_enabled
      <4>2. mask' = [mask EXCEPT ![PicOf(l)] = (@ \ {BitOf(l)}) \cup ({BitOf(l)} \ @)]
        BY <2>2, LineBits DEF pic_irq_disable
      <4>3. (mask[PicOf(l)] \ {BitOf(l)}) \cup ({BitOf(l)} \ mask[PicOf(l)])
               = mask[PicOf(l)] \cup {BitOf(l)}
        <5>1. \A b, X : b \notin X => (X \ {b}) \cup ({b} \ X) = X \cup {b}
          OBVIOUS
        <5> QED BY <4>1, <5>1, Zenon
      <4>4. mask[PicOf(l)] \in SUBSET Bit /\ BitOf(l) \in Bit
        BY <1>0, LineBits DEF LinesTypeOK
      <4>5. mask[PicOf(l)] \cup {BitOf(l)} \in SUBSET Bit
        BY <4>4
      <4> QED BY <4>2, <4>3, <4>5, Zenon
    <3>2. \A p \in Pic : mask'[p] = IF p = PicOf(l) THEN mask[p] \cup {BitOf(l)} ELSE mask[p]
      BY <3>1, <1>0, LineBits DEF LinesTypeOK
    <3>3. mask' \in [Pic -> SUBSET Bit]
      BY <3>1, <1>0, UpdateType DEF LinesTypeOK
    <3>4. \A m \in Lines : BitOf(m) \notin mask'[PicOf(m)] <=> m \in wanted'
      <4> SUFFICES ASSUME NEW m \in Lines
                   PROVE  BitOf(m) \notin mask'[PicOf(m)] <=> m \in wanted'
        OBVIOUS
      <4>1. BitOf(m) \notin mask[PicOf(m)] <=> m \in wanted
        BY <1>0 DEF MaskExact
      <4>2. m = l <=> (PicOf(m) = PicOf(l) /\ BitOf(m) = BitOf(l))
        BY LineBits
      <4>3. mask'[PicOf(m)] = IF PicOf(m) = PicOf(l) THEN mask[PicOf(m)] \cup {BitOf(l)}
                              ELSE mask[PicOf(m)]
        BY <3>2, LineBits
      <4> QED BY <2>2, <4>1, <4>2, <4>3
    <3>5. \A m \in wanted' : irq_handlers'[32 + m] # "none"
      BY <1>0, <2>2 DEF MaskExact
    <3> QED BY <1>0, <2>2, <3>3, <3>4, <3>5 DEF LinesTypeOK, MaskExact
  <2> QED BY <2>1, <2>2 DEF Driver
<1>2. LinesTypeOK' /\ ServiceOK'
  BY <1>0, <1>1 DEF LinesTypeOK, ServiceOK
<1>3. BootOK'
  <2>1. 0 \in wanted => 0 \in wanted'
    BY <1>0, <1>1
  <2>2. 1 \in wanted => 1 \in wanted'
    BY <1>0, <1>1
  <2>3. Len(todo) = 0
    BY <1>0 DEF BootOK
  <2>4. ~(Len(todo) = 10) /\ IRQ_SYSCALL \in Irq
    BY <2>3, LineBits
  <2> QED BY <1>0, <1>1, <2>1, <2>2, <2>4 DEF BootOK
<1> QED BY <1>1, <1>2, <1>3 DEF LInv

\* What the kernel starts from: every line disabled, nothing registered.
LEMMA IrqInitInv == IrqInit => LInv
<1> SUFFICES ASSUME IrqInit PROVE LInv
  OBVIOUS
<1>1. LinesTypeOK /\ ServiceOK
  BY LineBits DEF IrqInit, LoaderMask, LinesTypeOK, ServiceOK, Idle, Pic, Bit
<1>2. MaskExact
  <2>1. \A l \in Lines : PicOf(l) = 1 => BitOf(l) # 2
    <3>1. \A l \in 0 .. 15 \ {2} : PicOf(l) = 1 => BitOf(l) # 2
      BY DEF PicOf, BitOf
    <3> QED BY <3>1, LinesAssumption
  <2> QED BY <2>1, LineBits DEF IrqInit, LoaderMask, MaskExact
<1>3. BootOK
  <2>1. InitCalls \in Seq(Names) /\ Len(InitCalls) = 10
    <3>1. \A i \in 1 .. 10 : InitCalls[i] \in Names
      BY DEF Names
    <3>2. Len(InitCalls) = 10 /\ InitCalls = [i \in 1 .. 10 |-> InitCalls[i]]
      BY DEF InitCalls
    <3>3. [i \in 1 .. 10 |-> InitCalls[i]] \in Seq(Names)
      BY <3>1, SeqDef
    <3> QED BY <3>2, <3>3, Zenon
  <2>2. \A j \in 1 .. 10 : (10 - 10) + j = j
    OBVIOUS
  <2>3. ~(10 <= 8) /\ ~(10 <= 6) /\ ~(10 <= 4) /\ 10 <= 10
    OBVIOUS
  <2>4. todo = InitCalls /\ pc = "boot" /\ wanted = {}
    BY DEF IrqInit
  <2> QED BY <2>1, <2>2, <2>3, <2>4 DEF BootOK
<1> QED BY <1>1, <1>2, <1>3 DEF LInv

\* Every step keeps the invariant.
LEMMA IrqNextInv == LInv /\ [IrqNext]_allVars => LInv'
<1> SUFFICES ASSUME LInv, [IrqNext]_allVars PROVE LInv'
  OBVIOUS
<1>1. CASE Boot
  BY <1>1, BootInv
<1>2. ASSUME NEW l \in Lines, Raise(l) \/ Accept(l) \/ Driver(l) PROVE LInv'
  BY <1>2, RaiseInv, AcceptInv, DriverInv
<1>3. CASE SystemCall
  BY <1>3, SystemCallInv
<1>4. CASE interrupts_irq_handler
  BY <1>4, DispatchInv
<1>5. CASE kernel_context_exit
  BY <1>5, LineBits
  DEF kernel_context_exit, LInv, LinesTypeOK, MaskExact, BootOK, ServiceOK
<1>6. CASE UNCHANGED irqVars
  BY <1>6 DEF irqVars, LInv, LinesTypeOK, MaskExact, BootOK, ServiceOK
<1> QED BY <1>1, <1>2, <1>3, <1>4, <1>5, <1>6 DEF IrqNext, Kernel, allVars

\* The invariant holds in every state the kernel reaches.
LEMMA LinesInvariance == IrqSpec => []LInv
BY IrqInitInv, IrqNextInv, PTL DEF IrqSpec
-----------------------------------------------------------------------------
\* Every variable of the timers and of the interrupt layer has its type.
THEOREM IrqTypeCorrect == IrqSpec => []IrqTypeOK
<1>1. TimerTypeOK /\ LInv => IrqTypeOK
  BY DEF LInv, LinesTypeOK, IrqTypeOK
<1> QED BY <1>1, LinesInvariance, InterruptsImplementTimers, TimerIdsCorrect, PTL

\* No interrupt ever arrives without a handler (kernel_panic), and whenever a
\* process runs no line is blocked by one in service, and the enabled lines of
\* both controllers are exactly those registered and not disabled since, with
\* the timer and the keyboard among them.
THEOREM LinesReadyCorrect == IrqSpec => []LinesReady
<1>1. LInv => LinesReady
  <2> SUFFICES ASSUME LInv PROVE LinesReady
    OBVIOUS
  <2>1. pc # "halt"
    BY DEF LInv, ServiceOK
  <2>2. ASSUME pc = "user"
        PROVE  /\ service = Idle
               /\ \A l \in Lines : pic_irq_enabled(l) <=> l \in wanted
               /\ {0, 1} \subseteq wanted
               /\ \A l \in wanted : irq_handlers[32 + l] # "none"
    <3>1. Len(todo) = 0
      BY <2>2 DEF LInv, BootOK
    <3>2. Len(todo) <= 8 /\ Len(todo) <= 6
      BY <3>1
    <3> QED BY <2>2, <3>2 DEF LInv, ServiceOK, BootOK, MaskExact, pic_irq_enabled
  <2> QED BY <2>1, <2>2 DEF LinesReady, Idle
<1> QED BY <1>1, LinesInvariance, PTL

\* The periodic timers keep their intervals across every interleaving of
\* interrupts, system calls and drivers.
THEOREM IrqPeriodicCorrect ==
    ASSUME Dividing
    PROVE  IrqSpec => Periodic
BY InterruptsImplementTimers, PeriodicCorrect
=============================================================================
