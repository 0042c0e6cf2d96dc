----------------------------- MODULE FoldProofs -----------------------------
(***************************************************************************)
(* Induction and folds, for the loops of the models that run over data.    *)
(* The induction theorems of the library take a predicate, which the       *)
(* provers cannot supply; here induction is over the members of a set,     *)
(* from the well-foundedness of < on Nat, and the operator that is folded  *)
(* is a constant of the module, which an INSTANCE names.                   *)
(***************************************************************************)
EXTENDS Integers, Sequences, SequencesExt, WellFoundedInduction, SequenceTheorems, TLAPS

CONSTANT Op(_, _)
-----------------------------------------------------------------------------
\* Induction: a set with 0 and with the successor of each of its numbers
\* holds all of them.
LEMMA Induction ==
    \A T : 0 \in T /\ (\A n \in Nat : n \in T => n + 1 \in T) => Nat \subseteq T
<1> SUFFICES ASSUME NEW T, 0 \in T, \A n \in Nat : n \in T => n + 1 \in T,
                    Nat \ T # {}
             PROVE  FALSE
  OBVIOUS
<1> DEFINE U == Nat \ T
           R == {ss \in Nat \X Nat : ss[1] < ss[2]}
<1>1. PICK x \in U : \A y \in U : <<y, x>> \notin R
  <2>1. IsWellFoundedOn(R, Nat)
    BY NatLessThanWellFounded DEF OpToRel
  <2>2. U \subseteq Nat /\ U # {}
    OBVIOUS
  <2> HIDE DEF U, R
  <2> QED BY <2>1, <2>2, WFMin
<1>2. x \in Nat /\ x \notin T /\ x # 0
  OBVIOUS
<1>3. x - 1 \in Nat
  BY <1>2
<1>4. \A y \in U : ~(y < x)
  <2> SUFFICES ASSUME NEW y \in U, y < x PROVE FALSE
    OBVIOUS
  <2>1. <<y, x>> \in Nat \X Nat /\ <<y, x>>[1] = y /\ <<y, x>>[2] = x
    BY <1>2
  <2>2. <<y, x>> \in R
    BY <2>1
  <2> QED BY <2>2, <1>1
<1>5. x - 1 \in T
  BY <1>3, <1>4
<1> QED BY <1>2, <1>3, <1>5

\* The same up to a bound.
LEMMA InductionTo ==
    \A T : \A m \in Nat :
        0 \in T /\ (\A n \in 0 .. m - 1 : n \in T => n + 1 \in T) => 0 .. m \subseteq T
<1> SUFFICES ASSUME NEW m \in Nat, NEW T, 0 \in T,
                    \A n \in 0 .. m - 1 : n \in T => n + 1 \in T
             PROVE  0 .. m \subseteq T
  OBVIOUS
<1> DEFINE V == T \cup {n \in Nat : n > m}
<1>1. 0 \in V /\ \A n \in Nat : n \in V => n + 1 \in V
  OBVIOUS
<1>2. Nat \subseteq V
  <2> HIDE DEF V
  <2> QED BY <1>1, Induction
<1> QED BY <1>2
-----------------------------------------------------------------------------
\* f is the run of the loop over 1 .. m that starts with base and does step.
IsRun(f, m, base, step) ==
    f[0] = base /\ \A n \in 1 .. m : f[n] = step[<<f[n - 1], n>>]

\* Every such loop has a run.
LEMMA Loop ==
    ASSUME NEW A, NEW m \in Nat, NEW base \in A, NEW step \in [A \X (1 .. m) -> A]
    PROVE  \E f \in [0 .. m -> A] : IsRun(f, m, base, step)
<1> DEFINE Run(f, k) == /\ f \in [0 .. k -> A] /\ f[0] = base
                        /\ \A n \in 1 .. k : f[n] = step[<<f[n - 1], n>>]
           T == {k \in 0 .. m : \E f : Run(f, k)}
<1>1. 0 \in T
  <2> DEFINE f == [n \in 0 .. 0 |-> base]
  <2>1. f \in [0 .. 0 -> A] /\ f[0] = base
    OBVIOUS
  <2>2. \A n \in 1 .. 0 : f[n] = step[<<f[n - 1], n>>]
    OBVIOUS
  <2> HIDE DEF f
  <2> QED BY <2>1, <2>2
<1>2. ASSUME NEW k \in 0 .. m - 1, k \in T PROVE k + 1 \in T
  <2>1. PICK f : Run(f, k)
    BY <1>2
  <2>2. f \in [0 .. k -> A] /\ f[0] = base /\ \A n \in 1 .. k : f[n] = step[<<f[n - 1], n>>]
    BY <2>1
  <2> HIDE DEF Run
  <2> DEFINE g == [n \in 0 .. k + 1 |-> IF n = k + 1 THEN step[<<f[k], k + 1>>] ELSE f[n]]
  <2>3. <<f[k], k + 1>> \in A \X (1 .. m)
    BY <2>2
  <2>4. step[<<f[k], k + 1>>] \in A
    BY <2>3
  <2>5. g \in [0 .. k + 1 -> A] /\ g[0] = base
    BY <2>2, <2>4
  <2>6. ASSUME NEW n \in 1 .. k + 1 PROVE g[n] = step[<<g[n - 1], n>>]
    <3>1. CASE n = k + 1
      <4>1. n - 1 = k /\ n - 1 \in 0 .. k + 1 /\ n - 1 # k + 1 /\ n \in 0 .. k + 1
        BY <3>1
      <4>2. g[n] = step[<<f[k], k + 1>>] /\ g[n - 1] = f[k]
        BY <3>1, <4>1
      <4> QED BY <3>1, <4>2
    <3>2. CASE n # k + 1
      <4>1. n \in 1 .. k /\ n - 1 \in 0 .. k /\ n - 1 # k + 1
        BY <3>2
      <4>2. g[n] = f[n] /\ g[n - 1] = f[n - 1]
        BY <3>2, <4>1
      <4> QED BY <4>1, <4>2, <2>2
    <3> QED BY <3>1, <3>2
  <2> HIDE DEF g
  <2>7. Run(g, k + 1)
    BY <2>5, <2>6 DEF Run
  <2> QED BY <2>7
<1>3. 0 .. m \subseteq T
  <2> HIDE DEF T
  <2> QED BY <1>1, <1>2, InductionTo
<1>4. m \in T
  BY <1>3
<1> QED BY <1>4 DEF IsRun

SameStep(f, g, n) == f[n - 1] = g[n - 1] => f[n] = g[n]
Same(f, g, n)     == f[n] = g[n]

\* Two runs that start alike and take the same steps are the same.
LEMMA SameRun ==
    ASSUME NEW m \in Nat, NEW f, NEW g, f[0] = g[0], \A n \in 1 .. m : SameStep(f, g, n)
    PROVE  \A n \in 0 .. m : Same(f, g, n)
<1> DEFINE T == {n \in 0 .. m : f[n] = g[n]}
<1>1. 0 \in T
  OBVIOUS
<1>2. ASSUME NEW n \in 0 .. m - 1, n \in T PROVE n + 1 \in T
  <2>1. n + 1 \in 1 .. m /\ (n + 1) - 1 = n
    OBVIOUS
  <2>2. SameStep(f, g, n + 1)
    BY <2>1
  <2> QED BY <1>2, <2>1, <2>2 DEF SameStep
<1>3. 0 .. m \subseteq T
  <2> HIDE DEF T
  <2> QED BY <1>1, <1>2, InductionTo
<1> QED BY <1>3 DEF Same

\* A set of positions that is not empty has a last one.
LEMMA LastPosition ==
    ASSUME NEW m \in Nat, NEW S \in SUBSET (1 .. m), S # {}
    PROVE  Max(S) \in S /\ \A x \in S : x <= Max(S)
<1> DEFINE Ends(U) == \E x \in U : \A y \in U : x >= y
           T == {n \in Nat : \A U \in SUBSET (1 .. n) : U # {} => Ends(U)}
<1>1. 0 \in T
  <2>1. 1 .. 0 = {}
    OBVIOUS
  <2> QED BY <2>1
<1>2. ASSUME NEW n \in Nat, n \in T PROVE n + 1 \in T
  <2> SUFFICES ASSUME NEW U \in SUBSET (1 .. n + 1), U # {} PROVE Ends(U)
    OBVIOUS
  <2>1. CASE n + 1 \in U
    BY <2>1
  <2>2. CASE n + 1 \notin U
    <3>1. U \in SUBSET (1 .. n)
      BY <2>2
    <3> QED BY <3>1, <1>2
  <2> QED BY <2>1, <2>2
<1>3. Nat \subseteq T
  <2> HIDE DEF T
  <2> QED BY <1>1, <1>2, Induction
<1>4. \E x \in S : \A y \in S : x >= y
  BY <1>3
<1>5. Max(S) \in S /\ \A y \in S : Max(S) >= y
  BY <1>4 DEF Max
<1> QED BY <1>5

\* The function that a fold applies to the positions of the sequence: it goes
\* over a set of them in ascending order.
IsIteration(it, m, base, step) ==
    \A t \in SUBSET (1 .. m) :
        it[t] = IF t = {} THEN base ELSE step[<<it[t \ {Max(t)}], Max(t)>>]

\* Every step over 1 .. m has such a function.
LEMMA Iteration ==
    ASSUME NEW A, NEW m \in Nat, NEW base \in A, NEW step \in [A \X (1 .. m) -> A]
    PROVE  \E it \in [SUBSET (1 .. m) -> A] : IsIteration(it, m, base, step)
<1> DEFINE Run(f, t) == /\ f \in [0 .. m -> A] /\ f[0] = base
                        /\ \A n \in 1 .. m :
                              f[n] = IF n \in t THEN step[<<f[n - 1], n>>] ELSE f[n - 1]
           run(t) == CHOOSE f : Run(f, t)
<1>1. ASSUME NEW t \in SUBSET (1 .. m) PROVE Run(run(t), t)
  <2> DEFINE part == [p \in A \X (1 .. m) |-> IF p[2] \in t THEN step[p] ELSE p[1]]
  <2>1. part \in [A \X (1 .. m) -> A]
    OBVIOUS
  <2>2. PICK f \in [0 .. m -> A] : IsRun(f, m, base, part)
    <3> HIDE DEF part, Run
    <3> QED BY <2>1, Loop
  <2>3. ASSUME NEW n \in 1 .. m
        PROVE  f[n] = IF n \in t THEN step[<<f[n - 1], n>>] ELSE f[n - 1]
    <3>1. <<f[n - 1], n>> \in A \X (1 .. m)
      OBVIOUS
    <3> QED BY <2>2, <3>1 DEF IsRun
  <2>4. Run(f, t)
    BY <2>2, <2>3 DEF IsRun
  <2> HIDE DEF Run
  <2> QED BY <2>4
<1>2. ASSUME NEW t \in SUBSET (1 .. m), NEW k \in 0 .. m, \A x \in t : x <= k
      PROVE  run(t)[m] = run(t)[k]
  <2> HIDE DEF run
  <2> DEFINE T == {j \in 0 .. m - k : run(t)[k + j] = run(t)[k]}
  <2>1. 0 \in T
    OBVIOUS
  <2>2. ASSUME NEW j \in 0 .. (m - k) - 1, j \in T PROVE j + 1 \in T
    <3>1. k + (j + 1) \in 1 .. m /\ (k + (j + 1)) - 1 = k + j /\ k + (j + 1) \notin t
      BY <1>2
    <3>2. \A n \in 1 .. m : n \notin t => run(t)[n] = run(t)[n - 1]
      BY <1>1
    <3>3. run(t)[k + (j + 1)] = run(t)[k + j]
      BY <3>1, <3>2
    <3> QED BY <2>2, <3>3
  <2>3. 0 .. m - k \subseteq T
    <3> HIDE DEF T
    <3> QED BY <2>1, <2>2, InductionTo
  <2>4. m - k \in T
    BY <2>3
  <2> QED BY <2>4
<1>3. ASSUME NEW t \in SUBSET (1 .. m), t # {}
      PROVE  run(t)[m] = step[<<run(t \ {Max(t)})[m], Max(t)>>]
  <2> DEFINE last == Max(t)
             u == t \ {last}
  <2>1. last \in t /\ last \in 1 .. m /\ (\A x \in t : x <= last) /\ u \in SUBSET (1 .. m)
    BY <1>3, LastPosition
  <2> HIDE DEF run, last, u
  <2>2. Run(run(t), t) /\ Run(run(u), u)
    BY <1>1, <2>1
  <2>3. \A n \in 0 .. last - 1 : Same(run(t), run(u), n)
    <3>1. ASSUME NEW n \in 1 .. last - 1 PROVE SameStep(run(t), run(u), n)
      <4>1. n \in 1 .. m /\ (n \in t <=> n \in u)
        BY <2>1 DEF u
      <4> QED BY <2>2, <4>1 DEF SameStep
    <3>2. last - 1 \in Nat /\ run(t)[0] = run(u)[0]
      BY <2>1, <2>2
    <3> QED BY <3>1, <3>2, SameRun
  <2>4. run(t)[m] = run(t)[last]
    BY <1>2, <2>1
  <2>5. run(t)[last] = step[<<run(t)[last - 1], last>>]
    BY <2>1, <2>2
  <2>6. run(t)[last - 1] = run(u)[last - 1]
    BY <2>1, <2>3 DEF Same
  <2>7. run(u)[m] = run(u)[last - 1]
    <3>1. last - 1 \in 0 .. m /\ \A x \in u : x <= last - 1
      BY <2>1 DEF u
    <3> QED BY <3>1, <1>2, <2>1
  <2> QED BY <2>4, <2>5, <2>6, <2>7 DEF u, last
<1>4. ASSUME NEW t \in SUBSET (1 .. m) PROVE run(t)[m] \in A
  <2> HIDE DEF run
  <2> QED BY <1>1
<1>5. run({})[m] = base
  <2> HIDE DEF run
  <2>1. run({})[m] = run({})[0]
    <3>1. {} \in SUBSET (1 .. m) /\ 0 \in 0 .. m /\ \A x \in {} : x <= 0
      OBVIOUS
    <3> QED BY <3>1, <1>2
  <2> QED BY <1>1, <2>1
<1> HIDE DEF run, Run
<1> DEFINE it == [t \in SUBSET (1 .. m) |-> run(t)[m]]
<1>6. it \in [SUBSET (1 .. m) -> A]
  BY <1>4
<1>7. ASSUME NEW t \in SUBSET (1 .. m)
      PROVE  it[t] = IF t = {} THEN base ELSE step[<<it[t \ {Max(t)}], Max(t)>>]
  <2>1. CASE t = {}
    BY <2>1, <1>5
  <2>2. CASE t # {}
    <3>1. t \ {Max(t)} \in SUBSET (1 .. m)
      OBVIOUS
    <3> QED BY <2>2, <3>1, <1>3
  <2> QED BY <2>1, <2>2
<1> QED BY <1>6, <1>7 DEF IsIteration
-----------------------------------------------------------------------------
Folded(base, s) == FoldLeft(Op, base, s)

\* The values that a fold goes through: it starts with base, applies Op to
\* each item in turn, and its result is the last of them.
Trace(f, base, s) == /\ f[0] = base
                     /\ \A n \in 1 .. Len(s) : f[n] = Op(f[n - 1], s[n])
                     /\ Folded(base, s) = f[Len(s)]

\* A fold of an operator that keeps within A goes through values of A.
LEMMA Fold ==
    \A A, B, base, s :
        base \in A /\ s \in Seq(B) /\ (\A a \in A, b \in B : Op(a, b) \in A)
            => \E f \in [0 .. Len(s) -> A] : Trace(f, base, s)
<1> SUFFICES ASSUME NEW A, NEW B, NEW base \in A, NEW s \in Seq(B),
                    \A a \in A, b \in B : Op(a, b) \in A
             PROVE  \E f \in [0 .. Len(s) -> A] : Trace(f, base, s)
  OBVIOUS
<1> DEFINE m == Len(s)
           step == [p \in A \X (1 .. m) |-> Op(p[1], s[p[2]])]
           Body(F) == [t \in SUBSET DOMAIN s |->
                          IF t = {} THEN base ELSE Op(F[t \ {Max(t)}], s[Max(t)])]
           G == CHOOSE F : F = Body(F)
<1>1. m \in Nat /\ DOMAIN s = 1 .. m /\ \A n \in 1 .. m : s[n] \in B
  BY LenProperties, ElementOfSeq
<1>2. step \in [A \X (1 .. m) -> A]
  BY <1>1
<1>3. PICK it \in [SUBSET (1 .. m) -> A] : IsIteration(it, m, base, step)
  <2> HIDE DEF step, m, Body, G
  <2> QED BY <1>1, <1>2, Iteration
<1>4. ASSUME NEW t \in SUBSET (1 .. m)
      PROVE  it[t] = IF t = {} THEN base ELSE Op(it[t \ {Max(t)}], s[Max(t)])
  <2>1. CASE t = {}
    BY <2>1, <1>3 DEF IsIteration
  <2>2. CASE t # {}
    <3>1. Max(t) \in 1 .. m
      BY <1>1, <2>2, LastPosition
    <3>2. <<it[t \ {Max(t)}], Max(t)>> \in A \X (1 .. m)
      BY <3>1
    <3>3. step[<<it[t \ {Max(t)}], Max(t)>>] = Op(it[t \ {Max(t)}], s[Max(t)])
      BY <3>2
    <3> QED BY <2>2, <3>3, <1>3 DEF IsIteration
  <2> QED BY <2>1, <2>2
<1>5. it = Body(it)
  BY <1>1, <1>4
<1>6. G = Body(G)
  <2> HIDE DEF Body
  <2> QED BY <1>5
<1>7. Folded(base, s) = G[DOMAIN s]
  BY DEF Folded, FoldLeft, MapThenFoldSet
<1> HIDE DEF G, m
<1>8. G[{}] = base
  BY <1>1, <1>6
<1>9. ASSUME NEW n \in 1 .. m PROVE G[1 .. n] = Op(G[1 .. n - 1], s[n])
  <2>1. 1 .. n \in SUBSET (1 .. m) /\ 1 .. n # {}
    <3>1. n \in 1 .. n /\ \A x \in 1 .. n : x \in 1 .. m
      BY <1>1
    <3> QED BY <3>1
  <2>2. Max(1 .. n) = n
    <3>1. Max(1 .. n) \in 1 .. n /\ \A x \in 1 .. n : x <= Max(1 .. n)
      BY <1>1, <2>1, LastPosition
    <3>2. n \in 1 .. n
      BY <1>1
    <3> QED BY <3>1, <3>2, <1>1
  <2>3. (1 .. n) \ {n} = 1 .. n - 1
    BY <1>1
  <2> QED BY <1>1, <1>6, <2>1, <2>2, <2>3
<1> DEFINE f == [n \in 0 .. m |-> G[1 .. n]]
<1>10. f[0] = base
  <2>1. 1 .. 0 = {}
    OBVIOUS
  <2> QED BY <1>1, <1>8, <2>1
<1>11. \A n \in 1 .. m : f[n] = Op(f[n - 1], s[n])
  BY <1>1, <1>9
<1>12. f \in [0 .. m -> A]
  <2> DEFINE T == {n \in 0 .. m : f[n] \in A}
  <2> HIDE DEF f
  <2>1. 0 \in T
    BY <1>1, <1>10
  <2>2. ASSUME NEW n \in 0 .. m - 1, n \in T PROVE n + 1 \in T
    <3>1. n + 1 \in 1 .. m /\ (n + 1) - 1 = n
      BY <1>1
    <3> QED BY <2>2, <3>1, <1>1, <1>11
  <2>3. 0 .. m \subseteq T
    <3> HIDE DEF T
    <3> QED BY <1>1, <2>1, <2>2, InductionTo
  <2> QED BY <2>3 DEF f
<1>13. Folded(base, s) = f[m]
  BY <1>1, <1>7
<1> QED BY <1>10, <1>11, <1>12, <1>13 DEF Trace, m

\* What Op keeps, a fold keeps.
LEMMA FoldType ==
    \A A, B, base, s :
        base \in A /\ s \in Seq(B) /\ (\A a \in A, b \in B : Op(a, b) \in A)
            => Folded(base, s) \in A
<1> SUFFICES ASSUME NEW A, NEW B, NEW base \in A, NEW s \in Seq(B),
                    \A a \in A, b \in B : Op(a, b) \in A
             PROVE  Folded(base, s) \in A
  OBVIOUS
<1>1. PICK f \in [0 .. Len(s) -> A] : Trace(f, base, s)
  BY Fold
<1>2. Len(s) \in 0 .. Len(s)
  BY LenProperties
<1> QED BY <1>1, <1>2 DEF Trace

\* Folding two sequences is folding the second from the result of the first.
LEMMA FoldConcat ==
    \A A, B, base, s, t :
        base \in A /\ s \in Seq(B) /\ t \in Seq(B) /\ (\A a \in A, b \in B : Op(a, b) \in A)
            => Folded(base, s \o t) = Folded(Folded(base, s), t)
<1> SUFFICES ASSUME NEW A, NEW B, NEW base \in A, NEW s \in Seq(B), NEW t \in Seq(B),
                    \A a \in A, b \in B : Op(a, b) \in A
             PROVE  Folded(base, s \o t) = Folded(Folded(base, s), t)
  OBVIOUS
<1> DEFINE mid == Folded(base, s)
<1>1. /\ s \o t \in Seq(B) /\ Len(s \o t) = Len(s) + Len(t)
      /\ Len(s) \in Nat /\ Len(t) \in Nat
      /\ \A n \in 1 .. Len(s) : (s \o t)[n] = s[n]
      /\ \A n \in 1 .. Len(t) : (s \o t)[Len(s) + n] = t[n]
  BY ConcatProperties, LenProperties
<1>2. mid \in A
  BY FoldType
<1> HIDE DEF mid
<1>3. PICK f \in [0 .. Len(s \o t) -> A] : Trace(f, base, s \o t)
  BY <1>1, Fold
<1>4. PICK g \in [0 .. Len(s) -> A] : Trace(g, base, s)
  BY Fold
<1>5. PICK h \in [0 .. Len(t) -> A] : Trace(h, mid, t)
  BY <1>2, Fold
<1>6. f[Len(s)] = g[Len(s)]
  <2>1. ASSUME NEW n \in 1 .. Len(s) PROVE SameStep(f, g, n)
    <3>1. n \in 1 .. Len(s \o t)
      BY <1>1
    <3> QED BY <3>1, <1>1, <1>3, <1>4 DEF Trace, SameStep
  <2>2. f[0] = g[0]
    BY <1>3, <1>4 DEF Trace
  <2>3. \A n \in 0 .. Len(s) : Same(f, g, n)
    BY <1>1, <2>1, <2>2, SameRun
  <2> QED BY <1>1, <2>3 DEF Same
<1>7. f[Len(s \o t)] = h[Len(t)]
  <2> DEFINE shifted == [n \in 0 .. Len(t) |-> f[Len(s) + n]]
  <2>1. ASSUME NEW n \in 1 .. Len(t) PROVE SameStep(shifted, h, n)
    <3>1. Len(s) + n \in 1 .. Len(s \o t) /\ (Len(s) + n) - 1 = Len(s) + (n - 1)
      BY <1>1
    <3>2. f[Len(s) + n] = Op(f[Len(s) + (n - 1)], (s \o t)[Len(s) + n])
      BY <3>1, <1>3 DEF Trace
    <3>3. n - 1 \in 0 .. Len(t) /\ n \in 0 .. Len(t)
      BY <1>1
    <3>4. h[n] = Op(h[n - 1], t[n])
      BY <1>5 DEF Trace
    <3> QED BY <3>2, <3>3, <3>4, <1>1 DEF SameStep
  <2>2. shifted[0] = h[0]
    BY <1>1, <1>4, <1>5, <1>6 DEF Trace, mid
  <2>3. \A n \in 0 .. Len(t) : Same(shifted, h, n)
    <3> HIDE DEF shifted
    <3> QED BY <1>1, <2>1, <2>2, SameRun
  <2>4. Len(t) \in 0 .. Len(t)
    BY <1>1
  <2> QED BY <1>1, <2>3, <2>4 DEF Same
<1> QED BY <1>3, <1>5, <1>7 DEF Trace, mid

\* Nothing is folded over no items, and Op is applied once over one.
LEMMA FoldOne ==
    \A A, B, base, b :
        base \in A /\ b \in B /\ (\A a \in A, c \in B : Op(a, c) \in A)
            => Folded(base, <<>>) = base /\ Folded(base, <<b>>) = Op(base, b)
<1> SUFFICES ASSUME NEW A, NEW B, NEW base \in A, NEW b \in B,
                    \A a \in A, c \in B : Op(a, c) \in A
             PROVE  Folded(base, <<>>) = base /\ Folded(base, <<b>>) = Op(base, b)
  OBVIOUS
<1>1. <<>> \in Seq(B) /\ Len(<<>>) = 0
  OBVIOUS
<1>2. <<b>> \in Seq(B) /\ Len(<<b>>) = 1 /\ <<b>>[1] = b
  OBVIOUS
<1>3. PICK f : Trace(f, base, <<>>)
  BY <1>1, Fold
<1>4. PICK g : Trace(g, base, <<b>>)
  BY <1>2, Fold
<1> QED BY <1>1, <1>2, <1>3, <1>4 DEF Trace

\* One item more is one Op more.
LEMMA FoldAppend ==
    \A A, B, base, s, b :
        base \in A /\ s \in Seq(B) /\ b \in B /\ (\A a \in A, c \in B : Op(a, c) \in A)
            => Folded(base, Append(s, b)) = Op(Folded(base, s), b)
<1> SUFFICES ASSUME NEW A, NEW B, NEW base \in A, NEW s \in Seq(B), NEW b \in B,
                    \A a \in A, c \in B : Op(a, c) \in A
             PROVE  Folded(base, Append(s, b)) = Op(Folded(base, s), b)
  OBVIOUS
<1>1. Append(s, b) = s \o <<b>> /\ <<b>> \in Seq(B)
  BY AppendIsConcat
<1>2. Folded(base, s) \in A
  BY FoldType
<1>3. Folded(base, s \o <<b>>) = Folded(Folded(base, s), <<b>>)
  <2> DEFINE one == <<b>>
  <2>1. one \in Seq(B)
    BY <1>1
  <2> HIDE DEF one
  <2>2. Folded(base, s \o one) = Folded(Folded(base, s), one)
    BY <2>1, FoldConcat
  <2> QED BY <2>2 DEF one
<1>4. Folded(Folded(base, s), <<b>>) = Op(Folded(base, s), b)
  BY <1>2, FoldOne
<1> QED BY <1>1, <1>3, <1>4
=============================================================================
