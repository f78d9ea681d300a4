---------------------------- MODULE Documents_proofs ----------------------------
(***************************************************************************)
(* The algorithms of OfficeQA that read what others wrote, on every input: *)
(* the check of an answer's text against the gold, and a report's HTML     *)
(* tables.  The modules compute with folds, selections and recursive       *)
(* functions; that these are well defined, and what they return, is proved *)
(* here by induction over numbers and finite sets, the induction being     *)
(* stated of a set (of the numbers, of the subsets that have the property) *)
(* and not of a formula.                                                   *)
(***************************************************************************)
EXTENDS Algorithms, SequenceTheorems, FiniteSetTheorems, WellFoundedInduction, TLAPS

(* A set of numbers has its first.                                         *)
LEMMA FirstExists ==
    ASSUME NEW T \in SUBSET Nat, T # {}
    PROVE  \E x \in T : \A y \in T : x <= y
<1> DEFINE R == OpToRel(<, Nat)
<1>1. IsWellFoundedOn(R, Nat)
  BY NatLessThanWellFounded
<1>2. \A x, y \in Nat : <<x, y>> \in R <=> x < y
  BY DEF OpToRel
<1> HIDE DEF R
<1>3. PICK x \in T : \A y \in T : ~ (<<y, x>> \in R)
  BY <1>1, WFMin
<1>4. ASSUME NEW y \in T PROVE x <= y
  <2>1. x \in Nat /\ y \in Nat /\ <<y, x>> \notin R
    BY <1>3
  <2>2. ~ (y < x)
    BY <2>1, <1>2
  <2>3. QED
    BY <2>1, <2>2
<1>5. QED
  BY <1>4

(* Induction over the numbers, of a set of them.                            *)
LEMMA EveryNumber ==
    ASSUME NEW P \in SUBSET Nat, 0 \in P, \A n \in P : n + 1 \in P
    PROVE  P = Nat
<1> SUFFICES ASSUME Nat \ P # {} PROVE FALSE
    OBVIOUS
<1>1. PICK m \in Nat \ P : \A k \in Nat \ P : m <= k
    BY FirstExists
<1>2. m # 0 /\ m \in Nat
    BY <1>1
<1>3. m - 1 \in Nat /\ ~(m <= m - 1)
    BY <1>2
<1>4. m - 1 \in P
    BY <1>1, <1>3
<1>5. (m - 1) + 1 \in P
    BY <1>4
<1> QED
    BY <1>1, <1>2, <1>5

(* A fold is well defined. *)
IsFold(iter, D, pick, step, base) ==
    iter = [s \in SUBSET D |-> IF s = {} THEN base ELSE step[<<pick[s], iter[s \ {pick[s]}]>>]]

(* A fold over a finite set is well defined: some function satisfies its    *)
(* equation.                                                                *)
LEMMA FoldExists ==
    ASSUME NEW D, IsFiniteSet(D), NEW A, NEW base \in A,
           NEW pick, \A s \in SUBSET D : s # {} => pick[s] \in s,
           NEW step \in [D \X A -> A]
    PROVE  \E iter \in [SUBSET D -> A] : IsFold(iter, D, pick, step, base)
<1> DEFINE Upto(n) == {s \in SUBSET D : Cardinality(s) <= n}
           Value(g, s) == IF s = {} THEN base ELSE step[<<pick[s], g[s \ {pick[s]}]>>]
           Good(g, n) == g \in [Upto(n) -> A] /\ \A s \in Upto(n) : g[s] = Value(g, s)
           P == {n \in Nat : \E g : Good(g, n)}
<1>0. \A S \in SUBSET D : IsFiniteSet(S) /\ Cardinality(S) \in Nat
    BY FS_Subset, FS_CardinalityType
<1>1. \A s \in SUBSET D : s # {} => /\ s \ {pick[s]} \in SUBSET D /\ Cardinality(s \ {pick[s]}) = Cardinality(s) - 1
                                    /\ pick[s] \in D
    BY <1>0, FS_RemoveElement
<1>2. 0 \in P
    <2>1. Upto(0) = {{}}
        BY <1>0, FS_EmptySet
    <2>2. Good([s \in Upto(0) |-> base], 0)
        BY <2>1
    <2> QED
        BY <2>2
<1>3. ASSUME NEW n \in P PROVE n + 1 \in P
    <2>0. n \in Nat
        OBVIOUS
    <2>1. PICK g : Good(g, n)
        OBVIOUS
    <2> HIDE DEF P
    <2> DEFINE h == [s \in Upto(n + 1) |-> Value(g, s)]
    <2>2. \A s \in Upto(n + 1) : s # {} => s \ {pick[s]} \in Upto(n)
        <3>1. ASSUME NEW s \in SUBSET D, Cardinality(s) <= n + 1, s # {}
              PROVE  s \ {pick[s]} \in SUBSET D /\ Cardinality(s \ {pick[s]}) <= n
            <4>1. Cardinality(s) \in Nat
                BY <1>0
            <4>2. Cardinality(s \ {pick[s]}) = Cardinality(s) - 1
                BY <1>1, <3>1
            <4> QED
                BY <1>1, <2>0, <3>1, <4>1, <4>2
        <3> QED
            BY <3>1
    <2>3. \A s \in Upto(n) : s \in Upto(n + 1) /\ h[s] = g[s]
        <3>1. \A s \in Upto(n) : s \in Upto(n + 1)
            BY <1>0, <2>0
        <3> QED
            BY <2>1, <3>1
    <2>4. \A s \in Upto(n + 1) : h[s] = Value(h, s) /\ h[s] \in A
        <3> SUFFICES ASSUME NEW s \in Upto(n + 1)
                     PROVE  h[s] = Value(h, s) /\ h[s] \in A
            OBVIOUS
        <3>1. CASE s = {}
            BY <3>1
        <3>2. CASE s # {}
            <4>1. s \ {pick[s]} \in Upto(n) /\ pick[s] \in D
                BY <1>1, <2>2, <3>2
            <4>2. g[s \ {pick[s]}] \in A /\ h[s \ {pick[s]}] = g[s \ {pick[s]}]
                BY <2>1, <2>3, <4>1
            <4> QED
                BY <3>2, <4>1, <4>2
        <3> QED
            BY <3>1, <3>2
    <2> HIDE DEF h
    <2>5. h \in [Upto(n + 1) -> A]
        BY <2>4 DEF h
    <2>6. Good(h, n + 1)
        BY <2>4, <2>5
    <2> HIDE DEF Good
    <2> QED
        BY <2>0, <2>6 DEF P
<1>4. P = Nat
    <2> HIDE DEF P
    <2>1. P \in SUBSET Nat
        BY DEF P
    <2> QED
        BY <1>2, <1>3, <2>1, EveryNumber
<1>5. PICK g : Good(g, Cardinality(D))
    <2>1. Cardinality(D) \in P
        BY <1>0, <1>4
    <2> QED
        BY <2>1
<1>6. Upto(Cardinality(D)) = SUBSET D
    BY FS_Subset
<1>7. g \in [SUBSET D -> A] /\ \A s \in SUBSET D : g[s] = Value(g, s)
    BY <1>5, <1>6
<1> QED
    <2>1. g = [s \in SUBSET D |-> Value(g, s)]
        BY <1>7
    <2> QED
        BY <1>7, <2>1 DEF IsFold
(* A set of numbers that is bounded and not empty has its maximum.          *)
LEMMA MaxOf ==
    ASSUME NEW n \in Nat, NEW S \in SUBSET (1..n), S # {}
    PROVE  Max(S) \in S /\ \A x \in S : x <= Max(S)
<1> DEFINE T == {y \in 0..n : \E x \in S : y = n - x}
<1>0. T \in SUBSET Nat
    OBVIOUS
<1>1. T # {}
  <2>1. PICK x \in S : TRUE
    OBVIOUS
  <2>2. n - x \in 0..n
    BY <2>1
  <2> QED BY <2>2
<1> HIDE DEF T
<1>2. PICK t \in T : \A u \in T : t <= u
    BY <1>0, <1>1, FirstExists
<1>3. PICK m \in S : t = n - m
    BY <1>2 DEF T
<1>4. ASSUME NEW x \in S PROVE m >= x
  <2>1. x \in 1..n /\ m \in 1..n
    OBVIOUS
  <2>2. n - x \in T
    BY <2>1 DEF T
  <2>3. n - m <= n - x
    BY <2>2, <1>2, <1>3
  <2> QED BY <2>1, <2>3
<1>5. \E x \in S : \A y \in S : x >= y
    BY <1>4
<1>6. Max(S) \in S /\ \A y \in S : Max(S) >= y
    BY <1>5 DEF Max
<1>7. \A x \in S : x \in Int
    OBVIOUS
<1> QED
    BY <1>6, <1>7

(* A fold over a sequence takes its elements from the first to the last. *)
IsLeftFold(iter, n, A, base, step) ==
    /\ iter \in [SUBSET (1..n) -> A]
    /\ \A s \in SUBSET (1..n) : iter[s] = IF s = {} THEN base ELSE step[<<Max(s), iter[s \ {Max(s)}]>>]

(* A fold over n places, from the first to the last, is well defined.       *)
LEMMA LeftFoldExists ==
    ASSUME NEW n \in Nat, NEW A, NEW base \in A, NEW step \in [(1..n) \X A -> A]
    PROVE  \E iter : IsLeftFold(iter, n, A, base, step)
<1> DEFINE pick == [s \in SUBSET (1..n) |-> Max(s)]
<1>1. \A s \in SUBSET (1..n) : s # {} => pick[s] \in s
    BY MaxOf
<1>2. IsFiniteSet(1..n)
    BY FS_Interval
<1> HIDE DEF pick
<1>3. PICK iter \in [SUBSET (1..n) -> A] : IsFold(iter, 1..n, pick, step, base)
    BY <1>1, <1>2, FoldExists
<1>4. \A s \in SUBSET (1..n) : iter[s] = IF s = {} THEN base ELSE step[<<pick[s], iter[s \ {pick[s]}]>>]
    BY <1>3, Zenon DEF IsFold
<1>5. \A s \in SUBSET (1..n) : pick[s] = Max(s)
    BY DEF pick
<1> QED
    <2>1. \A s \in SUBSET (1..n) : iter[s] = IF s = {} THEN base ELSE step[<<Max(s), iter[s \ {Max(s)}]>>]
        BY <1>4, <1>5
    <2> QED
        BY <2>1 DEF IsLeftFold

(* The last of the first k places is k, and the places before it are the    *)
(* first k - 1.                                                             *)
LEMMA UptoNumber ==
    ASSUME NEW n \in Nat, NEW k \in 1..n
    PROVE  /\ 1..k \in SUBSET (1..n) /\ 1..k # {} /\ Max(1..k) = k
           /\ (1..k) \ {k} = 1..(k - 1)
<1>1. 1..k \in SUBSET (1..n) /\ 1..k # {} /\ k \in 1..k
    OBVIOUS
<1>2. Max(1..k) \in 1..k /\ k <= Max(1..k)
    BY <1>1, MaxOf
<1>3. \A m \in Int : m \in 1..k /\ k <= m => m = k
    OBVIOUS
<1>4. Max(1..k) = k
    BY <1>2, <1>3
<1> QED
    BY <1>1, <1>4

Steps(it, n, A, step) ==
    \A s \in SUBSET (1..n) : s # {} /\ it[s \ {Max(s)}] \in A => it[s] = step[<<Max(s), it[s \ {Max(s)}]>>]

IsRun(F, n, A, base, step, it) ==
    /\ F \in [0..n -> A]
    /\ F[0] = base /\ F[n] = it[1..n]
    /\ \A k \in 1..n : F[k] = step[<<k, F[k - 1]>>]

(* Whatever function the equation of such a fold picks, the fold is a run:  *)
(* a base, and one step for each place in turn.                             *)
LEMMA LeftFoldRuns ==
    ASSUME NEW n \in Nat, NEW A, NEW base \in A, NEW step \in [(1..n) \X A -> A],
           NEW it, it[{}] = base, Steps(it, n, A, step)
    PROVE  \E F : IsRun(F, n, A, base, step, it)
<1> DEFINE F == [k \in 0..n |-> it[1..k]]
           P == {k \in Nat : k <= n => it[1..k] \in A}
<1>1. 1..0 = {}
    OBVIOUS
<1>2. 0 \in P
    BY <1>1
<1>3. \A k \in 1..n : it[1..(k - 1)] \in A => it[1..k] = step[<<k, it[1..(k - 1)]>>]
    BY UptoNumber DEF Steps
<1>4. ASSUME NEW k \in P PROVE k + 1 \in P
    <2> SUFFICES ASSUME k + 1 <= n PROVE it[1..(k + 1)] \in A
        OBVIOUS
    <2>1. k + 1 \in 1..n /\ (k + 1) - 1 = k /\ it[1..k] \in A
        OBVIOUS
    <2>2. it[1..(k + 1)] = step[<<k + 1, it[1..k]>>]
        BY <1>3, <2>1
    <2> QED
        BY <2>1, <2>2
<1>5. P = Nat
    <2> HIDE DEF P
    <2>1. P \in SUBSET Nat
        BY DEF P
    <2> QED
        BY <1>2, <1>4, <2>1, EveryNumber
<1>6. \A k \in 0..n : it[1..k] \in A
    BY <1>5
<1>7. F \in [0..n -> A]
    BY <1>6
<1>8. F[0] = base /\ F[n] = it[1..n]
    BY <1>1
<1>9. \A k \in 1..n : F[k] = step[<<k, F[k - 1]>>]
    <2> TAKE k \in 1..n
    <2>1. k \in 0..n /\ k - 1 \in 0..n
        OBVIOUS
    <2> QED
        BY <1>3, <1>6, <2>1
<1> HIDE DEF F
<1> QED
    BY <1>7, <1>8, <1>9 DEF IsRun

IsKeeping(F, order, S, X) ==
    /\ F \in [0..Len(order) -> Seq(X)]
    /\ F[0] = <<>> /\ InOrder(order, S) = F[Len(order)]
    /\ \A k \in 1..Len(order) : F[k] = IF order[k] \in S THEN Append(F[k - 1], order[k]) ELSE F[k - 1]

(* A selection from a list is a run over the list that keeps an element or  *)
(* passes it by.                                                            *)
LEMMA InOrderFolds ==
    ASSUME NEW X, NEW order \in Seq(X), NEW S
    PROVE  \E F : IsKeeping(F, order, S, X)
<1> DEFINE n == Len(order)
           step == [p \in (1..n) \X Seq(X) |-> IF order[p[1]] \in S THEN Append(p[2], order[p[1]]) ELSE p[2]]
           Body(G) == [k \in 0..n |-> IF k = 0 THEN <<>>
                                      ELSE IF order[k] \in S THEN Append(G[k - 1], order[k]) ELSE G[k - 1]]
           it == CHOOSE G : G = Body(G)
<1>1. n \in Nat /\ <<>> \in Seq(X) /\ \A k \in 1..n : order[k] \in X
    OBVIOUS
<1>2. step \in [(1..n) \X Seq(X) -> Seq(X)]
    OBVIOUS
<1>3. PICK iter : IsLeftFold(iter, n, Seq(X), <<>>, step)
    <2> HIDE DEF step, n
    <2> QED
        BY <1>1, <1>2, LeftFoldExists
<1>4. PICK F : IsRun(F, n, Seq(X), <<>>, step, iter)
    <2> HIDE DEF step, n
    <2>1. iter[{}] = <<>> /\ Steps(iter, n, Seq(X), step)
        BY <1>3 DEF IsLeftFold, Steps
    <2> QED
        BY <1>1, <1>2, <2>1, LeftFoldRuns
<1>5. F \in [0..n -> Seq(X)] /\ F[0] = <<>> /\ \A k \in 1..n : F[k] = step[<<k, F[k - 1]>>]
    BY <1>4 DEF IsRun
<1>6. \A k \in 0..n : F[k] = IF k = 0 THEN <<>>
                             ELSE IF order[k] \in S THEN Append(F[k - 1], order[k]) ELSE F[k - 1]
    <2> TAKE k \in 0..n
    <2>1. CASE k = 0
        BY <1>5, <2>1
    <2>2. CASE k # 0
        <3>1. k \in 1..n /\ k - 1 \in 0..n
            BY <1>1, <2>2
        <3>2. F[k - 1] \in Seq(X)
            BY <1>5, <3>1
        <3>3. step[<<k, F[k - 1]>>] = IF order[k] \in S THEN Append(F[k - 1], order[k]) ELSE F[k - 1]
            BY <3>1, <3>2
        <3> QED
            BY <1>5, <2>2, <3>1, <3>3
    <2> QED
        BY <2>1, <2>2
<1>7. F = Body(F)
    BY <1>5, <1>6
<1>8. it = Body(it)
    BY <1>7
<1>9. InOrder(order, S) = it[n]
    BY DEF InOrder
<1> HIDE DEF it, step
<1>10. \A k \in 0..n : it[k] = IF k = 0 THEN <<>>
                               ELSE IF order[k] \in S THEN Append(it[k - 1], order[k]) ELSE it[k - 1]
    BY <1>8
<1> DEFINE P == {k \in Nat : k <= n => it[k] \in Seq(X)}
<1>11. 0 \in P
    <2>1. 0 \in 0..n
        BY <1>1
    <2>2. it[0] = <<>>
        BY <1>10, <2>1
    <2> QED
        BY <1>1, <2>2
<1>12. ASSUME NEW k \in P PROVE k + 1 \in P
    <2> SUFFICES ASSUME k + 1 <= n PROVE it[k + 1] \in Seq(X)
        OBVIOUS
    <2>1. k \in Nat /\ k + 1 \in 1..n /\ k + 1 \in 0..n /\ (k + 1) - 1 = k /\ k + 1 # 0
        BY <1>1
    <2>2. it[k] \in Seq(X) /\ order[k + 1] \in X
        BY <1>1, <2>1
    <2>3. it[k + 1] = IF order[k + 1] \in S THEN Append(it[k], order[k + 1]) ELSE it[k]
        BY <1>10, <2>1
    <2> HIDE DEF n
    <2> QED
        BY <2>2, <2>3
<1>13. P = Nat
    <2> HIDE DEF P
    <2>1. P \in SUBSET Nat
        BY DEF P
    <2> QED
        BY <1>11, <1>12, <2>1, EveryNumber
<1>14. \A k \in 0..n : it[k] \in Seq(X)
    BY <1>1, <1>13
<1>15. it \in [0..n -> Seq(X)]
    BY <1>8, <1>14
<1>16. \A k \in 1..n : it[k] = IF order[k] \in S THEN Append(it[k - 1], order[k]) ELSE it[k - 1]
    BY <1>1, <1>10
<1> QED
    BY <1>1, <1>9, <1>10, <1>15, <1>16 DEF IsKeeping

(* A selection has the elements of the list that are of the set, and no     *)
(* other.                                                                   *)
LEMMA InOrderRange ==
    ASSUME NEW X, NEW order \in Seq(X), NEW S
    PROVE  InOrder(order, S) \in Seq(X) /\ Range(InOrder(order, S)) = {x \in Range(order) : x \in S}
<1>0. PICK F : IsKeeping(F, order, S, X)
    BY InOrderFolds
<1> DEFINE n == Len(order)
           Picked(k) == {order[i] : i \in {j \in 1..k : order[j] \in S}}
           P == {k \in Nat : k <= n => Range(F[k]) = Picked(k)}
<1>1. /\ n \in Nat /\ F \in [0..n -> Seq(X)] /\ F[0] = <<>> /\ InOrder(order, S) = F[n]
      /\ \A k \in 1..n : F[k] = IF order[k] \in S THEN Append(F[k - 1], order[k]) ELSE F[k - 1]
    BY <1>0 DEF IsKeeping
<1>2. 0 \in P
    BY <1>1 DEF Range
<1>3. ASSUME NEW k \in P PROVE k + 1 \in P
    <2> SUFFICES ASSUME k + 1 <= n PROVE Range(F[k + 1]) = Picked(k + 1)
        OBVIOUS
    <2>1. k \in Nat /\ k \in 0..n /\ k + 1 \in 1..n /\ (k + 1) - 1 = k /\ 1..(k + 1) = 1..k \cup {k + 1}
        BY <1>1
    <2>2. F[k] \in Seq(X) /\ Range(F[k]) = Picked(k)
        <3>1. F[k] \in Seq(X)
            BY <1>1, <2>1
        <3>2. k <= n
            BY <2>1
        <3> HIDE DEF Picked, n
        <3>3. Range(F[k]) = Picked(k)
            BY <3>2
        <3> QED
            BY <3>1, <3>3
    <2>3. CASE order[k + 1] \in S
        <3>1. F[k + 1] = Append(F[k], order[k + 1])
            BY <1>1, <2>1, <2>3
        <3>2. Range(Append(F[k], order[k + 1])) = Range(F[k]) \cup {order[k + 1]}
            <4> DEFINE s == F[k]
                       x == order[k + 1]
            <4> HIDE DEF s, x
            <4>1. s \in Seq(X) => Range(Append(s, x)) = Range(s) \cup {x}
                <5> SUFFICES ASSUME s \in Seq(X) PROVE Range(Append(s, x)) = Range(s) \cup {x}
                    OBVIOUS
                <5>1. /\ Len(s) \in Nat /\ DOMAIN s = 1..Len(s) /\ DOMAIN Append(s, x) = 1..(Len(s) + 1)
                      /\ Append(s, x)[Len(s) + 1] = x /\ \A i \in 1..Len(s) : Append(s, x)[i] = s[i]
                    OBVIOUS
                <5>2. 1..(Len(s) + 1) = 1..Len(s) \cup {Len(s) + 1}
                    BY <5>1
                <5> DEFINE t == Append(s, x)
                           m == Len(s)
                <5> HIDE DEF t, m
                <5>3. DOMAIN t = 1..m \cup {m + 1} /\ DOMAIN s = 1..m /\ t[m + 1] = x /\ \A i \in 1..m : t[i] = s[i]
                    BY <5>1, <5>2 DEF t, m
                <5>4. Range(t) = Range(s) \cup {x}
                    BY <5>3 DEF Range
                <5> QED
                    BY <5>4 DEF t
            <4> QED
                BY <2>2, <4>1 DEF s, x
        <3>3. Picked(k + 1) = Picked(k) \cup {order[k + 1]}
            BY <2>1, <2>3
        <3> QED
            BY <2>2, <3>1, <3>2, <3>3
    <2>4. CASE order[k + 1] \notin S
        <3>1. F[k + 1] = F[k]
            BY <1>1, <2>1, <2>4
        <3>2. Picked(k + 1) = Picked(k)
            BY <2>1, <2>4
        <3> QED
            BY <2>2, <3>1, <3>2
    <2> QED
        BY <2>3, <2>4
<1>4. P = Nat
    <2> HIDE DEF P
    <2>1. P \in SUBSET Nat
        BY DEF P
    <2> QED
        BY <1>2, <1>3, <2>1, EveryNumber
<1>5. Range(F[n]) = Picked(n) /\ F[n] \in Seq(X)
    <2>1. n \in P
        <3> HIDE DEF P, n
        <3> QED
            BY <1>1, <1>4
    <2>2. n <= n /\ n \in 0..n
        BY <1>1
    <2> QED
        BY <1>1, <2>1, <2>2
<1>6. Picked(n) = {x \in Range(order) : x \in S}
    BY <1>1 DEF Range
<1> QED
    BY <1>1, <1>5, <1>6

-----------------------------------------------------------------------------
(* Numbers up to a bound, one after the other.                              *)
LEMMA EveryPlace ==
    ASSUME NEW n \in Nat, NEW P, 0 \in P, \A k \in 0..(n - 1) : k \in P => k + 1 \in P
    PROVE  0..n \subseteq P
<1> DEFINE N == {k \in Nat : k \in 0..n => k \in P}
<1>1. 0 \in N
    OBVIOUS
<1>2. ASSUME NEW k \in N PROVE k + 1 \in N
    OBVIOUS
<1>3. N = Nat
    <2> HIDE DEF N
    <2>1. N \in SUBSET Nat
        BY DEF N
    <2> QED
        BY <1>1, <1>2, <2>1, EveryNumber
<1> QED
    BY <1>3

(* Sets that agree on a list select the same of it.                         *)
LEMMA InOrderAgrees ==
    ASSUME NEW X, NEW order \in Seq(X), NEW S, NEW T, \A k \in 1..Len(order) : order[k] \in S <=> order[k] \in T
    PROVE  InOrder(order, S) = InOrder(order, T)
<1>1. PICK F : IsKeeping(F, order, S, X)
    BY InOrderFolds
<1>2. PICK G : IsKeeping(G, order, T, X)
    BY InOrderFolds
<1> DEFINE n == Len(order)
           P == {k \in Nat : k <= n => F[k] = G[k]}
<1>3. /\ n \in Nat /\ F[0] = <<>> /\ InOrder(order, S) = F[n]
      /\ \A k \in 1..n : F[k] = IF order[k] \in S THEN Append(F[k - 1], order[k]) ELSE F[k - 1]
    BY <1>1 DEF IsKeeping
<1>4. /\ G[0] = <<>> /\ InOrder(order, T) = G[n]
      /\ \A k \in 1..n : G[k] = IF order[k] \in T THEN Append(G[k - 1], order[k]) ELSE G[k - 1]
    BY <1>2 DEF IsKeeping
<1>5. 0 \in P
    BY <1>3, <1>4
<1>6. ASSUME NEW k \in P PROVE k + 1 \in P
    <2> SUFFICES ASSUME k + 1 <= n PROVE F[k + 1] = G[k + 1]
        OBVIOUS
    <2>1. k \in Nat /\ k + 1 \in 1..n /\ (k + 1) - 1 = k /\ F[k] = G[k]
        BY <1>3
    <2> QED
        BY <1>3, <1>4, <2>1
<1>7. P = Nat
    <2> HIDE DEF P
    <2>1. P \in SUBSET Nat
        BY DEF P
    <2> QED
        BY <1>5, <1>6, <2>1, EveryNumber
<1> QED
    BY <1>3, <1>4, <1>7

(* Concatenation and Append under names of their own, as terms to rewrite.  *)
Cat(a, b) == a \o b
Push(a, x) == Append(a, x)

(* Two texts, one after the other, place by place.                          *)
LEMMA CatIs ==
    ASSUME NEW X, NEW a \in Seq(X), NEW b \in Seq(X)
    PROVE  /\ Cat(a, b) \in Seq(X) /\ Len(Cat(a, b)) = Len(a) + Len(b) /\ Len(a) \in Nat /\ Len(b) \in Nat
           /\ \A k \in 1..Len(a) : Cat(a, b)[k] = a[k] /\ a[k] \in X
           /\ \A k \in 1..Len(b) : Cat(a, b)[Len(a) + k] = b[k] /\ b[k] \in X
<1> DEFINE m == Len(a)
           n == Len(b)
<1>1. m \in Nat /\ n \in Nat
    OBVIOUS
<1>2. /\ a \o b \in Seq(X) /\ Len(a \o b) = m + n
      /\ \A i \in 1..(m + n) : (a \o b)[i] = IF i <= m THEN a[i] ELSE b[i - m]
    BY ConcatProperties
<1>3. (\A k \in 1..m : a[k] \in X) /\ (\A k \in 1..n : b[k] \in X)
    OBVIOUS
<1> HIDE DEF m, n
<1>4. \A k \in 1..m : (a \o b)[k] = a[k]
    BY <1>1, <1>2
<1>5. \A k \in 1..n : (a \o b)[m + k] = b[k]
    <2> TAKE k \in 1..n
    <2>1. m + k \in 1..(m + n) /\ ~(m + k <= m) /\ (m + k) - m = k
        BY <1>1
    <2> QED
        BY <1>2, <2>1
<1> QED
    BY <1>1, <1>2, <1>3, <1>4, <1>5 DEF m, n, Cat

(* Up to its length, the first of them.                                     *)
LEMMA CatBefore ==
    ASSUME NEW X, NEW a \in Seq(X), NEW b \in Seq(X), NEW k \in 1..Len(a)
    PROVE  Cat(a, b)[k] = a[k] /\ a[k] \in X
BY CatIs

(* From there on, the second.                                               *)
LEMMA CatAfter ==
    ASSUME NEW X, NEW a \in Seq(X), NEW b \in Seq(X), NEW k \in 1..Len(b)
    PROVE  Cat(a, b)[Len(a) + k] = b[k] /\ b[k] \in X
BY CatIs

(* Three texts in a row, whichever two are joined first.                    *)
LEMMA CatAssociates ==
    ASSUME NEW X, NEW a \in Seq(X), NEW b \in Seq(X), NEW c \in Seq(X)
    PROVE  Cat(Cat(a, b), c) = Cat(a, Cat(b, c))
BY ConcatAssociative DEF Cat

(* Nothing before or after a text leaves it as it is.                       *)
LEMMA CatNothing ==
    ASSUME NEW X, NEW a \in Seq(X)
    PROVE  Cat(a, <<>>) = a /\ Cat(<<>>, a) = a /\ <<>> \in Seq(X)
BY ConcatEmptySeq DEF Cat

(* Appending after a text is appending to what comes last.                  *)
LEMMA PushLater ==
    ASSUME NEW X, NEW a \in Seq(X), NEW b \in Seq(X), NEW x \in X
    PROVE  Push(Cat(a, b), x) = Cat(a, Push(b, x)) /\ Push(b, x) \in Seq(X)
<1>1. a \o b \in Seq(X) /\ <<x>> \in Seq(X)
    OBVIOUS
<1>2. Append(a \o b, x) = (a \o b) \o <<x>> /\ Append(b, x) = b \o <<x>>
    BY <1>1, AppendIsConcat
<1>3. (a \o b) \o <<x>> = a \o (b \o <<x>>)
    BY <1>1, ConcatAssociative
<1>4. Append(b, x) \in Seq(X)
    OBVIOUS
<1> QED
    BY <1>2, <1>3, <1>4 DEF Cat, Push

(* A part within a text has something before it and something after it.     *)
LEMMA WithinIs ==
    ASSUME NEW X, NEW part \in Seq(X), NEW whole \in Seq(X)
    PROVE  /\ Within(part, whole) => \E pre \in Seq(X) : \E post \in Seq(X) : whole = Cat(Cat(pre, part), post)
           /\ \A pre, post \in Seq(X) : whole = Cat(Cat(pre, part), post) =>
                 Within(part, whole) /\ Len(part) <= Len(whole)
<1>1. ASSUME Within(part, whole)
      PROVE  \E pre \in Seq(X) : \E post \in Seq(X) : whole = pre \o part \o post
    <2>1. PICK k \in 0..(Len(whole) - Len(part)) : SubSeq(whole, k + 1, k + Len(part)) = part
        BY <1>1 DEF Within
    <2> DEFINE n == Len(whole)
               m == Len(part)
               pre == SubSeq(whole, 1, k)
               post == SubSeq(whole, k + m + 1, n)
    <2>2. n \in Nat /\ m \in Nat /\ k \in Nat /\ k + m <= n
        BY <2>1
    <2>3. \A i \in 1..n : whole[i] \in X
        OBVIOUS
    <2>4. pre \in Seq(X) /\ post \in Seq(X)
        <3> HIDE DEF n, m
        <3>1. \A i \in 1..k : whole[i] \in X
            BY <2>2, <2>3
        <3>2. \A i \in (k + m + 1)..n : whole[i] \in X
            BY <2>2, <2>3
        <3>3. pre \in Seq(X)
            BY <2>2, <3>1, SubSeqProperties
        <3>4. k + m + 1 \in Int /\ n \in Int
            BY <2>2
        <3>5. post \in Seq(X)
            BY <3>2, <3>4, SubSeqProperties
        <3> QED
            BY <3>3, <3>5
    <2>5. SubSeq(whole, 1, k + m) = pre \o part
        <3> HIDE DEF n, m
        <3>1. 1 \in 1..(Len(whole) + 1) /\ k \in (1 - 1)..Len(whole) /\ k + m \in k..Len(whole)
            BY <2>2 DEF n
        <3>2. SubSeq(whole, 1, k) \o SubSeq(whole, k + 1, k + m) = SubSeq(whole, 1, k + m)
            BY <3>1, ConcatAdjacentSubSeq
        <3> QED
            BY <2>1, <3>2 DEF m
    <2>6. SubSeq(whole, 1, n) = SubSeq(whole, 1, k + m) \o post
        <3> HIDE DEF n, m
        <3>1. 1 \in 1..(Len(whole) + 1) /\ k + m \in (1 - 1)..Len(whole) /\ n \in (k + m)..Len(whole)
            BY <2>2 DEF n
        <3> QED
            BY <3>1, ConcatAdjacentSubSeq
    <2>7. SubSeq(whole, 1, n) = whole
        BY SubSeqFull
    <2> HIDE DEF pre, post
    <2>8. whole = pre \o part \o post
        BY <2>5, <2>6, <2>7
    <2> QED
        BY <2>4, <2>8
<1>2. ASSUME NEW pre \in Seq(X), NEW post \in Seq(X), whole = pre \o part \o post
      PROVE  Within(part, whole) /\ Len(part) <= Len(whole)
    <2> DEFINE a == Len(pre)
               m == Len(part)
    <2>1. a \in Nat /\ m \in Nat /\ Len(post) \in Nat
        OBVIOUS
    <2>2. /\ pre \o part \in Seq(X) /\ Len(pre \o part) = a + m
          /\ \A i \in 1..(a + m) : (pre \o part)[i] = IF i <= a THEN pre[i] ELSE part[i - a]
        BY ConcatProperties
    <2>3. /\ Len(whole) = (a + m) + Len(post)
          /\ \A i \in 1..((a + m) + Len(post)) :
                whole[i] = IF i <= a + m THEN (pre \o part)[i] ELSE post[i - (a + m)]
        BY <1>2, <2>2, ConcatProperties
    <2> HIDE DEF a, m
    <2>4. \A i \in 1..m : whole[a + i] = part[i]
        <3> TAKE i \in 1..m
        <3>1. a + i \in 1..((a + m) + Len(post)) /\ a + i <= a + m /\ a + i \in 1..(a + m) /\ ~(a + i <= a) /\ (a + i) - a = i
            BY <2>1
        <3> QED
            BY <2>2, <2>3, <3>1
    <2>5. \A i \in (a + 1)..(a + m) : whole[i] \in X
        <3>1. \A i \in (a + 1)..(a + m) : i \in 1..Len(whole)
            BY <2>1, <2>3
        <3> QED
            BY <3>1
    <2> DEFINE sub == SubSeq(whole, a + 1, a + m)
    <2>6. /\ sub \in Seq(X) /\ Len(sub) = m
          /\ \A i \in 1..m : sub[i] = whole[a + i]
        <3>1. a + 1 \in Int /\ a + m \in Int
            BY <2>1
        <3>2. /\ sub \in Seq(X) /\ Len(sub) = IF a + 1 <= a + m THEN (a + m) - (a + 1) + 1 ELSE 0
              /\ \A i \in 1..((a + m) - (a + 1) + 1) : sub[i] = whole[(a + 1) + i - 1]
            BY <2>5, <3>1, SubSeqProperties
        <3>3. (a + m) - (a + 1) + 1 = m /\ \A i \in 1..m : (a + 1) + i - 1 = a + i
            BY <2>1
        <3>4. Len(sub) = m
            BY <2>1, <3>2
        <3> QED
            BY <3>2, <3>3, <3>4
    <2> HIDE DEF sub
    <2>7. sub = part
        BY <2>4, <2>6, SeqEqual DEF m
    <2>8. a \in 0..(Len(whole) - m) /\ m <= Len(whole)
        BY <2>1, <2>3
    <2> QED
        BY <2>7, <2>8 DEF Within, sub, m
<1> QED
    BY <1>1, <1>2 DEF Cat

(* What is selected of two texts is what is selected of each.               *)
LEMMA InOrderCat ==
    ASSUME NEW X, NEW a \in Seq(X), NEW b \in Seq(X), NEW S
    PROVE  /\ InOrder(Cat(a, b), S) = Cat(InOrder(a, S), InOrder(b, S))
           /\ InOrder(a, S) \in Seq(X) /\ InOrder(b, S) \in Seq(X)
<1> DEFINE ab == Cat(a, b)
           m == Len(a)
           n == Len(b)
<1> HIDE DEF m, n
<1>a. Cat(a, b) \in Seq(X) /\ Len(Cat(a, b)) = Len(a) + Len(b) /\ Len(a) \in Nat /\ Len(b) \in Nat
    BY CatIs
<1>b. \A k \in 1..Len(a) : Cat(a, b)[k] = a[k] /\ a[k] \in X
    BY CatIs
<1>c. \A k \in 1..Len(b) : Cat(a, b)[Len(a) + k] = b[k] /\ b[k] \in X
    BY CatIs
<1> USE DEF m, n
<1>1. /\ ab \in Seq(X) /\ Len(ab) = m + n /\ m \in Nat /\ n \in Nat
      /\ \A k \in 1..m : ab[k] = a[k] /\ a[k] \in X
      /\ \A k \in 1..n : ab[m + k] = b[k] /\ b[k] \in X
    BY <1>a, <1>b, <1>c
<1> HIDE DEF ab
<1>2. PICK F : IsKeeping(F, ab, S, X)
    BY <1>1, InOrderFolds
<1>3. PICK A : IsKeeping(A, a, S, X)
    BY InOrderFolds
<1>4. PICK B : IsKeeping(B, b, S, X)
    BY InOrderFolds
<1>5. /\ F \in [0..(m + n) -> Seq(X)] /\ F[0] = <<>> /\ InOrder(ab, S) = F[m + n]
      /\ \A k \in 1..(m + n) : F[k] = IF ab[k] \in S THEN Append(F[k - 1], ab[k]) ELSE F[k - 1]
    BY <1>1, <1>2 DEF IsKeeping
<1>6. /\ A \in [0..m -> Seq(X)] /\ A[0] = <<>> /\ InOrder(a, S) = A[m]
      /\ \A k \in 1..m : A[k] = IF a[k] \in S THEN Append(A[k - 1], a[k]) ELSE A[k - 1]
    BY <1>3 DEF IsKeeping
<1>7. /\ B \in [0..n -> Seq(X)] /\ B[0] = <<>> /\ InOrder(b, S) = B[n]
      /\ \A k \in 1..n : B[k] = IF b[k] \in S THEN Append(B[k - 1], b[k]) ELSE B[k - 1]
    BY <1>4 DEF IsKeeping
<1> HIDE DEF m, n
<1>8. \A k \in 0..m : F[k] = A[k]
    <2> DEFINE Q(k) == F[k] = A[k]
    <2>1. Q(0)
        BY <1>5, <1>6
    <2>2. ASSUME NEW k \in 0..(m - 1), Q(k) PROVE Q(k + 1)
        <3>1. k + 1 \in 1..m /\ k + 1 \in 1..(m + n) /\ (k + 1) - 1 = k /\ F[k] = A[k]
            BY <1>1, <2>2
        <3>2. ab[k + 1] = a[k + 1]
            BY <1>1, <3>1
        <3>3. F[k + 1] = IF ab[k + 1] \in S THEN Append(F[k], ab[k + 1]) ELSE F[k]
            BY <1>5, <3>1
        <3>4. A[k + 1] = IF a[k + 1] \in S THEN Append(A[k], a[k + 1]) ELSE A[k]
            BY <1>6, <3>1
        <3> QED
            BY <3>1, <3>2, <3>3, <3>4
    <2> QED
        <3> HIDE DEF Q
        <3> DEFINE P == {k \in 0..m : Q(k)}
        <3>1. 0 \in P /\ \A k \in 0..(m - 1) : k \in P => k + 1 \in P
            BY <1>1, <2>1, <2>2
        <3>2. 0..m \subseteq P
            <4> HIDE DEF P
            <4> QED
                BY <1>1, <3>1, EveryPlace
        <3> QED
            BY <3>2 DEF Q
<1>9. \A k \in 0..n : F[m + k] = Cat(A[m], B[k])
    <2> DEFINE Q(k) == F[m + k] = Cat(A[m], B[k])
    <2>0. m \in 0..m /\ A[m] \in Seq(X)
        BY <1>1, <1>6
    <2>1. Q(0)
        <3>1. Cat(A[m], <<>>) = A[m]
            BY <2>0, CatNothing
        <3>2. m + 0 = m
            BY <1>1
        <3> QED
            BY <1>7, <1>8, <2>0, <3>1, <3>2
    <2>2. ASSUME NEW k \in 0..(n - 1), Q(k) PROVE Q(k + 1)
        <3>1. /\ k + 1 \in 1..n /\ m + (k + 1) \in 1..(m + n) /\ (k + 1) - 1 = k
              /\ (m + (k + 1)) - 1 = m + k /\ k \in 0..n
            BY <1>1
        <3>2. B[k] \in Seq(X)
            BY <1>7, <3>1
        <3>3. ab[m + (k + 1)] = b[k + 1] /\ b[k + 1] \in X
            BY <1>1, <3>1
        <3>4. F[m + (k + 1)] = IF ab[m + (k + 1)] \in S THEN Append(F[m + k], ab[m + (k + 1)]) ELSE F[m + k]
            BY <1>5, <3>1
        <3>5. B[k + 1] = IF b[k + 1] \in S THEN Append(B[k], b[k + 1]) ELSE B[k]
            BY <1>7, <3>1
        <3>6. Push(Cat(A[m], B[k]), b[k + 1]) = Cat(A[m], Push(B[k], b[k + 1]))
            <4> DEFINE f == A[m]
                       g == B[k]
                       x == b[k + 1]
            <4>1. f \in Seq(X) /\ g \in Seq(X) /\ x \in X
                BY <2>0, <3>2, <3>3
            <4> HIDE DEF f, g, x
            <4>2. Push(Cat(f, g), x) = Cat(f, Push(g, x))
                BY <4>1, PushLater
            <4> QED
                BY <4>2 DEF f, g, x
        <3> QED
            BY <2>2, <3>3, <3>4, <3>5, <3>6 DEF Push
    <2> QED
        <3> HIDE DEF Q
        <3> DEFINE P == {k \in 0..n : Q(k)}
        <3>1. 0 \in P /\ \A k \in 0..(n - 1) : k \in P => k + 1 \in P
            BY <1>1, <2>1, <2>2
        <3>2. 0..n \subseteq P
            <4> HIDE DEF P
            <4> QED
                BY <1>1, <3>1, EveryPlace
        <3> QED
            BY <3>2 DEF Q
<1>10. n \in 0..n /\ m \in 0..m
    BY <1>1
<1>11. F[m + n] = Cat(A[m], B[n])
    BY <1>9, <1>10
<1> QED
    BY <1>5, <1>6, <1>7, <1>10, <1>11 DEF ab

(* What is selected of a part is within what is selected of the whole.      *)
LEMMA InOrderWithin ==
    ASSUME NEW X, NEW whole \in Seq(X), NEW part \in Seq(X), Within(part, whole), NEW S
    PROVE  /\ \E pre \in Seq(X) : \E post \in Seq(X) : InOrder(whole, S) = Cat(Cat(pre, InOrder(part, S)), post)
           /\ InOrder(part, S) \in Seq(X)
<1>1. PICK pre \in Seq(X), post \in Seq(X) : whole = Cat(Cat(pre, part), post)
    BY WithinIs
<1>2. Cat(pre, part) \in Seq(X)
    BY CatIs
<1>3. /\ InOrder(Cat(pre, part), S) = Cat(InOrder(pre, S), InOrder(part, S))
      /\ InOrder(pre, S) \in Seq(X) /\ InOrder(part, S) \in Seq(X)
    BY InOrderCat
<1>4. InOrder(whole, S) = Cat(InOrder(Cat(pre, part), S), InOrder(post, S)) /\ InOrder(post, S) \in Seq(X)
    BY <1>1, <1>2, InOrderCat
<1> QED
    BY <1>3, <1>4

(* A function applied to each of a list.                                    *)
IsMap(h, X, Y) == h \in [X -> Y]
Mapped(h, list) == [k \in 1..Len(list) |-> h[list[k]]]

(* What applying a function to a list gives, place by place.                *)
LEMMA MappedIs ==
    ASSUME NEW X, NEW Y, NEW h, IsMap(h, X, Y), NEW list \in Seq(X)
    PROVE  /\ Mapped(h, list) \in Seq(Y) /\ Len(Mapped(h, list)) = Len(list) /\ Len(list) \in Nat
           /\ \A k \in 1..Len(list) : Mapped(h, list)[k] = h[list[k]] /\ list[k] \in X
<1> DEFINE n == Len(list)
<1>1. n \in Nat /\ \A k \in 1..n : list[k] \in X
    OBVIOUS
<1> HIDE DEF n
<1>2. \A k \in 1..n : h[list[k]] \in Y
    BY <1>1 DEF IsMap
<1> DEFINE s == [k \in 1..n |-> h[list[k]]]
<1>3. s \in [1..n -> Y]
    BY <1>2
<1>4. s \in Seq(Y) /\ Len(s) = n
    BY <1>1, <1>3
<1>5. \A k \in 1..n : s[k] = h[list[k]]
    OBVIOUS
<1> HIDE DEF s
<1>6. Mapped(h, list) = s
    BY DEF Mapped, s, n
<1> QED
    BY <1>1, <1>4, <1>5, <1>6 DEF n

(* Applying it to two lists in a row is applying it to each.                *)
LEMMA MappedCat ==
    ASSUME NEW X, NEW Y, NEW h, IsMap(h, X, Y), NEW a \in Seq(X), NEW b \in Seq(X)
    PROVE  Mapped(h, Cat(a, b)) = Cat(Mapped(h, a), Mapped(h, b))
<1> DEFINE ab == Cat(a, b)
           ha == Mapped(h, a)
           hb == Mapped(h, b)
           m == Len(a)
           n == Len(b)
<1>1. ab \in Seq(X) /\ Len(ab) = m + n /\ m \in Nat /\ n \in Nat
    BY CatIs
<1>2. \A k \in 1..m : ab[k] = a[k]
    BY CatIs
<1>3. \A k \in 1..n : ab[m + k] = b[k]
    BY CatIs
<1>4. /\ ha \in Seq(Y) /\ Len(ha) = m
      /\ \A k \in 1..m : ha[k] = h[a[k]]
    BY MappedIs
<1>5. /\ hb \in Seq(Y) /\ Len(hb) = n
      /\ \A k \in 1..n : hb[k] = h[b[k]]
    BY MappedIs
<1> HIDE DEF ab, ha, hb, m, n
<1>6. /\ Mapped(h, ab) \in Seq(Y) /\ Len(Mapped(h, ab)) = m + n
      /\ \A k \in 1..(m + n) : Mapped(h, ab)[k] = h[ab[k]]
    <2>1. Mapped(h, ab) \in Seq(Y) /\ Len(Mapped(h, ab)) = Len(ab)
        BY <1>1, MappedIs
    <2>2. \A k \in 1..Len(ab) : Mapped(h, ab)[k] = h[ab[k]]
        BY <1>1, MappedIs
    <2> QED
        BY <1>1, <2>1, <2>2
<1> DEFINE c == Cat(ha, hb)
<1>7. c \in Seq(Y) /\ Len(c) = m + n
    BY <1>4, <1>5, CatIs
<1>8. \A k \in 1..m : c[k] = ha[k]
    <2>1. \A k \in 1..Len(ha) : Cat(ha, hb)[k] = ha[k]
        BY <1>4, <1>5, CatBefore
    <2> QED
        BY <1>4, <2>1
<1>9. \A k \in 1..n : c[m + k] = hb[k]
    <2>0. ha \in Seq(Y) /\ hb \in Seq(Y)
        BY <1>4, <1>5
    <2>1. ASSUME NEW k \in 1..Len(hb) PROVE Cat(ha, hb)[Len(ha) + k] = hb[k]
        BY <2>0, CatAfter
    <2> QED
        BY <1>4, <1>5, <2>1
<1> HIDE DEF c
<1>10. \A k \in 1..(m + n) : Mapped(h, ab)[k] = c[k]
    <2> TAKE k \in 1..(m + n)
    <2>1. CASE k \in 1..m
        <3>1. ab[k] = a[k]
            BY <1>2, <2>1
        <3>2. ha[k] = h[a[k]] /\ c[k] = ha[k]
            BY <1>4, <1>8, <2>1
        <3>3. Mapped(h, ab)[k] = h[ab[k]]
            BY <1>6
        <3> QED
            BY <3>1, <3>2, <3>3
    <2>2. CASE k \notin 1..m
        <3>1. k - m \in 1..n /\ m + (k - m) = k
            BY <1>1, <2>2
        <3>2. ab[k] = b[k - m] /\ c[k] = hb[k - m] /\ hb[k - m] = h[b[k - m]]
            BY <1>3, <1>5, <1>9, <3>1
        <3> QED
            BY <1>6, <3>2
    <2> QED
        BY <2>1, <2>2
<1>11. Mapped(h, ab) = c
    BY <1>6, <1>7, <1>10, SeqEqual
<1> QED
    BY <1>11 DEF c, ab, ha, hb

(* Selecting by what a function gives is selecting and then applying it.    *)
LEMMA InOrderMapped ==
    ASSUME NEW X, NEW Y, NEW h, IsMap(h, X, Y), NEW list \in Seq(X), NEW S, NEW T,
           \A k \in 1..Len(list) : h[list[k]] \in S <=> list[k] \in T
    PROVE  InOrder(Mapped(h, list), S) = Mapped(h, InOrder(list, T))
<1> DEFINE n == Len(list)
           hl == Mapped(h, list)
<1>1. hl \in Seq(Y) /\ Len(hl) = n /\ n \in Nat
    BY MappedIs
<1>2. \A k \in 1..n : hl[k] = h[list[k]] /\ list[k] \in X
    BY MappedIs
<1> HIDE DEF hl
<1>3. PICK F : IsKeeping(F, hl, S, Y)
    BY <1>1, InOrderFolds
<1>4. PICK G : IsKeeping(G, list, T, X)
    BY InOrderFolds
<1>5. /\ F \in [0..n -> Seq(Y)] /\ F[0] = <<>> /\ InOrder(hl, S) = F[n]
      /\ \A k \in 1..n : F[k] = IF hl[k] \in S THEN Append(F[k - 1], hl[k]) ELSE F[k - 1]
    BY <1>1, <1>3 DEF IsKeeping
<1>6. /\ G \in [0..n -> Seq(X)] /\ G[0] = <<>> /\ InOrder(list, T) = G[n]
      /\ \A k \in 1..n : G[k] = IF list[k] \in T THEN Append(G[k - 1], list[k]) ELSE G[k - 1]
    BY <1>4 DEF IsKeeping
<1>7. \A k \in 1..n : h[list[k]] \in S <=> list[k] \in T
    OBVIOUS
<1> HIDE DEF n
<1> DEFINE Q(k) == F[k] = Mapped(h, G[k])
<1>8. Q(0)
    <2>1. Mapped(h, <<>>) = <<>>
        BY DEF Mapped
    <2> QED
        BY <1>5, <1>6, <2>1
<1>9. ASSUME NEW k \in 0..(n - 1), Q(k) PROVE Q(k + 1)
    <2>1. k + 1 \in 1..n /\ (k + 1) - 1 = k /\ k \in 0..n
        BY <1>1
    <2>2. hl[k + 1] = h[list[k + 1]] /\ list[k + 1] \in X
        BY <1>2, <2>1
    <2>3. F[k + 1] = IF hl[k + 1] \in S THEN Append(F[k], hl[k + 1]) ELSE F[k]
        BY <1>5, <2>1
    <2>4. G[k + 1] = IF list[k + 1] \in T THEN Append(G[k], list[k + 1]) ELSE G[k]
        BY <1>6, <2>1
    <2>5. hl[k + 1] \in S <=> list[k + 1] \in T
        BY <1>7, <2>1, <2>2
    <2>6. Mapped(h, Append(G[k], list[k + 1])) = Append(Mapped(h, G[k]), h[list[k + 1]])
        <3> DEFINE g == G[k]
                   x == list[k + 1]
                   hg == Mapped(h, g)
        <3>1. g \in Seq(X) /\ x \in X
            BY <1>6, <2>1, <2>2
        <3> HIDE DEF g, x
        <3>2. <<x>> \in Seq(X)
            BY <3>1
        <3>3. Mapped(h, Cat(g, <<x>>)) = Cat(hg, Mapped(h, <<x>>))
            <4> DEFINE o == <<x>>
            <4>1. o \in Seq(X)
                BY <3>2
            <4> HIDE DEF o
            <4>2. Mapped(h, Cat(g, o)) = Cat(Mapped(h, g), Mapped(h, o))
                BY <3>1, <4>1, MappedCat
            <4> QED
                BY <4>2 DEF o
        <3>4. Mapped(h, <<x>>) = <<h[x]>>
            BY <3>1 DEF Mapped
        <3>5. hg \in Seq(Y)
            BY <3>1, MappedIs
        <3>6. h[x] \in Y
            BY <3>1 DEF IsMap
        <3>7. Append(g, x) = Cat(g, <<x>>)
            BY <3>1, AppendIsConcat DEF Cat
        <3> HIDE DEF hg
        <3>8. Append(hg, h[x]) = Cat(hg, <<h[x]>>)
            <4> DEFINE y == h[x]
            <4> HIDE DEF y
            <4>1. y \in Y
                BY <3>6 DEF y
            <4>2. Append(hg, y) = Cat(hg, <<y>>)
                BY <3>5, <4>1, AppendIsConcat DEF Cat
            <4> QED
                BY <4>2 DEF y
        <3> QED
            BY <3>3, <3>4, <3>7, <3>8 DEF hg, g, x
    <2> QED
        BY <1>9, <2>2, <2>3, <2>4, <2>5, <2>6
<1>10. \A k \in 0..n : Q(k)
    <2> HIDE DEF Q
    <2> DEFINE P == {k \in 0..n : Q(k)}
    <2>1. 0 \in P /\ \A k \in 0..(n - 1) : k \in P => k + 1 \in P
        BY <1>1, <1>8, <1>9
    <2>2. 0..n \subseteq P
        <3> HIDE DEF P
        <3> QED
            BY <1>1, <2>1, EveryPlace
    <2> QED
        BY <2>2
<1>11. n \in 0..n
    BY <1>1
<1> QED
    BY <1>5, <1>6, <1>10, <1>11 DEF hl

IsStep(step, n, A) == step \in [(1..n) \X A -> A]
Stepped(F, n, A, base, step) == F \in [0..n -> A] /\ F[0] = base /\ \A k \in 1..n : F[k] = step[<<k, F[k - 1]>>]

(* Steps one after the other from a base, as a function.                    *)
LEMMA RunExists ==
    ASSUME NEW n \in Nat, NEW A, NEW base \in A, NEW step, IsStep(step, n, A)
    PROVE  \E F : Stepped(F, n, A, base, step)
<1>0. step \in [(1..n) \X A -> A]
    BY DEF IsStep
<1>1. PICK iter : IsLeftFold(iter, n, A, base, step)
    BY <1>0, LeftFoldExists
<1>2. iter[{}] = base /\ Steps(iter, n, A, step)
    BY <1>1 DEF IsLeftFold, Steps
<1>3. PICK F : IsRun(F, n, A, base, step, iter)
    BY <1>0, <1>2, LeftFoldRuns
<1> QED
    BY <1>3 DEF IsRun, Stepped

IsSpacing(R, parts, X) ==
    /\ R \in [0..Len(parts) -> Seq(X)]
    /\ R[0] = <<>> /\ Spaced(parts) = R[Len(parts)]
    /\ \A k \in 1..Len(parts) : R[k] = IF k = 1 THEN parts[1] ELSE Cat(Cat(R[k - 1], <<Space>>), parts[k])

(* Setting parts one space apart is a run over them.                        *)
LEMMA SpacedRuns ==
    ASSUME NEW X, Space \in X, NEW parts \in Seq(Seq(X))
    PROVE  \E R : IsSpacing(R, parts, X)
<1> DEFINE n == Len(parts)
           T == Seq(X)
           Next1(k, text) == IF k = 1 THEN parts[1] ELSE Cat(Cat(text, <<Space>>), parts[k])
           step == [p \in (1..n) \X T |-> Next1(p[1], p[2])]
           Body(G) == [k \in 0..n |-> IF k = 0 THEN <<>> ELSE IF k = 1 THEN parts[1] ELSE G[k - 1] \o <<Space>> \o parts[k]]
           it == CHOOSE G : G = Body(G)
<1>1. n \in Nat /\ <<>> \in T /\ <<Space>> \in T /\ \A k \in 1..n : parts[k] \in T
    OBVIOUS
<1> HIDE DEF n, T
<1>2. ASSUME NEW k \in 1..n, NEW text \in T PROVE Next1(k, text) \in T
    <2> DEFINE p == parts[k]
    <2>1. p \in T /\ text \in T /\ <<Space>> \in T
        BY <1>1
    <2>2. CASE k = 1
        BY <1>1, <2>2
    <2>3. CASE k # 1
        <3> HIDE DEF p
        <3> DEFINE o == <<Space>>
        <3>0. o \in Seq(X) /\ p \in Seq(X) /\ text \in Seq(X)
            BY <2>1 DEF T
        <3> HIDE DEF o
        <3>1. Cat(text, o) \in Seq(X)
            BY <3>0, CatIs
        <3>2. Cat(Cat(text, o), p) \in Seq(X)
            BY <3>0, <3>1, CatIs
        <3> QED
            BY <2>3, <3>2 DEF T, o, p
    <2> QED
        BY <2>2, <2>3
<1> HIDE DEF Next1
<1>3. IsStep(step, n, T)
    BY <1>2 DEF IsStep
<1>a. PICK F : Stepped(F, n, T, <<>>, step)
    <2> HIDE DEF step
    <2>1. n \in Nat /\ <<>> \in T
        BY <1>1
    <2> QED
        BY <1>3, <2>1, RunExists
<1>4. F \in [0..n -> T] /\ F[0] = <<>> /\ \A k \in 1..n : F[k] = step[<<k, F[k - 1]>>]
    BY <1>a DEF Stepped
<1>5. \A k \in 1..n : F[k] = Next1(k, F[k - 1])
    <2> TAKE k \in 1..n
    <2>1. k - 1 \in 0..n
        BY <1>1
    <2>2. F[k - 1] \in T
        BY <1>4, <2>1
    <2> QED
        BY <1>4, <2>2
<1>6. F = Body(F)
    <2>1. \A k \in 0..n : F[k] = IF k = 0 THEN <<>> ELSE IF k = 1 THEN parts[1] ELSE F[k - 1] \o <<Space>> \o parts[k]
        <3> TAKE k \in 0..n
        <3>1. k = 0 \/ k \in 1..n
            BY <1>1
        <3> QED
            BY <1>4, <1>5, <3>1 DEF Next1, Cat
    <2> QED
        BY <1>4, <2>1
<1>7. it = Body(it)
    BY <1>6
<1>8. Spaced(parts) = it[n]
    BY DEF Spaced, n
<1> HIDE DEF it
<1>9. DOMAIN it = 0..n /\ \A k \in 0..n : it[k] = IF k = 0 THEN <<>> ELSE IF k = 1 THEN parts[1] ELSE it[k - 1] \o <<Space>> \o parts[k]
    BY <1>7
<1>10. it[0] = <<>>
    <2>1. 0 \in 0..n
        BY <1>1
    <2> QED
        BY <1>9, <2>1
<1>11. \A k \in 1..n : it[k] = Next1(k, it[k - 1])
    <2> TAKE k \in 1..n
    <2>1. k \in 0..n /\ k # 0
        BY <1>1
    <2> QED
        BY <1>9, <2>1 DEF Next1, Cat
<1> DEFINE Q(k) == it[k] \in T
<1>12. \A k \in 0..n : Q(k)
    <2>1. Q(0)
        BY <1>1, <1>10
    <2>2. ASSUME NEW k \in 0..(n - 1), Q(k) PROVE Q(k + 1)
        <3>1. k + 1 \in 1..n /\ (k + 1) - 1 = k
            BY <1>1
        <3> QED
            BY <1>2, <1>11, <2>2, <3>1
    <2> HIDE DEF Q
    <2> DEFINE P == {k \in 0..n : Q(k)}
    <2>3. 0 \in P /\ \A k \in 0..(n - 1) : k \in P => k + 1 \in P
        BY <1>1, <2>1, <2>2
    <2>4. 0..n \subseteq P
        <3> HIDE DEF P
        <3> QED
            BY <1>1, <2>3, EveryPlace
    <2> QED
        BY <2>4
<1>13. it \in [0..n -> T]
    BY <1>7, <1>12
<1>14. \A k \in 1..n : it[k] = IF k = 1 THEN parts[1] ELSE Cat(Cat(it[k - 1], <<Space>>), parts[k])
    BY <1>11 DEF Next1
<1> QED
    BY <1>8, <1>10, <1>13, <1>14 DEF IsSpacing, n, T

(* The parts of two lists, spaced, are each list's with a space between.    *)
LEMMA SpacedCat ==
    ASSUME NEW X, Space \in X, NEW a \in Seq(Seq(X)), a # <<>>, NEW b \in Seq(Seq(X)), b # <<>>
    PROVE  /\ Spaced(Cat(a, b)) = Cat(Cat(Spaced(a), <<Space>>), Spaced(b))
           /\ Spaced(a) \in Seq(X) /\ Spaced(b) \in Seq(X)
<1> DEFINE T == Seq(X)
           ab == Cat(a, b)
           m == Len(a)
           n == Len(b)
           o == <<Space>>
<1>1. ab \in Seq(T) /\ Len(ab) = m + n /\ m \in Nat /\ n \in Nat /\ o \in T
    BY CatIs
<1>2. m >= 1 /\ n >= 1
    BY <1>1
<1>3. \A k \in 1..m : ab[k] = a[k] /\ a[k] \in T
    BY CatBefore
<1>4. \A k \in 1..n : ab[m + k] = b[k] /\ b[k] \in T
    BY CatAfter
<1> HIDE DEF ab, o
<1>5. PICK F : IsSpacing(F, ab, X)
    BY <1>1, SpacedRuns
<1>6. PICK A : IsSpacing(A, a, X)
    BY SpacedRuns
<1>7. PICK B : IsSpacing(B, b, X)
    BY SpacedRuns
<1>8. /\ F \in [0..(m + n) -> T] /\ F[0] = <<>> /\ Spaced(ab) = F[m + n]
      /\ \A k \in 1..(m + n) : F[k] = IF k = 1 THEN ab[1] ELSE Cat(Cat(F[k - 1], o), ab[k])
    BY <1>1, <1>5 DEF IsSpacing, o
<1>9. /\ A \in [0..m -> T] /\ A[0] = <<>> /\ Spaced(a) = A[m]
      /\ \A k \in 1..m : A[k] = IF k = 1 THEN a[1] ELSE Cat(Cat(A[k - 1], o), a[k])
    BY <1>6 DEF IsSpacing, o
<1>10. /\ B \in [0..n -> T] /\ B[0] = <<>> /\ Spaced(b) = B[n]
      /\ \A k \in 1..n : B[k] = IF k = 1 THEN b[1] ELSE Cat(Cat(B[k - 1], o), b[k])
    BY <1>7 DEF IsSpacing, o
<1> HIDE DEF m, n, T
<1>11. \A k \in 0..m : F[k] = A[k]
    <2> DEFINE Q(k) == F[k] = A[k]
    <2>1. Q(0)
        BY <1>8, <1>9
    <2>2. ASSUME NEW k \in 0..(m - 1), Q(k) PROVE Q(k + 1)
        <3>1. k + 1 \in 1..m /\ k + 1 \in 1..(m + n) /\ (k + 1) - 1 = k /\ 1 \in 1..m
            BY <1>1
        <3>2. ab[k + 1] = a[k + 1] /\ ab[1] = a[1]
            BY <1>3, <3>1
        <3>3. F[k + 1] = IF k + 1 = 1 THEN ab[1] ELSE Cat(Cat(F[k], o), ab[k + 1])
            BY <1>8, <3>1
        <3>4. A[k + 1] = IF k + 1 = 1 THEN a[1] ELSE Cat(Cat(A[k], o), a[k + 1])
            BY <1>9, <3>1
        <3> QED
            BY <2>2, <3>2, <3>3, <3>4
    <2> HIDE DEF Q
    <2> DEFINE P == {k \in 0..m : Q(k)}
    <2>3. 0 \in P /\ \A k \in 0..(m - 1) : k \in P => k + 1 \in P
        BY <1>1, <2>1, <2>2
    <2>4. 0..m \subseteq P
        <3> HIDE DEF P
        <3> QED
            BY <1>1, <2>3, EveryPlace
    <2> QED
        BY <2>4 DEF Q
<1> DEFINE f == Cat(A[m], o)
<1>12. A[m] \in T /\ f \in T /\ m \in 0..m
    <2>1. m \in 0..m
        BY <1>1
    <2>2. A[m] \in T
        BY <1>9, <2>1
    <2> DEFINE am == A[m]
    <2> HIDE DEF am
    <2>3. am \in Seq(X) /\ o \in Seq(X)
        BY <1>1, <2>2 DEF T, am
    <2>4. Cat(am, o) \in Seq(X)
        BY <2>3, CatIs
    <2> QED
        BY <2>1, <2>2, <2>4 DEF T, am
<1> HIDE DEF f
<1>13. \A k \in 1..n : F[m + k] = Cat(f, B[k])
    <2> DEFINE Q(k) == k >= 1 => F[m + k] = Cat(f, B[k])
    <2>1. Q(0)
        OBVIOUS
    <2>2. ASSUME NEW k \in 0..(n - 1), Q(k) PROVE Q(k + 1)
        <3>1. /\ k + 1 \in 1..n /\ m + (k + 1) \in 1..(m + n) /\ (k + 1) - 1 = k
              /\ (m + (k + 1)) - 1 = m + k /\ k \in 0..n /\ m + (k + 1) # 1
            BY <1>1, <1>2
        <3>2. ab[m + (k + 1)] = b[k + 1] /\ b[k + 1] \in T
            BY <1>4, <3>1
        <3>3. F[m + (k + 1)] = Cat(Cat(F[m + k], o), b[k + 1])
            BY <1>8, <3>1, <3>2
        <3>4. CASE k = 0
            <4>1. F[m + k] = A[m] /\ B[1] = b[1] /\ k + 1 = 1
                BY <1>1, <1>10, <1>11, <1>12, <3>1, <3>4
            <4> QED
                BY <3>3, <4>1 DEF f
        <3>5. CASE k # 0
            <4>1. F[m + k] = Cat(f, B[k])
                BY <2>2, <3>5
            <4>2. B[k + 1] = Cat(Cat(B[k], o), b[k + 1])
                BY <1>10, <3>1, <3>5
            <4> DEFINE g == B[k]
                       x == b[k + 1]
            <4>3. g \in T /\ x \in T
                BY <1>10, <3>1, <3>2
            <4> HIDE DEF g, x
            <4>4. f \in Seq(X) /\ g \in Seq(X) /\ x \in Seq(X) /\ o \in Seq(X)
                BY <1>1, <1>12, <4>3 DEF T
            <4>5. Cat(Cat(f, g), o) = Cat(f, Cat(g, o)) /\ Cat(g, o) \in Seq(X)
                BY <4>4, CatIs, CatAssociates
            <4>6. Cat(Cat(f, Cat(g, o)), x) = Cat(f, Cat(Cat(g, o), x))
                BY <4>4, <4>5, CatAssociates
            <4>7. F[m + (k + 1)] = Cat(f, Cat(Cat(g, o), x))
                BY <3>3, <4>1, <4>5, <4>6 DEF g, x
            <4> QED
                BY <4>2, <4>7 DEF g, x
        <3> QED
            BY <3>4, <3>5
    <2> HIDE DEF Q
    <2> DEFINE P == {k \in 0..n : Q(k)}
    <2>3. 0 \in P /\ \A k \in 0..(n - 1) : k \in P => k + 1 \in P
        BY <1>1, <2>1, <2>2
    <2>4. 0..n \subseteq P
        <3> HIDE DEF P
        <3> QED
            BY <1>1, <2>3, EveryPlace
    <2>5. \A k \in 1..n : Q(k)
        BY <1>1, <2>4
    <2> QED
        BY <1>1, <2>5 DEF Q
<1>14. n \in 1..n /\ n \in 0..n
    BY <1>1, <1>2
<1>15. F[m + n] = Cat(f, B[n]) /\ B[n] \in T
    BY <1>10, <1>13, <1>14
<1> QED
    BY <1>8, <1>9, <1>10, <1>12, <1>15 DEF ab, f, T, o

(* Parts, spaced, are of what the parts are of.                             *)
LEMMA SpacedType ==
    ASSUME NEW X, Space \in X, NEW parts \in Seq(Seq(X))
    PROVE  Spaced(parts) \in Seq(X) /\ (parts = <<>> => Spaced(parts) = <<>>)
<1>1. PICK R : IsSpacing(R, parts, X)
    BY SpacedRuns
<1>2. Len(parts) \in Nat /\ Len(parts) \in 0..Len(parts)
    OBVIOUS
<1>3. parts = <<>> => Len(parts) = 0
    OBVIOUS
<1> QED
    BY <1>1, <1>2, <1>3 DEF IsSpacing

(* One part alone is spaced as it is.                                       *)
LEMMA SpacedOne ==
    ASSUME NEW X, Space \in X, NEW part \in Seq(X)
    PROVE  Spaced(<<part>>) = part
<1> DEFINE parts == <<part>>
<1>1. parts \in Seq(Seq(X)) /\ Len(parts) = 1 /\ parts[1] = part
    OBVIOUS
<1> HIDE DEF parts
<1>2. PICK R : IsSpacing(R, parts, X)
    BY <1>1, SpacedRuns
<1> QED
    BY <1>1, <1>2 DEF IsSpacing, parts

(* Some of the parts, spaced, stand in all of them, spaced.                 *)
LEMMA SpacedWithin ==
    ASSUME NEW X, Space \in X, NEW pre \in Seq(Seq(X)), NEW mid \in Seq(Seq(X)), mid # <<>>, NEW post \in Seq(Seq(X))
    PROVE  \E a \in Seq(X) : \E b \in Seq(X) : Spaced(Cat(Cat(pre, mid), post)) = Cat(Cat(a, Spaced(mid)), b)
<1> DEFINE half == Cat(pre, mid)
           s == Spaced(mid)
           o == <<Space>>
<1>1. half \in Seq(Seq(X)) /\ Len(half) = Len(pre) + Len(mid) /\ Len(pre) \in Nat /\ Len(mid) \in Nat
    BY CatIs
<1>2. half # <<>>
    BY <1>1
<1>3. s \in Seq(X) /\ Spaced(half) \in Seq(X) /\ o \in Seq(X)
    <2>1. s \in Seq(X)
        BY SpacedType
    <2>2. Spaced(half) \in Seq(X)
        <3> HIDE DEF half
        <3> QED
            BY <1>1, SpacedType
    <2> QED
        BY <2>1, <2>2
<1>4. \E a \in Seq(X) : Spaced(half) = Cat(a, s)
    <2>1. CASE pre = <<>>
        <3>1. half = mid
            BY <2>1, CatNothing
        <3>2. Cat(<<>>, s) = s /\ <<>> \in Seq(X)
            BY <1>3, CatNothing
        <3> QED
            BY <3>1, <3>2
    <2>2. CASE pre # <<>>
        <3>1. Spaced(half) = Cat(Cat(Spaced(pre), o), s) /\ Spaced(pre) \in Seq(X)
            BY <2>2, SpacedCat
        <3> HIDE DEF o, s, half
        <3>2. Cat(Spaced(pre), o) \in Seq(X)
            BY <1>3, <3>1, CatIs
        <3> QED
            BY <3>1, <3>2
    <2> QED
        BY <2>1, <2>2
<1>5. PICK a \in Seq(X) : Spaced(half) = Cat(a, s)
    BY <1>4
<1> HIDE DEF half, s, o
<1>6. \E b \in Seq(X) : Spaced(Cat(half, post)) = Cat(Spaced(half), b)
    <2>1. CASE post = <<>>
        <3>1. Cat(half, post) = half
            BY <1>1, <2>1, CatNothing
        <3>2. Cat(Spaced(half), <<>>) = Spaced(half) /\ <<>> \in Seq(X)
            BY <1>3, CatNothing
        <3> QED
            BY <3>1, <3>2
    <2>2. CASE post # <<>>
        <3>1. Spaced(Cat(half, post)) = Cat(Cat(Spaced(half), o), Spaced(post)) /\ Spaced(post) \in Seq(X)
            BY <1>1, <1>2, <2>2, SpacedCat DEF o
        <3>2. Cat(Cat(Spaced(half), o), Spaced(post)) = Cat(Spaced(half), Cat(o, Spaced(post)))
            BY <1>3, <3>1, CatAssociates
        <3>3. Cat(o, Spaced(post)) \in Seq(X)
            BY <1>3, <3>1, CatIs
        <3> QED
            BY <3>1, <3>2, <3>3
    <2> QED
        BY <2>1, <2>2
<1> QED
    BY <1>5, <1>6 DEF half, s

(* The least of some places.                                                *)
LEMMA MinOf ==
    ASSUME NEW n \in Nat, NEW S \in SUBSET (1..n), S # {}
    PROVE  Min(S) \in S /\ \A x \in S : Min(S) <= x
<1>1. S \in SUBSET Nat
    OBVIOUS
<1>2. \E x \in S : \A y \in S : x <= y
    BY <1>1, FirstExists
<1> QED
    BY <1>2 DEF Min

Visible(text) == {k \in 1..Len(text) : text[k] # Space}

(* A stripped text runs from the first of its symbols to the last.          *)
LEMMA StrippedIs ==
    ASSUME NEW X, NEW text \in Seq(X)
    PROVE  /\ Stripped(text) \in Seq(X)
           /\ Visible(text) = {} => Stripped(text) = <<>>
           /\ Visible(text) # {} =>
                 \E lo, hi \in Visible(text) :
                    /\ lo <= hi /\ \A k \in Visible(text) : lo <= k /\ k <= hi
                    /\ Len(Stripped(text)) = hi - lo + 1
                    /\ \A j \in 1..(hi - lo + 1) : Stripped(text)[j] = text[lo + j - 1]
<1> DEFINE n == Len(text)
           solid == Visible(text)
           lo == Min(solid)
           hi == Max(solid)
<1>1. n \in Nat /\ DOMAIN text = 1..n /\ \A k \in 1..n : text[k] \in X
    OBVIOUS
<1>2. Stripped(text) = IF solid = {} THEN <<>> ELSE SubSeq(text, lo, hi)
    <2>1. {k \in DOMAIN text : text[k] # Space} = solid
        BY <1>1 DEF Visible
    <2> QED
        BY <2>1 DEF Stripped
<1>3. solid \in SUBSET (1..n)
    BY DEF Visible
<1> HIDE DEF solid, n
<1>4. CASE solid = {}
    <2>1. Stripped(text) = <<>> /\ <<>> \in Seq(X)
        BY <1>2, <1>4
    <2> QED
        BY <1>4, <2>1 DEF solid
<1>5. CASE solid # {}
    <2>1. lo \in solid /\ hi \in solid /\ \A k \in solid : lo <= k /\ k <= hi
        BY <1>1, <1>3, <1>5, MinOf, MaxOf
    <2> HIDE DEF lo, hi
    <2>2. lo \in 1..n /\ hi \in 1..n /\ lo <= hi
        BY <1>3, <2>1
    <2> DEFINE s == SubSeq(text, lo, hi)
    <2>3. \A i \in lo..hi : text[i] \in X
        <3>1. \A i \in lo..hi : i \in 1..n
            BY <1>1, <2>2
        <3> QED
            BY <1>1, <3>1
    <2>4. lo \in Int /\ hi \in Int
        BY <2>2
    <2>5. s \in Seq(X) /\ Len(s) = (IF lo <= hi THEN hi - lo + 1 ELSE 0) /\ \A i \in 1..(hi - lo + 1) : s[i] = text[lo + i - 1]
        BY <2>3, <2>4, SubSeqProperties
    <2>6. Stripped(text) = s
        BY <1>2, <1>5
    <2> HIDE DEF s
    <2>7. /\ lo \in Visible(text) /\ hi \in Visible(text) /\ lo <= hi
          /\ \A k \in Visible(text) : lo <= k /\ k <= hi
          /\ Len(Stripped(text)) = hi - lo + 1
          /\ \A j \in 1..(hi - lo + 1) : Stripped(text)[j] = text[lo + j - 1]
        BY <2>1, <2>2, <2>5, <2>6 DEF solid
    <2>8. \E l, h \in Visible(text) :
             /\ l <= h /\ \A k \in Visible(text) : l <= k /\ k <= h
             /\ Len(Stripped(text)) = h - l + 1
             /\ \A j \in 1..(h - l + 1) : Stripped(text)[j] = text[l + j - 1]
        BY <2>7
    <2> QED
        BY <1>5, <2>5, <2>6, <2>8 DEF solid
<1> QED
    BY <1>4, <1>5

(* Nothing stands in every text.                                            *)
LEMMA NothingWithin ==
    ASSUME NEW X, NEW text \in Seq(X)
    PROVE  Within(<<>>, text)
<1>1. <<>> \in Seq(X) /\ Cat(Cat(<<>>, <<>>), text) = text
    BY CatNothing
<1> QED
    BY <1>1, WithinIs

(* A text that stands in another, but for spaces it begins with, stands in  *)
(* it stripped when both are.                                               *)
LEMMA StrippedWithin ==
    ASSUME NEW X, NEW g \in Seq(X), NEW w \in Seq(X), NEW d \in Int, NEW e \in Nat,
           \A i \in 1..Len(g) : i <= e => g[i] = Space,
           \A i \in 1..Len(g) : i > e => i + d \in 1..Len(w) /\ w[i + d] = g[i]
    PROVE  Within(Stripped(g), Stripped(w))
<1> DEFINE sg == Stripped(g)
           sw == Stripped(w)
<1>1. sg \in Seq(X) /\ sw \in Seq(X)
    BY StrippedIs
<1>2. CASE Visible(g) = {}
    BY <1>1, <1>2, StrippedIs, NothingWithin
<1>3. CASE Visible(g) # {}
    <2>1. PICK lo \in Visible(g), hi \in Visible(g) :
             /\ lo <= hi /\ \A k \in Visible(g) : lo <= k /\ k <= hi
             /\ Len(sg) = hi - lo + 1
             /\ \A j \in 1..(hi - lo + 1) : sg[j] = g[lo + j - 1]
        BY <1>3, StrippedIs
    <2>2. lo \in 1..Len(g) /\ hi \in 1..Len(g) /\ g[lo] # Space /\ g[hi] # Space
        BY DEF Visible
    <2>3. lo > e /\ hi > e /\ Len(g) \in Nat /\ Len(w) \in Nat
        BY <2>2
    <2>4. lo + d \in Visible(w) /\ hi + d \in Visible(w)
        BY <2>2, <2>3 DEF Visible
    <2>5. PICK lw \in Visible(w), hw \in Visible(w) :
             /\ lw <= hw /\ \A k \in Visible(w) : lw <= k /\ k <= hw
             /\ Len(sw) = hw - lw + 1
             /\ \A j \in 1..(hw - lw + 1) : sw[j] = w[lw + j - 1]
        BY <2>4, StrippedIs
    <2>6. lw \in Nat /\ hw \in Nat /\ lw <= lo + d /\ hi + d <= hw /\ lw <= hw
        BY <2>4, <2>5 DEF Visible
    <2> HIDE DEF sg, sw
    <2> DEFINE k == lo + d - lw
               l == hi - lo + 1
               sub == SubSeq(sw, k + 1, k + l)
    <2>7. k \in Nat /\ l \in Nat /\ l >= 1 /\ k + l <= Len(sw) /\ Len(sg) = l /\ lo \in Int /\ hi \in Int
        BY <2>1, <2>2, <2>5, <2>6
    <2>8. \A j \in 1..l : sw[k + j] = sg[j]
        <3> TAKE j \in 1..l
        <3>1. k + j \in 1..(hw - lw + 1) /\ lw + (k + j) - 1 = (lo + j - 1) + d /\ j \in 1..(hi - lo + 1)
            BY <2>2, <2>6, <2>7
        <3>2. lo + j - 1 \in 1..Len(g) /\ lo + j - 1 > e
            BY <2>2, <2>3, <2>7
        <3>3. sw[k + j] = w[(lo + j - 1) + d]
            BY <2>5, <3>1
        <3>4. w[(lo + j - 1) + d] = g[lo + j - 1]
            BY <3>2
        <3>5. sg[j] = g[lo + j - 1]
            BY <2>1, <3>1
        <3> QED
            BY <3>3, <3>4, <3>5
    <2> HIDE DEF k, l
    <2>9. \A i \in (k + 1)..(k + l) : sw[i] \in X
        <3>1. \A i \in (k + 1)..(k + l) : i \in 1..Len(sw)
            BY <1>1, <2>7
        <3> QED
            BY <1>1, <3>1
    <2>10. k + 1 \in Int /\ k + l \in Int /\ k + 1 <= k + l /\ (k + l) - (k + 1) + 1 = l
        BY <2>7
    <2>11. /\ sub \in Seq(X) /\ Len(sub) = IF k + 1 <= k + l THEN (k + l) - (k + 1) + 1 ELSE 0
           /\ \A i \in 1..((k + l) - (k + 1) + 1) : sub[i] = sw[(k + 1) + i - 1]
        BY <2>9, <2>10, SubSeqProperties
    <2> HIDE DEF sub
    <2>12. \A i \in 1..l : sub[i] = sg[i]
        <3> TAKE i \in 1..l
        <3>1. (k + 1) + i - 1 = k + i
            BY <2>7
        <3> QED
            BY <2>8, <2>10, <2>11, <3>1
    <2>13. sub = sg
        BY <1>1, <2>7, <2>10, <2>11, <2>12, SeqEqual
    <2>14. k \in 0..(Len(sw) - Len(sg)) /\ SubSeq(sw, k + 1, k + Len(sg)) = sg
        BY <1>1, <2>7, <2>13 DEF sub
    <2> QED
        BY <2>14 DEF Within, sg, sw
<1> QED
    BY <1>2, <1>3

Upto(n) == [k \in 1..n |-> k]
Later(p, m) == [i \in 1..m |-> p + i]

(* The places of two texts: those of the first, and those of the second     *)
(* moved on.                                                                *)
LEMMA UptoCat ==
    ASSUME NEW p \in Nat, NEW m \in Nat
    PROVE  /\ Upto(p + m) = Cat(Upto(p), Mapped(Later(p, m), Upto(m)))
           /\ Upto(m) \in Seq(1..m) /\ Len(Upto(m)) = m /\ \A k \in 1..m : Upto(m)[k] = k
           /\ Upto(p) \in Seq(1..(p + m))
           /\ IsMap(Later(p, m), 1..m, 1..(p + m))
           /\ Mapped(Later(p, m), Upto(m)) \in Seq(1..(p + m))
<1> DEFINE N == 1..(p + m)
           a == Upto(p)
           h == Later(p, m)
           u == Upto(m)
           b == Mapped(h, u)
<1>1. u \in Seq(1..m) /\ Len(u) = m /\ \A k \in 1..m : u[k] = k
    <2>1. u \in [1..m -> 1..m]
        BY DEF Upto
    <2> QED
        BY <2>1 DEF Upto
<1>2. a \in Seq(N) /\ Len(a) = p /\ \A k \in 1..p : a[k] = k
    <2>1. a \in [1..p -> N]
        BY DEF Upto
    <2> QED
        BY <2>1 DEF Upto
<1>3. IsMap(h, 1..m, N) /\ \A i \in 1..m : h[i] = p + i
    BY DEF IsMap, Later
<1> DEFINE M == 1..m
<1>m. IsMap(h, M, N) /\ u \in Seq(M)
    BY <1>1, <1>3
<1> HIDE DEF h, u, a, M, N
<1>4. b \in Seq(N) /\ Len(b) = m
    BY <1>1, <1>m, MappedIs
<1>5. \A k \in 1..m : b[k] = p + k
    <2>1. \A k \in 1..Len(u) : b[k] = h[u[k]]
        BY <1>m, MappedIs
    <2> QED
        BY <1>1, <1>3, <2>1
<1>6. Upto(p + m) \in Seq(N) /\ Len(Upto(p + m)) = p + m /\ \A k \in N : Upto(p + m)[k] = k
    <2>1. Upto(p + m) \in [N -> N]
        BY DEF Upto, N
    <2> QED
        BY <2>1 DEF Upto, N
<1> HIDE DEF b
<1> DEFINE c == Cat(a, b)
<1>7. c \in Seq(N) /\ Len(c) = p + m
    <2>1. a \in Seq(N) /\ b \in Seq(N) /\ Len(a) = p /\ Len(b) = m
        BY <1>2, <1>4
    <2>2. Cat(a, b) \in Seq(N) /\ Len(Cat(a, b)) = Len(a) + Len(b)
        BY <2>1, CatIs
    <2> QED
        BY <2>1, <2>2
<1>8. \A k \in 1..p : c[k] = a[k]
    <2>1. a \in Seq(N) /\ b \in Seq(N) /\ Len(a) = p
        BY <1>2, <1>4
    <2>2. \A k \in 1..Len(a) : Cat(a, b)[k] = a[k]
        BY <2>1, CatBefore
    <2> QED
        BY <2>1, <2>2
<1>9. \A k \in 1..m : c[p + k] = b[k]
    <2>1. a \in Seq(N) /\ b \in Seq(N) /\ Len(a) = p /\ Len(b) = m
        BY <1>2, <1>4
    <2>2. ASSUME NEW k \in 1..Len(b) PROVE Cat(a, b)[Len(a) + k] = b[k]
        BY <2>1, CatAfter
    <2> QED
        BY <2>1, <2>2
<1> HIDE DEF c
<1>10. \A k \in 1..(p + m) : Upto(p + m)[k] = c[k]
    <2> TAKE k \in 1..(p + m)
    <2>1. CASE k \in 1..p
        BY <1>2, <1>6, <1>8, <2>1 DEF N
    <2>2. CASE k \notin 1..p
        <3>1. k - p \in 1..m /\ p + (k - p) = k
            BY <2>2
        <3> QED
            BY <1>5, <1>6, <1>9, <3>1 DEF N
    <2> QED
        BY <2>1, <2>2
<1>11. Upto(p + m) = c
    BY <1>6, <1>7, <1>10, SeqEqual
<1> QED
    BY <1>1, <1>2, <1>3, <1>4, <1>11 DEF c, b, h, u, a, N

(* What is selected of one element alone.                                   *)
LEMMA InOrderOne ==
    ASSUME NEW X, NEW x \in X, NEW S
    PROVE  InOrder(<<x>>, S) = IF x \in S THEN <<x>> ELSE <<>>
<1> DEFINE list == <<x>>
<1>1. list \in Seq(X) /\ Len(list) = 1 /\ list[1] = x
    OBVIOUS
<1> HIDE DEF list
<1>2. PICK F : IsKeeping(F, list, S, X)
    BY <1>1, InOrderFolds
<1>3. F[0] = <<>> /\ InOrder(list, S) = F[1] /\ F[1] = IF x \in S THEN Append(F[0], x) ELSE F[0]
    <2>1. 1 \in 1..1 /\ 1 - 1 = 0
        OBVIOUS
    <2> QED
        BY <1>1, <1>2, <2>1 DEF IsKeeping
<1>4. Append(<<>>, x) = <<x>>
    OBVIOUS
<1> QED
    BY <1>3, <1>4 DEF list

(* The first place but one, if it is not left out.                          *)
LEMMA FirstPlace ==
    ASSUME NEW m \in Nat, m # 0, NEW T, 1 \in T
    PROVE  InOrder(Upto(m), T) = Cat(<<1>>, InOrder(Upto(m), T \ {1})) /\ InOrder(Upto(m), T \ {1}) \in Seq(1..m)
<1> DEFINE l == m - 1
           r == Mapped(Later(1, l), Upto(l))
           N == 1..m
           o == <<1>>
<1>1. l \in Nat /\ 1 + l = m /\ 1 \in Nat /\ 1 \in N
    OBVIOUS
<1>2. /\ Upto(m) = Cat(Upto(1), r) /\ Upto(1) \in Seq(N) /\ r \in Seq(N)
      /\ IsMap(Later(1, l), 1..l, N) /\ Upto(l) \in Seq(1..l) /\ Len(Upto(l)) = l
    <2>1. /\ Upto(1 + l) = Cat(Upto(1), r) /\ Upto(1) \in Seq(1..(1 + l)) /\ r \in Seq(1..(1 + l))
          /\ IsMap(Later(1, l), 1..l, 1..(1 + l)) /\ Upto(l) \in Seq(1..l) /\ Len(Upto(l)) = l
        <3> HIDE DEF l
        <3> QED
            BY <1>1, UptoCat
    <2> HIDE DEF l, r
    <2> QED
        BY <1>1, <2>1
<1>3. Upto(1) = o
    BY DEF Upto
<1>4. \A k \in 1..Len(r) : r[k] # 1
    <2>1. Len(r) = l
        BY <1>2, MappedIs
    <2>2. \A k \in 1..Len(Upto(l)) : r[k] = Later(1, l)[Upto(l)[k]] /\ Upto(l)[k] \in 1..l
        BY <1>2, MappedIs
    <2>3. \A i \in 1..l : Later(1, l)[i] # 1
        BY DEF Later
    <2> QED
        BY <1>2, <2>1, <2>2, <2>3
<1> HIDE DEF r, N, o, l
<1>5. InOrder(r, T) = InOrder(r, T \ {1})
    <2>1. \A k \in 1..Len(r) : r[k] \in T <=> r[k] \in T \ {1}
        BY <1>4
    <2> QED
        BY <1>2, <2>1, InOrderAgrees
<1>6. /\ InOrder(Upto(m), T) = Cat(InOrder(o, T), InOrder(r, T))
      /\ InOrder(Upto(m), T \ {1}) = Cat(InOrder(o, T \ {1}), InOrder(r, T \ {1}))
      /\ InOrder(r, T) \in Seq(N)
    BY <1>2, <1>3, InOrderCat
<1>7. InOrder(o, T) = o /\ InOrder(o, T \ {1}) = <<>>
    BY <1>1, InOrderOne DEF o
<1>8. Cat(<<>>, InOrder(r, T)) = InOrder(r, T)
    BY <1>6, CatNothing
<1> QED
    BY <1>5, <1>6, <1>7, <1>8 DEF o, N

\* What tokens are, in a text without its parentheses: X the tokens, Y their symbols.
IsSymbols(X, Y) == Space \in Y /\ \A t \in X : Symbols(t) \in Seq(Y)

Symbol(text) == [k \in 1..Len(text) |-> Symbols(text[k])]
Chosen(text, T) == Mapped(Symbol(text), InOrder(Upto(Len(text)), T))

(* A text without its parentheses: the symbols of the tokens chosen, spaced. *)
LEMMA PlainIs ==
    ASSUME NEW X, NEW Y, IsSymbols(X, Y), NEW text \in Seq(X)
    PROVE  /\ Plain(text) = Stripped(Spaced(Chosen(text, Opens(text))))
           /\ IsMap(Symbol(text), 1..Len(text), Seq(Y))
           /\ \A T : InOrder(Upto(Len(text)), T) \in Seq(1..Len(text)) /\ Chosen(text, T) \in Seq(Seq(Y))
<1> DEFINE n == Len(text)
           N == 1..n
           h == Symbol(text)
<1>1. n \in Nat /\ DOMAIN text = N /\ \A k \in N : text[k] \in X
    OBVIOUS
<1>2. h \in [N -> Seq(Y)]
    BY <1>1 DEF IsSymbols, Symbol
<1>3. IsMap(h, N, Seq(Y))
    BY <1>2 DEF IsMap
<1>4. Upto(n) \in Seq(N)
    BY <1>1, UptoCat
<1>5. ASSUME NEW T PROVE InOrder(Upto(n), T) \in Seq(N) /\ Chosen(text, T) \in Seq(Seq(Y))
    <2> DEFINE u == InOrder(Upto(n), T)
    <2> HIDE DEF n, N, h
    <2>1. u \in Seq(N)
        BY <1>4, InOrderRange
    <2> HIDE DEF u
    <2>2. Mapped(h, u) \in Seq(Seq(Y))
        <3> DEFINE Z == Seq(Y)
        <3> HIDE DEF Z
        <3>1. IsMap(h, N, Z)
            BY <1>3 DEF Z
        <3>2. Mapped(h, u) \in Seq(Z)
            BY <2>1, <3>1, MappedIs
        <3> QED
            BY <3>2 DEF Z
    <2> QED
        BY <2>1, <2>2 DEF Chosen, u, h, n
<1>6. Plain(text) = Stripped(Spaced(Chosen(text, Opens(text))))
    <2> DEFINE u == InOrder(Upto(n), Opens(text))
    <2>1. [k \in DOMAIN text |-> k] = Upto(n)
        BY <1>1 DEF Upto
    <2>2. u \in Seq(N)
        BY <1>5
    <2> HIDE DEF u
    <2>3. DOMAIN u = 1..Len(u) /\ \A k \in 1..Len(u) : u[k] \in N
        BY <2>2
    <2>4. [k \in DOMAIN u |-> Symbols(text[u[k]])] = Mapped(h, u)
        BY <2>3 DEF Mapped, Symbol
    <2>5. Plain(text) = Stripped(Spaced([k \in DOMAIN u |-> Symbols(text[u[k]])]))
        BY <2>1 DEF Plain, u
    <2> QED
        BY <2>4, <2>5 DEF Chosen, u
<1> QED
    BY <1>3, <1>5, <1>6 DEF n, N, h

(* The parts of a text that stands in another are among the other's, but    *)
(* for a first one within parentheses that the other opened before it.      *)
HasParts(part, whole, Y) ==
    \E mid \in Seq(Seq(Y)) : \E a \in Seq(Seq(Y)) : \E b \in Seq(Seq(Y)) :
        /\ Chosen(whole, Opens(whole)) = Cat(Cat(a, mid), b)
        /\ mid = Chosen(part, Opens(part)) \/ Chosen(part, Opens(part)) = Cat(<<<<>>>>, mid)

(* ... whatever stands before and after it.                                 *)
LEMMA PartsWithin ==
    ASSUME NEW X, NEW Y, IsSymbols(X, Y), NEW part \in Seq(X), part # <<>>,
           NEW pre \in Seq(X), NEW post \in Seq(X), NEW whole, whole = Cat(Cat(pre, part), post)
    PROVE  HasParts(part, whole, Y)
<1> DEFINE p == Len(pre)
           m == Len(part)
           q == Len(post)
           half == Cat(pre, part)
           n == p + m + q
           N == 1..n
           M == 1..m
           Z == Seq(Y)
           S == Opens(whole)
           T == Opens(part)
           h == Symbol(whole)
           g == Symbol(part)
           add == Later(p, m)
<1>1. p \in Nat /\ m \in Nat /\ q \in Nat /\ m >= 1 /\ p + m \in Nat /\ n = (p + m) + q
    OBVIOUS
<1>2. half \in Seq(X) /\ Len(half) = p + m
    BY CatIs
<1>3. whole \in Seq(X) /\ Len(whole) = n
    <2>0. whole = Cat(half, post)
        OBVIOUS
    <2> HIDE DEF half
    <2> DEFINE c == Cat(half, post)
    <2>a. c \in Seq(X) /\ Len(c) = Len(half) + Len(post)
        BY <1>2, CatIs
    <2> HIDE DEF c
    <2>1. whole \in Seq(X) /\ Len(whole) = Len(half) + Len(post)
        BY <2>0, <2>a DEF c
    <2> QED
        BY <1>2, <2>1
<1>4. ASSUME NEW i \in M PROVE whole[p + i] = part[i]
    <2>1. half[p + i] = part[i]
        BY <1>4, CatAfter
    <2>2. p + i \in 1..Len(half)
        BY <1>1, <1>2
    <2> HIDE DEF half
    <2>3. Cat(half, post)[p + i] = half[p + i]
        BY <1>2, <2>2, CatBefore
    <2> QED
        BY <2>1, <2>3 DEF half
<1>5. DOMAIN part = M /\ DOMAIN whole = N
    BY <1>3
<1> HIDE DEF half
<1>6. IsMap(h, N, Z) /\ IsMap(g, M, Z)
    BY <1>3, PlainIs
<1>7. /\ Upto(n) = Cat(Upto(p + m), Mapped(Later(p + m, q), Upto(q))) /\ Upto(p + m) \in Seq(N)
      /\ Mapped(Later(p + m, q), Upto(q)) \in Seq(N)
    BY <1>1, UptoCat
<1>8. /\ Upto(p + m) = Cat(Upto(p), Mapped(add, Upto(m))) /\ Upto(m) \in Seq(M)
      /\ Upto(p) \in Seq(1..(p + m)) /\ Mapped(add, Upto(m)) \in Seq(1..(p + m))
      /\ IsMap(add, M, 1..(p + m))
    BY <1>1, UptoCat
<1>9. Upto(p) \in Seq(N) /\ Mapped(add, Upto(m)) \in Seq(N) /\ IsMap(add, M, N)
    <2>1. 1..(p + m) \subseteq N
        BY <1>1
    <2>2. Upto(p) \in Seq(N) /\ Mapped(add, Upto(m)) \in Seq(N)
        BY <1>8, <2>1, SeqMonotonic
    <2>3. IsMap(add, M, N)
        BY <1>8, <2>1 DEF IsMap
    <2> QED
        BY <2>2, <2>3
<1>10. \A i \in M : add[i] = p + i
    BY DEF Later
<1> DEFINE U == {i \in M : p + i \in S}
<1>11. \A i \in M : i # 1 => (p + i \in S <=> i \in T)
    <2> TAKE i \in M
    <2> HAVE i # 1
    <2>1. i - 1 \in M /\ p + i \in N /\ p + (i - 1) = (p + i) - 1 /\ p + i > 1 /\ i > 1
        BY <1>1
    <2>2. whole[p + i] = part[i] /\ whole[(p + i) - 1] = part[i - 1]
        BY <1>4, <2>1
    <2> QED
        BY <1>5, <2>1, <2>2 DEF Opens
<1>12. 1 \in T /\ 1 \in M
    BY <1>1, <1>5 DEF Opens
<1>14. 1 \notin U => Symbols(part[1]) = <<>>
    <2> HAVE 1 \notin U
    <2>1. p + 1 \notin S /\ p + 1 \in N
        BY <1>1, <1>12
    <2>2. whole[p + 1].aside
        BY <1>5, <2>1 DEF Opens
    <2> QED
        BY <1>4, <1>12, <2>2 DEF Symbols
<1> HIDE DEF n, N, M, Z, S, T, U, p, m, q, h, g, add
<1> DEFINE J == InOrder(Upto(m), U)
           K == InOrder(Upto(m), T)
           u1 == InOrder(Upto(p), S)
           mov == Mapped(add, Upto(m))
           u2 == InOrder(mov, S)
           last == Mapped(Later(p + m, q), Upto(q))
           u3 == InOrder(last, S)
<1>15. InOrder(Upto(n), S) = Cat(Cat(u1, u2), u3) /\ u1 \in Seq(N) /\ u2 \in Seq(N) /\ u3 \in Seq(N) /\ Cat(u1, u2) \in Seq(N)
    <2> HIDE DEF mov, last
    <2>1. InOrder(Cat(Upto(p), mov), S) = Cat(u1, u2) /\ u1 \in Seq(N) /\ u2 \in Seq(N)
        BY <1>9, InOrderCat DEF mov
    <2>2. InOrder(Cat(Upto(p + m), last), S) = Cat(InOrder(Upto(p + m), S), u3) /\ u3 \in Seq(N)
        BY <1>7, InOrderCat DEF last
    <2> HIDE DEF u1, u2, u3
    <2>3. Cat(u1, u2) \in Seq(N)
        BY <2>1, CatIs
    <2> QED
        BY <1>7, <1>8, <2>1, <2>2, <2>3 DEF mov, last
<1>16. J \in Seq(M) /\ K \in Seq(M)
    BY <1>8, InOrderRange
<1>17. u2 = Mapped(add, J)
    <2>1. \A k \in 1..Len(Upto(m)) : add[Upto(m)[k]] \in S <=> Upto(m)[k] \in U
        <3>1. \A k \in 1..Len(Upto(m)) : Upto(m)[k] \in M
            BY <1>8
        <3> QED
            BY <1>10, <3>1 DEF U
    <2> QED
        BY <1>8, <1>9, <2>1, InOrderMapped
<1> HIDE DEF u1, u2, u3, mov, last, J, K
<1> DEFINE mid == Mapped(g, J)
           a == Mapped(h, u1)
           b == Mapped(h, u3)
<1>18. mid \in Seq(Z) /\ a \in Seq(Z) /\ b \in Seq(Z)
    BY <1>6, <1>15, <1>16, MappedIs
<1>19. Mapped(h, u2) = mid
    <2>1. u2 \in Seq(N) /\ J \in Seq(M) /\ Len(u2) = Len(J)
        BY <1>9, <1>15, <1>16, <1>17, MappedIs
    <2>2. \A k \in 1..Len(J) : u2[k] = add[J[k]] /\ J[k] \in M
        BY <1>9, <1>16, <1>17, MappedIs
    <2>3. Mapped(h, u2) \in Seq(Z) /\ Len(Mapped(h, u2)) = Len(u2) /\ Len(mid) = Len(J)
        BY <1>6, <1>16, <2>1, MappedIs
    <2>4. \A k \in 1..Len(u2) : Mapped(h, u2)[k] = h[u2[k]]
        BY <1>6, <2>1, MappedIs
    <2>5. \A k \in 1..Len(J) : mid[k] = g[J[k]]
        BY <1>6, <2>1, MappedIs
    <2>6. \A i \in M : h[p + i] = g[i]
        <3> TAKE i \in M
        <3>1. p + i \in 1..Len(whole) /\ i \in 1..Len(part)
            BY <1>1, <1>3 DEF M, m, n
        <3> QED
            BY <1>4, <3>1 DEF h, g, Symbol
    <2>7. \A k \in 1..Len(J) : Mapped(h, u2)[k] = mid[k]
        <3> TAKE k \in 1..Len(J)
        <3>1. k \in 1..Len(u2) /\ u2[k] = add[J[k]] /\ J[k] \in M
            BY <2>1, <2>2
        <3>2. add[J[k]] = p + J[k]
            BY <1>10, <3>1
        <3>3. h[p + J[k]] = g[J[k]]
            BY <2>6, <3>1
        <3> QED
            BY <2>4, <2>5, <3>1, <3>2, <3>3
    <2> HIDE DEF mid
    <2>8. mid \in Seq(Z) /\ Len(Mapped(h, u2)) = Len(mid) /\ \A k \in 1..Len(Mapped(h, u2)) : Mapped(h, u2)[k] = mid[k]
        BY <1>18, <2>1, <2>3, <2>7
    <2> QED
        BY <2>3, <2>8, SeqEqual
<1>20. Chosen(whole, S) = Cat(Cat(a, mid), b)
    <2>1. Mapped(h, Cat(Cat(u1, u2), u3)) = Cat(Mapped(h, Cat(u1, u2)), b)
        BY <1>6, <1>15, MappedCat
    <2>2. Mapped(h, Cat(u1, u2)) = Cat(a, Mapped(h, u2))
        BY <1>6, <1>15, MappedCat
    <2>3. Chosen(whole, S) = Mapped(h, InOrder(Upto(n), S))
        BY <1>3 DEF Chosen, h
    <2> QED
        BY <1>15, <1>19, <2>1, <2>2, <2>3
<1>21. mid = Chosen(part, T) \/ Chosen(part, T) = Cat(<<<<>>>>, mid)
    <2>1. Chosen(part, T) = Mapped(g, K)
        BY DEF Chosen, K, g, m
    <2>2. Upto(m) \in Seq(M) /\ \A k \in 1..Len(Upto(m)) : Upto(m)[k] \in M
        BY <1>8
    <2>3. CASE 1 \in U
        <3>1. \A k \in 1..Len(Upto(m)) : Upto(m)[k] \in U <=> Upto(m)[k] \in T
            BY <1>11, <1>12, <2>2, <2>3 DEF U
        <3>2. J = K
            BY <2>2, <3>1, InOrderAgrees DEF J, K
        <3> QED
            BY <2>1, <3>2
    <2>4. CASE 1 \notin U
        <3>1. \A k \in 1..Len(Upto(m)) : Upto(m)[k] \in U <=> Upto(m)[k] \in T \ {1}
            BY <1>11, <1>12, <2>2, <2>4 DEF U
        <3>2. J = InOrder(Upto(m), T \ {1})
            BY <2>2, <3>1, InOrderAgrees DEF J
        <3>3. m # 0
            BY <1>1
        <3>4. K = Cat(<<1>>, J)
            BY <1>1, <1>12, <3>2, <3>3, FirstPlace DEF K
        <3> DEFINE o == <<1>>
        <3>5. o \in Seq(M)
            BY <1>12
        <3> HIDE DEF o
        <3>6. Mapped(g, Cat(o, J)) = Cat(Mapped(g, o), mid)
            BY <1>6, <1>16, <3>5, MappedCat
        <3>7. Mapped(g, <<1>>) = <<g[1]>>
            BY DEF Mapped
        <3>8. g[1] = <<>>
            BY <1>12, <1>14, <2>4 DEF g, Symbol, M, m
        <3> QED
            BY <2>1, <3>4, <3>6, <3>7, <3>8 DEF o
    <2> QED
        BY <2>3, <2>4
<1> HIDE DEF mid, a, b
<1>22. /\ mid \in Seq(Seq(Y)) /\ a \in Seq(Seq(Y)) /\ b \in Seq(Seq(Y))
    BY <1>18 DEF Z
<1> QED
    BY <1>20, <1>21, <1>22 DEF S, T, HasParts

(* A text that stands in another stands in it without the parentheses too.  *)
LEMMA PlainWithin ==
    ASSUME NEW X, NEW Y, IsSymbols(X, Y), NEW part \in Seq(X), NEW text \in Seq(X), Within(part, text)
    PROVE  Within(Plain(part), Plain(text))
<1> DEFINE parts == Chosen(part, Opens(part))
           all == Chosen(text, Opens(text))
           g == Spaced(parts)
           w == Spaced(all)
<1>1. Space \in Y
    BY DEF IsSymbols
<1>2. Plain(part) = Stripped(g) /\ Plain(text) = Stripped(w)
    BY PlainIs
<1>3. parts \in Seq(Seq(Y)) /\ all \in Seq(Seq(Y))
    BY PlainIs
<1> HIDE DEF parts, all
<1>4. g \in Seq(Y) /\ w \in Seq(Y)
    BY <1>1, <1>3, SpacedType
<1>5. CASE g = <<>>
    <2> HIDE DEF g, w
    <2>1. Len(g) = 0 /\ 1..Len(g) = {}
        BY <1>5
    <2>2. Within(Stripped(g), Stripped(w))
        <3>1. 0 \in Nat /\ 0 \in Int
            OBVIOUS
        <3>2. \A i \in 1..Len(g) : i <= 0 => g[i] = Space
            BY <2>1
        <3>3. \A i \in 1..Len(g) : i > 0 => i + 0 \in 1..Len(w) /\ w[i + 0] = g[i]
            BY <2>1
        <3> QED
            BY <1>4, <3>1, <3>2, <3>3, StrippedWithin
    <2> QED
        BY <1>2, <2>2
<1>6. CASE g # <<>>
    <2>1. part # <<>>
        <3> SUFFICES ASSUME part = <<>> PROVE FALSE
            OBVIOUS
        <3>1. Len(part) = 0 /\ 1..Len(part) = {}
            OBVIOUS
        <3>2. InOrder(Upto(Len(part)), Opens(part)) \in Seq({})
            BY <3>1, PlainIs
        <3>3. InOrder(Upto(Len(part)), Opens(part)) = <<>>
            BY <3>2
        <3>4. parts = <<>>
            BY <3>3 DEF parts, Chosen, Mapped
        <3> QED
            BY <1>1, <1>3, <1>6, <3>4, SpacedType
    <2>2. PICK pre \in Seq(X), post \in Seq(X) : text = Cat(Cat(pre, part), post)
        BY WithinIs
    <2>3. PICK mid \in Seq(Seq(Y)), a \in Seq(Seq(Y)), b \in Seq(Seq(Y)) :
             all = Cat(Cat(a, mid), b) /\ (mid = parts \/ parts = Cat(<<<<>>>>, mid))
        <3>1. HasParts(part, text, Y)
            BY <2>1, <2>2, PartsWithin
        <3> QED
            BY <3>1 DEF parts, all, HasParts
    <2>4. mid # <<>>
        <3> SUFFICES ASSUME mid = <<>> PROVE FALSE
            OBVIOUS
        <3>1. CASE mid = parts
            BY <1>1, <1>3, <1>6, <3>1, SpacedType
        <3>2. CASE parts = Cat(<<<<>>>>, mid)
            <4> DEFINE one == <<<<>>>>
            <4>1. one \in Seq(Seq(Y)) /\ <<>> \in Seq(Y)
                OBVIOUS
            <4>2. Spaced(one) = <<>>
                BY <1>1, <4>1, SpacedOne
            <4> HIDE DEF one
            <4>3. Cat(one, <<>>) = one
                BY <4>1, CatNothing
            <4> QED
                BY <1>6, <3>2, <4>2, <4>3 DEF one
        <3> QED
            BY <2>3, <3>1, <3>2
    <2> DEFINE s == Spaced(mid)
    <2>5. PICK before \in Seq(Y), after \in Seq(Y) : w = Cat(Cat(before, s), after)
        BY <1>1, <2>3, <2>4, SpacedWithin
    <2>6. s \in Seq(Y)
        BY <1>1, SpacedType
    <2> HIDE DEF s, w
    <2> DEFINE half == Cat(before, s)
               p == Len(before)
    <2>7. half \in Seq(Y) /\ Len(half) = p + Len(s) /\ p \in Nat /\ Len(s) \in Nat /\ Len(after) \in Nat
        BY <2>6, CatIs
    <2>8. Len(w) = Len(half) + Len(after)
        <3> HIDE DEF half
        <3> QED
            BY <2>5, <2>7, CatIs DEF half
    <2>9. \A k \in 1..Len(s) : p + k \in 1..Len(w) /\ w[p + k] = s[k]
        <3> TAKE k \in 1..Len(s)
        <3>1. half[p + k] = s[k]
            BY <2>6, CatAfter
        <3> HIDE DEF half, p
        <3>2. p + k \in 1..Len(half) /\ p + k \in 1..Len(w)
            BY <2>7, <2>8
        <3>3. Cat(half, after)[p + k] = half[p + k]
            <4>1. half \in Seq(Y) /\ after \in Seq(Y)
                BY <2>7
            <4> DEFINE q == p + k
            <4>2. q \in 1..Len(half)
                BY <3>2
            <4> HIDE DEF q
            <4>3. Cat(half, after)[q] = half[q]
                BY <4>1, <4>2, CatBefore
            <4> QED
                BY <4>3 DEF q
        <3> QED
            BY <2>5, <3>1, <3>2, <3>3 DEF half
    <2> HIDE DEF half, p
    <2>10. CASE mid = parts
        <3>1. g = s
            BY <2>10 DEF s
        <3> HIDE DEF g
        <3>2. 0 \in Nat /\ p \in Int
            BY <2>7
        <3>3. \A i \in 1..Len(g) : i <= 0 => g[i] = Space
            BY <1>4
        <3>4. \A i \in 1..Len(g) : i > 0 => i + p \in 1..Len(w) /\ w[i + p] = g[i]
            BY <2>7, <2>9, <3>1
        <3>5. Within(Stripped(g), Stripped(w))
            BY <1>4, <3>2, <3>3, <3>4, StrippedWithin
        <3> QED
            BY <1>2, <3>5 DEF w
    <2>11. CASE parts = Cat(<<<<>>>>, mid)
        <3> DEFINE one == <<<<>>>>
                   o == <<Space>>
        <3>1. one \in Seq(Seq(Y)) /\ <<>> \in Seq(Y) /\ one # <<>> /\ o \in Seq(Y)
            BY <1>1
        <3>2. Spaced(one) = <<>>
            BY <1>1, <3>1, SpacedOne
        <3> HIDE DEF one
        <3>3. g = Cat(Cat(<<>>, o), s)
            BY <1>1, <2>4, <2>11, <3>1, <3>2, SpacedCat DEF s, one
        <3>4. Cat(<<>>, o) = o
            BY <3>1, CatNothing
        <3>5. Len(o) = 1 /\ o[1] = Space
            OBVIOUS
        <3> HIDE DEF o, g
        <3>6. Len(g) = 1 + Len(s)
            <4>1. Len(Cat(o, s)) = Len(o) + Len(s)
                BY <2>6, <3>1, CatIs
            <4> QED
                BY <3>3, <3>4, <3>5, <4>1
        <3>7. g[1] = Space
            <4>1. 1 \in 1..Len(o)
                BY <3>5
            <4>2. Cat(o, s)[1] = o[1]
                BY <2>6, <3>1, <4>1, CatBefore
            <4> QED
                BY <3>3, <3>4, <3>5, <4>2
        <3>8. ASSUME NEW k \in 1..Len(s) PROVE g[1 + k] = s[k]
            <4>1. Cat(o, s)[Len(o) + k] = s[k]
                BY <2>6, <3>1, CatAfter
            <4> QED
                BY <3>3, <3>4, <3>5, <4>1
        <3>9. 1 \in Nat /\ p - 1 \in Int
            BY <2>7
        <3>10. \A i \in 1..Len(g) : i <= 1 => g[i] = Space
            BY <2>7, <3>6, <3>7
        <3>11. \A i \in 1..Len(g) : i > 1 => i + (p - 1) \in 1..Len(w) /\ w[i + (p - 1)] = g[i]
            <4> TAKE i \in 1..Len(g)
            <4> HAVE i > 1
            <4>1. i - 1 \in 1..Len(s) /\ 1 + (i - 1) = i /\ p + (i - 1) = i + (p - 1)
                BY <2>7, <3>6
            <4> QED
                BY <2>9, <3>8, <4>1
        <3>12. Within(Stripped(g), Stripped(w))
            BY <1>4, <3>9, <3>10, <3>11, StrippedWithin
        <3> QED
            BY <1>2, <3>12 DEF w
    <2> QED
        BY <2>3, <2>10, <2>11
<1> QED
    BY <1>5, <1>6

Letter == [letter : STRING \ {" "}]
AllText(X) == \A t \in X : IsText(t)
SymbolsOf(X) == X \cup Letter \cup {Space}

(* What the tokens of a text are, without parentheses.                      *)
LEMMA TextSymbols ==
    ASSUME NEW X, AllText(X)
    PROVE  IsSymbols(X, SymbolsOf(X))
<1> DEFINE Y == SymbolsOf(X)
<1>1. Space \in Y /\ X \subseteq Y /\ Letter \subseteq Y
    BY DEF SymbolsOf
<1> HIDE DEF Y
<1>2. ASSUME NEW t \in X PROVE Symbols(t) \in Seq(Y)
    <2>1. IsText(t) /\ t \in Y
        BY <1>1 DEF AllText
    <2>2. CASE t.aside
        <3>1. <<>> \in Seq(Y)
            OBVIOUS
        <3> QED
            BY <2>2, <3>1 DEF Symbols
    <2>3. CASE ~t.aside /\ (t.value \/ t.letters = <<>>)
        <3>1. Symbols(t) = <<t>>
            BY <2>3 DEF Symbols
        <3>2. <<t>> \in Seq(Y)
            BY <2>1
        <3> QED
            BY <3>1, <3>2
    <2>4. CASE ~t.aside /\ ~t.value /\ t.letters # <<>>
        <3>1. Symbols(t) = t.letters
            BY <2>4 DEF Symbols
        <3> DEFINE l == t.letters
        <3>2. l \in Seq(Letter)
            BY <2>1, <2>4 DEF IsText, Letter
        <3> HIDE DEF l
        <3>3. l \in Seq(Y)
            BY <1>1, <3>2, SeqMonotonic
        <3> QED
            BY <3>1, <3>3 DEF l
    <2> QED
        BY <2>2, <2>3, <2>4
<1> QED
    BY <1>1, <1>2 DEF IsSymbols, Y

(* A figure is neither a letter nor a space.                                *)
LEMMA FigureApart ==
    ASSUME NEW t, IsText(t), t.value
    PROVE  t # Space /\ t \notin Letter
<1>1. t = Figure(t.number, t.unit, t.year, t.aside)
    BY DEF IsText
<1> DEFINE f == [value |-> TRUE, number |-> t.number, unit |-> t.unit, year |-> t.year, aside |-> t.aside]
<1>2. t = f
    BY <1>1 DEF Figure
<1>3. "value" \in DOMAIN t
    <2>1. "value" \in DOMAIN f
        OBVIOUS
    <2> QED
        BY <1>2, <2>1
<1>4. DOMAIN Space = {"letter"}
    BY DEF Space
<1>5. \A x \in Letter : DOMAIN x = {"letter"}
    BY DEF Letter
<1> QED
    BY <1>3, <1>4, <1>5

Valued(X) == {t \in X : t.value}
Wordy(X) == {t \in X : ~t.value /\ t.letters # <<>>}
Spelled(X) == [t \in X |-> IF t \in Wordy(X) THEN t.letters ELSE <<>>]
Characters == Letter \cup {Space}

(* The values of a text, and its words, are picked from it by what they are *)
(* alone.                                                                  *)
LEMMA ValuesAre ==
    ASSUME NEW X, NEW text \in Seq(X)
    PROVE  /\ values(text) = InOrder(text, Valued(X)) /\ values(text) \in Seq(X)
           /\ extract_numbers_with_context(text) = values(text)
           /\ Range(values(text)) = {t \in Range(text) : t.value}
<1>1. Range(text) \subseteq X /\ \A k \in 1..Len(text) : text[k] \in Range(text) /\ text[k] \in X
    BY DEF Range
<1> DEFINE S == {token \in Range(text) : token.value}
<1>2. \A k \in 1..Len(text) : text[k] \in S <=> text[k] \in Valued(X)
    BY <1>1 DEF Valued
<1> HIDE DEF S
<1>3. InOrder(text, S) = InOrder(text, Valued(X))
    BY <1>2, InOrderAgrees
<1>4. values(text) = InOrder(text, S) /\ extract_numbers_with_context(text) = InOrder(text, S)
    BY DEF values, extract_numbers_with_context, S
<1>5. InOrder(text, S) \in Seq(X) /\ Range(InOrder(text, S)) = {x \in Range(text) : x \in S}
    BY InOrderRange
<1> QED
    BY <1>3, <1>4, <1>5 DEF S

(* The words of a text are their letters, spaced.                           *)
LEMMA CleanedIs ==
    ASSUME NEW X, AllText(X), NEW text \in Seq(X)
    PROVE  /\ Cleaned(text) = Spaced(Mapped(Spelled(X), InOrder(text, Wordy(X))))
           /\ InOrder(text, Wordy(X)) \in Seq(X) /\ IsMap(Spelled(X), X, Seq(Characters))
           /\ Mapped(Spelled(X), InOrder(text, Wordy(X))) \in Seq(Seq(Characters))
           /\ Cleaned(text) \in Seq(Characters) /\ Space \in Characters
<1>1. Range(text) \subseteq X /\ \A k \in 1..Len(text) : text[k] \in Range(text) /\ text[k] \in X
    BY DEF Range
<1> DEFINE S == {token \in Range(text) : ~token.value /\ token.letters # <<>>}
           words == InOrder(text, S)
           spell == Spelled(X)
           Z == Seq(Characters)
<1>2. \A k \in 1..Len(text) : text[k] \in S <=> text[k] \in Wordy(X)
    BY <1>1 DEF Wordy
<1> HIDE DEF S
<1>3. words = InOrder(text, Wordy(X))
    BY <1>2, InOrderAgrees
<1>4. words \in Seq(X) /\ Range(words) = {x \in Range(text) : x \in Wordy(X)}
    BY <1>3, InOrderRange
<1>5. IsMap(spell, X, Z)
    <2>1. ASSUME NEW t \in X PROVE (IF t \in Wordy(X) THEN t.letters ELSE <<>>) \in Z
        <3>1. CASE t \in Wordy(X)
            <4>1. IsText(t) /\ ~t.value
                BY <3>1 DEF AllText, Wordy
            <4> DEFINE l == t.letters
            <4>2. l \in Seq(Letter)
                BY <4>1 DEF IsText, Letter
            <4>3. Letter \subseteq Characters
                BY DEF Characters
            <4> HIDE DEF l
            <4>4. l \in Seq(Characters)
                BY <4>2, <4>3, SeqMonotonic
            <4> QED
                BY <3>1, <4>4 DEF l
        <3>2. CASE t \notin Wordy(X)
            BY <3>2
        <3> QED
            BY <3>1, <3>2
    <2> HIDE DEF Z
    <2> QED
        BY <2>1 DEF IsMap, Spelled
<1> HIDE DEF words, spell, Z
<1>6. Mapped(spell, words) \in Seq(Z)
    BY <1>4, <1>5, MappedIs
<1>7. [k \in DOMAIN words |-> words[k].letters] = Mapped(spell, words)
    <2>1. DOMAIN words = 1..Len(words) /\ \A k \in 1..Len(words) : words[k] \in X
        BY <1>4
    <2>2. \A k \in 1..Len(words) : words[k] \in Wordy(X)
        BY <1>4, <2>1 DEF Range
    <2>3. \A k \in 1..Len(words) : spell[words[k]] = words[k].letters
        BY <2>1, <2>2 DEF spell, Spelled
    <2> QED
        BY <2>1, <2>3 DEF Mapped
<1>8. Cleaned(text) = Spaced(Mapped(spell, words))
    <2>1. Cleaned(text) = Spaced([k \in DOMAIN words |-> words[k].letters])
        BY DEF Cleaned, words, S
    <2> QED
        BY <1>7, <2>1
<1>9. Space \in Characters
    BY DEF Characters
<1> DEFINE m == Mapped(spell, words)
<1>10. m \in Seq(Seq(Characters))
    BY <1>6 DEF Z
<1> HIDE DEF m
<1>11. Spaced(m) \in Seq(Characters)
    BY <1>9, <1>10, SpacedType
<1> QED
    BY <1>3, <1>4, <1>5, <1>8, <1>9, <1>10, <1>11 DEF m, spell, Z

(* The words of a text that stands in another stand in the other's words.   *)
LEMMA CleanedWithin ==
    ASSUME NEW X, AllText(X), NEW part \in Seq(X), NEW text \in Seq(X), Within(part, text)
    PROVE  Within(Cleaned(part), Cleaned(text)) /\ (has_significant_text(part) => has_significant_text(text))
<1> DEFINE C == Characters
           spell == Spelled(X)
           W == Wordy(X)
           wp == InOrder(part, W)
           wt == InOrder(text, W)
           cp == Cleaned(part)
           ct == Cleaned(text)
<1>1. /\ cp = Spaced(Mapped(spell, wp)) /\ wp \in Seq(X) /\ IsMap(spell, X, Seq(C))
      /\ Mapped(spell, wp) \in Seq(Seq(C)) /\ cp \in Seq(C) /\ Space \in C
    BY CleanedIs
<1>2. /\ ct = Spaced(Mapped(spell, wt)) /\ wt \in Seq(X) /\ Mapped(spell, wt) \in Seq(Seq(C)) /\ ct \in Seq(C)
    BY CleanedIs
<1>3. PICK pre \in Seq(X), post \in Seq(X) : wt = Cat(Cat(pre, wp), post)
    BY InOrderWithin
<1> HIDE DEF wp, wt, C, spell, W, cp, ct
<1> DEFINE Z == Seq(C)
           mp == Mapped(spell, pre)
           mm == Mapped(spell, wp)
           mq == Mapped(spell, post)
<1>4. /\ mp \in Seq(Z) /\ mq \in Seq(Z) /\ mm \in Seq(Z)
      /\ Mapped(spell, wt) = Cat(Cat(mp, mm), mq)
    <2> HIDE DEF Z
    <2>0. IsMap(spell, X, Z)
        BY <1>1 DEF Z
    <2>1. mp \in Seq(Z) /\ mq \in Seq(Z) /\ mm \in Seq(Z)
        BY <1>1, <2>0, MappedIs
    <2> DEFINE half == Cat(pre, wp)
    <2>2. half \in Seq(X)
        BY <1>1, CatIs
    <2>3. Mapped(spell, half) = Cat(mp, mm)
        BY <1>1, <2>0, MappedCat
    <2> HIDE DEF half
    <2>4. Mapped(spell, Cat(half, post)) = Cat(Mapped(spell, half), mq)
        BY <2>0, <2>2, MappedCat
    <2> QED
        BY <1>3, <2>1, <2>3, <2>4 DEF half
<1> HIDE DEF mp, mm, mq
<1>5. CASE mm = <<>>
    <2>1. cp = <<>>
        BY <1>1, <1>5, SpacedType DEF mm
    <2>2. Within(<<>>, ct)
        BY <1>2, NothingWithin
    <2>3. ~has_significant_text(part)
        <3>1. Len(cp) = 0
            BY <2>1
        <3> QED
            BY <3>1 DEF has_significant_text, cp
    <2> QED
        BY <2>1, <2>2, <2>3 DEF cp, ct
<1>6. CASE mm # <<>>
    <2>1. PICK a \in Seq(C), b \in Seq(C) : Spaced(Cat(Cat(mp, mm), mq)) = Cat(Cat(a, Spaced(mm)), b)
        BY <1>1, <1>4, <1>6, SpacedWithin
    <2>2. ct = Cat(Cat(a, cp), b)
        BY <1>1, <1>2, <1>4, <2>1 DEF mm
    <2>3. Within(cp, ct) /\ Len(cp) <= Len(ct)
        BY <1>1, <1>2, <2>2, WithinIs
    <2>4. has_significant_text(part) => has_significant_text(text)
        <3>1. Len(cp) \in Nat /\ Len(ct) \in Nat
            BY <1>1, <1>2
        <3>2. Len(cp) >= 2 => Len(ct) >= 2
            BY <2>3, <3>1
        <3> QED
            BY <3>2 DEF has_significant_text, cp, ct
    <2> QED
        BY <2>3, <2>4 DEF cp, ct
<1> QED
    BY <1>5, <1>6

(* What stands in a part stands in the whole.                               *)
LEMMA WithinPlaces ==
    ASSUME NEW X, NEW part \in Seq(X), NEW whole \in Seq(X), Within(part, whole), NEW j \in 1..Len(part)
    PROVE  \E i \in 1..Len(whole) : whole[i] = part[j]
<1>1. PICK pre \in Seq(X), post \in Seq(X) : whole = Cat(Cat(pre, part), post)
    BY WithinIs
<1> DEFINE half == Cat(pre, part)
<1>2. half \in Seq(X) /\ Len(half) = Len(pre) + Len(part) /\ Len(pre) \in Nat /\ Len(part) \in Nat
    BY CatIs
<1>3. half[Len(pre) + j] = part[j]
    BY CatAfter
<1>4. Len(pre) + j \in 1..Len(half)
    BY <1>2
<1> HIDE DEF half
<1>5. Cat(half, post)[Len(pre) + j] = half[Len(pre) + j] /\ Len(Cat(half, post)) = Len(half) + Len(post) /\ Len(post) \in Nat
    <2> DEFINE i == Len(pre) + j
    <2>1. i \in 1..Len(half)
        BY <1>4
    <2> HIDE DEF i
    <2>2. Cat(half, post)[i] = half[i]
        BY <1>2, <2>1, CatBefore
    <2>3. Len(Cat(half, post)) = Len(half) + Len(post) /\ Len(post) \in Nat
        BY <1>2, CatIs
    <2> QED
        BY <2>2, <2>3 DEF i
<1>6. Len(pre) + j \in 1..Len(whole)
    BY <1>1, <1>2, <1>4, <1>5 DEF half
<1> QED
    BY <1>1, <1>3, <1>5, <1>6 DEF half

(* An element stands in its list.                                           *)
LEMMA OneWithin ==
    ASSUME NEW X, NEW list \in Seq(X), NEW i \in 1..Len(list)
    PROVE  Within(<<list[i]>>, list)
<1>1. Len(list) \in Nat /\ Len(<<list[i]>>) = 1
    OBVIOUS
<1>2. SubSeq(list, i, i) = <<list[i]>>
    <2> DEFINE s == SubSeq(list, i, i)
               o == <<list[i]>>
    <2>1. i \in Int /\ list[i] \in X /\ \A k \in i..i : list[k] \in X
        OBVIOUS
    <2>2. s \in Seq(X) /\ Len(s) = (IF i <= i THEN i - i + 1 ELSE 0) /\ \A k \in 1..(i - i + 1) : s[k] = list[i + k - 1]
        BY <2>1, SubSeqProperties
    <2>3. i - i + 1 = 1 /\ i + 1 - 1 = i /\ 1 \in 1..1
        BY <2>1
    <2>4. o \in Seq(X) /\ Len(o) = 1 /\ o[1] = list[i]
        BY <2>1
    <2> HIDE DEF s, o
    <2>5. Len(s) = 1 /\ s[1] = list[i]
        BY <2>2, <2>3
    <2>6. Len(s) = Len(o) /\ \A k \in 1..Len(s) : s[k] = o[k]
        BY <2>4, <2>5
    <2>7. s = o
        BY <2>2, <2>4, <2>6, SeqEqual
    <2> QED
        BY <2>7 DEF s, o
<1>3. i - 1 \in 0..(Len(list) - 1) /\ (i - 1) + 1 = i
    BY <1>1
<1> QED
    BY <1>1, <1>2, <1>3 DEF Within

Between(X, whole, o) == \E a \in Seq(X) : \E b \in Seq(X) : o \in Seq(X) /\ whole = Cat(Cat(a, o), b)

(* So does a single element that stands between two texts.                  *)
LEMMA FoundBetween ==
    ASSUME NEW X, NEW whole, NEW o, Between(X, whole, o), Len(o) = 1
    PROVE  \E m \in 1..Len(whole) : whole[m] = o[1]
<1>0. PICK a \in Seq(X), b \in Seq(X) : o \in Seq(X) /\ whole = Cat(Cat(a, o), b)
    BY DEF Between
<1> DEFINE half == Cat(a, o)
           m == Len(a) + 1
<1>1. half \in Seq(X) /\ Len(half) = Len(a) + Len(o) /\ Len(a) \in Nat
    BY <1>0, CatIs
<1>2. half[m] = o[1]
    <2> DEFINE q == 1
    <2>1. q \in 1..Len(o)
        BY <1>0
    <2> HIDE DEF q
    <2>2. Cat(a, o)[Len(a) + q] = o[q]
        BY <1>0, <2>1, CatAfter
    <2> QED
        BY <2>2 DEF q
<1>3. m \in 1..Len(half)
    BY <1>1
<1> HIDE DEF half, m
<1>4. Cat(half, b)[m] = half[m] /\ Len(Cat(half, b)) = Len(half) + Len(b) /\ Len(b) \in Nat
    <2>1. Cat(half, b)[m] = half[m]
        BY <1>1, <1>3, CatBefore
    <2>2. Len(Cat(half, b)) = Len(half) + Len(b) /\ Len(b) \in Nat
        BY <1>1, CatIs
    <2> QED
        BY <2>1, <2>2
<1>5. whole = Cat(half, b)
    BY <1>0 DEF half
<1>6. m \in 1..Len(whole)
    BY <1>1, <1>3, <1>4, <1>5
<1> QED
    BY <1>2, <1>4, <1>5, <1>6

(* A figure outside parentheses stays in the text without them.             *)
LEMMA FigureStays ==
    ASSUME NEW X, AllText(X), NEW text \in Seq(X), NEW k \in 1..Len(text), text[k].value, ~text[k].aside
    PROVE  \E j \in 1..Len(Plain(text)) : Plain(text)[j] = text[k]
<1> DEFINE Y == SymbolsOf(X)
           t == text[k]
           n == Len(text)
           S == Opens(text)
           list == InOrder(Upto(n), S)
           parts == Chosen(text, S)
           w == Spaced(parts)
           o == <<t>>
<1>1. IsSymbols(X, Y) /\ t \in X /\ IsText(t) /\ Space \in Y /\ t \in Y /\ n \in Nat
    <2>1. t \in X
        OBVIOUS
    <2> QED
        BY <2>1, TextSymbols DEF AllText, SymbolsOf
<1> HIDE DEF Y
<1>2. /\ Plain(text) = Stripped(w) /\ IsMap(Symbol(text), 1..n, Seq(Y))
      /\ list \in Seq(1..n) /\ parts \in Seq(Seq(Y))
    BY <1>1, PlainIs
<1>3. k \in S
    BY DEF Opens
<1>4. PICK i \in 1..Len(list) : list[i] = k
    <2>1. Upto(n) \in Seq(1..n) /\ Len(Upto(n)) = n /\ Upto(n)[k] = k
        BY <1>1, UptoCat
    <2>2. k \in Range(Upto(n))
        BY <2>1 DEF Range
    <2>3. Range(list) = {x \in Range(Upto(n)) : x \in S}
        BY <2>1, InOrderRange
    <2>4. k \in Range(list)
        BY <1>3, <2>2, <2>3
    <2> QED
        <3>1. DOMAIN list = 1..Len(list)
            BY <1>2
        <3> QED
            BY <2>4, <3>1 DEF Range
<1> HIDE DEF list
<1>5. parts = Mapped(Symbol(text), list)
    BY DEF Chosen, list
<1>6. i \in 1..Len(parts) /\ parts[i] = o
    <2>1. Len(parts) = Len(list)
        BY <1>2, <1>5 DEF Mapped
    <2>2. parts[i] = Symbol(text)[k]
        BY <1>4, <1>5 DEF Mapped
    <2>3. Symbol(text)[k] = Symbols(t)
        BY DEF Symbol
    <2>4. Symbols(t) = o
        BY DEF Symbols
    <2> QED
        BY <2>1, <2>2, <2>3, <2>4
<1> HIDE DEF parts
<1> DEFINE one == <<o>>
<1>7. o \in Seq(Y) /\ one \in Seq(Seq(Y)) /\ one # <<>>
    BY <1>1
<1>8. Within(one, parts)
    BY <1>2, <1>6, OneWithin
<1>9. Spaced(one) = o
    BY <1>1, <1>7, SpacedOne
<1> HIDE DEF one
<1>10. PICK pre \in Seq(Seq(Y)), post \in Seq(Seq(Y)) : parts = Cat(Cat(pre, one), post)
    <2> DEFINE Z == Seq(Y)
    <2>1. one \in Seq(Z) /\ parts \in Seq(Z)
        BY <1>2, <1>7
    <2> HIDE DEF Z
    <2>2. \E pre \in Seq(Z) : \E post \in Seq(Z) : parts = Cat(Cat(pre, one), post)
        BY <1>8, <2>1, WithinIs
    <2> QED
        BY <2>2 DEF Z
<1>11. PICK a \in Seq(Y), b \in Seq(Y) : w = Cat(Cat(a, o), b)
    <2>1. one \in Seq(Seq(Y)) /\ one # <<>>
        BY <1>7 DEF one
    <2>2. \E a \in Seq(Y) : \E b \in Seq(Y) : Spaced(Cat(Cat(pre, one), post)) = Cat(Cat(a, Spaced(one)), b)
        BY <1>1, <2>1, SpacedWithin
    <2> QED
        BY <1>9, <1>10, <2>2
<1>12. w \in Seq(Y)
    BY <1>1, <1>2, SpacedType
<1>13. \E m \in 1..Len(w) : w[m] = t
    <2>1. Len(o) = 1 /\ o[1] = t
        OBVIOUS
    <2> HIDE DEF o, w, t
    <2>2. Between(Y, w, o)
        BY <1>7, <1>11 DEF Between
    <2> QED
        BY <2>1, <2>2, FoundBetween
<1>14. PICK m \in 1..Len(w) : w[m] = t
    BY <1>13
<1>15. m \in Visible(w)
    <2>1. t # Space
        BY <1>1, FigureApart
    <2> QED
        BY <1>14, <2>1 DEF Visible
<1> HIDE DEF w, t
<1>16. PICK lo \in Visible(w), hi \in Visible(w) :
          /\ lo <= hi /\ \A x \in Visible(w) : lo <= x /\ x <= hi
          /\ Len(Stripped(w)) = hi - lo + 1
          /\ \A j \in 1..(hi - lo + 1) : Stripped(w)[j] = w[lo + j - 1]
    BY <1>12, <1>15, StrippedIs
<1>17. lo \in Nat /\ hi \in Nat /\ m \in Nat /\ lo <= m /\ m <= hi
    <2>1. Visible(w) \subseteq Nat
        BY DEF Visible
    <2> QED
        BY <1>15, <1>16, <2>1
<1>18. m - lo + 1 \in 1..(hi - lo + 1) /\ lo + (m - lo + 1) - 1 = m
    BY <1>17
<1>19. Stripped(w)[m - lo + 1] = t
    BY <1>14, <1>16, <1>18
<1> QED
    BY <1>2, <1>16, <1>18, <1>19 DEF w, t

(* And no text without figures has one without its parentheses.             *)
LEMMA FigureComes ==
    ASSUME NEW X, AllText(X), NEW text \in Seq(X), values(text) = <<>>, NEW j \in 1..Len(Plain(text)), NEW t \in X, t.value
    PROVE  Plain(text)[j] # t
<1> DEFINE V == {x \in X : ~x.value}
           Y == SymbolsOf(V)
<1>1. Range(values(text)) = {x \in Range(text) : x.value}
    BY ValuesAre
<1>2. \A k \in 1..Len(text) : text[k] \in V
    <2>1. Range(<<>>) = {}
        BY DEF Range
    <2> QED
        BY <1>1, <2>1 DEF Range
<1>3. text \in Seq(V)
    <2> HIDE DEF V
    <2> QED
        BY <1>2
<1>4. AllText(V)
    BY DEF AllText
<1> HIDE DEF V
<1>5. IsSymbols(V, Y) /\ Space \in Y
    BY <1>4, TextSymbols DEF SymbolsOf
<1> HIDE DEF Y
<1>6. Plain(text) = Stripped(Spaced(Chosen(text, Opens(text)))) /\ Chosen(text, Opens(text)) \in Seq(Seq(Y))
    BY <1>3, <1>5, PlainIs
<1>7. Spaced(Chosen(text, Opens(text))) \in Seq(Y)
    BY <1>5, <1>6, SpacedType
<1>8. Plain(text) \in Seq(Y)
    BY <1>6, <1>7, StrippedIs
<1>9. Plain(text)[j] \in Y
    BY <1>8
<1>10. t \notin V
    BY DEF V
<1>11. t # Space /\ t \notin Letter
    BY FigureApart DEF AllText
<1> QED
    BY <1>9, <1>10, <1>11 DEF Y, SymbolsOf

(* Multiplying by a positive number keeps the sign.                         *)
LEMMA KeepsSign ==
    ASSUME NEW a \in Int, NEW m \in Nat \ {0}
    PROVE  a * m < 0 <=> a < 0
<1>1. CASE a < 0
    <2>1. a <= -1
        BY <1>1
    <2>2. a * m <= -m
        BY <2>1
    <2> QED
        BY <1>1, <2>2
<1>2. CASE a >= 0
    <2>1. a * m >= 0
        BY <1>2
    <2> QED
        BY <1>2, <2>1
<1> QED
    BY <1>1, <1>2

IsValue(v) == v.number \in Int /\ v.unit \in Scales \cup {Bare, Percent}
StandsFor(g, s) ==
    /\ g.number < 0 <=> s.number < 0
    /\ g.unit = Percent => s.unit \in {Percent, Bare}
    /\ {g.unit, s.unit} \subseteq Scales => g.number * g.unit = s.number * s.unit

(* A value that matches gold's has its sign, and its amount where both write *)
(* a unit.                                                                  *)
LEMMA MatchesMeans ==
    ASSUME NEW g, NEW s, IsValue(g), IsValue(s), matches(g, s)
    PROVE  StandsFor(g, s)
<1>1. g.number \in Int /\ s.number \in Int /\ {g.unit, s.unit} \subseteq Scales \cup {Bare, Percent}
    BY DEF IsValue
<1>2. Percent \notin Scales /\ Bare \notin Scales /\ Bare # Percent /\ \A m \in Scales : m \in Nat \ {0}
    BY ScalesOK DEF Percent, Bare
<1>3. CASE Percent \in {g.unit, s.unit}
    <2>1. {g.unit, s.unit} \subseteq {Percent, Bare} /\ g.number = s.number
        BY <1>3 DEF matches
    <2> QED
        BY <1>1, <1>2, <2>1 DEF StandsFor
<1>4. CASE Percent \notin {g.unit, s.unit}
    <2>1. Multiplier(g.unit) \in Nat \ {0} /\ Multiplier(s.unit) \in Nat \ {0}
        BY <1>1, <1>2, <1>4 DEF Multiplier
    <2>2. \/ g.number * Multiplier(g.unit) = s.number * Multiplier(s.unit)
          \/ Bare \in {g.unit, s.unit} /\ g.number = s.number
        BY <1>4 DEF matches
    <2>3. g.number < 0 <=> s.number < 0
        <3>1. CASE g.number = s.number
            BY <3>1
        <3>2. CASE g.number * Multiplier(g.unit) = s.number * Multiplier(s.unit)
            <4> DEFINE a == g.number
                       b == s.number
                       m == Multiplier(g.unit)
                       n == Multiplier(s.unit)
            <4>1. a \in Int /\ b \in Int /\ m \in Nat \ {0} /\ n \in Nat \ {0} /\ a * m = b * n
                BY <1>1, <2>1, <3>2
            <4> HIDE DEF a, b, m, n
            <4>2. (a * m < 0 <=> a < 0) /\ (b * n < 0 <=> b < 0)
                BY <4>1, KeepsSign
            <4>3. a < 0 <=> b < 0
                BY <4>1, <4>2
            <4> QED
                BY <4>3 DEF a, b
        <3> QED
            BY <2>2, <3>1, <3>2
    <2>4. {g.unit, s.unit} \subseteq Scales => g.number * g.unit = s.number * s.unit
        <3>1. ASSUME {g.unit, s.unit} \subseteq Scales
              PROVE  g.number * g.unit = s.number * s.unit
            <4>1. g.unit # Bare /\ s.unit # Bare
                BY <1>2, <3>1
            <4>2. Multiplier(g.unit) = g.unit /\ Multiplier(s.unit) = s.unit
                BY <4>1 DEF Multiplier
            <4>3. g.number * Multiplier(g.unit) = s.number * Multiplier(s.unit)
                BY <2>2, <4>1
            <4> QED
                BY <4>2, <4>3
        <3> QED
            BY <3>1
    <2> QED
        BY <1>4, <2>3, <2>4 DEF StandsFor
<1> QED
    BY <1>3, <1>4

-----------------------------------------------------------------------------
(* Where the values taken so far were stated, and where those left were.    *)
IsTaking(f, g, k, unused, gold, stated) ==
    /\ f \in [1..k -> 1..Len(stated)] /\ g \in [1..Len(unused) -> 1..Len(stated)]
    /\ \A a, b \in 1..k : f[a] = f[b] => a = b
    /\ \A a, b \in 1..Len(unused) : g[a] = g[b] => a = b
    /\ \A a \in 1..k : \A b \in 1..Len(unused) : f[a] # g[b]
    /\ \A a \in 1..k : matches(gold[a], stated[f[a]])
    /\ \A b \in 1..Len(unused) : unused[b] = stated[g[b]]
    /\ Len(unused) + k = Len(stated)

(* What is left when one of a list is removed.                              *)
LEMMA Removed ==
    ASSUME NEW V, NEW unused \in Seq(V), NEW m \in 1..Len(unused)
    PROVE  /\ RemoveAt(unused, m) \in Seq(V) /\ Len(RemoveAt(unused, m)) = Len(unused) - 1
           /\ \A b \in 1..(Len(unused) - 1) : RemoveAt(unused, m)[b] = unused[IF b < m THEN b ELSE b + 1]
<1> DEFINE n == Len(unused)
           left == SubSeq(unused, 1, m - 1)
           right == SubSeq(unused, m + 1, n)
<1>1. n \in Nat /\ m \in 1..n /\ 1 \in Int /\ m - 1 \in Int /\ m + 1 \in Int /\ n \in Int
    OBVIOUS
<1>2. left \in Seq(V) /\ Len(left) = m - 1 /\ \A b \in 1..(m - 1) : left[b] = unused[b]
    <2>1. \A j \in 1..(m - 1) : unused[j] \in V
        OBVIOUS
    <2>2. left \in Seq(V) /\ Len(left) = (IF 1 <= m - 1 THEN (m - 1) - 1 + 1 ELSE 0) /\ \A b \in 1..((m - 1) - 1 + 1) : left[b] = unused[1 + b - 1]
        BY <1>1, <2>1, SubSeqProperties
    <2> QED
        BY <1>1, <2>2
<1>3. right \in Seq(V) /\ Len(right) = n - m /\ \A b \in 1..(n - m) : right[b] = unused[m + b]
    <2>1. \A j \in (m + 1)..n : unused[j] \in V
        OBVIOUS
    <2>2. right \in Seq(V) /\ Len(right) = (IF m + 1 <= n THEN n - (m + 1) + 1 ELSE 0) /\ \A b \in 1..(n - (m + 1) + 1) : right[b] = unused[(m + 1) + b - 1]
        BY <1>1, <2>1, SubSeqProperties
    <2> QED
        BY <1>1, <2>2
<1>4. RemoveAt(unused, m) = Cat(left, right)
    BY DEF RemoveAt, Cat
<1> HIDE DEF left, right, n
<1>5. Cat(left, right) \in Seq(V) /\ Len(Cat(left, right)) = Len(left) + Len(right)
    BY <1>2, <1>3, CatIs
<1>6. \A b \in 1..(n - 1) : Cat(left, right)[b] = unused[IF b < m THEN b ELSE b + 1]
    <2> TAKE b \in 1..(n - 1)
    <2>1. CASE b < m
        <3>1. b \in 1..Len(left) /\ b \in 1..(m - 1)
            BY <1>1, <1>2, <2>1
        <3>2. Cat(left, right)[b] = left[b]
            BY <1>2, <1>3, <3>1, CatBefore
        <3> QED
            BY <1>2, <2>1, <3>1, <3>2
    <2>2. CASE ~(b < m)
        <3> DEFINE c == b - (m - 1)
        <3>1. c \in 1..Len(right) /\ c \in 1..(n - m) /\ Len(left) + c = b /\ m + c = b + 1
            BY <1>1, <1>2, <1>3, <2>2
        <3> HIDE DEF c
        <3>2. Cat(left, right)[Len(left) + c] = right[c]
            <4>1. left \in Seq(V) /\ right \in Seq(V) /\ c \in 1..Len(right)
                BY <1>2, <1>3, <3>1
            <4> QED
                BY <4>1, CatAfter
        <3> QED
            BY <1>3, <2>2, <3>1, <3>2
    <2> QED
        BY <2>1, <2>2
<1> QED
    BY <1>1, <1>2, <1>3, <1>4, <1>5, <1>6 DEF n

(* Taking one more: no value that was stated once answers twice.            *)
LEMMA TakesOne ==
    ASSUME NEW V, NEW stated \in Seq(V), NEW gold, NEW unused \in Seq(V), NEW k \in Nat,
           NEW f, NEW g, IsTaking(f, g, k, unused, gold, stated),
           NEW m \in 1..Len(unused), matches(gold[k + 1], unused[m])
    PROVE  \E f1, g1 : IsTaking(f1, g1, k + 1, RemoveAt(unused, m), gold, stated)
<1> DEFINE N == Len(stated)
           L == Len(unused)
           less == RemoveAt(unused, m)
           At(b) == IF b < m THEN b ELSE b + 1
           f1 == [a \in 1..(k + 1) |-> IF a = k + 1 THEN g[m] ELSE f[a]]
           g1 == [b \in 1..(L - 1) |-> g[At(b)]]
<1>1. /\ f \in [1..k -> 1..N] /\ g \in [1..L -> 1..N] /\ N \in Nat /\ L \in Nat /\ m \in 1..L
      /\ \A a, b \in 1..k : f[a] = f[b] => a = b
      /\ \A a, b \in 1..L : g[a] = g[b] => a = b
      /\ \A a \in 1..k : \A b \in 1..L : f[a] # g[b]
      /\ L + k = N
    BY DEF IsTaking
<1>2. /\ \A a \in 1..k : matches(gold[a], stated[f[a]])
      /\ \A b \in 1..L : unused[b] = stated[g[b]]
    BY DEF IsTaking
<1>3. Len(less) = L - 1 /\ \A b \in 1..(L - 1) : less[b] = unused[At(b)]
    BY Removed
<1>4. \A b \in 1..(L - 1) : At(b) \in 1..L /\ At(b) # m
    BY <1>1
<1>5. \A a, b \in 1..(L - 1) : At(a) = At(b) => a = b
    BY <1>1
<1>6. \A a \in 1..(k + 1) : a = k + 1 \/ a \in 1..k
    OBVIOUS
<1> HIDE DEF N, L, less, At
<1>7. f1 \in [1..(k + 1) -> 1..N] /\ g1 \in [1..(L - 1) -> 1..N]
    BY <1>1, <1>4, <1>6
<1>8. \A a, b \in 1..(k + 1) : f1[a] = f1[b] => a = b
    BY <1>1, <1>6
<1>9. \A a, b \in 1..(L - 1) : g1[a] = g1[b] => a = b
    BY <1>1, <1>4, <1>5
<1>10. \A a \in 1..(k + 1) : \A b \in 1..(L - 1) : f1[a] # g1[b]
    BY <1>1, <1>4, <1>6
<1>11. \A a \in 1..(k + 1) : matches(gold[a], stated[f1[a]])
    <2> TAKE a \in 1..(k + 1)
    <2>1. CASE a = k + 1
        <3>1. f1[a] = g[m] /\ unused[m] = stated[g[m]]
            BY <1>1, <1>2, <2>1
        <3> QED
            BY <2>1, <3>1
    <2>2. CASE a # k + 1
        <3>1. f1[a] = f[a] /\ a \in 1..k
            BY <1>6, <2>2
        <3> QED
            BY <1>2, <3>1
    <2> QED
        BY <2>1, <2>2
<1>12. \A b \in 1..(L - 1) : less[b] = stated[g1[b]]
    BY <1>2, <1>3, <1>4
<1>13. (L - 1) + (k + 1) = N
    BY <1>1
<1> HIDE DEF f1, g1
<1>14. IsTaking(f1, g1, k + 1, less, gold, stated)
    BY <1>3, <1>7, <1>8, <1>9, <1>10, <1>11, <1>12, <1>13 DEF IsTaking, N
<1> QED
    BY <1>14 DEF less

Take(acc, gold) ==
    LET hits == {k \in DOMAIN acc.unused : matches(gold, acc.unused[k])}
    IN IF ~acc.ok \/ hits = {} THEN [acc EXCEPT !.ok = FALSE]
       ELSE [acc EXCEPT !.unused = Unused(@, Min(hits))]

Takings(V) == [ok : BOOLEAN, unused : Seq(V)]

IsCovering(G, gold, stated, V) ==
    /\ G \in [0..Len(gold) -> Takings(V)]
    /\ G[0] = [ok |-> TRUE, unused |-> stated] /\ _covers(gold, stated) = G[Len(gold)].ok
    /\ \A k \in 1..Len(gold) : G[k] = Take(G[k - 1], gold[k])

(* A step of the fold keeps its shape.                                      *)
LEMMA TakeType ==
    ASSUME NEW V, NEW acc \in Takings(V), NEW gold
    PROVE  Take(acc, gold) \in Takings(V)
<1> DEFINE hits == {k \in DOMAIN acc.unused : matches(gold, acc.unused[k])}
<1>1. acc.ok \in BOOLEAN /\ acc.unused \in Seq(V) /\ acc = [ok |-> acc.ok, unused |-> acc.unused]
    BY DEF Takings
<1>2. [acc EXCEPT !.ok = FALSE] \in Takings(V)
    BY <1>1 DEF Takings
<1>3. ASSUME hits # {} PROVE [acc EXCEPT !.unused = Unused(@, Min(hits))] \in Takings(V)
    <2>1. hits \in SUBSET (1..Len(acc.unused)) /\ Len(acc.unused) \in Nat
        BY <1>1
    <2> HIDE DEF hits
    <2>2. Min(hits) \in 1..Len(acc.unused)
        BY <1>3, <2>1, MinOf
    <2>3. Unused(acc.unused, Min(hits)) \in Seq(V)
        BY <1>1, <2>2, Removed DEF Unused
    <2> QED
        BY <1>1, <2>3 DEF Takings
<1> QED
    BY <1>2, <1>3 DEF Take

(* Covering gold is a run over its values.                                  *)
LEMMA CoveringRuns ==
    ASSUME NEW V, NEW W, NEW gold \in Seq(W), NEW stated \in Seq(V)
    PROVE  \E G : IsCovering(G, gold, stated, V)
<1> DEFINE n == Len(gold)
           D == 1..n
           A == Takings(V)
           base == [ok |-> TRUE, unused |-> stated]
           step == [p \in D \X A |-> Take(p[2], gold[p[1]])]
           Body(iter) == [s \in SUBSET DOMAIN gold |-> IF s = {} THEN base ELSE Take(iter[s \ {Max(s)}], gold[Max(s)])]
           it == CHOOSE iter : iter = Body(iter)
<1>1. n \in Nat /\ DOMAIN gold = 1..n
    OBVIOUS
<1>2. step \in [(1..n) \X A -> A] /\ base \in A
    <2>1. ASSUME NEW p \in (1..n) \X A PROVE Take(p[2], gold[p[1]]) \in A
        <3>1. p[2] \in A
            OBVIOUS
        <3> QED
            BY <3>1, TakeType
    <2>2. base \in A
        BY DEF Takings
    <2> HIDE DEF A, base
    <2> QED
        BY <2>1, <2>2
<1> HIDE DEF A, base
<1>3. PICK iter : IsLeftFold(iter, n, A, base, step)
    <2> HIDE DEF step, n
    <2> QED
        BY <1>1, <1>2, LeftFoldExists
<1>4. iter = Body(iter)
    <2>1. \A s \in SUBSET (1..n) : s # {} => Max(s) \in 1..n
        BY <1>1, MaxOf
    <2>2. ASSUME NEW s \in SUBSET (1..n), s # {}
          PROVE  iter[s] = Take(iter[s \ {Max(s)}], gold[Max(s)])
        <3> DEFINE m == Max(s)
        <3>1. m \in 1..n /\ iter[s \ {m}] \in A
            BY <2>1, <2>2, <1>3 DEF IsLeftFold
        <3>2. iter[s] = step[<<m, iter[s \ {m}]>>]
            BY <1>3, <2>2 DEF IsLeftFold
        <3> HIDE DEF m
        <3>3. step[<<m, iter[s \ {m}]>>] = Take(iter[s \ {m}], gold[m])
            BY <3>1
        <3> QED
            BY <3>2, <3>3 DEF m
    <2>3. iter[{}] = base
        BY <1>3 DEF IsLeftFold
    <2> QED
        BY <1>1, <1>3, <2>2, <2>3 DEF IsLeftFold
<1>5. it = Body(it)
    BY <1>4
<1>6. _covers(gold, stated) = it[DOMAIN gold].ok
    BY DEF _covers, FoldLeft, MapThenFoldSet, Take, base
<1> HIDE DEF it
<1>7. it[{}] = base
    BY <1>5
<1>8. ASSUME NEW s \in SUBSET (1..n), s # {}, it[s \ {Max(s)}] \in A
      PROVE  it[s] = step[<<Max(s), it[s \ {Max(s)}]>>]
    <2> DEFINE m == Max(s)
    <2>1. m \in 1..n
        BY <1>1, <1>8, MaxOf
    <2>2. it[s] = Take(it[s \ {m}], gold[m])
        BY <1>1, <1>5, <1>8
    <2> HIDE DEF m
    <2>3. step[<<m, it[s \ {m}]>>] = Take(it[s \ {m}], gold[m])
        BY <1>8, <2>1 DEF m
    <2> QED
        BY <2>2, <2>3 DEF m
<1> HIDE DEF step, Body
<1>9. Steps(it, n, A, step)
    BY <1>8 DEF Steps
<1> HIDE DEF n
<1>10. PICK G : IsRun(G, n, A, base, step, it)
    BY <1>1, <1>2, <1>7, <1>9, LeftFoldRuns
<1>11. \A k \in 1..n : step[<<k, G[k - 1]>>] = Take(G[k - 1], gold[k])
    <2> TAKE k \in 1..n
    <2>1. k - 1 \in 0..n
        BY <1>1
    <2>2. G[k - 1] \in A
        BY <1>10, <2>1 DEF IsRun
    <2> QED
        BY <2>2 DEF step
<1>12. _covers(gold, stated) = G[n].ok
    BY <1>1, <1>6, <1>10 DEF IsRun
<1>13. /\ G \in [0..n -> A] /\ G[0] = base
       /\ \A k \in 1..n : G[k] = Take(G[k - 1], gold[k])
    BY <1>10, <1>11 DEF IsRun
<1> QED
    BY <1>12, <1>13 DEF IsCovering, n, A, base

Taken(G, k, gold, stated) ==
    G[k].ok => \E f, g : IsTaking(f, g, k, G[k].unused, gold, stated)

(* What covers gold has for each of its values another one that matches it. *)
LEMMA CoversEach ==
    ASSUME NEW V, NEW W, NEW gold \in Seq(W), NEW stated \in Seq(V), _covers(gold, stated)
    PROVE  Assigned(gold, stated) /\ Len(gold) <= Len(stated)
<1> DEFINE n == Len(gold)
<1>1. n \in Nat /\ DOMAIN gold = 1..n /\ Len(stated) \in Nat /\ DOMAIN stated = 1..Len(stated)
    OBVIOUS
<1>2. PICK G : IsCovering(G, gold, stated, V)
    BY CoveringRuns
<1> HIDE DEF n
<1>3. /\ G \in [0..n -> Takings(V)] /\ G[0] = [ok |-> TRUE, unused |-> stated] /\ G[n].ok
      /\ \A k \in 1..n : G[k] = Take(G[k - 1], gold[k])
    BY <1>2 DEF IsCovering, n
<1>4. Taken(G, 0, gold, stated)
    <2> DEFINE f == [a \in 1..0 |-> 1]
               g == [b \in 1..Len(stated) |-> b]
    <2>1. \A a \in 1..0 : FALSE
        OBVIOUS
    <2>2. f \in [1..0 -> 1..Len(stated)] /\ g \in [1..Len(stated) -> 1..Len(stated)]
        BY <2>1
    <2>3. \A b \in 1..Len(stated) : g[b] = b
        OBVIOUS
    <2> HIDE DEF f, g
    <2>4. IsTaking(f, g, 0, stated, gold, stated)
        BY <1>1, <2>1, <2>2, <2>3 DEF IsTaking
    <2> QED
        BY <1>3, <2>4 DEF Taken
<1>5. ASSUME NEW k \in 0..(n - 1), Taken(G, k, gold, stated)
      PROVE  Taken(G, k + 1, gold, stated)
    <2> DEFINE acc == G[k]
               hits == {m \in DOMAIN acc.unused : matches(gold[k + 1], acc.unused[m])}
               m == Min(hits)
    <2>1. k \in Nat /\ k \in 0..n /\ k + 1 \in 1..n /\ (k + 1) - 1 = k
        BY <1>1
    <2>2. acc \in Takings(V) /\ G[k + 1] = Take(acc, gold[k + 1])
        BY <1>3, <2>1
    <2>3. acc.ok \in BOOLEAN /\ acc.unused \in Seq(V) /\ acc = [ok |-> acc.ok, unused |-> acc.unused]
        BY <2>2 DEF Takings
    <2>4. CASE ~acc.ok \/ hits = {}
        <3>1. G[k + 1] = [acc EXCEPT !.ok = FALSE]
            BY <2>2, <2>4 DEF Take
        <3>2. G[k + 1].ok = FALSE
            BY <2>3, <3>1
        <3> QED
            BY <3>2 DEF Taken
    <2>5. CASE acc.ok /\ hits # {}
        <3>1. hits \in SUBSET (1..Len(acc.unused)) /\ Len(acc.unused) \in Nat
            BY <2>3
        <3>2. m \in hits
            <4> HIDE DEF hits
            <4> QED
                BY <2>5, <3>1, MinOf
        <3>3. m \in 1..Len(acc.unused) /\ matches(gold[k + 1], acc.unused[m])
            BY <3>1, <3>2
        <3>4. G[k + 1] = [acc EXCEPT !.unused = RemoveAt(@, m)]
            BY <2>2, <2>5 DEF Take, Unused
        <3>5. G[k + 1].unused = RemoveAt(acc.unused, m)
            BY <2>3, <3>4
        <3>6. PICK f, g : IsTaking(f, g, k, acc.unused, gold, stated)
            BY <1>5, <2>5 DEF Taken
        <3> HIDE DEF acc, hits, m
        <3>7. \E f1, g1 : IsTaking(f1, g1, k + 1, RemoveAt(acc.unused, m), gold, stated)
            BY <2>1, <2>3, <3>3, <3>6, TakesOne
        <3> QED
            BY <3>5, <3>7 DEF Taken
    <2> QED
        BY <2>3, <2>4, <2>5
<1>6. Taken(G, n, gold, stated)
    <2> DEFINE P == {k \in 0..n : Taken(G, k, gold, stated)}
    <2>1. 0 \in P
        BY <1>1, <1>4
    <2>2. \A k \in 0..(n - 1) : k \in P => k + 1 \in P
        <3>1. \A k \in 0..(n - 1) : k + 1 \in 0..n
            BY <1>1
        <3> QED
            BY <1>5, <3>1
    <2>3. 0..n \subseteq P
        <3> HIDE DEF P
        <3> QED
            BY <1>1, <2>1, <2>2, EveryPlace
    <2>4. n \in 0..n
        BY <1>1
    <2> QED
        BY <2>3, <2>4
<1>7. PICK f, g : IsTaking(f, g, n, G[n].unused, gold, stated)
    BY <1>3, <1>6 DEF Taken
<1>8. Assigned(gold, stated)
    <2>1. f \in [DOMAIN gold -> DOMAIN stated] /\ DOMAIN f = 1..n
        BY <1>1, <1>7 DEF IsTaking
    <2>2. IsInjective(f)
        BY <1>7, <2>1 DEF IsTaking, IsInjective
    <2>3. \A w \in DOMAIN gold : matches(gold[w], stated[f[w]])
        BY <1>1, <1>7 DEF IsTaking
    <2> QED
        BY <2>1, <2>2, <2>3 DEF Assigned
<1>9. G[n].unused \in Seq(V)
    <2>1. n \in 0..n
        BY <1>1
    <2>2. G[n] \in Takings(V)
        BY <1>3, <2>1
    <2> QED
        BY <2>2 DEF Takings
<1>10. Len(G[n].unused) \in Nat /\ Len(G[n].unused) + n = Len(stated)
    BY <1>7, <1>9 DEF IsTaking
<1>11. n <= Len(stated)
    <2> DEFINE u == Len(G[n].unused)
    <2>1. u \in Nat /\ u + n = Len(stated)
        BY <1>10
    <2> HIDE DEF u
    <2> QED
        BY <1>1, <2>1
<1> QED
    BY <1>8, <1>11 DEF n

-----------------------------------------------------------------------------
(* The values an answer states are values it holds.                         *)
LEMMA StatedAre ==
    ASSUME NEW X, NEW answer \in Seq(X), NEW wanted
    PROVE  /\ Stated(wanted, answer) \in Seq(X)
           /\ \A s \in 1..Len(Stated(wanted, answer)) : Stated(wanted, answer)[s] \in Range(values(answer))
<1> DEFINE text == IF Len(wanted) = 1 THEN leading_value(answer) ELSE without_asides(answer)
           some == values(text)
           S == {v \in Range(some) : ~v.year \/ \E k \in DOMAIN wanted : wanted[k].year}
           stated == InOrder(some, S)
<1>1. stated = Stated(wanted, answer)
    BY DEF Stated, Countable
<1>2. text \in Seq(X) /\ \A t \in Range(text) : t \in Range(answer)
    <2>1. leading_value(answer) \in Seq(X) /\ \A t \in Range(leading_value(answer)) : t \in Range(answer)
        <3> DEFINE figures == {k \in DOMAIN answer : answer[k].value}
                   marks == {k \in DOMAIN answer : figures # {} /\ IsMark(answer, Min(figures), k)}
                   n == Min(marks) - 1
                   lead == SubSeq(answer, 1, n)
        <3>1. CASE marks = {}
            <4>1. leading_value(answer) = answer
                BY <3>1 DEF leading_value
            <4> QED
                BY <4>1
        <3>2. CASE marks # {}
            <4>1. leading_value(answer) = lead
                BY <3>2 DEF leading_value
            <4>2. marks \in SUBSET (1..Len(answer)) /\ Len(answer) \in Nat
                OBVIOUS
            <4>3. Min(marks) \in 1..Len(answer)
                <5> HIDE DEF marks
                <5> QED
                    BY <3>2, <4>2, MinOf
            <4> HIDE DEF marks
            <4>4. n \in 0..Len(answer) /\ n \in Int /\ 1 \in Int /\ n - 1 + 1 = n /\ \A b \in 1..n : 1 + b - 1 = b /\ b \in 1..Len(answer)
                BY <4>2, <4>3
            <4>5. \A j \in 1..n : answer[j] \in X
                BY <4>4
            <4> HIDE DEF n
            <4>6. lead \in Seq(X) /\ Len(lead) = (IF 1 <= n THEN n - 1 + 1 ELSE 0) /\ \A b \in 1..(n - 1 + 1) : lead[b] = answer[1 + b - 1]
                BY <4>4, <4>5, SubSeqProperties
            <4>7. Len(lead) = n /\ \A b \in 1..n : lead[b] = answer[b]
                BY <4>4, <4>6
            <4> HIDE DEF lead
            <4>8. DOMAIN lead = 1..n /\ DOMAIN answer = 1..Len(answer)
                BY <4>6, <4>7
            <4>9. \A t \in Range(lead) : t \in Range(answer)
                BY <4>4, <4>7, <4>8 DEF Range
            <4> QED
                BY <4>1, <4>6, <4>9
        <3> QED
            BY <3>1, <3>2
    <2>2. without_asides(answer) \in Seq(X) /\ \A t \in Range(without_asides(answer)) : t \in Range(answer)
        <3> DEFINE T == {token \in Range(answer) : token.value /\ ~token.aside}
        <3>1. without_asides(answer) = InOrder(answer, T)
            BY DEF without_asides
        <3> HIDE DEF T
        <3>2. InOrder(answer, T) \in Seq(X) /\ Range(InOrder(answer, T)) = {x \in Range(answer) : x \in T}
            BY InOrderRange
        <3> QED
            BY <3>1, <3>2
    <2> QED
        BY <2>1, <2>2
<1> HIDE DEF text
<1>3. some \in Seq(X) /\ Range(some) = {t \in Range(text) : t.value}
    BY <1>2, ValuesAre
<1> HIDE DEF some, S
<1>4. stated \in Seq(X) /\ Range(stated) = {x \in Range(some) : x \in S}
    BY <1>3, InOrderRange
<1>5. Range(values(answer)) = {t \in Range(answer) : t.value}
    BY ValuesAre
<1> HIDE DEF stated
<1>6. \A t \in Range(stated) : t \in Range(values(answer))
    BY <1>2, <1>3, <1>4, <1>5
<1>7. \A s \in 1..Len(stated) : stated[s] \in Range(stated)
    BY <1>4 DEF Range
<1> QED
    BY <1>1, <1>4, <1>6, <1>7

(* The text without its parentheses is made of its tokens and of letters.   *)
LEMMA PlainType ==
    ASSUME NEW X, AllText(X), NEW text \in Seq(X)
    PROVE  Plain(text) \in Seq(SymbolsOf(X))
<1> DEFINE Y == SymbolsOf(X)
<1>1. IsSymbols(X, Y)
    BY TextSymbols
<1>2. Space \in Y
    BY DEF SymbolsOf
<1> HIDE DEF Y
<1>3. Plain(text) = Stripped(Spaced(Chosen(text, Opens(text)))) /\ Chosen(text, Opens(text)) \in Seq(Seq(Y))
    BY <1>1, PlainIs
<1>4. Spaced(Chosen(text, Opens(text))) \in Seq(Y)
    BY <1>2, <1>3, SpacedType
<1>5. Plain(text) \in Seq(Y)
    BY <1>3, <1>4, StrippedIs
<1> QED
    BY <1>5 DEF Y

(* Gold that is all numbers: as many values, each for one of gold's.        *)
LEMMA NumbersAccepted ==
    ASSUME NEW X, AllText(X), NEW answer \in Seq(X), NEW gold \in Seq(X), ~Worded(gold), check(answer, gold) = "correct"
    PROVE  AcceptedIsGold(answer, gold)
<1> DEFINE wanted == values(gold)
           stated == Stated(wanted, answer)
<1>1. _covers(wanted, stated) /\ ~(Len(stated) > Len(wanted))
    BY DEF check
<1>2. wanted \in Seq(X) /\ \A w \in 1..Len(wanted) : wanted[w].value
    <2>1. wanted \in Seq(X) /\ Range(wanted) = {t \in Range(gold) : t.value}
        BY ValuesAre
    <2> HIDE DEF wanted
    <2>2. \A w \in 1..Len(wanted) : wanted[w] \in Range(wanted)
        BY <2>1 DEF Range
    <2> QED
        BY <2>1, <2>2
<1>3. stated \in Seq(X) /\ \A s \in 1..Len(stated) : stated[s].value
    <2>1. stated \in Seq(X) /\ \A s \in 1..Len(stated) : stated[s] \in Range(values(answer))
        BY StatedAre
    <2>2. Range(values(answer)) = {t \in Range(answer) : t.value}
        BY ValuesAre
    <2> QED
        BY <2>1, <2>2
<1>4. AcceptedIsGold(answer, gold) <=>
          /\ Len(stated) = Len(wanted) /\ Assigned(wanted, stated)
          /\ \A w \in DOMAIN wanted : \E s \in DOMAIN stated : StandsFor(wanted[w], stated[s])
    BY DEF AcceptedIsGold, StandsFor
<1> HIDE DEF wanted, stated
<1>5. Assigned(wanted, stated) /\ Len(wanted) <= Len(stated)
    BY <1>1, <1>2, <1>3, CoversEach
<1>6. Len(stated) = Len(wanted)
    <2>1. Len(stated) \in Nat /\ Len(wanted) \in Nat
        BY <1>2, <1>3
    <2> QED
        BY <1>1, <1>5, <2>1
<1>7. ASSUME NEW w \in DOMAIN wanted PROVE \E s \in DOMAIN stated : StandsFor(wanted[w], stated[s])
    <2>1. PICK f \in [DOMAIN wanted -> DOMAIN stated] : \A v \in DOMAIN wanted : matches(wanted[v], stated[f[v]])
        BY <1>5 DEF Assigned
    <2>2. f[w] \in DOMAIN stated /\ matches(wanted[w], stated[f[w]])
        BY <1>7, <2>1
    <2>3. ASSUME NEW t \in X, t.value PROVE IsValue(t)
        BY <2>3 DEF AllText, IsText, IsValue
    <2>4. IsValue(wanted[w]) /\ IsValue(stated[f[w]])
        <3>1. wanted[w] \in X /\ wanted[w].value
            BY <1>2, <1>7
        <3>2. stated[f[w]] \in X /\ stated[f[w]].value
            BY <1>3, <2>2
        <3> QED
            BY <2>3, <3>1, <3>2
    <2> QED
        BY <2>2, <2>4, MatchesMeans
<1> QED
    BY <1>4, <1>5, <1>6, <1>7

(* Gold with words in it: no number outside its parentheses is missing.     *)
LEMMA WordsAccepted ==
    ASSUME NEW X, AllText(X), NEW answer \in Seq(X), NEW gold \in Seq(X), Worded(gold), check(answer, gold) = "correct"
    PROVE  AcceptedIsGold(answer, gold)
<1> DEFINE wanted == values(gold)
           stated == values(answer)
           outside == without_asides(gold)
           T == {token \in Range(gold) : token.value /\ ~token.aside}
<1>1. AcceptedIsGold(answer, gold) <=>
          /\ \A w \in DOMAIN outside : \E s \in DOMAIN stated : outside[w].number = stated[s].number
          /\ outside # <<>> => has_significant_text(answer)
    BY DEF AcceptedIsGold
<1>2. fuzzy_match_answer(gold, answer)
    BY DEF check
<1>3. /\ wanted \in Seq(X) /\ Range(wanted) = {t \in Range(gold) : t.value} /\ extract_numbers_with_context(gold) = wanted
      /\ stated \in Seq(X) /\ Range(stated) = {t \in Range(answer) : t.value} /\ extract_numbers_with_context(answer) = stated
    BY ValuesAre
<1>4. outside \in Seq(X) /\ Range(outside) = T
    <2>1. outside = InOrder(gold, T)
        BY DEF without_asides
    <2> HIDE DEF T
    <2>2. InOrder(gold, T) \in Seq(X) /\ Range(InOrder(gold, T)) = {x \in Range(gold) : x \in T}
        BY InOrderRange
    <2> QED
        BY <2>1, <2>2 DEF T
<1>5. CASE outside = <<>>
    BY <1>1, <1>5
<1>6. CASE outside # <<>>
    <2> HIDE DEF outside
    <2>1. \A w \in DOMAIN outside : outside[w] \in T
        BY <1>4 DEF Range
    <2>2. 1 \in DOMAIN outside
        BY <1>4, <1>6
    <2>3. PICK k \in 1..Len(gold) : gold[k] = outside[1]
        <3>1. outside[1] \in Range(gold)
            BY <2>1, <2>2
        <3> QED
            BY <3>1 DEF Range
    <2>4. gold[k].value /\ ~gold[k].aside /\ gold[k] \in X
        BY <2>1, <2>2, <2>3
    <2>5. has_significant_text(gold) /\ wanted # <<>>
        <3>1. gold[k] \in Range(wanted)
            BY <1>3, <2>4 DEF Range
        <3>2. Range(<<>>) = {}
            BY DEF Range
        <3> QED
            BY <3>1, <3>2 DEF Worded
    <2>6. CASE stated # <<>>
        <3> DEFINE kept == {v \in Range(stated) : AboutYears(gold, wanted) \/ ~is_likely_year(v)}
        <3>1. {v.number : v \in Range(wanted)} \subseteq {v.number : v \in kept} /\ check_text_overlap(gold, answer)
            BY <1>2, <1>3, <2>5, <2>6 DEF fuzzy_match_answer
        <3>2. has_significant_text(answer)
            BY <2>5, <3>1 DEF check_text_overlap
        <3>3. ASSUME NEW w \in DOMAIN outside
              PROVE  \E s \in DOMAIN stated : outside[w].number = stated[s].number
            <4>1. outside[w] \in Range(wanted)
                BY <1>3, <2>1, <3>3
            <4>2. PICK v \in Range(stated) : v.number = outside[w].number
                BY <3>1, <4>1
            <4> HIDE DEF stated, outside
            <4>3. PICK s \in DOMAIN stated : stated[s] = v
                BY <4>2 DEF Range
            <4> QED
                BY <4>2, <4>3
        <3> QED
            BY <1>1, <3>2, <3>3 DEF outside
    <2>7. CASE stated = <<>>
        <3> DEFINE Y == SymbolsOf(X)
                   g == Plain(gold)
                   a == Plain(answer)
        <3>1. Within(g, a)
            BY <1>2, <1>3, <2>7 DEF fuzzy_match_answer
        <3>2. g \in Seq(Y) /\ a \in Seq(Y)
            BY PlainType
        <3> HIDE DEF Y
        <3>3. PICK j \in 1..Len(g) : g[j] = gold[k]
            BY <2>4, FigureStays
        <3>4. \A i \in 1..Len(a) : a[i] # gold[k]
            <4> DEFINE t == gold[k]
            <4>1. t \in X /\ t.value
                BY <2>4
            <4> HIDE DEF t
            <4>2. \A i \in 1..Len(Plain(answer)) : Plain(answer)[i] # t
                BY <2>7, <4>1, FigureComes
            <4> QED
                BY <4>2 DEF t
        <3> HIDE DEF g, a
        <3>5. \E i \in 1..Len(a) : a[i] = g[j]
            BY <3>1, <3>2, WithinPlaces
        <3> QED
            BY <3>3, <3>4, <3>5
    <2> QED
        BY <2>6, <2>7
<1> QED
    BY <1>5, <1>6

(* An answer that quotes gold is one the vendored matcher accepts.          *)
LEMMA QuotationMatches ==
    ASSUME NEW X, AllText(X), NEW answer \in Seq(X), NEW gold \in Seq(X), Within(gold, answer)
    PROVE  fuzzy_match_answer(gold, answer)
<1> DEFINE wanted == values(gold)
           stated == values(answer)
           kept == {v \in Range(stated) : AboutYears(gold, wanted) \/ ~is_likely_year(v)}
<1>1. /\ wanted \in Seq(X) /\ Range(wanted) = {t \in Range(gold) : t.value} /\ extract_numbers_with_context(gold) = wanted
      /\ stated \in Seq(X) /\ Range(stated) = {t \in Range(answer) : t.value} /\ extract_numbers_with_context(answer) = stated
    BY ValuesAre
<1>2. fuzzy_match_answer(gold, answer) <=>
          IF wanted # <<>> /\ stated # <<>>
          THEN {v.number : v \in Range(wanted)} \subseteq {v.number : v \in kept} /\ check_text_overlap(gold, answer)
          ELSE Within(Plain(gold), Plain(answer))
    BY <1>1 DEF fuzzy_match_answer
<1>3. ASSUME NEW v \in Range(wanted) PROVE v \in kept
    <2>1. v \in Range(gold) /\ v.value
        BY <1>1, <1>3
    <2>2. PICK j \in 1..Len(gold) : gold[j] = v
        BY <2>1 DEF Range
    <2>3. PICK i \in 1..Len(answer) : answer[i] = gold[j]
        BY WithinPlaces
    <2>4. v \in Range(stated)
        <3>1. answer[i] \in Range(answer)
            BY DEF Range
        <3>2. answer[i] = v
            BY <2>2, <2>3
        <3> HIDE DEF stated
        <3> QED
            BY <1>1, <2>1, <3>1, <3>2
    <2>5. is_likely_year(v) => AboutYears(gold, wanted)
        <3> HIDE DEF wanted
        <3>1. PICK k \in DOMAIN wanted : wanted[k] = v
            BY <1>3 DEF Range
        <3> QED
            BY <3>1 DEF AboutYears
    <2> QED
        BY <2>4, <2>5
<1>4. check_text_overlap(gold, answer)
    BY CleanedWithin DEF check_text_overlap
<1>5. Within(Plain(gold), Plain(answer))
    <2> DEFINE Y == SymbolsOf(X)
    <2>1. IsSymbols(X, Y)
        BY TextSymbols
    <2> HIDE DEF Y
    <2> QED
        BY <2>1, PlainWithin
<1> HIDE DEF kept
<1>6. {v.number : v \in Range(wanted)} \subseteq {v.number : v \in kept}
    BY <1>3
<1> QED
    BY <1>2, <1>4, <1>5, <1>6

(* What is accepted number for number, the vendored matcher accepts.        *)
LEMMA NumbersMatch ==
    ASSUME NEW X, AllText(X), NEW answer \in Seq(X), NEW gold \in Seq(X), ~Worded(gold),
           \A w \in DOMAIN values(gold) : \E s \in DOMAIN Stated(values(gold), answer) :
               values(gold)[w].number = Stated(values(gold), answer)[s].number
    PROVE  fuzzy_match_answer(gold, answer)
<1> DEFINE wanted == values(gold)
           stated == values(answer)
           said == Stated(wanted, answer)
           kept == {v \in Range(stated) : AboutYears(gold, wanted) \/ ~is_likely_year(v)}
<1>1. /\ wanted \in Seq(X) /\ extract_numbers_with_context(gold) = wanted
      /\ stated \in Seq(X) /\ extract_numbers_with_context(answer) = stated
    BY ValuesAre
<1>2. fuzzy_match_answer(gold, answer) <=>
          IF wanted # <<>> /\ stated # <<>>
          THEN {v.number : v \in Range(wanted)} \subseteq {v.number : v \in kept} /\ check_text_overlap(gold, answer)
          ELSE Within(Plain(gold), Plain(answer))
    BY <1>1 DEF fuzzy_match_answer
<1>3. said \in Seq(X) /\ \A s \in 1..Len(said) : said[s] \in Range(stated)
    BY StatedAre
<1>4. \A w \in DOMAIN wanted : \E s \in DOMAIN said : wanted[w].number = said[s].number
    OBVIOUS
<1>5. wanted # <<>> /\ ~has_significant_text(gold)
    BY DEF Worded
<1> HIDE DEF wanted, stated, said
<1>6. ASSUME NEW v \in Range(wanted) PROVE \E u \in kept : u.number = v.number
    <2>1. PICK w \in DOMAIN wanted : wanted[w] = v
        BY <1>6 DEF Range
    <2>2. PICK s \in DOMAIN said : wanted[w].number = said[s].number
        BY <1>4
    <2>3. said[s] \in Range(stated) /\ said[s].number = v.number
        BY <1>3, <2>1, <2>2
    <2>4. is_likely_year(said[s]) => AboutYears(gold, wanted)
        BY <2>1, <2>2 DEF AboutYears, is_likely_year
    <2> QED
        BY <2>3, <2>4
<1>7. stated # <<>>
    <2>1. 1 \in DOMAIN wanted
        BY <1>1, <1>5
    <2>2. PICK s \in DOMAIN said : TRUE
        BY <1>4, <2>1
    <2>3. said[s] \in Range(stated)
        BY <1>3
    <2>4. Range(<<>>) = {}
        BY DEF Range
    <2> QED
        BY <2>3, <2>4
<1> HIDE DEF kept
<1>8. {v.number : v \in Range(wanted)} \subseteq {v.number : v \in kept}
    BY <1>6
<1>9. check_text_overlap(gold, answer)
    BY <1>5 DEF check_text_overlap
<1> QED
    BY <1>2, <1>5, <1>7, <1>8, <1>9

(* answer_check.py and answer_match.py, for every answer and every gold: what *)
(* is accepted states gold's values, each with a value of its own, or, of a   *)
(* gold with words in it, every number outside parentheses; and an answer    *)
(* that quotes a gold with words in it is accepted.                          *)
THEOREM AnswersAreChecked ==
    ASSUME NEW X, AllText(X), NEW answer \in Seq(X), NEW gold \in Seq(X)
    PROVE  AcceptedIsGold(answer, gold) /\ QuotedIsAccepted(answer, gold)
<1>1. AcceptedIsGold(answer, gold)
    <2>1. CASE check(answer, gold) # "correct"
        BY <2>1 DEF AcceptedIsGold
    <2>2. CASE check(answer, gold) = "correct"
        BY <2>2, NumbersAccepted, WordsAccepted
    <2> QED
        BY <2>1, <2>2
<1>2. Worded(gold) /\ Within(gold, answer) => check(answer, gold) = "correct"
    BY QuotationMatches DEF check
<1>3. ASSUME ~Worded(gold), \A w \in DOMAIN values(gold) : \E s \in DOMAIN Stated(values(gold), answer) :
                 values(gold)[w].number = Stated(values(gold), answer)[s].number
      PROVE  fuzzy_match_answer(gold, answer)
    BY <1>3, NumbersMatch
<1> QED
    BY <1>1, <1>2, <1>3 DEF QuotedIsAccepted

-----------------------------------------------------------------------------
(* An input is made of its subject's alphabet.                             *)
InputType == subject \in DOMAIN Longest /\ input \in Seq(Alphabet[subject])

(* Inputs grow by an element of their subject's alphabet.                   *)
LEMMA InputStep == InputType /\ [Grow]_vars => InputType'
<1> SUFFICES ASSUME InputType, [Grow]_vars PROVE InputType'
    OBVIOUS
<1>1. CASE Grow
    <2>1. PICK x \in Alphabet[subject] : input' = Append(input, x)
        BY <1>1 DEF Grow
    <2>2. subject' = subject
        BY <1>1 DEF Grow
    <2> QED
        BY <2>1, <2>2, AppendProperties DEF InputType
<1>2. CASE UNCHANGED vars
    BY <1>2 DEF InputType, vars
<1> QED
    BY <1>1, <1>2

(* Every input that is reached is of its subject's type. *)
THEOREM InputsAreTyped == Spec => []InputType
<1>1. Init => InputType
    BY InputsOK DEF Init, InputType
<1> QED
    BY <1>1, InputStep, PTL DEF Spec

(* Whatever the answer and the gold: answer_check.py accepts only an answer  *)
(* that states the gold values or words, and accepts every answer that quotes *)
(* a gold with words in it.                                                 *)
THEOREM AnswersHoldAlways == Spec => []AnswersHold
<1>1. InputType => AnswersHold
    <2> SUFFICES ASSUME InputType, subject = "answer", NEW gold \in Golds
                 PROVE  AcceptedIsGold(input, gold) /\ QuotedIsAccepted(input, gold)
        BY DEF AnswersHold
    <2> DEFINE X == Alphabet["answer"] \cup {gold[k] : k \in DOMAIN gold}
    <2>1. AllText(X)
        BY InputsOK DEF AllText
    <2>2. input \in Seq(X)
        <3>1. input \in Seq(Alphabet["answer"])
            BY DEF InputType
        <3> QED
            BY <3>1
    <2>3. gold \in Seq(X)
        <3>1. gold \in Seq(Range(gold))
            BY InputsOK
        <3>2. Len(gold) \in Nat /\ gold = [k \in 1..Len(gold) |-> gold[k]] /\ DOMAIN gold = 1..Len(gold)
            BY <3>1
        <3>3. \A k \in 1..Len(gold) : gold[k] \in X
            BY <3>2
        <3> HIDE DEF X
        <3> QED
            BY <3>2, <3>3
    <2> HIDE DEF X
    <2> QED
        BY <2>1, <2>2, <2>3, AnswersAreChecked
<1> QED
    BY <1>1, InputsAreTyped, PTL

-----------------------------------------------------------------------------
\* Positions within some bounds, and tables of texts at such positions.
Boxed == {D \in SUBSET (Nat \X Nat) : \E B \in Nat : D \subseteq (0..B) \X (0..B)}
Grids == UNION {[D -> Nat] : D \in Boxed}
Tables == [occupied : Grids, header_rows : Nat, row : Nat, col : Nat]

(* Positions within bounds are finitely many.                               *)
LEMMA BoxedFinite ==
    ASSUME NEW D \in Boxed
    PROVE  IsFiniteSet(D)
<1>1. PICK B \in Nat : D \subseteq (0..B) \X (0..B)
    BY DEF Boxed
<1>2. IsFiniteSet(0..B)
    BY FS_Interval
<1>3. IsFiniteSet((0..B) \X (0..B))
    BY <1>2, FS_Product
<1> QED
    BY <1>1, <1>3, FS_Subset

(* So are those of two such sets.                                           *)
LEMMA BoxedUnion ==
    ASSUME NEW D \in Boxed, NEW E \in Boxed
    PROVE  D \cup E \in Boxed
<1>1. PICK B \in Nat : D \subseteq (0..B) \X (0..B)
    BY DEF Boxed
<1>2. PICK C \in Nat : E \subseteq (0..C) \X (0..C)
    BY DEF Boxed
<1> DEFINE M == B + C
<1>3. M \in Nat /\ 0..B \subseteq 0..M /\ 0..C \subseteq 0..M
    OBVIOUS
<1> HIDE DEF M
<1>4. D \cup E \subseteq (0..M) \X (0..M)
    BY <1>1, <1>2, <1>3
<1>5. D \cup E \in SUBSET (Nat \X Nat)
    BY DEF Boxed
<1> QED
    BY <1>3, <1>4, <1>5 DEF Boxed

(* A rectangle of positions.                                                *)
Spanned(p, cell) == (p[1]..(p[1] + cell.rowspan - 1)) \X (p[2]..(p[2] + cell.colspan - 1))

LEMMA SpanBoxed ==
    ASSUME NEW r \in Nat, NEW c \in Nat, NEW cell, cell.rowspan \in Nat \ {0}, cell.colspan \in Nat \ {0}
    PROVE  Spanned(<<r, c>>, cell) \in Boxed /\ <<r, c>> \in Spanned(<<r, c>>, cell)
<1> DEFINE m == r + cell.rowspan - 1
           n == c + cell.colspan - 1
           M == m + n
<1>1. m \in Nat /\ n \in Nat /\ r <= m /\ c <= n
    OBVIOUS
<1>2. Spanned(<<r, c>>, cell) = (r..m) \X (c..n)
    BY DEF Spanned
<1> HIDE DEF m, n
<1>3. M \in Nat /\ r..m \subseteq 0..M /\ c..n \subseteq 0..M
    BY <1>1
<1> HIDE DEF M
<1>4. (r..m) \X (c..n) \subseteq (0..M) \X (0..M)
    BY <1>3
<1>5. (r..m) \X (c..n) \in SUBSET (Nat \X Nat)
    BY <1>1
<1>6. r \in r..m /\ c \in c..n
    BY <1>1
<1> QED
    BY <1>2, <1>3, <1>4, <1>5, <1>6 DEF Boxed

(* A cell's column is the first from where the last one ended that no other *)
(* cell spans.                                                              *)
LEMMA FreeColumnIs ==
    ASSUME NEW t \in Tables
    PROVE  /\ FreeColumn(t) \in Nat /\ t.col <= FreeColumn(t)
           /\ <<t.row, FreeColumn(t)>> \notin DOMAIN t.occupied
<1> DEFINE D == DOMAIN t.occupied
           a == t.col
           r == t.row
           N == Cardinality(D)
           C == a..(a + N)
           F == {c \in C : <<r, c>> \notin D}
<1>1. D \in Boxed /\ a \in Nat /\ r \in Nat
    <2>1. t.occupied \in Grids /\ t.col \in Nat /\ t.row \in Nat
        BY DEF Tables
    <2> QED
        BY <2>1 DEF Grids
<1>2. FreeColumn(t) = CHOOSE c \in C : <<r, c>> \notin D /\ \A d \in a..(c - 1) : <<r, d>> \in D
    BY DEF FreeColumn
<1> HIDE DEF D, a, r
<1>3. IsFiniteSet(D) /\ N \in Nat
    BY <1>1, BoxedFinite, FS_CardinalityType
<1> HIDE DEF N
<1>4. F # {}
    <2> SUFFICES ASSUME \A c \in C : <<r, c>> \in D PROVE FALSE
        OBVIOUS
    <2> DEFINE f == [c \in C |-> <<r, c>>]
    <2>1. f \in [C -> D] /\ \A x, y \in C : f[x] = f[y] => x = y
        OBVIOUS
    <2>2. f \in Injection(C, D)
        BY <2>1 DEF Injection, IsInjective
    <2>3. Cardinality(C) <= Cardinality(D)
        BY <1>3, <2>2, FS_Injection
    <2>4. Cardinality(C) = N + 1
        <3>1. a \in Int /\ a + N \in Int /\ ~(a > a + N) /\ (a + N) - a + 1 = N + 1
            BY <1>1, <1>3
        <3> QED
            BY <3>1, FS_Interval
    <2> QED
        BY <1>3, <2>3, <2>4 DEF N
<1>5. F \in SUBSET Nat
    BY <1>1, <1>3
<1>6. PICK c \in F : \A d \in F : c <= d
    <2> HIDE DEF F
    <2> QED
        BY <1>4, <1>5, FirstExists
<1>7. c \in C /\ <<r, c>> \notin D /\ \A d \in a..(c - 1) : <<r, d>> \in D
    BY <1>1, <1>3, <1>6
<1>8. FreeColumn(t) \in C /\ <<r, FreeColumn(t)>> \notin D
    BY <1>2, <1>7
<1> QED
    BY <1>1, <1>3, <1>8 DEF D, a, r

IsCell(cell) == {cell.rowspan, cell.colspan} \subseteq Nat \ {0} /\ {cell.th, cell.closed} \subseteq BOOLEAN

LEMMA TableFields ==
    ASSUME NEW t \in Tables
    PROVE  /\ t.occupied \in [DOMAIN t.occupied -> Nat] /\ DOMAIN t.occupied \in Boxed
           /\ t.header_rows \in Nat /\ t.row \in Nat /\ t.col \in Nat
           /\ t = [occupied |-> t.occupied, header_rows |-> t.header_rows, row |-> t.row, col |-> t.col]
<1>1. t.occupied \in Grids /\ t.header_rows \in Nat /\ t.row \in Nat /\ t.col \in Nat
      /\ t = [occupied |-> t.occupied, header_rows |-> t.header_rows, row |-> t.row, col |-> t.col]
    BY DEF Tables
<1>2. PICK D \in Boxed : t.occupied \in [D -> Nat]
    BY <1>1 DEF Grids
<1>3. DOMAIN t.occupied = D
    BY <1>2
<1> QED
    BY <1>1, <1>2, <1>3

(* A cell that is closed, in the first free column: its text at its origin, *)
(* nothing elsewhere in its span, all else as it was.                       *)
Gridded(t, cell, text, c, u) ==
    /\ c \in Nat /\ t.col <= c /\ <<t.row, c>> \notin DOMAIN t.occupied
    /\ u \in Tables
    /\ DOMAIN u.occupied = DOMAIN t.occupied \cup Spanned(<<t.row, c>>, cell)
    /\ \A p \in Spanned(<<t.row, c>>, cell) : u.occupied[p] = IF p = <<t.row, c>> THEN text ELSE 0
    /\ \A p \in DOMAIN t.occupied : p \notin Spanned(<<t.row, c>>, cell) => u.occupied[p] = t.occupied[p]
    /\ u.row = t.row /\ u.col = c + cell.colspan
    /\ u.header_rows = IF cell.th /\ t.row > t.header_rows THEN t.row ELSE t.header_rows

LEMMA CellGrid ==
    ASSUME NEW t \in Tables, NEW cell, IsCell(cell), cell.closed, NEW text \in Nat
    PROVE  Gridded(t, cell, text, StartColumn(t), CellEnds(t, cell, text))
<1> DEFINE c == StartColumn(t)
           u == CellEnds(t, cell, text)
           D == DOMAIN t.occupied
           o == <<t.row, c>>
           S == Spanned(o, cell)
           more == [p \in S |-> IF p = o THEN text ELSE 0]
           grid == Put(t.occupied, more)
           h == IF cell.th /\ t.row > t.header_rows THEN t.row ELSE t.header_rows
<1>1. c \in Nat /\ t.col <= c /\ o \notin D
    BY FreeColumnIs DEF StartColumn
<1>2. /\ t.occupied \in [D -> Nat] /\ D \in Boxed /\ t.header_rows \in Nat /\ t.row \in Nat /\ t.col \in Nat
      /\ t = [occupied |-> t.occupied, header_rows |-> t.header_rows, row |-> t.row, col |-> t.col]
    BY TableFields
<1>3. S \in Boxed
    BY <1>1, <1>2, SpanBoxed DEF IsCell
<1>4. cell.colspan \in Nat /\ cell.colspan \in Nat \ {0}
    BY DEF IsCell
<1>5. /\ S = (t.row..(t.row + cell.rowspan - 1)) \X (c..(c + cell.colspan - 1))
    <2>1. o[1] = t.row /\ o[2] = c
        OBVIOUS
    <2> QED
        BY <2>1 DEF Spanned
<1>6. u = [t EXCEPT !.occupied = grid, !.col = c + cell.colspan, !.header_rows = h]
    BY <1>5 DEF CellEnds, Empty
<1> HIDE DEF S
<1> HIDE DEF c, u
<1>7. grid = [p \in D \cup S |-> IF p \in S THEN more[p] ELSE t.occupied[p]]
    BY DEF Put
<1>8. \A p \in S : more[p] = IF p = o THEN text ELSE 0
    OBVIOUS
<1>9. \A p \in S : more[p] \in Nat
    OBVIOUS
<1> HIDE DEF more, grid, D
<1>10. D \cup S \in Boxed
    BY <1>2, <1>3, BoxedUnion
<1>11. grid \in [D \cup S -> Nat]
    BY <1>2, <1>7, <1>9
<1>12. grid \in Grids
    BY <1>10, <1>11 DEF Grids
<1>13. h \in Nat /\ c + cell.colspan \in Nat
    BY <1>1, <1>2, <1>4
<1>14. u = [occupied |-> grid, header_rows |-> h, row |-> t.row, col |-> c + cell.colspan]
    BY <1>2, <1>6
<1> HIDE DEF h
<1>15. u \in Tables
    BY <1>2, <1>12, <1>13, <1>14 DEF Tables
<1>16. u.occupied = grid /\ u.header_rows = h /\ u.row = t.row /\ u.col = c + cell.colspan
    BY <1>14
<1>17. DOMAIN u.occupied = D \cup S
    BY <1>7, <1>16
<1>18. \A p \in S : u.occupied[p] = IF p = o THEN text ELSE 0
    BY <1>7, <1>8, <1>16
<1>19. \A p \in D : p \notin S => u.occupied[p] = t.occupied[p]
    BY <1>7, <1>16
<1> QED
    BY <1>1, <1>15, <1>16, <1>17, <1>18, <1>19 DEF D, S, h, c, u, Gridded

(* One that is cut off only moves on to its column.                         *)
LEMMA CellOpen ==
    ASSUME NEW t \in Tables, NEW cell, ~cell.closed, NEW text \in Nat, NEW u, u = CellEnds(t, cell, text)
    PROVE  /\ u \in Tables /\ u.occupied = t.occupied /\ u.row = t.row /\ u.header_rows = t.header_rows
           /\ t.col <= u.col
<1>1. StartColumn(t) \in Nat /\ t.col <= StartColumn(t)
    BY FreeColumnIs DEF StartColumn
<1>2. u = [t EXCEPT !.col = StartColumn(t)]
    BY DEF CellEnds
<1>3. /\ t.occupied \in [DOMAIN t.occupied -> Nat] /\ DOMAIN t.occupied \in Boxed
      /\ t.header_rows \in Nat /\ t.row \in Nat /\ t.col \in Nat
      /\ t = [occupied |-> t.occupied, header_rows |-> t.header_rows, row |-> t.row, col |-> t.col]
    BY TableFields
<1>4. u = [occupied |-> t.occupied, header_rows |-> t.header_rows, row |-> t.row, col |-> StartColumn(t)]
    BY <1>2, <1>3
<1>5. t.occupied \in Grids
    BY DEF Tables
<1> QED
    BY <1>1, <1>3, <1>4, <1>5 DEF Tables

(* An empty table is one.                                                   *)
LEMMA NoTableIs == NoTable \in Tables /\ DOMAIN NoTable.occupied = {}
<1>1. {} \in Boxed
    BY DEF Boxed
<1>2. <<>> \in [{} -> Nat]
    OBVIOUS
<1>3. <<>> \in Grids
    BY <1>1, <1>2 DEF Grids
<1> QED
    BY <1>3 DEF NoTable, Tables

ComesFirst(q, p) == q[1] < p[1] \/ (q[1] = p[1] /\ q[2] < p[2])
Written(t) == {p \in DOMAIN t.occupied : t.occupied[p] # 0}

\* A text in a table is of a closed cell, was put before where the next may go, and has all its span.
Grown(t, tags, n) ==
    /\ \A p \in DOMAIN t.occupied : t.occupied[p] \in 0..n
    /\ \A p \in Written(t) :
          LET cell == tags[t.occupied[p]]
          IN /\ cell.tag = "cell" /\ cell.closed
             /\ p[1] <= t.row /\ (p[1] = t.row => p[2] < t.col)
             /\ Spanned(p, cell) \subseteq DOMAIN t.occupied

Apart(t, tags) ==
    \A p, q \in Written(t) :
        /\ t.occupied[q] = t.occupied[p] => q = p
        /\ t.occupied[q] < t.occupied[p] => ComesFirst(q, p)
        /\ t.occupied[q] # t.occupied[p] => p \notin Spanned(q, tags[t.occupied[q]])

Headed(t) == t.header_rows <= t.row /\ (t.header_rows # 0 => \E p \in DOMAIN t.occupied : p[1] = t.header_rows)

Consistent(t, tags, n) == t \in Tables /\ Grown(t, tags, n) /\ Apart(t, tags) /\ Headed(t)

CellKept(t, tags, n, u) ==
    /\ Consistent(u, tags, n + 1) /\ u.row = t.row
    /\ <<t.row, StartColumn(t)>> \in Written(u)
    /\ u.occupied[<<t.row, StartColumn(t)>>] = n + 1
    /\ \A p \in Written(t) : p \in Written(u) /\ u.occupied[p] = t.occupied[p]
    /\ \A p \in Written(u) : p = <<t.row, StartColumn(t)>> \/ p \in Written(t)

(* The next cell keeps all that.                                            *)
LEMMA CellKeeps ==
    ASSUME NEW tags, NEW n \in Nat, NEW t, Consistent(t, tags, n),
           tags[n + 1].tag = "cell", IsCell(tags[n + 1]), tags[n + 1].closed,
           NEW u, u = CellEnds(t, tags[n + 1], n + 1)
    PROVE  CellKept(t, tags, n, u)
<1> DEFINE c == StartColumn(t)
           r == t.row
           o == <<r, c>>
           cell == tags[n + 1]
           S == Spanned(o, cell)
           D == DOMAIN t.occupied
           E == DOMAIN u.occupied
<1>1. /\ c \in Nat /\ t.col <= c /\ o \notin D /\ u \in Tables /\ E = D \cup S
      /\ \A p \in S : u.occupied[p] = IF p = o THEN n + 1 ELSE 0
      /\ \A p \in D : p \notin S => u.occupied[p] = t.occupied[p]
      /\ u.row = r /\ u.col = c + cell.colspan
      /\ u.header_rows = IF cell.th /\ r > t.header_rows THEN r ELSE t.header_rows
    <2>1. t \in Tables /\ n + 1 \in Nat /\ c = StartColumn(t) /\ u = CellEnds(t, cell, n + 1) /\ IsCell(cell) /\ cell.closed
        BY DEF Consistent
    <2> DEFINE text == n + 1
    <2> HIDE DEF c, cell, text
    <2>2. text \in Nat /\ u = CellEnds(t, cell, text)
        BY <2>1 DEF text
    <2>3. Gridded(t, cell, text, c, u)
        BY <2>1, <2>2, CellGrid
    <2> QED
        BY <2>3 DEF text, Gridded
<1>2. /\ t.occupied \in [D -> Nat] /\ D \in Boxed /\ t.header_rows \in Nat /\ r \in Nat /\ t.col \in Nat
    BY TableFields DEF Consistent
<1>3. cell.colspan \in Nat \ {0} /\ cell.rowspan \in Nat \ {0} /\ cell.tag = "cell" /\ cell.closed
    BY DEF IsCell
<1>4. o \in S /\ S = (r..(r + cell.rowspan - 1)) \X (c..(c + cell.colspan - 1)) /\ o[1] = r /\ o[2] = c
    <2>1. o[1] = r /\ o[2] = c
        OBVIOUS
    <2>2. o \in S
        BY <1>1, <1>2, <1>3, SpanBoxed
    <2> QED
        BY <2>1, <2>2 DEF Spanned
<1>5. \A p \in D : p \in Nat \X Nat /\ p[1] \in Nat /\ p[2] \in Nat
    BY <1>2 DEF Boxed
<1> DEFINE W == Written(t)
           V == Written(u)
<1>6. \A p \in W : p \in D /\ t.occupied[p] # 0 /\ t.occupied[p] \in 0..n
    BY DEF Consistent, Grown, Written
<1>7. \A p \in W : p[1] <= r /\ (p[1] = r => p[2] < t.col) /\ Spanned(p, tags[t.occupied[p]]) \subseteq D
                   /\ tags[t.occupied[p]].tag = "cell" /\ tags[t.occupied[p]].closed
    BY DEF Consistent, Grown
<1> HIDE DEF c, r, S, D, cell
<1>8. \A p \in W : p \notin S
    <2> SUFFICES ASSUME NEW p \in W, p \in S PROVE FALSE
        OBVIOUS
    <2>1. p[1] \in r..(r + cell.rowspan - 1) /\ p[2] \in c..(c + cell.colspan - 1)
        BY <1>4
    <2>2. p[1] \in Nat /\ p[2] \in Nat
        BY <1>5, <1>6
    <2>3. p[1] = r
        BY <1>2, <1>7, <2>1, <2>2
    <2>4. p[2] < t.col
        BY <1>7, <2>3
    <2> QED
        BY <1>1, <1>2, <2>1, <2>2, <2>4
<1>9. \A p \in W : p \in V /\ u.occupied[p] = t.occupied[p]
    BY <1>1, <1>6, <1>8 DEF Written
<1>10. o \in V /\ u.occupied[o] = n + 1
    <2>1. o \in E /\ u.occupied[o] = n + 1
        BY <1>1, <1>4
    <2>2. n + 1 # 0
        OBVIOUS
    <2> QED
        BY <2>1, <2>2 DEF Written
<1>11. \A p \in V : p = o \/ p \in W
    <2> SUFFICES ASSUME NEW p \in V, p # o PROVE p \in W
        OBVIOUS
    <2>1. p \in E /\ u.occupied[p] # 0
        BY DEF Written
    <2>2. p \notin S
        BY <1>1, <2>1
    <2> QED
        BY <1>1, <2>1, <2>2 DEF Written, D
<1> HIDE DEF W, V, E, o
<1>12. Grown(u, tags, n + 1)
    <2>1. ASSUME NEW p \in E PROVE u.occupied[p] \in 0..(n + 1)
        <3>1. CASE p \in S
            BY <1>1, <3>1
        <3>2. CASE p \notin S
            <4>1. p \in D /\ u.occupied[p] = t.occupied[p]
                BY <1>1, <3>2
            <4>2. t.occupied[p] \in 0..n
                BY <4>1 DEF Consistent, Grown, D
            <4> QED
                BY <4>1, <4>2
        <3> QED
            BY <3>1, <3>2
    <2>2. ASSUME NEW p \in V
          PROVE  /\ tags[u.occupied[p]].tag = "cell" /\ tags[u.occupied[p]].closed
                 /\ p[1] <= u.row /\ (p[1] = u.row => p[2] < u.col)
                 /\ Spanned(p, tags[u.occupied[p]]) \subseteq E
        <3>1. CASE p = o
            <4>1. tags[u.occupied[p]] = cell /\ Spanned(p, cell) = S
                BY <1>10, <3>1 DEF cell, S
            <4>2. p[1] = r /\ p[2] = c
                BY <1>4, <3>1
            <4>3. r <= u.row /\ c < u.col
                BY <1>1, <1>2, <1>3
            <4> QED
                BY <1>1, <1>3, <4>1, <4>2, <4>3
        <3>2. CASE p # o
            <4>1. p \in W /\ u.occupied[p] = t.occupied[p]
                BY <1>9, <1>11, <3>2
            <4>2. p[1] <= u.row
                BY <1>1, <1>7, <4>1
            <4>3. p[1] = u.row => p[2] < u.col
                <5>1. p[2] \in Nat
                    BY <1>5, <1>6, <4>1
                <5>2. c < u.col
                    BY <1>1, <1>3
                <5>3. u.col \in Nat
                    BY <1>1, <1>3
                <5> QED
                    BY <1>1, <1>2, <1>7, <4>1, <5>1, <5>2, <5>3
            <4> QED
                BY <1>1, <1>7, <4>1, <4>2, <4>3
        <3> QED
            BY <3>1, <3>2
    <2> QED
        BY <2>1, <2>2 DEF Grown, E, V
<1>13. Apart(u, tags)
    <2> SUFFICES ASSUME NEW p \in V, NEW q \in V
                 PROVE  /\ u.occupied[q] = u.occupied[p] => q = p
                        /\ u.occupied[q] < u.occupied[p] => ComesFirst(q, p)
                        /\ u.occupied[q] # u.occupied[p] => p \notin Spanned(q, tags[u.occupied[q]])
        BY DEF Apart, V
    <2>1. ASSUME NEW x \in W PROVE u.occupied[x] = t.occupied[x] /\ t.occupied[x] \in 0..n /\ t.occupied[x] < n + 1
        BY <1>6, <1>9
    <2>2. CASE p = o /\ q = o
        BY <1>10, <2>2
    <2>3. CASE p = o /\ q # o
        <3>1. q \in W
            BY <1>11, <2>3
        <3>2. u.occupied[q] = t.occupied[q] /\ u.occupied[q] # u.occupied[p]
            BY <1>10, <2>1, <2>3, <3>1
        <3>3. ComesFirst(q, p)
            <4>1. q[1] \in Nat /\ q[2] \in Nat /\ q[1] <= r /\ (q[1] = r => q[2] < t.col)
                BY <1>5, <1>6, <1>7, <3>1
            <4>2. p[1] = r /\ p[2] = c
                BY <1>4, <2>3
            <4> QED
                BY <1>1, <1>2, <4>1, <4>2 DEF ComesFirst
        <3>4. p \notin Spanned(q, tags[u.occupied[q]])
            BY <1>1, <1>7, <2>3, <3>1, <3>2
        <3> QED
            BY <3>2, <3>3, <3>4
    <2>4. CASE p # o /\ q = o
        <3>1. p \in W
            BY <1>11, <2>4
        <3>2. u.occupied[p] \in 0..n /\ u.occupied[q] = n + 1 /\ u.occupied[q] # u.occupied[p] /\ ~(u.occupied[q] < u.occupied[p])
            <4>1. u.occupied[p] \in 0..n
                BY <2>1, <3>1
            <4>2. u.occupied[q] = n + 1
                BY <1>10, <2>4
            <4> QED
                BY <4>1, <4>2
        <3>3. Spanned(q, tags[u.occupied[q]]) = S
            BY <2>4, <3>2 DEF S, cell
        <3>4. p \notin S
            BY <1>8, <3>1
        <3> QED
            BY <3>2, <3>3, <3>4
    <2>5. CASE p # o /\ q # o
        <3>1. p \in W /\ q \in W
            BY <1>11, <2>5
        <3>2. u.occupied[p] = t.occupied[p] /\ u.occupied[q] = t.occupied[q]
            BY <2>1, <3>1
        <3>3. /\ t.occupied[q] = t.occupied[p] => q = p
              /\ t.occupied[q] < t.occupied[p] => ComesFirst(q, p)
              /\ t.occupied[q] # t.occupied[p] => p \notin Spanned(q, tags[t.occupied[q]])
            BY <3>1 DEF Consistent, Apart, W
        <3> QED
            BY <3>2, <3>3
    <2> QED
        BY <2>2, <2>3, <2>4, <2>5
<1>14. Headed(u)
    <2>1. t.header_rows <= r /\ (t.header_rows # 0 => \E p \in D : p[1] = t.header_rows)
        BY DEF Consistent, Headed, r, D
    <2>2. CASE cell.th /\ r > t.header_rows
        <3>1. u.header_rows = r /\ u.row = r /\ o \in E /\ o[1] = r
            BY <1>1, <1>4, <2>2
        <3> QED
            BY <1>2, <3>1 DEF Headed, E
    <2>3. CASE ~(cell.th /\ r > t.header_rows)
        <3>1. u.header_rows = t.header_rows /\ u.row = r /\ D \subseteq E
            BY <1>1, <2>3
        <3> QED
            BY <2>1, <3>1 DEF Headed, E
    <2> QED
        BY <2>2, <2>3
<1> QED
    BY <1>1, <1>9, <1>10, <1>11, <1>12, <1>13, <1>14 DEF CellKept, Consistent, o, W, V, c, r

Parsers == [depth : Nat, in_table : BOOLEAN, table : Tables, tables : Seq(Tables)]
Parser(depth, in_table, table, tables) == [depth |-> depth, in_table |-> in_table, table |-> table, tables |-> tables]

NextRow(t) == [t EXCEPT !.row = @ + 1, !.col = 1]
Ended(acc) == acc.depth = 1 /\ acc.in_table

Feeds(acc, i, tag, next) ==
    /\ next \in Parsers
    /\ tag.tag = "table" =>
          next = IF acc.depth = 0 THEN Parser(1, TRUE, NoTable, acc.tables)
                                  ELSE Parser(acc.depth + 1, acc.in_table, acc.table, acc.tables)
    /\ tag.tag = "tr" =>
          next = Parser(acc.depth, acc.in_table, IF acc.in_table THEN NextRow(acc.table) ELSE acc.table, acc.tables)
    /\ tag.tag = "cell" =>
          next = Parser(acc.depth, acc.in_table, IF acc.in_table THEN CellEnds(acc.table, tag, i) ELSE acc.table, acc.tables)
    /\ tag.tag = "/table" =>
          next = Parser(IF acc.depth > 0 THEN acc.depth - 1 ELSE 0, acc.in_table /\ acc.depth # 1, acc.table,
                        IF Ended(acc) /\ Built(acc.table) THEN Append(acc.tables, acc.table) ELSE acc.tables)

(* The next row of a table is one of a table.                               *)
LEMMA NextRowIs ==
    ASSUME NEW t \in Tables
    PROVE  /\ NextRow(t) \in Tables /\ NextRow(t).occupied = t.occupied /\ NextRow(t).header_rows = t.header_rows
           /\ NextRow(t).row = t.row + 1 /\ NextRow(t).col = 1
<1>1. /\ t.occupied \in Grids /\ t.header_rows \in Nat /\ t.row \in Nat /\ t.col \in Nat
      /\ t = [occupied |-> t.occupied, header_rows |-> t.header_rows, row |-> t.row, col |-> t.col]
    BY DEF Tables
<1>2. NextRow(t) = [occupied |-> t.occupied, header_rows |-> t.header_rows, row |-> t.row + 1, col |-> 1]
    <2> DEFINE next == NextRow(t)
    <2>1. next = [t EXCEPT !.row = t.row + 1, !.col = 1]
        BY DEF NextRow
    <2>2. DOMAIN next = {"occupied", "header_rows", "row", "col"}
        BY <1>1, <2>1
    <2>3. next.row = t.row + 1 /\ next.col = 1 /\ next.occupied = t.occupied /\ next.header_rows = t.header_rows
        BY <1>1, <2>1
    <2>4. next = [x \in DOMAIN next |-> next[x]]
        BY <2>1
    <2> HIDE DEF next
    <2>5. next = [occupied |-> next.occupied, header_rows |-> next.header_rows, row |-> next.row, col |-> next.col]
        BY <2>2, <2>4
    <2>6. next = [occupied |-> t.occupied, header_rows |-> t.header_rows, row |-> t.row + 1, col |-> 1]
        BY <2>3, <2>5
    <2> QED
        BY <2>6 DEF next
<1> QED
    BY <1>1, <1>2 DEF Tables

(* What a tag does to the parser.                                           *)
LEMMA FeedIs ==
    ASSUME NEW acc \in Parsers, NEW tag, IsTag(tag), NEW i \in Nat
    PROVE  Feeds(acc, i, tag, Feed(acc, i, tag))
<1>1. /\ acc.depth \in Nat /\ acc.in_table \in BOOLEAN /\ acc.table \in Tables /\ acc.tables \in Seq(Tables)
      /\ acc = Parser(acc.depth, acc.in_table, acc.table, acc.tables)
    BY DEF Parsers, Parser
<1>2. tag.tag \in {"table", "tr", "cell", "/table"}
    BY DEF IsTag
<1> DEFINE next == Feed(acc, i, tag)
<1>3. \A d \in Nat, b \in BOOLEAN, t \in Tables, ts \in Seq(Tables) : Parser(d, b, t, ts) \in Parsers
    BY DEF Parser, Parsers
<1>4. CASE tag.tag = "table"
    <2>1. next = IF acc.depth = 0 THEN [acc EXCEPT !.depth = 1, !.in_table = TRUE, !.table = NoTable]
                                  ELSE [acc EXCEPT !.depth = @ + 1]
        BY <1>4 DEF Feed
    <2>2. next = IF acc.depth = 0 THEN Parser(1, TRUE, NoTable, acc.tables)
                                  ELSE Parser(acc.depth + 1, acc.in_table, acc.table, acc.tables)
        BY <1>1, <2>1 DEF Parser
    <2>3. next \in Parsers
        <3>1. Parser(1, TRUE, NoTable, acc.tables) \in Parsers
            BY <1>1, <1>3, NoTableIs
        <3>2. acc.depth + 1 \in Nat
            BY <1>1
        <3>3. Parser(acc.depth + 1, acc.in_table, acc.table, acc.tables) \in Parsers
            BY <1>1, <1>3, <3>2
        <3> HIDE DEF next
        <3> QED
            BY <2>2, <3>1, <3>3
    <2> HIDE DEF next
    <2> QED
        BY <1>4, <2>2, <2>3 DEF Feeds, next
<1>5. CASE tag.tag = "tr"
    <2>1. next = IF acc.in_table THEN [acc EXCEPT !.table.row = @ + 1, !.table.col = 1] ELSE acc
        BY <1>5 DEF Feed
    <2>2. NextRow(acc.table) \in Tables
        BY <1>1, NextRowIs
    <2>3. next = Parser(acc.depth, acc.in_table, IF acc.in_table THEN NextRow(acc.table) ELSE acc.table, acc.tables)
        BY <1>1, <2>1 DEF Parser, NextRow
    <2>4. next \in Parsers
        BY <1>1, <1>3, <2>2, <2>3
    <2> HIDE DEF next
    <2> QED
        BY <1>5, <2>3, <2>4 DEF Feeds, next
<1>6. CASE tag.tag = "cell"
    <2>1. next = IF acc.in_table THEN [acc EXCEPT !.table = CellEnds(@, tag, i)] ELSE acc
        BY <1>6 DEF Feed
    <2>2. IsCell(tag)
        BY <1>6 DEF IsTag, IsCell
    <2>3. CellEnds(acc.table, tag, i) \in Tables
        <3>1. CASE tag.closed
            <4>1. Gridded(acc.table, tag, i, StartColumn(acc.table), CellEnds(acc.table, tag, i))
                BY <1>1, <2>2, <3>1, CellGrid
            <4> QED
                BY <4>1 DEF Gridded
        <3>2. CASE ~tag.closed
            BY <1>1, <3>2, CellOpen
        <3> QED
            BY <3>1, <3>2
    <2>4. next = Parser(acc.depth, acc.in_table, IF acc.in_table THEN CellEnds(acc.table, tag, i) ELSE acc.table, acc.tables)
        BY <1>1, <2>1 DEF Parser
    <2>5. next \in Parsers
        BY <1>1, <1>3, <2>3, <2>4
    <2> HIDE DEF next
    <2> QED
        BY <1>6, <2>4, <2>5 DEF Feeds, next
<1>7. CASE tag.tag = "/table"
    <2>1. next = [acc EXCEPT !.depth = IF @ > 0 THEN @ - 1 ELSE 0,
                        !.tables = IF acc.depth = 1 /\ acc.in_table /\ Built(acc.table)
                                   THEN Append(@, acc.table) ELSE @,
                        !.in_table = @ /\ acc.depth # 1]
        BY <1>7 DEF Feed
    <2>2. next = Parser(IF acc.depth > 0 THEN acc.depth - 1 ELSE 0, acc.in_table /\ acc.depth # 1, acc.table,
                        IF Ended(acc) /\ Built(acc.table) THEN Append(acc.tables, acc.table) ELSE acc.tables)
        BY <1>1, <2>1 DEF Parser, Ended
    <2>3. next \in Parsers
        <3>1. (IF acc.depth > 0 THEN acc.depth - 1 ELSE 0) \in Nat
            BY <1>1
        <3>2. (acc.in_table /\ acc.depth # 1) \in BOOLEAN
            OBVIOUS
        <3>3. (IF Ended(acc) /\ Built(acc.table) THEN Append(acc.tables, acc.table) ELSE acc.tables) \in Seq(Tables)
            BY <1>1
        <3> QED
            BY <1>1, <1>3, <2>2, <3>1, <3>2, <3>3
    <2> HIDE DEF next
    <2> QED
        BY <1>7, <2>2, <2>3 DEF Feeds, next
<1> QED
    BY <1>2, <1>4, <1>5, <1>6, <1>7

(* A table whose columns count from 1.                                      *)
FromOne(t) == t.col >= 1 /\ \A p \in DOMAIN t.occupied : p[2] >= 1

Woven(t, tags, n) == Consistent(t, tags, n) /\ FromOne(t)

(* The positions of a table, and what is at them.                           *)
LEMMA Positions ==
    ASSUME NEW t \in Tables, NEW p \in DOMAIN t.occupied
    PROVE  /\ p[1] \in Nat /\ p[2] \in Nat /\ p = <<p[1], p[2]>>
           /\ t.occupied[p] \in Nat
<1>1. t.occupied \in [DOMAIN t.occupied -> Nat] /\ DOMAIN t.occupied \in Boxed
    BY TableFields
<1>2. DOMAIN t.occupied \in SUBSET (Nat \X Nat)
    BY <1>1 DEF Boxed
<1> QED
    BY <1>1, <1>2

(* A table read so far is one later.                                        *)
LEMMA TableLater ==
    ASSUME NEW tags, NEW n \in Nat, NEW t, Woven(t, tags, n)
    PROVE  Woven(t, tags, n + 1)
<1>1. Consistent(t, tags, n) /\ FromOne(t)
    BY DEF Woven
<1>2. Grown(t, tags, n) /\ t \in Tables
    BY <1>1 DEF Consistent
<1>3. \A p \in DOMAIN t.occupied : t.occupied[p] \in 0..(n + 1)
    BY <1>2 DEF Grown
<1>4. Grown(t, tags, n + 1)
    BY <1>2, <1>3 DEF Grown
<1> QED
    BY <1>1, <1>4 DEF Woven, Consistent

(* The first table has nothing.                                             *)
LEMMA NothingWoven ==
    ASSUME NEW tags, NEW n \in Nat
    PROVE  Woven(NoTable, tags, n) /\ Written(NoTable) = {} /\ NoTable.row = 0
<1>1. NoTable \in Tables /\ DOMAIN NoTable.occupied = {}
    BY NoTableIs
<1>2. NoTable.header_rows = 0 /\ NoTable.row = 0 /\ NoTable.col = 1
    BY DEF NoTable
<1>3. Written(NoTable) = {}
    BY <1>1 DEF Written
<1>4. Grown(NoTable, tags, n)
    BY <1>1, <1>3 DEF Grown
<1>5. Apart(NoTable, tags)
    BY <1>3 DEF Apart
<1>6. Headed(NoTable) /\ FromOne(NoTable)
    BY <1>1, <1>2 DEF Headed, FromOne
<1> QED
    BY <1>1, <1>2, <1>3, <1>4, <1>5, <1>6 DEF Woven, Consistent

(* A row opened in a table changes nothing of what is in it.                *)
LEMMA RowWoven ==
    ASSUME NEW tags, NEW n \in Nat, NEW t, Woven(t, tags, n)
    PROVE  Woven(NextRow(t), tags, n) /\ Written(NextRow(t)) = Written(t)
<1>1. t \in Tables /\ Grown(t, tags, n) /\ Apart(t, tags) /\ Headed(t) /\ FromOne(t)
    BY DEF Woven, Consistent
<1>2. t.row \in Nat /\ t.col \in Nat /\ t.header_rows \in Nat
    BY <1>1, TableFields
<1>3. /\ NextRow(t) \in Tables /\ NextRow(t).occupied = t.occupied /\ NextRow(t).header_rows = t.header_rows
      /\ NextRow(t).row = t.row + 1 /\ NextRow(t).col = 1
    BY <1>1, NextRowIs
<1> DEFINE u == NextRow(t)
<1> HIDE DEF u
<1>4. /\ u \in Tables /\ u.occupied = t.occupied /\ u.header_rows = t.header_rows /\ u.row = t.row + 1 /\ u.col = 1
    BY <1>3 DEF u
<1>5. Written(u) = Written(t)
    BY <1>4 DEF Written
<1>6. ASSUME NEW p \in Written(u)
      PROVE  LET cell == tags[u.occupied[p]]
             IN /\ cell.tag = "cell" /\ cell.closed
                /\ p[1] <= u.row /\ (p[1] = u.row => p[2] < u.col)
                /\ Spanned(p, cell) \subseteq DOMAIN u.occupied
    <2>1. p \in Written(t) /\ p \in DOMAIN t.occupied
        BY <1>5 DEF Written
    <2>2. p[1] \in Nat
        BY <1>1, <2>1, Positions
    <2>3. p[1] <= t.row
        BY <1>1, <2>1 DEF Grown
    <2>4. p[1] <= u.row /\ p[1] # u.row
        BY <1>2, <1>4, <2>2, <2>3
    <2> QED
        BY <1>1, <1>4, <2>1, <2>4 DEF Grown
<1>7. Grown(u, tags, n)
    BY <1>1, <1>4, <1>6 DEF Grown
<1>8. Apart(u, tags)
    BY <1>1, <1>4, <1>5 DEF Apart
<1>9. Headed(u) /\ FromOne(u)
    BY <1>1, <1>2, <1>4 DEF Headed, FromOne
<1> QED
    BY <1>4, <1>5, <1>7, <1>8, <1>9 DEF Woven, Consistent, u

(* A cell that is not closed puts nothing in a table.                       *)
LEMMA OpenWoven ==
    ASSUME NEW tags, NEW n \in Nat, NEW t, Woven(t, tags, n), NEW cell, ~cell.closed, NEW i \in Nat
    PROVE  /\ Woven(CellEnds(t, cell, i), tags, n) /\ Written(CellEnds(t, cell, i)) = Written(t)
           /\ CellEnds(t, cell, i).occupied = t.occupied /\ CellEnds(t, cell, i).row = t.row
<1>1. t \in Tables /\ Grown(t, tags, n) /\ Apart(t, tags) /\ Headed(t) /\ FromOne(t)
    BY DEF Woven, Consistent
<1>2. t.row \in Nat /\ t.col \in Nat /\ t.header_rows \in Nat
    BY <1>1, TableFields
<1> DEFINE u == CellEnds(t, cell, i)
<1> HIDE DEF u
<1>4. /\ u \in Tables /\ u.occupied = t.occupied /\ u.row = t.row /\ u.header_rows = t.header_rows
      /\ t.col <= u.col
    BY <1>1, CellOpen DEF u
<1>40. u.col \in Nat
    BY <1>4, TableFields
<1>5. Written(u) = Written(t)
    BY <1>4 DEF Written
<1>6. ASSUME NEW p \in Written(u)
      PROVE  LET cell1 == tags[u.occupied[p]]
             IN /\ cell1.tag = "cell" /\ cell1.closed
                /\ p[1] <= u.row /\ (p[1] = u.row => p[2] < u.col)
                /\ Spanned(p, cell1) \subseteq DOMAIN u.occupied
    <2>1. p \in Written(t) /\ p \in DOMAIN t.occupied
        BY <1>5 DEF Written
    <2>2. p[1] \in Nat /\ p[2] \in Nat
        BY <1>1, <2>1, Positions
    <2>3. p[1] <= t.row /\ (p[1] = t.row => p[2] < t.col)
        BY <1>1, <2>1 DEF Grown
    <2>4. p[1] <= u.row /\ (p[1] = u.row => p[2] < u.col)
        BY <1>2, <1>4, <1>40, <2>2, <2>3
    <2> QED
        BY <1>1, <1>4, <2>1, <2>4 DEF Grown
<1>7. Grown(u, tags, n)
    BY <1>1, <1>4, <1>6 DEF Grown
<1>8. Apart(u, tags)
    BY <1>1, <1>4, <1>5 DEF Apart
<1>9. Headed(u) /\ FromOne(u)
    BY <1>1, <1>2, <1>4, <1>40 DEF Headed, FromOne
<1> QED
    BY <1>4, <1>5, <1>7, <1>8, <1>9 DEF Woven, Consistent, u

Placed(t, tags, n, u) ==
    /\ Woven(u, tags, n + 1) /\ u.row = t.row
    /\ <<t.row, StartColumn(t)>> \in Written(u)
    /\ u.occupied[<<t.row, StartColumn(t)>>] = n + 1
    /\ \A p \in Written(t) : p \in Written(u) /\ u.occupied[p] = t.occupied[p]
    /\ \A p \in Written(u) : p = <<t.row, StartColumn(t)>> \/ p \in Written(t)

(* A closed cell is put in a table, once, and everything else stays.        *)
LEMMA CellWoven ==
    ASSUME NEW tags, NEW n \in Nat, NEW t, Woven(t, tags, n),
           tags[n + 1].tag = "cell", IsCell(tags[n + 1]), tags[n + 1].closed
    PROVE  Placed(t, tags, n, CellEnds(t, tags[n + 1], n + 1))
<1> DEFINE u == CellEnds(t, tags[n + 1], n + 1)
<1>1. Consistent(t, tags, n) /\ FromOne(t) /\ t \in Tables
    BY DEF Woven, Consistent
<1>2. t.row \in Nat /\ t.col \in Nat /\ t.header_rows \in Nat
    BY <1>1, TableFields
<1>3. Gridded(t, tags[n + 1], n + 1, StartColumn(t), u)
    BY <1>1, CellGrid
<1> HIDE DEF u
<1>4. CellKept(t, tags, n, u)
    <2>1. u = CellEnds(t, tags[n + 1], n + 1)
        BY DEF u
    <2> QED
        BY <1>1, <2>1, CellKeeps
<1>5. FromOne(u)
    <2> DEFINE c == StartColumn(t)
    <2>1. /\ c \in Nat /\ t.col <= c /\ u.col = c + tags[n + 1].colspan
          /\ DOMAIN u.occupied = DOMAIN t.occupied \cup Spanned(<<t.row, c>>, tags[n + 1])
        BY <1>3 DEF Gridded
    <2> HIDE DEF c
    <2>2. tags[n + 1].colspan \in Nat \ {0}
        BY DEF IsCell
    <2>3. c >= 1 /\ u.col >= 1
        BY <1>1, <1>2, <2>1, <2>2 DEF FromOne
    <2>4. ASSUME NEW p \in Spanned(<<t.row, c>>, tags[n + 1])
          PROVE  p[2] >= 1
        <3>1. p[2] \in c..(c + tags[n + 1].colspan - 1)
            BY DEF Spanned
        <3> QED
            BY <2>1, <2>2, <2>3, <3>1
    <2> QED
        BY <1>1, <2>1, <2>3, <2>4 DEF FromOne
<1>6. Woven(u, tags, n + 1)
    BY <1>4, <1>5 DEF Woven, CellKept
<1>7. Placed(t, tags, n, u)
    BY <1>4, <1>6 DEF Placed, CellKept
<1> QED
    BY <1>7 DEF u

Home(t, i) == \E p \in Written(t) : t.occupied[p] = i
InARow(t, i) == \E p \in Written(t) : t.occupied[p] = i /\ p[1] >= 1

TableOpen(tags, n) == \E j \in 1..n : tags[j].tag = "table" /\ \A k \in j..n : tags[k].tag # "/table"
RowOpen(tags, n) ==
    \E j \in 1..n : /\ tags[j].tag = "table"
                    /\ \A k \in j..n : tags[k].tag # "/table"
                    /\ \E k \in j..n : tags[k].tag = "tr"
Counts(tags, i) == tags[i].tag = "cell" /\ tags[i].closed /\ RowOpen(tags, i)

Sound(acc, tags, n) ==
    /\ acc \in Parsers
    /\ acc.in_table <=> acc.depth >= 1
    /\ Woven(acc.table, tags, n)
    /\ \A k \in 1..Len(acc.tables) : Woven(acc.tables[k], tags, n) /\ Built(acc.tables[k])

Single(acc) ==
    /\ \A k, l \in 1..Len(acc.tables) : \A i : Home(acc.tables[k], i) /\ Home(acc.tables[l], i) => k = l
    /\ acc.in_table => \A k \in 1..Len(acc.tables) : \A i : ~ (Home(acc.table, i) /\ Home(acc.tables[k], i))

Opened(acc, tags, n) ==
    /\ TableOpen(tags, n) => acc.in_table
    /\ RowOpen(tags, n) => acc.in_table /\ acc.table.row >= 1

KeptIn(acc, i) == \/ acc.in_table /\ InARow(acc.table, i)
                  \/ \E k \in 1..Len(acc.tables) : InARow(acc.tables[k], i)
KeptAll(acc, tags, n) == \A i \in 1..n : Counts(tags, i) => KeptIn(acc, i)

Fed(acc, tags, n) == Sound(acc, tags, n) /\ Single(acc) /\ Opened(acc, tags, n) /\ KeptAll(acc, tags, n)

(* A table that is open after a tag was opened by it or before it.          *)
LEMMA OpenLater ==
    ASSUME NEW tags, NEW n \in Nat
    PROVE  /\ TableOpen(tags, n + 1) => /\ tags[n + 1].tag # "/table"
                                        /\ tags[n + 1].tag = "table" \/ TableOpen(tags, n)
           /\ RowOpen(tags, n + 1) => /\ tags[n + 1].tag # "/table"
                                      /\ RowOpen(tags, n) \/ (tags[n + 1].tag = "tr" /\ TableOpen(tags, n))
<1>1. ASSUME TableOpen(tags, n + 1)
      PROVE  tags[n + 1].tag # "/table" /\ (tags[n + 1].tag = "table" \/ TableOpen(tags, n))
    <2>1. PICK j \in 1..(n + 1) : tags[j].tag = "table" /\ \A k \in j..(n + 1) : tags[k].tag # "/table"
        BY <1>1 DEF TableOpen
    <2>2. n + 1 \in j..(n + 1) /\ j..n \subseteq j..(n + 1)
        OBVIOUS
    <2>3. CASE j = n + 1
        BY <2>1, <2>2, <2>3
    <2>4. CASE j # n + 1
        <3>1. j \in 1..n
            BY <2>4
        <3> QED
            BY <2>1, <2>2, <3>1 DEF TableOpen
    <2> QED
        BY <2>3, <2>4
<1>2. ASSUME RowOpen(tags, n + 1)
      PROVE  tags[n + 1].tag # "/table" /\ (RowOpen(tags, n) \/ (tags[n + 1].tag = "tr" /\ TableOpen(tags, n)))
    <2>1. PICK j \in 1..(n + 1) : /\ tags[j].tag = "table"
                                  /\ \A k \in j..(n + 1) : tags[k].tag # "/table"
                                  /\ \E k \in j..(n + 1) : tags[k].tag = "tr"
        BY <1>2 DEF RowOpen
    <2>2. PICK k \in j..(n + 1) : tags[k].tag = "tr"
        BY <2>1
    <2>3. n + 1 \in j..(n + 1) /\ j..n \subseteq j..(n + 1) /\ j \in Nat /\ k \in Nat
        OBVIOUS
    <2>4. j # k
        BY <2>1, <2>2
    <2>5. j \in 1..n
        BY <2>3, <2>4
    <2>6. CASE k = n + 1
        <3>1. TableOpen(tags, n)
            BY <2>1, <2>3, <2>5 DEF TableOpen
        <3> QED
            BY <2>1, <2>2, <2>3, <2>6, <3>1
    <2>7. CASE k # n + 1
        <3>1. k \in j..n
            BY <2>7
        <3>2. RowOpen(tags, n)
            BY <2>1, <2>2, <2>3, <2>5, <3>1 DEF RowOpen
        <3> QED
            BY <2>1, <2>3, <3>2
    <2> QED
        BY <2>6, <2>7
<1> QED
    BY <1>1, <1>2

(* A cell that counts is one of those before it, or the last.               *)
LEMMA KeptLater ==
    ASSUME NEW tags, NEW n \in Nat, NEW acc, NEW next, KeptAll(acc, tags, n),
           \A i \in 1..n : KeptIn(acc, i) => KeptIn(next, i),
           Counts(tags, n + 1) => KeptIn(next, n + 1)
    PROVE  KeptAll(next, tags, n + 1)
<1> SUFFICES ASSUME NEW i \in 1..(n + 1), Counts(tags, i)
             PROVE  KeptIn(next, i)
    BY DEF KeptAll
<1>1. CASE i = n + 1
    BY <1>1
<1>2. CASE i # n + 1
    <2>1. i \in 1..n
        BY <1>2
    <2> QED
        BY <2>1 DEF KeptAll
<1> QED
    BY <1>1, <1>2

(* What stays when the texts of the tables do.                              *)
LEMMA SameFed ==
    ASSUME NEW tags, NEW n \in Nat, NEW acc, NEW next, Fed(acc, tags, n), next \in Parsers,
           next.in_table <=> acc.in_table, next.in_table <=> next.depth >= 1,
           next.tables = acc.tables, Woven(next.table, tags, n + 1),
           next.table.occupied = acc.table.occupied, next.table.row >= acc.table.row,
           ~ Counts(tags, n + 1) \/ ~ acc.in_table, tags[n + 1].tag = "table" => acc.in_table,
           tags[n + 1].tag = "tr" => next.table.row >= 1 \/ ~ acc.in_table
    PROVE  Fed(next, tags, n + 1)
<1>1. Sound(acc, tags, n) /\ Single(acc) /\ Opened(acc, tags, n) /\ KeptAll(acc, tags, n)
    BY DEF Fed
<1>2. acc \in Parsers /\ acc.table \in Tables /\ next.table \in Tables
    BY <1>1 DEF Sound, Parsers
<1>3. acc.table.row \in Nat /\ next.table.row \in Nat
    BY <1>2, TableFields
<1>4. Written(next.table) = Written(acc.table)
    BY DEF Written
<1>5. \A i : (Home(next.table, i) <=> Home(acc.table, i)) /\ (InARow(next.table, i) <=> InARow(acc.table, i))
    BY <1>4 DEF Home, InARow
<1>6. Sound(next, tags, n + 1)
    <2>1. \A k \in 1..Len(next.tables) : Woven(next.tables[k], tags, n + 1) /\ Built(next.tables[k])
        BY <1>1, TableLater DEF Sound
    <2> QED
        BY <2>1 DEF Sound
<1>7. Single(next)
    BY <1>1, <1>5 DEF Single
<1>8. Opened(next, tags, n + 1)
    <2>1. TableOpen(tags, n + 1) => next.in_table
        BY <1>1, OpenLater DEF Opened
    <2>2. ASSUME RowOpen(tags, n + 1) PROVE next.in_table /\ next.table.row >= 1
        <3>1. RowOpen(tags, n) \/ (tags[n + 1].tag = "tr" /\ TableOpen(tags, n))
            BY <2>2, OpenLater
        <3>2. CASE RowOpen(tags, n)
            BY <1>1, <1>3, <3>2 DEF Opened
        <3>3. CASE tags[n + 1].tag = "tr" /\ TableOpen(tags, n)
            BY <1>1, <3>3 DEF Opened
        <3> QED
            BY <3>1, <3>2, <3>3
    <2> QED
        BY <2>1, <2>2 DEF Opened
<1>9. KeptAll(next, tags, n + 1)
    <2>1. \A i \in 1..n : KeptIn(acc, i) => KeptIn(next, i)
        BY <1>5 DEF KeptIn
    <2>2. ~ Counts(tags, n + 1)
        <3>1. ASSUME Counts(tags, n + 1) PROVE FALSE
            <4>1. RowOpen(tags, n + 1) /\ tags[n + 1].tag = "cell"
                BY <3>1 DEF Counts
            <4>2. next.in_table
                BY <1>8, <4>1 DEF Opened
            <4> QED
                BY <3>1, <4>2
        <3> QED
            BY <3>1
    <2> QED
        BY <1>1, <2>1, <2>2, KeptLater
<1> QED
    BY <1>6, <1>7, <1>8, <1>9 DEF Fed

(* A parser's fields.                                                       *)
LEMMA ParserFields ==
    ASSUME NEW d, NEW b, NEW t, NEW ts
    PROVE  /\ Parser(d, b, t, ts).depth = d /\ Parser(d, b, t, ts).in_table = b
           /\ Parser(d, b, t, ts).table = t /\ Parser(d, b, t, ts).tables = ts
BY DEF Parser

(* What is in a table that ends is in a table that is built.                *)
LEMMA ShownBuilt ==
    ASSUME NEW t, NEW i, InARow(t, i)
    PROVE  Built(t) /\ Home(t, i)
BY DEF InARow, Built, Home, Written

(* A text of a table is of a tag read.                                      *)
LEMMA HomeRead ==
    ASSUME NEW tags, NEW n \in Nat, NEW t, Woven(t, tags, n), NEW i, Home(t, i)
    PROVE  i \in 1..n
<1>1. PICK p \in Written(t) : t.occupied[p] = i
    BY DEF Home
<1>2. p \in DOMAIN t.occupied /\ i # 0
    BY <1>1 DEF Written
<1>3. i \in 0..n
    BY <1>1, <1>2 DEF Woven, Consistent, Grown
<1> QED
    BY <1>2, <1>3

(* A table that begins.                                                     *)
LEMMA TableFed ==
    ASSUME NEW tags, NEW n \in Nat, NEW acc, NEW next, Fed(acc, tags, n), next \in Parsers,
           next.depth = 1, next.in_table, next.table = NoTable, next.tables = acc.tables, tags[n + 1].tag = "table", acc.depth = 0
    PROVE  Fed(next, tags, n + 1)
<1>1. Sound(acc, tags, n) /\ Single(acc) /\ Opened(acc, tags, n) /\ KeptAll(acc, tags, n)
    BY DEF Fed
<1>2. ~ acc.in_table
    BY <1>1 DEF Sound, Parsers
<1>3. next.depth >= 1 /\ next.in_table /\ next.table = NoTable /\ next.tables = acc.tables
    OBVIOUS
<1>4. Woven(NoTable, tags, n + 1) /\ Written(NoTable) = {}
    BY NothingWoven
<1>5. Sound(next, tags, n + 1)
    <2>1. \A k \in 1..Len(next.tables) : Woven(next.tables[k], tags, n + 1) /\ Built(next.tables[k])
        BY <1>1, <1>3, TableLater DEF Sound
    <2> QED
        BY <1>3, <1>4, <2>1 DEF Sound
<1>6. Single(next)
    <2>1. \A i : ~ Home(next.table, i)
        BY <1>3, <1>4 DEF Home
    <2> QED
        BY <1>1, <1>3, <2>1 DEF Single
<1>7. Opened(next, tags, n + 1)
    <2>1. ~ RowOpen(tags, n + 1)
        BY <1>1, <1>2, OpenLater DEF Opened
    <2> QED
        BY <1>3, <2>1 DEF Opened
<1>8. KeptAll(next, tags, n + 1)
    <2>1. \A i \in 1..n : KeptIn(acc, i) => KeptIn(next, i)
        BY <1>2, <1>3 DEF KeptIn
    <2>2. ~ Counts(tags, n + 1)
        BY DEF Counts
    <2> QED
        BY <1>1, <2>1, <2>2, KeptLater
<1> QED
    BY <1>5, <1>6, <1>7, <1>8 DEF Fed

(* A cell that is put in a table.                                           *)
LEMMA CellFed ==
    ASSUME NEW tags, NEW n \in Nat, NEW acc, NEW next, Fed(acc, tags, n), next \in Parsers,
           tags[n + 1].tag = "cell", acc.in_table,
           next.depth = acc.depth, next.in_table, next.tables = acc.tables,
           Placed(acc.table, tags, n, next.table)
    PROVE  Fed(next, tags, n + 1)
<1>1. Sound(acc, tags, n) /\ Single(acc) /\ Opened(acc, tags, n) /\ KeptAll(acc, tags, n)
    BY DEF Fed
<1> DEFINE t == acc.table
           u == next.table
           at == <<t.row, StartColumn(t)>>
<1>2. /\ Woven(u, tags, n + 1) /\ u.row = t.row
      /\ at \in Written(u) /\ u.occupied[at] = n + 1
      /\ \A p \in Written(t) : p \in Written(u) /\ u.occupied[p] = t.occupied[p]
    BY DEF Placed
<1>3. \A p \in Written(u) : p = at \/ p \in Written(t)
    BY DEF Placed
<1>4. at[1] = t.row
    OBVIOUS
<1> HIDE DEF t, u, at
<1>5. Sound(next, tags, n + 1)
    <2>1. \A k \in 1..Len(next.tables) : Woven(next.tables[k], tags, n + 1) /\ Built(next.tables[k])
        BY <1>1, TableLater DEF Sound
    <2>2. acc.depth >= 1
        BY <1>1 DEF Sound
    <2> QED
        BY <1>2, <2>1, <2>2 DEF Sound, u
<1>6. \A i : Home(u, i) => Home(t, i) \/ i = n + 1
    BY <1>2, <1>3 DEF Home
<1>7. \A k \in 1..Len(acc.tables) : ~ Home(acc.tables[k], n + 1)
    <2>1. \A k \in 1..Len(acc.tables) : Woven(acc.tables[k], tags, n)
        BY <1>1 DEF Sound
    <2>2. n + 1 \notin 1..n
        OBVIOUS
    <2> QED
        BY <2>1, <2>2, HomeRead
<1>8. Single(next)
    <2>1. \A k \in 1..Len(acc.tables) : \A i : ~ (Home(t, i) /\ Home(acc.tables[k], i))
        BY <1>1 DEF Single, t
    <2>2. \A k \in 1..Len(acc.tables) : \A i : ~ (Home(u, i) /\ Home(acc.tables[k], i))
        BY <1>6, <1>7, <2>1
    <2>3. \A k, l \in 1..Len(acc.tables) : \A i : Home(acc.tables[k], i) /\ Home(acc.tables[l], i) => k = l
        BY <1>1 DEF Single
    <2> QED
        BY <2>2, <2>3 DEF Single, u
<1>9. RowOpen(tags, n + 1) => t.row >= 1
    BY <1>1, OpenLater DEF Opened, t
<1>10. Opened(next, tags, n + 1)
    BY <1>2, <1>9 DEF Opened, u
<1>11. KeptAll(next, tags, n + 1)
    <2>1. \A i : InARow(t, i) => InARow(u, i)
        BY <1>2 DEF InARow
    <2>2. \A i \in 1..n : KeptIn(acc, i) => KeptIn(next, i)
        BY <2>1 DEF KeptIn, t, u
    <2>3. Counts(tags, n + 1) => InARow(u, n + 1)
        BY <1>2, <1>4, <1>9 DEF Counts, InARow
    <2>4. Counts(tags, n + 1) => KeptIn(next, n + 1)
        BY <2>3 DEF KeptIn, u
    <2> QED
        BY <1>1, <2>2, <2>4, KeptLater
<1> QED
    BY <1>5, <1>8, <1>10, <1>11 DEF Fed

(* A table that ends.                                                       *)
LEMMA EndFed ==
    ASSUME NEW tags, NEW n \in Nat, NEW acc, NEW next, Fed(acc, tags, n), next \in Parsers,
           tags[n + 1].tag = "/table", Ended(acc),
           next.depth = 0, ~ next.in_table, next.table = acc.table,
           next.tables = IF Built(acc.table) THEN Append(acc.tables, acc.table) ELSE acc.tables
    PROVE  Fed(next, tags, n + 1)
<1>1. Sound(acc, tags, n) /\ Single(acc) /\ Opened(acc, tags, n) /\ KeptAll(acc, tags, n)
    BY DEF Fed
<1>2. acc \in Parsers /\ acc.tables \in Seq(Tables) /\ acc.table \in Tables /\ acc.in_table
    BY <1>1 DEF Sound, Parsers, Ended
<1>3. ~ (next.depth >= 1) /\ ~ next.in_table
    OBVIOUS
<1> DEFINE t == acc.table
           ts == acc.tables
           us == next.tables
<1>4. Len(ts) \in Nat
    BY <1>2
<1>5. \A k \in 1..Len(us) : (k \in 1..Len(ts) /\ us[k] = ts[k]) \/ (k = Len(ts) + 1 /\ us[k] = t /\ Built(t))
    BY <1>2
<1>6. \A k \in 1..Len(ts) : k \in 1..Len(us) /\ us[k] = ts[k]
    BY <1>2
<1>7. Built(t) => Len(ts) + 1 \in 1..Len(us) /\ us[Len(ts) + 1] = t
    BY <1>2
<1> HIDE DEF t, ts, us
<1>8. Sound(next, tags, n + 1)
    <2>1. \A k \in 1..Len(ts) : Woven(ts[k], tags, n + 1) /\ Built(ts[k])
        BY <1>1, TableLater DEF Sound, ts
    <2>2. Woven(t, tags, n + 1)
        BY <1>1, TableLater DEF Sound, t
    <2>3. \A k \in 1..Len(us) : Woven(us[k], tags, n + 1) /\ Built(us[k])
        BY <1>5, <2>1, <2>2
    <2> QED
        BY <1>3, <2>2, <2>3 DEF Sound, t, us
<1>9. Single(next)
    <2>1. \A k, l \in 1..Len(ts) : \A i : Home(ts[k], i) /\ Home(ts[l], i) => k = l
        BY <1>1 DEF Single, ts
    <2>2. \A k \in 1..Len(ts) : \A i : ~ (Home(t, i) /\ Home(ts[k], i))
        BY <1>1, <1>2 DEF Single, ts, t
    <2>3. \A k, l \in 1..Len(us) : \A i : Home(us[k], i) /\ Home(us[l], i) => k = l
        <3> TAKE k, l \in 1..Len(us)
        <3> TAKE i
        <3>1. HAVE Home(us[k], i) /\ Home(us[l], i)
        <3>2. CASE us[k] = ts[k] /\ k \in 1..Len(ts) /\ us[l] = ts[l] /\ l \in 1..Len(ts)
            BY <2>1, <3>1, <3>2
        <3>3. CASE us[k] = ts[k] /\ k \in 1..Len(ts) /\ l = Len(ts) + 1 /\ us[l] = t
            BY <2>2, <3>1, <3>3
        <3>4. CASE k = Len(ts) + 1 /\ us[k] = t /\ us[l] = ts[l] /\ l \in 1..Len(ts)
            BY <2>2, <3>1, <3>4
        <3>5. CASE k = Len(ts) + 1 /\ l = Len(ts) + 1
            BY <3>5
        <3> QED
            BY <1>5, <3>2, <3>3, <3>4, <3>5
    <2> QED
        BY <1>3, <2>3 DEF Single, us
<1>10. Opened(next, tags, n + 1)
    BY OpenLater DEF Opened
<1>11. KeptAll(next, tags, n + 1)
    <2>1. ASSUME NEW i \in 1..n, KeptIn(acc, i) PROVE KeptIn(next, i)
        <3>1. InARow(t, i) \/ \E k \in 1..Len(ts) : InARow(ts[k], i)
            BY <2>1 DEF KeptIn, t, ts
        <3>2. CASE InARow(t, i)
            <4>1. Built(t)
                BY <3>2, ShownBuilt
            <4> QED
                BY <1>7, <3>2, <4>1 DEF KeptIn, us
        <3>3. CASE \E k \in 1..Len(ts) : InARow(ts[k], i)
            BY <1>6, <3>3 DEF KeptIn, us
        <3> QED
            BY <3>1, <3>2, <3>3
    <2>2. ~ Counts(tags, n + 1)
        BY DEF Counts
    <2> QED
        BY <1>1, <2>1, <2>2, KeptLater
<1> QED
    BY <1>8, <1>9, <1>10, <1>11 DEF Fed

(* Every tag keeps what holds of the parser.                                *)
LEMMA FedStep ==
    ASSUME NEW tags, NEW n \in Nat, NEW acc, Fed(acc, tags, n), IsTag(tags[n + 1])
    PROVE  Fed(Feed(acc, n + 1, tags[n + 1]), tags, n + 1)
<1> DEFINE next == Feed(acc, n + 1, tags[n + 1])
<1>1. Sound(acc, tags, n) /\ acc \in Parsers
    BY DEF Fed, Sound
<1>2. Feeds(acc, n + 1, tags[n + 1], next)
    <2>1. n + 1 \in Nat
        OBVIOUS
    <2> QED
        BY <1>1, <2>1, FeedIs
<1>3. /\ acc.depth \in Nat /\ acc.in_table \in BOOLEAN /\ acc.table \in Tables /\ acc.tables \in Seq(Tables)
      /\ acc.in_table <=> acc.depth >= 1
    BY <1>1 DEF Parsers, Sound
<1>4. Woven(acc.table, tags, n) /\ Woven(acc.table, tags, n + 1) /\ acc.table.row \in Nat
    BY <1>1, <1>3, TableLater, TableFields DEF Sound
<1>5. tags[n + 1].tag \in {"table", "tr", "cell", "/table"}
    BY DEF IsTag
<1> HIDE DEF next
<1>6. next \in Parsers
    BY <1>2 DEF Feeds
<1>7. CASE tags[n + 1].tag = "table"
    <2>1. next = IF acc.depth = 0 THEN Parser(1, TRUE, NoTable, acc.tables)
                                  ELSE Parser(acc.depth + 1, acc.in_table, acc.table, acc.tables)
        BY <1>2, <1>7 DEF Feeds
    <2>2. CASE acc.depth = 0
        <3>1. next.depth = 1 /\ next.in_table /\ next.table = NoTable /\ next.tables = acc.tables
            BY <2>1, <2>2 DEF Parser
        <3>2. Fed(next, tags, n + 1)
            BY <1>6, <1>7, <2>2, <3>1, TableFed
        <3> QED
            BY <3>2 DEF next
    <2>3. CASE acc.depth # 0
        <3>1. next.depth = acc.depth + 1 /\ next.in_table = acc.in_table /\ next.table = acc.table /\ next.tables = acc.tables
            BY <2>1, <2>3, ParserFields
        <3>2. acc.in_table /\ next.depth >= 1
            BY <1>3, <2>3, <3>1
        <3>3. ~ Counts(tags, n + 1)
            BY <1>7 DEF Counts
        <3>4. Woven(next.table, tags, n + 1) /\ next.table.row >= acc.table.row
            BY <1>4, <3>1
        <3>5. next.in_table /\ next.table.occupied = acc.table.occupied /\ tags[n + 1].tag # "tr"
            BY <1>7, <3>1, <3>2
        <3>6. Fed(next, tags, n + 1)
            BY <1>6, <3>1, <3>2, <3>3, <3>4, <3>5, SameFed
        <3> QED
            BY <3>6 DEF next
    <2> QED
        BY <2>2, <2>3
<1>8. CASE tags[n + 1].tag = "tr"
    <2> DEFINE t == IF acc.in_table THEN NextRow(acc.table) ELSE acc.table
    <2>1. next = Parser(acc.depth, acc.in_table, t, acc.tables)
        BY <1>2, <1>8 DEF Feeds
    <2>2. Woven(t, tags, n + 1) /\ t.occupied = acc.table.occupied /\ t.row >= acc.table.row /\ (acc.in_table => t.row >= 1)
        <3>1. Woven(NextRow(acc.table), tags, n + 1)
            BY <1>4, RowWoven
        <3>2. NextRow(acc.table).occupied = acc.table.occupied /\ NextRow(acc.table).row = acc.table.row + 1
            BY <1>3, NextRowIs
        <3> QED
            BY <1>4, <3>1, <3>2
    <2> HIDE DEF t
    <2>3. next.depth = acc.depth /\ next.in_table = acc.in_table /\ next.table = t /\ next.tables = acc.tables
        BY <2>1, ParserFields
    <2>4. ~ Counts(tags, n + 1)
        BY <1>8 DEF Counts
    <2>5. Fed(next, tags, n + 1)
        BY <1>3, <1>6, <1>8, <2>2, <2>3, <2>4, SameFed
    <2> QED
        BY <2>5 DEF next
<1>9. CASE tags[n + 1].tag = "cell"
    <2> DEFINE u == CellEnds(acc.table, tags[n + 1], n + 1)
               t == IF acc.in_table THEN u ELSE acc.table
    <2>1. next = Parser(acc.depth, acc.in_table, t, acc.tables)
        BY <1>2, <1>9 DEF Feeds
    <2>2. IsCell(tags[n + 1])
        BY <1>9 DEF IsTag, IsCell
    <2>3. CASE acc.in_table /\ tags[n + 1].closed
        <3>1. Placed(acc.table, tags, n, u)
            BY <1>4, <1>9, <2>2, <2>3, CellWoven
        <3>2. next.depth = acc.depth /\ next.in_table /\ next.table = u /\ next.tables = acc.tables
            BY <2>1, <2>3 DEF Parser
        <3> HIDE DEF u
        <3>3. Placed(acc.table, tags, n, next.table)
            BY <3>1, <3>2
        <3>4. Fed(next, tags, n + 1)
            BY <1>6, <1>9, <2>3, <3>2, <3>3, CellFed
        <3> QED
            BY <3>4 DEF next
    <2>4. CASE ~ (acc.in_table /\ tags[n + 1].closed)
        <3>1. Woven(t, tags, n + 1) /\ t.occupied = acc.table.occupied /\ t.row = acc.table.row
            <4>1. CASE ~ acc.in_table
                BY <1>4, <4>1
            <4>2. CASE acc.in_table
                <5>1. ~ tags[n + 1].closed /\ n + 1 \in Nat
                    BY <2>4, <4>2
                <5>2. /\ Woven(u, tags, n) /\ u.occupied = acc.table.occupied /\ u.row = acc.table.row
                    <6> DEFINE cell == tags[n + 1]
                               i == n + 1
                    <6>1. ~ cell.closed /\ i \in Nat
                        BY <5>1
                    <6> HIDE DEF cell, i
                    <6>2. /\ Woven(CellEnds(acc.table, cell, i), tags, n) /\ CellEnds(acc.table, cell, i).occupied = acc.table.occupied
                          /\ CellEnds(acc.table, cell, i).row = acc.table.row
                        <7>1. Woven(acc.table, tags, n)
                            BY <1>4
                        <7> QED
                            BY <6>1, <7>1, OpenWoven
                    <6> QED
                        BY <6>2 DEF cell, i
                <5> HIDE DEF u
                <5>3. Woven(u, tags, n + 1)
                    BY <5>2, TableLater
                <5> QED
                    BY <4>2, <5>2, <5>3
            <4> QED
                BY <4>1, <4>2
        <3>2. next.depth = acc.depth /\ next.in_table = acc.in_table /\ next.table = t /\ next.tables = acc.tables
            BY <2>1, ParserFields
        <3> HIDE DEF t
        <3>3. ~ Counts(tags, n + 1) \/ ~ acc.in_table
            BY <2>4 DEF Counts
        <3>4. t.row >= acc.table.row
            BY <1>4, <3>1
        <3>5. Fed(next, tags, n + 1)
            BY <1>3, <1>6, <1>9, <3>1, <3>2, <3>3, <3>4, SameFed
        <3> QED
            BY <3>5 DEF next
    <2> QED
        BY <2>3, <2>4
<1>10. CASE tags[n + 1].tag = "/table"
    <2>1. next = Parser(IF acc.depth > 0 THEN acc.depth - 1 ELSE 0, acc.in_table /\ acc.depth # 1, acc.table,
                        IF Ended(acc) /\ Built(acc.table) THEN Append(acc.tables, acc.table) ELSE acc.tables)
        BY <1>2, <1>10 DEF Feeds
    <2>2. CASE acc.depth = 1
        <3>1. Ended(acc)
            BY <1>3, <2>2 DEF Ended
        <3>2. /\ next.depth = 0 /\ ~ next.in_table /\ next.table = acc.table
              /\ next.tables = IF Built(acc.table) THEN Append(acc.tables, acc.table) ELSE acc.tables
            <4>1. next.depth = 0 /\ next.table = acc.table
                BY <2>1, <2>2 DEF Parser
            <4>2. ~ next.in_table
                BY <2>1, <2>2 DEF Parser
            <4>3. next.tables = IF Built(acc.table) THEN Append(acc.tables, acc.table) ELSE acc.tables
                BY <2>1, <3>1 DEF Parser
            <4> QED
                BY <4>1, <4>2, <4>3
        <3>3. Fed(next, tags, n + 1)
            BY <1>6, <1>10, <3>1, <3>2, EndFed
        <3> QED
            BY <3>3 DEF next
    <2>3. CASE acc.depth # 1
        <3>1. ~ Ended(acc)
            BY <2>3 DEF Ended
        <3>2. next = Parser(IF acc.depth > 0 THEN acc.depth - 1 ELSE 0, acc.in_table, acc.table, acc.tables)
            BY <1>3, <2>1, <2>3, <3>1
        <3>3. /\ next.depth = (IF acc.depth > 0 THEN acc.depth - 1 ELSE 0) /\ next.in_table = acc.in_table
              /\ next.table = acc.table /\ next.tables = acc.tables
            BY <3>2, ParserFields
        <3>4. next.in_table <=> next.depth >= 1
            BY <1>3, <2>3, <3>3
        <3>5. ~ Counts(tags, n + 1)
            BY <1>10 DEF Counts
        <3>6. next.table.row >= acc.table.row
            BY <1>4, <3>3
        <3>7. Fed(next, tags, n + 1)
            BY <1>4, <1>6, <1>10, <3>3, <3>4, <3>5, <3>6, SameFed
        <3> QED
            BY <3>7 DEF next
    <2> QED
        BY <2>2, <2>3
<1> QED
    BY <1>5, <1>7, <1>8, <1>9, <1>10

Unfed == [depth |-> 0, in_table |-> FALSE, table |-> NoTable, tables |-> <<>>]
Tabled(fed) == IF fed.in_table /\ Built(fed.table) THEN Append(fed.tables, fed.table) ELSE fed.tables
Tagged(tags) == tags \in Seq(Range(tags)) /\ \A k \in 1..Len(tags) : IsTag(tags[k])

IsParsing(G, tags) ==
    /\ G \in [0..Len(tags) -> Parsers]
    /\ G[0] = Unfed /\ parse_html_tables(tags) = Tabled(G[Len(tags)])
    /\ \A k \in 1..Len(tags) : G[k] = Feed(G[k - 1], k, tags[k])

(* The parser begins with nothing.                                          *)
LEMMA UnfedIs ==
    Unfed \in Parsers
<1>1. Unfed = Parser(0, FALSE, NoTable, <<>>)
    BY DEF Unfed, Parser
<1>2. Parser(0, FALSE, NoTable, <<>>) \in Parsers
    <2>1. NoTable \in Tables /\ <<>> \in Seq(Tables) /\ 0 \in Nat /\ FALSE \in BOOLEAN
        BY NoTableIs
    <2> QED
        BY <2>1 DEF Parser, Parsers
<1> QED
    BY <1>1, <1>2

(* What the parser holds after every tag.                                   *)
LEMMA ParsingRuns ==
    ASSUME NEW tags, Tagged(tags)
    PROVE  \E G : IsParsing(G, tags)
<1> DEFINE n == Len(tags)
           D == 1..n
           A == Parsers
           step == [p \in D \X A |-> Feed(p[2], p[1], tags[p[1]])]
           order == [i \in DOMAIN tags |-> i]
           Body(iter) == [s \in SUBSET DOMAIN order |->
                             IF s = {} THEN Unfed ELSE Feed(iter[s \ {Max(s)}], order[Max(s)], tags[order[Max(s)]])]
           it == CHOOSE iter : iter = Body(iter)
<1>1. n \in Nat /\ DOMAIN tags = 1..n /\ DOMAIN order = 1..n
    BY DEF Tagged
<1>2. step \in [(1..n) \X A -> A] /\ Unfed \in A
    <2>1. ASSUME NEW p \in (1..n) \X A PROVE Feed(p[2], p[1], tags[p[1]]) \in A
        <3>1. p[2] \in A /\ p[1] \in 1..n
            OBVIOUS
        <3>2. IsTag(tags[p[1]]) /\ p[1] \in Nat
            BY <3>1, <1>1 DEF Tagged
        <3>3. Feeds(p[2], p[1], tags[p[1]], Feed(p[2], p[1], tags[p[1]]))
            BY <3>1, <3>2, FeedIs
        <3> QED
            BY <3>3 DEF Feeds
    <2>2. Unfed \in A
        BY UnfedIs
    <2> HIDE DEF A
    <2> QED
        BY <2>1, <2>2
<1> HIDE DEF A
<1>3. PICK iter : IsLeftFold(iter, n, A, Unfed, step)
    <2> HIDE DEF step, n
    <2> QED
        BY <1>1, <1>2, LeftFoldExists
<1>4. iter = Body(iter)
    <2>1. \A s \in SUBSET (1..n) : s # {} => Max(s) \in 1..n
        BY <1>1, MaxOf
    <2>2. ASSUME NEW s \in SUBSET (1..n), s # {}
          PROVE  iter[s] = Feed(iter[s \ {Max(s)}], order[Max(s)], tags[order[Max(s)]])
        <3> DEFINE m == Max(s)
        <3>1. m \in 1..n /\ iter[s \ {m}] \in A
            BY <2>1, <2>2, <1>3 DEF IsLeftFold
        <3>2. iter[s] = step[<<m, iter[s \ {m}]>>]
            BY <1>3, <2>2 DEF IsLeftFold
        <3> HIDE DEF m
        <3>3. step[<<m, iter[s \ {m}]>>] = Feed(iter[s \ {m}], m, tags[m])
            BY <3>1
        <3>4. order[m] = m
            BY <1>1, <3>1
        <3> QED
            BY <3>2, <3>3, <3>4 DEF m
    <2>3. iter[{}] = Unfed
        BY <1>3 DEF IsLeftFold
    <2> HIDE DEF order
    <2> QED
        BY <1>1, <1>3, <2>2, <2>3 DEF IsLeftFold
<1>5. it = Body(it)
    BY <1>4
<1>6. parse_html_tables(tags) = Tabled(it[DOMAIN order])
    BY DEF parse_html_tables, FoldLeft, MapThenFoldSet, Tabled, Unfed
<1> HIDE DEF it
<1>7. it[{}] = Unfed
    BY <1>5
<1>8. ASSUME NEW s \in SUBSET (1..n), s # {}, it[s \ {Max(s)}] \in A
      PROVE  it[s] = step[<<Max(s), it[s \ {Max(s)}]>>]
    <2> DEFINE m == Max(s)
    <2>1. m \in 1..n
        BY <1>1, <1>8, MaxOf
    <2>2. it[s] = Feed(it[s \ {m}], order[m], tags[order[m]])
        BY <1>1, <1>5, <1>8
    <2> HIDE DEF m
    <2>3. step[<<m, it[s \ {m}]>>] = Feed(it[s \ {m}], m, tags[m])
        BY <1>8, <2>1 DEF m
    <2>4. order[m] = m
        BY <1>1, <2>1
    <2> QED
        BY <2>2, <2>3, <2>4 DEF m
<1> HIDE DEF step, Body
<1>9. Steps(it, n, A, step)
    BY <1>8 DEF Steps
<1> HIDE DEF n
<1>10. PICK G : IsRun(G, n, A, Unfed, step, it)
    BY <1>1, <1>2, <1>7, <1>9, LeftFoldRuns
<1>11. \A k \in 1..n : step[<<k, G[k - 1]>>] = Feed(G[k - 1], k, tags[k])
    <2> TAKE k \in 1..n
    <2>1. k - 1 \in 0..n
        BY <1>1
    <2>2. G[k - 1] \in A
        BY <1>10, <2>1 DEF IsRun
    <2> QED
        BY <2>2 DEF step
<1>12. IsParsing(G, tags)
    <2>1. G \in [0..n -> A] /\ G[0] = Unfed /\ G[n] = it[1..n]
        BY <1>10 DEF IsRun
    <2>2. \A k \in 1..n : G[k] = Feed(G[k - 1], k, tags[k])
        BY <1>10, <1>11 DEF IsRun
    <2>3. parse_html_tables(tags) = Tabled(G[n])
        BY <1>1, <1>6, <2>1
    <2> QED
        BY <2>1, <2>2, <2>3 DEF IsParsing, n, A
<1> QED
    BY <1>12

(* What holds of the parser at first.                                       *)
LEMMA UnfedFed ==
    ASSUME NEW tags
    PROVE  Fed(Unfed, tags, 0)
<1>1. Unfed.depth = 0 /\ ~ Unfed.in_table /\ Unfed.table = NoTable /\ Unfed.tables = <<>> /\ Len(Unfed.tables) = 0
    BY DEF Unfed
<1>2. 1..Len(Unfed.tables) = {}
    BY <1>1
<1>3. Sound(Unfed, tags, 0)
    <2>1. Woven(NoTable, tags, 0)
        BY NothingWoven
    <2> QED
        BY <1>1, <1>2, <2>1, UnfedIs DEF Sound
<1>4. Single(Unfed)
    BY <1>1, <1>2 DEF Single
<1>5. Opened(Unfed, tags, 0) /\ KeptAll(Unfed, tags, 0)
    BY DEF Opened, KeptAll, TableOpen, RowOpen
<1> QED
    BY <1>3, <1>4, <1>5 DEF Fed

(* What holds of the parser at the end.                                     *)
LEMMA ParsedFed ==
    ASSUME NEW tags, Tagged(tags)
    PROVE  \E fed : Fed(fed, tags, Len(tags)) /\ parse_html_tables(tags) = Tabled(fed)
<1>1. PICK G : IsParsing(G, tags)
    BY ParsingRuns
<1> DEFINE n == Len(tags)
           P == {k \in 0..n : Fed(G[k], tags, k)}
<1>2. n \in Nat
    BY DEF Tagged
<1>3. 0 \in P
    BY <1>1, <1>2, UnfedFed DEF IsParsing
<1>4. ASSUME NEW k \in 0..(n - 1), k \in P
      PROVE  k + 1 \in P
    <2>1. k + 1 \in 1..n /\ k \in Nat /\ (k + 1) - 1 = k
        BY <1>2
    <2>2. G[k + 1] = Feed(G[k], k + 1, tags[k + 1])
        BY <1>1, <2>1 DEF IsParsing
    <2>3. IsTag(tags[k + 1]) /\ Fed(G[k], tags, k)
        BY <1>4, <2>1 DEF Tagged
    <2>4. Fed(Feed(G[k], k + 1, tags[k + 1]), tags, k + 1)
        BY <2>1, <2>3, FedStep
    <2> QED
        BY <2>1, <2>2, <2>4
<1> HIDE DEF P
<1>5. 0..n \subseteq P
    <2> HIDE DEF n
    <2> QED
        BY <1>2, <1>3, <1>4, EveryPlace
<1>6. Fed(G[n], tags, n)
    BY <1>2, <1>5 DEF P
<1> QED
    BY <1>1, <1>6 DEF IsParsing

(* The greatest of some numbers up to a bound.                              *)
LEMMA MaxUpTo ==
    ASSUME NEW B \in Nat, NEW S \in SUBSET (0..B), S # {}
    PROVE  Max(S) \in S /\ \A x \in S : x <= Max(S)
<1> DEFINE T == {B - x : x \in S}
<1>1. T \in SUBSET Nat /\ T # {}
    <2>1. \A x \in S : B - x \in Nat
        OBVIOUS
    <2>2. PICK x \in S : TRUE
        OBVIOUS
    <2>3. B - x \in T
        BY <2>2
    <2> QED
        BY <2>1, <2>3
<1>2. PICK y \in T : \A z \in T : y <= z
    BY <1>1, FirstExists
<1>3. PICK x \in S : y = B - x
    OBVIOUS
<1>4. \A z \in S : x >= z
    <2> TAKE z \in S
    <2>1. B - z \in T
        OBVIOUS
    <2>2. y <= B - z
        BY <1>2, <2>1
    <2>3. x \in 0..B /\ z \in 0..B
        OBVIOUS
    <2> QED
        BY <1>3, <2>2, <2>3
<1>5. \A w \in S : (\A z \in S : w >= z) => w = x
    <2> TAKE w \in S
    <2>1. x \in 0..B /\ w \in 0..B
        OBVIOUS
    <2> QED
        BY <1>4, <2>1
<1>6. Max(S) = x
    <2>1. Max(S) \in S /\ \A z \in S : Max(S) >= z
        BY <1>4 DEF Max
    <2> QED
        BY <1>5, <2>1
<1> QED
    BY <1>4, <1>6

(* The places of a value in a sequence: none, or one.                       *)
OccursNever(s, x) == \A d \in 1..Len(s) : s[d] # x
OnlyAt(s, x, c) == c \in 1..Len(s) /\ s[c] = x /\ \A d \in 1..Len(s) : s[d] = x => d = c
OccursOnce(s, x) == \E c \in 1..Len(s) : OnlyAt(s, x, c)

LEMMA AppendPlaces ==
    ASSUME NEW X, NEW s \in Seq(X), NEW x, NEW y \in X
    PROVE  /\ OccursNever(s, x) /\ y # x => OccursNever(Append(s, y), x)
           /\ OccursOnce(s, x) /\ y # x => OccursOnce(Append(s, y), x)
           /\ OccursNever(s, x) /\ y = x => OccursOnce(Append(s, y), x)
<1> DEFINE u == Append(s, y)
<1>1. Len(s) \in Nat
    OBVIOUS
<1>2. /\ Len(u) = Len(s) + 1 /\ u[Len(s) + 1] = y
      /\ \A d \in 1..Len(s) : u[d] = s[d]
    BY AppendProperties
<1> HIDE DEF u
<1>3. \A d \in 1..Len(u) : (d \in 1..Len(s) /\ u[d] = s[d]) \/ (d = Len(s) + 1 /\ u[d] = y)
    BY <1>1, <1>2
<1>4. \A d \in 1..Len(s) : d \in 1..Len(u) /\ d # Len(s) + 1
    BY <1>1, <1>2
<1>5. Len(s) + 1 \in 1..Len(u)
    BY <1>1, <1>2
<1>6. ASSUME OccursNever(s, x), y # x PROVE OccursNever(u, x)
    BY <1>3, <1>6 DEF OccursNever
<1>7. ASSUME OccursOnce(s, x), y # x PROVE OccursOnce(u, x)
    <2>1. PICK c \in 1..Len(s) : OnlyAt(s, x, c)
        BY <1>7 DEF OccursOnce
    <2>2. OnlyAt(u, x, c)
        BY <1>2, <1>3, <1>4, <1>7, <2>1 DEF OnlyAt
    <2> QED
        BY <1>4, <2>2 DEF OccursOnce
<1>8. ASSUME OccursNever(s, x), y = x PROVE OccursOnce(u, x)
    <2>1. OnlyAt(u, x, Len(s) + 1)
        BY <1>2, <1>3, <1>5, <1>8 DEF OnlyAt, OccursNever
    <2> QED
        BY <1>5, <2>1 DEF OccursOnce
<1> QED
    BY <1>6, <1>7, <1>8 DEF u

(* A list keeps the one place of a value it keeps.                          *)
LEMMA InOrderOnce ==
    ASSUME NEW X, NEW order \in Seq(X), NEW S, NEW m, OnlyAt(order, order[m], m), order[m] \in S
    PROVE  OccursOnce(InOrder(order, S), order[m])
<1> DEFINE x == order[m]
           n == Len(order)
<1>1. n \in Nat /\ m \in 1..n /\ \A d \in 1..n : order[d] = x => d = m
    BY DEF OnlyAt
<1>2. PICK F : IsKeeping(F, order, S, X)
    BY InOrderFolds
<1> DEFINE P == {k \in 0..n : (k < m => OccursNever(F[k], x)) /\ (k >= m => OccursOnce(F[k], x))}
<1>3. 0 \in P
    <2>1. F[0] = <<>> /\ Len(<<>>) = 0
        BY <1>2 DEF IsKeeping
    <2>2. OccursNever(F[0], x)
        BY <2>1 DEF OccursNever
    <2> QED
        BY <1>1, <2>2
<1>4. ASSUME NEW k \in 0..(n - 1), k \in P PROVE k + 1 \in P
    <2>1. k + 1 \in 1..n /\ (k + 1) - 1 = k /\ k \in 0..n
        BY <1>1
    <2>2. F[k + 1] = IF order[k + 1] \in S THEN Append(F[k], order[k + 1]) ELSE F[k]
        BY <1>2, <2>1 DEF IsKeeping
    <2>3. F[k] \in Seq(X) /\ order[k + 1] \in X
        <3>1. F \in [0..n -> Seq(X)]
            BY <1>2 DEF IsKeeping
        <3>2. k \in 0..n /\ k + 1 \in 1..n
            BY <2>1
        <3> QED
            BY <3>1, <3>2
    <2> HIDE DEF x
    <2>4. CASE k + 1 < m
        <3>1. OccursNever(F[k], x) /\ order[k + 1] # x
            BY <1>1, <1>4, <2>1, <2>4
        <3>2. OccursNever(F[k + 1], x)
            BY <2>2, <2>3, <3>1, AppendPlaces
        <3> QED
            BY <1>1, <2>1, <2>4, <3>2
    <2>5. CASE k + 1 = m
        <3>1. OccursNever(F[k], x) /\ order[k + 1] = x /\ x \in S
            BY <1>1, <1>4, <2>1, <2>5 DEF x
        <3>2. OccursOnce(F[k + 1], x)
            BY <2>2, <2>3, <3>1, AppendPlaces
        <3> QED
            BY <1>1, <2>1, <2>5, <3>2
    <2>6. CASE k + 1 > m
        <3>1. OccursOnce(F[k], x) /\ order[k + 1] # x
            BY <1>1, <1>4, <2>1, <2>6
        <3>2. OccursOnce(F[k + 1], x)
            BY <2>2, <2>3, <3>1, AppendPlaces
        <3> QED
            BY <1>1, <2>1, <2>6, <3>2
    <2> QED
        BY <1>1, <2>1, <2>4, <2>5, <2>6
<1> HIDE DEF P
<1>5. 0..n \subseteq P
    <2> HIDE DEF n
    <2> QED
        BY <1>1, <1>3, <1>4, EveryPlace
<1>6. OccursOnce(F[n], x)
    BY <1>1, <1>5 DEF P
<1> QED
    BY <1>2, <1>6 DEF IsKeeping

(* A list has none of the values that the order has none of.                *)
LEMMA InOrderNone ==
    ASSUME NEW X, NEW order \in Seq(X), NEW S, NEW x, OccursNever(order, x)
    PROVE  OccursNever(InOrder(order, S), x)
<1>1. InOrder(order, S) \in Seq(X) /\ Range(InOrder(order, S)) = {y \in Range(order) : y \in S}
    BY InOrderRange
<1> DEFINE u == InOrder(order, S)
<1> HIDE DEF u
<1>2. u \in Seq(X) /\ Range(u) = {y \in Range(order) : y \in S}
    BY <1>1 DEF u
<1>3. x \notin Range(order)
    BY DEF Range, OccursNever
<1>4. ASSUME NEW d \in 1..Len(u) PROVE u[d] # x
    <2>1. u[d] \in Range(u)
        BY <1>2 DEF Range
    <2> QED
        BY <1>2, <1>3, <2>1
<1> QED
    BY <1>4 DEF OccursNever, u

Height(t) == Max({p[1] : p \in DOMAIN t.occupied})
Width(t) == Max({p[2] : p \in DOMAIN t.occupied})
Held(t, r, c) == IF <<r, c>> \in DOMAIN t.occupied THEN t.occupied[<<r, c>>] ELSE 0
Column(t, c) == [r \in 1..t.header_rows |-> Held(t, r, c)]
GridLine(t, r) == [c \in 1..Width(t) |-> Held(t, r, c)]
Header(t, c) == InOrder(Column(t, c), Nat \ {Empty})

(* A table's rows and columns are numbers that bound its positions.         *)
LEMMA BoundsOf ==
    ASSUME NEW t \in Tables, NEW q \in DOMAIN t.occupied
    PROVE  /\ Height(t) \in Nat /\ Width(t) \in Nat
           /\ \A p \in DOMAIN t.occupied : p[1] <= Height(t) /\ p[2] <= Width(t)
<1> DEFINE D == DOMAIN t.occupied
<1>1. D \in Boxed
    BY TableFields
<1>2. PICK B \in Nat : D \subseteq (0..B) \X (0..B)
    BY <1>1 DEF Boxed
<1> DEFINE S1 == {p[1] : p \in D}
           S2 == {p[2] : p \in D}
<1>3. S1 \in SUBSET (0..B) /\ S2 \in SUBSET (0..B)
    BY <1>2
<1>4. \A p \in D : p[1] \in S1 /\ p[2] \in S2
    OBVIOUS
<1>5. S1 # {} /\ S2 # {}
    BY <1>4
<1> HIDE DEF S1, S2, D
<1>6. /\ Max(S1) \in S1 /\ \A x \in S1 : x <= Max(S1)
      /\ Max(S2) \in S2 /\ \A x \in S2 : x <= Max(S2)
    BY <1>3, <1>5, MaxUpTo
<1>7. Height(t) = Max(S1) /\ Width(t) = Max(S2)
    BY DEF Height, Width, S1, S2, D
<1>8. Max(S1) \in Nat /\ Max(S2) \in Nat
    <2>1. Max(S1) \in 0..B /\ Max(S2) \in 0..B
        <3>1. S1 \subseteq 0..B /\ S2 \subseteq 0..B
            BY <1>3
        <3> QED
            BY <1>6, <3>1
    <2> QED
        BY <2>1
<1> QED
    BY <1>4, <1>6, <1>7, <1>8 DEF D

(* What is at a place of a table.                                           *)
LEMMA AtIs ==
    ASSUME NEW tags, NEW n \in Nat, NEW t, Woven(t, tags, n), NEW r, NEW c, NEW i \in Nat \ {0}
    PROVE  /\ Held(t, r, c) \in Nat
           /\ Held(t, r, c) = i <=> <<r, c>> \in Written(t) /\ t.occupied[<<r, c>>] = i
<1>1. t \in Tables
    BY DEF Woven, Consistent
<1>2. \A p \in DOMAIN t.occupied : t.occupied[p] \in Nat
    BY <1>1, Positions
<1> QED
    BY <1>2 DEF Held, Written

(* The lines of a table's Markdown: its headers, then its rows.             *)
MarkdownIs(t, m) ==
    /\ Len(m.headers) = Width(t) /\ Len(m.rows) = Height(t) - t.header_rows
    /\ m.headers \in Seq(Seq(Nat)) /\ m.rows \in Seq(Seq(Nat))
    /\ \A c \in 1..Width(t) : m.headers[c] = Header(t, c)
    /\ \A k \in 1..(Height(t) - t.header_rows) : m.rows[k] = GridLine(t, t.header_rows + k)

LEMMA GridIs ==
    ASSUME NEW tags, NEW n \in Nat, NEW t, Woven(t, tags, n), Built(t)
    PROVE  /\ Height(t) \in Nat /\ Width(t) \in Nat /\ t.header_rows \in Nat
           /\ 1 <= Height(t) /\ t.header_rows <= Height(t)
           /\ \A p \in Written(t) : p[1] \in 0..Height(t) /\ p[2] \in 1..Width(t)
<1>1. t \in Tables /\ Headed(t) /\ FromOne(t)
    BY DEF Woven, Consistent
<1>2. t.header_rows \in Nat
    BY <1>1, TableFields
<1>3. PICK q \in DOMAIN t.occupied : q[1] >= 1
    BY DEF Built
<1>4. /\ Height(t) \in Nat /\ Width(t) \in Nat
      /\ \A p \in DOMAIN t.occupied : p[1] <= Height(t) /\ p[2] <= Width(t)
    BY <1>1, <1>3, BoundsOf
<1>5. \A p \in DOMAIN t.occupied : p[1] \in Nat /\ p[2] \in Nat /\ p[2] >= 1
    BY <1>1, Positions DEF FromOne
<1>6. 1 <= Height(t)
    BY <1>3, <1>4, <1>5
<1>7. t.header_rows <= Height(t)
    <2>1. CASE t.header_rows = 0
        BY <1>4, <2>1
    <2>2. CASE t.header_rows # 0
        <3>1. PICK p \in DOMAIN t.occupied : p[1] = t.header_rows
            BY <1>1, <2>2 DEF Headed
        <3> QED
            BY <1>4, <3>1
    <2> QED
        BY <2>1, <2>2
<1>8. ASSUME NEW p \in Written(t)
      PROVE  p[1] \in 0..Height(t) /\ p[2] \in 1..Width(t)
    <2>1. p \in DOMAIN t.occupied
        BY DEF Written
    <2> QED
        BY <1>4, <1>5, <2>1
<1> QED
    BY <1>2, <1>4, <1>6, <1>7, <1>8

LEMMA MarkdownOf ==
    ASSUME NEW tags, NEW n \in Nat, NEW t, Woven(t, tags, n), Built(t)
    PROVE  MarkdownIs(t, _grid_to_markdown(t))
<1> DEFINE m == _grid_to_markdown(t)
           R == Height(t)
           C == Width(t)
           h == t.header_rows
           grid == [r \in 1..R |-> [c \in 1..C |-> Held(t, r, c)]]
<1>1. R \in Nat /\ C \in Nat /\ h \in Nat /\ 1 <= R /\ h <= R
    BY GridIs
<1>2. \A r, c : Held(t, r, c) \in Nat
    <2>1. 1 \in Nat \ {0}
        OBVIOUS
    <2> QED
        BY <2>1, AtIs
<1>3. _build_grid(t) = grid
    BY DEF _build_grid, Height, Width, Held, Empty
<1> HIDE DEF R, C, h
<1>4. grid \in Seq(Seq(Nat)) /\ Len(grid) = R
    <2>1. \A r \in 1..R : [c \in 1..C |-> Held(t, r, c)] \in Seq(Nat)
        BY <1>1, <1>2
    <2> QED
        BY <1>1, <2>1
<1>5. m = [headers |-> [c \in DOMAIN grid[1] |-> InOrder([r \in 1..h |-> grid[r][c]], Nat \ {Empty})],
           rows |-> SubSeq(grid, h + 1, Len(grid))]
    BY <1>3 DEF _grid_to_markdown, h
<1>6. 1 \in 1..R /\ DOMAIN grid[1] = 1..C
    BY <1>1
<1>7. \A r \in 1..R : \A c \in 1..C : grid[r][c] = Held(t, r, c)
    OBVIOUS
<1>8. ASSUME NEW c \in 1..C
      PROVE  [r \in 1..h |-> grid[r][c]] = Column(t, c)
    <2>1. \A r \in 1..h : r \in 1..R
        BY <1>1
    <2>2. \A r \in 1..h : grid[r][c] = Held(t, r, c)
        BY <1>7, <2>1
    <2> HIDE DEF grid
    <2> QED
        BY <2>2 DEF Column, h
<1>9. \A r \in 1..R : grid[r] = GridLine(t, r)
    BY DEF GridLine, C
<1> HIDE DEF grid, m
<1>10. m.headers = [c \in 1..C |-> Header(t, c)]
    BY <1>5, <1>6, <1>8 DEF Header
<1>11. \A c \in 1..C : Header(t, c) \in Seq(Nat)
    <2>1. \A c \in 1..C : Column(t, c) \in Seq(Nat)
        BY <1>1, <1>2 DEF Column, h
    <2> QED
        BY <2>1, InOrderRange DEF Header
<1>12. m.headers \in Seq(Seq(Nat)) /\ Len(m.headers) = C /\ \A c \in 1..C : m.headers[c] = Header(t, c)
    BY <1>1, <1>10, <1>11
<1>13. m.rows = SubSeq(grid, h + 1, R)
    BY <1>4, <1>5
<1>14. m.rows \in Seq(Seq(Nat)) /\ Len(m.rows) = R - h /\ \A k \in 1..(R - h) : m.rows[k] = grid[h + k]
    <2>1. h + 1 \in 1..(R + 1) /\ R \in h..R /\ R - (h + 1) + 1 = R - h /\ R - h \in Nat
        BY <1>1
    <2>2. /\ SubSeq(grid, h + 1, R) \in Seq(Seq(Nat)) /\ Len(SubSeq(grid, h + 1, R)) = R - h
        BY <1>1, <1>4, <2>1
    <2>3. ASSUME NEW k \in 1..(R - h) PROVE SubSeq(grid, h + 1, R)[k] = grid[h + k]
        <3> DEFINE a == h + 1
                   X == Seq(Nat)
        <3>1. a \in 1..(R + 1) /\ k \in 1..(R - a + 1) /\ a + k - 1 = h + k /\ a \in Nat
            BY <1>1
        <3>2. grid \in Seq(X) /\ Len(grid) = R /\ R \in Nat
            BY <1>1, <1>4
        <3> HIDE DEF a, X
        <3>3. SubSeq(grid, a, R)[k] = grid[a + k - 1]
            BY <3>1, <3>2
        <3> QED
            BY <3>1, <3>3 DEF a
    <2> QED
        BY <1>13, <2>2, <2>3
<1>15. \A k \in 1..(R - h) : m.rows[k] = GridLine(t, h + k)
    <2> TAKE k \in 1..(R - h)
    <2>1. h + k \in 1..R
        BY <1>1
    <2> QED
        BY <1>9, <1>14, <2>1
<1>16. MarkdownIs(t, m)
    BY <1>12, <1>14, <1>15 DEF MarkdownIs, R, C, h
<1> QED
    BY <1>16 DEF m

PrintedLines(m) == Cat(m.headers, m.rows)
PlaceOf(m, i, l, c) == l \in 1..Len(PrintedLines(m)) /\ c \in 1..Len(PrintedLines(m)[l]) /\ PrintedLines(m)[l][c] = i
HomeAt(t, i, p) == p \in Written(t) /\ t.occupied[p] = i

(* The lines of a table, one by one.                                        *)
LEMMA LinesAre ==
    ASSUME NEW tags, NEW n \in Nat, NEW t, Woven(t, tags, n), Built(t), NEW m, MarkdownIs(t, m)
    PROVE  /\ PrintedLines(m) \in Seq(Seq(Nat)) /\ Len(PrintedLines(m)) = Width(t) + (Height(t) - t.header_rows)
           /\ \A c \in 1..Width(t) : PrintedLines(m)[c] = Header(t, c)
           /\ \A k \in 1..(Height(t) - t.header_rows) : PrintedLines(m)[Width(t) + k] = GridLine(t, t.header_rows + k)
<1>1. /\ Len(m.headers) = Width(t) /\ Len(m.rows) = Height(t) - t.header_rows
      /\ m.headers \in Seq(Seq(Nat)) /\ m.rows \in Seq(Seq(Nat))
      /\ \A c \in 1..Width(t) : m.headers[c] = Header(t, c)
      /\ \A k \in 1..(Height(t) - t.header_rows) : m.rows[k] = GridLine(t, t.header_rows + k)
    BY DEF MarkdownIs
<1> DEFINE X == Seq(Nat)
           a == m.headers
           b == m.rows
<1>a. a \in Seq(X) /\ b \in Seq(X)
    BY <1>1
<1> HIDE DEF X, a, b
<1>b. /\ Cat(a, b) \in Seq(X) /\ Len(Cat(a, b)) = Len(a) + Len(b)
      /\ \A k \in 1..Len(a) : Cat(a, b)[k] = a[k]
      /\ \A k \in 1..Len(b) : Cat(a, b)[Len(a) + k] = b[k]
    <2>1. Cat(a, b) \in Seq(X) /\ Len(Cat(a, b)) = Len(a) + Len(b)
        BY <1>a, CatIs
    <2>2. \A k \in 1..Len(a) : Cat(a, b)[k] = a[k]
        BY <1>a, CatBefore
    <2>3. ASSUME NEW k \in 1..Len(b) PROVE Cat(a, b)[Len(a) + k] = b[k]
        BY <1>a, CatAfter
    <2> QED
        BY <2>1, <2>2, <2>3
<1>2. /\ Cat(m.headers, m.rows) \in Seq(Seq(Nat)) /\ Len(Cat(m.headers, m.rows)) = Len(m.headers) + Len(m.rows)
      /\ \A k \in 1..Len(m.headers) : Cat(m.headers, m.rows)[k] = m.headers[k]
      /\ \A k \in 1..Len(m.rows) : Cat(m.headers, m.rows)[Len(m.headers) + k] = m.rows[k]
    BY <1>b DEF X, a, b
<1> QED
    BY <1>1, <1>2 DEF PrintedLines

(* A header has none of the texts that are not above its column.            *)
LEMMA HeaderNone ==
    ASSUME NEW tags, NEW n \in Nat, NEW t, Woven(t, tags, n), Built(t), NEW i \in Nat \ {0}, NEW c,
           \A r \in 1..t.header_rows : ~ HomeAt(t, i, <<r, c>>)
    PROVE  OccursNever(Header(t, c), i)
<1>1. t.header_rows \in Nat
    BY GridIs
<1>2. \A r : Held(t, r, c) \in Nat /\ (Held(t, r, c) = i => HomeAt(t, i, <<r, c>>))
    BY AtIs DEF HomeAt
<1>3. Column(t, c) \in Seq(Nat) /\ Len(Column(t, c)) = t.header_rows
    <2>1. \A s : Held(t, s, c) \in Nat
        BY <1>2
    <2> QED
        BY <1>1, <2>1 DEF Column
<1>4. \A r \in 1..t.header_rows : Column(t, c)[r] = Held(t, r, c)
    BY DEF Column
<1>5. OccursNever(Column(t, c), i)
    BY <1>2, <1>3, <1>4 DEF OccursNever
<1> QED
    BY <1>3, <1>5, InOrderNone DEF Header

(* A header has each text above its column once.                            *)
LEMMA HeaderOnce ==
    ASSUME NEW tags, NEW n \in Nat, NEW t, Woven(t, tags, n), Built(t), NEW i \in Nat \ {0}, NEW c,
           NEW r \in 1..t.header_rows, HomeAt(t, i, <<r, c>>),
           \A s \in 1..t.header_rows : HomeAt(t, i, <<s, c>>) => s = r
    PROVE  OccursOnce(Header(t, c), i)
<1>1. t.header_rows \in Nat
    BY GridIs
<1>2. \A s : Held(t, s, c) \in Nat /\ (Held(t, s, c) = i <=> HomeAt(t, i, <<s, c>>))
    BY AtIs DEF HomeAt
<1>3. Column(t, c) \in Seq(Nat) /\ Len(Column(t, c)) = t.header_rows
    <2>1. \A s : Held(t, s, c) \in Nat
        BY <1>2
    <2> QED
        BY <1>1, <2>1 DEF Column
<1>4. \A s \in 1..t.header_rows : Column(t, c)[s] = Held(t, s, c)
    BY DEF Column
<1>5. Column(t, c)[r] = i
    BY <1>2, <1>4
<1>6. OnlyAt(Column(t, c), Column(t, c)[r], r)
    BY <1>2, <1>3, <1>4, <1>5 DEF OnlyAt
<1>7. Column(t, c)[r] \in Nat \ {Empty}
    BY <1>5 DEF Empty
<1>8. OccursOnce(InOrder(Column(t, c), Nat \ {Empty}), Column(t, c)[r])
    BY <1>3, <1>6, <1>7, InOrderOnce
<1> QED
    BY <1>5, <1>8 DEF Header

(* A line below the headers has what is at its places.                      *)
LEMMA LineIs ==
    ASSUME NEW tags, NEW n \in Nat, NEW t, Woven(t, tags, n), Built(t), NEW i \in Nat \ {0}, NEW r
    PROVE  /\ Len(GridLine(t, r)) = Width(t)
           /\ \A c \in 1..Width(t) : GridLine(t, r)[c] = i <=> HomeAt(t, i, <<r, c>>)
<1>1. Width(t) \in Nat
    BY GridIs
<1>2. \A c : Held(t, r, c) \in Nat /\ (Held(t, r, c) = i <=> HomeAt(t, i, <<r, c>>))
    <2> TAKE c
    <2>1. Held(t, r, c) \in Nat
        BY AtIs
    <2>2. Held(t, r, c) = i <=> <<r, c>> \in Written(t) /\ t.occupied[<<r, c>>] = i
        BY AtIs
    <2> QED
        BY <2>1, <2>2 DEF HomeAt
<1> QED
    BY <1>1, <1>2 DEF GridLine

(* A heading line of a printed table is the header of its column.           *)
LEMMA HeaderLine ==
    ASSUME NEW tags, NEW n \in Nat, NEW t, Woven(t, tags, n), Built(t), NEW m, MarkdownIs(t, m),
           NEW c \in 1..Width(t)
    PROVE  PrintedLines(m)[c] = Header(t, c)
<1>1. \A d \in 1..Width(t) : PrintedLines(m)[d] = Header(t, d)
    BY LinesAre
<1> QED
    BY <1>1

(* A line below the headings is the row of the grid at its place.           *)
LEMMA BodyLine ==
    ASSUME NEW tags, NEW n \in Nat, NEW t, Woven(t, tags, n), Built(t), NEW m, MarkdownIs(t, m),
           NEW k \in 1..(Height(t) - t.header_rows)
    PROVE  PrintedLines(m)[Width(t) + k] = GridLine(t, t.header_rows + k)
<1>1. \A s \in 1..(Height(t) - t.header_rows) : PrintedLines(m)[Width(t) + s] = GridLine(t, t.header_rows + s)
    BY LinesAre
<1> QED
    BY <1>1

(* A text that a table does not hold is not in its Markdown.                *)
LEMMA PlacedNowhere ==
    ASSUME NEW tags, NEW n \in Nat, NEW t, Woven(t, tags, n), Built(t), NEW m, MarkdownIs(t, m),
           NEW i \in Nat \ {0}, ~ Home(t, i), NEW l, NEW c
    PROVE  ~ PlaceOf(m, i, l, c)
<1>1. \A p : ~ HomeAt(t, i, p)
    BY DEF Home, HomeAt
<1>2. /\ Width(t) \in Nat /\ Height(t) \in Nat /\ t.header_rows \in Nat /\ t.header_rows <= Height(t)
    BY GridIs
<1>3. SUFFICES ASSUME PlaceOf(m, i, l, c) PROVE FALSE
    OBVIOUS
<1>4. l \in 1..(Width(t) + (Height(t) - t.header_rows)) /\ c \in 1..Len(PrintedLines(m)[l]) /\ PrintedLines(m)[l][c] = i
    BY <1>3, LinesAre DEF PlaceOf
<1>5. CASE l \in 1..Width(t)
    <2>1. PrintedLines(m)[l] = Header(t, l)
        BY <1>5, HeaderLine
    <2>2. OccursNever(Header(t, l), i)
        BY <1>1, HeaderNone
    <2> QED
        BY <1>4, <2>1, <2>2 DEF OccursNever
<1>6. CASE l \notin 1..Width(t)
    <2> DEFINE k == l - Width(t)
    <2>1. k \in 1..(Height(t) - t.header_rows) /\ l = Width(t) + k
        BY <1>2, <1>4, <1>6
    <2> DEFINE s == t.header_rows + k
    <2> HIDE DEF k
    <2>2. PrintedLines(m)[l] = GridLine(t, s)
        BY <2>1, BodyLine
    <2> HIDE DEF s
    <2>a. Len(GridLine(t, s)) = Width(t)
        BY LineIs
    <2>3. c \in 1..Width(t) /\ GridLine(t, s)[c] = i
        BY <1>4, <2>2, <2>a
    <2>4. HomeAt(t, i, <<s, c>>)
        BY <2>3, LineIs
    <2> QED
        BY <1>1, <2>4
<1> QED
    BY <1>5, <1>6

PlacedOnce(m, i) == \E l, c : PlaceOf(m, i, l, c) /\ \A k, d : PlaceOf(m, i, k, d) => k = l /\ d = c

(* A text that a table holds in a row is in its Markdown once.              *)
LEMMA PlacedOnceIn ==
    ASSUME NEW tags, NEW n \in Nat, NEW t, Woven(t, tags, n), Built(t), NEW m, MarkdownIs(t, m),
           NEW i \in Nat \ {0}, InARow(t, i)
    PROVE  PlacedOnce(m, i)
<1> DEFINE C == Width(t)
           R == Height(t)
           h == t.header_rows
<1>1. C \in Nat /\ R \in Nat /\ h \in Nat /\ h <= R
    BY GridIs
<1>2. PICK p \in Written(t) : t.occupied[p] = i /\ p[1] >= 1
    BY DEF InARow
<1>3. /\ p[1] \in 0..R /\ p[2] \in 1..C
    BY GridIs
<1>4. t \in Tables /\ Apart(t, tags)
    BY DEF Woven, Consistent
<1>5. p = <<p[1], p[2]>>
    BY <1>4, Positions DEF Written
<1>6. \A q : HomeAt(t, i, q) <=> q = p
    BY <1>2, <1>4 DEF HomeAt, Apart
<1> DEFINE r == p[1]
           c == p[2]
<1>7. r \in 1..R /\ c \in 1..C
    BY <1>1, <1>2, <1>3
<1> HIDE DEF r, c
<1>8. \A s, d : HomeAt(t, i, <<s, d>>) <=> s = r /\ d = c
    BY <1>5, <1>6 DEF r, c
<1> HIDE DEF C, R, h
<1>9. Len(PrintedLines(m)) = C + (R - h) /\ \A d \in 1..C : PrintedLines(m)[d] = Header(t, d)
    <2>1. Len(PrintedLines(m)) = C + (R - h)
        BY LinesAre DEF C, R, h
    <2>2. ASSUME NEW d \in 1..C PROVE PrintedLines(m)[d] = Header(t, d)
        BY <2>2, HeaderLine DEF C
    <2> QED
        BY <2>1, <2>2
<1>10. ASSUME NEW k \in 1..(R - h)
       PROVE  PrintedLines(m)[C + k] = GridLine(t, h + k)
    BY <1>10, BodyLine DEF C, R, h
<1>11. \A s : Len(GridLine(t, s)) = C /\ \A d \in 1..C : GridLine(t, s)[d] = i <=> s = r /\ d = c
    <2> TAKE s
    <2>1. /\ Len(GridLine(t, s)) = C
          /\ \A d \in 1..C : GridLine(t, s)[d] = i <=> HomeAt(t, i, <<s, d>>)
        BY LineIs DEF C
    <2> QED
        BY <1>8, <2>1
<1>12. \A l \in 1..(C + (R - h)) : l \in 1..C \/ (l - C \in 1..(R - h) /\ l = C + (l - C))
    BY <1>1
<1>13. \A d \in 1..C : d # c => OccursNever(Header(t, d), i)
    BY <1>8, HeaderNone DEF h
<1>14. CASE r <= h
    <2>1. r \in 1..h
        BY <1>1, <1>7, <1>14
    <2>2. OccursOnce(Header(t, c), i)
        BY <1>8, <2>1, HeaderOnce DEF h
    <2>3. PICK d \in 1..Len(Header(t, c)) : OnlyAt(Header(t, c), i, d)
        BY <2>2 DEF OccursOnce
    <2>4. c \in 1..(C + (R - h))
        BY <1>1, <1>7
    <2>5. PlaceOf(m, i, c, d)
        BY <1>7, <1>9, <2>3, <2>4 DEF PlaceOf, OnlyAt
    <2>6. ASSUME NEW k, NEW e, PlaceOf(m, i, k, e)
          PROVE  k = c /\ e = d
        <3>1. k \in 1..(C + (R - h)) /\ e \in 1..Len(PrintedLines(m)[k]) /\ PrintedLines(m)[k][e] = i
            BY <1>9, <2>6 DEF PlaceOf
        <3>2. CASE k \in 1..C
            <4>1. PrintedLines(m)[k] = Header(t, k)
                BY <1>9, <3>2
            <4>2. ~ OccursNever(Header(t, k), i)
                BY <3>1, <4>1 DEF OccursNever
            <4>3. k = c
                BY <1>13, <3>2, <4>2
            <4> QED
                BY <2>3, <3>1, <4>1, <4>3 DEF OnlyAt
        <3>3. CASE k \notin 1..C
            <4> DEFINE j == k - C
            <4>1. j \in 1..(R - h) /\ k = C + j
                BY <1>12, <3>1, <3>3
            <4> HIDE DEF j
            <4>2. PrintedLines(m)[k] = GridLine(t, h + j)
                BY <1>10, <4>1
            <4>3. h + j = r
                BY <1>11, <3>1, <4>2
            <4> QED
                BY <1>1, <1>14, <1>7, <4>1, <4>3
        <3> QED
            BY <3>2, <3>3
    <2> QED
        BY <2>5, <2>6 DEF PlacedOnce
<1>15. CASE ~ (r <= h)
    <2> DEFINE g == r - h
    <2>1. g \in 1..(R - h) /\ r = h + g /\ C + g \in 1..(C + (R - h)) /\ C + g \notin 1..C
        BY <1>1, <1>7, <1>15
    <2> HIDE DEF g
    <2>2. PrintedLines(m)[C + g] = GridLine(t, r)
        BY <1>10, <2>1
    <2>3. PlaceOf(m, i, C + g, c)
        BY <1>7, <1>9, <1>11, <2>1, <2>2 DEF PlaceOf
    <2>4. ASSUME NEW k, NEW e, PlaceOf(m, i, k, e)
          PROVE  k = C + g /\ e = c
        <3>1. k \in 1..(C + (R - h)) /\ e \in 1..Len(PrintedLines(m)[k]) /\ PrintedLines(m)[k][e] = i
            BY <1>9, <2>4 DEF PlaceOf
        <3>2. CASE k \in 1..C
            <4>1. PrintedLines(m)[k] = Header(t, k)
                BY <1>9, <3>2
            <4>2. ~ OccursNever(Header(t, k), i)
                BY <3>1, <4>1 DEF OccursNever
            <4>3. \A s \in 1..h : ~ HomeAt(t, i, <<s, k>>)
                BY <1>1, <1>7, <1>8, <1>15
            <4>4. OccursNever(Header(t, k), i)
                BY <4>3, HeaderNone DEF h
            <4> QED
                BY <4>2, <4>4
        <3>3. CASE k \notin 1..C
            <4> DEFINE j == k - C
            <4>1. j \in 1..(R - h) /\ k = C + j
                BY <1>12, <3>1, <3>3
            <4> HIDE DEF j
            <4>2. PrintedLines(m)[k] = GridLine(t, h + j)
                BY <1>10, <4>1
            <4>3. h + j = r /\ e = c
                BY <1>11, <3>1, <4>2
            <4>4. j = g
                BY <1>1, <2>1, <4>1, <4>3
            <4> QED
                BY <4>1, <4>3, <4>4
        <3> QED
            BY <3>2, <3>3
    <2> QED
        BY <2>3, <2>4 DEF PlacedOnce
<1> QED
    BY <1>14, <1>15

Finished(tables, tags, n) ==
    /\ tables \in Seq(Tables)
    /\ \A k \in 1..Len(tables) : Woven(tables[k], tags, n) /\ Built(tables[k])
    /\ \A k, l \in 1..Len(tables) : \A i : Home(tables[k], i) /\ Home(tables[l], i) => k = l
    /\ \A i \in 1..n : Counts(tags, i) => \E k \in 1..Len(tables) : InARow(tables[k], i)

(* The tables that come out: one that is cut off counts as far as it goes.  *)
LEMMA TabledIs ==
    ASSUME NEW tags, NEW n \in Nat, NEW fed, Fed(fed, tags, n)
    PROVE  Finished(Tabled(fed), tags, n)
<1>1. Sound(fed, tags, n) /\ Single(fed) /\ Opened(fed, tags, n) /\ KeptAll(fed, tags, n)
    BY DEF Fed
<1> DEFINE t == fed.table
           ts == fed.tables
           us == Tabled(fed)
           b == fed.in_table /\ Built(fed.table)
<1>2. ts \in Seq(Tables) /\ t \in Tables /\ us = IF b THEN Append(ts, t) ELSE ts
    BY <1>1 DEF Sound, Parsers, Tabled
<1> HIDE DEF t, ts, us, b
<1>4. Len(ts) \in Nat
    BY <1>2
<1>5. \A k \in 1..Len(us) : (k \in 1..Len(ts) /\ us[k] = ts[k]) \/ (k = Len(ts) + 1 /\ us[k] = t /\ b)
    BY <1>2
<1>6. \A k \in 1..Len(ts) : k \in 1..Len(us) /\ us[k] = ts[k]
    BY <1>2
<1>7. b => Len(ts) + 1 \in 1..Len(us) /\ us[Len(ts) + 1] = t
    BY <1>2
<1>8. us \in Seq(Tables)
    BY <1>2
<1>9. \A k \in 1..Len(us) : Woven(us[k], tags, n) /\ Built(us[k])
    <2>1. \A k \in 1..Len(ts) : Woven(ts[k], tags, n) /\ Built(ts[k])
        BY <1>1 DEF Sound, ts
    <2>2. Woven(t, tags, n) /\ (b => Built(t))
        BY <1>1 DEF Sound, t, b
    <2> QED
        BY <1>5, <2>1, <2>2
<1>10. \A k, l \in 1..Len(us) : \A i : Home(us[k], i) /\ Home(us[l], i) => k = l
    <2>1. \A k, l \in 1..Len(ts) : \A i : Home(ts[k], i) /\ Home(ts[l], i) => k = l
        BY <1>1 DEF Single, ts
    <2>2. b => \A k \in 1..Len(ts) : \A i : ~ (Home(t, i) /\ Home(ts[k], i))
        BY <1>1 DEF Single, ts, t, b
    <2> QED
        BY <1>5, <2>1, <2>2
<1>11. ASSUME NEW i \in 1..n, Counts(tags, i) PROVE \E k \in 1..Len(us) : InARow(us[k], i)
    <2>1. (fed.in_table /\ InARow(t, i)) \/ \E k \in 1..Len(ts) : InARow(ts[k], i)
        BY <1>1, <1>11 DEF KeptAll, KeptIn, t, ts
    <2>2. CASE fed.in_table /\ InARow(t, i)
        <3>1. Built(t)
            BY <2>2, ShownBuilt
        <3>2. b
            BY <2>2, <3>1 DEF b, t
        <3> QED
            BY <1>7, <2>2, <3>2
    <2>3. CASE \E k \in 1..Len(ts) : InARow(ts[k], i)
        BY <1>6, <2>3
    <2> QED
        BY <2>1, <2>2, <2>3
<1>12. Finished(us, tags, n)
    BY <1>8, <1>9, <1>10, <1>11 DEF Finished
<1> QED
    BY <1>12 DEF us

PlacesAt(markdown, K, i) ==
    \A x : x \in Places(markdown, i) <=> \E k \in 1..K : \E l, c : PlaceOf(markdown[k], i, l, c) /\ x = <<k, l, c>>

(* What the places of a text are.                                           *)
LEMMA PlacesAre ==
    ASSUME NEW K \in Nat, NEW markdown, DOMAIN markdown = 1..K,
           \A k \in 1..K : PrintedLines(markdown[k]) \in Seq(Seq(Nat)), NEW i
    PROVE  PlacesAt(markdown, K, i)
<1> DEFINE Lists(k) == markdown[k].headers \o markdown[k].rows
           In(k, l) == {c \in DOMAIN Lists(k)[l] : Lists(k)[l][c] = i}
           Line1(k, l) == {<<k, l, c>> : c \in In(k, l)}
           Table1(k) == UNION {Line1(k, l) : l \in DOMAIN Lists(k)}
<1>1. Places(markdown, i) = UNION {Table1(k) : k \in DOMAIN markdown}
    BY DEF Places
<1>2. \A k : Lists(k) = PrintedLines(markdown[k])
    BY DEF PrintedLines, Cat
<1> HIDE DEF Lists
<1>3. ASSUME NEW k \in 1..K, NEW l, NEW c
      PROVE  (l \in DOMAIN Lists(k) /\ c \in In(k, l)) <=> PlaceOf(markdown[k], i, l, c)
    <2>1. Lists(k) \in Seq(Seq(Nat))
        BY <1>2
    <2>2. DOMAIN Lists(k) = 1..Len(Lists(k))
        BY <2>1
    <2>3. l \in DOMAIN Lists(k) => Lists(k)[l] \in Seq(Nat)
        BY <2>1
    <2>4. l \in DOMAIN Lists(k) => DOMAIN Lists(k)[l] = 1..Len(Lists(k)[l])
        BY <2>3
    <2> QED
        BY <1>2, <2>2, <2>4 DEF PlaceOf
<1> HIDE DEF In
<1>4. ASSUME NEW x, NEW k
      PROVE  x \in Table1(k) <=> \E l, c : l \in DOMAIN Lists(k) /\ c \in In(k, l) /\ x = <<k, l, c>>
    OBVIOUS
<1> HIDE DEF Table1
<1> QED
    BY <1>1, <1>3, <1>4 DEF PlacesAt

(* A text is in one place of the Markdown of some tables, in one of which   *)
(* it is shown.                                                             *)
LEMMA OnePlace ==
    ASSUME NEW tags, NEW n \in Nat, NEW tables, Finished(tables, tags, n), NEW i \in 1..n, Counts(tags, i)
    PROVE  Cardinality(Places([k \in DOMAIN tables |-> _grid_to_markdown(tables[k])], i)) = 1
<1> DEFINE markdown == [k \in DOMAIN tables |-> _grid_to_markdown(tables[k])]
           K == Len(tables)
<1>1. tables \in Seq(Tables) /\ K \in Nat /\ DOMAIN tables = 1..K
    BY DEF Finished
<1>2. DOMAIN markdown = 1..K /\ \A k \in 1..K : markdown[k] = _grid_to_markdown(tables[k])
    BY <1>1
<1> HIDE DEF markdown
<1>3. \A k \in 1..K : Woven(tables[k], tags, n) /\ Built(tables[k])
    BY DEF Finished
<1> HIDE DEF K
<1>4. \A k \in 1..K : MarkdownIs(tables[k], markdown[k])
    BY <1>2, <1>3, MarkdownOf
<1>5. \A k \in 1..K : PrintedLines(markdown[k]) \in Seq(Seq(Nat))
    BY <1>3, <1>4, LinesAre
<1>6. i \in Nat \ {0}
    OBVIOUS
<1>7. PICK k \in 1..K : InARow(tables[k], i)
    BY DEF Finished, K
<1>8. \A l \in 1..K : Home(tables[l], i) => l = k
    BY <1>7, ShownBuilt DEF Finished, K
<1>9. PlacedOnce(markdown[k], i)
    BY <1>3, <1>4, <1>6, <1>7, PlacedOnceIn
<1>10. PICK l, c : PlaceOf(markdown[k], i, l, c) /\ \A j, d : PlaceOf(markdown[k], i, j, d) => j = l /\ d = c
    BY <1>9 DEF PlacedOnce
<1>11. \A j \in 1..K : j # k => \A a, d : ~ PlaceOf(markdown[j], i, a, d)
    BY <1>3, <1>4, <1>6, <1>8, PlacedNowhere
<1>12. \A x : x \in Places(markdown, i) <=> \E j \in 1..K : \E a, d : PlaceOf(markdown[j], i, a, d) /\ x = <<j, a, d>>
    <2>1. PlacesAt(markdown, K, i)
        <3>1. K \in Nat /\ DOMAIN markdown = 1..K
            BY <1>1, <1>2 DEF K
        <3> QED
            BY <1>5, <3>1, PlacesAre
    <2> QED
        BY <2>1 DEF PlacesAt
<1>13. Places(markdown, i) = {<<k, l, c>>}
    <2>1. \A x : x \in Places(markdown, i) <=> x = <<k, l, c>>
        BY <1>10, <1>11, <1>12
    <2> QED
        BY <2>1
<1>14. Cardinality(Places(markdown, i)) = 1
    BY <1>13, FS_Singleton
<1> QED
    BY <1>14 DEF markdown

(* Whatever tags come, each cell of a row comes out once, and no cell's     *)
(* place is taken.                                                          *)
THEOREM CellsAllComeOut ==
    ASSUME NEW tags, Tagged(tags)
    PROVE  CellsComeOut(tags)
<1> DEFINE n == Len(tags)
           tables == parse_html_tables(tags)
           cells == {i \in DOMAIN tags : /\ tags[i].tag = "cell" /\ tags[i].closed
                                      /\ \E j \in 1..i : /\ tags[j].tag = "table"
                                                         /\ \A k \in j..i : tags[k].tag # "/table"
                                                         /\ \E k \in j..i : tags[k].tag = "tr"}
           Below(i, k, p, q) ==
                LET j == tables[k].occupied[q]
                IN /\ j # Empty /\ j < i => q[1] < p[1] \/ (q[1] = p[1] /\ q[2] < p[2])
                   /\ j # Empty /\ j # i => p[1] \notin q[1]..(q[1] + tags[j].rowspan - 1)
                                            \/ p[2] \notin q[2]..(q[2] + tags[j].colspan - 1)
<1>1. n \in Nat /\ DOMAIN tags = 1..n
    BY DEF Tagged
<1>2. PICK fed : Fed(fed, tags, Len(tags)) /\ parse_html_tables(tags) = Tabled(fed)
    BY ParsedFed
<1>3. Finished(tables, tags, n)
    <2>1. Finished(Tabled(fed), tags, Len(tags))
        BY <1>1, <1>2, TabledIs
    <2> QED
        BY <1>2, <2>1
<1>4. \A i \in cells : i \in 1..n /\ Counts(tags, i)
    BY <1>1 DEF Counts, RowOpen
<1>5. Markdown(tags) = [k \in DOMAIN tables |-> _grid_to_markdown(tables[k])]
    BY DEF Markdown
<1> HIDE DEF tables, n, cells
<1>6. \A i \in cells : Cardinality(Places(Markdown(tags), i)) = 1
    BY <1>1, <1>3, <1>4, <1>5, OnePlace
<1>7. ASSUME NEW i \in cells, NEW k \in DOMAIN tables, NEW p \in DOMAIN tables[k].occupied,
             tables[k].occupied[p] = i, NEW q \in DOMAIN tables[k].occupied
      PROVE  Below(i, k, p, q)
    <2> DEFINE t == tables[k]
               j == t.occupied[q]
    <2>1. k \in 1..Len(tables)
        BY <1>3 DEF Finished
    <2>2. Woven(t, tags, n)
        BY <1>3, <2>1 DEF Finished
    <2>3. Apart(t, tags) /\ t \in Tables
        BY <2>2 DEF Woven, Consistent
    <2>4. i # 0
        BY <1>1, <1>4
    <2>5. p \in Written(t) /\ t.occupied[p] = i
        BY <1>7, <2>4 DEF Written
    <2>6. p = <<p[1], p[2]>>
        BY <1>7, <2>3, Positions
    <2>7. j # Empty => q \in Written(t)
        BY <1>7 DEF Written, Empty
    <2> HIDE DEF t
    <2>8. j # Empty /\ j < i => ComesFirst(q, p)
        BY <2>3, <2>5, <2>7 DEF Apart
    <2>9. j # Empty /\ j # i => p \notin Spanned(q, tags[j])
        BY <2>3, <2>5, <2>7 DEF Apart
    <2>10. /\ j # Empty /\ j < i => q[1] < p[1] \/ (q[1] = p[1] /\ q[2] < p[2])
           /\ j # Empty /\ j # i => p[1] \notin q[1]..(q[1] + tags[j].rowspan - 1)
                                    \/ p[2] \notin q[2]..(q[2] + tags[j].colspan - 1)
        <3> HIDE DEF j
        <3> QED
            BY <2>6, <2>8, <2>9 DEF ComesFirst, Spanned
    <2> QED
        BY <2>10 DEF t
<1>8. CellsComeOut(tags) <=>
      \A i \in cells :
          /\ Cardinality(Places(Markdown(tags), i)) = 1
          /\ \A k \in DOMAIN tables : \A p \in DOMAIN tables[k].occupied :
                 tables[k].occupied[p] = i => \A q \in DOMAIN tables[k].occupied : Below(i, k, p, q)
    BY DEF CellsComeOut, cells, tables
<1> HIDE DEF Below
<1> QED
    BY <1>6, <1>7, <1>8

(* Every closed cell of a row comes out of html_table_parser.py exactly     *)
(* once, and no cell's place is taken by an earlier one's span, nor their   *)
(* order changed, whatever the report's tags.                               *)
THEOREM CellsHoldAlways == Spec => []CellsHold
<1>1. InputType => CellsHold
    <2> SUFFICES ASSUME InputType, subject = "html" PROVE CellsComeOut(input)
        BY DEF CellsHold
    <2> DEFINE X == Alphabet["html"]
    <2>1. \A tag \in X : IsTag(tag)
        BY InputsOK
    <2>2. input \in Seq(X)
        BY DEF InputType
    <2> HIDE DEF X
    <2>3. /\ Len(input) \in Nat /\ DOMAIN input = 1..Len(input)
          /\ \A k \in 1..Len(input) : input[k] \in X
          /\ input = [k \in 1..Len(input) |-> input[k]]
        BY <2>2
    <2>4. \A k \in 1..Len(input) : input[k] \in Range(input)
        BY <2>3 DEF Range
    <2>5. input \in Seq(Range(input))
        BY <2>3, <2>4
    <2>6. Tagged(input)
        BY <2>1, <2>3, <2>5 DEF Tagged
    <2> QED
        BY <2>6, CellsAllComeOut
<1> QED
    BY <1>1, InputsAreTyped, PTL
=============================================================================
