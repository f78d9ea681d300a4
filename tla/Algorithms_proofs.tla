---------------------------- MODULE Algorithms_proofs ----------------------------
(***************************************************************************)
(* Four more of the pure algorithms on every input, whatever its length    *)
(* and the settings: the data splits, the launch plan, the calculator, the *)
(* search tools and the episode reward.                                    *)
(***************************************************************************)
EXTENDS Documents_proofs

Once(seq) == \A i, j \in 1..Len(seq) : seq[i] = seq[j] => i = j

(* What is kept is what belongs to S, each once. *)
KeepsFirst(kept, order, S, k) ==
    /\ \A i \in 1..Len(kept) : kept[i] \in S /\ \E j \in 1..k : kept[i] = order[j]
    /\ \A j \in 1..k : order[j] \in S => \E i \in 1..Len(kept) : kept[i] = order[j]
    /\ Once(kept)

(* One step of a selection keeps the next element if it is of the set,      *)
(* after those kept before.                                                 *)
LEMMA KeepsOne ==
    ASSUME NEW X, NEW order \in Seq(X), Once(order), NEW S, NEW k \in Nat, k + 1 \in 1..Len(order),
           NEW kept \in Seq(X), KeepsFirst(kept, order, S, k)
    PROVE  KeepsFirst(IF order[k + 1] \in S THEN Append(kept, order[k + 1]) ELSE kept, order, S, k + 1)
<1> DEFINE x == order[k + 1]
           more == Append(kept, x)
           n == Len(kept)
<1>1. n \in Nat /\ 1..(k + 1) = 1..k \cup {k + 1}
    OBVIOUS
<1>2. CASE x \in S
    <2>1. /\ more \in Seq(X) /\ Len(more) = n + 1 /\ more[n + 1] = x
          /\ \A i \in 1..n : more[i] = kept[i]
        OBVIOUS
    <2>2. 1..(n + 1) = 1..n \cup {n + 1} /\ n + 1 \notin 1..n
        BY <1>1
    <2>3. \A i \in 1..n : kept[i] # x
        <3> SUFFICES ASSUME NEW i \in 1..n, kept[i] = x PROVE FALSE
            OBVIOUS
        <3>1. PICK j \in 1..k : kept[i] = order[j]
            BY DEF KeepsFirst
        <3>2. j \in 1..Len(order) /\ j # k + 1
            OBVIOUS
        <3> QED
            BY <3>1, <3>2 DEF Once
    <2>4. Once(more)
        <3>1. \A i, j \in 1..n : kept[i] = kept[j] => i = j
            BY DEF KeepsFirst, Once
        <3> HIDE DEF more, n, x
        <3> QED
            BY <2>1, <2>2, <2>3, <3>1 DEF Once
    <2>5. \A i \in 1..(n + 1) : more[i] \in S /\ \E j \in 1..(k + 1) : more[i] = order[j]
        <3>1. \A i \in 1..n : kept[i] \in S /\ \E j \in 1..k : kept[i] = order[j]
            BY DEF KeepsFirst
        <3>2. x \in S /\ \E j \in 1..(k + 1) : x = order[j]
            BY <1>2
        <3> HIDE DEF more, n, x
        <3> QED
            BY <1>1, <2>1, <2>2, <3>1, <3>2
    <2>6. \A j \in 1..(k + 1) : order[j] \in S => \E i \in 1..(n + 1) : more[i] = order[j]
        <3>1. \A j \in 1..k : order[j] \in S => \E i \in 1..n : kept[i] = order[j]
            BY DEF KeepsFirst
        <3>2. order[k + 1] = x
            OBVIOUS
        <3> HIDE DEF more, n, x
        <3> QED
            BY <1>1, <2>1, <2>2, <3>1, <3>2
    <2>7. KeepsFirst(more, order, S, k + 1)
        <3> HIDE DEF more, n, x
        <3> QED
            BY <2>1, <2>4, <2>5, <2>6 DEF KeepsFirst
    <2> QED
        BY <1>2, <2>7
<1>3. CASE x \notin S
    BY <1>1, <1>3 DEF KeepsFirst
<1> QED
    BY <1>2, <1>3

(* A selection from a list that repeats nothing repeats nothing, keeps the  *)
(* list's order and has all its elements of the set.                        *)
LEMMA InOrderKeeps ==
    ASSUME NEW X, NEW order \in Seq(X), Once(order), NEW S
    PROVE  InOrder(order, S) \in Seq(X) /\ KeepsFirst(InOrder(order, S), order, S, Len(order))
<1> DEFINE n == Len(order)
<1>0. PICK F : IsKeeping(F, order, S, X)
    BY InOrderFolds
<1>1. /\ F \in [0..n -> Seq(X)] /\ F[0] = <<>> /\ InOrder(order, S) = F[n]
      /\ \A k \in 1..n : F[k] = IF order[k] \in S THEN Append(F[k - 1], order[k]) ELSE F[k - 1]
    BY <1>0 DEF IsKeeping
<1> DEFINE P == {k \in Nat : k <= n => KeepsFirst(F[k], order, S, k)}
<1>2. n \in Nat
    OBVIOUS
<1>3. 0 \in P
    BY <1>1 DEF KeepsFirst, Once
<1>4. ASSUME NEW k \in P PROVE k + 1 \in P
    <2> SUFFICES ASSUME k + 1 <= n PROVE KeepsFirst(F[k + 1], order, S, k + 1)
        OBVIOUS
    <2>1. k \in Nat /\ k + 1 \in 1..n /\ (k + 1) - 1 = k /\ k \in 0..n /\ k <= n
        BY <1>2
    <2>2. F[k] \in Seq(X) /\ KeepsFirst(F[k], order, S, k)
        BY <1>1, <2>1
    <2>3. F[k + 1] = IF order[k + 1] \in S THEN Append(F[k], order[k + 1]) ELSE F[k]
        BY <1>1, <2>1
    <2> QED
        BY <2>1, <2>2, <2>3, KeepsOne
<1> HIDE DEF P
<1>5. P = Nat
    <2>1. P \in SUBSET Nat
        BY DEF P
    <2> QED
        BY <1>3, <1>4, <2>1, EveryNumber
<1>6. KeepsFirst(F[n], order, S, n)
    BY <1>2, <1>5 DEF P
<1> QED
    BY <1>1, <1>2, <1>6

-----------------------------------------------------------------------------
(* The splits. *)
(* A piece of a sequence that repeats nothing has as many elements as places. *)
LEMMA PieceCounts ==
    ASSUME NEW X, NEW s \in Seq(X), Once(s), NEW a \in 1..(Len(s) + 1), NEW b \in 0..Len(s), a <= b + 1
    PROVE  /\ Range(SubSeq(s, a, b)) = {s[i] : i \in a..b}
           /\ IsFiniteSet(Range(SubSeq(s, a, b))) /\ Cardinality(Range(SubSeq(s, a, b))) = b - a + 1
<1> DEFINE piece == SubSeq(s, a, b)
           m == b - a + 1
<1>1. Len(s) \in Nat /\ a \in Int /\ b \in Int /\ m \in Nat
    OBVIOUS
<1>2. /\ piece \in Seq(X) /\ Len(piece) = m
      /\ \A i \in 1..m : piece[i] = s[a + i - 1] /\ a + i - 1 \in a..b
    <2>1. \A i \in a..b : s[i] \in X
        OBVIOUS
    <2>2. /\ piece \in Seq(X) /\ Len(piece) = (IF a <= b THEN b - a + 1 ELSE 0)
          /\ \A i \in 1..(b - a + 1) : piece[i] = s[a + i - 1]
        BY <1>1, <2>1, SubSeqProperties
    <2>3. \A i \in 1..m : a + i - 1 \in a..b
        BY <1>1
    <2>4. (IF a <= b THEN b - a + 1 ELSE 0) = m
        BY <1>1
    <2> QED
        BY <2>2, <2>3, <2>4
<1> HIDE DEF piece
<1>3. DOMAIN piece = 1..m /\ piece \in [1..m -> X]
    BY <1>2
<1>4. Range(piece) = {s[i] : i \in a..b}
    <2>1. ASSUME NEW i \in a..b PROVE i - a + 1 \in 1..m /\ s[i] = piece[i - a + 1]
        <3>1. i - a + 1 \in 1..m /\ a + (i - a + 1) - 1 = i
            BY <1>1
        <3> QED
            BY <1>2, <3>1
    <2>2. \A i \in 1..m : piece[i] \in {s[k] : k \in a..b}
        BY <1>2
    <2> QED
        BY <1>3, <2>1, <2>2 DEF Range
<1>5. \A i, j \in 1..m : piece[i] = piece[j] => i = j
    <2> SUFFICES ASSUME NEW i \in 1..m, NEW j \in 1..m, piece[i] = piece[j] PROVE i = j
        OBVIOUS
    <2>1. s[a + i - 1] = s[a + j - 1] /\ a + i - 1 \in 1..Len(s) /\ a + j - 1 \in 1..Len(s)
        BY <1>1, <1>2
    <2>2. a + i - 1 = a + j - 1
        BY <2>1 DEF Once
    <2> QED
        BY <1>1, <2>2
<1>6. piece \in Bijection(1..m, Range(piece))
    <2>1. piece \in [1..m -> Range(piece)]
        BY <1>3 DEF Range
    <2>2. IsInjective(piece)
        BY <1>3, <1>5 DEF IsInjective
    <2>3. \A y \in Range(piece) : \E x \in 1..m : piece[x] = y
        BY <1>3 DEF Range
    <2> QED
        BY <2>1, <2>2, <2>3 DEF Bijection, Injection, Surjection
<1>7. ExistsBijection(1..m, Range(piece))
    BY <1>6 DEF ExistsBijection
<1>8. IsFiniteSet(Range(piece)) /\ Cardinality(Range(piece)) = m
    BY <1>1, <1>7, FS_NatBijection, FS_CountingElements
<1> QED
    BY <1>4, <1>8 DEF piece

(* An order names every question. *)
LEMMA OrdersAreWhole ==
    ASSUME NEW R, NEW rows \in Seq(R), NEW order \in Orders(rows)
    PROVE  /\ order \in Seq(DOMAIN rows) /\ Once(order)
           /\ Len(order) = Len(rows) /\ \A uid \in DOMAIN rows : \E i \in 1..Len(order) : order[i] = uid
<1> DEFINE n == Len(rows)
<1>1. n \in Nat /\ DOMAIN rows = 1..n
    OBVIOUS
<1>2. order \in [1..n -> 1..n] /\ IsInjective(order)
    BY <1>1 DEF Orders
<1> HIDE DEF n
<1>3. order \in Seq(1..n) /\ Len(order) = n
    BY <1>1, <1>2
<1>4. Once(order)
    BY <1>2, <1>3 DEF Once, IsInjective
<1>5. order \in Injection(1..n, 1..n)
    BY <1>2 DEF Injection
<1>a. IsFiniteSet(1..n)
    BY <1>1, FS_Interval
<1>6. order \in Surjection(1..n, 1..n)
    BY <1>5, <1>a, FS_Injection
<1>7. \A uid \in 1..n : \E i \in 1..n : order[i] = uid
    BY <1>6 DEF Surjection
<1> QED
    BY <1>1, <1>3, <1>4, <1>7 DEF n

(* The seed's share and the rest of the hard questions, of the official split. *)
LEMMA OfficialSplitIsWhole ==
    ASSUME NEW R, NEW rows \in Seq(R), NEW order \in Orders(rows), official_split(rows, order).ok
    PROVE  LET split == official_split(rows, order)
           IN /\ split.train \cap split.heldout = {} /\ split.train \cup split.heldout = DOMAIN rows
              /\ split.heldout # {} /\ split.heldout \subseteq Of(rows, "hard")
              /\ Cardinality(split.train \cap Of(rows, "hard")) = hard_train
<1> DEFINE easy == Of(rows, "easy")
           difficult == Of(rows, "hard")
           hard == InOrder(order, difficult)
           L == Len(hard)
           first == Range(SubSeq(hard, 1, hard_train))
           rest == Range(SubSeq(hard, hard_train + 1, L))
           split == official_split(rows, order)
<1>0. \A uid \in DOMAIN rows : \E i \in 1..Len(order) : order[i] = uid
    BY OrdersAreWhole
<1>1. hard_train \in Nat
    BY SplitConstantsOK
<1>2. /\ hard \in Seq(DOMAIN rows) /\ L \in Nat
      /\ KeepsFirst(hard, order, difficult, Len(order))
    BY OrdersAreWhole, InOrderKeeps
<1>3. ~(easy \cup difficult # DOMAIN rows \/ ~(0 < hard_train /\ hard_train < L))
    BY DEF official_split, Refused
<1>4. split = Split(easy \cup first, rest)
    BY <1>3 DEF official_split, HardTail
<1>5. split.train = easy \cup first /\ split.heldout = rest
    BY <1>4 DEF Split
<1>6. Once(hard) /\ {hard[i] : i \in 1..L} = difficult
    <2>1. Once(hard) /\ \A i \in 1..L : hard[i] \in difficult
        BY <1>2 DEF KeepsFirst
    <2>2. ASSUME NEW uid \in difficult PROVE \E i \in 1..L : hard[i] = uid
        <3>1. uid \in DOMAIN rows
            BY DEF Of
        <3>2. PICK j \in 1..Len(order) : order[j] = uid
            BY <1>0, <3>1
        <3> QED
            BY <1>2, <3>2 DEF KeepsFirst
    <2> QED
        BY <2>1, <2>2
<1>7. easy \cap difficult = {} /\ difficult \subseteq DOMAIN rows /\ easy \cup difficult = DOMAIN rows
    BY <1>3 DEF Of
<1> HIDE DEF hard, easy, difficult, split
<1>8. /\ first = {hard[i] : i \in 1..hard_train} /\ Cardinality(first) = hard_train
      /\ rest = {hard[i] : i \in (hard_train + 1)..L}
    <2>1. 1 \in 1..(L + 1) /\ hard_train \in 0..L /\ 1 <= hard_train + 1
        BY <1>1, <1>2, <1>3
    <2>2. hard_train + 1 \in 1..(L + 1) /\ L \in 0..L /\ hard_train + 1 <= L + 1
        BY <1>1, <1>2, <1>3
    <2>3. first = {hard[i] : i \in 1..hard_train} /\ Cardinality(first) = hard_train - 1 + 1
        BY <1>2, <1>6, <2>1, PieceCounts
    <2>4. rest = {hard[i] : i \in (hard_train + 1)..L}
        BY <1>2, <1>6, <2>2, PieceCounts
    <2> QED
        BY <1>1, <2>3, <2>4
<1> HIDE DEF first, rest
<1>9. first \cap rest = {} /\ first \cup rest = difficult
    <2>1. 1..hard_train \cap (hard_train + 1)..L = {} /\ 1..hard_train \cup (hard_train + 1)..L = 1..L
        BY <1>1, <1>2, <1>3
    <2>2. \A i \in 1..hard_train : \A j \in (hard_train + 1)..L : hard[i] # hard[j]
        BY <1>6, <2>1 DEF Once
    <2> QED
        BY <1>6, <1>8, <2>1, <2>2
<1>a. rest # {}
    <2>1. hard_train + 1 \in (hard_train + 1)..L
        BY <1>1, <1>2, <1>3
    <2> QED
        BY <1>8, <2>1
<1>b. (easy \cup first) \cap difficult = first
    BY <1>7, <1>9
<1> HIDE DEF L
<1>c. /\ split.train \cap split.heldout = {} /\ split.train \cup split.heldout = DOMAIN rows
      /\ split.heldout # {} /\ split.heldout \subseteq difficult
      /\ Cardinality(split.train \cap difficult) = hard_train
    BY <1>5, <1>7, <1>8, <1>9, <1>a, <1>b
<1> QED
    BY <1>c DEF split, difficult

(* Training questions are among the allowed ones, at most the maximum, and  *)
(* each was answered rightly and wrongly in the pilot (select_train.py).    *)
LEMMA PilotSelects ==
    ASSUME NEW R, \A row \in R : IsRow(row), NEW rows \in Seq(R), NEW order \in Orders(rows), NEW allowed
    PROVE  LET chosen == mixed_training_uids(rows, allowed, order)
           IN /\ chosen \subseteq allowed /\ Cardinality(chosen) <= maximum
              /\ \A uid \in chosen : Range(rows[uid].rewards) = {0, 1} /\ Len(rows[uid].rewards) = samples
<1> DEFINE probed == {uid \in DOMAIN rows : rows[uid].rewards # <<>>}
           mixed == {uid \in probed : {0, 1} \subseteq Range(rows[uid].rewards)}
           selected == InOrder(order, mixed)
           m == IF Len(selected) < maximum THEN Len(selected) ELSE maximum
           chosen == mixed_training_uids(rows, allowed, order)
           refused == \/ ~(probed \subseteq allowed)
                      \/ \E uid \in probed : Unscored \in Range(rows[uid].rewards) \/ Len(rows[uid].rewards) # samples
                      \/ mixed = {}
<1>1. chosen = IF refused THEN {} ELSE Range(SubSeq(selected, 1, m))
    BY DEF mixed_training_uids
<1>2. maximum \in Nat
    BY SplitConstantsOK
<1>3. CASE refused
    <2>1. chosen = {}
        BY <1>1, <1>3
    <2>2. Cardinality({}) = 0
        BY FS_EmptySet
    <2> QED
        BY <1>2, <2>1, <2>2
<1>4. CASE ~refused
    <2>1. /\ probed \subseteq allowed
          /\ \A uid \in probed : Unscored \notin Range(rows[uid].rewards) /\ Len(rows[uid].rewards) = samples
        BY <1>4
    <2> HIDE DEF selected
    <2>2. chosen = Range(SubSeq(selected, 1, m))
        BY <1>1, <1>4
    <2> HIDE DEF refused, chosen, mixed
    <2>3. selected \in Seq(DOMAIN rows) /\ KeepsFirst(selected, order, mixed, Len(order))
        BY OrdersAreWhole, InOrderKeeps DEF selected
    <2>4. Once(selected) /\ \A i \in 1..Len(selected) : selected[i] \in mixed
        BY <2>3 DEF KeepsFirst
    <2>5. Len(selected) \in Nat
        BY <2>3
    <2>6. m \in Nat /\ m <= maximum /\ m <= Len(selected)
        BY <1>2, <2>5
    <2> HIDE DEF m
    <2>7. 1 \in 1..(Len(selected) + 1) /\ m \in 0..Len(selected) /\ 1 <= m + 1
        BY <2>5, <2>6
    <2>8. chosen = {selected[i] : i \in 1..m} /\ Cardinality(chosen) = m - 1 + 1
        BY <2>2, <2>3, <2>4, <2>7, PieceCounts
    <2>9. chosen \subseteq mixed
        BY <2>4, <2>5, <2>6, <2>8
    <2>10. Cardinality(chosen) <= maximum
        BY <1>2, <2>6, <2>8
    <2>11. ASSUME NEW uid \in chosen
           PROVE  Range(rows[uid].rewards) = {0, 1} /\ Len(rows[uid].rewards) = samples /\ uid \in allowed
        <3>1. uid \in probed /\ {0, 1} \subseteq Range(rows[uid].rewards)
            BY <2>9 DEF mixed
        <3>2. IsRow(rows[uid])
            BY <3>1
        <3>3. Range(rows[uid].rewards) \subseteq {0, 1, Unscored}
            BY <3>2, RangeOfSeq DEF IsRow
        <3> QED
            BY <2>1, <3>1, <3>3
    <2> QED
        BY <2>10, <2>11 DEF chosen
<1> QED
    BY <1>3, <1>4

(* What a sum takes next of what is left. *)
One(s) == CHOOSE x \in s : TRUE
Sums(iter, f) == iter = [s \in SUBSET DOMAIN f |-> IF s = {} THEN 0 ELSE f[One(s)] + iter[s \ {One(s)}]]
SumOf(f, S) == (CHOOSE iter : Sums(iter, f))[S]

(* Total is the sum over the whole domain.                                  *)
LEMMA TotalSums ==
    ASSUME NEW f
    PROVE  Total(f) = SumOf(f, DOMAIN f)
BY DEF Total, MapThenSumSet, MapThenFoldSet, SumOf, Sums, One

(* What a sum takes of a set is in it, and less is left.                    *)
LEMMA OneIsIn ==
    ASSUME NEW D, IsFiniteSet(D), NEW S \in SUBSET D, S # {}
    PROVE  /\ One(S) \in S /\ One(S) \in D /\ S \ {One(S)} \in SUBSET D
           /\ IsFiniteSet(S) /\ Cardinality(S) \in Nat /\ Cardinality(S \ {One(S)}) = Cardinality(S) - 1
<1>1. One(S) \in S
    BY DEF One
<1>2. IsFiniteSet(S)
    BY FS_Subset
<1>3. Cardinality(S) \in Nat
    BY <1>2, FS_CardinalityType
<1>4. Cardinality(S \ {One(S)}) = Cardinality(S) - 1
    BY <1>1, <1>2, FS_RemoveElement
<1> QED
    BY <1>1, <1>2, <1>3, <1>4

(* What holds of nothing, and of a set when it holds without what a sum    *)
(* takes of it, holds of the whole.                                        *)
LEMMA EverySum ==
    ASSUME NEW D, IsFiniteSet(D), NEW F, {} \in F,
           \A S \in SUBSET D : S # {} /\ S \ {One(S)} \in F => S \in F
    PROVE  D \in F
<1> DEFINE P == {n \in Nat : \A S \in SUBSET D : Cardinality(S) = n => S \in F}
<1>0. \A S \in SUBSET D : IsFiniteSet(S) /\ Cardinality(S) \in Nat
    BY FS_Subset, FS_CardinalityType
<1>1. 0 \in P
    BY <1>0, FS_EmptySet
<1>2. ASSUME NEW n \in P PROVE n + 1 \in P
    <2> SUFFICES ASSUME NEW S \in SUBSET D, Cardinality(S) = n + 1
                 PROVE  S \in F
        OBVIOUS
    <2>0. n \in Nat
        OBVIOUS
    <2>1. S # {}
        BY <2>0, FS_EmptySet
    <2>2. S \ {One(S)} \in SUBSET D /\ Cardinality(S \ {One(S)}) = Cardinality(S) - 1
        BY <2>1, OneIsIn
    <2>3. Cardinality(S \ {One(S)}) = n
        BY <2>0, <2>2
    <2>4. S \ {One(S)} \in F
        BY <2>2, <2>3
    <2> QED
        BY <2>1, <2>4
<1> HIDE DEF P
<1>3. P = Nat
  <2>1. P \in SUBSET Nat
    BY DEF P
  <2> QED
    BY <1>1, <1>2, <2>1, EveryNumber
<1> QED
    BY <1>0, <1>3 DEF P

(* A sum is well defined: it takes one element of a set after another.      *)
LEMMA SumStep ==
    ASSUME NEW D, IsFiniteSet(D), NEW f \in [D -> Int]
    PROVE  /\ SumOf(f, {}) = 0
           /\ \A S \in SUBSET D : S # {} => SumOf(f, S) = f[One(S)] + SumOf(f, S \ {One(S)})
           /\ \A S \in SUBSET D : SumOf(f, S) \in Int
<1> DEFINE pick == [s \in SUBSET D |-> One(s)]
           step == [p \in D \X Int |-> f[p[1]] + p[2]]
           it == CHOOSE iter : Sums(iter, f)
<1>1. \A s \in SUBSET D : s # {} => pick[s] \in s
    BY OneIsIn
<1>2. step \in [D \X Int -> Int]
    OBVIOUS
<1>3. 0 \in Int /\ IsFiniteSet(D)
    OBVIOUS
<1>a. \A s \in SUBSET D : pick[s] = One(s)
    OBVIOUS
<1>b. \A d \in D : \A v \in Int : step[<<d, v>>] = f[d] + v
    OBVIOUS
<1> HIDE DEF pick, step
<1>4. PICK iter \in [SUBSET D -> Int] : IsFold(iter, D, pick, step, 0)
    BY <1>1, <1>2, <1>3, FoldExists
<1>5. ASSUME NEW s \in SUBSET D
      PROVE  iter[s] = IF s = {} THEN 0 ELSE f[One(s)] + iter[s \ {One(s)}]
    <2>1. iter[s] = IF s = {} THEN 0 ELSE step[<<pick[s], iter[s \ {pick[s]}]>>]
        BY <1>4, Zenon DEF IsFold
    <2>2. CASE s # {}
        <3>1. One(s) \in D /\ iter[s \ {One(s)}] \in Int
            BY <1>4, <2>2, OneIsIn
        <3>2. iter[s] = step[<<One(s), iter[s \ {One(s)}]>>]
            BY <1>a, <2>1, <2>2
        <3>3. step[<<One(s), iter[s \ {One(s)}]>>] = f[One(s)] + iter[s \ {One(s)}]
            BY <1>b, <3>1
        <3> QED
            BY <2>2, <3>2, <3>3
    <2> QED
        BY <2>1, <2>2
<1>6. DOMAIN f = D
    OBVIOUS
<1>7. Sums(iter, f)
    BY <1>4, <1>5, <1>6 DEF Sums
<1>8. Sums(it, f)
    BY <1>7
<1>9. \A S : SumOf(f, S) = it[S]
    BY DEF SumOf
<1> HIDE DEF it
<1>10. it = [s \in SUBSET D |-> IF s = {} THEN 0 ELSE f[One(s)] + it[s \ {One(s)}]]
    BY <1>6, <1>8, Zenon DEF Sums
<1>11. \A s \in SUBSET D : it[s] = IF s = {} THEN 0 ELSE f[One(s)] + it[s \ {One(s)}]
    BY <1>10
<1>12. ASSUME NEW S \in SUBSET D PROVE it[S] \in Int
    <2> DEFINE F == {s \in SUBSET S : it[s] \in Int}
    <2>1. IsFiniteSet(S)
        BY FS_Subset
    <2>2. {} \in F
        <3>1. it[{}] = 0
            BY <1>11
        <3> QED
            BY <3>1
    <2>3. ASSUME NEW s \in SUBSET S, s # {}, s \ {One(s)} \in F PROVE s \in F
        <3>1. s \in SUBSET D /\ One(s) \in D /\ it[s \ {One(s)}] \in Int
            BY <2>1, <2>3, OneIsIn
        <3>2. it[s] = f[One(s)] + it[s \ {One(s)}]
            BY <1>11, <2>3, <3>1
        <3> QED
            BY <3>1, <3>2
    <2> HIDE DEF F
    <2>4. S \in F
        BY <2>1, <2>2, <2>3, EverySum
    <2> QED
        BY <2>4 DEF F
<1> QED
    BY <1>9, <1>11, <1>12

(* What is multiplied, added or no more in each place is so in the sum. *)
Scaled(h, c, f, D) == \A k \in D : h[k] = c * f[k]
Added(h, f, g, D) == \A k \in D : h[k] = f[k] + g[k]

(* A factor comes out of a sum.                                             *)
LEMMA SumScales ==
    ASSUME NEW D, IsFiniteSet(D), NEW f \in [D -> Int], NEW c \in Int, NEW h \in [D -> Int],
           Scaled(h, c, f, D)
    PROVE  SumOf(h, D) = c * SumOf(f, D)
<1> DEFINE F == {S \in SUBSET D : SumOf(h, S) = c * SumOf(f, S)}
<1>1. {} \in F
    <2>1. SumOf(h, {}) = 0 /\ SumOf(f, {}) = 0
        BY SumStep
    <2>2. c * 0 = 0
        OBVIOUS
    <2> QED
        BY <2>1, <2>2
<1>2. ASSUME NEW S \in SUBSET D, S # {}, S \ {One(S)} \in F PROVE S \in F
    <2> DEFINE x == One(S)
               R == S \ {x}
    <2>1. x \in D /\ R \in SUBSET D /\ SumOf(h, R) = c * SumOf(f, R)
        BY <1>2, OneIsIn
    <2>2. SumOf(h, S) = h[x] + SumOf(h, R) /\ SumOf(f, S) = f[x] + SumOf(f, R) /\ SumOf(f, R) \in Int
        BY <1>2, <2>1, SumStep
    <2>3. h[x] = c * f[x] /\ f[x] \in Int
        BY <2>1 DEF Scaled
    <2> HIDE DEF x, R
    <2>4. \A a, b \in Int : c * a + c * b = c * (a + b)
        OBVIOUS
    <2> QED
        BY <1>2, <2>1, <2>2, <2>3, <2>4
<1> HIDE DEF F
<1>3. D \in F
    BY <1>1, <1>2, EverySum
<1> QED
    BY <1>3 DEF F

(* A sum of sums is the sum of both.                                        *)
LEMMA SumAdds ==
    ASSUME NEW D, IsFiniteSet(D), NEW f \in [D -> Int], NEW g \in [D -> Int], NEW h \in [D -> Int],
           Added(h, f, g, D)
    PROVE  SumOf(h, D) = SumOf(f, D) + SumOf(g, D)
<1> DEFINE F == {S \in SUBSET D : SumOf(h, S) = SumOf(f, S) + SumOf(g, S)}
<1>1. {} \in F
    <2>1. SumOf(h, {}) = 0 /\ SumOf(f, {}) = 0 /\ SumOf(g, {}) = 0
        BY SumStep
    <2> QED
        BY <2>1
<1>2. ASSUME NEW S \in SUBSET D, S # {}, S \ {One(S)} \in F PROVE S \in F
    <2> DEFINE x == One(S)
               R == S \ {x}
    <2>1. x \in D /\ R \in SUBSET D /\ SumOf(h, R) = SumOf(f, R) + SumOf(g, R)
        BY <1>2, OneIsIn
    <2>2. /\ SumOf(h, S) = h[x] + SumOf(h, R) /\ SumOf(f, S) = f[x] + SumOf(f, R) /\ SumOf(f, R) \in Int
          /\ SumOf(g, S) = g[x] + SumOf(g, R) /\ SumOf(g, R) \in Int
        BY <1>2, <2>1, SumStep
    <2>3. h[x] = f[x] + g[x] /\ f[x] \in Int /\ g[x] \in Int
        BY <2>1 DEF Added
    <2> HIDE DEF x, R
    <2> QED
        BY <1>2, <2>1, <2>2, <2>3
<1> HIDE DEF F
<1>3. D \in F
    BY <1>1, <1>2, EverySum
<1> QED
    BY <1>3 DEF F

(* A sum of larger terms is not smaller.                                    *)
LEMMA SumGrows ==
    ASSUME NEW D, IsFiniteSet(D), NEW f \in [D -> Int], NEW h \in [D -> Int],
           \A k \in D : f[k] <= h[k]
    PROVE  SumOf(f, D) <= SumOf(h, D)
<1> DEFINE F == {S \in SUBSET D : SumOf(f, S) <= SumOf(h, S)}
<1>1. {} \in F
    <2>1. SumOf(h, {}) = 0 /\ SumOf(f, {}) = 0
        BY SumStep
    <2> QED
        BY <2>1
<1>2. ASSUME NEW S \in SUBSET D, S # {}, S \ {One(S)} \in F PROVE S \in F
    <2> DEFINE x == One(S)
               R == S \ {x}
    <2>1. x \in D /\ R \in SUBSET D /\ SumOf(f, R) <= SumOf(h, R)
        BY <1>2, OneIsIn
    <2>2. /\ SumOf(h, S) = h[x] + SumOf(h, R) /\ SumOf(f, S) = f[x] + SumOf(f, R)
          /\ SumOf(f, R) \in Int /\ SumOf(h, R) \in Int
        BY <1>2, <2>1, SumStep
    <2>3. f[x] <= h[x] /\ f[x] \in Int /\ h[x] \in Int
        BY <2>1
    <2> HIDE DEF x, R
    <2> QED
        BY <1>2, <2>1, <2>2, <2>3
<1> HIDE DEF F
<1>3. D \in F
    BY <1>1, <1>2, EverySum
<1> QED
    BY <1>3 DEF F

(* What is counted class by class is counted whole. *)
CountsEach(f, class, D, U) == \A k \in D : f[k] = Cardinality({u \in U : class[u] = k})

(* The sizes of the classes of a finite set add up to its size.             *)
LEMMA ClassesCount ==
    ASSUME NEW D, IsFiniteSet(D), NEW U, IsFiniteSet(U), NEW class \in [U -> D], NEW f \in [D -> Int],
           CountsEach(f, class, D, U)
    PROVE  SumOf(f, D) = Cardinality(U)
<1> DEFINE In(S) == {u \in U : class[u] \in S}
           F == {S \in SUBSET D : SumOf(f, S) = Cardinality(In(S))}
<1>0. \A S : IsFiniteSet(In(S)) /\ Cardinality(In(S)) \in Nat
    <2> TAKE S
    <2>1. In(S) \subseteq U
        OBVIOUS
    <2>2. IsFiniteSet(In(S))
        BY <2>1, FS_Subset
    <2> QED
        BY <2>2, FS_CardinalityType
<1>1. {} \in F
    <2>1. SumOf(f, {}) = 0
        BY SumStep
    <2>2. In({}) = {}
        OBVIOUS
    <2> QED
        BY <2>1, <2>2, FS_EmptySet
<1>2. ASSUME NEW S \in SUBSET D, S # {}, S \ {One(S)} \in F PROVE S \in F
    <2> DEFINE x == One(S)
               R == S \ {x}
    <2>1. x \in S /\ x \in D /\ R \in SUBSET D /\ SumOf(f, R) = Cardinality(In(R))
        BY <1>2, OneIsIn
    <2>2. SumOf(f, S) = f[x] + SumOf(f, R)
        BY <1>2, SumStep
    <2>3. f[x] = Cardinality(In({x}))
        <3>1. In({x}) = {u \in U : class[u] = x}
            OBVIOUS
        <3> QED
            BY <2>1, <3>1 DEF CountsEach
    <2>4. In(S) = In({x}) \cup In(R) /\ In({x}) \cap In(R) = {}
        BY <2>1
    <2> HIDE DEF x, R, In
    <2>5. Cardinality(In(S)) = Cardinality(In({x})) + Cardinality(In(R)) - Cardinality({})
        <3>1. IsFiniteSet(In({x})) /\ IsFiniteSet(In(R))
            BY <1>0
        <3>2. Cardinality(In({x}) \cup In(R)) = Cardinality(In({x})) + Cardinality(In(R)) - Cardinality(In({x}) \cap In(R))
            BY <3>1, FS_Union
        <3> QED
            BY <2>4, <3>2
    <2>6. Cardinality({}) = 0
        BY FS_EmptySet
    <2>7. Cardinality(In({x})) \in Nat /\ Cardinality(In(R)) \in Nat
        BY <1>0
    <2>8. SumOf(f, S) = Cardinality(In(S))
        BY <2>1, <2>2, <2>3, <2>5, <2>6, <2>7
    <2> QED
        BY <2>8
<1> HIDE DEF F
<1>3. D \in F
    BY <1>1, <1>2, EverySum
<1>4. In(D) = U
    OBVIOUS
<1> HIDE DEF In
<1> QED
    BY <1>3, <1>4 DEF F

(* A sum of ones over a set is its size.                                    *)
LEMMA MarksCount ==
    ASSUME NEW D, IsFiniteSet(D), NEW X \in SUBSET D, NEW f \in [D -> Int],
           \A k \in D : f[k] = IF k \in X THEN 1 ELSE 0
    PROVE  SumOf(f, D) = Cardinality(X)
<1> DEFINE class == [u \in X |-> u]
<1>1. IsFiniteSet(X) /\ class \in [X -> D]
    BY FS_Subset
<1>2. ASSUME NEW k \in D PROVE f[k] = Cardinality({u \in X : class[u] = k})
    <2>1. CASE k \in X
        <3>1. {u \in X : class[u] = k} = {k}
            BY <2>1
        <3> QED
            BY <2>1, <3>1, FS_Singleton
    <2>2. CASE k \notin X
        <3>1. {u \in X : class[u] = k} = {}
            BY <2>2
        <3> QED
            BY <2>2, <3>1, FS_EmptySet
    <2> QED
        BY <2>1, <2>2
<1> HIDE DEF class
<1> QED
    BY <1>1, <1>2, ClassesCount DEF CountsEach

(* The place of a stratum among the remainders: how many come before it. *)
Precedes(rest, j, k) == rest[j] > rest[k] \/ (rest[j] = rest[k] /\ j < k)
Before(rest, D, k) == {j \in D : Precedes(rest, j, k)}
Rank(rest, D, k) == Cardinality(Before(rest, D, k))

(* Larger remainder first, and then smaller stratum, is a strict total      *)
(* order (allocate's sort key).                                             *)
LEMMA PrecedesOrders ==
    ASSUME NEW D \in SUBSET Int, NEW rest \in [D -> Int], NEW i \in D, NEW j \in D, NEW k \in D
    PROVE  /\ ~Precedes(rest, k, k)
           /\ j # k => Precedes(rest, j, k) \/ Precedes(rest, k, j)
           /\ Precedes(rest, i, j) /\ Precedes(rest, j, k) => Precedes(rest, i, k)
<1>1. rest[i] \in Int /\ rest[j] \in Int /\ rest[k] \in Int /\ i \in Int /\ j \in Int /\ k \in Int
    OBVIOUS
<1> QED
    BY <1>1 DEF Precedes

(* Every stratum has a place of its own, and every place a stratum. *)
LEMMA RanksAreOnce ==
    ASSUME NEW D \in SUBSET Int, IsFiniteSet(D), NEW rest \in [D -> Int], NEW m, m = Cardinality(D)
    PROVE  /\ m \in Nat /\ \A k \in D : Rank(rest, D, k) \in 0..(m - 1)
           /\ \A j, k \in D : Rank(rest, D, j) = Rank(rest, D, k) => j = k
           /\ \A r \in 0..(m - 1) : \E k \in D : Rank(rest, D, k) = r
<1>0. m \in Nat
    BY FS_CardinalityType
<1>1. \A k \in D : IsFiniteSet(Before(rest, D, k)) /\ Rank(rest, D, k) \in Nat
    <2> TAKE k \in D
    <2>1. Before(rest, D, k) \in SUBSET D
        BY DEF Before
    <2>2. IsFiniteSet(Before(rest, D, k))
        BY <2>1, FS_Subset
    <2> QED
        BY <2>2, FS_CardinalityType DEF Rank
<1>2. ASSUME NEW k \in D PROVE Rank(rest, D, k) \in 0..(m - 1)
    <2>1. Before(rest, D, k) \in SUBSET (D \ {k})
        BY PrecedesOrders DEF Before
    <2>2. IsFiniteSet(D \ {k}) /\ Cardinality(D \ {k}) = m - 1
        BY FS_RemoveElement
    <2>3. Rank(rest, D, k) <= m - 1
        BY <2>1, <2>2, FS_Subset DEF Rank
    <2> QED
        BY <1>0, <1>1, <2>3
<1>3. ASSUME NEW j \in D, NEW k \in D, Precedes(rest, j, k) PROVE Rank(rest, D, j) < Rank(rest, D, k)
    <2>1. Before(rest, D, j) \in SUBSET Before(rest, D, k)
        BY <1>3, PrecedesOrders DEF Before
    <2>2. j \in Before(rest, D, k) /\ j \notin Before(rest, D, j)
        BY <1>3, PrecedesOrders DEF Before
    <2>3. Before(rest, D, j) # Before(rest, D, k)
        BY <2>2
    <2>4. /\ Rank(rest, D, j) <= Rank(rest, D, k)
          /\ Rank(rest, D, j) # Rank(rest, D, k)
        BY <1>1, <2>1, <2>3, FS_Subset DEF Rank
    <2> QED
        BY <1>1, <2>4
<1>4. \A j, k \in D : Rank(rest, D, j) = Rank(rest, D, k) => j = k
    <2> TAKE j, k \in D
    <2>1. j # k => Precedes(rest, j, k) \/ Precedes(rest, k, j)
        BY PrecedesOrders
    <2> QED
        BY <1>1, <1>3, <2>1
<1>5. \A r \in 0..(m - 1) : \E k \in D : Rank(rest, D, k) = r
    <2> DEFINE f == [k \in D |-> Rank(rest, D, k)]
    <2>1. f \in Injection(D, 0..(m - 1))
        BY <1>2, <1>4 DEF Injection, IsInjective
    <2>2. IsFiniteSet(0..(m - 1)) /\ Cardinality(0..(m - 1)) = m
        <3>1. m - 1 \in Int /\ 0 \in Int
            BY <1>0
        <3>2. IsFiniteSet(0..(m - 1)) /\ Cardinality(0..(m - 1)) = (IF 0 > m - 1 THEN 0 ELSE (m - 1) - 0 + 1)
            BY <3>1, FS_Interval
        <3> QED
            BY <1>0, <3>2
    <2> HIDE DEF f
    <2>3. f \in Surjection(D, 0..(m - 1))
        BY <2>1, <2>2, FS_Injection
    <2>4. \A r \in 0..(m - 1) : \E k \in D : f[k] = r
        BY <2>3 DEF Surjection
    <2> QED
        BY <2>4 DEF f
<1> QED
    BY <1>0, <1>2, <1>4, <1>5

(* As many strata are among the first as there are places. *)
LEMMA FirstCount ==
    ASSUME NEW D \in SUBSET Int, IsFiniteSet(D), NEW rest \in [D -> Int], NEW need \in Nat, need <= Cardinality(D)
    PROVE  Cardinality({k \in D : Rank(rest, D, k) < need}) = need
<1> DEFINE m == Cardinality(D)
           X == {k \in D : Rank(rest, D, k) < need}
           f == [k \in X |-> Rank(rest, D, k)]
<1>1. /\ m \in Nat /\ \A k \in D : Rank(rest, D, k) \in 0..(m - 1)
      /\ \A j, k \in D : Rank(rest, D, j) = Rank(rest, D, k) => j = k
      /\ \A r \in 0..(m - 1) : \E k \in D : Rank(rest, D, k) = r
    BY RanksAreOnce
<1> DEFINE R == 0..(need - 1)
<1>2. f \in Injection(X, R)
    <2>1. ASSUME NEW k \in X PROVE Rank(rest, D, k) \in R
        BY <1>1
    <2> QED
        BY <1>1, <2>1 DEF Injection, IsInjective
<1>3. ASSUME NEW r \in R PROVE \E k \in X : f[k] = r
    <2>1. r \in 0..(m - 1) /\ r < need
        BY <1>1
    <2>2. PICK k \in D : Rank(rest, D, k) = r
        BY <1>1, <2>1
    <2> QED
        BY <2>1, <2>2
<1>4. IsFiniteSet(R) /\ Cardinality(R) = need
    <2>1. need - 1 \in Int /\ 0 \in Int
        OBVIOUS
    <2>2. IsFiniteSet(0..(need - 1)) /\ Cardinality(0..(need - 1)) = (IF 0 > need - 1 THEN 0 ELSE (need - 1) - 0 + 1)
        BY <2>1, FS_Interval
    <2> QED
        BY <2>2
<1> HIDE DEF f, X, R, m
<1>5. f \in Surjection(X, R)
    BY <1>2, <1>3 DEF Injection, Surjection
<1>6. Cardinality(X) = need
    BY <1>2, <1>4, <1>5, FS_Injection
<1> QED
    BY <1>6 DEF X

(* Division leaves what division leaves. *)
LEMMA Remains ==
    ASSUME NEW a \in Nat, NEW p \in Nat, p > 0
    PROVE  /\ a \div p \in Nat /\ a % p \in Nat /\ a = p * (a \div p) + (a % p) /\ a % p < p
OBVIOUS

(* allocate gives out just n, and no stratum is a whole question away from  *)
(* its exact share (make_splits.py).                                        *)
LEMMA AllocationIsFair ==
    ASSUME NEW D \in SUBSET Int, IsFiniteSet(D), NEW counts \in [D -> Nat], NEW n \in Nat,
           NEW P \in Nat, P > 0, P = Total(counts)
    PROVE  LET want == allocate(counts, n)
           IN /\ want \in [D -> Int] /\ SumOf(want, D) = n
              /\ \A k \in D : n * counts[k] - want[k] * P < P /\ want[k] * P - n * counts[k] < P
<1> DEFINE whole == [k \in D |-> (n * counts[k]) \div P]
           rest == [k \in D |-> (n * counts[k]) % P]
           need == n - Total(whole)
           want == allocate(counts, n)
           all == [k \in D |-> n * counts[k]]
           parts == [k \in D |-> P * whole[k]]
           Pos == {k \in D : rest[k] > 0}
           pos == [k \in D |-> IF k \in Pos THEN 1 ELSE 0]
           most == [k \in D |-> (P - 1) * pos[k]]
           zero == [k \in D |-> 0]
           X == {k \in D : Rank(rest, D, k) < need}
           raised == [k \in D |-> IF k \in X THEN 1 ELSE 0]
<1>1. DOMAIN counts = D /\ DOMAIN whole = D /\ Total(counts) = P
    OBVIOUS
<1>c. n \in Int /\ P \in Int
    OBVIOUS
<1>d. \A f, g, h \in [D -> Int] : Added(h, f, g, D) => SumOf(h, D) = SumOf(f, D) + SumOf(g, D)
    BY SumAdds
<1>2. \A k \in D : counts[k] \in Nat /\ n * counts[k] \in Nat
    OBVIOUS
<1>3. \A k \in D : /\ whole[k] \in Nat /\ rest[k] \in Nat /\ rest[k] < P
                   /\ n * counts[k] = P * whole[k] + rest[k]
    <2> TAKE k \in D
    <2> DEFINE a == n * counts[k]
    <2>1. a \in Nat
        BY <1>2
    <2> HIDE DEF a
    <2>2. a \div P \in Nat /\ a % P \in Nat /\ a = P * (a \div P) + (a % P) /\ a % P < P
        BY <2>1, Remains
    <2>3. whole[k] = a \div P /\ rest[k] = a % P
        BY DEF a
    <2> QED
        BY <2>2, <2>3 DEF a
<1>4. want = [k \in D |-> IF Rank(rest, D, k) < need THEN whole[k] + 1 ELSE whole[k]]
    BY <1>1 DEF allocate, Rank, Before, Precedes
<1> HIDE DEF whole, rest, want
<1>5. whole \in [D -> Int] /\ rest \in [D -> Int]
    <2>1. whole = [k \in D |-> (n * counts[k]) \div P] /\ rest = [k \in D |-> (n * counts[k]) % P]
        BY DEF whole, rest
    <2> QED
        BY <1>3, <2>1
<1> DEFINE W == SumOf(whole, D)
           S == SumOf(rest, D)
<1>6. W \in Int /\ S \in Int
    BY <1>5, SumStep
<1>7. need = n - W
    BY <1>1, TotalSums
<1>8. n * P = P * W + S
    <2>1. counts \in [D -> Int] /\ all \in [D -> Int] /\ parts \in [D -> Int]
        BY <1>2, <1>3
    <2>2. SumOf(all, D) = n * SumOf(counts, D)
        <3>1. Scaled(all, n, counts, D)
            BY DEF Scaled
        <3> HIDE DEF all
        <3> QED
            BY <1>c, <2>1, <3>1, SumScales, Zenon
    <2>3. SumOf(counts, D) = P
        BY <1>1, TotalSums
    <2>4. SumOf(parts, D) = P * W
        <3>1. Scaled(parts, P, whole, D)
            BY DEF Scaled
        <3> HIDE DEF parts
        <3> QED
            BY <1>c, <1>5, <2>1, <3>1, SumScales, Zenon
    <2>5. SumOf(all, D) = SumOf(parts, D) + S
        <3>1. Added(all, parts, rest, D)
            BY <1>3 DEF Added
        <3> HIDE DEF all, parts
        <3> QED
            BY <1>d, <1>5, <2>1, <3>1
    <2> HIDE DEF W, S, all, parts
    <2> QED
        BY <2>2, <2>3, <2>4, <2>5
<1> DEFINE C == Cardinality(Pos)
           m == Cardinality(D)
<1>9. Pos \in SUBSET D /\ C \in Nat /\ m \in Nat /\ C <= m
    <2>1. IsFiniteSet(Pos)
        BY FS_Subset
    <2> QED
        BY <2>1, FS_Subset, FS_CardinalityType
<1>10. 0 <= S /\ S <= (P - 1) * C
    <2>1. zero \in [D -> Int] /\ pos \in [D -> Int]
        OBVIOUS
    <2>2. SumOf(pos, D) = C
        <3>1. \A k \in D : pos[k] = IF k \in Pos THEN 1 ELSE 0
            OBVIOUS
        <3> HIDE DEF pos, Pos
        <3> QED
            BY <1>9, <2>1, <3>1, MarksCount
    <2>3. most \in [D -> Int] /\ Scaled(most, P - 1, pos, D)
        BY <2>1 DEF Scaled
    <2>4. SumOf(most, D) = (P - 1) * SumOf(pos, D)
        <3>1. P - 1 \in Int
            OBVIOUS
        <3> HIDE DEF most, pos
        <3> QED
            BY <2>1, <2>3, <3>1, SumScales, Zenon
    <2>5. SumOf(rest, D) <= SumOf(most, D)
        <3>1. ASSUME NEW k \in D PROVE rest[k] <= most[k]
            <4>1. CASE k \in Pos
                <5>1. most[k] = P - 1
                    BY <4>1
                <5>2. rest[k] \in Nat /\ rest[k] < P
                    BY <1>3
                <5> QED
                    BY <5>1, <5>2
            <4>2. CASE k \notin Pos
                <5>1. most[k] = 0 /\ ~(rest[k] > 0)
                    BY <4>2
                <5>2. rest[k] \in Nat
                    BY <1>3
                <5> QED
                    BY <5>1, <5>2
            <4> QED
                BY <4>1, <4>2
        <3> HIDE DEF most
        <3> QED
            BY <1>5, <2>3, <3>1, SumGrows
    <2>6. SumOf(zero, D) <= SumOf(rest, D)
        <3>1. \A k \in D : zero[k] <= rest[k]
            BY <1>3
        <3> HIDE DEF zero
        <3> QED
            BY <1>5, <2>1, <3>1, SumGrows
    <2>7. SumOf(zero, D) = 0
        <3>1. {} \in SUBSET D /\ \A k \in D : zero[k] = IF k \in {} THEN 1 ELSE 0
            OBVIOUS
        <3> HIDE DEF zero
        <3> QED
            BY <2>1, <3>1, MarksCount, FS_EmptySet
    <2> HIDE DEF zero, most
    <2> QED
        BY <2>2, <2>4, <2>5, <2>6, <2>7
<1> HIDE DEF need, W, S, C, m, Pos
<1>11. need \in Nat /\ need <= C
    <2>1. need \in Int
        BY <1>6, <1>7
    <2>2. P * need = S
        BY <1>6, <1>7, <1>8
    <2>3. need >= 0
        <3>1. \A a \in Int : a < 0 => P * a < 0
            OBVIOUS
        <3> QED
            BY <1>6, <1>10, <2>1, <2>2, <3>1
    <2>4. need <= C
        <3>1. (P - 1) * C = P * C - C
            BY <1>9
        <3>2. P * need <= P * C
            BY <1>6, <1>9, <1>10, <2>2, <3>1
        <3>3. \A a, b \in Int : P * a <= P * b => a <= b
            OBVIOUS
        <3> QED
            BY <1>9, <2>1, <3>2, <3>3
    <2> QED
        BY <2>1, <2>3, <2>4
<1>12. Cardinality(X) = need
    BY <1>5, <1>9, <1>11, FirstCount DEF m
<1>13. ASSUME NEW k \in D, Rank(rest, D, k) < need PROVE rest[k] > 0
    <2> SUFFICES ASSUME ~(rest[k] > 0) PROVE FALSE
        OBVIOUS
    <2>1. rest[k] = 0
        BY <1>3
    <2>2. Pos \in SUBSET Before(rest, D, k)
        BY <2>1 DEF Pos, Before, Precedes
    <2>3. IsFiniteSet(Before(rest, D, k)) /\ Rank(rest, D, k) \in Nat
        <3>1. Before(rest, D, k) \in SUBSET D
            BY DEF Before
        <3>2. IsFiniteSet(Before(rest, D, k))
            BY <3>1, FS_Subset
        <3> QED
            BY <3>2, FS_CardinalityType DEF Rank
    <2>4. C <= Rank(rest, D, k)
        BY <2>2, <2>3, FS_Subset DEF C, Rank
    <2> QED
        BY <1>9, <1>11, <1>13, <2>3, <2>4
<1>14. \A k \in D : want[k] = whole[k] + raised[k] /\ raised[k] \in {0, 1} /\ (raised[k] = 1 => rest[k] > 0)
    BY <1>3, <1>4, <1>13
<1>15. want \in [D -> Int] /\ raised \in [D -> Int] /\ X \in SUBSET D
    BY <1>3, <1>4
<1>16. SumOf(raised, D) = need
    <2>1. \A k \in D : raised[k] = IF k \in X THEN 1 ELSE 0
        OBVIOUS
    <2> HIDE DEF raised, X
    <2> QED
        BY <1>12, <1>15, <2>1, MarksCount
<1> HIDE DEF raised, X
<1>17. SumOf(want, D) = n
    <2>1. Added(want, whole, raised, D)
        BY <1>14 DEF Added
    <2>2. SumOf(want, D) = W + need
        BY <1>d, <1>5, <1>15, <1>16, <2>1 DEF W
    <2> QED
        BY <1>6, <1>7, <2>2
<1>18. ASSUME NEW k \in D
       PROVE  n * counts[k] - want[k] * P < P /\ want[k] * P - n * counts[k] < P
    <2> DEFINE a == n * counts[k]
               w == whole[k]
               r == rest[k]
    <2>1. w \in Nat /\ r \in Nat /\ r < P /\ a = P * w + r
        BY <1>3
    <2>2. want[k] = w \/ (want[k] = w + 1 /\ r > 0)
        BY <1>14, <2>1
    <2> HIDE DEF a, w, r
    <2>3. CASE want[k] = w
        <3>1. want[k] * P = P * w /\ P * w \in Int
            BY <2>1, <2>3
        <3> HIDE DEF want
        <3>2. a - want[k] * P = r /\ want[k] * P - a = 0 - r
            BY <2>1, <3>1
        <3>3. a - want[k] * P < P /\ want[k] * P - a < P
            BY <2>1, <3>2
        <3> QED
            BY <3>3 DEF a
    <2>4. CASE want[k] = w + 1 /\ r > 0
        <3>1. want[k] * P = P * w + P /\ P * w \in Int
            BY <2>1, <2>4
        <3>2. a - want[k] * P = r - P /\ want[k] * P - a = P - r
            BY <2>1, <3>1
        <3>3. a - want[k] * P < P /\ want[k] * P - a < P
            BY <2>1, <2>4, <3>2
        <3> QED
            BY <3>3 DEF a
    <2> QED
        BY <2>2, <2>3, <2>4
<1> QED
    BY <1>15, <1>17, <1>18 DEF want

(* The strata of a pool are counted, and together they are the pool. *)
LEMMA StrataCount ==
    ASSUME NEW R, \A row \in R : IsRow(row), NEW rows \in Seq(R)
    PROVE  LET D == {rows[uid].hops : uid \in Pool(rows)}
           IN /\ D \in SUBSET Int /\ IsFiniteSet(D) /\ IsFiniteSet(Pool(rows))
              /\ Strata(rows) \in [D -> Nat] /\ SumOf(Strata(rows), D) = Cardinality(Pool(rows))
<1> DEFINE U == Pool(rows)
           D == {rows[uid].hops : uid \in U}
           class == [uid \in U |-> rows[uid].hops]
           f == Strata(rows)
<1>1. DOMAIN rows = 1..Len(rows) /\ Len(rows) \in Nat /\ \A uid \in DOMAIN rows : rows[uid] \in R
    OBVIOUS
<1>2. U \in SUBSET (1..Len(rows)) /\ U \in SUBSET DOMAIN rows
    BY <1>1 DEF Pool
<1>3. IsFiniteSet(U)
    <2>1. IsFiniteSet(1..Len(rows))
        BY <1>1, FS_Interval
    <2> QED
        BY <1>2, <2>1, FS_Subset
<1>4. D \in SUBSET Int
    BY <1>1, <1>2 DEF IsRow
<1>5. f = [hops \in D |-> Cardinality({uid \in U : rows[uid].hops = hops})]
    BY DEF Strata
<1> HIDE DEF U
<1>6. class \in Surjection(U, D)
    BY DEF Surjection
<1>7. IsFiniteSet(D)
    <2> HIDE DEF D, class
    <2> QED
        BY <1>3, <1>6, FS_Surjection
<1>8. \A k : Cardinality({uid \in U : rows[uid].hops = k}) \in Nat
    <2> TAKE k
    <2>1. IsFiniteSet({uid \in U : rows[uid].hops = k})
        BY <1>3, FS_Subset
    <2> QED
        BY <2>1, FS_CardinalityType
<1>9. CountsEach(f, class, D, U)
    <2> SUFFICES \A k \in D : f[k] = Cardinality({uid \in U : class[uid] = k})
        BY DEF CountsEach
    <2> TAKE k \in D
    <2>1. {uid \in U : class[uid] = k} = {uid \in U : rows[uid].hops = k}
        OBVIOUS
    <2> HIDE DEF class
    <2> QED
        BY <1>5, <2>1
<1> HIDE DEF f
<1>10. f \in [D -> Nat] /\ f \in [D -> Int]
    <2>1. \A k \in D : f[k] \in Nat
        BY <1>5, <1>8
    <2>2. DOMAIN f = D /\ f = [k \in DOMAIN f |-> f[k]]
        BY <1>5
    <2> HIDE DEF D
    <2> QED
        BY <2>1, <2>2
<1>11. class \in [U -> D]
    OBVIOUS
<1> HIDE DEF class, D
<1>12. SumOf(f, D) = Cardinality(U)
    BY <1>3, <1>7, <1>9, <1>10, <1>11, ClassesCount
<1>13. D \in SUBSET Int /\ IsFiniteSet(D) /\ IsFiniteSet(U) /\ f \in [D -> Nat] /\ SumOf(f, D) = Cardinality(U)
    BY <1>3, <1>4, <1>7, <1>10, <1>12
<1> QED
    BY <1>13 DEF D, U, f

(* A test split has the size asked for and of every stratum its share. *)
LEMMA TestsAreFair ==
    ASSUME NEW R, \A row \in R : IsRow(row), NEW rows \in Seq(R), NEW test \in Tests(rows)
    PROVE  /\ test \cap Dev(rows) = {} /\ Cardinality(test) = n_test
           /\ \A hops \in DOMAIN Strata(rows) :
                 LET share == Cardinality({uid \in test : rows[uid].hops = hops}) * Cardinality(Pool(rows))
                     exact == n_test * Strata(rows)[hops]
                 IN exact - share < Cardinality(Pool(rows)) /\ share - exact < Cardinality(Pool(rows))
<1> DEFINE U == Pool(rows)
           D == {rows[uid].hops : uid \in Pool(rows)}
           counts == Strata(rows)
           P == Cardinality(U)
           want == allocate(counts, n_test)
           class == [uid \in test |-> rows[uid].hops]
<1>1. D \in SUBSET Int /\ IsFiniteSet(D) /\ IsFiniteSet(U) /\ counts \in [D -> Nat] /\ SumOf(counts, D) = P
    BY StrataCount
<1>2. ~(n_test > P \/ U = {})
    BY DEF Tests
<1>3. test \in SUBSET U /\ \A hops \in DOMAIN want : Cardinality({uid \in test : rows[uid].hops = hops}) = want[hops]
    BY <1>2 DEF Tests
<1>4. n_test \in Nat /\ DEV_N \in Nat /\ EXCLUDE_FIRST \in Nat /\ DEV_N <= EXCLUDE_FIRST
    BY SplitConstantsOK
<1>5. \A uid \in test : uid \in U /\ uid \in DOMAIN rows /\ uid \in Int /\ uid > EXCLUDE_FIRST /\ rows[uid].hops \in D
    <2>1. \A uid \in U : uid \in DOMAIN rows /\ uid > EXCLUDE_FIRST
        BY DEF Pool
    <2>2. DOMAIN rows \subseteq Int
        OBVIOUS
    <2> QED
        BY <1>3, <2>1, <2>2
<1>6. test \cap Dev(rows) = {}
    BY <1>4, <1>5 DEF Dev
<1> HIDE DEF U, D, counts, P, want
<1>7. P \in Nat /\ P > 0
    BY <1>1, <1>2, FS_EmptySet, FS_CardinalityType DEF P
<1>8. P = Total(counts)
    BY <1>1, TotalSums
<1>9. /\ want \in [D -> Int] /\ SumOf(want, D) = n_test
      /\ \A k \in D : n_test * counts[k] - want[k] * P < P /\ want[k] * P - n_test * counts[k] < P
    BY <1>1, <1>4, <1>7, <1>8, AllocationIsFair DEF want
<1>10. CountsEach(want, class, D, test)
    <2> SUFFICES \A k \in D : want[k] = Cardinality({uid \in test : class[uid] = k})
        BY DEF CountsEach
    <2> TAKE k \in D
    <2>1. {uid \in test : class[uid] = k} = {uid \in test : rows[uid].hops = k}
        OBVIOUS
    <2> HIDE DEF class
    <2> QED
        BY <1>3, <1>9, <2>1
<1>11. class \in [test -> D] /\ IsFiniteSet(test)
    BY <1>1, <1>3, <1>5, FS_Subset
<1> HIDE DEF class
<1>12. SumOf(want, D) = Cardinality(test)
    BY <1>1, <1>9, <1>10, <1>11, ClassesCount
<1>13. \A hops \in DOMAIN counts :
          LET share == Cardinality({uid \in test : rows[uid].hops = hops}) * P
              exact == n_test * counts[hops]
          IN exact - share < P /\ share - exact < P
    <2> TAKE hops \in DOMAIN counts
    <2>1. hops \in D
        BY <1>1
    <2>2. Cardinality({uid \in test : rows[uid].hops = hops}) = want[hops]
        BY <1>3, <1>9, <2>1
    <2>3. n_test * counts[hops] - want[hops] * P < P /\ want[hops] * P - n_test * counts[hops] < P
        BY <1>9, <2>1
    <2> QED
        BY <2>2, <2>3
<1> QED
    BY <1>6, <1>9, <1>12, <1>13 DEF P, U, counts

(* No question is both trained on and held out and every test split has the *)
(* size and the shares asked for, whatever the rows, the order of the hashes *)
(* and the pilot's rewards (task.py, select_train.py, make_splits.py).      *)
THEOREM SplitsNeverLeak ==
    ASSUME NEW R, \A row \in R : IsRow(row), NEW rows \in Seq(R)
    PROVE  SplitsDoNotLeak(rows)
<1>1. ASSUME NEW order \in Orders(rows), official_split(rows, order).ok
      PROVE  LET split == official_split(rows, order)
                 chosen == mixed_training_uids(rows, split.train, order)
             IN /\ split.train \cap split.heldout = {} /\ split.train \cup split.heldout = DOMAIN rows
                /\ split.heldout # {} /\ split.heldout \subseteq Of(rows, "hard")
                /\ Cardinality(split.train \cap Of(rows, "hard")) = hard_train
                /\ chosen \cap split.heldout = {} /\ Cardinality(chosen) <= maximum
                /\ \A uid \in chosen : Range(rows[uid].rewards) = {0, 1} /\ Len(rows[uid].rewards) = samples
    <2> DEFINE split == official_split(rows, order)
               chosen == mixed_training_uids(rows, split.train, order)
    <2>1. /\ split.train \cap split.heldout = {} /\ split.train \cup split.heldout = DOMAIN rows
          /\ split.heldout # {} /\ split.heldout \subseteq Of(rows, "hard")
          /\ Cardinality(split.train \cap Of(rows, "hard")) = hard_train
        BY <1>1, OfficialSplitIsWhole
    <2>2. /\ chosen \subseteq split.train /\ Cardinality(chosen) <= maximum
          /\ \A uid \in chosen : Range(rows[uid].rewards) = {0, 1} /\ Len(rows[uid].rewards) = samples
        <3> DEFINE allowed == split.train
        <3> HIDE DEF allowed
        <3>1. LET some == mixed_training_uids(rows, allowed, order)
              IN /\ some \subseteq allowed /\ Cardinality(some) <= maximum
                 /\ \A uid \in some : Range(rows[uid].rewards) = {0, 1} /\ Len(rows[uid].rewards) = samples
            BY PilotSelects
        <3> QED
            BY <3>1 DEF allowed
    <2> HIDE DEF split, chosen
    <2>3. chosen \cap split.heldout = {}
        BY <2>1, <2>2
    <2>4. /\ split.train \cap split.heldout = {} /\ split.train \cup split.heldout = DOMAIN rows
          /\ split.heldout # {} /\ split.heldout \subseteq Of(rows, "hard")
          /\ Cardinality(split.train \cap Of(rows, "hard")) = hard_train
          /\ chosen \cap split.heldout = {} /\ Cardinality(chosen) <= maximum
          /\ \A uid \in chosen : Range(rows[uid].rewards) = {0, 1} /\ Len(rows[uid].rewards) = samples
        BY <2>1, <2>2, <2>3
    <2> QED
        BY <2>4 DEF split, chosen
<1>2. ASSUME NEW test \in Tests(rows)
      PROVE  /\ test \cap Dev(rows) = {} /\ Cardinality(test) = n_test
             /\ \A hops \in DOMAIN Strata(rows) :
                   LET share == Cardinality({uid \in test : rows[uid].hops = hops}) * Cardinality(Pool(rows))
                       exact == n_test * Strata(rows)[hops]
                   IN exact - share < Cardinality(Pool(rows)) /\ share - exact < Cardinality(Pool(rows))
    BY TestsAreFair
<1> QED
    BY <1>1, <1>2 DEF SplitsDoNotLeak

-----------------------------------------------------------------------------
(* Every knob is of one launcher or of both, and has its least value.       *)
LEMMA KnobNames ==
    /\ DOMAIN KNOBS = AsyncKnobs \cup SyncKnobs \cup SharedKnobs
    /\ KNOBS["ROLLOUT_NNODES"].lo = 0
BY DEF KNOBS, SharedKnobs, MayBeZero

(* A setting's value is its default or one that the job sets.               *)
LEMMA SettingIsOne ==
    ASSUME NEW S, NEW job \in Seq(S), NEW name
    PROVE  \/ Setting(job, name) = Defaults[name]
           \/ \E i \in DOMAIN job : job[i].name = name /\ Setting(job, name) = job[i].value
<1> DEFINE sets == {i \in DOMAIN job : job[i].name = name}
<1>1. CASE sets = {}
    BY <1>1 DEF Setting
<1>2. CASE sets # {}
    <2>1. Len(job) \in Nat /\ DOMAIN job = 1..Len(job)
        OBVIOUS
    <2>2. sets \in SUBSET (1..Len(job))
        BY <2>1
    <2>3. Max(sets) \in sets
        BY <2>1, <2>2, <1>2, MaxOf
    <2>4. Setting(job, name) = job[Max(sets)].value
        BY <1>2 DEF Setting
    <2> QED
        BY <2>3, <2>4
<1> QED
    BY <1>1, <1>2

(* A numeric setting has a number for its value, and a job that passes      *)
(* check_knobs asks for no negative number of rollout nodes.                *)
LEMMA SettingsAreNumbers ==
    ASSUME NEW S, \A s \in S : IsSetting(s), NEW job \in Seq(S)
    PROVE  /\ \A name \in Numbers : Setting(job, name) \in Int
           /\ Setting(job, "epochs") \in Nat /\ Setting(job, "batch") \in Nat
           /\ \A mode : check_knobs(mode, job) => Setting(job, "ROLLOUT_NNODES") >= 0
<1>0. \A i \in DOMAIN job : IsSetting(job[i])
    OBVIOUS
<1>1. ASSUME NEW name \in Numbers PROVE Setting(job, name) \in Int
    <2>1. name # "model"
        BY KnobNames DEF Numbers, Plumbing, Parameters, AsyncKnobs, SyncKnobs, SharedKnobs, AnyInteger
    <2>2. Defaults[name] \in Int
        <3>1. IsSetting([name |-> name, value |-> Defaults[name]])
            BY LaunchConfigOK
        <3> QED
            BY <2>1, <3>1 DEF IsSetting
    <2> QED
        BY <1>0, <2>1, <2>2, SettingIsOne DEF IsSetting
<1>2. ASSUME NEW name \in {"epochs", "batch"} PROVE Setting(job, name) \in Nat
    <2>1. Defaults[name] \in Nat
        <3>1. IsSetting([name |-> name, value |-> Defaults[name]])
            BY LaunchConfigOK DEF Numbers, Parameters
        <3> QED
            BY <3>1 DEF IsSetting
    <2> QED
        BY <1>0, <2>1, SettingIsOne DEF IsSetting
<1>3. ASSUME NEW mode, check_knobs(mode, job) PROVE Setting(job, "ROLLOUT_NNODES") >= 0
    <2>1. CASE Setting(job, "ROLLOUT_NNODES") = Defaults["ROLLOUT_NNODES"]
        BY <2>1, LaunchConfigOK
    <2>2. ASSUME NEW i \in DOMAIN job, job[i].name = "ROLLOUT_NNODES", Setting(job, "ROLLOUT_NNODES") = job[i].value
          PROVE  Setting(job, "ROLLOUT_NNODES") >= 0
        <3>1. job[i].value >= KNOBS["ROLLOUT_NNODES"].lo
            BY <1>3, <2>2 DEF check_knobs, Plumbing, Parameters, AnyInteger
        <3>2. job[i].value \in Int
            BY <1>0, <2>2 DEF IsSetting
        <3> QED
            BY <2>2, <3>1, <3>2, KnobNames
    <2> QED
        BY <2>1, <2>2, SettingIsOne
<1> QED
    BY <1>1, <1>2, <1>3

(* A quotient without remainder gives the number back.                      *)
LEMMA DividesExactly ==
    ASSUME NEW a \in Int, NEW n \in Nat \ {0}, a % n = 0
    PROVE  (a \div n) * n = a /\ a \div n \in Int
OBVIOUS

(* A multiple leaves no remainder.                                          *)
LEMMA MultipleDivides ==
    ASSUME NEW q \in Int, NEW n \in Nat \ {0}
    PROVE  (q * n) % n = 0
OBVIOUS

(* What a placement says of its trainer and rollout GPUs.                   *)
LEMMA PlacementFields ==
    ASSUME NEW a, NEW b, NEW c
    PROVE  /\ Placement(a, b, c).trainer = a * b /\ Placement(a, b, c).rollout = c
           /\ Placement(a, b, c).ok => a >= 1 /\ b >= 1 /\ c >= 1
<1>1. Placement(a, b, c).trainer = a * b /\ Placement(a, b, c).rollout = c
    BY DEF Placement
<1>2. Placement(a, b, c).ok = (a >= 1 /\ b >= 1 /\ c >= 1)
    BY Zenon DEF Placement
<1> QED
    BY <1>1, <1>2

(* The split of the nodes leaves no GPU out and gives none twice *)
LEMMA PlacementIsWhole ==
    ASSUME NEW S, \A s \in S : IsSetting(s), NEW job \in Seq(S), NEW mode \in {Async, Sync},
           check_knobs(mode, job), topology(mode, job).ok
    PROVE  LET t == topology(mode, job)
               gpus == Setting(job, "NNODES") * Setting(job, "NGPUS_PER_NODE")
           IN /\ IF mode = Async \/ Setting(job, "SEPARATE") = 1 THEN t.trainer + t.rollout = gpus
                 ELSE t.trainer = gpus /\ t.rollout = gpus
              /\ t.trainer \in Nat \ {0}
<1> DEFINE nodes == Setting(job, "NNODES")
           whole == Setting(job, "NGPUS_PER_NODE")
           apart == Setting(job, "ROLLOUT_NNODES")
           within == Setting(job, "N_GPUS_ROLLOUT")
           separate == Setting(job, "SEPARATE")
           t == topology(mode, job)
<1>1. nodes \in Int /\ whole \in Int /\ apart \in Int /\ within \in Int /\ apart >= 0
    BY SettingsAreNumbers, KnobNames DEF Numbers, Plumbing, AsyncKnobs, SharedKnobs
<1>2. Async # Sync
    BY DEF Async, Sync
<1>3. CASE (mode = Async /\ apart >= 1) \/ (mode = Sync /\ separate = 1)
    <2>1. t = Placement(nodes - apart, whole, apart * whole)
        BY <1>1, <1>2, <1>3 DEF topology
    <2>2. t.trainer = (nodes - apart) * whole /\ t.rollout = apart * whole /\ nodes - apart >= 1 /\ whole >= 1
        BY <2>1, PlacementFields
    <2> HIDE DEF nodes, whole, apart, t
    <2>3. t.trainer + t.rollout = nodes * whole /\ t.trainer \in Nat \ {0}
        BY <1>1, <2>2
    <2> QED
        BY <1>2, <1>3, <2>3 DEF nodes, whole, t
<1>4. CASE mode = Async /\ apart = 0
    <2>1. t = Placement(nodes, whole - within, nodes * within)
        BY <1>1, <1>2, <1>4 DEF topology
    <2>2. t.trainer = nodes * (whole - within) /\ t.rollout = nodes * within /\ nodes >= 1 /\ whole - within >= 1
        BY <2>1, PlacementFields
    <2> HIDE DEF nodes, whole, apart, within, t
    <2>3. t.trainer + t.rollout = nodes * whole /\ t.trainer \in Nat \ {0}
        BY <1>1, <2>2
    <2> QED
        BY <1>2, <1>4, <2>3 DEF nodes, whole, t
<1>5. CASE mode = Sync /\ separate # 1
    <2>1. t.trainer = nodes * whole /\ t.rollout = nodes * whole /\ nodes >= 1 /\ whole >= 1
      <3>1. t = [Placement(nodes, whole, nodes * whole) EXCEPT !.ok = @ /\ apart = 0]
        BY <1>2, <1>5 DEF topology
      <3>2. t.trainer = Placement(nodes, whole, nodes * whole).trainer /\ t.rollout = Placement(nodes, whole, nodes * whole).rollout
        BY <3>1 DEF Placement
      <3>3. t.ok => Placement(nodes, whole, nodes * whole).ok
        BY <3>1, Zenon DEF Placement
      <3> QED
        BY <3>1, <3>2, <3>3, PlacementFields
    <2> HIDE DEF nodes, whole, t
    <2>2. t.trainer \in Nat \ {0}
        BY <1>1, <2>1
    <2> QED
        BY <1>2, <1>5, <2>1, <2>2 DEF nodes, whole, t
<1>6. \/ (mode = Async /\ apart >= 1) \/ (mode = Sync /\ separate = 1)
      \/ mode = Async /\ apart = 0
      \/ mode = Sync /\ separate # 1
    <2> HIDE DEF apart, separate
    <2> QED
        BY <1>1
<1> HIDE DEF nodes, whole, apart, within, separate, t
<1> QED
    BY <1>3, <1>4, <1>5, <1>6

(* Every rank of the grid gets the same share of a batch. *)
LEMMA SharesAreEqual ==
    ASSUME NEW S, \A s \in S : IsSetting(s), NEW job \in Seq(S), NEW t, t.trainer \in Nat \ {0}, GridOK(job, t)
    PROVE  LET dp == DP(job, t.trainer)
           IN /\ dp * Setting(job, "TP") * Setting(job, "PP") * Setting(job, "CP") = t.trainer
              /\ (Setting(job, "mini") * Setting(job, "n")) % dp = 0
<1> DEFINE tp == Setting(job, "TP")
           pp == Setting(job, "PP")
           cp == Setting(job, "CP")
           mini == Setting(job, "mini")
           n == Setting(job, "n")
           dp == DP(job, t.trainer)
           each == tp * pp * cp
<1>1. tp \in Int /\ pp \in Int /\ cp \in Int /\ mini \in Int /\ n \in Int
    BY SettingsAreNumbers, KnobNames DEF Numbers, Plumbing, Parameters, SharedKnobs
<1>2. each >= 1 /\ t.trainer % each = 0 /\ mini % dp = 0 /\ dp = t.trainer \div each
    BY DEF GridOK, _divides, DP
<1> DEFINE gpus == t.trainer
<1> HIDE DEF tp, pp, cp, mini, n, dp, gpus
<1>3. each \in Nat \ {0}
    <2>1. each \in Int
        BY <1>1
    <2> QED
        BY <1>2, <2>1
<1>4. dp * each = gpus /\ dp \in Int
    <2> HIDE DEF each
    <2>1. gpus \in Int /\ gpus % each = 0 /\ dp = gpus \div each
        BY <1>2 DEF gpus
    <2>2. (gpus \div each) * each = gpus /\ gpus \div each \in Int
        BY <1>3, <2>1, DividesExactly
    <2> QED
        BY <2>1, <2>2
<1>5. dp * tp * pp * cp = gpus
    BY <1>1, <1>4
<1>6. dp \in Nat \ {0}
    <2> HIDE DEF each
    <2>1. gpus \in Nat \ {0}
        BY DEF gpus
    <2> QED
        BY <1>3, <1>4, <2>1
<1>7. (mini \div dp) * dp = mini /\ mini \div dp \in Int
    BY <1>1, <1>2, <1>6, DividesExactly
<1>8. (mini * n) % dp = 0
    <2> DEFINE q == mini \div dp
    <2>1. q \in Int /\ q * dp = mini
        BY <1>7
    <2> HIDE DEF q
    <2>2. mini * n = (q * n) * dp
        BY <1>1, <1>6, <2>1
    <2>3. q * n \in Int
        BY <1>1, <2>1
    <2> QED
        BY <1>6, <2>2, <2>3, MultipleDivides
<1> QED
    BY <1>5, <1>8 DEF dp, tp, pp, cp, mini, n, gpus

(* The run ends at a whole version, before the data of a single file does. *)
LEMMA BudgetIsExact ==
    ASSUME NEW S, \A s \in S : IsSetting(s), NEW job \in Seq(S), BudgetOK(job)
    PROVE  /\ plan_final(job) = EXPECTED_FINAL(job)
           /\ EXPECTED_FINAL(job) * SyncSamples(job) = Setting(job, "total")
           /\ Setting(job, "train_files") # List => Setting(job, "total") <= Rows * Setting(job, "epochs")
<1> DEFINE sync == SyncSamples(job)
           total == Setting(job, "total")
           epochs == Setting(job, "epochs")
<1>1. total \in Int /\ epochs \in Nat /\ Rows \in Nat
    BY SettingsAreNumbers, LaunchConfigOK DEF Numbers, Parameters
<1>2. sync \in Int
    BY SettingsAreNumbers, KnobNames DEF SyncSamples, Numbers, Parameters, AsyncKnobs
<1>3. sync >= 1 /\ total % sync = 0
    BY DEF BudgetOK
<1>4. EXPECTED_FINAL(job) = total \div sync
    BY DEF EXPECTED_FINAL
<1> HIDE DEF sync
<1>5. plan_final(job) = total \div sync
    BY <1>2, <1>3 DEF plan_final, sync
<1> HIDE DEF total, epochs
<1>6. (total \div sync) * sync = total
    BY <1>1, <1>2, <1>3, DividesExactly
<1>7. Setting(job, "train_files") # List => total <= Rows * epochs
    <2> SUFFICES ASSUME Setting(job, "train_files") # List PROVE total <= Rows * epochs
        OBVIOUS
    <2> DEFINE seen == Rows * epochs
    <2>3. total * 10 <= Rows * epochs * 9
        BY DEF BudgetOK, HeadroomOK, total, epochs
    <2>1. seen \in Nat /\ total * 10 <= seen * 9
        BY <1>1, <2>3
    <2> HIDE DEF seen
    <2>2. total <= seen
        BY <1>1, <2>1
    <2> QED
        BY <2>2 DEF seen
<1> QED
    BY <1>4, <1>5, <1>6, <1>7 DEF sync, total, epochs

(* What may be trained fits into rollout's context *)
LEMMA EpisodeFits ==
    ASSUME NEW S, \A s \in S : IsSetting(s), NEW job \in Seq(S), LengthsOK(job), Setting(job, "MULTI_TURN") = 1
    PROVE  /\ Setting(job, "prompt") + RespBudget(job) <= MaxModelLen(job)
           /\ RespBudget(job) >= Setting(job, "response")
<1> DEFINE prompt == Setting(job, "prompt")
           response == Setting(job, "response")
           length == EpisodeLen(job)
           context == MaxModelLen(job)
<1>1. \A name \in {"prompt", "response", "EPISODE_TOKEN_BUDGET", "MAX_TURNS", "MAX_MODEL_LEN"} : Setting(job, name) \in Int
    BY SettingsAreNumbers, KnobNames DEF Numbers, Parameters, AsyncKnobs, SharedKnobs
<1>2. length \in Int
    BY <1>1 DEF EpisodeLen
<1>3. context \in Int
    BY <1>1, <1>2 DEF MaxModelLen
<1>4. length >= prompt + response /\ context >= length
    BY DEF LengthsOK
<1>5. RespBudget(job) = length - prompt
    BY DEF RespBudget
<1>6. prompt \in Int /\ response \in Int
    BY <1>1
<1> HIDE DEF prompt, response, length, context
<1> QED
    BY <1>2, <1>3, <1>4, <1>5, <1>6 DEF prompt, response, context

(* A synchronous batch is a whole number of mini-batches.                   *)
LEMMA BatchesAreWhole ==
    ASSUME NEW S, \A s \in S : IsSetting(s), NEW job \in Seq(S), NEW t, SyncPlanOK(job, t), Setting(job, "mini") > 0
    PROVE  \E k \in 0..Setting(job, "batch") : k * Setting(job, "mini") = Setting(job, "batch")
<1> DEFINE batch == Setting(job, "batch")
           mini == Setting(job, "mini")
<1>1. batch \in Nat /\ mini \in Int /\ mini > 0
    BY SettingsAreNumbers DEF Numbers, Parameters
<1>2. batch % mini = 0
    BY <1>1 DEF SyncPlanOK
<1> HIDE DEF batch, mini
<1> DEFINE k == batch \div mini
<1>3. k * mini = batch /\ k \in Int
    BY <1>1, <1>2, DividesExactly
<1> HIDE DEF k
<1>4. k \in 0..batch
    <2>1. k >= 0
        BY <1>1, <1>3
    <2>2. k <= k * mini
        BY <1>1, <1>3, <2>1
    <2> QED
        BY <1>1, <1>3, <2>1, <2>2
<1> QED
    BY <1>3, <1>4 DEF batch, mini

(* Of any job that passes the pre-flight: no GPU is left out or given       *)
(* twice, every rank has an equal share of a batch, the run ends at the     *)
(* version the plan names and before the data of a single file does, and a  *)
(* multi-turn episode fits the rollout's context (preflight.py and the      *)
(* launchers).                                                              *)
THEOREM LaunchesAreExact ==
    ASSUME NEW S, \A s \in S : IsSetting(s), NEW job \in Seq(S), NEW mode \in {Async, Sync}
    PROVE  LaunchIsExact(mode, job)
<1> SUFFICES ASSUME launches(mode, job)
             PROVE  LaunchIsExact(mode, job)
    BY DEF LaunchIsExact
<1> DEFINE t == topology(mode, job)
<1>1. check_knobs(mode, job) /\ t.ok /\ GridOK(job, t)
    BY DEF launches
<1>2. mode = Async => LengthsOK(job) /\ BudgetOK(job)
    BY DEF launches
<1>3. mode = Sync => SyncPlanOK(job, t)
    BY DEF launches, Async, Sync
<1>4. /\ IF mode = Async \/ Setting(job, "SEPARATE") = 1
         THEN t.trainer + t.rollout = Setting(job, "NNODES") * Setting(job, "NGPUS_PER_NODE")
         ELSE /\ t.trainer = Setting(job, "NNODES") * Setting(job, "NGPUS_PER_NODE")
              /\ t.rollout = Setting(job, "NNODES") * Setting(job, "NGPUS_PER_NODE")
      /\ t.trainer \in Nat \ {0}
    BY <1>1, PlacementIsWhole
<1>5. /\ DP(job, t.trainer) * Setting(job, "TP") * Setting(job, "PP") * Setting(job, "CP") = t.trainer
      /\ (Setting(job, "mini") * Setting(job, "n")) % DP(job, t.trainer) = 0
    BY <1>1, <1>4, SharesAreEqual
<1>6. mode = Async =>
         /\ plan_final(job) = EXPECTED_FINAL(job)
         /\ EXPECTED_FINAL(job) * SyncSamples(job) = Setting(job, "total")
         /\ Setting(job, "train_files") # List => Setting(job, "total") <= Rows * Setting(job, "epochs")
    BY <1>2, BudgetIsExact
<1>7. mode = Async /\ Setting(job, "MULTI_TURN") = 1 =>
         /\ Setting(job, "prompt") + RespBudget(job) <= MaxModelLen(job)
         /\ RespBudget(job) >= Setting(job, "response")
    BY <1>2, EpisodeFits
<1>8. mode = Sync /\ Setting(job, "mini") > 0 =>
         \E k \in 0..Setting(job, "batch") : k * Setting(job, "mini") = Setting(job, "batch")
    BY <1>3, BatchesAreWhole
<1> HIDE DEF t
<1> QED
    BY <1>4, <1>5, <1>6, <1>7, <1>8 DEF LaunchIsExact, t

-----------------------------------------------------------------------------
(* A function on the numbers that each takes from the one before exists. *)
IsRecursion(f, A, base, step) ==
    /\ f \in [Nat -> A] /\ f[0] = base
    /\ \A k \in Nat : f[k + 1] = step[<<k, f[k]>>]

RunsUpto(g, n, A, base, step) ==
    /\ g \in [0..n -> A] /\ g[0] = base
    /\ \A k \in 0..(n - 1) : g[k + 1] = step[<<k, g[k]>>]

(* A recursive function on the numbers is well defined.                     *)
LEMMA RecursionExists ==
    ASSUME NEW A, NEW base \in A, NEW step \in [Nat \X A -> A]
    PROVE  \E f : IsRecursion(f, A, base, step)
<1> DEFINE Good(g, n) == RunsUpto(g, n, A, base, step)
           P == {n \in Nat : \E g : Good(g, n)}
<1>1. 0 \in P
    <2> DEFINE g == [k \in 0..0 |-> base]
    <2>1. Good(g, 0)
        BY DEF RunsUpto
    <2> QED
        BY <2>1
<1>2. ASSUME NEW n \in P PROVE n + 1 \in P
    <2>1. PICK g : Good(g, n)
        OBVIOUS
    <2> DEFINE h == [k \in 0..(n + 1) |-> IF k <= n THEN g[k] ELSE step[<<n, g[n]>>]]
    <2>2. n \in Nat
        OBVIOUS
    <2>3. /\ g \in [0..n -> A] /\ g[0] = base
          /\ \A k \in 0..(n - 1) : g[k + 1] = step[<<k, g[k]>>]
        BY <2>1 DEF RunsUpto
    <2>4. g[n] \in A /\ step[<<n, g[n]>>] \in A
        BY <2>2, <2>3
    <2>5. h \in [0..(n + 1) -> A]
        BY <2>2, <2>3, <2>4
    <2>6. h[0] = base
        BY <2>2, <2>3
    <2>7. ASSUME NEW k \in 0..((n + 1) - 1) PROVE h[k + 1] = step[<<k, h[k]>>]
        <3>1. k \in 0..n /\ k + 1 \in 0..(n + 1) /\ k \in 0..(n + 1)
            BY <2>2
        <3>2. h[k] = g[k]
            BY <3>1
        <3>3. CASE k = n
            <4>1. ~(k + 1 <= n)
                BY <2>2, <3>3
            <4>2. h[k + 1] = step[<<n, g[n]>>]
                BY <3>1, <4>1
            <4> QED
                BY <3>2, <3>3, <4>2
        <3>4. CASE k # n
            <4>1. k + 1 <= n /\ k \in 0..(n - 1)
                BY <2>2, <3>1, <3>4
            <4>2. h[k + 1] = g[k + 1]
                BY <3>1, <4>1
            <4> QED
                BY <2>3, <3>2, <4>1, <4>2
        <3> QED
            BY <3>3, <3>4
    <2> HIDE DEF h, P
    <2>8. Good(h, n + 1)
        BY <2>5, <2>6, <2>7 DEF RunsUpto
    <2> HIDE DEF Good
    <2> QED
        BY <2>2, <2>8 DEF P
<1>3. P = Nat
    <2> HIDE DEF P
    <2>1. P \in SUBSET Nat
        BY DEF P
    <2> QED
        BY <1>1, <1>2, <2>1, EveryNumber
<1> DEFINE G == [n \in Nat |-> CHOOSE g : Good(g, n)]
           f == [n \in Nat |-> G[n][n]]
<1>4. \A n \in Nat : Good(G[n], n)
    BY <1>3
<1> HIDE DEF G, P
<1>5. ASSUME NEW n \in Nat
      PROVE  /\ G[n] \in [0..n -> A] /\ G[n][0] = base
             /\ \A k \in 0..(n - 1) : G[n][k + 1] = step[<<k, G[n][k]>>]
    BY <1>4 DEF RunsUpto
<1>6. \A k, n \in Nat : k <= n => G[n][k] = G[n + 1][k]
    <2> DEFINE Q == {k \in Nat : \A n \in Nat : k <= n => G[n][k] = G[n + 1][k]}
    <2>1. 0 \in Q
        BY <1>5
    <2>2. ASSUME NEW k \in Q PROVE k + 1 \in Q
        <3> SUFFICES ASSUME NEW n \in Nat, k + 1 <= n PROVE G[n][k + 1] = G[n + 1][k + 1]
            OBVIOUS
        <3>1. k \in Nat /\ k \in 0..(n - 1) /\ k \in 0..((n + 1) - 1) /\ k <= n /\ n + 1 \in Nat
            OBVIOUS
        <3>2. G[n][k + 1] = step[<<k, G[n][k]>>]
            BY <1>5, <3>1
        <3>3. G[n + 1][k + 1] = step[<<k, G[n + 1][k]>>]
            BY <1>5, <3>1
        <3> QED
            BY <3>1, <3>2, <3>3
    <2> HIDE DEF Q
    <2>3. Q = Nat
      <3>1. Q \in SUBSET Nat
        BY DEF Q
      <3> QED
        BY <2>1, <2>2, <3>1, EveryNumber
    <2> QED
        BY <2>3 DEF Q
<1>7. f \in [Nat -> A]
    <2>1. ASSUME NEW n \in Nat PROVE G[n][n] \in A
        <3>1. n \in 0..n /\ G[n] \in [0..n -> A]
            BY <1>5
        <3> QED
            BY <3>1
    <2> QED
        BY <2>1
<1>8. f[0] = base
    BY <1>5
<1>9. ASSUME NEW k \in Nat PROVE f[k + 1] = step[<<k, f[k]>>]
    <2>1. k + 1 \in Nat /\ k \in 0..((k + 1) - 1) /\ k <= k
        OBVIOUS
    <2>2. G[k + 1][k + 1] = step[<<k, G[k + 1][k]>>]
        BY <1>5, <2>1
    <2>3. G[k + 1][k] = G[k][k]
        BY <1>6, <2>1
    <2> QED
        BY <2>1, <2>2, <2>3
<1> HIDE DEF f
<1> QED
    BY <1>7, <1>8, <1>9 DEF IsRecursion

-----------------------------------------------------------------------------
(* Power satisfies its equation.                                            *)
LEMMA PowerStep ==
    ASSUME NEW x \in Int
    PROVE  /\ Power(x, 0) = 1
           /\ \A k \in Nat : Power(x, k) \in Int /\ Power(x, k + 1) = x * Power(x, k)
<1> DEFINE Body(p) == [k \in Nat |-> IF k = 0 THEN 1 ELSE x * p[k - 1]]
           pw == CHOOSE p : p = Body(p)
           step == [p \in Nat \X Int |-> x * p[2]]
<1>1. step \in [Nat \X Int -> Int] /\ 1 \in Int
    OBVIOUS
<1>2. \A k \in Nat : \A v \in Int : step[<<k, v>>] = x * v
    OBVIOUS
<1> HIDE DEF step
<1>3. PICK f : IsRecursion(f, Int, 1, step)
    BY <1>1, RecursionExists
<1>4. f = Body(f)
    <2>1. f \in [Nat -> Int] /\ f[0] = 1 /\ \A k \in Nat : f[k + 1] = step[<<k, f[k]>>]
        BY <1>3 DEF IsRecursion
    <2>2. ASSUME NEW k \in Nat, k # 0 PROVE f[k] = x * f[k - 1]
        <3>1. k - 1 \in Nat /\ (k - 1) + 1 = k
            BY <2>2
        <3> QED
            BY <1>2, <2>1, <3>1
    <2> QED
        BY <2>1, <2>2
<1>5. pw = Body(pw)
    BY <1>4
<1>6. \A n : Power(x, n) = pw[n]
    BY DEF Power
<1> HIDE DEF pw
<1>7. pw[0] = 1
    BY <1>5
<1>8. ASSUME NEW k \in Nat PROVE pw[k + 1] = x * pw[k]
    <2>1. k + 1 \in Nat /\ k + 1 # 0 /\ (k + 1) - 1 = k
        OBVIOUS
    <2> QED
        BY <1>5, <2>1
<1>9. \A k \in Nat : pw[k] \in Int
    <2> DEFINE P == {k \in Nat : pw[k] \in Int}
    <2>1. 0 \in P
        BY <1>7
    <2>2. ASSUME NEW k \in P PROVE k + 1 \in P
        <3>1. k \in Nat /\ pw[k] \in Int
            OBVIOUS
        <3> QED
            BY <1>8, <3>1
    <2> HIDE DEF P
    <2>3. P = Nat
      <3>1. P \in SUBSET Nat
        BY DEF P
      <3> QED
        BY <2>1, <2>2, <3>1, EveryNumber
    <2> QED
        BY <2>3 DEF P
<1> QED
    BY <1>6, <1>7, <1>8, <1>9

(* Factorial satisfies its equation.                                        *)
LEMMA FactorialStep ==
    /\ Factorial[0] = 1
    /\ \A n \in Nat : Factorial[n] \in Nat /\ Factorial[n + 1] = (n + 1) * Factorial[n]
<1> DEFINE Body(p) == [n \in Nat |-> IF n = 0 THEN 1 ELSE n * p[n - 1]]
           step == [p \in Nat \X Nat |-> (p[1] + 1) * p[2]]
<1>1. step \in [Nat \X Nat -> Nat] /\ 1 \in Nat
    OBVIOUS
<1>2. \A k \in Nat : \A v \in Nat : step[<<k, v>>] = (k + 1) * v
    OBVIOUS
<1> HIDE DEF step
<1>3. PICK f : IsRecursion(f, Nat, 1, step)
    BY <1>1, RecursionExists
<1>4. f = Body(f)
    <2>1. f \in [Nat -> Nat] /\ f[0] = 1 /\ \A k \in Nat : f[k + 1] = step[<<k, f[k]>>]
        BY <1>3 DEF IsRecursion
    <2>2. ASSUME NEW k \in Nat, k # 0 PROVE f[k] = k * f[k - 1]
        <3>1. k - 1 \in Nat /\ (k - 1) + 1 = k
            BY <2>2
        <3> QED
            BY <1>2, <2>1, <3>1
    <2> QED
        BY <2>1, <2>2
<1>5. Factorial = Body(Factorial)
    <2> DEFINE fact == CHOOSE p : p = Body(p)
    <2>1. fact = Body(fact)
        BY <1>4
    <2>2. Factorial = fact
        BY DEF Factorial
    <2> QED
        BY <2>1, <2>2
<1>7. Factorial[0] = 1
    BY <1>5
<1>8. ASSUME NEW k \in Nat PROVE Factorial[k + 1] = (k + 1) * Factorial[k]
    <2>1. k + 1 \in Nat /\ k + 1 # 0 /\ (k + 1) - 1 = k
        OBVIOUS
    <2> QED
        BY <1>5, <2>1
<1>9. \A k \in Nat : Factorial[k] \in Nat
    <2> DEFINE P == {k \in Nat : Factorial[k] \in Nat}
    <2>1. 0 \in P
        BY <1>7
    <2>2. ASSUME NEW k \in P PROVE k + 1 \in P
        <3>1. k \in Nat /\ Factorial[k] \in Nat
            OBVIOUS
        <3> QED
            BY <1>8, <3>1
    <2> HIDE DEF P
    <2>3. P = Nat
      <3>1. P \in SUBSET Nat
        BY DEF P
      <3> QED
        BY <2>1, <2>2, <3>1, EveryNumber
    <2> QED
        BY <2>3 DEF P
<1> QED
    BY <1>7, <1>8, <1>9

(* A power of two exceeds its exponent, and grows with it.                  *)
LEMMA TwoPowers ==
    /\ \A k \in Nat : Power(2, k) \in Nat /\ k < Power(2, k)
    /\ \A k, d \in Nat : Power(2, k) <= Power(2, k + d) /\ Power(2, k + d) = Power(2, k) * Power(2, d)
<1>0. Power(2, 0) = 1 /\ \A k \in Nat : Power(2, k) \in Int /\ Power(2, k + 1) = 2 * Power(2, k)
    BY PowerStep
<1>1. \A k \in Nat : Power(2, k) \in Nat /\ k < Power(2, k)
    <2> DEFINE P == {k \in Nat : Power(2, k) \in Nat /\ k < Power(2, k)}
    <2>1. 0 \in P
        BY <1>0
    <2>2. ASSUME NEW k \in P PROVE k + 1 \in P
        <3>1. k \in Nat /\ Power(2, k) \in Nat /\ k < Power(2, k)
            OBVIOUS
        <3>2. Power(2, k + 1) = 2 * Power(2, k)
            BY <1>0, <3>1
        <3>3. Power(2, k + 1) \in Nat /\ k + 1 < Power(2, k + 1)
            BY <3>1, <3>2
        <3> QED
            BY <3>1, <3>3
    <2> HIDE DEF P
    <2>3. P = Nat
      <3>1. P \in SUBSET Nat
        BY DEF P
      <3> QED
        BY <2>1, <2>2, <3>1, EveryNumber
    <2> QED
        BY <2>3 DEF P
<1>2. ASSUME NEW k \in Nat
      PROVE  \A d \in Nat : Power(2, k) <= Power(2, k + d) /\ Power(2, k + d) = Power(2, k) * Power(2, d)
    <2> DEFINE P == {d \in Nat : Power(2, k) <= Power(2, k + d) /\ Power(2, k + d) = Power(2, k) * Power(2, d)}
    <2>1. 0 \in P
        <3>1. k + 0 = k /\ Power(2, k) \in Nat
            BY <1>1
        <3> QED
            BY <1>0, <3>1
    <2>2. ASSUME NEW d \in P PROVE d + 1 \in P
        <3>1. d \in Nat /\ k + d \in Nat /\ (k + d) + 1 = k + (d + 1)
            OBVIOUS
        <3> DEFINE x == Power(2, k)
                   y == Power(2, d)
                   z == Power(2, k + d)
        <3>2. x \in Nat /\ y \in Nat /\ z \in Nat /\ x <= z /\ z = x * y
            BY <1>1, <3>1
        <3>3. Power(2, k + (d + 1)) = 2 * z /\ Power(2, d + 1) = 2 * y
            BY <1>0, <3>1
        <3> HIDE DEF x, y, z
        <3>4. x <= 2 * z /\ 2 * z = x * (2 * y)
            BY <3>2
        <3>5. x <= Power(2, k + (d + 1)) /\ Power(2, k + (d + 1)) = x * Power(2, d + 1)
            BY <3>3, <3>4
        <3> QED
            BY <3>1, <3>5 DEF x
    <2> HIDE DEF P
    <2>3. P = Nat
      <3>1. P \in SUBSET Nat
        BY DEF P
      <3> QED
        BY <2>1, <2>2, <3>1, EveryNumber
    <2> QED
        BY <2>3 DEF P
<1> QED
    BY <1>1, <1>2

(* A number's distance from 0.                                              *)
LEMMA AbsOf ==
    ASSUME NEW n \in Int
    PROVE  Abs(n) \in Nat /\ (n >= 0 => Abs(n) = n) /\ (n < 0 => Abs(n) = 0 - n)
BY DEF Abs

(* The distance of a product is the product of the distances.               *)
LEMMA AbsOfProduct ==
    ASSUME NEW a \in Int, NEW b \in Int
    PROVE  Abs(a * b) = Abs(a) * Abs(b)
<1>1. a * b \in Int
    OBVIOUS
<1>2. CASE a >= 0 /\ b >= 0
    <2>1. a * b >= 0
        BY <1>2
    <2> QED
        BY <1>1, <1>2, <2>1, AbsOf
<1>3. CASE a < 0 /\ b < 0
    <2>1. a * b >= 0 /\ a * b = (0 - a) * (0 - b)
        BY <1>3
    <2> QED
        BY <1>1, <1>3, <2>1, AbsOf
<1>4. CASE a >= 0 /\ b < 0
    <2>1. a * b <= 0 /\ 0 - a * b = a * (0 - b)
        BY <1>4
    <2>2. Abs(a * b) = 0 - a * b
        BY <1>1, <2>1, AbsOf
    <2> QED
        BY <1>4, <2>1, <2>2, AbsOf
<1>5. CASE a < 0 /\ b >= 0
    <2>1. a * b <= 0 /\ 0 - a * b = (0 - a) * b
        BY <1>5
    <2>2. Abs(a * b) = 0 - a * b
        BY <1>1, <2>1, AbsOf
    <2> QED
        BY <1>5, <2>1, <2>2, AbsOf
<1> QED
    BY <1>2, <1>3, <1>4, <1>5

(* The power of a number is as far from 0 as the power of its distance.    *)
LEMMA AbsOfPower ==
    ASSUME NEW a \in Int, NEW n \in Nat
    PROVE  /\ Abs(Power(a, n)) = Power(Abs(a), n)
           /\ n # 0 /\ Abs(a) <= 1 => Abs(Power(a, n)) <= 1
<1> DEFINE P == {k \in Nat : /\ Abs(Power(a, k)) = Power(Abs(a), k)
                             /\ Abs(a) <= 1 => Abs(Power(a, k)) <= 1}
<1>0. Abs(a) \in Int /\ Abs(a) \in Nat /\ Abs(1) = 1
    BY AbsOf
<1>1. /\ Power(a, 0) = 1 /\ Power(Abs(a), 0) = 1
      /\ \A k \in Nat : Power(a, k) \in Int /\ Power(a, k + 1) = a * Power(a, k)
      /\ \A k \in Nat : Power(Abs(a), k) \in Int /\ Power(Abs(a), k + 1) = Abs(a) * Power(Abs(a), k)
    BY <1>0, PowerStep
<1>2. 0 \in P
    BY <1>0, <1>1
<1>3. ASSUME NEW k \in P PROVE k + 1 \in P
    <2> DEFINE x == Power(a, k)
    <2>1. k \in Nat /\ Abs(x) = Power(Abs(a), k) /\ (Abs(a) <= 1 => Abs(x) <= 1)
        OBVIOUS
    <2>2. x \in Int /\ Power(a, k + 1) = a * x /\ Power(Abs(a), k + 1) = Abs(a) * Abs(x)
        BY <1>1, <2>1
    <2> HIDE DEF x
    <2>3. Abs(a * x) = Abs(a) * Abs(x)
        BY <2>2, AbsOfProduct
    <2>4. ASSUME Abs(a) <= 1 PROVE Abs(a) * Abs(x) <= 1
        <3>1. Abs(a) \in 0..1 /\ Abs(x) \in 0..1
            BY <1>0, <2>1, <2>2, <2>4, AbsOf
        <3> QED
            BY <3>1
    <2>5. /\ Abs(Power(a, k + 1)) = Power(Abs(a), k + 1)
          /\ Abs(a) <= 1 => Abs(Power(a, k + 1)) <= 1
        BY <2>2, <2>3, <2>4
    <2> QED
        BY <2>1, <2>5
<1>4. P = Nat
    <2> HIDE DEF P
    <2>1. P \in SUBSET Nat
        BY DEF P
    <2> QED
        BY <1>2, <1>3, <2>1, EveryNumber
<1> QED
    BY <1>4

(* A number has the bits it needs. *)
LEMMA BitsOf ==
    ASSUME NEW n \in Int
    PROVE  /\ bit_length(n) \in Nat
           /\ \A b \in Nat : bit_length(n) <= b <=> Abs(n) < Power(2, b)
<1> DEFINE T == {b \in Nat : Abs(n) < Power(2, b)}
           Is(b) == Abs(n) < Power(2, b) /\ (b = 0 \/ Abs(n) >= Power(2, b - 1))
           bits == bit_length(n)
<1>0. Abs(n) \in Nat
    BY AbsOf
<1>1. Abs(n) \in T
    BY <1>0, TwoPowers
<1>2. PICK first \in T : \A b \in T : first <= b
    BY <1>1, FirstExists
<1>3. first \in 0..Abs(n) /\ Is(first)
    <2>1. first \in Nat /\ first <= Abs(n) /\ Abs(n) < Power(2, first)
        BY <1>1, <1>2
    <2>2. ASSUME first # 0 PROVE Abs(n) >= Power(2, first - 1)
        <3>1. first - 1 \in Nat /\ ~(first <= first - 1)
            BY <2>1, <2>2
        <3>2. first - 1 \notin T
            BY <1>2, <3>1
        <3>3. ~(Abs(n) < Power(2, first - 1)) /\ Power(2, first - 1) \in Nat
            BY <3>1, <3>2, TwoPowers
        <3> QED
            BY <1>0, <3>3
    <2> QED
        BY <1>0, <2>1, <2>2
<1>4. bits \in 0..Abs(n) /\ Is(bits)
    <2>1. \E b \in 0..Abs(n) : Is(b)
        BY <1>3
    <2>2. bits = CHOOSE b \in 0..Abs(n) : Is(b)
        BY DEF bit_length
    <2> HIDE DEF Is, bits
    <2> QED
        BY <2>1, <2>2
<1> HIDE DEF bits
<1>5. bits \in Nat
    BY <1>0, <1>4
<1>6. ASSUME NEW b \in Nat PROVE bits <= b <=> Abs(n) < Power(2, b)
    <2>1. CASE bits <= b
        <3>1. b - bits \in Nat /\ bits + (b - bits) = b
            BY <1>5, <2>1
        <3>2. Power(2, bits) <= Power(2, b)
            BY <1>5, <3>1, TwoPowers
        <3>3. Power(2, bits) \in Nat /\ Power(2, b) \in Nat
            BY <1>5, TwoPowers
        <3> QED
            BY <1>0, <1>4, <2>1, <3>2, <3>3
    <2>2. CASE ~(bits <= b)
        <3>1. bits # 0 /\ bits - 1 \in Nat /\ (bits - 1) - b \in Nat /\ b + ((bits - 1) - b) = bits - 1
            BY <1>5, <2>2
        <3>2. Power(2, b) <= Power(2, bits - 1)
            BY <3>1, TwoPowers
        <3>3. Abs(n) >= Power(2, bits - 1)
            BY <1>4, <3>1
        <3>4. Power(2, b) \in Nat /\ Power(2, bits - 1) \in Nat
            BY <3>1, TwoPowers
        <3> QED
            BY <1>0, <2>2, <3>2, <3>3, <3>4
    <2> QED
        BY <2>1, <2>2
<1> QED
    BY <1>5, <1>6 DEF bits

(* Division: what is left of a number is smaller than what it is divided by, *)
(* and what was taken out is no further from 0 than the number.             *)
LEMMA Division ==
    ASSUME NEW n \in Int, NEW d \in Nat, d # 0
    PROVE  /\ n \div d \in Int /\ n % d \in 0..(d - 1)
           /\ n = d * (n \div d) + (n % d)
OBVIOUS

(* Division rounds down, and is no further from 0 than what it divides; the *)
(* remainder is closer than the divisor (// and %).                         *)
LEMMA Quotient ==
    ASSUME NEW a \in Int, NEW b \in Int, b # 0
    PROVE  /\ FloorDiv(a, b) \in Int /\ Abs(FloorDiv(a, b)) <= Abs(a)
           /\ Abs(a - b * FloorDiv(a, b)) < Abs(b)
<1>1. ASSUME NEW n \in Int, NEW d \in Nat, d # 0
      PROVE  n \div d \in Int /\ Abs(n \div d) <= Abs(n)
    <2> DEFINE q == n \div d
               r == n % d
    <2>1. q \in Int /\ r \in Int /\ 0 <= r /\ r < d /\ n = d * q + r
        BY <1>1, Division
    <2> HIDE DEF q, r
    <2>2. CASE q >= 0
        <3>1. d * q >= q
            BY <1>1, <2>1, <2>2
        <3>2. n >= q
            BY <1>1, <2>1, <3>1
        <3> QED
            BY <2>1, <2>2, <3>2, AbsOf DEF q
    <2>3. CASE q < 0
        <3>1. d * (q + 1) <= q + 1
            BY <1>1, <2>1, <2>3
        <3>2. d * (q + 1) = d * q + d
            BY <1>1, <2>1
        <3>3. n <= q
            BY <1>1, <2>1, <3>1, <3>2
        <3>4. Abs(q) = 0 - q /\ Abs(n) = 0 - n
            BY <1>1, <2>1, <2>3, <3>3, AbsOf
        <3> QED
            BY <1>1, <2>1, <2>3, <3>3, <3>4 DEF q
    <2> QED
        BY <2>1, <2>2, <2>3 DEF q
<1>2. CASE b > 0
    <2>1. FloorDiv(a, b) = a \div b /\ b \in Nat
        BY <1>2 DEF FloorDiv
    <2>2. a - b * (a \div b) = a % b /\ a % b \in 0..(b - 1)
        <3>1. a \div b \in Int /\ a % b \in 0..(b - 1) /\ a = b * (a \div b) + (a % b)
            BY <1>2, <2>1, Division
        <3> DEFINE p == b * (a \div b)
        <3>2. p \in Int
            BY <3>1
        <3> HIDE DEF p
        <3>3. a - p = a % b
            BY <3>1, <3>2 DEF p
        <3> QED
            BY <3>1, <3>3 DEF p
    <2>3. Abs(a - b * (a \div b)) < Abs(b)
        <3>1. Abs(a % b) = a % b /\ Abs(b) = b
            BY <1>2, <2>2, AbsOf
        <3> QED
            BY <2>1, <2>2, <3>1
    <2> QED
        BY <1>1, <1>2, <2>1, <2>3
<1>3. CASE b < 0
    <2> DEFINE d == -b
               m == -a
    <2>1. d \in Nat /\ d # 0 /\ m \in Int /\ b = 0 - d /\ a = 0 - m
        BY <1>3
    <2>2. FloorDiv(a, b) = m \div d
        BY <1>3 DEF FloorDiv
    <2> HIDE DEF d, m
    <2> DEFINE q == m \div d
               r == m % d
               p == d * q
    <2>3. q \in Int /\ r \in Int /\ 0 <= r /\ r < d /\ m = p + r /\ p \in Int
        BY <2>1, Division
    <2>4. b * q = 0 - p
        BY <2>1, <2>3
    <2>5. a - b * q = 0 - r
        <3> HIDE DEF p, q, r
        <3> QED
            BY <2>1, <2>3, <2>4
    <2>6. Abs(a - b * q) < Abs(b)
        <3>1. Abs(0 - r) = r
            <4> HIDE DEF r
            <4> QED
                BY <2>3, AbsOf DEF Abs
        <3>2. Abs(b) = d
            BY <1>3, <2>1, AbsOf
        <3> QED
            BY <2>3, <2>5, <3>1, <3>2
    <2>7. Abs(q) <= Abs(a)
        <3>1. Abs(q) <= Abs(m)
            BY <1>1, <2>1
        <3>2. Abs(m) = Abs(a)
            BY <2>1 DEF Abs
        <3> QED
            BY <3>1, <3>2
    <2> QED
        BY <2>2, <2>3, <2>6, <2>7
<1> QED
    BY <1>2, <1>3

(* Rounding at most doubles a number. *)
LEMMA Rounding ==
    ASSUME NEW n \in Int, NEW digits \in Int
    PROVE  RoundTo(n, digits) \in Int /\ Abs(RoundTo(n, digits)) <= 2 * Abs(n)
<1>1. CASE digits >= 0
    BY <1>1, AbsOf DEF RoundTo
<1>2. CASE digits < 0
    <2> DEFINE unit == Power(10, -digits)
               down == n \div unit
               left == n % unit
               whole == unit * down
    <2>1. unit \in Nat /\ unit # 0
        <3> DEFINE P == {k \in Nat : Power(10, k) \in Nat /\ Power(10, k) # 0}
        <3>1. 0 \in P
            BY PowerStep
        <3>2. ASSUME NEW k \in P PROVE k + 1 \in P
            <4>1. k \in Nat /\ Power(10, k) \in Nat /\ Power(10, k) # 0 /\ Power(10, k + 1) = 10 * Power(10, k)
                BY PowerStep
            <4> DEFINE p == Power(10, k)
            <4> HIDE DEF p
            <4>2. Power(10, k + 1) \in Nat /\ Power(10, k + 1) # 0
                BY <4>1 DEF p
            <4> QED
                BY <4>1, <4>2
        <3> HIDE DEF P
        <3>3. P = Nat
            <4>1. P \in SUBSET Nat
                BY DEF P
            <4> QED
                BY <3>1, <3>2, <4>1, EveryNumber
        <3>4. -digits \in Nat
            BY <1>2
        <3> QED
            BY <3>3, <3>4 DEF P
    <2> HIDE DEF unit
    <2>2. down \in Int /\ left \in Int /\ 0 <= left /\ left < unit /\ whole \in Int /\ n = whole + left
        BY <2>1, Division
    <2>3. unit * (down + 1) = whole + unit
        BY <2>1, <2>2
    <2>4. \/ RoundTo(n, digits) = whole + unit /\ 2 * left >= unit
          \/ RoundTo(n, digits) = whole /\ 2 * left <= unit
        <3>1. RoundTo(n, digits) = unit * (IF 2 * left > unit \/ (2 * left = unit /\ down % 2 = 1) THEN down + 1 ELSE down)
            BY <1>2 DEF RoundTo, unit
        <3> HIDE DEF left, down
        <3>2. CASE 2 * left > unit \/ (2 * left = unit /\ down % 2 = 1)
            BY <2>1, <2>2, <2>3, <3>1, <3>2
        <3>3. CASE ~(2 * left > unit \/ (2 * left = unit /\ down % 2 = 1))
            BY <2>1, <2>2, <3>1, <3>3
        <3> QED
            BY <3>2, <3>3
    <2>5. n >= 0 => down >= 0
        BY <2>1, <2>2
    <2>6. down >= 0 => whole >= 0
        BY <2>1, <2>2
    <2>7. n < 0 => down <= -1
        BY <2>1, <2>2
    <2>8. down <= -1 => whole <= 0 - unit
        BY <2>1, <2>2
    <2> HIDE DEF down, left, whole
    <2>9. CASE n >= 0
        <3>1. 0 <= RoundTo(n, digits) /\ RoundTo(n, digits) <= 2 * n /\ RoundTo(n, digits) \in Int
            BY <2>1, <2>2, <2>4, <2>5, <2>6, <2>9
        <3> QED
            BY <2>9, <3>1, AbsOf
    <2>10. CASE n < 0
        <3>1. RoundTo(n, digits) <= 0 /\ RoundTo(n, digits) >= 2 * n /\ RoundTo(n, digits) \in Int
            BY <2>1, <2>2, <2>4, <2>7, <2>8, <2>10
        <3>2. Abs(n) = 0 - n
            BY <2>10, AbsOf
        <3>3. Abs(RoundTo(n, digits)) = 0 - RoundTo(n, digits)
            BY <3>1, AbsOf
        <3> QED
            BY <3>1, <3>2, <3>3
    <2> QED
        BY <2>9, <2>10
<1> QED
    BY <1>1, <1>2

(* A common divisor of two numbers is not larger than both.                 *)
LEMMA CommonDivisor ==
    ASSUME NEW a \in Nat, NEW b \in Nat
    PROVE  Gcd(a, b) \in Nat /\ (Gcd(a, b) <= a \/ Gcd(a, b) <= b)
<1>1. CASE a = 0 \/ b = 0
    BY <1>1 DEF Gcd
<1>2. CASE a # 0 /\ b # 0
    <2> DEFINE D == {d \in 1..a : a % d = 0 /\ b % d = 0}
    <2>1. 1 \in D /\ D \in SUBSET (1..a)
        BY <1>2
    <2>2. Gcd(a, b) = Max(D)
        BY <1>2 DEF Gcd
    <2> HIDE DEF D
    <2>3. Max(D) \in D
        BY <2>1, MaxOf
    <2>4. Max(D) \in 1..a
        BY <2>1, <2>3
    <2> QED
        BY <2>2, <2>4
<1> QED
    BY <1>1, <1>2

IntOps == {"+", "-", "*", "//", "%", "**", "gcd", "min", "max", "round", "neg", "abs", "factorial", "floor"}

(* What one operation makes of two integers that fit: it has at most twice   *)
(* their bits.                                                              *)
LEMMA ResultFits ==
    ASSUME NEW a \in Int, NEW b \in Int, NEW op \in IntOps,
           Abs(a) < Power(2, MAX_INT_BITS), Abs(b) < Power(2, MAX_INT_BITS),
           ~Declined(op, Exact(a), Exact(b)), ~Undefined(op, Exact(a), Exact(b)),
           ~(op = "**" /\ b < 0)
    PROVE  IntResult(op, a, b) \in Int /\ Abs(IntResult(op, a, b)) < Power(2, 2 * MAX_INT_BITS)
<1> DEFINE M == MAX_INT_BITS
           W == Power(2, M)
           V == Power(2, 2 * M)
           x == IntResult(op, a, b)
           Fits(n) == n \in Int /\ Abs(n) < V
<1>1. M \in Nat /\ M # 0
    BY CalculatorBoundsOK
<1>2. W \in Nat /\ V \in Nat /\ W >= 2 /\ V = W * W
    <2>1. 2 * M = M + M /\ M - 1 \in Nat /\ 1 + (M - 1) = M /\ 0 + 1 = 1
        BY <1>1
    <2>2. W \in Nat /\ V = W * W
        BY <1>1, <2>1, TwoPowers
    <2>3. Power(2, 1) = 2
        <3>1. Power(2, 0) = 1 /\ Power(2, 0 + 1) = 2 * Power(2, 0)
            BY PowerStep
        <3> QED
            BY <2>1, <3>1
    <2>4. Power(2, 1) <= W
        BY <2>1, TwoPowers
    <2> HIDE DEF W, V
    <2> QED
        BY <2>2, <2>3, <2>4
<1>3. Abs(a) \in Nat /\ Abs(b) \in Nat /\ Abs(a) < W /\ Abs(b) < W
    BY AbsOf
<1>4. 2 * W <= V
    <2> HIDE DEF W, V
    <2> QED
        BY <1>2
<1> HIDE DEF W, V
<1>5. ASSUME NEW n \in Int, Abs(n) <= 2 * Abs(a) \/ Abs(n) <= Abs(a) + Abs(b) \/ Abs(n) <= Abs(b) \/ Abs(n) <= W
      PROVE  Fits(n)
    <2>1. Abs(n) \in Nat
        BY AbsOf
    <2> QED
        BY <1>2, <1>3, <1>4, <1>5, <2>1
<1>6. CASE op = "+"
    <2>1. x = a + b
        BY <1>6 DEF IntResult
    <2>2. Abs(a + b) <= Abs(a) + Abs(b)
        BY DEF Abs
    <2> QED
        BY <1>5, <2>1, <2>2 DEF V
<1>7. CASE op = "-"
    <2>1. x = a - b
        BY <1>7 DEF IntResult
    <2>2. Abs(a - b) <= Abs(a) + Abs(b)
        BY DEF Abs
    <2> QED
        BY <1>5, <2>1, <2>2 DEF V
<1>8. CASE op = "*"
    <2>1. x = a * b
        BY <1>8 DEF IntResult
    <2>2. Abs(a * b) = Abs(a) * Abs(b)
        BY AbsOfProduct
    <2>3. \A m, n \in Nat : m < W /\ n < W => m * n < W * W
        <3> SUFFICES ASSUME NEW m \in Nat, NEW n \in Nat, m < W, n < W PROVE m * n < W * W
            OBVIOUS
        <3>1. m * n <= m * W
            BY <1>2
        <3>2. m * W < W * W
            BY <1>2
        <3>3. m * n \in Int /\ m * W \in Int /\ W * W \in Int
            BY <1>2
        <3> QED
            BY <3>1, <3>2, <3>3
    <2>4. Abs(a * b) < V
        BY <1>2, <1>3, <2>2, <2>3
    <2> QED
        BY <2>1, <2>4 DEF V
<1>9. CASE op = "//"
    <2>1. x = FloorDiv(a, b) /\ b # 0
        BY <1>9 DEF IntResult, Undefined, Exact
    <2>2. x \in Int /\ Abs(x) <= Abs(a)
        BY <2>1, Quotient
    <2>3. Abs(x) <= 2 * Abs(a)
        <3>1. Abs(x) \in Nat
            BY <2>2, AbsOf
        <3> QED
            BY <1>3, <2>2, <3>1
    <2> QED
        BY <1>5, <2>2, <2>3 DEF V
<1>10. CASE op = "%"
    <2>1. x = a - b * FloorDiv(a, b) /\ b # 0
        BY <1>10 DEF IntResult, Undefined, Exact
    <2>2. x \in Int /\ Abs(x) < Abs(b)
        BY <2>1, Quotient
    <2>3. Abs(x) <= Abs(b)
        <3>1. Abs(x) \in Nat
            BY <2>2, AbsOf
        <3> QED
            BY <1>3, <2>2, <3>1
    <2> QED
        BY <1>5, <2>2, <2>3 DEF V
<1>11. CASE op = "**"
    <2>1. x = Power(a, b) /\ b \in Nat /\ PowerFits(a, b)
        BY <1>11 DEF IntResult, Declined, Exact, IsInt
    <2>2. Power(a, b) \in Int
        BY <2>1, PowerStep
    <2>3. CASE b = 0
        <3>1. x = 1
            BY <2>1, <2>3, PowerStep
        <3>2. Abs(x) <= W
            BY <1>2, <3>1, AbsOf
        <3> QED
            BY <1>5, <2>1, <2>2, <3>2 DEF V
    <2>4. CASE b # 0 /\ Abs(a) <= 1
        <3>1. Abs(Power(a, b)) <= 1
            BY <2>1, <2>4, AbsOfPower
        <3>2. Abs(Power(a, b)) <= W
            <4>1. Abs(Power(a, b)) \in Nat
                BY <2>2, AbsOf
            <4> QED
                BY <1>2, <3>1, <4>1
        <3> QED
            BY <1>5, <2>1, <2>2, <3>2 DEF V
    <2>5. CASE b # 0 /\ Abs(a) > 1
        <3>1. Power(Abs(a), b) <= W
            BY <2>1, <2>5 DEF PowerFits, W
        <3>2. Abs(Power(a, b)) <= W
            BY <2>1, <3>1, AbsOfPower
        <3> QED
            BY <1>5, <2>1, <2>2, <3>2 DEF V
    <2> QED
        BY <1>3, <2>3, <2>4, <2>5
<1>12. CASE op = "gcd"
    <2>1. x = Gcd(Abs(a), Abs(b))
        BY <1>12 DEF IntResult
    <2>2. x \in Nat /\ (x <= Abs(a) \/ x <= Abs(b))
        BY <1>3, <2>1, CommonDivisor
    <2>3. x \in Int /\ Abs(x) = x
        BY <2>2, AbsOf
    <2>4. Abs(x) <= 2 * Abs(a) \/ Abs(x) <= Abs(b)
        BY <1>3, <2>2, <2>3
    <2> QED
        BY <1>5, <2>3, <2>4 DEF V
<1>13. CASE op \in {"min", "max", "neg", "abs", "floor"}
    <2>1. x \in {a, b, -a, Abs(a)}
        BY <1>13 DEF IntResult
    <2>2. x \in Int /\ (Abs(x) <= 2 * Abs(a) \/ Abs(x) <= Abs(b))
        BY <1>3, <2>1 DEF Abs
    <2> QED
        BY <1>5, <2>2 DEF V
<1>14. CASE op = "round"
    <2>1. x = RoundTo(a, b)
        BY <1>14 DEF IntResult
    <2> QED
        BY <1>5, <2>1, Rounding DEF V
<1>15. CASE op = "factorial"
    <2>1. x = Factorial[a] /\ a \in Nat /\ FactorialFits(a)
        BY <1>15 DEF IntResult, Undefined, Declined, Exact, IsInt
    <2>2. Factorial[a] \in Nat
        BY <2>1, FactorialStep
    <2>3. CASE a <= 1
        <3>1. a = 0 \/ a = 0 + 1
            BY <2>1, <2>3
        <3>2. x <= 1
            BY <2>1, <3>1, FactorialStep
        <3>3. Abs(x) = x
            BY <2>1, <2>2, AbsOf
        <3>4. Abs(x) <= W
            BY <1>2, <2>1, <2>2, <3>2, <3>3
        <3> QED
            BY <1>5, <2>1, <2>2, <3>4 DEF V
    <2>4. CASE ~(a <= 1)
        <3>1. x <= W /\ x \in Nat
            BY <2>1, <2>2, <2>4 DEF FactorialFits, W
        <3>2. Abs(x) <= W
            BY <3>1, AbsOf
        <3> QED
            BY <1>5, <3>1, <3>2 DEF V
    <2> QED
        BY <2>3, <2>4
<1> QED
    BY <1>6, <1>7, <1>8, <1>9, <1>10, <1>11, <1>12, <1>13, <1>14, <1>15 DEF IntOps, V

Kept == {v \in [kind : {"int", "float"}, n : Int] : bit_length(v.n) <= MAX_INT_BITS /\ (v.kind = "float" => v.n = 0)}
Evaluated == [stack : Seq(Kept), error : BOOLEAN, peak : 0..(2 * MAX_INT_BITS)]

(* A number that is built is kept only if it fits. *)
LEMMA NumberFits ==
    ASSUME NEW acc \in Evaluated, NEW rest \in Seq(Kept), NEW x,
           x = Float \/ \E n \in Int : x = Exact(n) /\ bit_length(n) <= 2 * MAX_INT_BITS
    PROVE  Number(acc, rest, x) \in Evaluated
<1>0. MAX_INT_BITS \in Nat
    BY CalculatorBoundsOK
<1>1. /\ x.n \in Int /\ bit_length(x.n) \in 0..(2 * MAX_INT_BITS)
      /\ x \in [kind : {"int", "float"}, n : Int] /\ (x.kind = "float" => x.n = 0)
    <2>1. CASE x = Float
        <3>1. x.n = 0 /\ x \in [kind : {"int", "float"}, n : Int] /\ 0 \in Int
            BY <2>1 DEF Float
        <3>2. bit_length(0) \in Nat /\ (bit_length(0) <= 0 <=> Abs(0) < Power(2, 0))
            <4>1. 0 \in Nat /\ 0 \in Int
                OBVIOUS
            <4> QED
                BY <4>1, BitsOf
        <3>3. Abs(0) = 0 /\ Power(2, 0) = 1
            BY AbsOf, PowerStep
        <3> QED
            BY <1>0, <3>1, <3>2, <3>3
    <2>2. ASSUME NEW n \in Int, x = Exact(n), bit_length(n) <= 2 * MAX_INT_BITS
          PROVE  /\ x.n \in Int /\ bit_length(x.n) \in 0..(2 * MAX_INT_BITS)
                 /\ x \in [kind : {"int", "float"}, n : Int] /\ (x.kind = "float" => x.n = 0)
        <3>1. x.n = n /\ x.kind = "int" /\ x \in [kind : {"int", "float"}, n : Int]
            BY <2>2 DEF Exact
        <3>2. bit_length(n) \in Nat
            BY BitsOf
        <3> QED
            BY <1>0, <2>2, <3>1, <3>2
    <2> QED
        BY <2>1, <2>2
<1> DEFINE b == bit_length(x.n)
           top == IF IsInt(x) /\ b > acc.peak THEN b ELSE acc.peak
           built == [acc EXCEPT !.peak = top]
<1>2. top \in 0..(2 * MAX_INT_BITS)
    <2>1. acc.peak \in 0..(2 * MAX_INT_BITS) /\ b \in 0..(2 * MAX_INT_BITS)
        BY <1>1 DEF Evaluated
    <2> QED
        BY <2>1
<1>3. built \in Evaluated
    BY <1>2 DEF Evaluated
<1>4. Number(acc, rest, x) = IF IsInt(x) /\ b > MAX_INT_BITS THEN Failed(built)
                             ELSE [built EXCEPT !.stack = Append(rest, x)]
    BY DEF Number
<1>5. Failed(built) \in Evaluated
    <2> HIDE DEF built
    <2> QED
        BY <1>3 DEF Evaluated, Failed
<1>6. ASSUME ~(IsInt(x) /\ b > MAX_INT_BITS)
      PROVE  [built EXCEPT !.stack = Append(rest, x)] \in Evaluated
    <2>1. bit_length(x.n) <= MAX_INT_BITS
        <3>1. CASE IsInt(x)
            BY <1>0, <1>1, <1>6, <3>1
        <3>2. CASE ~IsInt(x)
            <4>1. x.n = 0
                BY <1>1, <3>2 DEF IsInt
            <4>2. 0 \in Nat /\ 0 \in Int
                OBVIOUS
            <4>3. bit_length(0) \in Nat /\ (bit_length(0) <= 0 <=> Abs(0) < Power(2, 0))
                BY <4>2, BitsOf
            <4>4. Abs(0) = 0 /\ Power(2, 0) = 1
                BY AbsOf, PowerStep
            <4> QED
                BY <1>0, <4>1, <4>3, <4>4
        <3> QED
            BY <3>1, <3>2
    <2>2. x \in Kept
        BY <1>1, <2>1 DEF Kept
    <2>3. Append(rest, x) \in Seq(Kept)
        BY <2>2
    <2> HIDE DEF built
    <2> QED
        BY <1>3, <2>3 DEF Evaluated
<1> HIDE DEF built, b
<1> QED
    BY <1>4, <1>5, <1>6

(* An operation takes numbers that fit and keeps one that fits. *)
LEMMA OperationFits ==
    ASSUME NEW acc \in Evaluated, NEW op, NEW arity \in {1, 2},
           op \in BinOps \/ (op \in UnaryOps /\ arity = 1)
    PROVE  Operate(acc, op, arity) \in Evaluated
<1> DEFINE depth == Len(acc.stack)
           x == acc.stack[depth - arity + 1]
           y == IF arity = 2 THEN acc.stack[depth] ELSE Exact(0)
           rest == SubSeq(acc.stack, 1, depth - arity)
<1>0. acc.stack \in Seq(Kept) /\ depth \in Nat /\ MAX_INT_BITS \in Nat
    BY CalculatorBoundsOK DEF Evaluated
<1>1. Failed(acc) \in Evaluated
    BY DEF Evaluated, Failed
<1>2. Operate(acc, op, arity) = IF depth < arity \/ Declined(op, x, y) \/ Undefined(op, x, y) THEN Failed(acc)
                                ELSE Number(acc, rest, Apply(op, x, y))
    BY DEF Operate
<1>3. ASSUME ~(depth < arity), ~Declined(op, x, y), ~Undefined(op, x, y)
      PROVE  Number(acc, rest, Apply(op, x, y)) \in Evaluated
    <2>1. depth - arity \in 0..depth /\ depth - arity + 1 \in 1..depth /\ depth \in 1..depth
        BY <1>0, <1>3
    <2>2. rest \in Seq(Kept)
        BY <1>0, <2>1
    <2>3. x \in Kept
        BY <1>0, <2>1
    <2>4. y \in Kept
        <3>1. CASE arity = 2
            BY <1>0, <2>1, <3>1
        <3>2. CASE arity # 2
            <4>1. 0 \in Nat /\ 0 \in Int
                OBVIOUS
            <4>2. bit_length(0) \in Nat /\ (bit_length(0) <= 0 <=> Abs(0) < Power(2, 0))
                BY <4>1, BitsOf
            <4>3. Abs(0) = 0 /\ Power(2, 0) = 1
                BY AbsOf, PowerStep
            <4>4. bit_length(0) <= MAX_INT_BITS
                BY <1>0, <4>2, <4>3
            <4>5. y = Exact(0)
                BY <3>2
            <4> QED
                BY <4>4, <4>5 DEF Kept, Exact
        <3> QED
            BY <3>1, <3>2
    <2> DEFINE z == Apply(op, x, y)
    <2> HIDE DEF x, y, rest, depth
    <2>5. z = Float \/ \E n \in Int : z = Exact(n) /\ bit_length(n) <= 2 * MAX_INT_BITS
        <3>1. CASE ~IsInt(x) \/ ~IsInt(y) \/ op \in {"/", "sqrt"} \/ (op = "**" /\ y.n < 0)
            BY <3>1 DEF Apply
        <3>2. CASE ~(~IsInt(x) \/ ~IsInt(y) \/ op \in {"/", "sqrt"} \/ (op = "**" /\ y.n < 0))
            <4>1. z = Exact(IntResult(op, x.n, y.n))
                BY <3>2 DEF Apply
            <4>2. x = Exact(x.n) /\ y = Exact(y.n) /\ x.n \in Int /\ y.n \in Int
                BY <2>3, <2>4, <3>2 DEF Kept, IsInt, Exact
            <4> DEFINE a == x.n
                       b == y.n
            <4>3. Abs(a) < Power(2, MAX_INT_BITS) /\ Abs(b) < Power(2, MAX_INT_BITS)
                BY <1>0, <2>3, <2>4, <4>2, BitsOf DEF Kept
            <4>4. op \in IntOps
                BY <3>2 DEF BinOps, UnaryOps, IntOps
            <4>5. ~Declined(op, Exact(a), Exact(b)) /\ ~Undefined(op, Exact(a), Exact(b)) /\ ~(op = "**" /\ b < 0)
                BY <1>3, <3>2, <4>2
            <4> HIDE DEF a, b, z
            <4>6. a \in Int /\ b \in Int
                BY <4>2 DEF a, b
            <4> DEFINE c == IntResult(op, a, b)
            <4>7. c \in Int /\ Abs(c) < Power(2, 2 * MAX_INT_BITS)
                BY <4>3, <4>4, <4>5, <4>6, ResultFits
            <4> HIDE DEF c
            <4>8. 2 * MAX_INT_BITS \in Nat
                BY <1>0
            <4>9. bit_length(c) <= 2 * MAX_INT_BITS
                BY <4>7, <4>8, BitsOf
            <4>10. z = Exact(c)
                BY <4>1 DEF c, a, b
            <4> QED
                BY <4>7, <4>9, <4>10
        <3> QED
            BY <3>1, <3>2
    <2> HIDE DEF z
    <2>6. Number(acc, rest, z) \in Evaluated
        BY <2>2, <2>5, NumberFits
    <2> QED
        BY <2>6 DEF z
<1> HIDE DEF depth, x, y, rest
<1> QED
    BY <1>1, <1>2, <1>3

(* One part of an expression, a number or an operation, leaves numbers that *)
(* fit.                                                                     *)
LEMMA PartFits ==
    ASSUME NEW acc \in Evaluated, NEW part, IsPart(part)
    PROVE  Part(acc, part) \in Evaluated
<1>1. acc.error \in BOOLEAN /\ acc.stack \in Seq(Kept)
    BY DEF Evaluated
<1>2. CASE acc.error
    BY <1>1, <1>2 DEF Part
<1>3. CASE ~acc.error /\ part.op = "number"
    <2>1. Part(acc, part) = Number(acc, acc.stack, Exact(part.n))
        BY <1>3 DEF Part, BinOps, UnaryOps
    <2>2. part.n \in Int /\ bit_length(part.n) <= 2 * MAX_INT_BITS
        BY <1>3 DEF IsPart
    <2>3. \E n \in Int : Exact(part.n) = Exact(n) /\ bit_length(n) <= 2 * MAX_INT_BITS
        BY <2>2
    <2>4. Number(acc, acc.stack, Exact(part.n)) \in Evaluated
        BY <1>1, <2>3, NumberFits
    <2> QED
        BY <2>1, <2>4
<1>4. CASE ~acc.error /\ part.op \in BinOps
    <2>1. Part(acc, part) = Operate(acc, part.op, 2)
        BY <1>4 DEF Part, BinOps, UnaryOps
    <2>2. Operate(acc, part.op, 2) \in Evaluated
        BY <1>4, OperationFits
    <2> QED
        BY <2>1, <2>2
<1>5. CASE ~acc.error /\ part.op \in UnaryOps
    <2>1. Part(acc, part) = Operate(acc, part.op, 1)
        BY <1>5 DEF Part, BinOps, UnaryOps
    <2>2. Operate(acc, part.op, 1) \in Evaluated
        BY <1>5, OperationFits
    <2> QED
        BY <2>1, <2>2
<1>6. CASE ~acc.error /\ part.op # "number" /\ part.op \notin BinOps /\ part.op \notin UnaryOps
    <2>1. Part(acc, part) = Failed(acc)
        BY <1>6 DEF Part
    <2> QED
        BY <2>1 DEF Failed, Evaluated
<1> QED
    BY <1>1, <1>2, <1>3, <1>4, <1>5, <1>6

(* An expression is evaluated one part at a time, and stays within its bounds. *)
LEMMA EvaluationFits ==
    ASSUME NEW X, NEW expression \in Seq(X), \A part \in X : IsPart(part), NEW start \in Evaluated
    PROVE  FoldLeft(Part, start, expression) \in Evaluated
<1> DEFINE n == Len(expression)
           D == 1..n
           step == [p \in D \X Evaluated |-> Part(p[2], expression[p[1]])]
           Body(iter) == [s \in SUBSET DOMAIN expression |->
                             IF s = {} THEN start ELSE Part(iter[s \ {Max(s)}], expression[Max(s)])]
           it == CHOOSE iter : iter = Body(iter)
<1>1. n \in Nat /\ DOMAIN expression = 1..n
    OBVIOUS
<1>2. step \in [(1..n) \X Evaluated -> Evaluated]
    <2>1. ASSUME NEW p \in (1..n) \X Evaluated PROVE Part(p[2], expression[p[1]]) \in Evaluated
        <3>1. p[2] \in Evaluated /\ IsPart(expression[p[1]])
            OBVIOUS
        <3> QED
            BY <3>1, PartFits
    <2> QED
        BY <2>1
<1>3. PICK iter : IsLeftFold(iter, n, Evaluated, start, step)
    <2> HIDE DEF step, n
    <2> QED
        BY <1>1, <1>2, LeftFoldExists
<1>4. iter = Body(iter)
    <2>1. \A s \in SUBSET (1..n) : s # {} => Max(s) \in 1..n
        BY <1>1, MaxOf
    <2>2. ASSUME NEW s \in SUBSET (1..n), s # {}
          PROVE  iter[s] = Part(iter[s \ {Max(s)}], expression[Max(s)])
        <3> DEFINE m == Max(s)
        <3>1. m \in 1..n /\ iter[s \ {m}] \in Evaluated
            BY <2>1, <2>2, <1>3 DEF IsLeftFold
        <3>2. iter[s] = step[<<m, iter[s \ {m}]>>]
            BY <1>3, <2>2 DEF IsLeftFold
        <3> HIDE DEF m
        <3>3. step[<<m, iter[s \ {m}]>>] = Part(iter[s \ {m}], expression[m])
            BY <3>1
        <3> QED
            BY <3>2, <3>3 DEF m
    <2>3. iter[{}] = start
        BY <1>3 DEF IsLeftFold
    <2> QED
        BY <1>1, <1>3, <2>2, <2>3 DEF IsLeftFold
<1>5. it = Body(it)
    BY <1>4
<1>6. FoldLeft(Part, start, expression) = it[DOMAIN expression]
    BY DEF FoldLeft, MapThenFoldSet
<1> HIDE DEF it
<1>7. it[{}] = start
    BY <1>5
<1>8. ASSUME NEW s \in SUBSET (1..n), s # {}, it[s \ {Max(s)}] \in Evaluated
      PROVE  it[s] = step[<<Max(s), it[s \ {Max(s)}]>>]
    <2> DEFINE m == Max(s)
    <2>1. m \in 1..n
        BY <1>1, <1>8, MaxOf
    <2>2. it[s] = Part(it[s \ {m}], expression[m])
        BY <1>1, <1>5, <1>8
    <2> HIDE DEF m
    <2>3. step[<<m, it[s \ {m}]>>] = Part(it[s \ {m}], expression[m])
        BY <1>8, <2>1 DEF m
    <2> QED
        BY <2>2, <2>3 DEF m
<1> HIDE DEF step, Body
<1>9. Steps(it, n, Evaluated, step)
    BY <1>8 DEF Steps
<1> HIDE DEF n
<1>10. PICK F : IsRun(F, n, Evaluated, start, step, it)
    BY <1>1, <1>2, <1>7, <1>9, LeftFoldRuns
<1>11. it[1..n] \in Evaluated
    <2>1. n \in 0..n
        BY <1>1
    <2> QED
        BY <1>10, <2>1 DEF IsRun
<1> QED
    BY <1>1, <1>6, <1>11

(* Whatever the model asks the calculator to compute, however it nests the   *)
(* operations: no integer of more than twice MAX_INT_BITS is ever built, and *)
(* none of more than MAX_INT_BITS is kept (_number, _pow and _factorial of   *)
(* math/tool.py).                                                           *)
THEOREM CalculationsAreBounded ==
    ASSUME NEW X, NEW expression \in Seq(X), \A part \in X : IsPart(part)
    PROVE  CalculatorIsBounded(expression)
<1> DEFINE start == [stack |-> <<>>, error |-> ~_check_shape(expression), peak |-> 0]
           done == FoldLeft(Part, start, expression)
           end == [done EXCEPT !.error = @ \/ Len(done.stack) # 1]
<1>1. start \in Evaluated
    <2>1. 0 \in 0..(2 * MAX_INT_BITS)
        BY CalculatorBoundsOK
    <2>2. (~_check_shape(expression)) \in BOOLEAN
        <3>1. Len(expression) \in Nat /\ MAX_NODES \in Nat
            BY CalculatorBoundsOK
        <3> HIDE DEF start, done, end
        <3>2. (~(Len(expression) <= MAX_NODES)) \in BOOLEAN
            BY <3>1
        <3> QED
            BY <3>2 DEF _check_shape
    <2>3. <<>> \in Seq(Kept)
        OBVIOUS
    <2> QED
        BY <2>1, <2>2, <2>3 DEF Evaluated
<1> HIDE DEF start
<1>2. done \in Evaluated
    BY <1>1, EvaluationFits
<1> HIDE DEF done
<1>3. end.peak = done.peak /\ end.stack = done.stack
    BY <1>2 DEF Evaluated
<1>4. done.peak <= 2 * MAX_INT_BITS /\ \A k \in DOMAIN done.stack : bit_length(done.stack[k].n) <= MAX_INT_BITS
    BY <1>2, CalculatorBoundsOK DEF Evaluated, Kept
<1>5. evaluate(expression) = end
    BY DEF evaluate, end, done, start
<1> HIDE DEF end
<1> QED
    BY <1>3, <1>4, <1>5 DEF CalculatorIsBounded

-----------------------------------------------------------------------------
Keys(events) == {Key(events[i]) : i \in Nat}
Outs(events) == {TooShort, Infra, Flying, Took, Nothing} \cup {_vs_query(events[i], events[j]) : i \in Nat, j \in Nat}
Workers(events) ==
    [client : BOOLEAN, _QCACHE : SUBSET [key : Keys(events), out : Outs(events)], shown : Seq(Outs(events))]
Idle == [client |-> FALSE, _QCACHE |-> {}, shown |-> <<>>]

IsSequence(s) == s \in Seq(Range(s))
IsEvents(events) == IsSequence(events) /\ \A i \in DOMAIN events : IsEvent(events[i])

(* What an index answers is passages or none, unless it is down.            *)
LEMMA PassagesAre ==
    ASSUME NEW rows
    PROVE  Passages(rows).rows = rows /\ Passages(rows) \notin {TooShort, Infra, Flying, Took, Nothing}
<1>1. CASE rows = <<>>
    BY <1>1 DEF Passages, None, Infra, TooShort, Flying, Took, Nothing
<1>2. CASE rows # <<>>
    BY <1>2 DEF Passages, None, Infra, TooShort, Flying, Took, Nothing
<1> QED
    BY <1>1, <1>2

LEMMA AnswersAre ==
    ASSUME NEW call, NEW event
    PROVE  /\ _vs_query(call, event) \notin {TooShort, Flying, Took, Nothing}
           /\ _vs_query(call, event) = Infra <=> event.answer = Down
           /\ event.answer # Down /\ call.tool # "read" => _vs_query(call, event).rows = _rows(event.answer)
<1>1. CASE event.answer = Down
    BY <1>1 DEF _vs_query, Infra, TooShort, Flying, Took, Nothing
<1>2. CASE event.answer # Down
    <2>1. PICK rows : _vs_query(call, event) = Passages(rows) /\ (call.tool # "read" => rows = _rows(event.answer))
        BY <1>2 DEF _vs_query
    <2> QED
        BY <1>2, <2>1, PassagesAre
<1> QED
    BY <1>1, <1>2

(* An article's passages are those of the answer with its title.            *)
LEMMA OwnPassages ==
    ASSUME NEW call, NEW event, event.answer # Down, call.tool = "read",
           event.answer.rows \in Seq(Range(event.answer.rows))
    PROVE  Range(_vs_query(call, event).rows) = {row \in Range(_rows(event.answer)) : row.title = call.text}
<1> DEFINE rows == _rows(event.answer)
           S == {row \in Range(rows) : row.title = call.text}
<1>1. rows \in Seq(Range(rows))
    <2>1. <<>> \in Seq(Range(<<>>))
        OBVIOUS
    <2> QED
        BY <2>1 DEF _rows
<1>2. _vs_query(call, event) = Passages(InOrder(rows, S))
    BY DEF _vs_query
<1> HIDE DEF rows
<1>3. Range(InOrder(rows, S)) = {row \in Range(rows) : row \in S}
    BY <1>1, InOrderRange
<1>4. Passages(InOrder(rows, S)).rows = InOrder(rows, S)
    BY PassagesAre
<1> QED
    BY <1>2, <1>3, <1>4 DEF rows

-----------------------------------------------------------------------------
(* An event keeps a worker's type.                                          *)
LEMMA EventSteps ==
    ASSUME NEW events, IsEvents(events), NEW i \in DOMAIN events, NEW state \in Workers(events)
    PROVE  Happens(events, state, events[i]) \in Workers(events)
<1> DEFINE event == events[i]
           O == Outs(events)
           K == Keys(events)
           E == [key : K, out : O]
           kept == {entry \in state._QCACHE : event.tool # "read" /\ entry.key = Key(event)}
           client == state.client \/ event.client
           call == events[event.call]
           out == _vs_query(call, event)
           others == {entry \in state._QCACHE : entry.key # Key(call)}
           q == IF call.tool = "read" \/ event.answer = Down THEN state._QCACHE
                ELSE others \cup {[key |-> Key(call), out |-> out]}
<1>0. DOMAIN events \in SUBSET Nat
    BY DEF IsEvents, IsSequence
<1>1. {TooShort, Infra, Flying, Took, Nothing} \in SUBSET O
    BY DEF Outs
<1>2. state.client \in BOOLEAN /\ state._QCACHE \in SUBSET E /\ state.shown \in Seq(O)
    BY DEF Workers
<1>a. state = [client |-> state.client, _QCACHE |-> state._QCACHE, shown |-> state.shown]
    BY DEF Workers
<1>3. event.at = "asked" \/ (event.at = "answered" /\ event.call \in Nat)
    <2>1. IsEvent(event)
        BY DEF IsEvents
    <2> HIDE DEF event
    <2> QED
        BY <2>1 DEF IsEvent
<1>4. ASSUME NEW o \in O PROVE [state EXCEPT !.shown = Append(@, o)] \in Workers(events)
    <2>1. Append(state.shown, o) \in Seq(O)
        BY <1>2
    <2> HIDE DEF O
    <2> QED
        BY <2>1 DEF Workers, O
<1>b. ASSUME NEW o \in O PROVE [state EXCEPT !.client = client, !.shown = Append(@, o)] \in Workers(events)
    <2>1. Append(state.shown, o) \in Seq(O)
        BY <1>2
    <2>2. client \in BOOLEAN
        OBVIOUS
    <2> HIDE DEF O, client
    <2> QED
        BY <2>1, <2>2 DEF Workers, O
<1>5. CASE event.at = "asked"
    <2>2. Happens(events, state, event) =
              IF event.text = Short THEN [state EXCEPT !.shown = Append(@, TooShort)]
              ELSE IF kept # {} THEN [state EXCEPT !.shown = Append(@, (CHOOSE entry \in kept : TRUE).out)]
              ELSE [state EXCEPT !.client = client, !.shown = Append(@, IF client THEN Flying ELSE Infra)]
        BY <1>5 DEF Happens, _search
    <2>3. ASSUME kept # {} PROVE (CHOOSE entry \in kept : TRUE).out \in O
        <3>1. (CHOOSE entry \in kept : TRUE) \in kept
            BY <2>3
        <3>2. (CHOOSE entry \in kept : TRUE) \in E
            BY <1>2, <3>1
        <3> QED
            BY <3>2
    <2>4. (IF client THEN Flying ELSE Infra) \in O
        BY <1>1
    <2> HIDE DEF kept, client, event
    <2> QED
        BY <1>1, <1>4, <1>b, <2>2, <2>3, <2>4 DEF event
<1>6. CASE event.at = "answered" /\ event.call \in DOMAIN state.shown /\ state.shown[event.call] = Flying
    <2>1. event.call \in Nat /\ i \in Nat
        BY <1>0, <1>3, <1>6
    <2>2. out \in O /\ Key(call) \in K
        BY <2>1 DEF Outs, Keys
    <2>3. q \in SUBSET E
        <3>1. others \in SUBSET E /\ [key |-> Key(call), out |-> out] \in E
            BY <1>2, <2>2
        <3> HIDE DEF others, E, out, call
        <3> QED
            BY <1>2, <3>1
    <2>4. Happens(events, state, event) =
              [client |-> state.client, _QCACHE |-> q, shown |-> Append([state.shown EXCEPT ![event.call] = out], Took)]
        <3>1. Happens(events, state, event) = _stores(state, call, event)
            BY <1>6 DEF Happens
        <3>2. _stores(state, call, event) =
                  [state EXCEPT !.shown = Append([@ EXCEPT ![event.call] = out], Took), !._QCACHE = q]
            BY DEF _stores
        <3> HIDE DEF out, q, call, event
        <3> QED
            BY <1>a, <3>1, <3>2
    <2>5. Append([state.shown EXCEPT ![event.call] = out], Took) \in Seq(O)
        <3>1. [state.shown EXCEPT ![event.call] = out] \in Seq(O)
            <4> HIDE DEF O, out
            <4> QED
                BY <1>2, <1>6, <2>2
        <3> QED
            BY <1>1, <3>1
    <2> DEFINE shown == Append([state.shown EXCEPT ![event.call] = out], Took)
    <2>6. shown \in Seq(O)
        BY <2>5
    <2> HIDE DEF q, shown, O, K
    <2>7. [client |-> state.client, _QCACHE |-> q, shown |-> shown] \in Workers(events)
        BY <1>2, <2>3, <2>6 DEF Workers, O, K
    <2> QED
        BY <2>4, <2>7 DEF shown
<1>7. CASE event.at = "answered" /\ ~(event.call \in DOMAIN state.shown /\ state.shown[event.call] = Flying)
    <2>1. Happens(events, state, event) = [state EXCEPT !.shown = Append(@, Nothing)]
        BY <1>7 DEF Happens
    <2>2. Nothing \in O
        BY <1>1
    <2> HIDE DEF event
    <2> QED
        BY <1>4, <2>1, <2>2 DEF event
<1> QED
    BY <1>3, <1>5, <1>6, <1>7

(* What happens to a worker, one event at a time. *)
IsWorking(W, events) ==
    /\ W \in [0..Len(events) -> Workers(events)]
    /\ W[0] = Idle /\ Worker(events) = W[Len(events)]
    /\ \A k \in 1..Len(events) : W[k] = Happens(events, W[k - 1], events[k])

(* A worker's life is a run over its events.                                *)
LEMMA WorkerRuns ==
    ASSUME NEW events, IsEvents(events)
    PROVE  \E W : IsWorking(W, events)
<1> DEFINE n == Len(events)
           D == 1..n
           A == Workers(events)
           step == [p \in D \X A |-> Happens(events, p[2], events[p[1]])]
           Body(iter) == [s \in SUBSET DOMAIN events |->
                             IF s = {} THEN Idle ELSE Happens(events, iter[s \ {Max(s)}], events[Max(s)])]
           it == CHOOSE iter : iter = Body(iter)
<1>1. n \in Nat /\ DOMAIN events = 1..n
    BY DEF IsEvents, IsSequence
<1>2. step \in [(1..n) \X A -> A] /\ Idle \in A
    <2>1. ASSUME NEW p \in (1..n) \X A PROVE Happens(events, p[2], events[p[1]]) \in A
        <3>1. p[2] \in A /\ p[1] \in DOMAIN events
            BY <1>1
        <3> HIDE DEF A
        <3> QED
            BY <3>1, EventSteps DEF A
    <2>2. <<>> \in Seq(Outs(events)) /\ {} \in SUBSET [key : Keys(events), out : Outs(events)]
        OBVIOUS
    <2>3. Idle \in A
        BY <2>2 DEF Idle, Workers
    <2> HIDE DEF A
    <2> QED
        BY <2>1, <2>3
<1> HIDE DEF A
<1>3. PICK iter : IsLeftFold(iter, n, A, Idle, step)
    <2> HIDE DEF step, n
    <2> QED
        BY <1>1, <1>2, LeftFoldExists
<1>4. iter = Body(iter)
    <2>1. \A s \in SUBSET (1..n) : s # {} => Max(s) \in 1..n
        BY <1>1, MaxOf
    <2>2. ASSUME NEW s \in SUBSET (1..n), s # {}
          PROVE  iter[s] = Happens(events, iter[s \ {Max(s)}], events[Max(s)])
        <3> DEFINE m == Max(s)
        <3>1. m \in 1..n /\ iter[s \ {m}] \in A
            BY <2>1, <2>2, <1>3 DEF IsLeftFold
        <3>2. iter[s] = step[<<m, iter[s \ {m}]>>]
            BY <1>3, <2>2 DEF IsLeftFold
        <3> HIDE DEF m
        <3>3. step[<<m, iter[s \ {m}]>>] = Happens(events, iter[s \ {m}], events[m])
            BY <3>1
        <3> QED
            BY <3>2, <3>3 DEF m
    <2>3. iter[{}] = Idle
        BY <1>3 DEF IsLeftFold
    <2> QED
        BY <1>1, <1>3, <2>2, <2>3 DEF IsLeftFold
<1>5. it = Body(it)
    BY <1>4
<1>6. Worker(events) = it[DOMAIN events]
    BY DEF Worker, FoldLeft, MapThenFoldSet, Idle
<1> HIDE DEF it
<1>7. it[{}] = Idle
    BY <1>5
<1>8. ASSUME NEW s \in SUBSET (1..n), s # {}, it[s \ {Max(s)}] \in A
      PROVE  it[s] = step[<<Max(s), it[s \ {Max(s)}]>>]
    <2> DEFINE m == Max(s)
    <2>1. m \in 1..n
        BY <1>1, <1>8, MaxOf
    <2>2. it[s] = Happens(events, it[s \ {m}], events[m])
        BY <1>1, <1>5, <1>8
    <2> HIDE DEF m
    <2>3. step[<<m, it[s \ {m}]>>] = Happens(events, it[s \ {m}], events[m])
        BY <1>8, <2>1 DEF m
    <2> QED
        BY <2>2, <2>3 DEF m
<1> HIDE DEF step, Body
<1>9. Steps(it, n, A, step)
    BY <1>8 DEF Steps
<1> HIDE DEF n
<1>10. PICK W : IsRun(W, n, A, Idle, step, it)
    BY <1>1, <1>2, <1>7, <1>9, LeftFoldRuns
<1>11. \A k \in 1..n : step[<<k, W[k - 1]>>] = Happens(events, W[k - 1], events[k])
    <2> TAKE k \in 1..n
    <2>1. k - 1 \in 0..n
        BY <1>1
    <2>2. W[k - 1] \in A
        BY <1>10, <2>1 DEF IsRun
    <2> QED
        BY <2>2 DEF step
<1>12. Worker(events) = W[n]
    BY <1>1, <1>6, <1>10 DEF IsRun
<1>13. /\ W \in [0..n -> A] /\ W[0] = Idle
       /\ \A k \in 1..n : W[k] = Happens(events, W[k - 1], events[k])
    BY <1>10, <1>11 DEF IsRun
<1> QED
    BY <1>12, <1>13 DEF n, A, IsWorking

-----------------------------------------------------------------------------
(* What the calls of a worker were shown after its first events. *)
Asked(events, i) == events[i].at = "asked" /\ events[i].text # Short
Received(events, shown, j) == events[j].at = "answered" /\ shown[j] = Took
Call(events, j) == events[events[j].call]
Out(events, j) == _vs_query(Call(events, j), events[j])
(* The answer to j was kept, and serves a question like that of i.          *)
Stored(events, shown, j) ==
    Received(events, shown, j) /\ events[j].answer # Down /\ Call(events, j).tool # "read"
Serves(events, shown, j, i) ==
    Stored(events, shown, j) /\ events[i].tool # "read" /\ Key(Call(events, j)) = Key(events[i])
NoClient(events, i) == \A j \in 1..i : Asked(events, j) => events[j].client # TRUE
Answered(events, shown, k, i) == \E j \in 1..k : Received(events, shown, j) /\ events[j].call = i
Fate(events, shown, k, i) ==
    IF \E j \in 1..(i - 1) : Serves(events, shown, j, i)
    THEN \E j \in 1..(i - 1) : Serves(events, shown, j, i) /\ shown[i] = Out(events, j)
    ELSE \/ shown[i] = Flying
         \/ shown[i] = Infra /\ NoClient(events, i)
         \/ Answered(events, shown, k, i)

Shown(events, k, shown) ==
    /\ Len(shown) = k
    /\ \A j \in 1..k : Received(events, shown, j) =>
           events[j].call \in 1..(j - 1) /\ Asked(events, events[j].call) /\ shown[events[j].call] = Out(events, j)
    /\ \A i \in 1..k : Asked(events, i) => Fate(events, shown, k, i)
    /\ \A i \in 1..k : shown[i] = Flying => Asked(events, i)

Cached(events, k, shown, cache) ==
    /\ \A entry \in cache : \E j \in 1..k :
           Stored(events, shown, j) /\ entry.key = Key(Call(events, j)) /\ entry.out = Out(events, j)
    /\ \A j \in 1..k : Stored(events, shown, j) => \E entry \in cache : entry.key = Key(Call(events, j))

(* A POST is only ever made by a client, and a client once built stays.     *)
HasClient(events, k, shown, cache, client) ==
    /\ \A i \in 1..k : Asked(events, i) /\ events[i].client = TRUE => client = TRUE
    /\ \A i \in 1..k : shown[i] = Flying => client = TRUE
    /\ cache # {} => client = TRUE

WorkedSoFar(events, k, state) ==
    /\ Shown(events, k, state.shown)
    /\ Cached(events, k, state.shown, state._QCACHE)
    /\ HasClient(events, k, state.shown, state._QCACHE, state.client)

(* An event that gives its own call something to show, or nothing.          *)
LEMMA OneMore ==
    ASSUME NEW events, NEW k \in Nat, NEW X, NEW shown \in Seq(X), NEW x, NEW cache, NEW client, NEW built,
           Shown(events, k, shown), Cached(events, k, shown, cache), HasClient(events, k, shown, cache, client),
           x # Took, client = TRUE => built = TRUE,
           x = Flying => Asked(events, k + 1) /\ built = TRUE,
           Asked(events, k + 1) /\ events[k + 1].client = TRUE => built = TRUE,
           Asked(events, k + 1) =>
               IF \E j \in 1..k : Serves(events, shown, j, k + 1)
               THEN \E j \in 1..k : Serves(events, shown, j, k + 1) /\ x = Out(events, j)
               ELSE x = Flying \/ (x = Infra /\ NoClient(events, k + 1))
    PROVE  /\ Shown(events, k + 1, Append(shown, x))
           /\ Cached(events, k + 1, Append(shown, x), cache)
           /\ HasClient(events, k + 1, Append(shown, x), cache, built)
<1> DEFINE next == Append(shown, x)
<1>1. /\ Len(shown) = k /\ Len(next) = k + 1 /\ next[k + 1] = x
      /\ \A j \in 1..k : next[j] = shown[j]
    BY DEF Shown
<1>2. 1..(k + 1) = 1..k \cup {k + 1} /\ (k + 1) - 1 = k /\ k + 1 \notin 1..k
    OBVIOUS
<1> HIDE DEF next
<1>3. \A j \in 1..k : Received(events, next, j) <=> Received(events, shown, j)
    BY <1>1 DEF Received
<1>4. ~Received(events, next, k + 1)
    BY <1>1 DEF Received
<1>5. ~Stored(events, next, k + 1)
    BY <1>4 DEF Stored
<1>6. \A j \in 1..k : Stored(events, next, j) <=> Stored(events, shown, j)
    BY <1>3 DEF Stored
<1>7. ASSUME NEW j \in 1..k, NEW i \in 1..(k + 1)
      PROVE  Serves(events, next, j, i) <=> Serves(events, shown, j, i)
    BY <1>6 DEF Serves
<1>8. ASSUME NEW i \in 1..(k + 1), Asked(events, i) PROVE Fate(events, next, k + 1, i)
    <2>1. \A j \in 1..(i - 1) : j \in 1..k
        OBVIOUS
    <2>2. \A j \in 1..(i - 1) : Serves(events, next, j, i) <=> Serves(events, shown, j, i)
        BY <1>7, <2>1
    <2>3. CASE i = k + 1
        <3>1. i - 1 = k
            BY <2>3
        <3> QED
            BY <1>1, <1>8, <2>2, <2>3, <3>1 DEF Fate
    <2>4. CASE i \in 1..k
        <3>1. next[i] = shown[i] /\ Fate(events, shown, k, i)
            BY <1>1, <1>8, <2>4 DEF Shown
        <3>2. Answered(events, shown, k, i) => Answered(events, next, k + 1, i)
            BY <1>2, <1>3 DEF Answered
        <3> QED
            BY <2>2, <3>1, <3>2 DEF Fate
    <2> QED
        BY <1>2, <2>3, <2>4
<1>9. Shown(events, k + 1, next)
    <2>1. ASSUME NEW j \in 1..(k + 1), Received(events, next, j)
          PROVE  events[j].call \in 1..(j - 1) /\ Asked(events, events[j].call) /\ next[events[j].call] = Out(events, j)
        <3>1. j \in 1..k /\ Received(events, shown, j)
            BY <1>2, <1>3, <1>4, <2>1
        <3>2. events[j].call \in 1..(j - 1) /\ Asked(events, events[j].call) /\ shown[events[j].call] = Out(events, j)
            BY <3>1 DEF Shown
        <3>3. events[j].call \in 1..k
            BY <3>1, <3>2
        <3> QED
            BY <1>1, <3>2, <3>3
    <2>2. \A i \in 1..(k + 1) : next[i] = Flying => Asked(events, i)
        BY <1>1, <1>2 DEF Shown
    <2> QED
        BY <1>1, <1>8, <2>1, <2>2 DEF Shown
<1>10. Cached(events, k + 1, next, cache)
    BY <1>2, <1>5, <1>6 DEF Cached
<1>11. HasClient(events, k + 1, next, cache, built)
    BY <1>1, <1>2 DEF HasClient
<1> QED
    BY <1>9, <1>10, <1>11 DEF next

(* An answer to a POST under way: its call shows it, and others are kept    *)
(* but for those it replaces.                                               *)
LEMMA OneAnswer ==
    ASSUME NEW events, NEW k \in Nat, NEW X, NEW shown \in Seq(X), NEW cache, NEW kept, NEW client,
           Shown(events, k, shown), Cached(events, k, shown, cache), HasClient(events, k, shown, cache, client),
           events[k + 1].at = "answered", events[k + 1].call \in 1..k, shown[events[k + 1].call] = Flying,
           kept = IF Call(events, k + 1).tool = "read" \/ events[k + 1].answer = Down THEN cache
                  ELSE {entry \in cache : entry.key # Key(Call(events, k + 1))}
                       \cup {[key |-> Key(Call(events, k + 1)), out |-> Out(events, k + 1)]}
    PROVE  LET next == Append([shown EXCEPT ![events[k + 1].call] = Out(events, k + 1)], Took)
           IN /\ Shown(events, k + 1, next)
              /\ Cached(events, k + 1, next, kept)
              /\ HasClient(events, k + 1, next, kept, client)
<1> DEFINE p == events[k + 1].call
           out == Out(events, k + 1)
           next == Append([shown EXCEPT ![p] = out], Took)
           key == Key(Call(events, k + 1))
<1>0. out \notin {Flying, Took} /\ Flying # Took
    BY AnswersAre DEF Out, Flying, Took
<1>1. Len(shown) = k
    BY DEF Shown
<1>2. 1..(k + 1) = 1..k \cup {k + 1} /\ (k + 1) - 1 = k /\ k + 1 \notin 1..k /\ p \in 1..k
    OBVIOUS
<1>3. /\ Len(next) = k + 1 /\ next[k + 1] = Took /\ next[p] = out
      /\ \A j \in 1..k : j # p => next[j] = shown[j]
    <2> HIDE DEF out, p
    <2> QED
        BY <1>1, <1>2
<1> HIDE DEF next, out, p
<1>4. \A j \in 1..k : Received(events, next, j) <=> Received(events, shown, j)
    <2>1. shown[p] = Flying
        BY DEF p
    <2> QED
        BY <1>0, <1>3, <2>1 DEF Received
<1>5. Received(events, next, k + 1)
    BY <1>3 DEF Received
<1>6. \A j \in 1..k : Stored(events, next, j) <=> Stored(events, shown, j)
    BY <1>4 DEF Stored
<1>7. ASSUME NEW j \in 1..k, NEW i \in 1..(k + 1)
      PROVE  Serves(events, next, j, i) <=> Serves(events, shown, j, i)
    BY <1>6 DEF Serves
<1>8. ASSUME NEW i \in 1..(k + 1), Asked(events, i) PROVE Fate(events, next, k + 1, i)
    <2>1. i \in 1..k
        BY <1>2, <1>8 DEF Asked
    <2>2. \A j \in 1..(i - 1) : Serves(events, next, j, i) <=> Serves(events, shown, j, i)
        <3>1. \A j \in 1..(i - 1) : j \in 1..k
            BY <2>1
        <3> QED
            BY <1>7, <3>1
    <2>3. Fate(events, shown, k, i)
        BY <1>8, <2>1 DEF Shown
    <2>4. CASE i = p
        <3>1. shown[i] = Flying
            BY <2>4 DEF p
        <3>2. Answered(events, next, k + 1, i)
            BY <1>2, <1>5, <2>4 DEF Answered, p
        <3>3. ~\E j \in 1..(i - 1) : Serves(events, shown, j, i)
            <4>1. \A j : Out(events, j) # Flying
                BY AnswersAre DEF Out
            <4> QED
                BY <2>3, <3>1, <4>1 DEF Fate
        <3> QED
            BY <2>2, <3>2, <3>3 DEF Fate
    <2>5. CASE i # p
        <3>1. next[i] = shown[i]
            BY <1>3, <2>1, <2>5
        <3>2. Answered(events, shown, k, i) => Answered(events, next, k + 1, i)
            BY <1>2, <1>4 DEF Answered
        <3> QED
            BY <2>2, <2>3, <3>1, <3>2 DEF Fate
    <2> QED
        BY <2>4, <2>5
<1>9. Shown(events, k + 1, next)
    <2>1. ASSUME NEW j \in 1..(k + 1), Received(events, next, j)
          PROVE  events[j].call \in 1..(j - 1) /\ Asked(events, events[j].call) /\ next[events[j].call] = Out(events, j)
        <3>1. CASE j = k + 1
            <4>1. Asked(events, p)
                BY <1>2 DEF Shown, p
            <4> QED
                BY <1>2, <1>3, <3>1, <4>1 DEF p, out
        <3>2. CASE j \in 1..k
            <4>1. Received(events, shown, j)
                BY <1>4, <2>1, <3>2
            <4>2. events[j].call \in 1..(j - 1) /\ Asked(events, events[j].call) /\ shown[events[j].call] = Out(events, j)
                BY <3>2, <4>1 DEF Shown
            <4>3. events[j].call \in 1..k
                BY <3>2, <4>2
            <4>4. events[j].call # p
                <5>1. Out(events, j) # Flying
                    BY AnswersAre DEF Out
                <5> QED
                    BY <4>2, <5>1 DEF p
            <4> QED
                BY <1>3, <4>2, <4>3, <4>4
        <3> QED
            BY <1>2, <3>1, <3>2
    <2>2. ASSUME NEW i \in 1..(k + 1), next[i] = Flying PROVE Asked(events, i)
        <3>1. i \in 1..k /\ i # p
            BY <1>0, <1>2, <1>3, <2>2
        <3>2. shown[i] = Flying
            BY <1>3, <2>2, <3>1
        <3> QED
            BY <3>1, <3>2 DEF Shown
    <2> QED
        BY <1>3, <1>8, <2>1, <2>2 DEF Shown
<1>10. Cached(events, k + 1, next, kept)
    <2>1. CASE Call(events, k + 1).tool = "read" \/ events[k + 1].answer = Down
        <3>1. kept = cache /\ ~Stored(events, next, k + 1)
            BY <2>1 DEF Stored
        <3> QED
            BY <1>2, <1>6, <3>1 DEF Cached
    <2>2. CASE ~(Call(events, k + 1).tool = "read" \/ events[k + 1].answer = Down)
        <3> DEFINE new == [key |-> key, out |-> out]
        <3>1. kept = {entry \in cache : entry.key # key} \cup {new}
            BY <2>2 DEF out
        <3>2. new.key = key /\ new.out = out
            OBVIOUS
        <3>3. Stored(events, next, k + 1)
            BY <1>5, <2>2 DEF Stored
        <3> HIDE DEF new, key
        <3>4. ASSUME NEW entry \in kept
              PROVE  \E j \in 1..(k + 1) :
                         Stored(events, next, j) /\ entry.key = Key(Call(events, j)) /\ entry.out = Out(events, j)
            <4>1. CASE entry = new
                BY <1>2, <3>2, <3>3, <4>1 DEF out, key
            <4>2. CASE entry \in cache
                BY <1>2, <1>6, <4>2 DEF Cached
            <4> QED
                BY <3>1, <4>1, <4>2
        <3>5. ASSUME NEW j \in 1..(k + 1), Stored(events, next, j)
              PROVE  \E entry \in kept : entry.key = Key(Call(events, j))
            <4>1. CASE Key(Call(events, j)) = key
                BY <3>1, <3>2, <4>1
            <4>2. CASE Key(Call(events, j)) # key
                <5>1. j \in 1..k /\ Stored(events, shown, j)
                    BY <1>2, <1>6, <3>5, <4>2 DEF key
                <5>2. PICK entry \in cache : entry.key = Key(Call(events, j))
                    BY <5>1 DEF Cached
                <5> QED
                    BY <3>1, <4>2, <5>2
            <4> QED
                BY <4>1, <4>2
        <3> QED
            BY <3>4, <3>5 DEF Cached
    <2> QED
        BY <2>1, <2>2
<1>11. HasClient(events, k + 1, next, kept, client)
    <2>1. client = TRUE
        BY <1>2 DEF HasClient
    <2> QED
        BY <2>1 DEF HasClient
<1> QED
    BY <1>9, <1>10, <1>11 DEF next, out, p

(* One event: what holds of a worker after k events holds after k + 1.      *)
LEMMA WorkStep ==
    ASSUME NEW events, IsEvents(events), NEW k \in Nat, k + 1 \in DOMAIN events,
           NEW state \in Workers(events), WorkedSoFar(events, k, state)
    PROVE  WorkedSoFar(events, k + 1, Happens(events, state, events[k + 1]))
<1> DEFINE event == events[k + 1]
           O == Outs(events)
           kept == {entry \in state._QCACHE : event.tool # "read" /\ entry.key = Key(event)}
           client == state.client \/ event.client
           next == Happens(events, state, event)
<1>1. /\ state.client \in BOOLEAN /\ state.shown \in Seq(O)
      /\ Shown(events, k, state.shown) /\ Cached(events, k, state.shown, state._QCACHE)
      /\ HasClient(events, k, state.shown, state._QCACHE, state.client)
    BY DEF Workers, WorkedSoFar
<1>a. state = [client |-> state.client, _QCACHE |-> state._QCACHE, shown |-> state.shown]
    BY DEF Workers
<1>2. IsEvent(event)
    BY DEF IsEvents
<1>3. (event.at = "asked" /\ event.client \in BOOLEAN) \/ (event.at = "answered" /\ event.call \in Nat)
    <2> HIDE DEF event
    <2> QED
        BY <1>2 DEF IsEvent
(* A call that shows x, with a client or without. *)
<1>4. ASSUME NEW x, NEW built, x # Took, state.client = TRUE => built = TRUE,
             x = Flying => Asked(events, k + 1) /\ built = TRUE,
             Asked(events, k + 1) /\ event.client = TRUE => built = TRUE,
             Asked(events, k + 1) =>
                 IF \E j \in 1..k : Serves(events, state.shown, j, k + 1)
                 THEN \E j \in 1..k : Serves(events, state.shown, j, k + 1) /\ x = Out(events, j)
                 ELSE x = Flying \/ (x = Infra /\ NoClient(events, k + 1)),
             NEW t, t = [client |-> built, _QCACHE |-> state._QCACHE, shown |-> Append(state.shown, x)]
      PROVE  WorkedSoFar(events, k + 1, t)
    <2>1. t.client = built /\ t._QCACHE = state._QCACHE /\ t.shown = Append(state.shown, x)
        BY <1>4
    <2>2. /\ Shown(events, k + 1, Append(state.shown, x))
          /\ Cached(events, k + 1, Append(state.shown, x), state._QCACHE)
          /\ HasClient(events, k + 1, Append(state.shown, x), state._QCACHE, built)
        <3> HIDE DEF O
        <3> QED
            BY <1>1, <1>4, OneMore
    <2> QED
        BY <2>1, <2>2 DEF WorkedSoFar
<1>5. CASE event.at = "asked" /\ event.text = Short
    <2>1. next = [state EXCEPT !.shown = Append(@, TooShort)]
        BY <1>5 DEF Happens, _search
    <2>2. next = [client |-> state.client, _QCACHE |-> state._QCACHE, shown |-> Append(state.shown, TooShort)]
        <3> HIDE DEF next
        <3> QED
            BY <1>a, <2>1
    <2>3. ~Asked(events, k + 1) /\ TooShort # Took /\ TooShort # Flying
        BY <1>5 DEF Asked, TooShort, Took, Flying
    <2> HIDE DEF next, event
    <2>4. WorkedSoFar(events, k + 1, next)
        BY <1>4, <2>2, <2>3
    <2> QED
        BY <2>4 DEF next, event
<1>6. (\E j \in 1..k : Serves(events, state.shown, j, k + 1)) <=> kept # {}
    <2>1. ASSUME NEW entry \in kept PROVE \E j \in 1..k : Serves(events, state.shown, j, k + 1)
        BY <1>1 DEF Cached, Serves
    <2>2. ASSUME NEW j \in 1..k, Serves(events, state.shown, j, k + 1) PROVE kept # {}
        <3>1. PICK entry \in state._QCACHE : entry.key = Key(Call(events, j))
            BY <1>1, <2>2 DEF Cached, Serves
        <3>2. entry \in kept
            BY <2>2, <3>1 DEF Serves
        <3> QED
            BY <3>2
    <2> QED
        BY <2>1, <2>2
<1>7. CASE event.at = "asked" /\ event.text # Short /\ kept # {}
    <2> DEFINE entry == CHOOSE entry \in kept : TRUE
    <2>1. entry \in kept
        BY <1>7
    <2>2. next = [state EXCEPT !.shown = Append(@, entry.out)]
        BY <1>7 DEF Happens, _search
    <2>3. entry \in state._QCACHE /\ entry.key = Key(event) /\ event.tool # "read"
        BY <2>1
    <2> HIDE DEF entry, kept
    <2>4. PICK j \in 1..k : /\ Stored(events, state.shown, j)
                            /\ entry.key = Key(Call(events, j)) /\ entry.out = Out(events, j)
        BY <1>1, <2>3 DEF Cached
    <2>5. Serves(events, state.shown, j, k + 1)
        BY <2>3, <2>4 DEF Serves
    <2>6. entry.out # Took /\ entry.out # Flying
        BY <2>4, AnswersAre DEF Out
    <2>7. state.client = TRUE
        BY <1>1, <2>3 DEF HasClient
    <2>8. next = [client |-> state.client, _QCACHE |-> state._QCACHE, shown |-> Append(state.shown, entry.out)]
        <3> HIDE DEF next
        <3> QED
            BY <1>a, <2>2
    <2>9. \E h \in 1..k : Serves(events, state.shown, h, k + 1) /\ entry.out = Out(events, h)
        BY <2>4, <2>5
    <2> HIDE DEF next, event
    <2>10. WorkedSoFar(events, k + 1, next)
        BY <1>4, <2>6, <2>7, <2>8, <2>9
    <2> QED
        BY <2>10 DEF next, event
<1>8. CASE event.at = "asked" /\ event.text # Short /\ kept = {}
    <2> DEFINE x == IF client THEN Flying ELSE Infra
    <2>1. next = [state EXCEPT !.client = client, !.shown = Append(@, x)]
        BY <1>8 DEF Happens, _search
    <2>2. next = [client |-> client, _QCACHE |-> state._QCACHE, shown |-> Append(state.shown, x)]
        <3> HIDE DEF next, client, x
        <3> QED
            BY <1>a, <2>1
    <2>3. Asked(events, k + 1)
        BY <1>8 DEF Asked
    <2>4. Infra # Flying /\ x # Took
        BY DEF Infra, Flying, Took
    <2>5. event.client \in BOOLEAN
        BY <1>3, <1>8
    <2>6. /\ client = TRUE => x = Flying
          /\ client = FALSE => x = Infra
          /\ state.client = TRUE => client = TRUE
          /\ event.client = TRUE => client = TRUE
          /\ client = FALSE => state.client # TRUE /\ event.client # TRUE
          /\ client = TRUE \/ client = FALSE
        BY <1>1, <2>5
    <2>7. client = FALSE => NoClient(events, k + 1)
        <3> SUFFICES ASSUME client = FALSE, NEW j \in 1..(k + 1), Asked(events, j) PROVE events[j].client # TRUE
            BY DEF NoClient
        <3>1. j \in 1..k \/ j = k + 1
            OBVIOUS
        <3> HIDE DEF client
        <3> QED
            BY <1>1, <2>6, <3>1 DEF HasClient
    <2> HIDE DEF next, client, x, event, kept
    <2>8. WorkedSoFar(events, k + 1, next)
        BY <1>4, <1>6, <1>8, <2>2, <2>3, <2>4, <2>6, <2>7
    <2> QED
        BY <2>8 DEF next, event
<1>9. CASE event.at = "answered" /\ ~(event.call \in DOMAIN state.shown /\ state.shown[event.call] = Flying)
    <2>1. next = [state EXCEPT !.shown = Append(@, Nothing)]
        BY <1>9 DEF Happens
    <2>2. next = [client |-> state.client, _QCACHE |-> state._QCACHE, shown |-> Append(state.shown, Nothing)]
        <3> HIDE DEF next
        <3> QED
            BY <1>a, <2>1
    <2>3. ~Asked(events, k + 1) /\ Nothing # Took /\ Nothing # Flying
        BY <1>9 DEF Asked, Nothing, Took, Flying
    <2> HIDE DEF next, event
    <2>4. WorkedSoFar(events, k + 1, next)
        BY <1>4, <2>2, <2>3
    <2> QED
        BY <2>4 DEF next, event
<1>10. CASE event.at = "answered" /\ event.call \in DOMAIN state.shown /\ state.shown[event.call] = Flying
    <2> DEFINE call == events[event.call]
               out == _vs_query(call, event)
               q == IF call.tool = "read" \/ event.answer = Down THEN state._QCACHE
                    ELSE {entry \in state._QCACHE : entry.key # Key(call)} \cup {[key |-> Key(call), out |-> out]}
               shown == Append([state.shown EXCEPT ![event.call] = out], Took)
    <2>1. next = [state EXCEPT !.shown = Append([@ EXCEPT ![event.call] = out], Took), !._QCACHE = q]
        <3>1. next = _stores(state, call, event)
            BY <1>10 DEF Happens
        <3> HIDE DEF next
        <3> QED
            BY <3>1 DEF _stores
    <2>2. next.client = state.client /\ next._QCACHE = q /\ next.shown = shown
        <3> HIDE DEF next, q, out, call, event
        <3> QED
            BY <1>a, <2>1
    <2>3. event.call \in 1..k
        BY <1>1, <1>10 DEF Shown
    <2>4. out = Out(events, k + 1) /\ call = Call(events, k + 1)
        BY DEF Out, Call
    <2>5. q = IF Call(events, k + 1).tool = "read" \/ events[k + 1].answer = Down THEN state._QCACHE
              ELSE {entry \in state._QCACHE : entry.key # Key(Call(events, k + 1))}
                   \cup {[key |-> Key(Call(events, k + 1)), out |-> Out(events, k + 1)]}
        BY DEF Out, Call
    <2>6. LET it == Append([state.shown EXCEPT ![events[k + 1].call] = Out(events, k + 1)], Took)
          IN /\ Shown(events, k + 1, it)
             /\ Cached(events, k + 1, it, q)
             /\ HasClient(events, k + 1, it, q, state.client)
        <3> HIDE DEF q, O
        <3> QED
            BY <1>1, <1>10, <2>3, <2>5, OneAnswer
    <2> HIDE DEF next, q, out
    <2>7. WorkedSoFar(events, k + 1, next)
        BY <2>2, <2>4, <2>6 DEF WorkedSoFar
    <2> QED
        BY <2>7 DEF next
<1> QED
    BY <1>3, <1>5, <1>7, <1>8, <1>9, <1>10

(* After all its events a worker has shown of each call what it should.     *)
LEMMA WorkerShows ==
    ASSUME NEW events, IsEvents(events)
    PROVE  WorkedSoFar(events, Len(events), Worker(events))
<1> DEFINE n == Len(events)
<1>0. PICK W : IsWorking(W, events)
    BY WorkerRuns
<1>1. n \in Nat /\ DOMAIN events = 1..n
    BY DEF IsEvents, IsSequence
<1>2. /\ W \in [0..n -> Workers(events)] /\ W[0] = Idle /\ Worker(events) = W[n]
      /\ \A k \in 1..n : W[k] = Happens(events, W[k - 1], events[k])
    BY <1>0 DEF IsWorking
<1> HIDE DEF n
<1> DEFINE P == {k \in Nat : k <= n => WorkedSoFar(events, k, W[k])}
<1>3. 0 \in P
    <2>1. WorkedSoFar(events, 0, Idle)
        BY DEF WorkedSoFar, Idle, Shown, Cached, HasClient
    <2> QED
        BY <1>2, <2>1
<1>4. ASSUME NEW k \in P PROVE k + 1 \in P
    <2> SUFFICES ASSUME k + 1 <= n PROVE WorkedSoFar(events, k + 1, W[k + 1])
        OBVIOUS
    <2>1. k \in Nat /\ k \in 0..n /\ k + 1 \in 1..n /\ (k + 1) - 1 = k /\ WorkedSoFar(events, k, W[k])
        BY <1>1
    <2>2. W[k] \in Workers(events) /\ W[k + 1] = Happens(events, W[k], events[k + 1])
        BY <1>2, <2>1
    <2>3. k + 1 \in DOMAIN events
        BY <1>1, <2>1
    <2>4. WorkedSoFar(events, k + 1, Happens(events, W[k], events[k + 1]))
        BY <2>1, <2>2, <2>3, WorkStep
    <2> QED
        BY <2>2, <2>4
<1>5. P = Nat
    <2> HIDE DEF P
    <2>1. P \in SUBSET Nat
        BY DEF P
    <2> QED
        BY <1>3, <1>4, <2>1, EveryNumber
<1>6. n \in P
    <2> HIDE DEF P
    <2> QED
        BY <1>1, <1>5
<1>7. WorkedSoFar(events, n, W[n])
    BY <1>1, <1>6
<1> QED
    BY <1>2, <1>7 DEF n

(* What the model is shown as passages is what the index gave, in whatever  *)
(* order the calls of a worker are asked and answered: its own answer, or   *)
(* for a search that made no POST what another call of the same question    *)
(* was answered and kept; and no outage is kept (tool.py).                  *)
THEOREM ToolsShowTheIndex ==
    ASSUME NEW events, IsEvents(events)
    PROVE  ShowsTheIndex(events)
<1> DEFINE shown == Worker(events).shown
           n == Len(events)
           Same(i, p) == /\ events[p].tool = events[i].tool /\ events[p].text = events[i].text
                         /\ Wanted(events[p].top_k) = Wanted(events[i].top_k)
           Reused(j, i) == /\ Received(events, shown, j) /\ events[j].answer # Down /\ events[i].tool # "read"
                         /\ Same(i, events[j].call)
<1>1. DOMAIN events = 1..n /\ n \in Nat
    BY DEF IsEvents, IsSequence
<1>2. Shown(events, n, shown)
    BY WorkerShows DEF WorkedSoFar
<1>3. \A i \in DOMAIN events : IsEvent(events[i])
    BY DEF IsEvents
<1> HIDE DEF shown, n
<1>4. ASSUME NEW j, NEW i PROVE Reused(j, i) <=> Serves(events, shown, j, i)
    BY DEF Serves, Stored, Call, Key
<1> HIDE DEF Reused, Same
<1>5. ASSUME NEW j \in 1..n, Received(events, shown, j)
      PROVE  LET i == events[j].call
             IN /\ i \in 1..(j - 1) /\ Asked(events, i)
                /\ shown[i] = Infra <=> events[j].answer = Down
                /\ events[j].answer # Down /\ events[i].tool = "read" =>
                      Range(shown[i].rows) = {row \in Range(_rows(events[j].answer)) : row.title = events[i].text}
                /\ events[j].answer # Down /\ events[i].tool # "read" => shown[i].rows = _rows(events[j].answer)
    <2> DEFINE i == events[j].call
    <2>1. i \in 1..(j - 1) /\ Asked(events, i) /\ shown[i] = Out(events, j)
        BY <1>2, <1>5 DEF Shown
    <2>2. Out(events, j) = _vs_query(events[i], events[j])
        BY DEF Out, Call
    <2>3. events[j].answer.rows \in Seq(Range(events[j].answer.rows))
        <3>1. events[j].at = "answered" /\ IsEvent(events[j])
            BY <1>1, <1>3, <1>5 DEF Received
        <3> QED
            BY <3>1 DEF IsEvent
    <2>4. events[j].answer # Down /\ events[i].tool = "read" =>
              Range(shown[i].rows) = {row \in Range(_rows(events[j].answer)) : row.title = events[i].text}
        BY <2>1, <2>2, <2>3, OwnPassages
    <2> HIDE DEF i
    <2>5. /\ shown[i] = Infra <=> events[j].answer = Down
          /\ events[j].answer # Down /\ events[i].tool # "read" => shown[i].rows = _rows(events[j].answer)
        BY <2>1, <2>2, AnswersAre
    <2> QED
        BY <2>1, <2>4, <2>5 DEF i
<1>6. ASSUME NEW i \in 1..n, Asked(events, i)
      PROVE  /\ shown[i] \notin {Flying, Infra} /\ (\A j \in 1..n : Received(events, shown, j) => events[j].call # i) =>
                   \E j \in 1..(i - 1) : Reused(j, i) /\ shown[i].rows = _rows(events[j].answer)
             /\ shown[i] = Infra =>
                   \/ \E j \in 1..n : Received(events, shown, j) /\ events[j].call = i
                   \/ \A j \in 1..i : Asked(events, j) => ~events[j].client
             /\ (\E j \in 1..(i - 1) : Reused(j, i)) => shown[i] \notin {Flying, Infra}
    <2>1. Fate(events, shown, n, i)
        BY <1>2, <1>6 DEF Shown
    <2>2. ASSUME NEW j, Serves(events, shown, j, i)
          PROVE  Out(events, j) \notin {Flying, Infra} /\ Out(events, j).rows = _rows(events[j].answer)
        BY <2>2, AnswersAre DEF Serves, Stored, Out
    <2>3. CASE \E j \in 1..(i - 1) : Serves(events, shown, j, i)
        <3>1. PICK j \in 1..(i - 1) : Serves(events, shown, j, i) /\ shown[i] = Out(events, j)
            BY <2>1, <2>3 DEF Fate
        <3>2. shown[i] \notin {Flying, Infra} /\ shown[i].rows = _rows(events[j].answer) /\ Reused(j, i)
            BY <1>4, <2>2, <3>1
        <3> QED
            BY <3>2
    <2>4. CASE ~\E j \in 1..(i - 1) : Serves(events, shown, j, i)
        <3>1. \/ shown[i] = Flying
              \/ shown[i] = Infra /\ NoClient(events, i)
              \/ Answered(events, shown, n, i)
            BY <2>1, <2>4 DEF Fate
        <3>2. Infra # Flying
            BY DEF Infra, Flying
        <3>3. NoClient(events, i) => \A j \in 1..i : Asked(events, j) => ~events[j].client
            <4> SUFFICES ASSUME NoClient(events, i), NEW j \in 1..i, Asked(events, j) PROVE ~events[j].client
                OBVIOUS
            <4>1. j \in DOMAIN events
                BY <1>1
            <4>2. IsEvent(events[j]) /\ events[j].at = "asked" /\ events[j].client # TRUE
                BY <1>3, <4>1 DEF NoClient, Asked
            <4>3. events[j].client \in BOOLEAN
                BY <4>2 DEF IsEvent
            <4> QED
                BY <4>2, <4>3
        <3> QED
            BY <1>4, <2>4, <3>1, <3>2, <3>3 DEF Answered
    <2> QED
        BY <2>3, <2>4
<1>7. \A j \in DOMAIN events : Received(events, shown, j) =>
          LET i == events[j].call
          IN /\ i \in 1..(j - 1) /\ Asked(events, i)
             /\ shown[i] = Infra <=> events[j].answer = Down
             /\ events[j].answer # Down /\ events[i].tool = "read" =>
                   Range(shown[i].rows) = {row \in Range(_rows(events[j].answer)) : row.title = events[i].text}
             /\ events[j].answer # Down /\ events[i].tool # "read" => shown[i].rows = _rows(events[j].answer)
    BY <1>1, <1>5
<1>8. \A i \in DOMAIN events : Asked(events, i) =>
          /\ shown[i] \notin {Flying, Infra} /\ (\A j \in DOMAIN events : Received(events, shown, j) => events[j].call # i) =>
                \E j \in 1..(i - 1) : Reused(j, i) /\ shown[i].rows = _rows(events[j].answer)
          /\ shown[i] = Infra =>
                \/ \E j \in DOMAIN events : Received(events, shown, j) /\ events[j].call = i
                \/ \A j \in 1..i : Asked(events, j) => ~events[j].client
          /\ (\E j \in 1..(i - 1) : Reused(j, i)) => shown[i] \notin {Flying, Infra}
    BY <1>1, <1>6
<1> QED
    BY <1>7, <1>8 DEF ShowsTheIndex, Received, Asked, Reused, Same, shown

(* Decoding: where each symbol of a text comes from. *)
Glyph(text, piece) ==
    CASE piece = Special -> text
      [] piece = Half /\ text # <<>> /\ Last(text) = Half -> Append(Front(text), "character")
      [] OTHER -> Append(text, piece)

Glyphs(P) == P \cup {"character"}

IsDecoding(G, pieces, P) ==
    /\ G \in [0..Len(pieces) -> Seq(Glyphs(P))]
    /\ G[0] = <<>> /\ decode(pieces) = G[Len(pieces)]
    /\ \A k \in 1..Len(pieces) : G[k] = Glyph(G[k - 1], pieces[k])

(* A piece adds nothing, completes a character or adds a symbol.            *)
LEMMA GlyphShape ==
    ASSUME NEW S, NEW text \in Seq(S), NEW piece
    PROVE  \/ piece = Special /\ Glyph(text, piece) = text
           \/ /\ piece = Half /\ text # <<>> /\ text[Len(text)] = Half
              /\ Glyph(text, piece) = [t \in 1..Len(text) |-> IF t = Len(text) THEN "character" ELSE text[t]]
           \/ piece # Special /\ Glyph(text, piece) = Append(text, piece)
<1> DEFINE L == Len(text)
           short == Front(text)
           joined == Append(short, "character")
<1>1. CASE piece = Special
    BY <1>1 DEF Glyph, Special, Half
<1>2. CASE piece = Half /\ text # <<>> /\ text[L] = Half
    <2>1. Glyph(text, piece) = joined
        BY <1>2 DEF Glyph, Last, Special, Half
    <2>2. L \in Nat /\ L # 0 /\ L - 1 \in Nat
        BY <1>2
    <2>3. short \in Seq(S) /\ Len(short) = L - 1 /\ \A t \in 1..(L - 1) : short[t] = text[t]
        <3>1. 1 \in 1..(L + 1) /\ L - 1 \in 0..L /\ (L - 1) - 1 + 1 = L - 1
            BY <2>2
        <3>2. /\ SubSeq(text, 1, L - 1) \in Seq(S) /\ Len(SubSeq(text, 1, L - 1)) = L - 1
              /\ \A t \in 1..(L - 1) : SubSeq(text, 1, L - 1)[t] = text[t]
            BY <2>2, <3>1
        <3> QED
            BY <3>2 DEF Front
    <2> HIDE DEF short
    <2>4. /\ DOMAIN joined = 1..((L - 1) + 1) /\ joined[(L - 1) + 1] = "character"
          /\ \A t \in 1..(L - 1) : joined[t] = short[t]
        <3>1. /\ joined \in Seq(S \cup {"character"}) /\ Len(joined) = (L - 1) + 1
              /\ joined[(L - 1) + 1] = "character" /\ \A t \in 1..(L - 1) : joined[t] = short[t]
            <4>1. short \in Seq(S \cup {"character"})
                BY <2>3
            <4> QED
                BY <2>2, <2>3, <4>1, AppendProperties
        <3> QED
            BY <3>1
    <2>5. joined = [t \in 1..L |-> joined[t]]
        <3>1. joined \in Seq(S \cup {"character"})
            BY <2>3
        <3>2. (L - 1) + 1 = L
            BY <2>2
        <3> HIDE DEF joined
        <3> QED
            BY <2>4, <3>1, <3>2
    <2>6. joined = [t \in 1..L |-> IF t = L THEN "character" ELSE text[t]]
        <3>1. ASSUME NEW t \in 1..L PROVE joined[t] = IF t = L THEN "character" ELSE text[t]
            <4>1. CASE t = L
                BY <2>2, <2>4, <4>1
            <4>2. CASE t # L
                <5>1. t \in 1..(L - 1)
                    BY <2>2, <4>2
                <5> QED
                    BY <2>3, <2>4, <4>2, <5>1
            <4> QED
                BY <4>1, <4>2
        <3> HIDE DEF joined
        <3> QED
            BY <2>5, <3>1
    <2> QED
        BY <1>2, <2>1, <2>6
<1>3. CASE piece # Special /\ ~(piece = Half /\ text # <<>> /\ text[L] = Half)
    BY <1>3 DEF Glyph, Last
<1> QED
    BY <1>1, <1>2, <1>3

(* A symbol of a text is a piece or a completed character.                  *)
LEMMA GlyphType ==
    ASSUME NEW P, NEW text \in Seq(Glyphs(P)), NEW piece \in P
    PROVE  Glyph(text, piece) \in Seq(Glyphs(P))
<1> DEFINE joined == [t \in 1..Len(text) |-> IF t = Len(text) THEN "character" ELSE text[t]]
<1>1. Append(text, piece) \in Seq(Glyphs(P))
    BY DEF Glyphs
<1>2. joined \in Seq(Glyphs(P))
    <2>1. Len(text) \in Nat /\ \A t \in 1..Len(text) : text[t] \in Glyphs(P)
        OBVIOUS
    <2>2. joined \in [1..Len(text) -> Glyphs(P)]
        BY <2>1 DEF Glyphs
    <2> HIDE DEF joined
    <2> QED
        BY <2>1, <2>2
<1> QED
    BY <1>1, <1>2, GlyphShape

(* Decoding is a run over the pieces.                                       *)
LEMMA DecodingRuns ==
    ASSUME NEW P, NEW pieces \in Seq(P)
    PROVE  \E G : IsDecoding(G, pieces, P)
<1> DEFINE n == Len(pieces)
           D == 1..n
           A == Seq(Glyphs(P))
           step == [p \in D \X A |-> Glyph(p[2], pieces[p[1]])]
           Body(iter) == [s \in SUBSET DOMAIN pieces |-> IF s = {} THEN <<>> ELSE Glyph(iter[s \ {Max(s)}], pieces[Max(s)])]
           it == CHOOSE iter : iter = Body(iter)
<1>1. n \in Nat /\ DOMAIN pieces = 1..n
    OBVIOUS
<1>2. step \in [(1..n) \X A -> A] /\ <<>> \in A
    <2>1. ASSUME NEW p \in (1..n) \X A PROVE Glyph(p[2], pieces[p[1]]) \in A
        <3>1. p[2] \in A /\ pieces[p[1]] \in P
            BY <1>1
        <3> QED
            BY <3>1, GlyphType
    <2>2. <<>> \in A
        OBVIOUS
    <2> HIDE DEF A
    <2> QED
        BY <2>1, <2>2
<1> HIDE DEF A
<1>3. PICK iter : IsLeftFold(iter, n, A, <<>>, step)
    <2> HIDE DEF step, n
    <2> QED
        BY <1>1, <1>2, LeftFoldExists
<1>4. iter = Body(iter)
    <2>1. \A s \in SUBSET (1..n) : s # {} => Max(s) \in 1..n
        BY <1>1, MaxOf
    <2>2. ASSUME NEW s \in SUBSET (1..n), s # {}
          PROVE  iter[s] = Glyph(iter[s \ {Max(s)}], pieces[Max(s)])
        <3> DEFINE m == Max(s)
        <3>1. m \in 1..n /\ iter[s \ {m}] \in A
            BY <2>1, <2>2, <1>3 DEF IsLeftFold
        <3>2. iter[s] = step[<<m, iter[s \ {m}]>>]
            BY <1>3, <2>2 DEF IsLeftFold
        <3> HIDE DEF m
        <3>3. step[<<m, iter[s \ {m}]>>] = Glyph(iter[s \ {m}], pieces[m])
            BY <3>1
        <3> QED
            BY <3>2, <3>3 DEF m
    <2>3. iter[{}] = <<>>
        BY <1>3 DEF IsLeftFold
    <2> QED
        BY <1>1, <1>3, <2>2, <2>3 DEF IsLeftFold
<1>5. it = Body(it)
    BY <1>4
<1>6. decode(pieces) = it[DOMAIN pieces]
    BY DEF decode, FoldLeft, MapThenFoldSet, Glyph
<1> HIDE DEF it
<1>7. it[{}] = <<>>
    BY <1>5
<1>8. ASSUME NEW s \in SUBSET (1..n), s # {}, it[s \ {Max(s)}] \in A
      PROVE  it[s] = step[<<Max(s), it[s \ {Max(s)}]>>]
    <2> DEFINE m == Max(s)
    <2>1. m \in 1..n
        BY <1>1, <1>8, MaxOf
    <2>2. it[s] = Glyph(it[s \ {m}], pieces[m])
        BY <1>1, <1>5, <1>8
    <2> HIDE DEF m
    <2>3. step[<<m, it[s \ {m}]>>] = Glyph(it[s \ {m}], pieces[m])
        BY <1>8, <2>1 DEF m
    <2> QED
        BY <2>2, <2>3 DEF m
<1> HIDE DEF step, Body
<1>9. Steps(it, n, A, step)
    BY <1>8 DEF Steps
<1> HIDE DEF n
<1>10. PICK G : IsRun(G, n, A, <<>>, step, it)
    BY <1>1, <1>2, <1>7, <1>9, LeftFoldRuns
<1>11. \A k \in 1..n : step[<<k, G[k - 1]>>] = Glyph(G[k - 1], pieces[k])
    <2> TAKE k \in 1..n
    <2>1. k - 1 \in 0..n
        BY <1>1
    <2>2. G[k - 1] \in A
        BY <1>10, <2>1 DEF IsRun
    <2> QED
        BY <2>2 DEF step
<1>12. decode(pieces) = G[n]
    BY <1>1, <1>6, <1>10 DEF IsRun
<1>13. /\ G \in [0..n -> A] /\ G[0] = <<>>
       /\ \A k \in 1..n : G[k] = Glyph(G[k - 1], pieces[k])
    BY <1>10, <1>11 DEF IsRun
<1> QED
    BY <1>12, <1>13 DEF n, A, IsDecoding

(* The symbols of a text come of pieces in the same order: at[t] is the piece *)
(* that symbol t is of, or begins with.                                      *)
Traces(at, text, pieces, n) ==
    /\ at \in [1..Len(text) -> 1..n]
    /\ \A s, t \in 1..Len(text) : s < t => at[s] < at[t]
    /\ \A t \in 1..Len(text) : pieces[at[t]] # Special /\ (text[t] \notin {Half, "character"} => pieces[at[t]] = text[t])
    /\ \A i \in 1..n : pieces[i] \notin {Special, Half} => \E t \in 1..Len(text) : at[t] = i /\ text[t] = pieces[i]
    /\ Len(text) = 0 => \A i \in 1..n : pieces[i] = Special

(* One piece more: a text's symbols still come of the pieces in order.      *)
LEMMA GlyphTraces ==
    ASSUME NEW S, NEW text \in Seq(S), NEW pieces, NEW k \in Nat, NEW at, Traces(at, text, pieces, k)
    PROVE  \E more : Traces(more, Glyph(text, pieces[k + 1]), pieces, k + 1)
<1> DEFINE L == Len(text)
           piece == pieces[k + 1]
           new == Glyph(text, piece)
<1>1. L \in Nat /\ 1..(k + 1) = 1..k \cup {k + 1} /\ 1..(L + 1) = 1..L \cup {L + 1}
    OBVIOUS
<1>2. /\ at \in [1..L -> 1..k]
      /\ \A s, t \in 1..L : s < t => at[s] < at[t]
      /\ \A t \in 1..L : pieces[at[t]] # Special /\ (text[t] \notin {Half, "character"} => pieces[at[t]] = text[t])
      /\ \A i \in 1..k : pieces[i] \notin {Special, Half} => \E t \in 1..L : at[t] = i /\ text[t] = pieces[i]
      /\ L = 0 => \A i \in 1..k : pieces[i] = Special
    BY DEF Traces
<1>3. CASE piece = Special /\ new = text
    <2>1. Traces(at, text, pieces, k + 1)
        <3> HIDE DEF L
        <3>1. at \in [1..L -> 1..(k + 1)]
            BY <1>1, <1>2
        <3> QED
            BY <1>1, <1>2, <1>3, <3>1 DEF Traces, L
    <2> QED
        BY <1>3, <2>1
<1>4. CASE piece = Half /\ text # <<>> /\ text[L] = Half /\ new = [t \in 1..L |-> IF t = L THEN "character" ELSE text[t]]
    <2>1. Len(new) = L
        <3>1. new \in Seq(S \cup {"character"})
            <4>1. new \in [1..L -> S \cup {"character"}]
                BY <1>4
            <4> HIDE DEF new, L
            <4> QED
                BY <1>1, <4>1
        <3>2. DOMAIN new = 1..L
            BY <1>4
        <3> HIDE DEF new, L
        <3> QED
            BY <1>1, <3>1, <3>2
    <2>2. new[L] = "character" /\ \A t \in 1..L : t # L => new[t] = text[t]
        <3>1. L \in 1..L
            BY <1>1, <1>4
        <3> HIDE DEF new, L
        <3> QED
            BY <1>4, <3>1
    <2> HIDE DEF new, L
    <2>3. L # 0
        BY <1>4 DEF L
    <2>4. at \in [1..L -> 1..(k + 1)]
        BY <1>1, <1>2
    <2>5. \A t \in 1..L : pieces[at[t]] # Special /\ (new[t] \notin {Half, "character"} => pieces[at[t]] = new[t])
        BY <1>2, <2>2
    <2>6. \A i \in 1..(k + 1) : pieces[i] \notin {Special, Half} => \E t \in 1..L : at[t] = i /\ new[t] = pieces[i]
        <3> SUFFICES ASSUME NEW i \in 1..(k + 1), pieces[i] \notin {Special, Half}
                     PROVE  \E t \in 1..L : at[t] = i /\ new[t] = pieces[i]
            OBVIOUS
        <3>1. i \in 1..k
            BY <1>1, <1>4
        <3>2. PICK t \in 1..L : at[t] = i /\ text[t] = pieces[i]
            BY <1>2, <3>1
        <3> QED
            BY <1>4, <2>2, <3>2
    <2>7. Traces(at, new, pieces, k + 1)
        BY <1>2, <2>1, <2>3, <2>4, <2>5, <2>6 DEF Traces
    <2> QED
        BY <2>7 DEF new
<1>5. CASE piece # Special /\ new = Append(text, piece)
    <2> DEFINE more == [t \in 1..(L + 1) |-> IF t = L + 1 THEN k + 1 ELSE at[t]]
    <2>1. Len(new) = L + 1 /\ new[L + 1] = piece /\ \A t \in 1..L : new[t] = text[t]
        BY <1>5
    <2> HIDE DEF new, L
    <2>2. more[L + 1] = k + 1 /\ \A t \in 1..L : more[t] = at[t]
        <3>1. L + 1 \in 1..(L + 1) /\ \A t \in 1..L : t # L + 1 /\ t \in 1..(L + 1)
            BY <1>1
        <3> QED
            BY <3>1
    <2>3. more \in [1..(L + 1) -> 1..(k + 1)]
        BY <1>1, <1>2
    <2> HIDE DEF more
    <2>4. \A s, t \in 1..(L + 1) : s < t => more[s] < more[t]
        <3> SUFFICES ASSUME NEW s \in 1..(L + 1), NEW t \in 1..(L + 1), s < t PROVE more[s] < more[t]
            OBVIOUS
        <3>1. s \in 1..L
            BY <1>1
        <3>2. at[s] \in 1..k
            BY <1>2, <3>1
        <3>3. CASE t = L + 1
            BY <2>2, <3>1, <3>2, <3>3
        <3>4. CASE t \in 1..L
            BY <1>2, <2>2, <3>1, <3>4
        <3> QED
            BY <1>1, <3>3, <3>4
    <2>5. \A t \in 1..(L + 1) : pieces[more[t]] # Special /\ (new[t] \notin {Half, "character"} => pieces[more[t]] = new[t])
        BY <1>1, <1>2, <1>5, <2>1, <2>2
    <2>6. \A i \in 1..(k + 1) : pieces[i] \notin {Special, Half} => \E t \in 1..(L + 1) : more[t] = i /\ new[t] = pieces[i]
        <3> SUFFICES ASSUME NEW i \in 1..(k + 1), pieces[i] \notin {Special, Half}
                     PROVE  \E t \in 1..(L + 1) : more[t] = i /\ new[t] = pieces[i]
            OBVIOUS
        <3>1. CASE i = k + 1
            BY <1>1, <2>1, <2>2, <3>1
        <3>2. CASE i \in 1..k
            <4>1. PICK t \in 1..L : at[t] = i /\ text[t] = pieces[i]
                BY <1>2, <3>2
            <4> QED
                BY <1>1, <2>1, <2>2, <4>1
        <3> QED
            BY <1>1, <3>1, <3>2
    <2>7. L + 1 # 0
        BY <1>1
    <2>8. Traces(more, new, pieces, k + 1)
        BY <2>1, <2>3, <2>4, <2>5, <2>6, <2>7 DEF Traces
    <2> QED
        BY <2>8 DEF new
<1>6. \/ piece = Special /\ new = text
      \/ piece = Half /\ text # <<>> /\ text[L] = Half /\ new = [t \in 1..L |-> IF t = L THEN "character" ELSE text[t]]
      \/ piece # Special /\ new = Append(text, piece)
    BY GlyphShape
<1> QED
    BY <1>3, <1>4, <1>5, <1>6

(* Every symbol of a decoded text comes of a piece, in the pieces' order,   *)
(* and every whole piece is a symbol.                                       *)
LEMMA DecodeTraces ==
    ASSUME NEW P, NEW pieces \in Seq(P)
    PROVE  /\ decode(pieces) \in Seq(Glyphs(P))
           /\ \E at : Traces(at, decode(pieces), pieces, Len(pieces))
<1> DEFINE n == Len(pieces)
<1>0. PICK G : IsDecoding(G, pieces, P)
    BY DecodingRuns
<1>1. /\ n \in Nat /\ G \in [0..n -> Seq(Glyphs(P))] /\ G[0] = <<>> /\ decode(pieces) = G[n]
      /\ \A k \in 1..n : G[k] = Glyph(G[k - 1], pieces[k])
    BY <1>0 DEF IsDecoding
<1> HIDE DEF n
<1> DEFINE Q == {k \in Nat : k <= n => \E at : Traces(at, G[k], pieces, k)}
<1>2. 0 \in Q
    <2>1. Traces(<<>>, <<>>, pieces, 0)
        BY DEF Traces
    <2> QED
        BY <1>1, <2>1
<1>3. ASSUME NEW k \in Q PROVE k + 1 \in Q
    <2> SUFFICES ASSUME k + 1 <= n PROVE \E at : Traces(at, G[k + 1], pieces, k + 1)
        OBVIOUS
    <2>1. k \in Nat /\ k <= n
        BY <1>1
    <2>2. PICK at : Traces(at, G[k], pieces, k)
        BY <2>1
    <2>3. k \in 0..n /\ k + 1 \in 1..n /\ (k + 1) - 1 = k
        BY <1>1, <2>1
    <2>4. G[k] \in Seq(Glyphs(P)) /\ G[k + 1] = Glyph(G[k], pieces[k + 1])
        BY <1>1, <2>3
    <2> QED
        BY <2>1, <2>2, <2>4, GlyphTraces
<1>4. Q = Nat
    <2> HIDE DEF Q
    <2>1. Q \in SUBSET Nat
        BY DEF Q
    <2> QED
        BY <1>2, <1>3, <2>1, EveryNumber
<1>5. n \in Q
    <2> HIDE DEF Q
    <2> QED
        BY <1>1, <1>4
<1>6. (\E at : Traces(at, G[n], pieces, n)) /\ G[n] \in Seq(Glyphs(P))
    BY <1>1, <1>5
<1> QED
    BY <1>1, <1>6 DEF n

(* Intervals that follow each other cover a line, in order. *)
Follow(m, s, e, N) ==
    /\ s \in [1..m -> Nat] /\ e \in [1..m -> Nat]
    /\ \A k \in 1..m : s[k] = (IF k = 1 THEN 0 ELSE e[k - 1]) /\ s[k] < e[k]
    /\ (IF m = 0 THEN 0 ELSE e[m]) = N

(* Such intervals do not overlap, end where the line does and leave no      *)
(* place out.                                                               *)
LEMMA Intervals ==
    ASSUME NEW m \in Nat, NEW N \in Nat, NEW s, NEW e, Follow(m, s, e, N)
    PROVE  /\ \A k \in 1..m : e[k] <= N
           /\ \A k, l \in 1..m : k < l => e[k] <= s[l]
           /\ \A t \in 1..N : \E k \in 1..m : s[k] < t /\ t <= e[k]
<1>1. /\ s \in [1..m -> Nat] /\ e \in [1..m -> Nat]
      /\ \A k \in 1..m : s[k] = (IF k = 1 THEN 0 ELSE e[k - 1]) /\ s[k] < e[k]
      /\ m # 0 => e[m] = N
      /\ m = 0 => N = 0
    BY DEF Follow
<1> DEFINE P == {l \in Nat : l \in 1..m => \A k \in 1..m : k < l => e[k] <= s[l]}
<1>2. 0 \in P
    OBVIOUS
<1>3. ASSUME NEW l \in P PROVE l + 1 \in P
    <2> SUFFICES ASSUME l + 1 \in 1..m, NEW k \in 1..m, k < l + 1 PROVE e[k] <= s[l + 1]
        OBVIOUS
    <2>1. l \in Nat /\ l # 0 /\ l \in 1..m /\ (l + 1) - 1 = l /\ l + 1 # 1
        OBVIOUS
    <2>2. s[l + 1] = e[l] /\ s[l] < e[l] /\ s[l] \in Nat /\ e[l] \in Nat /\ e[k] \in Nat
        BY <1>1, <2>1
    <2>3. CASE k = l
        BY <2>2, <2>3
    <2>4. CASE k # l
        <3>1. k < l
            BY <2>1, <2>4
        <3>2. e[k] <= s[l]
            BY <2>1, <3>1
        <3> QED
            BY <2>2, <3>2
    <2> QED
        BY <2>3, <2>4
<1>4. P = Nat
    <2> HIDE DEF P
    <2>1. P \in SUBSET Nat
        BY DEF P
    <2> QED
        BY <1>2, <1>3, <2>1, EveryNumber
<1>5. \A k, l \in 1..m : k < l => e[k] <= s[l]
    <2>1. \A l \in 1..m : l \in P
        <3> HIDE DEF P
        <3> QED
            BY <1>4
    <2> QED
        BY <2>1
<1>6. ASSUME NEW k \in 1..m PROVE e[k] <= N
    <2>1. m # 0 /\ m \in 1..m /\ e[m] = N /\ s[m] < e[m] /\ s[m] \in Nat /\ e[k] \in Nat
        BY <1>1
    <2>2. CASE k = m
        BY <2>1, <2>2
    <2>3. CASE k # m
        <3>1. e[k] <= s[m]
            BY <1>5, <2>1, <2>3
        <3> QED
            BY <2>1, <3>1
    <2> QED
        BY <2>2, <2>3
<1>7. ASSUME NEW t \in 1..N PROVE \E k \in 1..m : s[k] < t /\ t <= e[k]
    <2> DEFINE T == {k \in 1..m : t <= e[k]}
    <2>1. m # 0 /\ m \in 1..m /\ e[m] = N
        BY <1>1
    <2>2. m \in T /\ T \in SUBSET Nat
        BY <2>1
    <2> HIDE DEF T
    <2>3. PICK k \in T : \A l \in T : k <= l
        BY <2>2, FirstExists
    <2>4. k \in 1..m /\ t <= e[k]
        BY <2>3 DEF T
    <2>5. s[k] < t
        <3>1. CASE k = 1
            BY <1>1, <2>4, <3>1
        <3>2. CASE k # 1
            <4>1. k - 1 \in 1..m /\ ~(k <= k - 1)
                BY <2>4, <3>2
            <4>2. ~(t <= e[k - 1])
                BY <2>3, <4>1 DEF T
            <4>3. s[k] = e[k - 1] /\ e[k - 1] \in Nat
                BY <1>1, <2>4, <3>2, <4>1
            <4> QED
                BY <4>2, <4>3
        <3> QED
            BY <3>1, <3>2
    <2> QED
        BY <2>4, <2>5
<1> QED
    BY <1>5, <1>6, <1>7

-----------------------------------------------------------------------------
Spans(M) == Seq([role : M, start : Nat, end : Nat])

(* To cover a text is to be such intervals.                                 *)
LEMMA SpansFollow ==
    ASSUME NEW M, NEW spans \in Spans(M), NEW S, NEW text \in Seq(S)
    PROVE  Covers(text, spans) <=> Follow(Len(spans), [k \in 1..Len(spans) |-> spans[k].start],
                                          [k \in 1..Len(spans) |-> spans[k].end], Len(text))
<1> DEFINE m == Len(spans)
           s == [k \in 1..m |-> spans[k].start]
           e == [k \in 1..m |-> spans[k].end]
<1>1. m \in Nat /\ DOMAIN spans = 1..m /\ (spans = <<>> <=> m = 0)
    <2>1. m \in Nat /\ DOMAIN spans = 1..m
        BY DEF Spans
    <2>2. spans = <<>> <=> m = 0
        BY EmptySeq DEF Spans
    <2> QED
        BY <2>1, <2>2
<1>2. \A k \in 1..m : spans[k].start \in Nat /\ spans[k].end \in Nat
    <2> DEFINE Span == [role : M, start : Nat, end : Nat]
    <2>0. spans \in Seq(Span)
        BY DEF Spans
    <2>1. \A k \in 1..m : spans[k] \in Span
        <3> HIDE DEF Span
        <3> QED
            BY <2>0
    <2> QED
        BY <2>1
<1>3. s \in [1..m -> Nat] /\ e \in [1..m -> Nat] /\ \A k \in 1..m : s[k] = spans[k].start /\ e[k] = spans[k].end
    BY <1>2
<1>4. \A k \in 1..m : k # 1 => k - 1 \in 1..m
    BY <1>1
<1>5. m # 0 => m \in 1..m /\ Last(spans).end = e[m]
    BY <1>1, <1>3 DEF Last
<1> HIDE DEF s, e, m
<1>6. Covers(text, spans) <=> /\ \A k \in 1..m : s[k] = (IF k = 1 THEN 0 ELSE e[k - 1]) /\ s[k] < e[k]
                              /\ (IF m = 0 THEN 0 ELSE e[m]) = Len(text)
    <2>1. \A k \in 1..m : (spans[k].start = IF k = 1 THEN 0 ELSE spans[k - 1].end) <=> (s[k] = IF k = 1 THEN 0 ELSE e[k - 1])
        BY <1>3, <1>4
    <2>2. \A k \in 1..m : spans[k].end > spans[k].start <=> s[k] < e[k]
        BY <1>2, <1>3
    <2>3. (IF spans = <<>> THEN 0 ELSE Last(spans).end) = IF m = 0 THEN 0 ELSE e[m]
        BY <1>1, <1>5
    <2> QED
        BY <1>1, <2>1, <2>2, <2>3 DEF Covers
<1>7. Covers(text, spans) <=> Follow(m, s, e, Len(text))
    BY <1>3, <1>6 DEF Follow
<1> QED
    BY <1>7 DEF s, e, m

(* Spans that cover a text are in its order, and each symbol is in one. *)
LEMMA SpansCover ==
    ASSUME NEW M, NEW spans \in Spans(M), NEW S, NEW text \in Seq(S), Covers(text, spans)
    PROVE  /\ \A k \in 1..Len(spans) : /\ spans[k].start \in Nat /\ spans[k].end \in Nat
                                       /\ spans[k].start < spans[k].end /\ spans[k].end <= Len(text)
                                       /\ spans[k].start = IF k = 1 THEN 0 ELSE spans[k - 1].end
           /\ \A k, l \in 1..Len(spans) : k < l => spans[k].end <= spans[l].start
           /\ \A t \in 1..Len(text) : \E k \in 1..Len(spans) : spans[k].start < t /\ t <= spans[k].end
           /\ IF Len(spans) = 0 THEN Len(text) = 0 ELSE spans[Len(spans)].end = Len(text)
<1> DEFINE m == Len(spans)
           s == [k \in 1..m |-> spans[k].start]
           e == [k \in 1..m |-> spans[k].end]
<1>1. m \in Nat /\ Len(text) \in Nat
    BY DEF Spans
<1>2. \A k \in 1..m : s[k] = spans[k].start /\ e[k] = spans[k].end
    OBVIOUS
<1>3. Follow(m, s, e, Len(text))
    BY SpansFollow
<1> HIDE DEF s, e, m
<1>4. /\ \A k \in 1..m : e[k] <= Len(text)
      /\ \A k, l \in 1..m : k < l => e[k] <= s[l]
      /\ \A t \in 1..Len(text) : \E k \in 1..m : s[k] < t /\ t <= e[k]
    BY <1>1, <1>3, Intervals
<1>5. /\ \A k \in 1..m : /\ s[k] \in Nat /\ e[k] \in Nat /\ s[k] < e[k]
                         /\ s[k] = IF k = 1 THEN 0 ELSE e[k - 1]
      /\ IF m = 0 THEN Len(text) = 0 ELSE e[m] = Len(text)
    BY <1>3 DEF Follow
<1>6. \A k \in 1..m : (IF k = 1 THEN 0 ELSE e[k - 1]) = (IF k = 1 THEN 0 ELSE spans[k - 1].end)
    <2>1. \A k \in 1..m : k # 1 => k - 1 \in 1..m
        BY <1>1
    <2> QED
        BY <1>2, <2>1
<1>7. m # 0 => m \in 1..m
    BY <1>1
<1>8. /\ \A k \in 1..m : /\ spans[k].start \in Nat /\ spans[k].end \in Nat
                         /\ spans[k].start < spans[k].end /\ spans[k].end <= Len(text)
                         /\ spans[k].start = IF k = 1 THEN 0 ELSE spans[k - 1].end
      /\ \A k, l \in 1..m : k < l => spans[k].end <= spans[l].start
      /\ \A t \in 1..Len(text) : \E k \in 1..m : spans[k].start < t /\ t <= spans[k].end
      /\ IF m = 0 THEN Len(text) = 0 ELSE spans[m].end = Len(text)
    BY <1>2, <1>4, <1>5, <1>6, <1>7
<1> QED
    BY <1>8 DEF m

(* What Join makes of spans that cover a text is spans that cover more of it. *)
LEMMA JoinShape ==
    ASSUME NEW M, NEW spans \in Spans(M), NEW role \in M, NEW a \in Nat, NEW b \in Nat
    PROVE  LET m == Len(spans)
               new == Join(spans, role, a, b)
           IN /\ new \in Spans(M)
              /\ \/ a = b /\ new = spans
                 \/ /\ a # b /\ m # 0 /\ spans[m].role = role /\ Len(new) = m
                    /\ \A k \in 1..(m - 1) : new[k] = spans[k]
                    /\ new[m].role = role /\ new[m].start = spans[m].start /\ new[m].end = b
                 \/ /\ a # b /\ (m = 0 \/ spans[m].role # role) /\ Len(new) = m + 1
                    /\ \A k \in 1..m : new[k] = spans[k]
                    /\ new[m + 1].role = role /\ new[m + 1].start = a /\ new[m + 1].end = b
<1> DEFINE m == Len(spans)
           new == Join(spans, role, a, b)
           Span == [role : M, start : Nat, end : Nat]
<1>1. m \in Nat /\ DOMAIN spans = 1..m /\ (spans = <<>> <=> m = 0) /\ spans \in Seq(Span)
    BY DEF Spans
<1>2. CASE a = b
    BY <1>2 DEF Join
<1>3. CASE a # b /\ m # 0 /\ spans[m].role = role
    <2>1. new = [spans EXCEPT ![m].end = b]
        BY <1>1, <1>3 DEF Join, Last
    <2> DEFINE span == [spans[m] EXCEPT !.end = b]
    <2>2. m \in 1..m /\ \A k \in 1..(m - 1) : k \in 1..m /\ k # m
        <3>1. m \in Nat /\ m # 0
            BY <1>1, <1>3
        <3> HIDE DEF m
        <3> QED
            BY <3>1
    <2>3. spans[m] \in Span
        <3> HIDE DEF m, Span
        <3>1. spans \in Seq(Span) /\ m \in DOMAIN spans
            BY <1>1, <2>2
        <3> QED
            BY <3>1
    <2>4. span \in Span /\ span.role = role /\ span.start = spans[m].start /\ span.end = b
        BY <1>3, <2>3
    <2>5. new = [spans EXCEPT ![m] = span]
        BY <2>1
    <2> HIDE DEF span, new
    <2>6. new \in Seq(Span) /\ Len(new) = m /\ new[m] = span /\ \A k \in 1..(m - 1) : new[k] = spans[k]
        <3> HIDE DEF m, Span
        <3>1. new = [k \in 1..m |-> IF k = m THEN span ELSE spans[k]]
            BY <1>1, <2>2, <2>5
        <3>2. new \in [1..m -> Span]
            <4>1. \A k \in 1..m : spans[k] \in Span
                BY <1>1
            <4> QED
                BY <2>4, <3>1, <4>1
        <3>3. new \in Seq(Span) /\ Len(new) = m
            BY <1>1, <3>2
        <3> QED
            BY <2>2, <3>1, <3>3
    <2> QED
        BY <1>3, <2>4, <2>6 DEF Spans, new
<1>4. CASE a # b /\ (m = 0 \/ spans[m].role # role)
    <2> DEFINE span == [role |-> role, start |-> a, end |-> b]
    <2>1. new = Append(spans, span)
        BY <1>1, <1>4 DEF Join, Last
    <2>2. span \in Span /\ span.role = role /\ span.start = a /\ span.end = b
        OBVIOUS
    <2> HIDE DEF span, new, Span, m
    <2>3. new \in Seq(Span) /\ Len(new) = m + 1 /\ new[m + 1] = span /\ \A k \in 1..m : new[k] = spans[k]
        BY <1>1, <2>1, <2>2, AppendProperties DEF m
    <2> QED
        BY <1>4, <2>2, <2>3 DEF Spans, new, Span, m
<1> QED
    BY <1>2, <1>3, <1>4

(* The symbols of two texts, one after the other, come of their pieces one   *)
(* after the other.                                                         *)
LEMMA TracesJoin ==
    ASSUME NEW S, NEW text \in Seq(S), NEW tail \in Seq(S), NEW pieces, NEW rest, NEW n \in Nat, NEW d \in Nat,
           \A i \in 1..d : rest[i] = pieces[n + i],
           NEW at, Traces(at, text, pieces, n), NEW more, Traces(more, tail, rest, d)
    PROVE  LET L == Len(text)
               both == [t \in 1..(L + Len(tail)) |-> IF t <= L THEN at[t] ELSE n + more[t - L]]
           IN Traces(both, text \o tail, pieces, n + d)
<1> DEFINE L == Len(text)
           K == Len(tail)
           new == text \o tail
           both == [t \in 1..(L + K) |-> IF t <= L THEN at[t] ELSE n + more[t - L]]
<1>1. L \in Nat /\ K \in Nat
    OBVIOUS
<1>2. Len(new) = L + K /\ (\A t \in 1..L : new[t] = text[t]) /\ (\A t \in 1..K : new[L + t] = tail[t])
    OBVIOUS
<1> HIDE DEF new
<1>3. /\ at \in [1..L -> 1..n]
      /\ \A s, t \in 1..L : s < t => at[s] < at[t]
      /\ \A t \in 1..L : pieces[at[t]] # Special /\ (text[t] \notin {Half, "character"} => pieces[at[t]] = text[t])
      /\ \A i \in 1..n : pieces[i] \notin {Special, Half} => \E t \in 1..L : at[t] = i /\ text[t] = pieces[i]
      /\ L = 0 => \A i \in 1..n : pieces[i] = Special
    BY DEF Traces
<1>4. /\ more \in [1..K -> 1..d]
      /\ \A s, t \in 1..K : s < t => more[s] < more[t]
      /\ \A t \in 1..K : rest[more[t]] # Special /\ (tail[t] \notin {Half, "character"} => rest[more[t]] = tail[t])
      /\ \A i \in 1..d : rest[i] \notin {Special, Half} => \E t \in 1..K : more[t] = i /\ tail[t] = rest[i]
      /\ K = 0 => \A i \in 1..d : rest[i] = Special
    BY DEF Traces
<1> HIDE DEF L, K
<1>5. \A t \in 1..(L + K) : t \in 1..L \/ (t - L \in 1..K /\ L + (t - L) = t /\ ~(t <= L))
    BY <1>1
<1>6. /\ \A t \in 1..L : t \in 1..(L + K) /\ both[t] = at[t]
      /\ \A t \in 1..K : L + t \in 1..(L + K) /\ both[L + t] = n + more[t]
    <2>1. \A t \in 1..L : t \in 1..(L + K) /\ t <= L
        BY <1>1
    <2>2. \A t \in 1..K : L + t \in 1..(L + K) /\ ~(L + t <= L) /\ (L + t) - L = t
        BY <1>1
    <2> QED
        BY <2>1, <2>2
<1>7. both = [t \in 1..(L + K) |-> both[t]]
    OBVIOUS
<1> HIDE DEF both
<1>8. \A i \in 1..(n + d) : i \in 1..n \/ (i - n \in 1..d /\ n + (i - n) = i)
    OBVIOUS
<1>9. both \in [1..(L + K) -> 1..(n + d)]
    <2>1. \A t \in 1..L : at[t] \in 1..(n + d)
        <3>1. \A t \in 1..L : at[t] \in 1..n
            BY <1>3
        <3> QED
            BY <3>1
    <2>2. \A t \in 1..K : n + more[t] \in 1..(n + d)
        <3>1. \A t \in 1..K : more[t] \in 1..d
            BY <1>4
        <3> QED
            BY <3>1
    <2>3. ASSUME NEW t \in 1..(L + K) PROVE both[t] \in 1..(n + d)
        <3>1. CASE t \in 1..L
            BY <1>6, <2>1, <3>1
        <3>2. CASE t - L \in 1..K /\ L + (t - L) = t
            <4>1. both[t] = n + more[t - L]
                BY <1>6, <3>2
            <4> QED
                BY <2>2, <3>2, <4>1
        <3> QED
            BY <1>5, <3>1, <3>2
    <2> QED
        BY <1>7, <2>3
<1>10. ASSUME NEW s \in 1..(L + K), NEW t \in 1..(L + K), s < t PROVE both[s] < both[t]
    <2>1. CASE t \in 1..L
        <3>1. s \in 1..L
            BY <1>1, <1>10, <2>1
        <3> QED
            BY <1>3, <1>6, <1>10, <2>1, <3>1
    <2>2. CASE t - L \in 1..K /\ L + (t - L) = t
        <3>1. both[t] = n + more[t - L] /\ more[t - L] \in 1..d
            BY <1>4, <1>6, <2>2
        <3>2. CASE s \in 1..L
            <4>1. both[s] = at[s] /\ at[s] \in 1..n
                BY <1>3, <1>6, <3>2
            <4> QED
                BY <3>1, <4>1
        <3>3. CASE s - L \in 1..K /\ L + (s - L) = s
            <4>1. both[s] = n + more[s - L] /\ more[s - L] \in 1..d
                BY <1>4, <1>6, <3>3
            <4>2. s - L < t - L
                BY <1>1, <1>10
            <4>3. more[s - L] < more[t - L]
                BY <1>4, <2>2, <3>3, <4>2
            <4> QED
                BY <3>1, <4>1, <4>3
        <3> QED
            BY <1>5, <3>2, <3>3
    <2> QED
        BY <1>5, <2>1, <2>2
<1>11. ASSUME NEW t \in 1..(L + K)
       PROVE  pieces[both[t]] # Special /\ (new[t] \notin {Half, "character"} => pieces[both[t]] = new[t])
    <2>1. CASE t \in 1..L
        BY <1>2, <1>3, <1>6, <2>1
    <2>2. CASE t - L \in 1..K /\ L + (t - L) = t
        <3> DEFINE u == t - L
        <3>1. u \in 1..K /\ L + u = t
            BY <2>2
        <3> HIDE DEF u
        <3>2. both[t] = n + more[u] /\ new[t] = tail[u] /\ more[u] \in 1..d
            BY <1>2, <1>4, <1>6, <3>1
        <3>3. pieces[both[t]] = rest[more[u]]
            BY <3>2
        <3> QED
            BY <1>4, <3>1, <3>2, <3>3
    <2> QED
        BY <1>5, <2>1, <2>2
<1>12. ASSUME NEW i \in 1..(n + d), pieces[i] \notin {Special, Half}
       PROVE  \E t \in 1..(L + K) : both[t] = i /\ new[t] = pieces[i]
    <2>1. CASE i \in 1..n
        <3>1. PICK t \in 1..L : at[t] = i /\ text[t] = pieces[i]
            BY <1>3, <1>12, <2>1
        <3> QED
            BY <1>2, <1>6, <3>1
    <2>2. CASE i - n \in 1..d /\ n + (i - n) = i
        <3> DEFINE j == i - n
        <3>1. j \in 1..d /\ n + j = i
            BY <2>2
        <3> HIDE DEF j
        <3>2. rest[j] = pieces[i]
            BY <3>1
        <3>3. PICK t \in 1..K : more[t] = j /\ tail[t] = rest[j]
            BY <1>4, <1>12, <3>1, <3>2
        <3>4. L + t \in 1..(L + K) /\ both[L + t] = i /\ new[L + t] = pieces[i]
            BY <1>2, <1>6, <3>1, <3>2, <3>3
        <3> QED
            BY <3>4
    <2> QED
        BY <1>8, <2>1, <2>2
<1>13. L + K = 0 => \A i \in 1..(n + d) : pieces[i] = Special
    <2> SUFFICES ASSUME L + K = 0, NEW i \in 1..(n + d) PROVE pieces[i] = Special
        OBVIOUS
    <2>1. L = 0 /\ K = 0
        BY <1>1
    <2>2. CASE i \in 1..n
        BY <1>3, <2>1, <2>2
    <2>3. CASE i - n \in 1..d /\ n + (i - n) = i
        BY <1>4, <2>1, <2>3, SMTT(40)
    <2> QED
        BY <1>8, <2>2, <2>3
<1>14. Traces(both, new, pieces, n + d)
    BY <1>2, <1>9, <1>10, <1>11, <1>12, <1>13 DEF Traces
<1> QED
    BY <1>14 DEF both, new, L, K

(* A text and its spans, attributed to the first n tokens: a span's symbols   *)
(* come of tokens with its mask, and between them there are no others but     *)
(* special ones; the span after it has another role.                         *)
Mine(tokens, i, role) == tokens[i].mask = role \/ tokens[i].piece = Special

SpansCome(at, text, spans, tokens, n) ==
    /\ \A k \in 1..Len(spans) : \A t \in (spans[k].start + 1)..spans[k].end : tokens[at[t]].mask = spans[k].role
    /\ \A k \in 1..(Len(spans) - 1) : spans[k].role # spans[k + 1].role
    /\ \A k \in 1..Len(spans) : \A i \in at[spans[k].start + 1]..at[spans[k].end] : Mine(tokens, i, spans[k].role)
    /\ Len(spans) # 0 => \A i \in (at[Len(text)] + 1)..n : Mine(tokens, i, spans[Len(spans)].role)

Attributed(at, text, spans, tokens, n) ==
    Traces(at, text, Pieces(tokens), n) /\ Covers(text, spans) /\ SpansCome(at, text, spans, tokens, n)

(* A run of tokens of one role is added to a text: its spans, joined or     *)
(* begun anew, are still attributed to the tokens.                          *)
LEMMA AddRun ==
    ASSUME NEW S, NEW M, NEW T, NEW tokens \in Seq(T), NEW n \in Nat, NEW d \in Nat, n + d <= Len(tokens),
           NEW text \in Seq(S), NEW spans \in Spans(M), NEW role \in M,
           \A i \in (n + 1)..(n + d) : tokens[i].mask = role,
           NEW tail \in Seq(S), NEW rest, \A i \in 1..d : rest[i] = tokens[n + i].piece,
           NEW more, Traces(more, tail, rest, d),
           NEW at, Attributed(at, text, spans, tokens, n)
    PROVE  \E both : Attributed(both, text \o tail, Join(spans, role, Len(text), Len(text \o tail)), tokens, n + d)
<1> DEFINE L == Len(text)
           K == Len(tail)
           q == Len(spans)
           pieces == Pieces(tokens)
           new == Join(spans, role, Len(text), Len(text \o tail))
           both == [t \in 1..(L + K) |-> IF t <= L THEN at[t] ELSE n + more[t - L]]
           whole == text \o tail
<1>1. L \in Nat /\ K \in Nat /\ Len(whole) = L + K /\ q \in Nat /\ whole \in Seq(S)
    BY DEF Spans
<1>2. \A i \in 1..(n + d) : pieces[i] = tokens[i].piece
    BY DEF Pieces
<1>3. Traces(at, text, pieces, n) /\ Covers(text, spans) /\ SpansCome(at, text, spans, tokens, n)
    BY DEF Attributed
<1>4. Traces(both, whole, pieces, n + d)
    <2>1. \A i \in 1..d : rest[i] = pieces[n + i]
        <3>1. \A i \in 1..d : n + i \in 1..(n + d)
            OBVIOUS
        <3> QED
            BY <1>2, <3>1
    <2> HIDE DEF pieces
    <2> QED
        BY <1>3, <2>1, TracesJoin
<1>5. \A t \in 1..L : at[t] \in 1..n
    BY <1>3 DEF Traces
<1>6. \A t \in 1..K : more[t] \in 1..d
    BY DEF Traces
<1>7. K = 0 => \A i \in (n + 1)..(n + d) : tokens[i].piece = Special
    <2> SUFFICES ASSUME K = 0, NEW i \in (n + 1)..(n + d) PROVE tokens[i].piece = Special
        OBVIOUS
    <2>1. i - n \in 1..d /\ n + (i - n) = i
        OBVIOUS
    <2>2. rest[i - n] = Special
        BY <2>1 DEF Traces
    <2> QED
        BY <2>1, <2>2
<1> HIDE DEF L, K, pieces, q
<1>8. /\ \A t \in 1..L : both[t] = at[t]
      /\ \A t \in (L + 1)..(L + K) : both[t] \in (n + 1)..(n + d)
    <2>1. \A t \in 1..L : t \in 1..(L + K) /\ t <= L
        BY <1>1
    <2>2. ASSUME NEW t \in (L + 1)..(L + K) PROVE both[t] \in (n + 1)..(n + d)
        <3>1. t \in 1..(L + K) /\ ~(t <= L) /\ t - L \in 1..K
            BY <1>1
        <3>2. both[t] = n + more[t - L] /\ more[t - L] \in 1..d
            BY <1>6, <3>1
        <3> QED
            BY <3>2
    <2> QED
        BY <2>1, <2>2
<1> HIDE DEF both
<1>9. \A i \in (n + 1)..(n + d) : Mine(tokens, i, role)
    BY DEF Mine
<1>10. /\ \A k \in 1..q : /\ spans[k].start \in Nat /\ spans[k].end \in Nat
                          /\ spans[k].start < spans[k].end /\ spans[k].end <= L
                          /\ spans[k].start = IF k = 1 THEN 0 ELSE spans[k - 1].end
       /\ IF q = 0 THEN L = 0 ELSE spans[q].end = L
    BY <1>3, SpansCover DEF q, L
<1>11. /\ \A k \in 1..q : \A t \in (spans[k].start + 1)..spans[k].end : tokens[at[t]].mask = spans[k].role
       /\ \A k \in 1..(q - 1) : spans[k].role # spans[k + 1].role
       /\ \A k \in 1..q : \A i \in at[spans[k].start + 1]..at[spans[k].end] : Mine(tokens, i, spans[k].role)
       /\ q # 0 => \A i \in (at[L] + 1)..n : Mine(tokens, i, spans[q].role)
    BY <1>3 DEF SpansCome, q, L
<1>12. /\ new \in Spans(M)
       /\ \/ L = L + K /\ new = spans
          \/ /\ L # L + K /\ q # 0 /\ spans[q].role = role /\ Len(new) = q
             /\ \A k \in 1..(q - 1) : new[k] = spans[k]
             /\ new[q].role = role /\ new[q].start = spans[q].start /\ new[q].end = L + K
          \/ /\ L # L + K /\ (q = 0 \/ spans[q].role # role) /\ Len(new) = q + 1
             /\ \A k \in 1..q : new[k] = spans[k]
             /\ new[q + 1].role = role /\ new[q + 1].start = L /\ new[q + 1].end = L + K
    BY <1>1, JoinShape, SMTT(40) DEF L, q
<1> HIDE DEF new, whole
<1>13. \A k \in 1..q : \A t \in (spans[k].start + 1)..spans[k].end : t \in 1..L
    <2> SUFFICES ASSUME NEW k \in 1..q, NEW t \in (spans[k].start + 1)..spans[k].end PROVE t \in 1..L
        OBVIOUS
    <2> DEFINE s == spans[k].start
               e == spans[k].end
    <2>1. s \in Nat /\ e \in Nat /\ e <= L /\ t \in (s + 1)..e
        BY <1>10
    <2> HIDE DEF s, e
    <2> QED
        BY <1>1, <2>1
<1>14. \A k \in 1..q : spans[k].start + 1 \in (spans[k].start + 1)..spans[k].end /\ spans[k].end \in (spans[k].start + 1)..spans[k].end
    <2> SUFFICES ASSUME NEW k \in 1..q PROVE spans[k].start + 1 \in (spans[k].start + 1)..spans[k].end /\ spans[k].end \in (spans[k].start + 1)..spans[k].end
        OBVIOUS
    <2>1. spans[k].start \in Nat /\ spans[k].end \in Nat /\ spans[k].start < spans[k].end
        BY <1>10
    <2> QED
        BY <2>1, SMTT(40)
<1>15. /\ \A k \in 1..q : \A t \in (spans[k].start + 1)..spans[k].end : tokens[both[t]].mask = spans[k].role
       /\ \A k \in 1..q : \A i \in both[spans[k].start + 1]..both[spans[k].end] : Mine(tokens, i, spans[k].role)
    BY <1>8, <1>11, <1>13, <1>14, SMTT(40)
(* After its last symbol, and before the run. *)
<1>16. ASSUME K # 0 PROVE \A i \in (both[L + K] + 1)..(n + d) : Mine(tokens, i, role)
    <2>1. L + K \in (L + 1)..(L + K)
        BY <1>1, <1>16
    <2>2. both[L + K] \in (n + 1)..(n + d)
        BY <1>8, <2>1
    <2> QED
        BY <1>9, <2>2
<1>17. CASE L = L + K /\ new = spans
    <2>1. K = 0
        BY <1>1, <1>17
    <2>2. Covers(whole, spans)
        <3>1. Len(whole) = Len(text)
            <4>1. Len(whole) = L
                BY <1>1, <1>17
            <4> QED
                BY <4>1 DEF L
        <3> QED
            BY <1>3, <3>1 DEF Covers
    <2>3. ASSUME q # 0, NEW i \in (both[L + K] + 1)..(n + d) PROVE Mine(tokens, i, spans[q].role)
        <3>1. q \in 1..q
            BY <1>1, <2>3
        <3>2. L \in 1..L /\ spans[q].end = L
            BY <1>10, <1>13, <1>14, <2>3, <3>1
        <3>3. both[L + K] = at[L] /\ at[L] \in 1..n
            BY <1>1, <1>5, <1>8, <2>1, <3>2
        <3>4. CASE i \in (n + 1)..(n + d)
            BY <1>7, <2>1, <3>4 DEF Mine
        <3>5. CASE i \in (at[L] + 1)..n
            BY <1>11, <2>3, <3>5
        <3>6. i \in (n + 1)..(n + d) \/ i \in (at[L] + 1)..n
            BY <2>3, <3>3
        <3> QED
            BY <3>4, <3>5, <3>6
    <2>4. SpansCome(both, whole, spans, tokens, n + d)
        BY <1>1, <1>11, <1>15, <2>3 DEF SpansCome, q
    <2>5. Attributed(both, whole, new, tokens, n + d)
        BY <1>4, <1>17, <2>2, <2>4 DEF Attributed, pieces
    <2> QED
        BY <2>5 DEF new, whole
<1>18. CASE /\ L # L + K /\ q # 0 /\ spans[q].role = role /\ Len(new) = q
            /\ \A k \in 1..(q - 1) : new[k] = spans[k]
            /\ new[q].role = role /\ new[q].start = spans[q].start /\ new[q].end = L + K
    <2>1. q \in 1..q /\ (\A k \in 1..q : k = q \/ k \in 1..(q - 1)) /\ K # 0 /\ L < L + K
        BY <1>1, <1>18
    <2>2. spans[q].end = L /\ spans[q].start \in Nat /\ spans[q].start < L
        BY <1>10, <1>18, <2>1
    <2>3. \A k \in 1..q : new[k].start = spans[k].start /\ new[k].role = spans[k].role
        BY <1>18, <2>1
    <2>4. \A k \in 1..q : new[k].end = IF k = q THEN L + K ELSE spans[k].end
        <3>1. \A k \in 1..(q - 1) : k # q
            BY <1>1
        <3> QED
            BY <1>18, <2>1, <3>1
    <2>5. Covers(whole, new)
        <3>1. \A k \in 1..q : new[k].start = IF k = 1 THEN 0 ELSE new[k - 1].end
            <4> TAKE k \in 1..q
            <4>1. k # 1 => k - 1 \in 1..q /\ k - 1 # q
                BY <1>1
            <4> QED
                BY <1>10, <2>3, <2>4, <4>1
        <3>2. \A k \in 1..q : new[k].end > new[k].start
            <4> TAKE k \in 1..q
            <4>1. spans[k].start \in Nat /\ spans[k].end \in Nat /\ spans[k].start < spans[k].end
                BY <1>10
            <4>2. CASE k = q
                BY <1>1, <2>2, <2>3, <2>4, <4>2
            <4>3. CASE k # q
                BY <2>3, <2>4, <4>1, <4>3
            <4> QED
                BY <4>2, <4>3
        <3>3. new # <<>> /\ DOMAIN new = 1..q /\ Last(new).end = L + K
            <4>1. Last(new) = new[q]
                BY <1>18 DEF Last
            <4>2. DOMAIN new = 1..q
                BY <1>12, <1>18 DEF Spans
            <4>3. new # <<>>
                BY <2>1, <4>2
            <4> QED
                BY <2>1, <2>4, <4>1, <4>2, <4>3
        <3> QED
            BY <1>1, <3>1, <3>2, <3>3 DEF Covers
    <2>6. ASSUME NEW k \in 1..q, NEW t \in (new[k].start + 1)..new[k].end
          PROVE  tokens[both[t]].mask = new[k].role
        <3>1. CASE k # q
            BY <1>15, <2>3, <2>4, <2>6, <3>1
        <3>2. CASE k = q
            <4>1. t \in (spans[q].start + 1)..(L + K)
                BY <2>3, <2>4, <2>6, <3>2
            <4>2. t \in (spans[q].start + 1)..spans[q].end \/ t \in (L + 1)..(L + K)
                BY <1>1, <2>2, <4>1
            <4>3. CASE t \in (spans[q].start + 1)..spans[q].end
                BY <1>15, <2>1, <2>3, <3>2, <4>3
            <4>4. CASE t \in (L + 1)..(L + K)
                BY <1>8, <1>18, <3>2, <4>4
            <4> QED
                BY <4>2, <4>3, <4>4
        <3> QED
            BY <3>1, <3>2
    <2>7. \A k \in 1..(q - 1) : new[k].role # new[k + 1].role
        <3> TAKE k \in 1..(q - 1)
        <3>1. k \in 1..q /\ k + 1 \in 1..q
            BY <1>1
        <3> QED
            BY <1>11, <2>3, <3>1
    <2>8. ASSUME NEW k \in 1..q, NEW i \in both[new[k].start + 1]..both[new[k].end]
          PROVE  Mine(tokens, i, new[k].role)
        <3>1. CASE k # q
            BY <1>15, <2>3, <2>4, <2>8, <3>1
        <3>2. CASE k = q
            <4> DEFINE s == spans[q].start
            <4>0. L \in Nat /\ K \in Nat /\ K # 0 /\ s \in Nat /\ s < L
                BY <1>1, <2>1, <2>2
            <4> HIDE DEF s
            <4>10. L \in 1..L /\ L + K \in (L + 1)..(L + K) /\ s + 1 \in 1..L
                BY <4>0
            <4>1. L \in 1..L /\ L + K \in (L + 1)..(L + K) /\ spans[q].start + 1 \in 1..L
                BY <4>10 DEF s
            <4>2. both[L + K] \in (n + 1)..(n + d) /\ both[L] = at[L] /\ at[L] \in 1..n /\ both[spans[q].start + 1] \in 1..n
                BY <1>5, <1>8, <4>1
            <4>3. i \in both[spans[q].start + 1]..both[L + K]
                BY <2>3, <2>4, <2>8, <3>2
            <4>4. \/ i \in both[spans[q].start + 1]..both[spans[q].end] \/ i \in (at[L] + 1)..n \/ i \in (n + 1)..(n + d)
                BY <2>2, <4>2, <4>3
            <4>5. Mine(tokens, i, spans[q].role)
                BY <1>9, <1>11, <1>15, <1>18, <2>1, <4>4
            <4> QED
                BY <2>3, <3>2, <4>5
        <3> QED
            BY <3>1, <3>2
    <2>9. SpansCome(both, whole, new, tokens, n + d)
        <3>1. \A i \in (both[L + K] + 1)..(n + d) : Mine(tokens, i, new[q].role)
            BY <1>16, <1>18, <2>1
        <3> QED
            BY <1>1, <1>18, <2>6, <2>7, <2>8, <3>1 DEF SpansCome
    <2>10. Attributed(both, whole, new, tokens, n + d)
        BY <1>4, <2>5, <2>9 DEF Attributed, pieces
    <2> QED
        BY <2>10 DEF new, whole
<1>19. CASE /\ L # L + K /\ (q = 0 \/ spans[q].role # role) /\ Len(new) = q + 1
            /\ \A k \in 1..q : new[k] = spans[k]
            /\ new[q + 1].role = role /\ new[q + 1].start = L /\ new[q + 1].end = L + K
    <2>1. (\A k \in 1..(q + 1) : k = q + 1 \/ k \in 1..q) /\ K # 0 /\ L < L + K /\ q + 1 \in 1..(q + 1)
        BY <1>1, <1>19
    <2>2. Covers(whole, new)
        <3>1. ASSUME NEW k \in 1..(q + 1) PROVE new[k].start = IF k = 1 THEN 0 ELSE new[k - 1].end
            <4>1. k # 1 => k - 1 \in 1..q
                BY <1>1
            <4>2. CASE k \in 1..q
                BY <1>10, <1>19, <4>1, <4>2
            <4>3. CASE k = q + 1
                <5>1. CASE q = 0
                    BY <1>1, <1>10, <1>19, <4>3, <5>1
                <5>2. CASE q # 0
                    <6>1. k # 1 /\ k - 1 = q /\ q \in 1..q
                        BY <1>1, <4>3, <5>2
                    <6>2. new[q].end = L
                        BY <1>10, <1>19, <5>2, <6>1
                    <6> QED
                        BY <1>19, <4>3, <6>1, <6>2
                <5> QED
                    BY <5>1, <5>2
            <4> QED
                BY <2>1, <4>2, <4>3
        <3>2. \A k \in 1..(q + 1) : new[k].end > new[k].start
            <4> TAKE k \in 1..(q + 1)
            <4>1. CASE k \in 1..q
                <5>1. spans[k].start \in Nat /\ spans[k].end \in Nat /\ spans[k].start < spans[k].end
                    BY <1>10, <4>1
                <5> QED
                    BY <1>19, <4>1, <5>1
            <4>2. CASE k = q + 1
                BY <1>1, <1>19, <2>1, <4>2
            <4> QED
                BY <2>1, <4>1, <4>2
        <3>3. new # <<>> /\ DOMAIN new = 1..(q + 1) /\ Last(new).end = L + K
            <4>1. Last(new) = new[q + 1]
                BY <1>19 DEF Last
            <4>2. DOMAIN new = 1..(q + 1)
                BY <1>12, <1>19 DEF Spans
            <4>3. new # <<>>
                BY <2>1, <4>2
            <4> QED
                BY <1>19, <4>1, <4>2, <4>3
        <3> QED
            BY <1>1, <3>1, <3>2, <3>3 DEF Covers
    <2>3. ASSUME NEW k \in 1..(q + 1), NEW t \in (new[k].start + 1)..new[k].end
          PROVE  tokens[both[t]].mask = new[k].role
        <3>1. CASE k \in 1..q
            BY <1>15, <1>19, <2>3, <3>1
        <3>2. CASE k = q + 1
            <4>1. t \in (L + 1)..(L + K)
                BY <1>19, <2>3, <3>2
            <4> QED
                BY <1>8, <1>19, <3>2, <4>1
        <3> QED
            BY <2>1, <3>1, <3>2
    <2>4. \A k \in 1..((q + 1) - 1) : new[k].role # new[k + 1].role
        <3> TAKE k \in 1..((q + 1) - 1)
        <3>1. k \in 1..q /\ (k = q \/ k \in 1..(q - 1)) /\ q # 0
            BY <1>1
        <3>2. CASE k = q
            BY <1>19, <3>1, <3>2
        <3>3. CASE k \in 1..(q - 1)
            <4>1. k + 1 \in 1..q
                BY <1>1, <3>3
            <4> QED
                BY <1>11, <1>19, <3>1, <3>3, <4>1
        <3> QED
            BY <3>1, <3>2, <3>3
    <2>5. ASSUME NEW k \in 1..(q + 1), NEW i \in both[new[k].start + 1]..both[new[k].end]
          PROVE  Mine(tokens, i, new[k].role)
        <3>1. CASE k \in 1..q
            BY <1>15, <1>19, <2>5, <3>1
        <3>2. CASE k = q + 1
            <4>1. L + 1 \in (L + 1)..(L + K) /\ L + K \in (L + 1)..(L + K)
                BY <1>1, <2>1
            <4>2. both[L + 1] \in (n + 1)..(n + d) /\ both[L + K] \in (n + 1)..(n + d)
                BY <1>8, <4>1
            <4>3. i \in both[L + 1]..both[L + K]
                BY <1>19, <2>5, <3>2
            <4>4. i \in (n + 1)..(n + d)
                BY <4>2, <4>3
            <4> QED
                BY <1>9, <1>19, <3>2, <4>4
        <3> QED
            BY <2>1, <3>1, <3>2
    <2>6. SpansCome(both, whole, new, tokens, n + d)
        <3>1. \A i \in (both[L + K] + 1)..(n + d) : Mine(tokens, i, new[q + 1].role)
            BY <1>16, <1>19, <2>1
        <3> QED
            BY <1>1, <1>19, <2>3, <2>4, <2>5, <3>1 DEF SpansCome
    <2>7. Attributed(both, whole, new, tokens, n + d)
        BY <1>4, <2>2, <2>6 DEF Attributed, pieces
    <2> QED
        BY <2>7 DEF new, whole
<1> QED
    BY <1>12, <1>17, <1>18, <1>19

(* Reading a token sequence. *)
PieceSet(tokens) == {tokens[i].piece : i \in 1..Len(tokens)}
Unread == [first |-> 1, text |-> <<>>, spans |-> <<>>]
Readings(tokens) == [first : 1..(Len(tokens) + 1), text : Seq(Glyphs(PieceSet(tokens))), spans : Spans(0..1)]

IsReading(G, tokens) ==
    /\ G \in [0..Len(tokens) -> Readings(tokens)]
    /\ G[0] = Unread
    /\ compute(tokens) = IF G[Len(tokens)].text # decode(Pieces(tokens)) THEN NoSpans
                         ELSE [ok |-> TRUE, spans |-> G[Len(tokens)].spans]
    /\ \A k \in 1..Len(tokens) : G[k] = Read(tokens, G[k - 1], k)

(* The pieces of a run of tokens, and what they decode to. *)
LEMMA PiecesOfRun ==
    ASSUME NEW T, NEW tokens \in Seq(T), NEW first \in 1..(Len(tokens) + 1), NEW i \in 1..Len(tokens)
    PROVE  LET rest == Pieces(SubSeq(tokens, first, i))
               d == IF first <= i THEN i - first + 1 ELSE 0
           IN /\ rest \in Seq(PieceSet(tokens)) /\ Len(rest) = d
              /\ \A k \in 1..d : rest[k] = tokens[first + k - 1].piece
<1> DEFINE n == Len(tokens)
           d == IF first <= i THEN i - first + 1 ELSE 0
           run == SubSeq(tokens, first, i)
           rest == Pieces(run)
<1>1. n \in Nat /\ first \in Int /\ i \in Int /\ \A k \in first..i : k \in 1..n
    OBVIOUS
<1>2. /\ run \in Seq(T) /\ Len(run) = d
      /\ \A k \in 1..(i - first + 1) : run[k] = tokens[first + k - 1]
    <2>1. \A k \in first..i : tokens[k] \in T
        BY <1>1
    <2> QED
        BY <1>1, <2>1, SubSeqProperties
<1>3. d \in Nat /\ \A k \in 1..d : k \in 1..(i - first + 1) /\ first + k - 1 \in 1..n
    BY <1>1
<1>4. DOMAIN run = 1..d
    BY <1>2
<1>5. \A k \in 1..d : run[k] = tokens[first + k - 1]
    BY <1>2, <1>3
<1> HIDE DEF run, d
<1>6. rest = [k \in 1..d |-> run[k].piece]
    BY <1>4 DEF Pieces
<1>7. \A k \in 1..d : run[k].piece = tokens[first + k - 1].piece /\ tokens[first + k - 1].piece \in PieceSet(tokens)
    BY <1>3, <1>5 DEF PieceSet
<1>8. rest \in Seq(PieceSet(tokens)) /\ Len(rest) = d /\ \A k \in 1..d : rest[k] = tokens[first + k - 1].piece
    <2> HIDE DEF rest
    <2>1. rest \in [1..d -> PieceSet(tokens)]
        BY <1>6, <1>7
    <2> QED
        BY <1>3, <1>6, <1>7, <2>1
<1> QED
    BY <1>8 DEF d, run

(* A step of reading keeps the reading's type.                              *)
LEMMA ReadType ==
    ASSUME NEW T, NEW tokens \in Seq(T), \A t \in T : IsToken(t),
           NEW acc \in Readings(tokens), NEW i \in 1..Len(tokens)
    PROVE  Read(tokens, acc, i) \in Readings(tokens)
<1> DEFINE P == PieceSet(tokens)
           tail == decode(Pieces(SubSeq(tokens, acc.first, i)))
           text == acc.text \o tail
           role == tokens[i].mask
           spans == Join(acc.spans, role, Len(acc.text), Len(text))
<1>1. acc.first \in 1..(Len(tokens) + 1) /\ acc.text \in Seq(Glyphs(P)) /\ acc.spans \in Spans(0..1)
    BY DEF Readings
<1>2. tail \in Seq(Glyphs(P))
    BY <1>1, PiecesOfRun, DecodeTraces
<1> HIDE DEF tail, P
<1>3. text \in Seq(Glyphs(P)) /\ Len(text) \in Nat /\ Len(acc.text) \in Nat
    BY <1>1, <1>2
<1>4. role \in 0..1
    <2>1. tokens[i] \in T
        OBVIOUS
    <2> QED
        BY <2>1 DEF IsToken
<1> HIDE DEF text, role
<1>5. spans \in Spans(0..1)
    BY <1>1, <1>3, <1>4, JoinShape
<1> HIDE DEF spans
<1>6. i + 1 \in 1..(Len(tokens) + 1)
    OBVIOUS
<1>7. [first |-> i + 1, text |-> text, spans |-> spans] \in Readings(tokens)
    BY <1>3, <1>5, <1>6 DEF Readings, P
<1>8. Read(tokens, acc, i) = acc \/ Read(tokens, acc, i) = [first |-> i + 1, text |-> text, spans |-> spans]
    BY DEF Read, text, tail, role, spans
<1> QED
    BY <1>7, <1>8

(* Reading tokens is a run over their places.                               *)
LEMMA ReadingRuns ==
    ASSUME NEW T, NEW tokens \in Seq(T), \A t \in T : IsToken(t)
    PROVE  \E G : IsReading(G, tokens)
<1> DEFINE n == Len(tokens)
           D == 1..n
           A == Readings(tokens)
           places == [i \in DOMAIN tokens |-> i]
           step == [p \in D \X A |-> Read(tokens, p[2], p[1])]
           Body(iter) == [s \in SUBSET DOMAIN places |-> IF s = {} THEN Unread ELSE Read(tokens, iter[s \ {Max(s)}], places[Max(s)])]
           it == CHOOSE iter : iter = Body(iter)
<1>1. n \in Nat /\ DOMAIN tokens = 1..n /\ DOMAIN places = 1..n /\ \A i \in 1..n : places[i] = i
    OBVIOUS
<1>2. step \in [(1..n) \X A -> A] /\ Unread \in A
    <2>1. ASSUME NEW p \in (1..n) \X A PROVE Read(tokens, p[2], p[1]) \in A
        <3>1. p[2] \in A /\ p[1] \in 1..n
            OBVIOUS
        <3> HIDE DEF A
        <3> QED
            BY <3>1, ReadType DEF A
    <2>2. 1 \in 1..(Len(tokens) + 1) /\ <<>> \in Seq(Glyphs(PieceSet(tokens))) /\ <<>> \in Spans(0..1)
        BY <1>1 DEF Spans
    <2>3. Unread \in A
        BY <2>2 DEF Unread, Readings
    <2> HIDE DEF A
    <2> QED
        BY <2>1, <2>3
<1> HIDE DEF A
<1>3. PICK iter : IsLeftFold(iter, n, A, Unread, step)
    <2> HIDE DEF step, n
    <2> QED
        BY <1>1, <1>2, LeftFoldExists
<1>4. iter = Body(iter)
    <2>1. \A s \in SUBSET (1..n) : s # {} => Max(s) \in 1..n
        BY <1>1, MaxOf
    <2>2. ASSUME NEW s \in SUBSET (1..n), s # {}
          PROVE  iter[s] = Read(tokens, iter[s \ {Max(s)}], places[Max(s)])
        <3> DEFINE m == Max(s)
        <3>1. m \in 1..n /\ iter[s \ {m}] \in A
            BY <2>1, <2>2, <1>3 DEF IsLeftFold
        <3>2. iter[s] = step[<<m, iter[s \ {m}]>>]
            BY <1>3, <2>2 DEF IsLeftFold
        <3>4. places[m] = m
            BY <1>1, <3>1
        <3> HIDE DEF m
        <3>3. step[<<m, iter[s \ {m}]>>] = Read(tokens, iter[s \ {m}], m)
            BY <3>1
        <3> QED
            BY <3>2, <3>3, <3>4 DEF m
    <2>3. iter[{}] = Unread
        BY <1>3 DEF IsLeftFold
    <2> HIDE DEF places
    <2> QED
        BY <1>1, <1>3, <2>2, <2>3 DEF IsLeftFold
<1>5. it = Body(it)
    BY <1>4
<1>6. compute(tokens) = IF it[DOMAIN places].text # decode(Pieces(tokens)) THEN NoSpans
                        ELSE [ok |-> TRUE, spans |-> it[DOMAIN places].spans]
    BY DEF compute, FoldLeft, MapThenFoldSet, Unread
<1> HIDE DEF it
<1>7. it[{}] = Unread
    BY <1>5
<1>8. ASSUME NEW s \in SUBSET (1..n), s # {}, it[s \ {Max(s)}] \in A
      PROVE  it[s] = step[<<Max(s), it[s \ {Max(s)}]>>]
    <2> DEFINE m == Max(s)
    <2>1. m \in 1..n
        BY <1>1, <1>8, MaxOf
    <2>2. it[s] = Read(tokens, it[s \ {m}], places[m])
        <3> HIDE DEF places
        <3> QED
            BY <1>1, <1>5, <1>8
    <2>4. places[m] = m
        BY <1>1, <2>1
    <2> HIDE DEF m, places
    <2>3. step[<<m, it[s \ {m}]>>] = Read(tokens, it[s \ {m}], m)
        BY <1>8, <2>1 DEF m
    <2> QED
        BY <2>2, <2>3, <2>4 DEF m
<1> HIDE DEF step, Body, places
<1>9. Steps(it, n, A, step)
    BY <1>8 DEF Steps
<1> HIDE DEF n
<1>10. PICK G : IsRun(G, n, A, Unread, step, it)
    BY <1>1, <1>2, <1>7, <1>9, LeftFoldRuns
<1>11. \A k \in 1..n : step[<<k, G[k - 1]>>] = Read(tokens, G[k - 1], k)
    <2> TAKE k \in 1..n
    <2>1. k - 1 \in 0..n
        BY <1>1
    <2>2. G[k - 1] \in A
        BY <1>10, <2>1 DEF IsRun
    <2> QED
        BY <2>2 DEF step
<1>12. compute(tokens) = IF G[n].text # decode(Pieces(tokens)) THEN NoSpans
                         ELSE [ok |-> TRUE, spans |-> G[n].spans]
    BY <1>1, <1>6, <1>10 DEF IsRun
<1>13. /\ G \in [0..n -> A] /\ G[0] = Unread
       /\ \A k \in 1..n : G[k] = Read(tokens, G[k - 1], k)
    BY <1>10, <1>11 DEF IsRun
<1> QED
    BY <1>12, <1>13 DEF n, A, IsReading

(* After the first i tokens: the text and spans are of those before the run  *)
(* that is still being read.                                                 *)
IsAttributed(text, spans, tokens, n) == \E at : Attributed(at, text, spans, tokens, n)

ReadSoFar(tokens, acc, i) ==
    /\ acc.first \in 1..(i + 1)
    /\ \A j \in acc.first..i : tokens[j].mask = tokens[i].mask
    /\ acc.first <= i => i < Len(tokens) /\ tokens[i + 1].mask = tokens[i].mask
    /\ IsAttributed(acc.text, acc.spans, tokens, acc.first - 1)

(* It holds before the first token.                                         *)
LEMMA NothingRead ==
    ASSUME NEW tokens
    PROVE  ReadSoFar(tokens, Unread, 0)
<1>1. Len(<<>>) = 0 /\ (1..0) = {} /\ 1 - 1 = 0
    OBVIOUS
<1>2. Traces(<<>>, <<>>, Pieces(tokens), 0)
    BY DEF Traces
<1>3. Covers(<<>>, <<>>)
    BY DEF Covers
<1>4. SpansCome(<<>>, <<>>, <<>>, tokens, 0)
    BY DEF SpansCome
<1>5. IsAttributed(<<>>, <<>>, tokens, 0)
    BY <1>2, <1>3, <1>4 DEF Attributed, IsAttributed
<1>6. Unread.first = 1 /\ Unread.text = <<>> /\ Unread.spans = <<>>
    BY DEF Unread
<1> QED
    BY <1>1, <1>5, <1>6 DEF ReadSoFar

(* It holds after one token more, whether the token goes on with the run or *)
(* ends it.                                                                 *)
LEMMA ReadOn ==
    ASSUME NEW T, NEW tokens \in Seq(T), \A t \in T : IsToken(t),
           NEW i \in Nat, i + 1 <= Len(tokens), NEW acc \in Readings(tokens), ReadSoFar(tokens, acc, i)
    PROVE  ReadSoFar(tokens, Read(tokens, acc, i + 1), i + 1)
<1> DEFINE n == Len(tokens)
           j == i + 1
           role == tokens[j].mask
           first == acc.first
           P == PieceSet(tokens)
           rest == Pieces(SubSeq(tokens, first, j))
           tail == decode(rest)
           text == acc.text \o tail
           spans == Join(acc.spans, role, Len(acc.text), Len(text))
           d == j - first + 1
<1>1. n \in Nat /\ j \in 1..n /\ j - 1 = i
    OBVIOUS
<1>2. /\ first \in 1..(i + 1)
      /\ \A k \in first..i : tokens[k].mask = tokens[i].mask
      /\ first <= i => tokens[i + 1].mask = tokens[i].mask
      /\ IsAttributed(acc.text, acc.spans, tokens, first - 1)
    BY DEF ReadSoFar
<1>3. acc.text \in Seq(Glyphs(P)) /\ acc.spans \in Spans(0..1)
    BY DEF Readings
<1>4. \A k \in first..j : tokens[k].mask = role
    <2> SUFFICES ASSUME NEW k \in first..j PROVE tokens[k].mask = role
        OBVIOUS
    <2>1. k = j \/ (k \in first..i /\ first <= i)
        BY <1>1, <1>2
    <2> QED
        BY <1>2, <2>1
<1>5. role \in 0..1
    <2>1. tokens[j] \in T
        BY <1>1
    <2> QED
        BY <2>1 DEF IsToken
<1>6. CASE j < n /\ tokens[j + 1].mask = role
    <2>1. Read(tokens, acc, j) = acc
        BY <1>6 DEF Read
    <2>2. first \in 1..(j + 1)
        BY <1>1, <1>2
    <2> QED
        BY <1>2, <1>4, <1>6, <2>1, <2>2 DEF ReadSoFar
<1>7. CASE ~(j < n /\ tokens[j + 1].mask = role)
    <2>1. Read(tokens, acc, j) = [first |-> j + 1, text |-> text, spans |-> spans]
        BY <1>7 DEF Read
    <2>2. first \in 1..(n + 1) /\ first <= j /\ first - 1 \in Nat /\ d \in Nat /\ (first - 1) + d = j /\ j <= n
        BY <1>1, <1>2
    <2> HIDE DEF first, j
    <2>3. rest \in Seq(P) /\ Len(rest) = d /\ \A k \in 1..d : rest[k] = tokens[(first - 1) + k].piece
        <3>1. \A k \in 1..d : first + k - 1 = (first - 1) + k
            BY <2>2
        <3>2. /\ rest \in Seq(P) /\ Len(rest) = d
              /\ \A k \in 1..d : rest[k] = tokens[first + k - 1].piece
            BY <1>1, <2>2, PiecesOfRun, ZenonT(60)
        <3> QED
            BY <3>1, <3>2
    <2> HIDE DEF d, rest
    <2>4. tail \in Seq(Glyphs(P)) /\ \E more : Traces(more, tail, rest, d)
        <3> HIDE DEF P
        <3> QED
            BY <2>3, DecodeTraces
    <2>5. PICK more : Traces(more, tail, rest, d)
        BY <2>4
    <2>6. PICK at : Attributed(at, acc.text, acc.spans, tokens, first - 1)
        BY <1>2 DEF IsAttributed
    <2>7. \A k \in ((first - 1) + 1)..((first - 1) + d) : tokens[k].mask = role
        <3>1. (first - 1) + 1 = first
            BY <2>2
        <3> QED
            BY <1>4, <2>2, <3>1
    <2> HIDE DEF tail, role, P
    <2>8. (first - 1) + d <= Len(tokens)
        BY <2>2
    <2>9. \E both : Attributed(both, acc.text \o tail, Join(acc.spans, role, Len(acc.text), Len(acc.text \o tail)),
                               tokens, (first - 1) + d)
        BY <1>3, <1>5, <2>2, <2>3, <2>4, <2>5, <2>6, <2>7, <2>8, AddRun
    <2>10. IsAttributed(text, spans, tokens, j)
        BY <2>2, <2>9 DEF IsAttributed
    <2>11. j \in Nat /\ (j + 1) - 1 = j /\ j + 1 \in 1..(j + 1) /\ ~(j + 1 <= j) /\ (j + 1)..j = {}
        BY <1>1 DEF j
    <2> HIDE DEF text, spans
    <2> DEFINE new == [first |-> j + 1, text |-> text, spans |-> spans]
    <2>12. new.first = j + 1 /\ new.text = text /\ new.spans = spans
        OBVIOUS
    <2> HIDE DEF new
    <2>13. ReadSoFar(tokens, new, j)
        BY <2>10, <2>11, <2>12 DEF ReadSoFar
    <2>14. ReadSoFar(tokens, Read(tokens, acc, j), j)
        BY <2>1, <2>13 DEF new
    <2> QED
        BY <2>14 DEF j
<1> QED
    BY <1>6, <1>7

(* Spans that compute gives out are attributed to the tokens: each is a     *)
(* stretch of one role's own text (role_spans.py).                          *)
LEMMA ComputeAttributes ==
    ASSUME NEW T, NEW tokens \in Seq(T), \A t \in T : IsToken(t)
    PROVE  LET s == compute(tokens)
           IN /\ s.ok \in BOOLEAN /\ s.spans \in Spans(0..1)
              /\ s.ok => IsAttributed(decode(Pieces(tokens)), s.spans, tokens, Len(tokens))
<1> DEFINE n == Len(tokens)
           text == decode(Pieces(tokens))
<1>1. PICK G : IsReading(G, tokens)
    BY ReadingRuns
<1>2. /\ n \in Nat /\ G \in [0..n -> Readings(tokens)] /\ G[0] = Unread
      /\ compute(tokens) = IF G[n].text # text THEN NoSpans ELSE [ok |-> TRUE, spans |-> G[n].spans]
      /\ \A k \in 1..n : G[k] = Read(tokens, G[k - 1], k)
    BY <1>1 DEF IsReading
<1> HIDE DEF n, text
<1> DEFINE Q == {k \in Nat : k <= n => ReadSoFar(tokens, G[k], k)}
<1>3. 0 \in Q
    BY <1>2, NothingRead
<1>4. ASSUME NEW k \in Q PROVE k + 1 \in Q
    <2> SUFFICES ASSUME k + 1 <= n PROVE ReadSoFar(tokens, G[k + 1], k + 1)
        OBVIOUS
    <2>1. k \in Nat /\ k <= n /\ ReadSoFar(tokens, G[k], k)
        BY <1>2
    <2>2. k \in 0..n /\ k + 1 \in 1..n /\ (k + 1) - 1 = k
        BY <1>2, <2>1
    <2>3. G[k] \in Readings(tokens) /\ G[k + 1] = Read(tokens, G[k], k + 1)
        BY <1>2, <2>2
    <2> QED
        BY <2>1, <2>3, ReadOn DEF n
<1>5. Q = Nat
    <2> HIDE DEF Q
    <2>1. Q \in SUBSET Nat
        BY DEF Q
    <2> QED
        BY <1>3, <1>4, <2>1, EveryNumber
<1>6. n \in Q
    <2> HIDE DEF Q
    <2> QED
        BY <1>2, <1>5
<1>7. ReadSoFar(tokens, G[n], n) /\ G[n] \in Readings(tokens)
    BY <1>2, <1>6
<1> HIDE DEF Q
<1>8. G[n].first - 1 = n /\ IsAttributed(G[n].text, G[n].spans, tokens, n)
    <2>1. G[n].first \in 1..(n + 1) /\ ~(G[n].first <= n) /\ IsAttributed(G[n].text, G[n].spans, tokens, G[n].first - 1)
        BY <1>2, <1>7 DEF ReadSoFar, n
    <2>2. \A f \in Int : f \in 1..(n + 1) /\ ~(f <= n) => f - 1 = n
        BY <1>2
    <2>3. G[n].first \in Int
        BY <2>1
    <2> QED
        BY <2>1, <2>2, <2>3
<1>9. G[n].spans \in Spans(0..1) /\ <<>> \in Spans(0..1)
    <2>1. G[n].spans \in Spans(0..1)
        BY <1>7 DEF Readings
    <2> QED
        BY <2>1 DEF Spans
<1>10. CASE G[n].text # text
    BY <1>2, <1>9, <1>10 DEF NoSpans
<1>11. CASE G[n].text = text
    <2>1. compute(tokens) = [ok |-> TRUE, spans |-> G[n].spans]
        BY <1>2, <1>11
    <2> QED
        BY <1>8, <1>9, <1>11, <2>1 DEF n, text
<1> QED
    BY <1>10, <1>11

(* The block that ends at r. *)
IsBlock(text, p, r) ==
    /\ p \in 1..Len(text) /\ r \in 1..Len(text) /\ p < r
    /\ text[p] = Open /\ text[r] = Close /\ \A c \in (p + 1)..(r - 1) : text[c] # Close

(* The last stray end before r, if there is one.                            *)
LEMMA LastCloseIs ==
    ASSUME NEW S, NEW text \in Seq(S), NEW r \in 1..Len(text)
    PROVE  /\ LastClose(text, r) \in 0..(r - 1)
           /\ LastClose(text, r) # 0 => text[LastClose(text, r)] = Close
           /\ \A c \in 1..(r - 1) : text[c] = Close => c <= LastClose(text, r)
<1> DEFINE before == {c \in 1..(r - 1) : text[c] = Close}
<1>1. r - 1 \in Nat /\ before \in SUBSET (1..(r - 1))
    OBVIOUS
<1>2. LastClose(text, r) = IF before = {} THEN 0 ELSE Max(before)
    BY DEF LastClose
<1>3. before # {} => Max(before) \in before /\ \A c \in before : c <= Max(before)
    <2> HIDE DEF before
    <2> QED
        BY <1>1, MaxOf
<1>4. CASE before = {}
    BY <1>1, <1>2, <1>4
<1>5. CASE before # {}
    <2>1. LastClose(text, r) \in before /\ \A c \in before : c <= LastClose(text, r)
        BY <1>2, <1>3, <1>5
    <2>2. LastClose(text, r) \in 0..(r - 1) /\ text[LastClose(text, r)] = Close
        BY <2>1
    <2> QED
        BY <2>1, <2>2
<1> QED
    BY <1>4, <1>5

(* A block is found by its end.                                             *)
LEMMA BlockEnds ==
    ASSUME NEW S, NEW text \in Seq(S), NEW p, NEW r, IsBlock(text, p, r)
    PROVE  r \in Ends(text)
<1>1. /\ p \in 1..Len(text) /\ r \in 1..Len(text) /\ p < r /\ Len(text) \in Nat /\ DOMAIN text = 1..Len(text)
      /\ text[p] = Open /\ text[r] = Close /\ \A c \in (p + 1)..(r - 1) : text[c] # Close
    BY DEF IsBlock
<1> DEFINE last == LastClose(text, r)
<1>2. /\ last \in 0..(r - 1) /\ (last # 0 => text[last] = Close)
    BY <1>1, LastCloseIs
<1> HIDE DEF last
<1>3. last # p /\ last \notin (p + 1)..(r - 1)
    <2>1. Open # Close /\ p # 0
        BY <1>1 DEF Open, Close
    <2>2. \A c \in (p + 1)..(r - 1) : c # 0
        BY <1>1
    <2> QED
        BY <1>1, <1>2, <2>1, <2>2
<1>4. p \in (last + 1)..(r - 1)
    BY <1>1, <1>2, <1>3
<1>5. p \in OpensFor(text, r)
    BY <1>1, <1>4 DEF OpensFor, last
<1> QED
    BY <1>1, <1>5 DEF Ends

IsAnswer(text, answer, p, r) ==
    /\ IsBlock(text, p, r) /\ \A e \in Ends(text) : e <= r
    /\ Len(answer) = r - p - 1 /\ DOMAIN answer = 1..(r - p - 1)
    /\ \A i \in 1..(r - p - 1) : answer[i] = text[p + i]

(* What is extracted is the last block's inside, which no text without a    *)
(* block can give, and nothing if there is no block (extract_answer).       *)
LEMMA ExtractIs ==
    ASSUME NEW S, NEW text \in Seq(S)
    PROVE  IF Ends(text) = {} THEN extract_answer(text) = NoAnswer
           ELSE extract_answer(text) # NoAnswer /\ \E p, r : IsAnswer(text, extract_answer(text), p, r)
<1>1. CASE Ends(text) = {}
    BY <1>1 DEF extract_answer
<1>2. CASE Ends(text) # {}
    <2> DEFINE r == Max(Ends(text))
               p == Min(OpensFor(text, r))
               answer == SubSeq(text, p + 1, r - 1)
               last == LastClose(text, r)
    <2>1. Len(text) \in Nat /\ Ends(text) \in SUBSET (1..Len(text))
        BY DEF Ends
    <2>2. r \in Ends(text) /\ \A e \in Ends(text) : e <= r
        BY <1>2, <2>1, MaxOf
    <2>3. r \in 1..Len(text) /\ text[r] = Close /\ OpensFor(text, r) # {}
        <3> HIDE DEF r
        <3>1. DOMAIN text = 1..Len(text)
            OBVIOUS
        <3> QED
            BY <2>2, <3>1 DEF Ends
    <2>4. extract_answer(text) = answer
        BY <1>2 DEF extract_answer
    <2> HIDE DEF r
    <2>5. last \in 0..(r - 1) /\ \A c \in 1..(r - 1) : text[c] = Close => c <= last
        BY <2>3, LastCloseIs
    <2>6. p \in OpensFor(text, r)
        <3>1. OpensFor(text, r) \in SUBSET Nat
            BY <2>3, <2>5 DEF OpensFor
        <3>2. \E x \in OpensFor(text, r) : \A y \in OpensFor(text, r) : x <= y
            BY <2>3, <3>1, FirstExists
        <3> QED
            BY <3>2 DEF Min
    <2>7. p \in (last + 1)..(r - 1) /\ text[p] = Open
        BY <2>6 DEF OpensFor
    <2> HIDE DEF p, last
    <2>8. p \in 1..Len(text) /\ p < r /\ \A c \in (p + 1)..(r - 1) : text[c] # Close
        <3>1. \A c \in (p + 1)..(r - 1) : c \in 1..(r - 1) /\ ~(c <= last)
            BY <2>1, <2>3, <2>5, <2>7
        <3> QED
            BY <2>1, <2>3, <2>5, <2>7, <3>1
    <2>9. /\ answer \in Seq(S) /\ Len(answer) = r - p - 1
          /\ \A i \in 1..(r - p - 1) : answer[i] = text[p + i]
        <3>1. p + 1 \in Int /\ r - 1 \in Int /\ (r - 1) - (p + 1) + 1 = r - p - 1
            BY <2>1, <2>3, <2>8
        <3>2. \A i \in (p + 1)..(r - 1) : text[i] \in S
            <4>1. \A i \in (p + 1)..(r - 1) : i \in 1..Len(text)
                BY <2>1, <2>3, <2>8
            <4> QED
                BY <4>1
        <3>3. /\ answer \in Seq(S)
              /\ Len(answer) = IF p + 1 <= r - 1 THEN (r - 1) - (p + 1) + 1 ELSE 0
              /\ \A i \in 1..((r - 1) - (p + 1) + 1) : answer[i] = text[(p + 1) + i - 1]
            BY <3>1, <3>2, SubSeqProperties
        <3> HIDE DEF answer
        <3>4. (IF p + 1 <= r - 1 THEN (r - 1) - (p + 1) + 1 ELSE 0) = r - p - 1
            BY <2>1, <2>3, <2>8
        <3>5. \A i \in 1..(r - p - 1) : (p + 1) + i - 1 = p + i
            BY <2>1, <2>8
        <3>6. answer \in Seq(S) /\ Len(answer) = r - p - 1
            BY <3>3, <3>4
        <3>7. \A i \in 1..(r - p - 1) : answer[i] = text[(p + 1) + i - 1]
            BY <3>1, <3>3
        <3> QED
            BY <3>5, <3>6, <3>7
    <2> HIDE DEF answer
    <2>10. answer # NoAnswer
        <3> SUFFICES ASSUME answer = NoAnswer PROVE FALSE
            OBVIOUS
        <3>1. Len(answer) = 1 /\ answer[1] = Close
            BY DEF NoAnswer
        <3>2. 1 \in 1..(r - p - 1) /\ p + 1 \in (p + 1)..(r - 1)
            <4>1. r - p - 1 = 1
                <5>1. Len(answer) = r - p - 1 /\ Len(answer) = 1
                    BY <2>9, <3>1
                <5> QED
                    BY <5>1
            <4>2. r \in Int /\ p \in Int
                BY <2>3, <2>8
            <4> QED
                BY <4>1, <4>2
        <3> QED
            BY <2>8, <2>9, <3>1, <3>2
    <2>11. IsBlock(text, p, r)
        BY <2>3, <2>7, <2>8 DEF IsBlock
    <2>12. DOMAIN answer = 1..(r - p - 1)
        BY <2>9
    <2>13. IsAnswer(text, answer, p, r)
        BY <2>2, <2>9, <2>11, <2>12 DEF IsAnswer
    <2> QED
        BY <1>2, <2>4, <2>10, <2>13
<1> QED
    BY <1>1, <1>2

(* The order of the symbols is that of their tokens. *)
IsOrdered(at, text, n) ==
    \A s, t \in 1..Len(text) : /\ at[s] \in 1..n /\ at[t] \in 1..n
                               /\ (at[s] < at[t] <=> s < t) /\ (at[s] <= at[t] <=> s <= t)

(* To come of pieces in order is to keep their order both ways.             *)
LEMMA TraceOrder ==
    ASSUME NEW S, NEW text \in Seq(S), NEW pieces, NEW n \in Nat, NEW at, Traces(at, text, pieces, n)
    PROVE  IsOrdered(at, text, n)
<1> SUFFICES ASSUME NEW s \in 1..Len(text), NEW t \in 1..Len(text)
             PROVE  /\ at[s] \in 1..n /\ at[t] \in 1..n
                    /\ (at[s] < at[t] <=> s < t) /\ (at[s] <= at[t] <=> s <= t)
    BY DEF IsOrdered
<1>1. at[s] \in 1..n /\ at[t] \in 1..n
    BY DEF Traces
<1>2. (s < t => at[s] < at[t]) /\ (t < s => at[t] < at[s])
    BY DEF Traces
<1>3. s < t \/ s = t \/ t < s
    OBVIOUS
<1> QED
    BY <1>1, <1>2, <1>3

(* A segment is the part of the text that its span is for. *)
IsPartOf(seg, text, start, end) ==
    /\ Len(seg) = end - start /\ DOMAIN seg = 1..(end - start)
    /\ \A x \in 1..(end - start) : seg[x] = text[start + x]

(* A role's segments are the parts of the text that its spans are for.      *)
LEMMA SegmentsAre ==
    ASSUME NEW M, NEW spans \in Spans(M), NEW S, NEW text \in Seq(S), Covers(text, spans), NEW role
    PROVE  /\ DOMAIN Segments(text, spans, role) = {k \in 1..Len(spans) : spans[k].role = role}
           /\ \A k \in 1..Len(spans) : spans[k].role = role =>
                  /\ Segments(text, spans, role)[k] \in Seq(S)
                  /\ IsPartOf(Segments(text, spans, role)[k], text, spans[k].start, spans[k].end)
<1>1. DOMAIN spans = 1..Len(spans)
    BY DEF Spans
<1>2. DOMAIN Segments(text, spans, role) = {k \in 1..Len(spans) : spans[k].role = role}
    BY <1>1 DEF Segments
<1>3. ASSUME NEW k \in 1..Len(spans), spans[k].role = role
      PROVE  /\ Segments(text, spans, role)[k] \in Seq(S)
             /\ IsPartOf(Segments(text, spans, role)[k], text, spans[k].start, spans[k].end)
    <2> DEFINE s == spans[k].start
               e == spans[k].end
               seg == SubSeq(text, s + 1, e)
    <2>1. Segments(text, spans, role)[k] = seg
        BY <1>1, <1>3 DEF Segments
    <2>2. s \in Nat /\ e \in Nat /\ s < e /\ e <= Len(text) /\ Len(text) \in Nat
        BY SpansCover
    <2> HIDE DEF s, e
    <2>3. s + 1 \in Int /\ e \in Int /\ e - (s + 1) + 1 = e - s /\ s + 1 <= e
        BY <2>2
    <2>4. \A i \in (s + 1)..e : text[i] \in S
        <3>1. \A i \in (s + 1)..e : i \in 1..Len(text)
            BY <2>2
        <3> QED
            BY <3>1
    <2>5. /\ seg \in Seq(S) /\ Len(seg) = IF s + 1 <= e THEN e - (s + 1) + 1 ELSE 0
          /\ \A i \in 1..(e - (s + 1) + 1) : seg[i] = text[(s + 1) + i - 1]
        BY <2>3, <2>4, SubSeqProperties
    <2> HIDE DEF seg
    <2>6. Len(seg) = e - s /\ seg \in Seq(S)
        BY <2>3, <2>5
    <2>7. DOMAIN seg = 1..(e - s)
        BY <2>6
    <2>8. \A i \in 1..(e - s) : (s + 1) + i - 1 = s + i
        BY <2>2
    <2>9. \A i \in 1..(e - s) : seg[i] = text[s + i]
        BY <2>3, <2>5, <2>8
    <2>10. IsPartOf(seg, text, s, e)
        BY <2>6, <2>7, <2>9 DEF IsPartOf
    <2> QED
        BY <2>1, <2>6, <2>10 DEF s, e
<1> QED
    BY <1>2, <1>3

(* A block of a segment is one of the text, and the other way round. *)
LEMMA SegmentBlock ==
    ASSUME NEW S, NEW text \in Seq(S), NEW start \in Nat, NEW end \in Nat, start < end, end <= Len(text),
           NEW seg, IsPartOf(seg, text, start, end)
    PROVE  /\ \A p, r : IsBlock(seg, p, r) => IsBlock(text, start + p, start + r)
           /\ \A p, r : IsBlock(text, p, r) /\ start < p /\ r <= end => IsBlock(seg, p - start, r - start)
<1>0. Len(text) \in Nat
    OBVIOUS
<1>1. Len(seg) = end - start /\ \A x \in 1..(end - start) : seg[x] = text[start + x]
    BY DEF IsPartOf
<1>2. ASSUME NEW p, NEW r, IsBlock(seg, p, r) PROVE IsBlock(text, start + p, start + r)
    <2> DEFINE P == start + p
               R == start + r
    <2>1. p \in 1..(end - start) /\ r \in 1..(end - start) /\ p < r
        BY <1>1, <1>2 DEF IsBlock
    <2>2. seg[p] = Open /\ seg[r] = Close /\ \A c \in (p + 1)..(r - 1) : seg[c] # Close
        BY <1>2 DEF IsBlock
    <2>3. /\ P \in 1..Len(text) /\ R \in 1..Len(text) /\ P < R
          /\ \A c \in (P + 1)..(R - 1) : c - start \in (p + 1)..(r - 1) /\ c - start \in 1..(end - start) /\ start + (c - start) = c
        BY <1>0, <2>1
    <2>4. text[P] = Open /\ text[R] = Close
        BY <1>1, <2>1, <2>2
    <2> HIDE DEF P, R
    <2>5. ASSUME NEW c \in (P + 1)..(R - 1) PROVE text[c] # Close
        <3>1. c - start \in (p + 1)..(r - 1) /\ c - start \in 1..(end - start) /\ start + (c - start) = c
            BY <2>3
        <3>2. seg[c - start] = text[c]
            BY <1>1, <3>1
        <3> QED
            BY <2>2, <3>1, <3>2
    <2>6. IsBlock(text, P, R)
        BY <2>3, <2>4, <2>5 DEF IsBlock
    <2> QED
        BY <2>6 DEF P, R
<1>3. ASSUME NEW p, NEW r, IsBlock(text, p, r), start < p, r <= end PROVE IsBlock(seg, p - start, r - start)
    <2>1. p \in 1..Len(text) /\ r \in 1..Len(text) /\ p < r
        BY <1>3 DEF IsBlock
    <2>2. text[p] = Open /\ text[r] = Close /\ \A c \in (p + 1)..(r - 1) : text[c] # Close
        BY <1>3 DEF IsBlock
    <2>3. /\ p - start \in 1..(end - start) /\ r - start \in 1..(end - start) /\ p - start < r - start
          /\ start + (p - start) = p /\ start + (r - start) = r
        BY <1>0, <1>3, <2>1
    <2>4. seg[p - start] = Open /\ seg[r - start] = Close
        BY <1>1, <2>2, <2>3
    <2>5. ASSUME NEW c \in (p - start + 1)..(r - start - 1) PROVE seg[c] # Close
        <3>1. start + c \in (p + 1)..(r - 1) /\ c \in 1..(end - start)
            BY <1>3, <2>1
        <3> QED
            BY <1>1, <2>2, <3>1
    <2> QED
        BY <1>1, <2>3, <2>4, <2>5 DEF IsBlock
<1> QED
    BY <1>2, <1>3

-----------------------------------------------------------------------------
(* A block in a span of the model's is an answer that the model wrote. *)
LEMMA BlockIsAnswer ==
    ASSUME NEW T, NEW tokens \in Seq(T), NEW S, NEW text \in Seq(S), NEW spans \in Spans(0..1),
           NEW at, Attributed(at, text, spans, tokens, Len(tokens)),
           NEW k \in 1..Len(spans), spans[k].role = 1,
           NEW p, NEW r, IsBlock(text, p, r), spans[k].start < p, r <= spans[k].end
    PROVE  /\ at[p] \in 1..Len(tokens) /\ at[r] \in 1..Len(tokens) /\ at[p] < at[r]
           /\ Answers(tokens, at[p], at[r])
<1> DEFINE n == Len(tokens)
           pieces == Pieces(tokens)
           s == spans[k].start
           e == spans[k].end
<1>1. n \in Nat /\ \A i \in 1..n : pieces[i] = tokens[i].piece
    BY DEF Pieces
<1>2. Traces(at, text, pieces, n) /\ Covers(text, spans) /\ SpansCome(at, text, spans, tokens, n)
    BY DEF Attributed
<1>3. s \in Nat /\ e \in Nat /\ s < e /\ e <= Len(text) /\ Len(text) \in Nat
    BY <1>2, SpansCover
<1>4. /\ p \in 1..Len(text) /\ r \in 1..Len(text) /\ p < r /\ text[p] = Open /\ text[r] = Close
      /\ \A c \in (p + 1)..(r - 1) : text[c] # Close
    BY DEF IsBlock
<1>5. \A i \in at[s + 1]..at[e] : Mine(tokens, i, 1)
    BY <1>2 DEF SpansCome
<1>6. s < p /\ r <= e
    OBVIOUS
<1> HIDE DEF s, e, n, pieces
<1>7. \A t, u \in 1..Len(text) : /\ at[t] \in 1..n /\ at[u] \in 1..n
                                 /\ (at[t] < at[u] <=> t < u) /\ (at[t] <= at[u] <=> t <= u)
    <2>1. IsOrdered(at, text, n)
        BY <1>1, <1>2, TraceOrder
    <2> QED
        BY <2>1 DEF IsOrdered
<1>8. s + 1 \in 1..Len(text) /\ e \in 1..Len(text) /\ s + 1 <= p
    BY <1>3, <1>4, <1>6
<1>9. at[p] \in 1..n /\ at[r] \in 1..n /\ at[p] < at[r] /\ at[s + 1] <= at[p] /\ at[r] <= at[e]
      /\ at[s + 1] \in 1..n /\ at[e] \in 1..n
    BY <1>4, <1>6, <1>7, <1>8
<1>10. ModelWrote(tokens, at[p], at[r])
    <2>1. \A i \in at[p]..at[r] : i \in at[s + 1]..at[e]
        <3>1. \A a, b, c, d \in Int : a <= b /\ c <= d => \A i \in b..c : i \in a..d
            OBVIOUS
        <3>2. at[s + 1] \in Int /\ at[p] \in Int /\ at[r] \in Int /\ at[e] \in Int
            BY <1>9
        <3> QED
            BY <1>9, <3>1, <3>2
    <2> QED
        BY <1>5, <2>1 DEF ModelWrote, Mine
<1>11. tokens[at[p]].piece = Open /\ tokens[at[r]].piece = Close
    <2>1. Open \notin {Half, "character"} /\ Close \notin {Half, "character"}
        BY DEF Open, Close, Half
    <2>2. pieces[at[p]] = Open /\ pieces[at[r]] = Close
        BY <1>2, <1>4, <2>1 DEF Traces
    <2> QED
        BY <1>1, <1>9, <2>2
<1>12. ASSUME NEW i \in (at[p] + 1)..(at[r] - 1), tokens[i].piece = Close PROVE FALSE
    <2>1. i \in 1..n /\ at[p] < i /\ i < at[r]
        <3>1. \A a, b \in 1..n : \A j \in (a + 1)..(b - 1) : j \in 1..n /\ a < j /\ j < b
            BY <1>1
        <3> QED
            BY <1>9, <3>1
    <2>2. Close \notin {Special, Half}
        BY DEF Close, Special, Half
    <2>3. PICK t \in 1..Len(text) : at[t] = i /\ text[t] = Close
        <3>1. pieces[i] = Close
            BY <1>1, <1>12, <2>1
        <3>2. \A j \in 1..n : pieces[j] \notin {Special, Half} => \E t \in 1..Len(text) : at[t] = j /\ text[t] = pieces[j]
            BY <1>2 DEF Traces
        <3> QED
            BY <2>1, <2>2, <3>1, <3>2
    <2>4. p < t /\ t < r
        BY <1>4, <1>7, <2>1, <2>3
    <2>5. t \in (p + 1)..(r - 1)
        BY <1>4, <2>4
    <2> QED
        BY <1>4, <2>3, <2>5
<1>13. Answers(tokens, at[p], at[r])
    BY <1>10, <1>11, <1>12 DEF Answers
<1> QED
    BY <1>9, <1>13 DEF n

(* An answer that the model wrote is a block in one of its spans. *)
LEMMA AnswerIsBlock ==
    ASSUME NEW T, NEW tokens \in Seq(T), NEW S, NEW text \in Seq(S), NEW spans \in Spans(0..1),
           NEW at, Attributed(at, text, spans, tokens, Len(tokens)),
           NEW q \in 1..Len(tokens), NEW z \in 1..Len(tokens), q < z, Answers(tokens, q, z)
    PROVE  \E k \in 1..Len(spans), p, r \in 1..Len(text) :
               /\ at[p] = q /\ at[r] = z /\ IsBlock(text, p, r)
               /\ spans[k].role = 1 /\ spans[k].start < p /\ r <= spans[k].end
<1> DEFINE n == Len(tokens)
           pieces == Pieces(tokens)
           m == Len(spans)
<1>1. n \in Nat /\ m \in Nat /\ Len(text) \in Nat /\ \A i \in 1..n : pieces[i] = tokens[i].piece
    BY DEF Pieces, Spans
<1>2. Traces(at, text, pieces, n) /\ Covers(text, spans) /\ SpansCome(at, text, spans, tokens, n)
    BY DEF Attributed
<1>3. /\ tokens[q].piece = Open /\ tokens[z].piece = Close
      /\ \A i \in q..z : tokens[i].mask = 1 \/ tokens[i].piece = Special
      /\ \A i \in (q + 1)..(z - 1) : tokens[i].piece # Close
    BY DEF Answers, ModelWrote
<1>4. /\ \A k \in 1..m : \A t \in (spans[k].start + 1)..spans[k].end : tokens[at[t]].mask = spans[k].role
      /\ \A k \in 1..(m - 1) : spans[k].role # spans[k + 1].role
    BY <1>2 DEF SpansCome
<1>5. /\ \A k \in 1..m : /\ spans[k].start \in Nat /\ spans[k].end \in Nat
                         /\ spans[k].start < spans[k].end /\ spans[k].end <= Len(text)
                         /\ spans[k].start = IF k = 1 THEN 0 ELSE spans[k - 1].end
      /\ \A k, l \in 1..m : k < l => spans[k].end <= spans[l].start
      /\ \A t \in 1..Len(text) : \E k \in 1..m : spans[k].start < t /\ t <= spans[k].end
    BY <1>2, SpansCover
<1> HIDE DEF n, pieces, m
<1>6. \A t, u \in 1..Len(text) : /\ at[t] \in 1..n /\ at[u] \in 1..n
                                 /\ (at[t] < at[u] <=> t < u) /\ (at[t] <= at[u] <=> t <= u)
    <2>1. IsOrdered(at, text, n)
        BY <1>1, <1>2, TraceOrder
    <2> QED
        BY <2>1 DEF IsOrdered
<1>7. Open \notin {Special, Half} /\ Close \notin {Special, Half, "character"}
    BY DEF Open, Close, Special, Half
<1>8. q \in 1..n /\ z \in 1..n
    BY DEF n
<1>9. \A i \in 1..n : pieces[i] \notin {Special, Half} => \E t \in 1..Len(text) : at[t] = i /\ text[t] = pieces[i]
    BY <1>2 DEF Traces
<1>10. PICK p \in 1..Len(text) : at[p] = q /\ text[p] = Open
    BY <1>1, <1>3, <1>7, <1>8, <1>9
<1>11. PICK r \in 1..Len(text) : at[r] = z /\ text[r] = Close
    BY <1>1, <1>3, <1>7, <1>8, <1>9
<1>12. p < r
    BY <1>6, <1>10, <1>11
<1>13. ASSUME NEW c \in (p + 1)..(r - 1) PROVE text[c] # Close
    <2> SUFFICES ASSUME text[c] = Close PROVE FALSE
        OBVIOUS
    <2>1. c \in 1..Len(text) /\ p < c /\ c < r
        BY <1>1
    <2>2. at[c] \in 1..n /\ q < at[c] /\ at[c] < z
        BY <1>6, <1>10, <1>11, <2>1
    <2>3. pieces[at[c]] = Close
        BY <1>2, <1>7, <2>1 DEF Traces
    <2>4. at[c] \in (q + 1)..(z - 1)
        BY <1>8, <2>2
    <2> QED
        BY <1>1, <1>3, <2>2, <2>3, <2>4
<1>14. IsBlock(text, p, r)
    BY <1>10, <1>11, <1>12, <1>13 DEF IsBlock
<1>15. ASSUME NEW t \in 1..Len(text), p <= t, t <= r PROVE tokens[at[t]].mask = 1
    <2>1. at[t] \in 1..n /\ q <= at[t] /\ at[t] <= z
        BY <1>6, <1>10, <1>11, <1>15
    <2>2. pieces[at[t]] # Special
        BY <1>2 DEF Traces
    <2>3. at[t] \in q..z
        BY <1>8, <2>1
    <2> QED
        BY <1>1, <1>3, <2>1, <2>2, <2>3
<1>16. PICK k \in 1..m : spans[k].start < p /\ p <= spans[k].end
    BY <1>5
<1>17. ASSUME NEW j \in 1..m, NEW t \in 1..Len(text), p <= t, t <= r, spans[j].start < t, t <= spans[j].end
       PROVE  spans[j].role = 1
    <2>1. t \in (spans[j].start + 1)..spans[j].end
        <3>1. spans[j].start \in Nat /\ spans[j].end \in Nat
            BY <1>5
        <3> QED
            BY <1>17, <3>1
    <2> QED
        BY <1>4, <1>15, <1>17, <2>1
<1>18. spans[k].role = 1
    BY <1>1, <1>12, <1>16, <1>17
<1>19. r <= spans[k].end
    <2> SUFFICES ASSUME ~(r <= spans[k].end) PROVE FALSE
        OBVIOUS
    <2>1. spans[k].end \in Nat /\ spans[k].end < r
        BY <1>5
    <2>2. PICK l \in 1..m : spans[l].start < r /\ r <= spans[l].end
        BY <1>5
    <2>3. k # l /\ ~(l < k)
        <3>1. l < k => spans[l].end <= spans[k].start
            BY <1>5
        <3>2. spans[k].start \in Nat /\ spans[l].end \in Nat
            BY <1>5
        <3> QED
            BY <1>12, <1>16, <2>1, <2>2, <3>1, <3>2, SMTT(40)
    <2>4. k + 1 \in 1..m /\ k \in 1..(m - 1) /\ k + 1 # 1 /\ (k + 1) - 1 = k
        BY <1>1, <2>3
    <2>5. /\ spans[k + 1].start = spans[k].end /\ spans[k + 1].end \in Nat
          /\ spans[k + 1].start < spans[k + 1].end /\ spans[k + 1].end <= Len(text)
        BY <1>5, <2>4
    <2> DEFINE t == spans[k].end + 1
    <2>6. t \in 1..Len(text) /\ p <= t /\ t <= r /\ spans[k + 1].start < t /\ t <= spans[k + 1].end
        <3> DEFINE e == spans[k].end
                   f == spans[k + 1].end
        <3>1. e \in Nat /\ f \in Nat /\ e < f /\ f <= Len(text) /\ p <= e /\ e < r /\ spans[k + 1].start = e
            BY <1>16, <2>1, <2>5
        <3> HIDE DEF e, f
        <3>2. e + 1 \in 1..Len(text) /\ p <= e + 1 /\ e + 1 <= r /\ e < e + 1 /\ e + 1 <= f
            BY <1>1, <3>1
        <3> QED
            BY <3>1, <3>2 DEF e, f
    <2>7. spans[k + 1].role = 1
        BY <1>17, <2>4, <2>6
    <2> QED
        BY <1>4, <1>18, <2>4, <2>7
<1> QED
    BY <1>10, <1>11, <1>14, <1>16, <1>18, <1>19 DEF m

(* The last answer is the last block of the last of the segments that have one. *)
IsLastAnswer(pred, segments, spans, K, p, r) ==
    /\ spans[K].role = 1 /\ IsAnswer(segments[K], pred, p, r)
    /\ \A k \in 1..Len(spans) : spans[k].role = 1 /\ Ends(segments[k]) # {} => k <= K

(* An answer that is found is the last one of the last segment with an      *)
(* answer (_last_answer).                                                   *)
LEMMA LastAnswerIs ==
    ASSUME NEW M, NEW spans \in Spans(M), NEW S, NEW text \in Seq(S), Covers(text, spans),
           _last_answer(Segments(text, spans, 1)) # NoAnswer
    PROVE  \E K \in 1..Len(spans) : \E p, r :
               IsLastAnswer(_last_answer(Segments(text, spans, 1)), Segments(text, spans, 1), spans, K, p, r)
<1> DEFINE segs == Segments(text, spans, 1)
           with == {k \in DOMAIN segs : extract_answer(segs[k]) # NoAnswer}
           K == Max(with)
           m == Len(spans)
<1>1. m \in Nat /\ DOMAIN segs = {k \in 1..m : spans[k].role = 1}
    <2>1. m \in Nat
        BY DEF Spans
    <2>2. DOMAIN segs = {k \in 1..m : spans[k].role = 1}
        <3>1. DOMAIN spans = 1..Len(spans)
            BY DEF Spans
        <3> QED
            BY <3>1 DEF Segments
    <2> QED
        BY <2>1, <2>2
<1>2. \A k \in 1..m : spans[k].role = 1 => segs[k] \in Seq(S)
    BY SegmentsAre
<1>3. with # {} /\ _last_answer(segs) = extract_answer(segs[K])
    BY DEF _last_answer
<1> HIDE DEF segs, m
<1>4. \A k \in 1..m : spans[k].role = 1 => (Ends(segs[k]) # {} <=> k \in with)
    <2> TAKE k \in 1..m
    <2> SUFFICES ASSUME spans[k].role = 1 PROVE Ends(segs[k]) # {} <=> k \in with
        OBVIOUS
    <2>1. segs[k] \in Seq(S) /\ k \in DOMAIN segs
        BY <1>1, <1>2
    <2> QED
        BY <2>1, ExtractIs
<1>5. with \in SUBSET (1..m) /\ \A k \in with : spans[k].role = 1
    BY <1>1
<1> HIDE DEF with
<1>6. K \in with /\ \A k \in with : k <= K
    BY <1>1, <1>3, <1>5, MaxOf
<1> HIDE DEF K
<1>7. K \in 1..m /\ spans[K].role = 1 /\ Ends(segs[K]) # {} /\ segs[K] \in Seq(S)
    BY <1>2, <1>4, <1>5, <1>6
<1>8. PICK p, r : IsAnswer(segs[K], extract_answer(segs[K]), p, r)
    BY <1>7, ExtractIs
<1>9. IsLastAnswer(_last_answer(segs), segs, spans, K, p, r)
    BY <1>3, <1>4, <1>6, <1>7, <1>8 DEF IsLastAnswer, m
<1> QED
    BY <1>7, <1>9 DEF segs, m

(* Full reward, on spans that cover the text. *)
LEMMA FullReward ==
    ASSUME NEW text, NEW s, compute_score(text, s).score = 100
    PROVE  /\ Usable(text, s)
           /\ LET pred == _last_answer(Segments(text, s.spans, 1))
              IN pred # NoAnswer /\ \E k \in DOMAIN pred : pred[k] = Gold
<1> DEFINE a == Segments(text, s.spans, 1)
           b == Segments(text, s.spans, 0)
           pred == _last_answer(a)
           norm == normalize_answer(pred)
           hit == \E k \in norm : pred[k] = Gold /\ (CoverEm \/ norm = {k})
           bonus == IF \E k \in DOMAIN b : Gold \in Range(b[k]) THEN RetrievalBonus ELSE 0
<1>1. Usable(text, s)
    BY DEF compute_score
<1>2. score_segments(a, b).score = 100
    BY <1>1 DEF compute_score, Assistant
<1>3. score_segments(a, b).score = IF pred = NoAnswer THEN bonus ELSE IF hit THEN 100 ELSE FormatScore + bonus
    BY DEF score_segments
<1> HIDE DEF a, b, pred, norm, hit, bonus
<1>4. bonus # 100 /\ FormatScore + bonus # 100
    <2>1. FormatScore \in Nat /\ RetrievalBonus \in Nat /\ FormatScore + RetrievalBonus < 100
        BY RewardConfigOK
    <2>2. bonus = RetrievalBonus \/ bonus = 0
        BY DEF bonus
    <2> QED
        BY <2>1, <2>2
<1>5. pred # NoAnswer /\ hit
    BY <1>2, <1>3, <1>4
<1>6. \E k \in norm : pred[k] = Gold
    BY <1>5 DEF hit
<1>7. norm \in SUBSET DOMAIN pred
    BY DEF norm, normalize_answer
<1> QED
    BY <1>1, <1>5, <1>6, <1>7 DEF pred, a

IsCommitted(tokens, p, r) ==
    /\ p < r /\ Answers(tokens, p, r)
    /\ \E i \in (p + 1)..(r - 1) : tokens[i].piece = Gold
    /\ \A q, s \in DOMAIN tokens : q < s /\ Answers(tokens, q, s) => s <= r

(* Full reward: some answer the model wrote in one go has the gold in it,   *)
(* and no answer that it wrote ends later.                                  *)
LEMMA GoldIsCommitted ==
    ASSUME NEW T, NEW tokens \in Seq(T), \A t \in T : IsToken(t),
           compute_score(decode(Pieces(tokens)), compute(tokens)).score = 100
    PROVE  \E p, r \in DOMAIN tokens : IsCommitted(tokens, p, r)
<1> DEFINE n == Len(tokens)
           S == Glyphs(PieceSet(tokens))
           text == decode(Pieces(tokens))
           spans == compute(tokens).spans
           segs == Segments(text, spans, 1)
           pred == _last_answer(segs)
<1>1. n \in Nat /\ DOMAIN tokens = 1..n
    OBVIOUS
<1>2. text \in Seq(S)
    <2>1. Pieces(tokens) \in Seq(PieceSet(tokens))
        <3>1. Pieces(tokens) = [i \in 1..n |-> tokens[i].piece]
            BY DEF Pieces
        <3>2. \A i \in 1..n : tokens[i].piece \in PieceSet(tokens)
            BY DEF PieceSet
        <3> QED
            BY <1>1, <3>1, <3>2
    <2> QED
        BY <2>1, DecodeTraces
<1>3. Usable(text, compute(tokens)) /\ pred # NoAnswer /\ \E k \in DOMAIN pred : pred[k] = Gold
    BY FullReward
<1>4. compute(tokens).ok /\ Covers(text, spans)
    BY <1>3 DEF Usable
<1>5. spans \in Spans(0..1) /\ IsAttributed(text, spans, tokens, n)
    BY <1>4, ComputeAttributes
<1> HIDE DEF text, spans, S
<1>6. PICK at : Attributed(at, text, spans, tokens, n)
    BY <1>5 DEF IsAttributed
<1>16. Traces(at, text, Pieces(tokens), n)
    BY <1>6 DEF Attributed
<1>17. \A t, u \in 1..Len(text) : /\ at[t] \in 1..n /\ at[u] \in 1..n
                                  /\ (at[t] < at[u] <=> t < u) /\ (at[t] <= at[u] <=> t <= u)
    <2>1. IsOrdered(at, text, n)
        BY <1>1, <1>2, <1>16, TraceOrder
    <2> QED
        BY <2>1 DEF IsOrdered
<1>7. PICK K \in 1..Len(spans) : \E x, y : IsLastAnswer(pred, segs, spans, K, x, y)
    BY <1>2, <1>3, <1>4, <1>5, LastAnswerIs
<1>22. PICK x, y : IsLastAnswer(pred, segs, spans, K, x, y)
    BY <1>7
<1> DEFINE start == spans[K].start
           end == spans[K].end
           seg == segs[K]
<1>8. /\ spans[K].role = 1 /\ IsAnswer(seg, pred, x, y)
      /\ \A k \in 1..Len(spans) : spans[k].role = 1 /\ Ends(segs[k]) # {} => k <= K
    BY <1>22 DEF IsLastAnswer
<1>9. \A k \in 1..Len(spans) : spans[k].role = 1 =>
          segs[k] \in Seq(S) /\ IsPartOf(segs[k], text, spans[k].start, spans[k].end)
    BY <1>2, <1>4, <1>5, SegmentsAre, ZenonT(60)
<1>10. /\ \A k \in 1..Len(spans) : /\ spans[k].start \in Nat /\ spans[k].end \in Nat
                                   /\ spans[k].start < spans[k].end /\ spans[k].end <= Len(text)
       /\ \A k, l \in 1..Len(spans) : k < l => spans[k].end <= spans[l].start
       /\ Len(spans) \in Nat /\ Len(text) \in Nat
    <2>1. Len(spans) \in Nat /\ Len(text) \in Nat
        BY <1>2, <1>5 DEF Spans
    <2> QED
        BY <1>2, <1>4, <1>5, <2>1, SpansCover
<1> HIDE DEF segs, pred
<1>11. start \in Nat /\ end \in Nat /\ start < end /\ end <= Len(text) /\ IsPartOf(seg, text, start, end)
    BY <1>8, <1>9, <1>10
<1> HIDE DEF start, end, seg
<1>12. /\ IsBlock(seg, x, y) /\ (\A e \in Ends(seg) : e <= y)
       /\ DOMAIN pred = 1..(y - x - 1) /\ \A i \in 1..(y - x - 1) : pred[i] = seg[x + i]
    BY <1>8 DEF IsAnswer
<1>13. /\ x \in 1..(end - start) /\ y \in 1..(end - start) /\ x < y
       /\ \A i \in 1..(end - start) : seg[i] = text[start + i]
    BY <1>12, <1>11 DEF IsBlock, IsPartOf
<1> DEFINE P == start + x
           R == start + y
<1>14. IsBlock(text, P, R)
    BY <1>2, <1>11, <1>12, SegmentBlock
<1>15. start < P /\ R <= end /\ P \in 1..Len(text) /\ R \in 1..Len(text) /\ P < R
    BY <1>10, <1>11, <1>13
<1>18. at[P] \in 1..n /\ at[R] \in 1..n /\ at[P] < at[R] /\ Answers(tokens, at[P], at[R])
    <2> HIDE DEF P, R, n
    <2> QED
        BY <1>2, <1>5, <1>6, <1>8, <1>14, <1>15, BlockIsAnswer DEF n, start, end
(* What it says is gold. *)
<1>19. \E i \in (at[P] + 1)..(at[R] - 1) : tokens[i].piece = Gold
    <2>1. PICK k \in 1..(y - x - 1) : pred[k] = Gold
        BY <1>3, <1>12
    <2>2. x + k \in 1..(end - start) /\ start + (x + k) \in 1..Len(text) /\ P < start + (x + k) /\ start + (x + k) < R
        <3>1. x \in Int /\ y \in Int /\ k \in Int /\ start \in Int /\ end \in Int /\ Len(text) \in Int
            BY <1>10, <1>11, <1>13
        <3>2. 1 <= x /\ x < y /\ y <= end - start /\ end <= Len(text) /\ 0 <= start /\ 1 <= k /\ k <= y - x - 1
            BY <1>10, <1>11, <1>13, <3>1
        <3> QED
            BY <3>1, <3>2
    <2> DEFINE t == start + (x + k)
    <2>3. text[t] = Gold
        BY <1>12, <1>13, <2>1, <2>2
    <2> HIDE DEF t, P, R
    <2>4. t \in 1..Len(text) /\ P < t /\ t < R
        BY <2>2 DEF t
    <2>5. at[t] \in 1..n /\ at[P] < at[t] /\ at[t] < at[R]
        BY <1>15, <1>17, <2>4
    <2>6. Pieces(tokens)[at[t]] = Gold
        <3>1. Gold \notin {Half, "character"}
            BY DEF Gold, Half
        <3> QED
            BY <1>16, <2>3, <2>4, <3>1 DEF Traces
    <2>7. tokens[at[t]].piece = Gold
        BY <1>1, <2>5, <2>6 DEF Pieces
    <2>8. at[t] \in (at[P] + 1)..(at[R] - 1)
        <3>1. \A a, b, c \in 1..n : a < b /\ b < c => b \in (a + 1)..(c - 1)
            BY <1>1
        <3> QED
            BY <1>18, <2>5, <3>1
    <2> QED
        BY <2>7, <2>8
(* No answer that the model wrote ends later. *)
<1>20. ASSUME NEW q \in DOMAIN tokens, NEW z \in DOMAIN tokens, q < z, Answers(tokens, q, z) PROVE z <= at[R]
    <2> HIDE DEF P, R
    <2>1. PICK k \in 1..Len(spans), c, d \in 1..Len(text) :
              /\ at[c] = q /\ at[d] = z /\ IsBlock(text, c, d)
              /\ spans[k].role = 1 /\ spans[k].start < c /\ d <= spans[k].end
        <3>1. q \in 1..Len(tokens) /\ z \in 1..Len(tokens)
            BY <1>1, <1>20
        <3> QED
            BY <1>2, <1>5, <1>6, <1>20, <3>1, AnswerIsBlock DEF n
    <2>2. segs[k] \in Seq(S) /\ IsPartOf(segs[k], text, spans[k].start, spans[k].end)
        BY <1>9, <2>1
    <2>3. IsBlock(segs[k], c - spans[k].start, d - spans[k].start)
        BY <1>2, <1>10, <2>1, <2>2, SegmentBlock
    <2>4. d - spans[k].start \in Ends(segs[k])
        BY <2>2, <2>3, BlockEnds
    <2>5. k <= K
        BY <1>8, <2>1, <2>4
    <2>6. d <= R
        <3>1. CASE k = K
            <4>1. d - start \in Ends(seg)
                BY <2>4, <3>1 DEF seg, start
            <4>2. d - start <= y
                BY <1>12, <4>1
            <4> QED
                BY <1>11, <1>13, <4>2 DEF R
        <3>2. CASE k # K
            <4>1. spans[k].end <= start /\ spans[k].end \in Nat
                BY <1>10, <2>5, <3>2, SMTT(40) DEF start
            <4>2. start < R
                BY <1>11, <1>15 DEF P
            <4> QED
                BY <1>11, <1>15, <2>1, <4>1, <4>2, SMTT(40)
        <3> QED
            BY <3>1, <3>2
    <2>7. at[d] <= at[R]
        BY <1>15, <1>17, <2>6
    <2> QED
        BY <2>1, <2>7
<1> HIDE DEF P, R
<1>21. IsCommitted(tokens, at[P], at[R])
    BY <1>18, <1>19, <1>20 DEF IsCommitted
<1> QED
    BY <1>1, <1>18, <1>21

(* What reading any tokens gives. *)
LEMMA ReadingIs ==
    ASSUME NEW T, NEW tokens \in Seq(T), \A t \in T : IsToken(t)
    PROVE  LET text == decode(Pieces(tokens))
               s == compute(tokens)
           IN /\ text \in Seq(Glyphs(PieceSet(tokens)))
              /\ s.ok \in BOOLEAN /\ s.spans \in Spans(0..1)
              /\ s.ok => Covers(text, s.spans) /\ IsAttributed(text, s.spans, tokens, Len(tokens))
<1>1. Pieces(tokens) \in Seq(PieceSet(tokens))
    <2>1. Pieces(tokens) = [i \in 1..Len(tokens) |-> tokens[i].piece] /\ Len(tokens) \in Nat
        BY DEF Pieces
    <2>2. \A i \in 1..Len(tokens) : tokens[i].piece \in PieceSet(tokens)
        BY DEF PieceSet
    <2> QED
        BY <2>1, <2>2
<1>2. decode(Pieces(tokens)) \in Seq(Glyphs(PieceSet(tokens)))
    BY <1>1, DecodeTraces
<1> QED
    BY <1>2, ComputeAttributes DEF IsAttributed, Attributed

(* Gold that counts as retrieved is a token of a tool.                      *)
LEMMA ToolsGold ==
    ASSUME NEW T, NEW tokens \in Seq(T), \A t \in T : IsToken(t),
           compute_score(decode(Pieces(tokens)), compute(tokens)).retrieved
    PROVE  \E i \in DOMAIN tokens : tokens[i] = [mask |-> 0, piece |-> Gold]
<1> DEFINE n == Len(tokens)
           S == Glyphs(PieceSet(tokens))
           text == decode(Pieces(tokens))
           spans == compute(tokens).spans
           segs == Segments(text, spans, 0)
<1>1. n \in Nat /\ DOMAIN tokens = 1..n
    OBVIOUS
<1>2. Usable(text, compute(tokens)) /\ score_segments(Assistant(text, spans), segs).retrieved
    BY DEF compute_score
<1>3. \E k \in DOMAIN segs : Gold \in Range(segs[k])
    BY <1>2 DEF score_segments
<1>4. text \in Seq(S) /\ spans \in Spans(0..1) /\ Covers(text, spans) /\ IsAttributed(text, spans, tokens, n)
    <2>1. compute(tokens).ok
        BY <1>2 DEF Usable
    <2> QED
        BY <2>1, ReadingIs
<1> HIDE DEF text, spans, S
<1>5. PICK at : Attributed(at, text, spans, tokens, n)
    BY <1>4 DEF IsAttributed
<1>6. Traces(at, text, Pieces(tokens), n) /\ SpansCome(at, text, spans, tokens, n)
    BY <1>5 DEF Attributed
<1>7. DOMAIN segs = {k \in 1..Len(spans) : spans[k].role = 0}
    <2>1. DOMAIN spans = 1..Len(spans)
        BY <1>4 DEF Spans
    <2> QED
        BY <2>1 DEF Segments
<1>8. PICK k \in 1..Len(spans) : spans[k].role = 0 /\ Gold \in Range(segs[k])
    BY <1>3, <1>7
<1>9. IsPartOf(segs[k], text, spans[k].start, spans[k].end)
    BY <1>4, <1>8, SegmentsAre
<1> DEFINE start == spans[k].start
           end == spans[k].end
<1>10. start \in Nat /\ end \in Nat /\ start < end /\ end <= Len(text) /\ Len(text) \in Nat
    BY <1>4, SpansCover
<1>11. PICK x \in 1..(end - start) : segs[k][x] = Gold /\ text[start + x] = Gold
    BY <1>8, <1>9 DEF IsPartOf, Range
<1>12. \A t \in (start + 1)..end : tokens[at[t]].mask = 0
    BY <1>6, <1>8 DEF SpansCome
<1> HIDE DEF start, end, segs
<1> DEFINE t == start + x
<1>13. t \in (start + 1)..end /\ t \in 1..Len(text)
    BY <1>10
<1>14. text[t] = Gold
    BY <1>11
<1> HIDE DEF t
<1>15. at[t] \in 1..n /\ Pieces(tokens)[at[t]] = Gold
    <2>1. Gold \notin {Half, "character"}
        BY DEF Gold, Half
    <2> QED
        BY <1>6, <1>13, <1>14, <2>1 DEF Traces
<1>16. tokens[at[t]].piece = Gold /\ tokens[at[t]].mask = 0
    BY <1>1, <1>12, <1>13, <1>15 DEF Pieces
<1>17. IsToken(tokens[at[t]])
    BY <1>15
<1> QED
    BY <1>1, <1>15, <1>16, <1>17 DEF IsToken

(* A score is given just when the tokens come apart at the roles, and never *)
(* for spans of a text of another length.                                   *)
LEMMA StopsUnlessRead ==
    ASSUME NEW T, NEW tokens \in Seq(T), \A t \in T : IsToken(t)
    PROVE  /\ compute_score(decode(Pieces(tokens)), compute(tokens)).abort <=> ~compute(tokens).ok
           /\ \A text : Len(decode(Pieces(tokens))) # Len(text) => compute_score(text, compute(tokens)).abort
<1>1. compute(tokens).ok \in BOOLEAN /\ (compute(tokens).ok => Covers(decode(Pieces(tokens)), compute(tokens).spans))
    BY ReadingIs
<1>2. \A text, s : compute_score(text, s).abort <=> ~Usable(text, s)
    BY DEF compute_score
<1>3. compute_score(decode(Pieces(tokens)), compute(tokens)).abort <=> ~compute(tokens).ok
    BY <1>1, <1>2 DEF Usable
<1>4. ASSUME NEW text, Len(decode(Pieces(tokens))) # Len(text) PROVE compute_score(text, compute(tokens)).abort
    <2>1. ~(compute(tokens).ok /\ Covers(text, compute(tokens).spans))
        BY <1>1, <1>4 DEF Covers
    <2> QED
        BY <1>2, <2>1 DEF Usable
<1> QED
    BY <1>3, <1>4

(* Whatever the tokens of an episode, only what the model itself wrote can  *)
(* earn an answer's score, and only what a tool returned the bonus          *)
(* (role_spans.py and the agentic-search reward.py).                        *)
THEOREM RewardIsTheModels ==
    ASSUME NEW T, NEW tokens \in Seq(T), \A t \in T : IsToken(t)
    PROVE  OnlyTheModelsAnswerPays(tokens)
<1> DEFINE text == decode(Pieces(tokens))
           result == compute_score(text, compute(tokens))
           cut == SubSeq(tokens, 1, Len(tokens) - 1)
<1>1. result.score = 100 => \E p, r \in DOMAIN tokens : IsCommitted(tokens, p, r)
    BY GoldIsCommitted
<1>2. result.retrieved => \E i \in DOMAIN tokens : tokens[i] = [mask |-> 0, piece |-> Gold]
    BY ToolsGold
<1>3. result.abort <=> ~compute(tokens).ok
    BY StopsUnlessRead
<1>4. Len(decode(Pieces(cut))) # Len(text) => compute_score(text, compute(cut)).abort
    <2>1. cut \in Seq(T)
        <3>1. 1 \in Int /\ Len(tokens) - 1 \in Int /\ \A i \in 1..(Len(tokens) - 1) : tokens[i] \in T
            OBVIOUS
        <3> QED
            BY <3>1, SubSeqProperties
    <2> HIDE DEF cut
    <2> QED
        BY <2>1, StopsUnlessRead
<1> HIDE DEF text, result, cut
<1> QED
    BY <1>1, <1>2, <1>3, <1>4 DEF OnlyTheModelsAnswerPays, IsCommitted, text, result, cut

-----------------------------------------------------------------------------
(* A job that the launchers let start, whatever its settings and however    *)
(* many, ends as its plan says (preflight.py and the two run_grpo           *)
(* launchers).                                                              *)
THEOREM LaunchHoldsAlways == Spec => []LaunchHolds
<1>1. InputType => LaunchHolds
    <2> SUFFICES ASSUME InputType, subject = "launch", NEW mode \in {Async, Sync}
                 PROVE  LaunchIsExact(mode, input)
        BY DEF LaunchHolds
    <2> DEFINE S == Alphabet["launch"]
    <2>1. \A s \in S : IsSetting(s)
        BY InputsOK
    <2>2. input \in Seq(S)
        BY DEF InputType
    <2> HIDE DEF S
    <2> QED
        BY <2>1, <2>2, LaunchesAreExact
<1> QED
    BY <1>1, InputsAreTyped, PTL

(* No question is both trained on and held out, and every test split is the *)
(* share asked for, whatever the questions, the hashes and the seed (task.py, *)
(* select_train.py and make_splits.py).                                     *)
THEOREM SplitsHoldAlways == Spec => []SplitsHold
<1>1. InputType => SplitsHold
    <2> SUFFICES ASSUME InputType, subject = "splits" PROVE SplitsDoNotLeak(input)
        BY DEF SplitsHold
    <2> DEFINE R == Alphabet["splits"]
    <2>1. \A row \in R : IsRow(row)
        BY InputsOK
    <2>2. input \in Seq(R)
        BY DEF InputType
    <2> HIDE DEF R
    <2> QED
        BY <2>1, <2>2, SplitsNeverLeak
<1> QED
    BY <1>1, InputsAreTyped, PTL

(* Whatever the model asks the calculator, of literals that the limit of     *)
(* characters lets in: it holds no integer over its limit of bits and never  *)
(* computes one of more than twice as many (math/tool.py).                  *)
THEOREM CalculatorHoldsAlways == Spec => []CalculatorHolds
<1>1. InputType => CalculatorHolds
    <2> SUFFICES ASSUME InputType, subject = "calculator" PROVE CalculatorIsBounded(input)
        BY DEF CalculatorHolds
    <2> DEFINE P == Alphabet["calculator"]
    <2>1. \A part \in P : IsPart(part)
        BY InputsOK
    <2>2. input \in Seq(P)
        BY DEF InputType
    <2> HIDE DEF P
    <2> QED
        BY <2>1, <2>2, CalculationsAreBounded
<1> QED
    BY <1>1, InputsAreTyped, PTL

(* Agentic search, whatever the tokens, the tool calls and the order they are *)
(* answered in: only text the model wrote can earn the answer's score, and   *)
(* the passages its tools show are what the index gave (role_spans.py,       *)
(* reward.py and tool.py).                                                   *)
THEOREM RewardHoldsAlways == Spec => []RewardHolds
<1>1. InputType => RewardHolds
    <2>1. ASSUME InputType, subject = "search" PROVE OnlyTheModelsAnswerPays(input)
        <3> DEFINE T == Alphabet["search"]
        <3>1. \A token \in T : IsToken(token)
            BY InputsOK
        <3>2. input \in Seq(T)
            BY <2>1 DEF InputType
        <3> HIDE DEF T
        <3> QED
            BY <3>1, <3>2, RewardIsTheModels
    <2>2. ASSUME InputType, subject = "tool" PROVE ShowsTheIndex(input)
        <3> DEFINE C == Alphabet["tool"]
        <3>1. \A event \in C : IsEvent(event)
            BY InputsOK
        <3>2. input \in Seq(C)
            BY <2>2 DEF InputType
        <3> HIDE DEF C
        <3>3. IsEvents(input)
            <4>1. DOMAIN input = 1..Len(input) /\ Len(input) \in Nat /\ \A i \in 1..Len(input) : input[i] \in C
                BY <3>2
            <4>2. input \in Seq(Range(input))
                <5>1. input = [i \in 1..Len(input) |-> input[i]]
                    BY <3>2
                <5>2. \A i \in 1..Len(input) : input[i] \in Range(input)
                    BY <4>1 DEF Range
                <5> QED
                    BY <4>1, <5>1, <5>2
            <4> QED
                BY <3>1, <4>1, <4>2 DEF IsEvents, IsSequence
        <3> QED
            BY <3>3, ToolsShowTheIndex
    <2> QED
        BY <2>1, <2>2 DEF RewardHolds
<1> QED
    BY <1>1, InputsAreTyped, PTL
=============================================================================
