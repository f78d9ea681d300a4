------------------------------- MODULE PairedEval -------------------------------
(***************************************************************************)
(* Comparing evaluations of the same questions (scripts/paired_eval.py)    *)
(* and pass@k (officeqa/metrics.py).  A question is a record: what the     *)
(* baseline and each checkpoint got, 0 or 1, and what may be wrong with    *)
(* its rows.  A probability is a pair: a numerator and a denominator.  A   *)
(* draw of the random generator is an argument: a sign for every question  *)
(* that counts.                                                            *)
(***************************************************************************)
EXTENDS Integers, Sequences, SequencesExt, FiniteSetsExt, Combinatorics

CONSTANTS
    Checkpoints,
    Draws        \* --permutations, as far as samples are enumerated

Flaws == {"none", "duplicate", "unscored", "missing", "other text"}
Question(base, ckpt, flaw) == [base |-> base, ckpt |-> ckpt, flaw |-> flaw]

AtMost(p, q) == p[1] * q[2] <= q[1] * p[2]
Equal(p, q) == p[1] * q[2] = q[1] * p[2]

-----------------------------------------------------------------------------
(* load and the pairing of the rows: anything that is not one scored row of *)
(* the same question in every artifact refuses the comparison.             *)
Comparable(questions) == questions # <<>> /\ \A i \in DOMAIN questions : questions[i].flaw = "none"

Delta(q, k) == q.ckpt[k] - q.base
gained(questions, k) == Cardinality({i \in DOMAIN questions : Delta(questions[i], k) = 1})
lost(questions, k) == Cardinality({i \in DOMAIN questions : Delta(questions[i], k) = -1})

\* Mutant: the tail starts at the larger count.
Larger(g, l) == IF g <= l THEN l ELSE g

Smaller(g, l) == IF g <= l THEN g ELSE l

SumTo(f, n) == FoldLeft(LAMBDA sum, i : sum + f[i], f[0], [i \in 1..n |-> i])

exact_mcnemar(g, l) ==
    LET n == g + l
        tail == SumTo([i \in 0..n |-> choose(n, i)], Smaller(g, l))
    IN IF n = 0 \/ 2 * tail >= 2^n THEN <<1, 1>> ELSE <<2 * tail, 2^n>>

(* Signs are flipped per question, jointly for all checkpoints, over the    *)
(* questions on which any checkpoint differs.                              *)
Absolute(n) == IF n < 0 THEN -n ELSE n
Active(questions) == {i \in DOMAIN questions : \E k \in Checkpoints : Delta(questions[i], k) # 0}
Statistic(questions, s) ==
    Max({Absolute(MapThenSumSet(LAMBDA i : s[i] * Delta(questions[i], k), DOMAIN s)) : k \in Checkpoints})

Signs(questions) == [Active(questions) -> {-1, 1}]

\* Mutant: what was observed is not counted among the draws.
DrawsOnly(hits, n) == <<hits, n>>

Counted(hits, n) == <<hits + 1, n + 1>>

max_stat_permutation_p(questions, draws) ==
    LET observed == Statistic(questions, [i \in Active(questions) |-> 1])
        hits == Cardinality({h \in DOMAIN draws : Statistic(questions, draws[h]) >= observed})
    IN IF Active(questions) = {} THEN <<1, 1>> ELSE Counted(hits, Cardinality(DOMAIN draws))

pass_at_k(n, correct, k) ==
    IF n - correct < k THEN <<1, 1>> ELSE <<choose(n, k) - choose(n - correct, k), choose(n, k)>>

-----------------------------------------------------------------------------
(* The numbers reported are what they are called.  McNemar's p is the share *)
(* of sign flips of one checkpoint's discordant questions that are at least *)
(* as lopsided.  The selection-aware p is one: were the baseline and the    *)
(* checkpoints the same, so that their answers to each question could as    *)
(* well have been swapped, at most a share of alpha of all swaps and all    *)
(* samples of flips gives a p of alpha or less.  If each flip is drawn once *)
(* it is not below the p of the checkpoint farthest from the baseline,      *)
(* either way, and its hits are McNemar's share when all answer alike.      *)
(* pass@k is the share of k-subsets of a checkpoint's answers that hold a   *)
(* correct one; gains less losses are the difference of the scores.         *)
Swapped(questions, s) ==
    [i \in DOMAIN questions |->
        IF i \in DOMAIN s /\ s[i] = -1
        THEN [questions[i] EXCEPT !.base = 1 - @, !.ckpt = [k \in Checkpoints |-> 1 - @[k]]]
        ELSE questions[i]]

IsPValue(questions) ==
    LET outcomes == {<<s, draws>> : s \in Signs(questions), draws \in [1..Draws -> Signs(questions)]}
        p == [o \in outcomes |-> max_stat_permutation_p(Swapped(questions, o[1]), o[2])]
    IN \A alpha \in {<<a, Draws + 1>> : a \in 0..Draws} :
           AtMost(<<Cardinality({o \in outcomes : AtMost(p[o], alpha)}), Cardinality(outcomes)>>, alpha)

Flips(questions, k) ==
    LET discordant == {i \in DOMAIN questions : Delta(questions[i], k) # 0}
        signs == [discordant -> {-1, 1}]
        Lopsided(s) == Absolute(MapThenSumSet(LAMBDA i : s[i], discordant))
                       >= Absolute(gained(questions, k) - lost(questions, k))
    IN <<Cardinality({s \in signs : Lopsided(s)}), Cardinality(signs)>>

Right(questions, k) == {i \in DOMAIN questions : questions[i].ckpt[k] = 1}

StatisticsAreExact(questions) ==
    Comparable(questions) =>
        LET n == Len(questions)
            p == [k \in Checkpoints |-> exact_mcnemar(gained(questions, k), lost(questions, k))]
            flips == [s \in Signs(questions) |-> s]
            selected == max_stat_permutation_p(questions, flips)
        IN /\ \A k \in Checkpoints :
                 /\ Equal(p[k], Flips(questions, k))
                 /\ gained(questions, k) - lost(questions, k)
                       = Cardinality(Right(questions, k)) - Cardinality({i \in 1..n : questions[i].base = 1})
                 /\ \A size \in 1..n :
                       LET subsets == kSubset(size, 1..n)
                       IN Equal(pass_at_k(n, Cardinality(Right(questions, k)), size),
                                <<Cardinality({S \in subsets : S \cap Right(questions, k) # {}}), Cardinality(subsets)>>)
           /\ \A k \in Checkpoints :
                 (\A j \in Checkpoints : Absolute(gained(questions, j) - lost(questions, j))
                                         <= Absolute(gained(questions, k) - lost(questions, k)))
                 => AtMost(p[k], selected)
           /\ Active(questions) # {} => IsPValue(questions)
           /\ Active(questions) # {} /\ (\A i \in 1..n, j, k \in Checkpoints : questions[i].ckpt[j] = questions[i].ckpt[k]) =>
                 \A k \in Checkpoints : Equal(p[k], <<selected[1] - 1, Cardinality(Signs(questions))>>)
=============================================================================
