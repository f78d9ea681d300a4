--------------------------------- MODULE Splits ---------------------------------
(***************************************************************************)
(* Which questions train, select and test: the OfficeQA split (task.py),   *)
(* the pilot's selection of training groups (select_train.py) and the      *)
(* stratified MuSiQue splits (make_splits.py).  A question is known by its *)
(* position; the order of the hashes of the uids is a parameter, and so is *)
(* what the seeded sample takes of a stratum.                              *)
(***************************************************************************)
EXTENDS Selection, Integers, FiniteSetsExt

CONSTANTS
    hard_train,                 \* hard questions that train
    samples, maximum,           \* episodes per question of the baseline; questions to select
    DEV_N, EXCLUDE_FIRST, n_test

ASSUME SplitConstantsOK ==
    /\ {hard_train, samples, maximum, DEV_N, EXCLUDE_FIRST, n_test} \subseteq Nat
    /\ DEV_N <= EXCLUDE_FIRST

Refused == [ok |-> FALSE]
Split(train, heldout) == [ok |-> TRUE, train |-> train, heldout |-> heldout]

\* A row as the use cases read it: difficulty, stratum, the pilot's rewards.
Unscored == -1
IsRow(row) == row.rewards \in Seq({0, 1, Unscored}) /\ row.hops \in Int

-----------------------------------------------------------------------------
Of(rows, difficulty) == {uid \in DOMAIN rows : rows[uid].difficulty = difficulty}

\* Mutant: the last hard question that trains is held out as well.
TailOverlaps(hard) == SubSeq(hard, hard_train, Len(hard))

HardTail(hard) == SubSeq(hard, hard_train + 1, Len(hard))

official_split(rows, order) ==
    LET hard == InOrder(order, Of(rows, "hard"))
    IN IF Of(rows, "easy") \cup Of(rows, "hard") # DOMAIN rows \/ ~(0 < hard_train /\ hard_train < Len(hard))
       THEN Refused
       ELSE Split(Of(rows, "easy") \cup Range(SubSeq(hard, 1, hard_train)), Range(HardTail(hard)))

-----------------------------------------------------------------------------
(* The pilot: a baseline's rewards per question, Unscored where an episode  *)
(* has none; only questions whose rewards differ teach anything.           *)

mixed_training_uids(rows, allowed, order) ==
    LET probed == {uid \in DOMAIN rows : rows[uid].rewards # <<>>}
        mixed == {uid \in probed : {0, 1} \subseteq Range(rows[uid].rewards)}
        selected == InOrder(order, mixed)
    IN IF \/ ~(probed \subseteq allowed)
          \/ \E uid \in probed : Unscored \in Range(rows[uid].rewards) \/ Len(rows[uid].rewards) # samples
          \/ mixed = {}
       THEN {} ELSE Range(SubSeq(selected, 1, IF Len(selected) < maximum THEN Len(selected) ELSE maximum))

-----------------------------------------------------------------------------
(* allocate: largest remainders, ties by name.  A stratum is a number.     *)
Total(counts) == MapThenSumSet(LAMBDA k : counts[k], DOMAIN counts)

allocate(counts, n) ==
    LET total == Total(counts)
        whole == [k \in DOMAIN counts |-> (n * counts[k]) \div total]
        rest == [k \in DOMAIN counts |-> (n * counts[k]) % total]
        Before(j, k) == rest[j] > rest[k] \/ (rest[j] = rest[k] /\ j < k)
    IN [k \in DOMAIN counts |->
           IF Cardinality({j \in DOMAIN counts : Before(j, k)}) < n - Total(whole) THEN whole[k] + 1 ELSE whole[k]]

Pool(rows) == {uid \in DOMAIN rows : uid > EXCLUDE_FIRST}
Strata(rows) ==
    [hops \in {rows[uid].hops : uid \in Pool(rows)} |-> Cardinality({uid \in Pool(rows) : rows[uid].hops = hops})]

Dev(rows) == {uid \in DOMAIN rows : uid <= DEV_N}
\* Every test split that some seed gives.
Tests(rows) ==
    IF n_test > Cardinality(Pool(rows)) \/ Pool(rows) = {} THEN {}
    ELSE LET want == allocate(Strata(rows), n_test)
             Taken(T, hops) == Cardinality({uid \in T : rows[uid].hops = hops})
         IN {T \in SUBSET Pool(rows) : \A hops \in DOMAIN want : Taken(T, hops) = want[hops]}

-----------------------------------------------------------------------------
Orders(rows) == {o \in [DOMAIN rows -> DOMAIN rows] : IsInjective(o)}

(* Nothing that tests has trained or been selected on, whatever the hashes  *)
(* and the seed: training and held-out questions are disjoint and together  *)
(* all; the pilot selects, of the training questions alone, complete groups *)
(* that are neither all right nor all wrong; the MuSiQue test split has the *)
(* size asked for, no question of the dev split, and of every stratum its   *)
(* proportional share, to within one question.                             *)
SplitsDoNotLeak(rows) ==
    /\ \A order \in Orders(rows) :
          LET split == official_split(rows, order)
              chosen == mixed_training_uids(rows, split.train, order)
          IN split.ok =>
                /\ split.train \cap split.heldout = {} /\ split.train \cup split.heldout = DOMAIN rows
                /\ split.heldout # {} /\ split.heldout \subseteq Of(rows, "hard")
                /\ Cardinality(split.train \cap Of(rows, "hard")) = hard_train
                /\ chosen \cap split.heldout = {} /\ Cardinality(chosen) <= maximum
                /\ \A uid \in chosen : Range(rows[uid].rewards) = {0, 1} /\ Len(rows[uid].rewards) = samples
    /\ \A test \in Tests(rows) :
          /\ test \cap Dev(rows) = {} /\ Cardinality(test) = n_test
          /\ \A hops \in DOMAIN Strata(rows) :
                LET share == Cardinality({uid \in test : rows[uid].hops = hops}) * Cardinality(Pool(rows))
                    exact == n_test * Strata(rows)[hops]
                IN exact - share < Cardinality(Pool(rows)) /\ share - exact < Cardinality(Pool(rows))
=============================================================================
