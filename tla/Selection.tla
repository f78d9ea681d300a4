------------------------------ MODULE Selection ------------------------------
(* A list comprehension: those of a list that belong to a set, in its order. *)
EXTENDS Naturals, Sequences, SequencesExt

InOrder(order, S) ==
    LET Kept[k \in 0..Len(order)] ==
            IF k = 0 THEN <<>> ELSE IF order[k] \in S THEN Append(Kept[k - 1], order[k]) ELSE Kept[k - 1]
    IN Kept[Len(order)]
=============================================================================
