------------------------------ MODULE AnswerCheck ------------------------------
(***************************************************************************)
(* answer_check.py: a submitted answer against gold.  Texts are those of   *)
(* AnswerMatch; a mark is where an explanation may start.  Units are Bare, *)
(* the per cent and the scales; golds with words in them, or no values, go *)
(* to the vendored matcher.  Numbers are exact, the tolerance is 0.         *)
(***************************************************************************)
EXTENDS AnswerMatch

CONSTANT Scales             \* the multipliers: thousand, million, ...
ASSUME ScalesOK == Scales \subseteq Nat \ {0, 1}

Bare == 0
Percent == -1

(* A token of a text: a figure with a unit of its own or none, or a word or *)
(* a mark.  No letter is a space.                                          *)
IsText(token) ==
    /\ token.aside \in BOOLEAN
    /\ IF token.value
       THEN /\ token = Figure(token.number, token.unit, token.year, token.aside)
            /\ token.number \in Int /\ token.unit \in Scales \cup {Bare, Percent} /\ token.year \in BOOLEAN
       ELSE /\ token = Word(token.letters, token.aside)
            /\ token.letters \in Seq([letter : STRING \ {" "}])

values(text) == InOrder(text, {token \in Range(text) : token.value})
without_asides(text) == InOrder(text, {token \in Range(text) : token.value /\ ~token.aside})

(* A mark, or a parenthesis that opens after the token at first; asides in a *)
(* row are in one parenthesis.                                             *)
IsMark(text, first, k) ==
    /\ k > first
    /\ text[k] = Mark \/ (text[k].aside /\ \E j \in first..(k - 1) : ~text[j].aside)

(* Up to the first mark after the first figure.                            *)
leading_value(text) ==
    LET figures == {k \in DOMAIN text : text[k].value}
        marks == {k \in DOMAIN text : figures # {} /\ IsMark(text, Min(figures), k)}
    IN IF marks = {} THEN text ELSE SubSeq(text, 1, Min(marks) - 1)

Multiplier(unit) == IF unit = Bare THEN 1 ELSE unit

matches(gold, stated) ==
    LET as_written == gold.number = stated.number
        absolute == gold.number * Multiplier(gold.unit) = stated.number * Multiplier(stated.unit)
    IN IF Percent \in {gold.unit, stated.unit}
       THEN {gold.unit, stated.unit} \subseteq {Percent, Bare} /\ as_written
       ELSE absolute \/ (Bare \in {gold.unit, stated.unit} /\ as_written)

\* Mutant: a stated value may answer for several gold values.
ReusesValue(unused, k) == unused

Unused(unused, k) == RemoveAt(unused, k)

_covers(gold, stated) ==
    LET Takes(acc, g) ==
            LET hits == {k \in DOMAIN acc.unused : matches(g, acc.unused[k])}
            IN IF ~acc.ok \/ hits = {} THEN [acc EXCEPT !.ok = FALSE]
               ELSE [acc EXCEPT !.unused = Unused(@, Min(hits))]
    IN FoldLeft(Takes, [ok |-> TRUE, unused |-> stated], gold).ok

Countable(wanted, text) ==
    InOrder(values(text), {v \in Range(values(text)) : ~v.year \/ \E k \in DOMAIN wanted : wanted[k].year})

Stated(wanted, answer) ==
    Countable(wanted, IF Len(wanted) = 1 THEN leading_value(answer) ELSE without_asides(answer))

Worded(gold) == values(gold) = <<>> \/ has_significant_text(gold)

check(answer, gold) ==
    LET wanted == values(gold)
        stated == Stated(wanted, answer)
    IN IF Worded(gold) THEN IF fuzzy_match_answer(gold, answer) THEN "correct" ELSE "wrong"
       ELSE IF _covers(wanted, stated) THEN IF Len(stated) > Len(wanted) THEN "extra" ELSE "correct"
       ELSE IF _covers(wanted, Countable(wanted, answer)) THEN "not leading" ELSE "wrong"

-----------------------------------------------------------------------------
Assigned(wanted, stated) ==
    \E f \in [DOMAIN wanted -> DOMAIN stated] :
        IsInjective(f) /\ \A w \in DOMAIN wanted : matches(wanted[w], stated[f[w]])

(* What is accepted is right: the values before any explanation are as many *)
(* as gold's, and each stands for another one of gold's, of the same sign   *)
(* and, when both write a unit, of the same amount.  Of a gold with words   *)
(* in it no number outside its parentheses may be missing, and if it has    *)
(* one the words may not all be.                                           *)
AcceptedIsGold(answer, gold) ==
    LET wanted == values(gold)
        stated == Stated(wanted, answer)
    IN check(answer, gold) = "correct" =>
          IF Worded(gold)
          THEN /\ \A w \in DOMAIN without_asides(gold) : \E s \in DOMAIN values(answer) :
                      without_asides(gold)[w].number = values(answer)[s].number
               /\ without_asides(gold) # <<>> => has_significant_text(answer)
          ELSE /\ Len(stated) = Len(wanted) /\ Assigned(wanted, stated)
               /\ \A w \in DOMAIN wanted : \E s \in DOMAIN stated :
                     /\ wanted[w].number < 0 <=> stated[s].number < 0
                     /\ wanted[w].unit = Percent => stated[s].unit \in {Percent, Bare}
                     /\ {wanted[w].unit, stated[s].unit} \subseteq Scales =>
                           wanted[w].number * wanted[w].unit = stated[s].number * stated[s].unit

(* An answer that quotes gold with words in it is accepted, whatever stands *)
(* before and after the quotation; and where gold is all numbers, what is   *)
(* accepted is, unless it was rescaled, what the vendored matcher accepts:  *)
(* the stricter check takes nothing else in.                               *)
QuotedIsAccepted(answer, gold) ==
    /\ Worded(gold) /\ Within(gold, answer) => check(answer, gold) = "correct"
    /\ LET wanted == values(gold)
           stated == Stated(wanted, answer)
       IN check(answer, gold) = "correct" /\ ~Worded(gold)
             /\ (\A w \in DOMAIN wanted : \E s \in DOMAIN stated : wanted[w].number = stated[s].number)
          => fuzzy_match_answer(gold, answer)
=============================================================================
