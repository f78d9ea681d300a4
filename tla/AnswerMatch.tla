------------------------------ MODULE AnswerMatch ------------------------------
(***************************************************************************)
(* answer_match.py, the vendored matcher: gold with words in it against an *)
(* answer.  It compares bare numbers, whatever their units, and the words  *)
(* by inclusion either way.                                                *)
(*                                                                         *)
(* A text is a sequence of tokens with one space between them: values      *)
(* (number, unit, year), words (their letters) and marks.  Those inside    *)
(* parentheses are asides.  A minus sign belongs to its number, digits do  *)
(* not stand inside words, and the tolerance is 0.  No text is empty.      *)
(***************************************************************************)
EXTENDS Selection, Integers, FiniteSetsExt

CONSTANT Years              \* the numbers from 1900 to 2100

Space == [letter |-> " "]
Mark == [value |-> FALSE, letters |-> <<>>, aside |-> FALSE]
Word(letters, aside) == [value |-> FALSE, letters |-> letters, aside |-> aside]
Figure(number, unit, year, aside) ==
    [value |-> TRUE, number |-> number, unit |-> unit, year |-> year, aside |-> aside]

Spaced(parts) ==
    LET Text[k \in 0..Len(parts)] ==
            IF k = 0 THEN <<>> ELSE IF k = 1 THEN parts[1] ELSE Text[k - 1] \o <<Space>> \o parts[k]
    IN Text[Len(parts)]
Within(part, whole) ==
    \E k \in 0..(Len(whole) - Len(part)) : SubSeq(whole, k + 1, k + Len(part)) = part

-----------------------------------------------------------------------------
extract_numbers_with_context(text) == InOrder(text, {token \in Range(text) : token.value})
is_likely_year(v) == v.number \in Years

\* Numbers, their units and all punctuation are dropped.
Cleaned(text) ==
    LET words == InOrder(text, {token \in Range(text) : ~token.value /\ token.letters # <<>>})
    IN Spaced([k \in DOMAIN words |-> words[k].letters])
has_significant_text(text) == Len(Cleaned(text)) >= 2

check_text_overlap(gold, answer) ==
    has_significant_text(gold) =>
        /\ has_significant_text(answer)
        /\ Within(Cleaned(gold), Cleaned(answer)) \/ Within(Cleaned(answer), Cleaned(gold))

(* The text without what parentheses hold; the spaces beside them stay,    *)
(* those at its ends apart.                                                *)
Symbols(token) ==
    IF token.aside THEN <<>> ELSE IF token.value \/ token.letters = <<>> THEN <<token>> ELSE token.letters
Opens(text) == {k \in DOMAIN text : ~(k > 1 /\ text[k].aside /\ text[k - 1].aside)}
Stripped(text) ==
    LET solid == {k \in DOMAIN text : text[k] # Space}
    IN IF solid = {} THEN <<>> ELSE SubSeq(text, Min(solid), Max(solid))

Plain(text) ==
    LET parts == InOrder([k \in DOMAIN text |-> k], Opens(text))
    IN Stripped(Spaced([k \in DOMAIN parts |-> Symbols(text[parts[k]])]))

\* Mutant: years never count.
NoYears(gold, numbers) == FALSE

\* Years among the answer's numbers do not count, unless gold is about one.
AboutYears(gold, numbers) ==
    \/ \E k \in DOMAIN numbers : is_likely_year(numbers[k])
    \/ Len(numbers) = 1 /\ has_significant_text(gold)

fuzzy_match_answer(gold, answer) ==
    LET wanted == extract_numbers_with_context(gold)
        stated == extract_numbers_with_context(answer)
        kept == {v \in Range(stated) : AboutYears(gold, wanted) \/ ~is_likely_year(v)}
    IN IF wanted # <<>> /\ stated # <<>>
       THEN /\ {v.number : v \in Range(wanted)} \subseteq {v.number : v \in kept}
            /\ check_text_overlap(gold, answer)
       ELSE Within(Plain(gold), Plain(answer))
================================================================================
