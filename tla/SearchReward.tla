----------------------------- MODULE SearchReward -----------------------------
(***************************************************************************)
(* Who wrote what in a decoded episode (role_spans.py and its agent loop), *)
(* and the agentic-search reward that reads the model's own answer only    *)
(* (agentic-search/reward.py).                                             *)
(*                                                                         *)
(* A token is [mask, piece]: mask 1 was generated by the model, 0 came from *)
(* a tool or the template.  A piece decodes to one symbol, to nothing (a   *)
(* special token) or is Half a character that only decodes with its other  *)
(* half.  A text is a sequence of symbols; scores are per cent.            *)
(***************************************************************************)
EXTENDS Naturals, Sequences, SequencesExt, FiniteSetsExt

CONSTANTS FormatScore, RetrievalBonus, CoverEm

ASSUME RewardConfigOK ==       \* checked at import
    /\ {FormatScore, RetrievalBonus} \subseteq Nat /\ FormatScore + RetrievalBonus < 100
    /\ CoverEm \in BOOLEAN

Special == "special"
Half == "half"
Open == "<answer>"
Close == "</answer>"
Gold == "gold"
Pad == "pad"                \* what normalisation drops

IsToken(token) == token = [mask |-> token.mask, piece |-> token.piece] /\ token.mask \in 0..1

-----------------------------------------------------------------------------
(* tokenizer.decode(..., skip_special_tokens=True) *)
decode(pieces) ==
    LET Symbol(text, piece) ==
            CASE piece = Special -> text
              [] piece = Half /\ text # <<>> /\ Last(text) = Half -> Append(Front(text), "character")
              [] OTHER -> Append(text, piece)
    IN FoldLeft(Symbol, <<>>, pieces)

Pieces(tokens) == [i \in DOMAIN tokens |-> tokens[i].piece]

NoSpans == [ok |-> FALSE, spans |-> <<>>]

(* A run of tokens with one mask is decoded when it ends; what it adds to   *)
(* the text is of the span before if that has the same role.               *)
Join(spans, role, start, end) ==
    CASE start = end -> spans
      [] start # end /\ spans # <<>> /\ Last(spans).role = role -> [spans EXCEPT ![Len(spans)].end = end]
      [] OTHER -> Append(spans, [role |-> role, start |-> start, end |-> end])

Read(tokens, acc, i) ==
    LET role == tokens[i].mask
        text == acc.text \o decode(Pieces(SubSeq(tokens, acc.first, i)))
    IN IF i < Len(tokens) /\ tokens[i + 1].mask = role THEN acc
       ELSE [first |-> i + 1, text |-> text, spans |-> Join(acc.spans, role, Len(acc.text), Len(text))]

compute(tokens) ==
    LET end == FoldLeft(LAMBDA acc, i : Read(tokens, acc, i), [first |-> 1, text |-> <<>>, spans |-> <<>>],
                        [i \in DOMAIN tokens |-> i])
    IN IF end.text # decode(Pieces(tokens)) THEN NoSpans ELSE [ok |-> TRUE, spans |-> end.spans]

(* split: the spans must cover this very text. *)
Covers(text, spans) ==
    /\ \A k \in DOMAIN spans : /\ spans[k].start = IF k = 1 THEN 0 ELSE spans[k - 1].end
                               /\ spans[k].end > spans[k].start
    /\ (IF spans = <<>> THEN 0 ELSE Last(spans).end) = Len(text)

Usable(text, s) == s.ok /\ Covers(text, s.spans)

Segments(text, spans, role) ==       \* by the number of the span
    [k \in {k \in DOMAIN spans : spans[k].role = role} |-> SubSeq(text, spans[k].start + 1, spans[k].end)]

\* Mutant: the answer is looked for in the whole episode.
WholeEpisode(text, spans) == <<text>>

Assistant(text, spans) == Segments(text, spans, 1)

-----------------------------------------------------------------------------
(* extract_answer: a block goes from the first <answer> after the block (or *)
(* stray end) before it to its end; NoAnswer, which no block can be, if there *)
(* is none.                                                                *)
NoAnswer == <<Close>>
LastClose(text, r) == LET before == {c \in 1..(r - 1) : text[c] = Close} IN IF before = {} THEN 0 ELSE Max(before)
OpensFor(text, r) == {p \in (LastClose(text, r) + 1)..(r - 1) : text[p] = Open}
Ends(text) == {r \in DOMAIN text : text[r] = Close /\ OpensFor(text, r) # {}}

extract_answer(text) ==
    IF Ends(text) = {} THEN NoAnswer
    ELSE LET r == Max(Ends(text)) IN SubSeq(text, Min(OpensFor(text, r)) + 1, r - 1)

_last_answer(segments) ==
    LET with == {k \in DOMAIN segments : extract_answer(segments[k]) # NoAnswer}
    IN IF with = {} THEN NoAnswer ELSE extract_answer(segments[Max(with)])

normalize_answer(text) == {k \in DOMAIN text : text[k] # Pad}       \* the places of what is left

score_segments(assistant, tool) ==
    LET retrieved == \E k \in DOMAIN tool : Gold \in Range(tool[k])
        pred == _last_answer(assistant)
        norm == normalize_answer(pred)
        hit == \E k \in norm : pred[k] = Gold /\ (CoverEm \/ norm = {k})
        bonus == IF retrieved THEN RetrievalBonus ELSE 0
    IN [score |-> IF pred = NoAnswer THEN bonus ELSE IF hit THEN 100 ELSE FormatScore + bonus,
        retrieved |-> retrieved]

(* compute_score: without usable spans nothing is guessed and the run stops. *)
compute_score(text, s) ==
    IF Usable(text, s)
    THEN LET scored == score_segments(Assistant(text, s.spans), Segments(text, s.spans, 0))
         IN [score |-> scored.score, retrieved |-> scored.retrieved, abort |-> FALSE]
    ELSE [score |-> 0, retrieved |-> FALSE, abort |-> TRUE]

-----------------------------------------------------------------------------
ModelWrote(tokens, p, r) == \A i \in p..r : tokens[i].mask = 1 \/ tokens[i].piece = Special

(* The tokens from p to r are a whole answer that the model wrote.         *)
Answers(tokens, p, r) ==
    /\ tokens[p].piece = Open /\ tokens[r].piece = Close /\ ModelWrote(tokens, p, r)
    /\ \A i \in (p + 1)..(r - 1) : tokens[i].piece # Close

(* Full reward means that the last answer that the model itself committed,  *)
(* in one go, is gold: not an answer that a tool returned, one assembled    *)
(* over a tool's text, or an earlier one.  A gold passage pays at most the  *)
(* bonus, and only if a tool returned it.  Spans of another text, or text   *)
(* that does not come apart at the roles, score nothing and stop the run.   *)
OnlyTheModelsAnswerPays(tokens) ==
    LET text == decode(Pieces(tokens))
        result == compute_score(text, compute(tokens))
        cut == SubSeq(tokens, 1, Len(tokens) - 1)
    IN /\ result.score = 100 => \E p, r \in DOMAIN tokens :
              /\ p < r /\ Answers(tokens, p, r)
              /\ \E i \in (p + 1)..(r - 1) : tokens[i].piece = Gold
              /\ \A q, s \in DOMAIN tokens : q < s /\ Answers(tokens, q, s) => s <= r
       /\ result.score \in {RetrievalBonus, FormatScore + RetrievalBonus} /\ RetrievalBonus # 0 /\ result.retrieved =>
              \E i \in DOMAIN tokens : tokens[i] = [mask |-> 0, piece |-> Gold]
       /\ result.abort <=> ~compute(tokens).ok
       /\ tokens # <<>> /\ decode(Pieces(cut)) # text /\ Len(decode(Pieces(cut))) # Len(text) =>
              compute_score(text, compute(cut)).abort
=============================================================================
