---------------------------- MODULE TraceDiagnostic ----------------------------
(***************************************************************************)
(* agentic-search/analyze_traces.py: where two evaluations of the same     *)
(* questions got their answers from.  A trace record is [file, uid,        *)
(* question, gt, outputs, level, supporting]: gold texts, what the tools   *)
(* returned, and how close the answer came.  A text is a sequence of       *)
(* normalised tokens, a tool output is [error, tokens, titles].            *)
(***************************************************************************)
EXTENDS Integers, Sequences, SequencesExt, FiniteSetsExt

Levels == {"em", "cover", "f1", "none"}       \* the best of the three scores
BUCKETS == {"CORRECT", "FORMAT", "PARTIAL", "SURFACED_MISSED", "NOT_SURFACED"}

-----------------------------------------------------------------------------
_contiguous_contains(hay, needle) ==
    needle # <<>> /\ \E k \in 0..(Len(hay) - Len(needle)) : SubSeq(hay, k + 1, k + Len(needle)) = needle

\* Mutant: an error message that quotes gold counts.
WithErrors(rec) == rec.outputs

_tool_outputs(rec) == SelectSeq(rec.outputs, LAMBDA out : ~out.error)
_surfaced_titles(outputs) == UNION {outputs[k].titles : k \in DOMAIN outputs}

(* Gold is looked for in all outputs joined, not in each: gold that ends in *)
(* one output and begins in another counts.                                *)
AllTokens(outputs) == FlattenSeq([k \in DOMAIN outputs |-> outputs[k].tokens])
_gold_surfaced(rec) == \E gold \in rec.gt : _contiguous_contains(AllTokens(_tool_outputs(rec)), gold)

_bucket(rec, surfaced) ==
    IF rec.level = "em" THEN "CORRECT" ELSE IF rec.level = "cover" THEN "FORMAT"
    ELSE IF rec.level = "f1" THEN "PARTIAL" ELSE IF surfaced THEN "SURFACED_MISSED" ELSE "NOT_SURFACED"

_record(rec) ==
    LET got == rec.supporting \cap _surfaced_titles(_tool_outputs(rec))
    IN [uid |-> rec.uid, question |-> rec.question, correct |-> rec.level = "em", surfaced |-> _gold_surfaced(rec),
        bucket |-> _bucket(rec, _gold_surfaced(rec)), whole_chain |-> rec.supporting # {} /\ got = rec.supporting]

(* load_traces: no record, or two of one uid, are refused.                 *)
Loads(recs) == recs # <<>> /\ \A i, j \in DOMAIN recs : recs[i].uid = recs[j].uid => i = j

TraceRows(recs) == {_record(recs[i]) : i \in DOMAIN recs}
Count(rows, Has(_)) == Cardinality({row \in rows : Has(row)})

analyze(recs) ==
    LET rows == TraceRows(recs)
    IN [n |-> Cardinality(rows), correct |-> Count(rows, LAMBDA row : row.correct),
        surfaced |-> Count(rows, LAMBDA row : row.surfaced),
        term_surfaced |-> Count(rows, LAMBDA row : row.surfaced /\ row.correct),
        term_not_surfaced |-> Count(rows, LAMBDA row : ~row.surfaced /\ row.correct),
        buckets |-> [b \in BUCKETS |-> Count(rows, LAMBDA row : row.bucket = b)],
        whole_chain |-> Count(rows, LAMBDA row : row.whole_chain),
        correct_given_chain |-> Count(rows, LAMBDA row : row.whole_chain /\ row.correct)]

\* The pairs of rows of one uid.
Paired(ref, other) == {p \in TraceRows(ref) \X TraceRows(other) : p[1].uid = p[2].uid}
Clash(ref, other) == \E p \in Paired(ref, other) : p[1].question # p[2].question

pair(ref, other) ==
    LET common == Paired(ref, other)
    IN [n_paired |-> Cardinality(common),
        unpaired_ref |-> Len(ref) - Cardinality(common), unpaired_other |-> Len(other) - Cardinality(common),
        both_correct |-> Count(common, LAMBDA p : p[1].correct /\ p[2].correct),
        only_ref_correct |-> Count(common, LAMBDA p : p[1].correct /\ ~p[2].correct),
        only_other_correct |-> Count(common, LAMBDA p : ~p[1].correct /\ p[2].correct),
        surfaced_ref_only |-> Count(common, LAMBDA p : p[1].surfaced /\ ~p[2].surfaced),
        surfaced_other_only |-> Count(common, LAMBDA p : ~p[1].surfaced /\ p[2].surfaced),
        transitions |-> [step \in {t \in BUCKETS \X BUCKETS : t[1] # t[2]} |->
                            Count(common, LAMBDA p : p[1].bucket = step[1] /\ p[2].bucket = step[2])]]

-----------------------------------------------------------------------------
InFile(file, records) == SelectSeq(records, LAMBDA rec : rec.file = file)
SumOver(f, S) == MapThenSumSet(LAMBDA x : f[x], S)

(* The numbers of a report reconcile.  The two terms of the decomposition   *)
(* add up to the score, the buckets to the questions; gold that one tool    *)
(* output holds has surfaced, and of gold that surfaced every token is from *)
(* an output that is no error message, though not all from one.  When every question of two evaluations is paired, what   *)
(* the pairs say changed, in answers, surfacing and every bucket, is the    *)
(* difference of the two evaluations; and no pair is of two different      *)
(* questions.                                                              *)
ReportReconciles(records) ==
    LET ref == InFile("ref", records)
        other == InFile("other", records)
        r == analyze(ref)
        o == analyze(other)
        p == pair(ref, other)
        Into(b) == SumOver(p.transitions, {t \in DOMAIN p.transitions : t[2] = b})
        OutOf(b) == SumOver(p.transitions, {t \in DOMAIN p.transitions : t[1] = b})
    IN /\ Loads(ref) =>
             /\ r.term_surfaced + r.term_not_surfaced = r.correct /\ r.buckets["CORRECT"] = r.correct
             /\ r.n = Len(ref) /\ SumOver(r.buckets, BUCKETS) = r.n
             /\ r.buckets["NOT_SURFACED"] + r.surfaced <= r.n
             /\ \A i \in DOMAIN ref : (\E k \in DOMAIN ref[i].outputs : \E gold \in ref[i].gt :
                    ~ref[i].outputs[k].error /\ _contiguous_contains(ref[i].outputs[k].tokens, gold))
                   => _record(ref[i]).surfaced
             /\ \A i \in DOMAIN ref : _record(ref[i]).surfaced =>
                    \E gold \in ref[i].gt \ {<<>>} : \A t \in Range(gold) : \E k \in DOMAIN ref[i].outputs :
                        ~ref[i].outputs[k].error /\ t \in Range(ref[i].outputs[k].tokens)
       /\ Loads(ref) /\ Loads(other) /\ ~Clash(ref, other) =>
             /\ \A i \in DOMAIN ref, j \in DOMAIN other : ref[i].uid = other[j].uid => ref[i].question = other[j].question
             /\ p.n_paired + p.unpaired_ref = r.n /\ p.n_paired + p.unpaired_other = o.n
             /\ p.unpaired_ref = 0 /\ p.unpaired_other = 0 =>
                   /\ p.both_correct + p.only_ref_correct = r.correct
                   /\ p.both_correct + p.only_other_correct = o.correct
                   /\ p.surfaced_other_only - p.surfaced_ref_only = o.surfaced - r.surfaced
                   /\ \A b \in BUCKETS : Into(b) - OutOf(b) = o.buckets[b] - r.buckets[b]
=============================================================================
