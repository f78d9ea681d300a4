------------------------------ MODULE Algorithms ------------------------------
(***************************************************************************)
(* The pure algorithms, each on every input: a subject is chosen and its   *)
(* input grows by one element at a time, from a start that gets it to the  *)
(* interesting part.                                                       *)
(***************************************************************************)
EXTENDS Chunker, HtmlTable, AnswerCheck, SearchReward, SearchTool, LaunchPlan, Calculator, PairedEval, TraceDiagnostic, Splits

CONSTANTS
    Longest,        \* by subject, the length of its inputs
    Alphabet,       \* by subject, what its inputs are made of
    Starts,         \* by subject, the inputs it starts from
    Golds           \* the gold answers that an answer is checked against

ASSUME InputsOK ==
    /\ \A s \in DOMAIN Longest : \A start \in Starts[s] : start \in Seq(Alphabet[s])
    /\ \A setting \in Alphabet["launch"] : IsSetting(setting)
    /\ \A row \in Alphabet["splits"] : IsRow(row)
    /\ \A part \in Alphabet["calculator"] : IsPart(part)
    /\ \A token \in Alphabet["search"] : IsToken(token)
    /\ \A event \in Alphabet["tool"] : IsEvent(event)
    /\ \A tag \in Alphabet["html"] : IsTag(tag)
    /\ \A token \in Alphabet["answer"] : IsText(token)
    /\ \A gold \in Golds : gold \in Seq(Range(gold)) /\ \A k \in DOMAIN gold : IsText(gold[k])

VARIABLES subject, input
vars == <<subject, input>>

Init == subject \in DOMAIN Longest /\ input \in Starts[subject]
Grow == Len(input) < Longest[subject] /\ (\E x \in Alphabet[subject] : input' = Append(input, x)) /\ UNCHANGED subject
Spec == Init /\ [][Grow]_vars

-----------------------------------------------------------------------------
(* chunker.py loses no line of a file: every line that is neither blank nor a *)
(* heading is in a chunk, a table's chunks are its header and rows of that    *)
(* table only, and a chunk is over its limit only where one row must be.      *)
ChunksHold == subject = "chunker" => ChunksHoldTheFile(input)
(* Every closed cell of a row comes out of html_table_parser.py exactly once, *)
(* and no cell's place is taken by an earlier one's span, nor their order     *)
(* changed.                                                                   *)
CellsHold == subject = "html" => CellsComeOut(input)
(* answer_check.py accepts an answer only when it states the gold values or   *)
(* words, and accepts every answer that quotes a gold with words in it.       *)
AnswersHold ==
    subject = "answer" => \A gold \in Golds : AcceptedIsGold(input, gold) /\ QuotedIsAccepted(input, gold)
(* Agentic search: only text the model wrote can earn the answer's score, and *)
(* the passages its tools return, which can earn the bonus, are what the      *)
(* index gave that search, however the calls of a worker overlap              *)
(* (role_spans.py, reward.py and tool.py).                                    *)
RewardHolds ==
    /\ subject = "search" => OnlyTheModelsAnswerPays(input)
    /\ subject = "tool" => ShowsTheIndex(input)
(* A job that the launchers let start ends as its plan says (preflight.py and *)
(* the two run_grpo launchers).                                               *)
LaunchHolds == subject = "launch" => \A mode \in {Async, Sync} : LaunchIsExact(mode, input)
(* math/tool.py never holds a number over its limit of bits, and never        *)
(* computes one of more than twice as many on the way.                        *)
CalculatorHolds == subject = "calculator" => CalculatorIsBounded(input)
(* paired_eval.py's numbers are what they are called: McNemar's p counts sign *)
(* flips, the permutation p of sampled flips is a p-value, pass@k counts      *)
(* samples of size k; and analyze_traces.py's report of two evaluations       *)
(* reconciles.                                                                *)
PairedHolds ==
    /\ subject = "paired" => StatisticsAreExact(input)
    /\ subject = "traces" => ReportReconciles(input)
(* No question is both trained on and held out (task.py, select_train.py and  *)
(* make_splits.py).                                                           *)
SplitsHold == subject = "splits" => SplitsDoNotLeak(input)
=============================================================================
