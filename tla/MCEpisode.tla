------------------------------ MODULE MCEpisode -------------------------------
(* Three turns: two observations can be read before a report is submitted.  *)
(* Reports cite the first, the second or one that never was, in steps that  *)
(* may repeat an id, depend on a later step or claim a figure.              *)
EXTENDS Episode, TLC

CONSTANTS fa

PathStepOf(id, n, deps, figures) ==
    [fits |-> TRUE, id |-> id, observation |-> n, depends_on |-> deps, figures |-> figures]
ReportOf(answer, path) == [object |-> TRUE, bytes |-> 1, answer |-> answer, list |-> TRUE, path |-> path]

Firsts == {PathStepOf(1, n, {}, F) : n \in 1..2, F \in {{}, {fa}}}
Seconds == {PathStepOf(id, n, D, {}) : id \in {2}, n \in 1..3, D \in {{}, {1}}} \cup {PathStepOf(2, 2, {1}, {fa})}
Paths == {<<s>> : s \in Firsts} \cup {<<s, t>> : s \in Firsts, t \in Seconds}
Odd == {ReportOf("wrong", <<PathStepOf(1, 1, {}, {})>>), ReportOf(NoData, <<>>), ReportOf("right", <<>>),
        ReportOf("", <<>>), NoReport,
        ReportOf("right", <<PathStepOf(1, 1, {2}, {}), PathStepOf(2, 2, {}, {})>>),
        ReportOf("right", <<PathStepOf(1, 1, {}, {}), PathStepOf(1, 2, {}, {})>>),
        [ReportOf("right", <<PathStepOf(1, 1, {}, {})>>) EXCEPT !.bytes = 3],
        ReportOf("right", <<[PathStepOf(1, 1, {}, {}) EXCEPT !.fits = FALSE]>>),
        ReportOf("right", <<PathStepOf(1, 1, {}, {}), PathStepOf(2, 1, {}, {}), PathStepOf(3, 1, {}, {})>>)}
MCReports == {ReportOf("right", p) : p \in Paths} \cup Odd

Reply(strict, status, score) == [object |-> TRUE, strict |-> strict, status |-> status, score |-> score]
MCReplies == {Reply(TRUE, "supported", 90), Reply(TRUE, "supported", 0), Reply(TRUE, "supported", Bad),
              Reply(FALSE, "supported", 90), Reply(TRUE, "unsupported", 0), Reply(TRUE, "unsupported", Null),
              Reply(TRUE, "unsupported", 70), Reply(TRUE, "unknown", Null), Reply(TRUE, "perhaps", 50),
              [Reply(FALSE, "unknown", Null) EXCEPT !.object = FALSE]}
=============================================================================
