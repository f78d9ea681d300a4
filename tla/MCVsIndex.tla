------------------------------- MODULE MCVsIndex -------------------------------
(* Two builds and a cleanup beside a corpus that is rebuilt: whole in two   *)
(* editions, of which the first is built first, or without its second       *)
(* source.  The second build meets the first at its table, and does not     *)
(* wait; what only one build can tell (a corpus build, a cleanup, a failing *)
(* endpoint or index) happens beside one build at most.  Corpora that were  *)
(* never read are not rebuilt.                                              *)
EXTENDS VsIndex

CONSTANTS s1, s2, r1, r2

Whole == [from |-> Sources, edition |-> 1]
MCKeep == {Whole}

Loading == {"create", "copy", "verify"}
Both == Running(r1) /\ Running(r2)

Watched == doomed # NoPlan \/ \E r \in Runs : at[r] = "index" \/ (at[r] = "wait" /\ wait[r])

Bound ==
    /\ build # build' /\ build' # NoBuild => build'.of \in {Whole, [Whole EXCEPT !.edition = 2], [Whole EXCEPT !.from = {s1}]}
    /\ build = NoBuild /\ build' # NoBuild => corpus \in {NoCorpus, Whole}
    /\ corpus = NoCorpus => corpus' \in {NoCorpus, Whole}
    /\ corpusVars' # corpusVars => ~Both /\ (manifest = NoManifest \/ \E r \in Runs : at[r] \in Loading)
    /\ at[r2] = "idle" /\ at'[r2] # "idle" => at[r1] \in Loading \cup {"rename", "ended"} /\ ~wait'[r2] /\ doomed = NoPlan
    /\ doomed = NoPlan /\ doomed' # NoPlan => ~Both
    /\ Both => endpoint' # "offline" /\ \A c \in Corpora : index'[c].state # "failed"
    /\ index' # index => Watched
    /\ \A c \in Corpora : index[c].state # "failed" /\ index'[c].state = "failed" => index[c].n = 0 \/ table[c] = NoTable
    /\ \A r \in Runs : at[r] = "ended" /\ at'[r] # "ended" => r = r1 /\ staging[r1] # NoTable /\ at[r2] = "idle"

MCSpec == Init /\ [][Next /\ Bound]_vars /\ \A r \in Runs : WF_vars(Build(r) /\ Bound)
=============================================================================
