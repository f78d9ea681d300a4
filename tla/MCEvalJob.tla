------------------------------ MODULE MCEvalJob -------------------------------
(* Two jobs on one node.  Questions read nothing of the run directory or of *)
(* the node's disk, so they are asked only when both have settled; copies   *)
(* meet them in every state.  A first job leaves artifacts or a changing    *)
(* directory to the second, not both.                                       *)
EXTENDS EvalJob, TLC

CONSTANTS f1, f2, q1, q2

FirstSave(s) == [f \in Shards |-> <<s, FALSE>>]
Settled ==
    /\ \A s \in Steps : ckpt[s] = [manifest |-> TRUE, files |-> FirstSave(s)]
    /\ partial = [m \in Models |-> Empty]
    /\ \A m \in Models \ {FirstSave(2)} : copy[m] = Empty

Asked == (\E x \in Questions : parts[x] # 0) \/ out # NoArtifact \/ trace # 0

Bound ==
    /\ at = "ended" /\ at' = "preflight" => Settled \/ case' = "math"
    /\ at = "healthy" /\ at' = "asking" /\ loaded' # {} => Settled /\ step = 2
    /\ at \in {"healthy", "asking", "traced", "written", "reporting"} \/ Asked => UNCHANGED dirVars

MCSpec == Init /\ [][Next /\ Bound]_vars /\ WF_vars(JobStep /\ Bound)
=============================================================================
