------------------------------ MODULE WeightCache ------------------------------
(***************************************************************************)
(* The copy of a model on a node's NVMe that vLLM and SGLang load from     *)
(* (serve_and_eval.sh, serve_judge.sh): one directory per identity, copied *)
(* aside, verified against the source, marked and renamed.  Jobs follow    *)
(* each other on the node, may be killed anywhere, and find what the last  *)
(* one left.                                                               *)
(***************************************************************************)
EXTENDS RunDir

VARIABLES
    copy,       \* <cache>/<identity>
    partial     \* <cache>/<identity>.partial

cacheVars == <<copy, partial>>

Dir == [files : [Shards -> Content], mark : BOOLEAN]    \* mark: .voa_complete
Empty == [files |-> Nothing, mark |-> FALSE]

CacheInit == copy = [m \in Models |-> Empty] /\ partial = [m \in Models |-> Empty]

Reusable(m) == copy[m].mark /\ same_model(copy[m].files, m)

(* rm -rf of both, which a kill may interrupt after any file.               *)
Without(d, m) ==
    \/ d[m].mark /\ d' = [d EXCEPT ![m].mark = FALSE]
    \/ \E f \in Shards : d[m].files[f] # Absent /\ d' = [d EXCEPT ![m].files[f] = Absent]

Clears(m) ==
    \/ Without(copy, m) /\ UNCHANGED partial
    \/ copy[m] = Empty /\ Without(partial, m) /\ UNCHANGED copy

Cleared(m) == copy[m] = Empty /\ partial[m] = Empty

(* Files are copied side by side; one is cut short until its cp has ended.  *)
Copies(m, s, f) ==
    /\ ckpt[s].files[f] \in Saves
    /\ \/ partial[m].files[f] = Absent /\ partial' = [partial EXCEPT ![m].files[f] = Cut]
       \/ partial[m].files[f] = Cut
          /\ partial' = [partial EXCEPT ![m].files[f] = ckpt[s].files[f]]
    /\ UNCHANGED copy

(* cp finds no source: the job stops.                                       *)
CannotCopy(m, s) ==
    \E f \in Shards : partial[m].files[f] \in {Absent, Cut} /\ ckpt[s].files[f] = Absent

Copied(m) == \A f \in Shards : partial[m].files[f] \in Saves

Marks(m) == partial' = [partial EXCEPT ![m].mark = TRUE] /\ UNCHANGED copy

Renames(m) ==
    /\ copy' = [copy EXCEPT ![m] = partial[m]]
    /\ partial' = [partial EXCEPT ![m] = Empty]

CacheTypeOK == copy \in [Models -> Dir] /\ partial \in [Models -> Dir]
=============================================================================
