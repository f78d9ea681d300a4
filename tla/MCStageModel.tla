---------------------------- MODULE MCStageModel ----------------------------
(* StageModel with two commits that share the file 2: a shard was renamed.  *)
EXTENDS StageModel, TLC

CONSTANTS c1, c2, j1, j2, j3
TwoCommits == {c1, c2}
ThreeFiles == 1..3
Shards == (c1 :> {1, 2}) @@ (c2 :> {2, 3})
Symmetry == Permutations(Jobs)
=============================================================================
