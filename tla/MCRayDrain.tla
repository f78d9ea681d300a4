----------------------------- MODULE MCRayDrain -----------------------------
(* RayDrain on a small cluster; its workers are interchangeable.            *)
EXTENDS RayDrain, TLC

CONSTANTS w1, w2
Nodes == {w1, w2}
Symmetry == Permutations(Nodes)
=============================================================================
