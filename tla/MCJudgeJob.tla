----------------------------- MODULE MCJudgeJob -----------------------------
(* JudgeJob for TLC: the bounds are in the configurations. *)
EXTENDS JudgeJob
=============================================================================
