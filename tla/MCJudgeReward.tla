---------------------------- MODULE MCJudgeReward ----------------------------
(* JudgeReward with two calls in flight.                                    *)
EXTENDS JudgeReward, TLC

CONSTANTS s1, s2
=============================================================================
