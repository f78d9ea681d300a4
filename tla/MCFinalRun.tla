----------------------------- MODULE MCFinalRun -----------------------------
(* FinalRun with four stages: one before training, training, export, eval.  *)
EXTENDS FinalRun
=============================================================================
