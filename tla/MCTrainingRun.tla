---------------------------- MODULE MCTrainingRun ----------------------------
(* TrainingRun on a small instance.  Attempts, versions and settle rounds   *)
(* are bounded by the constants; nothing else is.                           *)
EXTENDS TrainingRun

CONSTANTS r1, r2
Actors == {r1, r2}
=============================================================================
