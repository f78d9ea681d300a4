----------------------------- MODULE RunContract -----------------------------
(***************************************************************************)
(* What a launcher's success promises, whatever happens inside the run     *)
(* (run_certificate.py, docs/training-modes.md): an attempt is declared    *)
(* complete only after it has saved the planned final version itself, and  *)
(* never once it was vetoed while it trained.  TrainingRun implements it.  *)
(***************************************************************************)
VARIABLES
    outcome,    \* what the certificate said of this attempt
    saved,      \* this attempt completely saved the planned final version
    vetoed      \* a component asked for a stop while training ran

contractVars == <<outcome, saved, vetoed>>

ContractInit == outcome = "open" /\ saved = FALSE /\ vetoed = FALSE

Begin == outcome' = "open" /\ saved' = FALSE /\ vetoed' = FALSE

SaveFinal == saved' = TRUE /\ UNCHANGED <<outcome, vetoed>>

Veto == outcome = "open" /\ vetoed' = TRUE /\ UNCHANGED <<outcome, saved>>

Certify ==
    /\ outcome = "open" /\ saved /\ ~vetoed
    /\ outcome' = "certified"
    /\ UNCHANGED <<saved, vetoed>>

Fail == outcome = "open" /\ outcome' = "failed" /\ UNCHANGED <<saved, vetoed>>

ContractNext == Begin \/ SaveFinal \/ Veto \/ Certify \/ Fail

ContractSpec == ContractInit /\ [][ContractNext]_contractVars
=============================================================================
