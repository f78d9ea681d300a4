------------------------------ MODULE PathReport ------------------------------
(***************************************************************************)
(* path_report.py, as far as the reward uses it: what a submitted report   *)
(* is, which of its citations cannot be evidence, which of its figures     *)
(* nobody read, and what a judge's reply says.                             *)
(*                                                                         *)
(* A ledger is the sequence of the runtime's observations, numbered from 1 *)
(* as the runtime numbers them.  Figures are compared up to a decimal      *)
(* scale and only when they look like values, so a figure is a model value.*)
(***************************************************************************)
EXTENDS Naturals, Sequences, FiniteSets

CONSTANTS MaxBytes, MaxSteps, Figures

ASSUME ReportBoundsOK == {MaxBytes, MaxSteps} \subseteq Nat

Compute == "compute"
NoData == "DATA NOT AVAILABLE"
Never == 0   \* delivered_to_request of what was not delivered

-----------------------------------------------------------------------------
(* The actor's interface.  fits: an object whose fields have the right      *)
(* types and whose claim is short enough.                                  *)
Cited(path) == {path[i].observation : i \in DOMAIN path}
EarlierIds(path, i) == {path[j].id : j \in 1..(i - 1)}

WellFormed(path) ==
    \A i \in DOMAIN path :
        /\ path[i].fits
        /\ path[i].id \notin EarlierIds(path, i)
        /\ path[i].depends_on \subseteq EarlierIds(path, i)

parse_report(r) ==
    IF ~r.object \/ r.bytes > MaxBytes \/ r.answer = "" \/ ~r.list THEN "malformed"
    ELSE IF r.answer = NoData /\ r.path = <<>> THEN "abstention"
    ELSE IF Len(r.path) \in 1..MaxSteps /\ WellFormed(r.path) THEN "valid"
    ELSE "malformed"

-----------------------------------------------------------------------------
(* References that cannot be evidence. *)
Delivered(o) == o.delivered_to # Never

(* Citations of what the policy was never shown.                            *)
Unread(path, ledger) ==
    {i \in DOMAIN path : path[i].observation \notin DOMAIN ledger \/ ~Delivered(ledger[path[i].observation])}

(* Figures of looked-up steps that no delivered observation holds.          *)
ReadFigures(ledger) == UNION {ledger[n].figures : n \in {m \in DOMAIN ledger : Delivered(ledger[m])}}

Fabricated(path, ledger) ==
    {i \in DOMAIN path :
        /\ path[i].observation \in DOMAIN ledger
        /\ ledger[path[i].observation].tool # Compute
        /\ ~(path[i].figures \subseteq ReadFigures(ledger))}

-----------------------------------------------------------------------------
(* The judge's reply: the fields of its last verdict-shaped object.  Scores *)
(* are per cent; Null and Bad are the JSON null and everything that is no   *)
(* finite number.                                                          *)
Null == 1000
Bad == 1001
Unresolved == "unknown"

parse_support_verdict(v) ==
    IF ~v.object THEN Unresolved
    ELSE IF v.status = "supported" /\ v.score \in 1..100 THEN "supported"
    ELSE IF v.status = "unsupported" /\ v.score \in {0, Null} THEN "unsupported"
    ELSE Unresolved
=============================================================================
