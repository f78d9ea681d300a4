------------------------------- MODULE LaunchPlan -------------------------------
(***************************************************************************)
(* What a training job's settings amount to, and which the launchers       *)
(* refuse: the knobs (preflight.py knobs), the split of the nodes into     *)
(* trainer and rollout, the lengths of an episode and the budget (the two  *)
(* launchers), and the plan (preflight.py plan).                           *)
(*                                                                         *)
(* A job is a sequence of settings [name, value] over Defaults; the last   *)
(* one of a name counts.  Booleans are 0 and 1.  Knobs (upper case) are     *)
(* typed by preflight, which also refuses an unknown name of theirs; the    *)
(* air parameters (lower case) are not.                                    *)
(***************************************************************************)
EXTENDS Integers, Sequences, SequencesExt, FiniteSetsExt

CONSTANTS
    Defaults,       \* every setting's value where the job does not set it
    Limits,         \* KNOWN_MODELS: by model, its heads, layers, experts
    Rows            \* rows of train_files, where that is one file

Unset == -1
Async == "async"
Sync == "sync"
OffloadAuto == 2    \* OFFLOAD=auto
List == 1           \* train_files is a list, "[...]"

-----------------------------------------------------------------------------
(* hp and ${NAME:-default} *)
Setting(job, name) ==
    LET sets == {i \in DOMAIN job : job[i].name = name}
    IN IF sets = {} THEN Defaults[name] ELSE job[Max(sets)].value
IsSet(job, name) == \E i \in DOMAIN job : job[i].name = name

(* KNOBS: the launchers that read a knob, and its least value, if any.     *)
AsyncKnobs == {"N_GPUS_ROLLOUT", "EPISODE_TOKEN_BUDGET", "TRIGGER_SYNC_STEP", "REQUIRE_BATCHES", "ALLOW_UNCERTIFIED"}
SyncKnobs == {"FSDP", "OFFLOAD", "SEPARATE"}
AnyInteger == {"SAVE_FREQ", "TEST_FREQ"}
SharedKnobs == {"TP", "PP", "CP", "EP", "ETP", "GEN_TP", "MAX_MODEL_LEN", "MAX_TURNS", "MULTI_TURN", "ROLLOUT_NNODES"}
               \cup AnyInteger
MayBeZero == {"MULTI_TURN", "ROLLOUT_NNODES", "ALLOW_UNCERTIFIED"} \cup SyncKnobs

KNOBS ==
    [name \in AsyncKnobs \cup SyncKnobs \cup SharedKnobs |->
        [modes |-> {mode \in {Async, Sync} : name \notin IF mode = Async THEN SyncKnobs ELSE AsyncKnobs},
         lo |-> IF name \in MayBeZero THEN 0 ELSE 1]]

Plumbing == {"NNODES", "NGPUS_PER_NODE"}
Parameters == {"model", "prompt", "response", "train_files", "total", "epochs", "mini", "batch", "n"}
Numbers == DOMAIN KNOBS \cup Plumbing \cup (Parameters \ {"model"})

\* A setting, as a job or the defaults give it: only the model is no number.
IsSetting(s) == s.name # "model" => s.value \in IF s.name \in {"epochs", "batch"} THEN Nat ELSE Int

ASSUME LaunchConfigOK ==
    /\ Rows \in Nat
    /\ \A name \in Numbers : IsSetting([name |-> name, value |-> Defaults[name]])
    /\ Defaults["ROLLOUT_NNODES"] >= 0

check_knobs(mode, job) ==
    \A i \in DOMAIN job :
        \/ job[i].name \in Plumbing \cup Parameters
        \/ /\ job[i].name \in DOMAIN KNOBS
           /\ mode \in KNOBS[job[i].name].modes
           /\ job[i].name \in AnyInteger \/ job[i].value >= KNOBS[job[i].name].lo

-----------------------------------------------------------------------------
(* Topology.  ok is FALSE where the launcher stops. *)
Placement(trainer_nodes, trainer_each, rollout_gpus) ==
    [ok |-> trainer_nodes >= 1 /\ trainer_each >= 1 /\ rollout_gpus >= 1,
     trainer |-> trainer_nodes * trainer_each, rollout |-> rollout_gpus]

topology(mode, job) ==
    LET V(name) == Setting(job, name)
        Whole == V("NGPUS_PER_NODE")
    IN CASE mode = Async /\ V("ROLLOUT_NNODES") >= 1 ->
              Placement(V("NNODES") - V("ROLLOUT_NNODES"), Whole, V("ROLLOUT_NNODES") * Whole)
         [] mode = Async /\ V("ROLLOUT_NNODES") = 0 ->
              Placement(V("NNODES"), Whole - V("N_GPUS_ROLLOUT"), V("NNODES") * V("N_GPUS_ROLLOUT"))
         [] mode = Sync /\ V("SEPARATE") = 1 ->
              Placement(V("NNODES") - V("ROLLOUT_NNODES"), Whole, V("ROLLOUT_NNODES") * Whole)
         [] OTHER ->     \* co-located: a rollout of its own is refused by check_knobs
              [Placement(V("NNODES"), Whole, V("NNODES") * Whole) EXCEPT !.ok = @ /\ V("ROLLOUT_NNODES") = 0]

(* The sync launcher's OFFLOAD=auto: None where it has no answer. *)
Offload(job, trainer) ==
    LET fsdp == Setting(job, "FSDP") = 1
    IN IF Setting(job, "OFFLOAD") # OffloadAuto THEN Setting(job, "OFFLOAD")
       ELSE IF fsdp THEN IF trainer >= 16 THEN 0 ELSE Unset
       ELSE IF trainer >= 32 THEN 0 ELSE 1

-----------------------------------------------------------------------------
(* The lengths of an episode, its prompt included. *)
EpisodeLen(job) ==
    LET turn == Setting(job, "prompt") + Setting(job, "response")
    IN IF Setting(job, "MULTI_TURN") = 0 THEN turn
       ELSE IF IsSet(job, "EPISODE_TOKEN_BUDGET") THEN Setting(job, "EPISODE_TOKEN_BUDGET")
       ELSE turn * Setting(job, "MAX_TURNS")

MaxModelLen(job) == IF IsSet(job, "MAX_MODEL_LEN") THEN Setting(job, "MAX_MODEL_LEN") ELSE EpisodeLen(job)

\* Only the async launcher checks them.
LengthsOK(job) ==
    IF Setting(job, "MULTI_TURN") = 0 THEN ~IsSet(job, "EPISODE_TOKEN_BUDGET")
    ELSE /\ EpisodeLen(job) >= Setting(job, "prompt") + Setting(job, "response")
         /\ MaxModelLen(job) >= EpisodeLen(job)

RespBudget(job) ==
    IF Setting(job, "MULTI_TURN") = 0 THEN Setting(job, "response") ELSE EpisodeLen(job) - Setting(job, "prompt")

-----------------------------------------------------------------------------
(* The budget of a fully-async run: it must reach one exact version. *)
SyncSamples(job) == Setting(job, "TRIGGER_SYNC_STEP") * Setting(job, "REQUIRE_BATCHES") * Setting(job, "mini")
EXPECTED_FINAL(job) == Setting(job, "total") \div SyncSamples(job)

\* The rows are counted, and one in ten kept in hand, only of a single file.
HeadroomOK(job) ==
    Setting(job, "train_files") # List => Setting(job, "total") * 10 <= Rows * Setting(job, "epochs") * 9

\* Mutant: a partial last batch is let through.
BudgetRounds(job) ==
    /\ SyncSamples(job) >= 1
    /\ Setting(job, "SAVE_FREQ") >= 1 \/ Setting(job, "ALLOW_UNCERTIFIED") = 1
    /\ Setting(job, "TEST_FREQ") # 0
    /\ HeadroomOK(job)

BudgetOK(job) ==
    /\ SyncSamples(job) >= 1 /\ Setting(job, "total") % SyncSamples(job) = 0
    /\ Setting(job, "SAVE_FREQ") >= 1 \/ Setting(job, "ALLOW_UNCERTIFIED") = 1
    /\ Setting(job, "TEST_FREQ") # 0
    /\ HeadroomOK(job)

(* The plan: geometry against the model, the grid and the batches.         *)
_divides(n, of) == n >= 1 /\ of % n = 0

ModelOK(job) ==
    LET V(name) == Setting(job, name)
        limits == Limits[V("model")]
    IN /\ V("model") \in DOMAIN Limits
       /\ \A heads \in limits.all_heads : heads % V("TP") = 0
       /\ limits.layers % V("PP") = 0
       /\ IF limits.experts = 0 THEN V("EP") = 1 ELSE limits.experts % V("EP") = 0
       /\ limits.heads % V("GEN_TP") = 0

DP(job, trainer) == trainer \div (Setting(job, "TP") * Setting(job, "PP") * Setting(job, "CP"))

GridOK(job, t) ==
    LET V(name) == Setting(job, name)
    IN /\ _divides(V("TP") * V("PP") * V("CP"), t.trainer)
       /\ _divides(V("EP") * V("ETP") * V("PP"), t.trainer)
       /\ _divides(V("GEN_TP"), t.rollout)
       /\ V("mini") % DP(job, t.trainer) = 0

SyncPlanOK(job, t) ==
    LET V(name) == Setting(job, name)
    IN /\ ~(V("FSDP") = 1 /\ Offload(job, t.trainer) = 1) /\ Offload(job, t.trainer) # Unset
       /\ (V("batch") * V("n")) % t.trainer = 0
       /\ V("mini") # 0 => V("batch") % V("mini") = 0

(* plan's own account of the versions, Unset where it has none.            *)
plan_final(job) ==
    LET per_sync == SyncSamples(job)
    IN IF per_sync # 0 /\ Setting(job, "total") % per_sync = 0 THEN Setting(job, "total") \div per_sync ELSE Unset

launches(mode, job) ==
    LET t == topology(mode, job)
    IN /\ check_knobs(mode, job) /\ t.ok /\ ModelOK(job) /\ GridOK(job, t)
       /\ IF mode = Async THEN LengthsOK(job) /\ BudgetOK(job) ELSE SyncPlanOK(job, t)

-----------------------------------------------------------------------------
(* What starts can end as planned.  No GPU is left out or given twice; all  *)
(* ranks take equal shares of every batch; an async run ends exactly at the *)
(* version the plan shows and the certificate waits for, before the data of *)
(* a single file ends, and the context of a multi-turn rollout holds every  *)
(* token that may be trained.  The rows of a list of files are not counted, *)
(* nor is the context of a single turn compared with its lengths.           *)
LaunchIsExact(mode, job) ==
    launches(mode, job) =>
        LET V(name) == Setting(job, name)
            t == topology(mode, job)
            gpus == V("NNODES") * V("NGPUS_PER_NODE")
            dp == DP(job, t.trainer)
        IN /\ IF mode = Async \/ V("SEPARATE") = 1 THEN t.trainer + t.rollout = gpus
              ELSE t.trainer = gpus /\ t.rollout = gpus
           /\ dp * V("TP") * V("PP") * V("CP") = t.trainer /\ (V("mini") * V("n")) % dp = 0
           /\ mode = Async =>
                 /\ plan_final(job) = EXPECTED_FINAL(job)
                 /\ EXPECTED_FINAL(job) * SyncSamples(job) = V("total")
                 /\ V("train_files") # List => V("total") <= Rows * V("epochs")
                 /\ V("MULTI_TURN") = 1 => /\ V("prompt") + RespBudget(job) <= MaxModelLen(job)
                                           /\ RespBudget(job) >= V("response")
           /\ mode = Sync /\ V("mini") > 0 => \E k \in 0..V("batch") : k * V("mini") = V("batch")
=============================================================================
