-------------------------------- MODULE RunDir --------------------------------
(***************************************************************************)
(* A training run's checkpoint directory on the Volume: verl saves steps,  *)
(* prune_ckpts.py deletes some of them afterwards, verify_checkpoint.py    *)
(* says which of them can be served and which model each of them is.       *)
(***************************************************************************)
EXTENDS Naturals, FiniteSets, FiniteSetsExt

CONSTANTS
    Steps,      \* the steps that are saved
    Shards,     \* the files of a checkpoint, apart from its manifest
    Resaved     \* a resumed run may save these steps a second time

ASSUME RunDirConstantsOK == Steps \subseteq Nat \ {0} /\ Resaved \subseteq Steps

VARIABLES
    ckpt,       \* global_step_N/actor: its ckpt_contents.json and its files
    doomed,     \* steps the running prune has planned to delete
    newest      \* history: the newest step that was ever complete

dirVars == <<ckpt, doomed, newest>>

(* What a file can hold: a step's data, of its first save or of a resumed   *)
(* run's, or nothing, or what an interrupted copy leaves.                   *)
SavesOf(s) == {<<s, again>> : again \in {FALSE} \cup (IF s \in Resaved THEN {TRUE} ELSE {})}
Saves == UNION {SavesOf(s) : s \in Steps}
Absent == <<0, FALSE>>
Cut == <<0, TRUE>>
Content == {Absent, Cut} \cup Saves
Nothing == [f \in Shards |-> Absent]
Models == UNION {[Shards -> SavesOf(s)] : s \in Steps}

-----------------------------------------------------------------------------
(***************************************************************************)
(* verify_checkpoint.py.  A directory is complete when every file its      *)
(* index names is there in full, a training checkpoint when verl has       *)
(* written its manifest too, which it does last.  The identity covers the  *)
(* metadata, the sizes and a sample of every shard: it is the content.     *)
(***************************************************************************)
verify_hf_dir(files) == files \in Models
verify(c) == c.manifest /\ verify_hf_dir(c.files)
identity(files) == files
same_model(files, ident) == verify_hf_dir(files) /\ identity(files) = ident

list_complete == {s \in Steps : verify(ckpt[s])}

RunDirInit ==
    /\ ckpt = [s \in Steps |-> [manifest |-> FALSE, files |-> Nothing]]
    /\ doomed = {} /\ newest = 0

-----------------------------------------------------------------------------
(* verl saves the steps in order, the files of one in any order and the    *)
(* manifest last.  A resumed run writes over the files that are there.     *)
VerlSaves(s, f) ==
    /\ \A earlier \in Steps : earlier < s => (earlier <= newest \/ ckpt[earlier].manifest)
    /\ \/ newest < s /\ ~ckpt[s].manifest /\ ckpt[s].files[f] = Absent
          /\ ckpt' = [ckpt EXCEPT ![s].files[f] = <<s, FALSE>>]
       \/ s \in Resaved /\ ckpt[s].manifest /\ ckpt[s].files[f] = <<s, FALSE>>
          /\ ckpt' = [ckpt EXCEPT ![s].files[f] = <<s, TRUE>>]
    /\ UNCHANGED <<doomed, newest>>

VerlCompletes(s) ==
    /\ newest < s /\ ~ckpt[s].manifest /\ verify_hf_dir(ckpt[s].files)
    /\ ckpt' = [ckpt EXCEPT ![s].manifest = TRUE] /\ newest' = s
    /\ UNCHANGED doomed

(***************************************************************************)
(* prune_ckpts.py: a plan, and then one recursive delete per step, each of *)
(* which may fail half-way and end the program.                            *)
(***************************************************************************)
HasManifest == {s \in Steps : ckpt[s].manifest}

\* Mutant: the first complete step is taken for the final one.
KeptFirst(keep) == keep \cup {Min(HasManifest)}

Kept(keep) == keep \cup {Max(HasManifest)}

PrunePlan(keep) ==
    /\ doomed = {} /\ HasManifest # {} /\ keep \subseteq HasManifest
    /\ doomed' = HasManifest \ Kept(keep)
    /\ UNCHANGED <<ckpt, newest>>

PruneDeletes(s) ==
    /\ s \in doomed
    /\ \/ /\ ckpt[s].files # Nothing \/ ckpt[s].manifest
          /\ \/ \E f \in Shards : ckpt[s].files[f] # Absent
                                  /\ ckpt' = [ckpt EXCEPT ![s].files[f] = Absent]
             \/ ckpt[s].manifest /\ ckpt' = [ckpt EXCEPT ![s].manifest = FALSE]
          /\ UNCHANGED doomed
       \/ /\ ckpt[s].files = Nothing /\ ~ckpt[s].manifest
          /\ doomed' = doomed \ {s} /\ UNCHANGED ckpt
    /\ UNCHANGED newest

PruneFails == doomed # {} /\ doomed' = {} /\ UNCHANGED <<ckpt, newest>>

RunDirNext ==
    \/ \E s \in Steps, f \in Shards : VerlSaves(s, f)
    \/ \E s \in Steps : VerlCompletes(s) \/ PruneDeletes(s)
    \/ \E keep \in SUBSET Steps : PrunePlan(keep)
    \/ PruneFails

RunDirTypeOK ==
    /\ ckpt \in [Steps -> [manifest : BOOLEAN, files : [Shards -> Content]]]
    /\ doomed \subseteq Steps /\ newest \in Steps \cup {0}

(* "KEPT, always: the FINAL complete step": whatever is planned beside a run *)
(* that still saves, and wherever a delete fails, the newest checkpoint     *)
(* that was ever complete can be served.                                    *)
NewestStays == newest # 0 => newest \in list_complete
=============================================================================
