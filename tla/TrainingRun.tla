----------------------------- MODULE TrainingRun -----------------------------
(***************************************************************************)
(* One training run of the fully-async or the sync launcher, over several  *)
(* attempts that write to the same <output_dir>/<RUN_ID>/ directory:       *)
(*                                                                         *)
(*   launcher    run_grpo_fully_async.sh on rank 0, with run_identity.sh,  *)
(*               run_driver.sh and run_certificate.py                      *)
(*   verl        the training driver (external), which saves checkpoints   *)
(*               and exits with a code that says nothing on its own        *)
(*   abort       run_control.py: any component may ask the run to stop     *)
(*   watchdog    run_driver.sh: acts on the abort file                     *)
(*                                                                         *)
(* The question: when does the launcher report success, and is that report *)
(* true of what is on the shared Volume?                                   *)
(***************************************************************************)
EXTENDS Naturals

CONSTANTS
    Final,          \* EXPECTED_FINAL: the planned final parameter version
    MaxAttempts,    \* bound: submissions of this RUN_ID
    SettlePolls,    \* bound: re-evaluations that fit in --settle-s
    Requesters,     \* components that may raise the abort channel
    NoOne,          \* "no abort request"
    SyncAttempts,   \* the submissions made with the sync launcher
    Uncertified     \* those that plan no final checkpoint: sync without SAVE_FREQ
                    \* or without a step count, async with ALLOW_UNCERTIFIED=1

ASSUME ConstantsOK ==
    /\ Final \in Nat \ {0}
    /\ MaxAttempts \in Nat \ {0}
    /\ SettlePolls \in Nat
    /\ NoOne \notin Requesters
    /\ SyncAttempts \subseteq Nat
    /\ Uncertified \subseteq Nat

VARIABLES
    attempt,    \* how many times this RUN_ID was submitted
    phase,      \* where the head's launcher is
    exitCode,   \* the code the launcher left with (NoCode: none yet, or killed)
    pendingTerm,\* a TERM bash defers: its foreground child is still running
    tracker,    \* latest_checkpointed_iteration.txt on the Volume
    seen,       \* the tracker as the head's node sees it (Volume lag)
    pre,        \* PRE_TRACKER: the snapshot taken before the driver started
    ckpt,       \* global_step_N, for every version N
    py,         \* the driver's python process
    version,    \* the parameter version the trainer holds
    termed,     \* the driver's process group was sent TERM
    shell,      \* the subshell that leads the driver's process group
    rawRc,      \* the subshell's exit status (DRIVER_RC)
    hard,       \* the log shows a hard-failure signature
    watchdog,   \* abort_watchdog
    abort,      \* ABORT.json: whose request it holds
    asking,     \* per component: how far its request_abort call is
    polls,      \* evaluations left before --settle-s runs out
    verdict,    \* the certificate's verdict in this attempt
    result,     \* run_result.json on the Volume
    base,       \* history: the tracker's stamp when this attempt began
    raisedIn,   \* history: the phase in which ABORT.json appeared
    readOk      \* history: the last evaluation could read what it needed

launcherVars == <<attempt, phase, exitCode, pendingTerm, pre, rawRc, polls,
                  verdict, result, base, readOk>>
verlVars  == <<py, version, hard>>
diskVars  == <<tracker, seen, ckpt>>
groupVars == <<termed, shell, watchdog>>
abortVars == <<abort, asking, raisedIn>>
vars == <<launcherVars, verlVars, diskVars, groupVars, abortVars>>

Versions == 0..Final
NoCode   == 999                         \* not an exit status
Codes    == {0, 1, 143}                 \* success, failure, TERM
Attempts == 0..MaxAttempts

\* --nonzero-fails: the sync launcher's own exit code counts.
NonzeroFails == attempt \in SyncAttempts

\* Whether a final checkpoint is planned, and so a certificate drawn up.
IsCertifiable == attempt \notin Uncertified

(***************************************************************************)
(* The tracker: stamp identifies the write (mtime_ns and size), 0 is "no   *)
(* such file".                                                             *)
(***************************************************************************)
NoTracker == [stamp |-> 0, value |-> 0]
Tracker   == [stamp : Nat, value : Versions]

Absent == [state |-> "absent", by |-> 0]
Step   == [state : {"absent", "partial", "complete"}, by : Attempts]
NoResult == [verdict |-> "none", by |-> 0]
Verdicts == {"none", "certified", "failed"}

Phases == {"idle", "identity", "boot", "snapshot", "launch", "driving",
           "check", "exiting", "ended"}
PyStates == {"none", "train", "saving", "saved", "gone"}

\* What the properties speak about.
PyAlive == py \in {"train", "saving", "saved"}
\* This attempt has itself saved version v, completely.
SavedHere(v) == ckpt[v].state = "complete" /\ ckpt[v].by = attempt
Running == phase \notin {"idle", "ended"}

Init ==
    /\ attempt = 0 /\ phase = "idle" /\ exitCode = NoCode
    /\ pendingTerm = FALSE
    /\ tracker = NoTracker /\ seen = NoTracker /\ pre = NoTracker
    /\ ckpt = [v \in Versions |-> Absent]
    /\ py = "none" /\ version = 0 /\ termed = FALSE /\ shell = "none"
    /\ rawRc = 0 /\ hard = FALSE /\ watchdog = "off"
    /\ abort = NoOne /\ asking = [r \in Requesters |-> "no"]
    /\ polls = 0 /\ verdict = "none" /\ result = NoResult
    /\ base = 0 /\ raisedIn = "none" /\ readOk = TRUE

-----------------------------------------------------------------------------
(***************************************************************************)
(* Leaving: the EXIT trap ends the driver's group and stops Ray; the job's *)
(* processes do not outlive the attempt.                                   *)
(***************************************************************************)
Leave(code) ==
    /\ phase' = "ended"
    /\ exitCode' = code
    /\ py' = IF PyAlive THEN "gone" ELSE py
    /\ shell' = IF shell = "alive" THEN "dead" ELSE shell
    /\ watchdog' = "off"
    /\ asking' = [r \in Requesters |-> "no"]

(***************************************************************************)
(* Rank 0 of the dispatcher, at the start of a submission: it removes the  *)
(* abort file an earlier attempt left in the rendezvous directory.         *)
(***************************************************************************)
DispatchHead ==
    /\ phase \in {"idle", "ended"} /\ attempt < MaxAttempts
    /\ attempt' = attempt + 1
    /\ phase' = "identity"
    /\ exitCode' = NoCode /\ pendingTerm' = FALSE
    /\ abort' = NoOne /\ raisedIn' = "none"
    /\ asking' = [r \in Requesters |-> "no"]
    /\ py' = "none" /\ hard' = FALSE /\ termed' = FALSE
    /\ shell' = "none" /\ rawRc' = 0 /\ watchdog' = "off"
    /\ seen' = tracker /\ base' = tracker.stamp
    /\ pre' = NoTracker /\ polls' = SettlePolls /\ verdict' = "none"
    /\ readOk' = TRUE
    /\ UNCHANGED <<tracker, ckpt, version, result>>

(***************************************************************************)
(* resolve_run_identity: RESUME=never refuses a directory that already has *)
(* checkpoints; auto continues from the tracker; a path starts there.      *)
(***************************************************************************)
HasCheckpoints == \E v \in Versions : ckpt[v].state # "absent"

ResumeVersion(mode) ==
    CASE mode = "never" -> {v \in {0} : ~HasCheckpoints}
      [] mode = "auto"  -> {tracker.value}
      [] mode = "path"  -> {v \in Versions : ckpt[v].state = "complete"}

ResolveIdentity(mode) ==
    /\ phase = "identity"
    /\ \E v \in ResumeVersion(mode) : version' = v
    /\ phase' = "boot"
    /\ UNCHANGED <<attempt, exitCode, pendingTerm, pre, rawRc, polls, verdict,
                   result, base, readOk, py, hard, diskVars, groupVars, abortVars>>

RefuseIdentity ==
    /\ phase = "identity"
    /\ HasCheckpoints                   \* RESUME=never
    /\ Leave(1)
    /\ UNCHANGED <<attempt, pendingTerm, pre, rawRc, polls, verdict, result,
                   base, readOk, version, hard, diskVars, termed, abort, raisedIn>>

(* ray_start_head: every GPU registered, or the bootstrap fails. *)
BootCluster ==
    /\ phase = "boot"
    /\ phase' = "snapshot"
    /\ UNCHANGED <<attempt, exitCode, pendingTerm, pre, rawRc, polls, verdict,
                   result, base, readOk, verlVars, diskVars, groupVars, abortVars>>

(***************************************************************************)
(* PRE_TRACKER: what the tracker says before the run.  A read that fails   *)
(* with EIO is retried; when it keeps failing the launcher exits (set -e). *)
(***************************************************************************)
SnapshotTracker ==
    /\ phase = "snapshot"
    /\ pre' = seen
    /\ phase' = "launch"
    /\ UNCHANGED <<attempt, exitCode, pendingTerm, rawRc, polls, verdict,
                   result, base, readOk, verlVars, diskVars, groupVars, abortVars>>

FailBeforeDriver ==
    /\ phase \in {"boot", "snapshot", "launch"}
    /\ Leave(1)
    /\ UNCHANGED <<attempt, pendingTerm, pre, rawRc, polls, verdict, result,
                   base, readOk, version, hard, diskVars, termed, abort, raisedIn>>

(***************************************************************************)
(* run_driver: the driver in a process group led by a subshell, and the    *)
(* watchdog beside it.  It returns when the SUBSHELL is reaped, and then   *)
(* kills the watchdog, whatever the watchdog was about to do.  Then comes  *)
(* the certificate, if this attempt plans a final checkpoint at all.       *)
(***************************************************************************)
StartDriver ==
    /\ phase = "launch"
    /\ phase' = "driving"
    /\ py' = "train" /\ shell' = "alive" /\ watchdog' = "polling"
    /\ UNCHANGED <<attempt, exitCode, pendingTerm, pre, rawRc, polls, verdict,
                   result, base, readOk, version, hard, diskVars, termed, abortVars>>

RunDriverReturns ==
    /\ phase = "driving" /\ shell = "dead"
    /\ phase' = IF IsCertifiable THEN "check" ELSE "exiting"
    /\ watchdog' = "off"
    /\ UNCHANGED <<attempt, exitCode, pendingTerm, pre, rawRc, polls, verdict,
                   result, base, readOk, verlVars, diskVars, termed, shell, abortVars>>

(* The subshell ends with python's code: PIPESTATUS[0] of the tee pipeline. *)
ShellExit ==
    /\ shell = "alive" /\ py = "gone"
    /\ shell' = "dead"
    /\ UNCHANGED <<launcherVars, verlVars, diskVars, termed, watchdog, abortVars>>

(***************************************************************************)
(* abort_watchdog: once the file is there, TERM to the group, a grace, and *)
(* KILL.  The subshell has no trap, so TERM ends it at once, with 143.     *)
(***************************************************************************)
\* Mutant: TERM goes to python alone, not to its process group.
WatchdogTermsPython ==
    /\ watchdog = "polling" /\ shell = "alive"
    /\ abort # NoOne
    /\ termed' = TRUE
    /\ watchdog' = "grace"
    /\ UNCHANGED <<launcherVars, verlVars, diskVars, shell, abortVars>>

WatchdogTerm ==
    /\ watchdog = "polling" /\ shell = "alive"
    /\ abort # NoOne
    /\ termed' = TRUE
    /\ shell' = "dead" /\ rawRc' = 143
    /\ watchdog' = "grace"
    /\ UNCHANGED <<attempt, phase, exitCode, pendingTerm, pre, polls, verdict,
                   result, base, readOk, verlVars, diskVars, abortVars>>

WatchdogKill ==
    /\ watchdog = "grace"
    /\ py' = IF PyAlive THEN "gone" ELSE py
    /\ watchdog' = "off"
    /\ UNCHANGED <<launcherVars, version, hard, diskVars, termed, shell,
                   abortVars>>

WatchdogStops ==
    /\ watchdog = "polling" /\ shell = "dead"
    /\ watchdog' = "off"
    /\ UNCHANGED <<launcherVars, verlVars, diskVars, termed, shell, abortVars>>

-----------------------------------------------------------------------------
(***************************************************************************)
(* verl, the external driver.  A save writes the pieces of global_step_N,  *)
(* then its manifest, then the tracker.  It may stop early in an orderly   *)
(* way (a rollout failure ends as a normal stop) and report any code, or   *)
(* crash at any point, with or without a line the log scan recognises.     *)
(***************************************************************************)
VerlSync ==
    /\ py = "train" /\ version < Final
    /\ version' = version + 1
    /\ UNCHANGED <<launcherVars, py, hard, diskVars, groupVars, abortVars>>

VerlSaveBegin ==
    /\ py = "train" /\ version > 0
    /\ ckpt[version].by # attempt
    /\ ckpt' = [ckpt EXCEPT ![version] = [state |-> "partial", by |-> attempt]]
    /\ py' = "saving"
    /\ UNCHANGED <<launcherVars, version, hard, tracker, seen, groupVars,
                   abortVars>>

VerlSaveEnd ==
    /\ py = "saving"
    /\ ckpt' = [ckpt EXCEPT ![version].state = "complete"]
    /\ py' = "saved"
    /\ UNCHANGED <<launcherVars, version, hard, tracker, seen, groupVars,
                   abortVars>>

VerlTrack ==
    /\ py = "saved"
    /\ tracker' = [stamp |-> tracker.stamp + 1, value |-> version]
    /\ py' = "train"
    /\ UNCHANGED <<launcherVars, version, hard, seen, ckpt, groupVars, abortVars>>

\* The orderly stop: the version reached is force-saved first, unless the
\* attempt resumed from it and trained no further.
VerlStop(rc) ==
    /\ py = "train"
    /\ version > 0 /\ IsCertifiable => ckpt[version].state = "complete"
    /\ py' = "gone"
    /\ rawRc' = IF shell = "alive" THEN rc ELSE rawRc
    /\ UNCHANGED <<attempt, phase, exitCode, pendingTerm, pre, polls, verdict,
                   result, base, readOk, version, hard, diskVars, groupVars, abortVars>>

VerlCrash ==
    /\ PyAlive
    /\ py' = "gone"
    /\ hard' \in {hard, TRUE}
    /\ rawRc' = IF shell = "alive" THEN 1 ELSE rawRc
    /\ UNCHANGED <<attempt, phase, exitCode, pendingTerm, pre, polls, verdict,
                   result, base, readOk, version, diskVars, groupVars, abortVars>>

(* The Volume: what another node wrote becomes visible on the head's node. *)
VolumeCatchesUp ==
    /\ Running /\ seen # tracker
    /\ seen' = tracker
    /\ UNCHANGED <<launcherVars, verlVars, tracker, ckpt, groupVars, abortVars>>

-----------------------------------------------------------------------------
(***************************************************************************)
(* request_abort, called by a reward worker or another actor of the run:   *)
(* the file is looked for, and written (temp file, rename) if not there.   *)
(***************************************************************************)
RequestLooks(r) ==
    /\ phase = "driving" /\ PyAlive
    /\ asking[r] = "no"
    /\ asking' = [asking EXCEPT ![r] = IF abort = NoOne THEN "writing" ELSE "asked"]
    /\ UNCHANGED <<launcherVars, verlVars, diskVars, groupVars, abort, raisedIn>>

RequestWrites(r) ==
    /\ asking[r] = "writing"
    /\ abort' = r
    /\ asking' = [asking EXCEPT ![r] = "asked"]
    /\ raisedIn' = IF raisedIn = "none" THEN phase ELSE raisedIn
    /\ UNCHANGED <<launcherVars, verlVars, diskVars, groupVars>>

-----------------------------------------------------------------------------
(***************************************************************************)
(* run_certificate.py check.  evaluate() collects every problem; readable  *)
(* is FALSE when the tracker or the checkpoint could not be read.          *)
(***************************************************************************)
\* Mutants: no comparison with the snapshot; one that ignores the write time;
\* one that forgets the planned version.
TrackerSaysFinal == seen.stamp # 0 /\ seen.value = Final
TrackerValueMoved == seen.stamp # 0 /\ seen.value # pre.value /\ seen.value = Final
TrackerMoved == seen.stamp # 0 /\ seen # pre

TrackerIsFinal == seen.stamp # 0 /\ seen # pre /\ seen.value = Final

\* Mutant: the abort is not asked for.
CertifiesAborted(readable) ==
    /\ ~(NonzeroFails /\ rawRc # 0)
    /\ readable
    /\ TrackerIsFinal
    /\ ckpt[Final].state = "complete"
    /\ ~(rawRc # 0 /\ hard)

Certifies(readable) ==
    /\ ~(NonzeroFails /\ rawRc # 0)
    /\ readable
    /\ TrackerIsFinal
    /\ ckpt[Final].state = "complete"
    /\ abort = NoOne
    /\ ~(rawRc # 0 /\ hard)

\* The settle loop stops: certified, aborted, out of time, or nothing can change.
Settled(readable) ==
    \/ Certifies(readable)
    \/ abort # NoOne
    \/ polls = 0
    \/ NonzeroFails /\ rawRc # 0

(* One round of the loop that does not settle: the launcher sleeps. *)
EvaluateAgain ==
    /\ phase = "check"
    /\ \E readable \in BOOLEAN : ~Settled(readable) /\ readOk' = readable
    /\ polls' = polls - 1
    /\ UNCHANGED <<attempt, phase, exitCode, pendingTerm, pre, rawRc, verdict,
                   result, base, verlVars, diskVars, groupVars, abortVars>>

(* The last round: the verdict, and run_result.json (a failed write is only *)
(* logged).                                                                 *)
EvaluateLast ==
    /\ phase = "check"
    /\ \E readable \in BOOLEAN :
         /\ Settled(readable)
         /\ readOk' = readable
         /\ verdict' = IF Certifies(readable) THEN "certified" ELSE "failed"
    /\ result' \in {result, [verdict |-> verdict', by |-> attempt]}
    /\ phase' = "exiting"
    /\ UNCHANGED <<attempt, exitCode, pendingTerm, pre, rawRc, polls, base,
                   verlVars, diskVars, groupVars, abortVars>>

FinalRc == CASE verdict = "none" -> rawRc        \* reported as it is
             [] verdict = "certified" -> 0
             [] verdict = "failed" -> IF rawRc # 0 THEN rawRc ELSE 1

(* `exit ${RC}`: the certificate's code, or the driver's own where there is *)
(* none; unless a TERM was waiting for the check to end.                   *)
Exit ==
    /\ phase = "exiting"
    /\ Leave(IF pendingTerm THEN 143 ELSE FinalRc)
    /\ UNCHANGED <<attempt, pendingTerm, pre, rawRc, polls, verdict, result,
                   base, readOk, version, hard, diskVars, termed, abort, raisedIn>>

-----------------------------------------------------------------------------
(***************************************************************************)
(* The job is cancelled.  While the launcher waits for the driver the trap *)
(* runs at once; behind a foreground child it runs when that child ends.   *)
(***************************************************************************)
CancelNow ==
    /\ phase \in {"boot", "snapshot", "launch", "driving"}
    /\ termed' = (shell = "alive" \/ termed)
    /\ Leave(143)
    /\ UNCHANGED <<attempt, pendingTerm, pre, rawRc, polls, verdict, result,
                   base, readOk, version, hard, diskVars, abort, raisedIn>>

CancelDeferred ==
    /\ phase \in {"check", "exiting"} /\ ~pendingTerm
    /\ pendingTerm' = TRUE
    /\ UNCHANGED <<attempt, phase, exitCode, pre, rawRc, polls, verdict, result,
                   base, readOk, verlVars, diskVars, groupVars, abortVars>>

(* The head's node is lost (OOM kill, SIGKILL): no trap runs, no exit code. *)
Lost ==
    /\ Running
    /\ Leave(NoCode)
    /\ UNCHANGED <<attempt, pendingTerm, pre, rawRc, polls, verdict, result,
                   base, readOk, version, hard, diskVars, termed, abort, raisedIn>>

-----------------------------------------------------------------------------
Launcher ==
    \/ \E mode \in {"never", "auto", "path"} : ResolveIdentity(mode)
    \/ RefuseIdentity \/ BootCluster \/ SnapshotTracker \/ FailBeforeDriver
    \/ StartDriver \/ RunDriverReturns
    \/ EvaluateAgain \/ EvaluateLast \/ Exit

Watchdog == WatchdogTerm \/ WatchdogKill \/ WatchdogStops

Verl == \/ VerlSync \/ VerlSaveBegin \/ VerlSaveEnd \/ VerlTrack
        \/ \E rc \in {0, 1} : VerlStop(rc)
        \/ VerlCrash

Next ==
    \/ DispatchHead \/ Launcher \/ Watchdog \/ ShellExit \/ Verl
    \/ VolumeCatchesUp
    \/ \E r \in Requesters : RequestLooks(r) \/ RequestWrites(r)
    \/ CancelNow \/ CancelDeferred \/ Lost

(***************************************************************************)
(* The launcher, the watchdog and the subshell are scheduled; neither verl *)
(* nor a component that asks for an abort owes any step, a job need not be *)
(* submitted, and the Volume promises no moment for what it shows.         *)
(***************************************************************************)
Fairness ==
    /\ WF_vars(Launcher)
    /\ WF_vars(WatchdogTerm)
    /\ WF_vars(ShellExit)

Spec == Init /\ [][Next]_vars
FairSpec == Spec /\ Fairness

-----------------------------------------------------------------------------
TypeOK ==
    /\ attempt \in Attempts
    /\ phase \in Phases
    /\ exitCode \in Codes \cup {NoCode}
    /\ pendingTerm \in BOOLEAN
    /\ tracker \in Tracker /\ seen \in Tracker /\ pre \in Tracker
    /\ ckpt \in [Versions -> Step]
    /\ py \in PyStates
    /\ version \in Versions
    /\ termed \in BOOLEAN
    /\ shell \in {"none", "alive", "dead"}
    /\ rawRc \in Codes
    /\ hard \in BOOLEAN
    /\ watchdog \in {"off", "polling", "grace"}
    /\ abort \in Requesters \cup {NoOne}
    /\ asking \in [Requesters -> {"no", "writing", "asked"}]
    /\ polls \in 0..SettlePolls
    /\ verdict \in Verdicts
    /\ result \in [verdict : Verdicts, by : Attempts]
    /\ base \in Nat
    /\ raisedIn \in Phases \cup {"none"}
    /\ readOk \in BOOLEAN

(* A certified verdict is true of the disk: this very attempt, not an      *)
(* earlier one in the same directory, saved the planned final version, and *)
(* saved it completely (conditions 1 to 3 of the certificate).             *)
CertifiedIsReal == verdict = "certified" => SavedHere(Final)

(* run_result.json outlives its attempt.  While it says "certified", the   *)
(* final checkpoint is the one it describes, or a later attempt has since  *)
(* written over that checkpoint.                                           *)
ResultDescribesDisk ==
    result.verdict = "certified" =>
        \/ ckpt[Final] = [state |-> "complete", by |-> result.by]
        \/ ckpt[Final].by > result.by

(* An abort raised while training ran vetoes success, however long the     *)
(* certificate settles and whatever verl reports (condition 4).  Without a *)
(* certificate nobody looks for the abort once the driver is gone.         *)
AbortVetoes ==
    raisedIn = "driving" =>
        verdict # "certified" /\ (exitCode = 0 => ~IsCertifiable)

(* A run that was stopped does not look like a finished one, certified or  *)
(* not: where the watchdog or a cancelled job sent TERM to the driver's    *)
(* group, the launcher does not leave with 0 -- whatever code python makes *)
(* of the TERM, and although the abort file alone could be overlooked.     *)
StoppedIsNotSuccess == exitCode = 0 => ~termed

(* The opposite error: an attempt that has itself saved the planned final  *)
(* version, with the tracker visible and readable and no abort, is not     *)
(* failed for verl's exit code alone -- only when that code counts, or     *)
(* when the log also shows a crash.                                        *)
Finished ==
    /\ tracker.stamp > base /\ tracker.value = Final /\ seen = tracker
    /\ SavedHere(Final)
    /\ abort = NoOne

FinishedIsNotFailed ==
    [][verdict = "none" /\ verdict' = "failed" /\ Finished /\ readOk'
          => rawRc # 0 /\ (NonzeroFails \/ hard)]_vars

(* The sync launcher's trainer is believed when it fails: under            *)
(* --nonzero-fails no checkpoint makes up for a non-zero exit.             *)
ExitCodeCounts == NonzeroFails /\ verdict = "certified" => rawRc = 0

(* Once ABORT.json is there, the run stops: the launcher does not stay in  *)
(* training, although verl itself may go on for ever.                      *)
AbortStopsTraining == (phase = "driving" /\ abort # NoOne) ~> phase # "driving"

(* A launcher whose driver has ended always leaves: the settle loop is     *)
(* bounded even when the Volume never shows the final tracker.             *)
CheckEnds == phase = "check" ~> phase = "ended"

(* verl's exit code neither fails a finished run by itself nor is ignored   *)
(* where the launcher said that it counts.                                  *)
CodeIsWeighed == FinishedIsNotFailed /\ []ExitCodeCounts

(* An attempt is not held by what it cannot control: a driver that ignores  *)
(* an abort, or a Volume that never shows the last tracker.                 *)
AttemptsEnd == AbortStopsTraining /\ CheckEnds

(* "runs <cmd> to completion" (run_driver.sh): when run_driver returns, no *)
(* process of the driver is left.                                          *)
RunsToCompletion == phase = "check" => ~PyAlive

(* The launcher implements the contract of its success report.             *)
Contract == INSTANCE RunContract WITH
    outcome <- IF verdict = "none" THEN "open" ELSE verdict,
    saved   <- SavedHere(Final),
    vetoed  <- raisedIn = "driving"

ImplementsContract == Contract!ContractSpec
=============================================================================
