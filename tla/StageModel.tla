----------------------------- MODULE StageModel -----------------------------
(***************************************************************************)
(* Staging a Hugging Face model into a directory of the Volume             *)
(* (engine/stage_model.py): jobs, each at the commit its MODEL_REVISION    *)
(* resolved to, that may crash and be submitted again, or run side by      *)
(* side.  Files are downloaded to scratch, hashed, copied, recorded in     *)
(* .staging.json; STAGED.json declares the directory complete; the file    *)
(* .staging.lock is to keep jobs apart.                                    *)
(***************************************************************************)
EXTENDS Naturals

CONSTANTS
    Jobs,       \* bound: the submissions
    Commits,    \* what MODEL_REVISION may resolve to
    None,
    Files,      \* file names, numbered in the order of sorted(siblings)
    FilesOf,    \* commit -> the files it has
    Unhashed,   \* the files of which the Hub publishes no hash
    Alone       \* whoever submits waits for the job before to be over

ASSUME StageConstantsOK ==
    /\ None \notin Commits
    /\ Files \subseteq Nat
    /\ FilesOf \in [Commits -> (SUBSET Files) \ {{}}]
    /\ Unhashed \subseteq Files
    /\ Alone \in BOOLEAN

VARIABLES
    staged,     \* STAGED.json: the revision it declares
    progress,   \* .staging.json: its revision, and per file what was verified
    lock,       \* .staging.lock
    disk,       \* per file name: the commit whose content is there
    pc,         \* per job: where it is in main()
    commit,     \* per job: the commit its revision resolved to
    mem,        \* per job: its `progress` dictionary
    todo        \* per job: the files still ahead of it

stageVars == <<staged, progress, lock, disk, pc, commit, mem, todo>>
recordVars == <<staged, progress>>
jobVars == <<commit, mem, todo>>

NoFilesYet == [f \in Files |-> None]
NoProgress == [rev |-> None, files |-> NoFilesYet]
Progress   == [rev : Commits \cup {None}, files : [Files -> Commits \cup {None}]]

Writing == {"load", "file", "record", "declare", "forget", "unlock"}
Checking == {"checkStaged", "checkProgress", "already", "lookLock", "takeLock"}
JobOver == {"staged", "nothing", "otherRevision", "locked", "failed", "crashed"}
Active(j) == pc[j] \in Checking \cup Writing

StageInit ==
    /\ staged = None /\ progress = NoProgress /\ lock = "free"
    /\ disk = NoFilesYet
    /\ pc = [j \in Jobs |-> "off"]
    /\ commit = [j \in Jobs |-> None]
    /\ mem = [j \in Jobs |-> NoProgress]
    /\ todo = [j \in Jobs |-> {}]

Goes(j, s) == pc' = [pc EXCEPT ![j] = s]

(* model_info: the revision is resolved once, to a commit. *)
Start(j) ==
    /\ pc[j] = "off"
    /\ Alone => \A k \in Jobs : ~Active(k)
    /\ Goes(j, "checkStaged")
    /\ \E c \in Commits : commit' = [commit EXCEPT ![j] = c]
    /\ UNCHANGED <<recordVars, lock, disk, mem, todo>>

(* "One directory, one revision": STAGED.json, then .staging.json. *)
Refuses(j, held) == held # None /\ held # commit[j]

CheckStaged(j) ==
    /\ pc[j] = "checkStaged"
    /\ Goes(j, IF Refuses(j, staged) THEN "otherRevision" ELSE "checkProgress")
    /\ UNCHANGED <<recordVars, lock, disk, jobVars>>

\* Mutant: only STAGED.json is asked whose the directory is.
ProgressUnasked(j) ==
    /\ pc[j] = "checkProgress"
    /\ Goes(j, "already")
    /\ UNCHANGED <<recordVars, lock, disk, jobVars>>

CheckProgress(j) ==
    /\ pc[j] = "checkProgress"
    /\ Goes(j, IF Refuses(j, progress.rev) THEN "otherRevision" ELSE "already")
    /\ UNCHANGED <<recordVars, lock, disk, jobVars>>

Already(j) ==
    /\ pc[j] = "already"
    /\ Goes(j, IF staged = commit[j] THEN "nothing" ELSE "lookLock")
    /\ UNCHANGED <<recordVars, lock, disk, jobVars>>

(* take_lock: look, then write; a lock older than LOCK_STALE_S is taken. *)
LookLock(j) ==
    /\ pc[j] = "lookLock"
    /\ Goes(j, IF lock = "fresh" THEN "locked" ELSE "takeLock")
    /\ UNCHANGED <<recordVars, lock, disk, jobVars>>

TakeLock(j) ==
    /\ pc[j] = "takeLock"
    /\ lock' = "fresh"
    /\ Goes(j, "load")
    /\ UNCHANGED <<recordVars, disk, jobVars>>

LockAges ==
    /\ lock = "fresh"
    /\ lock' = "stale"
    /\ UNCHANGED <<recordVars, disk, pc, jobVars>>

LoadProgress(j) ==
    /\ pc[j] = "load"
    /\ mem' = [mem EXCEPT ![j] =
                 IF progress = NoProgress THEN [NoProgress EXCEPT !.rev = commit[j]]
                 ELSE progress]
    /\ todo' = [todo EXCEPT ![j] = FilesOf[commit[j]]]
    /\ Goes(j, "file")
    /\ UNCHANGED <<recordVars, lock, disk, commit>>

-----------------------------------------------------------------------------
(***************************************************************************)
(* One file.  What is there counts when this staging has recorded it, or   *)
(* when its content hashes to what the Hub publishes, if it publishes a    *)
(* hash; sizes tell nothing (two revisions of a shard have the same).      *)
(***************************************************************************)
Next1(j) == CHOOSE f \in todo[j] : \A g \in todo[j] : f <= g

\* Mutant: a file counts by being there.
PresentAlready(j, f) == disk[f] # None

VerifiedAlready(j, f) ==
    /\ disk[f] # None
    /\ \/ mem[j].files[f] = commit[j]
       \/ f \notin Unhashed /\ disk[f] = commit[j]

\* The file is in place: into the dictionary, and the dictionary to the Volume.
Record(j, f) ==
    /\ mem' = [mem EXCEPT ![j].files[f] = commit[j]]
    /\ progress' = mem'[j]
    /\ todo' = [todo EXCEPT ![j] = @ \ {f}]

SkipFile(j) ==
    /\ pc[j] = "file" /\ todo[j] # {}
    /\ VerifiedAlready(j, Next1(j))
    /\ Record(j, Next1(j))
    /\ UNCHANGED <<staged, lock, disk, pc, commit>>

CopyFile(j) ==
    /\ pc[j] = "file" /\ todo[j] # {}
    /\ ~VerifiedAlready(j, Next1(j))
    /\ disk' = [disk EXCEPT ![Next1(j)] = commit[j]]
    /\ Goes(j, "record")
    /\ UNCHANGED <<recordVars, lock, jobVars>>

RecordFile(j) ==
    /\ pc[j] = "record"
    /\ Record(j, Next1(j))
    /\ Goes(j, "file")
    /\ UNCHANGED <<staged, lock, disk, commit>>

(* The download or the copy fails: sys.exit or an exception, through the   *)
(* `finally` that removes the lock, whoever's it is.                       *)
FileFails(j) ==
    /\ pc[j] = "file" /\ todo[j] # {}
    /\ lock' = "free"
    /\ Goes(j, "failed")
    /\ UNCHANGED <<recordVars, disk, jobVars>>

AllFilesDone(j) ==
    /\ pc[j] = "file" /\ todo[j] = {}
    /\ Goes(j, "declare")
    /\ UNCHANGED <<recordVars, lock, disk, jobVars>>

Declare(j) ==
    /\ pc[j] = "declare"
    /\ staged' = commit[j]
    /\ Goes(j, "forget")
    /\ UNCHANGED <<progress, lock, disk, jobVars>>

(* os.remove(.staging.json); it raises when another job has removed it.    *)
Forget(j) ==
    /\ pc[j] = "forget"
    /\ IF progress = NoProgress THEN lock' = "free" /\ Goes(j, "failed")
       ELSE lock' = lock /\ Goes(j, "unlock")
    /\ progress' = NoProgress
    /\ UNCHANGED <<staged, disk, jobVars>>

Unlock(j) ==
    /\ pc[j] = "unlock"
    /\ lock' = "free"
    /\ Goes(j, "staged")
    /\ UNCHANGED <<recordVars, disk, jobVars>>

(* SIGKILL, or the TERM of a job timeout: python runs no `finally`. *)
Crash(j) ==
    /\ Active(j)
    /\ Goes(j, "crashed")
    /\ UNCHANGED <<recordVars, lock, disk, jobVars>>

Main(j) ==
    \/ CheckStaged(j) \/ CheckProgress(j) \/ Already(j) \/ LookLock(j) \/ TakeLock(j)
    \/ LoadProgress(j) \/ SkipFile(j) \/ CopyFile(j) \/ RecordFile(j) \/ FileFails(j)
    \/ AllFilesDone(j) \/ Declare(j) \/ Forget(j) \/ Unlock(j)

StageNext == LockAges \/ \E j \in Jobs : Start(j) \/ Main(j) \/ Crash(j)

StageSpec == StageInit /\ [][StageNext]_stageVars

-----------------------------------------------------------------------------
StageTypeOK ==
    /\ staged \in Commits \cup {None}
    /\ progress \in Progress
    /\ lock \in {"free", "fresh", "stale"}
    /\ disk \in [Files -> Commits \cup {None}]
    /\ pc \in [Jobs -> {"off"} \cup Checking \cup Writing \cup JobOver]
    /\ commit \in [Jobs -> Commits \cup {None}]
    /\ mem \in [Jobs -> Progress]
    /\ \A j \in Jobs : pc[j] \in Writing \ {"load"} => mem[j].rev \in Commits
    /\ todo \in [Jobs -> SUBSET Files]

(* A directory that declares a revision holds that revision: every file of  *)
(* it, with its content, after whatever crashes, retries and moves of the   *)
(* branch came before (STAGED.json is what later jobs trust).               *)
StagedIsTrue ==
    staged # None => \A f \in FilesOf[staged] : disk[f] = staged

(* .staging.json is what spares a retry the re-hashing, so each file it     *)
(* lists is there with the content it says.                                 *)
RecordIsTrue ==
    \A f \in Files : progress.files[f] # None => disk[f] = progress.files[f]

(* One directory, one revision: from the first recorded file on, through    *)
(* crashes, stale locks and moves of the branch, only that revision's files *)
(* are written into the directory, and none once it is declared complete -- *)
(* although the comparison lies long before the copies.                     *)
OneRevision ==
    [][\A f \in Files : disk'[f] # disk[f] =>
          staged = None /\ progress.rev \in {None, disk'[f]}]_stageVars

(* A job that leaves by itself frees the lock, so the next one may start.   *)
LockFollowsJob ==
    \A j \in Jobs : pc[j] \in {"staged", "failed"} =>
        \/ lock = "free"
        \/ \E k \in Jobs \ {j} : pc[k] \in Writing \cup {"crashed"}

(* What the directory says of itself is true in every state, between any    *)
(* two steps of a job: its revision, its progress file and its lock.        *)
DirectoryIsTrue == StageTypeOK /\ StagedIsTrue /\ RecordIsTrue /\ LockFollowsJob
=============================================================================
