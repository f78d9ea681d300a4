------------------------------ MODULE FinalRun ------------------------------
(***************************************************************************)
(* The OfficeQA experiment controller (usecases/officeqa/final_run.py): a  *)
(* local process, repeated by its operator after every crash, that freezes *)
(* a plan and runs its stages on AIR one after the other, each audited     *)
(* before the next may cost GPU hours.  flock admits one controller at a   *)
(* time; the kernel drops the lock with its process.                       *)
(*                                                                         *)
(* External: AIR, which honours the idempotency key of a submission.       *)
(***************************************************************************)
EXTENDS Naturals

CONSTANTS
    NumStages,      \* len(JOB_FILES): prep, baseline, train, train-export, eval
    Train,          \* the stage that may be certified although AIR failed it
    Export,         \* train-export, whose artifacts arrive in its log
    MaxTroubles     \* bound: crashes, lost replies and transient failures

ASSUME FinalConstantsOK ==
    /\ NumStages \in Nat \ {0}
    /\ Train \in 1..NumStages /\ Export \in (1..NumStages) \ {Train}
    /\ MaxTroubles \in Nat

Stages == 1..NumStages

VARIABLES
    \* local files
    source,     \* source.tar, source/: a preparation has begun here
    plan,       \* plan.json
    status,     \* state.json: its status ("none": no such file)
    receipt,    \* state.json: per stage, AIR's status as last recorded
    reply,      \* <stage>-submission.jsonl
    review,     \* training-completion-review.json
    logged,     \* train-export-logs.jsonl holds every chunk
    \* AIR
    runs,       \* per stage: how many runs were created
    air,        \* per stage: the state of the (last) run
    evidence,   \* per stage: what an audit of that run's artifacts will say
    \* the controller
    pc, stage, outcome, troubles

files == <<source, plan, status, receipt, reply, review, logged>>
cloud == <<runs, air, evidence>>
finalVars == <<files, cloud, pc, stage, outcome, troubles>>

Statuses == {"none", "PREPARED", "RUNNING", "FAILED", "COMPLETE"}
AirStates == {"none", "RUNNING", "SUCCESS", "FAILED"}
Receipts == AirStates \cup {"SUBMITTED"}
PCs == {"off", "archived", "frozen", "stage", "submit", "write", "parse", "poll", "flush", "audit"}
Outcomes == {"none", "prepared", "frozenAlready", "incomplete", "noState",
             "noReceipt", "noExport", "rejected", "failed", "complete"}

FinalInit ==
    /\ source = FALSE /\ plan = FALSE /\ status = "none"
    /\ receipt = [s \in Stages |-> "none"] /\ reply = [s \in Stages |-> "none"]
    /\ review = "none" /\ logged = FALSE
    /\ runs = [s \in Stages |-> 0] /\ air = [s \in Stages |-> "none"]
    /\ evidence = [s \in Stages |-> "none"]
    /\ pc = "off" /\ stage = 1 /\ outcome = "none" /\ troubles = 0

Trouble == troubles < MaxTroubles /\ troubles' = troubles + 1
Calm == UNCHANGED troubles
Goes(p) == pc' = p /\ UNCHANGED outcome
Ends(o) == pc' = "off" /\ outcome' = o

-----------------------------------------------------------------------------
(* prepare: archive and dry-run, then plan.json, then state.json.           *)
Prepare ==
    /\ pc = "off"
    /\ \/ plan /\ Ends("frozenAlready") /\ UNCHANGED source
       \/ ~plan /\ source /\ Ends("incomplete") /\ UNCHANGED source
       \/ ~plan /\ ~source /\ Goes("archived") /\ source' = TRUE
    /\ Calm /\ UNCHANGED <<plan, status, receipt, reply, review, logged, cloud, stage>>

DryRunFails ==
    /\ pc = "archived"
    /\ Ends("incomplete") /\ Trouble
    /\ UNCHANGED <<files, cloud, stage>>

Freeze ==
    /\ pc = "archived"
    /\ plan' = TRUE
    /\ Goes("frozen") /\ Calm
    /\ UNCHANGED <<source, status, receipt, reply, review, logged, cloud, stage>>

WritePrepared ==
    /\ pc = "frozen"
    /\ status' = "PREPARED"
    /\ Ends("prepared") /\ Calm
    /\ UNCHANGED <<source, plan, receipt, reply, review, logged, cloud, stage>>

-----------------------------------------------------------------------------
(***************************************************************************)
(* run: read the plan and the state, and go through every stage, those     *)
(* already over included.  An exception is recorded in state.json, read    *)
(* again from the disk, and ends the process.                              *)
(***************************************************************************)
\* Mutant: a state that says FAILED is final.
RunUnlessFailed ==
    /\ pc = "off" /\ plan /\ status \notin {"none", "FAILED", "COMPLETE"}
    /\ Goes("stage") /\ stage' = 1
    /\ Calm /\ UNCHANGED <<files, cloud>>

Run ==
    /\ pc = "off"
    /\ CASE ~plan \/ status = "none" -> Ends("noState") /\ UNCHANGED stage
         [] plan /\ status = "COMPLETE" -> Ends("complete") /\ UNCHANGED stage
         [] OTHER -> Goes("stage") /\ stage' = 1
    /\ Calm /\ UNCHANGED <<files, cloud>>

Recorded(r) == receipt' = [receipt EXCEPT ![stage] = r]

Raise(o) ==
    /\ Ends(o)
    /\ status' = "FAILED"
    /\ UNCHANGED <<source, plan, receipt, reply, review, logged, cloud, stage>>

(* What AIR called FAILED counts only for training, and only with a review  *)
(* whose evidence proves the training complete.                             *)
Certified == stage = Train /\ receipt[stage] = "FAILED" /\ review = "proven"

BeginStage ==
    /\ pc = "stage"
    /\ status' = "RUNNING"
    /\ Goes(CASE receipt[stage] = "none" -> "submit"
              [] receipt[stage] = "SUCCESS" -> "audit"
              [] Certified -> "audit"
              [] OTHER -> "poll")
    /\ ~(stage = Train /\ receipt[stage] = "FAILED" /\ review = "unproven")
    /\ Calm /\ UNCHANGED <<source, plan, receipt, reply, review, logged, cloud, stage>>

ReviewRejected ==
    /\ pc \in {"stage", "poll"}
    /\ stage = Train /\ receipt[stage] = "FAILED" /\ review = "unproven"
    /\ Raise("rejected") /\ Calm

\* Mutant: no idempotency key.
SubmitAnew ==
    /\ pc = "submit" /\ reply[stage] = "none"
    /\ runs' = [runs EXCEPT ![stage] = @ + 1]
    /\ air' = [air EXCEPT ![stage] = "RUNNING"]
    /\ Goes("write") /\ Calm
    /\ UNCHANGED <<files, evidence, stage>>

(* `air run --idempotency-key`: the same key is the same run, however often *)
(* it is sent.                                                              *)
KeyedRun ==
    /\ runs' = [runs EXCEPT ![stage] = 1]
    /\ air' = [air EXCEPT ![stage] = IF runs[stage] = 0 THEN "RUNNING" ELSE @]

Submit ==
    /\ pc = "submit" /\ reply[stage] = "none"
    /\ KeyedRun
    /\ Goes("write") /\ Calm
    /\ UNCHANGED <<files, evidence, stage>>

(* No answer within 600 s, or an error: the run may exist all the same.     *)
(* The budget gate before it may refuse as well.                            *)
SubmitFails ==
    /\ pc = "submit" /\ reply[stage] = "none"
    /\ Ends("failed") /\ Trouble
    /\ status' = "FAILED"
    /\ KeyedRun \/ UNCHANGED <<runs, air>>
    /\ UNCHANGED <<source, plan, receipt, reply, review, logged, evidence, stage>>

(* write_text: the file is there, empty, before its contents are.           *)
OpenReply ==
    /\ pc = "write" /\ reply[stage] = "none"
    /\ reply' = [reply EXCEPT ![stage] = "torn"]
    /\ Goes("write") /\ Calm
    /\ UNCHANGED <<source, plan, status, receipt, review, logged, cloud, stage>>

WriteReply ==
    /\ pc = "write" /\ reply[stage] = "torn"
    /\ reply' = [reply EXCEPT ![stage] = "whole"]
    /\ Goes("parse") /\ Calm
    /\ UNCHANGED <<source, plan, status, receipt, review, logged, cloud, stage>>

FindReply ==
    /\ pc = "submit" /\ reply[stage] # "none"
    /\ Goes("parse") /\ Calm
    /\ UNCHANGED <<files, cloud, stage>>

NoReceipt ==
    /\ pc = "parse" /\ reply[stage] = "torn"
    /\ Raise("noReceipt") /\ Calm

ParseReply ==
    /\ pc = "parse" /\ reply[stage] = "whole"
    /\ Recorded("SUBMITTED")
    /\ Goes("poll") /\ Calm
    /\ UNCHANGED <<source, plan, status, reply, review, logged, cloud, stage>>

(* `air get run`, recorded before anything is concluded from it.  Only a    *)
(* 13th failure in a row, or the deadline, ends the loop.  Then the watcher *)
(* of the stage's log has 30 s to bring the rest of it.                     *)
Poll ==
    /\ pc = "poll" /\ receipt[stage] # "FAILED"
    /\ Recorded(air[stage])
    /\ Goes(IF air[stage] = "SUCCESS" THEN "flush" ELSE "poll") /\ Calm
    /\ UNCHANGED <<source, plan, status, reply, review, logged, cloud, stage>>

FlushLog ==
    /\ pc = "flush"
    /\ logged' = (logged \/ stage = Export)
    /\ Goes("audit") /\ Calm
    /\ UNCHANGED <<source, plan, status, receipt, reply, review, cloud, stage>>

FlushTimesOut ==
    /\ pc = "flush"
    /\ Goes("audit") /\ Trouble
    /\ UNCHANGED <<files, cloud, stage>>

StageFailed ==
    /\ pc = "poll" /\ receipt[stage] = "FAILED"
    /\ ~(stage = Train /\ review # "none")
    /\ Raise("failed") /\ Calm

StageCertified ==
    /\ pc = "poll" /\ Certified
    /\ Goes("audit") /\ Calm
    /\ UNCHANGED <<files, cloud, stage>>

PollGivesUp ==
    /\ pc = "poll"
    /\ Raise("failed") /\ Trouble

(* The stage's artifacts are fetched and audited; the export's come from    *)
(* the local log.                                                           *)
NextStage ==
    /\ IF stage < NumStages
       THEN Goes("stage") /\ stage' = stage + 1 /\ UNCHANGED status
       ELSE Ends("complete") /\ status' = "COMPLETE" /\ UNCHANGED stage
    /\ Calm /\ UNCHANGED <<source, plan, receipt, reply, review, logged, cloud>>

\* Mutant: whatever was fetched will do.
PassUnaudited == pc = "audit" /\ NextStage

AuditPasses ==
    /\ pc = "audit"
    /\ evidence[stage] = "good" /\ (stage = Export => logged)
    /\ NextStage

ExportIncomplete ==
    /\ pc = "audit" /\ stage = Export /\ ~logged
    /\ Raise("noExport") /\ Calm

AuditRejects ==
    /\ pc = "audit" /\ evidence[stage] # "good" /\ (stage = Export => logged)
    /\ Raise("rejected") /\ Calm

FetchFails ==
    /\ pc = "audit"
    /\ Raise("failed") /\ Trouble

Crash ==
    /\ pc # "off"
    /\ pc' = "off" /\ outcome' = "none" /\ Trouble
    /\ UNCHANGED <<files, cloud, stage>>

-----------------------------------------------------------------------------
(* A run on AIR ends; SUCCESS says nothing of the artifacts, and a failed   *)
(* training may be complete.                                                *)
RunEnds(s) ==
    /\ air[s] = "RUNNING"
    /\ \E r \in {"SUCCESS", "FAILED"} : air' = [air EXCEPT ![s] = r]
    /\ \E e \in {"good", "bad"} : evidence' = [evidence EXCEPT ![s] = e]
    /\ UNCHANGED <<files, runs, pc, stage, outcome, troubles>>

(* The operator reviews a failed training; only complete evidence proves it. *)
OperatorReviews ==
    /\ air[Train] = "FAILED" /\ review # "proven"
    /\ review' \in {"unproven"} \cup {r \in {"proven"} : evidence[Train] = "good"}
    /\ UNCHANGED <<source, plan, status, receipt, reply, logged, cloud, pc, stage, outcome, troubles>>

Preparation == Prepare \/ DryRunFails \/ Freeze \/ WritePrepared

Controller ==
    \/ Run \/ BeginStage \/ ReviewRejected
    \/ Submit \/ SubmitFails \/ OpenReply \/ WriteReply \/ FindReply
    \/ NoReceipt \/ ParseReply
    \/ Poll \/ FlushLog \/ FlushTimesOut \/ StageFailed \/ StageCertified \/ PollGivesUp
    \/ AuditPasses \/ ExportIncomplete \/ AuditRejects \/ FetchFails

FinalNext ==
    \/ Preparation \/ Controller \/ Crash
    \/ \E s \in Stages : RunEnds(s)
    \/ OperatorReviews

(* The operator repeats the command, the controller runs, AIR runs end.     *)
FinalFairness ==
    /\ WF_finalVars(Preparation) /\ WF_finalVars(Controller)
    /\ \A s \in Stages : WF_finalVars(RunEnds(s))

FinalSpec == FinalInit /\ [][FinalNext]_finalVars
FairFinalSpec == FinalSpec /\ FinalFairness

-----------------------------------------------------------------------------
FinalTypes ==
    /\ source \in BOOLEAN /\ plan \in BOOLEAN
    /\ status \in Statuses
    /\ receipt \in [Stages -> Receipts]
    /\ reply \in [Stages -> {"none", "torn", "whole"}]
    /\ review \in {"none", "unproven", "proven"} /\ logged \in BOOLEAN
    /\ runs \in [Stages -> Nat] /\ air \in [Stages -> AirStates]
    /\ evidence \in [Stages -> {"none", "good", "bad"}]
    /\ pc \in PCs /\ stage \in Stages /\ outcome \in Outcomes
    /\ troubles \in 0..MaxTroubles

Passed(s) ==
    /\ evidence[s] = "good"
    /\ air[s] = "SUCCESS" \/ (s = Train /\ air[s] = "FAILED" /\ review = "proven")

(* No stage is paid for twice: whatever is lost between AIR and the         *)
(* controller, a stage has one run.                                         *)
OneRunPerStage == \A s \in Stages : runs[s] <= 1

(* No GPU hour is spent on a stage before the one ahead of it succeeded     *)
(* and passed its audit.                                                    *)
StagesInOrder == \A s \in Stages : s > 1 /\ runs[s] > 0 => Passed(s - 1)

(* COMPLETE is published only for an experiment all of whose stages passed. *)
CompleteIsEarned == status = "COMPLETE" => \A s \in Stages : Passed(s)

(* What state.json knows of a run is never lost again, and never wrong: a   *)
(* terminal status is AIR's own.                                            *)
ReceiptIsKept ==
    \A s \in Stages :
        /\ receipt[s] # "none" => receipt'[s] # "none"
        /\ receipt'[s] \in {"SUCCESS", "FAILED"} => receipt'[s] = air'[s]

(* Repeating the command is enough: in the end the experiment is complete,  *)
(* or there is, for good, a reason to stop that only the operator can deal  *)
(* with; a proven training that AIR calls FAILED is none.                   *)
NeedsOperator ==
    \/ \E s \in Stages : evidence[s] = "bad" \/ reply[s] = "torn"
    \/ \E s \in Stages : air[s] = "FAILED" /\ ~Passed(s)
    \/ receipt[Export] = "SUCCESS" /\ ~logged
    \/ source /\ ~plan
    \/ plan /\ status = "none"

RepeatingCompletes == <>[](status = "COMPLETE" \/ NeedsOperator)

(* A stage is paid for once, and what its receipt says of it stays true.    *)
PaidOnce == [][OneRunPerStage' /\ ReceiptIsKept]_finalVars

(* Nothing is spent, and nothing published, that the stages before have not *)
(* earned.                                                                  *)
StagesAreEarned == FinalTypes /\ StagesInOrder /\ CompleteIsEarned
=============================================================================
