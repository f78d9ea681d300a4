-------------------------------- MODULE EvalJob --------------------------------
(***************************************************************************)
(* Evaluation jobs on one node, one after another (serve_and_eval.sh, the  *)
(* three eval.py, eval_contract.py).  A job identifies the model, copies   *)
(* it to NVMe or serves it from the Volume, starts vLLM, asks every        *)
(* question concurrently and writes an artifact that others will compare.  *)
(* Jobs are killed, checkpoints are pruned and saved again beside them,    *)
(* and the server and the retrieval behind the tools fail at any time.     *)
(*                                                                         *)
(* An evaluation that scores an outage as a wrong answer, or names another *)
(* model than it asked, manufactures a result; so does one that replaces   *)
(* an earlier artifact.                                                    *)
(***************************************************************************)
EXTENDS WeightCache, Sequences

CONSTANTS
    Jobs,           \* 1..n, the order in which they run
    Questions,      \* EVAL_EXPECT_N of them
    Concurrency, MaxTurns, MaxCont, Retries,
    MaxInfra,       \* EVAL_MAX_INFRA_ERRORS
    Overwrite,      \* the jobs with EVAL_OVERWRITE=1
    Staged          \* the jobs with EVAL_STAGE=1

ASSUME EvalConstantsOK ==
    /\ {Concurrency, MaxTurns} \subseteq Nat \ {0} /\ {MaxCont, Retries, MaxInfra} \subseteq Nat
    /\ IsFiniteSet(Questions)

VARIABLES
    job, at,        \* the job that runs or ran last, and where it is
    case,           \* EVAL_SCRIPT: whose eval.py it is
    step,           \* EVAL_MODEL_PATH: the step it was given
    ident,          \* EVAL_MODEL_IDENTITY_FILE
    served,         \* the files vLLM has loaded
    rc,             \* the exit code of the job that ended last
    loaded, q,      \* the questions that were loaded, and how each stands
    aborted,        \* ABORT.json of this job (officeqa)
    out, trace,     \* EVAL_OUT, EVAL_TRACE_OUT
    parts,          \* <EVAL_OUT>.parts/: the job whose record of a question it holds
    outage          \* history: questions whose last request got no usable reply

jobVars == <<job, at, case, step, ident, served, rc>>
runVars == <<loaded, q, aborted, parts, outage>>
artifactVars == <<out, trace>>
vars == <<dirVars, cacheVars, jobVars, runVars, artifactVars>>

None == "none"
UseCases == {"math", "search", "officeqa"}
NotYet == 3
KilledCode == 137
NoArtifact == [by |-> 0, model |-> Nothing, valid |-> FALSE, scored |-> {}]
Waiting == [at |-> "waiting", turn |-> 1, cont |-> 0, tries |-> 0, status |-> None]

Init ==
    /\ RunDirInit /\ CacheInit
    /\ job = 0 /\ at = "ended" /\ case = None /\ step = 0 /\ ident = Nothing /\ served = Nothing
    /\ rc = NotYet
    /\ loaded = {} /\ q = [x \in Questions |-> Waiting] /\ aborted = FALSE
    /\ out = NoArtifact /\ trace = 0 /\ parts = [x \in Questions |-> 0] /\ outage = {}

-----------------------------------------------------------------------------
(* Leaving: the trap ends vLLM, the memory of eval.py and the job's own      *)
(* ABORT.json are of no further use, the shell returns code.                *)
Exits(code) ==
    /\ at' = "ended" /\ rc' = code /\ served' = Nothing /\ ident' = Nothing
    /\ q' = [x \in Questions |-> Waiting] /\ loaded' = {} /\ aborted' = FALSE /\ outage' = {}
    /\ UNCHANGED <<dirVars, cacheVars, job, case, step, parts, artifactVars>>

Goes(from, to) == at = from /\ at' = to

(* Killed anywhere, at a job limit or by the platform.                      *)
Killed == at # "ended" /\ Exits(KilledCode)

(***************************************************************************)
(* The preflight: an artifact that is there is not replaced, and the model *)
(* must be complete.  Its identity is taken once, here.                    *)
(***************************************************************************)
Begins(s, usecase) ==
    /\ at = "ended" /\ job + 1 \in Jobs
    /\ job' = job + 1 /\ at' = "preflight" /\ case' = usecase /\ step' = s
    /\ rc' = NotYet
    /\ UNCHANGED <<dirVars, cacheVars, ident, served, runVars, artifactVars>>

Office == case = "officeqa"

Forced == job \in Overwrite
TraceOut == case # "math"
Exists == out # NoArtifact \/ (TraceOut /\ trace # 0)

RefusedEarly == at = "preflight" /\ ((~Forced /\ Exists) \/ ~verify(ckpt[step])) /\ Exits(2)

Identified ==
    /\ Goes("preflight", IF job \in Staged THEN "cache" ELSE "starting")
    /\ Forced \/ ~Exists
    /\ verify(ckpt[step]) /\ ident' = identity(ckpt[step].files)
    /\ UNCHANGED <<dirVars, cacheVars, job, case, step, served, rc, runVars, artifactVars>>

-----------------------------------------------------------------------------
(* Staging on NVMe. *)
CacheMoves == UNCHANGED <<dirVars, job, case, step, ident, served, rc, runVars, artifactVars>>

Reuses == Goes("cache", "starting") /\ Reusable(ident) /\ UNCHANGED cacheVars /\ CacheMoves

Clearing ==
    /\ at \in {"cache", "clearing"} /\ ~(at = "cache" /\ Reusable(ident))
    /\ \/ Clears(ident) /\ at' = "clearing"
       \/ Cleared(ident) /\ at' = "copying" /\ UNCHANGED cacheVars
    /\ CacheMoves

Copying ==
    /\ at = "copying" /\ UNCHANGED at
    /\ \E f \in Shards : Copies(ident, step, f)
    /\ CacheMoves

CopyFails == at = "copying" /\ CannotCopy(ident, step) /\ Exits(1)

\* Mutant: the copy is not compared with what was identified.
CopyComplete == Copied(ident)

CopyMatches == same_model(partial[ident].files, ident)

Verifies ==
    /\ at = "copying" /\ Copied(ident)
    /\ IF CopyMatches THEN Marks(ident) /\ at' = "marked" /\ CacheMoves ELSE Exits(1)

Renaming == Goes("marked", "starting") /\ Renames(ident) /\ CacheMoves

-----------------------------------------------------------------------------
(* vLLM loads the files, becomes healthy or does not. *)
SERVE_PATH == IF job \in Staged THEN copy[ident].files ELSE ckpt[step].files

ServerStarts ==
    /\ Goes("starting", "healthy") /\ verify_hf_dir(SERVE_PATH) /\ served' = SERVE_PATH
    /\ UNCHANGED <<dirVars, cacheVars, job, case, step, ident, rc, runVars, artifactVars>>

ServerFails == at = "starting" /\ Exits(1)

(***************************************************************************)
(* eval.py: nothing is asked before the artifacts' names are free, the     *)
(* model is listed and, for search, one retrieval has worked.              *)
(***************************************************************************)
Free == Forced \/ (~Exists /\ \A x \in Questions : parts[x] = 0)

NotReady ==
    /\ at = "healthy"
    /\ \E code \in (IF ~Free THEN {2} ELSE IF Office THEN {1} ELSE {1, 2}) : Exits(code)

Ready(rows) ==
    /\ Goes("healthy", "asking") /\ Free
    /\ loaded' = rows
    /\ UNCHANGED <<dirVars, cacheVars, job, case, step, ident, served, rc, q, aborted, parts, outage, artifactVars>>

-----------------------------------------------------------------------------
(***************************************************************************)
(* One question.  A request is retried when the failure is transient; any  *)
(* other failure ends the question with one of five statuses that are not  *)
(* scored, "infra" here.                                                   *)
(***************************************************************************)
Active == {x \in loaded : q[x].at \notin {"waiting", "done"}}
Stays == at = "asking" /\ UNCHANGED <<dirVars, cacheVars, jobVars, loaded, artifactVars>>

Puts(x, r) == q' = [q EXCEPT ![x] = r]

Finish(status) == [Waiting EXCEPT !.at = "done", !.status = status]

(* Done: the record is a closed file of its own before the next question    *)
(* takes the slot.  An infrastructure failure of officeqa stops the run.    *)
Ends(x, status) ==
    /\ Puts(x, Finish(status))
    /\ parts' = [parts EXCEPT ![x] = job]
    /\ aborted' = (aborted \/ (Office /\ status = "infra"))

Asks(x) ==
    /\ Stays /\ x \in loaded /\ q[x].at = "waiting"
    /\ Cardinality(Active) < Concurrency
    /\ IF Office /\ aborted THEN Ends(x, "infra")
                            ELSE Puts(x, [q[x] EXCEPT !.at = "request"]) /\ UNCHANGED <<parts, aborted>>
    /\ UNCHANGED outage

\* Mutant: a request that is out of retries counts as an answer that is none.
GivesUpScored(x) == Ends(x, "scored")

GivesUp(x) == Ends(x, "infra")

(* classify_http and post_json. *)
RequestFails(x, retryable) ==
    /\ Stays /\ q[x].at = "request"
    /\ outage' = outage \cup {x}
    /\ IF retryable /\ q[x].tries < (IF Office THEN 1 ELSE Retries)
       THEN Puts(x, [q[x] EXCEPT !.tries = @ + 1]) /\ UNCHANGED <<parts, aborted>>
       ELSE GivesUp(x)

(* A reply: cut off at the token limit and continued, or the end of a turn, *)
(* with tool calls or without.  The forced answer of the last search turn   *)
(* calls nothing.                                                          *)
LastSearch(x) == case = "search" /\ q[x].turn = MaxTurns


Continues(x) ==
    /\ Stays /\ q[x].at = "request" /\ ~Office /\ ~LastSearch(x) /\ q[x].cont < MaxCont
    /\ Puts(x, [q[x] EXCEPT !.cont = @ + 1, !.tries = 0])
    /\ outage' = outage \ {x} /\ UNCHANGED <<parts, aborted>>

Replies(x, calls) ==
    /\ Stays /\ q[x].at = "request" /\ (calls => ~LastSearch(x))
    /\ Puts(x, [Waiting EXCEPT !.at = IF calls THEN "tools" ELSE "grading", !.turn = q[x].turn])
    /\ outage' = outage \ {x} /\ UNCHANGED <<parts, aborted>>

(* The calls of a turn.  A bad argument is the model's doing; what the      *)
(* backend fails to answer is not.                                         *)
ToolsAnswer(x) ==
    /\ Stays /\ q[x].at = "tools"
    /\ Puts(x, IF q[x].turn = MaxTurns THEN [q[x] EXCEPT !.at = "grading"]
               ELSE [q[x] EXCEPT !.at = "request", !.turn = @ + 1])
    /\ UNCHANGED <<parts, aborted, outage>>

ToolFails(x) ==
    /\ Stays /\ q[x].at = "tools"
    /\ outage' = outage \cup {x} /\ GivesUp(x)

(* Graded; the reward of officeqa may itself fail to judge, and an abort    *)
(* raised meanwhile is no score either.                                    *)
Grades(x, judged) ==
    /\ Stays /\ q[x].at = "grading" /\ (~Office => judged)
    /\ IF judged /\ ~(Office /\ aborted) THEN Ends(x, "scored") ELSE Ends(x, "infra")
    /\ UNCHANGED outage

-----------------------------------------------------------------------------
(* The verdict and the artifacts. *)
Done == \A x \in loaded : q[x].at = "done"
Failed == {x \in loaded : q[x].status = "infra"}
Scored == {x \in loaded : q[x].status = "scored"}

Valid ==
    /\ loaded # {} /\ Cardinality(loaded) = Cardinality(Questions)
    /\ Cardinality(Failed) <= MaxInfra
    /\ ~(Office /\ aborted)

Artifact == [by |-> job, model |-> ident, valid |-> Valid, scored |-> Scored]

Moves == Done /\ UNCHANGED <<dirVars, cacheVars, job, case, step, ident, served, rc, runVars>>

WriteTrace ==
    /\ \/ case = "search" /\ Goes("asking", "traced")
       \/ Office /\ Goes("written", "reporting")
    /\ trace' = job /\ UNCHANGED out /\ Moves

WriteOut ==
    /\ \/ case = "math" /\ Goes("asking", "reporting")
       \/ case = "search" /\ Goes("traced", "reporting")
       \/ Office /\ Goes("asking", "written")
    /\ out' = Artifact /\ UNCHANGED trace /\ Moves

Reports == at = "reporting" /\ Exits(IF Valid THEN 0 ELSE 1)

-----------------------------------------------------------------------------
Question(x) ==
    \/ Asks(x) \/ Continues(x) \/ ToolsAnswer(x) \/ ToolFails(x)
    \/ \E b \in BOOLEAN : Replies(x, b) \/ Grades(x, b) \/ RequestFails(x, b)

JobStep ==
    \/ RefusedEarly \/ Identified
    \/ Reuses \/ Clearing \/ Copying \/ CopyFails \/ Verifies \/ Renaming
    \/ ServerStarts \/ ServerFails \/ NotReady
    \/ \E rows \in SUBSET Questions : Ready(rows)
    \/ \E x \in Questions : Question(x)
    \/ WriteTrace \/ WriteOut \/ Reports

Environment == RunDirNext /\ UNCHANGED <<cacheVars, jobVars, runVars, artifactVars>>

Next == JobStep \/ Killed \/ Environment \/ \E s \in Steps, u \in UseCases : Begins(s, u)

Spec == Init /\ [][Next]_vars
FairSpec == Spec /\ WF_vars(JobStep)

-----------------------------------------------------------------------------
TypeOK ==
    /\ RunDirTypeOK /\ CacheTypeOK
    /\ job \in Jobs \cup {0} /\ case \in UseCases \cup {None} /\ step \in Steps \cup {0}
    /\ rc \in {NotYet, KilledCode, 0, 1, 2}
    /\ loaded \subseteq Questions /\ parts \in [Questions -> Jobs \cup {0}] /\ outage \subseteq Questions
    /\ q \in [Questions -> [at : {"waiting", "request", "tools", "grading", "done"}, turn : 1..MaxTurns,
                            cont : 0..MaxCont, tries : 0..(Retries + 1), status : {None, "infra", "scored"}]]
    /\ aborted \in BOOLEAN /\ trace \in Jobs \cup {0}

(* A model that was copied is the model the artifact names, whatever was    *)
(* left on the disk and however the checkpoint changed under the copy.      *)
ArtifactIsTheModels == (served # Nothing /\ job \in Staged) => served = ident

(* A question is scored only if the model answered every request of it: an *)
(* outage is no wrong answer.  An artifact is valid, and the exit code 0,   *)
(* only if all the expected questions were asked and enough were scored.    *)
ValidIsTrustworthy ==
    /\ \A x \in Questions : q[x].status = "scored" => x \notin outage
    /\ (out # NoArtifact /\ out.valid) => Cardinality(out.scored) + MaxInfra >= Cardinality(Questions)
    /\ rc = 0 => out.by = job /\ out.valid

(* What one evaluation found is never replaced by another that was not told *)
(* to; and a question is done only when its record is a closed file.        *)
EvidenceStays ==
    [][/\ out' # out => out = NoArtifact \/ job \in Overwrite
       /\ trace' # trace => trace = 0 \/ job \in Overwrite
       /\ \A x \in Questions : parts'[x] # parts[x] => parts[x] = 0 \/ job \in Overwrite
       /\ \A x \in Questions : (q[x].at # "done" /\ q'[x].at = "done") => parts'[x] = job]_vars

(* An artifact says what happened, and keeps on saying it.                  *)
EvidenceIsSound == [](TypeOK /\ ValidIsTrustworthy) /\ EvidenceStays

=============================================================================
