------------------------------ MODULE JudgeJob ------------------------------
(***************************************************************************)
(* One agentic job with a co-located LLM judge (dispatch_agentic.sh,       *)
(* rendezvous.sh, serve_judge.sh, judge_ping.py), over several attempts    *)
(* that reuse the RUN_ID's rendezvous directory:                           *)
(*                                                                         *)
(*   rank 0   the first training node: clears and writes training_done,    *)
(*            waits for the judge's endpoint, pings it, trains             *)
(*   head     the first judge node: Ray head, API server, its watchdog     *)
(*   worker   the second judge node: joins the head's Ray, then idles      *)
(*                                                                         *)
(* They share nothing but three files on a Volume: judge_ray_head,         *)
(* judge_endpoint and training_done.                                       *)
(***************************************************************************)
EXTENDS Naturals

CONSTANTS
    MaxAttempts,    \* bound: submissions of this RUN_ID
    MaxMisses,      \* failed probes after which the worker leaves
    Lifetimes       \* submissions with a JUDGE_MAX_LIFETIME

ASSUME JudgeConstants ==
    /\ MaxAttempts \in Nat \ {0} /\ MaxMisses \in Nat \ {0}
    /\ Lifetimes \subseteq Nat

VARIABLES
    attempt,    \* how many times this RUN_ID was submitted
    rank0,      \* where training rank 0 is
    url,        \* the attempt whose endpoint rank 0 took (0: none yet)
    done,       \* training_done: the attempt that wrote it (0: no file)
    endpoint,   \* judge_endpoint
    rayHead,    \* judge_ray_head
    head,       \* where the judge head's script is
    headRc,     \* its exit status
    port,       \* the head's Ray port is open
    server,     \* the API server's process
    watching,   \* the self-exit watchdog runs
    stop,       \* STOP_REASON
    worker,     \* where the judge worker is
    joins,      \* the attempt whose head address the worker took
    misses      \* failed probes in a row

rank0Vars  == <<rank0, url>>
fileVars   == <<done, endpoint, rayHead>>
headVars   == <<head, headRc, port, server, watching, stop>>
workerVars == <<worker, joins, misses>>
vars == <<attempt, rank0Vars, fileVars, headVars, workerVars>>

NoCode   == 999
Attempts == 0..MaxAttempts
NoFile   == [by |-> 0, fresh |-> FALSE]
Written  == [by |-> attempt, fresh |-> TRUE]
Volume   == [by : Attempts, fresh : BOOLEAN]

Rank0Over  == rank0 \in {"left", "lost"}
HeadOver   == head \in {"left", "killed"}
WorkerOver == worker = "left"
JobOver    == attempt = 0 \/ (Rank0Over /\ HeadOver /\ WorkerOver)

Init ==
    /\ attempt = 0
    /\ rank0 = "left" /\ url = 0
    /\ done = 0 /\ endpoint = NoFile /\ rayHead = NoFile
    /\ head = "left" /\ headRc = NoCode /\ port = FALSE /\ server = "none"
    /\ watching = FALSE /\ stop = "none"
    /\ worker = "left" /\ joins = 0 /\ misses = 0

\* A file left by the last attempt, as the new job's rdv_wait will rate it: a
\* submission that follows within RDV_SKEW_S still finds it fresh.
Aged(f) == {f, [f EXCEPT !.fresh = FALSE]}

\* AI Runtime starts the command on every node; DISPATCH_T0 is set.
Submit ==
    /\ JobOver /\ attempt < MaxAttempts
    /\ attempt' = attempt + 1
    /\ rank0' = "checks" /\ url' = 0
    /\ endpoint' \in Aged(endpoint) /\ rayHead' \in Aged(rayHead)
    /\ head' = "started" /\ headRc' = NoCode /\ port' = FALSE
    /\ server' = "none" /\ watching' = FALSE /\ stop' = "none"
    /\ worker' = "started" /\ joins' = 0 /\ misses' = 0
    /\ UNCHANGED done

-----------------------------------------------------------------------------
(***************************************************************************)
(* Training rank 0.  Once armed, the EXIT trap writes the sentinel on      *)
(* every way out but a SIGKILL.                                            *)
(***************************************************************************)
LeaveArmed == rank0' = "left" /\ done' = attempt

\* A plug-in path that does not exist, a resolver that fails: the trap is not
\* installed yet, so nothing is written.
ChecksFail ==
    /\ rank0 = "checks"
    /\ rank0' = "left"
    /\ UNCHANGED <<attempt, url, fileVars, headVars, workerVars>>

\* Mutant: the sentinel of the earlier attempt is not removed.
ArmKeepingSentinel ==
    /\ rank0 = "checks"
    /\ rank0' = "armed"
    /\ UNCHANGED <<attempt, url, fileVars, headVars, workerVars>>

Arm ==
    /\ rank0 = "checks"
    /\ rank0' = "armed" /\ done' = 0
    /\ UNCHANGED <<attempt, url, endpoint, rayHead, headVars, workerVars>>

\* rdv_wait: the file is there and not older than DISPATCH_T0 - RDV_SKEW_S.
TakeEndpoint ==
    /\ rank0 = "armed" /\ endpoint.fresh
    /\ rank0' = "pinging" /\ url' = endpoint.by
    /\ UNCHANGED <<attempt, fileVars, headVars, workerVars>>

\* FATAL: not published within JUDGE_WAIT_TIMEOUT.
WaitTimesOut ==
    /\ rank0 = "armed" /\ ~endpoint.fresh
    /\ LeaveArmed
    /\ UNCHANGED <<attempt, url, endpoint, rayHead, headVars, workerVars>>

\* Mutant: a published endpoint is enough: no ping.
PublishedIsEnough ==
    /\ rank0 = "pinging"
    /\ rank0' = "training"
    /\ UNCHANGED <<attempt, url, fileVars, headVars, workerVars>>

\* judge_ping: a completion comes back from the address that was taken, which
\* takes both nodes: the model is sharded over them.
PingAnswers ==
    /\ rank0 = "pinging" /\ url = attempt
    /\ server = "healthy" /\ worker = "member"
    /\ rank0' = "training"
    /\ UNCHANGED <<attempt, url, fileVars, headVars, workerVars>>

\* The ping runs out of time, or the pre-train check rejects the judge.
JudgeRejected ==
    /\ rank0 = "pinging"
    /\ LeaveArmed
    /\ UNCHANGED <<attempt, url, endpoint, rayHead, headVars, workerVars>>

\* The launcher returns, whatever its exit status; or TERM reaches rank 0.
TrainingEnds ==
    /\ rank0 = "training"
    /\ LeaveArmed
    /\ UNCHANGED <<attempt, url, endpoint, rayHead, headVars, workerVars>>

Rank0Term ==
    /\ rank0 \in {"armed", "pinging"}
    /\ LeaveArmed
    /\ UNCHANGED <<attempt, url, endpoint, rayHead, headVars, workerVars>>

Rank0Killed ==
    /\ ~Rank0Over
    /\ rank0' = "lost"
    /\ UNCHANGED <<attempt, url, fileVars, headVars, workerVars>>

-----------------------------------------------------------------------------
(***************************************************************************)
(* The judge head.                                                         *)
(***************************************************************************)
HeadLeaves(code) ==
    /\ head' = "left" /\ headRc' = code
    /\ port' = FALSE /\ watching' = FALSE
    /\ server' = IF server \in {"loading", "healthy"} THEN "dead" ELSE server

HeadClears ==
    /\ head = "started"
    /\ head' = "clean"
    /\ rayHead' = NoFile /\ endpoint' = NoFile
    /\ UNCHANGED <<attempt, rank0Vars, done, headRc, port, server, watching,
                   stop, workerVars>>

HeadSaysWhere ==
    /\ head = "clean"
    /\ head' = "staging" /\ rayHead' = Written
    /\ UNCHANGED <<attempt, rank0Vars, done, endpoint, headRc, port, server,
                   watching, stop, workerVars>>

HeadForms ==
    /\ head = "staging"
    /\ head' = "forming" /\ port' = TRUE
    /\ UNCHANGED <<attempt, rank0Vars, fileVars, headRc, server, watching,
                   stop, workerVars>>

\* All GPUs have registered: the API server is started.
ServerStarts ==
    /\ head = "forming" /\ worker = "member"
    /\ head' = "loading" /\ server' = "loading"
    /\ UNCHANGED <<attempt, rank0Vars, fileVars, headRc, port, watching, stop,
                   workerVars>>

\* Staging, the cluster or the load fails or runs out of its time.
HeadGivesUp ==
    /\ head \in {"staging", "forming", "loading"}
    /\ HeadLeaves(1)
    /\ UNCHANGED <<attempt, rank0Vars, fileVars, stop, workerVars>>

BecomeHealthy ==
    /\ head = "loading"
    /\ head' = "healthy" /\ server' = "healthy"
    /\ UNCHANGED <<attempt, rank0Vars, fileVars, headRc, port, watching, stop,
                   workerVars>>

Publish ==
    /\ head = "healthy"
    /\ head' = "published" /\ endpoint' = Written
    /\ UNCHANGED <<attempt, rank0Vars, done, rayHead, headRc, port, server,
                   watching, stop, workerVars>>

StartWatchdog ==
    /\ head = "published"
    /\ head' = "serving" /\ watching' = (server = "healthy")
    /\ UNCHANGED <<attempt, rank0Vars, fileVars, headRc, port, server, stop,
                   workerVars>>

StopServer(reason) ==
    /\ watching /\ server = "healthy"
    /\ stop' = reason /\ server' = "dead" /\ watching' = FALSE
    /\ UNCHANGED <<attempt, rank0Vars, fileVars, head, headRc, port,
                   workerVars>>

SeesSentinel == done # 0 /\ StopServer("sentinel")
OutOfLife    == attempt \in Lifetimes /\ done = 0 /\ StopServer("max_lifetime")

\* The server crashes while it serves.
ServerDies ==
    /\ server = "healthy"
    /\ server' = "dead" /\ watching' = FALSE
    /\ UNCHANGED <<attempt, rank0Vars, fileVars, head, headRc, port, stop,
                   workerVars>>

StopCode == [none |-> 3, sentinel |-> 0, max_lifetime |-> 4]

HeadExits ==
    /\ head = "serving" /\ server = "dead"
    /\ HeadLeaves(StopCode[stop])
    /\ UNCHANGED <<attempt, rank0Vars, fileVars, stop, workerVars>>

HeadKilled ==
    /\ ~HeadOver
    /\ head' = "killed" /\ port' = FALSE /\ watching' = FALSE
    /\ server' = IF server \in {"loading", "healthy"} THEN "dead" ELSE server
    /\ UNCHANGED <<attempt, rank0Vars, fileVars, headRc, stop, workerVars>>

-----------------------------------------------------------------------------
(***************************************************************************)
(* The judge worker.                                                       *)
(***************************************************************************)
WorkerFindsHead ==
    /\ worker = "started" /\ rayHead.fresh
    /\ worker' = "reaching" /\ joins' = rayHead.by
    /\ UNCHANGED <<attempt, rank0Vars, fileVars, headVars, misses>>

\* No address in time, a failed copy of the weights, no Ray at the address.
WorkerGivesUp ==
    /\ worker \in {"started", "reaching"}
    /\ worker' = "left"
    /\ UNCHANGED <<attempt, rank0Vars, fileVars, headVars, joins, misses>>

WorkerJoins ==
    /\ worker = "reaching" /\ joins = attempt /\ port
    /\ worker' = "member" /\ misses' = 0
    /\ UNCHANGED <<attempt, rank0Vars, fileVars, headVars, joins>>

WorkerSeesSentinel ==
    /\ worker = "member" /\ done # 0
    /\ worker' = "left"
    /\ UNCHANGED <<attempt, rank0Vars, fileVars, headVars, joins, misses>>

\* Mutant: the counter is reset inside the loop.
ProbeCountsAfresh ==
    /\ worker = "member" /\ ~port
    /\ misses' = 1
    /\ worker' = IF misses' >= MaxMisses THEN "left" ELSE "member"
    /\ UNCHANGED <<attempt, rank0Vars, fileVars, headVars, joins>>

\* One probe of the head's Ray port; the port of an attempt stays closed.
ProbeMisses ==
    /\ worker = "member" /\ ~port
    /\ misses' = misses + 1
    /\ worker' = IF misses + 1 >= MaxMisses THEN "left" ELSE "member"
    /\ UNCHANGED <<attempt, rank0Vars, fileVars, headVars, joins>>

-----------------------------------------------------------------------------
Rank0Next ==
    \/ ChecksFail \/ Arm \/ TakeEndpoint \/ WaitTimesOut \/ PingAnswers
    \/ JudgeRejected \/ TrainingEnds \/ Rank0Term \/ Rank0Killed

HeadNext ==
    \/ HeadClears \/ HeadSaysWhere \/ HeadForms \/ ServerStarts
    \/ HeadGivesUp \/ BecomeHealthy \/ Publish \/ StartWatchdog
    \/ SeesSentinel \/ OutOfLife \/ ServerDies \/ HeadExits \/ HeadKilled

WorkerNext ==
    \/ WorkerFindsHead \/ WorkerGivesUp \/ WorkerJoins
    \/ WorkerSeesSentinel \/ ProbeMisses

Next == Submit \/ Rank0Next \/ HeadNext \/ WorkerNext

Spec == Init /\ [][Next]_vars

(***************************************************************************)
(* Every script keeps running and every wait has a deadline; nothing is    *)
(* owed by the training itself, and nobody need be killed.                 *)
(***************************************************************************)
HeadSteps ==
    \/ HeadClears \/ HeadSaysWhere \/ HeadForms \/ ServerStarts
    \/ HeadGivesUp \/ BecomeHealthy \/ Publish \/ StartWatchdog \/ HeadExits

FairSpec ==
    /\ Spec
    /\ WF_vars(Arm \/ TakeEndpoint \/ WaitTimesOut \/ PingAnswers
               \/ JudgeRejected)
    /\ WF_vars(HeadSteps)
    /\ WF_vars(SeesSentinel \/ OutOfLife)
    /\ WF_vars(WorkerFindsHead \/ WorkerGivesUp \/ WorkerJoins)
    /\ WF_vars(WorkerSeesSentinel \/ ProbeMisses)

-----------------------------------------------------------------------------
(***************************************************************************)
(* Every variable keeps its type; the misses never pass the limit.         *)
(***************************************************************************)
TypeOK ==
    /\ attempt \in Attempts
    /\ rank0 \in {"checks", "armed", "pinging", "training", "left", "lost"}
    /\ url \in Attempts /\ done \in Attempts
    /\ endpoint \in Volume /\ rayHead \in Volume
    /\ head \in {"started", "clean", "staging", "forming", "loading",
                 "healthy", "published", "serving", "left", "killed"}
    /\ headRc \in {NoCode, 0, 1, 3, 4}
    /\ port \in BOOLEAN /\ watching \in BOOLEAN
    /\ server \in {"none", "loading", "healthy", "dead"}
    /\ stop \in DOMAIN StopCode
    /\ worker \in {"started", "reaching", "member", "left"}
    /\ joins \in Attempts /\ misses \in 0..MaxMisses

(***************************************************************************)
(* Nothing is trained against a judge that is not this attempt's own, or   *)
(* that was never healthy: the ping stands between a stale endpoint file   *)
(* and the training (dispatch_agentic.sh:250-255).                         *)
(***************************************************************************)
TrainsAgainstItsJudge ==
    rank0 = "training" =>
        /\ url = attempt
        /\ head \in {"published", "serving", "left", "killed"}
        /\ server \in {"healthy", "dead"}

(***************************************************************************)
(* No judge node takes training for done while it is not: the nodes start  *)
(* at their own pace and look at training_done without asking whose it is, *)
(* so that one which looks before rank 0 has removed the file of the       *)
(* attempt before is misled -- but only then, and never once rank 0 is     *)
(* armed (serve_judge.sh:176, 308; dispatch_agentic.sh:211-218).           *)
(***************************************************************************)
TakenForDone ==
    \/ stop = "none" /\ stop' = "sentinel"
    \/ worker = "member" /\ worker' = "left" /\ port

DoneIsDone == [][TakenForDone => Rank0Over \/ rank0 = "checks"]_vars

(***************************************************************************)
(* While training uses a healthy judge, both of its nodes are in the       *)
(* cluster: neither the sentinel of an earlier attempt nor a probe takes   *)
(* the worker out from under it (serve_judge.sh:174-186).                  *)
(***************************************************************************)
JudgeOutlivesTraining ==
    rank0 = "training" /\ server = "healthy" =>
        worker = "member" /\ port /\ stop = "none"

(***************************************************************************)
(* What rank 0 writes when it leaves ends the judge: its GPUs do not idle  *)
(* to the job's timeout (dispatch_agentic.sh:211-213).  A rank 0 that      *)
(* leaves before the trap is installed writes nothing.                     *)
(***************************************************************************)
SentinelEndsJudge == done = attempt ~> HeadOver

(***************************************************************************)
(* Once the head is gone, however it ended, the judge's worker leaves      *)
(* (serve_judge.sh:162-189).                                               *)
(***************************************************************************)
JudgeWorkerLeaves == HeadOver ~> WorkerOver

(***************************************************************************)
(* With JUDGE_MAX_LIFETIME a rank 0 that wrote no sentinel, killed or gone *)
(* before its trap, does not keep the judge (serve_judge.sh:298-300).      *)
(***************************************************************************)
LifetimeEndsJudge == Rank0Over /\ attempt \in Lifetimes ~> HeadOver

(***************************************************************************)
(* The judge is there for as long as it is needed.  It takes nothing for   *)
(* the end of training but that end, or before training the file of the    *)
(* attempt before; and a judge that was misled so is not trained against.  *)
(***************************************************************************)
JudgeStaysForTraining == []TypeOK /\ []JudgeOutlivesTraining /\ DoneIsDone

(***************************************************************************)
(* And no longer: head and worker both leave, after a rank 0 that said so, *)
(* and with a lifetime after one that could not.                           *)
(***************************************************************************)
EverybodyLeaves == SentinelEndsJudge /\ JudgeWorkerLeaves /\ LifetimeEndsJudge
=============================================================================
