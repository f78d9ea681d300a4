------------------------------- MODULE Judge_proofs -------------------------------
(***************************************************************************)
(* The judge service and the reward that asks it.                          *)
(*                                                                         *)
(* JudgeJob for every number of submissions, whichever of them have a      *)
(* lifetime for the judge, and every number of failed probes a worker      *)
(* bears; then JudgeReward for every number of calls in flight, of         *)
(* attempts, of ticks and of calls in the window, and every rate of        *)
(* failures that is borne.                                                 *)
(***************************************************************************)
EXTENDS JudgeJob, JudgeReward, FiniteSetTheorems, SequenceTheorems, TLAPS

(***************************************************************************)
(* The strengthening.  An endpoint file that names this submission was     *)
(* published in it; while rank 0 is between arming its trap and leaving    *)
(* there is no sentinel; and a judge that loads or serves has its port     *)
(* open, and its worker with it where rank 0 trains.                       *)
(***************************************************************************)
Published == head \in {"published", "serving", "left", "killed"}

FileInv ==
    /\ attempt = 0 => rank0 = "left" /\ head = "left" /\ worker = "left"
    /\ endpoint.by <= attempt
    /\ attempt > 0 /\ endpoint.by = attempt => Published
    /\ attempt > 0 /\ url = attempt => Published

SentinelInv == rank0 \in {"armed", "pinging", "training"} => done = 0

ServerInv ==
    /\ head \in {"started", "clean", "staging", "forming"} => server = "none" /\ stop = "none"
    /\ head = "loading" => server = "loading"
    /\ head \in {"healthy", "published", "serving"} => server \in {"healthy", "dead"}
    /\ server \in {"loading", "healthy"} =>
        /\ head \in {"loading", "healthy", "published", "serving"}
        /\ port /\ stop = "none"
    /\ head \in {"forming", "loading", "healthy", "published", "serving"} => port
    /\ worker = "member" => misses < MaxMisses

Safe ==
    /\ FileInv /\ SentinelInv /\ ServerInv
    /\ TrainsAgainstItsJudge /\ JudgeOutlivesTraining

IInv == TypeOK /\ Safe

-----------------------------------------------------------------------------
(* A file that ages is the same file, of the same submission.              *)
LEMMA AgedType ==
    ASSUME NEW f \in Volume
    PROVE  Aged(f) \subseteq Volume
BY DEF Aged, Volume

(* Every variable keeps its type; a member's misses stay below the limit.  *)
LEMMA TypeStep == TypeOK /\ ServerInv /\ [Next]_vars => TypeOK'
<1> SUFFICES ASSUME TypeOK, ServerInv, [Next]_vars PROVE TypeOK'
  OBVIOUS
<1>s. TypeOK /\ (worker = "member" => misses < MaxMisses)
  BY DEF ServerInv
<1>d. DOMAIN StopCode = {"none", "sentinel", "max_lifetime"}
  BY DEF StopCode
<1>a. Aged(endpoint) \subseteq Volume /\ Aged(rayHead) \subseteq Volume
  BY <1>s, AgedType DEF TypeOK
<1> USE JudgeConstants, <1>d DEF TypeOK, Attempts, Volume, NoFile, Written, NoCode, Rank0Over, HeadOver,
        WorkerOver
<1>0. CASE UNCHANGED vars
  BY <1>0, <1>s DEF vars, rank0Vars, fileVars, headVars, workerVars
<1>1. CASE Submit
  <2>1. port' \in BOOLEAN /\ watching' \in BOOLEAN
    BY <1>1, <1>s, Zenon DEF Submit, Aged, JobOver
  <2>2. stop' \in DOMAIN StopCode
    BY <1>1, <1>s DEF Submit, Aged, JobOver
  <2>3. headRc' \in {NoCode, 0, 1, 3, 4}
    BY <1>1, <1>s DEF Submit, Aged, JobOver
  <2>4. attempt' \in Attempts /\ done' \in Attempts
    BY <1>1, <1>s DEF Submit
  <2>5. endpoint' \in Volume /\ rayHead' \in Volume
    BY <1>1, <1>s, <1>a DEF Submit
  <2>6. /\ rank0' = "checks" /\ url' = 0 /\ head' = "started" /\ server' = "none"
        /\ worker' = "started" /\ joins' = 0 /\ misses' = 0
    BY <1>1 DEF Submit
  <2>7. 0 \in Attempts /\ 0 \in 0..MaxMisses
    OBVIOUS
  <2> HIDE DEF Attempts, Volume
  <2>8. QED
    BY <2>1, <2>2, <2>3, <2>4, <2>5, <2>6, <2>7
<1>2. CASE ChecksFail
  BY <1>2, <1>s DEF ChecksFail, fileVars, headVars, workerVars
<1>3. CASE Arm
  BY <1>3, <1>s DEF Arm, headVars, workerVars
<1>4. CASE TakeEndpoint
  BY <1>4, <1>s DEF TakeEndpoint, fileVars, headVars, workerVars
<1>5. CASE WaitTimesOut
  BY <1>5, <1>s DEF WaitTimesOut, headVars, workerVars, LeaveArmed
<1>6. CASE PingAnswers
  BY <1>6, <1>s DEF PingAnswers, fileVars, headVars, workerVars
<1>7. CASE JudgeRejected
  BY <1>7, <1>s DEF JudgeRejected, headVars, workerVars, LeaveArmed
<1>8. CASE TrainingEnds
  BY <1>8, <1>s DEF TrainingEnds, headVars, workerVars, LeaveArmed
<1>9. CASE Rank0Term
  BY <1>9, <1>s DEF Rank0Term, headVars, workerVars, LeaveArmed
<1>10. CASE Rank0Killed
  BY <1>10, <1>s DEF Rank0Killed, fileVars, headVars, workerVars
<1>11. CASE HeadClears
  BY <1>11, <1>s DEF HeadClears, rank0Vars, workerVars
<1>12. CASE HeadSaysWhere
  BY <1>12, <1>s DEF HeadSaysWhere, rank0Vars, workerVars
<1>13. CASE HeadForms
  BY <1>13, <1>s DEF HeadForms, rank0Vars, fileVars, workerVars
<1>14. CASE ServerStarts
  BY <1>14, <1>s DEF ServerStarts, rank0Vars, fileVars, workerVars
<1>15. CASE HeadGivesUp
  BY <1>15, <1>s DEF HeadGivesUp, rank0Vars, fileVars, workerVars, HeadLeaves
<1>16. CASE BecomeHealthy
  BY <1>16, <1>s DEF BecomeHealthy, rank0Vars, fileVars, workerVars
<1>17. CASE Publish
  BY <1>17, <1>s DEF Publish, rank0Vars, workerVars
<1>18. CASE StartWatchdog
  BY <1>18, <1>s DEF StartWatchdog, rank0Vars, fileVars, workerVars
<1>19. CASE SeesSentinel
  <2>1. port' \in BOOLEAN /\ watching' \in BOOLEAN
    BY <1>19, <1>s, Zenon DEF SeesSentinel, rank0Vars, fileVars, workerVars, StopServer
  <2>2. stop' \in DOMAIN StopCode
    BY <1>19, <1>s DEF SeesSentinel, rank0Vars, fileVars, workerVars, StopServer
  <2>3. headRc' \in {NoCode, 0, 1, 3, 4}
    BY <1>19, <1>s DEF SeesSentinel, rank0Vars, fileVars, workerVars, StopServer
  <2>4. QED
    BY <1>19, <1>s, <2>1, <2>2, <2>3 DEF SeesSentinel, rank0Vars, fileVars, workerVars, StopServer
<1>20. CASE OutOfLife
  <2>1. port' \in BOOLEAN /\ watching' \in BOOLEAN
    BY <1>20, <1>s, Zenon DEF OutOfLife, rank0Vars, fileVars, workerVars, StopServer
  <2>2. stop' \in DOMAIN StopCode
    BY <1>20, <1>s DEF OutOfLife, rank0Vars, fileVars, workerVars, StopServer
  <2>3. headRc' \in {NoCode, 0, 1, 3, 4}
    BY <1>20, <1>s DEF OutOfLife, rank0Vars, fileVars, workerVars, StopServer
  <2>4. QED
    BY <1>20, <1>s, <2>1, <2>2, <2>3 DEF OutOfLife, rank0Vars, fileVars, workerVars, StopServer
<1>21. CASE ServerDies
  <2>1. port' \in BOOLEAN /\ watching' \in BOOLEAN
    BY <1>21, <1>s, Zenon DEF ServerDies, rank0Vars, fileVars, workerVars
  <2>2. stop' \in DOMAIN StopCode
    BY <1>21, <1>s DEF ServerDies, rank0Vars, fileVars, workerVars
  <2>3. headRc' \in {NoCode, 0, 1, 3, 4}
    BY <1>21, <1>s DEF ServerDies, rank0Vars, fileVars, workerVars
  <2>4. QED
    BY <1>21, <1>s, <2>1, <2>2, <2>3 DEF ServerDies, rank0Vars, fileVars, workerVars
<1>22. CASE HeadExits
  <2>1. port' \in BOOLEAN /\ watching' \in BOOLEAN
    BY <1>22, <1>s, Zenon DEF HeadExits, rank0Vars, fileVars, workerVars, HeadLeaves
  <2>2. stop' \in DOMAIN StopCode
    BY <1>22, <1>s DEF HeadExits, rank0Vars, fileVars, workerVars, HeadLeaves
  <2>3. headRc' \in {NoCode, 0, 1, 3, 4}
    BY <1>22, <1>s DEF HeadExits, rank0Vars, fileVars, workerVars, HeadLeaves, StopCode
  <2>4. QED
    BY <1>22, <1>s, <2>1, <2>2, <2>3 DEF HeadExits, rank0Vars, fileVars, workerVars, HeadLeaves
<1>23. CASE HeadKilled
  <2>1. port' \in BOOLEAN /\ watching' \in BOOLEAN
    BY <1>23, <1>s, Zenon DEF HeadKilled, rank0Vars, fileVars, workerVars
  <2>2. stop' \in DOMAIN StopCode
    BY <1>23, <1>s DEF HeadKilled, rank0Vars, fileVars, workerVars
  <2>3. headRc' \in {NoCode, 0, 1, 3, 4}
    BY <1>23, <1>s DEF HeadKilled, rank0Vars, fileVars, workerVars
  <2>4. QED
    BY <1>23, <1>s, <2>1, <2>2, <2>3 DEF HeadKilled, rank0Vars, fileVars, workerVars
<1>24. CASE WorkerFindsHead
  BY <1>24, <1>s DEF WorkerFindsHead, rank0Vars, fileVars, headVars
<1>25. CASE WorkerGivesUp
  BY <1>25, <1>s DEF WorkerGivesUp, rank0Vars, fileVars, headVars
<1>26. CASE WorkerJoins
  BY <1>26, <1>s DEF WorkerJoins, rank0Vars, fileVars, headVars
<1>27. CASE WorkerSeesSentinel
  BY <1>27, <1>s DEF WorkerSeesSentinel, rank0Vars, fileVars, headVars
<1>28. CASE ProbeMisses
  BY <1>28, <1>s DEF ProbeMisses, rank0Vars, fileVars, headVars
<1> HIDE DEF TypeOK
<1> QED
  BY <1>0, <1>1, <1>2, <1>3, <1>4, <1>5, <1>6, <1>7, <1>8, <1>9, <1>10, <1>11, <1>12, <1>13,
     <1>14, <1>15, <1>16, <1>17, <1>18, <1>19, <1>20, <1>21, <1>22, <1>23, <1>24, <1>25,
     <1>26, <1>27, <1>28
     DEF Next, Rank0Next, HeadNext, WorkerNext

(* The initial state: no submission yet.                                   *)
LEMMA InitIInv == Init => IInv
<1> SUFFICES ASSUME Init PROVE IInv
  OBVIOUS
<1>1. TypeOK
  <2>1. 0 \in Attempts /\ 0 \in 0..MaxMisses /\ NoFile \in Volume /\ "none" \in DOMAIN StopCode
    BY JudgeConstants DEF Attempts, NoFile, Volume, StopCode
  <2>2. port \in BOOLEAN /\ watching \in BOOLEAN
    BY Zenon DEF Init
  <2>3. QED
    BY <2>1, <2>2 DEF Init, TypeOK
<1>2. Safe
  BY JudgeConstants DEF Init, Safe, FileInv, SentinelInv, ServerInv, TrainsAgainstItsJudge,
     JudgeOutlivesTraining, Published, Rank0Over, NoFile, NoCode
<1>3. QED
  BY <1>1, <1>2 DEF IInv

(* Each step keeps the strengthening.                                      *)
LEMMA SafeStep == IInv /\ [Next]_vars => Safe'
<1> SUFFICES ASSUME IInv, [Next]_vars PROVE Safe'
  OBVIOUS
<1>t. TypeOK
  BY DEF IInv
<1>s. Safe
  BY DEF IInv
<1> USE JudgeConstants DEF Safe, FileInv, SentinelInv, ServerInv, TrainsAgainstItsJudge,
        JudgeOutlivesTraining, Published, Rank0Over, HeadOver, WorkerOver, NoFile, Written, NoCode,
        TypeOK, Attempts, Volume
<1>0. CASE UNCHANGED vars
  BY <1>0, <1>s, <1>t DEF vars, rank0Vars, fileVars, headVars, workerVars
<1>1. CASE Submit
  BY <1>1, <1>s, <1>t DEF Submit, Aged, JobOver
<1>2. CASE ChecksFail
  BY <1>2, <1>s, <1>t DEF ChecksFail, fileVars, headVars, workerVars
<1>3. CASE Arm
  BY <1>3, <1>s, <1>t DEF Arm, headVars, workerVars
<1>4. CASE TakeEndpoint
  BY <1>4, <1>s, <1>t DEF TakeEndpoint, fileVars, headVars, workerVars
<1>5. CASE WaitTimesOut
  BY <1>5, <1>s, <1>t DEF WaitTimesOut, headVars, workerVars, LeaveArmed
<1>6. CASE PingAnswers
  BY <1>6, <1>s, <1>t DEF PingAnswers, fileVars, headVars, workerVars
<1>7. CASE JudgeRejected
  BY <1>7, <1>s, <1>t DEF JudgeRejected, headVars, workerVars, LeaveArmed
<1>8. CASE TrainingEnds
  BY <1>8, <1>s, <1>t DEF TrainingEnds, headVars, workerVars, LeaveArmed
<1>9. CASE Rank0Term
  BY <1>9, <1>s, <1>t DEF Rank0Term, headVars, workerVars, LeaveArmed
<1>10. CASE Rank0Killed
  BY <1>10, <1>s, <1>t DEF Rank0Killed, fileVars, headVars, workerVars
<1>11. CASE HeadClears
  BY <1>11, <1>s, <1>t DEF HeadClears, rank0Vars, workerVars
<1>12. CASE HeadSaysWhere
  BY <1>12, <1>s, <1>t DEF HeadSaysWhere, rank0Vars, workerVars
<1>13. CASE HeadForms
  BY <1>13, <1>s, <1>t DEF HeadForms, rank0Vars, fileVars, workerVars
<1>14. CASE ServerStarts
  BY <1>14, <1>s, <1>t DEF ServerStarts, rank0Vars, fileVars, workerVars
<1>15. CASE HeadGivesUp
  BY <1>15, <1>s, <1>t DEF HeadGivesUp, rank0Vars, fileVars, workerVars, HeadLeaves
<1>16. CASE BecomeHealthy
  BY <1>16, <1>s, <1>t DEF BecomeHealthy, rank0Vars, fileVars, workerVars
<1>17. CASE Publish
  BY <1>17, <1>s, <1>t DEF Publish, rank0Vars, workerVars
<1>18. CASE StartWatchdog
  BY <1>18, <1>s, <1>t DEF StartWatchdog, rank0Vars, fileVars, workerVars
<1>19. CASE SeesSentinel
  BY <1>19, <1>s, <1>t DEF SeesSentinel, rank0Vars, fileVars, workerVars, StopServer
<1>20. CASE OutOfLife
  BY <1>20, <1>s, <1>t DEF OutOfLife, rank0Vars, fileVars, workerVars, StopServer
<1>21. CASE ServerDies
  BY <1>21, <1>s, <1>t DEF ServerDies, rank0Vars, fileVars, workerVars
<1>22. CASE HeadExits
  BY <1>22, <1>s, <1>t DEF HeadExits, rank0Vars, fileVars, workerVars, HeadLeaves, StopCode
<1>23. CASE HeadKilled
  BY <1>23, <1>s, <1>t DEF HeadKilled, rank0Vars, fileVars, workerVars
<1>24. CASE WorkerFindsHead
  BY <1>24, <1>s, <1>t DEF WorkerFindsHead, rank0Vars, fileVars, headVars
<1>25. CASE WorkerGivesUp
  BY <1>25, <1>s, <1>t DEF WorkerGivesUp, rank0Vars, fileVars, headVars
<1>26. CASE WorkerJoins
  BY <1>26, <1>s, <1>t DEF WorkerJoins, rank0Vars, fileVars, headVars
<1>27. CASE WorkerSeesSentinel
  BY <1>27, <1>s, <1>t DEF WorkerSeesSentinel, rank0Vars, fileVars, headVars
<1>28. CASE ProbeMisses
  BY <1>28, <1>s, <1>t DEF ProbeMisses, rank0Vars, fileVars, headVars
<1> HIDE DEF Safe
<1> QED
  BY <1>0, <1>1, <1>2, <1>3, <1>4, <1>5, <1>6, <1>7, <1>8, <1>9, <1>10, <1>11, <1>12, <1>13,
     <1>14, <1>15, <1>16, <1>17, <1>18, <1>19, <1>20, <1>21, <1>22, <1>23, <1>24, <1>25,
     <1>26, <1>27, <1>28
     DEF Next, Rank0Next, HeadNext, WorkerNext

(* The strengthening is an invariant.                                      *)
THEOREM InductiveInvariant == Spec => []IInv
<1>1. IInv /\ [Next]_vars => IInv'
  BY TypeStep, SafeStep DEF IInv, Safe
<1>2. QED
  BY InitIInv, <1>1, PTL DEF Spec

(* Nothing is trained against a stale endpoint file or a judge that never  *)
(* was healthy, whatever the earlier submissions left in the directory.    *)
THEOREM TrainsAgainstItsJudgeHolds == Spec => []TrainsAgainstItsJudge
<1>1. IInv => TrainsAgainstItsJudge
  BY DEF IInv, Safe
<1>2. QED
  BY <1>1, InductiveInvariant, PTL

(* Whoever takes training for done finds it done, or has looked before     *)
(* rank 0 had removed the file of the attempt before.                      *)
LEMMA DoneStep ==
    IInv /\ [Next]_vars => [TakenForDone => Rank0Over \/ rank0 = "checks"]_vars
<1> SUFFICES ASSUME IInv, [Next]_vars, TakenForDone
    PROVE Rank0Over \/ rank0 = "checks"
  OBVIOUS
<1>1. /\ rank0 \in {"armed", "pinging", "training"} => done = 0
      /\ rank0 \in {"checks", "armed", "pinging", "training", "left", "lost"}
  BY DEF IInv, Safe, SentinelInv, TypeOK
<1> USE DEF TakenForDone, Rank0Over, rank0Vars, fileVars, headVars, workerVars
<1>2. CASE UNCHANGED vars
  BY <1>2 DEF vars
<1>3. CASE Submit
  BY <1>3 DEF Submit, JobOver
<1>4. CASE Rank0Next
  BY <1>4 DEF Rank0Next, ChecksFail, Arm, TakeEndpoint, WaitTimesOut, PingAnswers,
     JudgeRejected, TrainingEnds, Rank0Term, Rank0Killed
<1>5. CASE HeadNext
  BY <1>1, <1>5 DEF HeadNext, HeadClears, HeadSaysWhere, HeadForms, ServerStarts, HeadGivesUp,
     HeadLeaves, BecomeHealthy, Publish, StartWatchdog, SeesSentinel, OutOfLife, StopServer,
     ServerDies, HeadExits, HeadKilled
<1>6. CASE WorkerNext
  BY <1>1, <1>6 DEF WorkerNext, WorkerFindsHead, WorkerGivesUp, WorkerJoins,
     WorkerSeesSentinel, ProbeMisses
<1>7. QED
  BY <1>2, <1>3, <1>4, <1>5, <1>6 DEF Next

(* The judge takes nothing for the end of training but that end, or before *)
(* training the file of the attempt before; and training that has begun    *)
(* keeps a healthy judge, both of its nodes and its port.                  *)
THEOREM JudgeStaysForTrainingHolds == Spec => JudgeStaysForTraining
<1>1. IInv => TypeOK /\ JudgeOutlivesTraining
  BY DEF IInv, Safe
<1>2. QED
  BY <1>1, DoneStep, InductiveInvariant, PTL DEF Spec, JudgeStaysForTraining, DoneIsDone

-----------------------------------------------------------------------------
(***************************************************************************)
(* The reward worker.  Its strengthening says of each call that it keeps   *)
(* the deadline it was given and that only a judged one can have failed;   *)
(* of the counters, that every recorded failure is a fallback or is owed   *)
(* one by a call that has not returned; of the window, that it is the end  *)
(* of the history, and the latch what an outage in it says; and that an    *)
(* abort has its reason and a reason its abort.                            *)
(***************************************************************************)
\* The calls that wait for the judge, and those that owe a fallback.
AskingSlots == {s \in Slots : call[s].at \in Asking}
Owes(c) == c.at \in {"grading", "raised"} /\ c.failed
Owed == {s \in Slots : Owes(call[s])}

(* A call is in its own deadline, and only a judged one has failed.        *)
Sound(c) ==
    /\ c.at \in InCall => c.until = Deadline
    /\ c.at \in Asking => source = "judge" /\ ~c.failed
    /\ c.failed => source = "judge"

CallInv == \A s \in Slots : Sound(call[s])

(* Every failure was answered by the fallback or is about to be; and a call  *)
(* is recorded once.                                                       *)
CountInv ==
    /\ Fails(history) = fallbacks + Cardinality(Owed)
    /\ Len(history) + Cardinality(AskingSlots) <= calls

(* The window is the end of the history; the latch remembers an outage.     *)
WindowInv ==
    /\ window = LastFew(Len(history))
    /\ latched <=> Outage

(* No abort without a reason, and none missing where it can be written.     *)
AbortInv ==
    /\ abort => latched \/ source = "bad"
    /\ volume = "ok" /\ (latched \/ Misled) => abort

(* The types, without the bounds on what only counts.                       *)
FieldTypes ==
    /\ source \in {"judge", "rule", "bad"} /\ volume \in {"ok", "flaky"}
    /\ published \in BOOLEAN /\ cached \in {"none", "judge"}
    /\ calls \in 0..MaxCalls /\ call \in [Slots -> CallType]
    /\ window \in Seq(BOOLEAN)
    /\ latched \in BOOLEAN /\ abort \in BOOLEAN
    /\ history \in Seq(BOOLEAN)
    /\ fallbacks \in Nat

RewardInv == FieldTypes /\ CallInv /\ CountInv /\ WindowInv /\ AbortInv

-----------------------------------------------------------------------------
(* The failures of a finite sequence are at most its length.               *)
LEMMA FailsType ==
    ASSUME NEW w \in Seq(BOOLEAN)
    PROVE  /\ IsFiniteSet({i \in DOMAIN w : w[i]}) /\ Fails(w) \in Nat /\ Fails(w) <= Len(w)
<1>1. Len(w) \in Nat /\ DOMAIN w = 1..Len(w)
  BY LenProperties
<1>2. IsFiniteSet(1..Len(w)) /\ Cardinality(1..Len(w)) = Len(w)
  BY <1>1, FS_Interval
<1>3. {i \in DOMAIN w : w[i]} \in SUBSET (1..Len(w))
  BY <1>1
<1>4. QED
  BY <1>2, <1>3, FS_Subset, FS_CardinalityType DEF Fails

(* One more outcome is one more failure, or none.                          *)
LEMMA FailsAppend ==
    ASSUME NEW w \in Seq(BOOLEAN), NEW bad \in BOOLEAN
    PROVE  Fails(Append(w, bad)) = Fails(w) + (IF bad THEN 1 ELSE 0)
<1> DEFINE n == Len(w)
           old == {i \in DOMAIN w : w[i]}
           new == {i \in DOMAIN Append(w, bad) : Append(w, bad)[i]}
<1>1. n \in Nat /\ DOMAIN w = 1..n
  BY LenProperties
<1>2. Append(w, bad) \in Seq(BOOLEAN) /\ Len(Append(w, bad)) = n + 1
  OBVIOUS
<1>3. DOMAIN Append(w, bad) = 1..(n + 1)
  BY <1>2, LenProperties
<1>4. /\ \A i \in 1..n : Append(w, bad)[i] = w[i]
      /\ Append(w, bad)[n + 1] = bad
  BY <1>1
<1>5. IsFiniteSet(old) /\ Cardinality(old) \in Nat
  BY FailsType DEF Fails
<1>6. n + 1 \notin old
  BY <1>1
<1>7. CASE bad
  <2>1. new = old \cup {n + 1}
    BY <1>1, <1>3, <1>4, <1>7
  <2>2. QED
    BY <2>1, <1>5, <1>6, <1>7, FS_AddElement DEF Fails
<1>8. CASE ~bad
  <2>1. new = old
    BY <1>1, <1>3, <1>4, <1>8
  <2>2. Fails(Append(w, bad)) = Fails(w) /\ Fails(w) \in Nat
    BY <2>1, <1>5, Zenon DEF Fails
  <2>3. QED
    BY <2>2, <1>8
<1>9. QED
  BY <1>7, <1>8

(* A part of a sequence, element by element.                               *)
LEMMA Part ==
    ASSUME NEW h \in Seq(BOOLEAN), NEW m \in Nat \ {0}, NEW n \in 0..Len(h)
    PROVE  /\ SubSeq(h, m, n) \in Seq(BOOLEAN)
           /\ Len(SubSeq(h, m, n)) = IF m <= n THEN n - m + 1 ELSE 0
           /\ \A i \in 1..(n - m + 1) : SubSeq(h, m, n)[i] = h[m + i - 1]
<1>1. m \in Int /\ n \in Int /\ \A i \in m..n : h[i] \in BOOLEAN
  BY LenProperties
<1>2. /\ SubSeq(h, m, n) \in Seq(BOOLEAN)
      /\ Len(SubSeq(h, m, n)) = IF m <= n THEN n - m + 1 ELSE 0
      /\ \A i \in 1..(n - m + 1) : SubSeq(h, m, n)[i] = h[m + i - 1]
  BY <1>1, SubSeqProperties, SMT
<1>3. QED
  BY <1>2

(* What the window holds after one more call is the last of them all.      *)
Few(h, n) == SubSeq(h, IF n > Window THEN n - Window + 1 ELSE 1, n)

(* Sliding the window by one outcome gives the last outcomes of the longer *)
(* history; what earlier windows held is not disturbed.                    *)
LEMMA FewGrows ==
    ASSUME NEW h \in Seq(BOOLEAN), NEW bad \in BOOLEAN
    PROVE  /\ \A n \in 0..Len(h) : Few(Append(h, bad), n) = Few(h, n)
           /\ Slide(Few(h, Len(h)), bad) = Few(Append(h, bad), Len(h) + 1)
           /\ Len(Few(h, Len(h))) = IF Len(h) > Window THEN Window ELSE Len(h)
<1> DEFINE g == Append(h, bad)
           L == Len(h)
<1>1. L \in Nat /\ Window \in Nat \ {0} /\ g \in Seq(BOOLEAN) /\ Len(g) = L + 1
  BY LenProperties, RewardConstantsOK
<1>2. (\A i \in 1..L : g[i] = h[i] /\ h[i] \in BOOLEAN) /\ g[L + 1] = bad
  BY <1>1
<1>3. ASSUME NEW n \in 0..L PROVE Few(g, n) = Few(h, n)
  <2> DEFINE m == IF n > Window THEN n - Window + 1 ELSE 1
  <2>1. m \in Int /\ m >= 1 /\ n \in Int /\ n <= L
    BY <1>1
  <2>2. \A i \in m..n : g[i] \in BOOLEAN /\ h[i] \in BOOLEAN /\ g[i] = h[i]
    BY <2>1, <1>1, <1>2
  <2> HIDE DEF m
  <2>3. /\ SubSeq(g, m, n) \in Seq(BOOLEAN) /\ SubSeq(h, m, n) \in Seq(BOOLEAN)
        /\ Len(SubSeq(g, m, n)) = Len(SubSeq(h, m, n))
        /\ Len(SubSeq(g, m, n)) = IF m <= n THEN n - m + 1 ELSE 0
        /\ \A i \in 1..(n - m + 1) : SubSeq(g, m, n)[i] = g[m + i - 1] /\ SubSeq(h, m, n)[i] = h[m + i - 1]
    BY <2>1, <2>2, SubSeqProperties
  <2>4. \A i \in 1..Len(SubSeq(g, m, n)) : SubSeq(g, m, n)[i] = SubSeq(h, m, n)[i]
    BY <2>1, <2>2, <2>3
  <2>5. SubSeq(g, m, n) = SubSeq(h, m, n)
    BY <2>3, <2>4, SeqEqual, Zenon
  <2>6. QED
    BY <2>5 DEF Few, m
<1>4. Len(Few(h, L)) = IF L > Window THEN Window ELSE L
  <2> DEFINE m == IF L > Window THEN L - Window + 1 ELSE 1
  <2>0. Window \in Nat \ {0} /\ L \in Nat
    BY <1>1
  <2> HIDE DEF L
  <2>1. /\ m \in Nat \ {0} /\ L \in 0..L
        /\ (IF m <= L THEN L - m + 1 ELSE 0) = (IF L > Window THEN Window ELSE L)
    <3>1. CASE L > Window
      <4>1. m = L - Window + 1
        BY <3>1
      <4>2. QED
        BY <3>1, <4>1, <2>0
    <3>2. CASE ~(L > Window)
      <4>1. m = 1
        BY <3>2
      <4>2. QED
        BY <3>2, <4>1, <2>0
    <3>3. QED
      BY <3>1, <3>2
  <2> HIDE DEF m
  <2>2. Len(SubSeq(h, m, L)) = IF m <= L THEN L - m + 1 ELSE 0
    BY <2>1, Part DEF L
  <2>3. Few(h, L) = SubSeq(h, m, L)
    BY DEF Few, m
  <2>4. QED
    BY <2>1, <2>2, <2>3
<1>5. Slide(Few(h, L), bad) = Few(g, L + 1)
  <2>1. CASE L < Window
    <3>1. Few(h, L) = SubSeq(h, 1, L) /\ Few(g, L + 1) = SubSeq(g, 1, L + 1)
      <4>1. ~(L > Window) /\ ~(L + 1 > Window)
        BY <2>1, <1>1
      <4>2. QED
        BY <4>1 DEF Few
    <3>2. SubSeq(h, 1, L) = h /\ SubSeq(g, 1, Len(g)) = g
      BY <1>1, SubSeqFull
    <3>3. Few(h, L) = h /\ Few(g, L + 1) = g
      BY <3>1, <3>2, <1>1
    <3>4. Slide(h, bad) = g
      <4>1. ~(Len(g) > Window)
        BY <2>1, <1>1
      <4>2. QED
        BY <4>1 DEF Slide
    <3>5. QED
      BY <3>3, <3>4
  <2>2. CASE L >= Window
    <3> DEFINE m == L - Window + 1
               w == SubSeq(h, m, L)
               v == Append(w, bad)
               u == SubSeq(g, m + 1, L + 1)
    <3>1. m \in Nat \ {0} /\ m + 1 \in Nat \ {0} /\ m <= L
      BY <2>2, <1>1
    <3>2. w \in Seq(BOOLEAN) /\ Len(w) = Window /\ \A i \in 1..Window : w[i] = h[m + i - 1]
      BY <3>1, <1>1, Part
    <3>3. u \in Seq(BOOLEAN) /\ Len(u) = Window /\ \A i \in 1..Window : u[i] = g[m + i]
      BY <3>1, <1>1, Part
    <3>4. Few(g, L + 1) = u
      <4>1. L + 1 > Window /\ L + 1 - Window + 1 = m + 1
        BY <2>2, <1>1
      <4>2. QED
        BY <4>1, <1>1 DEF Few
    <3>5. Few(h, L) = w
      <4>1. CASE L > Window
        BY <4>1 DEF Few
      <4>2. CASE L = Window
        BY <4>2, <1>1 DEF Few
      <4>3. QED
        BY <4>1, <4>2, <2>2, <1>1
    <3> HIDE DEF w, u, m
    <3>6. v \in Seq(BOOLEAN) /\ Len(v) = Window + 1 /\ (\A i \in 1..Window : v[i] = w[i]) /\ v[Window + 1] = bad
      BY <3>2, <1>1
    <3> HIDE DEF v
    <3>7. Tail(v) \in Seq(BOOLEAN) /\ Len(Tail(v)) = Window /\ \A i \in 1..Window : Tail(v)[i] = v[i + 1]
      BY <3>6, <1>1, HeadTailProperties
    <3>8. \A i \in 1..Window : Tail(v)[i] = u[i]
      <4> SUFFICES ASSUME NEW i \in 1..Window PROVE Tail(v)[i] = u[i]
        OBVIOUS
      <4>1. Tail(v)[i] = v[i + 1] /\ u[i] = g[m + i]
        BY <3>7, <3>3
      <4>2. CASE i = Window
        <5>1. m + i = L + 1 /\ v[i + 1] = bad
          BY <4>2, <3>6, <1>1 DEF m
        <5>2. QED
          BY <5>1, <4>1, <1>2
      <4>3. CASE i < Window
        <5>1. i + 1 \in 1..Window /\ m + i \in 1..L /\ m + (i + 1) - 1 = m + i
          BY <4>3, <3>1, <1>1, <2>2 DEF m
        <5>2. v[i + 1] = w[i + 1] /\ w[i + 1] = h[m + (i + 1) - 1] /\ g[m + i] = h[m + i]
          BY <5>1, <3>6, <3>2, <1>2
        <5>3. QED
          BY <5>1, <5>2, <4>1
      <4>4. i = Window \/ i < Window
        BY <1>1
      <4>5. QED
        BY <4>2, <4>3, <4>4, Zenon
    <3>9. Tail(v) = u
      BY <3>3, <3>7, <3>8, SeqEqual
    <3>10. Slide(w, bad) = Tail(v)
      <4>1. Len(v) > Window
        BY <3>6, <1>1
      <4>2. QED
        BY <4>1 DEF Slide, v
    <3>11. QED
      BY <3>4, <3>5, <3>9, <3>10
  <2>3. QED
    BY <2>1, <2>2, <1>1
<1>6. QED
  BY <1>3, <1>4, <1>5

-----------------------------------------------------------------------------
Counted(S) == IsFiniteSet(S) /\ Cardinality(S) \in Nat

(* One call changes: the two sets that are counted change by that call.     *)
LEMMA Bookkeeping ==
    ASSUME call \in [Slots -> CallType], NEW s \in Slots, NEW c \in CallType, Becomes(s, c)
    PROVE  /\ call' \in [Slots -> CallType]
           /\ \A t \in Slots : call'[t] = IF t = s THEN c ELSE call[t]
           /\ Cardinality(AskingSlots) \in Nat /\ Cardinality(Owed) \in Nat
           /\ Cardinality(AskingSlots') = Cardinality(AskingSlots)
                 + (IF c.at \in Asking THEN 1 ELSE 0) - (IF call[s].at \in Asking THEN 1 ELSE 0)
           /\ Cardinality(Owed') = Cardinality(Owed) + (IF Owes(c) THEN 1 ELSE 0) - (IF Owes(call[s]) THEN 1 ELSE 0)
<1>1. call' \in [Slots -> CallType] /\ \A t \in Slots : call'[t] = IF t = s THEN c ELSE call[t]
  BY DEF Becomes
<1>2. IsFiniteSet(Slots) /\ AskingSlots \in SUBSET Slots /\ Owed \in SUBSET Slots
  BY RewardConstantsOK DEF AskingSlots, Owed
<1>3. Counted(AskingSlots) /\ Counted(Owed)
  BY <1>2, FS_Subset, FS_CardinalityType DEF Counted
<1>4. AskingSlots' = IF c.at \in Asking THEN AskingSlots \cup {s} ELSE AskingSlots \ {s}
  BY <1>1 DEF AskingSlots
<1>5. Owed' = IF Owes(c) THEN Owed \cup {s} ELSE Owed \ {s}
  BY <1>1 DEF Owed, Owes
<1>6. (s \in AskingSlots <=> call[s].at \in Asking) /\ (s \in Owed <=> Owes(call[s]))
  BY DEF AskingSlots, Owed
<1>7. ASSUME NEW S, Counted(S)
      PROVE  /\ Cardinality(S \cup {s}) = Cardinality(S) + 1 - (IF s \in S THEN 1 ELSE 0)
             /\ Cardinality(S \ {s}) = Cardinality(S) - (IF s \in S THEN 1 ELSE 0)
  <2>1. IsFiniteSet(S) /\ Cardinality(S) \in Nat
    BY <1>7 DEF Counted
  <2>2. /\ Cardinality(S \cup {s}) = IF s \in S THEN Cardinality(S) ELSE Cardinality(S) + 1
        /\ Cardinality(S \ {s}) = IF s \in S THEN Cardinality(S) - 1 ELSE Cardinality(S)
    BY <2>1, FS_AddElement, FS_RemoveElement, Zenon
  <2>3. QED
    BY <2>1, <2>2
<1>8. /\ Cardinality(AskingSlots \cup {s}) = Cardinality(AskingSlots) + 1 - (IF s \in AskingSlots THEN 1 ELSE 0)
      /\ Cardinality(AskingSlots \ {s}) = Cardinality(AskingSlots) - (IF s \in AskingSlots THEN 1 ELSE 0)
      /\ Cardinality(Owed \cup {s}) = Cardinality(Owed) + 1 - (IF s \in Owed THEN 1 ELSE 0)
      /\ Cardinality(Owed \ {s}) = Cardinality(Owed) - (IF s \in Owed THEN 1 ELSE 0)
  BY <1>3, <1>7
<1>9. Cardinality(AskingSlots) \in Nat /\ Cardinality(Owed) \in Nat
  BY <1>3 DEF Counted
<1>10. Cardinality(AskingSlots') = Cardinality(AskingSlots)
          + (IF c.at \in Asking THEN 1 ELSE 0) - (IF call[s].at \in Asking THEN 1 ELSE 0)
  <2>1. CASE c.at \in Asking
    BY <2>1, <1>4, <1>6, <1>8, <1>9
  <2>2. CASE c.at \notin Asking
    BY <2>2, <1>4, <1>6, <1>8, <1>9
  <2>3. QED
    BY <2>1, <2>2
<1>11. Cardinality(Owed') = Cardinality(Owed) + (IF Owes(c) THEN 1 ELSE 0) - (IF Owes(call[s]) THEN 1 ELSE 0)
  <2>1. CASE Owes(c)
    BY <2>1, <1>5, <1>6, <1>8, <1>9
  <2>2. CASE ~Owes(c)
    BY <2>2, <1>5, <1>6, <1>8, <1>9
  <2>3. QED
    BY <2>1, <2>2
<1>12. QED
  BY <1>1, <1>9, <1>10, <1>11

(* Any change of one call that ends none and records nothing.              *)
LEMMA CallChanges ==
    ASSUME RewardInv, NEW s \in Slots, NEW c \in CallType, Becomes(s, c), Sound(c), Owes(c) <=> Owes(call[s]),
           UNCHANGED <<runVars, window, latched, history, fallbacks>>,
           published' \in BOOLEAN, cached' \in {"none", "judge"}, abort' \in BOOLEAN,
           calls' \in 0..MaxCalls, calls' >= calls,
           c.at \in Asking /\ call[s].at \notin Asking => calls' = calls + 1,
           abort' => abort \/ source = "bad", abort => abort',
           volume = "ok" /\ source = "bad" => abort' \/ (c.at # "idle" => call[s].at # "idle")
    PROVE  RewardInv'
<1> USE DEF runVars
<1>1. FieldTypes /\ CallInv /\ CountInv /\ WindowInv /\ AbortInv
  BY DEF RewardInv
<1>2. call \in [Slots -> CallType]
  BY <1>1 DEF FieldTypes
<1>3. /\ call' \in [Slots -> CallType]
      /\ \A t \in Slots : call'[t] = IF t = s THEN c ELSE call[t]
      /\ Cardinality(AskingSlots) \in Nat
      /\ Cardinality(AskingSlots') = Cardinality(AskingSlots)
            + (IF c.at \in Asking THEN 1 ELSE 0) - (IF call[s].at \in Asking THEN 1 ELSE 0)
      /\ Cardinality(Owed') = Cardinality(Owed)
  BY <1>2, Bookkeeping
<1>4. FieldTypes'
  BY <1>1, <1>3 DEF FieldTypes
<1>5. CallInv'
  BY <1>1, <1>3 DEF CallInv, Sound
<1>6. CountInv'
  <2>1. Len(history) \in Nat /\ calls \in Nat /\ calls' \in Nat /\ history' = history
    BY <1>1, RewardConstantsOK, LenProperties DEF FieldTypes
  <2>2. Fails(history') = Fails(history) /\ fallbacks' = fallbacks
    BY DEF Fails
  <2>3. QED
    BY <2>1, <2>2, <1>1, <1>3 DEF CountInv
<1>7. WindowInv'
  BY <1>1 DEF WindowInv, Outage, LastFew, OverRate, Fails
<1>8. AbortInv'
  BY <1>1, <1>2, <1>3 DEF AbortInv, Misled, FieldTypes
<1>9. QED
  BY <1>4, <1>5, <1>6, <1>7, <1>8 DEF RewardInv

(* The bounds of a call's fields are numbers.                              *)
LEMMA Bounds == /\ Longest \in Nat /\ Timeout \in 0..Longest
                /\ Retries \in Nat /\ Deadline \in Nat \ {0}
<1>1. Backoff \in Nat /\ Retries \in Nat /\ Timeout \in Nat /\ Deadline \in Nat \ {0}
  BY RewardConstantsOK
<1>2. Backoff * Retries \in Nat
  BY <1>1
<1>3. QED
  BY <1>1, <1>2 DEF Longest

(* A call with one field changed is still a call.                          *)
LEMMA FieldChanges ==
    ASSUME NEW c \in CallType
    PROVE  /\ \A x \in Places : [c EXCEPT !.at = x] \in CallType
           /\ \A x \in Urls : [c EXCEPT !.url = x] \in CallType
           /\ \A x \in 0..Retries : [c EXCEPT !.tries = x] \in CallType
           /\ \A x \in 0..Longest : [c EXCEPT !.wait = x] \in CallType
           /\ \A x \in 0..Deadline : [c EXCEPT !.age = x] \in CallType
           /\ \A x \in {0, Deadline} : [c EXCEPT !.until = x] \in CallType
           /\ \A x \in BOOLEAN : [c EXCEPT !.failed = x] \in CallType
           /\ \A x \in {"none", "running", "done"} : [c EXCEPT !.rule = x] \in CallType
BY DEF CallType

(* No call is one too.                                                     *)
LEMMA IdleType == Idle \in CallType
BY Bounds DEF Idle, CallType, Places, Urls

(* The last outcomes of a history are outcomes.                             *)
LEMMA FewType ==
    ASSUME NEW h \in Seq(BOOLEAN)
    PROVE  Few(h, Len(h)) \in Seq(BOOLEAN)
<1>1. Len(h) \in Nat /\ Window \in Nat \ {0}
  BY LenProperties, RewardConstantsOK
<1>2. (IF Len(h) > Window THEN Len(h) - Window + 1 ELSE 1) \in Nat \ {0}
  BY <1>1
<1>3. QED
  BY <1>1, <1>2, Part DEF Few

(* One more outcome: whatever the window makes of it, and even when the     *)
(* abort cannot be written.                                                *)
LEMMA RecordsStep ==
    ASSUME RewardInv, NEW s \in Slots, NEW bad \in BOOLEAN, call[s].at \in Asking, Records(s, bad)
    PROVE  RewardInv'
<1> DEFINE L == Len(history)
<1>1. FieldTypes /\ CallInv /\ CountInv /\ WindowInv /\ AbortInv
  BY DEF RewardInv
<1>2. /\ call \in [Slots -> CallType] /\ call[s] \in CallType /\ history \in Seq(BOOLEAN)
      /\ L \in Nat /\ calls \in Nat /\ fallbacks \in Nat
  BY <1>1, RewardConstantsOK, LenProperties DEF FieldTypes
<1>3. source = "judge" /\ call[s].until = Deadline
  BY <1>1 DEF CallInv, Sound, InCall
<1>4. /\ history' = Append(history, bad) /\ window' = Slide(window, bad)
      /\ UNCHANGED <<source, volume, calls, published, fallbacks>>
      /\ cached' \in {"none", "judge"}
  BY <1>1 DEF Records, runVars, Remembers, Url, FieldTypes
<1>5. history' \in Seq(BOOLEAN) /\ Len(history') = L + 1
  BY <1>2, <1>4
<1>6. /\ latched' = (latched \/ Overspent(window'))
      /\ latched' \in BOOLEAN
      /\ ~latched' \/ latched => abort' = abort
  BY <1>1 DEF Records, FieldTypes
<1>7. /\ Graded(call[s], bad) \in CallType
      /\ Graded(call[s], bad).at = "grading" /\ Graded(call[s], bad).failed = bad
      /\ Graded(call[s], bad).until = Deadline
  <2> DEFINE c1 == [call[s] EXCEPT !.at = "grading"]
             c2 == [c1 EXCEPT !.url = "none"]
             c3 == [c2 EXCEPT !.tries = 0]
             c4 == [c3 EXCEPT !.wait = 0]
             c5 == [c4 EXCEPT !.until = Deadline]
             c6 == [c5 EXCEPT !.failed = bad]
  <2>1. Graded(call[s], bad) = c6
    BY <1>3 DEF Graded, RuleUntil
  <2>2. "grading" \in Places /\ "none" \in Urls /\ 0 \in 0..Retries /\ 0 \in 0..Longest
    BY Bounds DEF Places, InCall, Urls
  <2>3. c6.at = "grading" /\ c6.failed = bad /\ c6.until = Deadline
    BY <1>2 DEF CallType
  <2> HIDE DEF c1, c2, c3, c4, c5, c6
  <2>4. c1 \in CallType
    BY <2>2, <1>2, FieldChanges DEF c1
  <2>5. c2 \in CallType
    BY <2>2, <2>4, FieldChanges DEF c2
  <2>6. c3 \in CallType
    BY <2>2, <2>5, FieldChanges DEF c3
  <2>7. c4 \in CallType
    BY <2>2, <2>6, FieldChanges DEF c4
  <2>8. c5 \in CallType
    BY <2>7, FieldChanges DEF c5
  <2>9. c6 \in CallType
    BY <2>8, FieldChanges DEF c6
  <2>10. QED
    BY <2>1, <2>3, <2>9
<1> DEFINE raised == [[Idle EXCEPT !.at = "raised"] EXCEPT !.failed = Graded(call[s], bad).failed]
<1>8. /\ raised \in CallType /\ raised.at = "raised" /\ raised.failed = bad
      /\ raised = [Idle EXCEPT !.at = "raised", !.failed = Graded(call[s], bad).failed]
  <2>1. raised.at = "raised" /\ raised.failed = bad
    BY <1>7 DEF Idle
  <2>2. "raised" \in Places
    BY DEF Places
  <2>3. [Idle EXCEPT !.at = "raised"] \in CallType
    BY <2>2, IdleType, FieldChanges
  <2>4. raised \in CallType
    BY <2>3, <1>7, FieldChanges
  <2>5. QED
    BY <2>1, <2>4
<1> HIDE DEF raised
<1>9. PICK c \in CallType : /\ Becomes(s, c) /\ c.at \in {"grading", "raised"} /\ c.failed = bad
                            /\ c.at = "grading" => c.until = Deadline
  BY <1>7, <1>8, Zenon DEF Records, RequestsAbort
<1>10. /\ call' \in [Slots -> CallType]
       /\ \A t \in Slots : call'[t] = IF t = s THEN c ELSE call[t]
       /\ Cardinality(AskingSlots) \in Nat /\ Cardinality(Owed) \in Nat
       /\ Cardinality(AskingSlots') = Cardinality(AskingSlots) - 1
       /\ Cardinality(Owed') = Cardinality(Owed) + (IF bad THEN 1 ELSE 0)
  <2>1. c.at \notin Asking /\ (Owes(c) <=> bad) /\ ~Owes(call[s])
    BY <1>9 DEF Asking, Owes
  <2>2. /\ call' \in [Slots -> CallType]
        /\ \A t \in Slots : call'[t] = IF t = s THEN c ELSE call[t]
        /\ Cardinality(AskingSlots) \in Nat /\ Cardinality(Owed) \in Nat
        /\ Cardinality(AskingSlots') = Cardinality(AskingSlots)
              + (IF c.at \in Asking THEN 1 ELSE 0) - (IF call[s].at \in Asking THEN 1 ELSE 0)
        /\ Cardinality(Owed') = Cardinality(Owed) + (IF Owes(c) THEN 1 ELSE 0) - (IF Owes(call[s]) THEN 1 ELSE 0)
    BY <1>2, <1>9, Bookkeeping, Zenon
  <2>3. QED
    BY <2>1, <2>2
<1>11. abort' \in BOOLEAN
  BY <1>1, <1>4 DEF Records, RequestsAbort, FieldTypes
<1>12. window \in Seq(BOOLEAN) /\ window = Few(history, L)
  BY <1>1 DEF FieldTypes, WindowInv, LastFew, Few
<1>13. /\ window' = Few(history', L + 1)
       /\ \A n \in 0..L : Few(history', n) = Few(history, n)
  BY <1>2, <1>4, <1>12, FewGrows
<1>14. Len(window') = IF L + 1 > Window THEN Window ELSE L + 1
  BY <1>5, <1>13, FewGrows
<1>15. window' \in Seq(BOOLEAN)
  BY <1>5, <1>13, FewType
<1>16. FieldTypes'
  BY <1>1, <1>4, <1>5, <1>6, <1>10, <1>11, <1>15 DEF FieldTypes
<1>17. CallInv'
  BY <1>1, <1>3, <1>4, <1>9, <1>10 DEF CallInv, Sound, Asking, InCall
<1>18. CountInv'
  <2>1. Fails(history') = Fails(history) + (IF bad THEN 1 ELSE 0)
    BY <1>2, <1>4, FailsAppend
  <2>2. QED
    BY <2>1, <1>1, <1>2, <1>4, <1>5, <1>10 DEF CountInv
<1>19. WindowInv'
  <2>1. Outage <=> \E n \in MinCalls..L : OverRate(Few(history, n))
    BY DEF Outage, LastFew, Few
  <2>2. Outage' <=> \E n \in MinCalls..(L + 1) : OverRate(Few(history', n))
    BY <1>5 DEF Outage, LastFew, Few, OverRate, Fails
  <2>3. \A n \in MinCalls..L : Few(history', n) = Few(history, n)
    BY <1>2, <1>13, RewardConstantsOK
  <2>4. Overspent(window') <=> L + 1 >= MinCalls /\ OverRate(Few(history', L + 1))
    BY <1>2, <1>13, <1>14, RewardConstantsOK DEF Overspent
  <2>5. \A n : n \in MinCalls..(L + 1) <=> n \in MinCalls..L \/ (n = L + 1 /\ L + 1 >= MinCalls)
    BY <1>2, RewardConstantsOK
  <2>6. Outage' <=> Outage \/ Overspent(window')
    BY <2>1, <2>2, <2>3, <2>4, <2>5, Zenon
  <2>7. latched' <=> Outage'
    BY <2>6, <1>1, <1>6 DEF WindowInv
  <2>8. window' = LastFew(Len(history))'
    BY <1>5, <1>13 DEF LastFew, Few
  <2>9. QED
    BY <2>7, <2>8 DEF WindowInv
<1>20. AbortInv'
  <2>1. source' = "judge" /\ ~Misled'
    BY <1>3, <1>4 DEF Misled
  <2>2. abort' => latched'
    BY <1>1, <1>3, <1>6 DEF AbortInv, Records, RequestsAbort
  <2>3. volume = "ok" /\ latched' => abort'
    BY <1>1, <1>3, <1>6 DEF AbortInv, Records, RequestsAbort
  <2>4. QED
    BY <2>1, <2>2, <2>3, <1>4 DEF AbortInv
<1>21. QED
  BY <1>16, <1>17, <1>18, <1>19, <1>20 DEF RewardInv

(* A back-off never waits longer than the type of a wait says.             *)
LEMMA BackoffFits ==
    ASSUME NEW n \in 0..Retries, n # Retries
    PROVE  Backoff * (n + 1) \in 0..Longest
<1>1. {Backoff, Timeout, Retries} \subseteq Nat /\ n \in Nat
  BY RewardConstantsOK
<1>2. PICK d \in Nat : Retries = (n + 1) + d
  <2>1. Retries - (n + 1) \in Nat /\ Retries = (n + 1) + (Retries - (n + 1))
    BY <1>1
  <2>2. QED
    BY <2>1
<1>3. Backoff * Retries = Backoff * (n + 1) + Backoff * d
  BY <1>1, <1>2
<1>4. Backoff * d \in Nat /\ Backoff * (n + 1) \in Nat
  BY <1>1
<1>5. QED
  BY <1>1, <1>3, <1>4 DEF Longest

(* A tick: no call that is due lets it pass, so no age exceeds its bound.   *)
LEMMA TickStep == ASSUME RewardInv, Tick PROVE RewardInv'
<1>1. FieldTypes /\ CallInv /\ CountInv /\ WindowInv /\ AbortInv
  BY DEF RewardInv
<1>2. call \in [Slots -> CallType]
  BY <1>1 DEF FieldTypes
<1>3. UNCHANGED <<source, volume, published, cached, calls, window, latched, abort, history, fallbacks>>
  BY DEF Tick, runVars, urlVars, budgetVars
<1>4. ASSUME NEW t \in Slots
      PROVE  /\ call'[t] \in CallType
             /\ call'[t].at = call[t].at /\ call'[t].until = call[t].until /\ call'[t].failed = call[t].failed
  <2>1. call[t] \in CallType
    BY <1>2
  <2>2. CASE call[t].at \in InCall
    <3>1. call[t].until = Deadline
      BY <1>1, <2>2 DEF CallInv, Sound
    <3>2. ~(call[t].age >= Deadline)
      BY <2>2, <3>1 DEF Tick, Due
    <3>3. call'[t] = [call[t] EXCEPT !.age = @ + 1, !.wait = IF @ = 0 THEN 0 ELSE @ - 1]
      BY <2>2, <1>2 DEF Tick
    <3> DEFINE w == IF call[t].wait = 0 THEN 0 ELSE call[t].wait - 1
               c1 == [call[t] EXCEPT !.age = call[t].age + 1]
    <3>4. call[t].age \in 0..Deadline /\ call[t].wait \in 0..Longest
      BY <2>1 DEF CallType
    <3>5. call[t].age + 1 \in 0..Deadline /\ w \in 0..Longest
      BY <3>2, <3>4, Bounds
    <3>6. /\ call'[t] = [c1 EXCEPT !.wait = w]
          /\ call'[t].at = call[t].at /\ call'[t].until = call[t].until /\ call'[t].failed = call[t].failed
      BY <2>1, <3>3 DEF CallType
    <3> HIDE DEF w, c1
    <3>7. c1 \in CallType
      BY <2>1, <3>5, FieldChanges DEF c1
    <3>8. call'[t] \in CallType
      BY <3>5, <3>6, <3>7, FieldChanges
    <3>9. QED
      BY <3>6, <3>8
  <2>3. CASE call[t].at \notin InCall
    <3>1. call'[t] = call[t]
      BY <2>3, <1>2 DEF Tick
    <3>2. QED
      BY <3>1, <2>1
  <2>4. QED
    BY <2>2, <2>3
<1>5. call' \in [Slots -> CallType]
  <2>1. call' = [t \in Slots |-> call'[t]]
    BY <1>2 DEF Tick
  <2>2. QED
    BY <2>1, <1>4, Zenon
<1>6. AskingSlots' = AskingSlots /\ Owed' = Owed
  BY <1>4 DEF AskingSlots, Owed, Owes
<1>7. FieldTypes'
  BY <1>1, <1>3, <1>5 DEF FieldTypes
<1>8. CallInv'
  BY <1>1, <1>3, <1>4 DEF CallInv, Sound
<1>9. CountInv'
  BY <1>1, <1>3, <1>6 DEF CountInv, Fails
<1>10. WindowInv'
  BY <1>1, <1>3 DEF WindowInv, Outage, LastFew, OverRate, Fails
<1>11. AbortInv'
  BY <1>1, <1>3, <1>4 DEF AbortInv, Misled
<1>12. QED
  BY <1>7, <1>8, <1>9, <1>10, <1>11 DEF RewardInv

(* What compute_score starts with, and what every request sends.           *)
LEMMA BegunType ==
    /\ Begun \in CallType /\ [Begun EXCEPT !.at = "grading"] \in CallType
    /\ Begun.at = "idle" /\ Begun.until = Deadline /\ ~Begun.failed
    /\ [Begun EXCEPT !.at = "grading"].at = "grading" /\ [Begun EXCEPT !.at = "grading"].until = Deadline
    /\ ~[Begun EXCEPT !.at = "grading"].failed
<1> DEFINE c1 == [Idle EXCEPT !.until = Deadline]
           c2 == [c1 EXCEPT !.rule = "running"]
<1>1. /\ Begun = c2 /\ c2.at = "idle" /\ c2.until = Deadline /\ ~c2.failed
      /\ [c2 EXCEPT !.at = "grading"].at = "grading" /\ [c2 EXCEPT !.at = "grading"].until = Deadline
      /\ ~[c2 EXCEPT !.at = "grading"].failed
  BY DEF Begun, Idle
<1>2. c1 \in CallType
  BY IdleType, FieldChanges
<1> HIDE DEF c1
<1>3. c2 \in CallType
  BY <1>2, FieldChanges
<1> HIDE DEF c2
<1>4. [c2 EXCEPT !.at = "grading"] \in CallType
  BY <1>3, FieldChanges DEF Places, InCall
<1>5. QED
  BY <1>1, <1>3, <1>4

(* A request is a call that asks.                                          *)
LEMMA SentType ==
    ASSUME NEW c \in CallType, cached \in {"none", "judge"}
    PROVE  /\ Sent(c) \in CallType
           /\ Sent(c).at = "asking" /\ Sent(c).until = c.until /\ Sent(c).failed = c.failed
<1> DEFINE c1 == [c EXCEPT !.at = "asking"]
           c2 == [c1 EXCEPT !.url = Url]
           c3 == [c2 EXCEPT !.wait = Timeout]
<1>1. Sent(c) = c3
  BY DEF Sent
<1>2. c3.at = "asking" /\ c3.until = c.until /\ c3.failed = c.failed
  BY DEF CallType
<1>3. Url \in Urls /\ "asking" \in Places
  BY DEF Url, Urls, Places, InCall, Asking
<1>4. c1 \in CallType
  BY <1>3, FieldChanges
<1> HIDE DEF c1
<1>5. c2 \in CallType
  BY <1>3, <1>4, FieldChanges
<1> HIDE DEF c2
<1>6. c3 \in CallType
  BY <1>5, Bounds, FieldChanges
<1> HIDE DEF c3
<1>7. QED
  BY <1>1, <1>2, <1>6

(* A call begins: with the judge, with the rule, or with an abort.         *)
LEMMA BeginStep ==
    ASSUME RewardInv, NEW s \in Slots, AskJudge(s) \/ RuleOnly(s) \/ Misconfigured(s)
    PROVE  RewardInv'
<1>1. /\ call \in [Slots -> CallType] /\ call[s] \in CallType /\ cached \in {"none", "judge"}
      /\ published \in BOOLEAN /\ abort \in BOOLEAN /\ calls \in 0..MaxCalls
      /\ MaxCalls \in Nat /\ CallInv
  BY RewardConstantsOK DEF RewardInv, FieldTypes
<1>2. call[s].at = "idle" /\ calls' = calls + 1 /\ calls' \in 0..MaxCalls
  BY <1>1 DEF AskJudge, RuleOnly, Misconfigured, Another
<1> DEFINE g == [Begun EXCEPT !.at = "grading"]
<1>3. g \in CallType /\ g.at = "grading" /\ g.until = Deadline /\ ~g.failed
  BY BegunType
<1> HIDE DEF g
<1>4. ASSUME Owes(call[s]) PROVE FALSE
  BY <1>2, <1>4 DEF Owes
<1>5. CASE AskJudge(s)
  <2>1. /\ Sent(Begun) \in CallType /\ Sent(Begun).at = "asking" /\ Sent(Begun).until = Deadline
        /\ ~Sent(Begun).failed
    BY <1>1, BegunType, SentType
  <2>2. Sound(Sent(Begun)) /\ ~Owes(Sent(Begun))
    BY <2>1, <1>5 DEF AskJudge, Sound, Owes, Asking, InCall
  <2>3. cached' \in {"none", "judge"}
    BY <1>1, <1>5 DEF AskJudge, Remembers, Url
  <2>4. /\ UNCHANGED <<runVars, window, latched, history, fallbacks, published, abort>>
        /\ Becomes(s, Sent(Begun)) /\ source = "judge"
    BY <1>5 DEF AskJudge, budgetVars
  <2>5. QED
    BY <1>1, <1>2, <1>4, <2>1, <2>2, <2>3, <2>4, CallChanges
<1>6. CASE RuleOnly(s)
  <2>1. Sound(g) /\ ~Owes(g) /\ g.at \notin Asking
    BY <1>3 DEF Sound, Owes, Asking, InCall
  <2>2. /\ UNCHANGED <<runVars, window, latched, history, fallbacks, published, cached, abort>>
        /\ Becomes(s, g) /\ source = "rule"
    BY <1>6 DEF RuleOnly, urlVars, budgetVars, g
  <2>3. QED
    BY <1>1, <1>2, <1>3, <1>4, <2>1, <2>2, CallChanges
<1>7. CASE Misconfigured(s)
  <2>1. Sound(g) /\ ~Owes(g) /\ g.at \notin Asking
    BY <1>3 DEF Sound, Owes, Asking, InCall
  <2>2. /\ UNCHANGED <<runVars, window, latched, history, fallbacks, published, cached>>
        /\ RequestsAbort(s, g) /\ source = "bad"
    BY <1>7 DEF Misconfigured, urlVars, g
  <2>3. CASE abort' = TRUE /\ Becomes(s, g)
    BY <1>1, <1>2, <1>3, <1>4, <2>1, <2>2, <2>3, CallChanges
  <2>4. CASE volume = "flaky" /\ ~abort /\ abort' = FALSE
             /\ Becomes(s, [Idle EXCEPT !.at = "raised", !.failed = g.failed])
    <3> DEFINE r == [[Idle EXCEPT !.at = "raised"] EXCEPT !.failed = g.failed]
    <3>1. r = [Idle EXCEPT !.at = "raised", !.failed = g.failed] /\ r.at = "raised" /\ ~r.failed
      BY <1>3 DEF Idle
    <3>2. r \in CallType
      <4>1. [Idle EXCEPT !.at = "raised"] \in CallType
        BY IdleType, FieldChanges DEF Places
      <4>2. g.failed \in BOOLEAN
        BY <1>3 DEF CallType
      <4>3. QED
        BY <4>1, <4>2, FieldChanges
    <3> HIDE DEF r
    <3>3. Sound(r) /\ ~Owes(r) /\ r.at \notin Asking
      BY <3>1 DEF Sound, Owes, Asking, InCall
    <3>4. Becomes(s, r)
      BY <3>1, <2>4
    <3>5. /\ abort' \in BOOLEAN /\ published' \in BOOLEAN /\ cached' \in {"none", "judge"}
          /\ ~abort' /\ ~abort /\ volume # "ok"
      BY <1>1, <2>2, <2>4
    <3>6. calls' \in 0..MaxCalls /\ calls' >= calls /\ (Owes(r) <=> Owes(call[s]))
      BY <1>1, <1>2, <1>4, <3>3
    <3>7. QED
      BY <2>2, <3>2, <3>3, <3>4, <3>5, <3>6, CallChanges
  <2>5. QED
    BY <2>2, <2>3, <2>4 DEF RequestsAbort
<1>8. QED
  BY <1>5, <1>6, <1>7

(* An attempt that fails, the next one, and the end of the rule's thread.   *)
LEMMA RetryStep ==
    ASSUME RewardInv, NEW s \in Slots, AttemptFails(s) \/ AsksAgain(s) \/ RuleEnds(s)
    PROVE  RewardInv'
<1>1. /\ call \in [Slots -> CallType] /\ call[s] \in CallType /\ cached \in {"none", "judge"}
      /\ published \in BOOLEAN /\ abort \in BOOLEAN /\ calls \in 0..MaxCalls
      /\ MaxCalls \in Nat /\ Sound(call[s])
      /\ abort => latched \/ source = "bad"
  BY RewardConstantsOK DEF RewardInv, FieldTypes, CallInv, AbortInv
<1>2. CASE AttemptFails(s) /\ call[s].tries = Retries
  <2>1. call[s].at \in Asking /\ Records(s, TRUE)
    BY <1>2 DEF AttemptFails, Asking
  <2>2. QED
    BY <2>1, RecordsStep
<1>3. CASE AttemptFails(s) /\ call[s].tries # Retries
  <2> DEFINE c1 == [call[s] EXCEPT !.at = "backoff"]
             c2 == [c1 EXCEPT !.url = "none"]
             c3 == [c2 EXCEPT !.tries = call[s].tries + 1]
             c4 == [c3 EXCEPT !.wait = Backoff * (call[s].tries + 1)]
  <2>1. /\ call[s].at = "asking" /\ Becomes(s, c4)
        /\ UNCHANGED <<runVars, calls, urlVars, budgetVars, fallbacks>>
    BY <1>1, <1>3 DEF AttemptFails, CallType
  <2>2. c4.at = "backoff" /\ c4.until = call[s].until /\ c4.failed = call[s].failed
    BY <1>1 DEF CallType
  <2>3. call[s].tries \in 0..Retries
    BY <1>1 DEF CallType
  <2>4. call[s].tries + 1 \in 0..Retries /\ Backoff * (call[s].tries + 1) \in 0..Longest
    BY <2>3, <1>3, BackoffFits, Bounds
  <2>5. "backoff" \in Places /\ "none" \in Urls
    BY DEF Places, InCall, Asking, Urls
  <2> HIDE DEF c1, c2, c3, c4
  <2>6. c1 \in CallType
    BY <1>1, <2>5, FieldChanges DEF c1
  <2>7. c2 \in CallType
    BY <2>5, <2>6, FieldChanges DEF c2
  <2>8. c3 \in CallType
    BY <2>4, <2>7, FieldChanges DEF c3
  <2>9. c4 \in CallType
    BY <2>4, <2>8, FieldChanges DEF c4
  <2>10. Sound(c4) /\ ~Owes(c4) /\ ~Owes(call[s]) /\ call[s].at \in Asking
    BY <1>1, <2>1, <2>2 DEF Sound, Owes, Asking, InCall
  <2>11. QED
    BY <1>1, <2>1, <2>2, <2>9, <2>10, CallChanges DEF urlVars, budgetVars
<1>4. CASE AsksAgain(s)
  <2>1. /\ Sent(call[s]) \in CallType /\ Sent(call[s]).at = "asking"
        /\ Sent(call[s]).until = call[s].until /\ Sent(call[s]).failed = call[s].failed
    BY <1>1, SentType
  <2>2. call[s].at = "backoff" /\ Becomes(s, Sent(call[s])) /\ cached' \in {"none", "judge"}
    BY <1>1, <1>4 DEF AsksAgain, Remembers, Url
  <2>3. Sound(Sent(call[s])) /\ ~Owes(Sent(call[s])) /\ ~Owes(call[s]) /\ call[s].at \in Asking
    BY <1>1, <2>1, <2>2 DEF Sound, Owes, Asking, InCall
  <2>4. UNCHANGED <<runVars, window, latched, history, fallbacks, published, abort, calls>>
    BY <1>4 DEF AsksAgain, budgetVars
  <2>5. QED
    BY <1>1, <2>1, <2>2, <2>3, <2>4, CallChanges
<1>5. CASE RuleEnds(s)
  <2> DEFINE c == [call[s] EXCEPT !.rule = "done"]
  <2>1. c.at = call[s].at /\ c.until = call[s].until /\ c.failed = call[s].failed
    BY <1>1 DEF CallType
  <2>2. c \in CallType /\ Becomes(s, c)
    BY <1>1, <1>5, FieldChanges DEF RuleEnds
  <2>3. UNCHANGED <<runVars, window, latched, history, fallbacks, published, cached, abort, calls>>
    BY <1>5 DEF RuleEnds, urlVars, budgetVars
  <2> HIDE DEF c
  <2>4. Sound(c) /\ (Owes(c) <=> Owes(call[s]))
    BY <1>1, <2>1 DEF Sound, Owes
  <2>5. QED
    BY <1>1, <2>1, <2>2, <2>3, <2>4, CallChanges
<1>6. QED
  BY <1>2, <1>3, <1>4, <1>5

(* A score that is not the judge's leaves the worker counted.              *)
LEMMA ReturnsStep ==
    ASSUME RewardInv, NEW s \in Slots, Returns(s)
    PROVE  RewardInv'
<1>1. FieldTypes /\ CallInv /\ CountInv /\ WindowInv /\ AbortInv
  BY DEF RewardInv
<1>2. /\ call \in [Slots -> CallType] /\ call[s].at = "grading" /\ Becomes(s, Idle)
      /\ fallbacks \in Nat /\ Sound(call[s]) /\ call[s].failed \in BOOLEAN
  BY <1>1 DEF FieldTypes, CallInv, Returns, CallType
<1>3. UNCHANGED <<source, volume, calls, published, cached, window, latched, abort, history>>
  BY DEF Returns, runVars, urlVars, budgetVars
<1>4. Idle.at = "idle" /\ ~Owes(Idle) /\ Idle.at \notin Asking /\ call[s].at \notin Asking
  BY <1>2 DEF Idle, Owes, Asking
<1>5. Owes(call[s]) <=> source = "judge" /\ call[s].failed
  BY <1>2 DEF Owes, Sound
<1>6. /\ call' \in [Slots -> CallType]
      /\ \A t \in Slots : call'[t] = IF t = s THEN Idle ELSE call[t]
      /\ Cardinality(AskingSlots) \in Nat /\ Cardinality(Owed) \in Nat
      /\ Cardinality(AskingSlots') = Cardinality(AskingSlots)
            + (IF Idle.at \in Asking THEN 1 ELSE 0) - (IF call[s].at \in Asking THEN 1 ELSE 0)
      /\ Cardinality(Owed') = Cardinality(Owed) + (IF Owes(Idle) THEN 1 ELSE 0)
            - (IF Owes(call[s]) THEN 1 ELSE 0)
  BY <1>2, IdleType, Bookkeeping, Zenon
<1>7. fallbacks' = fallbacks + (IF source = "judge" /\ call[s].failed THEN 1 ELSE 0)
  BY DEF Returns
<1>8. FieldTypes'
  BY <1>1, <1>2, <1>3, <1>6, <1>7 DEF FieldTypes
<1>9. CallInv'
  BY <1>1, <1>3, <1>6 DEF CallInv, Sound, Idle, Asking, InCall
<1>10. CountInv'
  <2>1. Fails(history') = Fails(history) /\ history' = history /\ calls' = calls
    BY <1>3 DEF Fails
  <2>2. Cardinality(AskingSlots') = Cardinality(AskingSlots)
    BY <1>4, <1>6
  <2>3. fallbacks' + Cardinality(Owed') = fallbacks + Cardinality(Owed)
    BY <1>2, <1>4, <1>5, <1>6, <1>7
  <2>4. QED
    BY <2>1, <2>2, <2>3, <1>1 DEF CountInv
<1>11. WindowInv'
  BY <1>1, <1>3 DEF WindowInv, Outage, LastFew, OverRate, Fails
<1>12. AbortInv'
  BY <1>1, <1>3, <1>4, <1>6 DEF AbortInv, Misled
<1>13. QED
  BY <1>8, <1>9, <1>10, <1>11, <1>12 DEF RewardInv

(* The endpoint file appears: what was decided is not decided again.        *)
LEMMA StandingStep == RewardInv /\ (EndpointAppears \/ UNCHANGED rewardVars) => RewardInv'
<1> SUFFICES ASSUME RewardInv, EndpointAppears \/ UNCHANGED rewardVars PROVE RewardInv'
  OBVIOUS
<1>1. /\ UNCHANGED <<source, volume, calls, call, cached, window, latched, abort, history, fallbacks>>
      /\ published' \in BOOLEAN
  BY DEF EndpointAppears, rewardVars, runVars, urlVars, budgetVars, RewardInv, FieldTypes
<1>2. AskingSlots' = AskingSlots /\ Owed' = Owed
  BY <1>1 DEF AskingSlots, Owed
<1>3. FieldTypes' /\ CallInv' /\ AbortInv'
  BY <1>1 DEF RewardInv, FieldTypes, CallInv, Sound, AbortInv, Misled
<1>4. CountInv' /\ WindowInv'
  BY <1>1, <1>2 DEF RewardInv, CountInv, Fails, WindowInv, Outage, LastFew, OverRate
<1>5. QED
  BY <1>3, <1>4 DEF RewardInv

(* A worker that has scored nothing owes nothing.                           *)
LEMMA RewardInvInit == RewardInit => RewardInv
<1> SUFFICES ASSUME RewardInit PROVE RewardInv
  OBVIOUS
<1>1. /\ call = [s \in Slots |-> Idle] /\ history = <<>> /\ window = <<>> /\ fallbacks = 0 /\ calls = 0
      /\ ~latched /\ ~abort /\ MaxCalls \in Nat /\ MinCalls \in Nat \ {0} /\ Window \in Nat \ {0}
  BY RewardConstantsOK DEF RewardInit
<1>2. history \in Seq(BOOLEAN) /\ Len(history) = 0 /\ DOMAIN history = {}
  BY <1>1
<1>3. FieldTypes
  <2>1. latched \in BOOLEAN /\ abort \in BOOLEAN
    BY Zenon DEF RewardInit
  <2>2. window \in Seq(BOOLEAN) /\ call \in [Slots -> CallType] /\ calls \in 0..MaxCalls
    BY <1>1, IdleType
  <2>3. /\ source \in {"judge", "rule", "bad"} /\ volume \in {"ok", "flaky"}
        /\ published \in BOOLEAN /\ cached \in {"none", "judge"} /\ fallbacks \in Nat
    BY DEF RewardInit
  <2>4. QED
    BY <1>2, <2>1, <2>2, <2>3 DEF FieldTypes
<1>4. Idle.at = "idle" /\ ~Idle.failed
  BY DEF Idle
<1>5. CallInv
  BY <1>1, <1>4 DEF CallInv, Sound, Asking, InCall
<1>6. CountInv
  <2>1. AskingSlots = {} /\ Owed = {} /\ {i \in DOMAIN history : history[i]} = {}
    BY <1>1, <1>2, <1>4 DEF AskingSlots, Owed, Owes, Asking
  <2>2. Fails(history) = 0 /\ Cardinality(AskingSlots) = 0 /\ Cardinality(Owed) = 0
    BY <2>1, FS_EmptySet DEF Fails
  <2>3. QED
    BY <1>1, <1>2, <2>2 DEF CountInv
<1>7. WindowInv
  <2>1. ~Outage
    BY <1>1, <1>2 DEF Outage
  <2>2. LastFew(Len(history)) = <<>>
    <3>1. LastFew(0) = SubSeq(history, 1, 0)
      BY <1>1 DEF LastFew
    <3>2. QED
      BY <3>1, <1>1, <1>2
  <2>3. QED
    BY <1>1, <2>1, <2>2 DEF WindowInv
<1>8. AbortInv
  BY <1>1, <1>4 DEF AbortInv, Misled
<1>9. QED
  BY <1>3, <1>5, <1>6, <1>7, <1>8 DEF RewardInv

(* Each step keeps the strengthening.                                      *)
LEMMA RewardStep == RewardInv /\ [RewardNext]_rewardVars => RewardInv'
<1> SUFFICES ASSUME RewardInv, [RewardNext]_rewardVars PROVE RewardInv'
  OBVIOUS
<1>1. CASE EndpointAppears \/ UNCHANGED rewardVars
  BY <1>1, StandingStep
<1>2. CASE Tick
  BY <1>2, TickStep
<1>3. ASSUME NEW s \in Slots, Begins(s) \/ Goes(s) \/ RuleEnds(s) PROVE RewardInv'
  <2>1. CASE Begins(s)
    BY <2>1, BeginStep DEF Begins
  <2>2. CASE AttemptFails(s) \/ AsksAgain(s) \/ RuleEnds(s)
    BY <2>2, RetryStep
  <2>3. CASE DeadlinePasses(s)
    BY <2>3, RecordsStep DEF DeadlinePasses
  <2>4. CASE Returns(s)
    BY <2>4, ReturnsStep
  <2>5. QED
    BY <1>3, <2>1, <2>2, <2>3, <2>4 DEF Goes
<1>4. ASSUME NEW s \in Slots, NEW bad \in BOOLEAN, Answers(s, bad) PROVE RewardInv'
  BY <1>4, RecordsStep DEF Answers, Asking
<1>5. QED
  BY <1>1, <1>2, <1>3, <1>4 DEF RewardNext

(* The strengthening of the reward worker is an invariant.                 *)
THEOREM RewardInductiveInvariant == RewardSpec => []RewardInv
BY RewardInvInit, RewardStep, PTL DEF RewardSpec

(* Every score that is not the judge's was counted before it was returned, *)
(* and the run is told to stop exactly when too many were: for every number *)
(* of concurrent calls and every order in which they end.                  *)
THEOREM NoSilentFallbackHolds == RewardSpec => []NoSilentFallback
<1>1. ASSUME RewardInv PROVE NoSilentFallback
  <2>1. /\ call \in [Slots -> CallType] /\ history \in Seq(BOOLEAN) /\ window \in Seq(BOOLEAN)
        /\ Len(history) \in Nat /\ calls \in Nat /\ calls <= MaxCalls /\ MaxCalls \in Nat
        /\ Window \in Nat \ {0} /\ fallbacks \in Nat
    BY <1>1, RewardConstantsOK, LenProperties DEF RewardInv, FieldTypes
  <2>2. AskingSlots \in SUBSET Slots /\ Owed \in SUBSET Slots
    BY DEF AskingSlots, Owed
  <2>3. Cardinality(AskingSlots) \in Nat /\ Cardinality(Owed) \in Nat
    BY <2>2, RewardConstantsOK, FS_Subset, FS_CardinalityType
  <2>4. Fails(history) \in Nat /\ Fails(history) <= Len(history)
    BY <2>1, FailsType
  <2>5. Len(history) <= MaxCalls /\ fallbacks <= MaxCalls
    BY <1>1, <2>1, <2>3, <2>4 DEF RewardInv, CountInv
  <2>6. Len(window) <= Window
    BY <1>1, <2>1, FewGrows DEF RewardInv, WindowInv, LastFew, Few
  <2>7. RewardTypes
    BY <1>1, <2>1, <2>5, <2>6 DEF RewardInv, FieldTypes, RewardTypes
  <2>8. OutageIsNotSilent
    BY <1>1 DEF RewardInv, WindowInv, AbortInv, OutageIsNotSilent
  <2>9. FallbackIsCounted
    BY <1>1 DEF RewardInv, CountInv, FallbackIsCounted, Owed, Owes
  <2>10. QED
    BY <2>7, <2>8, <2>9 DEF NoSilentFallback
<1>2. QED
  BY <1>1, RewardInductiveInvariant, PTL

(* No call outlasts its deadline, which is below the reward manager's own  *)
(* timeout: whatever is retried, however slow the rule is.                 *)
THEOREM AnswersInTimeHolds == RewardSpec => []AnswersInTime
<1>1. RewardInv => AnswersInTime
  <2> SUFFICES ASSUME RewardInv, NEW s \in Slots PROVE call[s].age <= Deadline
    BY DEF AnswersInTime
  <2>1. call[s].age \in 0..Deadline
    BY DEF RewardInv, FieldTypes, CallType
  <2>2. QED
    BY <2>1, Bounds
<1>2. QED
  BY <1>1, RewardInductiveInvariant, PTL

(* Only a request changes what a call asks, and it is sent to what the     *)
(* endpoint file says, once there is one.                                  *)
LEMMA RequestStep ==
    ASSUME RewardInv, [RewardNext]_rewardVars, NEW t \in Slots, call[t].at # "asking", call'[t].at = "asking", published
    PROVE  call'[t].url = "judge"
<1>1. call \in [Slots -> CallType] /\ cached \in {"none", "judge"}
  BY DEF RewardInv, FieldTypes
<1>2. Url = "judge"
  BY <1>1 DEF Url
<1>3. ASSUME NEW c \in CallType PROVE Sent(c).url = "judge"
  BY <1>2 DEF Sent, CallType
<1>4. ASSUME NEW s \in Slots, NEW c, Becomes(s, c), c.at # "asking" PROVE FALSE
  BY <1>1, <1>4 DEF Becomes
<1>5. ASSUME NEW s \in Slots, NEW c, c.at # "asking", RequestsAbort(s, c) PROVE FALSE
  <2>1. [Idle EXCEPT !.at = "raised", !.failed = c.failed].at # "asking"
    BY DEF Idle
  <2>2. QED
    BY <1>4, <1>5, <2>1 DEF RequestsAbort
<1>6. ASSUME NEW s \in Slots, NEW bad \in BOOLEAN, Records(s, bad) PROVE FALSE
  <2>1. Graded(call[s], bad).at # "asking"
    BY <1>1 DEF Graded, CallType
  <2>2. QED
    BY <1>4, <1>5, <1>6, <2>1 DEF Records
<1>7. ASSUME NEW s \in Slots, NEW c \in CallType, Becomes(s, Sent(c)) PROVE call'[t].url = "judge"
  BY <1>1, <1>3, <1>7 DEF Becomes
<1>8. CASE EndpointAppears \/ UNCHANGED rewardVars
  BY <1>8 DEF EndpointAppears, rewardVars
<1>9. CASE Tick
  BY <1>1, <1>9 DEF Tick, CallType
<1>10. ASSUME NEW s \in Slots, Begins(s) PROVE call'[t].url = "judge"
  <2>1. Begun \in CallType /\ [Begun EXCEPT !.at = "grading"].at # "asking"
    BY BegunType
  <2>2. QED
    BY <1>4, <1>5, <1>7, <1>10, <2>1 DEF Begins, AskJudge, RuleOnly, Misconfigured
<1>11. ASSUME NEW s \in Slots, Goes(s) \/ RuleEnds(s) PROVE call'[t].url = "judge"
  <2>1. CASE AttemptFails(s)
    <3>1. CASE call[s].tries = Retries
      BY <1>6, <2>1, <3>1 DEF AttemptFails
    <3>2. CASE call[s].tries # Retries
      <4> DEFINE c == [call[s] EXCEPT !.at = "backoff", !.url = "none", !.tries = @ + 1,
                                      !.wait = Backoff * (call[s].tries + 1)]
      <4>1. c.at # "asking"
        BY <1>1 DEF CallType
      <4>2. Becomes(s, c)
        BY <2>1, <3>2 DEF AttemptFails
      <4> HIDE DEF c
      <4>3. QED
        BY <1>4, <4>1, <4>2
    <3>3. QED
      BY <3>1, <3>2
  <2>2. CASE AsksAgain(s)
    BY <1>1, <1>7, <2>2 DEF AsksAgain
  <2>3. CASE DeadlinePasses(s)
    BY <1>6, <2>3 DEF DeadlinePasses
  <2>4. CASE Returns(s)
    BY <1>4, <2>4 DEF Returns, Idle
  <2>5. CASE RuleEnds(s)
    BY <1>1, <2>5 DEF RuleEnds, Becomes, CallType
  <2>6. QED
    BY <1>11, <2>1, <2>2, <2>3, <2>4, <2>5 DEF Goes
<1>12. ASSUME NEW s \in Slots, NEW bad \in BOOLEAN, Answers(s, bad) PROVE FALSE
  BY <1>6, <1>12 DEF Answers
<1>13. QED
  BY <1>8, <1>9, <1>10, <1>11, <1>12 DEF RewardNext

(* A worker that began before the judge was published asks the judge with  *)
(* its first request after that, in whatever call and attempt it is.       *)
THEOREM JudgeIsFoundHolds == RewardSpec => JudgeIsFound
<1>1. RewardInv /\ [RewardNext]_rewardVars => \A s \in Slots : (call[s].at # "asking" /\ call'[s].at = "asking" /\ published)
                                                 => (call'[s].url = "judge")
  BY RequestStep
<1>2. QED
  BY <1>1, RewardInductiveInvariant, PTL DEF RewardSpec, JudgeIsFound
=============================================================================
