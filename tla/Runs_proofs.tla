---------------------------- MODULE Runs_proofs ----------------------------
(***************************************************************************)
(* The two controllers of a run: TrainingRun, for every number of          *)
(* attempts, versions, settle rounds and requesters, and FinalRun after it. *)
(***************************************************************************)
EXTENDS TrainingRun, FinalRun, TLAPS

(***************************************************************************)
(* The strengthening.  A tracker newer than this attempt's beginning was   *)
(* written by this attempt, after a complete save of the version it names; *)
(* PRE_TRACKER is the tracker this attempt began with.  Everything the     *)
(* certificate concludes follows from these two.                           *)
(***************************************************************************)
TrackerInv ==
    /\ base <= seen.stamp
    /\ seen.stamp <= tracker.stamp
    /\ tracker.stamp > base => SavedHere(tracker.value)
    /\ seen.stamp > base => SavedHere(seen.value)

Snapshotted == phase \in {"launch", "driving", "check", "exiting"}

SnapshotInv ==
    /\ ~Snapshotted /\ Running => seen = tracker /\ tracker.stamp = base /\ py = "none"
    /\ phase = "launch" => py = "none"
    /\ Snapshotted => pre.stamp = base
                      /\ (seen.stamp = base => seen = pre)
                      /\ (tracker.stamp = base => tracker = pre)

SaveInv ==
    /\ \A v \in Versions : ckpt[v].by <= attempt
    /\ py = "saving" => ckpt[version] = [state |-> "partial", by |-> attempt]
    /\ py = "saved" => SavedHere(version)
    /\ PyAlive => Running

VerdictInv ==
    /\ verdict # "none" => phase \in {"exiting", "ended"}
    /\ phase = "exiting" => (verdict = "none" <=> attempt \in Uncertified)
    /\ phase = "check" => attempt \notin Uncertified
    /\ phase # "ended" => exitCode = NoCode
    /\ raisedIn = "none" <=> abort = NoOne
    /\ result.by <= attempt

\* A TERM to the group ends the subshell first: its 143 is the driver's code,
\* and the abort file that caused it stays for the certificate to find.
StopInv ==
    /\ shell = "alive" => phase = "driving"
    /\ termed /\ phase # "ended" =>
           /\ phase \in {"driving", "check", "exiting"}
           /\ shell = "dead" /\ rawRc = 143 /\ abort # NoOne
    /\ verdict = "certified" => ~termed

IInv ==
    /\ TypeOK
    /\ TrackerInv /\ SnapshotInv /\ SaveInv /\ VerdictInv /\ StopInv
    /\ CertifiedIsReal /\ ResultDescribesDisk
    /\ AbortVetoes /\ StoppedIsNotSuccess

-----------------------------------------------------------------------------
(* Finishing a save keeps a checkpoint record well typed.                  *)
LEMMA CompletedStep ==
    ASSUME NEW s \in Step
    PROVE  [s EXCEPT !.state = "complete"] \in Step
BY DEF Step

(* Every variable keeps its type, whatever the order of the steps.         *)
LEMMA TypeStep == TypeOK /\ [Next]_vars => TypeOK'
<1> SUFFICES ASSUME TypeOK, [Next]_vars PROVE TypeOK'
  OBVIOUS
<1> USE ConstantsOK DEF TypeOK, Versions, Attempts, Codes, NoCode, Tracker, NoTracker,
                        Step, Phases, PyStates, PyAlive, Verdicts
<1>u. CASE UNCHANGED vars
  BY <1>u DEF vars, launcherVars, verlVars, diskVars, groupVars, abortVars
<1>1. CASE DispatchHead
  <2>1. attempt' \in Attempts
    BY <1>1 DEF DispatchHead
  <2>2. seen' \in Tracker /\ base' \in Nat
    BY <1>1 DEF DispatchHead
  <2>3. ckpt' \in [Versions -> Step]
    BY <1>1 DEF DispatchHead
  <2>4. asking' \in [Requesters -> {"no", "writing", "asked"}]
    BY <1>1 DEF DispatchHead
  <2>5. polls' \in 0..SettlePolls
    BY <1>1 DEF DispatchHead
  <2>6. /\ phase' = "identity" /\ exitCode' = 999 /\ pendingTerm' = FALSE
        /\ abort' = NoOne /\ raisedIn' = "none"
        /\ py' = "none" /\ hard' = FALSE /\ termed' = FALSE
        /\ shell' = "none" /\ rawRc' = 0 /\ watchdog' = "off"
        /\ pre' = NoTracker /\ verdict' = "none" /\ readOk' = TRUE
        /\ UNCHANGED <<tracker, version, result>>
    BY <1>1 DEF DispatchHead
  <2>7. pre' \in Tracker
    BY <2>6
  <2>8. /\ tracker' \in Tracker /\ version' \in Versions
        /\ result' \in [verdict : Verdicts, by : Attempts]
    BY <2>6
  <2>9. /\ pendingTerm' \in BOOLEAN /\ hard' \in BOOLEAN /\ termed' \in BOOLEAN
        /\ readOk' \in BOOLEAN
    BY <2>6, ZenonT(60)
  <2>10. /\ abort' \in Requesters \cup {NoOne} /\ raisedIn' \in Phases \cup {"none"}
         /\ py' \in PyStates /\ shell' \in {"none", "alive", "dead"}
         /\ rawRc' \in Codes /\ watchdog' \in {"off", "polling", "grace"}
         /\ verdict' \in Verdicts
         /\ phase' \in Phases /\ exitCode' \in Codes \cup {NoCode}
    BY <2>6
  <2> HIDE DEF Versions, Attempts, Codes, NoCode, Tracker, NoTracker, Step, Phases,
               PyStates, Verdicts
  <2>11. QED
    BY <2>1, <2>2, <2>3, <2>4, <2>5, <2>7, <2>8, <2>9, <2>10
<1>2. CASE RefuseIdentity
  BY <1>2 DEF RefuseIdentity, Leave, launcherVars, verlVars, diskVars, groupVars, abortVars
<1>3. CASE BootCluster
  BY <1>3 DEF BootCluster, launcherVars, verlVars, diskVars, groupVars, abortVars
<1>4. CASE SnapshotTracker
  BY <1>4 DEF SnapshotTracker, launcherVars, verlVars, diskVars, groupVars, abortVars
<1>5. CASE FailBeforeDriver
  BY <1>5 DEF FailBeforeDriver, Leave, launcherVars, verlVars, diskVars, groupVars, abortVars
<1>6. CASE StartDriver
  BY <1>6 DEF StartDriver, launcherVars, verlVars, diskVars, groupVars, abortVars
<1>7. CASE RunDriverReturns
  BY <1>7 DEF RunDriverReturns, launcherVars, verlVars, diskVars, groupVars, abortVars
<1>8. CASE EvaluateAgain
  <2>1. polls' \in 0..SettlePolls
    BY <1>8 DEF EvaluateAgain, Settled
  <2>2. readOk' \in BOOLEAN
    BY <1>8 DEF EvaluateAgain
  <2>3. QED
    BY <1>8, <2>1, <2>2 DEF EvaluateAgain, verlVars, diskVars, groupVars, abortVars
<1>9. CASE EvaluateLast
  <2>1. readOk' \in BOOLEAN /\ verdict' \in {"none", "certified", "failed"}
    BY <1>9 DEF EvaluateLast
  <2>2. result' \in [verdict : Verdicts, by : 0..MaxAttempts]
    BY <1>9 DEF EvaluateLast
  <2>3. QED
    BY <1>9, <2>1, <2>2 DEF EvaluateLast, verlVars, diskVars, groupVars, abortVars
<1>10. CASE Exit
  BY <1>10 DEF Exit, Leave, FinalRc, launcherVars, verlVars, diskVars, groupVars, abortVars
<1>11. CASE WatchdogTerm
  BY <1>11 DEF WatchdogTerm, launcherVars, verlVars, diskVars, groupVars, abortVars
<1>12. CASE WatchdogKill
  BY <1>12 DEF WatchdogKill, launcherVars, verlVars, diskVars, groupVars, abortVars
<1>13. CASE WatchdogStops
  BY <1>13 DEF WatchdogStops, launcherVars, verlVars, diskVars, groupVars, abortVars
<1>14. CASE ShellExit
  BY <1>14 DEF ShellExit, launcherVars, verlVars, diskVars, groupVars, abortVars
<1>15. CASE VerlSync
  BY <1>15 DEF VerlSync, launcherVars, verlVars, diskVars, groupVars, abortVars
<1>16. CASE VerlSaveBegin
  BY <1>16 DEF VerlSaveBegin, launcherVars, verlVars, diskVars, groupVars, abortVars
<1>17. CASE VerlSaveEnd
  <2>1. ckpt' \in [0..Final -> [state : {"absent", "partial", "complete"}, by : 0..MaxAttempts]]
    <3>1. ckpt[version] \in Step /\ ckpt \in [Versions -> Step] /\ version \in Versions
      BY <1>17
    <3>2. [ckpt[version] EXCEPT !.state = "complete"] \in Step
      BY <3>1, CompletedStep, SMTT(40)
    <3>3. ckpt' = [ckpt EXCEPT ![version] = [ckpt[version] EXCEPT !.state = "complete"]]
      BY <1>17 DEF VerlSaveEnd
    <3> HIDE DEF TypeOK, Step, Versions
    <3>4. ckpt' \in [Versions -> Step]
      BY <3>1, <3>2, <3>3
    <3>5. QED
      BY <3>4 DEF Step, Versions
  <2>2. py' = "saved" /\ UNCHANGED <<launcherVars, version, hard, tracker, seen, groupVars, abortVars>>
    BY <1>17 DEF VerlSaveEnd
  <2>3. QED
    BY <2>1, <2>2, SMTT(40) DEF launcherVars, groupVars, abortVars
<1>18. CASE VerlTrack
  <2>1. tracker' \in [stamp : Nat, value : 0..Final]
    BY <1>18, SMTT(40) DEF VerlTrack
  <2>2. py' = "train" /\ UNCHANGED <<launcherVars, version, hard, seen, ckpt, groupVars, abortVars>>
    BY <1>18 DEF VerlTrack
  <2>3. QED
    BY <2>1, <2>2 DEF launcherVars, groupVars, abortVars
<1>19. CASE VerlCrash
  <2>1. hard' \in BOOLEAN
    BY <1>19, ZenonT(60) DEF VerlCrash
  <2>2. rawRc' \in {0, 1, 143}
    BY <1>19 DEF VerlCrash
  <2>3. QED
    BY <1>19, <2>1, <2>2 DEF VerlCrash, diskVars, groupVars, abortVars
<1>20. CASE VolumeCatchesUp
  BY <1>20 DEF VolumeCatchesUp, launcherVars, verlVars, diskVars, groupVars, abortVars
<1>21. CASE CancelNow
  BY <1>21 DEF CancelNow, Leave, launcherVars, verlVars, diskVars, groupVars, abortVars
<1>22. CASE CancelDeferred
  BY <1>22 DEF CancelDeferred, launcherVars, verlVars, diskVars, groupVars, abortVars
<1>23. CASE Lost
  BY <1>23 DEF Lost, Leave, launcherVars, verlVars, diskVars, groupVars, abortVars
<1>24. ASSUME NEW mode \in {"never", "auto", "path"}, ResolveIdentity(mode)
     PROVE TypeOK'
  <2>1. ResumeVersion(mode) \subseteq Versions
    BY SMTT(40) DEF ResumeVersion
  <2>2. QED
    BY <1>24, <2>1 DEF ResolveIdentity, diskVars, groupVars, abortVars
<1>25. ASSUME NEW rc \in {0, 1}, VerlStop(rc) PROVE TypeOK'
  BY <1>25 DEF VerlStop, diskVars, groupVars, abortVars
<1>26. ASSUME NEW r \in Requesters, RequestLooks(r) PROVE TypeOK'
  BY <1>26 DEF RequestLooks, launcherVars, verlVars, diskVars, groupVars
<1>27. ASSUME NEW r \in Requesters, RequestWrites(r) PROVE TypeOK'
  BY <1>27 DEF RequestWrites, launcherVars, verlVars, diskVars, groupVars
<1> HIDE DEF TypeOK, Versions, Attempts, Codes, NoCode, Tracker, NoTracker,
             Step, Phases, PyStates, PyAlive, Verdicts
<1> QED
  BY <1>u, <1>1, <1>2, <1>3, <1>4, <1>5, <1>6, <1>7, <1>8, <1>9, <1>10, <1>11, <1>12, <1>13, <1>14, <1>15, <1>16, <1>17, <1>18, <1>19, <1>20, <1>21, <1>22, <1>23, <1>24, <1>25, <1>26, <1>27
     DEF Next, Launcher, Watchdog, Verl

(* The initial state is well typed.                                        *)
LEMMA InitType == Init => TypeOK
<1> SUFFICES ASSUME Init PROVE TypeOK
  OBVIOUS
<1>1. NoTracker \in Tracker
  BY ConstantsOK DEF NoTracker, Tracker, Versions
<1>2. Absent \in Step /\ NoResult \in [verdict : Verdicts, by : Attempts]
  BY ConstantsOK DEF Absent, Step, NoResult, Verdicts, Attempts
<1>3. ckpt \in [Versions -> Step] /\ asking \in [Requesters -> {"no", "writing", "asked"}]
  BY <1>2 DEF Init
<1>4. 0 \in Attempts /\ 0 \in Versions /\ 0 \in 0..SettlePolls
  BY ConstantsOK DEF Attempts, Versions
<1>5. QED
  BY <1>1, <1>2, <1>3, <1>4 DEF Init, TypeOK, Phases, Codes, PyStates, Verdicts

(* TypeOK holds in every reachable state, for all constants.               *)
THEOREM TypeCorrect == Spec => []TypeOK
BY InitType, TypeStep, PTL DEF Spec

-----------------------------------------------------------------------------
(* The strengthening without the types.                                    *)
Safe ==
    /\ TrackerInv /\ SnapshotInv /\ SaveInv /\ VerdictInv /\ StopInv
    /\ CertifiedIsReal /\ ResultDescribesDisk
    /\ AbortVetoes /\ StoppedIsNotSuccess

(* Each step keeps the whole strengthening: only a save of this attempt    *)
(* moves the tracker beyond where the attempt found it, so a changed       *)
(* tracker at the planned version is evidence of this attempt's own save.  *)
LEMMA SafeStep == IInv /\ [Next]_vars => Safe'
<1> SUFFICES ASSUME IInv, [Next]_vars PROVE Safe'
  OBVIOUS
<1>t. /\ attempt \in Nat /\ base \in Nat /\ seen.stamp \in Nat /\ pre.stamp \in Nat
      /\ tracker.stamp \in Nat /\ tracker.value \in Versions /\ seen.value \in Versions
      /\ ckpt \in [Versions -> Step] /\ version \in Versions
      /\ \A v \in Versions : ckpt[v].by \in Nat
      /\ Final \in Versions /\ result.by \in Nat
  BY ConstantsOK, SMTT(40) DEF IInv, TypeOK, Attempts, Tracker, Step, Versions
<1>s. Safe
  BY DEF IInv, Safe
<1> USE DEF Safe, TrackerInv, SnapshotInv, SaveInv, VerdictInv, StopInv, CertifiedIsReal, ResultDescribesDisk, AbortVetoes, StoppedIsNotSuccess, SavedHere, PyAlive, Running, Snapshotted, IsCertifiable
<1>u. CASE UNCHANGED vars
  BY <1>u, <1>s DEF vars, launcherVars, verlVars, diskVars, groupVars, abortVars
<1>1. CASE DispatchHead
  BY <1>1, <1>s, <1>t DEF DispatchHead, NoCode, launcherVars, verlVars, diskVars, groupVars, abortVars
<1>2. CASE RefuseIdentity
  BY <1>2, <1>s, <1>t DEF RefuseIdentity, Leave, NoCode, launcherVars, verlVars, diskVars, groupVars, abortVars
<1>3. CASE BootCluster
  BY <1>3, <1>s, <1>t DEF BootCluster, launcherVars, verlVars, diskVars, groupVars, abortVars
<1>4. CASE SnapshotTracker
  BY <1>4, <1>s, <1>t DEF SnapshotTracker, launcherVars, verlVars, diskVars, groupVars, abortVars
<1>5. CASE FailBeforeDriver
  BY <1>5, <1>s, <1>t DEF FailBeforeDriver, Leave, NoCode, launcherVars, verlVars, diskVars, groupVars, abortVars
<1>6. CASE StartDriver
  BY <1>6, <1>s, <1>t DEF StartDriver, launcherVars, verlVars, diskVars, groupVars, abortVars
<1>7. CASE RunDriverReturns
  BY <1>7, <1>s, <1>t DEF RunDriverReturns, launcherVars, verlVars, diskVars, groupVars, abortVars
<1>8. CASE EvaluateAgain
  BY <1>8, <1>s, <1>t DEF EvaluateAgain, launcherVars, verlVars, diskVars, groupVars, abortVars
<1>9. CASE EvaluateLast
  <2>1. verdict' = "certified" =>
           seen.stamp # 0 /\ seen # pre /\ seen.value = Final /\ abort = NoOne
    BY <1>9 DEF EvaluateLast, Certifies, TrackerIsFinal
  <2>2. verdict' = "certified" => seen.stamp > base
    BY <1>9, <2>1, <1>s, <1>t DEF EvaluateLast
  <2>3. verdict' = "certified" => SavedHere(Final)
    BY <2>1, <2>2, <1>s
  <2>4. verdict' \in {"certified", "failed"}
    BY <1>9 DEF EvaluateLast
  <2>5. /\ phase = "check" /\ phase' = "exiting"
        /\ UNCHANGED <<attempt, exitCode, base, pre, seen, tracker, ckpt, py, version,
                       abort, raisedIn, termed, shell, rawRc>>
    BY <1>9 DEF EvaluateLast, verlVars, diskVars, groupVars, abortVars
  <2>6. ResultDescribesDisk' /\ result'.by <= attempt
    <3>1. CASE result' = result
      BY <3>1, <2>5, <1>s
    <3>2. CASE result' = [verdict |-> verdict', by |-> attempt]
      <4>1. verdict' = "certified" => ckpt[Final] = [state |-> "complete", by |-> attempt]
        BY <2>3, <1>t DEF Step
      <4>2. QED
        BY <3>2, <4>1, <2>5, <1>t
    <3>3. QED
      BY <3>1, <3>2, <1>9 DEF EvaluateLast
  <2>7. (TrackerInv /\ SnapshotInv /\ SaveInv)'
    BY <2>5, <1>s
  <2>8. (VerdictInv /\ StopInv /\ CertifiedIsReal /\ AbortVetoes /\ StoppedIsNotSuccess)'
    BY <2>1, <2>3, <2>4, <2>5, <2>6, <1>s DEF NoCode
  <2>9. QED
    BY <2>6, <2>7, <2>8
<1>10. CASE Exit
  <2>1. verdict \in {"none", "certified", "failed"}
    BY DEF IInv, TypeOK, Verdicts
  <2>2. QED
    BY <1>10, <2>1, <1>s, <1>t DEF Exit, Leave, FinalRc, NoCode, launcherVars, verlVars,
       diskVars, groupVars, abortVars
<1>11. CASE WatchdogTerm
  BY <1>11, <1>s, <1>t DEF WatchdogTerm, NoCode, launcherVars, verlVars, diskVars, groupVars, abortVars
<1>12. CASE WatchdogKill
  BY <1>12, <1>s, <1>t DEF WatchdogKill, launcherVars, verlVars, diskVars, groupVars, abortVars
<1>13. CASE WatchdogStops
  BY <1>13, <1>s, <1>t DEF WatchdogStops, launcherVars, verlVars, diskVars, groupVars, abortVars
<1>14. CASE ShellExit
  BY <1>14, <1>s, <1>t DEF ShellExit, launcherVars, verlVars, diskVars, groupVars, abortVars
<1>15. CASE VerlSync
  BY <1>15, <1>s, <1>t DEF VerlSync, launcherVars, verlVars, diskVars, groupVars, abortVars
<1>16. CASE VerlSaveBegin
  BY <1>16, <1>s, <1>t DEF VerlSaveBegin, launcherVars, verlVars, diskVars, groupVars, abortVars
<1>17. CASE VerlSaveEnd
  BY <1>17, <1>s, <1>t DEF VerlSaveEnd, launcherVars, verlVars, diskVars, groupVars, abortVars
<1>18. CASE VerlTrack
  BY <1>18, <1>s, <1>t DEF VerlTrack, launcherVars, verlVars, diskVars, groupVars, abortVars
<1>19. CASE VerlCrash
  BY <1>19, <1>s, <1>t DEF VerlCrash, launcherVars, verlVars, diskVars, groupVars, abortVars
<1>20. CASE VolumeCatchesUp
  BY <1>20, <1>s, <1>t DEF VolumeCatchesUp, launcherVars, verlVars, diskVars, groupVars, abortVars
<1>21. CASE CancelNow
  BY <1>21, <1>s, <1>t DEF CancelNow, Leave, NoCode, launcherVars, verlVars, diskVars, groupVars, abortVars
<1>22. CASE CancelDeferred
  BY <1>22, <1>s, <1>t DEF CancelDeferred, launcherVars, verlVars, diskVars, groupVars, abortVars
<1>23. CASE Lost
  BY <1>23, <1>s, <1>t DEF Lost, Leave, NoCode, launcherVars, verlVars, diskVars, groupVars, abortVars
<1>24. ASSUME NEW mode \in {"never", "auto", "path"}, ResolveIdentity(mode)
     PROVE Safe'
  BY <1>24, <1>s, <1>t DEF ResolveIdentity, diskVars, groupVars, abortVars
<1>25. ASSUME NEW rc \in {0, 1}, VerlStop(rc) PROVE Safe'
  BY <1>25, <1>s, <1>t DEF VerlStop, diskVars, groupVars, abortVars
<1>26. ASSUME NEW r \in Requesters, RequestLooks(r) PROVE Safe'
  BY <1>26, <1>s, <1>t DEF RequestLooks, launcherVars, verlVars, diskVars, groupVars
<1>27. ASSUME NEW r \in Requesters, RequestWrites(r) PROVE Safe'
  <2>1. phase # "none" /\ r # NoOne
    BY ConstantsOK DEF IInv, TypeOK, Phases
  <2>2. QED
    BY <1>27, <2>1, <1>s, <1>t DEF RequestWrites, launcherVars, verlVars, diskVars,
       groupVars, NoCode
<1> HIDE DEF Safe
<1> QED
  BY <1>u, <1>1, <1>2, <1>3, <1>4, <1>5, <1>6, <1>7, <1>8, <1>9, <1>10, <1>11, <1>12, <1>13, <1>14, <1>15, <1>16, <1>17, <1>18, <1>19, <1>20, <1>21, <1>22, <1>23, <1>24, <1>25, <1>26, <1>27
     DEF Next, Launcher, Watchdog, Verl

(* The strengthening holds initially.                                      *)
LEMMA InitSafe == Init => Safe
<1> SUFFICES ASSUME Init PROVE Safe
  OBVIOUS
<1>1. Final \in Versions
  BY ConstantsOK DEF Versions
<1>2. QED
  BY <1>1 DEF Init, Safe, TrackerInv, SnapshotInv, SaveInv, VerdictInv, StopInv, CertifiedIsReal,
     ResultDescribesDisk, AbortVetoes, StoppedIsNotSuccess, SavedHere, PyAlive, Running,
     Snapshotted, IsCertifiable, NoTracker, NoResult, Absent, NoCode

(* The inductive invariant is an invariant.                                *)
THEOREM InductiveInvariant == Spec => []IInv
<1>1. Init => IInv
  BY InitType, InitSafe DEF IInv, Safe
<1>2. IInv /\ [Next]_vars => IInv'
  BY TypeStep, SafeStep DEF IInv, Safe
<1>3. QED
  BY <1>1, <1>2, PTL DEF Spec

(* A certificate is never wrong about the disk: for any number of          *)
(* attempts in one directory, whatever verl exits with and however late    *)
(* the Volume shows a write, a certified attempt has itself completely     *)
(* saved the planned final version.                                        *)
THEOREM CertifiedIsRealHolds == Spec => []CertifiedIsReal
<1>1. IInv => CertifiedIsReal
  BY DEF IInv
<1>2. QED
  BY <1>1, InductiveInvariant, PTL

(* A certified run_result.json describes the checkpoint beside it, unless  *)
(* a later attempt has written over that checkpoint.                       *)
THEOREM ResultDescribesDiskHolds == Spec => []ResultDescribesDisk
<1>1. IInv => ResultDescribesDisk
  BY DEF IInv
<1>2. QED
  BY <1>1, InductiveInvariant, PTL

(* An abort raised while training ran is never followed by a success.      *)
THEOREM AbortVetoesHolds == Spec => []AbortVetoes
<1>1. IInv => AbortVetoes
  BY DEF IInv
<1>2. QED
  BY <1>1, InductiveInvariant, PTL

(* A run that the watchdog or a cancelled job stopped never leaves with 0, *)
(* with a certificate to draw up or without one.                           *)
THEOREM StoppedIsNotSuccessHolds == Spec => []StoppedIsNotSuccess
<1>1. IInv => StoppedIsNotSuccess
  BY DEF IInv
<1>2. QED
  BY <1>1, InductiveInvariant, PTL

-----------------------------------------------------------------------------
(***************************************************************************)
(* Refinement: only a dispatch, a completed save of the final version, an  *)
(* abort raised in training and the last evaluation move the contract's    *)
(* state; everything else is a stutter.                                    *)
(***************************************************************************)
(* Steps that touch none of the variables the contract is mapped to.       *)
LEMMA ContractFrame ==
    ASSUME [Next]_vars
    PROVE  \/ DispatchHead \/ VerlSaveBegin \/ VerlSaveEnd \/ EvaluateLast
           \/ \E r \in Requesters : RequestWrites(r)
           \/ UNCHANGED <<attempt, verdict, ckpt, raisedIn>>
<1> USE DEF Leave, launcherVars, verlVars, diskVars, groupVars, abortVars
<1>1. CASE UNCHANGED vars
  BY <1>1 DEF vars
<1>2. CASE Launcher
  <2>1. ASSUME NEW mode \in {"never", "auto", "path"}, ResolveIdentity(mode)
        PROVE UNCHANGED <<attempt, verdict, ckpt, raisedIn>>
    BY <2>1 DEF ResolveIdentity
  <2>2. QED
    BY <1>2, <2>1 DEF Launcher, RefuseIdentity, BootCluster, SnapshotTracker,
       FailBeforeDriver, StartDriver, RunDriverReturns, EvaluateAgain, Exit
<1>3. CASE Watchdog \/ ShellExit \/ VolumeCatchesUp
  BY <1>3 DEF Watchdog, WatchdogTerm, WatchdogKill, WatchdogStops, ShellExit, VolumeCatchesUp
<1>4. CASE Verl
  BY <1>4 DEF Verl, VerlSync, VerlTrack, VerlStop, VerlCrash
<1>5. CASE CancelNow \/ CancelDeferred \/ Lost
  BY <1>5 DEF CancelNow, CancelDeferred, Lost
<1>6. CASE \E r \in Requesters : RequestLooks(r) \/ RequestWrites(r)
  BY <1>6 DEF RequestLooks
<1>7. QED
  BY <1>1, <1>2, <1>3, <1>4, <1>5, <1>6 DEF Next

(* TrainingRun implements the contract of its success report, so whoever   *)
(* reads an exit status of 0 may rely on RunContract alone.                *)
THEOREM ContractRefined == Spec => ImplementsContract
<1>1. Init => Contract!ContractInit
  <2>1. Final \in Versions
    BY ConstantsOK DEF Versions
  <2>2. QED
    BY <2>1 DEF Init, Contract!ContractInit, SavedHere, Absent
<1>2. IInv /\ [Next]_vars => [Contract!ContractNext]_(Contract!contractVars)
  <2> SUFFICES ASSUME IInv, [Next]_vars
      PROVE Contract!ContractNext \/ UNCHANGED Contract!contractVars
    OBVIOUS
  <2> USE DEF Contract!ContractNext, Contract!contractVars
  <2>t. /\ attempt \in Nat /\ ckpt \in [Versions -> Step] /\ version \in Versions
        /\ Final \in Versions
        /\ verdict \in Verdicts
    BY ConstantsOK DEF IInv, TypeOK, Attempts, Versions
  <2>1. CASE DispatchHead
    <3>1. ~SavedHere(Final)'
      BY <2>1, <2>t DEF DispatchHead, SavedHere, IInv, SaveInv, Step
    <3>2. QED
      BY <2>1, <3>1 DEF DispatchHead, Contract!Begin
  <2>2. CASE VerlSaveBegin
    BY <2>2, <2>t DEF VerlSaveBegin, SavedHere, launcherVars, groupVars, abortVars
  <2>3. CASE VerlSaveEnd
    BY <2>3, <2>t DEF VerlSaveEnd, SavedHere, launcherVars, groupVars, abortVars,
       Contract!SaveFinal
  <2>4. CASE EvaluateLast
    <3>1. verdict = "none" /\ verdict' \in {"certified", "failed"}
      BY <2>4 DEF EvaluateLast, IInv, VerdictInv
    <3>2. UNCHANGED <<attempt, ckpt, raisedIn>>
      BY <2>4 DEF EvaluateLast, diskVars, abortVars
    <3>3. verdict' = "certified" => SavedHere(Final) /\ raisedIn # "driving"
      BY SafeStep, <3>2 DEF Safe, CertifiedIsReal, AbortVetoes, SavedHere
    <3>4. QED
      BY <3>1, <3>2, <3>3 DEF Contract!Certify, Contract!Fail, SavedHere
  <2>5. ASSUME NEW r \in Requesters, RequestWrites(r)
        PROVE Contract!ContractNext \/ UNCHANGED Contract!contractVars
    BY <2>5 DEF RequestWrites, IInv, VerdictInv, SavedHere, Contract!Veto, launcherVars,
       verlVars, diskVars
  <2>6. CASE UNCHANGED <<attempt, verdict, ckpt, raisedIn>>
    BY <2>6 DEF SavedHere
  <2>7. QED
    BY <2>1, <2>2, <2>3, <2>4, <2>5, <2>6, ContractFrame
<1>3. QED
  BY <1>1, <1>2, InductiveInvariant, PTL DEF Spec, ImplementsContract, Contract!ContractSpec

-----------------------------------------------------------------------------
(***************************************************************************)
(* verl's exit code.  It can still change while its subshell lives, and    *)
(* the subshell is reaped before the certificate is asked for: the code    *)
(* the verdict was made with is the code it stays with.                    *)
(***************************************************************************)
CodeInv ==
    /\ shell = "alive" => phase = "driving"
    /\ ExitCodeCounts

(* Each step keeps that, in the states the main invariant allows.          *)
LEMMA CodeStep == IInv /\ CodeInv /\ [Next]_vars => CodeInv'
<1> SUFFICES ASSUME IInv, CodeInv, [Next]_vars PROVE CodeInv'
  OBVIOUS
<1>s. verdict # "none" => phase \in {"exiting", "ended"}
  BY DEF IInv, VerdictInv
<1> USE DEF CodeInv, ExitCodeCounts, NonzeroFails
<1>u. CASE UNCHANGED vars
  BY <1>u DEF vars, launcherVars, verlVars, diskVars, groupVars, abortVars
<1>1. CASE DispatchHead
  BY <1>1 DEF DispatchHead
<1>2. CASE EvaluateLast
  <2>1. verdict' = "certified" => ~(attempt \in SyncAttempts /\ rawRc # 0)
    BY <1>2 DEF EvaluateLast, Certifies
  <2>2. phase = "check" /\ UNCHANGED <<attempt, rawRc, shell>>
    BY <1>2 DEF EvaluateLast, groupVars
  <2>3. QED
    BY <2>1, <2>2
<1>3. CASE RefuseIdentity
  BY <1>3, <1>s DEF RefuseIdentity, Leave, launcherVars, verlVars, diskVars, groupVars, abortVars
<1>4. CASE BootCluster
  BY <1>4, <1>s DEF BootCluster, launcherVars, verlVars, diskVars, groupVars, abortVars
<1>5. CASE SnapshotTracker
  BY <1>5, <1>s DEF SnapshotTracker, launcherVars, verlVars, diskVars, groupVars, abortVars
<1>6. CASE FailBeforeDriver
  BY <1>6, <1>s DEF FailBeforeDriver, Leave, launcherVars, verlVars, diskVars, groupVars, abortVars
<1>7. CASE StartDriver
  BY <1>7, <1>s DEF StartDriver, launcherVars, verlVars, diskVars, groupVars, abortVars
<1>8. CASE RunDriverReturns
  BY <1>8, <1>s DEF RunDriverReturns, launcherVars, verlVars, diskVars, groupVars, abortVars
<1>9. CASE EvaluateAgain
  BY <1>9, <1>s DEF EvaluateAgain, launcherVars, verlVars, diskVars, groupVars, abortVars
<1>10. CASE Exit
  BY <1>10, <1>s DEF Exit, Leave, launcherVars, verlVars, diskVars, groupVars, abortVars
<1>11. CASE WatchdogTerm
  BY <1>11, <1>s DEF WatchdogTerm, launcherVars, verlVars, diskVars, groupVars, abortVars
<1>12. CASE WatchdogKill
  BY <1>12, <1>s DEF WatchdogKill, launcherVars, verlVars, diskVars, groupVars, abortVars
<1>13. CASE WatchdogStops
  BY <1>13, <1>s DEF WatchdogStops, launcherVars, verlVars, diskVars, groupVars, abortVars
<1>14. CASE ShellExit
  BY <1>14, <1>s DEF ShellExit, launcherVars, verlVars, diskVars, groupVars, abortVars
<1>15. CASE VerlSync
  BY <1>15, <1>s DEF VerlSync, launcherVars, verlVars, diskVars, groupVars, abortVars
<1>16. CASE VerlSaveBegin
  BY <1>16, <1>s DEF VerlSaveBegin, launcherVars, verlVars, diskVars, groupVars, abortVars
<1>17. CASE VerlSaveEnd
  BY <1>17, <1>s DEF VerlSaveEnd, launcherVars, verlVars, diskVars, groupVars, abortVars
<1>18. CASE VerlTrack
  BY <1>18, <1>s DEF VerlTrack, launcherVars, verlVars, diskVars, groupVars, abortVars
<1>19. CASE VerlCrash
  BY <1>19, <1>s DEF VerlCrash, launcherVars, verlVars, diskVars, groupVars, abortVars
<1>20. CASE VolumeCatchesUp
  BY <1>20, <1>s DEF VolumeCatchesUp, launcherVars, verlVars, diskVars, groupVars, abortVars
<1>21. CASE CancelNow
  BY <1>21, <1>s DEF CancelNow, Leave, launcherVars, verlVars, diskVars, groupVars, abortVars
<1>22. CASE CancelDeferred
  BY <1>22, <1>s DEF CancelDeferred, launcherVars, verlVars, diskVars, groupVars, abortVars
<1>23. CASE Lost
  BY <1>23, <1>s DEF Lost, Leave, launcherVars, verlVars, diskVars, groupVars, abortVars
<1>24. ASSUME NEW mode \in {"never", "auto", "path"}, ResolveIdentity(mode) PROVE CodeInv'
  BY <1>24, <1>s DEF ResolveIdentity, launcherVars, verlVars, diskVars, groupVars, abortVars
<1>25. ASSUME NEW rc \in {0, 1}, VerlStop(rc) PROVE CodeInv'
  BY <1>25, <1>s DEF VerlStop, launcherVars, verlVars, diskVars, groupVars, abortVars
<1>26. ASSUME NEW r \in Requesters, RequestLooks(r) PROVE CodeInv'
  BY <1>26, <1>s DEF RequestLooks, launcherVars, verlVars, diskVars, groupVars, abortVars
<1>27. ASSUME NEW r \in Requesters, RequestWrites(r) PROVE CodeInv'
  BY <1>27, <1>s DEF RequestWrites, launcherVars, verlVars, diskVars, groupVars, abortVars
<1> HIDE DEF CodeInv
<1> QED
  BY <1>u, <1>1, <1>2, <1>3, <1>4, <1>5, <1>6, <1>7, <1>8, <1>9, <1>10, <1>11, <1>12, <1>13, <1>14, <1>15, <1>16, <1>17, <1>18, <1>19, <1>20, <1>21, <1>22, <1>23, <1>24, <1>25, <1>26, <1>27
     DEF Next, Launcher, Watchdog, Verl

(* Only the last evaluation turns an open verdict into a failure.          *)
LEMMA OnlyTheCheckFails ==
    ASSUME [Next]_vars, verdict = "none", verdict' = "failed"
    PROVE  EvaluateLast
<1>1. \/ DispatchHead \/ VerlSaveBegin \/ VerlSaveEnd \/ EvaluateLast
      \/ \E r \in Requesters : RequestWrites(r)
      \/ UNCHANGED <<attempt, verdict, ckpt, raisedIn>>
  BY ContractFrame
<1>2. QED
  BY <1>1 DEF DispatchHead, VerlSaveBegin, VerlSaveEnd, RequestWrites, launcherVars

(* With the tracker newer than the attempt's beginning, and visible, every *)
(* other condition of the certificate holds, so that only a code that      *)
(* counts, or a code with a crash in the log, can fail the attempt.        *)
LEMMA FinishedStep ==
    IInv /\ [Next]_vars =>
        (verdict = "none" /\ verdict' = "failed" /\ Finished /\ readOk'
            => rawRc # 0 /\ (NonzeroFails \/ hard))
<1> SUFFICES ASSUME IInv, [Next]_vars, verdict = "none", verdict' = "failed",
                    Finished, readOk'
    PROVE rawRc # 0 /\ (NonzeroFails \/ hard)
  OBVIOUS
<1>1. EvaluateLast
  BY OnlyTheCheckFails
<1>2. PICK readable \in BOOLEAN :
        /\ readOk' = readable
        /\ verdict' = IF Certifies(readable) THEN "certified" ELSE "failed"
  BY <1>1 DEF EvaluateLast
<1>3. readable = TRUE
  BY <1>2, Zenon
<1>4. ~Certifies(TRUE)
  BY <1>2, <1>3
<1>5. phase = "check" /\ base \in Nat /\ seen.stamp \in Nat
  BY <1>1 DEF EvaluateLast, IInv, TypeOK, Tracker
<1>6. pre.stamp = base /\ seen.stamp > base
  BY <1>5 DEF IInv, SnapshotInv, Snapshotted, Finished
<1>7. TrackerIsFinal
  BY <1>5, <1>6 DEF TrackerIsFinal, Finished
<1>8. ckpt[Final].state = "complete" /\ abort = NoOne
  BY DEF Finished, SavedHere
<1>9. (NonzeroFails /\ rawRc # 0) \/ (rawRc # 0 /\ hard)
  BY <1>4, <1>7, <1>8, Zenon DEF Certifies
<1>10. QED
  BY <1>9, Zenon

(* verl's exit code is weighed and no more: with the sync launcher a       *)
(* non-zero code is never made up for by a checkpoint, and an attempt that *)
(* has visibly saved its final version is not failed for that code unless  *)
(* the code counts or the log shows a crash.                               *)
THEOREM CodeIsWeighedHolds == Spec => CodeIsWeighed
<1>1. Init => CodeInv
  BY DEF Init, CodeInv, ExitCodeCounts
<1>2. IInv /\ [Next]_vars =>
        [verdict = "none" /\ verdict' = "failed" /\ Finished /\ readOk'
            => rawRc # 0 /\ (NonzeroFails \/ hard)]_vars
  BY FinishedStep
<1>3. CodeInv => ExitCodeCounts
  BY DEF CodeInv
<1>4. Spec => FinishedIsNotFailed
  BY <1>2, InductiveInvariant, PTL DEF Spec, FinishedIsNotFailed
<1>5. Spec => []ExitCodeCounts
  BY <1>1, <1>3, CodeStep, InductiveInvariant, PTL DEF Spec
<1>6. QED
  BY <1>4, <1>5, PTL DEF CodeIsWeighed

-----------------------------------------------------------------------------
(***************************************************************************)
(* The experiment controller, for every number of stages, whichever of     *)
(* them trains and exports, and every number of crashes, lost replies and  *)
(* repetitions.                                                            *)
(***************************************************************************)
(***************************************************************************)
(* The strengthening.  Everything the controller concludes about a stage   *)
(* goes back to AIR: a run that is over stays as it ended, and a receipt   *)
(* or a reply on the local disk has a run behind it.                       *)
(***************************************************************************)
CloudInv ==
    /\ OneRunPerStage
    /\ \A s \in Stages : runs[s] = 0 => air[s] = "none" /\ evidence[s] = "none"
    /\ \A s \in Stages : runs[s] > 0 => air[s] # "none"

DiskInv ==
    /\ \A s \in Stages : reply[s] # "none" => runs[s] > 0
    /\ \A s \in Stages : receipt[s] # "none" => runs[s] > 0
    /\ \A s \in Stages : receipt[s] \in {"SUCCESS", "FAILED"} => receipt[s] = air[s]

(* What the running controller knows of the stage it is at, and that all    *)
(* the stages before it have passed.                                        *)
InStage == pc \notin {"off", "archived", "frozen"}

AtInv ==
    /\ InStage => \A s \in Stages : s < stage => Passed(s)
    /\ pc \in {"write", "parse"} => runs[stage] > 0
    /\ pc = "poll" => receipt[stage] # "none"
    /\ pc = "flush" => receipt[stage] = "SUCCESS"
    /\ pc = "audit" => \/ air[stage] = "SUCCESS"
                       \/ stage = Train /\ air[stage] = "FAILED" /\ review = "proven"

FinalSafe == CloudInv /\ DiskInv /\ AtInv /\ StagesInOrder /\ CompleteIsEarned

FinalIInv == FinalTypes /\ FinalSafe

-----------------------------------------------------------------------------
(* Every variable keeps its type.                                          *)
LEMMA FinalTypeStep == FinalTypes /\ [FinalNext]_finalVars => FinalTypes'
<1> SUFFICES ASSUME FinalTypes, [FinalNext]_finalVars PROVE FinalTypes'
  OBVIOUS
<1> USE FinalConstantsOK DEF FinalTypes, Stages, Statuses, AirStates, Receipts, PCs, Outcomes
<1>0. CASE UNCHANGED finalVars
  BY <1>0 DEF finalVars, files, cloud
<1>1. CASE Prepare
  BY <1>1 DEF Prepare, Goes, Ends, Calm, cloud
<1>2. CASE DryRunFails
  BY <1>2 DEF DryRunFails, Ends, Trouble, files, cloud
<1>3. CASE Freeze
  BY <1>3 DEF Freeze, Goes, Calm, cloud
<1>4. CASE WritePrepared
  BY <1>4 DEF WritePrepared, Ends, Calm, cloud
<1>5. CASE Run
  BY <1>5 DEF Run, Goes, Ends, Calm, files, cloud
<1>6. CASE BeginStage
  BY <1>6 DEF BeginStage, Goes, Calm, Certified, cloud
<1>7. CASE ReviewRejected
  BY <1>7 DEF ReviewRejected, Ends, Calm, Raise, cloud
<1>8. CASE Submit
  BY <1>8 DEF Submit, Goes, Calm, KeyedRun, files
<1>9. CASE SubmitFails
  BY <1>9 DEF SubmitFails, Ends, Trouble, KeyedRun
<1>10. CASE OpenReply
  BY <1>10 DEF OpenReply, Goes, Calm, cloud
<1>11. CASE WriteReply
  BY <1>11 DEF WriteReply, Goes, Calm, cloud
<1>12. CASE FindReply
  BY <1>12 DEF FindReply, Goes, Calm, files, cloud
<1>13. CASE NoReceipt
  BY <1>13 DEF NoReceipt, Ends, Calm, Raise, cloud
<1>14. CASE ParseReply
  BY <1>14 DEF ParseReply, Goes, Calm, Recorded, cloud
<1>15. CASE Poll
  BY <1>15 DEF Poll, Goes, Calm, Recorded, cloud
<1>16. CASE FlushLog
  BY <1>16 DEF FlushLog, Goes, Calm, cloud
<1>17. CASE FlushTimesOut
  BY <1>17 DEF FlushTimesOut, Goes, Trouble, files, cloud
<1>18. CASE StageFailed
  BY <1>18 DEF StageFailed, Ends, Calm, Raise, cloud
<1>19. CASE StageCertified
  BY <1>19 DEF StageCertified, Goes, Calm, Certified, files, cloud
<1>20. CASE PollGivesUp
  BY <1>20 DEF PollGivesUp, Ends, Trouble, Raise, cloud
<1>21. CASE AuditPasses
  BY <1>21 DEF AuditPasses, Goes, Ends, Calm, NextStage, cloud
<1>22. CASE ExportIncomplete
  BY <1>22 DEF ExportIncomplete, Ends, Calm, Raise, cloud
<1>23. CASE AuditRejects
  BY <1>23 DEF AuditRejects, Ends, Calm, Raise, cloud
<1>24. CASE FetchFails
  BY <1>24 DEF FetchFails, Ends, Trouble, Raise, cloud
<1>25. CASE Crash
  BY <1>25 DEF Crash, Trouble, files, cloud
<1>26. ASSUME NEW s \in Stages, RunEnds(s) PROVE FinalTypes'
  BY <1>26 DEF RunEnds, files
<1>27. CASE OperatorReviews
  BY <1>27 DEF OperatorReviews, cloud
<1> HIDE DEF FinalTypes
<1> QED
  BY <1>0, <1>1, <1>2, <1>3, <1>4, <1>5, <1>6, <1>7, <1>8, <1>9, <1>10, <1>11, <1>12, <1>13, <1>14, <1>15, <1>16, <1>17, <1>18, <1>19, <1>20, <1>21, <1>22, <1>23, <1>24, <1>25, <1>26, <1>27
     DEF FinalNext, Preparation, Controller

(* The initial state is well typed, and nothing has been spent in it.      *)
LEMMA FinalInitIInv == FinalInit => FinalIInv
<1> SUFFICES ASSUME FinalInit PROVE FinalIInv
  OBVIOUS
<1>1. FinalTypes
  <2>1. 1 \in Stages /\ 0 \in 0..MaxTroubles
    BY FinalConstantsOK DEF Stages
  <2>2. /\ receipt \in [Stages -> Receipts] /\ reply \in [Stages -> {"none", "torn", "whole"}]
        /\ runs \in [Stages -> Nat] /\ air \in [Stages -> AirStates]
        /\ evidence \in [Stages -> {"none", "good", "bad"}]
    BY DEF FinalInit, Receipts, AirStates
  <2>3. QED
    BY <2>1, <2>2 DEF FinalInit, FinalTypes, Statuses, PCs, Outcomes
<1>2. FinalSafe
  BY DEF FinalInit, FinalSafe, CloudInv, DiskInv, AtInv, StagesInOrder, CompleteIsEarned, OneRunPerStage, InStage
<1>3. QED
  BY <1>1, <1>2 DEF FinalIInv

(* Each step keeps what is known of AIR, of the disk and of the stage.     *)
LEMMA FinalSafeStep == FinalIInv /\ [FinalNext]_finalVars => FinalSafe'
<1> SUFFICES ASSUME FinalIInv, [FinalNext]_finalVars PROVE FinalSafe'
  OBVIOUS
<1>t. FinalTypes /\ FinalTypes'
  BY FinalTypeStep DEF FinalIInv
<1>s. FinalSafe
  BY DEF FinalIInv
<1> USE FinalConstantsOK DEF FinalSafe, CloudInv, DiskInv, AtInv, StagesInOrder, CompleteIsEarned,
        OneRunPerStage, InStage, Passed, Stages, FinalTypes
<1>0. CASE UNCHANGED finalVars
  BY <1>0, <1>s, <1>t DEF finalVars, files, cloud
<1>1. CASE Prepare
  BY <1>1, <1>s, <1>t DEF Prepare, Goes, Ends, Calm, cloud
<1>2. CASE DryRunFails
  BY <1>2, <1>s, <1>t DEF DryRunFails, Ends, Trouble, files, cloud
<1>3. CASE Freeze
  BY <1>3, <1>s, <1>t DEF Freeze, Goes, Calm, cloud
<1>4. CASE WritePrepared
  BY <1>4, <1>s, <1>t DEF WritePrepared, Ends, Calm, cloud
<1>5. CASE Run
  BY <1>5, <1>s, <1>t DEF Run, Goes, Ends, Calm, files, cloud
<1>6. CASE BeginStage
  BY <1>6, <1>s, <1>t DEF BeginStage, Goes, Calm, Certified, cloud
<1>7. CASE ReviewRejected
  BY <1>7, <1>s, <1>t DEF ReviewRejected, Ends, Calm, Raise, cloud
<1>8. CASE Submit
  BY <1>8, <1>s, <1>t DEF Submit, Goes, Calm, KeyedRun, files
<1>9. CASE SubmitFails
  <2>1. UNCHANGED <<source, plan, receipt, reply, review, logged, evidence, stage>> /\ pc' = "off" /\ status' = "FAILED"
    BY <1>9 DEF SubmitFails, Ends
  <2>2. \A s \in Stages :
          \/ runs'[s] = runs[s] /\ air'[s] = air[s]
          \/ s = stage /\ runs'[s] = 1 /\ air'[s] = (IF runs[s] = 0 THEN "RUNNING" ELSE air[s])
    BY <1>9, <1>t DEF SubmitFails, KeyedRun
  <2>3. CloudInv'
    <3>1. CloudInv /\ \A s \in Stages : runs[s] \in Nat
      BY <1>s, <1>t
    <3> HIDE DEF FinalTypes, FinalSafe, DiskInv, AtInv, StagesInOrder, CompleteIsEarned, Stages
    <3>2. QED
      BY <2>1, <2>2, <3>1
  <2>4. DiskInv'
    BY <2>1, <2>2, <1>s, <1>t
  <2>5. AtInv' /\ CompleteIsEarned'
    BY <2>1
  <2>6. StagesInOrder'
    <3>1. \A s \in Stages : Passed(s) => Passed(s)'
      BY <2>1, <2>2, <1>s, <1>t
    <3>2. ASSUME NEW s \in Stages, s > 1, runs'[s] > 0 PROVE Passed(s - 1)
      <4>1. CASE s = stage
        <5>1. \A q \in Stages : q < stage => Passed(q)
          BY <1>9, <1>s DEF SubmitFails
        <5>2. s - 1 \in Stages /\ s - 1 < stage
          BY <3>2, <4>1
        <5>3. QED
          BY <5>1, <5>2
      <4>2. CASE s # stage
        <5>1. runs[s] > 0
          BY <2>2, <3>2, <4>2
        <5>2. QED
          BY <1>s, <3>2, <5>1
      <4>3. QED
        BY <4>1, <4>2
    <3>3. \A s \in Stages : s > 1 => s - 1 \in Stages
      OBVIOUS
    <3>4. QED
      BY <3>1, <3>2, <3>3
  <2>7. QED
    BY <2>3, <2>4, <2>5, <2>6
<1>10. CASE OpenReply
  BY <1>10, <1>s, <1>t DEF OpenReply, Goes, Calm, cloud
<1>11. CASE WriteReply
  BY <1>11, <1>s, <1>t DEF WriteReply, Goes, Calm, cloud
<1>12. CASE FindReply
  BY <1>12, <1>s, <1>t DEF FindReply, Goes, Calm, files, cloud
<1>13. CASE NoReceipt
  BY <1>13, <1>s, <1>t DEF NoReceipt, Ends, Calm, Raise, cloud
<1>14. CASE ParseReply
  BY <1>14, <1>s, <1>t DEF ParseReply, Goes, Calm, Recorded, cloud
<1>15. CASE Poll
  BY <1>15, <1>s, <1>t DEF Poll, Goes, Calm, Recorded, cloud
<1>16. CASE FlushLog
  BY <1>16, <1>s, <1>t DEF FlushLog, Goes, Calm, cloud
<1>17. CASE FlushTimesOut
  BY <1>17, <1>s, <1>t DEF FlushTimesOut, Goes, Trouble, files, cloud
<1>18. CASE StageFailed
  BY <1>18, <1>s, <1>t DEF StageFailed, Ends, Calm, Raise, cloud
<1>19. CASE StageCertified
  BY <1>19, <1>s, <1>t DEF StageCertified, Goes, Calm, Certified, files, cloud
<1>20. CASE PollGivesUp
  BY <1>20, <1>s, <1>t DEF PollGivesUp, Ends, Trouble, Raise, cloud
<1>21. CASE AuditPasses
  BY <1>21, <1>s, <1>t DEF AuditPasses, Goes, Ends, Calm, NextStage, cloud
<1>22. CASE ExportIncomplete
  BY <1>22, <1>s, <1>t DEF ExportIncomplete, Ends, Calm, Raise, cloud
<1>23. CASE AuditRejects
  BY <1>23, <1>s, <1>t DEF AuditRejects, Ends, Calm, Raise, cloud
<1>24. CASE FetchFails
  BY <1>24, <1>s, <1>t DEF FetchFails, Ends, Trouble, Raise, cloud
<1>25. CASE Crash
  BY <1>25, <1>s, <1>t DEF Crash, Trouble, files, cloud
<1>26. ASSUME NEW s \in Stages, RunEnds(s) PROVE FinalSafe'
  BY <1>26, <1>s, <1>t DEF RunEnds, files
<1>27. CASE OperatorReviews
  BY <1>27, <1>s, <1>t DEF OperatorReviews, cloud
<1> HIDE DEF FinalSafe
<1> QED
  BY <1>0, <1>1, <1>2, <1>3, <1>4, <1>5, <1>6, <1>7, <1>8, <1>9, <1>10, <1>11, <1>12, <1>13, <1>14, <1>15, <1>16, <1>17, <1>18, <1>19, <1>20, <1>21, <1>22, <1>23, <1>24, <1>25, <1>26, <1>27
     DEF FinalNext, Preparation, Controller

(* The strengthening is an invariant.                                      *)
THEOREM FinalInductiveInvariant == FinalSpec => []FinalIInv
<1>1. FinalIInv /\ [FinalNext]_finalVars => FinalIInv'
  BY FinalTypeStep, FinalSafeStep DEF FinalIInv
<1>2. QED
  BY FinalInitIInv, <1>1, PTL DEF FinalSpec

(* No GPU hour is spent on a stage whose predecessor has not passed, and   *)
(* COMPLETE is published only when every stage has, however often the      *)
(* controller crashes between two of its writes.                           *)
THEOREM StagesAreEarnedHolds == FinalSpec => []StagesAreEarned
<1>1. FinalIInv => StagesAreEarned
  BY DEF FinalIInv, FinalSafe, StagesAreEarned
<1>2. QED
  BY <1>1, FinalInductiveInvariant, PTL

-----------------------------------------------------------------------------
(* A step forgets no receipt, and gives a stage no terminal status that    *)
(* is not AIR's: only ParseReply and Poll write receipts, and a run that   *)
(* is over is not started again under its key.                             *)
LEMMA ReceiptStep == FinalIInv /\ [FinalNext]_finalVars => ReceiptIsKept
<1> SUFFICES ASSUME FinalIInv, [FinalNext]_finalVars PROVE ReceiptIsKept
  OBVIOUS
<1>s. DiskInv' /\ DiskInv /\ CloudInv /\ AtInv /\ FinalTypes
  BY FinalSafeStep DEF FinalIInv, FinalSafe
<1>1. CASE UNCHANGED receipt
  BY <1>1, <1>s DEF DiskInv, ReceiptIsKept
<1>2. CASE ParseReply \/ Poll
  BY <1>2, <1>s DEF ParseReply, Poll, Recorded, DiskInv, CloudInv, AtInv, FinalTypes, ReceiptIsKept
<1>3. \/ UNCHANGED receipt
      \/ ParseReply \/ Poll
  BY DEF FinalNext, Preparation, Controller, finalVars, files,
     Prepare, DryRunFails, Freeze, WritePrepared, Run, BeginStage, ReviewRejected, Raise,
     Submit, SubmitFails, OpenReply, WriteReply, FindReply, NoReceipt, FlushLog, FlushTimesOut,
     StageFailed, StageCertified, PollGivesUp, AuditPasses, NextStage, ExportIncomplete,
     AuditRejects, FetchFails, Crash, RunEnds, OperatorReviews
<1>4. QED
  BY <1>1, <1>2, <1>3

(* A stage is paid for once, and what its receipt says of it stays true,   *)
(* for any number of lost answers, torn replies and repeated commands.     *)
THEOREM PaidOnceHolds == FinalSpec => PaidOnce
<1>1. FinalIInv /\ [FinalNext]_finalVars => OneRunPerStage' /\ ReceiptIsKept
  BY FinalSafeStep, ReceiptStep DEF FinalSafe, CloudInv
<1>2. QED
  BY <1>1, FinalInductiveInvariant, PTL DEF FinalSpec, PaidOnce
=============================================================================
