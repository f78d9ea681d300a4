----------------------------- MODULE Volume_proofs -----------------------------
(***************************************************************************)
(* The two protocols that meet only in files of a Volume.                  *)
(* RayDrain for every number of workers, submissions and join attempts,    *)
(* and every heartbeat period shorter than the age that counts as stale.   *)
(* StageModel for every number of submissions, commits and files, and any  *)
(* overlap of the commits' files, when whoever submits waits for the job   *)
(* before to be over.                                                      *)
(***************************************************************************)
EXTENDS RayDrain, StageModel, WellFoundedInduction, TLAPS

(***************************************************************************)
(* The strengthening.  A worker drains only after the head's Ray answered, *)
(* and from then on what it reads is of its own submission: the verdict of *)
(* an earlier one was removed, the first beat was written before.  The     *)
(* head closes its port after its verdict is there, so one silent probe is *)
(* all that a worker of a head that ends by itself can see.                *)
(***************************************************************************)
Drains(w) == worker[w] \notin {"off", "joining", "nojoin"}
Started == port \/ \E w \in Workers : Drains(w)

Bounds ==
    /\ \A w \in Workers : worker[w] = "joining" => tries[w] < JoinAttempts /\ miss[w] = 0
    /\ \A w \in Workers : worker[w] \in Draining => miss[w] < Misses
    /\ HeadCleansUp => rc # NoRc

HeadInv ==
    /\ head # "idle" => attempt > 0
    /\ head \in {"idle", "preflight", "trapped"} => ~Started
    /\ head \in {"bootstrap", "driving"} => port

BeatInv ==
    /\ beat.by <= attempt
    /\ head = "preflight" => beat.by < attempt /\ heartbeat = "none"
    /\ heartbeat = "alive" /\ beat.by = attempt => beat.age <= Period
    /\ ~WritesFail =>
        /\ head \in {"trapped", "bootstrap", "driving", "cleanup"} => heartbeat = "alive"
        /\ head \in {"verdict", "raystop"} /\ beat.by = attempt => beat.age <= Period
        /\ Started => beat.by = attempt

DoneInv ==
    ~WritesFail =>
        /\ head \in {"trapped", "bootstrap", "driving", "cleanup", "verdict"} => done = NoFile
        /\ head = "raystop" => done.by = attempt
        /\ Started => \/ done = NoFile
                      \/ done.by = attempt /\ head \in {"raystop", "ended", "killed"}
        /\ \A w \in Workers : Drains(w) /\ ~port =>
              head = "killed" \/ (head = "ended" /\ done.by = attempt)

MissInv ==
    ~WritesFail /\ head # "killed" =>
        \A w \in Workers :
            /\ worker[w] = "probe" => miss[w] = 0
            /\ worker[w] = "look" => miss[w] <= 1
            /\ worker[w] = "look" /\ miss[w] = 1 => done.by = attempt

IInv ==
    /\ TypeOK /\ Bounds
    /\ HeadInv /\ BeatInv /\ DoneInv /\ MissInv
    /\ WorkersStay /\ SuccessIsTheHeads /\ GoneIsNotFailed /\ StaleMeansDead

-----------------------------------------------------------------------------
(* Every variable keeps its type and its bound.                            *)
LEMMA TypeStep == TypeOK /\ Bounds /\ [Next]_vars => (TypeOK /\ Bounds)'
<1> SUFFICES ASSUME TypeOK, Bounds, [Next]_vars PROVE (TypeOK /\ Bounds)'
  OBVIOUS
<1>s. TypeOK /\ Bounds
  OBVIOUS
<1> USE DrainConstantsOK DEF TypeOK, Bounds, Attempts, Heads, Draining, Left, WorkerStates, Ages,
        NoRc, Misses, NoFile, NoBeat, HeadOver, HeadAlive, HeadCleansUp
<1>0. CASE UNCHANGED vars
  BY <1>0, <1>s DEF vars
<1>1. CASE Submit
  <2>1. strict' \in BOOLEAN /\ port' \in BOOLEAN
    BY <1>1, <1>s, ZenonT(60) DEF Submit, fileVars
  <2>2. attempt' \in Attempts /\ worker' \in [Workers -> WorkerStates]
    BY <1>1 DEF Submit, fileVars
  <2>3. tries' \in [Workers -> 0..JoinAttempts] /\ miss' \in [Workers -> 0..Misses]
    BY <1>1 DEF Submit, fileVars
  <2>4. Bounds'
    BY <1>1 DEF Submit, fileVars
  <2>5. QED
    BY <1>1, <2>1, <2>2, <2>3, <2>4 DEF Submit, fileVars
<1>2. CASE PreflightFails
  BY <1>2, <1>s DEF PreflightFails, fileVars, workerVars
<1>3. CASE InstallTrap
  BY <1>3, <1>s DEF InstallTrap, workerVars
<1>4. CASE StartRay
  BY <1>4, <1>s DEF StartRay, fileVars, workerVars, FirstBeatTried
<1>5. CASE BootstrapReady
  <2>1. strict' \in BOOLEAN /\ port' \in BOOLEAN
    BY <1>5, <1>s, Zenon DEF BootstrapReady, fileVars, workerVars
  <2>2. attempt' \in Attempts /\ worker' \in [Workers -> WorkerStates]
    BY <1>5 DEF BootstrapReady, fileVars, workerVars
  <2>3. tries' \in [Workers -> 0..JoinAttempts] /\ miss' \in [Workers -> 0..Misses]
    BY <1>5 DEF BootstrapReady, fileVars, workerVars
  <2>4. Bounds'
    BY <1>5 DEF BootstrapReady, fileVars, workerVars
  <2>5. QED
    BY <1>5, <2>1, <2>2, <2>3, <2>4 DEF BootstrapReady, fileVars, workerVars
<1>6. CASE BootstrapFails
  BY <1>6, <1>s DEF BootstrapFails, fileVars, workerVars
<1>7. CASE CleanupStopsHeartbeat
  BY <1>7, <1>s DEF CleanupStopsHeartbeat, fileVars, workerVars, EndEarly
<1>8. CASE CleanupWritesVerdict
  BY <1>8, <1>s DEF CleanupWritesVerdict, workerVars, EndEarly
<1>9. CASE CleanupStopsRay
  <2>1. strict' \in BOOLEAN /\ port' \in BOOLEAN
    BY <1>9, <1>s, ZenonT(60) DEF CleanupStopsRay, fileVars, workerVars
  <2>2. attempt' \in Attempts /\ worker' \in [Workers -> WorkerStates]
    BY <1>9 DEF CleanupStopsRay, fileVars, workerVars
  <2>3. tries' \in [Workers -> 0..JoinAttempts] /\ miss' \in [Workers -> 0..Misses]
    BY <1>9 DEF CleanupStopsRay, fileVars, workerVars
  <2>4. Bounds'
    BY <1>9 DEF CleanupStopsRay, fileVars, workerVars
  <2>5. QED
    BY <1>9, <2>1, <2>2, <2>3, <2>4 DEF CleanupStopsRay, fileVars, workerVars
<1>10. CASE Signal
  BY <1>10, <1>s DEF Signal, fileVars, workerVars
<1>11. CASE SignalInCleanup
  BY <1>11, <1>s DEF SignalInCleanup, fileVars, workerVars
<1>12. CASE Killed
  <2>1. strict' \in BOOLEAN /\ port' \in BOOLEAN
    <3>1. strict' = strict /\ (port' = port \/ port' = FALSE)
      BY <1>12, ZenonT(60) DEF Killed, headVars
    <3>2. strict \in BOOLEAN /\ port \in BOOLEAN
      BY <1>s
    <3>3. CASE port' = port
      BY <3>1, <3>2, <3>3, Zenon
    <3>4. CASE port' = FALSE
      BY <3>1, <3>2, <3>4, ZenonT(60)
    <3>5. QED
      BY <3>1, <3>3, <3>4
  <2>2. attempt' \in Attempts /\ worker' \in [Workers -> WorkerStates]
    BY <1>12 DEF Killed, fileVars, workerVars
  <2>3. tries' \in [Workers -> 0..JoinAttempts] /\ miss' \in [Workers -> 0..Misses]
    BY <1>12 DEF Killed, fileVars, workerVars
  <2>4. Bounds'
    BY <1>12 DEF Killed, fileVars, workerVars
  <2>5. QED
    BY <1>12, <2>1, <2>2, <2>3, <2>4 DEF Killed, fileVars, workerVars
<1>13. CASE Beat
  BY <1>13, <1>s DEF Beat, headVars, workerVars
<1>14. CASE BeatFails
  BY <1>14, <1>s DEF BeatFails, headVars, fileVars, workerVars
<1>15. CASE BeatStops
  BY <1>15, <1>s DEF BeatStops, headVars, fileVars, workerVars
<1>16. CASE Tick
  BY <1>16, <1>s DEF Tick, headVars, workerVars, BeatDue
<1>17. ASSUME NEW code \in {0, 1}, RunEnds(code) PROVE (TypeOK /\ Bounds)'
  BY <1>17, <1>s DEF RunEnds, fileVars, workerVars
<1>18. ASSUME NEW w \in Workers, Join(w) PROVE (TypeOK /\ Bounds)'
  BY <1>18, <1>s DEF Join, headVars, fileVars, Becomes, WorkerOnly
<1>19. ASSUME NEW w \in Workers, JoinFails(w) PROVE (TypeOK /\ Bounds)'
  BY <1>19, <1>s DEF JoinFails, headVars, fileVars, Becomes, WorkerOnly
<1>20. ASSUME NEW w \in Workers, Look(w) PROVE (TypeOK /\ Bounds)'
  BY <1>20, <1>s DEF Look, headVars, fileVars, Becomes, WorkerOnly, BeatIsStale
<1>21. ASSUME NEW w \in Workers, Probe(w) PROVE (TypeOK /\ Bounds)'
  BY <1>21, <1>s DEF Probe, headVars, fileVars, Becomes, WorkerOnly
<1> HIDE DEF TypeOK, Bounds
<1> QED
  BY <1>0, <1>1, <1>2, <1>3, <1>4, <1>5, <1>6, <1>7, <1>8, <1>9, <1>10, <1>11, <1>12, <1>13,
     <1>14, <1>15, <1>16, <1>17, <1>18, <1>19, <1>20, <1>21
     DEF Next, Head, Cleanup, Worker

(* The strengthening without the types.                                    *)
Safe ==
    /\ HeadInv /\ BeatInv /\ DoneInv /\ MissInv
    /\ WorkersStay /\ SuccessIsTheHeads /\ GoneIsNotFailed /\ StaleMeansDead

(* The initial state: nothing was submitted yet.                           *)
LEMMA InitIInv == Init => IInv
<1> SUFFICES ASSUME Init PROVE IInv
  OBVIOUS
<1> USE DrainConstantsOK DEF Init, NoRc, NoFile, NoBeat
<1>1. TypeOK
  <2>1. /\ 0 \in Attempts /\ 0 \in Ages /\ 0 \in 0..JoinAttempts /\ 0 \in 0..Misses
        /\ "off" \in WorkerStates
    BY DEF Attempts, Ages, Misses, WorkerStates, Left
  <2>2. strict \in BOOLEAN /\ port \in BOOLEAN
    BY Zenon
  <2>3. QED
    BY <2>1, <2>2 DEF TypeOK, Heads
<1>2. Bounds
  BY DEF Bounds, Draining, HeadCleansUp
<1>3. Safe
  BY DEF Safe, HeadInv, BeatInv, DoneInv, MissInv, WorkersStay, SuccessIsTheHeads, GoneIsNotFailed,
     StaleMeansDead, DiedWithoutCleaningUp, Started, Drains
<1>4. QED
  BY <1>1, <1>2, <1>3 DEF IInv, Safe

(* Each step keeps the strengthening.                                      *)
LEMMA SafeStep == IInv /\ [Next]_vars => Safe'
<1> SUFFICES ASSUME IInv, [Next]_vars PROVE Safe'
  OBVIOUS
<1>t. TypeOK /\ Bounds
  BY DEF IInv
<1>s. Safe
  BY DEF IInv, Safe
<1> USE DrainConstantsOK DEF Safe, HeadInv, BeatInv, DoneInv, MissInv, WorkersStay, SuccessIsTheHeads,
        GoneIsNotFailed, StaleMeansDead, DiedWithoutCleaningUp, Started, Drains, Registered, Draining,
        WritesFail, TypeOK, Bounds, Attempts, Ages, Misses, NoFile, NoBeat, HeadOver, HeadAlive, HeadCleansUp
<1>0. CASE UNCHANGED vars
  BY <1>0, <1>s, <1>t DEF vars
<1>1. CASE Submit
  BY <1>1, <1>s, <1>t DEF Submit, fileVars
<1>2. CASE PreflightFails
  BY <1>2, <1>s, <1>t DEF PreflightFails, fileVars, workerVars
<1>3. CASE InstallTrap
  BY <1>3, <1>s, <1>t DEF InstallTrap, workerVars
<1>4. CASE StartRay
  <2>1. HeadInv'
    BY <1>4, <1>s, <1>t DEF StartRay, fileVars, workerVars, FirstBeatTried
  <2>2. BeatInv'
    BY <1>4, <1>s, <1>t DEF StartRay, fileVars, workerVars, FirstBeatTried
  <2>3. DoneInv'
    BY <1>4, <1>s, <1>t DEF StartRay, fileVars, workerVars, FirstBeatTried
  <2>4. MissInv'
    BY <1>4, <1>s, <1>t DEF StartRay, fileVars, workerVars, FirstBeatTried
  <2>5. (WorkersStay /\ SuccessIsTheHeads)'
    BY <1>4, <1>s, <1>t DEF StartRay, fileVars, workerVars, FirstBeatTried
  <2>6. (GoneIsNotFailed /\ StaleMeansDead)'
    BY <1>4, <1>s, <1>t DEF StartRay, fileVars, workerVars, FirstBeatTried
  <2>7. QED
    BY <2>1, <2>2, <2>3, <2>4, <2>5, <2>6
<1>5. CASE BootstrapReady
  BY <1>5, <1>s, <1>t DEF BootstrapReady, fileVars, workerVars
<1>6. CASE BootstrapFails
  BY <1>6, <1>s, <1>t DEF BootstrapFails, fileVars, workerVars
<1>7. CASE CleanupStopsHeartbeat
  BY <1>7, <1>s, <1>t DEF CleanupStopsHeartbeat, fileVars, workerVars, EndEarly
<1>8. CASE CleanupWritesVerdict
  BY <1>8, <1>s, <1>t DEF CleanupWritesVerdict, workerVars, EndEarly
<1>9. CASE CleanupStopsRay
  BY <1>9, <1>s, <1>t DEF CleanupStopsRay, fileVars, workerVars
<1>10. CASE Signal
  BY <1>10, <1>s, <1>t DEF Signal, fileVars, workerVars
<1>11. CASE SignalInCleanup
  BY <1>11, <1>s, <1>t DEF SignalInCleanup, fileVars, workerVars
<1>12. CASE Killed
  <2>1. UNCHANGED <<attempt, heartbeat, beat, done, worker, miss>> /\ head' = "killed" /\ head # "idle"
    BY <1>12 DEF Killed, fileVars, workerVars, HeadAlive, HeadOver
  <2>2. port' => port
    <3>1. port' = port \/ port' = FALSE
      BY <1>12 DEF Killed
    <3>2. QED
      BY <3>1, Zenon
  <2>3. Started' => Started
    BY <2>1, <2>2
  <2>4. HeadInv'
    BY <2>1, <1>s
  <2>5. BeatInv'
    <3> HIDE DEF Started
    <3>1. QED
      BY <2>1, <2>3, <1>s
  <2>6. DoneInv' /\ MissInv'
    BY <2>1, <2>2, <1>s
  <2>7. QED
    BY <2>1, <2>4, <2>5, <2>6, <1>s
<1>13. CASE Beat
  <2>1. HeadInv'
    BY <1>13, <1>s, <1>t DEF Beat, headVars, workerVars
  <2>2. BeatInv'
    BY <1>13, <1>s, <1>t DEF Beat, headVars, workerVars
  <2>3. DoneInv'
    BY <1>13, <1>s, <1>t DEF Beat, headVars, workerVars
  <2>4. MissInv'
    BY <1>13, <1>s, <1>t DEF Beat, headVars, workerVars
  <2>5. (WorkersStay /\ SuccessIsTheHeads)'
    BY <1>13, <1>s, <1>t DEF Beat, headVars, workerVars
  <2>6. (GoneIsNotFailed /\ StaleMeansDead)'
    BY <1>13, <1>s, <1>t DEF Beat, headVars, workerVars
  <2>7. QED
    BY <2>1, <2>2, <2>3, <2>4, <2>5, <2>6
<1>14. CASE BeatFails
  BY <1>14, <1>s, <1>t DEF BeatFails, headVars, fileVars, workerVars
<1>15. CASE BeatStops
  BY <1>15, <1>s, <1>t DEF BeatStops, headVars, fileVars, workerVars
<1>16. CASE Tick
  <2>1. /\ beat.by \in Nat /\ beat.age \in Nat
        /\ beat'.by = beat.by /\ beat'.age = beat.age + 1
        /\ UNCHANGED <<attempt, head, rc, heartbeat, done, port, worker, miss>>
    BY <1>16, <1>t DEF Tick, headVars, workerVars
  <2>2. /\ heartbeat = "alive" => beat.by = attempt /\ beat.age + 1 <= Period
        /\ head \notin {"cleanup", "verdict", "raystop"}
    BY <1>16, <1>t, <2>1 DEF Tick, BeatDue
  <2>3. HeadInv' /\ DoneInv' /\ MissInv'
    BY <2>1, <1>s
  <2>4. BeatInv'
    BY <2>1, <2>2, <1>s
  <2>5. QED
    BY <2>1, <2>3, <2>4, <1>s
<1>17. ASSUME NEW code \in {0, 1}, RunEnds(code) PROVE Safe'
  BY <1>17, <1>s, <1>t DEF RunEnds, fileVars, workerVars
<1>18. ASSUME NEW w \in Workers, Join(w) PROVE Safe'
  BY <1>18, <1>s, <1>t DEF Join, headVars, fileVars, Becomes, WorkerOnly
<1>19. ASSUME NEW w \in Workers, JoinFails(w) PROVE Safe'
  BY <1>19, <1>s, <1>t DEF JoinFails, headVars, fileVars, Becomes, WorkerOnly
<1>20. ASSUME NEW w \in Workers, Look(w) PROVE Safe'
  <2>1. /\ worker[w] = "look"
        /\ UNCHANGED <<attempt, head, rc, strict, heartbeat, beat, done, port, tries, miss>>
        /\ \A v \in Workers \ {w} : worker'[v] = worker[v]
    BY <1>20, <1>t DEF Look, Becomes, WorkerOnly, headVars, fileVars
  <2>2. \/ worker'[w] = "ok" /\ done # NoFile /\ done.rc = 0
        \/ worker'[w] = "failed" /\ done # NoFile
        \/ worker'[w] = "stale" /\ done = NoFile /\ beat.age > Stale
        \/ worker'[w] = "probe" /\ done = NoFile /\ ~BeatIsStale
    BY <1>20, <1>t DEF Look, Becomes, BeatIsStale
  <2>3. ~WritesFail => /\ Started /\ beat.by = attempt
                       /\ head \in {"bootstrap", "driving", "cleanup", "verdict"} => done = NoFile
    BY <2>1, <1>s
  <2>4. ~WritesFail /\ head \in {"bootstrap", "driving", "cleanup", "verdict", "raystop"} =>
           beat.age <= Period /\ beat.age <= Stale
    <3>1. beat.age \in Nat /\ Period < Stale
      BY <1>t
    <3>2. QED
      BY <2>3, <3>1, <1>s
  <2>5. HeadInv' /\ BeatInv' /\ DoneInv' /\ MissInv'
    <3>1. Started' = Started
      BY <2>1, <2>2
    <3>2. HeadInv' /\ BeatInv'
      BY <2>1, <3>1, <1>s
    <3>3. DoneInv'
      BY <2>1, <2>2, <1>s
    <3>4. MissInv'
      BY <2>1, <2>2, <1>s, <1>t
    <3>5. QED
      BY <3>2, <3>3, <3>4
  <2>6. WorkersStay'
    <3>1. ~WritesFail /\ head = "driving" => done = NoFile /\ ~(beat.age > Stale)
      BY <2>3, <2>4, <1>t
    <3>2. ~WritesFail /\ head = "driving" => worker'[w] = "probe"
      BY <2>2, <3>1
    <3>3. QED
      BY <2>1, <3>2, <1>s, <1>t
  <2>7. SuccessIsTheHeads'
    <3>1. worker'[w] = "ok" /\ ~WritesFail =>
             done.by = attempt /\ head \in {"raystop", "ended", "killed"} /\ done.rc = 0
      BY <2>1, <2>2, <2>3, <1>s
    <3>2. worker'[w] = "ok" /\ ~WritesFail => done = [by |-> attempt, rc |-> 0]
      BY <3>1, <1>t
    <3>3. QED
      BY <2>1, <3>1, <3>2, <1>s
  <2>8. GoneIsNotFailed'
    BY <2>1, <2>2, <1>s
  <2>9. StaleMeansDead'
    <3>1. worker'[w] = "stale" /\ ~WritesFail => head \in {"ended", "killed"}
      BY <2>1, <2>2, <2>3, <2>4, <1>s, <1>t DEF Heads
    <3>2. worker'[w] = "stale" /\ ~WritesFail /\ head = "ended" => port
      BY <2>1, <2>2, <1>s, <1>t
    <3>3. QED
      BY <2>1, <3>1, <3>2, <1>s
  <2>10. QED
    BY <2>5, <2>6, <2>7, <2>8, <2>9
<1>21. ASSUME NEW w \in Workers, Probe(w) PROVE Safe'
  BY <1>21, <1>s, <1>t DEF Probe, headVars, fileVars, Becomes, WorkerOnly
<1> HIDE DEF Safe
<1> QED
  BY <1>0, <1>1, <1>2, <1>3, <1>4, <1>5, <1>6, <1>7, <1>8, <1>9, <1>10, <1>11, <1>12, <1>13,
     <1>14, <1>15, <1>16, <1>17, <1>18, <1>19, <1>20, <1>21
     DEF Next, Head, Cleanup, Worker

(* The strengthening is an invariant.                                      *)
THEOREM InductiveInvariant == Spec => []IInv
<1>1. IInv /\ [Next]_vars => IInv'
  BY TypeStep, SafeStep DEF IInv, Safe
<1>2. QED
  BY InitIInv, <1>1, PTL DEF Spec

(* A worker stays with its head while it trains and leaves for what that   *)
(* head came to, for any number of nodes and of earlier submissions whose  *)
(* files are still in the directory.                                       *)
THEOREM WorkersFollowTheHeadHolds == Spec => []WorkersFollowTheHead
<1>1. IInv => WorkersFollowTheHead
  BY DEF IInv, WorkersFollowTheHead
<1>2. QED
  BY <1>1, InductiveInvariant, PTL

-----------------------------------------------------------------------------
(***************************************************************************)
(* The strengthening.  Only the active job writes.  From the check of      *)
(* STAGED.json on, nothing in the directory speaks for another commit than *)
(* its own; its dictionary lists what is on the disk; and what it still    *)
(* has to do is all that is missing.                                       *)
(***************************************************************************)
OneActive == \A j, k \in Jobs : Active(j) /\ Active(k) => j = k

Past == Writing \cup {"checkProgress", "already", "lookLock", "takeLock"}

OwnInv ==
    /\ \A f \in Files : progress.files[f] \in {None, progress.rev}
    /\ \A j \in Jobs :
        /\ pc[j] \in Past => staged \in {None, commit[j]}
        /\ pc[j] \in Past \ {"checkProgress"} => progress.rev \in {None, commit[j]}
        /\ pc[j] \in {"lookLock", "takeLock", "load", "file", "record", "declare"} => staged = None
        /\ pc[j] = "forget" => staged = commit[j]

WorkInv ==
    \A j \in Jobs :
        /\ pc[j] \in {"file", "record", "declare", "forget"} =>
            /\ mem[j].rev = commit[j]
            /\ todo[j] \subseteq FilesOf[commit[j]]
            /\ \A f \in FilesOf[commit[j]] \ todo[j] : disk[f] = commit[j]
            /\ \A f \in Files : mem[j].files[f] \in {None, commit[j]}
            /\ \A f \in Files : mem[j].files[f] \in {None, disk[f]} \/ (pc[j] = "record" /\ f = Next1(j))
        /\ pc[j] = "record" => todo[j] # {} /\ disk[Next1(j)] = commit[j]
        /\ pc[j] \in {"declare", "forget"} => todo[j] = {}

StageSafe == OneActive /\ OwnInv /\ WorkInv /\ StagedIsTrue /\ RecordIsTrue /\ LockFollowsJob

(* What holds of the types however many jobs run side by side.             *)
TypeInv ==
    /\ StageTypeOK
    /\ progress = NoProgress \/ progress.rev \in Commits
    /\ \A j \in Jobs : pc[j] # "off" => commit[j] \in Commits

StageIInv == TypeInv /\ StageSafe

-----------------------------------------------------------------------------
(* A nonempty set of file numbers has a first one.                         *)
LEMMA FirstExists ==
    ASSUME NEW T \in SUBSET Nat, T # {}
    PROVE  \E x \in T : \A y \in T : x <= y
<1> DEFINE R == OpToRel(<, Nat)
<1>1. IsWellFoundedOn(R, Nat)
  BY NatLessThanWellFounded
<1>2. \A x, y \in Nat : <<x, y>> \in R <=> x < y
  BY DEF OpToRel
<1> HIDE DEF R
<1>3. PICK x \in T : \A y \in T : ~ (<<y, x>> \in R)
  BY <1>1, WFMin
<1>4. ASSUME NEW y \in T PROVE x <= y
  <2>1. x \in Nat /\ y \in Nat /\ <<y, x>> \notin R
    BY <1>3
  <2>2. ~ (y < x)
    BY <2>1, <1>2
  <2>3. QED
    BY <2>1, <2>2
<1>5. QED
  BY <1>4

(* The file a job takes next is one it still has to do.                    *)
LEMMA Next1IsAhead ==
    ASSUME StageTypeOK, NEW j \in Jobs, todo[j] # {}
    PROVE  Next1(j) \in todo[j]
<1>1. todo[j] \in SUBSET Nat
  BY StageConstantsOK DEF StageTypeOK
<1>2. \E f \in todo[j] : \A g \in todo[j] : f <= g
  BY <1>1, FirstExists
<1>3. QED
  BY <1>2 DEF Next1

(* Every variable keeps its type.                                          *)
LEMMA StageTypeStep == TypeInv /\ [StageNext]_stageVars => TypeInv'
<1> SUFFICES ASSUME TypeInv, [StageNext]_stageVars PROVE TypeInv'
  OBVIOUS
<1>s. TypeInv
  OBVIOUS
<1> USE StageConstantsOK DEF TypeInv, StageTypeOK, Active, Writing, Checking, JobOver, Progress
<1>0. CASE UNCHANGED stageVars
  BY <1>0, <1>s DEF stageVars
<1>1. CASE LockAges
  BY <1>1, <1>s DEF LockAges, recordVars, jobVars
<1>2. ASSUME NEW j \in Jobs, Start(j) PROVE TypeInv'
  BY <1>2, <1>s DEF Start, Goes, recordVars
<1>3. ASSUME NEW j \in Jobs, CheckStaged(j) PROVE TypeInv'
  BY <1>3, <1>s DEF CheckStaged, Goes, Refuses, recordVars, jobVars
<1>4. ASSUME NEW j \in Jobs, CheckProgress(j) PROVE TypeInv'
  BY <1>4, <1>s DEF CheckProgress, Goes, Refuses, recordVars, jobVars
<1>5. ASSUME NEW j \in Jobs, Already(j) PROVE TypeInv'
  BY <1>5, <1>s DEF Already, Goes, recordVars, jobVars
<1>6. ASSUME NEW j \in Jobs, LookLock(j) PROVE TypeInv'
  BY <1>6, <1>s DEF LookLock, Goes, recordVars, jobVars
<1>7. ASSUME NEW j \in Jobs, TakeLock(j) PROVE TypeInv'
  BY <1>7, <1>s DEF TakeLock, Goes, recordVars, jobVars
<1>8. ASSUME NEW j \in Jobs, LoadProgress(j) PROVE TypeInv'
  BY <1>8, <1>s DEF LoadProgress, Goes, recordVars, NoProgress, NoFilesYet
<1>9. ASSUME NEW j \in Jobs, SkipFile(j) PROVE TypeInv'
  BY <1>9, <1>s DEF SkipFile, VerifiedAlready, Record
<1>10. ASSUME NEW j \in Jobs, CopyFile(j) PROVE TypeInv'
  BY <1>10, <1>s DEF CopyFile, Goes, VerifiedAlready, recordVars, jobVars
<1>11. ASSUME NEW j \in Jobs, RecordFile(j) PROVE TypeInv'
  BY <1>11, <1>s DEF RecordFile, Goes, Record
<1>12. ASSUME NEW j \in Jobs, FileFails(j) PROVE TypeInv'
  BY <1>12, <1>s DEF FileFails, Goes, recordVars, jobVars
<1>13. ASSUME NEW j \in Jobs, AllFilesDone(j) PROVE TypeInv'
  BY <1>13, <1>s DEF AllFilesDone, Goes, recordVars, jobVars
<1>14. ASSUME NEW j \in Jobs, Declare(j) PROVE TypeInv'
  BY <1>14, <1>s DEF Declare, Goes, jobVars
<1>15. ASSUME NEW j \in Jobs, Forget(j) PROVE TypeInv'
  BY <1>15, <1>s DEF Forget, Goes, jobVars, NoProgress, NoFilesYet
<1>16. ASSUME NEW j \in Jobs, Unlock(j) PROVE TypeInv'
  BY <1>16, <1>s DEF Unlock, Goes, recordVars, jobVars
<1>17. ASSUME NEW j \in Jobs, Crash(j) PROVE TypeInv'
  BY <1>17, <1>s DEF Crash, Goes, recordVars, jobVars
<1> HIDE DEF TypeInv
<1> QED
  BY <1>0, <1>1, <1>2, <1>3, <1>4, <1>5, <1>6, <1>7, <1>8, <1>9, <1>10, <1>11, <1>12, <1>13,
     <1>14, <1>15, <1>16, <1>17
     DEF StageNext, Main

(* Each step keeps the strengthening, when jobs follow each other.         *)
LEMMA StageSafeStep ==
    ASSUME Alone
    PROVE  StageIInv /\ [StageNext]_stageVars => StageSafe'
<1> SUFFICES ASSUME StageIInv, [StageNext]_stageVars PROVE StageSafe'
  OBVIOUS
<1>t. TypeInv /\ TypeInv'
  BY StageTypeStep DEF StageIInv
<1>s. StageSafe
  BY DEF StageIInv
<1>n. \A j \in Jobs : todo'[j] = todo[j] => Next1(j)' = Next1(j)
  BY DEF Next1
<1> USE StageConstantsOK DEF StageSafe, OneActive, OwnInv, WorkInv, StagedIsTrue, RecordIsTrue, LockFollowsJob,
        Active, Past, TypeInv, StageTypeOK, Writing, Checking, JobOver, Progress
<1>0. CASE UNCHANGED stageVars
  BY <1>0, <1>s, <1>t, <1>n DEF stageVars
<1>1. CASE LockAges
  BY <1>1, <1>s, <1>t, <1>n DEF LockAges, recordVars, jobVars
<1>2. ASSUME NEW j \in Jobs, Start(j) PROVE StageSafe'
  BY <1>2, <1>s, <1>t, <1>n DEF Start, Goes, recordVars
<1>3. ASSUME NEW j \in Jobs, CheckStaged(j) PROVE StageSafe'
  BY <1>3, <1>s, <1>t, <1>n DEF CheckStaged, Goes, Refuses, recordVars, jobVars
<1>4. ASSUME NEW j \in Jobs, CheckProgress(j) PROVE StageSafe'
  <2>1. OneActive'
    BY <1>4, <1>s, <1>t, <1>n DEF CheckProgress, Goes, Refuses, recordVars, jobVars
  <2>2. OwnInv'
    BY <1>4, <1>s, <1>t, <1>n DEF CheckProgress, Goes, Refuses, recordVars, jobVars
  <2>3. WorkInv'
    BY <1>4, <1>s, <1>t, <1>n DEF CheckProgress, Goes, Refuses, recordVars, jobVars
  <2>4. StagedIsTrue' /\ RecordIsTrue'
    BY <1>4, <1>s, <1>t, <1>n DEF CheckProgress, Goes, Refuses, recordVars, jobVars
  <2>5. LockFollowsJob'
    BY <1>4, <1>s, <1>t, <1>n DEF CheckProgress, Goes, Refuses, recordVars, jobVars
  <2>6. QED
    BY <2>1, <2>2, <2>3, <2>4, <2>5
<1>5. ASSUME NEW j \in Jobs, Already(j) PROVE StageSafe'
  <2>1. OneActive'
    BY <1>5, <1>s, <1>t, <1>n DEF Already, Goes, recordVars, jobVars
  <2>2. OwnInv'
    BY <1>5, <1>s, <1>t, <1>n DEF Already, Goes, recordVars, jobVars
  <2>3. WorkInv'
    BY <1>5, <1>s, <1>t, <1>n DEF Already, Goes, recordVars, jobVars
  <2>4. StagedIsTrue' /\ RecordIsTrue'
    BY <1>5, <1>s, <1>t, <1>n DEF Already, Goes, recordVars, jobVars
  <2>5. LockFollowsJob'
    BY <1>5, <1>s, <1>t, <1>n DEF Already, Goes, recordVars, jobVars
  <2>6. QED
    BY <2>1, <2>2, <2>3, <2>4, <2>5
<1>6. ASSUME NEW j \in Jobs, LookLock(j) PROVE StageSafe'
  BY <1>6, <1>s, <1>t, <1>n DEF LookLock, Goes, recordVars, jobVars
<1>7. ASSUME NEW j \in Jobs, TakeLock(j) PROVE StageSafe'
  BY <1>7, <1>s, <1>t, <1>n DEF TakeLock, Goes, recordVars, jobVars
<1>8. ASSUME NEW j \in Jobs, LoadProgress(j) PROVE StageSafe'
  BY <1>8, <1>s, <1>t, <1>n DEF LoadProgress, Goes, recordVars, NoProgress, NoFilesYet
<1>9. ASSUME NEW j \in Jobs, SkipFile(j) PROVE StageSafe'
  <2>1. todo[j] # {} /\ Next1(j) \in todo[j] /\ Next1(j) \in Files
    <3>1. todo[j] # {}
      BY <1>9 DEF SkipFile
    <3>2. QED
      BY <3>1, <1>t, Next1IsAhead
  <2>2. OneActive'
    BY <1>9, <2>1, <1>s, <1>t, <1>n DEF SkipFile, VerifiedAlready, Record
  <2>3. OwnInv'
    BY <1>9, <2>1, <1>s, <1>t, <1>n DEF SkipFile, VerifiedAlready, Record
  <2>4. WorkInv'
    BY <1>9, <2>1, <1>s, <1>t, <1>n DEF SkipFile, VerifiedAlready, Record
  <2>5. StagedIsTrue' /\ RecordIsTrue'
    BY <1>9, <2>1, <1>s, <1>t, <1>n DEF SkipFile, VerifiedAlready, Record
  <2>6. LockFollowsJob'
    BY <1>9, <2>1, <1>s, <1>t, <1>n DEF SkipFile, VerifiedAlready, Record
  <2>7. QED
    BY <2>2, <2>3, <2>4, <2>5, <2>6
<1>10. ASSUME NEW j \in Jobs, CopyFile(j) PROVE StageSafe'
  <2>1. todo[j] # {} /\ Next1(j) \in todo[j] /\ Next1(j) \in Files
    <3>1. todo[j] # {}
      BY <1>10 DEF CopyFile
    <3>2. QED
      BY <3>1, <1>t, Next1IsAhead
  <2>2. OneActive'
    BY <1>10, <2>1, <1>s, <1>t, <1>n DEF CopyFile, Goes, VerifiedAlready, recordVars, jobVars
  <2>3. OwnInv'
    BY <1>10, <2>1, <1>s, <1>t, <1>n DEF CopyFile, Goes, VerifiedAlready, recordVars, jobVars
  <2>4. WorkInv'
    BY <1>10, <2>1, <1>s, <1>t, <1>n DEF CopyFile, Goes, VerifiedAlready, recordVars, jobVars
  <2>5. StagedIsTrue' /\ RecordIsTrue'
    BY <1>10, <2>1, <1>s, <1>t, <1>n DEF CopyFile, Goes, VerifiedAlready, recordVars, jobVars
  <2>6. LockFollowsJob'
    BY <1>10, <2>1, <1>s, <1>t, <1>n DEF CopyFile, Goes, VerifiedAlready, recordVars, jobVars
  <2>7. QED
    BY <2>2, <2>3, <2>4, <2>5, <2>6
<1>11. ASSUME NEW j \in Jobs, RecordFile(j) PROVE StageSafe'
  <2>1. todo[j] # {} /\ Next1(j) \in todo[j] /\ Next1(j) \in Files
    <3>1. pc[j] = "record" /\ todo[j] # {}
      BY <1>11, <1>s DEF RecordFile
    <3>2. QED
      BY <3>1, <1>t, Next1IsAhead
  <2>2. OneActive'
    BY <1>11, <2>1, <1>s, <1>t, <1>n DEF RecordFile, Goes, Record
  <2>3. OwnInv'
    BY <1>11, <2>1, <1>s, <1>t, <1>n DEF RecordFile, Goes, Record
  <2>4. WorkInv'
    BY <1>11, <2>1, <1>s, <1>t, <1>n DEF RecordFile, Goes, Record
  <2>5. StagedIsTrue' /\ RecordIsTrue'
    BY <1>11, <2>1, <1>s, <1>t, <1>n DEF RecordFile, Goes, Record
  <2>6. LockFollowsJob'
    BY <1>11, <2>1, <1>s, <1>t, <1>n DEF RecordFile, Goes, Record
  <2>7. QED
    BY <2>2, <2>3, <2>4, <2>5, <2>6
<1>12. ASSUME NEW j \in Jobs, FileFails(j) PROVE StageSafe'
  BY <1>12, <1>s, <1>t, <1>n DEF FileFails, Goes, recordVars, jobVars
<1>13. ASSUME NEW j \in Jobs, AllFilesDone(j) PROVE StageSafe'
  BY <1>13, <1>s, <1>t, <1>n DEF AllFilesDone, Goes, recordVars, jobVars
<1>14. ASSUME NEW j \in Jobs, Declare(j) PROVE StageSafe'
  BY <1>14, <1>s, <1>t, <1>n DEF Declare, Goes, jobVars
<1>15. ASSUME NEW j \in Jobs, Forget(j) PROVE StageSafe'
  BY <1>15, <1>s, <1>t, <1>n, SMTT(40) DEF Forget, Goes, jobVars, NoProgress, NoFilesYet
<1>16. ASSUME NEW j \in Jobs, Unlock(j) PROVE StageSafe'
  BY <1>16, <1>s, <1>t, <1>n DEF Unlock, Goes, recordVars, jobVars
<1>17. ASSUME NEW j \in Jobs, Crash(j) PROVE StageSafe'
  BY <1>17, <1>s, <1>t, <1>n DEF Crash, Goes, recordVars, jobVars
<1> HIDE DEF StageSafe
<1> QED
  BY <1>0, <1>1, <1>2, <1>3, <1>4, <1>5, <1>6, <1>7, <1>8, <1>9, <1>10, <1>11, <1>12, <1>13,
     <1>14, <1>15, <1>16, <1>17
     DEF StageNext, Main

(* The initial state: an empty directory.                                  *)
LEMMA StageInitIInv == StageInit => StageIInv
<1> SUFFICES ASSUME StageInit PROVE StageIInv
  OBVIOUS
<1>1. TypeInv
  <2>1. NoFilesYet \in [Files -> Commits \cup {None}] /\ NoProgress \in Progress
    BY DEF NoFilesYet, NoProgress, Progress
  <2>2. /\ disk \in [Files -> Commits \cup {None}] /\ progress \in Progress
        /\ staged \in Commits \cup {None} /\ lock \in {"free", "fresh", "stale"}
        /\ mem \in [Jobs -> Progress]
    BY <2>1 DEF StageInit
  <2>3. pc \in [Jobs -> {"off"} \cup Checking \cup Writing \cup JobOver]
    BY DEF StageInit
  <2>4. commit \in [Jobs -> Commits \cup {None}] /\ todo \in [Jobs -> SUBSET Files]
    BY DEF StageInit
  <2>5. \A j \in Jobs : pc[j] \notin Writing \cup Checking
    BY DEF StageInit, Writing, Checking
  <2>6. \A j \in Jobs : pc[j] = "off"
    BY DEF StageInit
  <2>7. StageTypeOK
    BY <2>2, <2>3, <2>4, <2>5 DEF StageTypeOK
  <2>8. progress = NoProgress
    BY DEF StageInit
  <2>9. QED
    BY <2>6, <2>7, <2>8 DEF TypeInv
<1>2. StageSafe
  BY DEF StageInit, StageSafe, OneActive, OwnInv, WorkInv, StagedIsTrue, RecordIsTrue, LockFollowsJob, Active, Past,
     Writing, Checking, NoProgress, NoFilesYet
<1>3. QED
  BY <1>1, <1>2 DEF StageIInv

(* Types and commits are right whether or not jobs overlap.                *)
THEOREM TypesHold == StageSpec => []TypeInv
<1>1. StageInit => TypeInv
  BY StageInitIInv DEF StageIInv
<1>2. QED
  BY <1>1, StageTypeStep, PTL DEF StageSpec

(* When jobs follow each other the directory tells the truth about itself  *)
(* between any two steps, after any number of crashes and retries, of any  *)
(* commits, whatever file names they share.                                *)
THEOREM DirectoryIsTrueHolds ==
    ASSUME Alone
    PROVE  StageSpec => []DirectoryIsTrue
<1>1. StageIInv /\ [StageNext]_stageVars => StageIInv'
  BY StageTypeStep, StageSafeStep DEF StageIInv
<1>2. StageIInv => DirectoryIsTrue
  BY DEF StageIInv, TypeInv, StageSafe, DirectoryIsTrue
<1>3. QED
  BY StageInitIInv, <1>1, <1>2, PTL DEF StageSpec

(* Only a copy changes a file, and the copying job's commit is the only    *)
(* one the directory can be recorded for.                                  *)
LEMMA WriteStep ==
    ASSUME StageIInv, [StageNext]_stageVars, NEW f \in Files, disk'[f] # disk[f]
    PROVE  staged = None /\ progress.rev \in {None, disk'[f]}
<1>1. disk' # disk
  OBVIOUS
<1>2. PICK j \in Jobs : Start(j) \/ Main(j) \/ Crash(j)
  BY <1>1 DEF StageNext, LockAges, stageVars
<1>3. CopyFile(j)
  BY <1>1, <1>2 DEF Main, Start, Crash, CheckStaged, CheckProgress, Already, LookLock, TakeLock,
     LoadProgress, SkipFile, RecordFile, FileFails, AllFilesDone, Declare, Forget, Unlock
<1>4. disk \in [Files -> Commits \cup {None}]
  BY DEF StageIInv, TypeInv, StageTypeOK
<1>5. pc[j] = "file" /\ disk'[f] = commit[j]
  BY <1>3, <1>4 DEF CopyFile
<1>6. QED
  BY <1>5 DEF StageIInv, StageSafe, OwnInv, Past, Writing

(* When jobs follow each other a directory is of one revision: what is     *)
(* written into it is of the revision its record names, and nothing is     *)
(* written once it is declared complete, for any commits, files and        *)
(* crashes.                                                                *)
THEOREM OneRevisionHolds ==
    ASSUME Alone
    PROVE  StageSpec => OneRevision
<1>1. StageIInv /\ [StageNext]_stageVars => StageIInv'
  BY StageTypeStep, StageSafeStep DEF StageIInv
<1>2. StageIInv /\ [StageNext]_stageVars =>
        [\A f \in Files : disk'[f] # disk[f] =>
            staged = None /\ progress.rev \in {None, disk'[f]}]_stageVars
  BY WriteStep
<1>3. QED
  BY StageInitIInv, <1>1, <1>2, PTL DEF StageSpec, OneRevision
=============================================================================
