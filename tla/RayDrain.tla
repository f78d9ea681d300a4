------------------------------ MODULE RayDrain ------------------------------
(***************************************************************************)
(* The Ray cluster of a multi-node training job (engine/lib/ray_cluster.sh)*)
(* over submissions that share one rendezvous directory on the Volume:     *)
(*                                                                         *)
(*   head      rank 0's launcher: cleanup trap, `ray start --head`, the    *)
(*             driver, and on exit the verdict in ray_head_done            *)
(*   heartbeat a background loop of the head, rewriting ray_head_alive     *)
(*   workers   the other ranks: join, then drain, polling the verdict, the *)
(*             heartbeat and the head's Ray port                           *)
(*                                                                         *)
(* A worker that stays keeps its GPUs billed until the job times out; one  *)
(* that leaves early takes its GPUs from a running training.               *)
(***************************************************************************)
EXTENDS Naturals

CONSTANTS
    Workers,        \* NODE_RANK # 0
    MaxAttempts,    \* bound: submissions of this RUN_ID
    JoinAttempts,   \* RAY_JOIN_ATTEMPTS
    Period,         \* RAY_HEARTBEAT_S, in ticks
    Stale,          \* RAY_HEARTBEAT_STALE_S, in ticks
    FailingWrites   \* submissions during which a write on the Volume may fail

ASSUME DrainConstantsOK ==
    /\ MaxAttempts \in Nat \ {0} /\ JoinAttempts \in Nat \ {0}
    /\ Period \in Nat \ {0} /\ Stale \in Nat /\ Period < Stale
    /\ FailingWrites \subseteq Nat

VARIABLES
    attempt,    \* submissions so far
    head,       \* where the head's launcher is
    rc,         \* the code it leaves with
    strict,     \* the launcher runs under `set -e`
    heartbeat,  \* the background loop
    beat,       \* ray_head_alive: who wrote it, and how many ticks ago
    done,       \* ray_head_done: who wrote it, and its verdict
    port,       \* the head's Ray port answers
    worker,     \* per worker: where it is in ray_worker_wait_and_exit
    tries,      \* per worker: joins attempted
    miss        \* per worker: consecutive probes of the port that failed

vars == <<attempt, head, rc, strict, heartbeat, beat, done, port, worker, tries, miss>>

headVars   == <<attempt, head, rc, strict>>
fileVars   == <<beat, done>>
workerVars == <<worker, tries, miss>>

Attempts == 0..MaxAttempts
WritesFail == attempt \in FailingWrites
NoRc == 999                             \* still running, or killed
Misses == 3
Ages == 0..(Stale + 1)                  \* Stale + 1: anything older

NoFile == [by |-> 0, rc |-> 0]
NoBeat == [by |-> 0, age |-> 0]

Heads == {"idle", "preflight", "trapped", "bootstrap", "driving",
          "cleanup", "verdict", "raystop", "ended", "killed"}
\* The four ways to leave, and the two halves of one round of the drain loop.
Draining == {"look", "probe"}
Left == {"nojoin", "ok", "failed", "stale", "gone"}
WorkerStates == {"off", "joining"} \cup Draining \cup Left

HeadOver  == head \in {"idle", "ended", "killed"}
HeadAlive == ~HeadOver
HeadCleansUp == head \in {"cleanup", "verdict", "raystop"}
Over == HeadOver /\ \A w \in Workers : worker[w] \in Left \cup {"off"}

Init ==
    /\ attempt = 0 /\ head = "idle" /\ rc = NoRc /\ strict = TRUE
    /\ heartbeat = "none" /\ beat = NoBeat /\ done = NoFile /\ port = FALSE
    /\ worker = [w \in Workers |-> "off"]
    /\ tries = [w \in Workers |-> 0] /\ miss = [w \in Workers |-> 0]

(* The job is submitted again: same directory, new processes, old files.   *)
Submit ==
    /\ Over /\ attempt < MaxAttempts
    /\ attempt' = attempt + 1
    /\ head' = "preflight" /\ rc' = NoRc /\ strict' = TRUE
    /\ heartbeat' = "none" /\ port' = FALSE
    /\ worker' = [w \in Workers |-> "joining"]
    /\ tries' = [w \in Workers |-> 0] /\ miss' = [w \in Workers |-> 0]
    /\ UNCHANGED fileVars

-----------------------------------------------------------------------------
(***************************************************************************)
(* The head.  Everything before the cleanup trap can fail with nothing to  *)
(* clean up; from the trap on every way out but SIGKILL goes through it.   *)
(***************************************************************************)
PreflightFails ==
    /\ head = "preflight"
    /\ head' = "ended" /\ rc' = 1
    /\ UNCHANGED <<attempt, strict, heartbeat, fileVars, port, workerVars>>

\* Mutant: the verdict of the last submission stays.
InstallTrapOnly ==
    /\ head = "preflight"
    /\ head' = "trapped"
    /\ heartbeat' = "alive"
    /\ UNCHANGED <<attempt, rc, strict, beat, done, port, workerVars>>

(* ray_install_cleanup_trap: rm -f ray_head_done, `|| true`. *)
InstallTrap ==
    /\ head = "preflight"
    /\ head' = "trapped"
    /\ heartbeat' = "alive"
    /\ done' \in {NoFile} \cup {d \in {done} : WritesFail}
    /\ UNCHANGED <<attempt, rc, strict, beat, port, workerVars>>

(***************************************************************************)
(* The first beat is written at once, while `ray start --head` takes       *)
(* seconds and a worker another RAY_JOIN_DELAY_S: no worker drains before. *)
(***************************************************************************)
FirstBeatTried == heartbeat = "dead" \/ beat.by = attempt

StartRay ==
    /\ head = "trapped" /\ FirstBeatTried
    /\ head' = "bootstrap" /\ port' = TRUE
    /\ UNCHANGED <<attempt, rc, strict, heartbeat, fileVars, workerVars>>

Registered == \A w \in Workers : worker[w] \in Draining

BootstrapReady ==
    /\ head = "bootstrap" /\ Registered
    /\ head' = "driving" /\ strict' = FALSE
    /\ UNCHANGED <<attempt, rc, heartbeat, fileVars, port, workerVars>>

(* `ray start --head` fails, or too few GPUs within RAY_NODES_TIMEOUT_S. *)
BootstrapFails ==
    /\ head \in {"trapped", "bootstrap"}
    /\ head' = "cleanup" /\ rc' = 1
    /\ UNCHANGED <<attempt, strict, heartbeat, fileVars, port, workerVars>>

(* The driver is over and the certificate has decided the exit code. *)
RunEnds(code) ==
    /\ head = "driving"
    /\ head' = "cleanup" /\ rc' = code /\ strict' = TRUE
    /\ UNCHANGED <<attempt, heartbeat, fileVars, port, workerVars>>

(***************************************************************************)
(* TERM.  The traps replace the exit code and leave through `cleanup`; in  *)
(* the middle of `cleanup` itself they just leave, for an EXIT trap does   *)
(* not run twice.                                                          *)
(***************************************************************************)
Signal ==
    /\ head \in {"trapped", "bootstrap", "driving"}
    /\ head' = "cleanup" /\ rc' = 143
    /\ UNCHANGED <<attempt, strict, heartbeat, fileVars, port, workerVars>>

SignalInCleanup ==
    /\ head \in {"verdict", "raystop"}
    /\ head' = "ended" /\ rc' = 143
    /\ UNCHANGED <<attempt, strict, heartbeat, fileVars, port, workerVars>>

(***************************************************************************)
(* cleanup().  Under `set -e` a failing last command of an && list ends    *)
(* the trap there: no such heartbeat to kill, or a rename that fails.      *)
(* Only a TERM during the run finds the launcher under `set +e`.           *)
(***************************************************************************)
EndEarly == head' = "ended" /\ rc' = 1

CleanupStopsHeartbeat ==
    /\ head = "cleanup"
    /\ heartbeat' = "dead"
    /\ IF heartbeat = "dead" /\ strict THEN EndEarly ELSE head' = "verdict" /\ rc' = rc
    /\ UNCHANGED <<attempt, strict, fileVars, port, workerVars>>

CleanupWritesVerdict ==
    /\ head = "verdict"
    /\ \/ done' = [by |-> attempt, rc |-> rc] /\ head' = "raystop" /\ rc' = rc
       \/ /\ WritesFail /\ done' = done
          /\ (head' = "raystop" /\ rc' = rc) \/ (strict /\ EndEarly)
    /\ UNCHANGED <<attempt, strict, heartbeat, beat, port, workerVars>>

CleanupStopsRay ==
    /\ head = "raystop"
    /\ port' = FALSE
    /\ head' = "ended"
    /\ UNCHANGED <<attempt, rc, strict, heartbeat, fileVars, workerVars>>

(* SIGKILL or the OOM killer: no trap runs and the Ray daemons stay, unless *)
(* the machine goes with them.                                              *)
Killed ==
    /\ HeadAlive
    /\ head' = "killed" /\ rc' = NoRc
    /\ port' \in {port, FALSE}
    /\ UNCHANGED <<attempt, strict, heartbeat, fileVars, workerVars>>

-----------------------------------------------------------------------------
(***************************************************************************)
(* The heartbeat: while its launcher lives, rewrite the file.  It runs     *)
(* under the launcher's `set -e`: a rename that fails ends it for good.    *)
(***************************************************************************)
Beat ==
    /\ heartbeat = "alive" /\ HeadAlive
    /\ beat' = [by |-> attempt, age |-> 0]
    /\ UNCHANGED <<headVars, heartbeat, done, port, workerVars>>

BeatFails ==
    /\ heartbeat = "alive" /\ HeadAlive
    /\ WritesFail
    /\ heartbeat' = "dead"
    /\ UNCHANGED <<headVars, fileVars, port, workerVars>>

BeatStops ==
    /\ heartbeat = "alive" /\ HeadOver
    /\ heartbeat' = "dead"
    /\ UNCHANGED <<headVars, fileVars, port, workerVars>>

(***************************************************************************)
(* Time.  A live heartbeat is never late by a whole tick; `cleanup` takes  *)
(* seconds, a stale beat ten minutes.                                      *)
(***************************************************************************)
BeatDue == heartbeat = "alive" /\ (beat.by # attempt \/ beat.age >= Period)

Tick ==
    /\ beat # NoBeat /\ beat.age <= Stale
    /\ ~BeatDue
    /\ ~HeadCleansUp
    /\ beat' = [beat EXCEPT !.age = @ + 1]
    /\ UNCHANGED <<headVars, heartbeat, done, port, workerVars>>

-----------------------------------------------------------------------------
(* Worker w: `ray start --address`, up to RAY_JOIN_ATTEMPTS times. *)
Becomes(w, s) == worker' = [worker EXCEPT ![w] = s]
WorkerOnly == UNCHANGED <<headVars, heartbeat, fileVars, port>>

Join(w) ==
    /\ worker[w] = "joining" /\ port
    /\ Becomes(w, "look")
    /\ UNCHANGED <<tries, miss>> /\ WorkerOnly

JoinFails(w) ==
    /\ worker[w] = "joining"
    /\ tries' = [tries EXCEPT ![w] = @ + 1]
    /\ Becomes(w, IF tries[w] + 1 = JoinAttempts THEN "nojoin" ELSE "joining")
    /\ UNCHANGED miss /\ WorkerOnly

\* Mutant: no such check.
NeverStale == FALSE

BeatIsStale == beat # NoBeat /\ beat.age > Stale

(***************************************************************************)
(* One round of the drain loop: the verdict and then the heartbeat, read   *)
(* within the same second, and the port.                                   *)
(***************************************************************************)
Look(w) ==
    /\ worker[w] = "look"
    /\ Becomes(w, CASE done # NoFile /\ done.rc = 0 -> "ok"
                    [] done # NoFile /\ done.rc # 0 -> "failed"
                    [] done = NoFile /\ BeatIsStale -> "stale"
                    [] OTHER -> "probe")
    /\ UNCHANGED <<tries, miss>> /\ WorkerOnly

Probe(w) ==
    /\ worker[w] = "probe"
    /\ miss' = [miss EXCEPT ![w] = IF port THEN 0 ELSE @ + 1]
    /\ Becomes(w, IF miss'[w] >= Misses THEN "gone" ELSE "look")
    /\ UNCHANGED tries /\ WorkerOnly

Worker(w) == Join(w) \/ JoinFails(w) \/ Look(w) \/ Probe(w)

Cleanup == CleanupStopsHeartbeat \/ CleanupWritesVerdict \/ CleanupStopsRay

Head ==
    \/ PreflightFails \/ InstallTrap \/ StartRay \/ BootstrapReady \/ BootstrapFails
    \/ \E code \in {0, 1} : RunEnds(code)
    \/ Cleanup

Next ==
    \/ Submit \/ Head \/ Signal \/ SignalInCleanup \/ Killed
    \/ Beat \/ BeatFails \/ BeatStops \/ Tick
    \/ \E w \in Workers : Worker(w)

(* Every loop that sleeps wakes up again, the heartbeat notices its         *)
(* launcher, cleanup runs and time passes; the driver owes no step.         *)
Fairness ==
    /\ WF_vars(Cleanup) /\ WF_vars(Beat) /\ WF_vars(BeatStops) /\ WF_vars(Tick)
    /\ \A w \in Workers : WF_vars(Worker(w))

Spec == Init /\ [][Next]_vars
FairSpec == Spec /\ Fairness

-----------------------------------------------------------------------------
TypeOK ==
    /\ attempt \in Attempts
    /\ head \in Heads
    /\ rc \in {0, 1, 143, NoRc}
    /\ strict \in BOOLEAN
    /\ heartbeat \in {"none", "alive", "dead"}
    /\ beat \in [by : Attempts, age : Ages]
    /\ done \in [by : Attempts, rc : {0, 1, 143}]
    /\ port \in BOOLEAN
    /\ worker \in [Workers -> WorkerStates]
    /\ tries \in [Workers -> 0..JoinAttempts]
    /\ miss \in [Workers -> 0..Misses]

(* No worker leaves a training that is running, whatever verdict, heartbeat *)
(* or port an earlier submission left behind, as long as the head's own     *)
(* writes reach the Volume.                                                 *)
WorkersStay == head = "driving" /\ ~WritesFail => Registered

(* A worker reports success on a verdict only for the head of its own       *)
(* submission, and only when that head's run succeeded.                     *)
SuccessIsTheHeads ==
    \A w \in Workers : worker[w] = "ok" /\ ~WritesFail =>
        /\ done = [by |-> attempt, rc |-> 0]
        /\ head \in {"raystop", "ended", "killed"}

(* "Head gone -> training finished": three silent probes may count as       *)
(* success only because a head that fails by itself writes its verdict      *)
(* before its port closes.  A worker that leaves on the port alone has lost *)
(* a killed head, not one that failed.                                      *)
GoneIsNotFailed ==
    \A w \in Workers : worker[w] = "gone" /\ ~WritesFail => head = "killed"

(* The message a worker leaves with when the heartbeat is old: the head     *)
(* "died without cleaning up".                                              *)
DiedWithoutCleaningUp ==
    \A w \in Workers : worker[w] = "stale" =>
        head = "killed" \/ (head = "ended" /\ port)

(* That message is true while the head's writes reach the Volume.           *)
StaleMeansDead == ~WritesFail => DiedWithoutCleaningUp

(* A worker stays with its own head while it trains, and leaves for what    *)
(* that head came to: never for another's files, and never as a success     *)
(* when the head failed.                                                    *)
WorkersFollowTheHead ==
    TypeOK /\ WorkersStay /\ SuccessIsTheHeads /\ GoneIsNotFailed /\ StaleMeansDead

(* No worker waits for the job timeout once its head is over, however the   *)
(* head went and whichever of its writes failed: unless the Ray port stays  *)
(* open and not one heartbeat was ever written.                             *)
WorkersLeave ==
    \A w \in Workers :
        (HeadOver /\ worker[w] # "off" /\ (beat # NoBeat \/ ~port)) ~> (worker[w] \in Left)

(* "On exit -- success, failure or a signal -- it ... stops Ray"            *)
(* (ray_install_cleanup_trap): a head that goes through its cleanup, not    *)
(* signalled again, leaves no Ray daemon behind.                            *)
StopsRay == [][HeadCleansUp /\ head' = "ended" /\ rc' # 143 => ~port']_vars
=============================================================================
