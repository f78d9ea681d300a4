----------------------------- MODULE JudgeReward -----------------------------
(***************************************************************************)
(* One reward worker of a judged training (usecases/math/reward.py).  verl *)
(* awaits compute_score for many samples at once; each asks the judge,     *)
(* retries what is transient, and is scored by a rule when no valid        *)
(* verdict came in time.  A sliding window over the worker's calls raises  *)
(* the run's abort channel when the judge fails too often.                 *)
(*                                                                         *)
(* Two things must never happen: a call that raises or outlasts verl's own *)
(* timeout (its result has other keys, and the batch is lost), and a judge *)
(* outage that silently turns the experiment into rule-based training.     *)
(*                                                                         *)
(* Time is counted in ticks; the worker's event loop is never blocked for  *)
(* a whole one.                                                            *)
(***************************************************************************)
EXTENDS Integers, Sequences, FiniteSets

CONSTANTS
    Slots,          \* calls in flight: max_concurrent
    MaxCalls,       \* bound: calls of this worker
    Deadline,       \* JUDGE_DEADLINE_S, below REWARD_TIMEOUT
    Timeout,        \* JUDGE_TIMEOUT, of one attempt
    Retries,        \* JUDGE_RETRIES
    Backoff,        \* JUDGE_BACKOFF_S
    Window,         \* JUDGE_FAIL_WINDOW
    MinCalls,       \* JUDGE_FAIL_MIN_CALLS
    Logged,         \* how many failures are logged: 5
    RateNum, RateDen \* JUDGE_MAX_FAIL_RATE, as a fraction

ASSUME RewardConstantsOK ==
    /\ {MaxCalls, Retries, Logged} \subseteq Nat
    /\ {Deadline, Timeout, Backoff, Window, MinCalls, RateDen} \subseteq Nat \ {0}
    /\ RateNum \in 0..RateDen
    /\ MinCalls <= Window
    /\ IsFiniteSet(Slots)

VARIABLES
    source,     \* REWARD_SOURCE: "judge", "rule", or "bad": not one of its values
    volume,     \* the Volume under the abort channel: "ok" or "flaky"
    published,  \* the judge's endpoint file can be read on this node
    cached,     \* _resolved_url
    calls,      \* how many began
    call,       \* per slot: the compute_score that runs in it
    window,     \* _BUDGET.window: TRUE is a failure
    latched,    \* _BUDGET.aborted
    abort,      \* ABORT.json is there
    history,    \* every outcome recorded; the code keeps how many failures it has logged
    fallbacks   \* history: judged calls answered by JUDGE_FALLBACK

runVars    == <<source, volume>>
urlVars    == <<published, cached>>
budgetVars == <<window, latched, abort, history>>
rewardVars == <<runVars, urlVars, calls, call, budgetVars, fallbacks>>

Urls   == {"none", "judge", "localhost"}
Asking == {"asking", "backoff"}         \* inside wait_for(call_judge(...))
InCall == Asking \cup {"grading"}       \* "grading": waits for the rule score
Places == {"idle", "raised"} \cup InCall

(***************************************************************************)
(* A call: age counts its ticks, until is the age at which the wait_for it *)
(* is in gives up, wait the ticks left of the attempt or of the back-off.  *)
(***************************************************************************)
Idle == [at |-> "idle", url |-> "none", tries |-> 0, wait |-> 0,
         age |-> 0, until |-> 0, failed |-> FALSE, rule |-> "none"]

RewardInit ==
    /\ source \in {"judge", "rule", "bad"} /\ volume \in {"ok", "flaky"}
    /\ published \in BOOLEAN /\ cached = "none"
    /\ calls = 0 /\ call = [s \in Slots |-> Idle]
    /\ window = <<>> /\ latched = FALSE /\ abort = FALSE
    /\ history = <<>> /\ fallbacks = 0

-----------------------------------------------------------------------------
(***************************************************************************)
(* Where the judge is: the endpoint file once it can be read, and then for *)
(* good; localhost until then, which is never remembered.                  *)
(***************************************************************************)
Url == IF cached # "none" THEN cached ELSE IF published THEN "judge" ELSE "localhost"

\* Mutant: whatever was resolved is kept.
RemembersAny == cached' = Url

Remembers == cached' = IF Url = "judge" THEN Url ELSE cached

Sent(c) == [c EXCEPT !.at = "asking", !.url = Url, !.wait = Timeout]

EndpointAppears ==
    /\ ~published /\ published' = TRUE
    /\ UNCHANGED <<runVars, cached, calls, call, budgetVars, fallbacks>>

-----------------------------------------------------------------------------
(* The failure budget. *)
Fails(w) == Cardinality({i \in DOMAIN w : w[i]})
OverRate(w) == Fails(w) * RateDen > RateNum * Len(w)

Slide(w, bad) ==
    LET grown == Append(w, bad)
    IN IF Len(grown) > Window THEN Tail(grown) ELSE grown

\* Mutant: the first failures already exhaust the budget.
OverspentEarly(w) == OverRate(w)

Overspent(w) == Len(w) >= MinCalls /\ OverRate(w)

Becomes(s, c) == call' = [call EXCEPT ![s] = c]

(***************************************************************************)
(* request_abort writes the file unless it is there; on a flaky Volume the *)
(* write may raise, and nothing in this module catches that.               *)
(***************************************************************************)
RequestsAbort(s, c) ==
    \/ abort' = TRUE /\ Becomes(s, c)
    \/ /\ volume = "flaky" /\ ~abort
       /\ abort' = FALSE
       /\ Becomes(s, [Idle EXCEPT !.at = "raised", !.failed = c.failed])

-----------------------------------------------------------------------------
(***************************************************************************)
(* compute_score begins: the rule job goes to a thread, the deadline is    *)
(* set, and the judge is asked when the reward comes from it.              *)
(***************************************************************************)
Another(s) == call[s].at = "idle" /\ calls < MaxCalls /\ calls' = calls + 1

Begun == [Idle EXCEPT !.until = Deadline, !.rule = "running"]

AskJudge(s) ==
    /\ Another(s) /\ source = "judge"
    /\ Becomes(s, Sent(Begun)) /\ Remembers
    /\ UNCHANGED <<runVars, published, budgetVars, fallbacks>>

RuleOnly(s) ==
    /\ Another(s) /\ source = "rule"
    /\ Becomes(s, [Begun EXCEPT !.at = "grading"])
    /\ UNCHANGED <<runVars, urlVars, budgetVars, fallbacks>>

Misconfigured(s) ==
    /\ Another(s) /\ source = "bad"
    /\ RequestsAbort(s, [Begun EXCEPT !.at = "grading"])
    /\ UNCHANGED <<runVars, urlVars, window, latched, history, fallbacks>>

-----------------------------------------------------------------------------
(***************************************************************************)
(* The judge's answer, or none: recorded, in the order the calls end, and  *)
(* then the rule score is awaited within what is left of the deadline.     *)
(***************************************************************************)
RuleUntil(c) == c.until

Graded(c, bad) == [c EXCEPT !.at = "grading", !.url = "none", !.tries = 0, !.wait = 0,
                            !.until = RuleUntil(c), !.failed = bad]

(* Logging one of the first failures looks the judge's address up again.    *)
Records(s, bad) ==
    /\ IF bad /\ Fails(history) < Logged THEN Remembers ELSE UNCHANGED cached
    /\ window' = Slide(window, bad) /\ history' = Append(history, bad)
    /\ IF ~latched /\ Overspent(window')
       THEN latched' = TRUE /\ RequestsAbort(s, Graded(call[s], bad))
       ELSE UNCHANGED <<latched, abort>> /\ Becomes(s, Graded(call[s], bad))
    /\ UNCHANGED <<runVars, calls, published, fallbacks>>

(* A valid verdict; or one that is truncated, contradictory or no verdict   *)
(* at all, and a refused request: none of these is tried again.             *)
Answers(s, bad) ==
    /\ call[s].at = "asking" /\ call[s].url = "judge"
    /\ Records(s, bad)

(* No connection, HTTP 429 or 5xx, or the attempt's own time is up. *)
AttemptFails(s) ==
    /\ call[s].at = "asking"
    /\ IF call[s].tries = Retries
       THEN Records(s, TRUE)
       ELSE /\ Becomes(s, [call[s] EXCEPT !.at = "backoff", !.url = "none", !.tries = @ + 1,
                                          !.wait = Backoff * (call[s].tries + 1)])
            /\ UNCHANGED <<runVars, calls, urlVars, budgetVars, fallbacks>>

AsksAgain(s) ==
    /\ call[s].at = "backoff" /\ call[s].wait = 0
    /\ Becomes(s, Sent(call[s])) /\ Remembers
    /\ UNCHANGED <<runVars, calls, published, budgetVars, fallbacks>>

DeadlinePasses(s) ==
    /\ call[s].at \in Asking /\ call[s].age >= call[s].until
    /\ Records(s, TRUE)

-----------------------------------------------------------------------------
RuleEnds(s) ==
    /\ call[s].rule = "running"
    /\ Becomes(s, [call[s] EXCEPT !.rule = "done"])
    /\ UNCHANGED <<runVars, calls, urlVars, budgetVars, fallbacks>>

\* Mutant: the rule score is awaited for as long as it takes.
ReturnsOnceGraded(s) ==
    /\ call[s].at = "grading" /\ call[s].rule = "done"
    /\ fallbacks' = fallbacks + (IF source = "judge" /\ call[s].failed THEN 1 ELSE 0)
    /\ Becomes(s, Idle)
    /\ UNCHANGED <<runVars, calls, urlVars, budgetVars>>

(* The score is the verdict's, or JUDGE_FALLBACK's; a rule job that is late *)
(* counts as wrong.                                                         *)
Returns(s) ==
    /\ call[s].at = "grading"
    /\ call[s].rule = "done" \/ call[s].age >= call[s].until
    /\ fallbacks' = fallbacks + (IF source = "judge" /\ call[s].failed THEN 1 ELSE 0)
    /\ Becomes(s, Idle)
    /\ UNCHANGED <<runVars, calls, urlVars, budgetVars>>

(***************************************************************************)
(* Time.  A timer that is due fires, and a result that is there is used,   *)
(* before a whole tick has passed.                                         *)
(***************************************************************************)
Due(c) ==
    \/ c.at \in InCall /\ c.age >= c.until
    \/ c.at \in Asking /\ c.wait = 0
    \/ c.at = "grading" /\ c.rule = "done"

Tick ==
    /\ \E s \in Slots : call[s].at \in InCall
    /\ \A s \in Slots : ~Due(call[s])
    /\ call' = [s \in Slots |->
                  IF call[s].at \in InCall
                  THEN [call[s] EXCEPT !.age = @ + 1, !.wait = IF @ = 0 THEN 0 ELSE @ - 1]
                  ELSE call[s]]
    /\ UNCHANGED <<runVars, calls, urlVars, budgetVars, fallbacks>>

Begins(s) == AskJudge(s) \/ RuleOnly(s) \/ Misconfigured(s)
Goes(s)   == AttemptFails(s) \/ AsksAgain(s) \/ DeadlinePasses(s) \/ Returns(s)

RewardNext ==
    \/ EndpointAppears \/ Tick
    \/ \E s \in Slots : Begins(s) \/ Goes(s) \/ RuleEnds(s)
    \/ \E s \in Slots, bad \in BOOLEAN : Answers(s, bad)

(* Time passes and timers fire; the judge and the rule's thread owe nothing. *)
Fairness ==
    /\ WF_rewardVars(Tick)
    /\ \A s \in Slots : WF_rewardVars(Due(call[s]) /\ Goes(s))

RewardSpec == RewardInit /\ [][RewardNext]_rewardVars
FairRewardSpec == RewardSpec /\ Fairness

-----------------------------------------------------------------------------
Longest == Timeout + Backoff * Retries      \* no attempt and no back-off takes more

CallType == [at : Places, url : Urls, tries : 0..Retries, wait : 0..Longest,
             age : 0..Deadline, until : {0, Deadline}, failed : BOOLEAN,
             rule : {"none", "running", "done"}]

RewardTypes ==
    /\ source \in {"judge", "rule", "bad"} /\ volume \in {"ok", "flaky"}
    /\ published \in BOOLEAN /\ cached \in {"none", "judge"}
    /\ calls \in 0..MaxCalls /\ call \in [Slots -> CallType]
    /\ window \in Seq(BOOLEAN) /\ Len(window) <= Window
    /\ latched \in BOOLEAN /\ abort \in BOOLEAN
    /\ history \in Seq(BOOLEAN) /\ Len(history) <= MaxCalls
    /\ fallbacks \in 0..MaxCalls

(* compute_score answers within the judge's deadline, which is below the    *)
(* reward manager's: no retry, back-off or slow rule takes it beyond.       *)
AnswersInTime == \A s \in Slots : call[s].age <= Deadline

(* "A judge outage must not silently turn the experiment into rule-based    *)
(* RL": the worker calls for an abort exactly when, after one of its calls, *)
(* too many of the last Window had failed; and a setting that is none stops *)
(* the run before one sample is scored with it.                             *)
LastFew(n) == SubSeq(history, IF n > Window THEN n - Window + 1 ELSE 1, n)
Outage == \E n \in MinCalls..Len(history) : OverRate(LastFew(n))

Misled == source = "bad" /\ \E s \in Slots : call[s].at # "idle"

OutageIsNotSilent ==
    /\ latched <=> Outage
    /\ abort => Outage \/ source = "bad"
    /\ volume = "ok" /\ (Outage \/ Misled) => abort

(* Every sample whose score is not the judge's was counted by the budget    *)
(* before it was returned.                                                  *)
FallbackIsCounted ==
    Fails(history) = fallbacks
        + Cardinality({s \in Slots : call[s].at \in {"grading", "raised"} /\ call[s].failed})

(* A worker that began before the endpoint file could be read on its node   *)
(* finds the judge with its next request.                                   *)
JudgeIsFound ==
    [][\A s \in Slots : (call[s].at # "asking" /\ call'[s].at = "asking" /\ published)
          => (call'[s].url = "judge")]_rewardVars

(* "compute_score NEVER raises": every call returns, however the judge, the *)
(* network and the rule's thread behave, as long as an abort can be         *)
(* written.                                                                 *)
CallsReturn == \A s \in Slots : (call[s].at \in InCall /\ volume = "ok") ~> (call[s].at = "idle")

(* What the rule scored in the judge's place is known to the budget, and    *)
(* too much of it stops the run.                                            *)
NoSilentFallback == RewardTypes /\ OutageIsNotSilent /\ FallbackIsCounted

(* Every call returns, and none after its deadline.                         *)
CallsReturnInTime == CallsReturn /\ []AnswersInTime
=============================================================================
