-------------------------------- MODULE Episode --------------------------------
(***************************************************************************)
(* One OfficeQA episode and its reward (agent_loop.py, protocol.py,        *)
(* tool.py, sandbox.py, reward.py).  The policy generates turns; a turn    *)
(* calls one tool, submits a report or does neither.  What a tool returned *)
(* is an observation, delivered once a later turn is generated on a        *)
(* context that holds it.  The submitted report is checked against the     *)
(* observations, a correct one is judged, and the reward is 0 or 1.        *)
(*                                                                         *)
(* Sandbox, corpus, inference and judge fail at any time; verl swallows    *)
(* the exceptions, so a failure must stop the run through ABORT.json or it *)
(* trains the policy on an outage.  The request for ABORT.json may fail    *)
(* too, and verl may end a reward before it has asked.                     *)
(***************************************************************************)
EXTENDS PathReport, FiniteSetsExt

CONSTANTS
    MaxTurns,               \* max_assistant_turns and max_user_turns
    ResponseLength,         \* tokens of an episode after its prompt
    GenerationTokens,       \* OQ_MAX_GENERATION_TOKENS
    Sizes,                  \* tokens of a generation, of a tool's response, of an observation
    MergeTokens,            \* template tokens that a merge may add to a generation
    Reports,                \* what the policy may submit
    JudgeBudget,            \* JUDGE_MAX_MODEL_LEN less what the reply and the fixed prompt take
    Retries,                \* JUDGE_RETRIES
    Replies,                \* what the judge may reply
    Unsandboxed,            \* OQ_COMPUTE_ALLOW_UNSANDBOXED
    Requests                \* what may become of a request for ABORT.json

\* What parse_report finds in the arguments of a submission.
PathStep == [fits : BOOLEAN, id : Nat, observation : Nat,
             depends_on : SUBSET Nat, figures : SUBSET Figures]
Report == [object : BOOLEAN, bytes : Nat, answer : STRING, list : BOOLEAN, path : Seq(PathStep)]

ASSUME EpisodeConstantsOK ==
    /\ Reports \subseteq Report
    /\ {MaxTurns, ResponseLength, GenerationTokens} \subseteq Nat \ {0}
    /\ Sizes \subseteq Nat \ {0} /\ MergeTokens \subseteq Nat
    /\ {JudgeBudget, Retries} \subseteq Nat /\ Unsandboxed \in BOOLEAN
    /\ Requests \subseteq {"written", "raised", "nowhere"}

VARIABLES
    at, turns, users, mask,     \* agent_data: its state, assistant_turns, user_turns, Len(response_mask)
    call,                       \* the tool called, or the compute child: "ends" or "hangs"
    observations, report,       \* the record: its ledger, its terminal submission
    sandbox, corpus,            \* _SANDBOX_OK and _loaded, caches of the process
    tries, verdict, result,     \* the reward
    abort,                      \* ABORT.json
    context, seen, lost         \* history: observations in the context; those that the last
                                \* generation read; a failure that ABORT.json was not told of

loopVars == <<turns, users, mask>>
cacheVars == <<sandbox, corpus>>
rewardVars == <<tries, verdict, result>>
historyVars == <<context, seen, lost>>
vars == <<at, loopVars, call, observations, report, cacheVars, rewardVars, abort, historyVars>>

None == "none"
NoReport == [object |-> FALSE, bytes |-> 0, answer |-> "", list |-> FALSE, path |-> <<>>]
NoResult == [score |-> 0, infrastructure |-> FALSE, category |-> None]
Final == {"scored", "failed"}

Init ==
    /\ at = "GENERATING" /\ turns = 0 /\ users = 0 /\ mask = 0 /\ call = None
    /\ observations = <<>> /\ report = NoReport
    /\ sandbox = "unprobed" /\ corpus = FALSE
    /\ tries = 0 /\ verdict = Unresolved /\ result = NoResult
    /\ abort = FALSE /\ context = {} /\ seen = {} /\ lost = FALSE

(* The first request wins, a later one finds the file.  Without a          *)
(* rendezvous the request returns FALSE, which nobody looks at; a write    *)
(* that fails raises where the caller had just caught its own exception.   *)
Endings == Requests \cup {"written"}

request_abort(end) ==
    /\ end \in IF abort THEN {"written"} ELSE Requests
    /\ abort' = (end = "written") /\ lost' = (lost \/ end # "written")

-----------------------------------------------------------------------------
(***************************************************************************)
(* A turn.  What is pending was delivered if this turn is generated at all: *)
(* a context whose merge was rejected never gets here.                     *)
(***************************************************************************)
delivered(ledger, request) ==
    [n \in DOMAIN ledger |->
        IF ~Delivered(ledger[n]) /\ ledger[n].generated_by < request
        THEN [ledger[n] EXCEPT !.delivered_to = request] ELSE ledger[n]]

Remaining == ResponseLength - mask

(* Whoever is generating has tokens left: a merge or a call that uses them  *)
(* up ends the episode, so the guard for none is never met.                *)
Generates(n) ==
    /\ at = "GENERATING" /\ n \in Sizes /\ n <= Remaining /\ n <= GenerationTokens
    /\ observations' = delivered(observations, turns)
    /\ turns' = turns + 1 /\ \E m \in MergeTokens : mask' = mask + n + m
    /\ seen' = context
    /\ UNCHANGED <<users, cacheVars, rewardVars, abort, context, lost>>

(* A terminal call wins before any limit, if all of it stays in the        *)
(* trajectory that verl keeps.                                             *)
\* Mutant: tokens that are sliced off may still submit.
AnyLength == TRUE

Kept == mask' <= ResponseLength

Submits ==
    /\ Kept
    /\ \E r \in Reports : report' = r
    /\ at' = "TERMINATED" /\ call' = None

LimitReached == mask' >= ResponseLength \/ turns' >= MaxTurns \/ users >= MaxTurns

Calls(tool) ==
    /\ IF LimitReached THEN at' = "TERMINATED" /\ call' = None
                       ELSE at' = "PROCESSING_TOOLS" /\ call' = tool
    /\ UNCHANGED report

CutOffOrSilent == at' = "TERMINATED" /\ call' = None /\ UNCHANGED report

Turn ==
    \E n \in Sizes :
        /\ Generates(n)
        /\ Submits \/ CutOffOrSilent \/ \E tool \in {"read", Compute, "invalid"} : Calls(tool)

(* The loop's own failure, up to the record it leaves to the reward: verl   *)
(* gathers the exception and goes on.                                      *)
LoopFails ==
    /\ at \in {"GENERATING", "PROCESSING_TOOLS", "TERMINATED"} /\ at' = "failed"
    /\ \E end \in Endings : request_abort(end)
    /\ UNCHANGED <<loopVars, call, observations, report, cacheVars, rewardVars, context, seen>>

-----------------------------------------------------------------------------
(***************************************************************************)
(* A tool's response is recorded, then verl merges it into the context or, *)
(* when it does not fit, ends the episode.                                 *)
(***************************************************************************)
Observation(tool, figures, size) ==
    [tool |-> tool, figures |-> figures, size |-> size, generated_by |-> turns - 1, delivered_to |-> Never]

Merges(n) ==
    IF mask + n >= ResponseLength
    THEN at' = "TERMINATED" /\ UNCHANGED <<mask, users, context>>
    ELSE /\ at' = "GENERATING" /\ mask' = mask + n /\ users' = users + 1
         /\ context' = context \cup {Len(observations')}

Returns(tool, figures) ==
    /\ \E n \in Sizes : /\ observations' = Append(observations, Observation(tool, figures, n))
                        /\ Merges(n)
    /\ call' = None /\ UNCHANGED <<turns, report, rewardVars, seen>>

(* Retrieval: what load_corpus raises stops the run, what a tool raises on *)
(* a loaded corpus becomes its response.  verl turns the exception into a  *)
(* response in both cases, that of request_abort included.                 *)
Reads ==
    /\ at = "PROCESSING_TOOLS" /\ call = "read"
    /\ \/ corpus' = TRUE /\ (\E F \in SUBSET Figures : Returns("read", F)) /\ UNCHANGED <<abort, lost>>
       \/ /\ ~corpus /\ UNCHANGED corpus /\ Returns("read", {})
          /\ \E end \in Endings : request_abort(end)
    /\ UNCHANGED sandbox

Rejects ==
    /\ at = "PROCESSING_TOOLS" /\ call = "invalid" /\ Returns("read", {})
    /\ UNCHANGED <<cacheVars, abort, lost>>

(* compute: bad arguments, no isolation (the probe is made once), a child   *)
(* that cannot be started, or a child that ends or hangs.                   *)
probed == IF sandbox = "unprobed" THEN {"usable", "unusable"} ELSE {sandbox}

ComputeRefused ==
    /\ at = "PROCESSING_TOOLS" /\ call = Compute /\ Returns(Compute, {})
    /\ UNCHANGED <<cacheVars, abort, lost>>

NoSandbox ==
    /\ at = "PROCESSING_TOOLS" /\ call = Compute
    /\ sandbox' \in probed /\ UNCHANGED corpus
    /\ \E end \in Endings : request_abort(end)
    /\ Returns(Compute, {})

Launches ==
    /\ at = "PROCESSING_TOOLS" /\ call = Compute
    /\ sandbox' \in probed /\ (sandbox' = "usable" \/ Unsandboxed)
    /\ at' = "computing" /\ call' \in {"ends", "hangs"}
    /\ UNCHANGED <<loopVars, observations, report, corpus, rewardVars, abort, historyVars>>

(* With nothing on its output the child failed, or bwrap did although the  *)
(* probe had passed: the response says so and nobody asks for an abort.    *)
ChildEnds ==
    /\ at = "computing" /\ call = "ends"
    /\ \E F \in SUBSET Figures : Returns(Compute, F)
    /\ UNCHANGED <<cacheVars, abort, lost>>

\* Mutant: communicate() without its timeout.
WaitsForEver == at = "computing" /\ call = "hangs" /\ UNCHANGED vars

TimesOut ==
    /\ at = "computing" /\ call = "hangs" /\ Returns(Compute, {})
    /\ UNCHANGED <<cacheVars, abort, lost>>

-----------------------------------------------------------------------------
(***************************************************************************)
(* compute_score.  Late inputs are counted and forgiven; every figure of a *)
(* looked-up step is checked, whatever the step depends on.                *)
(***************************************************************************)
Kind == parse_report(report)
Invalid == Unread(report.path, observations)
check_cited_values == Fabricated(report.path, observations)
Correct == report.answer = "right"

Category ==
    IF Kind # "valid" THEN Kind
    ELSE IF Invalid # {} THEN "invalid_path"
    ELSE IF check_cited_values # {} THEN "fabricated"
    ELSE IF ~Correct THEN "wrong" ELSE "judged"

(* support_messages: all cited evidence, whole, or the report is over its   *)
(* budget; then of the rest what still fits, in order.                      *)
Evidence == Cited(report.path)
Tokens(ledger, ids) == MapThenSumSet(LAMBDA n : ledger[n].size, ids)
CitedTokens == Tokens(observations, Evidence)

RewardStep == UNCHANGED <<loopVars, call, observations, report, cacheVars, context, seen>>

Scores(score, category) ==
    /\ at' = "tracing" /\ result' = [score |-> score, infrastructure |-> FALSE, category |-> category]
    /\ UNCHANGED <<abort, lost>>

(* A request that raises leaves compute_score with the exception: no trace, *)
(* no result of its own.                                                   *)
Infrastructure ==
    \E end \in Endings :
        /\ request_abort(end)
        /\ IF end = "raised" THEN at' = "failed" /\ UNCHANGED result
           ELSE /\ at' = "tracing"
                /\ result' = [score |-> 0, infrastructure |-> TRUE, category |-> "infrastructure"]

(* A record that is missing or of another question, and a report to weigh  *)
(* without a gold answer, are no fault of the policy's.                    *)
Checks ==
    /\ at = "TERMINATED"
    /\ \/ Category # "judged" /\ Scores(0, Category)
       \/ Category = "judged" /\ CitedTokens > JudgeBudget /\ Scores(0, "over_budget")
       \/ /\ Category = "judged" /\ CitedTokens <= JudgeBudget
          /\ at' = "judging" /\ UNCHANGED <<result, abort, lost>>
    /\ UNCHANGED <<tries, verdict>> /\ RewardStep

RecordMissing ==
    /\ at = "TERMINATED" /\ Infrastructure
    /\ UNCHANGED <<tries, verdict>> /\ RewardStep

GoldMissing ==
    /\ at = "TERMINATED" /\ Kind = "valid" /\ Infrastructure
    /\ UNCHANGED <<tries, verdict>> /\ RewardStep

(* parse_verdict: stricter than the report's own parser.                    *)
parse_verdict(v) ==
    IF ~v.strict \/ v.score = Bad \/ (v.status # "unknown" /\ v.score = Null)
    THEN Unresolved ELSE parse_support_verdict(v)

\* Mutant: a reply that is no verdict counts as an unsupported path.
RepliedZero(v) ==
    /\ at = "judging" /\ verdict' = parse_verdict(v)
    /\ Scores(IF verdict' = "supported" THEN 1 ELSE 0, verdict')
    /\ UNCHANGED tries /\ RewardStep

Replied(v) ==
    /\ at = "judging" /\ verdict' = parse_verdict(v)
    /\ IF verdict' = Unresolved THEN Infrastructure
       ELSE Scores(IF verdict' = "supported" THEN 1 ELSE 0, verdict')
    /\ UNCHANGED tries /\ RewardStep

JudgeFails(retryable) ==
    /\ at = "judging"
    /\ IF retryable /\ tries < Retries
       THEN tries' = tries + 1 /\ UNCHANGED <<at, result, abort, lost>>
       ELSE Infrastructure /\ UNCHANGED tries
    /\ UNCHANGED verdict /\ RewardStep

Traces(written) ==
    /\ at = "tracing"
    /\ IF written THEN at' = "scored" /\ UNCHANGED <<result, abort, lost>>
       ELSE \E end \in Endings :
               /\ request_abort(end) /\ at' = IF end = "raised" THEN "failed" ELSE "scored"
               /\ result' = [result EXCEPT !.score = 0, !.infrastructure = TRUE]
    /\ UNCHANGED <<tries, verdict>> /\ RewardStep

(* REWARD_TIMEOUT: verl cancels compute_score and makes a 0 of it.          *)
RewardTimesOut ==
    /\ at \in {"TERMINATED", "judging", "tracing"} /\ at' = "failed" /\ lost' = TRUE
    /\ UNCHANGED <<rewardVars, abort>> /\ RewardStep

-----------------------------------------------------------------------------
ToolStep == Rejects \/ ComputeRefused \/ NoSandbox \/ Launches \/ ChildEnds \/ TimesOut

RewardNext ==
    \/ Checks \/ RecordMissing \/ GoldMissing \/ (\E v \in Replies : Replied(v))
    \/ (\E b \in BOOLEAN : JudgeFails(b) \/ Traces(b)) \/ RewardTimesOut

Next == Turn \/ LoopFails \/ Reads \/ ToolStep \/ RewardNext

Spec == Init /\ [][Next]_vars

(* compute has two time limits, of its probe and of its child, and the      *)
(* reward has verl's.  Nothing bounds a generation here, nor a retrieval:   *)
(* the regular expression it runs is the policy's.                          *)
FairSpec == Spec /\ WF_vars(ToolStep \/ RewardNext)

-----------------------------------------------------------------------------
TypeOK ==
    /\ at \in {"GENERATING", "PROCESSING_TOOLS", "computing", "TERMINATED", "judging", "tracing"} \cup Final
    /\ turns \in 0..MaxTurns /\ users \in 0..MaxTurns /\ mask \in Nat
    /\ Len(observations) <= MaxTurns /\ report \in Reports \cup {NoReport}
    /\ context \cup seen \subseteq DOMAIN observations
    /\ {abort, lost, corpus} \subseteq BOOLEAN /\ tries \in 0..Retries

(* A reward of 1 is earned: the answer is right, the judge was shown all    *)
(* that is cited and found it sufficient, the policy had read every cited  *)
(* observation when it wrote the report, it invented no looked-up figure,   *)
(* and no token of the report lies beyond the trajectory that trains.       *)
ScoreIsEarned ==
    /\ TypeOK
    /\ at = "scored" /\ result.score = 1 =>
        /\ Correct /\ verdict = "supported" /\ CitedTokens <= JudgeBudget
        /\ Evidence # {} /\ Evidence \subseteq seen
        /\ \A i \in DOMAIN report.path :
              observations[report.path[i].observation].tool # Compute =>
                  report.path[i].figures \subseteq UNION {observations[n].figures : n \in seen}
        /\ mask <= ResponseLength

(* What the policy did to deserve a 0, told from its report, from what it   *)
(* had been given and from what the judge really replied.                   *)
Deserved ==
    \/ Kind # "valid" \/ Invalid # {} \/ check_cited_values # {} \/ ~Correct
    \/ CitedTokens > JudgeBudget \/ verdict = "unsupported"

(* As long as ABORT.json can be written, and verl does not end the reward   *)
(* itself, a failure that the code notices stops the run: an episode that   *)
(* failed, compute without isolation, no verdict, no gold or no trace is     *)
(* never a sample, and a sample that scores 0 deserves it.  (Not noticed:    *)
(* retrieval that fails on a loaded corpus, bwrap failing after its probe.)  *)
OutageStopsTheRun ==
    ~abort /\ ~lost =>
        /\ at # "failed" /\ (sandbox = "unusable" => Unsandboxed)
        /\ at = "scored" => ~result.infrastructure /\ (result.score = 0 => Deserved)

(* Turns, tokens, the sandbox's clock, the judge's retries and verl's limit *)
(* on a reward are bounds: an episode is scored or fails, unless it stays   *)
(* for ever in a generation or in a retrieval.                              *)
EpisodeEnds ==
    <>(at \in Final) \/ <>[](at = "GENERATING") \/ <>[](at = "PROCESSING_TOOLS" /\ call = "read")
=============================================================================
