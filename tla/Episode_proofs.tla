----------------------------- MODULE Episode_proofs -----------------------------
(***************************************************************************)
(* Episode for every number of turns, every length of response, every set  *)
(* of reports and of judge's replies, and every judge budget.              *)
(***************************************************************************)
EXTENDS Episode, SequenceTheorems, TLAPS

Tools == {"PROCESSING_TOOLS", "computing"}
Live == {"GENERATING"} \cup Tools
Rewarded == {"tracing", "scored"}
States == Live \cup Rewarded \cup {"TERMINATED", "judging", "failed"}

Entry == [tool : {"read", Compute}, figures : SUBSET Figures, size : Sizes,
          generated_by : Nat, delivered_to : Nat]

(***************************************************************************)
(* The strengthening.  A turn earns at most one observation, and a tool is *)
(* called only with a turn left to read what it returns.                   *)
(***************************************************************************)
LoopInv ==
    /\ at \in States /\ mask \in Nat
    /\ turns \in 0..MaxTurns /\ users \in 0..MaxTurns
    /\ observations \in Seq(Entry) /\ Len(observations) <= turns
    /\ at \in Live => turns < MaxTurns
    /\ at \in Tools => turns > 0 /\ users < MaxTurns /\ Len(observations) < turns

(* While the loop goes on every observation is in the context, so what a   *)
(* turn marks as delivered is what that turn was generated on.             *)
ContextInv ==
    /\ context \subseteq DOMAIN observations /\ seen \subseteq DOMAIN observations
    /\ at \in Live => context = DOMAIN observations
    /\ \A n \in DOMAIN observations : Delivered(observations[n]) => n \in seen

(* A submission ends the loop, within the tokens that are kept.            *)
ReportInv ==
    /\ report \in Reports \cup {NoReport}
    /\ at \in Live => report = NoReport
    /\ report # NoReport => mask <= ResponseLength

Told == abort = TRUE \/ lost = TRUE

OutageInv ==
    /\ abort \in BOOLEAN /\ lost \in BOOLEAN
    /\ corpus \in BOOLEAN /\ tries \in 0..Retries
    /\ at = "failed" => Told
    /\ sandbox = "unusable" /\ Unsandboxed = FALSE => Told

(* What the reward has concluded, and from what.                           *)
Weighed == Category = "judged" /\ CitedTokens <= JudgeBudget

Labels == {None, "malformed", "abstention", "invalid_path", "fabricated", "wrong",
           "over_budget", "supported", "unsupported", "infrastructure"}

Result == [score : {0, 1}, infrastructure : BOOLEAN, category : Labels]

RewardInv ==
    /\ result \in Result /\ verdict \in {Unresolved, "supported", "unsupported"}
    /\ at \in Live \cup {"TERMINATED", "judging"} => verdict = Unresolved
    /\ at = "judging" => Weighed
    /\ at \in Rewarded /\ result.score = 1 => Weighed /\ verdict = "supported"
    /\ at \in Rewarded /\ result.infrastructure = TRUE => Told
    /\ at \in Rewarded /\ result.score = 0 /\ result.infrastructure = FALSE => Deserved

IInv == LoopInv /\ ContextInv /\ ReportInv /\ OutageInv /\ RewardInv

-----------------------------------------------------------------------------
(* What a step can be.                                                     *)
Asks == \E end \in Endings : request_abort(end)

ToolReturn ==
    /\ at \in Tools
    /\ \E tool \in {"read", Compute}, F \in SUBSET Figures : Returns(tool, F)
    /\ corpus' \in BOOLEAN
    /\ (sandbox' = sandbox /\ UNCHANGED <<abort, lost>>) \/ Asks

(* A tool step starts the compute child or returns an observation.        *)
LEMMA ToolShape == OutageInv /\ (Reads \/ ToolStep) => Launches \/ ToolReturn
<1> SUFFICES ASSUME OutageInv, Reads \/ ToolStep, ~Launches PROVE ToolReturn
  OBVIOUS
<1> USE DEF ToolReturn, Tools, OutageInv, Asks
<1>1. {} \in SUBSET Figures
  OBVIOUS
<1>2. CASE Reads
  <2>1. CASE corpus' = TRUE /\ (\E F \in SUBSET Figures : Returns("read", F)) /\ UNCHANGED <<abort, lost>>
    BY <1>2, <2>1 DEF Reads
  <2>2. CASE UNCHANGED corpus /\ Returns("read", {}) /\ \E end \in Endings : request_abort(end)
    <3>1. corpus' \in BOOLEAN
      BY <2>2, Zenon
    <3>2. QED
      BY <1>1, <1>2, <2>2, <3>1, Zenon DEF Reads
  <2>3. QED
    BY <1>2, <2>1, <2>2, Zenon DEF Reads
<1>3. CASE Rejects
  BY <1>1, <1>3, Zenon DEF Rejects, cacheVars
<1>4. CASE ComputeRefused
  BY <1>1, <1>4, Zenon DEF ComputeRefused, cacheVars
<1>5. CASE NoSandbox
  BY <1>1, <1>5, Zenon DEF NoSandbox
<1>6. CASE ChildEnds
  BY <1>6, Zenon DEF ChildEnds, cacheVars
<1>7. CASE TimesOut
  BY <1>1, <1>7, Zenon DEF TimesOut, cacheVars
<1>8. QED
  BY <1>2, <1>3, <1>4, <1>5, <1>6, <1>7, Zenon DEF ToolStep

(* What a request for an abort leaves: it was written, or it is lost.      *)
LEMMA RequestTold ==
    ASSUME OutageInv, NEW end \in Endings, request_abort(end)
    PROVE  abort' \in BOOLEAN /\ lost' \in BOOLEAN /\ Told'
<1>1. abort' \in BOOLEAN /\ lost' \in BOOLEAN
  BY Zenon DEF OutageInv, request_abort
<1>2. CASE end = "written"
  BY <1>2, Zenon DEF request_abort, Told
<1>3. CASE end # "written"
  BY <1>3, Zenon DEF request_abort, Told
<1>4. QED
  BY <1>1, <1>2, <1>3, Zenon

(* What the reward does once it gives up on an outage.                     *)
LEMMA InfrastructureStops ==
    ASSUME OutageInv, Infrastructure
    PROVE  /\ abort' \in BOOLEAN /\ lost' \in BOOLEAN /\ Told'
           /\ \/ at' = "failed" /\ result' = result
              \/ /\ at' = "tracing"
                 /\ result' = [score |-> 0, infrastructure |-> TRUE, category |-> "infrastructure"]
<1>1. PICK end \in Endings : 
        /\ request_abort(end)
        /\ IF end = "raised" THEN at' = "failed" /\ UNCHANGED result
           ELSE /\ at' = "tracing"
                /\ result' = [score |-> 0, infrastructure |-> TRUE, category |-> "infrastructure"]
  BY DEF Infrastructure
<1>2. QED
  BY <1>1, RequestTold, Zenon

(* A step of the reward leaves the episode as it was.                      *)
LEMMA RewardShape ==
    ASSUME OutageInv, RewardNext
    PROVE  /\ RewardStep
           /\ at \in {"TERMINATED", "judging", "tracing"}
           /\ at' \in {"judging", "tracing", "scored", "failed"}
<1>1. CASE Checks
  BY <1>1 DEF Checks, Scores
<1>2. CASE RecordMissing \/ GoldMissing
  BY <1>2, InfrastructureStops DEF RecordMissing, GoldMissing
<1>3. CASE \E v \in Replies : Replied(v)
  BY <1>3, InfrastructureStops DEF Replied, Scores
<1>4. ASSUME NEW b \in BOOLEAN, JudgeFails(b)
      PROVE  RewardStep /\ at = "judging" /\ at' \in {"judging", "tracing", "failed"}
  BY <1>4, InfrastructureStops DEF JudgeFails
<1>5. ASSUME NEW b \in BOOLEAN, Traces(b)
      PROVE  RewardStep /\ at = "tracing" /\ at' \in {"scored", "failed"}
  BY <1>5 DEF Traces
<1>6. CASE RewardTimesOut
  BY <1>6 DEF RewardTimesOut
<1>7. QED
  BY <1>1, <1>2, <1>3, <1>4, <1>5, <1>6 DEF RewardNext

(* What a step is.                                                        *)
LEMMA Shapes ==
    ASSUME OutageInv, [Next]_vars
    PROVE  Turn \/ LoopFails \/ Launches \/ ToolReturn \/ RewardNext \/ UNCHANGED vars
BY ToolShape, Zenon DEF Next

-----------------------------------------------------------------------------
(* Delivering changes no entry but for the request that it is marked with. *)
LEMMA DeliveredLedger ==
    ASSUME NEW ledger \in Seq(Entry), NEW request \in Nat
    PROVE  /\ delivered(ledger, request) \in Seq(Entry)
           /\ Len(delivered(ledger, request)) = Len(ledger)
           /\ DOMAIN delivered(ledger, request) = DOMAIN ledger
<1> DEFINE D == delivered(ledger, request)
<1>1. DOMAIN ledger = 1..Len(ledger) /\ Len(ledger) \in Nat
  OBVIOUS
<1>2. D = [n \in 1..Len(ledger) |->
             IF ~Delivered(ledger[n]) /\ ledger[n].generated_by < request
             THEN [ledger[n] EXCEPT !.delivered_to = request] ELSE ledger[n]]
  BY <1>1 DEF delivered
<1>3. ASSUME NEW n \in 1..Len(ledger)
      PROVE  [ledger[n] EXCEPT !.delivered_to = request] \in Entry /\ ledger[n] \in Entry
  <2>1. ledger[n] \in Entry
    OBVIOUS
  <2>2. ASSUME NEW e \in Entry PROVE [e EXCEPT !.delivered_to = request] \in Entry
    BY DEF Entry
  <2>3. QED
    BY <2>1, <2>2
<1>4. D \in [1..Len(ledger) -> Entry]
  BY <1>2, <1>3
<1>5. D \in Seq(Entry) /\ Len(D) = Len(ledger)
  BY <1>1, <1>4, IsASeq, LenProperties
<1>6. QED
  BY <1>1, <1>4, <1>5

(* The record of a tool's response is an entry of the ledger.              *)
LEMMA ObservationIsEntry ==
    ASSUME turns \in Nat, turns > 0,
           NEW tool \in {"read", Compute}, NEW F \in SUBSET Figures, NEW n \in Sizes
    PROVE  Observation(tool, F, n) \in Entry /\ ~Delivered(Observation(tool, F, n))
BY DEF Observation, Entry, Delivered, Never

-----------------------------------------------------------------------------
(* A turn.                                                                 *)
LEMMA TurnStep ==
    ASSUME LoopInv, ContextInv, ReportInv, Turn
    PROVE  /\ LoopInv' /\ ContextInv' /\ ReportInv'
           /\ at = "GENERATING" /\ at' \in {"TERMINATED", "PROCESSING_TOOLS"}
           /\ UNCHANGED <<cacheVars, rewardVars, abort, lost>>
<1> USE EpisodeConstantsOK
<1>1. PICK n \in Sizes : Generates(n) /\ (Submits \/ CutOffOrSilent \/ \E tool \in {"read", Compute, "invalid"} : Calls(tool))
  BY DEF Turn
<1>2. /\ at = "GENERATING" /\ n \in Nat \ {0} /\ n <= Remaining
      /\ observations' = delivered(observations, turns)
      /\ turns' = turns + 1 /\ seen' = context
      /\ UNCHANGED <<users, cacheVars, rewardVars, abort, context, lost>>
  BY <1>1 DEF Generates
<1>3. mask' \in Nat
  <2>1. PICK m \in MergeTokens : mask' = mask + n + m
    BY <1>1 DEF Generates
  <2>2. QED
    BY <2>1, <1>2 DEF LoopInv
<1>4. observations \in Seq(Entry) /\ turns \in 0..MaxTurns /\ turns < MaxTurns /\ turns \in Nat
      /\ Len(observations) <= turns /\ context = DOMAIN observations /\ MaxTurns \in Nat
      /\ users \in 0..MaxTurns /\ Len(observations) \in Nat
  BY <1>2 DEF LoopInv, Live, ContextInv
<1>5. /\ observations' \in Seq(Entry) /\ Len(observations') = Len(observations)
      /\ DOMAIN observations' = DOMAIN observations
  BY <1>2, <1>4, DeliveredLedger
<1>6. /\ at' \in {"TERMINATED", "PROCESSING_TOOLS"}
      /\ at' = "PROCESSING_TOOLS" => turns' < MaxTurns /\ users < MaxTurns /\ report' = report
      /\ report' = report \/ (report' \in Reports /\ Kept /\ at' = "TERMINATED")
  <2>1. CASE Submits
    BY <2>1 DEF Submits
  <2>2. CASE CutOffOrSilent
    BY <2>2 DEF CutOffOrSilent
  <2>3. ASSUME NEW tool, Calls(tool)
        PROVE /\ at' \in {"TERMINATED", "PROCESSING_TOOLS"} /\ report' = report
              /\ at' = "PROCESSING_TOOLS" => turns' < MaxTurns /\ users < MaxTurns
    BY <2>3, <1>2, <1>4 DEF Calls, LimitReached
  <2>4. QED
    BY <1>1, <2>1, <2>2, <2>3
<1>7. LoopInv'
  <2>1. turns' \in 0..MaxTurns /\ turns' > 0 /\ users' \in 0..MaxTurns
        /\ Len(observations') <= turns' /\ Len(observations') < turns'
    BY <1>2, <1>4, <1>5
  <2>2. at' \in States
    BY <1>6 DEF States, Live, Tools
  <2>3. (at \in Live)' => turns' < MaxTurns
    BY <1>6 DEF Live, Tools
  <2>4. (at \in Tools)' => users' < MaxTurns
    BY <1>2, <1>6 DEF Tools
  <2>5. QED
    BY <1>3, <1>5, <2>1, <2>2, <2>3, <2>4 DEF LoopInv
<1>8. ContextInv'
  BY <1>2, <1>4, <1>5 DEF ContextInv
<1>9. ReportInv'
  <2>1. report = NoReport
    BY <1>2 DEF ReportInv, Live
  <2>2. (at \in Live)' => report' = NoReport
    BY <1>6, <2>1 DEF Live, Tools
  <2>3. QED
    BY <1>6, <2>1, <2>2 DEF ReportInv, Kept
<1>10. QED
  BY <1>2, <1>6, <1>7, <1>8, <1>9

(* A tool's response.                                                      *)
LEMMA ToolReturnStep ==
    ASSUME LoopInv, ContextInv, ReportInv, ToolReturn
    PROVE  /\ LoopInv' /\ ContextInv' /\ ReportInv'
           /\ at' \in {"TERMINATED", "GENERATING"}
           /\ UNCHANGED <<rewardVars, report>>
<1> USE EpisodeConstantsOK
<1>1. PICK tool \in {"read", Compute}, F \in SUBSET Figures : Returns(tool, F)
  BY DEF ToolReturn
<1>2. PICK n \in Sizes : observations' = Append(observations, Observation(tool, F, n)) /\ Merges(n)
  BY <1>1 DEF Returns
<1>3. /\ at \in Tools /\ turns \in 0..MaxTurns /\ turns > 0 /\ turns < MaxTurns /\ turns \in Nat
      /\ users \in 0..MaxTurns /\ users < MaxTurns /\ MaxTurns \in Nat /\ mask \in Nat
      /\ observations \in Seq(Entry) /\ Len(observations) < turns /\ Len(observations) \in Nat
      /\ context = DOMAIN observations /\ report = NoReport /\ n \in Nat
  BY DEF ToolReturn, LoopInv, ContextInv, ReportInv, Live
<1>4. UNCHANGED <<turns, report, rewardVars, seen>>
  BY <1>1 DEF Returns
<1> DEFINE o == Observation(tool, F, n)
<1>5. o \in Entry /\ ~Delivered(o)
  BY <1>3, ObservationIsEntry
<1> HIDE DEF o
<1>6. /\ observations' = Append(observations, o)
      /\ observations' \in Seq(Entry) /\ Len(observations') = Len(observations) + 1
      /\ DOMAIN observations' = DOMAIN observations \cup {Len(observations')}
      /\ observations'[Len(observations')] = o
      /\ \A k \in DOMAIN observations : observations'[k] = observations[k]
  <2>1. observations' = Append(observations, o)
    BY <1>2 DEF o
  <2>2. QED
    BY <2>1, <1>3, <1>5
<1>7. \/ at' = "TERMINATED" /\ UNCHANGED <<mask, users, context>>
      \/ /\ at' = "GENERATING" /\ mask' = mask + n /\ users' = users + 1
         /\ context' = context \cup {Len(observations')}
  BY <1>2 DEF Merges
<1>8. LoopInv'
  <2>1. Len(observations') <= turns' /\ turns' \in 0..MaxTurns /\ turns' < MaxTurns
    BY <1>3, <1>4, <1>6
  <2>2. mask' \in Nat /\ users' \in 0..MaxTurns
    BY <1>3, <1>7
  <2>3. at' \in States /\ at' \notin Tools
    BY <1>7 DEF States, Live, Tools
  <2>4. QED
    BY <1>6, <2>1, <2>2, <2>3 DEF LoopInv
<1>9. ContextInv'
  <2>1. context' \subseteq DOMAIN observations' /\ seen' \subseteq DOMAIN observations'
    BY <1>3, <1>4, <1>6, <1>7 DEF ContextInv
  <2>2. (at \in Live)' => context' = DOMAIN observations'
    BY <1>3, <1>6, <1>7 DEF Live, Tools
  <2>3. \A k \in DOMAIN observations' : Delivered(observations'[k]) => k \in seen'
    BY <1>4, <1>5, <1>6 DEF ContextInv
  <2>4. QED
    BY <2>1, <2>2, <2>3 DEF ContextInv
<1>10. ReportInv'
  BY <1>3, <1>4 DEF ReportInv
<1>11. QED
  BY <1>4, <1>7, <1>8, <1>9, <1>10

-----------------------------------------------------------------------------
(* What the reward's steps do to the requests.                             *)
LEMMA RewardTold ==
    ASSUME OutageInv, RewardNext
    PROVE  /\ abort' \in BOOLEAN /\ lost' \in BOOLEAN
           /\ Told' \/ (UNCHANGED <<abort, lost>> /\ at' # "failed")
<1>1. CASE Checks
  BY <1>1 DEF Checks, Scores, OutageInv
<1>2. CASE RecordMissing \/ GoldMissing
  BY <1>2, InfrastructureStops, Zenon DEF RecordMissing, GoldMissing
<1>3. CASE \E v \in Replies : Replied(v)
  <2>1. PICK v \in Replies : Replied(v)
    BY <1>3
  <2>2. CASE Infrastructure
    BY <2>2, InfrastructureStops, Zenon
  <2>3. CASE Scores(IF verdict' = "supported" THEN 1 ELSE 0, verdict')
    BY <2>3 DEF Scores, OutageInv
  <2>4. QED
    BY <2>1, <2>2, <2>3, Zenon DEF Replied
<1>4. ASSUME NEW b \in BOOLEAN, JudgeFails(b)
      PROVE  /\ abort' \in BOOLEAN /\ lost' \in BOOLEAN
             /\ Told' \/ (UNCHANGED <<abort, lost>> /\ at' # "failed")
  <2>1. CASE Infrastructure
    BY <2>1, InfrastructureStops, Zenon
  <2>2. CASE UNCHANGED <<at, result, abort, lost>>
    BY <1>4, <2>2 DEF JudgeFails, OutageInv
  <2>3. QED
    BY <1>4, <2>1, <2>2, Zenon DEF JudgeFails
<1>5. ASSUME NEW b \in BOOLEAN, Traces(b)
      PROVE  /\ abort' \in BOOLEAN /\ lost' \in BOOLEAN
             /\ Told' \/ (UNCHANGED <<abort, lost>> /\ at' # "failed")
  <2>1. CASE Asks
    BY <2>1, RequestTold, Zenon DEF Asks
  <2>2. CASE at' = "scored" /\ UNCHANGED <<abort, lost>>
    BY <2>2 DEF OutageInv
  <2>3. QED
    BY <1>5, <2>1, <2>2, Zenon DEF Traces, Asks
<1>6. CASE RewardTimesOut
  BY <1>6, Zenon DEF RewardTimesOut, OutageInv, Told
<1>7. QED
  BY <1>1, <1>2, <1>3, <1>4, <1>5, <1>6, Zenon DEF RewardNext

(* Once a failure was told, or lost, it stays so; and what fails or finds   *)
(* no isolation tells it in the same step.                                 *)
LEMMA OutageStep == LoopInv /\ ContextInv /\ ReportInv /\ OutageInv /\ [Next]_vars => OutageInv'
<1> SUFFICES ASSUME LoopInv, ContextInv, ReportInv, OutageInv, [Next]_vars PROVE OutageInv'
  OBVIOUS
<1>t. corpus \in BOOLEAN /\ tries \in 0..Retries /\ Retries \in Nat
  BY EpisodeConstantsOK DEF OutageInv
<1>0. ASSUME abort' \in BOOLEAN, lost' \in BOOLEAN, Told', corpus' \in BOOLEAN, tries' \in 0..Retries
      PROVE  OutageInv'
  BY <1>0, Zenon DEF OutageInv
<1>s. ASSUME UNCHANGED <<abort, lost, sandbox>>, at' # "failed", corpus' \in BOOLEAN, tries' \in 0..Retries
      PROVE  OutageInv'
  BY <1>s, Zenon DEF OutageInv, Told
<1>1. CASE Turn
  <2>1. UNCHANGED <<cacheVars, rewardVars, abort, lost>> /\ at' # "failed"
    BY <1>1, TurnStep
  <2>2. QED
    BY <2>1, <1>s, <1>t, Zenon DEF cacheVars, rewardVars
<1>2. CASE LoopFails
  <2>1. abort' \in BOOLEAN /\ lost' \in BOOLEAN /\ Told'
    BY <1>2, RequestTold, Zenon DEF LoopFails
  <2>2. QED
    BY <1>0, <1>2, <1>t, <2>1, Zenon DEF LoopFails, cacheVars, rewardVars
<1>3. CASE Launches
  <2>1. UNCHANGED <<abort, lost, corpus, tries>> /\ at' = "computing"
    BY <1>3, Zenon DEF Launches, rewardVars, historyVars
  <2>2. sandbox' = "unusable" => Unsandboxed
    BY <1>3 DEF Launches
  <2>3. QED
    BY <2>1, <2>2, <1>t, Zenon DEF OutageInv, Told
<1>4. CASE ToolReturn
  <2>1. UNCHANGED rewardVars /\ at' # "failed" /\ corpus' \in BOOLEAN
    BY <1>4, ToolReturnStep DEF ToolReturn
  <2>2. tries' \in 0..Retries
    BY <2>1, <1>t, Zenon DEF rewardVars
  <2>3. CASE Asks
    BY <1>0, <2>1, <2>2, <2>3, RequestTold, Zenon DEF Asks
  <2>4. CASE sandbox' = sandbox /\ UNCHANGED <<abort, lost>>
    BY <1>s, <2>1, <2>2, <2>4, Zenon
  <2>5. QED
    BY <1>4, <2>3, <2>4, Zenon DEF ToolReturn
<1>5. CASE RewardNext
  <2>1. corpus' \in BOOLEAN /\ sandbox' = sandbox
    BY <1>5, <1>t, RewardShape, Zenon DEF RewardStep, cacheVars
  <2>2. tries' \in 0..Retries
    <3>1. CASE tries' = tries
      BY <3>1, <1>t
    <3>2. CASE tries' # tries
      <4>1. PICK b \in BOOLEAN : JudgeFails(b)
        BY <1>5, <3>2 DEF RewardNext, Checks, RecordMissing, GoldMissing, Replied, Traces, RewardTimesOut, rewardVars
      <4>2. tries < Retries /\ tries' = tries + 1
        BY <3>2, <4>1 DEF JudgeFails
      <4>3. QED
        BY <1>t, <4>2
    <3>3. QED
      BY <3>1, <3>2
  <2>3. CASE Told'
    BY <1>0, <1>5, <2>1, <2>2, <2>3, RewardTold, Zenon
  <2>4. CASE UNCHANGED <<abort, lost>> /\ at' # "failed"
    BY <1>s, <2>1, <2>2, <2>4, Zenon
  <2>5. QED
    BY <1>5, <2>3, <2>4, RewardTold, Zenon
<1>6. CASE UNCHANGED vars
  BY <1>6, Zenon DEF vars, OutageInv, Told, cacheVars, rewardVars, historyVars
<1>7. QED
  BY <1>1, <1>2, <1>3, <1>4, <1>5, <1>6, Shapes

-----------------------------------------------------------------------------
(* The checks and the verdict speak of the ledger and the report only, and *)
(* no step of the reward touches those.                                    *)
LEMMA RewardKeeps ==
    ASSUME RewardStep
    PROVE  /\ Category' = Category /\ CitedTokens' = CitedTokens
           /\ UNCHANGED <<turns, users, mask, observations, report, context, seen>>
           /\ UNCHANGED <<Kind, Invalid, check_cited_values, report>>
           /\ verdict' = verdict => (Deserved' <=> Deserved)
<1>1. UNCHANGED <<turns, users, mask, observations, report, context, seen>>
  BY DEF RewardStep, loopVars
<1>2. CitedTokens' = CitedTokens
  BY <1>1 DEF CitedTokens, Evidence
<1>3. Category' = Category
  BY <1>1 DEF Category, Kind, Invalid, check_cited_values, Correct
<1>4. UNCHANGED <<Kind, Invalid, check_cited_values, report>>
  BY <1>1 DEF Kind, Invalid, check_cited_values
<1>5. verdict' = verdict => (Deserved' <=> Deserved)
  BY <1>2, <1>4 DEF Deserved, Correct
<1>6. QED
  BY <1>1, <1>2, <1>3, <1>4, <1>5

(* The categories a check can end in, and what "judged" stands for.        *)
LEMMA Categories ==
    /\ Kind \in {"malformed", "abstention", "valid"}
    /\ Category \in {"malformed", "abstention", "invalid_path", "fabricated", "wrong", "judged"}
    /\ Category = "abstention" <=> Kind = "abstention"
    /\ Category = "judged" =>
          Kind = "valid" /\ Invalid = {} /\ check_cited_values = {} /\ Correct
<1>1. Kind \in {"malformed", "abstention", "valid"}
  BY DEF Kind, parse_report
<1>2. QED
  BY <1>1 DEF Category, Correct

(* A parsed verdict.                                                       *)
LEMMA Verdicts == ASSUME NEW v PROVE parse_verdict(v) \in {Unresolved, "supported", "unsupported"}
BY DEF parse_verdict, parse_support_verdict

(* The loop's part of the invariant through the other steps.               *)
LEMMA LoopStep ==
    ASSUME LoopInv, ContextInv, ReportInv, OutageInv, [Next]_vars
    PROVE  LoopInv' /\ ContextInv' /\ ReportInv'
<1>1. CASE Turn
  BY <1>1, TurnStep
<1>2. CASE LoopFails
  BY <1>2 DEF LoopFails, loopVars, LoopInv, ContextInv, ReportInv, States, Live, Tools
<1>3. CASE Launches
  BY <1>3 DEF Launches, loopVars, historyVars, LoopInv, ContextInv, ReportInv, States, Live, Tools
<1>4. CASE ToolReturn
  BY <1>4, ToolReturnStep
<1>5. CASE RewardNext
  <2>1. UNCHANGED <<turns, users, mask, observations, report, context, seen>>
    BY <1>5, RewardShape, RewardKeeps
  <2>2. at' \in States /\ at' \notin Live /\ at' \notin Tools
    BY <1>5, RewardShape DEF States, Live, Tools, Rewarded
  <2>3. QED
    BY <2>1, <2>2 DEF LoopInv, ContextInv, ReportInv
<1>6. CASE UNCHANGED vars
  BY <1>6 DEF vars, loopVars, historyVars, LoopInv, ContextInv, ReportInv
<1>7. QED
  BY <1>1, <1>2, <1>3, <1>4, <1>5, <1>6, Shapes

-----------------------------------------------------------------------------
(* One step of the reward, in the states the invariant allows.             *)
LEMMA ChecksStep ==
    ASSUME OutageInv, RewardInv, Checks
    PROVE  RewardInv'
<1>r. RewardStep /\ verdict' = verdict /\ at = "TERMINATED"
  BY DEF Checks
<1>k. Category' = Category /\ CitedTokens' = CitedTokens /\ (Deserved' <=> Deserved)
  BY <1>r, RewardKeeps
<1>v. verdict = Unresolved /\ verdict' = Unresolved /\ result \in Result
  BY <1>r DEF RewardInv
<1>1. ASSUME NEW c \in Labels, Scores(0, c), Deserved
      PROVE  RewardInv'
  <2>1. at' = "tracing" /\ result' = [score |-> 0, infrastructure |-> FALSE, category |-> c]
    BY <1>1 DEF Scores
  <2>2. result' \in Result /\ result'.score # 1 /\ result'.infrastructure # TRUE
    BY <2>1 DEF Result
  <2>3. Deserved'
    BY <1>1, <1>k
  <2>4. at' \notin Live \cup {"TERMINATED", "judging"}
    BY <2>1 DEF Live, Tools
  <2>5. at' # "judging"
    BY <2>1
  <2>6. QED
    BY <1>v, <2>2, <2>3, <2>4, <2>5, Zenon DEF RewardInv
<1>2. CASE Category # "judged" /\ Scores(0, Category)
  <2>1. Deserved
    BY <1>2 DEF Deserved, Category
  <2>2. Category \in Labels
    BY <1>2, Categories DEF Labels
  <2>3. QED
    BY <1>1, <1>2, <2>1, <2>2
<1>3. CASE CitedTokens > JudgeBudget /\ Scores(0, "over_budget")
  BY <1>1, <1>3 DEF Deserved, Labels
<1>4. CASE Category = "judged" /\ CitedTokens <= JudgeBudget /\ at' = "judging" /\ UNCHANGED result
  <2>1. Weighed'
    BY <1>k, <1>4 DEF Weighed
  <2>2. at' \notin Rewarded /\ verdict' = Unresolved /\ result' \in Result
    BY <1>v, <1>4 DEF Rewarded
  <2>3. QED
    BY <2>1, <2>2, Zenon DEF RewardInv
<1>5. QED
  BY <1>2, <1>3, <1>4 DEF Checks

(* Giving up on an outage keeps what the reward has found out.             *)
LEMMA OutageTraceStep ==
    ASSUME OutageInv, RewardInv, Infrastructure, verdict' = Unresolved
    PROVE  RewardInv'
<1>1. Told'
  BY InfrastructureStops
<1>2. CASE at' = "failed" /\ result' = result
  <2>1. at' \notin Rewarded /\ at' # "judging" /\ result' \in Result
    BY <1>2 DEF Rewarded, RewardInv
  <2>2. QED
    BY <2>1, Zenon DEF RewardInv
<1>3. CASE /\ at' = "tracing"
           /\ result' = [score |-> 0, infrastructure |-> TRUE, category |-> "infrastructure"]
  <2>1. result' \in Result /\ result'.score # 1 /\ result'.infrastructure # FALSE
    BY <1>3 DEF Result, Labels
  <2>2. at' # "judging"
    BY <1>3
  <2>3. QED
    BY <1>1, <2>1, <2>2, Zenon DEF RewardInv
<1>4. QED
  BY <1>2, <1>3, InfrastructureStops

(* The judge's reply keeps what the reward has found out.                 *)
LEMMA RepliedStep ==
    ASSUME OutageInv, RewardInv, NEW v, Replied(v)
    PROVE  RewardInv'
<1>r. RewardStep /\ at = "judging" /\ verdict' \in {Unresolved, "supported", "unsupported"}
  BY Verdicts DEF Replied
<1>k. Category' = Category /\ CitedTokens' = CitedTokens /\ Weighed
  BY <1>r, RewardKeeps DEF RewardInv
<1>1. CASE verdict' = Unresolved
  BY <1>1, <1>r, OutageTraceStep DEF Replied
<1>2. CASE verdict' # Unresolved
  <2>1. /\ at' = "tracing"
        /\ result' = [score |-> IF verdict' = "supported" THEN 1 ELSE 0,
                      infrastructure |-> FALSE, category |-> verdict']
    BY <1>2 DEF Replied, Scores
  <2>2. verdict' \in {"supported", "unsupported"}
    BY <1>r, <1>2
  <2>3. /\ result' \in Result /\ result'.infrastructure # TRUE
        /\ result'.score = 1 <=> verdict' = "supported"
    BY <2>1, <2>2 DEF Result, Labels
  <2>4. Weighed'
    BY <1>k DEF Weighed
  <2>5. result'.score = 0 => Deserved'
    BY <2>2, <2>3 DEF Deserved
  <2>6. at' \notin Live \cup {"TERMINATED", "judging"} /\ at' # "judging"
    BY <2>1 DEF Live, Tools
  <2>7. QED
    BY <1>r, <2>3, <2>4, <2>5, <2>6, Zenon DEF RewardInv
<1>3. QED
  BY <1>1, <1>2

(* A judge that fails keeps what the reward has found out.                *)
LEMMA JudgeFailsStep ==
    ASSUME OutageInv, RewardInv, NEW b \in BOOLEAN, JudgeFails(b)
    PROVE  RewardInv'
<1>r. RewardStep /\ at = "judging" /\ verdict' = verdict /\ verdict = Unresolved /\ Weighed
  BY DEF JudgeFails, RewardInv
<1>1. CASE Infrastructure
  BY <1>1, <1>r, OutageTraceStep
<1>2. CASE UNCHANGED <<at, result, abort, lost>>
  <2>1. Weighed'
    BY <1>r, RewardKeeps DEF Weighed
  <2>2. at' \notin Rewarded /\ result' \in Result /\ verdict' = Unresolved
    BY <1>2, <1>r DEF RewardInv, Rewarded
  <2>3. QED
    BY <2>1, <2>2, Zenon DEF RewardInv
<1>3. QED
  BY <1>1, <1>2 DEF JudgeFails

(* Writing the trace keeps what the reward has found out.                 *)
LEMMA TracesStep ==
    ASSUME OutageInv, RewardInv, NEW written \in BOOLEAN, Traces(written)
    PROVE  RewardInv'
<1>r. RewardStep /\ at = "tracing" /\ verdict' = verdict /\ at' \in {"scored", "failed"}
  BY DEF Traces
<1>k. (Weighed' <=> Weighed) /\ (Deserved' <=> Deserved)
  BY <1>r, RewardKeeps DEF Weighed
<1>v. verdict' \in {Unresolved, "supported", "unsupported"} /\ at' # "judging"
      /\ at' \notin Live \cup {"TERMINATED", "judging"} /\ at \in Rewarded
  BY <1>r DEF RewardInv, Live, Tools, Rewarded
<1>1. CASE UNCHANGED <<result, abort, lost>>
  <2>1. result' \in Result
    BY <1>1 DEF RewardInv
  <2>2. result'.score = 1 => Weighed' /\ verdict' = "supported"
    BY <1>1, <1>r, <1>v, <1>k DEF RewardInv
  <2>3. result'.infrastructure = TRUE => Told'
    BY <1>1, <1>v, Zenon DEF RewardInv, Told
  <2>4. result'.score = 0 /\ result'.infrastructure = FALSE => Deserved'
    BY <1>1, <1>k, <1>v, Zenon DEF RewardInv
  <2>5. QED
    BY <1>v, <2>1, <2>2, <2>3, <2>4, Zenon DEF RewardInv
<1>2. CASE Asks /\ result' = [result EXCEPT !.score = 0, !.infrastructure = TRUE]
  <2>1. Told'
    BY <1>2, RequestTold, Zenon DEF Asks
  <2>2. result' \in Result /\ result'.score # 1 /\ result'.infrastructure # FALSE
    <3>1. ASSUME NEW r \in Result, NEW t, t = [r EXCEPT !.score = 0, !.infrastructure = TRUE]
          PROVE  t \in Result /\ t.score # 1 /\ t.infrastructure # FALSE
      <4>1. t = [score |-> 0, infrastructure |-> TRUE, category |-> r.category]
        BY <3>1 DEF Result
      <4>2. t.score # 1 /\ t.infrastructure # FALSE
        BY <4>1
      <4>3. r.category \in Labels
        BY DEF Result
      <4>4. t \in Result
        BY <4>1, <4>3 DEF Result
      <4>5. QED
        BY <4>2, <4>4
    <3>2. result \in Result
      BY DEF RewardInv
    <3>3. QED
      BY <1>2, <3>1, <3>2
  <2>3. QED
    BY <1>v, <2>1, <2>2, Zenon DEF RewardInv
<1>3. QED
  BY <1>1, <1>2, Zenon DEF Traces, Asks

(* A reward of 1 rests on a weighed report and a verdict; an infrastructure *)
(* failure was told, or lost; every other 0 is deserved.                   *)
LEMMA RewardInvStep ==
    ASSUME LoopInv, ContextInv, ReportInv, OutageInv, RewardInv, [Next]_vars
    PROVE  RewardInv'
<1>v. /\ result \in Result /\ verdict \in {Unresolved, "supported", "unsupported"}
      /\ at \in Live \cup {"TERMINATED"} => verdict = Unresolved
  BY DEF RewardInv
<1>0. ASSUME UNCHANGED rewardVars, at' \notin Rewarded \cup {"judging"},
             at \in Live \cup {"TERMINATED"} \/ at' = "failed"
      PROVE  RewardInv'
  <2>1. result' = result /\ verdict' = verdict
    BY <1>0 DEF rewardVars
  <2>2. at' # "judging" /\ at' \notin Rewarded
    BY <1>0
  <2>3. at' \in Live \cup {"TERMINATED", "judging"} => verdict' = Unresolved
    BY <1>0, <1>v, <2>1 DEF Live, Tools
  <2>4. QED
    BY <1>v, <2>1, <2>2, <2>3, Zenon DEF RewardInv
<1>1. CASE Turn
  <2>1. UNCHANGED rewardVars /\ at = "GENERATING" /\ at' \in {"TERMINATED", "PROCESSING_TOOLS"}
    BY <1>1, TurnStep
  <2>2. QED
    BY <1>0, <2>1 DEF Live, Tools, Rewarded
<1>2. CASE LoopFails
  BY <1>0, <1>2 DEF LoopFails, Rewarded
<1>3. CASE Launches
  BY <1>0, <1>3 DEF Launches, Live, Tools, Rewarded
<1>4. CASE ToolReturn
  <2>1. at \in Tools
    BY <1>4 DEF ToolReturn
  <2>2. QED
    BY <1>0, <1>4, <2>1, ToolReturnStep DEF Live, Rewarded
<1>5. CASE RewardNext
  <2>1. CASE RecordMissing \/ GoldMissing
    BY <1>v, <2>1, OutageTraceStep DEF RecordMissing, GoldMissing
  <2>2. CASE RewardTimesOut
    BY <1>0, <2>2 DEF RewardTimesOut, Rewarded
  <2>3. QED
    BY <1>5, <2>1, <2>2, ChecksStep, RepliedStep, JudgeFailsStep, TracesStep DEF RewardNext
<1>6. CASE UNCHANGED vars
  <2>1. UNCHANGED <<at, result, verdict, abort, lost, observations, report>>
    BY <1>6 DEF vars, rewardVars, historyVars
  <2>2. RewardStep
    BY <1>6 DEF vars, RewardStep, loopVars, historyVars
  <2>3. (Weighed' <=> Weighed) /\ (Deserved' <=> Deserved)
    BY <2>1, <2>2, RewardKeeps DEF Weighed
  <2>4. Told' <=> Told
    BY <2>1 DEF Told
  <2>5. QED
    BY <2>1, <2>3, <2>4, Zenon DEF RewardInv
<1>7. QED
  BY <1>1, <1>2, <1>3, <1>4, <1>5, <1>6, Shapes

-----------------------------------------------------------------------------
(* The initial state, from what is assumed of the constants.               *)
LEMMA InitInv == Init => IInv
<1> SUFFICES ASSUME Init PROVE IInv
  OBVIOUS
<1> USE EpisodeConstantsOK DEF Init
<1>1. LoopInv
  <2>1. observations \in Seq(Entry) /\ Len(observations) = 0
    OBVIOUS
  <2>2. at \in States /\ at \notin Tools
    BY DEF States, Live, Tools
  <2>3. MaxTurns \in Nat /\ MaxTurns > 0 /\ 0 \in 0..MaxTurns
    OBVIOUS
  <2>4. QED
    BY <2>1, <2>2, <2>3 DEF LoopInv
<1>2. ContextInv
  BY DEF ContextInv
<1>3. ReportInv
  BY DEF ReportInv
<1>4. OutageInv
  <2>1. 0 \in 0..Retries
    OBVIOUS
  <2>2. QED
    BY <2>1, Zenon DEF OutageInv
<1>5. RewardInv
  <2>1. result \in Result
    BY DEF NoResult, Result, Labels
  <2>2. at # "judging" /\ at \notin Rewarded
    BY DEF Rewarded
  <2>3. QED
    BY <2>1, <2>2, Zenon DEF RewardInv
<1>6. QED
  BY <1>1, <1>2, <1>3, <1>4, <1>5 DEF IInv

(* The strengthening is inductive.                                         *)
THEOREM InductiveInvariant == Spec => []IInv
<1>1. IInv /\ [Next]_vars => IInv'
  BY LoopStep, OutageStep, RewardInvStep DEF IInv
<1>2. QED
  BY InitInv, <1>1, PTL DEF Spec

(* The types follow, for every number of turns.                            *)
LEMMA TypesFollow == IInv => TypeOK
<1> SUFFICES ASSUME IInv PROVE TypeOK
  OBVIOUS
<1>1. Len(observations) <= MaxTurns
  BY EpisodeConstantsOK DEF IInv, LoopInv
<1>2. {abort, lost, corpus} \subseteq BOOLEAN
  BY Zenon DEF IInv, OutageInv
<1>3. at \in {"GENERATING", "PROCESSING_TOOLS", "computing", "TERMINATED", "judging", "tracing"} \cup Final
  BY DEF IInv, LoopInv, States, Live, Tools, Rewarded, Final
<1>4. context \cup seen \subseteq DOMAIN observations
  BY DEF IInv, ContextInv
<1>5. tries \in 0..Retries
  BY DEF IInv, OutageInv
<1>6. QED
  BY <1>1, <1>2, <1>3, <1>4, <1>5 DEF TypeOK, IInv, LoopInv, ReportInv

(* A report that was weighed is a submission, and its path is a sequence   *)
(* of steps that is not empty.                                             *)
LEMMA ValidPath ==
    ASSUME ReportInv, Kind = "valid"
    PROVE  report # NoReport /\ report.path \in Seq(PathStep) /\ Len(report.path) >= 1
<1>1. report.object /\ Len(report.path) \in 1..MaxSteps
  BY DEF Kind, parse_report
<1>2. report # NoReport
  <2>1. NoReport.object = FALSE
    BY DEF NoReport
  <2>2. QED
    BY <1>1, <2>1, Zenon
<1>3. report \in Report
  BY <1>2, EpisodeConstantsOK DEF ReportInv
<1>4. report.path \in Seq(PathStep)
  BY <1>3 DEF Report
<1>5. QED
  BY <1>1, <1>2, <1>4, ReportBoundsOK

(* A reward of 1 is earned: the answer is right and supported, the judge    *)
(* was shown everything that is cited, the policy had been given every     *)
(* cited observation when it wrote the report, no looked-up figure is      *)
(* invented and no token of the report lies beyond what is trained on --   *)
(* for every policy, judge, sandbox and length of episode.                 *)
THEOREM ScoreIsEarnedHolds == Spec => []ScoreIsEarned
<1>1. IInv => ScoreIsEarned
  <2> SUFFICES ASSUME IInv, at = "scored", result.score = 1
      PROVE /\ Correct /\ verdict = "supported" /\ CitedTokens <= JudgeBudget
            /\ Evidence # {} /\ Evidence \subseteq seen
            /\ \A i \in DOMAIN report.path :
                  observations[report.path[i].observation].tool # Compute =>
                      report.path[i].figures \subseteq UNION {observations[n].figures : n \in seen}
            /\ mask <= ResponseLength
    BY TypesFollow DEF ScoreIsEarned
  <2>1. Weighed /\ verdict = "supported"
    BY DEF IInv, RewardInv, Rewarded
  <2>2. Kind = "valid" /\ Invalid = {} /\ check_cited_values = {} /\ Correct /\ CitedTokens <= JudgeBudget
    BY <2>1, Categories DEF Weighed
  <2>3. report # NoReport /\ report.path \in Seq(PathStep) /\ Len(report.path) >= 1
    BY <2>2, ValidPath DEF IInv
  <2>4. mask <= ResponseLength
    BY <2>3 DEF IInv, ReportInv
  <2>5. ASSUME NEW i \in DOMAIN report.path
        PROVE  /\ report.path[i].observation \in DOMAIN observations
               /\ Delivered(observations[report.path[i].observation])
    BY <2>2 DEF Invalid, Unread
  <2>6. Evidence \subseteq seen
    BY <2>5 DEF Evidence, Cited, IInv, ContextInv
  <2>7. Evidence # {}
    <3>1. 1 \in DOMAIN report.path
      BY <2>3
    <3>2. QED
      BY <3>1 DEF Evidence, Cited
  <2>8. ReadFigures(observations) \subseteq UNION {observations[n].figures : n \in seen}
    BY DEF ReadFigures, IInv, ContextInv
  <2>9. ASSUME NEW i \in DOMAIN report.path,
               observations[report.path[i].observation].tool # Compute
        PROVE  report.path[i].figures \subseteq UNION {observations[n].figures : n \in seen}
    <3>1. report.path[i].figures \subseteq ReadFigures(observations)
      BY <2>2, <2>5, <2>9 DEF check_cited_values, Fabricated
    <3>2. QED
      BY <2>8, <3>1
  <2>10. QED
    BY <2>1, <2>2, <2>4, <2>6, <2>7, <2>9
<1>2. QED
  BY <1>1, InductiveInvariant, PTL

(* What is not the policy's doing stops the run, as long as ABORT.json can  *)
(* be written and verl waits for the reward: no episode that failed, no    *)
(* compute without isolation and no 0 that is not deserved goes on to train *)
(* -- for every policy, judge, sandbox and length of episode.              *)
THEOREM OutageStopsTheRunHolds == Spec => []OutageStopsTheRun
<1>1. IInv => OutageStopsTheRun
  <2> SUFFICES ASSUME IInv, ~abort, ~lost
      PROVE  /\ at # "failed" /\ (sandbox = "unusable" => Unsandboxed)
             /\ at = "scored" => ~result.infrastructure /\ (result.score = 0 => Deserved)
    BY DEF OutageStopsTheRun
  <2>1. ~Told
    BY Zenon DEF IInv, OutageInv, Told
  <2>2. at # "failed"
    BY <2>1, Zenon DEF IInv, OutageInv
  <2>3. sandbox = "unusable" => Unsandboxed
    <3>1. Unsandboxed \in BOOLEAN
      BY EpisodeConstantsOK
    <3>2. QED
      BY <2>1, <3>1, Zenon DEF IInv, OutageInv
  <2>4. ASSUME at = "scored" PROVE ~result.infrastructure /\ (result.score = 0 => Deserved)
    <3>1. at \in Rewarded
      BY <2>4 DEF Rewarded
    <3>2. result.infrastructure # TRUE
      BY <2>1, <3>1, Zenon DEF IInv, RewardInv
    <3>3. result.infrastructure = FALSE
      BY <3>2 DEF IInv, RewardInv, Result
    <3>4. QED
      BY <3>1, <3>3, Zenon DEF IInv, RewardInv
  <2>5. QED
    BY <2>2, <2>3, <2>4, Zenon
<1>2. QED
  BY <1>1, InductiveInvariant, PTL
=============================================================================
