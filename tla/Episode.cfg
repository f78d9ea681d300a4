CONSTANTS
  fa = fa
  MaxBytes = 2
  MaxSteps = 2
  Figures = {fa}
  MaxTurns = 3
  ResponseLength = 7
  GenerationTokens = 2
  Sizes = {1, 2}
  MergeTokens = {0, 1}
  Reports <- MCReports
  JudgeBudget = 3
  Retries = 1
  Replies <- MCReplies
  Unsandboxed = FALSE
  Requests = {"written", "raised", "nowhere"}
SPECIFICATION FairSpec
INVARIANT ScoreIsEarned
INVARIANT OutageStopsTheRun
PROPERTY EpisodeEnds
CHECK_DEADLOCK FALSE
