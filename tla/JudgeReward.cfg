CONSTANTS
  s1 = s1
  s2 = s2
  Slots = {s1, s2}
  MaxCalls = 4
  Deadline = 3
  Timeout = 2
  Retries = 1
  Backoff = 1
  Window = 3
  Logged = 1
  MinCalls = 2
  RateNum = 1
  RateDen = 2
SPECIFICATION FairRewardSpec
PROPERTY JudgeIsFound
INVARIANT NoSilentFallback
PROPERTY CallsReturnInTime
CHECK_DEADLOCK FALSE
