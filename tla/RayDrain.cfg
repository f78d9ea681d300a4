CONSTANTS
  w1 = w1
  w2 = w2
  JoinAttempts = 2
  Period = 1
  Stale = 2
  Workers = {w1, w2}
  MaxAttempts = 2
  FailingWrites = {1}
SPECIFICATION FairSpec
PROPERTY WorkersLeave
INVARIANT WorkersFollowTheHead
CHECK_DEADLOCK FALSE
