CONSTANTS
  Final = 2
  MaxAttempts = 1
  SettlePolls = 1
  r1 = r1
  r2 = r2
  Requesters = {r1}
  NoOne = NoOne
  SyncAttempts = {}
  Uncertified = {}
SPECIFICATION Spec
INVARIANT RunsToCompletion
CHECK_DEADLOCK FALSE
