CONSTANTS
  Final = 2
  MaxAttempts = 3
  SettlePolls = 1
  r1 = r1
  r2 = r2
  Requesters = {r1}
  NoOne = NoOne
  SyncAttempts = {3}
  Uncertified = {2}
SPECIFICATION FairSpec
INVARIANT CertifiedIsReal
INVARIANT ResultDescribesDisk
INVARIANT AbortVetoes
INVARIANT StoppedIsNotSuccess
PROPERTY ImplementsContract
PROPERTY CodeIsWeighed
PROPERTY AttemptsEnd
CHECK_DEADLOCK FALSE
