CONSTANTS
  w1 = w1
  w2 = w2
  JoinAttempts = 2
  Period = 1
  Stale = 2
  Workers = {w1}
  MaxAttempts = 1
  FailingWrites = {1}
SPECIFICATION Spec
PROPERTY StopsRay
CHECK_DEADLOCK FALSE
