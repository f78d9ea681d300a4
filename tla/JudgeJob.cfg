CONSTANTS
  MaxAttempts = 3
  MaxMisses = 4
  Lifetimes = {2}
SPECIFICATION FairSpec
INVARIANT TrainsAgainstItsJudge
PROPERTY JudgeStaysForTraining
PROPERTY EverybodyLeaves
CHECK_DEADLOCK FALSE
