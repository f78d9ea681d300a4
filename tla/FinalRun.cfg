CONSTANTS
  NumStages = 4
  Train = 2
  Export = 3
  MaxTroubles = 2
SPECIFICATION FairFinalSpec
PROPERTY RepeatingCompletes
INVARIANT StagesAreEarned
PROPERTY PaidOnce
CHECK_DEADLOCK FALSE
