CONSTANTS
  table_max_chars = 9
  section_max_chars = 10
  chunk_max_chars = 6
  chunk_overlap_chars = 2
  Footnote = 3
  Scales = {2}
  Years = {4}
  TopK = 1
  Most = 2
  FormatScore = 5
  RetrievalBonus = 20
  CoverEm = FALSE
  Defaults <- MCDefaults
  Limits <- MCLimits
  Rows = 10
  MAX_NODES = 5
  MAX_INT_BITS = 3
  MAX_ROUND_DIGITS = 1
  Checkpoints = {1, 2}
  Draws = 2
  hard_train = 1
  samples = 2
  maximum = 1
  DEV_N = 1
  EXCLUDE_FIRST = 1
  n_test = 2
  Longest <- MCLongest
  Alphabet <- MCAlphabet
  Starts <- MCStarts
  Golds <- MCGolds
SPECIFICATION Spec
INVARIANT ChunksHold
INVARIANT CellsHold
INVARIANT AnswersHold
INVARIANT RewardHolds
INVARIANT LaunchHolds
INVARIANT CalculatorHolds
INVARIANT PairedHolds
INVARIANT SplitsHold
CHECK_DEADLOCK FALSE
