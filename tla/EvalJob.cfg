CONSTANTS
  f1 = f1
  f2 = f2
  q1 = q1
  q2 = q2
  Steps = {1, 2}
  Shards = {f1, f2}
  Resaved = {2}
  Jobs = {1, 2}
  Questions = {q1, q2}
  Concurrency = 2
  MaxTurns = 2
  MaxCont = 1
  Retries = 1
  MaxInfra = 1
  Overwrite = {}
  Staged = {1, 2}
SPECIFICATION MCSpec
INVARIANT NewestStays
INVARIANT ArtifactIsTheModels
PROPERTY EvidenceIsSound
 
CHECK_DEADLOCK FALSE
