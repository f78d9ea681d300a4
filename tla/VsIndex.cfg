CONSTANTS
  s1 = s1
  s2 = s2
  r1 = r1
  r2 = r2
  Sources = {s1, s2}
  Editions = {1, 2}
  Runs = {r1, r2}
  Keep <- MCKeep
  MaxPolls = 1
SPECIFICATION MCSpec
INVARIANT ManifestDescribes
INVARIANT VersionedIsWhole
PROPERTY WaitIsHonest
PROPERTY KeptIsUntouched
CHECK_DEADLOCK FALSE
