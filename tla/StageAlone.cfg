CONSTANTS
  c1 = c1
  c2 = c2
  j1 = j1
  j2 = j2
  j3 = j3
  Jobs = {j1, j2, j3}
  Commits <- TwoCommits
  None = None
  Files <- ThreeFiles
  FilesOf <- Shards
  Unhashed = {2}
  Alone = TRUE
SPECIFICATION StageSpec
PROPERTY OneRevision
SYMMETRY Symmetry
INVARIANT DirectoryIsTrue
CHECK_DEADLOCK FALSE
