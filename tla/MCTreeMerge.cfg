SPECIFICATION MCSpec
CONSTANTS
  d = d
  da = da
  db = db
  b1 = b1
  b2 = b2
  b3 = b3
  Top = d
  Inside <- MCInside
  Blob = {b1, b2, b3}
  Local = Local
  Torn = Torn
  Passed = Passed
  None = None
  Directory = Directory
  Heads <- MCTrees
  Targets <- MCTrees
  Bases <- MCBases
  Indexes <- MCIndexes
  Worktrees <- MCWorktrees
  Ignores <- MCIgnores
  Programs <- MCPrograms
INVARIANTS Follows TwoWayTable ForcedExact MergeRight
PROPERTY LocalKept
