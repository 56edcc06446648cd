SPECIFICATION MCFairSpec
CONSTANTS
  X = X
  Y = Y
  v1 = v1
  v2 = v2
  v3 = v3
  A = A
  B = B
  C = C
  None = None
  Any = Any
  Free = Free
  Stale = Stale
  NoCache = NoCache
  Proc = {A, B, C}
  Ref = {X, Y}
  Tags = {Y}
  Sha <- MCSha
  InitLoose <- LooseX
  InitPacked <- PackedV1
  LogRefs = {X}
  Casts = {"read", "pack", "delete"}
  Menu <- MCMenu
  MaxOps <- MCMaxOps
  Faults = {"write", "commit", "unlink", "kill"}
INVARIANTS ReadsWhatWas
PROPERTIES PackPreservesValue DeleteOnlyItsRef DeleteTakesEffect OpsReturn
CHECK_DEADLOCK FALSE
