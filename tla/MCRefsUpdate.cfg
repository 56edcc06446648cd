SPECIFICATION MCSpec
CONSTANTS
  X = X
  Y = Y
  v1 = v1
  v2 = v2
  v3 = v3
  A = A
  B = B
  C = C
  None = None
  Any = Any
  Free = Free
  Stale = Stale
  NoCache = NoCache
  Proc = {A, B, C}
  Ref = {X, Y}
  Tags = {}
  Sha <- MCSha
  InitLoose <- LooseX
  InitPacked <- PackedV1
  LogRefs = {X}
  Casts = {"update"}
  Menu <- MCMenu
  MaxOps <- MCMaxOps
  Faults = {"write", "log", "commit", "kill"}
INVARIANTS LogChain
PROPERTIES CasAtomic ImplementsAtomicRefs
CHECK_DEADLOCK FALSE
