SPECIFICATION Spec
CONSTANTS
  r = r
  d = d
  u = u
  n = n
  q = q
  W = W
  P = P
  R = R
  G = G
  H = H
  None = None
  Obj = {r, d, u, n, q}
  Writer = {W}
  Pusher = {P}
  Reader = {R}
  Gc = {G, H}
  Job <- MCJob
  Pushed <- MCPushed
  Wanted <- MCWanted
  Modes = {"incremental", "A", "a"}
  Deletable = {d}
  InitLoose <- MCLoose
  InitPacks <- MCPacks
  InitRefs = {r, d}
  InitTime = 2
  Grace = 2
  MaxTime = 3
  MaxReads = 2
  MaxGc <- MCMaxGc
  Casts = {{R, G}, {W, H}, {P, H}}
INVARIANTS NothingInUseLost ReadersFind
PROPERTIES GraceKept
CHECK_DEADLOCK FALSE
