SPECIFICATION Spec
CONSTANTS
  a = a
  b = b
  empty = empty
  P = P
  V = V
  F = F
  Nobody = Nobody
  Proc = {P}
  Viewer = {V}
  File = {F}
  Blob = {a, b, empty}
  SizeOf <- MCSizeOf
  Empty = empty
  MaxClock = 3
  MaxRuns = 2
SYMMETRY Symmetry
INVARIANTS NeverFalselyClean RefreshExact UptodateTrue
PROPERTIES LocalChangesKept
CHECK_DEADLOCK FALSE
