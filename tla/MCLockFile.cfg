SPECIFICATION Spec
CONSTANTS
  p1 = p1
  p2 = p2
  p3 = p3
  x = x
  y = y
  Proc <- MCProc
  First <- MCFirst
  Path <- MCPath
  Free = Free
  Signals = {"run", "dying"}
  PermFails = {"dying"}
  MaxUse = 3
INVARIANTS HolderOwnsLock NoCruft
PROPERTY ImplementsAbsLock
CHECK_DEADLOCK FALSE
