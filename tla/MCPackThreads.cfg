SPECIFICATION Spec
CONSTANTS
  Threads = 3
  Main = 99
  N = 22
  Hash <- MCHash
  Preferred = {0, 5}
  window = 2
INVARIANT EachObjectOnce
PROPERTIES Terminates
CHECK_DEADLOCK FALSE
