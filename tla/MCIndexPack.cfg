SPECIFICATION Spec
CONSTANTS
  A = A
  B = B
  C = C
  Main = Main
  Thread = {A, B, C}
  Packs <- MCPacks
  Name = {1, 2, 3, 4, 5, 6, 7, 8}
  Size <- MCSize
  Local = {5, 6}
  FixThin = TRUE
  CacheLimit = 2
  Junk = {0, 3}
INVARIANTS OutcomeRight EachDeltaOnce CacheRight RoomToAppend
PROPERTIES Terminates
CHECK_DEADLOCK FALSE
