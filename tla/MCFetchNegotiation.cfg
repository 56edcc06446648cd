SPECIFICATION FetchSpec
CONSTANTS
  Commit = {1, 2, 3, 4, 5, 6, 7}
  Date <- MCDate
  Histories <- MCHistories
  Tips <- MCTips
  Modes = {0, 1, 2}
  Http = TRUE
  None = None
  INITIAL_FLUSH = 1
  FLUSH_LIMIT = 2
  MAX_IN_VAIN = 1
INVARIANTS PackNext NothingTwice AckedKept
PROPERTIES Negotiated
CHECK_DEADLOCK FALSE
