SPECIFICATION Spec
CONSTANTS
  c1 = c1
  c2 = c2
  c3 = c3
  x = x
  Commit = {c1, c2, c3, x}
  Own = Own
  None = None
  Lists <- MCLists
  Singles = {x, c1}
  Conflicts = {c1, c3, x}
  Present = {c2, c3}
  MayBeDirty = TRUE
  KillAt = {"save_head", "save_todo", "pick", "cherry_pick_head", "git_commit", "unlink", "reset", "reset_head", "branch_state", "remove"}
  MaxCommands = 5
INVARIANTS NothingSkipped AbortRestores
CHECK_DEADLOCK FALSE
