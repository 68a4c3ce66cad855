SPECIFICATION PkgSpec
CONSTANTS
  a = a
  b = b
  Procs = {p1, p2}
  Packages <- OneRecipe
  Order <- OneName
  Commits = {c1, c2}
  Refs = {v1}
  LockOrder <- HomeFirst
  Flags = {FALSE}
  RollbackFails = FALSE
  Limit <- RaceBounds
  NoProc = NoProc
  None = None
INVARIANT RepairIsLocked
CHECK_DEADLOCK FALSE
