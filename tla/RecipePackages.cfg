SPECIFICATION PkgFairSpec
CONSTANTS
  a = a
  b = b
  Procs = {p1, p2}
  Packages <- OneRecipe
  Order <- OneName
  Commits = {c1, c2}
  Refs = {v1}
  LockOrder <- HomeFirst
  RollbackFails = TRUE
  Flags = {FALSE}
  Limit <- Bounds
  NoProc = NoProc
  None = None
CHECK_DEADLOCK FALSE
PROPERTY PublishLosesNothing
PROPERTY SyncedIsCurrent
PROPERTY LocksReleased
