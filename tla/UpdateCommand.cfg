SPECIFICATION CommandSpec
CONSTANTS
  RollbackFails = FALSE
  Procs = {p1, p2}
  NoProc = NoProc
  Updater = p1
  fileA = fileA
  fileB = fileB
  Walk <- WalkOf
  Ships <- ShipsOf
  RefreshAlone = TRUE
  MaxCuts = 1
CHECK_DEADLOCK FALSE
ACTION_CONSTRAINT Independent
INVARIANT RecordSound
INVARIANT EditsToldApart
INVARIANT KeyStable
PROPERTY AllOrNothing
