SPECIFICATION CommandSpec
CONSTANTS
  RollbackFails = FALSE
  Procs = {p1, p2}
  NoProc = NoProc
  Updater = p1
  fileA = fileA
  fileB = fileB
  Walk <- WalkOf
  Ships <- ShipsOf
  RefreshAlone = FALSE
  MaxCuts = 0
CHECK_DEADLOCK FALSE
ACTION_CONSTRAINT Independent
INVARIANT StockRecognised
