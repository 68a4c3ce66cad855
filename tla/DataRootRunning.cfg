SPECIFICATION Spec
CONSTANTS
  Procs = {p1, p2}
  Names = {a}
  Ports = {q1, q2}
  NoProc = NoProc
  NoName = NoName
  NoPort = NoPort
  Ops <- EveryOp
  MaxVMs = 0
  WriteFails = TRUE
  Kills = FALSE
SYMMETRY Symmetry
INVARIANT RunningKeepsDisk
