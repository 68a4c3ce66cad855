SPECIFICATION Spec
CONSTANTS
  Procs = {p1, p2, p3}
  Names = {a, b}
  Ports = {q1, q2, q3}
  NoProc = NoProc
  NoName = NoName
  NoPort = NoPort
  Ops <- CreateStartUpdate
  MaxVMs = 0
  WriteFails = FALSE
  Kills = FALSE
SYMMETRY Symmetry
INVARIANT SSHPortsDistinct
