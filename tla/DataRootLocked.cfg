SPECIFICATION FairSpec
CONSTANTS
  Procs = {p1, p2}
  Names = {a, b, c}
  Ports = {q1, q2}
  NoProc = NoProc
  NoName = NoName
  NoPort = NoPort
  Ops <- LockedOnly
  MaxVMs = 2
  WriteFails = TRUE
  Kills = TRUE
INVARIANT TypeOK
INVARIANT SSHPortsDistinct
INVARIANT ChecksStillHold
PROPERTY LockReleased
