SPECIFICATION MCSpec
CONSTANTS
  Cmds = {k1, k2}
  NoCmd = NoCmd
  Projects = {x, y}
  Addrs = {q}
  MaxPid = 2
  MaxMishaps = 1
  Calls = {c1, c2}
  Jobs = {j1, j2}
  Recorded = {j1}
  Unit = 2
  ToolBurst = 1
  ToolRate = 1
  Burst = 1
  Rate = 2
  MaxTime = 1
  Settings = {0, 3}
INVARIANT ListWorksStopped
CHECK_DEADLOCK FALSE
