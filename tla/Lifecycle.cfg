SPECIFICATION FairSpec
CONSTANTS
  a = a
  b = b
  Actors = {p1, p2}
  Names = {a, b}
  Pids = {1, 2}
  RAMs <- RAMsOf
  MaxRAM = 2
  LiveMode = FALSE
  Tags = {t}
  Ops <- OpsOn
  NoActor = NoActor
  NoName = NoName
  NoTag = NoTag
INVARIANT LiveIsTracked
INVARIANT WithinMaxRAM
PROPERTY OkIsDone
PROPERTY StopReturns
