SPECIFICATION SmallSpec
CONSTANTS
  v1 = v1
  v2 = v2
  keep = keep
  gone = gone
  g1 = g1
  g2 = g2
  VMs = {v1, v2}
  Order <- OrderDef
  Recipes = {keep, gone}
  Decls <- DeclsDef
  Callers = {p1, p2}
  Gcps = {g1, g2}
  Listed = g1
  Limit = 1
  Durations = {1, 2}
  MaxCommands = 2
  MaxEvents = 1
CHECK_DEADLOCK FALSE
PROPERTY CloudAccounted
PROPERTY Converges
PROPERTY CommandsEnd
