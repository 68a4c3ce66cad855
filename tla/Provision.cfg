SPECIFICATION Spec
CONSTANTS
  a = a
  b = b
  Appliers = {p1, p2}
  Recipes <- TwoRecipes
  VMRecipes <- Listed
  Depends <- BNeedsA
  Reboots <- OnlyA
  Checked = {}
  Modes = {"disk", "cloud"}
  RunModes <- SomeRunModes
  MaxBody = 2
  MaxOrphans = 1
  NoApplier = NoApplier
  NoRecipe = NoRecipe
  CloudInit = CloudInit
SYMMETRY Symmetry
INVARIANT OneRunAtATime
INVARIANT DependenciesMet
INVARIANT ReportsAreTrue
