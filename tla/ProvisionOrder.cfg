SPECIFICATION Spec
CONSTANTS
  a = a
  b = b
  Appliers = {p1}
  Recipes <- TwoRecipes
  VMRecipes <- Listed
  Depends <- BNeedsA
  Reboots <- OnlyA
  Checked = {}
  Modes = {"cloud"}
  RunModes <- SomeRunModes
  MaxBody = 1
  MaxOrphans = 0
  NoApplier = NoApplier
  NoRecipe = NoRecipe
  CloudInit = CloudInit
INVARIANT DependsRunFirst
