SPECIFICATION Spec
CONSTANTS
  a = a
  b = b
  Appliers = {p1}
  Recipes <- TwoRecipes
  VMRecipes <- Listed
  Depends <- BNeedsA
  Reboots <- OnlyA
  Checked <- OnlyB
  Modes = {"disk"}
  RunModes <- SomeRunModes
  MaxBody = 1
  MaxOrphans = 0
  NoApplier = NoApplier
  NoRecipe = NoRecipe
  CloudInit = CloudInit
PROPERTY AppliedIsSeen
