SPECIFICATION Spec
CONSTANTS
  a = a
  b = b
  c = c
  Recipes <- ThreeRecipes
  NoRecipe = NoRecipe
  Calls = {"CheckDependencies", "ResolveDependencies", "planRecipes"}
  Lists <- ListsUpToNames
  Graphs <- AllGraphs
  Kinds <- SomeKinds
  Catalogs <- SomeCatalogs
CHECK_DEADLOCK FALSE
INVARIANT OrderIsTopological
INVARIANT CycleIsReal
INVARIANT PlanIsReference
INVARIANT ResolveIsClosure
PROPERTY Returns
