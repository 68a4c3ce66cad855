--------------------------- MODULE MCRecipePackages ---------------------------
(* The TLC instance of RecipePackages. *)
EXTENDS RecipePackages

CONSTANTS a, b

OneRecipe == {a}
TwoRecipes == {a, b}
OneName == <<a>>
TwoNames == <<a, b>>
HomeFirst == <<"global", "project">>

UpTo(n, edits, kills, intrusions) ==
    [calls |-> n, edits |-> edits, kills |-> kills, intrusions |-> intrusions]
Bounds == UpTo(2, 1, 1, 0)
RaceBounds == UpTo(2, 0, 0, 1)

===============================================================================
