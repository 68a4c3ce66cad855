----------------------------- MODULE MCRecipePlan -----------------------------
(* The TLC instance of RecipePlan: every depends relation on three recipes. *)
EXTENDS RecipePlan

CONSTANTS a, b, c

ThreeRecipes == {a, b, c}

\* Another list is one of these with the recipes renamed.
ListsUpToNames == {<<a>>, <<a, b>>, <<a, b, a>>, <<a, b, c>>}
AllGraphs == [Recipes -> SUBSET Recipes]
SomeKinds ==
    [Recipes -> {[run |-> "once", applied |-> "never"], [run |-> "once", applied |-> "same"],
                 [run |-> "manual", applied |-> "never"]}]
SomeCatalogs == {[known |-> Recipes, fits |-> Recipes], [known |-> Recipes, fits |-> {a, b}],
                 [known |-> {a, b}, fits |-> Recipes]}
===============================================================================
