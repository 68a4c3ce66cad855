----------------------------- MODULE MCProvision -----------------------------
(* TLC instances of Provision: what the .cfg files give the constants. *)
EXTENDS Provision, TLC

CONSTANTS a, b

\* b depends on a and is listed before it.
TwoRecipes == {a, b}
Listed == <<b, a>>
BNeedsA == (a :> {}) @@ (b :> {a})
OnlyA == {a}
OnlyB == {b}
SomeRunModes == {(a :> "manual") @@ (b :> "once")}

Symmetry == Permutations(Appliers)
=============================================================================
