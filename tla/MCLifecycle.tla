---------------------------- MODULE MCLifecycle ----------------------------
(* TLC instances of Lifecycle: what the .cfg files give the constants. *)
EXTENDS Lifecycle, TLC

CONSTANTS a, b

\* Everything happens to one VM; the other, which is also resized, competes
\* with it for memory.
OpsOn == a :> AllOps \ {"setram"} @@ b :> {"start", "setram"}
RAMsOf == a :> {2} @@ b :> {1, 2}
=============================================================================
