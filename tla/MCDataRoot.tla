----------------------------- MODULE MCDataRoot -----------------------------
(* TLC instances of DataRoot: what the .cfg files give the constants. *)
EXTENDS DataRoot, TLC

EveryOp == AllOps
LockedOnly == LockedOps
CreateStartUpdate == {"create", "start", "update"}

\* Processes, names and ports are interchangeable.
Symmetry == Permutations(Procs) \cup Permutations(Names) \cup Permutations(Ports)
=============================================================================
