--------------------------- MODULE UpdateCommand ---------------------------
(***************************************************************************)
(* `stoat update` from its start to its end: the setup every command does  *)
(* (Setup), then core.Update's transaction (CommitUpdate), while other     *)
(* commands come and go, a newer stoat is installed and the user edits     *)
(* recipes.                                                                *)
(***************************************************************************)
EXTENDS CommitUpdate, Setup

CONSTANT Updater  \* the process that runs the update

ASSUME UpdaterAssumption == Updater \in Procs

\* A failed setup ends the command; what follows needs all of it.
Updates == at[Updater] = "ready" /\ asks[Updater] = "command"

UpdateBegun == pc # "resize"
UpdateOver  == pc \in {"done", "killed"}

CommandInit == SetupInit /\ Init

CommandNext ==
    \/ /\ UNCHANGED vars
       /\ \/ Upgrade
          \/ \E f \in RecipeFiles : UserEdits(f)
          \/ \E p \in Procs : SetupStep(p)
          \/ \E p \in Procs : CommandEnds(p) /\ (p = Updater => ~UpdateBegun \/ UpdateOver)
    \/ Updates /\ Next /\ UNCHANGED setupVars

CommandSpec == CommandInit /\ [][CommandNext]_<<vars, setupVars>>
============================================================================
