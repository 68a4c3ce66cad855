------------------------------- MODULE MCTUI -------------------------------
(* A small fleet for TLC: one VM that installs itself or boots a cloud      *)
(* image, and one diskless VM; and the snapshots pane over two VMs.         *)
EXTENDS TUI, SnapshotsPane

Boots(mo, w) == [mode |-> mo, work |-> w]
Fleet == {<<Boots("disk", "pending"), Boots("live", "pending")>>,
          <<Boots("cloud", "none"), Boots("live", "pending")>>}

(* To TUI the pane is an overlay that swallows messages, and no message of  *)
(* the pane's is one TUI handles: each module is met while the other is in  *)
(* its first state, TUI with no snapshots anywhere and the pane with one    *)
(* fleet.                                                                   *)
MCNext ==
    \/ PaneInit /\ disk = [v \in SnapVMs |-> {}] /\ Next /\ UNCHANGED paneVars
    \/ Init /\ mode[1] = "disk" /\ PaneNext /\ UNCHANGED vars

MCInit == Init /\ PaneInit

MCSpec == MCInit /\ [][MCNext]_<<vars, paneVars>> /\ Fairness
==============================================================================
