----------------------------- MODULE MCPService -----------------------------
(***************************************************************************)
(* The MCP service: a server and the calls it handles (MCP), beside the    *)
(* commands that start and stop the supervised HTTP servers (Daemon).      *)
(***************************************************************************)
EXTENDS MCP, Daemon

ServiceNext ==
  \/ Next /\ UNCHANGED daemonVars
  \/ DaemonNext /\ UNCHANGED vars

ServiceSpec == Init /\ DaemonInit /\ [][ServiceNext]_<<vars, daemonVars>> /\ Fairness
=============================================================================
