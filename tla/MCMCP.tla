------------------------------- MODULE MCMCP -------------------------------
(* TLC instance of MCPService: see MCP.cfg for the bounds. *)
EXTENDS MCPService

\* The calls read nothing that up, down and status write, nor the reverse (a
\* client may start its server itself, over stdio), so that their steps
\* commute: each is met while the other is in its first state.
MCNext ==
  \/ DaemonInit /\ Next /\ UNCHANGED daemonVars
  \/ Init /\ registry = {} /\ DaemonNext /\ UNCHANGED vars

MCInit == Init /\ DaemonInit

MCSpec == MCInit /\ [][MCNext]_<<vars, daemonVars>> /\ Fairness
=============================================================================
