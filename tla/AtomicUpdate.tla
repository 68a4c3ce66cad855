---------------------------- MODULE AtomicUpdate ----------------------------
(***************************************************************************)
(* What Update promises its caller about a VM's two files: it replaces     *)
(* vm.toml and secrets.toml together and reports success, or leaves both   *)
(* as they were and reports an error.                                      *)
(***************************************************************************)
VARIABLES
    files, \* "old" or "new": which pair of files the VM has
    reply  \* "none" until Update returns, then "ok" or "err"

vars == <<files, reply>>

Init == files = "old" /\ reply = "none"

Commit == reply = "none" /\ files' = "new" /\ reply' = "ok"

Abort == reply = "none" /\ reply' = "err" /\ UNCHANGED files

Next == Commit \/ Abort

Spec == Init /\ [][Next]_vars
=============================================================================
