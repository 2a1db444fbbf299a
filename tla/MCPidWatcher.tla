---------------------------- MODULE MCPidWatcher ----------------------------
(* Small instances of the pid watchers for TLC. *)
EXTENDS PidWatcher, TLC

CONSTANTS c1, l1, l2, p1, p2

AllConfigs == {"proc", "cgroups", "pidlist"} \X BOOLEAN
=============================================================================
