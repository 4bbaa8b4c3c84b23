--------------------------- MODULE MCAgentMonitors ---------------------------
(* The values of MCProcessMonitor, with pids, users and a seat for the     *)
(* other two.                                                              *)
EXTENDS AgentMonitors, MCProcessMonitor

CONSTANTS m1, m2, carol, seat

MonitorSymmetry == Permutations(Pid) \cup Permutations(MacPid)
=============================================================================
