----------------------------- MODULE MCWatchdog -----------------------------
(* A small instance of Watchdog for TLC. *)
EXTENDS Watchdog, TLC

CONSTANTS p1, p2

MCPid == {p1, p2}

\* PIDs only differ; no liveness property is checked.
PidSymmetry == Permutations(MCPid)
=============================================================================
