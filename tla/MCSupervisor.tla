---------------------------- MODULE MCSupervisor ----------------------------
(* An instance of Supervisor for TLC. *)
EXTENDS Supervisor

CONSTANTS r1, r2, c1, c2

MCRelease == {r1, r2}
MCCores == {c1, c2}
=============================================================================
