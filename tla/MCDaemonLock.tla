---------------------------- MODULE MCDaemonLock ----------------------------
(* Instances of DaemonLock for TLC. *)
EXTENDS DaemonLock

CONSTANTS NumPids
MCPid == 1 .. NumPids
=============================================================================
