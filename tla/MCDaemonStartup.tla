-------------------------- MODULE MCDaemonStartup --------------------------
(* Small instances of DaemonStartup for TLC. *)
EXTENDS DaemonStartup, TLC
=============================================================================
