---------------------------- MODULE MCShellHook ----------------------------
(* Small instances of ShellHook for TLC. *)
EXTENDS ShellHook
=============================================================================
