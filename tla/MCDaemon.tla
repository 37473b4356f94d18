------------------------------ MODULE MCDaemon ------------------------------
(* Small instances of Daemon for TLC. *)
EXTENDS Daemon

(* Sessions are interchangeable, and so are burst and event UUIDs. *)
Symmetry == Permutations(SessionId) \cup Permutations(Burst) \cup Permutations(Event)
=============================================================================
