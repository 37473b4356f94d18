----------------------------- MODULE MCActivity -----------------------------
(* Small instances of Activity for TLC. *)
EXTENDS Activity, TLC

(* Sessions are interchangeable, and so are the burst UUIDs. *)
Symmetry == Permutations(SessionId) \cup Permutations(Burst)
=============================================================================
