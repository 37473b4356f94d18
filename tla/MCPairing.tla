----------------------------- MODULE MCPairing -----------------------------
(* Small instances of Pairing for TLC. *)
EXTENDS Pairing, TLC

(* Requests are interchangeable, and so are source UUIDs. *)
Symmetry == Permutations(Request) \cup Permutations(Source)
=============================================================================
