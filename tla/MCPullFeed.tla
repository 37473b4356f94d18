---------------------------- MODULE MCPullFeed -----------------------------
(* Small instances of PullFeed for TLC. *)
EXTENDS PullFeed, TLC

(* Tags are interchangeable. *)
Symmetry == Permutations(Tag)
=============================================================================
