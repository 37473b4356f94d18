--------------------------- MODULE MCOwnerAccess ---------------------------
(* A small instance of OwnerAccess for TLC. *)
EXTENDS OwnerAccess
=============================================================================
