--------------------------- MODULE MCRingDelivery ---------------------------
(* Small instances of RingDelivery for TLC. *)
EXTENDS RingDelivery, TLC

CONSTANTS e1, e2, r1, r2, desk, attic

(* The receivers are on a desk; e1 is for them, or for any, and e2 is not. *)
MCTargets     == (e1 :> {desk}) @@ (e2 :> {attic})
MCOpenTargets == (e1 :> {}) @@ (e2 :> {attic})
MCTags        == (r1 :> {desk}) @@ (r2 :> {desk})

ReceiverSymmetry == Permutations(Receiver)
=============================================================================
