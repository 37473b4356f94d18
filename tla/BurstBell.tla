----------------------------- MODULE BurstBell -----------------------------
(***************************************************************************)
(* What the activity monitor promises, with sessions, clocks and modes     *)
(* left out: a burst of terminal activity begins once, rings at most once  *)
(* while it is open, and after it is over never rings.  Several bursts     *)
(* may change in one step, because one timer tick settles all that are     *)
(* due.                                                                    *)
(***************************************************************************)
EXTENDS Naturals

CONSTANT Burst          (* the burst identities                            *)

VARIABLES begun,        (* bursts that have begun                          *)
          open,         (* bursts that have begun and are not over         *)
          rings         (* how often each burst has rung                   *)

vars == <<begun, open, rings>>

Init == begun = {} /\ open = {} /\ rings = [b \in Burst |-> 0]

(* A new burst begins; it may replace one that its session abandons.       *)
Begin == \E b \in Burst \ begun :
  /\ begun' = begun \cup {b}
  /\ open' \in SUBSET (open \cup {b}) /\ b \in open'
  /\ UNCHANGED rings

(* Open bursts that have not rung ring; some bursts are over with that.    *)
Ring == \E rung \in (SUBSET open) \ {{}} :
  /\ \A b \in rung : rings[b] = 0
  /\ rings' = [b \in Burst |-> rings[b] + IF b \in rung THEN 1 ELSE 0]
  /\ open' \in SUBSET open
  /\ UNCHANGED begun

(* Bursts are over without a ring.                                         *)
Abandon == open' \in SUBSET open /\ UNCHANGED <<begun, rings>>

Next == Abandon \/ Begin \/ Ring

Spec == Init /\ [][Next]_vars
=============================================================================
