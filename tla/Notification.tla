---------------------------- MODULE Notification ----------------------------
(***************************************************************************)
(* What the path from the durable queue to the receivers promises: the     *)
(* relay accepts an event at most once, and pushes an accepted event to a  *)
(* receiver at most once, whatever is lost, repeated or restarted.         *)
(***************************************************************************)
EXTENDS Naturals

CONSTANTS Event,        (* what the relay tells events apart by               *)
          Receiver

VARIABLES accepted,     (* events the relay has accepted                    *)
          pushes        (* how often each event was pushed to each receiver *)

vars == <<accepted, pushes>>

Init ==
  /\ accepted = {}
  /\ pushes = [p \in Event \X Receiver |-> 0]

Accept(e) ==
  /\ e \notin accepted
  /\ accepted' = accepted \cup {e}
  /\ UNCHANGED pushes

Push(e, r) ==
  /\ e \in accepted
  /\ pushes[<<e, r>>] = 0
  /\ pushes' = [pushes EXCEPT ![<<e, r>>] = 1]
  /\ UNCHANGED accepted

Next == \E e \in Event : Accept(e) \/ \E r \in Receiver : Push(e, r)

Spec == Init /\ [][Next]_vars
=============================================================================
