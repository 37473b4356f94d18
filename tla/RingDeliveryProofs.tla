------------------------- MODULE RingDeliveryProofs -------------------------
(***************************************************************************)
(* Theorems about RingDelivery, for any events, receivers, tags, ages and  *)
(* bounds: types, that no ring is the work of a request sent after its     *)
(* source was revoked, that what the daemon takes for delivered was        *)
(* accepted, that a revoked receiver is not sent a ring until it registers *)
(* again, and, for a history that outlives the queue, that the path        *)
(* implements Notification for every pairing.                              *)
(*                                                                         *)
(* Most actions move one handler and leave the others alone.  Moves says   *)
(* what such a move may do to the handler; RingsStep what any step may do  *)
(* to the history.  The conjuncts of IInv then follow from those two.      *)
(***************************************************************************)
EXTENDS RingDelivery, TLAPS

Answer == {"accepted", "unauthorized", "invalid", "failed"}

(* The fields of a handler's record that fit its stage. *)
RecordSound(t) ==
  /\ t.stage = "answered" => t.outcome \in Answer
  /\ t.stage = "pushed" => t.outcome \in PushOutcome
  /\ t.stage \in {"pushed", "disabling"} => t.push \in Receiver

(* A handler's move from record s to record t: event, source and lateness  *)
(* stay, a late request gets no further, and the todo list only shrinks    *)
(* unless the ring was just accepted.                                      *)
Outside == {"arrived", "answered", "gone"}

Moves(c, t) ==
  /\ calls[c] \in CallRecord /\ Working(c)
  /\ t \in CallRecord /\ RecordSound(t)
  /\ calls' = [calls EXCEPT ![c] = t]
  /\ t.event = calls[c].event /\ t.source = calls[c].source /\ t.late = calls[c].late
  /\ calls[c].late => t.stage \in Outside

HandlerStep(c) == Handler(c) \/ AnswerInvalid(c) \/ AnswerFailed(c) \/ Drop(c)

LEMMA CallTyped ==
  ASSUME TypeOK, NEW c \in Call, calls[c] # None
  PROVE  calls[c] \in CallRecord
  BY DEF TypeOK

LEMMA CallKey ==
  ASSUME TypeOK, NEW c \in Call, calls[c] # None
  PROVE  Key(c) \in Ring /\ Key(c)[2] = calls[c].event
<1>1. calls[c] \in CallRecord
  BY CallTyped
<1> QED
  BY <1>1 DEF Key, Ring, CallRecord

LEMMA SourceTyped ==
  /\ 1 \in Source
  /\ Source \subseteq Nat
  /\ Call \subseteq Nat
  /\ None \notin Call /\ None \notin Receiver
  BY RingDeliveryAssumption DEF Source, Call

(* A record is not None: TypeOK keeps the two apart only by the record set *)
(* itself, so what a step writes into calls is shown to be a record.       *)
LEMMA AnswerMoves ==
  ASSUME TypeOK, HandlersSound, LatenessSound, NEW c \in Call, Working(c),
         NEW answer \in Answer, calls' = Reply(c, answer)
  PROVE  \E t : Moves(c, t) /\ t.stage = "answered" /\ t.todo = calls[c].todo
<1>1. calls[c] \in CallRecord
  BY CallTyped DEF Working
<1> DEFINE t == [calls[c] EXCEPT !.stage = "answered", !.outcome = answer]
<1>2. calls' = [calls EXCEPT ![c] = t]
  BY DEF Reply, TypeOK
<1>3. /\ t \in CallRecord /\ t.stage = "answered" /\ t.outcome = answer
      /\ t.event = calls[c].event /\ t.source = calls[c].source
      /\ t.late = calls[c].late /\ t.todo = calls[c].todo
  BY <1>1 DEF CallRecord, Answer
<1> HIDE DEF t
<1>4. Moves(c, t)
  BY <1>1, <1>2, <1>3 DEF Moves, RecordSound, Outside
<1> QED
  BY <1>3, <1>4

LEMMA StageMoves ==
  ASSUME TypeOK, HandlersSound, LatenessSound, NEW c \in Call, Working(c),
         NEW stage \in {"authorized", "gone"}, calls' = Step(c, stage),
         stage = "authorized" => ~calls[c].late
  PROVE  \E t : Moves(c, t) /\ t.stage = stage
<1>1. calls[c] \in CallRecord
  BY CallTyped DEF Working
<1> DEFINE t == [calls[c] EXCEPT !.stage = stage]
<1>2. calls' = [calls EXCEPT ![c] = t]
  BY DEF Step, TypeOK
<1>3. t \in CallRecord /\ t.stage = stage /\ t.event = calls[c].event
      /\ t.source = calls[c].source /\ t.late = calls[c].late
  BY <1>1 DEF CallRecord
<1> HIDE DEF t
<1>4. Moves(c, t)
  BY <1>1, <1>2, <1>3 DEF Moves, RecordSound, Outside
<1> QED
  BY <1>3, <1>4

(* What each handler's action writes into its record.                      *)
LEMMA HandlerMoves ==
  ASSUME TypeOK, HandlersSound, LatenessSound, NEW c \in Call, HandlerStep(c)
  PROVE  \E t : Moves(c, t)
<1> USE SourceTyped
<1>1. calls[c] # None /\ Working(c) /\ calls[c] \in CallRecord
  <2>1. calls[c] # None /\ Working(c)
    BY DEF HandlerStep, Handler, Authenticate, AnswerDuplicate, AcceptRing, PushRing,
           RecordPush, DisableReceiver, AnswerAccepted, AnswerInvalid, AnswerFailed,
           Drop, Working
  <2> QED
    BY <2>1, CallTyped
<1>2. CASE Authenticate(c)
  <2>1. CASE calls[c].source \in revoked
    BY <1>1, <1>2, <2>1, AnswerMoves DEF Authenticate, Answer
  <2>2. CASE calls[c].source \notin revoked
    BY <1>1, <1>2, <2>2, StageMoves DEF Authenticate, LatenessSound
  <2> QED
    BY <2>1, <2>2
<1>3. CASE AnswerDuplicate(c)
  BY <1>1, <1>3, AnswerMoves DEF AnswerDuplicate, Answer
<1>4. CASE AcceptRing(c)
  <2> DEFINE t == [calls[c] EXCEPT !.stage = "pushing", !.todo = Matched(calls[c].event)]
  <2>1. calls' = [calls EXCEPT ![c] = t]
    BY <1>4 DEF AcceptRing, Insert, TypeOK
  <2>2. t \in CallRecord /\ t.stage = "pushing" /\ t.event = calls[c].event
        /\ t.source = calls[c].source /\ t.late = calls[c].late
    BY <1>1 DEF CallRecord, Matched
  <2>3. ~calls[c].late
    BY <1>1, <1>4 DEF AcceptRing, LatenessSound
  <2> HIDE DEF t
  <2> QED
    BY <1>1, <2>1, <2>2, <2>3 DEF Moves, RecordSound
<1>5. CASE PushRing(c)
  <2>1. PICK r \in calls[c].todo, outcome \in PushOutcome :
          calls' = [calls EXCEPT ![c].stage = "pushed", ![c].todo = @ \ {r},
                                 ![c].push = r, ![c].outcome = outcome]
    BY <1>5 DEF PushRing
  <2> DEFINE t == [calls[c] EXCEPT !.stage = "pushed", !.todo = calls[c].todo \ {r},
                                   !.push = r, !.outcome = outcome]
  <2>2. calls' = [calls EXCEPT ![c] = t]
    BY <1>1, <2>1 DEF TypeOK, CallRecord
  <2>3. t \in CallRecord /\ t.stage = "pushed" /\ t.event = calls[c].event
        /\ t.source = calls[c].source /\ t.late = calls[c].late
        /\ t.outcome \in PushOutcome /\ t.push \in Receiver
    BY <1>1 DEF CallRecord
  <2>4. ~calls[c].late
    BY <1>1, <1>5 DEF PushRing, LatenessSound
  <2> HIDE DEF t
  <2> QED
    BY <1>1, <2>2, <2>3, <2>4 DEF Moves, RecordSound
<1>6. CASE RecordPush(c)
  <2> DEFINE for_good == calls[c].outcome = "permanent_failure"
             t == [calls[c] EXCEPT
                     !.stage = IF for_good THEN "disabling" ELSE "pushing",
                     !.push = IF for_good THEN calls[c].push ELSE None,
                     !.outcome = None]
  <2>1. calls[c].push \in Receiver /\ ~calls[c].late
    BY <1>1, <1>6 DEF RecordPush, HandlersSound, LatenessSound
  <2>2. calls' = [calls EXCEPT ![c] = t]
    BY <1>1, <1>6 DEF RecordPush, TypeOK, CallRecord
  <2>3. t \in CallRecord /\ t.stage \in {"disabling", "pushing"} /\ t.event = calls[c].event
        /\ t.source = calls[c].source /\ t.late = calls[c].late
        /\ (t.stage = "disabling" => t.push \in Receiver)
    BY <1>1, <2>1 DEF CallRecord
  <2> HIDE DEF t, for_good
  <2> QED
    BY <1>1, <2>1, <2>2, <2>3 DEF Moves, RecordSound
<1>7. CASE DisableReceiver(c)
  <2> DEFINE t == [calls[c] EXCEPT !.stage = "pushing", !.push = None]
  <2>1. ~calls[c].late
    BY <1>1, <1>7 DEF DisableReceiver, LatenessSound
  <2>2. calls' = [calls EXCEPT ![c] = t]
    BY <1>1, <1>7 DEF DisableReceiver, TypeOK, CallRecord
  <2>3. t \in CallRecord /\ t.stage = "pushing" /\ t.event = calls[c].event
        /\ t.source = calls[c].source /\ t.late = calls[c].late
    BY <1>1 DEF CallRecord
  <2> HIDE DEF t
  <2> QED
    BY <1>1, <2>1, <2>2, <2>3 DEF Moves, RecordSound
<1>8. CASE AnswerAccepted(c)
  BY <1>1, <1>8, AnswerMoves DEF AnswerAccepted, Answer
<1>9. CASE AnswerFailed(c)
  BY <1>1, <1>9, AnswerMoves DEF AnswerFailed, Answer
<1>10. CASE Drop(c)
  BY <1>1, <1>10, StageMoves DEF Drop
<1>11. CASE AnswerInvalid(c)
  BY <1>1, <1>11, AnswerMoves DEF AnswerInvalid, Answer
<1> QED
  BY <1>2, <1>3, <1>4, <1>5, <1>6, <1>7, <1>8, <1>9, <1>10, <1>11 DEF HandlerStep, Handler

-----------------------------------------------------------------------------
(* What a step may do to the history: AcceptRing adds a ring of its own,   *)
(* purges take away what is past its retention, nothing else changes it.   *)
AddsRing(c) ==
  /\ AcceptRing(c)
  /\ Key(c) \notin DOMAIN rings
  /\ Key(c) \in DOMAIN rings'
  /\ rings'[Key(c)] = [id |-> c, at |-> now]

RingsStep ==
  /\ \A k \in DOMAIN rings' :
       \/ k \in DOMAIN rings /\ rings'[k] = rings[k]
       \/ \E c \in Call : AddsRing(c) /\ k = Key(c)
  /\ \A k \in DOMAIN rings : k \in DOMAIN rings' \/ Purged(k)

LEMMA AcceptAdds ==
  ASSUME NEW c \in Call, AcceptRing(c)
  PROVE  AddsRing(c) /\ RingsStep
<1> DEFINE old  == {k \in DOMAIN rings : Purged(k)}
           keys == (DOMAIN rings \ old) \cup {Key(c)}
<1>1. /\ rings' = [k \in keys |-> IF k = Key(c) THEN [id |-> c, at |-> now] ELSE rings[k]]
      /\ Key(c) \notin DOMAIN rings
  BY DEF AcceptRing, Insert
<1>2. AddsRing(c)
  BY <1>1 DEF AddsRing
<1> QED
  BY <1>1, <1>2 DEF RingsStep

LEMMA OthersPurge ==
  ASSUME OtherSourceRings
  PROVE  RingsStep
<1> DEFINE old == {k \in DOMAIN rings : Purged(k)}
<1>1. rings' = [k \in DOMAIN rings \ old |-> rings[k]]
  BY DEF OtherSourceRings, Restrict
<1> QED
  BY <1>1 DEF RingsStep

LEMMA RingsStay ==
  ASSUME rings' = rings
  PROVE  RingsStep
  BY DEF RingsStep

LEMMA NextRings == [Next]_vars => RingsStep
<1> SUFFICES ASSUME [Next]_vars PROVE RingsStep
  OBVIOUS
<1>1. ASSUME NEW c \in Call, AcceptRing(c) PROVE RingsStep
  BY <1>1, AcceptAdds
<1>2. CASE OtherSourceRings
  BY <1>2, OthersPurge
<1>3. CASE /\ ~OtherSourceRings
           /\ \A c \in Call : ~AcceptRing(c)
  <2>1. rings' = rings
    BY <1>3 DEF Next, vars, tables, Enqueue, Expire, Submit, Receive, GiveUp, Repair,
      Handler, Authenticate, AnswerDuplicate, PushRing, RecordPush,
      DisableReceiver, AnswerAccepted, AnswerInvalid, AnswerFailed, Drop, RelayRestart,
      RevokeSource,
      CreateReceiver, RevokeReceiver, ReadReceiver, WriteReceiver, PassTime
  <2> QED
    BY <2>1, RingsStay
<1> QED
  BY <1>1, <1>2, <1>3

-----------------------------------------------------------------------------
(* Types.  Every step gives each handler a record again; the tables follow *)
(* from RingsStep and from what is inserted with a ring.                   *)
CallsStep ==
  \/ calls' = calls
  \/ \E e \in Event : Submit(e)
  \/ \E c \in Call : HandlerStep(c)
  \/ RelayRestart

LEMMA NextCalls == [Next]_vars => CallsStep
  BY DEF CallsStep, HandlerStep, Next, vars, Enqueue, Expire, Receive, GiveUp,
    Repair, RevokeSource, CreateReceiver, RevokeReceiver, ReadReceiver, WriteReceiver,
    OtherSourceRings, PassTime

(* A new call: the smallest number never used. *)
LEMMA SubmitCalls ==
  ASSUME TypeOK, NEW e \in Event, Submit(e)
  PROVE  \E c \in Call : /\ calls[c] = None /\ waiting' = c
                         /\ calls' = [calls EXCEPT ![c] = NewCall(e)]
                         /\ NewCall(e) \in CallRecord
<1>1. PICK c \in Unused : calls' = [calls EXCEPT ![c] = NewCall(e)] /\ waiting' = c
  BY DEF Submit
<1>2. NewCall(e) \in CallRecord
  BY DEF NewCall, CallRecord, TypeOK
<1> QED
  BY <1>1, <1>2 DEF Unused

LEMMA RestartCalls ==
  ASSUME TypeOK, RelayRestart
  PROVE  /\ calls' \in [Call -> CallRecord \cup {None}]
         /\ \A c \in Call : ~Working(c) => calls'[c] = calls[c]
         /\ \A c \in Call : Working(c) =>
              /\ calls[c] \in CallRecord /\ calls'[c] \in CallRecord
              /\ calls'[c].stage = "answered" /\ calls'[c].outcome = "failed"
              /\ calls'[c].event = calls[c].event /\ calls'[c].source = calls[c].source
              /\ calls'[c].late = calls[c].late
<1>1. \A c \in Call : ~Working(c) => calls'[c] = calls[c]
  BY DEF RelayRestart
<1>2. ASSUME NEW c \in Call, Working(c)
      PROVE  /\ calls[c] \in CallRecord /\ calls'[c] \in CallRecord
             /\ calls'[c].stage = "answered" /\ calls'[c].outcome = "failed"
             /\ calls'[c].event = calls[c].event /\ calls'[c].source = calls[c].source
             /\ calls'[c].late = calls[c].late
  <2>1. calls[c] \in CallRecord
    BY <1>2, CallTyped DEF Working
  <2>2. calls'[c] = [calls[c] EXCEPT !.stage = "answered", !.outcome = "failed"]
    BY <1>2 DEF RelayRestart
  <2> QED
    BY <2>1, <2>2 DEF CallRecord
<1>3. \A c \in Call : calls'[c] \in CallRecord \cup {None}
  BY <1>1, <1>2 DEF TypeOK
<1>4. calls' \in [Call -> CallRecord \cup {None}]
  BY <1>3 DEF RelayRestart
<1> QED
  BY <1>1, <1>2, <1>4

LEMMA CallsTyped ==
  ASSUME TypeOK, HandlersSound, LatenessSound, [Next]_vars
  PROVE  calls' \in [Call -> CallRecord \cup {None}]
<1>1. CASE calls' = calls
  BY <1>1 DEF TypeOK
<1>2. CASE \E e \in Event : Submit(e)
  BY <1>2, SubmitCalls DEF TypeOK
<1>3. CASE \E c \in Call : HandlerStep(c)
  BY <1>3, HandlerMoves DEF Moves, TypeOK
<1>4. CASE RelayRestart
  BY <1>4, RestartCalls
<1> QED
  BY <1>1, <1>2, <1>3, <1>4, NextCalls DEF CallsStep

DaemonTyped ==
  /\ row \in [Event -> {"unused", "pending", "refused", "accepted", "discarded", "expired"}]
  /\ born \in [Event -> Nat]
  /\ waiting \in Call \cup {None} /\ source \in Source
  /\ now \in Nat

LEMMA DaemonStaysTyped ==
  ASSUME TypeOK, HandlersSound, [Next]_vars
  PROVE  DaemonTyped'
<1> USE DEF DaemonTyped
<1>0. DaemonTyped
  BY DEF TypeOK
<1>1. CASE UNCHANGED <<row, born, waiting, source, now>>
  BY <1>0, <1>1
<1>2. ASSUME NEW e \in Event, Enqueue(e) PROVE DaemonTyped'
  BY <1>0, <1>2 DEF Enqueue
<1>3. ASSUME NEW e \in Event, Expire(e) PROVE DaemonTyped'
  BY <1>0, <1>3 DEF Expire
<1>4. ASSUME NEW e \in Event, Submit(e) PROVE DaemonTyped'
  BY <1>0, <1>4 DEF Submit, Unused
<1>5. CASE Receive
  <2>1. waiting \in Call /\ calls[waiting] # None
    BY <1>0, <1>5 DEF Receive, HandlersSound
  <2>2. calls[waiting].outcome \in Answer /\ calls[waiting].event \in Event
    BY <1>5, <2>1, CallTyped DEF Receive, HandlersSound, CallRecord, Answer
  <2>3. RowAfter(calls[waiting].outcome) \in {"accepted", "refused", "discarded", "pending"}
    BY <2>2 DEF RowAfter, Answer
  <2> QED
    BY <1>0, <1>5, <2>2, <2>3 DEF Receive
<1>6. CASE GiveUp
  BY <1>0, <1>6 DEF GiveUp
<1>7. CASE Repair
  BY <1>0, <1>7, RingDeliveryAssumption DEF Repair, Source
<1>8. CASE PassTime
  BY <1>0, <1>8 DEF PassTime, daemon
<1>9. CASE OtherSourceRings
  BY <1>1, <1>9 DEF OtherSourceRings, daemon
<1>10. CASE \E c \in Call : HandlerStep(c)
  BY <1>1, <1>10 DEF HandlerStep, Handler, Authenticate, AnswerDuplicate, AcceptRing,
    PushRing, RecordPush, DisableReceiver, AnswerAccepted, AnswerInvalid, AnswerFailed,
    Drop, daemon
<1>11. CASE RelayRestart \/ WriteReceiver \/ UNCHANGED vars
  BY <1>1, <1>11 DEF RelayRestart, WriteReceiver, vars, daemon
<1>12. CASE \E s \in Source : RevokeSource(s)
  BY <1>1, <1>12 DEF daemon, RevokeSource
<1>13. ASSUME NEW r \in Receiver, CreateReceiver(r) \/ RevokeReceiver(r) \/ ReadReceiver(r)
      PROVE  DaemonTyped'
  BY <1>1, <1>13 DEF daemon, CreateReceiver, RevokeReceiver, ReadReceiver
<1> HIDE DEF DaemonTyped
<1> QED
  BY <1>2, <1>3, <1>4, <1>5, <1>6, <1>7, <1>8, <1>9, <1>10, <1>11, <1>12, <1>13
  DEF Next, HandlerStep

HistoryTyped ==
  /\ DOMAIN rings \subseteq Ring
  /\ \A k \in DOMAIN rings : rings[k] \in [id : Call, at : Nat]

LEMMA HistoryStaysTyped ==
  ASSUME TypeOK, [Next]_vars
  PROVE  HistoryTyped'
<1>1. ASSUME NEW k \in DOMAIN rings'
      PROVE  k \in Ring /\ rings'[k] \in [id : Call, at : Nat]
  <2>1. CASE k \in DOMAIN rings /\ rings'[k] = rings[k]
    BY <2>1 DEF TypeOK
  <2>2. ASSUME NEW c \in Call, AddsRing(c), k = Key(c)
        PROVE  k \in Ring /\ rings'[k] \in [id : Call, at : Nat]
    <3>1. calls[c] \in CallRecord
      BY <2>2, CallTyped DEF AddsRing, AcceptRing
    <3> QED
      BY <2>2, <3>1 DEF AddsRing, Key, Ring, CallRecord, TypeOK
  <2> QED
    BY <1>1, <2>1, <2>2, NextRings DEF RingsStep
<1> QED
  BY <1>1 DEF HistoryTyped

DeliveriesTyped ==
  /\ DOMAIN deliveries \subseteq Call \X Receiver
  /\ \A d \in DOMAIN deliveries : deliveries[d] \in {"queued"} \cup PushOutcome

LEMMA DeliveriesStayTyped ==
  ASSUME TypeOK, HandlersSound, [Next]_vars
  PROVE  DeliveriesTyped'
<1> USE DEF DeliveriesTyped
<1>0. DeliveriesTyped
  BY DEF TypeOK
<1>1. CASE deliveries' = deliveries
  BY <1>0, <1>1
<1>2. ASSUME NEW c \in Call, AcceptRing(c) PROVE DeliveriesTyped'
  <2>1. PICK gone :
          LET rows == {d \in DOMAIN deliveries : d[1] \notin gone}
                        \cup ({c} \X Matched(calls[c].event))
          IN  deliveries' = [d \in rows |-> IF d[1] = c THEN "queued" ELSE deliveries[d]]
    BY <1>2 DEF AcceptRing, Insert
  <2>2. Matched(calls[c].event) \subseteq Receiver
    BY DEF Matched
  <2> DEFINE rows == {d \in DOMAIN deliveries : d[1] \notin gone}
                       \cup ({c} \X Matched(calls[c].event))
  <2>3. rows \subseteq Call \X Receiver
    BY <1>0, <2>2
  <2>4. \A d \in rows : d[1] = c \/ d \in DOMAIN deliveries
    OBVIOUS
  <2>5. deliveries' = [d \in rows |-> IF d[1] = c THEN "queued" ELSE deliveries[d]]
    BY <2>1
  <2> HIDE DEF rows
  <2> QED
    BY <1>0, <2>3, <2>4, <2>5
<1>3. ASSUME NEW c \in Call, RecordPush(c) PROVE DeliveriesTyped'
  <2>1. calls[c].outcome \in PushOutcome
    BY <1>3 DEF RecordPush, HandlersSound
  <2> QED
    BY <1>0, <1>3, <2>1 DEF RecordPush
<1>4. CASE OtherSourceRings
  <2>1. PICK gone :
          deliveries' = Restrict(deliveries, {d \in DOMAIN deliveries : d[1] \notin gone})
    BY <1>4 DEF OtherSourceRings
  <2> QED
    BY <1>0, <2>1 DEF Restrict
<1>5. CASE /\ ~OtherSourceRings
           /\ \A c \in Call : ~AcceptRing(c) /\ ~RecordPush(c)
  <2>1. deliveries' = deliveries
    BY <1>5 DEF Next, vars, tables, Enqueue, Expire, Submit, Receive, GiveUp, Repair,
      Handler, Authenticate, AnswerDuplicate, PushRing,
      DisableReceiver, AnswerAccepted, AnswerInvalid, AnswerFailed, Drop, RelayRestart,
      RevokeSource,
      CreateReceiver, RevokeReceiver, ReadReceiver, WriteReceiver, PassTime
  <2> QED
    BY <1>1, <2>1
<1> QED
  BY <1>2, <1>3, <1>4, <1>5

OthersTyped ==
  /\ revoked \subseteq Source
  /\ receivers \in [Receiver -> [known : BOOLEAN, enabled : BOOLEAN, revoked : BOOLEAN]]
  /\ update \in [receiver : Receiver, enabled : BOOLEAN] \cup {None}
  /\ accepted \subseteq Ring /\ pushes \in [Ring \X Receiver -> Nat]
  /\ silenced \subseteq Receiver
  /\ faults \in Nat /\ owner \in Nat

LEMMA OthersStayTyped ==
  ASSUME TypeOK, [Next]_vars
  PROVE  OthersTyped'
<1> USE DEF OthersTyped, tables, observer, bounds
<1>0. OthersTyped
  BY DEF TypeOK
<1>1. CASE UNCHANGED <<revoked, receivers, update, observer, faults, owner>>
  BY <1>0, <1>1
<1>2. ASSUME NEW e \in Event, Enqueue(e) \/ Expire(e) \/ Submit(e) PROVE OthersTyped'
  BY <1>1, <1>2 DEF Enqueue, Expire, Submit
<1>3. CASE Receive \/ Repair \/ PassTime \/ OtherSourceRings \/ UNCHANGED vars
  BY <1>1, <1>3 DEF Receive, Repair, PassTime, OtherSourceRings, vars
<1>4. ASSUME Fault, UNCHANGED <<revoked, receivers, observer>>,
             update' \in {update, None}
      PROVE  OthersTyped'
  BY <1>0, <1>4 DEF Fault
<1>5. CASE GiveUp
  BY <1>4, <1>5 DEF GiveUp
<1>6. CASE RelayRestart
  BY <1>4, <1>6 DEF RelayRestart
<1>7. ASSUME NEW c \in Call, AnswerFailed(c) \/ AnswerInvalid(c) PROVE OthersTyped'
  BY <1>4, <1>7 DEF AnswerFailed, AnswerInvalid
<1>8. ASSUME NEW c \in Call, Authenticate(c) \/ AnswerDuplicate(c) \/ RecordPush(c)
                             \/ AnswerAccepted(c) \/ Drop(c)
      PROVE  OthersTyped'
  BY <1>1, <1>8 DEF Authenticate, AnswerDuplicate, RecordPush, AnswerAccepted, Drop
<1>9. ASSUME NEW c \in Call, AcceptRing(c) PROVE OthersTyped'
  <2>1. Key(c) \in Ring
    BY <1>9, CallKey DEF AcceptRing
  <2> QED
    BY <1>0, <1>9, <2>1 DEF AcceptRing
<1>10. ASSUME NEW c \in Call, PushRing(c) PROVE OthersTyped'
  <2>1. PICK r \in calls[c].todo : pushes' = [pushes EXCEPT ![<<Key(c), r>>] = @ + 1]
    BY <1>10 DEF PushRing
  <2>2. <<Key(c), r>> \in Ring \X Receiver
    BY <1>10, CallKey, CallTyped DEF PushRing, CallRecord
  <2>3. pushes' \in [Ring \X Receiver -> Nat]
    BY <1>0, <2>1, <2>2
  <2> QED
    BY <1>0, <1>10, <2>3 DEF PushRing
<1>11. ASSUME NEW c \in Call, DisableReceiver(c) PROVE OthersTyped'
  BY <1>0, <1>11 DEF DisableReceiver
<1>12. ASSUME NEW s \in Source, RevokeSource(s) PROVE OthersTyped'
  BY <1>0, <1>12 DEF RevokeSource, OwnerRequest
<1>13. ASSUME NEW r \in Receiver, CreateReceiver(r) PROVE OthersTyped'
  BY <1>0, <1>13 DEF CreateReceiver, OwnerRequest
<1>14. ASSUME NEW r \in Receiver, RevokeReceiver(r) PROVE OthersTyped'
  <2>1. receivers' \in [Receiver -> [known : BOOLEAN, enabled : BOOLEAN, revoked : BOOLEAN]]
    BY <1>0, <1>14 DEF RevokeReceiver
  <2> QED
    BY <1>0, <1>14, <2>1 DEF RevokeReceiver, OwnerRequest
<1>15. ASSUME NEW r \in Receiver, ReadReceiver(r) PROVE OthersTyped'
  BY <1>0, <1>15 DEF ReadReceiver, OwnerRequest
<1>16. CASE WriteReceiver
  BY <1>0, <1>16 DEF WriteReceiver
<1> HIDE DEF OthersTyped
<1> QED
  BY <1>2, <1>3, <1>5, <1>6, <1>7, <1>8, <1>9, <1>10, <1>11, <1>12, <1>13, <1>14,
     <1>15, <1>16
  DEF Next, Handler

LEMMA StepTyped ==
  ASSUME TypeOK, HandlersSound, LatenessSound, [Next]_vars
  PROVE  TypeOK'
<1>1. DaemonTyped' /\ HistoryTyped' /\ DeliveriesTyped' /\ OthersTyped'
  BY DaemonStaysTyped, HistoryStaysTyped, DeliveriesStayTyped, OthersStayTyped
<1> QED
  BY <1>1, CallsTyped
  DEF TypeOK, DaemonTyped, HistoryTyped, DeliveriesTyped, OthersTyped

-----------------------------------------------------------------------------
(* What a step may do to one call: nothing, begin it, or move its handler. *)
Begins(c) == \E e \in Event :
  /\ row[e] = "pending" /\ ~TooOld(e)
  /\ calls[c] = None /\ calls'[c] = NewCall(e)
  /\ waiting' = c

MovesOn(c) ==
  /\ Working(c)
  /\ calls[c] \in CallRecord /\ calls'[c] \in CallRecord
  /\ RecordSound(calls'[c])
  /\ calls'[c].event = calls[c].event
  /\ calls'[c].source = calls[c].source
  /\ calls'[c].late = calls[c].late
  /\ calls[c].late => calls'[c].stage \in Outside

LEMMA CallFate ==
  ASSUME TypeOK, HandlersSound, LatenessSound, [Next]_vars, NEW c \in Call
  PROVE  calls'[c] = calls[c] \/ Begins(c) \/ MovesOn(c)
<1>1. ASSUME NEW e \in Event, Submit(e)
      PROVE  calls'[c] = calls[c] \/ Begins(c)
  <2>1. PICK d \in Call : /\ calls[d] = None /\ waiting' = d
                          /\ calls' = [calls EXCEPT ![d] = NewCall(e)]
    BY <1>1, SubmitCalls
  <2> QED
    BY <1>1, <2>1 DEF TypeOK, Begins, Submit
<1>2. ASSUME NEW d \in Call, HandlerStep(d)
      PROVE  calls'[c] = calls[c] \/ MovesOn(c)
  <2>1. PICK t : Moves(d, t)
    BY <1>2, HandlerMoves
  <2>2. calls' = [calls EXCEPT ![d] = t]
    BY <2>1 DEF Moves
  <2>3. CASE c = d
    <3>1. calls'[c] = t
      BY <2>2, <2>3 DEF TypeOK
    <3> QED
      BY <2>1, <2>3, <3>1 DEF Moves, MovesOn
  <2>4. CASE c # d
    BY <2>2, <2>4 DEF TypeOK
  <2> QED
    BY <2>3, <2>4
<1>3. ASSUME RelayRestart
      PROVE  calls'[c] = calls[c] \/ MovesOn(c)
  <2>1. CASE Working(c)
    BY <1>3, <2>1, RestartCalls DEF MovesOn, RecordSound, Answer, Outside
  <2>2. CASE ~Working(c)
    BY <1>3, <2>2, RestartCalls
  <2> QED
    BY <2>1, <2>2
<1> QED
  BY <1>1, <1>2, <1>3, NextCalls DEF CallsStep

(* Rows are never unused again and keep their age; time passes only while  *)
(* no handler runs.                                                        *)
RowStays(e) == row[e] # "unused" => row'[e] # "unused" /\ born'[e] = born[e]

LEMMA RowsStay ==
  ASSUME TypeOK, HandlersSound, [Next]_vars, NEW e \in Event
  PROVE  RowStays(e)
<1>1. CASE UNCHANGED <<row, born>>
  BY <1>1 DEF RowStays
<1>2. CASE \E f \in Event : Enqueue(f) \/ Expire(f) \/ Submit(f)
  BY <1>2 DEF Enqueue, Expire, Submit, RowStays, TypeOK
<1>3. CASE Receive
  <2>1. waiting \in Call /\ calls[waiting] # None
    BY <1>3 DEF Receive, HandlersSound, TypeOK
  <2>2. calls[waiting].outcome \in Answer
    BY <1>3, <2>1 DEF Receive, HandlersSound, Answer
  <2>3. RowAfter(calls[waiting].outcome) # "unused"
    BY <2>2 DEF RowAfter, Answer
  <2> QED
    BY <1>3, <2>3 DEF Receive, RowStays, TypeOK
<1>4. CASE /\ ~Receive
           /\ \A f \in Event : ~Enqueue(f) /\ ~Expire(f) /\ ~Submit(f)
  <2>1. UNCHANGED <<row, born>>
    BY <1>4 DEF Next, vars, daemon, GiveUp, Repair, Handler, Authenticate,
      AnswerDuplicate, AcceptRing, PushRing, RecordPush, DisableReceiver,
      AnswerAccepted, AnswerInvalid, AnswerFailed, Drop, RelayRestart, RevokeSource,
      CreateReceiver,
      RevokeReceiver, ReadReceiver, WriteReceiver, OtherSourceRings, PassTime
  <2> QED
    BY <1>1, <2>1
<1> QED
  BY <1>2, <1>3, <1>4

LEMMA TimeWaits ==
  ASSUME [Next]_vars
  PROVE  \/ now' = now
         \/ /\ now' = now + 1 /\ UNCHANGED <<calls, row, born, rings, accepted, pushes>>
            /\ \A c \in Call : ~Working(c)
<1>1. CASE PassTime
  BY <1>1 DEF PassTime, daemon, tables, observer
<1>2. CASE ~PassTime
  BY <1>2 DEF Next, vars, Enqueue, Expire, Submit, Receive, GiveUp, Repair, Handler,
    Authenticate, AnswerDuplicate, AcceptRing, PushRing, RecordPush, DisableReceiver,
    AnswerAccepted, AnswerInvalid, AnswerFailed, Drop, RelayRestart, RevokeSource,
    CreateReceiver,
    RevokeReceiver, ReadReceiver, WriteReceiver, OtherSourceRings
<1> QED
  BY <1>1, <1>2

LEMMA CallsNeverVanish ==
  ASSUME TypeOK, HandlersSound, LatenessSound, [Next]_vars,
         NEW c \in Call, calls[c] # None
  PROVE  /\ calls'[c] # None
         /\ calls[c] \in CallRecord
         /\ calls'[c].event = calls[c].event
         /\ calls'[c].late = calls[c].late
<1>1. calls[c] \in CallRecord
  BY CallTyped
<1> QED
  BY <1>1, NoneIsNoCall, CallFate DEF Begins, MovesOn, Working

-----------------------------------------------------------------------------
(* The parts of the invariant, one after the other.                        *)
LEMMA HandlersStaySound ==
  ASSUME TypeOK, HandlersSound, LatenessSound, [Next]_vars
  PROVE  HandlersSound'
<1>1. ASSUME waiting' # None PROVE calls'[waiting'] # None
  <2>1. CASE waiting' = waiting
    <3>1. waiting \in Call /\ calls[waiting] # None
      BY <1>1, <2>1 DEF TypeOK, HandlersSound
    <3> QED
      BY <2>1, <3>1, CallsNeverVanish
  <2>2. ASSUME NEW e \in Event, Submit(e) PROVE calls'[waiting'] # None
    BY <2>2, SubmitCalls, NoneIsNoCall DEF TypeOK
  <2>3. waiting' = waiting \/ waiting' = None \/ \E e \in Event : Submit(e)
    BY DEF Next, vars, daemon, Enqueue, Expire, Receive, GiveUp, Repair, Handler,
      Authenticate, AnswerDuplicate, AcceptRing, PushRing, RecordPush, DisableReceiver,
      AnswerAccepted, AnswerInvalid, AnswerFailed, Drop, RelayRestart, RevokeSource,
      CreateReceiver,
      RevokeReceiver, ReadReceiver, WriteReceiver, OtherSourceRings, PassTime
  <2> QED
    BY <1>1, <2>1, <2>2, <2>3
<1> DEFINE sound(c) ==
      /\ row[calls[c].event] # "unused"
      /\ Working(c) => ~TooOld(calls[c].event)
      /\ RecordSound(calls[c])
<1>2. ASSUME NEW c \in Call, calls'[c] # None PROVE sound(c)'
  <2>1. CASE calls'[c] = calls[c]
    <3>1. sound(c) /\ calls[c] \in CallRecord
      BY <1>2, <2>1, CallTyped DEF HandlersSound, RecordSound, Answer
    <3>2. RowStays(calls[c].event)
      BY <3>1, RowsStay DEF CallRecord
    <3>3. Working(c)' => Working(c) /\ now' = now
      BY <1>2, <2>1, TimeWaits DEF Working
    <3> QED
      BY <2>1, <3>1, <3>2, <3>3 DEF RowStays, TooOld, RecordSound
  <2>2. CASE Begins(c)
    <3>1. PICK e \in Event : /\ row[e] = "pending" /\ ~TooOld(e)
                             /\ calls[c] = None /\ calls'[c] = NewCall(e)
      BY <2>2 DEF Begins
    <3>2. calls'[c].event = e /\ calls'[c].stage = "arrived"
      BY <3>1 DEF NewCall
    <3>3. now' = now
      BY <1>2, <3>1, TimeWaits
    <3>4. RowStays(e)
      BY RowsStay
    <3> QED
      BY <3>1, <3>2, <3>3, <3>4 DEF RowStays, TooOld, RecordSound
  <2>3. CASE MovesOn(c)
    <3>1. /\ calls[c] \in CallRecord /\ Working(c) /\ RecordSound(calls'[c])
          /\ calls'[c].event = calls[c].event
      BY <2>3 DEF MovesOn
    <3>2. row[calls[c].event] # "unused" /\ ~TooOld(calls[c].event)
      BY <3>1 DEF HandlersSound, Working
    <3>3. now' = now
      BY <3>1, TimeWaits
    <3>4. RowStays(calls[c].event)
      BY <3>1, RowsStay DEF CallRecord
    <3> QED
      BY <3>1, <3>2, <3>3, <3>4 DEF RowStays, TooOld
  <2> QED
    BY <2>1, <2>2, <2>3, CallFate
<1> QED
  BY <1>1, <1>2 DEF HandlersSound, RecordSound, Answer

LEMMA LatenessStaysSound ==
  ASSUME TypeOK, HandlersSound, LatenessSound, [Next]_vars
  PROVE  LatenessSound'
<1>1. revoked \subseteq revoked'
  BY DEF Next, vars, tables, Enqueue, Expire, Submit, Receive, GiveUp, Repair, Handler,
    Authenticate, AnswerDuplicate, AcceptRing, PushRing, RecordPush, DisableReceiver,
    AnswerAccepted, AnswerInvalid, AnswerFailed, Drop, RelayRestart, RevokeSource,
    CreateReceiver,
    RevokeReceiver, ReadReceiver, WriteReceiver, OtherSourceRings, PassTime
<1>2. ASSUME NEW c \in Call, calls'[c] # None, calls'[c].late
      PROVE  calls'[c].source \in revoked' /\ calls'[c].stage \in Outside
  <2>1. CASE calls'[c] = calls[c]
    BY <1>1, <1>2, <2>1 DEF LatenessSound, Outside
  <2>2. CASE Begins(c)
    <3>1. PICK e \in Event : calls'[c] = NewCall(e)
      BY <2>2 DEF Begins
    <3>2. /\ calls'[c].source = source /\ calls'[c].stage = "arrived"
          /\ calls'[c].late = (source \in revoked)
      BY <3>1 DEF NewCall
    <3> QED
      BY <1>1, <1>2, <3>2 DEF Outside
  <2>3. CASE MovesOn(c)
    BY <1>1, <1>2, <2>3 DEF MovesOn, Working, LatenessSound
  <2> QED
    BY <2>1, <2>2, <2>3, CallFate
<1>3. ASSUME NEW k \in DOMAIN rings'
      PROVE  calls'[rings'[k].id] # None /\ ~calls'[rings'[k].id].late
  <2>1. ASSUME NEW c \in Call, calls[c] # None, ~calls[c].late
        PROVE  calls'[c] # None /\ ~calls'[c].late
    BY <2>1, CallsNeverVanish
  <2>2. CASE k \in DOMAIN rings /\ rings'[k] = rings[k]
    BY <2>1, <2>2 DEF LatenessSound, TypeOK
  <2>3. ASSUME NEW c \in Call, AddsRing(c), k = Key(c)
        PROVE  calls'[rings'[k].id] # None /\ ~calls'[rings'[k].id].late
    <3>1. calls[c] # None /\ ~calls[c].late /\ rings'[k].id = c
      BY <2>3 DEF AddsRing, AcceptRing, LatenessSound
    <3> QED
      BY <2>1, <3>1
  <2> QED
    BY <1>3, <2>2, <2>3, NextRings DEF RingsStep
<1> QED
  BY <1>2, <1>3 DEF LatenessSound, Outside

LEMMA HistoryStaysSound ==
  ASSUME TypeOK, HandlersSound, LatenessSound, HistorySound, [Next]_vars
  PROVE  HistorySound'
<1>1. ASSUME NEW e \in Event PROVE born'[e] <= now'
  <2>1. born[e] \in Nat /\ now \in Nat /\ born[e] <= now
    BY DEF TypeOK, HistorySound
  <2>2. now' = now \/ now' = now + 1
    BY TimeWaits
  <2>3. CASE born' = born
    BY <2>1, <2>2, <2>3
  <2>4. CASE \E f \in Event : Enqueue(f)
    BY <2>1, <2>4 DEF Enqueue, TypeOK
  <2>5. born' = born \/ \E f \in Event : Enqueue(f)
    BY DEF Next, vars, daemon, Expire, Submit, Receive, GiveUp, Repair, Handler,
      Authenticate, AnswerDuplicate, AcceptRing, PushRing, RecordPush, DisableReceiver,
      AnswerAccepted, AnswerInvalid, AnswerFailed, Drop, RelayRestart, RevokeSource,
      CreateReceiver,
      RevokeReceiver, ReadReceiver, WriteReceiver, OtherSourceRings, PassTime
  <2> QED
    BY <2>3, <2>4, <2>5
<1>2. ASSUME NEW k \in DOMAIN rings'
      PROVE  row'[k[2]] # "unused" /\ born'[k[2]] <= rings'[k].at
  <2>1. CASE k \in DOMAIN rings /\ rings'[k] = rings[k]
    <3>1. row[k[2]] # "unused" /\ born[k[2]] <= rings[k].at /\ k[2] \in Event
      BY <2>1 DEF HistorySound, TypeOK, Ring
    <3>2. RowStays(k[2])
      BY <3>1, RowsStay
    <3> QED
      BY <2>1, <3>1, <3>2 DEF RowStays
  <2>2. ASSUME NEW c \in Call, AddsRing(c), k = Key(c)
        PROVE  row'[k[2]] # "unused" /\ born'[k[2]] <= rings'[k].at
    <3>1. calls[c] # None /\ calls[c] \in CallRecord
      BY <2>2, CallTyped DEF AddsRing, AcceptRing
    <3>2. k[2] = calls[c].event /\ k[2] \in Event /\ rings'[k].at = now
      BY <2>2, <3>1 DEF Key, AddsRing, CallRecord
    <3>3. row[k[2]] # "unused" /\ born[k[2]] <= now
      BY <3>1, <3>2 DEF HandlersSound, HistorySound
    <3>4. RowStays(k[2])
      BY <3>2, RowsStay
    <3> QED
      BY <3>2, <3>3, <3>4 DEF RowStays
  <2> QED
    BY <1>2, <2>1, <2>2, NextRings DEF RingsStep
<1> QED
  BY <1>1, <1>2 DEF HistorySound

(* Where a delivering handler, or an answer "accepted", comes from: from   *)
(* the handler's own commit, now or earlier, or from a ring in the history.*)
Committed(c) ==
  AcceptRing(c) \/ Delivering(c) \/ Key(c) \in DOMAIN rings

LEMMA AcceptanceIsEarned ==
  ASSUME TypeOK, NEW c \in Call, HandlerStep(c), Delivering(c)' \/ AnsweredAccepted(c)'
  PROVE  Committed(c)
<1>1. calls[c] # None /\ calls[c] \in CallRecord
  BY CallTyped
  DEF HandlerStep, Handler, Authenticate, AnswerDuplicate, AcceptRing, PushRing,
      RecordPush, DisableReceiver, AnswerAccepted, AnswerInvalid, AnswerFailed, Drop,
      Working
<1>2. ASSUME NEW a, a # "accepted", calls' = Reply(c, a) PROVE FALSE
  <2>1. calls'[c] = [calls[c] EXCEPT !.stage = "answered", !.outcome = a]
    BY <1>2 DEF Reply, TypeOK
  <2>2. calls'[c].stage = "answered" /\ calls'[c].outcome = a
    BY <1>1, <2>1 DEF CallRecord
  <2> QED
    BY <1>2, <2>2 DEF Delivering, AnsweredAccepted
<1>3. ASSUME NEW g \in {"authorized", "gone"}, calls' = Step(c, g) PROVE FALSE
  <2>1. calls'[c] = [calls[c] EXCEPT !.stage = g]
    BY <1>3 DEF Step, TypeOK
  <2>2. calls'[c].stage = g
    BY <1>1, <2>1 DEF CallRecord
  <2> QED
    BY <2>2 DEF Delivering, AnsweredAccepted
<1>4. ~Authenticate(c)
  BY <1>2, <1>3 DEF Authenticate
<1>5. ~AnswerInvalid(c) /\ ~AnswerFailed(c)
  BY <1>2 DEF AnswerInvalid, AnswerFailed
<1>6. ~Drop(c)
  BY <1>3 DEF Drop
<1>7. CASE AnswerDuplicate(c)
  BY <1>7 DEF AnswerDuplicate, Committed
<1>8. CASE PushRing(c) \/ RecordPush(c) \/ DisableReceiver(c) \/ AnswerAccepted(c)
  BY <1>1, <1>8
  DEF PushRing, RecordPush, DisableReceiver, AnswerAccepted, Delivering, Committed
<1> QED
  BY <1>4, <1>5, <1>6, <1>7, <1>8 DEF HandlerStep, Handler, Committed

LEMMA AcceptedGrows == [Next]_vars => accepted \subseteq accepted'
  BY DEF Next, vars, observer, Enqueue, Expire, Submit, Receive, GiveUp, Repair,
    Handler, Authenticate, AnswerDuplicate, AcceptRing, PushRing, RecordPush,
    DisableReceiver, AnswerAccepted, AnswerInvalid, AnswerFailed, Drop, RelayRestart,
    RevokeSource, CreateReceiver, RevokeReceiver, ReadReceiver, WriteReceiver,
    OtherSourceRings, PassTime

LEMMA AnswersStaySound ==
  ASSUME TypeOK, HandlersSound, LatenessSound, AnswersSound, [Next]_vars
  PROVE  AnswersSound'
<1>1. accepted \subseteq accepted'
  BY AcceptedGrows
<1>2. \A c \in Call : AcceptRing(c) => Key(c) \in accepted'
  BY DEF AcceptRing
<1>3. DOMAIN rings' \subseteq accepted'
  BY <1>1, <1>2, NextRings DEF RingsStep, AddsRing, AnswersSound
<1>4. ASSUME NEW c \in Call, Delivering(c)' \/ AnsweredAccepted(c)'
      PROVE  Key(c)' \in accepted'
  <2>1. CASE calls'[c] = calls[c]
    BY <1>1, <1>4, <2>1 DEF AnswersSound, Delivering, AnsweredAccepted, Key
  <2>2. calls'[c].stage # "arrived"
    BY <1>4 DEF Delivering, AnsweredAccepted
  <2>3. ASSUME Begins(c) PROVE FALSE
    <3>1. PICK e \in Event : calls'[c] = NewCall(e)
      BY <2>3 DEF Begins
    <3>2. calls'[c].stage = "arrived"
      BY <3>1 DEF NewCall
    <3> QED
      BY <2>2, <3>2
  <2>4. CASE calls'[c] # calls[c] /\ MovesOn(c)
    <3>1. Key(c)' = Key(c)
      BY <2>4 DEF MovesOn, Key
    <3>2. ~\E e \in Event : Submit(e)
      <4>1. ASSUME NEW e \in Event, Submit(e) PROVE FALSE
        <5>1. PICK d \in Call : calls[d] = None /\ calls' = [calls EXCEPT ![d] = NewCall(e)]
          BY <4>1, SubmitCalls
        <5> QED
          BY <2>4, <5>1 DEF TypeOK, MovesOn, Working
      <4> QED
        BY <4>1
    <3>3. ~RelayRestart
      BY <1>4, <2>4, RestartCalls DEF MovesOn, Delivering, AnsweredAccepted
    <3>4. HandlerStep(c)
      <4>1. PICK d \in Call : HandlerStep(d)
        BY <2>4, <3>2, <3>3, NextCalls DEF CallsStep
      <4>2. c = d
        <5>1. PICK t : Moves(d, t)
          BY <4>1, HandlerMoves
        <5> QED
          BY <2>4, <5>1 DEF Moves, TypeOK
      <4> QED
        BY <4>1, <4>2
    <3>5. Committed(c)
      BY <1>4, <3>4, AcceptanceIsEarned
    <3> QED
      BY <1>1, <1>2, <3>1, <3>5 DEF Committed, AnswersSound
  <2> QED
    BY <2>1, <2>3, <2>4, CallFate
<1>5. ASSUME NEW e \in Event, row'[e] = "accepted"
      PROVE  \E s \in Source : <<s, e>> \in accepted'
  <2>1. CASE row[e] = "accepted"
    BY <1>1, <2>1 DEF AnswersSound, DeliveredWasAccepted
  <2>2. CASE Receive /\ row[e] # "accepted"
    <3>1. waiting \in Call /\ calls[waiting] # None /\ calls[waiting].stage = "answered"
      BY <2>2 DEF Receive, HandlersSound, TypeOK
    <3>2. calls[waiting] \in CallRecord /\ calls[waiting].outcome \in Answer
      BY <3>1, CallTyped DEF HandlersSound, Answer
    <3>3. e = calls[waiting].event /\ RowAfter(calls[waiting].outcome) = "accepted"
      BY <1>5, <2>2 DEF Receive, TypeOK
    <3>4. AnsweredAccepted(waiting)
      BY <3>1, <3>2, <3>3 DEF RowAfter, Answer, AnsweredAccepted
    <3>5. Key(waiting) \in accepted'
      BY <1>1, <3>1, <3>4 DEF AnswersSound
    <3> QED
      BY <3>2, <3>3, <3>5 DEF Key, CallRecord
  <2>3. CASE ~Receive /\ row[e] # "accepted"
    <3>1. row'[e] = row[e] \/ \E f \in Event : Enqueue(f) \/ Expire(f)
      BY <2>3 DEF Next, vars, daemon, Submit, GiveUp, Repair, Handler, Authenticate,
        AnswerDuplicate, AcceptRing, PushRing, RecordPush, DisableReceiver,
        AnswerAccepted, AnswerInvalid, AnswerFailed, Drop, RelayRestart, RevokeSource,
        CreateReceiver, RevokeReceiver, ReadReceiver, WriteReceiver, OtherSourceRings,
        PassTime
    <3> QED
      BY <1>5, <2>3, <3>1 DEF Enqueue, Expire, TypeOK
  <2> QED
    BY <2>1, <2>2, <2>3
<1> QED
  BY <1>3, <1>4, <1>5 DEF AnswersSound, DeliveredWasAccepted

LEMMA SilenceStaysSound ==
  ASSUME TypeOK, SilenceSound, [Next]_vars
  PROVE  SilenceSound'
<1> USE DEF SilenceSound
<1>1. CASE UNCHANGED <<receivers, silenced>>
  BY <1>1
<1>2. ASSUME NEW r \in Receiver, CreateReceiver(r) PROVE SilenceSound'
  BY <1>2 DEF CreateReceiver, TypeOK
<1>3. ASSUME NEW r \in Receiver, RevokeReceiver(r) PROVE SilenceSound'
  BY <1>3 DEF RevokeReceiver, TypeOK
<1>4. CASE WriteReceiver
  BY <1>4 DEF WriteReceiver, observer, TypeOK
<1>5. ASSUME NEW c \in Call, DisableReceiver(c) PROVE SilenceSound'
  BY <1>5 DEF DisableReceiver, observer, TypeOK
<1>6. CASE /\ ~WriteReceiver
           /\ \A r \in Receiver : ~CreateReceiver(r) /\ ~RevokeReceiver(r)
           /\ \A c \in Call : ~DisableReceiver(c)
  <2>1. UNCHANGED <<receivers, silenced>>
    BY <1>6 DEF Next, vars, tables, observer, Enqueue, Expire, Submit, Receive, GiveUp,
      Repair, Handler, Authenticate, AnswerDuplicate, AcceptRing, PushRing, RecordPush,
      AnswerAccepted, AnswerInvalid, AnswerFailed, Drop, RelayRestart, RevokeSource,
      ReadReceiver, OtherSourceRings, PassTime
  <2> QED
    BY <1>1, <2>1
<1> QED
  BY <1>2, <1>3, <1>4, <1>5, <1>6

(* What holds for any number of pairings and any retention.                *)
PathSound ==
  /\ TypeOK /\ HandlersSound /\ LatenessSound /\ HistorySound
  /\ AnswersSound /\ SilenceSound

LEMMA StepSound ==
  ASSUME PathSound, [Next]_vars
  PROVE  PathSound'
  BY StepTyped, HandlersStaySound, LatenessStaysSound, HistoryStaysSound,
     AnswersStaySound, SilenceStaysSound
  DEF PathSound

LEMMA InitSound == Init => PathSound
<1> SUFFICES ASSUME Init PROVE PathSound
  OBVIOUS
<1>1. DOMAIN rings = {} /\ DOMAIN deliveries = {}
  BY DEF Init, Empty
<1>2. pushes \in [Ring \X Receiver -> Nat]
  BY DEF Init
<1>3. TypeOK
  BY <1>1, <1>2, SourceTyped DEF Init, TypeOK
<1>4. HandlersSound
  BY DEF Init, HandlersSound
<1>5. LatenessSound
  BY <1>1 DEF Init, LatenessSound
<1>6. HistorySound
  BY <1>1 DEF Init, HistorySound
<1>7. AnswersSound /\ SilenceSound
  BY <1>1
  DEF Init, AnswersSound, DeliveredWasAccepted, Delivering, AnsweredAccepted, SilenceSound
<1> QED
  BY <1>3, <1>4, <1>5, <1>6, <1>7 DEF PathSound

LEMMA AlwaysSound == Spec => []PathSound
<1>1. PathSound /\ [Next]_vars => PathSound'
  BY StepSound
<1> QED
  BY <1>1, InitSound, PTL DEF Spec

(* Rows, handlers, tables and observers keep their types.                  *)
THEOREM TypeCorrect == Spec => []TypeOK
<1>1. PathSound => TypeOK
  BY DEF PathSound
<1> QED
  BY <1>1, AlwaysSound, PTL

(* No ring in the history is the work of a request that was sent after its *)
(* source had been revoked, however handlers and revocations interleave    *)
(* (source_auth, submit_ring).                                             *)
THEOREM LateRequestsRefused == Spec => []LaterRequestsAreRefused
<1>1. PathSound => LaterRequestsAreRefused
  BY DEF PathSound, LatenessSound, LaterRequestsAreRefused
<1> QED
  BY <1>1, AlwaysSound, PTL

(* What leaves the daemon's queue as delivered was committed by the relay  *)
(* for one of the daemon's pairings, whatever answers are lost, commits    *)
(* fail or handlers overlap (deliver_one, submit_ring).                    *)
THEOREM DeliveredAccepted == Spec => []DeliveredWasAccepted
<1>1. PathSound => DeliveredWasAccepted
  BY DEF PathSound, AnswersSound
<1> QED
  BY <1>1, AlwaysSound, PTL

-----------------------------------------------------------------------------
(* Only AcceptRing inserts deliveries, and only for receivers that are not *)
(* revoked.                                                                *)
Silent == \A c \in Call, r \in Receiver :
  <<c, r>> \in DOMAIN deliveries' \ DOMAIN deliveries => ~receivers[r].revoked

LEMMA StepSilent == [Next]_vars => Silent
<1> SUFFICES ASSUME [Next]_vars PROVE Silent
  OBVIOUS
<1>1. ASSUME NEW c \in Call, AcceptRing(c) PROVE Silent
  <2>1. DOMAIN deliveries' \subseteq DOMAIN deliveries \cup ({c} \X Matched(calls[c].event))
    BY <1>1 DEF AcceptRing, Insert
  <2>2. \A r \in Matched(calls[c].event) : ~receivers[r].revoked
    BY DEF Matched
  <2> QED
    BY <2>1, <2>2 DEF Silent
<1>2. CASE \E c \in Call : RecordPush(c)
  BY <1>2 DEF RecordPush, Silent
<1>3. CASE OtherSourceRings
  BY <1>3 DEF OtherSourceRings, Restrict, Silent
<1>4. CASE /\ ~OtherSourceRings
           /\ \A c \in Call : ~AcceptRing(c) /\ ~RecordPush(c)
  <2>1. deliveries' = deliveries
    BY <1>4 DEF Next, vars, tables, Enqueue, Expire, Submit, Receive, GiveUp, Repair,
      Handler, Authenticate, AnswerDuplicate, PushRing,
      DisableReceiver, AnswerAccepted, AnswerInvalid, AnswerFailed, Drop, RelayRestart,
      RevokeSource,
      CreateReceiver, RevokeReceiver, ReadReceiver, WriteReceiver, PassTime
  <2> QED
    BY <2>1 DEF Silent
<1> QED
  BY <1>1, <1>2, <1>3, <1>4

(* No ring is queued for a receiver between its revocation and its next    *)
(* registration, also when an update that read the row before the          *)
(* revocation writes it afterwards (revoke_receiver, update_receiver,      *)
(* submit_ring): SilenceSound, that nothing but a registration takes the   *)
(* revocation out of the row, is what the theorem rests on.                *)
THEOREM RevokedStaySilent == Spec => RevokedReceiversStaySilent
<1> DEFINE quiet == \A c \in Call, r \in Receiver :
             <<c, r>> \in DOMAIN deliveries' \ DOMAIN deliveries => r \notin silenced
<1>1. PathSound /\ [Next]_vars => [quiet]_vars
  BY StepSilent DEF PathSound, SilenceSound, Silent
<1> QED
  BY <1>1, AlwaysSound, PTL DEF Spec, RevokedReceiversStaySilent

-----------------------------------------------------------------------------
(* A history that outlives the queue.                                      *)
Outlives == MaxAge <= Retention

OnceSound == PathSound /\ AcceptedOnce

(* The ring a handler is about to insert is new: were it accepted before,  *)
(* it would still be there, or its event too old.                          *)
LEMMA AcceptsNew ==
  ASSUME OnceSound, NEW c \in Call, AcceptRing(c)
  PROVE  Key(c) \notin accepted
<1>1. calls[c] # None /\ Working(c) /\ Key(c) \notin DOMAIN rings
  BY DEF AcceptRing, Working
<1>2. ~TooOld(calls[c].event)
  BY <1>1 DEF OnceSound, PathSound, HandlersSound
<1>3. Key(c)[2] = calls[c].event
  BY <1>1, CallKey DEF OnceSound, PathSound
<1> QED
  BY <1>1, <1>2, <1>3 DEF OnceSound, AcceptedOnce

(* A ring leaves the history only when its event is too old to be sent.    *)
LEMMA AcceptedStays ==
  ASSUME Outlives, OnceSound, [Next]_vars, NEW k \in accepted
  PROVE  row'[k[2]] # "unused" /\ (k \in DOMAIN rings' \/ TooOld(k[2])')
<1> DEFINE e == k[2]
<1>1. /\ e \in Event /\ row[e] # "unused" /\ born[e] \in Nat /\ now \in Nat
      /\ k \in DOMAIN rings \/ TooOld(e)
      /\ MaxAge \in Nat /\ Retention \in Nat
  BY RingDeliveryAssumption DEF OnceSound, PathSound, TypeOK, AcceptedOnce, Ring
<1>2. row'[e] # "unused" /\ born'[e] = born[e]
  BY <1>1, RowsStay DEF OnceSound, PathSound, RowStays
<1>3. now' = now \/ now' = now + 1
  BY TimeWaits
<1>4. TooOld(e) => TooOld(e)'
  BY <1>1, <1>2, <1>3 DEF TooOld
<1>5. ASSUME k \in DOMAIN rings, Purged(k) PROVE TooOld(e)
  <2>1. rings[k].at \in Nat /\ born[e] <= rings[k].at
    BY <1>5 DEF OnceSound, PathSound, TypeOK, HistorySound
  <2>2. rings[k].at + Retention < now
    BY <1>5 DEF Purged
  <2>3. born[e] + MaxAge < now
    BY <1>1, <2>1, <2>2 DEF Outlives
  <2> QED
    BY <2>3 DEF TooOld
<1> QED
  BY <1>1, <1>2, <1>4, <1>5, NextRings DEF RingsStep

(* The three ways a step may treat the handlers that deliver: one begins,  *)
(* one pushes, or none does either.                                        *)
LEMMA DeliveryBegins ==
  ASSUME TypeOK, NEW c \in Call, AcceptRing(c)
  PROVE  /\ accepted' = accepted \cup {Key(c)} /\ pushes' = pushes
         /\ \A d \in Call \ {c} : calls'[d] = calls[d]
         /\ Key(c)' = Key(c) /\ calls'[c] # None
         /\ calls'[c].todo \subseteq Receiver
         /\ Key(c) \in Ring
         /\ calls[c].stage = "authorized"
<1>1. calls[c] \in CallRecord
  BY CallTyped DEF AcceptRing
<1>2. calls' = [calls EXCEPT ![c].stage = "pushing", ![c].todo = Matched(calls[c].event)]
  BY DEF AcceptRing, Insert
<1>3. calls'[c] = [calls[c] EXCEPT !.stage = "pushing", !.todo = Matched(calls[c].event)]
  BY <1>2 DEF TypeOK
<1>4. /\ calls'[c] \in CallRecord /\ calls'[c].todo \subseteq Receiver
      /\ calls'[c].event = calls[c].event /\ calls'[c].source = calls[c].source
  BY <1>1, <1>3 DEF CallRecord, Matched
<1>6. Key(c)' = Key(c) /\ Key(c) \in Ring
  BY <1>4, CallKey DEF AcceptRing, Key
<1>5. \A d \in Call \ {c} : calls'[d] = calls[d]
  BY <1>2 DEF TypeOK
<1> QED
  BY <1>4, <1>5, <1>6, NoneIsNoCall DEF AcceptRing

LEMMA DeliveryPushes ==
  ASSUME TypeOK, NEW c \in Call, PushRing(c)
  PROVE  \E r \in calls[c].todo :
           /\ pushes' = [pushes EXCEPT ![<<Key(c), r>>] = @ + 1]
           /\ accepted' = accepted
           /\ \A d \in Call \ {c} : calls'[d] = calls[d]
           /\ Key(c)' = Key(c)
           /\ calls'[c].todo = calls[c].todo \ {r}
           /\ Delivering(c) /\ Key(c) \in Ring /\ r \in Receiver
<1>1. calls[c] \in CallRecord
  BY CallTyped DEF PushRing
<1>2. PICK r \in calls[c].todo, outcome \in PushOutcome :
        /\ pushes' = [pushes EXCEPT ![<<Key(c), r>>] = @ + 1]
        /\ calls' = [calls EXCEPT ![c].stage = "pushed", ![c].todo = @ \ {r},
                                  ![c].push = r, ![c].outcome = outcome]
  BY DEF PushRing
<1>3. calls'[c] = [calls[c] EXCEPT !.stage = "pushed", !.todo = calls[c].todo \ {r},
                                   !.push = r, !.outcome = outcome]
  BY <1>1, <1>2 DEF TypeOK, CallRecord
<1>4. Key(c)' = Key(c) /\ calls'[c].todo = calls[c].todo \ {r}
  BY <1>1, <1>3 DEF CallRecord, Key
<1>5. \A d \in Call \ {c} : calls'[d] = calls[d]
  BY <1>2 DEF TypeOK
<1>6. Delivering(c) /\ Key(c) \in Ring /\ r \in Receiver /\ accepted' = accepted
  BY <1>1, <1>2, CallKey DEF PushRing, Delivering, CallRecord
<1> QED
  BY <1>2, <1>4, <1>5, <1>6

LEMMA DeliveryStays ==
  ASSUME TypeOK, HandlersSound, LatenessSound, [Next]_vars,
         \A c \in Call : ~AcceptRing(c) /\ ~PushRing(c)
  PROVE  /\ UNCHANGED <<accepted, pushes>>
         /\ \A c \in Call : Delivering(c)' =>
              /\ Delivering(c)
              /\ Key(c)' = Key(c) /\ calls'[c].todo = calls[c].todo
<1>1. UNCHANGED <<accepted, pushes>>
  BY DEF Next, vars, observer, Enqueue, Expire, Submit, Receive, GiveUp, Repair,
    Handler, Authenticate, AnswerDuplicate, RecordPush,
    DisableReceiver, AnswerAccepted, AnswerInvalid, AnswerFailed, Drop, RelayRestart,
    RevokeSource,
    CreateReceiver, RevokeReceiver, ReadReceiver, WriteReceiver, OtherSourceRings, PassTime
<1> DEFINE stays(c) == Delivering(c)' =>
             /\ Delivering(c)
             /\ Key(c)' = Key(c) /\ calls'[c].todo = calls[c].todo
<1>2. ASSUME NEW c \in Call, calls'[c] = calls[c] PROVE stays(c)
  BY <1>2 DEF Delivering, Key
<1>3. ASSUME NEW c \in Call,
             calls'[c] # None => calls'[c].stage \in Outside \cup {"authorized"}
      PROVE  stays(c)
  BY <1>3 DEF Delivering, Outside
<1>4. ASSUME NEW e \in Event, Submit(e), NEW c \in Call PROVE stays(c)
  <2>1. calls'[c] = calls[c] \/ calls'[c] = NewCall(e)
    BY <1>4, SubmitCalls DEF TypeOK
  <2> QED
    BY <1>2, <1>3, <2>1 DEF NewCall, Outside
<1>5. ASSUME RelayRestart, NEW c \in Call PROVE stays(c)
  BY <1>2, <1>3, <1>5, RestartCalls DEF Outside
<1>6. ASSUME NEW d \in Call, HandlerStep(d), NEW c \in Call PROVE stays(c)
  <2>1. CASE c # d
    <3>1. PICK t : Moves(d, t)
      BY <1>6, HandlerMoves
    <3> QED
      BY <1>2, <2>1, <3>1 DEF Moves, TypeOK
  <2>2. CASE c = d
    <3>1. calls[c] # None /\ calls[c] \in CallRecord
      BY <1>6, <2>2, CallTyped
      DEF HandlerStep, Handler, Authenticate, AnswerDuplicate, RecordPush,
          DisableReceiver, AnswerAccepted, AnswerInvalid, AnswerFailed, Drop, Working
    <3>2. ASSUME NEW a, calls' = Reply(c, a) PROVE stays(c)
      <4>1. calls'[c] = [calls[c] EXCEPT !.stage = "answered", !.outcome = a]
        BY <3>2 DEF Reply, TypeOK
      <4>2. calls'[c].stage = "answered"
        BY <3>1, <4>1 DEF CallRecord
      <4> QED
        BY <1>3, <4>2 DEF Outside
    <3>3. ASSUME NEW g \in {"authorized", "gone"}, calls' = Step(c, g) PROVE stays(c)
      <4>1. calls'[c] = [calls[c] EXCEPT !.stage = g]
        BY <3>3 DEF Step, TypeOK
      <4>2. calls'[c].stage = g
        BY <3>1, <4>1 DEF CallRecord
      <4> QED
        BY <1>3, <4>2 DEF Outside
    <3>4. CASE Authenticate(c)
      BY <3>2, <3>3, <3>4 DEF Authenticate
    <3>5. CASE \/ AnswerDuplicate(c) \/ AnswerAccepted(c)
               \/ AnswerInvalid(c) \/ AnswerFailed(c)
      BY <3>2, <3>5 DEF AnswerDuplicate, AnswerAccepted, AnswerInvalid, AnswerFailed
    <3>6. CASE Drop(c)
      BY <3>3, <3>6 DEF Drop
    <3>7. CASE RecordPush(c)
      <4>1. calls[c].stage = "pushed"
        BY <3>7 DEF RecordPush
      <4>2. PICK g, p, o :
              calls' = [calls EXCEPT ![c].stage = g, ![c].push = p, ![c].outcome = o]
        BY <3>1, <3>7 DEF RecordPush
      <4>3. calls'[c] = [calls[c] EXCEPT !.stage = g, !.push = p, !.outcome = o]
        BY <4>2 DEF TypeOK
      <4>4. Key(c)' = Key(c) /\ calls'[c].todo = calls[c].todo
        BY <3>1, <4>3 DEF CallRecord, Key
      <4> QED
        BY <3>1, <4>1, <4>4 DEF Delivering
    <3>8. CASE DisableReceiver(c)
      <4>1. calls' = [calls EXCEPT ![c].stage = "pushing", ![c].push = None]
            /\ calls[c].stage = "disabling"
        BY <3>8 DEF DisableReceiver
      <4>2. calls'[c] = [calls[c] EXCEPT !.stage = "pushing", !.push = None]
        BY <4>1 DEF TypeOK
      <4>3. Key(c)' = Key(c) /\ calls'[c].todo = calls[c].todo
        BY <3>1, <4>2 DEF CallRecord, Key
      <4> QED
        BY <3>1, <4>1, <4>3 DEF Delivering
    <3> QED
      BY <1>6, <2>2, <3>4, <3>5, <3>6, <3>7, <3>8 DEF HandlerStep, Handler
  <2> QED
    BY <2>1, <2>2
<1>7. \A c \in Call : stays(c)
  BY <1>2, <1>4, <1>5, <1>6, NextCalls DEF CallsStep
<1> QED
  BY <1>1, <1>7

(* What AcceptedOnce says of one handler. *)
DeliversOnce(c) == Delivering(c) =>
  /\ Key(c) \in accepted
  /\ \A r \in calls[c].todo : pushes[<<Key(c), r>>] = 0
  /\ \A d \in Call : Delivering(d) /\ Key(d) = Key(c) => d = c

LEMMA StepAcceptsOnce ==
  ASSUME Outlives, OnceSound, [Next]_vars
  PROVE  AcceptedOnce'
<1> DEFINE kept  == \A k \in accepted' :
                      row'[k[2]] # "unused" /\ (k \in DOMAIN rings' \/ TooOld(k[2])')
           clean == \A k \in Ring \ accepted', r \in Receiver : pushes'[<<k, r>>] = 0
           once  == \A c \in Call : DeliversOnce(c)'
<1>1. /\ \A k \in Ring \ accepted, r \in Receiver : pushes[<<k, r>>] = 0
      /\ \A c \in Call : DeliversOnce(c)
      /\ accepted \subseteq Ring /\ pushes \in [Ring \X Receiver -> Nat]
  BY DEF OnceSound, AcceptedOnce, DeliversOnce, PathSound, TypeOK
<1>2. TypeOK /\ HandlersSound /\ LatenessSound
  BY DEF OnceSound, PathSound
<1>3. ASSUME NEW c \in Call, AcceptRing(c) PROVE kept /\ clean /\ once
  <2> DEFINE ring == Key(c)
  <2>1. /\ accepted' = accepted \cup {ring} /\ pushes' = pushes
        /\ \A d \in Call \ {c} : calls'[d] = calls[d]
        /\ Key(c)' = ring /\ calls'[c] # None
        /\ calls'[c].todo \subseteq Receiver /\ ring \in Ring
    BY <1>2, <1>3, DeliveryBegins
  <2>2. ring \notin accepted
    BY <1>3, AcceptsNew
  <2>3. row'[ring[2]] # "unused" /\ ring \in DOMAIN rings'
    <3>1. calls[c] # None /\ row[ring[2]] # "unused" /\ ring[2] \in Event
      BY <1>2, <1>3, <2>1, CallKey DEF AcceptRing, HandlersSound, Ring
    <3>2. row'[ring[2]] # "unused"
      BY <1>2, <3>1, RowsStay DEF RowStays
    <3> QED
      BY <1>2, <1>3, <3>1, <3>2, AcceptAdds, CallKey DEF AddsRing
  <2>4. kept
    BY <2>1, <2>3, AcceptedStays
  <2>5. clean
    BY <1>1, <2>1
  <2>6. \A d \in Call : Delivering(d) => Key(d) # ring
    BY <1>1, <2>2 DEF DeliversOnce
  <2>7. \A d \in Call \ {c} : (Delivering(d)' <=> Delivering(d)) /\ Key(d)' = Key(d)
    BY <2>1 DEF Delivering, Key
  <2> HIDE DEF ring
  <2>8. ASSUME NEW d \in Call PROVE DeliversOnce(d)'
    <3>1. CASE d = c
      <4>1. \A r \in calls'[c].todo : pushes'[<<ring, r>>] = 0
        BY <1>1, <2>1, <2>2
      <4>2. \A f \in Call : Delivering(f)' /\ Key(f)' = ring => f = c
        BY <2>1, <2>6, <2>7
      <4> QED
        BY <2>1, <3>1, <4>1, <4>2 DEF DeliversOnce
    <3>2. CASE d # c
      BY <1>1, <2>1, <2>6, <2>7, <3>2 DEF DeliversOnce
    <3> QED
      BY <3>1, <3>2
  <2> QED
    BY <2>4, <2>5, <2>8
<1>4. ASSUME NEW c \in Call, PushRing(c) PROVE kept /\ clean /\ once
  <2> DEFINE ring == Key(c)
  <2>1. PICK r \in calls[c].todo :
          /\ pushes' = [pushes EXCEPT ![<<ring, r>>] = @ + 1]
          /\ accepted' = accepted
          /\ \A d \in Call \ {c} : calls'[d] = calls[d]
          /\ Key(c)' = ring /\ calls'[c].todo = calls[c].todo \ {r}
          /\ Delivering(c) /\ ring \in Ring /\ r \in Receiver
    BY <1>2, <1>4, DeliveryPushes
  <2>2. ring \in accepted
    BY <1>1, <2>1 DEF DeliversOnce
  <2>3. kept
    BY <2>1, AcceptedStays
  <2>4. \A f \in Ring, q \in Receiver :
           <<f, q>> # <<ring, r>> => pushes'[<<f, q>>] = pushes[<<f, q>>]
    BY <1>1, <2>1
  <2>5. clean
    <3>1. ASSUME NEW f \in Ring \ accepted', NEW q \in Receiver
          PROVE  pushes'[<<f, q>>] = 0
      <4>1. f \in Ring \ accepted /\ f # ring
        BY <2>1, <2>2
      <4> QED
        BY <1>1, <2>4, <4>1
    <3> QED
      BY <3>1
  <2>6. \A d \in Call \ {c} :
           /\ (Delivering(d)' <=> Delivering(d)) /\ Key(d)' = Key(d)
           /\ Delivering(d) => Key(d) # ring
    BY <1>1, <2>1 DEF Delivering, DeliversOnce, Key
  <2>7. ASSUME NEW d \in Call, Delivering(d)
        PROVE  Key(d) \in Ring /\ calls[d].todo \subseteq Receiver
    BY <1>2, <2>7, CallTyped, CallKey DEF Delivering, CallRecord
  <2> HIDE DEF ring
  <2>8. ASSUME NEW d \in Call PROVE DeliversOnce(d)'
    <3>1. CASE d = c
      <4>1. /\ ring = Key(c) /\ calls[c].todo \subseteq Receiver
            /\ \A q \in calls[c].todo : pushes[<<ring, q>>] = 0
        BY <1>1, <2>1, <2>7 DEF DeliversOnce, ring
      <4>2. \A q \in calls'[c].todo : pushes'[<<ring, q>>] = 0
        BY <2>1, <2>4, <4>1
      <4>3. \A f \in Call : Delivering(f)' /\ Key(f)' = ring => f = c
        BY <2>1, <2>6
      <4> QED
        BY <2>1, <2>2, <3>1, <4>2, <4>3 DEF DeliversOnce
    <3>2. ASSUME d # c, Delivering(d)' PROVE DeliversOnce(d)'
      <4>1. /\ calls'[d] = calls[d] /\ Delivering(d) /\ Key(d) # ring
            /\ Key(d) \in accepted
            /\ Key(d) \in Ring /\ calls[d].todo \subseteq Receiver
            /\ \A q \in calls[d].todo : pushes[<<Key(d), q>>] = 0
        BY <1>1, <2>1, <2>6, <2>7, <3>2 DEF DeliversOnce
      <4>2. \A q \in calls[d].todo : pushes'[<<Key(d), q>>] = 0
        BY <2>4, <4>1
      <4>3. \A f \in Call : Delivering(f)' /\ Key(f)' = Key(d) => f = d
        BY <1>1, <2>1, <2>6, <4>1 DEF DeliversOnce
      <4> QED
        BY <2>1, <2>6, <3>2, <4>1, <4>2, <4>3 DEF DeliversOnce
    <3> QED
      BY <3>1, <3>2 DEF DeliversOnce
  <2> QED
    BY <2>3, <2>5, <2>8
<1>5. ASSUME \A c \in Call : ~AcceptRing(c) /\ ~PushRing(c) PROVE kept /\ clean /\ once
  <2>1. /\ accepted' = accepted /\ pushes' = pushes
        /\ \A c \in Call : Delivering(c)' =>
             /\ Delivering(c)
             /\ Key(c)' = Key(c) /\ calls'[c].todo = calls[c].todo
    BY <1>2, <1>5, DeliveryStays
  <2>2. kept
    BY <2>1, AcceptedStays
  <2>3. clean
    BY <1>1, <2>1
  <2>4. once
    BY <1>1, <2>1 DEF DeliversOnce
  <2> QED
    BY <2>2, <2>3, <2>4
<1>6. kept /\ clean /\ once
  BY <1>3, <1>4, <1>5
<1> QED
  BY <1>6 DEF AcceptedOnce, DeliversOnce

(* The invariant of the module.                                            *)
THEOREM Inductive == Spec => []IInv
<1>1. Init => IInv
  <2>1. Init => AcceptedOnce
    BY DEF Init, AcceptedOnce, Delivering
  <2> QED
    BY <2>1, InitSound DEF IInv, PathSound
<1>2. IInv /\ [Next]_vars => IInv'
  <2> SUFFICES ASSUME IInv, [Next]_vars PROVE IInv'
    OBVIOUS
  <2>1. PathSound
    BY DEF IInv, PathSound
  <2>2. PathSound'
    BY <2>1, StepSound
  <2>3. ASSUME Retention >= MaxAge PROVE AcceptedOnce'
    <3>1. Outlives
      BY <2>3, RingDeliveryAssumption DEF Outlives
    <3>2. OnceSound
      BY <2>1, <2>3 DEF IInv, OnceSound
    <3> QED
      BY <3>1, <3>2, StepAcceptsOnce
  <2> QED
    BY <2>2, <2>3 DEF IInv, PathSound
<1> QED
  BY <1>1, <1>2, PTL DEF Spec

LEMMA StepImplementsNotification ==
  ASSUME Outlives, OnceSound, [Next]_vars
  PROVE  [Promise!Next]_(Promise!vars)
<1>1. TypeOK /\ HandlersSound /\ LatenessSound
  BY DEF OnceSound, PathSound
<1>2. ASSUME NEW c \in Call, AcceptRing(c) PROVE Promise!Next
  <2>1. /\ accepted' = accepted \cup {Key(c)} /\ pushes' = pushes
        /\ Key(c) \in Ring
    BY <1>1, <1>2, DeliveryBegins
  <2>2. Key(c) \notin accepted
    BY <1>2, AcceptsNew
  <2>3. Promise!Accept(Key(c))
    BY <2>1, <2>2 DEF Promise!Accept
  <2> QED
    BY <2>1, <2>3 DEF Promise!Next
<1>3. ASSUME NEW c \in Call, PushRing(c) PROVE Promise!Next
  <2> DEFINE ring == Key(c)
  <2>1. PICK r \in calls[c].todo :
          /\ pushes' = [pushes EXCEPT ![<<ring, r>>] = @ + 1]
          /\ accepted' = accepted
          /\ Delivering(c) /\ ring \in Ring /\ r \in Receiver
    BY <1>1, <1>3, DeliveryPushes
  <2>2. ring \in accepted /\ pushes[<<ring, r>>] = 0
    BY <2>1 DEF OnceSound, AcceptedOnce
  <2>3. pushes' = [pushes EXCEPT ![<<ring, r>>] = 1]
    BY <2>1, <2>2
  <2>4. Promise!Push(ring, r)
    BY <2>1, <2>2, <2>3 DEF Promise!Push
  <2> HIDE DEF ring
  <2> QED
    BY <2>1, <2>4 DEF Promise!Next
<1>4. ASSUME \A c \in Call : ~AcceptRing(c) /\ ~PushRing(c)
      PROVE  UNCHANGED Promise!vars
  BY <1>1, <1>4, DeliveryStays DEF Promise!vars
<1> QED
  BY <1>2, <1>3, <1>4

(* For each pairing no event is accepted twice or pushed twice to a        *)
(* receiver, whatever requests, answers and handlers are lost, repeated or *)
(* interrupted, as long as the relay keeps its history for at least the    *)
(* age at which the daemon gives events up.                                *)
THEOREM ImplementsNotification ==
  ASSUME Retention >= MaxAge
  PROVE  Spec => PromiseSpec
<1>1. Outlives
  BY RingDeliveryAssumption DEF Outlives
<1>2. Init => Promise!Init
  BY DEF Init, Promise!Init
<1>3. IInv => OnceSound
  BY <1>1 DEF IInv, OnceSound, PathSound, Outlives
<1>4. IInv /\ [Next]_vars => [Promise!Next]_(Promise!vars)
  BY <1>1, <1>3, StepImplementsNotification
<1> QED
  BY <1>2, <1>4, Inductive, PTL DEF Spec, PromiseSpec, Promise!Spec
=============================================================================
