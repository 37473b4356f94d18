---------------------------- MODULE RingDelivery ----------------------------
(***************************************************************************)
(* A ring's way from the daemon's queue through the relay to the push      *)
(* receivers: deliver_one and submit_ring of shellbell-local/src/daemon.rs *)
(* over a network that loses requests and answers, and source_auth,        *)
(* submit_ring and the receiver handlers of shellbell-relay/src/lib.rs.    *)
(*                                                                         *)
(* The daemon has one submission outstanding.  When it gives up after 15 s *)
(* or restarts, the relay's handler may run on (behind a proxy) or be      *)
(* dropped where it awaits, so handlers of the same event can overlap.     *)
(* Backoff is left out (Daemon has it): a retry may come at any time.  The *)
(* unit of time is the day of history retention; handlers take seconds, so *)
(* time passes only while none runs.                                       *)
(***************************************************************************)
EXTENDS Naturals, FiniteSets, Functions

CONSTANTS None,
          Event,         (* event UUIDs in the daemon's queue               *)
          Receiver,      (* push receivers, one per endpoint                *)
          Targets,       (* Targets[e]: target tags of the event            *)
          Tags,          (* Tags[r]: tags of the receiver                   *)
          MaxAge,        (* event_max_age of the daemon                     *)
          Retention,     (* history_retention_days of the relay             *)
          MaxTime,       (* bound: last instant of the clock                *)
          MaxCalls,      (* bound: submissions                              *)
          MaxPairings,   (* bound: times the daemon is paired               *)
          MaxFaults,     (* bound: losses, crashes, failing requests        *)
          MaxOwner       (* bound: owner requests                           *)

Call   == 1 .. MaxCalls
Source == 1 .. MaxPairings

(* What the relay tells rings apart by: UNIQUE (source_id, event_id).        *)
Ring   == Source \X Event

ASSUME RingDeliveryAssumption ==
  /\ None \notin Call /\ None \notin Receiver
  /\ {MaxAge, Retention, MaxTime, MaxCalls, MaxPairings, MaxFaults, MaxOwner} \subseteq Nat
  /\ MaxPairings > 0

VARIABLES
  row,         (* daemon: state of each event's queue row                   *)
  born,        (* daemon: created_at_ms of the row                          *)
  waiting,     (* daemon: the call deliver_one waits for, or None           *)
  source,      (* daemon: the source whose token is in the credentials      *)
  calls,       (* relay: the handler of each call, None before it is made   *)
  revoked,     (* relay: sources with revoked_at                            *)
  rings,       (* relay: table rings, by source and event                   *)
  deliveries,  (* relay: table deliveries, by ring and receiver             *)
  receivers,   (* relay: table receivers                                    *)
  update,      (* relay: what update_receiver has read but not written      *)
  now,
  accepted,    (* observer: rings ever inserted, by source and event        *)
  pushes,      (* observer: pushes sent, by ring and receiver               *)
  silenced,    (* observer: receivers the owner revoked and not added again *)
  faults, owner                      (* how much of the bounds is used      *)

daemon   == <<row, born, waiting, source>>
tables   == <<revoked, rings, deliveries, receivers>>
observer == <<accepted, pushes, silenced>>
bounds   == <<faults, owner>>
vars     == <<daemon, calls, tables, update, now, observer, bounds>>

Empty == [x \in {} |-> None]

(* A ring is named by the call that inserted it (AUTOINCREMENT). *)
NewCall(e) == [event |-> e, source |-> source, stage |-> "arrived", todo |-> {},
               push |-> None, outcome |-> None, late |-> source \in revoked]

Working(c) == calls[c] # None /\ calls[c].stage \notin {"answered", "gone"}
Unused     == {c \in Call : calls[c] = None}

Init ==
  /\ row = [e \in Event |-> "unused"] /\ born = [e \in Event |-> 0]
  /\ waiting = None /\ source = 1
  /\ calls = [c \in Call |-> None]
  /\ revoked = {} /\ rings = Empty /\ deliveries = Empty
  /\ receivers = [r \in Receiver |-> [known |-> FALSE, enabled |-> FALSE, revoked |-> FALSE]]
  /\ update = None
  /\ now = 0
  /\ accepted = {} /\ pushes = [p \in Ring \X Receiver |-> 0] /\ silenced = {}
  /\ faults = 0 /\ owner = 0

Fault == faults < MaxFaults /\ faults' = faults + 1 /\ UNCHANGED owner

-----------------------------------------------------------------------------
(* The daemon.                                                             *)
Enqueue(e) ==
  /\ row[e] = "unused"
  /\ row' = [row EXCEPT ![e] = "pending"]
  /\ born' = [born EXCEPT ![e] = now]
  /\ UNCHANGED <<waiting, source, calls, tables, update, now, observer, bounds>>

Mut_TooOld(e) == FALSE

TooOld(e) == born[e] + MaxAge < now

(* expire_old and prune_queue_in run before a selection, at every cleanup  *)
(* and with every new ring.                                                *)
Expire(e) ==
  /\ row[e] \in {"pending", "refused"} /\ TooOld(e)
  /\ row' = [row EXCEPT ![e] = "expired"]
  /\ UNCHANGED <<born, waiting, source, calls, tables, update, now, observer, bounds>>

Submit(e) ==
  /\ waiting = None /\ Unused # {}
  /\ row[e] = "pending" /\ ~TooOld(e)
  /\ \E c \in Unused :
       /\ \A d \in Unused : c <= d
       /\ calls' = [calls EXCEPT ![c] = NewCall(e)]
       /\ waiting' = c
  /\ UNCHANGED <<row, born, source, tables, update, now, observer, bounds>>

RowAfter(answer) ==
  CASE answer = "accepted"     -> "accepted"
    [] answer = "invalid"      -> "discarded"
    [] answer = "unauthorized" -> "refused"
    [] answer = "failed"       -> "pending"

(* The answer arrives; the row may be gone meanwhile.                      *)
Receive ==
  /\ waiting # None /\ calls[waiting].stage = "answered"
  /\ LET e == calls[waiting].event
     IN  row' = [row EXCEPT ![e] = IF @ = "pending" THEN RowAfter(calls[waiting].outcome)
                                   ELSE @]
  /\ waiting' = None
  /\ UNCHANGED <<born, source, calls, tables, update, now, observer, bounds>>

(* Time-out, lost answer, or the daemon restarts: the row stays pending.   *)
GiveUp ==
  /\ waiting # None
  /\ Fault
  /\ waiting' = None
  /\ UNCHANGED <<row, born, source, calls, tables, update, now, observer>>

(* shellbell pair writes the credentials of a new source.                  *)
Repair ==
  /\ source < MaxPairings
  /\ source' = source + 1
  /\ UNCHANGED <<row, born, waiting, calls, tables, update, now, observer, bounds>>

-----------------------------------------------------------------------------
(* The relay: submit_ring.  Each action is the code between two awaits.    *)
Step(c, stage) == [calls EXCEPT ![c].stage = stage]
Reply(c, answer) == [calls EXCEPT ![c].stage = "answered", ![c].outcome = answer]

Mut_Authenticate(c) ==
  /\ calls[c] # None /\ calls[c].stage = "arrived"
  /\ calls' = Step(c, "authorized")
  /\ UNCHANGED <<daemon, tables, update, now, observer, bounds>>

(* source_auth, before the ring lock is taken.                             *)
Authenticate(c) ==
  /\ calls[c] # None /\ calls[c].stage = "arrived"
  /\ calls' = IF calls[c].source \in revoked
              THEN Reply(c, "unauthorized") ELSE Step(c, "authorized")
  /\ UNCHANGED <<daemon, tables, update, now, observer, bounds>>

(* tags_match                                                              *)
TagsMatch(r, e) == Targets[e] = {} \/ Targets[e] \cap Tags[r] # {}

Matched(e) == {r \in Receiver : receivers[r].enabled /\ ~receivers[r].revoked /\ TagsMatch(r, e)}

Key(c) == <<calls[c].source, calls[c].event>>

Mut_AnswerDuplicate(c) ==
  /\ calls[c] # None /\ calls[c].stage = "authorized"
  /\ Key(c) \in DOMAIN rings
  /\ calls' = Reply(c, "conflict")
  /\ UNCHANGED <<daemon, tables, update, now, observer, bounds>>

AnswerDuplicate(c) ==
  /\ calls[c] # None /\ calls[c].stage = "authorized"
  /\ Key(c) \in DOMAIN rings
  /\ calls' = Reply(c, "accepted")
  /\ UNCHANGED <<daemon, tables, update, now, observer, bounds>>

Purged(k) == rings[k].at + Retention < now

(* Under the ring lock, one transaction: the ring, a delivery per matched  *)
(* receiver, and the purge of rings past retention with their deliveries.  *)
Insert(c) ==
  LET e == calls[c].event
      old  == {k \in DOMAIN rings : Purged(k)}
      gone == {rings[k].id : k \in old}
      keys == (DOMAIN rings \ old) \cup {Key(c)}
      rows == {d \in DOMAIN deliveries : d[1] \notin gone} \cup ({c} \X Matched(e))
  IN  /\ rings' = [k \in keys |-> IF k = Key(c) THEN [id |-> c, at |-> now] ELSE rings[k]]
      /\ deliveries' = [d \in rows |-> IF d[1] = c THEN "queued" ELSE deliveries[d]]
      /\ calls' = [calls EXCEPT ![c].stage = "pushing", ![c].todo = Matched(e)]

Mut_AcceptRing(c) ==
  /\ calls[c] # None /\ calls[c].stage = "authorized"
  /\ Insert(c)
  /\ accepted' = accepted \cup {Key(c)}
  /\ UNCHANGED <<daemon, revoked, receivers, update, now, pushes, silenced, bounds>>

AcceptRing(c) ==
  /\ calls[c] # None /\ calls[c].stage = "authorized"
  /\ Key(c) \notin DOMAIN rings
  /\ Insert(c)
  /\ accepted' = accepted \cup {Key(c)}
  /\ UNCHANGED <<daemon, revoked, receivers, update, now, pushes, silenced, bounds>>

(* What PushDelivery::deliver makes of a push: a service that says the     *)
(* subscription is unusable or unknown has failed for good, a timeout and  *)
(* every other failure is transient.                                       *)
PushOutcome == {"delivered", "transient_failure", "permanent_failure"}

(* PushDelivery::deliver for one receiver, and what came of it.            *)
PushRing(c) ==
  /\ calls[c] # None /\ calls[c].stage = "pushing"
  /\ \E r \in calls[c].todo, outcome \in PushOutcome :
       /\ pushes' = [pushes EXCEPT ![<<Key(c), r>>] = @ + 1]
       /\ calls' = [calls EXCEPT ![c].stage = "pushed", ![c].todo = @ \ {r},
                                 ![c].push = r, ![c].outcome = outcome]
  /\ UNCHANGED <<daemon, tables, update, now, accepted, silenced, bounds>>

(* The outcome is written.                                                 *)
RecordPush(c) ==
  /\ calls[c] # None /\ calls[c].stage = "pushed"
  /\ deliveries' = [d \in DOMAIN deliveries |->
                      IF d = <<c, calls[c].push>> THEN calls[c].outcome ELSE deliveries[d]]
  /\ calls' = [calls EXCEPT
       ![c].stage = IF calls[c].outcome = "permanent_failure" THEN "disabling" ELSE "pushing",
       ![c].push = IF calls[c].outcome = "permanent_failure" THEN @ ELSE None,
       ![c].outcome = None]
  /\ UNCHANGED <<daemon, revoked, rings, receivers, update, now, observer, bounds>>

(* A permanent failure disables the receiver, in a statement of its own.   *)
DisableReceiver(c) ==
  /\ calls[c] # None /\ calls[c].stage = "disabling"
  /\ receivers' = [receivers EXCEPT ![calls[c].push].enabled = FALSE]
  /\ calls' = [calls EXCEPT ![c].stage = "pushing", ![c].push = None]
  /\ UNCHANGED <<daemon, revoked, rings, deliveries, update, now, observer, bounds>>

Mut_AnswerAccepted(c) ==
  /\ calls[c] # None /\ calls[c].stage \in {"authorized", "pushing"}
  /\ calls[c].todo = {}
  /\ calls' = Reply(c, "accepted")
  /\ UNCHANGED <<daemon, tables, update, now, observer, bounds>>

AnswerAccepted(c) ==
  /\ calls[c] # None /\ calls[c].stage = "pushing"
  /\ calls[c].todo = {}
  /\ calls' = Reply(c, "accepted")
  /\ UNCHANGED <<daemon, tables, update, now, observer, bounds>>

(* The message or the tags do not validate, or a proxy answers so: every   *)
(* client error the daemon does not retry comes before the ring is stored. *)
AnswerInvalid(c) ==
  /\ calls[c] # None /\ calls[c].stage = "authorized"
  /\ Fault
  /\ calls' = Reply(c, "invalid")
  /\ UNCHANGED <<daemon, tables, update, now, observer>>

(* A failing statement or the rate limit; what was committed stays.        *)
AnswerFailed(c) ==
  /\ Working(c)
  /\ Fault
  /\ calls' = Reply(c, "failed")
  /\ UNCHANGED <<daemon, tables, update, now, observer>>

(* The request never arrives, or its handler is dropped with a connection  *)
(* nobody waits on any more.                                               *)
Drop(c) ==
  /\ Working(c) /\ waiting # c
  /\ calls' = Step(c, "gone")
  /\ UNCHANGED <<daemon, tables, update, now, observer, bounds>>

(* The relay restarts: every handler is gone, the daemon sees an error.    *)
RelayRestart ==
  /\ \E c \in Call : Working(c)
  /\ Fault
  /\ calls' = [c \in Call |-> IF Working(c)
                 THEN [calls[c] EXCEPT !.stage = "answered", !.outcome = "failed"]
                 ELSE calls[c]]
  /\ update' = None
  /\ UNCHANGED <<daemon, tables, now, observer>>

-----------------------------------------------------------------------------
(* The owner.                                                              *)
OwnerRequest == owner < MaxOwner /\ owner' = owner + 1 /\ UNCHANGED faults

RevokeSource(s) ==
  /\ s \notin revoked
  /\ OwnerRequest
  /\ revoked' = revoked \cup {s}
  /\ UNCHANGED <<daemon, calls, rings, deliveries, receivers, update, now, observer>>

(* create_receiver: the same endpoint registers again over its old row.    *)
CreateReceiver(r) ==
  /\ OwnerRequest
  /\ receivers' = [receivers EXCEPT ![r] = [known |-> TRUE, enabled |-> TRUE, revoked |-> FALSE]]
  /\ silenced' = silenced \ {r}
  /\ UNCHANGED <<daemon, calls, revoked, rings, deliveries, update, now, accepted, pushes>>

RevokeReceiver(r) ==
  /\ receivers[r].known /\ ~receivers[r].revoked
  /\ OwnerRequest
  /\ receivers' = [receivers EXCEPT ![r].enabled = FALSE, ![r].revoked = TRUE]
  /\ silenced' = silenced \cup {r}
  /\ UNCHANGED <<daemon, calls, revoked, rings, deliveries, update, now, accepted, pushes>>

(* update_receiver reads the row, then writes it without looking again;    *)
(* enabled is the request's value, or else the one read.                   *)
ReadReceiver(r) ==
  /\ update = None
  /\ receivers[r].known /\ ~receivers[r].revoked
  /\ OwnerRequest
  /\ \E enabled \in BOOLEAN : update' = [receiver |-> r, enabled |-> enabled]
  /\ UNCHANGED <<daemon, calls, tables, now, observer>>

Mut_WriteReceiver ==
  /\ update # None
  /\ receivers' = [receivers EXCEPT ![update.receiver].enabled = update.enabled,
                                    ![update.receiver].revoked = FALSE]
  /\ update' = None
  /\ UNCHANGED <<daemon, calls, revoked, rings, deliveries, now, observer, bounds>>

WriteReceiver ==
  /\ update # None
  /\ receivers' = [receivers EXCEPT ![update.receiver].enabled = update.enabled]
  /\ update' = None
  /\ UNCHANGED <<daemon, calls, revoked, rings, deliveries, now, observer, bounds>>

(* A ring of another source purges the history, too.                       *)
OtherSourceRings ==
  LET old  == {k \in DOMAIN rings : Purged(k)}
      gone == {rings[k].id : k \in old}
  IN  /\ old # {}
      /\ rings' = Restrict(rings, DOMAIN rings \ old)
      /\ deliveries' = Restrict(deliveries, {d \in DOMAIN deliveries : d[1] \notin gone})
      /\ UNCHANGED <<daemon, calls, revoked, receivers, update, now, observer, bounds>>

PassTime ==
  /\ now < MaxTime
  /\ waiting = None /\ update = None /\ \A c \in Call : ~Working(c)
  /\ now' = now + 1
  /\ UNCHANGED <<daemon, calls, tables, update, observer, bounds>>

Handler(c) ==
  \/ Authenticate(c) \/ AnswerDuplicate(c) \/ AcceptRing(c)
  \/ PushRing(c) \/ RecordPush(c) \/ DisableReceiver(c) \/ AnswerAccepted(c)

Next ==
  \/ \E e \in Event : Enqueue(e) \/ Expire(e) \/ Submit(e)
  \/ Receive \/ GiveUp \/ Repair
  \/ \E c \in Call : Handler(c) \/ AnswerInvalid(c) \/ AnswerFailed(c) \/ Drop(c)
  \/ RelayRestart
  \/ \E s \in Source : RevokeSource(s)
  \/ \E r \in Receiver : CreateReceiver(r) \/ RevokeReceiver(r) \/ ReadReceiver(r)
  \/ WriteReceiver \/ OtherSourceRings \/ PassTime

Spec == Init /\ [][Next]_vars

(* The delivery tick submits what is pending, handlers run, answers come,  *)
(* and time passes; faults, the owner and pairing are not forced.          *)
FairSpec ==
  /\ Spec
  /\ \A e \in Event : WF_vars(Submit(e)) /\ WF_vars(Expire(e))
  /\ WF_vars(Receive)
  /\ \A c \in Call : WF_vars(Handler(c))
  /\ WF_vars(WriteReceiver) /\ WF_vars(PassTime)

-----------------------------------------------------------------------------
CallRecord ==
  [event : Event, source : Source,
   stage : {"arrived", "authorized", "pushing", "pushed", "disabling", "answered", "gone"},
   todo : SUBSET Receiver, push : Receiver \cup {None},
   outcome : {None, "accepted", "unauthorized", "invalid", "failed"} \cup PushOutcome,
   late : BOOLEAN]

ASSUME NoneIsNoCall == None \notin CallRecord

(* Types of rows, handlers, tables and observers.                          *)
TypeOK ==
  /\ row \in [Event -> {"unused", "pending", "refused", "accepted", "discarded", "expired"}]
  /\ born \in [Event -> Nat]
  /\ waiting \in Call \cup {None} /\ source \in Source
  /\ calls \in [Call -> CallRecord \cup {None}]
  /\ revoked \subseteq Source
  /\ DOMAIN rings \subseteq Ring
  /\ \A k \in DOMAIN rings : rings[k] \in [id : Call, at : Nat]
  /\ DOMAIN deliveries \subseteq Call \X Receiver
  /\ \A d \in DOMAIN deliveries :
       deliveries[d] \in {"queued"} \cup PushOutcome
  /\ receivers \in [Receiver -> [known : BOOLEAN, enabled : BOOLEAN, revoked : BOOLEAN]]
  /\ update \in [receiver : Receiver, enabled : BOOLEAN] \cup {None}
  /\ now \in Nat
  /\ accepted \subseteq Ring /\ pushes \in [Ring \X Receiver -> Nat]
  /\ silenced \subseteq Receiver
  /\ faults \in Nat /\ owner \in Nat

(* No event of a pairing is accepted twice or pushed twice to a receiver,  *)
(* whatever responses are lost (docs/SECURITY.md:25), if the relay keeps   *)
(* its history for as long as the daemon keeps its queue.                  *)
Promise == INSTANCE Notification WITH Event <- Ring

PromiseSpec == Promise!Spec

(* No event is pushed to a receiver for two pairings, as                   *)
(* docs/ARCHITECTURE.md:20 promises; the relay keeps it per source.        *)
OneNotificationPerEvent == \A e \in Event, r \in Receiver, s, t \in Source :
  pushes[<<<<s, e>>, r>>] > 0 /\ pushes[<<<<t, e>>, r>>] > 0 => s = t

(* No ring is accepted from a request sent after its source was revoked;   *)
(* one sent before may still pass the lock after the revocation.           *)
LaterRequestsAreRefused == \A k \in DOMAIN rings : ~calls[rings[k].id].late

(* A receiver the owner has revoked stays silent until it registers again: *)
(* no ring accepted in between is pushed to it, also when an update that   *)
(* read its row before the revocation writes it afterwards.                *)
RevokedReceiversStaySilent ==
  [][\A c \in Call, r \in Receiver :
       <<c, r>> \in DOMAIN deliveries' \ DOMAIN deliveries => r \notin silenced]_vars

(* What leaves the daemon's queue as delivered was committed by the relay  *)
(* for one of its pairings: lost answers, overlapping handlers, failing    *)
(* commits and restarts never turn into an acceptance.                     *)
DeliveredWasAccepted == \A e \in Event :
  row[e] = "accepted" => \E s \in Source : <<s, e>> \in accepted

(* Every queued event is accepted, refused, discarded or expires, whatever *)
(* calls are lost; the bound asks of the clock that it can reach its age.  *)
QueuedEventsAreResolved == \A e \in Event :
  row[e] = "pending" /\ born[e] + MaxAge < MaxTime
    ~> row[e] \in {"accepted", "refused", "discarded", "expired"}

(* The strengthening that makes the safety properties inductive.  A call   *)
(* belongs to a row, its handler's fields fit its stage, and it runs only  *)
(* while its event is young: time waits for handlers.                      *)
Delivering(c) == calls[c] # None /\ calls[c].stage \in {"pushing", "pushed", "disabling"}

HandlersSound ==
  /\ waiting # None => calls[waiting] # None
  /\ \A c \in Call : calls[c] # None =>
       /\ row[calls[c].event] # "unused"
       /\ Working(c) => ~TooOld(calls[c].event)
       /\ calls[c].stage = "answered" =>
            calls[c].outcome \in {"accepted", "unauthorized", "invalid", "failed"}
       /\ calls[c].stage = "pushed" => calls[c].outcome \in PushOutcome
       /\ calls[c].stage \in {"pushed", "disabling"} => calls[c].push \in Receiver

(* A late request never gets past source_auth, so no ring is its work.     *)
LatenessSound ==
  /\ \A c \in Call : calls[c] # None /\ calls[c].late =>
       /\ calls[c].source \in revoked
       /\ calls[c].stage \in {"arrived", "answered", "gone"}
  /\ \A k \in DOMAIN rings : calls[rings[k].id] # None /\ ~calls[rings[k].id].late

(* Whatever is in the history, being delivered or answered as accepted was *)
(* accepted, and so was what the daemon takes for delivered.               *)
AnsweredAccepted(c) ==
  calls[c] # None /\ calls[c].stage = "answered" /\ calls[c].outcome = "accepted"

AnswersSound ==
  /\ DOMAIN rings \subseteq accepted
  /\ \A c \in Call : Delivering(c) \/ AnsweredAccepted(c) => Key(c) \in accepted
  /\ DeliveredWasAccepted

(* The owner's revocation is in the row until the receiver is added again. *)
SilenceSound == \A r \in silenced : receivers[r].revoked

(* A ring in the history is not older than its event.                      *)
HistorySound ==
  /\ \A e \in Event : born[e] <= now
  /\ \A k \in DOMAIN rings : row[k[2]] # "unused" /\ born[k[2]] <= rings[k].at

(* What is kept while the history outlives the queue: an accepted ring is  *)
(* in the history or its event too old to be submitted again, and the one  *)
(* handler that delivers it has not pushed yet what it still has to.       *)
AcceptedOnce ==
  /\ \A k \in accepted :
       row[k[2]] # "unused" /\ (k \in DOMAIN rings \/ TooOld(k[2]))
  /\ \A k \in Ring \ accepted, r \in Receiver : pushes[<<k, r>>] = 0
  /\ \A c \in Call : Delivering(c) =>
       /\ Key(c) \in accepted
       /\ \A r \in calls[c].todo : pushes[<<Key(c), r>>] = 0
       /\ \A d \in Call : Delivering(d) /\ Key(d) = Key(c) => d = c

IInv ==
  /\ TypeOK /\ HandlersSound /\ LatenessSound /\ HistorySound
  /\ AnswersSound /\ SilenceSound
  /\ Retention >= MaxAge => AcceptedOnce
=============================================================================
