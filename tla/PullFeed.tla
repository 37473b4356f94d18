------------------------------ MODULE PullFeed ------------------------------
(***************************************************************************)
(* The pull receiver feed of the relay (shellbell-relay/src/lib.rs): the   *)
(* owner's create, update and revoke of a pull receiver, and the display   *)
(* that reads receiver_feed and acknowledges what it has shown.            *)
(*                                                                         *)
(* No handler holds a transaction: creating reads the newest ring id and   *)
(* inserts later, an update reads the row and writes all of it later, and  *)
(* a request authenticates (reading tags and cursor) before it scans or    *)
(* writes.  rings.id is AUTOINCREMENT, so a ring is named by its position  *)
(* in the history of accepted rings.  The display is external: it takes    *)
(* answers in any order, asks again after a restart without its cursor,    *)
(* and loses answers; a refusal by the rate limiter looks like a loss.     *)
(***************************************************************************)
EXTENDS Naturals, Sequences, FiniteSets, FiniteSetsExt

CONSTANTS None, Done,
          Receiver,      (* pull receivers                                  *)
          Tag,           (* tags                                            *)
          Limit,         (* limit: rings in one page                        *)
          ScanLimit,     (* scan_limit: rows one request reads              *)
          MaxRings,      (* bound: rings accepted                           *)
          MaxFlight,     (* bound: requests of one display in flight        *)
          MaxUpdates     (* bound: owner's updates, over the whole run      *)

Ring   == 1 .. MaxRings
Cursor == 0 .. MaxRings
Update == 1 .. MaxUpdates

Row == [tags : SUBSET Tag, enabled : BOOLEAN, token : BOOLEAN, revoked : BOOLEAN, acked : Cursor]

Request ==
  [op : {"feed", "ack"}, receiver : Receiver, stage : {"sent", "authorized", "answered"},
   cursor : Cursor,          (* what was sent, then the floor, then the page's *)
   tags : SUBSET Tag, rings : SUBSET Ring,
   late : BOOLEAN]           (* observer: sent after revoke_pull_receiver     *)

UpdateRecord == [receiver : Receiver, tags : SUBSET Tag, enabled : BOOLEAN]

ASSUME PullFeedAssumption ==
  /\ {MaxRings, MaxFlight, MaxUpdates} \subseteq Nat
  /\ Limit \in Nat \ {0} /\ ScanLimit \in Nat /\ ScanLimit >= Limit
  /\ (\A tags \in SUBSET Tag : tags # None) /\ None \notin BOOLEAN /\ None \notin Cursor
  /\ None \notin Row /\ {None, Done} \cap UpdateRecord = {} /\ None # Done

VARIABLES
  targets,     (* the accepted rings' target_tags; a ring's id is its index *)
  purged,      (* retention has deleted the rings up to this id             *)
  receivers,   (* table pull_receivers: None before the row exists          *)
  creating,    (* create_pull_receiver between its statements: the cursor   *)
  updates,     (* handlers of update_pull_receiver, None before the request *)
  requests,    (* feed and ack requests with their answers                  *)
  cursor,      (* the display: the cursor of the last answer it took        *)
  shown,       (* the display: the rings it has shown                       *)
  start,       (* observer: rings accepted when the registration began      *)
  passed       (* observer: rings a scan passed over, their tags unmatched  *)

tables  == <<targets, purged, receivers>>
owner   == <<creating, updates>>
display == <<cursor, shown>>
observed == <<start, passed>>
vars    == <<tables, owner, requests, display, observed>>

TypeOK ==
  /\ targets \in UNION {[1 .. n -> SUBSET Tag] : n \in Cursor}
  /\ purged \in 0 .. Len(targets) /\ (purged = 0 \/ purged < Len(targets))
  /\ receivers \in [Receiver -> Row \cup {None}]
  /\ creating \in [Receiver -> Cursor \cup {None}]
  /\ updates \in [Update -> {None, Done} \cup UpdateRecord]
  /\ requests \subseteq Request
  /\ \A r \in Receiver : Cardinality({q \in requests : q.receiver = r}) <= MaxFlight
  /\ cursor \in [Receiver -> Cursor]
  /\ shown \in [Receiver -> SUBSET Ring]
  /\ start \in [Receiver -> Cursor]
  /\ passed \in [Receiver -> SUBSET Ring]

Init ==
  /\ targets = <<>> /\ purged = 0
  /\ receivers = [r \in Receiver |-> None]
  /\ creating = [r \in Receiver |-> None]
  /\ updates = [u \in Update |-> None]
  /\ requests = {}
  /\ cursor = [r \in Receiver |-> 0]
  /\ shown = [r \in Receiver |-> {}]
  /\ start = [r \in Receiver |-> 0]
  /\ passed = [r \in Receiver |-> {}]

(***************************************************************************)
(* Rings: one transaction under ring_lock inserts the ring and deletes the *)
(* ones the retention has outlived.                                        *)
(***************************************************************************)
Stored == purged + 1 .. Len(targets)

Matches(tags, target) == target = {} \/ target \cap tags # {}

Mut_SubmitRing(target) ==
  /\ Len(targets) < MaxRings
  /\ targets' = Append(targets, target)
  /\ purged' \in purged .. Len(targets) + 1
  /\ UNCHANGED <<receivers, owner, requests, display, observed>>

SubmitRing(target) ==
  /\ Len(targets) < MaxRings
  /\ targets' = Append(targets, target)
  /\ purged' \in purged .. Len(targets)
  /\ UNCHANGED <<receivers, owner, requests, display, observed>>

(***************************************************************************)
(* The owner.                                                              *)
(***************************************************************************)
NewestRing == IF Stored = {} THEN 0 ELSE Len(targets)

ReadNewestRing(r) ==
  /\ receivers[r] = None /\ creating[r] = None
  /\ creating' = [creating EXCEPT ![r] = NewestRing]
  /\ start' = [start EXCEPT ![r] = Len(targets)]
  /\ UNCHANGED <<tables, updates, requests, display, passed>>

InsertReceiver(r, tags) ==
  /\ creating[r] # None
  /\ receivers' = [receivers EXCEPT ![r] =
       [tags |-> tags, enabled |-> TRUE, token |-> TRUE, revoked |-> FALSE, acked |-> creating[r]]]
  /\ creating' = [creating EXCEPT ![r] = None]
  /\ UNCHANGED <<targets, purged, updates, requests, display, observed>>

Active(r) == receivers[r] # None /\ ~receivers[r].revoked

Given(asked, stored) == IF asked = None THEN stored ELSE asked

(* A field the request does not name is written back as it was read.       *)
BeginUpdate(u, r, tags, enabled) ==
  /\ updates[u] = None /\ Active(r)
  /\ updates' = [updates EXCEPT ![u] =
       [receiver |-> r, tags |-> Given(tags, receivers[r].tags),
        enabled |-> Given(enabled, receivers[r].enabled)]]
  /\ UNCHANGED <<tables, creating, requests, display, observed>>

(* The UPDATE names the row by id alone: it also writes to a revoked one.  *)
WriteUpdate(u) ==
  /\ updates[u] \notin {None, Done}
  /\ receivers' = [receivers EXCEPT ![updates[u].receiver].tags    = updates[u].tags,
                                    ![updates[u].receiver].enabled = updates[u].enabled]
  /\ updates' = [updates EXCEPT ![u] = Done]
  /\ UNCHANGED <<targets, purged, creating, requests, display, observed>>

Revoke(r) ==
  /\ Active(r)
  /\ receivers' = [receivers EXCEPT ![r].revoked = TRUE, ![r].enabled = FALSE, ![r].token = FALSE]
  /\ UNCHANGED <<targets, purged, owner, requests, display, observed>>

(***************************************************************************)
(* The display sends, takes answers, and loses requests and answers.       *)
(***************************************************************************)
Send(r, op, c) ==
  /\ receivers[r] # None
  /\ Cardinality({q \in requests : q.receiver = r}) < MaxFlight
  /\ requests' = requests \cup
       {[op |-> op, receiver |-> r, stage |-> "sent", cursor |-> c,
         tags |-> {}, rings |-> {}, late |-> receivers[r].revoked]}
  /\ UNCHANGED <<tables, owner, display, observed>>

Poll(r)       == Send(r, "feed", cursor[r])
PollAfresh(r) == Send(r, "feed", 0)
SendAck(r)    == cursor[r] > 0 /\ Send(r, "ack", cursor[r])

TakeAnswer(q) ==
  /\ q \in requests /\ q.op = "feed" /\ q.stage = "answered"
  /\ cursor' = [cursor EXCEPT ![q.receiver] = q.cursor]
  /\ shown' = [shown EXCEPT ![q.receiver] = @ \cup q.rings]
  /\ requests' = requests \ {q}
  /\ UNCHANGED <<tables, owner, observed>>

Lose(q) ==
  /\ q \in requests
  /\ requests' = requests \ {q}
  /\ UNCHANGED <<tables, owner, display, observed>>

(***************************************************************************)
(* The handlers of the feed.                                               *)
(***************************************************************************)
Mut_Authentic(row) == row.enabled

Authentic(row) == row.token /\ row.enabled /\ ~row.revoked

Becomes(q, p) == requests' = (requests \ {q}) \cup {p}

Advanced(acked, c) == IF c > acked THEN c ELSE acked

(* pull_receiver_auth: the rest of the handler uses the row as it is here. *)
Authorize(q) ==
  /\ q \in requests /\ q.stage = "sent" /\ Authentic(receivers[q.receiver])
  /\ Becomes(q, IF q.op = "ack" THEN [q EXCEPT !.stage = "authorized"]
                ELSE [q EXCEPT !.stage = "authorized", !.tags = receivers[q.receiver].tags,
                               !.cursor = Advanced(receivers[q.receiver].acked, @)])
  /\ UNCHANGED <<tables, owner, display, observed>>

Unauthorized(q) ==
  /\ q \in requests /\ q.stage = "sent" /\ ~Authentic(receivers[q.receiver])
  /\ requests' = requests \ {q}
  /\ UNCHANGED <<tables, owner, display, observed>>

(* The rows of the SELECT: the first ScanLimit stored rings past the floor. *)
Scanned(q) ==
  {i \in Stored : i > q.cursor /\ Cardinality({j \in Stored : q.cursor < j /\ j < i}) < ScanLimit}

(* The loop breaks at the ring that fills the page.                        *)
Walked(q) ==
  {i \in Scanned(q) :
     Cardinality({j \in Scanned(q) : j < i /\ Matches(q.tags, targets[j])}) < Limit}

Mut_PageCursorSkips(q) == IF Walked(q) = {} THEN q.cursor ELSE Max(Scanned(q))

PageCursor(q) == IF Walked(q) = {} THEN q.cursor ELSE Max(Walked(q))

Scan(q) ==
  /\ q \in requests /\ q.op = "feed" /\ q.stage = "authorized"
  /\ LET page == {i \in Walked(q) : Matches(q.tags, targets[i])}
     IN /\ Becomes(q, [q EXCEPT !.stage = "answered", !.tags = {},
                                !.rings = page, !.cursor = PageCursor(q)])
        /\ passed' = [passed EXCEPT ![q.receiver] = @ \cup (Walked(q) \ page)]
  /\ UNCHANGED <<tables, owner, display, start>>

Mut_Ack(q) ==
  /\ q \in requests /\ q.op = "ack" /\ q.stage = "authorized"
  /\ IF receivers[q.receiver].revoked THEN UNCHANGED receivers
     ELSE receivers' = [receivers EXCEPT ![q.receiver].acked = q.cursor]
  /\ requests' = requests \ {q}
  /\ UNCHANGED <<targets, purged, owner, display, observed>>

Ack(q) ==
  /\ q \in requests /\ q.op = "ack" /\ q.stage = "authorized"
  /\ IF receivers[q.receiver].revoked THEN UNCHANGED receivers
     ELSE receivers' = [receivers EXCEPT ![q.receiver].acked = Advanced(@, q.cursor)]
  /\ requests' = requests \ {q}
  /\ UNCHANGED <<targets, purged, owner, display, observed>>

OwnerActs ==
  \/ \E r \in Receiver :
       \/ ReadNewestRing(r) \/ Revoke(r)
       \/ \E tags \in SUBSET Tag : InsertReceiver(r, tags)
       \/ \E u \in Update, tags \in {None} \cup SUBSET Tag, enabled \in BOOLEAN \cup {None} :
            BeginUpdate(u, r, tags, enabled)
  \/ \E u \in Update : WriteUpdate(u)

Serve(q) == Authorize(q) \/ Unauthorized(q) \/ Scan(q) \/ Ack(q)

Next ==
  \/ \E target \in SUBSET Tag : SubmitRing(target)
  \/ OwnerActs
  \/ \E r \in Receiver : Poll(r) \/ PollAfresh(r) \/ SendAck(r)
  \/ \E q \in requests : TakeAnswer(q) \/ Lose(q) \/ Serve(q)

Spec == Init /\ [][Next]_vars

(***************************************************************************)
(* Properties.                                                             *)
(***************************************************************************)

(* A ring the display has acknowledged was shown to it, or a scan passed   *)
(* over it because its tags did not match, or retention deleted it; and    *)
(* what was shown is no older than the registration (receiver_feed,        *)
(* ack_receiver_feed, create_pull_receiver).                               *)
NothingIsSkipped ==
  \A r \in Receiver : receivers[r] # None =>
    \A i \in 1 .. receivers[r].acked :
      i > start[r] => i \in shown[r] \cup passed[r] \/ i <= purged

HistoryIsNotReplayed ==
  \A r \in Receiver : \A i \in shown[r] : i > start[r]

FeedIsExact == NothingIsSkipped /\ HistoryIsNotReplayed

(* A request that the display sends after revoke_pull_receiver is never    *)
(* served, even when an update that began before wrote the row back.       *)
RevokedStaysOut == \A q \in requests : q.late => q.stage = "sent"

(* The acknowledged cursor never goes back, whatever the order in which    *)
(* acknowledgements arrive (ack_receiver_feed's MAX).                      *)
AckNeverGoesBack ==
  [][\A r \in Receiver : receivers[r] # None => receivers'[r].acked >= receivers[r].acked]_vars

(* The strengthening that makes the last two inductive: a row that is      *)
(* being created does not exist yet, one that is updated or asked for      *)
(* does, and a row that was revoked stays so and has lost its token.       *)
RowSound(r) ==
  /\ creating[r] # None => receivers[r] = None
  /\ receivers[r] # None /\ receivers[r].revoked => ~receivers[r].token

UpdateSound(u) == updates[u] \notin {None, Done} => receivers[updates[u].receiver] # None

RequestSound(q) ==
  /\ receivers[q.receiver] # None
  /\ q.late => q.stage = "sent" /\ receivers[q.receiver].revoked

IInv ==
  /\ TypeOK /\ IsFiniteSet(requests)
  /\ \A r \in Receiver : RowSound(r)
  /\ \A u \in Update : UpdateSound(u)
  /\ \A q \in requests : RequestSound(q)

(* The strengthening of FeedIsExact, inductive together with IInv: whoever *)
(* is at a cursor, the registration, the display or a request, has every   *)
(* ring up to it behind it, and no page starts before the registration.    *)
Covered(r, seen, n) == \A i \in 1 .. n : i > start[r] => i \in seen \/ i <= purged

Seen(r) == shown[r] \cup passed[r]

ReceiverFollows(r) ==
  /\ receivers[r] = None =>
       cursor[r] = 0 /\ shown[r] = {} /\ creating[r] \in {None, start[r]}
  /\ receivers[r] # None =>
       receivers[r].acked >= start[r] /\ Covered(r, Seen(r), receivers[r].acked)
  /\ Covered(r, Seen(r), cursor[r])
  /\ \A i \in shown[r] : i > start[r]

RequestFollows(q) ==
  /\ Covered(q.receiver, Seen(q.receiver) \cup q.rings, q.cursor)
  /\ \A i \in q.rings : i > start[q.receiver]
  /\ q.stage # "answered" => q.rings = {}
  /\ q.op = "feed" /\ q.stage # "sent" => q.cursor >= start[q.receiver]

FeedSound ==
  /\ \A r \in Receiver : ReceiverFollows(r)
  /\ \A q \in requests : RequestFollows(q)
=============================================================================
