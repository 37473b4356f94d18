--------------------------- MODULE PullFeedProofs ---------------------------
(***************************************************************************)
(* Theorems about PullFeed, for any receivers, tags, page sizes and number *)
(* of rings, updates and requests in flight.                               *)
(***************************************************************************)
EXTENDS PullFeed, FiniteSetTheorems, SequenceTheorems, WellFoundedInduction, TLAPS

(* The largest of some ring ids is one of them.                            *)
LEMMA MaxIsMember ==
  ASSUME NEW n \in Nat, NEW S \in SUBSET (1 .. n), S # {}
  PROVE  Max(S) \in S
<1> DEFINE T == {n - i : i \in S}
<1>1. T \subseteq Nat
  <2>1. \A i \in S : n - i \in Nat
    OBVIOUS
  <2> QED
    BY <2>1
<1>2. PICK t \in T : \A u \in T : ~(<<u, t>> \in OpToRel(<, Nat))
  <2>1. T # {}
    OBVIOUS
  <2> QED
    BY <1>1, <2>1, NatLessThanWellFounded, WFMin
<1>3. \A u \in T : ~(u < t)
  BY <1>1, <1>2 DEF OpToRel
<1>4. PICK i \in S : t = n - i
  OBVIOUS
<1>5. \A j \in S : i >= j
  <2> SUFFICES ASSUME NEW j \in S PROVE i >= j
    OBVIOUS
  <2>1. ~(n - j < n - i)
    BY <1>3, <1>4
  <2> QED
    BY <2>1
<1> QED
  BY <1>5 DEF Max

-----------------------------------------------------------------------------
(* The requests in flight.                                                 *)
Held(R, r) == {q \in R : q.receiver = r}

RequestsTyped ==
  /\ requests \subseteq Request /\ IsFiniteSet(requests)
  /\ \A r \in Receiver : Cardinality(Held(requests, r)) <= MaxFlight

LEMMA Typed == IInv => TypeOK /\ RequestsTyped
  BY DEF IInv, TypeOK, RequestsTyped, Held

LEMMA HeldIsFinite ==
  ASSUME NEW R, IsFiniteSet(R), NEW r
  PROVE  IsFiniteSet(Held(R, r)) /\ Cardinality(Held(R, r)) \in Nat
  BY FS_Subset, FS_CardinalityType DEF Held

LEMMA Removed ==
  ASSUME RequestsTyped, NEW q, requests' = requests \ {q}
  PROVE  RequestsTyped'
<1>1. IsFiniteSet(requests) /\ IsFiniteSet(requests')
  BY FS_RemoveElement DEF RequestsTyped
<1>2. ASSUME NEW r \in Receiver
      PROVE  Cardinality(Held(requests', r)) <= MaxFlight
  <2>1. Held(requests', r) \in SUBSET Held(requests, r)
    BY DEF Held
  <2>2. Cardinality(Held(requests', r)) <= Cardinality(Held(requests, r))
    BY <1>1, <2>1, HeldIsFinite, FS_Subset
  <2>3. Cardinality(Held(requests, r)) \in Nat /\ Cardinality(Held(requests', r)) \in Nat
    BY <1>1, HeldIsFinite
  <2> QED
    BY <2>2, <2>3, PullFeedAssumption DEF RequestsTyped
<1> QED
  BY <1>1, <1>2 DEF RequestsTyped

LEMMA Added ==
  ASSUME RequestsTyped, NEW p \in Request, requests' = requests \cup {p},
         Cardinality(Held(requests, p.receiver)) < MaxFlight
  PROVE  RequestsTyped'
<1>1. IsFiniteSet(requests) /\ IsFiniteSet(requests')
  BY FS_AddElement DEF RequestsTyped
<1>2. ASSUME NEW r \in Receiver
      PROVE  Cardinality(Held(requests', r)) <= MaxFlight
  <2>1. IsFiniteSet(Held(requests, r)) /\ Cardinality(Held(requests, r)) \in Nat
    BY <1>1, HeldIsFinite
  <2>2. CASE r = p.receiver
    <3>1. Held(requests', r) = Held(requests, r) \cup {p}
      BY <2>2 DEF Held
    <3>2. Cardinality(Held(requests', r)) <= Cardinality(Held(requests, r)) + 1
      <4>1. \/ Cardinality(Held(requests', r)) = Cardinality(Held(requests, r))
            \/ Cardinality(Held(requests', r)) = Cardinality(Held(requests, r)) + 1
        BY <2>1, <3>1, FS_AddElement
      <4> QED
        BY <2>1, <4>1
    <3>3. Cardinality(Held(requests', r)) \in Nat
      BY <1>1, HeldIsFinite
    <3> QED
      BY <2>1, <2>2, <3>2, <3>3, PullFeedAssumption
  <2>3. CASE r # p.receiver
    <3>1. Held(requests', r) = Held(requests, r)
      BY <2>3 DEF Held
    <3> QED
      BY <3>1 DEF RequestsTyped
  <2> QED
    BY <2>2, <2>3
<1> QED
  BY <1>1, <1>2 DEF RequestsTyped

LEMMA Replaced ==
  ASSUME RequestsTyped, NEW q \in requests, NEW p \in Request,
         p.receiver = q.receiver, Becomes(q, p)
  PROVE  RequestsTyped'
<1>1. /\ requests' = (requests \ {q}) \cup {p}
      /\ IsFiniteSet(requests) /\ IsFiniteSet(requests \ {q}) /\ IsFiniteSet(requests')
  BY FS_AddElement, FS_RemoveElement DEF RequestsTyped, Becomes
<1>2. ASSUME NEW r \in Receiver
      PROVE  Cardinality(Held(requests', r)) <= MaxFlight
  <2>1. IsFiniteSet(Held(requests, r)) /\ Cardinality(Held(requests, r)) \in Nat
        /\ Cardinality(Held(requests', r)) \in Nat
    BY <1>1, HeldIsFinite
  <2>2. CASE r = p.receiver
    <3> DEFINE kept == Held(requests, r) \ {q}
    <3>1. Held(requests', r) = kept \cup {p} /\ q \in Held(requests, r)
      BY <1>1, <2>2 DEF Held
    <3>2. IsFiniteSet(kept) /\ Cardinality(kept) = Cardinality(Held(requests, r)) - 1
      BY <2>1, <3>1, FS_RemoveElement
    <3>3. Cardinality(kept \cup {p}) <= Cardinality(kept) + 1
      <4>1. Cardinality(kept) \in Nat
        BY <3>2, FS_CardinalityType
      <4>2. Cardinality(kept \cup {p})
              = IF p \in kept THEN Cardinality(kept) ELSE Cardinality(kept) + 1
        BY <3>2, FS_AddElement
      <4> QED
        BY <4>1, <4>2
    <3>4. Cardinality(Held(requests', r)) <= Cardinality(Held(requests, r))
      BY <2>1, <3>1, <3>2, <3>3
    <3> QED
      BY <2>1, <3>4, PullFeedAssumption DEF RequestsTyped
  <2>3. CASE r # p.receiver
    <3>1. Held(requests', r) = Held(requests, r)
      BY <1>1, <2>3 DEF Held
    <3> QED
      BY <3>1 DEF RequestsTyped
  <2> QED
    BY <2>2, <2>3
<1>3. requests' \subseteq Request
  BY <1>1 DEF RequestsTyped
<1> QED
  BY <1>1, <1>2, <1>3 DEF RequestsTyped

-----------------------------------------------------------------------------
(* What a step leaves alone stays sound.                                   *)
LEMMA RowsStay ==
  ASSUME IInv, UNCHANGED <<receivers, creating>>
  PROVE  \A r \in Receiver : RowSound(r)'
  BY DEF IInv, RowSound

LEMMA UpdatesStay ==
  ASSUME IInv, UNCHANGED updates, \A r \in Receiver : receivers[r] # None => receivers'[r] # None
  PROVE  \A u \in Update : UpdateSound(u)'
<1> SUFFICES ASSUME NEW u \in Update, updates[u] \notin {None, Done} PROVE UpdateSound(u)'
  BY DEF UpdateSound
<1>1. updates[u] \in UpdateRecord
  BY DEF IInv, TypeOK
<1> QED
  BY <1>1 DEF UpdateRecord, IInv, UpdateSound

LEMMA RequestStays ==
  ASSUME IInv, NEW q \in requests, receivers'[q.receiver] # None,
         receivers[q.receiver].revoked => receivers'[q.receiver].revoked
  PROVE  RequestSound(q)'
  BY DEF IInv, RequestSound

LEMMA Assemble ==
  ASSUME TypeOK', RequestsTyped', \A r \in Receiver : RowSound(r)',
         \A u \in Update : UpdateSound(u)', \A q \in requests' : RequestSound(q)'
  PROVE  IInv'
  BY DEF IInv, RequestsTyped

(* The rows changed at one receiver, the requests and updates did not.     *)
LEMMA RowChanges ==
  ASSUME IInv, NEW r \in Receiver, NEW row \in Row,
         receivers' = [receivers EXCEPT ![r] = row],
         receivers[r] # None /\ receivers[r].revoked => row.revoked,
         row.revoked => ~row.token,
         creating'[r] = None, \A s \in Receiver : s # r => creating'[s] = creating[s],
         TypeOK', UNCHANGED <<requests, updates>>
  PROVE  IInv'
<1>1. /\ TypeOK /\ RequestsTyped /\ receivers'[r] = row /\ row # None
      /\ \A s \in Receiver : s # r => receivers'[s] = receivers[s]
  BY Typed, PullFeedAssumption DEF TypeOK
<1>2. RequestsTyped'
  BY <1>1 DEF RequestsTyped
<1>3. \A s \in Receiver : RowSound(s)'
  <2>1. ASSUME NEW s \in Receiver, s # r PROVE RowSound(s)'
    BY <1>1, <2>1 DEF IInv, RowSound
  <2>2. RowSound(r)'
    BY <1>1 DEF RowSound
  <2> QED
    BY <2>1, <2>2
<1>4. \A u \in Update : UpdateSound(u)'
  BY <1>1, UpdatesStay
<1>5. \A q \in requests' : RequestSound(q)'
  <2> SUFFICES ASSUME NEW q \in requests PROVE RequestSound(q)'
    OBVIOUS
  <2>1. q.receiver \in Receiver /\ receivers[q.receiver] # None
    BY <1>1 DEF RequestsTyped, Request, IInv, RequestSound
  <2> QED
    BY <1>1, <2>1, RequestStays
<1> QED
  BY <1>2, <1>3, <1>4, <1>5, Assemble

(* One request changes, or goes.                                           *)
LEMMA RequestChanges ==
  ASSUME IInv, NEW q \in requests, NEW p \in Request, p.receiver = q.receiver, Becomes(q, p),
         p.late => p.stage = "sent" /\ q.late, TypeOK', UNCHANGED <<receivers, owner>>
  PROVE  IInv'
<1>1. RequestsTyped'
  BY Typed, Replaced
<1>2. \A s \in requests' : RequestSound(s)'
  BY RequestStays DEF Becomes, IInv, RequestSound
<1> QED
  BY <1>1, <1>2, RowsStay, UpdatesStay, Assemble DEF owner

LEMMA RequestGoes ==
  ASSUME IInv, NEW q \in requests, requests' = requests \ {q},
         TypeOK', UNCHANGED <<receivers, owner>>
  PROVE  IInv'
<1>1. RequestsTyped'
  BY Typed, Removed
<1>2. \A s \in requests' : RequestSound(s)'
  BY RequestStays DEF IInv, RequestSound
<1> QED
  BY <1>1, <1>2, RowsStay, UpdatesStay, Assemble DEF owner

-----------------------------------------------------------------------------
(* The history of rings.                                                   *)
LEMMA TargetsTyped ==
  ASSUME TypeOK
  PROVE  targets \in Seq(SUBSET Tag) /\ Len(targets) \in Cursor /\ Cursor \subseteq Nat
<1>1. PICK n \in Cursor : targets \in [1 .. n -> SUBSET Tag]
  BY DEF TypeOK
<1>2. n \in Nat /\ Cursor \subseteq Nat
  BY PullFeedAssumption DEF Cursor
<1> QED
  BY <1>1, <1>2

LEMMA InitSound == Init => IInv
<1> SUFFICES ASSUME Init PROVE IInv
  OBVIOUS
<1>1. 0 \in Cursor /\ {MaxRings, MaxFlight, MaxUpdates} \subseteq Nat
  BY PullFeedAssumption DEF Cursor
<1>2. targets \in [1 .. 0 -> SUBSET Tag]
  BY DEF Init
<1>3. \A r \in Receiver : Cardinality({q \in requests : q.receiver = r}) <= MaxFlight
  <2>1. \A r \in Receiver : {q \in requests : q.receiver = r} = {}
    BY DEF Init
  <2> QED
    BY <1>1, <2>1, FS_EmptySet
<1>4. purged \in 0 .. Len(targets) /\ (purged = 0 \/ purged < Len(targets))
  BY DEF Init
<1>5. TypeOK
  BY <1>1, <1>2, <1>3, <1>4 DEF Init, TypeOK
<1>6. IsFiniteSet(requests)
  BY FS_EmptySet DEF Init
<1>7. \A r \in Receiver : RowSound(r)
  BY DEF Init, RowSound
<1>8. \A u \in Update : UpdateSound(u)
  BY DEF Init, UpdateSound
<1> QED
  BY <1>5, <1>6, <1>7, <1>8 DEF Init, IInv

LEMMA SubmitRingSound ==
  ASSUME IInv, NEW target \in SUBSET Tag, SubmitRing(target)
  PROVE  IInv'
<1>1. TypeOK /\ RequestsTyped
  BY Typed
<1>2. /\ targets \in Seq(SUBSET Tag) /\ Len(targets) \in Nat /\ Len(targets) < MaxRings
      /\ targets' = Append(targets, target) /\ purged' \in purged .. Len(targets)
  BY <1>1, TargetsTyped DEF SubmitRing
<1>3. targets' \in Seq(SUBSET Tag) /\ Len(targets') = Len(targets) + 1
  BY <1>2
<1>4. Len(targets') \in Cursor /\ targets' \in [1 .. Len(targets') -> SUBSET Tag]
  <2>1. Len(targets') \in Cursor
    BY <1>2, <1>3, PullFeedAssumption DEF Cursor
  <2>2. targets' \in [1 .. Len(targets') -> SUBSET Tag]
    BY <1>3, LenProperties
  <2> QED
    BY <2>1, <2>2
<1>5. purged' \in 0 .. Len(targets') /\ purged' < Len(targets')
  BY <1>1, <1>2, <1>3 DEF TypeOK
<1>6. TypeOK'
  BY <1>1, <1>4, <1>5 DEF SubmitRing, TypeOK, owner, display, observed
<1>7. RequestsTyped'
  BY <1>1 DEF RequestsTyped, SubmitRing
<1>8. \A q \in requests' : RequestSound(q)'
  BY DEF SubmitRing, IInv, RequestSound
<1> QED
  BY <1>6, <1>7, <1>8, RowsStay, UpdatesStay, Assemble DEF SubmitRing, owner

-----------------------------------------------------------------------------
(* The owner.                                                              *)
LEMMA ReadNewestRingSound ==
  ASSUME IInv, NEW r \in Receiver, ReadNewestRing(r)
  PROVE  IInv'
<1>1. TypeOK /\ RequestsTyped
  BY Typed
<1>2. NewestRing \in Cursor /\ Len(targets) \in Cursor /\ NewestRing # None
  BY <1>1, TargetsTyped, PullFeedAssumption DEF NewestRing, Cursor
<1>3. TypeOK'
  BY <1>1, <1>2 DEF ReadNewestRing, TypeOK, tables, display
<1>4. RequestsTyped' /\ \A q \in requests' : RequestSound(q)'
  BY <1>1 DEF RequestsTyped, ReadNewestRing, IInv, RequestSound, tables
<1>5. \A s \in Receiver : RowSound(s)'
  BY <1>1 DEF ReadNewestRing, IInv, RowSound, TypeOK, tables
<1> QED
  BY <1>3, <1>4, <1>5, UpdatesStay, Assemble DEF ReadNewestRing, tables

LEMMA InsertReceiverSound ==
  ASSUME IInv, NEW r \in Receiver, NEW tags \in SUBSET Tag, InsertReceiver(r, tags)
  PROVE  IInv'
<1> DEFINE row == [tags |-> tags, enabled |-> TRUE, token |-> TRUE, revoked |-> FALSE,
                   acked |-> creating[r]]
<1>1. TypeOK /\ RowSound(r)
  BY DEF IInv
<1>2. row \in Row /\ receivers[r] = None
  BY <1>1 DEF InsertReceiver, TypeOK, Row, RowSound
<1>3. /\ receivers' = [receivers EXCEPT ![r] = row] /\ creating'[r] = None
      /\ \A s \in Receiver : s # r => creating'[s] = creating[s]
  BY <1>1 DEF InsertReceiver, TypeOK
<1>4. TypeOK'
  BY <1>1, <1>2, <1>3 DEF InsertReceiver, TypeOK, display, observed
<1>5. UNCHANGED <<requests, updates>>
  BY DEF InsertReceiver
<1> QED
  BY <1>2, <1>3, <1>4, <1>5, RowChanges

LEMMA BeginUpdateSound ==
  ASSUME IInv, NEW u \in Update, NEW r \in Receiver, NEW tags \in {None} \cup SUBSET Tag,
         NEW enabled \in BOOLEAN \cup {None}, BeginUpdate(u, r, tags, enabled)
  PROVE  IInv'
<1>1. TypeOK /\ RequestsTyped
  BY Typed
<1>2. receivers[r] # None /\ receivers[r] \in Row
  BY <1>1 DEF BeginUpdate, Active, TypeOK
<1>3. /\ Given(tags, receivers[r].tags) \in SUBSET Tag
      /\ Given(enabled, receivers[r].enabled) \in BOOLEAN
  BY <1>2 DEF Given, Row
<1> DEFINE rec == [receiver |-> r, tags |-> Given(tags, receivers[r].tags),
                   enabled |-> Given(enabled, receivers[r].enabled)]
<1>4. rec \in UpdateRecord /\ updates' = [updates EXCEPT ![u] = rec]
  BY <1>3 DEF UpdateRecord, BeginUpdate
<1> HIDE DEF rec
<1>5. TypeOK'
  BY <1>1, <1>4 DEF BeginUpdate, TypeOK, tables, display, observed
<1>6. \A v \in Update : UpdateSound(v)'
  <2>1. UpdateSound(u)'
    BY <1>1, <1>2, <1>4 DEF rec, UpdateSound, BeginUpdate, TypeOK, tables
  <2>2. ASSUME NEW v \in Update, v # u PROVE UpdateSound(v)'
    BY <1>1, <1>4, <2>2 DEF IInv, UpdateSound, BeginUpdate, TypeOK, tables
  <2> QED
    BY <2>1, <2>2
<1>7. RequestsTyped' /\ \A q \in requests' : RequestSound(q)'
  BY <1>1 DEF RequestsTyped, BeginUpdate, IInv, RequestSound, tables
<1> QED
  BY <1>5, <1>6, <1>7, RowsStay, Assemble DEF BeginUpdate, tables

LEMMA WriteUpdateSound ==
  ASSUME IInv, NEW u \in Update, WriteUpdate(u)
  PROVE  IInv'
<1>1. TypeOK /\ RequestsTyped
  BY Typed
<1>2. updates[u] \in UpdateRecord
  BY <1>1 DEF WriteUpdate, TypeOK
<1>3. PICK r \in Receiver : r = updates[u].receiver /\ receivers[r] # None
  BY <1>2 DEF WriteUpdate, UpdateRecord, IInv, UpdateSound
<1> DEFINE row == [receivers[r] EXCEPT !.tags = updates[u].tags, !.enabled = updates[u].enabled]
<1>4. receivers[r] \in Row /\ RowSound(r)
  BY <1>1, <1>3 DEF TypeOK, IInv
<1>5. /\ row \in Row /\ row.revoked = receivers[r].revoked /\ row.token = receivers[r].token
  BY <1>2, <1>4 DEF Row, UpdateRecord
<1>6. receivers' = [receivers EXCEPT ![r] = row]
  BY <1>1, <1>3, <1>4 DEF WriteUpdate, TypeOK, Row
<1> HIDE DEF row
<1>7. /\ receivers' \in [Receiver -> Row \cup {None}] /\ receivers'[r] = row /\ row # None
      /\ \A s \in Receiver : s # r => receivers'[s] = receivers[s]
  BY <1>1, <1>3, <1>5, <1>6, PullFeedAssumption DEF TypeOK
<1>8. updates' \in [Update -> {None, Done} \cup UpdateRecord]
  BY <1>1 DEF WriteUpdate, TypeOK
<1>9. TypeOK'
  BY <1>1, <1>7, <1>8 DEF WriteUpdate, TypeOK, display, observed
<1>10. RequestsTyped'
  BY <1>1 DEF WriteUpdate, RequestsTyped
<1>11. \A s \in Receiver : RowSound(s)'
  <2>1. RowSound(r)'
    BY <1>3, <1>4, <1>5, <1>7 DEF WriteUpdate, RowSound
  <2>2. ASSUME NEW s \in Receiver, s # r PROVE RowSound(s)'
    BY <1>7, <2>2 DEF WriteUpdate, IInv, RowSound
  <2> QED
    BY <2>1, <2>2
<1>12. \A v \in Update : UpdateSound(v)'
  <2> SUFFICES ASSUME NEW v \in Update, updates'[v] \notin {None, Done} PROVE UpdateSound(v)'
    BY DEF UpdateSound
  <2>1. updates'[v] = updates[v] /\ updates[v] \in UpdateRecord
    BY <1>1 DEF WriteUpdate, TypeOK
  <2>2. updates[v].receiver \in Receiver /\ receivers[updates[v].receiver] # None
    BY <2>1 DEF UpdateRecord, IInv, UpdateSound
  <2> QED
    BY <1>7, <2>1, <2>2 DEF UpdateSound
<1>13. \A q \in requests' : RequestSound(q)'
  <2> SUFFICES ASSUME NEW q \in requests PROVE RequestSound(q)'
    BY DEF WriteUpdate
  <2>1. q.receiver \in Receiver /\ receivers[q.receiver] # None
    BY <1>1 DEF RequestsTyped, Request, IInv, RequestSound
  <2> QED
    BY <1>5, <1>7, <2>1, RequestStays
<1> QED
  BY <1>9, <1>10, <1>11, <1>12, <1>13, Assemble

LEMMA RevokeSound ==
  ASSUME IInv, NEW r \in Receiver, Revoke(r)
  PROVE  IInv'
<1> DEFINE row == [receivers[r] EXCEPT !.revoked = TRUE, !.enabled = FALSE, !.token = FALSE]
<1>1. TypeOK /\ RowSound(r) /\ receivers[r] # None
  BY DEF IInv, Revoke, Active
<1>2. receivers[r] \in Row
  BY <1>1 DEF TypeOK
<1>3. row \in Row /\ row.revoked /\ ~row.token
  BY <1>2 DEF Row
<1>4. receivers' = [receivers EXCEPT ![r] = row]
  BY <1>1, <1>2 DEF Revoke, TypeOK, Row
<1> HIDE DEF row
<1>5. TypeOK'
  <2>1. receivers' \in [Receiver -> Row \cup {None}]
    BY <1>1, <1>3, <1>4 DEF TypeOK
  <2> QED
    BY <1>1, <2>1 DEF Revoke, TypeOK, owner, display, observed
<1>6. /\ creating'[r] = None /\ \A s \in Receiver : s # r => creating'[s] = creating[s]
      /\ UNCHANGED <<requests, updates>>
  BY <1>1 DEF Revoke, RowSound, owner
<1> QED
  BY <1>3, <1>4, <1>5, <1>6, RowChanges

-----------------------------------------------------------------------------
(* The display.                                                            *)
LEMMA SendSound ==
  ASSUME IInv, NEW r \in Receiver, NEW op \in {"feed", "ack"}, NEW c \in Cursor, Send(r, op, c)
  PROVE  IInv'
<1> DEFINE p == [op |-> op, receiver |-> r, stage |-> "sent", cursor |-> c,
                 tags |-> {}, rings |-> {}, late |-> receivers[r].revoked]
<1>1. TypeOK /\ RequestsTyped
  BY Typed
<1>2. receivers[r] # None /\ receivers[r].revoked \in BOOLEAN
  BY <1>1 DEF Send, TypeOK, Row
<1>3. p \in Request /\ p.receiver = r /\ p.stage = "sent" /\ p.late = receivers[r].revoked
  BY <1>2 DEF Request
<1>4. requests' = requests \cup {p} /\ Cardinality(Held(requests, p.receiver)) < MaxFlight
  BY DEF Send, Held
<1> HIDE DEF p
<1>5. RequestsTyped'
  BY <1>1, <1>3, <1>4, Added
<1>6. TypeOK'
  BY <1>1, <1>5 DEF Send, TypeOK, RequestsTyped, Held, tables, owner, display, observed
<1>7. \A q \in requests' : RequestSound(q)'
  BY <1>2, <1>3, <1>4 DEF Send, IInv, RequestSound, tables
<1> QED
  BY <1>5, <1>6, <1>7, RowsStay, UpdatesStay, Assemble DEF Send, tables, owner

LEMMA TakeAnswerSound ==
  ASSUME IInv, NEW q \in requests, TakeAnswer(q)
  PROVE  IInv'
<1>1. TypeOK /\ RequestsTyped /\ RequestsTyped'
  BY Typed, Removed DEF TakeAnswer
<1>2. q.receiver \in Receiver /\ q.cursor \in Cursor /\ q.rings \in SUBSET Ring
  BY <1>1 DEF RequestsTyped, Request
<1>3. cursor' \in [Receiver -> Cursor] /\ shown' \in [Receiver -> SUBSET Ring]
  BY <1>1, <1>2 DEF TakeAnswer, TypeOK
<1>4. TypeOK'
  BY <1>1, <1>3 DEF TakeAnswer, TypeOK, RequestsTyped, Held, tables, owner, observed
<1> QED
  BY <1>4, RequestGoes DEF TakeAnswer, tables

LEMMA LoseSound ==
  ASSUME IInv, NEW q \in requests, Lose(q) \/ Unauthorized(q)
  PROVE  IInv'
<1>1. TypeOK /\ RequestsTyped /\ RequestsTyped'
  BY Typed, Removed DEF Lose, Unauthorized
<1>2. TypeOK'
  BY <1>1 DEF Lose, Unauthorized, TypeOK, RequestsTyped, Held, tables, owner, display, observed
<1> QED
  BY <1>2, RequestGoes DEF Lose, Unauthorized, tables

-----------------------------------------------------------------------------
(* The handlers.                                                           *)
LEMMA AdvancedTyped ==
  ASSUME NEW a \in Cursor, NEW c \in Cursor
  PROVE  Advanced(a, c) \in Cursor /\ Advanced(a, c) >= a
  BY PullFeedAssumption DEF Cursor, Advanced

LEMMA AuthorizeSound ==
  ASSUME IInv, NEW q \in requests, Authorize(q)
  PROVE  IInv'
<1>1. TypeOK /\ RequestsTyped /\ RequestSound(q)
  BY Typed DEF IInv
<1>2. q \in Request /\ q.receiver \in Receiver /\ receivers[q.receiver] \in Row
  BY <1>1 DEF RequestsTyped, Request, RequestSound, TypeOK
<1>3. ~q.late
  BY <1>1 DEF RequestSound, Authorize, Authentic
<1>4. Advanced(receivers[q.receiver].acked, q.cursor) \in Cursor
  BY <1>2, AdvancedTyped DEF Request, Row
<1>5. PICK p \in Request : Becomes(q, p) /\ p.receiver = q.receiver /\ p.late = q.late
  <2>1. CASE q.op = "ack"
    <3> DEFINE p == [q EXCEPT !.stage = "authorized"]
    <3>1. p \in Request /\ p.receiver = q.receiver /\ p.late = q.late
      BY <1>2 DEF Request
    <3> QED
      BY <2>1, <3>1 DEF Authorize
  <2>2. CASE q.op # "ack"
    <3> DEFINE p == [q EXCEPT !.stage = "authorized", !.tags = receivers[q.receiver].tags,
                              !.cursor = Advanced(receivers[q.receiver].acked, @)]
    <3>1. p \in Request /\ p.receiver = q.receiver /\ p.late = q.late
      BY <1>2, <1>4 DEF Request, Row
    <3> QED
      BY <2>2, <3>1 DEF Authorize
  <2> QED
    BY <2>1, <2>2
<1>6. RequestsTyped'
  BY <1>1, <1>5, Replaced
<1>7. TypeOK'
  BY <1>1, <1>6 DEF Authorize, TypeOK, RequestsTyped, Held, tables, owner, display, observed
<1> QED
  BY <1>3, <1>5, <1>7, RequestChanges DEF Authorize, tables

LEMMA ScanSound ==
  ASSUME IInv, NEW q \in requests, Scan(q)
  PROVE  IInv'
<1> DEFINE page == {i \in Walked(q) : Matches(q.tags, targets[i])}
           p == [q EXCEPT !.stage = "answered", !.tags = {}, !.rings = page,
                          !.cursor = PageCursor(q)]
<1>1. TypeOK /\ RequestsTyped /\ RequestSound(q)
  BY Typed DEF IInv
<1>2. q \in Request /\ q.receiver \in Receiver /\ ~q.late
  BY <1>1 DEF RequestsTyped, Request, RequestSound, Scan
<1>3. Len(targets) \in Cursor /\ Cursor \subseteq Nat
  BY <1>1, TargetsTyped
<1>4. Walked(q) \in SUBSET (1 .. Len(targets)) /\ Walked(q) \in SUBSET Ring
  <2>1. Stored \subseteq 1 .. Len(targets) /\ 1 .. Len(targets) \subseteq Ring
    BY <1>1, <1>3, PullFeedAssumption DEF Stored, TypeOK, Ring, Cursor
  <2> QED
    BY <2>1 DEF Walked, Scanned
<1>5. PageCursor(q) \in Cursor
  <2>1. CASE Walked(q) = {}
    BY <1>2, <2>1 DEF PageCursor, Request
  <2>2. CASE Walked(q) # {}
    <3>1. Max(Walked(q)) \in Ring
      BY <1>3, <1>4, <2>2, MaxIsMember
    <3> QED
      BY <2>2, <3>1, PullFeedAssumption DEF PageCursor, Ring, Cursor
  <2> QED
    BY <2>1, <2>2
<1>6. page \in SUBSET Ring
  BY <1>4
<1>7. p \in Request /\ p.receiver = q.receiver /\ p.late = q.late
  BY <1>2, <1>5, <1>6 DEF Request
<1>8. Becomes(q, p) /\ passed' = [passed EXCEPT ![q.receiver] = @ \cup (Walked(q) \ page)]
  BY DEF Scan
<1> HIDE DEF p, page
<1>9. RequestsTyped'
  BY <1>1, <1>7, <1>8, Replaced
<1>10. passed' \in [Receiver -> SUBSET Ring]
  BY <1>1, <1>2, <1>4, <1>8 DEF TypeOK
<1>11. TypeOK'
  BY <1>1, <1>9, <1>10 DEF Scan, TypeOK, RequestsTyped, Held, tables, owner, display
<1> QED
  BY <1>2, <1>7, <1>8, <1>11, RequestChanges DEF Scan, tables

LEMMA AckSound ==
  ASSUME IInv, NEW q \in requests, Ack(q)
  PROVE  /\ IInv'
         /\ \A r \in Receiver : receivers[r] # None => receivers'[r].acked >= receivers[r].acked
<1>1. TypeOK /\ RequestsTyped /\ RequestsTyped'
  BY Typed, Removed DEF Ack
<1>2. PICK r \in Receiver : r = q.receiver /\ receivers[r] # None
  BY <1>1 DEF RequestsTyped, Request, IInv, RequestSound
<1>3. receivers[r] \in Row /\ q.cursor \in Cursor /\ RowSound(r)
  BY <1>1, <1>2 DEF RequestsTyped, Request, TypeOK, IInv
<1> DEFINE row == IF receivers[r].revoked THEN receivers[r]
                  ELSE [receivers[r] EXCEPT !.acked = Advanced(receivers[r].acked, q.cursor)]
<1>4. /\ row \in Row /\ row.revoked = receivers[r].revoked /\ row.token = receivers[r].token
      /\ row.acked >= receivers[r].acked
  <2>1. receivers[r].acked \in Cursor /\ receivers[r].acked >= receivers[r].acked
    BY <1>3, PullFeedAssumption DEF Row, Cursor
  <2>2. /\ Advanced(receivers[r].acked, q.cursor) \in Cursor
        /\ Advanced(receivers[r].acked, q.cursor) >= receivers[r].acked
    BY <1>3, <2>1, AdvancedTyped
  <2> QED
    BY <1>3, <2>1, <2>2 DEF Row
<1>5. receivers' = [receivers EXCEPT ![r] = row]
  BY <1>1, <1>2, <1>3 DEF Ack, TypeOK, Row
<1> HIDE DEF row
<1>6. /\ receivers' \in [Receiver -> Row \cup {None}] /\ receivers'[r] = row /\ row # None
      /\ \A s \in Receiver : s # r => receivers'[s] = receivers[s]
  BY <1>1, <1>2, <1>4, <1>5, PullFeedAssumption DEF TypeOK
<1>7. TypeOK'
  BY <1>1, <1>6 DEF Ack, TypeOK, RequestsTyped, Held, owner, display, observed
<1>8. \A s \in Receiver : RowSound(s)'
  <2>1. RowSound(r)'
    BY <1>2, <1>3, <1>4, <1>6 DEF Ack, RowSound, owner
  <2>2. ASSUME NEW s \in Receiver, s # r PROVE RowSound(s)'
    BY <1>6, <2>2 DEF Ack, IInv, RowSound, owner
  <2> QED
    BY <2>1, <2>2
<1>9. \A u \in Update : UpdateSound(u)'
  BY <1>6, UpdatesStay DEF Ack, owner
<1>10. \A t \in requests' : RequestSound(t)'
  <2> SUFFICES ASSUME NEW t \in requests PROVE RequestSound(t)'
    BY DEF Ack
  <2>1. t.receiver \in Receiver /\ receivers[t.receiver] # None
    BY <1>1 DEF RequestsTyped, Request, IInv, RequestSound
  <2> QED
    BY <1>4, <1>6, <2>1, RequestStays
<1>11. ASSUME NEW s \in Receiver, receivers[s] # None
       PROVE  receivers'[s].acked >= receivers[s].acked
  <2>1. receivers[s] \in Row
    BY <1>1, <1>11 DEF TypeOK
  <2>2. receivers[s].acked >= receivers[s].acked
    BY <2>1, PullFeedAssumption DEF Row, Cursor
  <2> QED
    BY <1>4, <1>6, <2>2
<1> QED
  BY <1>1, <1>7, <1>8, <1>9, <1>10, <1>11, Assemble

LEMMA StutterSound == IInv /\ UNCHANGED vars => IInv'
<1> SUFFICES ASSUME IInv, UNCHANGED vars PROVE IInv'
  OBVIOUS
<1>1. TypeOK' /\ RequestsTyped'
  BY Typed DEF TypeOK, RequestsTyped, Held, vars, tables, owner, display, observed
<1>2. \A q \in requests' : RequestSound(q)'
  BY DEF IInv, RequestSound, vars, tables
<1> QED
  BY <1>1, <1>2, RowsStay, UpdatesStay, Assemble DEF vars, tables, owner

LEMMA OwnerSound == IInv /\ OwnerActs => IInv'
<1> SUFFICES ASSUME IInv, OwnerActs PROVE IInv'
  OBVIOUS
<1>1. ASSUME NEW r \in Receiver, ReadNewestRing(r) \/ Revoke(r) PROVE IInv'
  BY <1>1, ReadNewestRingSound, RevokeSound
<1>2. ASSUME NEW r \in Receiver, NEW tags \in SUBSET Tag, InsertReceiver(r, tags) PROVE IInv'
  BY <1>2, InsertReceiverSound
<1>3. ASSUME NEW r \in Receiver, NEW u \in Update, NEW tags \in {None} \cup SUBSET Tag,
             NEW enabled \in BOOLEAN \cup {None}, BeginUpdate(u, r, tags, enabled)
      PROVE  IInv'
  BY <1>3, BeginUpdateSound
<1>4. ASSUME NEW u \in Update, WriteUpdate(u) PROVE IInv'
  BY <1>4, WriteUpdateSound
<1> QED
  BY <1>1, <1>2, <1>3, <1>4 DEF OwnerActs

LEMMA DisplaySound ==
  ASSUME IInv, NEW r \in Receiver, Poll(r) \/ PollAfresh(r) \/ SendAck(r)
  PROVE  IInv'
<1>1. cursor[r] \in Cursor /\ 0 \in Cursor
  BY PullFeedAssumption DEF IInv, TypeOK, Cursor
<1> QED
  BY <1>1, SendSound DEF Poll, PollAfresh, SendAck

LEMMA NextSound == IInv /\ [Next]_vars => IInv'
<1> SUFFICES ASSUME IInv, [Next]_vars PROVE IInv'
  OBVIOUS
<1>1. ASSUME NEW target \in SUBSET Tag, SubmitRing(target) PROVE IInv'
  BY <1>1, SubmitRingSound
<1>2. ASSUME NEW q \in requests, TakeAnswer(q) \/ Lose(q) \/ Serve(q) PROVE IInv'
  BY <1>2, TakeAnswerSound, LoseSound, AuthorizeSound, ScanSound, AckSound DEF Serve
<1>3. CASE UNCHANGED vars
  BY <1>3, StutterSound
<1> QED
  BY <1>1, <1>2, <1>3, OwnerSound, DisplaySound DEF Next

LEMMA Inductive == Spec => []IInv
  BY InitSound, NextSound, PTL DEF Spec

-----------------------------------------------------------------------------
(* The feed's tables, handlers and display keep their types, and a display *)
(* never has more than its share of requests in flight.                    *)
THEOREM TypeCorrect == Spec => []TypeOK
<1>1. IInv => TypeOK
  BY DEF IInv
<1> QED
  BY Inductive, <1>1, PTL

(* A request sent after revoke_pull_receiver is never served, although an  *)
(* update that began before may still write the row.                       *)
THEOREM RevokedIsOut == Spec => []RevokedStaysOut
<1>1. IInv => RevokedStaysOut
  BY DEF IInv, RequestSound, RevokedStaysOut
<1> QED
  BY Inductive, <1>1, PTL

(* The acknowledged cursor never goes back, whatever the order of          *)
(* acknowledgements and the updates of the owner around them.              *)
THEOREM AckAdvances == Spec => AckNeverGoesBack
<1>1. IInv /\ [Next]_vars =>
        [\A r \in Receiver : receivers[r] # None => receivers'[r].acked >= receivers[r].acked]_vars
  <2> SUFFICES ASSUME IInv, Next, NEW r \in Receiver, receivers[r] # None
               PROVE  receivers'[r].acked >= receivers[r].acked
    OBVIOUS
  <2>1. TypeOK /\ receivers[r] \in Row /\ receivers[r].acked \in Nat
    BY PullFeedAssumption DEF IInv, TypeOK, Row, Cursor
  <2>2. CASE UNCHANGED receivers
    BY <2>1, <2>2
  <2>3. ASSUME NEW q \in requests, Ack(q) PROVE receivers'[r].acked >= receivers[r].acked
    BY <2>3, AckSound
  <2>4. ASSUME NEW s \in Receiver, NEW tags \in SUBSET Tag, InsertReceiver(s, tags)
        PROVE  receivers'[r].acked >= receivers[r].acked
    <3>1. s # r
      BY <2>4 DEF IInv, RowSound, InsertReceiver
    <3> QED
      BY <2>1, <2>4, <3>1 DEF InsertReceiver, TypeOK
  <2>5. ASSUME NEW s \in Receiver, Revoke(s) PROVE receivers'[r].acked >= receivers[r].acked
    <3>1. receivers'[r].acked = receivers[r].acked
      BY <2>1, <2>5 DEF Revoke, TypeOK, Row
    <3> QED
      BY <2>1, <3>1
  <2>6. ASSUME NEW u \in Update, WriteUpdate(u) PROVE receivers'[r].acked >= receivers[r].acked
    <3>1. receivers'[r].acked = receivers[r].acked
      BY <2>1, <2>6 DEF WriteUpdate, TypeOK, Row
    <3> QED
      BY <2>1, <3>1
  <2> QED
    BY <2>2, <2>3, <2>4, <2>5, <2>6
    DEF Next, OwnerActs, SubmitRing, ReadNewestRing, BeginUpdate, Poll, PollAfresh, SendAck, Send,
        TakeAnswer, Lose, Serve, Authorize, Unauthorized, Scan, tables
<1> QED
  BY Inductive, <1>1, PTL DEF Spec, AckNeverGoesBack

-----------------------------------------------------------------------------
(* The feed.  What lies behind a cursor stays there: shown, passed and     *)
(* purged rings only become more, and start is set before the row exists.  *)
Grows(r) ==
  /\ purged' >= purged
  /\ start'[r] = start[r]
  /\ Seen(r) \subseteq Seen(r)'

Follows == IInv /\ FeedSound

LEMMA CursorsTyped ==
  ASSUME IInv
  PROVE  /\ purged \in Nat /\ Len(targets) \in Nat /\ purged <= Len(targets)
         /\ \A r \in Receiver : cursor[r] \in Nat /\ start[r] \in Nat
         /\ \A r \in Receiver : receivers[r] # None => receivers[r].acked \in Nat
         /\ \A q \in requests : q.receiver \in Receiver /\ q.cursor \in Nat
<1>1. TypeOK /\ RequestsTyped
  BY Typed
<1>2. Len(targets) \in Nat /\ Cursor \subseteq Nat
  BY <1>1, TargetsTyped
<1>3. \A r \in Receiver : cursor[r] \in Nat /\ start[r] \in Nat
  BY <1>1, <1>2 DEF TypeOK
<1>4. \A r \in Receiver : receivers[r] # None => receivers[r].acked \in Nat
  BY <1>1, <1>2 DEF TypeOK, Row
<1>5. \A q \in requests : q.receiver \in Receiver /\ q.cursor \in Nat
  BY <1>1, <1>2 DEF RequestsTyped, Request
<1> QED
  BY <1>1, <1>2, <1>3, <1>4, <1>5 DEF TypeOK

LEMMA CoverGrows ==
  ASSUME IInv, IInv', NEW r \in Receiver, Grows(r), NEW S, NEW T, S \subseteq T,
         NEW n \in Nat, \A i \in 1 .. n : i > start[r] => i \in S \/ i <= purged
  PROVE  \A i \in 1 .. n : i > start'[r] => i \in T \/ i <= purged'
<1>1. purged \in Nat /\ purged' \in Nat
  BY DEF IInv, TypeOK
<1> QED
  BY <1>1 DEF Grows

LEMMA RequestGoesOn ==
  ASSUME Follows, IInv', NEW q \in requests, Grows(q.receiver)
  PROVE  RequestFollows(q)'
<1> DEFINE S == Seen(q.receiver) \cup q.rings
           T == Seen(q.receiver)' \cup q.rings
<1>1. RequestFollows(q) /\ IInv
  BY DEF Follows, FeedSound
<1>2. q.receiver \in Receiver /\ q.cursor \in Nat
  BY <1>1, CursorsTyped
<1>3. S \subseteq T
  BY DEF Grows
<1>4. \A i \in 1 .. q.cursor : i > start[q.receiver] => i \in S \/ i <= purged
  BY <1>1 DEF RequestFollows, Covered
<1> HIDE DEF S, T
<1>5. \A i \in 1 .. q.cursor : i > start'[q.receiver] => i \in T \/ i <= purged'
  BY <1>1, <1>2, <1>3, <1>4, CoverGrows
<1> QED
  BY <1>1, <1>5 DEF T, RequestFollows, Covered, Grows

(* The cursor of a receiver and of its display keep what they have behind  *)
(* them where they are.                                                    *)
LEMMA ReceiverGoesOn ==
  ASSUME Follows, IInv', NEW r \in Receiver, Grows(r),
         receivers[r] = None <=> receivers'[r] = None,
         receivers[r] # None => receivers'[r].acked = receivers[r].acked,
         creating'[r] = creating[r], cursor'[r] = cursor[r], shown'[r] = shown[r]
  PROVE  ReceiverFollows(r)'
<1>1. ReceiverFollows(r) /\ IInv
  BY DEF Follows, FeedSound
<1>2. Covered(r, Seen(r), cursor[r])'
  <2>1. \A i \in 1 .. cursor[r] : i > start[r] => i \in Seen(r) \/ i <= purged
    BY <1>1 DEF ReceiverFollows, Covered
  <2>2. cursor[r] \in Nat /\ Seen(r) \subseteq Seen(r)'
    BY <1>1, CursorsTyped DEF Grows
  <2>3. \A i \in 1 .. cursor[r] : i > start'[r] => i \in Seen(r)' \/ i <= purged'
    BY <1>1, <2>1, <2>2, CoverGrows
  <2> QED
    BY <2>3 DEF Covered
<1>3. ASSUME receivers[r] # None PROVE Covered(r, Seen(r), receivers[r].acked)'
  <2>1. \A i \in 1 .. receivers[r].acked : i > start[r] => i \in Seen(r) \/ i <= purged
    BY <1>1, <1>3 DEF ReceiverFollows, Covered
  <2>2. receivers[r].acked \in Nat /\ Seen(r) \subseteq Seen(r)'
    BY <1>1, <1>3, CursorsTyped DEF Grows
  <2>3. \A i \in 1 .. receivers[r].acked : i > start'[r] => i \in Seen(r)' \/ i <= purged'
    BY <1>1, <2>1, <2>2, CoverGrows
  <2> QED
    BY <1>3, <2>3 DEF Covered
<1> QED
  BY <1>1, <1>2, <1>3 DEF ReceiverFollows, Grows

(* A step that moves no cursor.                                            *)
LEMMA CursorsStay ==
  ASSUME Follows, IInv', \A r \in Receiver : Grows(r), requests' \subseteq requests,
         \A r \in Receiver : receivers[r] = None <=> receivers'[r] = None,
         \A r \in Receiver : receivers[r] # None => receivers'[r].acked = receivers[r].acked,
         UNCHANGED <<creating, cursor, shown>>
  PROVE  FeedSound'
<1>1. \A q \in requests : q.receiver \in Receiver
  BY CursorsTyped DEF Follows
<1>2. \A q \in requests' : RequestFollows(q)'
  BY <1>1, RequestGoesOn
<1>3. \A r \in Receiver : ReceiverFollows(r)'
  BY ReceiverGoesOn
<1> QED
  BY <1>2, <1>3 DEF FeedSound

(* Stored rings, updates and revocations move no cursor.                   *)
LEMMA TablesFollow ==
  ASSUME Follows, IInv',
         \/ \E target \in SUBSET Tag : SubmitRing(target)
         \/ \E r \in Receiver : Revoke(r)
         \/ \E u \in Update, r \in Receiver, tags \in {None} \cup SUBSET Tag,
               enabled \in BOOLEAN \cup {None} : BeginUpdate(u, r, tags, enabled)
         \/ \E u \in Update : WriteUpdate(u)
         \/ \E q \in requests : Lose(q) \/ Unauthorized(q)
         \/ UNCHANGED vars
  PROVE  FeedSound'
<1>1. TypeOK /\ TypeOK' /\ purged \in Nat /\ Len(targets) \in Nat
  BY CursorsTyped DEF Follows, IInv
<1>2. /\ UNCHANGED <<creating, cursor, shown, start, passed>>
      /\ requests' \subseteq requests
      /\ UNCHANGED purged \/ purged' \in purged .. Len(targets)
  BY DEF SubmitRing, Revoke, BeginUpdate, WriteUpdate, Lose, Unauthorized, vars, tables,
    owner, display, observed
<1>3. \A r \in Receiver : Grows(r)
  BY <1>1, <1>2 DEF Grows, Seen
<1>4. \A r \in Receiver :
        /\ receivers[r] = None <=> receivers'[r] = None
        /\ receivers[r] # None => receivers'[r].acked = receivers[r].acked
  <2>1. CASE UNCHANGED receivers
    BY <2>1
  <2>2. ASSUME NEW s \in Receiver, Revoke(s), NEW r \in Receiver
        PROVE  /\ receivers[r] = None <=> receivers'[r] = None
               /\ receivers[r] # None => receivers'[r].acked = receivers[r].acked
    <3>1. receivers[s] # None /\ receivers[s] \in Row
      BY <1>1, <2>2 DEF Revoke, Active, TypeOK
    <3>2. receivers'[s].acked = receivers[s].acked /\ (r # s => receivers'[r] = receivers[r])
      BY <1>1, <2>2, <3>1 DEF Revoke, TypeOK, Row
    <3>3. receivers'[s] # None
      <4> DEFINE row == [receivers[s] EXCEPT !.revoked = TRUE, !.enabled = FALSE,
                                             !.token = FALSE]
      <4>1. row \in Row
        BY <3>1 DEF Row
      <4>2. receivers'[s] = row
        BY <1>1, <2>2 DEF Revoke, TypeOK
      <4> QED
        BY <4>1, <4>2, PullFeedAssumption
    <3> QED
      BY <3>1, <3>2, <3>3
  <2>3. ASSUME NEW u \in Update, WriteUpdate(u), NEW r \in Receiver
        PROVE  /\ receivers[r] = None <=> receivers'[r] = None
               /\ receivers[r] # None => receivers'[r].acked = receivers[r].acked
    <3> DEFINE s == updates[u].receiver
    <3>1. updates[u] \in UpdateRecord
      BY <1>1, <2>3 DEF WriteUpdate, TypeOK
    <3>2. s \in Receiver /\ receivers[s] # None
      BY <2>3, <3>1 DEF WriteUpdate, UpdateRecord, Follows, IInv, UpdateSound
    <3>3. receivers[s] \in Row
      BY <1>1, <3>2 DEF TypeOK
    <3>4. receivers'[s].acked = receivers[s].acked /\ (r # s => receivers'[r] = receivers[r])
      BY <1>1, <2>3, <3>1, <3>2, <3>3 DEF WriteUpdate, TypeOK, Row
    <3>5. receivers'[s] # None
      BY <1>1, <2>3, <3>1, <3>2, <3>3, PullFeedAssumption
         DEF WriteUpdate, TypeOK, Row, UpdateRecord
    <3> QED
      BY <3>2, <3>4, <3>5
  <2>4. \/ UNCHANGED receivers
        \/ \E r \in Receiver : Revoke(r)
        \/ \E u \in Update : WriteUpdate(u)
    BY DEF SubmitRing, BeginUpdate, Lose, Unauthorized, vars, tables
  <2> QED
    BY <2>1, <2>2, <2>3, <2>4
<1> QED
  BY <1>2, <1>3, <1>4, CursorsStay

(* A registration starts at the newest ring there is.                      *)
LEMMA ReadNewestFollows ==
  ASSUME Follows, IInv', NEW r \in Receiver, ReadNewestRing(r)
  PROVE  FeedSound'
<1>1. /\ TypeOK /\ purged \in Nat /\ Len(targets) \in Nat /\ purged <= Len(targets)
      /\ \A q \in requests : q.receiver \in Receiver /\ receivers[q.receiver] # None
  BY CursorsTyped DEF Follows, IInv, RequestSound
<1>2. /\ receivers[r] = None /\ UNCHANGED <<purged, receivers, requests, cursor, shown, passed>>
      /\ \A s \in Receiver : s # r => start'[s] = start[s] /\ creating'[s] = creating[s]
      /\ start'[r] = Len(targets) /\ creating'[r] = NewestRing
  BY <1>1 DEF ReadNewestRing, TypeOK, tables, display
<1>3. \A s \in Receiver : s # r => Grows(s)
  BY <1>1, <1>2 DEF Grows, Seen
<1>4. \A q \in requests' : RequestFollows(q)'
  BY <1>1, <1>2, <1>3, RequestGoesOn
<1>5. ASSUME NEW s \in Receiver, s # r PROVE ReceiverFollows(s)'
  BY <1>2, <1>3, <1>5, ReceiverGoesOn
<1>6. ReceiverFollows(r)'
  <2>1. NewestRing = Len(targets)
    <3>1. purged = 0 \/ purged < Len(targets)
      BY <1>1 DEF TypeOK
    <3>2. Len(targets) > 0 => Len(targets) \in Stored
      BY <1>1, <3>1 DEF Stored
    <3> QED
      BY <1>1, <3>2 DEF NewestRing
  <2>2. cursor[r] = 0 /\ shown[r] = {}
    BY <1>2 DEF Follows, FeedSound, ReceiverFollows
  <2> QED
    BY <1>2, <2>1, <2>2 DEF ReceiverFollows, Covered
<1> QED
  BY <1>4, <1>5, <1>6 DEF FeedSound

LEMMA InsertFollows ==
  ASSUME Follows, IInv', NEW r \in Receiver, NEW tags \in SUBSET Tag, InsertReceiver(r, tags)
  PROVE  FeedSound'
<1>1. /\ TypeOK /\ purged \in Nat /\ start[r] \in Nat
      /\ \A q \in requests : q.receiver \in Receiver
  BY CursorsTyped DEF Follows, IInv
<1>2. /\ receivers[r] = None /\ creating[r] = start[r] /\ cursor[r] = 0 /\ shown[r] = {}
  BY DEF InsertReceiver, Follows, IInv, RowSound, FeedSound, ReceiverFollows
<1>3. /\ UNCHANGED <<purged, requests, cursor, shown, start, passed>>
      /\ \A s \in Receiver : s # r => receivers'[s] = receivers[s] /\ creating'[s] = creating[s]
      /\ receivers'[r].acked = creating[r]
  BY <1>1 DEF InsertReceiver, TypeOK, display, observed
<1>4. \A s \in Receiver : Grows(s)
  BY <1>1, <1>3 DEF Grows, Seen
<1>5. \A q \in requests' : RequestFollows(q)'
  BY <1>1, <1>3, <1>4, RequestGoesOn
<1>6. ASSUME NEW s \in Receiver, s # r PROVE ReceiverFollows(s)'
  BY <1>3, <1>4, <1>6, ReceiverGoesOn
<1>7. ReceiverFollows(r)'
  <2>1. receivers'[r] # None
    <3> DEFINE row == [tags |-> tags, enabled |-> TRUE, token |-> TRUE, revoked |-> FALSE,
                       acked |-> creating[r]]
    <3>1. row \in Row
      BY <1>1 DEF InsertReceiver, TypeOK, Row
    <3>2. receivers'[r] = row
      BY <1>1 DEF InsertReceiver, TypeOK
    <3> QED
      BY <3>1, <3>2, PullFeedAssumption
  <2> QED
    BY <1>1, <1>2, <1>3, <2>1 DEF ReceiverFollows, Covered
<1> QED
  BY <1>5, <1>6, <1>7 DEF FeedSound

(* A request starts where the display is, or at the beginning.             *)
LEMMA DisplayFollows ==
  ASSUME Follows, IInv', NEW r \in Receiver, Poll(r) \/ PollAfresh(r) \/ SendAck(r)
  PROVE  FeedSound'
<1>1. /\ TypeOK /\ purged \in Nat /\ \A q \in requests : q.receiver \in Receiver
  BY CursorsTyped DEF Follows, IInv
<1>2. PICK op \in {"feed", "ack"}, c \in {0, cursor[r]} : Send(r, op, c)
  BY DEF Poll, PollAfresh, SendAck
<1>3. PICK p : /\ p = [op |-> op, receiver |-> r, stage |-> "sent", cursor |-> c,
                       tags |-> {}, rings |-> {}, late |-> receivers[r].revoked]
               /\ requests' = requests \cup {p}
               /\ UNCHANGED <<tables, owner, display, observed>>
  BY <1>2 DEF Send
<1>4. \A s \in Receiver : Grows(s)
  BY <1>1, <1>3 DEF Grows, Seen, tables, display, observed
<1>5. \A q \in requests : RequestFollows(q)'
  BY <1>1, <1>4, RequestGoesOn
<1>6. \A s \in Receiver : ReceiverFollows(s)'
  BY <1>3, <1>4, ReceiverGoesOn DEF tables, owner, display
<1>7. RequestFollows(p)'
  <2>1. Covered(r, Seen(r), cursor[r])'
    BY <1>6 DEF ReceiverFollows
  <2>2. cursor'[r] = cursor[r]
    BY <1>3 DEF display
  <2>3. Covered(r, Seen(r), c)'
    <3>1. CASE c = 0
      BY <3>1 DEF Covered
    <3>2. CASE c = cursor[r]
      BY <2>1, <2>2, <3>2 DEF Covered
    <3> QED
      BY <3>1, <3>2
  <2>4. p.receiver = r /\ p.stage = "sent" /\ p.cursor = c /\ p.rings = {}
    BY <1>3
  <2> QED
    BY <2>3, <2>4 DEF RequestFollows, Covered
<1> QED
  BY <1>3, <1>5, <1>6, <1>7 DEF FeedSound

-----------------------------------------------------------------------------
(* The display takes a page, the handlers build it and write the cursor.   *)
LEMMA TakeAnswerFollows ==
  ASSUME Follows, IInv', NEW q \in requests, TakeAnswer(q)
  PROVE  FeedSound'
<1> DEFINE r == q.receiver
<1>1. /\ TypeOK /\ purged \in Nat /\ \A p \in requests : p.receiver \in Receiver
      /\ receivers[r] # None
  BY CursorsTyped DEF Follows, IInv, RequestSound
<1>2. /\ UNCHANGED <<tables, owner, observed>> /\ requests' \subseteq requests
      /\ cursor'[r] = q.cursor /\ shown'[r] = shown[r] \cup q.rings
      /\ \A s \in Receiver : s # r => cursor'[s] = cursor[s] /\ shown'[s] = shown[s]
  BY <1>1 DEF TakeAnswer, TypeOK
<1>3. \A s \in Receiver : Grows(s)
  BY <1>1, <1>2 DEF Grows, Seen, tables, observed
<1>4. \A p \in requests' : RequestFollows(p)'
  BY <1>1, <1>2, <1>3, RequestGoesOn
<1>5. ASSUME NEW s \in Receiver, s # r PROVE ReceiverFollows(s)'
  BY <1>2, <1>3, <1>5, ReceiverGoesOn DEF tables, owner
<1>6. ReceiverFollows(r)'
  <2>1. RequestFollows(q) /\ ReceiverFollows(r) /\ IInv /\ r \in Receiver
    BY <1>1 DEF Follows, FeedSound
  <2>2. /\ receivers' = receivers /\ purged' = purged /\ start' = start
        /\ Seen(r)' = Seen(r) \cup q.rings
    BY <1>2 DEF tables, observed, Seen
  <2> QED
    BY <1>1, <1>2, <2>1, <2>2 DEF ReceiverFollows, RequestFollows, Covered
<1> QED
  BY <1>4, <1>5, <1>6 DEF FeedSound

(* A handler has moved one request and at most passed over some rings.     *)
LEMMA RequestMoves ==
  ASSUME Follows, IInv', NEW q \in requests, NEW p, Becomes(q, p), RequestFollows(p)',
         UNCHANGED <<tables, owner, display, start>>,
         \A r \in Receiver : passed[r] \subseteq passed'[r]
  PROVE  FeedSound'
<1>1. /\ TypeOK /\ purged \in Nat /\ \A s \in requests : s.receiver \in Receiver
  BY CursorsTyped DEF Follows, IInv
<1>2. \A r \in Receiver : Grows(r)
  BY <1>1 DEF Grows, Seen, tables, display
<1>3. \A s \in requests' : RequestFollows(s)'
  BY <1>1, <1>2, RequestGoesOn DEF Becomes
<1>4. \A r \in Receiver : ReceiverFollows(r)'
  BY <1>2, ReceiverGoesOn DEF tables, owner, display
<1> QED
  BY <1>3, <1>4 DEF FeedSound

LEMMA AuthorizeFollows ==
  ASSUME Follows, IInv', NEW q \in requests, Authorize(q)
  PROVE  FeedSound'
<1> DEFINE r == q.receiver
           acked == receivers[r].acked
<1>1. /\ r \in Receiver /\ receivers[r] \in Row /\ q \in Request
      /\ acked \in Nat /\ q.cursor \in Nat /\ start[r] \in Nat /\ receivers[r] # None
  <2>1. IInv /\ TypeOK /\ RequestsTyped
    BY Typed DEF Follows
  <2> QED
    BY <2>1, CursorsTyped DEF RequestsTyped, IInv, RequestSound, TypeOK
<1>2. RequestFollows(q) /\ ReceiverFollows(r) /\ q.stage = "sent"
  BY <1>1 DEF Follows, FeedSound, Authorize
<1>3. UNCHANGED <<tables, owner, display, start, passed>>
  BY DEF Authorize, observed
<1>4. q.rings = {} /\ Covered(r, Seen(r), q.cursor) /\ Covered(r, Seen(r), acked)
      /\ acked >= start[r]
  BY <1>1, <1>2 DEF RequestFollows, ReceiverFollows, Covered
<1>5. PICK p : /\ Becomes(q, p) /\ p.receiver = r /\ p.rings = {}
               /\ p.cursor \in {q.cursor, acked}
               /\ p.op = "feed" => p.cursor >= start[r]
  <2>1. CASE q.op = "ack"
    <3> DEFINE p == [q EXCEPT !.stage = "authorized"]
    <3>1. /\ Becomes(q, p) /\ p.receiver = r /\ p.rings = {} /\ p.cursor = q.cursor
          /\ p.op # "feed"
      BY <1>1, <1>4, <2>1 DEF Authorize, Request
    <3> HIDE DEF p
    <3> QED
      BY <3>1
  <2>2. CASE q.op # "ack"
    <3> DEFINE p == [q EXCEPT !.stage = "authorized", !.tags = receivers[q.receiver].tags,
                              !.cursor = Advanced(receivers[q.receiver].acked, @)]
    <3>1. Becomes(q, p)
      BY <2>2 DEF Authorize
    <3>2. p.receiver = r /\ p.rings = {} /\ p.cursor = Advanced(acked, q.cursor)
      BY <1>1, <1>4 DEF Request
    <3>3. Advanced(acked, q.cursor) \in {q.cursor, acked}
          /\ Advanced(acked, q.cursor) >= start[r]
      BY <1>1, <1>4 DEF Advanced
    <3> HIDE DEF p
    <3> QED
      BY <3>1, <3>2, <3>3
  <2> QED
    BY <2>1, <2>2
<1>6. RequestFollows(p)'
  <2>1. Covered(r, Seen(r), p.cursor)
    BY <1>4, <1>5
  <2>2. /\ purged' = purged /\ start' = start /\ Seen(r)' = Seen(r)
    BY <1>3 DEF tables, display, Seen
  <2> QED
    BY <1>5, <2>1, <2>2 DEF RequestFollows, Covered
<1> QED
  BY <1>3, <1>5, <1>6, RequestMoves

(* The page cursor: what lies between it and the floor was walked.         *)
LEMMA WalkedIsPrefix ==
  ASSUME IInv, NEW q \in requests
  PROVE  /\ Walked(q) \subseteq Stored /\ \A i \in Walked(q) : i > q.cursor
         /\ PageCursor(q) \in Nat /\ PageCursor(q) >= q.cursor
         /\ \A i \in Nat : q.cursor < i /\ i <= PageCursor(q) /\ purged < i => i \in Walked(q)
<1>1. /\ purged \in Nat /\ Len(targets) \in Nat /\ q.cursor \in Nat
      /\ Stored \subseteq 1 .. Len(targets) /\ Stored \subseteq Nat
  BY CursorsTyped DEF Stored
<1>2. Walked(q) \subseteq Scanned(q) /\ Scanned(q) \subseteq Stored
  BY DEF Walked, Scanned
<1>3. \A i \in Walked(q) : i > q.cursor
  BY DEF Walked, Scanned
<1>4. CASE Walked(q) = {}
  BY <1>1, <1>4 DEF PageCursor
<1>5. CASE Walked(q) # {}
  <2> DEFINE m == Max(Walked(q))
  <2>1. m \in Walked(q) /\ PageCursor(q) = m
    <3>1. Walked(q) \in SUBSET (1 .. Len(targets))
      BY <1>1, <1>2
    <3> QED
      BY <1>1, <1>5, <3>1, MaxIsMember DEF PageCursor
  <2> HIDE DEF m
  <2>2. m \in Nat /\ m > q.cursor
    BY <1>1, <1>2, <1>3, <2>1
  <2>3. IsFiniteSet(Stored)
    BY <1>1, FS_Interval DEF Stored
  <2>4. ASSUME NEW i \in Nat, q.cursor < i, i <= m, purged < i PROVE i \in Walked(q)
    <3>1. m \in Stored /\ i \in Stored
      BY <1>1, <1>2, <2>1, <2>4 DEF Stored
    <3>2. \A j \in Stored : j < i => j < m
      BY <1>1, <2>4, <2>2
    <3>3. i \in Scanned(q)
      <4> DEFINE below(k) == {j \in Stored : q.cursor < j /\ j < k}
      <4>1. below(i) \subseteq below(m) /\ below(m) \subseteq Stored
        BY <3>2
      <4>2. IsFiniteSet(below(m))
        BY <2>3, <4>1, FS_Subset
      <4>3. /\ Cardinality(below(i)) <= Cardinality(below(m))
            /\ Cardinality(below(i)) \in Nat /\ Cardinality(below(m)) \in Nat
        BY <4>1, <4>2, FS_Subset, FS_CardinalityType
      <4>4. Cardinality(below(m)) < ScanLimit
        BY <1>2, <2>1 DEF Scanned
      <4>5. Cardinality(below(i)) < ScanLimit
        BY <4>3, <4>4, PullFeedAssumption
      <4> QED
        BY <2>4, <3>1, <4>5 DEF Scanned
    <3> DEFINE fit(k) == {j \in Scanned(q) : j < k /\ Matches(q.tags, targets[j])}
    <3>4. fit(i) \subseteq fit(m) /\ fit(m) \subseteq Stored
      BY <1>2, <3>2
    <3>5. IsFiniteSet(fit(m))
      BY <2>3, <3>4, FS_Subset
    <3>6. /\ Cardinality(fit(i)) <= Cardinality(fit(m))
          /\ Cardinality(fit(i)) \in Nat /\ Cardinality(fit(m)) \in Nat
      BY <3>4, <3>5, FS_Subset, FS_CardinalityType
    <3>7. Cardinality(fit(m)) < Limit
      BY <2>1 DEF Walked
    <3>8. Cardinality(fit(i)) < Limit
      BY <3>6, <3>7, PullFeedAssumption
    <3> QED
      BY <3>3, <3>8 DEF Walked
  <2> QED
    BY <1>1, <1>2, <1>3, <2>1, <2>4, <2>2
<1> QED
  BY <1>2, <1>3, <1>4, <1>5

LEMMA ScanFollows ==
  ASSUME Follows, IInv', NEW q \in requests, Scan(q)
  PROVE  FeedSound'
<1> DEFINE r == q.receiver
<1>1. IInv /\ TypeOK /\ RequestsTyped
  BY Typed DEF Follows
<1>2. /\ r \in Receiver /\ q \in Request /\ q.cursor \in Nat /\ start[r] \in Nat
      /\ purged \in Nat
  BY <1>1, CursorsTyped DEF RequestsTyped
<1>3. RequestFollows(q) /\ q.op = "feed" /\ q.stage = "authorized"
  BY DEF Follows, FeedSound, Scan
<1>4. PICK walked, page, n :
        /\ walked = Walked(q) /\ n = PageCursor(q)
        /\ page = {i \in walked : Matches(q.tags, targets[i])}
  OBVIOUS
<1> DEFINE p == [q EXCEPT !.stage = "answered", !.tags = {}, !.rings = page, !.cursor = n]
<1>5. Becomes(q, p) /\ passed' = [passed EXCEPT ![r] = @ \cup (walked \ page)]
  BY <1>4 DEF Scan
<1>6. p.receiver = r /\ p.rings = page /\ p.cursor = n /\ p.stage = "answered"
  BY <1>2 DEF Request
<1>7. /\ page \subseteq walked /\ walked \subseteq Stored /\ Stored \subseteq Int
      /\ \A i \in walked : i > q.cursor
      /\ n \in Nat /\ n >= q.cursor
      /\ \A i \in Nat : q.cursor < i /\ i <= n /\ purged < i => i \in walked
  BY <1>1, <1>4, WalkedIsPrefix DEF Stored
<1> HIDE DEF p
<1>8. /\ passed'[r] = passed[r] \cup (walked \ page)
      /\ \A s \in Receiver : passed[s] \subseteq passed'[s]
  BY <1>1, <1>2, <1>5 DEF TypeOK
<1>9. UNCHANGED <<tables, owner, display, start>>
  BY DEF Scan
<1>10. q.rings = {} /\ q.cursor >= start[r] /\ Covered(r, Seen(r), q.cursor)
  BY <1>3 DEF RequestFollows
<1>11. RequestFollows(p)'
  <2>1. /\ purged' = purged /\ start' = start /\ Seen(r)' = Seen(r) \cup (walked \ page)
    BY <1>8, <1>9 DEF tables, display, Seen
  <2>2. Covered(r, Seen(r) \cup page, n)'
    <3> SUFFICES ASSUME NEW i \in 1 .. n, i > start[r], ~(i <= purged)
                 PROVE  i \in Seen(r)' \cup page
      BY <2>1 DEF Covered
    <3>1. CASE i <= q.cursor
      <4>1. i \in Seen(r)
        BY <1>2, <1>7, <1>10, <3>1 DEF Covered
      <4> QED
        BY <2>1, <4>1
    <3>2. CASE i > q.cursor
      <4>1. i \in walked
        BY <1>2, <1>7, <3>2
      <4> QED
        BY <2>1, <4>1
    <3> QED
      BY <1>2, <1>7, <3>1, <3>2
  <2>3. ASSUME NEW i \in page PROVE i > start[r]
    <3>1. i > q.cursor /\ i \in Int
      BY <1>7
    <3> QED
      BY <1>2, <1>10, <3>1
  <2>4. n >= start[r]
    BY <1>2, <1>7, <1>10
  <2> QED
    BY <1>6, <2>1, <2>2, <2>3, <2>4 DEF RequestFollows
<1> QED
  BY <1>8, <1>9, <1>11, <1>5, RequestMoves

LEMMA AckFollows ==
  ASSUME Follows, IInv', NEW q \in requests, Ack(q)
  PROVE  FeedSound'
<1> DEFINE r == q.receiver
<1>1. IInv /\ TypeOK /\ RequestsTyped
  BY Typed DEF Follows
<1>2. /\ r \in Receiver /\ q.cursor \in Nat /\ start[r] \in Nat /\ receivers[r] # None
      /\ receivers[r].acked \in Nat /\ receivers[r] \in Row /\ purged \in Nat
      /\ \A s \in requests : s.receiver \in Receiver
  BY <1>1, CursorsTyped DEF IInv, RequestSound, TypeOK
<1>3. RequestFollows(q) /\ ReceiverFollows(r) /\ q.op = "ack" /\ q.stage = "authorized"
  BY <1>2 DEF Follows, FeedSound, Ack
<1>4. Covered(r, Seen(r), q.cursor) /\ Covered(r, Seen(r), receivers[r].acked)
      /\ receivers[r].acked >= start[r]
  BY <1>2, <1>3 DEF RequestFollows, ReceiverFollows, Covered
<1>5. /\ UNCHANGED <<targets, purged, owner, display, observed>> /\ requests' \subseteq requests
      /\ \A s \in Receiver : s # r => receivers'[s] = receivers[s]
  BY <1>1, <1>2 DEF Ack, TypeOK
<1>6. /\ receivers'[r] # None /\ receivers'[r].acked \in {q.cursor, receivers[r].acked}
      /\ receivers'[r].acked >= start[r]
  <2>1. CASE receivers[r].revoked
    BY <1>2, <1>4, <2>1 DEF Ack
  <2>2. CASE ~receivers[r].revoked
    <3> DEFINE row == [receivers[r] EXCEPT !.acked = Advanced(receivers[r].acked, q.cursor)]
    <3>1. Advanced(receivers[r].acked, q.cursor) \in {q.cursor, receivers[r].acked}
          /\ Advanced(receivers[r].acked, q.cursor) >= start[r]
      BY <1>2, <1>4 DEF Advanced
    <3>2. receivers'[r] = row
      BY <1>1, <1>2, <2>2 DEF Ack, TypeOK
    <3>3. row.acked = Advanced(receivers[r].acked, q.cursor)
      BY <1>2 DEF Row
    <3>4. row \in Row
      <4>1. Advanced(receivers[r].acked, q.cursor) \in Cursor
        BY <1>1, <1>2, <3>1 DEF Row, RequestsTyped, Request
      <4> QED
        BY <1>2, <4>1 DEF Row
    <3> HIDE DEF row
    <3> QED
      BY <3>1, <3>2, <3>3, <3>4, PullFeedAssumption
  <2> QED
    BY <2>1, <2>2
<1>7. \A s \in Receiver : Grows(s)
  BY <1>2, <1>5 DEF Grows, Seen, display, observed
<1>8. \A s \in requests' : RequestFollows(s)'
  BY <1>2, <1>5, <1>7, RequestGoesOn
<1>9. ASSUME NEW s \in Receiver, s # r PROVE ReceiverFollows(s)'
  BY <1>5, <1>7, <1>9, ReceiverGoesOn DEF owner, display
<1>10. ReceiverFollows(r)'
  <2>1. /\ purged' = purged /\ start' = start /\ Seen(r)' = Seen(r)
        /\ cursor' = cursor /\ shown' = shown
    BY <1>5 DEF display, observed, Seen
  <2>2. Covered(r, Seen(r), receivers'[r].acked)
    BY <1>4, <1>6
  <2> QED
    BY <1>3, <1>6, <2>1, <2>2 DEF ReceiverFollows, Covered
<1> QED
  BY <1>8, <1>9, <1>10 DEF FeedSound

LEMMA NextFollows == Follows /\ [Next]_vars => Follows'
<1> SUFFICES ASSUME Follows, [Next]_vars PROVE FeedSound'
  BY NextSound DEF Follows
<1>1. IInv'
  BY NextSound DEF Follows
<1>2. ASSUME NEW r \in Receiver, ReadNewestRing(r) PROVE FeedSound'
  BY <1>1, <1>2, ReadNewestFollows
<1>3. ASSUME NEW r \in Receiver, NEW tags \in SUBSET Tag, InsertReceiver(r, tags)
      PROVE  FeedSound'
  BY <1>1, <1>3, InsertFollows
<1>4. ASSUME NEW r \in Receiver, Poll(r) \/ PollAfresh(r) \/ SendAck(r) PROVE FeedSound'
  BY <1>1, <1>4, DisplayFollows
<1>5. ASSUME NEW q \in requests, TakeAnswer(q) \/ Authorize(q) \/ Scan(q) \/ Ack(q)
      PROVE  FeedSound'
  BY <1>1, <1>5, TakeAnswerFollows, AuthorizeFollows, ScanFollows, AckFollows
<1>6. CASE \/ \E target \in SUBSET Tag : SubmitRing(target)
           \/ \E r \in Receiver : Revoke(r)
           \/ \E u \in Update, r \in Receiver, tags \in {None} \cup SUBSET Tag,
                 enabled \in BOOLEAN \cup {None} : BeginUpdate(u, r, tags, enabled)
           \/ \E u \in Update : WriteUpdate(u)
           \/ \E q \in requests : Lose(q) \/ Unauthorized(q)
           \/ UNCHANGED vars
  BY <1>1, <1>6, TablesFollow
<1> QED
  BY <1>2, <1>3, <1>4, <1>5, <1>6 DEF Next, OwnerActs, Serve

LEMMA InitFollows == Init => Follows
<1> SUFFICES ASSUME Init PROVE FeedSound
  BY InitSound DEF Follows
<1> QED
  BY DEF Init, FeedSound, ReceiverFollows, Covered

(* No acknowledged ring was skipped unless retention deleted it, and no    *)
(* ring from before the registration is shown, however polls, answers and  *)
(* acknowledgements overtake each other and tags change (receiver_feed,    *)
(* ack_receiver_feed).                                                     *)
THEOREM FeedExact == Spec => []FeedIsExact
<1>1. Follows => FeedIsExact
  BY DEF Follows, FeedSound, ReceiverFollows, Covered, Seen, FeedIsExact, NothingIsSkipped,
    HistoryIsNotReplayed
<1> QED
  BY InitFollows, NextFollows, <1>1, PTL DEF Spec
=============================================================================
