--------------------------- MODULE PairingProofs ---------------------------
(***************************************************************************)
(* Theorems about Pairing, for every set of requests and sources and every *)
(* number of polls and approvals.  Most of the inductive invariant says    *)
(* that what a handler or a machine learned stays true.  So the proof      *)
(* first gathers what any step can do to the two tables, then shows what   *)
(* no such change takes back, and last goes through the handlers.          *)
(***************************************************************************)
EXTENDS Pairing, FiniteSetTheorems, TLAPS

(* A request that no decision has touched becomes another such, or decided.*)
Undecided(p) == requests[p] = None \/ Pending(p)

Decision ==
  /\ sources' = sources
  /\ \A p \in Request :
       \/ requests'[p] = requests[p]
       \/ /\ Undecided(p)
          /\ requests'[p] \in RequestRow
          /\ requests'[p].status # "approved" /\ requests'[p].source = None

ApprovalOf(p, s) ==
  /\ Pending(p) /\ s \notin DOMAIN sources
  /\ requests' = [requests EXCEPT ![p].status = "approved", ![p].source = s]
  /\ sources' = [x \in DOMAIN sources \cup {s} |->
       IF x = s THEN [hash |-> None, revoked |-> FALSE] ELSE sources[x]]

HashChange(s) ==
  /\ requests' = requests
  /\ \E row \in SourceRow :
       /\ sources' = [sources EXCEPT ![s] = row]
       /\ sources[s].revoked => row.revoked
       /\ row.revoked \/ sources[s].hash = None

(* All that a step does to the tables, ...                                 *)
TableStep ==
  \/ UNCHANGED tables
  \/ requests' \in [Request -> RequestRow \cup {None}] /\ Decision
  \/ \E p \in Request, s \in Source : ApprovalOf(p, s)
  \/ \E s \in DOMAIN sources : HashChange(s)

(* ... and to the handlers of poll_pairing.                                *)
PollStep ==
  \/ polls' = polls
  \/ \E k \in Poll, h \in PollRecord :
       /\ polls' = [polls EXCEPT ![k] = h]
       /\ polls[k] # None => h.request = polls[k].request
       /\ PollSound(k)'

-----------------------------------------------------------------------------
(* Types.                                                                  *)
LEMMA PollTyped ==
  ASSUME TypeOK, NEW k \in Poll, polls[k] # None
  PROVE  polls[k] \in PollRecord /\ polls[k].request \in Request
  BY DEF TypeOK, PollRecord

LEMMA RequestTyped ==
  ASSUME TypeOK, NEW p \in Request, requests[p] # None
  PROVE  requests[p] \in RequestRow
  BY DEF TypeOK

LEMMA ApprovalTyped ==
  ASSUME TypeOK, NEW a \in Approval, approvals[a] # None
  PROVE  approvals[a] \in ApprovalRecord /\ approvals[a].request \in Request
  BY DEF TypeOK, ApprovalRecord

(* A pending request has no source.                                        *)
LEMMA PendingHasNoSource ==
  ASSUME IInv, NEW p \in Request, Pending(p)
  PROVE  SourceOf(p) = None /\ requests[p] \in RequestRow
  BY RequestTyped DEF IInv, Pending, SourcesMatchRequests, SourceOf

(* Deciding against a request is a Decision.                               *)
LEMMA DecideIsDecision ==
  ASSUME IInv, NEW p \in Request, Pending(p), NEW status \in {"rejected", "expired"},
         requests' = Decide(p, status), sources' = sources
  PROVE  TableStep
<1>1. requests[p] \in RequestRow /\ requests[p].source = None
  BY PendingHasNoSource DEF SourceOf
<1>2. [requests[p] EXCEPT !.status = status] \in RequestRow
  BY <1>1 DEF RequestRow, Status
<1>3. requests' = [requests EXCEPT ![p] = [requests[p] EXCEPT !.status = status]]
  BY DEF Decide
<1>4. requests' \in [Request -> RequestRow \cup {None}]
  BY <1>2, <1>3 DEF IInv, TypeOK
<1>5. Decision
  BY <1>1, <1>2, <1>3 DEF Decision, Undecided, IInv, TypeOK, RequestRow
<1> QED
  BY <1>4, <1>5 DEF TableStep

LEMMA CreateIsDecision ==
  ASSUME IInv, NEW p \in Request, CreatePairing(p)
  PROVE  TableStep
<1> DEFINE row == [status |-> "pending", expires |-> now + TTL, source |-> None]
<1>1. row \in RequestRow
  BY PairingAssumption DEF IInv, TypeOK, RequestRow, Status
<1>2. requests' = [requests EXCEPT ![p] = row] /\ sources' = sources
  BY DEF CreatePairing
<1>3. requests' \in [Request -> RequestRow \cup {None}]
  BY <1>1, <1>2 DEF IInv, TypeOK
<1>4. Decision
  BY <1>1, <1>2 DEF Decision, Undecided, IInv, TypeOK, CreatePairing
<1> QED
  BY <1>3, <1>4 DEF TableStep

LEMMA ListIsDecision ==
  ASSUME IInv, ListPairings
  PROVE  TableStep
<1> DEFINE over == {p \in Request : Pending(p) /\ requests[p].expires <= now}
<1>1. requests' = [p \in Request |->
        IF p \in over THEN [requests[p] EXCEPT !.status = "expired"] ELSE requests[p]]
  BY DEF ListPairings
<1>2. ASSUME NEW p \in over
      PROVE  /\ [requests[p] EXCEPT !.status = "expired"] \in RequestRow
             /\ requests[p].source = None
  <2>1. p \in Request /\ Pending(p)
    OBVIOUS
  <2> QED
    BY <2>1, PendingHasNoSource DEF SourceOf, RequestRow, Status
<1>3. requests' \in [Request -> RequestRow \cup {None}]
  BY <1>1, <1>2 DEF IInv, TypeOK
<1>4. Decision
  <2>1. sources' = sources
    BY DEF ListPairings
  <2>2. ASSUME NEW p \in Request, requests'[p] # requests[p]
        PROVE  /\ Undecided(p) /\ requests'[p] \in RequestRow
               /\ requests'[p].status # "approved" /\ requests'[p].source = None
    <3>1. p \in over /\ requests'[p] = [requests[p] EXCEPT !.status = "expired"]
      BY <1>1, <2>2
    <3> QED
      BY <1>2, <3>1 DEF Undecided, RequestRow
  <2> QED
    BY <2>1, <2>2 DEF Decision
<1> QED
  BY <1>3, <1>4 DEF TableStep

LEMMA ApproveIsApproval ==
  ASSUME IInv, NEW a \in Approval, Approve(a)
  PROVE  TableStep
<1>1. approvals[a].request \in Request
  BY ApprovalTyped DEF IInv, Approve, At
<1>2. PICK s \in Source \ DOMAIN sources : ApprovalOf(approvals[a].request, s)
  BY DEF Approve, Approvable, ApprovalOf
<1> QED
  BY <1>1, <1>2 DEF TableStep

(* A poll that issues a token knows the source of its request.             *)
LEMMA IssuingSource ==
  ASSUME IInv, NEW k \in Poll, At(polls[k], "issuing")
  PROVE  /\ polls[k].request \in Request /\ HasSource(polls[k].request)
         /\ polls[k].source = SourceOf(polls[k].request)
         /\ polls[k].source \in DOMAIN sources
         /\ sources[polls[k].source] \in SourceRow
  BY PollTyped DEF IInv, At, PollSound, SourcesMatchRequests, TypeOK

LEMMA IssueIsHashChange ==
  ASSUME IInv, NEW k \in Poll, IssueToken(k)
  PROVE  TableStep
<1> DEFINE s == polls[k].source
           row == IF sources[s].hash = None THEN [sources[s] EXCEPT !.hash = k]
                  ELSE sources[s]
<1>1. s \in DOMAIN sources /\ sources[s] \in SourceRow
  BY IssuingSource DEF IssueToken
<1>2. CASE sources[s].hash = None
  <2>1. sources' = [sources EXCEPT ![s] = row] /\ requests' = requests
    BY <1>2 DEF IssueToken
  <2>2. row \in SourceRow /\ row.revoked = sources[s].revoked
    BY <1>1 DEF SourceRow
  <2>3. HashChange(s)
    BY <1>2, <2>1, <2>2 DEF HashChange
  <2> QED
    BY <1>1, <2>3 DEF TableStep
<1>3. CASE sources[s].hash # None
  BY <1>3 DEF IssueToken, TableStep, tables
<1> QED
  BY <1>2, <1>3

LEMMA RevokeIsHashChange ==
  ASSUME IInv, NEW s \in DOMAIN sources, RevokeSource(s)
  PROVE  TableStep
<1>1. [hash |-> None, revoked |-> TRUE] \in SourceRow
  BY DEF SourceRow
<1>2. HashChange(s)
  BY <1>1 DEF HashChange, RevokeSource
<1> QED
  BY <1>2 DEF TableStep

(* Every step of every handler, of the owner and of the machine.           *)
LEMMA NextIsTableStep ==
  ASSUME IInv, [Next]_vars
  PROVE  TableStep
<1>1. CASE \E p \in Request : CreatePairing(p)
  BY <1>1, CreateIsDecision
<1>2. CASE \E p \in Request : RejectPairing(p)
  <2>1. PICK p \in Request : RejectPairing(p)
    BY <1>2
  <2>2. PICK status \in {"rejected", "expired"} : requests' = Decide(p, status)
    BY <2>1 DEF RejectPairing
  <2> QED
    BY <2>1, <2>2, DecideIsDecision DEF RejectPairing
<1>3. CASE \E k \in Poll : ExpirePolled(k)
  <2>1. PICK k \in Poll : ExpirePolled(k)
    BY <1>3
  <2>2. polls[k].request \in Request
    BY <2>1, PollTyped DEF ExpirePolled, At, IInv
  <2>3. CASE Pending(polls[k].request)
    BY <2>1, <2>2, <2>3, DecideIsDecision DEF ExpirePolled
  <2>4. CASE ~Pending(polls[k].request)
    BY <2>1, <2>4 DEF ExpirePolled, TableStep, tables
  <2> QED
    BY <2>3, <2>4
<1>4. CASE \E a \in Approval : ExpireRefused(a)
  <2>1. PICK a \in Approval : ExpireRefused(a)
    BY <1>4
  <2>2. approvals[a].request \in Request
    BY <2>1, ApprovalTyped DEF ExpireRefused, At, IInv
  <2>3. CASE requests' = Decide(approvals[a].request, "expired") /\ Pending(approvals[a].request)
    BY <2>1, <2>2, <2>3, DecideIsDecision DEF ExpireRefused
  <2>4. CASE requests' = requests
    BY <2>1, <2>4 DEF ExpireRefused, TableStep, tables
  <2> QED
    BY <2>1, <2>3, <2>4 DEF ExpireRefused
<1>5. CASE ListPairings
  BY <1>5, ListIsDecision
<1>6. CASE \E a \in Approval : Approve(a)
  BY <1>6, ApproveIsApproval
<1>7. CASE \E k \in Poll : IssueToken(k)
  BY <1>7, IssueIsHashChange
<1>8. CASE \E s \in DOMAIN sources : RevokeSource(s)
  BY <1>8, RevokeIsHashChange
<1>9. CASE UNCHANGED tables
  BY <1>9 DEF TableStep
<1>10. CASE \/ \E p \in Request : BeginPoll(p) \/ ReceivePoll(p) \/ LosePoll(p) \/ GiveUp(p)
            \/ \E k \in Poll : ReadPairing(k)
            \/ \E a \in Approval : RefuseApproval(a) \/ \E p \in Request : BeginApproval(a, p)
            \/ PassTime \/ UNCHANGED vars
  <2>1. UNCHANGED tables
    BY <1>10 DEF BeginPoll, ReceivePoll, LosePoll, GiveUp, ReadPairing, RefuseApproval,
                 BeginApproval, PassTime, vars, tables
  <2> QED
    BY <2>1, <1>9
<1> QED
  BY <1>1, <1>2, <1>3, <1>4, <1>5, <1>6, <1>7, <1>8, <1>10 DEF Next

-----------------------------------------------------------------------------
(* What no change of the tables takes back.                                *)
LEMMA Decided ==
  ASSUME IInv, TableStep, NEW p \in Request, requests[p] # None, ~Pending(p)
  PROVE  requests'[p] = requests[p]
<1>1. CASE UNCHANGED tables
  BY <1>1 DEF tables
<1>2. CASE Decision
  BY <1>2 DEF Decision, Undecided
<1>3. CASE \E q \in Request, s \in Source : ApprovalOf(q, s)
  BY <1>3 DEF ApprovalOf, IInv, TypeOK
<1>4. CASE \E s \in DOMAIN sources : HashChange(s)
  BY <1>4 DEF HashChange
<1> QED
  BY <1>1, <1>2, <1>3, <1>4 DEF TableStep

LEMMA RowStays ==
  ASSUME IInv, TableStep, NEW p \in Request, requests[p] # None
  PROVE  requests'[p] # None
<1> USE PairingAssumption
<1>1. CASE UNCHANGED tables
  BY <1>1 DEF tables
<1>2. CASE Decision
  BY <1>2 DEF Decision
<1>3. CASE \E q \in Request, s \in Source : ApprovalOf(q, s)
  <2>1. PICK q \in Request, s \in Source : ApprovalOf(q, s)
    BY <1>3
  <2>2. [requests[q] EXCEPT !.status = "approved", !.source = s] \in RequestRow
    BY <2>1, PendingHasNoSource DEF ApprovalOf, RequestRow, Status
  <2> QED
    BY <2>1, <2>2 DEF ApprovalOf, IInv, TypeOK
<1>4. CASE \E s \in DOMAIN sources : HashChange(s)
  BY <1>4 DEF HashChange
<1> QED
  BY <1>1, <1>2, <1>3, <1>4 DEF TableStep

LEMMA SourceStays ==
  ASSUME IInv, TableStep, NEW p \in Request, HasSource(p)
  PROVE  HasSource(p)' /\ SourceOf(p)' = SourceOf(p)
<1>1. ~Pending(p)
  BY PendingHasNoSource DEF HasSource
<1>2. requests'[p] = requests[p]
  BY <1>1, Decided DEF HasSource
<1> QED
  BY <1>2 DEF HasSource, SourceOf

LEMMA HoldsStays ==
  ASSUME IInv, TableStep, NEW s, NEW t, t # None, Holds(s, t)
  PROVE  Holds(s, t)'
<1>1. CASE UNCHANGED tables
  BY <1>1 DEF tables, Holds
<1>2. CASE Decision
  BY <1>2 DEF Decision, Holds
<1>3. CASE \E q \in Request, x \in Source : ApprovalOf(q, x)
  BY <1>3 DEF ApprovalOf, Holds
<1>4. CASE \E x \in DOMAIN sources : HashChange(x)
  BY <1>4 DEF HashChange, Holds
<1> QED
  BY <1>1, <1>2, <1>3, <1>4 DEF TableStep

(* The tables keep their types and their one-to-one correspondence.        *)
LEMMA TablesTyped ==
  ASSUME IInv, TableStep
  PROVE  /\ requests' \in [Request -> RequestRow \cup {None}]
         /\ DOMAIN sources' \subseteq Source
         /\ \A s \in DOMAIN sources' : sources'[s] \in SourceRow
<1>1. CASE UNCHANGED tables
  BY <1>1 DEF tables, IInv, TypeOK
<1>2. CASE requests' \in [Request -> RequestRow \cup {None}] /\ Decision
  BY <1>2 DEF Decision, IInv, TypeOK
<1>3. CASE \E p \in Request, s \in Source : ApprovalOf(p, s)
  <2>1. PICK p \in Request, s \in Source : ApprovalOf(p, s)
    BY <1>3
  <2>2. [requests[p] EXCEPT !.status = "approved", !.source = s] \in RequestRow
    BY <2>1, PendingHasNoSource DEF ApprovalOf, RequestRow, Status
  <2>3. requests' = [requests EXCEPT
          ![p] = [requests[p] EXCEPT !.status = "approved", !.source = s]]
    BY <2>1 DEF ApprovalOf, IInv, TypeOK
  <2>4. [hash |-> None, revoked |-> FALSE] \in SourceRow
    BY DEF SourceRow
  <2> QED
    BY <2>1, <2>2, <2>3, <2>4 DEF ApprovalOf, IInv, TypeOK
<1>4. CASE \E s \in DOMAIN sources : HashChange(s)
  BY <1>4 DEF HashChange, IInv, TypeOK
<1> QED
  BY <1>1, <1>2, <1>3, <1>4 DEF TableStep

LEMMA MatchStays ==
  ASSUME IInv, TableStep
  PROVE  SourcesMatchRequests'
<1> USE PairingAssumption
<1>1. CASE UNCHANGED tables
  BY <1>1 DEF tables, IInv, SourcesMatchRequests, HasSource, SourceOf
<1>2. CASE Decision
  <2>1. ASSUME NEW p \in Request
        PROVE  /\ HasSource(p)' <=> HasSource(p)
               /\ HasSource(p) => SourceOf(p)' = SourceOf(p)
    BY <1>2, <2>1, SourceStays, PendingHasNoSource
    DEF Decision, HasSource, SourceOf, Undecided
  <2>2. ASSUME NEW p \in Request, requests'[p] # None
        PROVE  requests'[p].status = "approved" <=> SourceOf(p)' # None
    BY <1>2, <2>2 DEF Decision, IInv, SourcesMatchRequests, SourceOf
  <2>3. sources' = sources
    BY <1>2 DEF Decision
  <2> QED
    BY <2>1, <2>2, <2>3 DEF SourcesMatchRequests, IInv
<1>3. CASE \E p \in Request, s \in Source : ApprovalOf(p, s)
  <2>1. PICK p \in Request, s \in Source : ApprovalOf(p, s)
    BY <1>3
  <2>2. requests[p] \in RequestRow /\ SourceOf(p) = None
    BY <2>1, PendingHasNoSource DEF ApprovalOf
  <2>3. /\ requests'[p].status = "approved" /\ SourceOf(p)' = s /\ HasSource(p)'
        /\ \A q \in Request \ {p} : requests'[q] = requests[q]
    BY <2>1, <2>2, RowStays DEF ApprovalOf, IInv, TypeOK, SourceOf, HasSource, RequestRow, Pending
  <2>4. DOMAIN sources' = DOMAIN sources \cup {s} /\ s \notin DOMAIN sources
    BY <2>1 DEF ApprovalOf
  <2>5. \A q \in Request \ {p} : /\ HasSource(q)' <=> HasSource(q)
                                 /\ SourceOf(q)' = SourceOf(q)
    BY <2>3 DEF HasSource, SourceOf
  <2>6. ~HasSource(p)
    BY <2>2 DEF HasSource
  <2>7. \A q \in Request : requests'[q] # None =>
          (requests'[q].status = "approved" <=> SourceOf(q)' # None)
    BY <2>3, <2>5 DEF IInv, SourcesMatchRequests
  <2>8. \A q \in Request : HasSource(q)' => SourceOf(q)' \in DOMAIN sources'
    BY <2>3, <2>4, <2>5 DEF IInv, SourcesMatchRequests
  <2>9. \A x \in DOMAIN sources' : \E q \in Request : HasSource(q)' /\ SourceOf(q)' = x
    BY <2>3, <2>4, <2>5, <2>6 DEF IInv, SourcesMatchRequests
  <2>10. \A q, r \in Request : HasSource(q)' /\ HasSource(r)' /\ SourceOf(q)' = SourceOf(r)'
                                 => q = r
    BY <2>3, <2>4, <2>5 DEF IInv, SourcesMatchRequests
  <2> QED
    BY <2>7, <2>8, <2>9, <2>10 DEF SourcesMatchRequests
<1>4. CASE \E s \in DOMAIN sources : HashChange(s)
  BY <1>4 DEF HashChange, IInv, SourcesMatchRequests, HasSource, SourceOf
<1> QED
  BY <1>1, <1>2, <1>3, <1>4 DEF TableStep

-----------------------------------------------------------------------------
(* The handlers of poll_pairing.                                           *)
LEMMA PollChanged ==
  ASSUME IInv, NEW k \in Poll, NEW h \in PollRecord, polls' = [polls EXCEPT ![k] = h],
         polls[k] # None => h.request = polls[k].request, PollSound(k)'
  PROVE  PollStep
  BY DEF PollStep

(* A poll that begins knows nothing but its request.                       *)
LEMMA BeginIsPollStep ==
  ASSUME IInv, NEW p \in Request, BeginPoll(p)
  PROVE  PollStep
<1> USE PairingAssumption
<1> DEFINE h == [request |-> p, stage |-> "arrived", answer |-> None, source |-> None,
                 token |-> None]
<1>1. PICK k \in Poll : polls[k] = None /\ polls' = [polls EXCEPT ![k] = h]
  BY DEF BeginPoll
<1>2. h \in PollRecord
  BY DEF PollRecord
<1>3. polls'[k] = h
  BY <1>1 DEF IInv, TypeOK
<1>4. requests'[p] # None
  BY DEF BeginPoll, tables, IInv, ClientSound
<1>5. PollSound(k)'
  BY <1>3, <1>4 DEF PollSound
<1> QED
  BY <1>1, <1>2, <1>5, PollChanged

(* What the first statement reads is in the table when it reads it.        *)
LEMMA ReadIsPollStep ==
  ASSUME IInv, NEW k \in Poll, ReadPairing(k)
  PROVE  PollStep
<1> USE PairingAssumption
<1> DEFINE p == polls[k].request
           r == requests[p]
           stage == CASE r.status = "approved" -> "issuing"
                      [] r.status = "pending" /\ r.expires <= now -> "expiring"
                      [] OTHER -> "answered"
           h == [polls[k] EXCEPT !.stage = stage, !.answer = r.status, !.source = r.source]
<1>1. polls[k] # None /\ polls[k] \in PollRecord /\ p \in Request /\ PollSound(k)
  BY PollTyped DEF ReadPairing, At, IInv
<1>2. r # None /\ r \in RequestRow
  BY <1>1, RequestTyped DEF PollSound, IInv
<1>3. stage \in {"issuing", "expiring", "answered"}
  OBVIOUS
<1>4. r.status \in Status \cup {None} /\ r.source \in Source \cup {None}
  BY <1>2 DEF RequestRow
<1>5. h \in PollRecord
  BY <1>1, <1>3, <1>4 DEF PollRecord
<1>6. polls' = [polls EXCEPT ![k] = h]
  BY <1>1 DEF ReadPairing, IInv, TypeOK
<1>7. /\ polls'[k].request = p /\ polls'[k].stage = stage /\ polls'[k].answer = r.status
      /\ polls'[k].source = r.source /\ polls'[k].token = polls[k].token
  BY <1>1, <1>6 DEF IInv, TypeOK, PollRecord
<1>8. UNCHANGED tables
  BY DEF ReadPairing
<1>9. stage = "issuing" => r.status = "approved"
  OBVIOUS
<1>10. stage = "issuing" => HasSource(p) /\ r.source = SourceOf(p)
  BY <1>1, <1>2, <1>9 DEF IInv, SourcesMatchRequests, HasSource, SourceOf
<1>11. r.status # None
  BY <1>2 DEF RequestRow, Status
<1>12. r.status \in {"rejected", "expired"} => ~Pending(p)
  BY DEF Pending
<1>13. polls[k].token # None => HasSource(p) /\ Holds(SourceOf(p), polls[k].token)
  BY <1>1 DEF PollSound
<1>14. PollSound(k)'
  BY <1>2, <1>7, <1>8, <1>9, <1>10, <1>11, <1>12, <1>13
  DEF PollSound, tables, HasSource, SourceOf, Holds, Pending
<1> QED
  BY <1>1, <1>5, <1>6, <1>14, PollChanged DEF PollRecord

(* A handler that expires a request leaves it decided, by itself or not.   *)
LEMMA ExpireIsPollStep ==
  ASSUME IInv, TableStep, NEW k \in Poll, ExpirePolled(k)
  PROVE  PollStep
<1> USE PairingAssumption
<1> DEFINE p == polls[k].request
           h == [polls[k] EXCEPT !.stage = "answered", !.answer = "expired"]
<1>1. polls[k] # None /\ polls[k] \in PollRecord /\ p \in Request /\ PollSound(k)
  BY PollTyped DEF ExpirePolled, At, IInv
<1>2. h \in PollRecord
  BY <1>1 DEF PollRecord, Status
<1>3. polls' = [polls EXCEPT ![k] = h]
  BY <1>1 DEF ExpirePolled, IInv, TypeOK
<1>4. /\ polls'[k].request = p /\ polls'[k].stage = "answered"
      /\ polls'[k].answer = "expired" /\ polls'[k].token = polls[k].token
  BY <1>1, <1>3 DEF IInv, TypeOK, PollRecord
<1>5. requests'[p] # None
  BY <1>1, RowStays DEF PollSound
<1>6. requests'[p].status # "pending"
  <2>1. CASE Pending(p)
    <3>1. requests' = [requests EXCEPT ![p] = [requests[p] EXCEPT !.status = "expired"]]
      BY <2>1 DEF ExpirePolled, Decide
    <3>2. requests'[p].status = "expired"
      BY <1>1, <2>1, <3>1, PendingHasNoSource DEF IInv, TypeOK, RequestRow
    <3> QED
      BY <3>2
  <2>2. CASE ~Pending(p)
    BY <1>1, <2>2 DEF ExpirePolled, Pending, PollSound
  <2> QED
    BY <2>1, <2>2
<1>7. polls'[k].token # None => HasSource(p)' /\ Holds(SourceOf(p), polls[k].token)'
  BY <1>1, <1>4, SourceStays, HoldsStays DEF PollSound
<1>8. PollSound(k)'
  BY <1>4, <1>5, <1>6, <1>7 DEF PollSound, Pending, Status
<1> QED
  BY <1>1, <1>2, <1>3, <1>8, PollChanged DEF PollRecord

(* The token an answer carries is the source's when the answer leaves.     *)
LEMMA IssueIsPollStep ==
  ASSUME IInv, TableStep, NEW k \in Poll, IssueToken(k)
  PROVE  PollStep
<1> USE PairingAssumption
<1> DEFINE p == polls[k].request
           s == polls[k].source
           first == sources[s].hash = None
           token == IF first THEN k ELSE None
           h == [polls[k] EXCEPT !.stage = "answered", !.token = token]
<1>1. polls[k] # None /\ polls[k] \in PollRecord /\ p \in Request /\ PollSound(k)
  BY PollTyped DEF IssueToken, At, IInv
<1>2. HasSource(p) /\ s = SourceOf(p) /\ s \in DOMAIN sources /\ sources[s] \in SourceRow
  BY IssuingSource DEF IssueToken
<1>3. h \in PollRecord
  BY <1>1 DEF PollRecord
<1>4. polls' = [polls EXCEPT ![k] = h]
  BY <1>1 DEF IssueToken, IInv, TypeOK
<1>5. /\ polls'[k].request = p /\ polls'[k].stage = "answered"
      /\ polls'[k].answer = polls[k].answer /\ polls'[k].token = token
  BY <1>1, <1>4 DEF IInv, TypeOK, PollRecord
<1>6. UNCHANGED requests
  BY DEF IssueToken
<1>7. token # None => s \in DOMAIN sources' /\ sources'[s].hash = token
  BY <1>2 DEF IssueToken, SourceRow
<1>8. polls[k].answer = "approved" /\ polls[k].answer # None
  BY <1>1 DEF PollSound, IssueToken, At, Status
<1>9. PollSound(k)'
  BY <1>1, <1>2, <1>5, <1>6, <1>7, <1>8 DEF PollSound, HasSource, SourceOf, Holds
<1> QED
  BY <1>1, <1>3, <1>4, <1>9, PollChanged DEF PollRecord

LEMMA NextIsPollStep ==
  ASSUME IInv, [Next]_vars
  PROVE  PollStep
<1>1. TableStep
  BY NextIsTableStep
<1>2. CASE \E p \in Request : BeginPoll(p)
  BY <1>2, BeginIsPollStep
<1>3. CASE \E k \in Poll : ReadPairing(k)
  BY <1>3, ReadIsPollStep
<1>4. CASE \E k \in Poll : ExpirePolled(k)
  BY <1>1, <1>4, ExpireIsPollStep
<1>5. CASE \E k \in Poll : IssueToken(k)
  BY <1>1, <1>5, IssueIsPollStep
<1>6. CASE \/ \E p \in Request : \/ CreatePairing(p) \/ ReceivePoll(p) \/ LosePoll(p)
                                \/ GiveUp(p) \/ RejectPairing(p)
           \/ \E a \in Approval : \/ Approve(a) \/ RefuseApproval(a) \/ ExpireRefused(a)
                                  \/ \E p \in Request : BeginApproval(a, p)
           \/ ListPairings \/ (\E s \in DOMAIN sources : RevokeSource(s))
           \/ PassTime \/ UNCHANGED vars
  <2>1. UNCHANGED polls
    BY <1>6 DEF CreatePairing, ReceivePoll, LosePoll, GiveUp, RejectPairing, Approve,
                RefuseApproval, ExpireRefused, BeginApproval, ListPairings, RevokeSource,
                PassTime, vars, handlers
  <2> QED
    BY <2>1 DEF PollStep
<1> QED
  BY <1>2, <1>3, <1>4, <1>5, <1>6 DEF Next

(* A handler stays a handler of its request, and what it knows stays true. *)
LEMMA PollStays ==
  ASSUME IInv, PollStep, NEW k \in Poll, polls[k] # None
  PROVE  polls'[k] # None /\ polls'[k].request = polls[k].request
  BY PairingAssumption DEF PollStep, IInv, TypeOK

LEMMA PollsStaySound ==
  ASSUME IInv, TableStep, PollStep
  PROVE  /\ polls' \in [Poll -> PollRecord \cup {None}]
         /\ \A k \in Poll : polls'[k] # None => PollSound(k)'
<1>1. polls' \in [Poll -> PollRecord \cup {None}]
  BY DEF PollStep, IInv, TypeOK
<1>2. ASSUME NEW k \in Poll, polls'[k] # None, polls'[k] = polls[k]
      PROVE  PollSound(k)'
  <2>1. PollSound(k) /\ polls[k].request \in Request
    BY <1>2, PollTyped DEF IInv
  <2>2. requests'[polls[k].request] # None
    BY <2>1, RowStays DEF PollSound
  <2>3. ASSUME HasSource(polls[k].request)
        PROVE  /\ HasSource(polls[k].request)'
               /\ SourceOf(polls[k].request)' = SourceOf(polls[k].request)
    <3> DEFINE p == polls[k].request
    <3>1. PICK q \in Request : q = p
      BY <2>1
    <3>2. HasSource(q)' /\ SourceOf(q)' = SourceOf(q)
      BY <2>3, <3>1, SourceStays
    <3> QED
      BY <1>2, <3>1, <3>2 DEF HasSource, SourceOf
  <2>4. polls[k].stage = "answered" /\ polls[k].answer \in {"rejected", "expired"}
          => requests'[polls[k].request] = requests[polls[k].request]
    BY <2>1, Decided DEF PollSound
  <2>5. ASSUME polls[k].token # None
        PROVE  Holds(SourceOf(polls[k].request), polls[k].token)'
    <3>1. PICK s, t : s = SourceOf(polls[k].request) /\ t = polls[k].token
      OBVIOUS
    <3>2. Holds(s, t)'
      BY <2>1, <2>5, <3>1, HoldsStays DEF PollSound
    <3>3. SourceOf(polls[k].request)' = s /\ polls'[k].token = t
      BY <1>2, <2>1, <2>3, <2>5, <3>1 DEF PollSound
    <3> QED
      BY <3>2, <3>3 DEF Holds
  <2> QED
    BY <1>2, <2>1, <2>2, <2>3, <2>4, <2>5 DEF PollSound, Pending
<1>3. ASSUME NEW k \in Poll, polls'[k] # None, polls'[k] # polls[k]
      PROVE  PollSound(k)'
  BY <1>3 DEF PollStep, IInv, TypeOK
<1> QED
  BY <1>1, <1>2, <1>3

-----------------------------------------------------------------------------
(* The machines.                                                           *)
LEMMA MachineStaysSound ==
  ASSUME IInv, TableStep, PollStep, NEW p \in Request,
         client'[p] = client[p], waiting'[p] = waiting[p] \/ waiting'[p] = None
  PROVE  ClientSound(p)'
<1>1. ClientSound(p) /\ waiting[p] \in Poll \cup {None}
  BY DEF IInv, TypeOK
<1>2. client'[p].state # "new" => requests'[p] # None
  BY <1>1, RowStays DEF ClientSound
<1>3. waiting'[p] # None => polls'[waiting'[p]] # None /\ polls'[waiting'[p]].request = p
  BY <1>1, PollStays DEF ClientSound
<1>4. ASSUME client[p].state = "paired"
      PROVE  /\ client'[p].token # None /\ HasSource(p)'
             /\ Holds(SourceOf(p), client[p].token)'
  <2>1. HasSource(p)' /\ SourceOf(p)' = SourceOf(p)
    BY <1>1, <1>4, SourceStays DEF ClientSound
  <2>2. PICK s, t : s = SourceOf(p) /\ t = client[p].token
    OBVIOUS
  <2>3. t # None /\ Holds(s, t)'
    BY <1>1, <1>4, <2>2, HoldsStays DEF ClientSound
  <2>4. client'[p].token = t
    BY <2>2
  <2>5. SourceOf(p)' = s
    BY <2>1, <2>2
  <2> QED
    BY <2>1, <2>3, <2>4, <2>5 DEF Holds
<1> QED
  BY <1>2, <1>3, <1>4 DEF ClientSound

(* What a machine makes of an answer is what its handler knew.             *)
LEMMA ReceivedIsSound ==
  ASSUME IInv, NEW p \in Request, ReceivePoll(p)
  PROVE  client'[p] \in ClientRecord /\ waiting'[p] = None /\ ClientSound(p)'
<1> USE PairingAssumption
<1> DEFINE h == polls[waiting[p]]
<1>1. waiting[p] \in Poll /\ h # None /\ h.request = p /\ h.stage = "answered"
  BY DEF ReceivePoll, IInv, TypeOK, ClientSound
<1>2. h \in PollRecord /\ PollSound(waiting[p])
  BY <1>1, PollTyped DEF IInv
<1>3. client'[p] = Learned(h) /\ waiting'[p] = None /\ UNCHANGED tables
  BY DEF ReceivePoll, IInv, TypeOK
<1>4. h.answer \in Status /\ h.token \in Poll \cup {None}
  BY <1>1, <1>2 DEF PollSound, PollRecord
<1>5. Learned(h) \in ClientRecord
  BY <1>4 DEF Learned, ClientRecord, Status
<1>6. Learned(h).state = "paired" => h.token # None /\ Learned(h).token = h.token
  BY <1>4 DEF Learned, Status
<1>7. requests[p] # None /\ (h.token # None => HasSource(p) /\ Holds(SourceOf(p), h.token))
  BY <1>1, <1>2 DEF PollSound
<1>8. ASSUME client'[p].state = "paired"
      PROVE  /\ client'[p].token # None /\ HasSource(p)'
             /\ Holds(SourceOf(p), client[p].token)'
  <2>1. client'[p].token = h.token /\ h.token # None
    BY <1>3, <1>6, <1>8
  <2> QED
    BY <1>3, <1>7, <2>1 DEF tables, HasSource, SourceOf, Holds
<1> QED
  BY <1>3, <1>5, <1>7, <1>8 DEF ClientSound, tables, SourceOf

LEMMA MachinesStaySound ==
  ASSUME IInv, [Next]_vars, TableStep, PollStep
  PROVE  /\ client' \in [Request -> ClientRecord]
         /\ waiting' \in [Request -> Poll \cup {None}]
         /\ \A p \in Request : ClientSound(p)'
<1> USE PairingAssumption
<1>0. /\ client \in [Request -> ClientRecord] /\ waiting \in [Request -> Poll \cup {None}]
      /\ polls \in [Poll -> PollRecord \cup {None}]
      /\ requests \in [Request -> RequestRow \cup {None}]
  BY DEF IInv, TypeOK
<1>1. ASSUME NEW p \in Request, NEW c \in ClientRecord, NEW w \in Poll \cup {None},
             client' = [client EXCEPT ![p] = c], waiting' = [waiting EXCEPT ![p] = w],
             ClientSound(p)'
      PROVE  /\ client' \in [Request -> ClientRecord]
             /\ waiting' \in [Request -> Poll \cup {None}]
             /\ \A q \in Request : ClientSound(q)'
  <2>1. \A q \in Request \ {p} : client'[q] = client[q] /\ waiting'[q] = waiting[q]
    BY <1>0, <1>1
  <2>2. \A q \in Request \ {p} : ClientSound(q)'
    BY <2>1, MachineStaysSound
  <2> QED
    BY <1>0, <1>1, <2>2
<1>2. CASE \E p \in Request : CreatePairing(p)
  <2>1. PICK p \in Request : CreatePairing(p)
    BY <1>2
  <2>2. [client[p] EXCEPT !.state = "polling"] \in ClientRecord
    BY <1>0 DEF ClientRecord
  <2>3. client' = [client EXCEPT ![p] = [client[p] EXCEPT !.state = "polling"]]
        /\ waiting' = [waiting EXCEPT ![p] = waiting[p]]
    BY <1>0, <2>1 DEF CreatePairing
  <2>4. client'[p].state = "polling"
    BY <1>0, <2>3 DEF ClientRecord
  <2>5. requests'[p] # None
    <3>1. [status |-> "pending", expires |-> now + TTL, source |-> None] \in RequestRow
      BY DEF RequestRow, Status, IInv, TypeOK
    <3> QED
      BY <1>0, <2>1, <3>1 DEF CreatePairing
  <2>6. waiting'[p] # None => polls'[waiting'[p]] # None /\ polls'[waiting'[p]].request = p
    BY <1>0, <2>1, PollStays DEF CreatePairing, IInv, ClientSound
  <2>7. ClientSound(p)'
    BY <2>4, <2>5, <2>6 DEF ClientSound
  <2> QED
    BY <1>0, <1>1, <2>2, <2>3, <2>7
<1>3. CASE \E p \in Request : BeginPoll(p)
  <2>1. PICK p \in Request, k \in Poll :
          /\ polls[k] = None /\ client[p].state = "polling"
          /\ polls' = [polls EXCEPT ![k] = [request |-> p, stage |-> "arrived",
                         answer |-> None, source |-> None, token |-> None]]
          /\ waiting' = [waiting EXCEPT ![p] = k] /\ UNCHANGED client
    BY <1>3 DEF BeginPoll
  <2>2. [request |-> p, stage |-> "arrived", answer |-> None, source |-> None,
         token |-> None] \in PollRecord
    BY DEF PollRecord
  <2>3. polls'[waiting'[p]] # None /\ polls'[waiting'[p]].request = p
    BY <1>0, <2>1, <2>2
  <2>4. requests'[p] # None
    BY <2>1, RowStays DEF IInv, ClientSound
  <2>5. ClientSound(p)'
    BY <2>1, <2>3, <2>4 DEF ClientSound
  <2>6. client' = [client EXCEPT ![p] = client[p]] /\ client[p] \in ClientRecord
    BY <1>0, <2>1
  <2> QED
    BY <1>1, <2>1, <2>5, <2>6
<1>4. CASE \E p \in Request : ReceivePoll(p)
  <2>1. PICK p \in Request : ReceivePoll(p)
    BY <1>4
  <2>2. /\ client' = [client EXCEPT ![p] = client'[p]]
        /\ waiting' = [waiting EXCEPT ![p] = None]
    BY <1>0, <2>1 DEF ReceivePoll
  <2>3. PICK c \in ClientRecord : c = client'[p]
    BY <2>1, ReceivedIsSound
  <2> QED
    BY <1>1, <2>1, <2>2, <2>3, ReceivedIsSound
<1>5. CASE \E p \in Request : LosePoll(p)
  <2>1. PICK p \in Request : LosePoll(p)
    BY <1>5
  <2>2. \A q \in Request : /\ client'[q] = client[q]
                           /\ waiting'[q] = waiting[q] \/ waiting'[q] = None
    BY <1>0, <2>1 DEF LosePoll
  <2>3. \A q \in Request : ClientSound(q)'
    BY <2>2, MachineStaysSound
  <2> QED
    BY <1>0, <2>1, <2>3 DEF LosePoll
<1>6. CASE \E p \in Request : GiveUp(p)
  <2>1. PICK p \in Request : GiveUp(p)
    BY <1>6
  <2>2. [client[p] EXCEPT !.state = "failed"] \in ClientRecord
    BY <1>0 DEF ClientRecord
  <2>3. /\ client' = [client EXCEPT ![p] = [client[p] EXCEPT !.state = "failed"]]
        /\ waiting' = [waiting EXCEPT ![p] = None]
    BY <1>0, <2>1 DEF GiveUp
  <2>4. client'[p].state = "failed" /\ waiting'[p] = None
    BY <1>0, <2>3 DEF ClientRecord
  <2>5. requests'[p] # None
    BY <2>1, RowStays DEF GiveUp, IInv, ClientSound
  <2>6. ClientSound(p)'
    BY <2>4, <2>5 DEF ClientSound
  <2> QED
    BY <1>1, <2>2, <2>3, <2>6
<1>7. CASE UNCHANGED machine
  BY <1>0, <1>7, MachineStaysSound DEF machine
<1>8. CASE \/ \E p \in Request : RejectPairing(p)
           \/ \E k \in Poll : ReadPairing(k) \/ ExpirePolled(k) \/ IssueToken(k)
           \/ \E a \in Approval : \/ Approve(a) \/ RefuseApproval(a) \/ ExpireRefused(a)
                                  \/ \E p \in Request : BeginApproval(a, p)
           \/ ListPairings \/ (\E s \in DOMAIN sources : RevokeSource(s))
           \/ PassTime \/ UNCHANGED vars
  <2>1. UNCHANGED machine
    BY <1>8 DEF RejectPairing, ReadPairing, ExpirePolled, IssueToken, Approve,
                RefuseApproval, ExpireRefused, BeginApproval, ListPairings, RevokeSource,
                PassTime, vars, machine
  <2> QED
    BY <1>7, <2>1
<1> QED
  BY <1>2, <1>3, <1>4, <1>5, <1>6, <1>8 DEF Next

-----------------------------------------------------------------------------
(* The approvals, and the pairs that ever authenticated.                   *)
LEMMA ApprovalsStaySound ==
  ASSUME IInv, [Next]_vars, TableStep
  PROVE  /\ approvals' \in [Approval -> ApprovalRecord \cup {None}]
         /\ \A a \in Approval :
              approvals'[a] # None => requests'[approvals'[a].request] # None
<1> USE PairingAssumption
<1>0. /\ approvals \in [Approval -> ApprovalRecord \cup {None}] /\ now \in Nat
      /\ \A a \in Approval : approvals[a] # None =>
           approvals[a].request \in Request /\ requests[approvals[a].request] # None
  BY ApprovalTyped DEF IInv, TypeOK
<1>1. \A a \in Approval : approvals[a] # None => requests'[approvals[a].request] # None
  BY <1>0, RowStays
<1>2. ASSUME NEW a \in Approval, NEW h \in ApprovalRecord, requests[h.request] # None,
             approvals' = [approvals EXCEPT ![a] = h]
      PROVE  /\ approvals' \in [Approval -> ApprovalRecord \cup {None}]
             /\ \A b \in Approval :
                  approvals'[b] # None => requests'[approvals'[b].request] # None
  <2>1. requests'[h.request] # None
    BY <1>2, RowStays DEF ApprovalRecord
  <2> QED
    BY <1>0, <1>1, <1>2, <2>1
<1>3. CASE \E a \in Approval, p \in Request : BeginApproval(a, p)
  <2>1. PICK a \in Approval, p \in Request : BeginApproval(a, p)
    BY <1>3
  <2>2. [request |-> p, stage |-> "arrived", at |-> now] \in ApprovalRecord
    BY <1>0 DEF ApprovalRecord
  <2> QED
    BY <1>2, <2>1, <2>2 DEF BeginApproval
<1>4. CASE \E a \in Approval : Approve(a) \/ RefuseApproval(a) \/ ExpireRefused(a)
  <2>1. PICK a \in Approval, stage \in {"refused", "done"} :
          approvals[a] # None /\ Finish(a, stage)
    BY <1>4 DEF Approve, RefuseApproval, ExpireRefused, At
  <2>2. [approvals[a] EXCEPT !.stage = stage] \in ApprovalRecord
    BY <1>0, <2>1 DEF ApprovalRecord
  <2>3. [approvals[a] EXCEPT !.stage = stage].request = approvals[a].request
    BY <1>0, <2>1 DEF ApprovalRecord
  <2>4. approvals' = [approvals EXCEPT ![a] = [approvals[a] EXCEPT !.stage = stage]]
    BY <2>1 DEF Finish
  <2> QED
    BY <1>0, <1>2, <2>1, <2>2, <2>3, <2>4
<1>5. CASE \/ \E p \in Request : \/ CreatePairing(p) \/ BeginPoll(p) \/ ReceivePoll(p)
                                \/ LosePoll(p) \/ GiveUp(p) \/ RejectPairing(p)
           \/ \E k \in Poll : ReadPairing(k) \/ ExpirePolled(k) \/ IssueToken(k)
           \/ ListPairings \/ (\E s \in DOMAIN sources : RevokeSource(s))
           \/ PassTime \/ UNCHANGED vars
  <2>1. UNCHANGED approvals
    BY <1>5 DEF CreatePairing, BeginPoll, ReceivePoll, LosePoll, GiveUp, RejectPairing,
                ReadPairing, ExpirePolled, IssueToken, ListPairings, RevokeSource,
                PassTime, vars, handlers
  <2> QED
    BY <1>0, <1>1, <2>1
<1> QED
  BY <1>3, <1>4, <1>5 DEF Next

LEMMA WorkedStaysSound ==
  ASSUME IInv, [Next]_vars, TableStep
  PROVE  worked' \subseteq Source \X Poll /\ WorkedSound'
<1> USE PairingAssumption
<1>0. worked \subseteq Source \X Poll /\ WorkedSound
  BY DEF IInv, TypeOK
<1>1. ASSUME NEW w \in worked
      PROVE  Holds(w[1], w[2])'
  <2>1. PICK s \in Source, t \in Poll : w = <<s, t>>
    BY <1>0
  <2>2. Holds(s, t)'
    BY <1>0, <2>1, HoldsStays DEF WorkedSound
  <2> QED
    BY <2>1, <2>2
<1>2. CASE worked' = worked
  BY <1>0, <1>1, <1>2 DEF WorkedSound
<1>3. CASE worked' = worked \cup Works(sources')
  <2>1. ASSUME NEW w \in Works(sources')
        PROVE  /\ w \in Source \X Poll /\ w[1] \in DOMAIN sources'
               /\ sources'[w[1]].hash = w[2] /\ ~sources'[w[1]].revoked
    BY <2>1, TablesTyped DEF Works, Authenticates
  <2>2. \A w \in worked' : w \in Source \X Poll /\ Holds(w[1], w[2])'
    BY <1>0, <1>1, <1>3, <2>1 DEF Holds
  <2>3. ASSUME NEW v \in worked', NEW w \in worked', v[1] = w[1]
        PROVE  v = w
    <3>1. v = <<v[1], v[2]>> /\ w = <<w[1], w[2]>>
      BY <2>2
    <3>2. CASE v \in worked /\ w \in worked
      BY <1>0, <2>3, <3>2 DEF WorkedSound
    <3>3. CASE v \in Works(sources') \/ w \in Works(sources')
      BY <2>1, <2>2, <2>3, <3>1, <3>3 DEF Holds
    <3> QED
      BY <1>3, <3>2, <3>3
  <2> QED
    BY <2>2, <2>3 DEF WorkedSound
<1>4. CASE \E k \in Poll : IssueToken(k)
  BY <1>3, <1>4 DEF IssueToken
<1>5. CASE \/ \E p \in Request : \/ CreatePairing(p) \/ BeginPoll(p) \/ ReceivePoll(p)
                                \/ LosePoll(p) \/ GiveUp(p) \/ RejectPairing(p)
           \/ \E k \in Poll : ReadPairing(k) \/ ExpirePolled(k)
           \/ \E a \in Approval : \/ Approve(a) \/ RefuseApproval(a) \/ ExpireRefused(a)
                                  \/ \E p \in Request : BeginApproval(a, p)
           \/ ListPairings \/ (\E s \in DOMAIN sources : RevokeSource(s))
           \/ PassTime \/ UNCHANGED vars
  BY <1>2, <1>5 DEF CreatePairing, BeginPoll, ReceivePoll, LosePoll, GiveUp, RejectPairing,
                ReadPairing, ExpirePolled, Approve, RefuseApproval, ExpireRefused,
                BeginApproval, ListPairings, RevokeSource, PassTime, vars
<1> QED
  BY <1>4, <1>5 DEF Next

(* The clock only counts.                                                  *)
LEMMA NowTyped ==
  ASSUME IInv, [Next]_vars
  PROVE  now' \in Nat
<1>1. now \in Nat
  BY DEF IInv, TypeOK
<1>2. now' = now \/ now' = now + 1
  BY DEF Next, CreatePairing, BeginPoll, ReceivePoll, LosePoll, GiveUp, RejectPairing,
         ReadPairing, ExpirePolled, IssueToken, Approve, RefuseApproval, ExpireRefused,
         BeginApproval, ListPairings, RevokeSource, PassTime, vars
<1> QED
  BY <1>1, <1>2

-----------------------------------------------------------------------------
LEMMA InductiveInit == Init => IInv
<1> SUFFICES ASSUME Init PROVE IInv
  OBVIOUS
<1> USE PairingAssumption
<1>1. sources = Empty /\ DOMAIN sources = {}
  BY DEF Init, Empty
<1>2. client \in [Request -> ClientRecord]
  BY DEF Init, ClientRecord
<1>3. TypeOK
  BY <1>1, <1>2 DEF Init, TypeOK
<1>4. SourcesMatchRequests /\ WorkedSound
  BY <1>1 DEF Init, SourcesMatchRequests, HasSource, WorkedSound
<1>5. \A p \in Request : ClientSound(p)
  BY DEF Init, ClientSound
<1> QED
  BY <1>3, <1>4, <1>5 DEF Init, IInv

LEMMA InductiveStep == IInv /\ [Next]_vars => IInv'
<1> SUFFICES ASSUME IInv, [Next]_vars PROVE IInv'
  OBVIOUS
<1>1. TableStep /\ PollStep
  BY NextIsTableStep, NextIsPollStep
<1>2. TypeOK'
  BY <1>1, TablesTyped, PollsStaySound, MachinesStaySound, ApprovalsStaySound,
     WorkedStaysSound, NowTyped DEF TypeOK
<1> QED
  BY <1>1, <1>2, MatchStays, PollsStaySound, MachinesStaySound, ApprovalsStaySound,
     WorkedStaysSound DEF IInv

(* The inductive invariant of the pairing protocol.                        *)
LEMMA Inductive == Spec => []IInv
  BY InductiveInit, InductiveStep, PTL DEF Spec

(* Tables, handlers and machines keep their types in every run of the      *)
(* relay, whatever races: in particular no answer a machine acts on is     *)
(* missing.                                                                *)
THEOREM TypeCorrect == Spec => []TypeOK
<1>1. IInv => TypeOK
  BY DEF IInv
<1> QED
  BY <1>1, Inductive, PTL

(* approve_pairing: two approvals of a request, on one or two connections, *)
(* leave one source row; no row lacks its approved request.                *)
THEOREM ApprovedOnce == Spec => []EverySourceWasApprovedOnce
<1>1. ASSUME IInv
      PROVE  EverySourceWasApprovedOnce
  <2>1. ASSUME NEW s \in DOMAIN sources
        PROVE  Cardinality({p \in Request : /\ requests[p] # None
                                            /\ requests[p].status = "approved"
                                            /\ requests[p].source = s}) = 1
    <3>0. s # None
      BY <1>1, PairingAssumption DEF IInv, TypeOK
    <3>1. PICK q \in Request : HasSource(q) /\ SourceOf(q) = s
      BY <1>1 DEF IInv, SourcesMatchRequests
    <3>2. {p \in Request : /\ requests[p] # None /\ requests[p].status = "approved"
                           /\ requests[p].source = s} = {q}
      BY <1>1, <3>0, <3>1 DEF IInv, SourcesMatchRequests, HasSource, SourceOf
    <3> QED
      BY <3>2, FS_Singleton
  <2> QED
    BY <2>1 DEF EverySourceWasApprovedOnce
<1> QED
  BY <1>1, Inductive, PTL

(* poll_pairing: a machine told "rejected" or "expired" stays rejected.    *)
THEOREM NegativeAnswersHold == Spec => []NegativeAnswersAreDecided
<1>1. IInv => NegativeAnswersAreDecided
  BY DEF IInv, PollSound, NegativeAnswersAreDecided, At
<1> QED
  BY <1>1, Inductive, PTL

(* poll_pairing and revoke_source: only one token of a source ever works.  *)
THEOREM OneToken == Spec => []OneTokenPerSource
<1>1. ASSUME IInv
      PROVE  OneTokenPerSource
  <2>1. ASSUME NEW s \in DOMAIN sources
        PROVE  Cardinality({t \in Poll : <<s, t>> \in worked}) <= 1
    <3> DEFINE T == {t \in Poll : <<s, t>> \in worked}
    <3>1. \A t, u \in T : t = u
      BY <1>1 DEF IInv, WorkedSound
    <3> HIDE DEF T
    <3>2. T = {} => Cardinality(T) = 0
      BY FS_EmptySet
    <3>3. ASSUME T # {}
          PROVE  Cardinality(T) = 1
      <4>1. PICK t \in T : T = {t}
        BY <3>1, <3>3
      <4> QED
        BY <4>1, FS_Singleton
    <3>4. Cardinality(T) <= 1
      BY <3>2, <3>3
    <3> QED
      BY <3>4 DEF T
  <2> QED
    BY <2>1 DEF OneTokenPerSource
<1> QED
  BY <1>1, Inductive, PTL

(* A machine that stored its token is authenticated until it is revoked.   *)
THEOREM StoredTokenLasts == Spec => []StoredTokenWorks
<1>1. IInv => StoredTokenWorks
  BY DEF IInv, ClientSound, StoredTokenWorks, Holds, SourceOf
<1> QED
  BY <1>1, Inductive, PTL

(* No handler of the relay undoes a decision of another.                   *)
THEOREM DecisionsLast == Spec => DecisionsAreFinal
<1>1. ASSUME IInv, [Next]_vars
      PROVE  [\A p \in Request :
               requests[p] # None /\ ~Pending(p) => requests'[p] = requests[p]]_vars
  BY <1>1, NextIsTableStep, Decided
<1> QED
  BY <1>1, Inductive, PTL DEF Spec, DecisionsAreFinal
=============================================================================
