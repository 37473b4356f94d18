------------------------------ MODULE Pairing ------------------------------
(***************************************************************************)
(* Pairing a machine with the relay: create_pairing, poll_pairing,         *)
(* list_pairings, approve_pairing, reject_pairing and revoke_source of     *)
(* shellbell-relay/src/lib.rs, and `shellbell pair` of shellbell-cli.      *)
(*                                                                         *)
(* poll_pairing reads the request and acts on what it read in a second     *)
(* statement; approve_pairing reads the clock before its transaction.  A   *)
(* client that gives up on a poll asks again while the first one may still *)
(* run.  Tokens are named by the poll that drew them.                      *)
(***************************************************************************)
EXTENDS Naturals, FiniteSets

CONSTANTS None,
          Request,       (* pairing ids                                     *)
          Source,        (* source UUIDs                                    *)
          TTL,           (* pairing_ttl                                     *)
          MaxTime,       (* bound: last instant of the clock                *)
          MaxPolls,      (* bound: polls                                    *)
          MaxApprovals   (* bound: approvals                                *)

Poll     == 1 .. MaxPolls
Approval == 1 .. MaxApprovals

Status == {"pending", "approved", "rejected", "expired"}

RequestRow == [status : Status, expires : Nat, source : Source \cup {None}]
SourceRow  == [hash : Poll \cup {None}, revoked : BOOLEAN]

PollRecord ==
  [request : Request, stage : {"arrived", "issuing", "expiring", "answered"},
   answer : Status \cup {None}, source : Source \cup {None}, token : Poll \cup {None}]

ApprovalRecord ==
  [request : Request, stage : {"arrived", "refused", "done"}, at : Nat]

ClientRecord ==
  [state : {"new", "polling", "paired", "rejected", "expired", "failed"},
   token : Poll \cup {None}]

ASSUME PairingAssumption ==
  /\ None \notin Source /\ None \notin Poll /\ None \notin Status
  /\ None \notin RequestRow /\ None \notin PollRecord /\ None \notin ApprovalRecord
  /\ {TTL, MaxTime, MaxPolls, MaxApprovals} \subseteq Nat

VARIABLES
  requests,    (* table pairing_requests, None before the row exists        *)
  sources,     (* table sources: its rows, by id                            *)
  polls,       (* handlers of poll_pairing, None before the poll            *)
  approvals,   (* handlers of approve_pairing                               *)
  client,      (* the machine that asks: what it has learned                *)
  waiting,     (* the poll each machine waits for, or None                  *)
  now,
  worked       (* observer: source and token pairs that ever authenticated  *)

tables   == <<requests, sources>>
handlers == <<polls, approvals>>
machine  == <<client, waiting>>
vars     == <<tables, handlers, machine, now, worked>>

Empty == [x \in {} |-> None]

Init ==
  /\ requests = [p \in Request |-> None] /\ sources = Empty
  /\ polls = [k \in Poll |-> None] /\ approvals = [a \in Approval |-> None]
  /\ client = [p \in Request |-> [state |-> "new", token |-> None]]
  /\ waiting = [p \in Request |-> None]
  /\ now = 0 /\ worked = {}

Pending(p) == requests[p] # None /\ requests[p].status = "pending"
Decide(p, status) == [requests EXCEPT ![p].status = status]

-----------------------------------------------------------------------------
(* The machine.                                                            *)
CreatePairing(p) ==
  /\ requests[p] = None
  /\ requests' = [requests EXCEPT ![p] =
                    [status |-> "pending", expires |-> now + TTL, source |-> None]]
  /\ client' = [client EXCEPT ![p].state = "polling"]
  /\ UNCHANGED <<sources, handlers, waiting, now, worked>>

(* pair asks until its deadline.                                           *)
BeginPoll(p) ==
  /\ client[p].state = "polling" /\ waiting[p] = None
  /\ now < requests[p].expires
  /\ \E k \in Poll :
       /\ polls[k] = None /\ \A j \in Poll : polls[j] = None => k <= j
       /\ polls' = [polls EXCEPT ![k] =
            [request |-> p, stage |-> "arrived", answer |-> None, source |-> None, token |-> None]]
       /\ waiting' = [waiting EXCEPT ![p] = k]
  /\ UNCHANGED <<tables, approvals, client, now, worked>>

Mut_Learned(poll) ==
  [state |-> IF poll.answer = "pending" THEN "polling" ELSE poll.answer, token |-> poll.token]

(* What pair makes of an answer; approved without a token is an error.     *)
Learned(poll) ==
  CASE poll.answer = "pending"  -> [state |-> "polling", token |-> None]
    [] poll.answer = "approved" ->
         [state |-> IF poll.token = None THEN "failed" ELSE "paired", token |-> poll.token]
    [] OTHER -> [state |-> poll.answer, token |-> None]

ReceivePoll(p) ==
  /\ waiting[p] # None /\ polls[waiting[p]].stage = "answered"
  /\ client' = [client EXCEPT ![p] = Learned(polls[waiting[p]])]
  /\ waiting' = [waiting EXCEPT ![p] = None]
  /\ UNCHANGED <<tables, handlers, now, worked>>

(* get_json_retry: a poll that timed out is sent again.                    *)
LosePoll(p) ==
  /\ waiting[p] # None
  /\ waiting' = [waiting EXCEPT ![p] = None]
  /\ UNCHANGED <<tables, handlers, client, now, worked>>

(* pair ends at its deadline, after three lost polls, or when interrupted. *)
GiveUp(p) ==
  /\ client[p].state = "polling" /\ waiting[p] = None
  /\ client' = [client EXCEPT ![p].state = "failed"]
  /\ UNCHANGED <<tables, handlers, waiting, now, worked>>

-----------------------------------------------------------------------------
(* poll_pairing.                                                           *)
At(h, stage) == h # None /\ h.stage = stage

(* The first statement: what is read decides what follows.                 *)
ReadPairing(k) ==
  /\ At(polls[k], "arrived")
  /\ LET r == requests[polls[k].request]
         stage == CASE r.status = "approved" -> "issuing"
                    [] r.status = "pending" /\ r.expires <= now -> "expiring"
                    [] OTHER -> "answered"
     IN  polls' = [polls EXCEPT ![k].stage = stage, ![k].answer = r.status,
                                ![k].source = r.source]
  /\ UNCHANGED <<tables, approvals, machine, now, worked>>

Mut_ExpirePolled(k) ==
  /\ At(polls[k], "expiring")
  /\ polls' = [polls EXCEPT ![k].stage = "answered", ![k].answer = "expired"]
  /\ UNCHANGED <<tables, approvals, machine, now, worked>>

ExpirePolled(k) ==
  /\ At(polls[k], "expiring")
  /\ LET p == polls[k].request
     IN  requests' = IF Pending(p) THEN Decide(p, "expired") ELSE requests
  /\ polls' = [polls EXCEPT ![k].stage = "answered", ![k].answer = "expired"]
  /\ UNCHANGED <<sources, approvals, machine, now, worked>>

Mut_Authenticates(row, token) == row.hash = token

(* source_auth: whether a token is that of a source.                       *)
Authenticates(row, token) == row.hash = token /\ ~row.revoked

Works(table) == {w \in (DOMAIN table) \X Poll : Authenticates(table[w[1]], w[2])}

Mut_IssueToken(k) ==
  /\ At(polls[k], "issuing")
  /\ sources' = [sources EXCEPT ![polls[k].source].hash = k]
  /\ polls' = [polls EXCEPT ![k].stage = "answered", ![k].token = k]
  /\ worked' = worked \cup Works(sources')
  /\ UNCHANGED <<requests, approvals, machine, now>>

(* The second statement: the first poll to find no hash draws the token.   *)
IssueToken(k) ==
  /\ At(polls[k], "issuing")
  /\ LET s == polls[k].source
         first == sources[s].hash = None
     IN  /\ sources' = IF first THEN [sources EXCEPT ![s].hash = k] ELSE sources
         /\ polls' = [polls EXCEPT ![k].stage = "answered",
                                   ![k].token = IF first THEN k ELSE None]
  /\ worked' = worked \cup Works(sources')
  /\ UNCHANGED <<requests, approvals, machine, now>>

-----------------------------------------------------------------------------
(* The owner.  approve_pairing reads the clock, then runs its transaction. *)
BeginApproval(a, p) ==
  /\ approvals[a] = None /\ \A b \in Approval : approvals[b] = None => a <= b
  /\ requests[p] # None
  /\ approvals' = [approvals EXCEPT ![a] = [request |-> p, stage |-> "arrived", at |-> now]]
  /\ UNCHANGED <<tables, polls, machine, now, worked>>

Approvable(a) ==
  LET p == approvals[a].request IN Pending(p) /\ requests[p].expires > approvals[a].at

Finish(a, stage) == approvals' = [approvals EXCEPT ![a].stage = stage]

Mut_Approve(a) ==
  /\ At(approvals[a], "arrived")
  /\ requests[approvals[a].request].expires > approvals[a].at
  /\ \E s \in Source \ DOMAIN sources :
       /\ sources' = [x \in DOMAIN sources \cup {s} |->
            IF x = s THEN [hash |-> None, revoked |-> FALSE] ELSE sources[x]]
       /\ requests' = [requests EXCEPT ![approvals[a].request].status = "approved",
                                       ![approvals[a].request].source = s]
  /\ Finish(a, "done")
  /\ UNCHANGED <<polls, machine, now, worked>>

Approve(a) ==
  /\ At(approvals[a], "arrived")
  /\ Approvable(a)
  /\ \E s \in Source \ DOMAIN sources :
       /\ sources' = [x \in DOMAIN sources \cup {s} |->
            IF x = s THEN [hash |-> None, revoked |-> FALSE] ELSE sources[x]]
       /\ requests' = [requests EXCEPT ![approvals[a].request].status = "approved",
                                       ![approvals[a].request].source = s]
  /\ Finish(a, "done")
  /\ UNCHANGED <<polls, machine, now, worked>>

(* The transaction is rolled back, ...                                     *)
RefuseApproval(a) ==
  /\ At(approvals[a], "arrived")
  /\ ~Approvable(a)
  /\ Finish(a, "refused")
  /\ UNCHANGED <<tables, polls, machine, now, worked>>

(* ... and a second statement marks the request as expired if it is.       *)
ExpireRefused(a) ==
  /\ At(approvals[a], "refused")
  /\ LET p == approvals[a].request
     IN  requests' = IF Pending(p) /\ requests[p].expires <= approvals[a].at
                     THEN Decide(p, "expired") ELSE requests
  /\ Finish(a, "done")
  /\ UNCHANGED <<sources, polls, machine, now, worked>>

RejectPairing(p) ==
  /\ Pending(p)
  /\ requests' = Decide(p, IF requests[p].expires <= now THEN "expired" ELSE "rejected")
  /\ UNCHANGED <<sources, handlers, machine, now, worked>>

(* list_pairings expires what is over before it lists the rest.            *)
ListPairings ==
  LET over == {p \in Request : Pending(p) /\ requests[p].expires <= now}
  IN  /\ over # {}
      /\ requests' = [p \in Request |->
           IF p \in over THEN [requests[p] EXCEPT !.status = "expired"] ELSE requests[p]]
      /\ UNCHANGED <<sources, handlers, machine, now, worked>>

(* revoke_source clears the hash: a later poll will draw a token again.    *)
RevokeSource(s) ==
  /\ ~sources[s].revoked
  /\ sources' = [sources EXCEPT ![s] = [hash |-> None, revoked |-> TRUE]]
  /\ UNCHANGED <<requests, handlers, machine, now, worked>>

PassTime ==
  /\ now < MaxTime
  /\ now' = now + 1
  /\ UNCHANGED <<tables, handlers, machine, worked>>

Next ==
  \/ \E p \in Request : \/ CreatePairing(p) \/ BeginPoll(p) \/ ReceivePoll(p)
                        \/ LosePoll(p) \/ GiveUp(p) \/ RejectPairing(p)
  \/ \E k \in Poll : ReadPairing(k) \/ ExpirePolled(k) \/ IssueToken(k)
  \/ \E a \in Approval : \/ Approve(a) \/ RefuseApproval(a) \/ ExpireRefused(a)
                         \/ \E p \in Request : BeginApproval(a, p)
  \/ ListPairings
  \/ \E s \in DOMAIN sources : RevokeSource(s)
  \/ PassTime

Spec == Init /\ [][Next]_vars

-----------------------------------------------------------------------------
(* Types of tables, handlers and machines.                                 *)
TypeOK ==
  /\ requests \in [Request -> RequestRow \cup {None}]
  /\ DOMAIN sources \subseteq Source /\ \A s \in DOMAIN sources : sources[s] \in SourceRow
  /\ polls \in [Poll -> PollRecord \cup {None}]
  /\ approvals \in [Approval -> ApprovalRecord \cup {None}]
  /\ client \in [Request -> ClientRecord]
  /\ waiting \in [Request -> Poll \cup {None}]
  /\ now \in Nat
  /\ worked \subseteq Source \X Poll

(* Concurrent approvals have one winner: every source row is the source of *)
(* exactly one approved request, and a losing transaction leaves no row.   *)
EverySourceWasApprovedOnce == \A s \in DOMAIN sources :
  Cardinality({p \in Request : /\ requests[p] # None
                               /\ requests[p].status = "approved"
                               /\ requests[p].source = s}) = 1

(* An approval, a rejection or an expiry is never taken back, whatever the *)
(* handlers that read the request before do with what they read.           *)
DecisionsAreFinal ==
  [][\A p \in Request : requests[p] # None /\ ~Pending(p) => requests'[p] = requests[p]]_vars

(* A machine that was told its request had expired or been rejected cannot *)
(* be approved afterwards: the request is decided in the table.  It may be *)
(* approved already: a poll that read it pending answers "expired" also    *)
(* when an approval has won in between.                                    *)
NegativeAnswersAreDecided == \A k \in Poll :
  At(polls[k], "answered") /\ polls[k].answer \in {"rejected", "expired"}
    => ~Pending(polls[k].request)

(* However many polls race, are lost, or come after the revocation, only   *)
(* one token of a source ever authenticates.                               *)
OneTokenPerSource == \A s \in DOMAIN sources :
  Cardinality({t \in Poll : <<s, t>> \in worked}) <= 1

(* The token a machine stored keeps authenticating until the owner revokes *)
(* the source: no late poll replaces it.                                   *)
StoredTokenWorks == \A p \in Request : client[p].state = "paired" =>
  LET row == sources[requests[p].source]
  IN  row.hash = client[p].token \/ row.revoked

-----------------------------------------------------------------------------
(* What makes the invariants above inductive.                              *)
SourceOf(p)  == requests[p].source
HasSource(p) == requests[p] # None /\ SourceOf(p) # None

(* t is the token of s, or s is revoked: no step takes this back.          *)
Holds(s, t) == s \in DOMAIN sources /\ (sources[s].hash = t \/ sources[s].revoked)

(* Approved requests and source rows correspond one to one.                *)
SourcesMatchRequests ==
  /\ \A p \in Request : requests[p] # None =>
       (requests[p].status = "approved" <=> SourceOf(p) # None)
  /\ \A p \in Request : HasSource(p) => SourceOf(p) \in DOMAIN sources
  /\ \A s \in DOMAIN sources : \E p \in Request : HasSource(p) /\ SourceOf(p) = s
  /\ \A p, q \in Request : HasSource(p) /\ HasSource(q) /\ SourceOf(p) = SourceOf(q) => p = q

(* What a handler of poll_pairing has read or answered still holds.        *)
PollSound(k) ==
  LET p == polls[k].request IN
  /\ requests[p] # None
  /\ polls[k].stage = "issuing" => HasSource(p) /\ polls[k].source = SourceOf(p)
  /\ polls[k].stage = "answered" => polls[k].answer # None
  /\ polls[k].stage = "issuing" => polls[k].answer = "approved"
  /\ polls[k].stage = "answered" /\ polls[k].answer \in {"rejected", "expired"} => ~Pending(p)
  /\ polls[k].token # None => HasSource(p) /\ Holds(SourceOf(p), polls[k].token)

(* What a machine knows, or is about to be told.                           *)
ClientSound(p) ==
  /\ client[p].state # "new" => requests[p] # None
  /\ waiting[p] # None => polls[waiting[p]] # None /\ polls[waiting[p]].request = p
  /\ client[p].state = "paired" =>
       client[p].token # None /\ HasSource(p) /\ Holds(SourceOf(p), client[p].token)

WorkedSound ==
  /\ \A w \in worked : Holds(w[1], w[2])
  /\ \A v, w \in worked : v[1] = w[1] => v = w

IInv ==
  /\ TypeOK
  /\ SourcesMatchRequests
  /\ \A k \in Poll : polls[k] # None => PollSound(k)
  /\ \A p \in Request : ClientSound(p)
  /\ \A a \in Approval : approvals[a] # None => requests[approvals[a].request] # None
  /\ WorkedSound
=============================================================================
