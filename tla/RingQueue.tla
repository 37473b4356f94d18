----------------------------- MODULE RingQueue -----------------------------
(***************************************************************************)
(* The durable ring_queue table of shellbell-local/src/store.rs and the    *)
(* statements the daemon runs against it.  A queue is a function whose     *)
(* domain is the set of event UUIDs that have a row.  SELECT ... ORDER BY  *)
(* created_at_ms LIMIT 1 may return any of several rows of the same age.   *)
(***************************************************************************)
EXTENDS Integers, Sequences, FiniteSetsExt, Functions

CONSTANTS RetryBase,     (* first retry delay, 5 s in the code              *)
          RetryCap,      (* largest delay before jitter, 15 min             *)
          MaxAttempts    (* bound: attempts are counted up to here          *)

ASSUME RingQueueAssumption == {RetryBase, RetryCap, MaxAttempts} \subseteq Nat

Row == [created : Int, attempts : Nat, next : Int,
        status : {"pending", "authorization_failure"}]

EmptyQueue == [e \in {} |-> {}]

Without(q, E) == Restrict(q, DOMAIN q \ E)

Inserted(q, e, row) ==
  [f \in DOMAIN q \cup {e} |-> IF f = e THEN row ELSE q[f]]

OldestOf(q, E) == {e \in E : \A f \in E : q[e].created <= q[f].created}

(* expire_old and prune_queue_in: rows created before the cutoff.          *)
Expired(q, wall, maxAge) == {e \in DOMAIN q : q[e].created < wall - maxAge}

(* enqueue_in evicts one row, the oldest, when the table is full.          *)
Victims(q, limit) ==
  IF Cardinality(DOMAIN q) >= limit
  THEN {{v} : v \in OldestOf(q, DOMAIN q)}
  ELSE {{}}

(* What one insertion of a transaction makes of the table and the counter  *)
(* of dropped events, t: the rows it evicts are counted, then it inserts.  *)
Mut_Enqueued(t, e, limit, wall) ==
  {[t EXCEPT !.rows = Inserted(Without(@, V), e,
      [created |-> wall, attempts |-> 0, next |-> wall, status |-> "pending"])] :
     V \in Victims(t.rows, limit)}

Enqueued(t, e, limit, wall) ==
  {[rows    |-> Inserted(Without(t.rows, V), e,
      [created |-> wall, attempts |-> 0, next |-> wall, status |-> "pending"]),
    dropped |-> t.dropped + Cardinality(V)] :
     V \in Victims(t.rows, limit)}

(* The rings of one transaction, one after the other.                      *)
EnqueuedAll(t, events, limit, wall) ==
  LET after[n \in 0 .. Len(events)] ==
        IF n = 0 THEN {t}
        ELSE UNION {Enqueued(p, events[n], limit, wall) : p \in after[n - 1]}
  IN  after[Len(events)]

(* next_due, after expiry: the oldest pending row whose time has come.     *)
DueRows(q, wall) == {e \in DOMAIN q : q[e].status = "pending" /\ q[e].next <= wall}

NextDue(q, wall) == OldestOf(q, DueRows(q, wall))

(* retry_delay: exponential from RetryBase, capped, with up to 25% jitter. *)
RetryDelay(attempts) ==
  LET exponent == IF attempts < 8 THEN attempts ELSE 8
      raw  == RetryBase * 2 ^ exponent
      base == IF raw < RetryCap THEN raw ELSE RetryCap
  IN  base .. base + base \div 4

Capped(n) == IF n < MaxAttempts THEN n ELSE MaxAttempts

(* mark_retry and mark_authorization_failure change a row only if the row  *)
(* is still there.                                                         *)
MarkRetry(q, e, next) ==
  IF e \notin DOMAIN q THEN q
  ELSE [q EXCEPT ![e].attempts = Capped(@ + 1), ![e].next = next]

MarkAuthorizationFailure(q, e) ==
  IF e \notin DOMAIN q THEN q
  ELSE [q EXCEPT ![e].attempts = Capped(@ + 1), ![e].status = "authorization_failure"]
=============================================================================
