---------------------------- MODULE OwnerAccess ----------------------------
(***************************************************************************)
(* How the owner signs in to the relay: owner_password_middleware of       *)
(* shellbell-relay/src/main.rs (setting, resetting and checking the owner  *)
(* password) and the sessions of lib.rs (owner_auth, logout).  The         *)
(* middleware answers POST bootstrap and POST session itself, so lib.rs's  *)
(* bootstrap and create_session never run; a database they have left is an *)
(* initial state here.                                                     *)
(*                                                                         *)
(* Every statement of the middleware is a step of its own; only the        *)
(* password, the first-setup mark and the revocation of the sessions share *)
(* a transaction.  The new session is inserted after it.  A password is    *)
(* named by the setup request that chose it.                               *)
(***************************************************************************)
EXTENDS Naturals, FiniteSets

CONSTANTS None,
          TTL,           (* session_ttl                                     *)
          Limit,         (* OWNER_ATTEMPT_LIMIT                             *)
          Window,        (* OWNER_ATTEMPT_WINDOW                            *)
          MaxAttempts,   (* bound: setup and login requests                 *)
          MaxTime,       (* bound: last instant of the clock                *)
          MaxBoots       (* bound: starts of the relay                      *)

Attempt == 1 .. MaxAttempts
Legacy  == 0             (* a session from before there was a password      *)
Session == Attempt \cup {Legacy}
Kind    == {"bootstrap", "login"}

AttemptRecord ==
  [kind : Kind, reset : BOOLEAN,
   password : Attempt,                       (* chosen, or typed            *)
   stage : {"arrived", "looked", "verified", "stored", "answered", "refused", "limited"},
   bootstrapped : BOOLEAN,                   (* as the handler read it      *)
   at : Nat, boot : Nat, began : Nat]        (* observers of the arrival    *)

SessionRow == [expires : Nat, revoked : BOOLEAN, issued : Nat]

ASSUME OwnerAccessAssumption ==
  /\ {TTL, MaxAttempts, MaxTime, MaxBoots} \subseteq Nat /\ {Limit, Window} \subseteq Nat \ {0}
  /\ None \notin Attempt /\ None \notin Nat
  /\ None \notin AttemptRecord /\ None \notin SessionRow /\ None \notin Nat \X (0 .. Limit)

VARIABLES
  bootstrapped,  (* owner_state.bootstrapped_at is set                      *)
  password,      (* settings.owner_password_hash, or None                   *)
  sessions,      (* table owner_sessions, by the attempt that got it        *)
  attempts,      (* the handlers, None before the request                   *)
  windows,       (* the limiter's entries: <<start, count>>, or None        *)
  boots,         (* starts of the relay                                     *)
  now,
  changes        (* observer: how often the password has been stored        *)

owner    == <<bootstrapped, password, sessions, changes>>
relay    == <<attempts, windows, boots>>
vars     == <<owner, relay, now>>

TypeOK ==
  /\ bootstrapped \in BOOLEAN /\ password \in Attempt \cup {None}
  /\ sessions \in [Session -> SessionRow \cup {None}]
  /\ attempts \in [Attempt -> AttemptRecord \cup {None}]
  /\ windows \in [Kind -> (Nat \X (0 .. Limit)) \cup {None}]
  /\ boots \in 0 .. MaxBoots /\ now \in 0 .. MaxTime
  /\ changes \in Nat
  /\ password # None => bootstrapped

(* A new database, or one of the time when the bootstrap token signed in.  *)
Init ==
  /\ bootstrapped \in BOOLEAN /\ password = None
  /\ sessions = [s \in Session |-> IF bootstrapped /\ s = Legacy
                   THEN [expires |-> TTL, revoked |-> FALSE, issued |-> 0] ELSE None]
  /\ attempts = [k \in Attempt |-> None]
  /\ windows = [kind \in Kind |-> None]
  /\ boots = 0 /\ now = 0 /\ changes = 0

(***************************************************************************)
(* Starting: the handlers that ran are gone and the limiter is empty.      *)
(***************************************************************************)
Unfinished(a) == a # None /\ a.stage \notin {"answered", "refused", "limited"}

Boot ==
  /\ boots < MaxBoots /\ boots' = boots + 1
  /\ attempts' = [k \in Attempt |->
       IF Unfinished(attempts[k]) THEN [attempts[k] EXCEPT !.stage = "refused"] ELSE attempts[k]]
  /\ windows' = [kind \in Kind |-> None]
  /\ UNCHANGED <<owner, now>>

(***************************************************************************)
(* A request arrives.  One with a wrong token or an unfit password changes *)
(* nothing beyond the limiter's count, like one whose handler dies.        *)
(***************************************************************************)
Mut_Current(kind) ==
  IF windows[kind] = None \/ now - windows[kind][1] > 0 THEN <<now, 0>> ELSE windows[kind]

Current(kind) ==
  IF windows[kind] = None \/ now - windows[kind][1] >= Window THEN <<now, 0>> ELSE windows[kind]

Admitted(kind) == Current(kind)[2] < Limit

Count(kind) ==
  windows' = [windows EXCEPT ![kind] =
    IF Admitted(kind) THEN <<Current(kind)[1], Current(kind)[2] + 1>> ELSE Current(kind)]

IsNext(k) == attempts[k] = None /\ \A j \in 1 .. k - 1 : attempts[j] # None

Arrive(k, kind, reset, guess) ==
  /\ boots > 0 /\ IsNext(k)
  /\ Count(kind)
  /\ attempts' = [attempts EXCEPT ![k] =
       [kind |-> kind, reset |-> reset, password |-> guess,
        stage |-> IF Admitted(kind) THEN "arrived" ELSE "limited",
        bootstrapped |-> FALSE, at |-> now, boot |-> boots, began |-> changes]]
  /\ UNCHANGED <<owner, boots, now>>

(* Setting or resetting the password: the new password is named k.         *)
AskSetup(k) == \E reset \in BOOLEAN : Arrive(k, "bootstrap", reset, k)

(* The owner types a password that was chosen at some time.                *)
AskLogin(k) ==
  \E j \in 1 .. k - 1 : IsNext(k) /\ attempts[j].kind = "bootstrap" /\ Arrive(k, "login", FALSE, j)

At(k, kind, stage) == attempts[k] # None /\ attempts[k].kind = kind /\ attempts[k].stage = stage

Advance(k, stage) == attempts' = [attempts EXCEPT ![k].stage = stage]

LookBootstrapped(k) ==
  /\ At(k, "bootstrap", "arrived")
  /\ attempts' = [attempts EXCEPT ![k].stage = "looked", ![k].bootstrapped = bootstrapped]
  /\ UNCHANGED <<owner, windows, boots, now>>

Mut_LookPassword(k) ==
  /\ At(k, "bootstrap", "looked")
  /\ Advance(k, "verified")
  /\ UNCHANGED <<owner, windows, boots, now>>

LookPassword(k) ==
  /\ At(k, "bootstrap", "looked")
  /\ Advance(k, IF attempts[k].bootstrapped /\ password # None /\ ~attempts[k].reset
                THEN "refused" ELSE "verified")
  /\ UNCHANGED <<owner, windows, boots, now>>

Mut_Revoked(table) == table

Revoked(table) ==
  [s \in Session |-> IF table[s] = None THEN None ELSE [table[s] EXCEPT !.revoked = TRUE]]

Mut_StorePassword(k) ==
  /\ At(k, "bootstrap", "verified")
  /\ password' = attempts[k].password
  /\ sessions' = Revoked(sessions)
  /\ changes' = changes + 1
  /\ Advance(k, "stored")
  /\ UNCHANGED <<bootstrapped, windows, boots, now>>

StorePassword(k) ==
  /\ At(k, "bootstrap", "verified")
  /\ bootstrapped' = (bootstrapped \/ ~attempts[k].bootstrapped)
  /\ password' = attempts[k].password
  /\ sessions' = Revoked(sessions)
  /\ changes' = changes + 1
  /\ Advance(k, "stored")
  /\ UNCHANGED <<windows, boots, now>>

CheckPassword(k) ==
  /\ At(k, "login", "arrived")
  /\ Advance(k, IF attempts[k].password = password THEN "stored" ELSE "refused")
  /\ UNCHANGED <<owner, windows, boots, now>>

(* issue_owner_session, outside the transaction of StorePassword.          *)
IssueSession(k) ==
  /\ attempts[k] # None /\ attempts[k].stage = "stored"
  /\ sessions' = [sessions EXCEPT ![k] =
       [expires |-> now + TTL, revoked |-> FALSE, issued |-> changes]]
  /\ Advance(k, "answered")
  /\ UNCHANGED <<bootstrapped, password, changes, windows, boots, now>>

(***************************************************************************)
(* Sessions.                                                               *)
(***************************************************************************)
(* owner_auth                                                              *)
Valid(s) == sessions[s] # None /\ ~sessions[s].revoked /\ sessions[s].expires > now

(* logout names the row by id once it is authenticated.                    *)
Logout(s) ==
  /\ boots > 0 /\ Valid(s)
  /\ sessions' = [sessions EXCEPT ![s].revoked = TRUE]
  /\ UNCHANGED <<bootstrapped, password, changes, relay, now>>

Tick ==
  /\ now < MaxTime /\ now' = now + 1
  /\ UNCHANGED <<owner, relay>>

Handle(k) == LookBootstrapped(k) \/ LookPassword(k) \/ StorePassword(k)
             \/ CheckPassword(k) \/ IssueSession(k)

Next ==
  \/ Boot
  \/ \E k \in Attempt : AskSetup(k) \/ AskLogin(k) \/ Handle(k)
  \/ \E s \in Session : Logout(s)
  \/ Tick

Spec == Init /\ [][Next]_vars

(***************************************************************************)
(* Properties.                                                             *)
(***************************************************************************)

StoredBy(k) == IF attempts[k].kind = "bootstrap" THEN 1 ELSE 0

(* "Resetting revokes existing owner sessions": a session that is still    *)
(* valid was inserted after the password was last stored, and it was got   *)
(* with that password unless the request had begun before the password     *)
(* changed behind it (the middleware inserts the session after its checks, *)
(* outside the transaction that revokes).                                  *)
SessionsFollowThePassword ==
  \A s \in Session : Valid(s) =>
    /\ sessions[s].issued = changes
    /\ s \in Attempt /\ attempts[s].began + StoredBy(s) = changes =>
         attempts[s].password = password

(* A password that is set is replaced only on request: a setup without     *)
(* reset replaces one only if it began before that one was stored.         *)
PasswordIsReplacedOnRequest ==
  [][password # None /\ password' # password =>
       attempts[password'].reset \/ attempts[password'].began < changes]_vars

(* The attempts of a kind that this life of the relay has admitted from    *)
(* one instant on and before another.                                      *)
Admissions(kind, from, to) ==
  {k \in Attempt :
     /\ attempts[k] # None /\ attempts[k].kind = kind /\ attempts[k].boot = boots
     /\ attempts[k].stage # "limited"
     /\ from <= attempts[k].at /\ attempts[k].at < to}

(* While the relay runs, no span of one window admits twice Limit attempts *)
(* of a kind: a window starts with an attempt it admits.                   *)
AttemptsAreLimited ==
  \A kind \in Kind, t \in 0 .. now : Cardinality(Admissions(kind, t, t + Window)) < 2 * Limit

(* The strengthening that makes the two inductive: what a handler has read *)
(* still holds unless the password has been stored since it began, and the *)
(* password of a handler that got through is the current one as long as    *)
(* nobody stored another.                                                  *)
Passed(k) == attempts[k].stage \in {"stored", "answered"}

SetupSound(k) == attempts[k].kind = "bootstrap" =>
  /\ attempts[k].password = k
  /\ Passed(k) => attempts[k].began < changes
  /\ attempts[k].began = changes =>
       /\ attempts[k].stage = "looked" /\ ~attempts[k].bootstrapped => password = None
       /\ attempts[k].stage = "verified" /\ ~attempts[k].reset => password = None

AttemptSound(k) == attempts[k] # None =>
  /\ attempts[k].began <= changes
  /\ attempts[k].bootstrapped => bootstrapped
  /\ SetupSound(k)
  /\ Passed(k) /\ attempts[k].began + StoredBy(k) = changes => attempts[k].password = password

SessionSound(s) == sessions[s] # None =>
  /\ sessions[s].revoked \/ sessions[s].issued = changes
  /\ s \in Attempt => attempts[s] # None /\ attempts[s].stage = "answered"

IInv ==
  /\ TypeOK
  /\ \A k \in Attempt : AttemptSound(k)
  /\ \A s \in Session : SessionSound(s)
=============================================================================
