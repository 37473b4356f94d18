------------------------- MODULE OwnerAccessProofs -------------------------
(***************************************************************************)
(* Theorems about OwnerAccess, for every number of requests, every limit,  *)
(* window and lifetime.  A step changes one handler, or stores a password; *)
(* whatever the other handlers have read is kept by the first and is       *)
(* outdated, and known to be, after the second.                            *)
(***************************************************************************)
EXTENDS OwnerAccess, FiniteSetTheorems, TLAPS

LEMMA AttemptTyped ==
  ASSUME TypeOK, NEW k \in Attempt, attempts[k] # None
  PROVE  attempts[k] \in AttemptRecord
  BY DEF TypeOK

LEMMA RowTyped ==
  ASSUME TypeOK, NEW s \in Session, sessions[s] # None
  PROVE  sessions[s] \in SessionRow
  BY DEF TypeOK

LEMMA Naming == /\ Attempt \subseteq Nat /\ Attempt \subseteq Session
                /\ Legacy \in Session /\ Legacy \notin Attempt
  BY OwnerAccessAssumption DEF Attempt, Session, Legacy

LEMMA InitTyped == Init => TypeOK
<1> SUFFICES ASSUME Init PROVE TypeOK
  OBVIOUS
<1>1. sessions \in [Session -> SessionRow \cup {None}]
  BY OwnerAccessAssumption DEF Init, SessionRow
<1>2. boots \in 0 .. MaxBoots /\ now \in 0 .. MaxTime /\ changes \in Nat
  BY OwnerAccessAssumption DEF Init
<1>3. windows \in [Kind -> (Nat \X (0 .. Limit)) \cup {None}]
  BY DEF Init
<1>4. attempts \in [Attempt -> AttemptRecord \cup {None}]
  BY DEF Init
<1> QED
  BY <1>1, <1>2, <1>3, <1>4 DEF Init, TypeOK

LEMMA CurrentTyped ==
  ASSUME TypeOK, NEW kind \in Kind
  PROVE  Current(kind) \in Nat \X (0 .. Limit)
<1>1. now \in Nat /\ Limit \in Nat
  BY OwnerAccessAssumption DEF TypeOK
<1>2. windows[kind] # None => windows[kind] \in Nat \X (0 .. Limit)
  BY DEF TypeOK
<1> QED
  BY <1>1, <1>2 DEF Current

LEMMA CountTyped ==
  ASSUME TypeOK, NEW kind \in Kind, Count(kind)
  PROVE  windows' \in [Kind -> (Nat \X (0 .. Limit)) \cup {None}]
<1>1. Current(kind) \in Nat \X (0 .. Limit)
  BY CurrentTyped
<1>2. Admitted(kind) => <<Current(kind)[1], Current(kind)[2] + 1>> \in Nat \X (0 .. Limit)
  <2>1. Limit \in Nat
    BY OwnerAccessAssumption
  <2>2. Current(kind)[1] \in Nat /\ Current(kind)[2] \in 0 .. Limit
    BY <1>1
  <2> QED
    BY <2>1, <2>2 DEF Admitted
<1> QED
  BY <1>1, <1>2 DEF Count, TypeOK

LEMMA ArriveTyped ==
  ASSUME TypeOK, NEW k \in Attempt, NEW kind \in Kind, NEW reset \in BOOLEAN,
         NEW guess \in Attempt, Arrive(k, kind, reset, guess)
  PROVE  TypeOK'
<1>1. windows' \in [Kind -> (Nat \X (0 .. Limit)) \cup {None}]
  BY CountTyped DEF Arrive
<1>2. [kind |-> kind, reset |-> reset, password |-> guess,
       stage |-> IF Admitted(kind) THEN "arrived" ELSE "limited",
       bootstrapped |-> FALSE, at |-> now, boot |-> boots, began |-> changes] \in AttemptRecord
  BY OwnerAccessAssumption DEF TypeOK, AttemptRecord
<1>3. attempts' \in [Attempt -> AttemptRecord \cup {None}]
  BY <1>2 DEF Arrive, TypeOK
<1> QED
  BY <1>1, <1>3 DEF Arrive, TypeOK, owner

-----------------------------------------------------------------------------
(* A handler that goes on: stage, and what it read of bootstrapped_at.     *)
Step(k, stage, seen) ==
  attempts' = [attempts EXCEPT ![k].stage = stage, ![k].bootstrapped = seen]

LEMMA AdvanceIsStep ==
  ASSUME TypeOK, NEW k \in Attempt, attempts[k] # None, NEW stage, Advance(k, stage)
  PROVE  Step(k, stage, attempts[k].bootstrapped)
<1>1. attempts[k] \in AttemptRecord
  BY AttemptTyped
<1>2. [attempts[k] EXCEPT !.stage = stage]
        = [attempts[k] EXCEPT !.stage = stage, !.bootstrapped = attempts[k].bootstrapped]
  BY <1>1 DEF AttemptRecord
<1> QED
  BY <1>2 DEF Advance, Step, TypeOK

Stage == {"arrived", "looked", "verified", "stored", "answered", "refused", "limited"}

LEMMA StepKeeps ==
  ASSUME TypeOK, NEW k \in Attempt, attempts[k] # None,
         NEW stage \in Stage, NEW seen \in BOOLEAN, Step(k, stage, seen)
  PROVE  /\ attempts' \in [Attempt -> AttemptRecord \cup {None}]
         /\ attempts'[k] # None /\ attempts'[k].stage = stage /\ attempts'[k].bootstrapped = seen
         /\ attempts'[k].kind = attempts[k].kind /\ attempts'[k].reset = attempts[k].reset
         /\ attempts'[k].password = attempts[k].password /\ attempts'[k].began = attempts[k].began
         /\ attempts'[k].at = attempts[k].at /\ attempts'[k].boot = attempts[k].boot
         /\ \A j \in Attempt : j # k => attempts'[j] = attempts[j]
<1>1. attempts[k] \in AttemptRecord
  BY AttemptTyped
<1>2. [attempts[k] EXCEPT !.stage = stage, !.bootstrapped = seen] \in AttemptRecord
  BY <1>1 DEF AttemptRecord, Stage
<1>3. attempts'[k] = [attempts[k] EXCEPT !.stage = stage, !.bootstrapped = seen]
  BY DEF Step, TypeOK
<1>4. attempts' \in [Attempt -> AttemptRecord \cup {None}]
  BY <1>2 DEF Step, TypeOK
<1>5. \A j \in Attempt : j # k => attempts'[j] = attempts[j]
  BY DEF Step, TypeOK
<1>6. attempts'[k] # None
  BY <1>2, <1>3, OwnerAccessAssumption
<1> QED
  BY <1>1, <1>3, <1>4, <1>5, <1>6 DEF AttemptRecord

-----------------------------------------------------------------------------
(* Soundness of the handlers and rows that a step leaves alone.            *)
LEMMA OthersSound ==
  ASSUME NEW k \in Attempt, AttemptSound(k),
         changes' = changes, password' = password, attempts'[k] = attempts[k],
         bootstrapped => bootstrapped'
  PROVE  AttemptSound(k)'
  BY DEF AttemptSound, SetupSound, Passed, StoredBy

(* After StorePassword nothing that was read before counts any more.       *)
LEMMA OutdatedSound ==
  ASSUME TypeOK, NEW k \in Attempt, AttemptSound(k),
         changes' = changes + 1, attempts'[k] = attempts[k], bootstrapped => bootstrapped'
  PROVE  AttemptSound(k)'
<1> SUFFICES ASSUME attempts[k] # None
             PROVE  AttemptSound(k)'
  BY DEF AttemptSound
<1>1. attempts[k] \in AttemptRecord /\ changes \in Nat
  BY AttemptTyped DEF TypeOK
<1>2. attempts[k].began \in Nat /\ attempts[k].kind \in Kind
  BY <1>1 DEF AttemptRecord
<1>3. attempts[k].began <= changes /\ SetupSound(k)
  BY DEF AttemptSound
<1>4. Passed(k) => attempts[k].began + StoredBy(k) <= changes
  BY <1>1, <1>2, <1>3 DEF SetupSound, StoredBy
<1>5. SetupSound(k)'
  BY <1>1, <1>2, <1>3 DEF SetupSound, Passed
<1>6. Passed(k)' = Passed(k) /\ StoredBy(k)' = StoredBy(k) /\ StoredBy(k) \in Nat
  BY DEF Passed, StoredBy
<1> QED
  BY <1>1, <1>2, <1>3, <1>4, <1>5, <1>6 DEF AttemptSound

LEMMA RowSound ==
  ASSUME NEW s \in Session, SessionSound(s), changes' = changes, sessions'[s] = sessions[s],
         s \in Attempt /\ attempts[s] # None /\ attempts[s].stage = "answered"
           => attempts'[s] # None /\ attempts'[s].stage = "answered"
  PROVE  SessionSound(s)'
  BY DEF SessionSound

(* A handler k goes from one stage to another without touching the owner's *)
(* tables: what is left to show is that k is sound where it arrives.       *)
LEMMA HandlerStep ==
  ASSUME IInv, NEW k \in Attempt, attempts[k] # None, attempts[k].stage # "answered",
         NEW stage \in Stage, NEW seen \in BOOLEAN, Step(k, stage, seen),
         UNCHANGED <<owner, windows, boots, now>>, AttemptSound(k)'
  PROVE  IInv'
<1>1. TypeOK
  BY DEF IInv
<1>2. TypeOK'
  BY <1>1, StepKeeps DEF TypeOK, owner
<1>3. \A j \in Attempt : AttemptSound(j)'
  <2>1. ASSUME NEW j \in Attempt, j # k PROVE AttemptSound(j)'
    BY <1>1, <2>1, StepKeeps, OthersSound DEF IInv, owner
  <2> QED
    BY <2>1
<1>4. \A s \in Session : SessionSound(s)'
  BY <1>1, StepKeeps, RowSound DEF IInv, owner
<1> QED
  BY <1>2, <1>3, <1>4 DEF IInv

-----------------------------------------------------------------------------
LEMMA InitSound == Init => IInv
<1> SUFFICES ASSUME Init PROVE IInv
  OBVIOUS
<1>1. TypeOK
  BY InitTyped
<1>2. \A k \in Attempt : AttemptSound(k)
  BY DEF Init, AttemptSound
<1>3. \A s \in Session : SessionSound(s)
  BY Naming DEF Init, SessionSound
<1> QED
  BY <1>1, <1>2, <1>3 DEF IInv

LEMMA BootSound == IInv /\ Boot => IInv'
<1> SUFFICES ASSUME IInv, Boot PROVE IInv'
  OBVIOUS
<1>1. TypeOK
  BY DEF IInv
<1>2. \A k \in Attempt : \/ attempts'[k] = attempts[k]
                         \/ /\ Unfinished(attempts[k])
                            /\ attempts'[k] = [attempts[k] EXCEPT !.stage = "refused"]
  BY <1>1 DEF Boot
<1>3. ASSUME NEW k \in Attempt, Unfinished(attempts[k]),
             attempts'[k] = [attempts[k] EXCEPT !.stage = "refused"]
      PROVE  attempts'[k] \in AttemptRecord /\ AttemptSound(k)'
  <2>1. attempts[k] \in AttemptRecord
    BY <1>1, <1>3, AttemptTyped DEF Unfinished
  <2>2. attempts'[k] \in AttemptRecord /\ attempts'[k].stage = "refused"
        /\ attempts'[k].kind = attempts[k].kind /\ attempts'[k].password = attempts[k].password
        /\ attempts'[k].began = attempts[k].began
        /\ attempts'[k].bootstrapped = attempts[k].bootstrapped
    BY <2>1, <1>3 DEF AttemptRecord
  <2>3. AttemptSound(k) /\ attempts[k] # None /\ changes' = changes /\ bootstrapped' = bootstrapped
    BY <1>3 DEF IInv, Unfinished, Boot, owner
  <2> QED
    BY <2>2, <2>3 DEF AttemptSound, SetupSound, Passed
<1>4. \A k \in Attempt : AttemptSound(k)'
  BY <1>2, <1>3, OthersSound DEF IInv, Boot, owner
<1>5. TypeOK'
  <2>1. attempts' \in [Attempt -> AttemptRecord \cup {None}]
    <3>1. DOMAIN attempts' = Attempt /\ attempts' = [k \in Attempt |-> attempts'[k]]
      BY DEF Boot
    <3>2. \A k \in Attempt : attempts'[k] \in AttemptRecord \cup {None}
      BY <1>1, <1>2, <1>3 DEF TypeOK
    <3> QED
      BY <3>1, <3>2
  <2>2. boots' \in 0 .. MaxBoots
    BY <1>1, OwnerAccessAssumption DEF Boot, TypeOK
  <2>3. windows' \in [Kind -> (Nat \X (0 .. Limit)) \cup {None}]
    BY DEF Boot
  <2> QED
    BY <1>1, <2>1, <2>2, <2>3 DEF Boot, TypeOK, owner
<1>6. \A s \in Session : SessionSound(s)'
  <2> SUFFICES ASSUME NEW s \in Session PROVE SessionSound(s)'
    OBVIOUS
  <2>1. s \in Attempt /\ attempts[s] # None /\ attempts[s].stage = "answered"
          => attempts'[s] # None /\ attempts'[s].stage = "answered"
    BY <1>2 DEF Unfinished
  <2> QED
    BY <2>1, RowSound DEF IInv, Boot, owner
<1> QED
  BY <1>4, <1>5, <1>6 DEF IInv

LEMMA ArriveSound ==
  ASSUME IInv, NEW k \in Attempt, NEW kind \in Kind, NEW reset \in BOOLEAN, NEW guess \in Attempt,
         kind = "bootstrap" => guess = k, Arrive(k, kind, reset, guess)
  PROVE  IInv'
<1>1. TypeOK
  BY DEF IInv
<1>2. TypeOK'
  BY <1>1, ArriveTyped
<1>3. /\ attempts'[k].stage \in {"arrived", "limited"}
      /\ attempts'[k].kind = kind /\ attempts'[k].password = guess
      /\ attempts'[k].began = changes /\ changes \in Nat
      /\ \A j \in Attempt : j # k => attempts'[j] = attempts[j]
      /\ attempts[k] = None
  BY <1>1 DEF Arrive, TypeOK, IsNext
<1>4. AttemptSound(k)'
  BY <1>3 DEF AttemptSound, SetupSound, Passed, Arrive, owner
<1>5. \A j \in Attempt : AttemptSound(j)'
  <2>1. ASSUME NEW j \in Attempt, j # k PROVE AttemptSound(j)'
    BY <1>3, <2>1, OthersSound DEF IInv, Arrive, owner
  <2> QED
    BY <1>4, <2>1
<1>6. \A s \in Session : SessionSound(s)'
  BY <1>3, RowSound DEF IInv, Arrive, owner
<1> QED
  BY <1>2, <1>5, <1>6 DEF IInv

LEMMA AskSetupSound == ASSUME IInv, NEW k \in Attempt, AskSetup(k) PROVE IInv'
<1>1. PICK reset \in BOOLEAN : Arrive(k, "bootstrap", reset, k)
  BY DEF AskSetup
<1> QED
  BY <1>1, ArriveSound DEF Kind

LEMMA AskLoginSound == ASSUME IInv, NEW k \in Attempt, AskLogin(k) PROVE IInv'
<1>1. PICK j \in 1 .. k - 1 : Arrive(k, "login", FALSE, j)
  BY DEF AskLogin
<1>2. j \in Attempt
  BY OwnerAccessAssumption DEF Attempt
<1> QED
  BY <1>1, <1>2, ArriveSound DEF Kind

LEMMA LookBootstrappedSound ==
  ASSUME IInv, NEW k \in Attempt, LookBootstrapped(k)
  PROVE  IInv'
<1>1. /\ TypeOK /\ attempts[k] # None /\ attempts[k].stage = "arrived"
      /\ attempts[k].kind = "bootstrap" /\ AttemptSound(k)
  BY DEF IInv, LookBootstrapped, At
<1>2. Step(k, "looked", bootstrapped) /\ UNCHANGED <<owner, windows, boots, now>>
      /\ bootstrapped \in BOOLEAN /\ "looked" \in Stage
  BY <1>1 DEF LookBootstrapped, Step, TypeOK, Stage
<1>3. AttemptSound(k)'
  BY <1>1, <1>2, StepKeeps DEF AttemptSound, SetupSound, Passed, TypeOK, owner
<1> QED
  BY <1>1, <1>2, <1>3, HandlerStep

LEMMA LookPasswordSound ==
  ASSUME IInv, NEW k \in Attempt, LookPassword(k)
  PROVE  IInv'
<1> DEFINE stage == IF attempts[k].bootstrapped /\ password # None /\ ~attempts[k].reset
                    THEN "refused" ELSE "verified"
<1>1. /\ TypeOK /\ attempts[k] # None /\ attempts[k].stage = "looked"
      /\ attempts[k].kind = "bootstrap" /\ AttemptSound(k)
  BY DEF IInv, LookPassword, At
<1>2. attempts[k].bootstrapped \in BOOLEAN
  BY <1>1, AttemptTyped DEF AttemptRecord
<1>3. stage \in Stage /\ stage \in {"refused", "verified"}
  BY DEF Stage
<1>4. Step(k, stage, attempts[k].bootstrapped) /\ UNCHANGED <<owner, windows, boots, now>>
  BY <1>1, AdvanceIsStep DEF LookPassword
<1>5. /\ attempts'[k].stage = stage /\ attempts'[k].bootstrapped = attempts[k].bootstrapped
      /\ attempts'[k].kind = attempts[k].kind /\ attempts'[k].reset = attempts[k].reset
      /\ attempts'[k].password = attempts[k].password /\ attempts'[k].began = attempts[k].began
  BY <1>1, <1>2, <1>3, <1>4, StepKeeps
<1>6. SetupSound(k)'
  BY <1>1, <1>2, <1>4, <1>5 DEF AttemptSound, SetupSound, Passed, owner
<1>7. AttemptSound(k)'
  BY <1>1, <1>4, <1>5, <1>6 DEF AttemptSound, Passed, owner
<1> QED
  BY <1>1, <1>2, <1>3, <1>4, <1>7, HandlerStep

LEMMA CheckPasswordSound ==
  ASSUME IInv, NEW k \in Attempt, CheckPassword(k)
  PROVE  IInv'
<1> DEFINE stage == IF attempts[k].password = password THEN "stored" ELSE "refused"
<1>1. /\ TypeOK /\ attempts[k] # None /\ attempts[k].stage = "arrived"
      /\ attempts[k].kind = "login" /\ AttemptSound(k)
  BY DEF IInv, CheckPassword, At
<1>2. attempts[k].bootstrapped \in BOOLEAN
  BY <1>1, AttemptTyped DEF AttemptRecord
<1>3. stage \in Stage /\ stage \in {"refused", "stored"}
  BY DEF Stage
<1>4. Step(k, stage, attempts[k].bootstrapped) /\ UNCHANGED <<owner, windows, boots, now>>
  BY <1>1, AdvanceIsStep DEF CheckPassword
<1>5. /\ attempts'[k].stage = stage /\ attempts'[k].kind = "login"
      /\ attempts'[k].bootstrapped = attempts[k].bootstrapped
      /\ attempts'[k].password = attempts[k].password /\ attempts'[k].began = attempts[k].began
  BY <1>1, <1>2, <1>3, <1>4, StepKeeps
<1>6. AttemptSound(k)'
  BY <1>1, <1>4, <1>5 DEF AttemptSound, SetupSound, Passed, owner
<1> QED
  BY <1>1, <1>2, <1>3, <1>4, <1>6, HandlerStep

LEMMA StorePasswordSound ==
  ASSUME IInv, NEW k \in Attempt, StorePassword(k)
  PROVE  IInv'
<1>1. /\ TypeOK /\ attempts[k] # None /\ attempts[k].stage = "verified"
      /\ attempts[k].kind = "bootstrap" /\ AttemptSound(k)
  BY DEF IInv, StorePassword, At
<1>2. attempts[k] \in AttemptRecord
  BY <1>1, AttemptTyped
<1>3. attempts[k].bootstrapped \in BOOLEAN /\ attempts[k].password \in Attempt
      /\ attempts[k].began \in Nat /\ changes \in Nat /\ "stored" \in Stage
  BY <1>1, <1>2 DEF AttemptRecord, TypeOK, Stage
<1>4. Step(k, "stored", attempts[k].bootstrapped)
  BY <1>1, AdvanceIsStep DEF StorePassword
<1>5. /\ attempts' \in [Attempt -> AttemptRecord \cup {None}]
      /\ attempts'[k] # None /\ attempts'[k].stage = "stored" /\ attempts'[k].kind = "bootstrap"
      /\ attempts'[k].password = attempts[k].password /\ attempts'[k].began = attempts[k].began
      /\ \A j \in Attempt : j # k => attempts'[j] = attempts[j]
  BY <1>1, <1>3, <1>4, StepKeeps
<1>6. bootstrapped'
  <2>1. bootstrapped' = (bootstrapped \/ ~attempts[k].bootstrapped)
    BY DEF StorePassword
  <2> QED
    BY <1>1, <2>1 DEF AttemptSound
<1>7. ASSUME NEW s \in Session
      PROVE  /\ sessions'[s] \in SessionRow \cup {None}
             /\ sessions'[s] # None => sessions[s] # None /\ sessions'[s].revoked
  <2>1. sessions'[s] = IF sessions[s] = None THEN None ELSE [sessions[s] EXCEPT !.revoked = TRUE]
    BY DEF StorePassword, Revoked
  <2>2. sessions[s] # None => sessions[s] \in SessionRow
    BY <1>1, RowTyped
  <2> QED
    BY <2>1, <2>2, OwnerAccessAssumption DEF SessionRow
<1>8. TypeOK'
  <2>1. sessions' \in [Session -> SessionRow \cup {None}]
    BY <1>7 DEF StorePassword, Revoked
  <2>2. /\ password' \in Attempt \cup {None} /\ changes' \in Nat
        /\ bootstrapped' \in BOOLEAN
    BY <1>3 DEF StorePassword
  <2> QED
    BY <1>1, <1>5, <1>6, <2>1, <2>2 DEF StorePassword, TypeOK
<1>9. AttemptSound(k)'
  BY <1>1, <1>3, <1>5, <1>6 DEF AttemptSound, SetupSound, Passed, StoredBy, StorePassword
<1>10. \A j \in Attempt : AttemptSound(j)'
  <2>1. ASSUME NEW j \in Attempt, j # k PROVE AttemptSound(j)'
    BY <1>1, <1>5, <1>6, <2>1, OutdatedSound DEF IInv, StorePassword
  <2> QED
    BY <1>9, <2>1
<1>11. \A s \in Session : SessionSound(s)'
  <2> SUFFICES ASSUME NEW s \in Session, sessions'[s] # None PROVE SessionSound(s)'
    BY DEF SessionSound
  <2>1. s \in Attempt => attempts[s] # None /\ attempts[s].stage = "answered"
    BY <1>7 DEF IInv, SessionSound
  <2>2. s # k
    BY <1>1, <2>1
  <2> QED
    BY <1>5, <1>7, <2>1, <2>2 DEF SessionSound
<1> QED
  BY <1>8, <1>10, <1>11 DEF IInv

LEMMA IssueSessionSound ==
  ASSUME IInv, NEW k \in Attempt, IssueSession(k)
  PROVE  IInv'
<1> DEFINE row == [expires |-> now + TTL, revoked |-> FALSE, issued |-> changes]
<1>1. /\ TypeOK /\ attempts[k] # None /\ attempts[k].stage = "stored" /\ AttemptSound(k)
      /\ k \in Session
  BY Naming DEF IInv, IssueSession
<1>2. attempts[k] \in AttemptRecord
  BY <1>1, AttemptTyped
<1>3. attempts[k].bootstrapped \in BOOLEAN /\ "answered" \in Stage
  BY <1>2 DEF AttemptRecord, Stage
<1>4. Step(k, "answered", attempts[k].bootstrapped)
  BY <1>1, AdvanceIsStep DEF IssueSession
<1>5. /\ attempts' \in [Attempt -> AttemptRecord \cup {None}]
      /\ attempts'[k] # None /\ attempts'[k].stage = "answered"
      /\ attempts'[k].bootstrapped = attempts[k].bootstrapped
      /\ attempts'[k].kind = attempts[k].kind /\ attempts'[k].reset = attempts[k].reset
      /\ attempts'[k].password = attempts[k].password /\ attempts'[k].began = attempts[k].began
      /\ \A j \in Attempt : j # k => attempts'[j] = attempts[j]
  BY <1>1, <1>3, <1>4, StepKeeps
<1>6. row \in SessionRow
  BY <1>1, OwnerAccessAssumption DEF TypeOK, SessionRow
<1>7. /\ sessions' \in [Session -> SessionRow \cup {None}] /\ sessions'[k] = row
      /\ \A s \in Session : s # k => sessions'[s] = sessions[s]
  BY <1>1, <1>6 DEF IssueSession, TypeOK
<1>8. TypeOK'
  BY <1>1, <1>5, <1>7 DEF IssueSession, TypeOK
<1>9. AttemptSound(k)'
  BY <1>1, <1>5 DEF AttemptSound, SetupSound, Passed, StoredBy, IssueSession
<1>10. \A j \in Attempt : AttemptSound(j)'
  <2>1. ASSUME NEW j \in Attempt, j # k PROVE AttemptSound(j)'
    BY <1>5, <2>1, OthersSound DEF IInv, IssueSession
  <2> QED
    BY <1>9, <2>1
<1>11. \A s \in Session : SessionSound(s)'
  <2>1. ASSUME NEW s \in Session, s # k PROVE SessionSound(s)'
    BY <1>5, <1>7, <2>1, RowSound DEF IInv, IssueSession
  <2>2. SessionSound(k)'
    BY <1>5, <1>7 DEF SessionSound, IssueSession
  <2> QED
    BY <2>1, <2>2
<1> QED
  BY <1>8, <1>10, <1>11 DEF IInv

LEMMA LogoutSound ==
  ASSUME IInv, NEW s \in Session, Logout(s)
  PROVE  IInv'
<1>1. TypeOK /\ sessions[s] # None
  BY DEF IInv, Logout, Valid
<1>2. sessions[s] \in SessionRow
  BY <1>1, RowTyped
<1>3. /\ sessions'[s] = [sessions[s] EXCEPT !.revoked = TRUE]
      /\ \A r \in Session : r # s => sessions'[r] = sessions[r]
      /\ DOMAIN sessions' = Session
  BY <1>1 DEF Logout, TypeOK
<1>4. sessions'[s] \in SessionRow /\ sessions'[s].revoked
  BY <1>2, <1>3 DEF SessionRow
<1>5. sessions' \in [Session -> SessionRow \cup {None}]
  BY <1>1, <1>3, <1>4 DEF Logout, TypeOK
<1>6. TypeOK'
  BY <1>1, <1>5 DEF Logout, TypeOK, relay
<1>7. \A k \in Attempt : AttemptSound(k)'
  BY OthersSound DEF IInv, Logout, relay
<1>8. \A r \in Session : SessionSound(r)'
  <2>1. ASSUME NEW r \in Session, r # s PROVE SessionSound(r)'
    BY <1>3, <2>1, RowSound DEF IInv, Logout, relay
  <2>2. SessionSound(s)'
    BY <1>1, <1>4 DEF IInv, SessionSound, Logout, relay
  <2> QED
    BY <2>1, <2>2
<1> QED
  BY <1>6, <1>7, <1>8 DEF IInv

LEMMA ClockSound ==
  ASSUME IInv, UNCHANGED <<owner, relay>>, now' \in 0 .. MaxTime
  PROVE  IInv'
<1>1. TypeOK'
  BY DEF IInv, TypeOK, owner, relay
<1>2. \A k \in Attempt : AttemptSound(k)'
  BY OthersSound DEF IInv, owner, relay
<1>3. \A s \in Session : SessionSound(s)'
  BY RowSound DEF IInv, owner, relay
<1> QED
  BY <1>1, <1>2, <1>3 DEF IInv

LEMMA NextSound == IInv /\ [Next]_vars => IInv'
<1> SUFFICES ASSUME IInv, [Next]_vars PROVE IInv'
  OBVIOUS
<1>1. CASE Boot
  BY <1>1, BootSound
<1>2. ASSUME NEW k \in Attempt, AskSetup(k) \/ AskLogin(k) \/ Handle(k) PROVE IInv'
  BY <1>2, AskSetupSound, AskLoginSound, LookBootstrappedSound, LookPasswordSound,
     StorePasswordSound, CheckPasswordSound, IssueSessionSound DEF Handle
<1>3. ASSUME NEW s \in Session, Logout(s) PROVE IInv'
  BY <1>3, LogoutSound
<1>4. CASE Tick
  <2>1. now' \in 0 .. MaxTime
    BY <1>4, OwnerAccessAssumption DEF Tick, IInv, TypeOK
  <2> QED
    BY <1>4, <2>1, ClockSound DEF Tick
<1>5. CASE UNCHANGED vars
  BY <1>5, ClockSound DEF vars, IInv, TypeOK
<1> QED
  BY <1>1, <1>2, <1>3, <1>4, <1>5 DEF Next

LEMMA Inductive == Spec => []IInv
  BY InitSound, NextSound, PTL DEF Spec

-----------------------------------------------------------------------------
(* The relay's tables, handlers and limiter keep their types, and a        *)
(* password is only ever there on a bootstrapped relay.                    *)
THEOREM TypeCorrect == Spec => []TypeOK
<1>1. IInv => TypeOK
  BY DEF IInv
<1> QED
  BY Inductive, <1>1, PTL

(* A session that is still valid was inserted after the password was last  *)
(* stored, and its owner knew that password unless the password changed    *)
(* behind the request (middleware and owner_auth).                         *)
THEOREM SessionsFollow == Spec => []SessionsFollowThePassword
<1>1. IInv => SessionsFollowThePassword
  <2> SUFFICES ASSUME IInv, NEW s \in Session, Valid(s)
               PROVE  /\ sessions[s].issued = changes
                      /\ s \in Attempt /\ attempts[s].began + StoredBy(s) = changes
                           => attempts[s].password = password
    BY DEF SessionsFollowThePassword
  <2>1. SessionSound(s) /\ sessions[s] # None /\ ~sessions[s].revoked
    BY DEF IInv, Valid
  <2>2. s \in Attempt => attempts[s] # None /\ Passed(s) /\ AttemptSound(s)
    BY <2>1 DEF IInv, SessionSound, Passed
  <2> QED
    BY <2>1, <2>2 DEF SessionSound, AttemptSound
<1> QED
  BY Inductive, <1>1, PTL

(* A setup without reset replaces a password only if it began before that  *)
(* password was stored (the check-then-act of the middleware).             *)
THEOREM ReplacedOnRequest == Spec => PasswordIsReplacedOnRequest
<1>1. IInv /\ [Next]_vars =>
        [password # None /\ password' # password =>
           attempts[password'].reset \/ attempts[password'].began < changes]_vars
  <2> SUFFICES ASSUME IInv, Next, password # None, password' # password
               PROVE  attempts[password'].reset \/ attempts[password'].began < changes
    BY DEF vars, owner
  <2>1. PICK k \in Attempt : StorePassword(k)
    BY DEF Next, Boot, AskSetup, AskLogin, Arrive, Handle, LookBootstrapped, LookPassword,
           CheckPassword, IssueSession, Logout, Tick, owner, relay
  <2>2. /\ TypeOK /\ attempts[k] # None /\ attempts[k].stage = "verified"
        /\ attempts[k].kind = "bootstrap" /\ AttemptSound(k) /\ password' = attempts[k].password
    BY <2>1 DEF IInv, StorePassword, At
  <2>3. password' = k /\ attempts[k].began <= changes
        /\ (attempts[k].began = changes /\ ~attempts[k].reset => password = None)
    BY <2>2 DEF AttemptSound, SetupSound
  <2>4. attempts[k].began \in Nat /\ changes \in Nat
    BY <2>2, AttemptTyped DEF AttemptRecord, TypeOK
  <2> QED
    BY <2>3, <2>4
<1> QED
  BY Inductive, <1>1, PTL DEF Spec, PasswordIsReplacedOnRequest

-----------------------------------------------------------------------------
(* The limiter.  S is the set of admitted attempts of one kind, a their    *)
(* records, n the time and w the entry of the kind.                        *)
Within(S, a, from, to) == {k \in S : from <= a[k].at /\ a[k].at < to}

Size(S, a, from, to) == Cardinality(Within(S, a, from, to))

Timed(S, a, n) == S \subseteq Attempt /\ \A k \in S : a[k].at \in Nat /\ a[k].at <= n

Fits(S, a, n, w) ==
  IF w = None THEN S = {}
  ELSE /\ w[1] <= n /\ w[2] > 0
       /\ \A k \in S : a[k].at < w[1] + Window
       /\ Size(S, a, w[1], n + 1) <= w[2]
       /\ Size(S, a, w[1] + 1, n + 1) < w[2]
       /\ \A t \in 0 .. w[1] : w[1] < t + Window => Size(S, a, t, w[1]) < Limit

Spread(S, a, n) == \A t \in 0 .. n : Size(S, a, t, t + Window) < 2 * Limit

(* Attempt is finite, so its subsets can be counted.                       *)
LEMMA Counts ==
  ASSUME NEW T, T \subseteq Attempt, NEW S, S \subseteq T
  PROVE  /\ IsFiniteSet(S) /\ Cardinality(S) \in Nat /\ Cardinality(T) \in Nat
         /\ Cardinality(S) <= Cardinality(T)
<1>1. IsFiniteSet(Attempt)
  BY OwnerAccessAssumption, FS_Interval DEF Attempt
<1>2. IsFiniteSet(T)
  BY <1>1, FS_Subset
<1> QED
  BY <1>2, FS_Subset, FS_CardinalityType

LEMMA CountsOneMore ==
  ASSUME NEW T, T \subseteq Attempt, NEW k \in Attempt, NEW S, S \subseteq T \cup {k}
  PROVE  Cardinality(S) <= Cardinality(T) + 1
<1>1. IsFiniteSet(T) /\ Cardinality(T) \in Nat /\ Cardinality(S) \in Nat
  BY Counts
<1>2. Cardinality(S) <= Cardinality(T \cup {k}) /\ Cardinality(T \cup {k}) \in Nat
  BY Counts
<1>3. Cardinality(T \cup {k}) = IF k \in T THEN Cardinality(T) ELSE Cardinality(T) + 1
  BY <1>1, FS_AddElement
<1> QED
  BY <1>1, <1>2, <1>3

LEMMA CountsBoth ==
  ASSUME NEW T, T \subseteq Attempt, NEW U, U \subseteq Attempt, NEW S, S \subseteq T \cup U
  PROVE  Cardinality(S) <= Cardinality(T) + Cardinality(U)
<1>1. /\ IsFiniteSet(T) /\ IsFiniteSet(U) /\ Cardinality(T) \in Nat /\ Cardinality(U) \in Nat
      /\ Cardinality(S) \in Nat /\ Cardinality(T \cap U) \in Nat
  BY Counts
<1>2. Cardinality(S) <= Cardinality(T \cup U) /\ Cardinality(T \cup U) \in Nat
  BY Counts
<1>3. Cardinality(T \cup U) = Cardinality(T) + Cardinality(U) - Cardinality(T \cap U)
  BY <1>1, FS_Union
<1> QED
  BY <1>1, <1>2, <1>3

LEMMA SizeTyped ==
  ASSUME NEW S, S \subseteq Attempt, NEW a, NEW from, NEW to
  PROVE  /\ Size(S, a, from, to) \in Nat
         /\ Within(S, a, from, to) = {} => Size(S, a, from, to) = 0
<1>1. Within(S, a, from, to) \subseteq Attempt
  BY DEF Within
<1>2. Size(S, a, from, to) \in Nat
  BY <1>1, Counts DEF Size
<1>3. Within(S, a, from, to) = {} => Size(S, a, from, to) = 0
  BY FS_EmptySet, Zenon DEF Size
<1> QED
  BY <1>2, <1>3

LEMMA Shorter ==
  ASSUME NEW S, S \subseteq Attempt, NEW a, NEW from, NEW to, NEW first, NEW last,
         Within(S, a, from, to) \subseteq Within(S, a, first, last)
  PROVE  Size(S, a, from, to) <= Size(S, a, first, last)
<1>1. Within(S, a, first, last) \subseteq Attempt
  BY DEF Within
<1> QED
  BY <1>1, Counts DEF Size

(* One more attempt at the present time changes only spans that reach it.  *)
LEMMA OneMore ==
  ASSUME NEW S, NEW a, NEW n \in Nat, Timed(S, a, n), NEW k \in Attempt, k \notin S,
         NEW R, R = S \cup {k}, NEW b, b[k].at = n, \A j \in S : b[j].at = a[j].at,
         NEW from \in Nat, NEW to \in Nat
  PROVE  /\ Size(R, b, from, to) \in Nat /\ Size(S, a, from, to) \in Nat
         /\ Size(R, b, from, to) <= Size(S, a, from, to) + 1
         /\ to <= n \/ n < from => Size(R, b, from, to) = Size(S, a, from, to)
<1>1. Within(S, a, from, to) \subseteq Attempt /\ S \subseteq Attempt /\ R \subseteq Attempt
  BY DEF Timed, Within
<1>2. Within(R, b, from, to) \subseteq Within(S, a, from, to) \cup {k}
  BY DEF Within
<1>3. to <= n \/ n < from => Within(R, b, from, to) = Within(S, a, from, to)
  BY DEF Within
<1>4. Size(R, b, from, to) <= Size(S, a, from, to) + 1
  BY <1>1, <1>2, CountsOneMore DEF Size
<1>5. to <= n \/ n < from => Size(R, b, from, to) = Size(S, a, from, to)
  BY <1>3, Zenon DEF Size
<1> QED
  BY <1>1, <1>4, <1>5, SizeTyped

(* An attempt that opens a window: every other one came before, and those  *)
(* less than a window ago exclude the one that opened the window before.   *)
LEMMA WindowOpens ==
  ASSUME NEW S, NEW a, NEW n \in Nat, Timed(S, a, n),
         NEW w \in (Nat \X (0 .. Limit)) \cup {None}, Fits(S, a, n, w), Spread(S, a, n),
         w = None \/ n - w[1] >= Window, NEW k \in Attempt, k \notin S,
         NEW R, R = S \cup {k}, NEW b, b[k].at = n, \A j \in S : b[j].at = a[j].at
  PROVE  Fits(R, b, n, <<n, 1>>) /\ Spread(R, b, n)
<1>1. /\ Window \in Nat /\ Limit \in Nat /\ Window > 0 /\ Limit > 0
      /\ n + 1 \in Nat /\ n + Window \in Nat /\ S \subseteq Attempt /\ R \subseteq Attempt
      /\ w # None => /\ w[1] \in Nat /\ w[1] + 1 \in Nat /\ n >= w[1] + Window
                     /\ w[2] \in Nat /\ w[2] <= Limit
  BY OwnerAccessAssumption DEF Timed
<1>2. \A j \in S : a[j].at \in Nat /\ a[j].at < n
  <2>1. CASE w = None
    BY <2>1 DEF Fits
  <2>2. CASE w # None
    BY <1>1, <2>2 DEF Fits, Timed
  <2> QED
    BY <2>1, <2>2
<1>3. ASSUME NEW t \in Nat, t <= n, n < t + Window
      PROVE  Size(S, a, t, n) < Limit
  <2>1. CASE w = None
    <3>1. Within(S, a, t, n) = {}
      BY <2>1 DEF Fits, Within
    <3> QED
      BY <1>1, <3>1, SizeTyped
  <2>2. CASE w # None
    <3>1. w[1] + 1 <= t
      BY <1>1, <1>3, <2>2
    <3>2. Within(S, a, t, n) \subseteq Within(S, a, w[1] + 1, n + 1)
      BY <1>1, <1>2, <2>2, <3>1 DEF Within
    <3>3. /\ Size(S, a, t, n) <= Size(S, a, w[1] + 1, n + 1)
          /\ Size(S, a, t, n) \in Nat /\ Size(S, a, w[1] + 1, n + 1) \in Nat
      BY <1>1, <3>2, Shorter, SizeTyped
    <3>4. Size(S, a, w[1] + 1, n + 1) < w[2]
      BY <2>2 DEF Fits
    <3> QED
      BY <1>1, <2>2, <3>3, <3>4
  <2> QED
    BY <2>1, <2>2
<1>4. ASSUME NEW from \in Nat, NEW to \in Nat
      PROVE  /\ Size(R, b, from, to) \in Nat /\ Size(S, a, from, to) \in Nat
             /\ Size(R, b, from, to) <= Size(S, a, from, to) + 1
             /\ to <= n \/ n < from => Size(R, b, from, to) = Size(S, a, from, to)
  BY OneMore
<1>5. Fits(R, b, n, <<n, 1>>)
  <2>1. \A j \in R : b[j].at < n + Window
    BY <1>1, <1>2
  <2>2. Size(R, b, n, n + 1) <= 1
    <3>1. Within(S, a, n, n + 1) = {}
      BY <1>2 DEF Within
    <3>2. Size(S, a, n, n + 1) = 0
      BY <1>1, <3>1, SizeTyped
    <3>3. Size(R, b, n, n + 1) <= Size(S, a, n, n + 1) + 1 /\ Size(R, b, n, n + 1) \in Nat
      BY <1>1, <1>4
    <3> QED
      BY <3>2, <3>3
  <2>3. Size(R, b, n + 1, n + 1) < 1
    <3>1. Within(R, b, n + 1, n + 1) = {}
      BY <1>1, <1>2 DEF Within
    <3>2. Size(R, b, n + 1, n + 1) = 0
      BY <1>1, <3>1, SizeTyped
    <3> QED
      BY <3>2
  <2>4. ASSUME NEW t \in 0 .. n, n < t + Window PROVE Size(R, b, t, n) < Limit
    <3>1. t \in Nat /\ t <= n
      BY <2>4
    <3>2. Size(R, b, t, n) = Size(S, a, t, n)
      BY <3>1, OneMore
    <3> QED
      BY <1>3, <2>4, <3>1, <3>2
  <2>5. <<n, 1>> # None /\ <<n, 1>>[1] = n /\ <<n, 1>>[2] = 1
    BY <1>1, OwnerAccessAssumption
  <2> QED
    BY <1>1, <2>1, <2>2, <2>3, <2>4, <2>5 DEF Fits
<1>6. ASSUME NEW t \in 0 .. n PROVE Size(R, b, t, t + Window) < 2 * Limit
  <2>1. t \in Nat /\ t <= n /\ t + Window \in Nat
    BY <1>1, <1>6
  <2>2. CASE t + Window <= n
    <3>1. Size(R, b, t, t + Window) = Size(S, a, t, t + Window)
      BY <1>4, <2>1, <2>2
    <3> QED
      BY <3>1 DEF Spread
  <2>3. CASE n < t + Window
    <3>1. Within(R, b, t, t + Window) \subseteq Within(S, a, t, n) \cup {k}
      BY <1>1, <1>2, <2>1, <2>3 DEF Within
    <3>2. Within(S, a, t, n) \subseteq Attempt
      BY DEF Within, Timed
    <3>3. Size(R, b, t, t + Window) <= Size(S, a, t, n) + 1
      BY <3>1, <3>2, CountsOneMore DEF Size
    <3>4. Size(R, b, t, t + Window) \in Nat /\ Size(S, a, t, n) \in Nat
      BY <1>1, SizeTyped
    <3>5. Size(S, a, t, n) < Limit
      BY <1>3, <2>1, <2>3
    <3> QED
      BY <1>1, <3>3, <3>4, <3>5
  <2> QED
    BY <1>1, <2>1, <2>2, <2>3
<1> QED
  BY <1>5, <1>6 DEF Spread

(* An attempt that an open window still admits.                            *)
LEMMA WindowCounts ==
  ASSUME NEW S, NEW a, NEW n \in Nat, Timed(S, a, n),
         NEW o \in Nat, NEW c \in Nat, Fits(S, a, n, <<o, c>>), Spread(S, a, n),
         n - o < Window, c < Limit, NEW k \in Attempt, k \notin S,
         NEW R, R = S \cup {k}, NEW b, b[k].at = n, \A j \in S : b[j].at = a[j].at
  PROVE  Fits(R, b, n, <<o, c + 1>>) /\ Spread(R, b, n)
<1>1. /\ Window \in Nat /\ Limit \in Nat /\ Window > 0 /\ Limit > 0
      /\ n + 1 \in Nat /\ o + 1 \in Nat /\ n < o + Window
      /\ S \subseteq Attempt /\ R \subseteq Attempt
  BY OwnerAccessAssumption DEF Timed
<1>2. \A d \in 0 .. Limit : <<o, d>> # None /\ <<o, d>>[1] = o /\ <<o, d>>[2] = d
  BY <1>1, OwnerAccessAssumption
<1>3. c \in 0 .. Limit /\ c + 1 \in 0 .. Limit
  BY <1>1
<1>4. /\ o <= n /\ c > 0
      /\ \A j \in S : a[j].at < o + Window
      /\ Size(S, a, o, n + 1) <= c
      /\ Size(S, a, o + 1, n + 1) < c
      /\ \A t \in 0 .. o : o < t + Window => Size(S, a, t, o) < Limit
  BY <1>2, <1>3 DEF Fits
<1>5. ASSUME NEW from \in Nat, NEW to \in Nat
      PROVE  /\ Size(R, b, from, to) \in Nat /\ Size(S, a, from, to) \in Nat
             /\ Size(R, b, from, to) <= Size(S, a, from, to) + 1
             /\ to <= n \/ n < from => Size(R, b, from, to) = Size(S, a, from, to)
  BY OneMore
<1>6. Size(R, b, o, n + 1) <= c + 1 /\ Size(R, b, o, n + 1) \in Nat
  <2>1. /\ Size(R, b, o, n + 1) \in Nat /\ Size(S, a, o, n + 1) \in Nat
        /\ Size(R, b, o, n + 1) <= Size(S, a, o, n + 1) + 1
    BY <1>1, <1>5
  <2> QED
    BY <1>4, <2>1
<1>7. Fits(R, b, n, <<o, c + 1>>)
  <2>1. \A j \in R : b[j].at < o + Window
    BY <1>1, <1>4
  <2>2. Size(R, b, o + 1, n + 1) < c + 1
    <3>1. /\ Size(R, b, o + 1, n + 1) \in Nat /\ Size(S, a, o + 1, n + 1) \in Nat
          /\ Size(R, b, o + 1, n + 1) <= Size(S, a, o + 1, n + 1) + 1
      BY <1>1, <1>5
    <3> QED
      BY <1>4, <3>1
  <2>3. ASSUME NEW t \in 0 .. o, o < t + Window PROVE Size(R, b, t, o) < Limit
    <3>1. t \in Nat /\ o <= n
      BY <1>4, <2>3
    <3>2. Size(R, b, t, o) = Size(S, a, t, o)
      BY <3>1, OneMore
    <3> QED
      BY <1>4, <2>3, <3>2
  <2> QED
    BY <1>2, <1>3, <1>4, <1>6, <2>1, <2>2, <2>3 DEF Fits
<1>8. ASSUME NEW t \in 0 .. n PROVE Size(R, b, t, t + Window) < 2 * Limit
  <2>1. t \in Nat /\ t <= n /\ t + Window \in Nat
    BY <1>1, <1>8
  <2>2. CASE t + Window <= o
    <3>1. Size(R, b, t, t + Window) = Size(S, a, t, t + Window)
      <4>1. t + Window <= n
        BY <1>1, <1>4, <2>1, <2>2
      <4> QED
        BY <2>1, <4>1, OneMore
    <3> QED
      BY <3>1 DEF Spread
  <2>3. CASE t <= o /\ o < t + Window
    <3>1. \A j \in R : b[j].at \in Nat /\ b[j].at <= n
                      /\ (b[j].at < o => j \in S /\ b[j].at = a[j].at)
      BY <1>1, <1>4 DEF Timed
    <3>2. /\ Within(S, a, t, o) \subseteq Attempt
          /\ Within(R, b, o, n + 1) \subseteq Attempt
      BY <1>1 DEF Within
    <3>3. Within(R, b, t, t + Window) \subseteq Within(S, a, t, o) \cup Within(R, b, o, n + 1)
      BY <2>1, <3>1 DEF Within
    <3>4. Size(R, b, t, t + Window) <= Size(S, a, t, o) + Size(R, b, o, n + 1)
      BY <3>2, <3>3, CountsBoth DEF Size
    <3>5. Size(S, a, t, o) < Limit
      BY <1>4, <2>1, <2>3
    <3>6. Size(R, b, t, t + Window) \in Nat /\ Size(S, a, t, o) \in Nat
      BY <1>1, SizeTyped
    <3> QED
      BY <1>1, <1>6, <3>4, <3>5, <3>6
  <2>4. CASE o < t
    <3>1. Within(R, b, t, t + Window) \subseteq Within(R, b, o, n + 1)
      <4>1. \A j \in R : b[j].at \in Nat /\ b[j].at <= n
        BY <1>1 DEF Timed
      <4> QED
        BY <2>1, <2>4, <4>1 DEF Within
    <3>2. Size(R, b, t, t + Window) <= Size(R, b, o, n + 1) /\ Size(R, b, t, t + Window) \in Nat
      BY <1>1, <3>1, Shorter, SizeTyped
    <3> QED
      BY <1>1, <1>6, <3>2
  <2> QED
    BY <1>1, <2>1, <2>2, <2>3, <2>4
<1> QED
  BY <1>7, <1>8 DEF Spread

(* Time passes.                                                            *)
LEMMA WindowAges ==
  ASSUME NEW S, NEW a, NEW n \in Nat, Timed(S, a, n), NEW w,
         w # None => w[1] \in Nat, Fits(S, a, n, w), Spread(S, a, n)
  PROVE  Fits(S, a, n + 1, w) /\ Spread(S, a, n + 1)
<1>1. Window \in Nat /\ Limit \in Nat /\ Limit > 0 /\ S \subseteq Attempt /\ (n + 1) + 1 \in Nat
  BY OwnerAccessAssumption DEF Timed
<1>2. ASSUME NEW from PROVE Size(S, a, from, (n + 1) + 1) = Size(S, a, from, n + 1)
  <2>1. Within(S, a, from, (n + 1) + 1) = Within(S, a, from, n + 1)
    BY DEF Within, Timed
  <2> QED
    BY <2>1, Zenon DEF Size
<1>3. Fits(S, a, n + 1, w)
  <2>1. CASE w = None
    BY <2>1 DEF Fits
  <2>2. CASE w # None
    <3>1. w[1] <= n + 1
      BY <2>2 DEF Fits
    <3> QED
      BY <1>2, <2>2, <3>1 DEF Fits
  <2> QED
    BY <2>1, <2>2
<1>4. Size(S, a, n + 1, (n + 1) + Window) < 2 * Limit
  <2>1. Within(S, a, n + 1, (n + 1) + Window) = {}
    BY DEF Within, Timed
  <2> QED
    BY <1>1, <2>1, SizeTyped
<1> QED
  BY <1>3, <1>4 DEF Spread

-----------------------------------------------------------------------------
(* The attempts of a kind that this life of the relay has admitted; the    *)
(* invariant of the limiter is that each window fits them.                 *)
Taken(kind) == {k \in Attempt : /\ attempts[k] # None /\ attempts[k].kind = kind
                                /\ attempts[k].boot = boots /\ attempts[k].stage # "limited"}

Recent == \A k \in Attempt : attempts[k] # None =>
            attempts[k].at <= now /\ attempts[k].boot <= boots

LimiterSound ==
  /\ Recent
  /\ \A kind \in Kind : /\ Fits(Taken(kind), attempts, now, windows[kind])
                        /\ Spread(Taken(kind), attempts, now)

LEMMA NothingTaken == ASSUME NEW a, NEW n PROVE Fits({}, a, n, None) /\ Spread({}, a, n)
<1>1. Limit \in Nat /\ Limit > 0
  BY OwnerAccessAssumption
<1>2. ASSUME NEW from, NEW to PROVE Size({}, a, from, to) = 0
  <2>1. Within({}, a, from, to) = {}
    BY DEF Within
  <2> QED
    BY <2>1, SizeTyped
<1> QED
  BY <1>1, <1>2 DEF Fits, Spread

LEMMA TakenTimed == ASSUME TypeOK, Recent, NEW kind \in Kind
                    PROVE  Timed(Taken(kind), attempts, now)
<1> SUFFICES ASSUME NEW k \in Taken(kind) PROVE attempts[k].at \in Nat /\ attempts[k].at <= now
  BY DEF Timed, Taken
<1>1. k \in Attempt /\ attempts[k] # None
  BY DEF Taken
<1> QED
  BY <1>1, AttemptTyped DEF Recent, AttemptRecord

(* A step that changes no arrival keeps the soundness of a kind.           *)
LEMMA Undisturbed ==
  ASSUME NEW S, NEW a, NEW b, \A k \in S : b[k].at = a[k].at, NEW n, NEW w,
         Fits(S, a, n, w), Spread(S, a, n)
  PROVE  Fits(S, b, n, w) /\ Spread(S, b, n)
<1>1. ASSUME NEW from, NEW to PROVE Size(S, b, from, to) = Size(S, a, from, to)
  <2>1. Within(S, b, from, to) = Within(S, a, from, to)
    BY DEF Within
  <2> QED
    BY <2>1, Zenon DEF Size
<1> QED
  BY <1>1 DEF Fits, Spread

LEMMA LimiterBoot == ASSUME IInv, LimiterSound, Boot PROVE LimiterSound'
<1>1. TypeOK /\ Recent /\ boots \in Nat /\ boots' = boots + 1 /\ now' = now
  BY DEF IInv, LimiterSound, TypeOK, Boot
<1>2. ASSUME NEW k \in Attempt, attempts'[k] # None
      PROVE  attempts'[k].at <= now /\ attempts'[k].boot <= boots /\ attempts'[k].boot \in Nat
  <2>1. attempts[k] # None
    BY <1>2 DEF Boot, Unfinished
  <2>2. attempts[k] \in AttemptRecord /\ attempts[k].at <= now /\ attempts[k].boot <= boots
    BY <1>1, <2>1, AttemptTyped DEF Recent
  <2>3. attempts'[k] = attempts[k] \/ attempts'[k] = [attempts[k] EXCEPT !.stage = "refused"]
    BY DEF Boot
  <2> QED
    BY <2>2, <2>3 DEF AttemptRecord
<1>3. Recent'
  BY <1>1, <1>2 DEF Recent
<1>4. ASSUME NEW kind \in Kind
      PROVE  /\ Fits(Taken(kind)', attempts', now', windows'[kind])
             /\ Spread(Taken(kind)', attempts', now')
  <2>1. Taken(kind)' = {}
    BY <1>1, <1>2 DEF Taken
  <2>2. windows'[kind] = None
    BY DEF Boot
  <2> QED
    BY <2>1, <2>2, NothingTaken
<1> QED
  BY <1>3, <1>4 DEF LimiterSound

LEMMA LimiterKept ==
  ASSUME LimiterSound, Recent', now' = now, windows' = windows,
         \A kind \in Kind : Taken(kind)' = Taken(kind),
         \A k \in Attempt : attempts[k] # None => attempts'[k].at = attempts[k].at
  PROVE  LimiterSound'
<1> SUFFICES ASSUME NEW kind \in Kind
             PROVE  /\ Fits(Taken(kind)', attempts', now', windows'[kind])
                    /\ Spread(Taken(kind)', attempts', now')
  BY DEF LimiterSound
<1>1. \A k \in Taken(kind) : attempts'[k].at = attempts[k].at
  BY DEF Taken
<1>2. Fits(Taken(kind), attempts, now, windows[kind]) /\ Spread(Taken(kind), attempts, now)
  BY DEF LimiterSound
<1>3. Fits(Taken(kind), attempts', now, windows[kind]) /\ Spread(Taken(kind), attempts', now)
  BY <1>1, <1>2, Undisturbed
<1> QED
  BY <1>3

LEMMA LimiterArrive ==
  ASSUME IInv, LimiterSound, NEW k \in Attempt, NEW kind \in Kind, NEW reset \in BOOLEAN,
         NEW guess \in Attempt, Arrive(k, kind, reset, guess)
  PROVE  LimiterSound'
<1>1. /\ TypeOK /\ Recent /\ now \in Nat /\ boots \in Nat /\ now' = now /\ boots' = boots
      /\ attempts[k] = None
  BY OwnerAccessAssumption DEF IInv, LimiterSound, TypeOK, Arrive, IsNext
<1>2. /\ attempts'[k] # None /\ attempts'[k].kind = kind /\ attempts'[k].boot = boots
      /\ attempts'[k].at = now
      /\ attempts'[k].stage = IF Admitted(kind) THEN "arrived" ELSE "limited"
      /\ \A j \in Attempt : j # k => attempts'[j] = attempts[j]
  <2>1. TypeOK'
    BY <1>1, ArriveTyped
  <2>2. attempts'[k] =
          [kind |-> kind, reset |-> reset, password |-> guess,
           stage |-> IF Admitted(kind) THEN "arrived" ELSE "limited",
           bootstrapped |-> FALSE, at |-> now, boot |-> boots, began |-> changes]
    BY <1>1 DEF Arrive, TypeOK
  <2>3. attempts'[k] \in AttemptRecord
    BY <1>1, <2>2, OwnerAccessAssumption DEF TypeOK, AttemptRecord
  <2> QED
    BY <1>1, <2>2, <2>3, OwnerAccessAssumption DEF Arrive, TypeOK
<1>3. Recent'
  BY <1>1, <1>2 DEF Recent
<1>4. \A j \in Kind : j # kind => Taken(j)' = Taken(j) /\ windows'[j] = windows[j]
  BY <1>1, <1>2 DEF Taken, Arrive, Count, TypeOK
<1>5. Taken(kind)' = IF Admitted(kind) THEN Taken(kind) \cup {k} ELSE Taken(kind)
  BY <1>1, <1>2 DEF Taken
<1>6. k \notin Taken(kind) /\ \A j \in Taken(kind) : attempts'[j] = attempts[j]
  BY <1>1, <1>2 DEF Taken
<1>7. /\ Timed(Taken(kind), attempts, now) /\ Fits(Taken(kind), attempts, now, windows[kind])
      /\ Spread(Taken(kind), attempts, now)
  BY <1>1, TakenTimed DEF LimiterSound
<1>8. /\ windows[kind] \in (Nat \X (0 .. Limit)) \cup {None}
      /\ windows'[kind] = IF Admitted(kind) THEN <<Current(kind)[1], Current(kind)[2] + 1>>
                          ELSE Current(kind)
  BY <1>1 DEF Arrive, Count, TypeOK
<1>9. Limit \in Nat /\ Limit > 0 /\ Window \in Nat
  BY OwnerAccessAssumption
<1>10. /\ Fits(Taken(kind)', attempts', now, windows'[kind])
       /\ Spread(Taken(kind)', attempts', now)
  <2>1. CASE windows[kind] = None \/ now - windows[kind][1] >= Window
    <3>1. Current(kind) = <<now, 0>> /\ Admitted(kind)
      BY <1>9, <2>1 DEF Current, Admitted
    <3>2. windows'[kind] = <<now, 1>> /\ Taken(kind)' = Taken(kind) \cup {k}
      BY <1>5, <1>8, <3>1
    <3>3. Fits(Taken(kind)', attempts', now, <<now, 1>>) /\ Spread(Taken(kind)', attempts', now)
      BY <1>1, <1>2, <1>6, <1>7, <1>8, <2>1, <3>2, WindowOpens
    <3> QED
      BY <3>2, <3>3
  <2>2. CASE windows[kind] # None /\ ~(now - windows[kind][1] >= Window)
    <3>1. PICK o \in Nat, c \in 0 .. Limit : windows[kind] = <<o, c>>
      BY <1>8, <2>2
    <3>2. Current(kind) = <<o, c>> /\ now - o < Window /\ c \in Nat
      BY <1>1, <1>9, <2>2, <3>1 DEF Current
    <3>3. CASE c < Limit
      <4>1. windows'[kind] = <<o, c + 1>> /\ Taken(kind)' = Taken(kind) \cup {k}
        BY <1>5, <1>8, <3>2, <3>3 DEF Admitted
      <4>2. Fits(Taken(kind), attempts, now, <<o, c>>)
        BY <1>7, <3>1
      <4>3. /\ Fits(Taken(kind)', attempts', now, <<o, c + 1>>)
            /\ Spread(Taken(kind)', attempts', now)
        BY <1>1, <1>2, <1>6, <1>7, <3>2, <3>3, <4>1, <4>2, WindowCounts
      <4> QED
        BY <4>1, <4>3
    <3>4. CASE ~(c < Limit)
      <4>1. windows'[kind] = windows[kind] /\ Taken(kind)' = Taken(kind)
        BY <1>5, <1>8, <3>1, <3>2, <3>4 DEF Admitted
      <4>2. \A j \in Taken(kind) : attempts'[j].at = attempts[j].at
        BY <1>6
      <4>3. /\ Fits(Taken(kind), attempts', now, windows[kind])
            /\ Spread(Taken(kind), attempts', now)
        BY <1>7, <4>2, Undisturbed
      <4> QED
        BY <4>1, <4>3
    <3> QED
      BY <3>3, <3>4
  <2> QED
    BY <2>1, <2>2
<1>11. ASSUME NEW j \in Kind, j # kind
       PROVE  Fits(Taken(j)', attempts', now, windows'[j]) /\ Spread(Taken(j)', attempts', now)
  <2>1. Fits(Taken(j), attempts, now, windows[j]) /\ Spread(Taken(j), attempts, now)
    BY DEF LimiterSound
  <2>2. \A i \in Taken(j) : attempts'[i].at = attempts[i].at
    BY <1>1, <1>2 DEF Taken
  <2>3. Fits(Taken(j), attempts', now, windows[j]) /\ Spread(Taken(j), attempts', now)
    BY <2>1, <2>2, Undisturbed
  <2> QED
    BY <1>4, <1>11, <2>3
<1> QED
  BY <1>1, <1>3, <1>10, <1>11 DEF LimiterSound

(* A handler that goes on was admitted, and stays so.                      *)
LEMMA LimiterHandle ==
  ASSUME IInv, LimiterSound, NEW k \in Attempt, Handle(k)
  PROVE  LimiterSound'
<1>1. TypeOK /\ Recent
  BY DEF IInv, LimiterSound
<1>2. /\ attempts[k] # None /\ attempts[k].stage # "limited"
      /\ now' = now /\ boots' = boots /\ windows' = windows
  BY DEF Handle, LookBootstrapped, LookPassword, StorePassword, CheckPassword, IssueSession, At
<1>3. \E stage \in Stage \ {"limited"}, seen \in BOOLEAN : Step(k, stage, seen)
  <2>1. attempts[k].bootstrapped \in BOOLEAN /\ bootstrapped \in BOOLEAN
    BY <1>1, <1>2, AttemptTyped DEF AttemptRecord, TypeOK
  <2>2. CASE LookBootstrapped(k)
    BY <2>1, <2>2 DEF LookBootstrapped, Step, Stage
  <2>3. ASSUME NEW stage \in Stage \ {"limited"}, Advance(k, stage)
        PROVE  Step(k, stage, attempts[k].bootstrapped)
    BY <1>1, <1>2, <2>3, AdvanceIsStep
  <2>4. CASE LookPassword(k) \/ CheckPassword(k)
    <3>1. \E stage \in {"refused", "verified", "stored"} : Advance(k, stage)
      BY <2>4 DEF LookPassword, CheckPassword
    <3> QED
      BY <2>1, <2>3, <3>1 DEF Stage
  <2>5. CASE StorePassword(k) \/ IssueSession(k)
    <3>1. \E stage \in {"stored", "answered"} : Advance(k, stage)
      BY <2>5 DEF StorePassword, IssueSession
    <3> QED
      BY <2>1, <2>3, <3>1 DEF Stage
  <2> QED
    BY <2>2, <2>4, <2>5 DEF Handle
<1>4. PICK stage \in Stage \ {"limited"}, seen \in BOOLEAN : Step(k, stage, seen)
  BY <1>3
<1>5. /\ attempts'[k] # None /\ attempts'[k].stage # "limited"
      /\ attempts'[k].kind = attempts[k].kind /\ attempts'[k].at = attempts[k].at
      /\ attempts'[k].boot = attempts[k].boot
      /\ \A j \in Attempt : j # k => attempts'[j] = attempts[j]
  BY <1>1, <1>2, <1>4, StepKeeps
<1>6. \A kind \in Kind : Taken(kind)' = Taken(kind)
  BY <1>2, <1>5 DEF Taken
<1>7. Recent' /\ \A j \in Attempt : attempts[j] # None => attempts'[j].at = attempts[j].at
  BY <1>1, <1>2, <1>5 DEF Recent
<1> QED
  BY <1>2, <1>6, <1>7, LimiterKept

LEMMA LimiterTick == ASSUME IInv, LimiterSound, Tick PROVE LimiterSound'
<1>1. /\ TypeOK /\ Recent /\ now \in Nat /\ boots \in Nat
      /\ now' = now + 1 /\ attempts' = attempts /\ windows' = windows /\ boots' = boots
  BY OwnerAccessAssumption DEF IInv, LimiterSound, TypeOK, Tick, relay
<1>2. Recent'
  <2>1. \A k \in Attempt : attempts[k] # None => attempts[k].at \in Nat
    BY <1>1, AttemptTyped DEF AttemptRecord
  <2> QED
    BY <1>1, <2>1 DEF Recent
<1>3. ASSUME NEW kind \in Kind
      PROVE  /\ Fits(Taken(kind)', attempts', now', windows'[kind])
             /\ Spread(Taken(kind)', attempts', now')
  <2>1. Taken(kind)' = Taken(kind)
    BY <1>1 DEF Taken
  <2>2. /\ Timed(Taken(kind), attempts, now) /\ Fits(Taken(kind), attempts, now, windows[kind])
        /\ Spread(Taken(kind), attempts, now)
    BY <1>1, TakenTimed DEF LimiterSound
  <2>3. windows[kind] # None => windows[kind][1] \in Nat
    BY <1>1 DEF TypeOK
  <2>4. /\ Fits(Taken(kind), attempts, now + 1, windows[kind])
        /\ Spread(Taken(kind), attempts, now + 1)
    BY <1>1, <2>2, <2>3, WindowAges
  <2> QED
    BY <1>1, <2>1, <2>4
<1> QED
  BY <1>2, <1>3 DEF LimiterSound

LEMMA LimiterInductive == Spec => []LimiterSound
<1>1. Init => LimiterSound
  <2> SUFFICES ASSUME Init PROVE LimiterSound
    OBVIOUS
  <2>1. Recent
    BY DEF Init, Recent
  <2>2. ASSUME NEW kind \in Kind
        PROVE  Taken(kind) = {} /\ windows[kind] = None
    BY DEF Init, Taken
  <2> QED
    BY <2>1, <2>2, NothingTaken DEF LimiterSound
<1>2. IInv /\ LimiterSound /\ [Next]_vars => LimiterSound'
  <2> SUFFICES ASSUME IInv, LimiterSound, [Next]_vars PROVE LimiterSound'
    OBVIOUS
  <2>1. CASE Boot
    BY <2>1, LimiterBoot
  <2>2. ASSUME NEW k \in Attempt, AskSetup(k) PROVE LimiterSound'
    <3>1. PICK reset \in BOOLEAN : Arrive(k, "bootstrap", reset, k)
      BY <2>2 DEF AskSetup
    <3> QED
      BY <3>1, LimiterArrive DEF Kind
  <2>3. ASSUME NEW k \in Attempt, AskLogin(k) PROVE LimiterSound'
    <3>1. PICK j \in 1 .. k - 1 : Arrive(k, "login", FALSE, j)
      BY <2>3 DEF AskLogin
    <3>2. j \in Attempt
      BY OwnerAccessAssumption DEF Attempt
    <3> QED
      BY <3>1, <3>2, LimiterArrive DEF Kind
  <2>4. ASSUME NEW k \in Attempt, Handle(k) PROVE LimiterSound'
    BY <2>4, LimiterHandle
  <2>5. ASSUME UNCHANGED <<relay, now>> PROVE LimiterSound'
    <3>1. \A kind \in Kind : Taken(kind)' = Taken(kind)
      BY <2>5 DEF Taken, relay
    <3> QED
      BY <2>5, <3>1, LimiterKept DEF LimiterSound, Recent, relay
  <2>6. ASSUME NEW s \in Session, Logout(s) PROVE LimiterSound'
    BY <2>5, <2>6 DEF Logout
  <2>7. CASE Tick
    BY <2>7, LimiterTick
  <2>8. CASE UNCHANGED vars
    BY <2>5, <2>8 DEF vars
  <2> QED
    BY <2>1, <2>2, <2>3, <2>4, <2>6, <2>7, <2>8 DEF Next
<1> QED
  BY Inductive, <1>1, <1>2, PTL DEF Spec

(* However setup and login requests are spread over time, no span of one   *)
(* window admits twice the limit of a kind while the relay runs (the       *)
(* fixed windows of allow_owner_attempt).                                  *)
THEOREM AttemptsLimited == Spec => []AttemptsAreLimited
<1>1. LimiterSound => AttemptsAreLimited
  <2> SUFFICES ASSUME LimiterSound, NEW kind \in Kind, NEW t \in 0 .. now
               PROVE  Cardinality(Admissions(kind, t, t + Window)) < 2 * Limit
    BY DEF AttemptsAreLimited
  <2>1. Admissions(kind, t, t + Window) = Within(Taken(kind), attempts, t, t + Window)
    BY DEF Admissions, Within, Taken
  <2>2. Size(Taken(kind), attempts, t, t + Window) < 2 * Limit
    BY DEF LimiterSound, Spread
  <2> QED
    BY <2>1, <2>2 DEF Size
<1> QED
  BY LimiterInductive, <1>1, PTL
=============================================================================
