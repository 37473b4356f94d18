--------------------------- MODULE ActivityProofs ---------------------------
(***************************************************************************)
(* Theorems about Activity, for every set of sessions and burst UUIDs and  *)
(* every bound.  Types first; then, one by one, the conjuncts of the       *)
(* inductive invariant IInv, from the lemmas of SessionProofs about the    *)
(* session operators.                                                      *)
(***************************************************************************)
EXTENDS Activity, SessionProofs

(* Two ways the engine's map changes: one entry, or several at once.       *)
LEMMA OneSessionTyped ==
  ASSUME TypeOK, NEW i \in SessionId, NEW t \in SessionRecord \cup {None},
         sessions' = [sessions EXCEPT ![i] = t]
  PROVE  sessions' \in [SessionId -> SessionRecord \cup {None}]
  BY DEF TypeOK

LEMMA RegisteredTyped ==
  ASSUME TypeOK, NEW i \in SessionId, Registered(i)
  PROVE  sessions[i] \in SessionRecord
  BY DEF TypeOK, Registered

-----------------------------------------------------------------------------
(* Each action that handles one request leaves the other sessions alone    *)
(* and gives its own an entry of the right shape.                          *)
LEMMA ArmAndStartFacts ==
  ASSUME NEW s \in SessionRecord, NEW mode \in {"persistent", "once"},
         NEW minimum \in Nat, NEW idle \in Nat, NEW b \in Burst,
         NEW mono \in Nat, NEW wall \in Int
  PROVE  /\ ArmAndStart(s, mode, minimum, idle, b, mono, wall) \in SessionRecord
         /\ Coherent(ArmAndStart(s, mode, minimum, idle, b, mono, wall))
  BY ArmFacts, CommandStartFacts DEF ArmAndStart

LEMMA RequestFacts ==
  ASSUME TypeOK, NEW i \in SessionId, Request(i)
  PROVE  \E t \in SessionRecord \cup {None} :
           /\ sessions' = [sessions EXCEPT ![i] = t]
           /\ SessionsCoherent /\ t # None => Coherent(t)
<1> USE ActivityAssumption
<1>0. now \in Nat /\ now \in Int
  BY DEF TypeOK
<1>1. CASE SessionOpen(i)
  <2>1. PICK minimum \in Minimum, idle \in Idle :
          sessions' = [sessions EXCEPT ![i] =
                         IF Registered(i) THEN Touch(sessions[i], now)
                         ELSE NewSession(minimum, idle, now)]
    BY <1>1 DEF SessionOpen
  <2>2. CASE Registered(i)
    BY <1>0, <2>1, <2>2, RegisteredTyped, TouchFacts DEF SessionsCoherent
  <2>3. CASE ~Registered(i)
    BY <1>0, <2>1, <2>3, NewSessionFacts
  <2> QED
    BY <2>2, <2>3
<1>2. CASE SessionClose(i)
  BY <1>2 DEF SessionClose
<1>3. CASE DisarmSession(i)
  BY <1>0, <1>3, RegisteredTyped, DisarmFacts DEF DisarmSession
<1>4. CASE LabelSession(i)
  BY <1>0, <1>4, RegisteredTyped, TouchFacts
  DEF LabelSession, SetLabel, SessionsCoherent
<1>5. CASE \E mode \in {"persistent", "once"}, minimum \in Minimum, idle \in Idle :
             ArmSession(i, mode, minimum, idle)
  <2>1. PICK mode \in {"persistent", "once"}, minimum \in Minimum, idle \in Idle :
          ArmSession(i, mode, minimum, idle)
    BY <1>5
  <2>2. PICK b \in Fresh :
          sessions' = [sessions EXCEPT ![i] =
                         ArmAndStart(@, mode, minimum, idle, b, now, now)]
    BY <2>1 DEF ArmSession
  <2>3. b \in Burst /\ Registered(i)
    BY <2>1 DEF Fresh, ArmSession
  <2> QED
    BY <1>0, <2>2, <2>3, RegisteredTyped, ArmAndStartFacts
<1>6. CASE HandleCommandStart(i)
  <2>1. PICK b : /\ sessions' = [sessions EXCEPT ![i] = CommandStart(@, b, now, now)]
                 /\ StartsBurst(sessions[i]) => b \in Burst
    BY <1>6 DEF HandleCommandStart, Fresh
  <2> QED
    BY <1>0, <1>6, <2>1, RegisteredTyped, CommandStartFacts
    DEF HandleCommandStart, SessionsCoherent
<1>7. CASE HandlePromptReady(i)
  BY <1>0, <1>7, RegisteredTyped, PromptReadyFacts
  DEF HandlePromptReady, SessionsCoherent
<1>8. CASE HandleManualRing(i)
  BY <1>0, <1>8, RegisteredTyped, ManualRingFacts
  DEF HandleManualRing, SessionsCoherent
<1> QED
  BY <1>1, <1>2, <1>3, <1>4, <1>5, <1>6, <1>7, <1>8 DEF Request

(* The types of the observers are kept by each request. *)
LEMMA RequestTyped ==
  ASSUME TypeOK, NEW i \in SessionId, Request(i)
  PROVE  TypeOK'
<1> USE ActivityAssumption DEF TypeOK
<1>1. sessions' \in [SessionId -> SessionRecord \cup {None}]
  BY RequestFacts
<1>2. CASE \/ SessionOpen(i) \/ SessionClose(i) \/ DisarmSession(i) \/ LabelSession(i)
  BY <1>1, <1>2 DEF SessionOpen, SessionClose, DisarmSession, LabelSession
<1>3. CASE \E mode \in {"persistent", "once"}, minimum \in Minimum, idle \in Idle :
             ArmSession(i, mode, minimum, idle)
  BY <1>1, <1>3 DEF ArmSession, Fresh
<1>4. CASE HandleCommandStart(i)
  BY <1>1, <1>4 DEF HandleCommandStart, Fresh
<1>5. CASE HandlePromptReady(i)
  BY <1>1, <1>5 DEF HandlePromptReady
<1>6. CASE HandleManualRing(i)
  BY <1>1, <1>6 DEF HandleManualRing
<1> QED
  BY <1>2, <1>3, <1>4, <1>5, <1>6 DEF Request

(* One tick settles every due session. *)
LEMMA TickFacts ==
  ASSUME TypeOK, Tick
  PROVE  /\ TypeOK'
         /\ SessionsCoherent => SessionsCoherent'
<1>0. now \in Int /\ DueSessions \subseteq SessionId
  BY DEF TypeOK, DueSessions
<1>1. ASSUME NEW i \in DueSessions
      PROVE  Settle(sessions[i], now) \in SessionRecord /\ Coherent(Settle(sessions[i], now))
  BY <1>0, <1>1, RegisteredTyped, SettleFacts DEF DueSessions
<1>2. sessions' \in [SessionId -> SessionRecord \cup {None}]
  BY <1>1 DEF Tick, TypeOK
<1>3. rings' \in [Burst -> Nat]
  BY DEF Tick, TypeOK
<1>4. arming' \in [SessionId -> [once : BOOLEAN, rings : Nat]]
  BY DEF Tick, TypeOK
<1>5. TypeOK'
  BY <1>2, <1>3, <1>4 DEF TypeOK, Tick
<1>6. ASSUME SessionsCoherent, NEW i \in SessionId, Registered(i)'
      PROVE  Coherent(sessions'[i])
  BY <1>1, <1>6 DEF Tick, SessionsCoherent, Registered
<1> QED
  BY <1>5, <1>6 DEF SessionsCoherent, Registered

LEMMA StepTyped == TypeOK /\ [Next]_vars => TypeOK'
<1> SUFFICES ASSUME TypeOK, [Next]_vars PROVE TypeOK'
  OBVIOUS
<1>1. CASE \E i \in SessionId : Request(i)
  BY <1>1, RequestTyped
<1>2. CASE Tick
  BY <1>2, TickFacts
<1>3. CASE CleanupStale
  BY <1>3 DEF CleanupStale, TypeOK
<1>4. CASE PassTime
  BY <1>4 DEF PassTime, TypeOK
<1>5. CASE UNCHANGED vars
  BY <1>5 DEF vars, TypeOK
<1> QED
  BY <1>1, <1>2, <1>3, <1>4, <1>5 DEF Next

(* Every behaviour keeps the types of the engine's map and of the          *)
(* observers (ActivityEngine and Session in activity.rs).                  *)
THEOREM TypeCorrect == Spec => []TypeOK
<1>1. Init => TypeOK
  BY ActivityAssumption DEF Init, TypeOK
<1> QED
  BY <1>1, StepTyped, PTL DEF Spec

LEMMA StepCoherent == TypeOK /\ SessionsCoherent /\ [Next]_vars => SessionsCoherent'
<1> SUFFICES ASSUME TypeOK, SessionsCoherent, [Next]_vars PROVE SessionsCoherent'
  OBVIOUS
<1>1. ASSUME NEW i \in SessionId, Request(i) PROVE SessionsCoherent'
  <2>1. PICK t \in SessionRecord \cup {None} :
          /\ sessions' = [sessions EXCEPT ![i] = t]
          /\ t # None => Coherent(t)
    BY <1>1, RequestFacts
  <2> QED
    BY <2>1 DEF SessionsCoherent, Registered, TypeOK
<1>2. CASE Tick
  BY <1>2, TickFacts
<1>3. CASE CleanupStale
  BY <1>3 DEF CleanupStale, SessionsCoherent, Registered, TypeOK
<1>4. CASE PassTime \/ UNCHANGED vars
  BY <1>4 DEF PassTime, vars, SessionsCoherent, Registered
<1> QED
  BY <1>1, <1>2, <1>3, <1>4 DEF Next

(* Mode, state, burst, running timer and deadline of every session always  *)
(* fit together, whatever order hooks, commands and ticks come in.         *)
THEOREM AlwaysCoherent == Spec => []SessionsCoherent
<1>1. Init => SessionsCoherent
  BY DEF Init, SessionsCoherent, Registered
<1> QED
  BY <1>1, TypeCorrect, StepCoherent, PTL DEF Spec

-----------------------------------------------------------------------------
(* What one request may do to bursts and rings: keep or drop the session's *)
(* burst, begin a fresh one, or ring the one that is open.                 *)
KeepsBurst(i) ==
  /\ UNCHANGED <<rings, begun>>
  /\ HasBurst(i)' => /\ HasBurst(i)
                     /\ sessions'[i].burst = sessions[i].burst
                     /\ sessions'[i].notified = sessions[i].notified

BeginsFresh(i) == \E b \in Fresh :
  /\ begun' = begun \cup {b}
  /\ rings' = rings
  /\ HasBurst(i)' /\ sessions'[i].burst = b /\ sessions'[i].notified = FALSE

RingsOpen(i) ==
  /\ HasBurst(i) /\ ~sessions[i].notified
  /\ begun' = begun
  /\ rings' = [rings EXCEPT ![sessions[i].burst] = @ + 1]
  /\ HasBurst(i)' => /\ sessions'[i].burst = sessions[i].burst
                     /\ sessions'[i].notified = TRUE

LEMMA RequestEffect ==
  ASSUME TypeOK, SessionsCoherent, NEW i \in SessionId, Request(i)
  PROVE  /\ \A j \in SessionId \ {i} : sessions'[j] = sessions[j]
         /\ KeepsBurst(i) \/ BeginsFresh(i) \/ RingsOpen(i)
<1> USE NoneAssumption, RegisteredTyped
<1>1. \A j \in SessionId \ {i} : sessions'[j] = sessions[j]
  BY RequestFacts DEF TypeOK
<1>2. ASSUME NEW t, sessions' = [sessions EXCEPT ![i] = t]
      PROVE  sessions'[i] = t
  BY <1>2 DEF TypeOK
<1>3. CASE SessionOpen(i)
  <2>1. PICK minimum \in Minimum, idle \in Idle :
          sessions' = [sessions EXCEPT ![i] =
                         IF Registered(i) THEN Touch(sessions[i], now)
                         ELSE NewSession(minimum, idle, now)]
    BY <1>3 DEF SessionOpen
  <2>2. sessions'[i] = IF Registered(i) THEN Touch(sessions[i], now)
                       ELSE NewSession(minimum, idle, now)
    BY <1>2, <2>1
  <2>3. rings' = rings /\ begun' = begun
    BY <1>3 DEF SessionOpen
  <2>4. CASE Registered(i)
    BY <1>1, <2>2, <2>3, <2>4 DEF KeepsBurst, HasBurst, Touch, SessionRecord
  <2>5. CASE ~Registered(i)
    BY <1>1, <2>2, <2>3, <2>5 DEF KeepsBurst, HasBurst, Registered, NewSession
  <2> QED
    BY <2>4, <2>5
<1>4. CASE SessionClose(i)
  BY <1>1, <1>2, <1>4 DEF SessionClose, KeepsBurst, HasBurst, Registered
<1>5. CASE DisarmSession(i)
  BY <1>1, <1>2, <1>5
  DEF DisarmSession, KeepsBurst, HasBurst, Registered, Disarm, ResetBurst, SessionRecord
<1>6. CASE LabelSession(i)
  BY <1>1, <1>2, <1>6
  DEF LabelSession, SetLabel, Touch, KeepsBurst, HasBurst, Registered, SessionRecord
<1>7. CASE \E mode \in {"persistent", "once"}, minimum \in Minimum, idle \in Idle :
             ArmSession(i, mode, minimum, idle)
  <2>1. PICK mode \in {"persistent", "once"}, minimum \in Minimum, idle \in Idle :
          ArmSession(i, mode, minimum, idle)
    BY <1>7
  <2>2. PICK b \in Fresh :
          /\ sessions' = [sessions EXCEPT ![i] =
                            ArmAndStart(@, mode, minimum, idle, b, now, now)]
          /\ begun' = begun \cup {b}
    BY <2>1 DEF ArmSession
  <2>3. sessions[i] \in SessionRecord /\ b \in Burst /\ rings' = rings
    BY <2>1 DEF Fresh, ArmSession
  <2>4. /\ ArmAndStart(sessions[i], mode, minimum, idle, b, now, now).burst = b
        /\ ArmAndStart(sessions[i], mode, minimum, idle, b, now, now).notified = FALSE
        /\ ArmAndStart(sessions[i], mode, minimum, idle, b, now, now) \in SessionRecord
    <3>1. Arm(sessions[i], mode, minimum, idle, now).state = "armed"
      BY <2>3 DEF Arm, SessionRecord, ResetBurst
    <3>2. now \in Nat /\ now \in Int
      BY DEF TypeOK
    <3>3. Arm(sessions[i], mode, minimum, idle, now) \in SessionRecord
      BY <2>3, <3>2, ArmFacts, ActivityAssumption
    <3> QED
      BY <2>3, <3>1, <3>2, <3>3, ArmAndStartFacts, ActivityAssumption
      DEF ArmAndStart, CommandStart, BeginBurst, Touch, SessionRecord
  <2>5. sessions'[i] = ArmAndStart(sessions[i], mode, minimum, idle, b, now, now)
    BY <1>2, <2>2
  <2> QED
    BY <1>1, <2>2, <2>3, <2>4, <2>5 DEF BeginsFresh, HasBurst, Registered
<1>8. CASE HandleCommandStart(i)
  <2>1. sessions[i] \in SessionRecord /\ Registered(i) /\ rings' = rings
    BY <1>8 DEF HandleCommandStart
  <2>2. CASE StartsBurst(sessions[i])
    <3>1. PICK b \in Fresh :
            /\ sessions' = [sessions EXCEPT ![i] = CommandStart(@, b, now, now)]
            /\ begun' = begun \cup {b}
      BY <1>8, <2>2 DEF HandleCommandStart
    <3>2. sessions'[i] = BeginBurst(Touch(sessions[i], now), b, now)
      BY <1>2, <2>2, <3>1 DEF CommandStart, StartsBurst
    <3>3. sessions'[i] \in SessionRecord
      BY <2>1, <3>1, <1>2, CommandStartFacts DEF Fresh, TypeOK
    <3>4. sessions'[i].burst = b /\ sessions'[i].notified = FALSE
      BY <2>1, <3>2 DEF BeginBurst, Touch, SessionRecord
    <3> QED
      BY <1>1, <2>1, <3>1, <3>3, <3>4 DEF BeginsFresh, HasBurst, Registered, Fresh
  <2>3. CASE ~StartsBurst(sessions[i])
    <3>1. sessions' = [sessions EXCEPT ![i] = CommandStart(@, None, now, now)] /\ begun' = begun
      BY <1>8, <2>3 DEF HandleCommandStart
    <3>2. \/ sessions'[i] = ResumeBurst(Touch(sessions[i], now), now)
          \/ sessions'[i] = Touch(sessions[i], now)
      BY <1>2, <2>3, <3>1 DEF CommandStart, StartsBurst
    <3>3. sessions'[i].burst = sessions[i].burst /\ sessions'[i].notified = sessions[i].notified
      BY <2>1, <3>2 DEF ResumeBurst, Touch, SessionRecord
    <3> QED
      BY <1>1, <2>1, <3>1, <3>3 DEF KeepsBurst, HasBurst
  <2> QED
    BY <2>2, <2>3
<1>9. CASE HandlePromptReady(i)
  <2>1. /\ sessions[i] \in SessionRecord /\ Registered(i)
        /\ sessions'[i] = PromptReady(sessions[i], now, now)
        /\ rings' = rings /\ begun' = begun
    BY <1>2, <1>9 DEF HandlePromptReady
  <2>2. sessions'[i].burst = sessions[i].burst /\ sessions'[i].notified = sessions[i].notified
    BY <2>1 DEF PromptReady, SettleFrom, Touch, SessionRecord
  <2> QED
    BY <1>1, <2>1, <2>2 DEF KeepsBurst, HasBurst
<1>10. CASE HandleManualRing(i)
  <2>1. /\ sessions[i] \in SessionRecord /\ Registered(i)
        /\ sessions'[i] = ManualRing(sessions[i], now)
        /\ begun' = begun
    BY <1>2, <1>10 DEF HandleManualRing
  <2>2. CASE Associated(sessions[i]) /\ ~sessions[i].notified
    <3>1. HasBurst(i) /\ rings' = [rings EXCEPT ![sessions[i].burst] = @ + 1]
      BY <1>10, <2>1, <2>2 DEF HandleManualRing, Associated, Suppressed, HasBurst
    <3>2. \/ sessions'[i].burst = None
          \/ sessions'[i].burst = sessions[i].burst /\ sessions'[i].notified = TRUE
      BY <2>1, <2>2 DEF ManualRing, Disarm, ResetBurst, SessionRecord
    <3> QED
      BY <1>1, <2>1, <2>2, <3>1, <3>2 DEF RingsOpen, HasBurst
  <2>3. CASE ~(Associated(sessions[i]) /\ ~sessions[i].notified)
    <3>1. rings' = rings
      BY <1>10, <2>3 DEF HandleManualRing, Suppressed
    <3>2. sessions'[i] = Touch(sessions[i], now)
      BY <2>1, <2>3 DEF ManualRing
    <3> QED
      BY <1>1, <2>1, <3>1, <3>2 DEF KeepsBurst, HasBurst, Touch, SessionRecord
  <2> QED
    BY <2>2, <2>3
<1> QED
  BY <1>3, <1>4, <1>5, <1>6, <1>7, <1>8, <1>9, <1>10 DEF Request

-----------------------------------------------------------------------------
(* At most one ring per burst.  The bursts of a state, and what each step  *)
(* does to them; the timer is the only step that touches several.          *)
BurstInv == TypeOK /\ SessionsCoherent /\ BurstsDistinct /\ RingsRecorded

LEMMA HasBurstTyped ==
  ASSUME TypeOK, NEW i \in SessionId, HasBurst(i)
  PROVE  sessions[i] \in SessionRecord /\ sessions[i].burst \in Burst
  BY RegisteredTyped DEF HasBurst, SessionRecord

LEMMA RequestKeepsBurstInv ==
  ASSUME BurstInv, NEW i \in SessionId, Request(i)
  PROVE  BurstsDistinct' /\ RingsRecorded'
<1> USE DEF BurstInv
<1>1. /\ \A j \in SessionId \ {i} : sessions'[j] = sessions[j]
      /\ KeepsBurst(i) \/ BeginsFresh(i) \/ RingsOpen(i)
  BY RequestEffect
<1>2. \A j \in SessionId \ {i} : HasBurst(j)' <=> HasBurst(j)
  BY <1>1 DEF HasBurst, Registered
<1>3. CASE KeepsBurst(i)
  <2>1. BurstsDistinct'
    BY <1>1, <1>2, <1>3 DEF KeepsBurst, BurstsDistinct
  <2>2. RingsRecorded'
    BY <1>1, <1>2, <1>3 DEF KeepsBurst, RingsRecorded, OneRingPerBurst
  <2> QED
    BY <2>1, <2>2
<1>4. CASE BeginsFresh(i)
  <2>1. PICK b \in Fresh :
          /\ begun' = begun \cup {b}
          /\ rings' = rings
          /\ HasBurst(i)' /\ sessions'[i].burst = b /\ sessions'[i].notified = FALSE
    BY <1>4 DEF BeginsFresh
  <2>2. \A j \in SessionId \ {i} : HasBurst(j) => sessions[j].burst # b
    BY <2>1 DEF BurstsDistinct, Fresh
  <2>3. rings[b] = 0
    BY <2>1 DEF RingsRecorded, Fresh
  <2>4. BurstsDistinct'
    BY <1>1, <1>2, <2>1, <2>2 DEF BurstsDistinct
  <2>5. RingsRecorded'
    BY <1>1, <1>2, <2>1, <2>3 DEF RingsRecorded, OneRingPerBurst
  <2> QED
    BY <2>4, <2>5
<1>5. CASE RingsOpen(i)
  <2> DEFINE b == sessions[i].burst
  <2>1. /\ HasBurst(i) /\ ~sessions[i].notified /\ b \in Burst
        /\ begun' = begun
        /\ rings' = [rings EXCEPT ![b] = @ + 1]
        /\ HasBurst(i)' => sessions'[i].burst = b /\ sessions'[i].notified = TRUE
    BY <1>5, HasBurstTyped DEF RingsOpen
  <2>2. \A j \in SessionId \ {i} : HasBurst(j) => sessions[j].burst # b
    BY <2>1 DEF BurstsDistinct
  <2>3. /\ rings[b] = 0 /\ b \in begun
        /\ \A c \in Burst : rings'[c] = IF c = b THEN 1 ELSE rings[c]
    BY <2>1 DEF RingsRecorded, BurstsDistinct, TypeOK
  <2> HIDE DEF b
  <2>4. BurstsDistinct'
    BY <1>1, <1>2, <2>1 DEF BurstsDistinct, b
  <2>5. /\ OneRingPerBurst'
        /\ \A c \in Burst \ begun' : rings'[c] = 0
    BY <2>1, <2>3 DEF RingsRecorded, OneRingPerBurst
  <2>6. ASSUME NEW j \in SessionId, HasBurst(j)', ~sessions'[j].notified
        PROVE  rings'[sessions'[j].burst] = 0
    <3>1. j # i
      BY <2>1, <2>6
    <3>2. HasBurst(j) /\ sessions'[j] = sessions[j] /\ sessions[j].burst \in Burst
      BY <1>1, <1>2, <2>6, <3>1, HasBurstTyped
    <3> QED
      BY <2>2, <2>3, <2>6, <3>1, <3>2 DEF RingsRecorded
  <2> QED
    BY <2>4, <2>5, <2>6 DEF RingsRecorded
<1> QED
  BY <1>1, <1>3, <1>4, <1>5

(* The timer: a session that settles has no burst afterwards, so whatever  *)
(* it rang for is over; the others keep theirs.                            *)
LEMMA TickBursts ==
  ASSUME TypeOK, Tick, NEW i \in SessionId
  PROVE  /\ i \in DueSessions => HasBurst(i)' = FALSE
         /\ i \notin DueSessions => sessions'[i] = sessions[i]
         /\ HasBurst(i)' => i \notin DueSessions /\ HasBurst(i)
<1>1. i \in DueSessions => sessions'[i] = Settle(sessions[i], now)
  BY DEF Tick, DueSessions
<1>2. ASSUME i \in DueSessions PROVE Settle(sessions[i], now).burst = None
  <2>1. now \in Int /\ sessions[i] \in SessionRecord
    BY <1>2, RegisteredTyped DEF DueSessions, TypeOK
  <2> QED
    BY <2>1, SettleFacts
<1>3. i \notin DueSessions => sessions'[i] = sessions[i]
  BY DEF Tick
<1> QED
  BY <1>1, <1>2, <1>3 DEF HasBurst, Registered

LEMMA DueHasBurst ==
  ASSUME TypeOK, SessionsCoherent, NEW i \in DueSessions
  PROVE  i \in SessionId /\ HasBurst(i) /\ sessions[i].state = "settling"
  BY DEF DueSessions, Due, SessionsCoherent, Coherent, HasBurst

LEMMA TickKeepsBurstInv ==
  ASSUME BurstInv, Tick
  PROVE  BurstsDistinct' /\ RingsRecorded'
<1> USE DEF BurstInv
<1>1. \A i \in SessionId : HasBurst(i)' =>
         i \notin DueSessions /\ HasBurst(i) /\ sessions'[i] = sessions[i]
  BY TickBursts
<1>2. begun' = begun
  BY DEF Tick
<1>3. \A b \in Burst :
         rings'[b] = rings[b] + IF \E i \in Ringing : sessions[i].burst = b
                                THEN 1 ELSE 0
  BY DEF Tick
<1>4. \A i \in Ringing :
         /\ i \in DueSessions /\ i \in SessionId /\ HasBurst(i)
         /\ rings[sessions[i].burst] = 0 /\ sessions[i].burst \in begun
  BY DueHasBurst DEF Ringing, RingsAutomatically, RingsRecorded, BurstsDistinct
<1>5. BurstsDistinct'
  BY <1>1, <1>2 DEF BurstsDistinct
<1>6. ASSUME NEW b \in Burst PROVE rings'[b] <= 1
  <2>1. rings[b] \in Nat /\ rings[b] <= 1
    BY DEF RingsRecorded, OneRingPerBurst, TypeOK
  <2>2. CASE \E i \in Ringing : sessions[i].burst = b
    BY <1>3, <1>4, <2>2
  <2>3. CASE ~\E i \in Ringing : sessions[i].burst = b
    BY <1>3, <2>1, <2>3
  <2> QED
    BY <2>2, <2>3
<1>7. \A b \in Burst \ begun' : rings'[b] = 0
  BY <1>2, <1>3, <1>4 DEF RingsRecorded
<1>8. ASSUME NEW i \in SessionId, HasBurst(i)', ~sessions'[i].notified
      PROVE  rings'[sessions'[i].burst] = 0
  <2>1. /\ i \notin DueSessions /\ HasBurst(i) /\ sessions'[i] = sessions[i]
        /\ sessions[i].burst \in Burst /\ rings[sessions[i].burst] = 0
    BY <1>1, <1>8, HasBurstTyped DEF RingsRecorded
  <2>2. ~\E j \in Ringing : sessions[j].burst = sessions[i].burst
    BY <1>4, <2>1 DEF BurstsDistinct
  <2> QED
    BY <1>3, <2>1, <2>2
<1> QED
  BY <1>5, <1>6, <1>7, <1>8 DEF RingsRecorded, OneRingPerBurst

LEMMA StepKeepsBurstInv == BurstInv /\ [Next]_vars => BurstInv'
<1> SUFFICES ASSUME BurstInv, [Next]_vars PROVE BurstInv'
  OBVIOUS
<1>1. TypeOK' /\ SessionsCoherent'
  BY StepTyped, StepCoherent DEF BurstInv
<1>2. CASE \E i \in SessionId : Request(i)
  BY <1>1, <1>2, RequestKeepsBurstInv DEF BurstInv
<1>3. CASE Tick
  BY <1>1, <1>3, TickKeepsBurstInv DEF BurstInv
<1>4. CASE CleanupStale
  <2>1. \A i \in SessionId : HasBurst(i)' => HasBurst(i) /\ sessions'[i] = sessions[i]
    BY <1>4 DEF CleanupStale, HasBurst, Registered
  <2>2. begun' = begun /\ rings' = rings
    BY <1>4 DEF CleanupStale
  <2>3. BurstsDistinct'
    BY <2>1, <2>2 DEF BurstInv, BurstsDistinct
  <2>4. RingsRecorded'
    BY <2>1, <2>2 DEF BurstInv, RingsRecorded, OneRingPerBurst
  <2> QED
    BY <1>1, <2>3, <2>4 DEF BurstInv
<1>5. CASE PassTime \/ UNCHANGED vars
  <2>1. sessions' = sessions /\ begun' = begun /\ rings' = rings
    BY <1>5 DEF PassTime, vars
  <2>2. BurstsDistinct' /\ RingsRecorded'
    BY <2>1 DEF BurstInv, BurstsDistinct, RingsRecorded, OneRingPerBurst, HasBurst, Registered
  <2> QED
    BY <1>1, <2>2 DEF BurstInv
<1> QED
  BY <1>2, <1>3, <1>4, <1>5 DEF Next

LEMMA AlwaysBurstInv == Spec => []BurstInv
<1>1. Init => BurstInv
  <2> SUFFICES ASSUME Init PROVE BurstInv
    OBVIOUS
  <2>1. TypeOK /\ SessionsCoherent
    BY ActivityAssumption DEF Init, TypeOK, SessionsCoherent, Registered
  <2>2. BurstsDistinct /\ RingsRecorded
    BY DEF Init, BurstsDistinct, RingsRecorded, OneRingPerBurst, HasBurst, Registered
  <2> QED
    BY <2>1, <2>2 DEF BurstInv
<1> QED
  BY <1>1, StepKeepsBurstInv, PTL DEF Spec

(* A burst asks for at most one ring: however manual rings, repeated hooks *)
(* and timer ticks interleave, burst_notified suppresses the second.       *)
THEOREM AtMostOneRingPerBurst == Spec => []OneRingPerBurst
<1>1. BurstInv => OneRingPerBurst
  BY DEF BurstInv, RingsRecorded
<1> QED
  BY <1>1, AlwaysBurstInv, PTL

-----------------------------------------------------------------------------
(* The engine implements BurstBell.                                        *)
LEMMA BellRing ==
  ASSUME TypeOK, NEW rung \in SUBSET OpenBursts,
         \A b \in rung : rings[b] = 0,
         begun' = begun,
         rings' = [b \in Burst |-> rings[b] + IF b \in rung THEN 1 ELSE 0],
         OpenBursts' \subseteq OpenBursts
  PROVE  Bell!Next
<1>1. CASE rung = {}
  <2>1. rings' = rings
    BY <1>1 DEF TypeOK
  <2> QED
    BY <2>1 DEF Bell!Abandon, Bell!Next
<1>2. CASE rung # {}
  BY <1>2 DEF Bell!Ring, Bell!Next
<1> QED
  BY <1>1, <1>2

LEMMA BellQuiet ==
  ASSUME begun' = begun, rings' = rings, OpenBursts' \subseteq OpenBursts
  PROVE  Bell!Next
  BY DEF Bell!Abandon, Bell!Next

LEMMA OpenShrinks ==
  ASSUME \A i \in SessionId : HasBurst(i)' =>
           HasBurst(i) /\ sessions'[i].burst = sessions[i].burst
  PROVE  OpenBursts' \subseteq OpenBursts
  BY DEF OpenBursts

LEMMA StepImplementsBell == BurstInv /\ [Next]_vars => [Bell!Next]_(Bell!vars)
<1> SUFFICES ASSUME BurstInv, [Next]_vars PROVE [Bell!Next]_(Bell!vars)
  OBVIOUS
<1> USE DEF BurstInv
<1>1. ASSUME NEW i \in SessionId, Request(i) PROVE Bell!Next
  <2>1. /\ \A j \in SessionId \ {i} : sessions'[j] = sessions[j]
        /\ \A j \in SessionId \ {i} : HasBurst(j)' <=> HasBurst(j)
        /\ KeepsBurst(i) \/ BeginsFresh(i) \/ RingsOpen(i)
    BY <1>1, RequestEffect DEF HasBurst, Registered
  <2>2. CASE KeepsBurst(i)
    <3>1. OpenBursts' \subseteq OpenBursts
      BY <2>1, <2>2, OpenShrinks DEF KeepsBurst
    <3> QED
      BY <2>2, <3>1, BellQuiet DEF KeepsBurst
  <2>3. CASE BeginsFresh(i)
    <3>1. PICK b \in Fresh :
            /\ begun' = begun \cup {b}
            /\ rings' = rings
            /\ HasBurst(i)' /\ sessions'[i].burst = b
      BY <2>3 DEF BeginsFresh
    <3>2. b \in OpenBursts' /\ OpenBursts' \subseteq OpenBursts \cup {b}
      BY <2>1, <3>1 DEF OpenBursts
    <3>3. Bell!Begin
      BY <3>1, <3>2 DEF Bell!Begin, Fresh
    <3> QED
      BY <3>3 DEF Bell!Next
  <2>4. CASE RingsOpen(i)
    <3> DEFINE rung == {sessions[i].burst}
    <3>1. rung \in SUBSET OpenBursts
      BY <2>4 DEF RingsOpen, OpenBursts
    <3>2. \A b \in rung : rings[b] = 0
      BY <2>4 DEF RingsOpen, RingsRecorded
    <3>3. rings' = [b \in Burst |-> rings[b] + IF b \in rung THEN 1 ELSE 0]
      <4>1. rings \in [Burst -> Nat] /\ sessions[i].burst \in Burst
        BY <2>4, HasBurstTyped DEF RingsOpen, TypeOK
      <4>2. rings' = [rings EXCEPT ![sessions[i].burst] = @ + 1]
        BY <2>4 DEF RingsOpen
      <4>3. rings' \in [Burst -> Nat]
        BY <4>1, <4>2
      <4>4. ASSUME NEW b \in Burst
            PROVE  rings'[b] = rings[b] + IF b \in rung THEN 1 ELSE 0
        BY <4>1, <4>2
      <4> QED
        BY <4>3, <4>4
    <3>4. OpenBursts' \subseteq OpenBursts
      BY <2>1, <2>4, OpenShrinks DEF RingsOpen
    <3>5. begun' = begun
      BY <2>4 DEF RingsOpen
    <3> QED
      BY <3>1, <3>2, <3>3, <3>4, <3>5, BellRing
  <2> QED
    BY <2>1, <2>2, <2>3, <2>4
<1>2. CASE Tick
  <2> DEFINE rung == {sessions[i].burst : i \in Ringing}
  <2>1. \A i \in Ringing :
          i \in SessionId /\ HasBurst(i) /\ rings[sessions[i].burst] = 0
    BY DueHasBurst DEF Ringing, RingsAutomatically, RingsRecorded
  <2>2. rung \in SUBSET OpenBursts /\ \A b \in rung : rings[b] = 0
    BY <2>1 DEF OpenBursts
  <2>3. \A b \in Burst : b \in rung <=> \E i \in Ringing : sessions[i].burst = b
    OBVIOUS
  <2>4. rings' = [b \in Burst |-> rings[b] + IF b \in rung THEN 1 ELSE 0]
    BY <1>2, <2>3 DEF Tick
  <2>5. OpenBursts' \subseteq OpenBursts
    BY <1>2, TickBursts, OpenShrinks
  <2>6. begun' = begun
    BY <1>2 DEF Tick
  <2> QED
    BY <2>2, <2>4, <2>5, <2>6, BellRing
<1>3. CASE CleanupStale
  <2>1. \A i \in SessionId : HasBurst(i)' => HasBurst(i) /\ sessions'[i] = sessions[i]
    BY <1>3 DEF CleanupStale, HasBurst, Registered
  <2>2. OpenBursts' \subseteq OpenBursts
    BY <2>1, OpenShrinks
  <2> QED
    BY <1>3, <2>2, BellQuiet DEF CleanupStale
<1>4. CASE PassTime \/ UNCHANGED vars
  BY <1>4 DEF PassTime, vars, Bell!vars, OpenBursts, HasBurst, Registered
<1> QED
  BY <1>1, <1>2, <1>3, <1>4 DEF Next

(* The engine implements the abstract bell: bursts begin once, ring at     *)
(* most once while open, and never after they are over.                    *)
THEOREM ImplementsBell == Spec => BellSpec
<1>1. Init => Bell!Init
  BY DEF Init, Bell!Init, OpenBursts, HasBurst, Registered
<1> QED
  BY <1>1, StepImplementsBell, AlwaysBurstInv, PTL DEF Spec, BellSpec, Bell!Spec
-----------------------------------------------------------------------------
(* The timers and the single ring of `once`.  What OnceUnspent and         *)
(* TimersAgree say of one session: its record s, the clock t, since when   *)
(* its shell is at the prompt, its foreground time and its last arming.    *)
TimerSound(s, t, atPrompt, ran) ==
  /\ s.burst # None => DisplayedActive(s, t) = ran
  /\ s.state = "settling" => atPrompt # None /\ s.deadline = atPrompt + s.idle
  /\ s.burst # None /\ s.state = "active" => s.started <= t /\ atPrompt = None

OnceSound(s, armed) ==
  /\ s.mode = "once" => armed.rings = 0
  /\ s.mode = "persistent" => ~armed.once

EveryTimerSound == \A i \in SessionId : Registered(i) =>
  TimerSound(sessions[i], now, prompt[i], foreground[i])

EveryOnceSound == \A i \in SessionId : Registered(i) =>
  OnceSound(sessions[i], arming[i])

LEMMA TimersPerSession ==
  /\ TimersAgree <=> EveryTimerSound
  /\ TimersAgree' <=> EveryTimerSound'
  /\ OnceUnspent <=> OneRingPerOnce /\ EveryOnceSound
  /\ OnceUnspent' <=> OneRingPerOnce' /\ EveryOnceSound'
  BY DEF TimersAgree, CreditedTimeIsForegroundTime, DeadlineCountsFromPrompt,
         HasBurst, TimerSound, EveryTimerSound, OnceUnspent, OnceSound, EveryOnceSound

(* A session without a burst has no timer that could be wrong. *)
LEMMA IdleTimers ==
  ASSUME NEW s \in SessionRecord, s.burst = None, s.state # "settling",
         NEW t, NEW atPrompt, NEW ran
  PROVE  TimerSound(s, t, atPrompt, ran)
  BY DEF TimerSound

(* What the requests do to a session whose timers and ring are right.      *)
LEMMA NewSessionTimers ==
  ASSUME NEW minimum \in Nat, NEW idle \in Nat, NEW wall \in Int,
         NEW t, NEW atPrompt, NEW ran, NEW armed
  PROVE  /\ TimerSound(NewSession(minimum, idle, wall), t, atPrompt, ran)
         /\ OnceSound(NewSession(minimum, idle, wall), armed)
  BY DEF TimerSound, OnceSound, NewSession

LEMMA TouchTimers ==
  ASSUME NEW s \in SessionRecord, NEW wall \in Int,
         NEW t, NEW atPrompt, NEW ran, NEW armed
  PROVE  /\ TimerSound(s, t, atPrompt, ran) =>
              TimerSound(Touch(s, wall), t, atPrompt, ran)
         /\ OnceSound(s, armed) => OnceSound(Touch(s, wall), armed)
  BY DEF TimerSound, OnceSound, Touch, DisplayedActive, SessionRecord

LEMMA DisarmTimers ==
  ASSUME NEW s \in SessionRecord, NEW wall \in Int,
         NEW t, NEW atPrompt, NEW ran, NEW armed
  PROVE  /\ TimerSound(Disarm(s, wall), t, atPrompt, ran)
         /\ OnceSound(Disarm(s, wall), armed)
  BY DEF TimerSound, OnceSound, Disarm, ResetBurst, SessionRecord

LEMMA BeginBurstTimers ==
  ASSUME NEW s \in SessionRecord, NEW b, NEW t \in Nat, NEW armed
  PROVE  /\ TimerSound(BeginBurst(s, b, t), t, None, 0)
         /\ OnceSound(s, armed) => OnceSound(BeginBurst(s, b, t), armed)
  BY NoneAssumption
  DEF TimerSound, OnceSound, BeginBurst, DisplayedActive, Monus, SessionRecord

LEMMA CommandStartTimers ==
  ASSUME NEW s \in SessionRecord, Coherent(s), NEW b, NEW t \in Nat,
         NEW atPrompt, NEW ran \in Nat, NEW armed,
         TimerSound(s, t, atPrompt, ran), OnceSound(s, armed)
  PROVE  /\ TimerSound(CommandStart(s, b, t, t), t, None,
                       IF StartsBurst(s) THEN 0 ELSE ran)
         /\ OnceSound(CommandStart(s, b, t, t), armed)
<1> DEFINE u == Touch(s, t)
<1>1. /\ u \in SessionRecord /\ Coherent(u) /\ u.state = s.state
      /\ TimerSound(u, t, atPrompt, ran) /\ OnceSound(u, armed)
  <2>1. t \in Int
    OBVIOUS
  <2> QED
    BY <2>1, TouchFacts, TouchTimers DEF Touch, SessionRecord
<1> HIDE DEF u
<1>2. CASE s.state = "armed"
  BY <1>1, <1>2, BeginBurstTimers DEF CommandStart, StartsBurst, u
<1>3. CASE s.state = "settling"
  <2>1. CommandStart(s, b, t, t) = ResumeBurst(u, t)
    BY <1>3 DEF CommandStart, u
  <2>2. u.started = None /\ u.acc \in Nat /\ u.burst # None
    BY <1>1, <1>3 DEF Coherent, SessionRecord
  <2>3. u.acc = ran
    BY <1>1, <2>2 DEF TimerSound, DisplayedActive
  <2>4. TimerSound(ResumeBurst(u, t), t, None, ran)
    BY <1>1, <2>2, <2>3, NoneAssumption
    DEF TimerSound, ResumeBurst, DisplayedActive, Monus, SessionRecord
  <2>5. OnceSound(ResumeBurst(u, t), armed)
    BY <1>1 DEF OnceSound, ResumeBurst, SessionRecord
  <2> QED
    BY <1>3, <2>1, <2>4, <2>5 DEF StartsBurst
<1>4. CASE s.state \notin {"armed", "settling"}
  <2>1. CommandStart(s, b, t, t) = u
    BY <1>4 DEF CommandStart, u
  <2>2. TimerSound(u, t, None, ran)
    BY <1>1, <1>4 DEF TimerSound
  <2> QED
    BY <1>1, <1>4, <2>1, <2>2 DEF StartsBurst
<1> QED
  BY <1>2, <1>3, <1>4

LEMMA PromptReadyTimers ==
  ASSUME NEW s \in SessionRecord, Coherent(s), NEW t \in Nat,
         NEW atPrompt \in Nat \cup {None}, NEW ran \in Nat, NEW armed,
         TimerSound(s, t, atPrompt, ran), OnceSound(s, armed)
  PROVE  /\ TimerSound(PromptReady(s, t, t), t,
                       IF atPrompt = None THEN t ELSE atPrompt, ran)
         /\ OnceSound(PromptReady(s, t, t), armed)
<1> DEFINE u == Touch(s, t)
<1>1. /\ u \in SessionRecord /\ Coherent(u) /\ u.state = s.state
      /\ TimerSound(u, t, atPrompt, ran) /\ OnceSound(u, armed)
  <2>1. t \in Int
    OBVIOUS
  <2> QED
    BY <2>1, TouchFacts, TouchTimers DEF Touch, SessionRecord
<1> HIDE DEF u
<1>2. CASE s.state = "active"
  <2>1. PromptReady(s, t, t) = SettleFrom(u, t, t)
    BY <1>2 DEF PromptReady, u
  <2>2. atPrompt = None /\ DisplayedActive(u, t) = ran /\ u.idle \in Nat
    BY <1>1, <1>2 DEF TimerSound, Coherent, SessionRecord
  <2>3. SettleFrom(u, t, t)
          = [u EXCEPT !.acc = ran, !.started = None, !.state = "settling",
                      !.deadline = t + u.idle, !.deadlineWall = t + u.idle]
    BY <2>2 DEF SettleFrom
  <2>4. TimerSound(SettleFrom(u, t, t), t, t, ran)
    BY <1>1, <2>2, <2>3, NoneAssumption DEF TimerSound, DisplayedActive, SessionRecord
  <2>5. OnceSound(SettleFrom(u, t, t), armed)
    BY <1>1, <2>3 DEF OnceSound, SessionRecord
  <2> QED
    BY <2>1, <2>2, <2>4, <2>5
<1>3. CASE s.state # "active"
  <2>1. PromptReady(s, t, t) = u
    BY <1>3 DEF PromptReady, u
  <2>2. TimerSound(u, t, IF atPrompt = None THEN t ELSE atPrompt, ran)
    BY <1>1, <1>3 DEF TimerSound
  <2> QED
    BY <1>1, <2>1, <2>2
<1> QED
  BY <1>2, <1>3

(* A ring that counts spends the ring of a session in once mode. *)
LEMMA ManualRingTimers ==
  ASSUME NEW s \in SessionRecord, Coherent(s), NEW t \in Nat,
         NEW atPrompt, NEW ran, NEW armed \in [once : BOOLEAN, rings : Nat],
         TimerSound(s, t, atPrompt, ran), OnceSound(s, armed)
  PROVE  /\ TimerSound(ManualRing(s, t), t, atPrompt, ran)
         /\ ~(Associated(s) /\ ~Suppressed(s)) => OnceSound(ManualRing(s, t), armed)
         /\ Associated(s) /\ ~Suppressed(s) =>
              /\ OnceSound(ManualRing(s, t), [armed EXCEPT !.rings = @ + 1])
              /\ armed.once => armed.rings = 0
<1>0. t \in Int
  OBVIOUS
<1>1. CASE ~Associated(s) \/ s.notified
  BY <1>0, <1>1, TouchTimers DEF ManualRing, Suppressed
<1>2. CASE Associated(s) /\ ~s.notified
  <2>1. s.mode \in {"persistent", "once"} /\ (armed.once => s.mode = "once")
    BY <1>2 DEF Associated, Coherent, SessionRecord, Mode, OnceSound
  <2>2. CASE s.mode = "once"
    BY <1>0, <1>2, <2>2, DisarmTimers DEF ManualRing, OnceSound
  <2>3. CASE s.mode # "once"
    <3>1. ManualRing(s, t) = [s EXCEPT !.lastSeen = t, !.notified = TRUE]
      BY <1>2, <2>3 DEF ManualRing
    <3>2. TimerSound(ManualRing(s, t), t, atPrompt, ran)
      BY <3>1 DEF TimerSound, DisplayedActive, SessionRecord
    <3>3. OnceSound(ManualRing(s, t), [armed EXCEPT !.rings = @ + 1])
      BY <2>1, <2>3, <3>1 DEF OnceSound, SessionRecord
    <3> QED
      BY <1>2, <2>1, <2>3, <3>2, <3>3 DEF Suppressed
  <2> QED
    BY <2>2, <2>3
<1> QED
  BY <1>1, <1>2

LEMMA SettleTimers ==
  ASSUME NEW s \in SessionRecord, Coherent(s), s.state = "settling", NEW t \in Nat,
         NEW atPrompt, NEW ran, NEW armed \in [once : BOOLEAN, rings : Nat],
         OnceSound(s, armed)
  PROVE  /\ TimerSound(Settle(s, t), t, atPrompt, ran)
         /\ ~RingsAutomatically(s) => OnceSound(Settle(s, t), armed)
         /\ RingsAutomatically(s) =>
              /\ OnceSound(Settle(s, t), [armed EXCEPT !.rings = @ + 1])
              /\ armed.once => armed.rings = 0
<1>1. s.mode \in {"persistent", "once"}
  BY DEF Coherent, SessionRecord, Mode
<1>2. /\ Settle(s, t) \in SessionRecord /\ Settle(s, t).burst = None
      /\ Coherent(Settle(s, t))
  <2>1. t \in Int
    OBVIOUS
  <2> QED
    BY <2>1, SettleFacts
<1>3. Settle(s, t).state # "settling"
  BY <1>2 DEF Coherent
<1>4. Settle(s, t).mode = IF RingsAutomatically(s) /\ s.mode = "once"
                          THEN "off" ELSE s.mode
  BY DEF Settle, ResetAfterBurst, ResetBurst, SessionRecord
<1>5. TimerSound(Settle(s, t), t, atPrompt, ran)
  BY <1>2, <1>3, IdleTimers
<1>6. ~RingsAutomatically(s) => OnceSound(Settle(s, t), armed)
  BY <1>4 DEF OnceSound
<1>7. RingsAutomatically(s) =>
        OnceSound(Settle(s, t), [armed EXCEPT !.rings = @ + 1])
  BY <1>1, <1>4 DEF OnceSound
<1>8. armed.once => armed.rings = 0
  BY <1>1 DEF OnceSound
<1> QED
  BY <1>5, <1>6, <1>7, <1>8

(* One request: its own session, its observers, and the clock stand still  *)
(* for all the others.                                                     *)
TimingInv == TypeOK /\ SessionsCoherent /\ OnceUnspent /\ TimersAgree

LEMMA RequestKeepsTiming ==
  ASSUME TimingInv, NEW i \in SessionId, Request(i)
  PROVE  OnceUnspent' /\ TimersAgree'
<1> USE NoneAssumption
<1> DEFINE timer(j) == Registered(j) =>
                         TimerSound(sessions[j], now, prompt[j], foreground[j])
           once(j)  == Registered(j) => OnceSound(sessions[j], arming[j])
           spent(j) == arming[j].once => arming[j].rings <= 1
<1>1. \A j \in SessionId : timer(j) /\ once(j) /\ spent(j)
  BY TimersPerSession DEF EveryTimerSound, EveryOnceSound, TimingInv, OneRingPerOnce
<1>2. /\ now \in Nat /\ now \in Int /\ now' = now
      /\ foreground[i] \in Nat /\ prompt[i] \in Nat \cup {None}
      /\ arming[i] \in [once : BOOLEAN, rings : Nat]
      /\ Registered(i) => sessions[i] \in SessionRecord /\ Coherent(sessions[i])
  BY RegisteredTyped
  DEF TimingInv, TypeOK, SessionsCoherent, Request, SessionOpen, SessionClose,
      ArmSession, DisarmSession, LabelSession, HandleCommandStart,
      HandlePromptReady, HandleManualRing
<1>3. ASSUME NEW t, sessions' = [sessions EXCEPT ![i] = t]
      PROVE  sessions'[i] = t
  BY <1>3 DEF TimingInv, TypeOK
<1>4. \A j \in SessionId \ {i} :
         /\ sessions'[j] = sessions[j] /\ prompt'[j] = prompt[j]
         /\ foreground'[j] = foreground[j] /\ arming'[j] = arming[j]
  <2>1. \A j \in SessionId \ {i} : sessions'[j] = sessions[j]
    BY RequestFacts DEF TimingInv, TypeOK
  <2>2. \A j \in SessionId \ {i} :
           /\ prompt'[j] = prompt[j] /\ foreground'[j] = foreground[j]
           /\ arming'[j] = arming[j]
    BY DEF TimingInv, TypeOK, Request, SessionOpen, SessionClose,
           ArmSession, DisarmSession, LabelSession, HandleCommandStart,
           HandlePromptReady, HandleManualRing
  <2> QED
    BY <2>1, <2>2
<1>5. \A j \in SessionId \ {i} : timer(j)' /\ once(j)' /\ spent(j)'
  BY <1>1, <1>2, <1>4 DEF Registered
<1>6. timer(i)' /\ once(i)' /\ spent(i)'
  <2>1. CASE SessionOpen(i)
    <3>1. PICK minimum \in Minimum, idle \in Idle :
            sessions' = [sessions EXCEPT ![i] =
                           IF Registered(i) THEN Touch(sessions[i], now)
                           ELSE NewSession(minimum, idle, now)]
      BY <2>1 DEF SessionOpen
    <3>2. minimum \in Nat /\ idle \in Nat
      BY ActivityAssumption
    <3>3. sessions'[i] = IF Registered(i) THEN Touch(sessions[i], now)
                         ELSE NewSession(minimum, idle, now)
      BY <1>3, <3>1
    <3>4. prompt' = prompt /\ foreground' = foreground /\ arming' = arming
      BY <2>1 DEF SessionOpen
    <3>5. CASE Registered(i)
      <4>1. /\ TimerSound(Touch(sessions[i], now), now, prompt[i], foreground[i])
            /\ OnceSound(Touch(sessions[i], now), arming[i])
        BY <1>1, <1>2, <3>5, TouchTimers
      <4> QED
        BY <1>1, <1>2, <3>3, <3>4, <3>5, <4>1
    <3>6. CASE ~Registered(i)
      <4>1. /\ TimerSound(NewSession(minimum, idle, now), now, prompt[i], foreground[i])
            /\ OnceSound(NewSession(minimum, idle, now), arming[i])
        BY <1>2, <3>2, NewSessionTimers
      <4> QED
        BY <1>1, <1>2, <3>3, <3>4, <3>6, <4>1
    <3> QED
      BY <3>5, <3>6
  <2>2. CASE SessionClose(i)
    BY <1>1, <1>3, <2>2 DEF SessionClose, Registered
  <2>3. CASE \E mode \in {"persistent", "once"}, minimum \in Minimum, idle \in Idle :
               ArmSession(i, mode, minimum, idle)
    <3>1. PICK mode \in {"persistent", "once"}, minimum \in Minimum, idle \in Idle :
            ArmSession(i, mode, minimum, idle)
      BY <2>3
    <3>2. PICK b \in Fresh :
            sessions' = [sessions EXCEPT ![i] =
                           ArmAndStart(@, mode, minimum, idle, b, now, now)]
      BY <3>1 DEF ArmSession
    <3> DEFINE u    == Arm(sessions[i], mode, minimum, idle, now)
               last == [once |-> (mode = "once"), rings |-> 0]
    <3>3. /\ Registered(i) /\ minimum \in Nat /\ idle \in Nat
          /\ prompt'[i] = None /\ foreground'[i] = 0 /\ arming'[i] = last
      BY <3>1, ActivityAssumption DEF ArmSession, TimingInv, TypeOK
    <3>4. u \in SessionRecord /\ Coherent(u)
      BY <1>2, <3>3, ArmFacts
    <3>5. u.state = "armed" /\ u.burst = None /\ u.mode = mode
      BY <1>2, <3>3 DEF Arm, ResetBurst, SessionRecord
    <3>6. sessions'[i] = CommandStart(u, b, now, now)
      BY <1>3, <3>2 DEF ArmAndStart
    <3> HIDE DEF u
    <3>7. TimerSound(u, now, None, 0) /\ OnceSound(u, last)
      BY <3>4, <3>5, IdleTimers DEF OnceSound
    <3>8. /\ TimerSound(CommandStart(u, b, now, now), now, None, 0)
          /\ OnceSound(CommandStart(u, b, now, now), last)
      BY <1>2, <3>4, <3>5, <3>7, CommandStartTimers DEF StartsBurst
    <3> QED
      BY <1>2, <3>3, <3>6, <3>8
  <2>4. CASE DisarmSession(i)
    BY <1>1, <1>2, <1>3, <2>4, DisarmTimers DEF DisarmSession
  <2>5. CASE LabelSession(i)
    BY <1>1, <1>2, <1>3, <2>5, TouchTimers DEF LabelSession, SetLabel
  <2>6. CASE HandleCommandStart(i)
    <3>1. PICK b : sessions' = [sessions EXCEPT ![i] = CommandStart(@, b, now, now)]
      BY <2>6 DEF HandleCommandStart
    <3>2. /\ Registered(i) /\ arming' = arming /\ prompt'[i] = None
          /\ foreground'[i] = IF StartsBurst(sessions[i]) THEN 0 ELSE foreground[i]
      BY <2>6 DEF HandleCommandStart, TimingInv, TypeOK
    <3>3. /\ TimerSound(CommandStart(sessions[i], b, now, now), now, None,
                        IF StartsBurst(sessions[i]) THEN 0 ELSE foreground[i])
          /\ OnceSound(CommandStart(sessions[i], b, now, now), arming[i])
      BY <1>1, <1>2, <3>2, CommandStartTimers
    <3> QED
      BY <1>1, <1>2, <1>3, <3>1, <3>2, <3>3
  <2>7. CASE HandlePromptReady(i)
    <3>1. /\ Registered(i) /\ arming' = arming /\ foreground' = foreground
          /\ sessions' = [sessions EXCEPT ![i] = PromptReady(@, now, now)]
          /\ prompt'[i] = IF prompt[i] = None THEN now ELSE prompt[i]
      BY <2>7 DEF HandlePromptReady, TimingInv, TypeOK
    <3>2. /\ TimerSound(PromptReady(sessions[i], now, now), now,
                        IF prompt[i] = None THEN now ELSE prompt[i], foreground[i])
          /\ OnceSound(PromptReady(sessions[i], now, now), arming[i])
      BY <1>1, <1>2, <3>1, PromptReadyTimers
    <3> QED
      BY <1>1, <1>2, <1>3, <3>1, <3>2
  <2>8. CASE HandleManualRing(i)
    <3>1. /\ Registered(i) /\ prompt' = prompt /\ foreground' = foreground
          /\ sessions'[i] = ManualRing(sessions[i], now)
      BY <1>3, <2>8 DEF HandleManualRing
    <3>2. TimerSound(ManualRing(sessions[i], now), now, prompt[i], foreground[i])
      BY <1>1, <1>2, <3>1, ManualRingTimers
    <3>3. CASE Associated(sessions[i]) /\ ~Suppressed(sessions[i])
      <4>1. arming' = [arming EXCEPT ![i].rings = @ + 1]
        BY <2>8, <3>3 DEF HandleManualRing
      <4>2. arming'[i] = [arming[i] EXCEPT !.rings = @ + 1]
        BY <4>1 DEF TimingInv, TypeOK
      <4>3. /\ OnceSound(ManualRing(sessions[i], now), arming'[i])
            /\ arming[i].once => arming[i].rings = 0
        BY <1>1, <1>2, <3>1, <3>3, <4>2, ManualRingTimers
      <4>4. spent(i)'
        BY <1>2, <4>2, <4>3
      <4> QED
        BY <1>2, <3>1, <3>2, <4>3, <4>4
    <3>4. CASE ~(Associated(sessions[i]) /\ ~Suppressed(sessions[i]))
      <4>1. arming' = arming
        BY <2>8, <3>4 DEF HandleManualRing
      <4>2. OnceSound(ManualRing(sessions[i], now), arming[i])
        BY <1>1, <1>2, <3>1, <3>4, ManualRingTimers
      <4> QED
        BY <1>1, <1>2, <3>1, <3>2, <4>1, <4>2
    <3> QED
      BY <3>3, <3>4
  <2> QED
    BY <2>1, <2>2, <2>3, <2>4, <2>5, <2>6, <2>7, <2>8 DEF Request
<1>7. \A j \in SessionId : timer(j)' /\ once(j)' /\ spent(j)'
  BY <1>5, <1>6
<1>8. TimersAgree'
  BY <1>7, TimersPerSession DEF EveryTimerSound
<1>9. OnceUnspent'
  BY <1>7, TimersPerSession DEF EveryTimerSound, EveryOnceSound, OneRingPerOnce
<1> QED
  BY <1>8, <1>9

LEMMA TickKeepsTiming ==
  ASSUME TimingInv, Tick
  PROVE  OnceUnspent' /\ TimersAgree'
<1>1. \A j \in SessionId :
         /\ Registered(j) => /\ TimerSound(sessions[j], now, prompt[j], foreground[j])
                             /\ OnceSound(sessions[j], arming[j])
         /\ arming[j].once => arming[j].rings <= 1
  BY TimersPerSession DEF EveryTimerSound, EveryOnceSound, TimingInv, OneRingPerOnce
<1>2. now \in Nat /\ UNCHANGED <<now, prompt, foreground>>
  BY DEF Tick, TimingInv, TypeOK
<1>3. ASSUME NEW j \in SessionId
      PROVE  /\ Registered(j)' => /\ TimerSound(sessions[j], now, prompt[j], foreground[j])'
                                  /\ OnceSound(sessions[j], arming[j])'
             /\ arming'[j].once => arming'[j].rings <= 1
  <2>1. arming[j] \in [once : BOOLEAN, rings : Nat]
    BY DEF TimingInv, TypeOK
  <2>2. CASE j \in DueSessions
    <3>1. /\ sessions[j] \in SessionRecord /\ Coherent(sessions[j])
          /\ sessions[j].state = "settling"
          /\ OnceSound(sessions[j], arming[j])
      BY <1>1, <2>2, RegisteredTyped DEF TimingInv, DueSessions, Due, SessionsCoherent
    <3>2. /\ sessions'[j] = Settle(sessions[j], now)
          /\ arming'[j] = IF RingsAutomatically(sessions[j])
                          THEN [arming[j] EXCEPT !.rings = @ + 1] ELSE arming[j]
      BY <2>2 DEF Tick, Ringing
    <3>3. /\ TimerSound(Settle(sessions[j], now), now, prompt[j], foreground[j])
          /\ OnceSound(Settle(sessions[j], now), arming'[j])
          /\ RingsAutomatically(sessions[j]) /\ arming[j].once => arming[j].rings = 0
      <4>1. /\ TimerSound(Settle(sessions[j], now), now, prompt[j], foreground[j])
            /\ ~RingsAutomatically(sessions[j]) =>
                 OnceSound(Settle(sessions[j], now), arming[j])
            /\ RingsAutomatically(sessions[j]) =>
                 /\ OnceSound(Settle(sessions[j], now), [arming[j] EXCEPT !.rings = @ + 1])
                 /\ arming[j].once => arming[j].rings = 0
        BY <1>2, <2>1, <3>1, SettleTimers
      <4> QED
        BY <3>2, <4>1
    <3>4. arming'[j].once => arming'[j].rings <= 1
      BY <1>1, <2>1, <3>2, <3>3
    <3> QED
      BY <1>2, <3>2, <3>3, <3>4
  <2>3. CASE j \notin DueSessions
    <3>1. sessions'[j] = sessions[j] /\ arming'[j] = arming[j]
      BY <2>3 DEF Tick, Ringing
    <3> QED
      BY <1>1, <1>2, <3>1 DEF Registered
  <2> QED
    BY <2>2, <2>3
<1>4. TimersAgree'
  BY <1>3, TimersPerSession DEF EveryTimerSound
<1>5. OnceUnspent'
  BY <1>3, TimersPerSession DEF EveryTimerSound, EveryOnceSound, OneRingPerOnce
<1> QED
  BY <1>4, <1>5

(* While a burst is active its command runs: one unit of time is one unit  *)
(* of displayed activity.  Once it settles, neither side counts.           *)
LEMMA PassTimeKeepsTiming ==
  ASSUME TimingInv, PassTime
  PROVE  OnceUnspent' /\ TimersAgree'
<1>1. \A j \in SessionId : Registered(j) =>
         /\ sessions[j] \in SessionRecord /\ Coherent(sessions[j])
         /\ TimerSound(sessions[j], now, prompt[j], foreground[j])
  BY RegisteredTyped, TimersPerSession DEF EveryTimerSound, TimingInv, SessionsCoherent
<1>2. /\ now \in Nat /\ now' = now + 1
      /\ UNCHANGED <<sessions, prompt, arming>>
  BY DEF PassTime, TimingInv, TypeOK
<1>3. ASSUME NEW j \in SessionId, Registered(j)
      PROVE  TimerSound(sessions[j], now', prompt[j], foreground'[j])
  <2>1. foreground'[j] = IF sessions[j].burst # None /\ prompt[j] = None
                         THEN foreground[j] + 1 ELSE foreground[j]
    BY <1>3 DEF PassTime, HasBurst
  <2>2. /\ sessions[j] \in SessionRecord /\ Coherent(sessions[j])
        /\ TimerSound(sessions[j], now, prompt[j], foreground[j])
        /\ foreground[j] \in Nat
    BY <1>1, <1>3 DEF TimingInv, TypeOK
  <2> DEFINE s == sessions[j]
  <2>3. s.acc \in Nat /\ s.started \in Nat \cup {None}
    BY <2>2 DEF SessionRecord
  <2>4. CASE s.state = "active"
    <3>1. s.burst # None /\ s.started \in Nat /\ s.started # None
      BY <2>2, <2>3, <2>4 DEF Coherent
    <3>2. s.started <= now /\ prompt[j] = None /\ DisplayedActive(s, now) = foreground[j]
      BY <2>2, <2>4, <3>1 DEF TimerSound
    <3>3. DisplayedActive(s, now) = s.acc + (now - s.started)
      BY <1>2, <2>3, <3>1, <3>2 DEF DisplayedActive, Monus
    <3>4. DisplayedActive(s, now') = s.acc + (now + 1 - s.started)
      BY <1>2, <2>3, <3>1, <3>2 DEF DisplayedActive, Monus
    <3>5. DisplayedActive(s, now') = foreground'[j]
      BY <1>2, <2>1, <2>2, <2>3, <3>1, <3>2, <3>3, <3>4
    <3> QED
      BY <1>2, <2>4, <3>1, <3>2, <3>5 DEF TimerSound
  <2>5. CASE s.state # "active"
    <3>1. s.started = None /\ (s.burst # None => s.state = "settling" /\ prompt[j] # None)
      BY <2>2, <2>5 DEF Coherent, TimerSound
    <3>2. DisplayedActive(s, now') = DisplayedActive(s, now)
      BY <3>1 DEF DisplayedActive
    <3> QED
      BY <2>1, <2>2, <2>5, <3>1, <3>2 DEF TimerSound
  <2> QED
    BY <2>4, <2>5
<1>4. TimersAgree'
  BY <1>2, <1>3, TimersPerSession DEF EveryTimerSound, EveryOnceSound, Registered
<1>5. OnceUnspent'
  BY <1>2 DEF TimingInv, OnceUnspent, OneRingPerOnce, Registered
<1> QED
  BY <1>4, <1>5

LEMMA StepKeepsTiming == TimingInv /\ [Next]_vars => TimingInv'
<1> SUFFICES ASSUME TimingInv, [Next]_vars PROVE TimingInv'
  OBVIOUS
<1>1. TypeOK' /\ SessionsCoherent'
  BY StepTyped, StepCoherent DEF TimingInv
<1>2. CASE \E i \in SessionId : Request(i)
  BY <1>1, <1>2, RequestKeepsTiming DEF TimingInv
<1>3. CASE Tick
  BY <1>1, <1>3, TickKeepsTiming DEF TimingInv
<1>4. CASE CleanupStale
  <2>1. /\ UNCHANGED <<now, prompt, foreground, arming>>
        /\ \A j \in SessionId : Registered(j)' => Registered(j) /\ sessions'[j] = sessions[j]
    BY <1>4 DEF CleanupStale, Registered
  <2>2. TimersAgree'
    BY <2>1, TimersPerSession DEF EveryTimerSound, EveryOnceSound, TimingInv
  <2>3. OnceUnspent'
    BY <2>1 DEF TimingInv, OnceUnspent, OneRingPerOnce
  <2> QED
    BY <1>1, <2>2, <2>3 DEF TimingInv
<1>5. CASE PassTime
  BY <1>1, <1>5, PassTimeKeepsTiming DEF TimingInv
<1>6. CASE UNCHANGED vars
  <2>1. UNCHANGED <<sessions, now, prompt, foreground, arming>>
    BY <1>6 DEF vars
  <2>2. TimersAgree'
    BY <2>1, TimersPerSession DEF EveryTimerSound, EveryOnceSound, TimingInv, Registered
  <2>3. OnceUnspent'
    BY <2>1 DEF TimingInv, OnceUnspent, OneRingPerOnce, Registered
  <2> QED
    BY <1>1, <2>2, <2>3 DEF TimingInv
<1> QED
  BY <1>2, <1>3, <1>4, <1>5, <1>6 DEF Next

(* The whole inductive invariant of Activity: types, coherence of the      *)
(* sessions, bursts and their rings, the single ring of once, the timers.  *)
THEOREM Inductive == Spec => []IInv
<1>1. Init => TimingInv
  <2> SUFFICES ASSUME Init PROVE TimingInv
    OBVIOUS
  <2>1. TypeOK /\ SessionsCoherent
    BY ActivityAssumption DEF Init, TypeOK, SessionsCoherent, Registered
  <2>2. OnceUnspent /\ TimersAgree
    BY TimersPerSession
    DEF EveryTimerSound, EveryOnceSound, Init, OneRingPerOnce, Registered
  <2> QED
    BY <2>1, <2>2 DEF TimingInv
<1>2. Spec => []TimingInv
  BY <1>1, StepKeepsTiming, PTL DEF Spec
<1>3. BurstInv /\ TimingInv => IInv
  BY DEF BurstInv, TimingInv, IInv
<1> QED
  BY <1>2, <1>3, AlwaysBurstInv, PTL

(* `shellbell once` is one ring: the bursts of a session armed that way    *)
(* ask for at most one until it is armed again, whatever mixture of manual *)
(* rings and settled bursts there is in between.                           *)
THEOREM OnceIsOnce == Spec => []OneRingPerOnce
<1>1. IInv => OneRingPerOnce
  BY DEF IInv, OnceUnspent
<1> QED
  BY <1>1, Inductive, PTL

(* The credited time of a burst is the time its commands ran, however the  *)
(* hooks repeat command_start and prompt_ready.                            *)
THEOREM CreditIsExact == Spec => []CreditedTimeIsForegroundTime
<1>1. IInv => CreditedTimeIsForegroundTime
  BY DEF IInv, TimersAgree
<1> QED
  BY <1>1, Inductive, PTL

(* The deadline of a settling burst is the idle window counted from its    *)
(* prompt; no later request moves it.                                      *)
THEOREM DeadlineIsExact == Spec => []DeadlineCountsFromPrompt
<1>1. IInv => DeadlineCountsFromPrompt
  BY DEF IInv, TimersAgree
<1> QED
  BY <1>1, Inductive, PTL

LEMMA TickRingsEarned ==
  ASSUME IInv, Tick, NEW i \in SessionId, RungBy(i)
  PROVE  /\ sessions[i].mode # "off"
         /\ prompt[i] # None
         /\ now - prompt[i] >= sessions[i].idle
         /\ foreground[i] >= sessions[i].minimum
<1> DEFINE s == sessions[i]
<1>1. HasBurst(i) /\ s \in SessionRecord /\ s.burst \in Burst /\ Coherent(s)
  BY HasBurstTyped DEF RungBy, IInv, SessionsCoherent, HasBurst
<1>2. PICK j \in Ringing : sessions[j].burst = s.burst
  <2>1. rings[s.burst] \in Nat /\ rings'[s.burst] > rings[s.burst]
    BY <1>1 DEF RungBy, IInv, TypeOK
  <2>2. rings'[s.burst] = rings[s.burst] + IF \E j \in Ringing : sessions[j].burst = s.burst
                                           THEN 1 ELSE 0
    BY <1>1 DEF Tick
  <2> QED
    BY <2>1, <2>2
<1>3. j \in SessionId /\ HasBurst(j)
  BY DueHasBurst DEF Ringing, IInv
<1>4. i \in Ringing
  BY <1>1, <1>2, <1>3 DEF IInv, BurstsDistinct
<1>5. s.state = "settling" /\ s.deadline <= now /\ s.acc >= s.minimum
  BY <1>4 DEF Ringing, DueSessions, Due, RingsAutomatically
<1>6. s.mode # "off" /\ s.started = None /\ s.acc \in Nat /\ s.idle \in Nat
  BY <1>1, <1>5 DEF Coherent, SessionRecord
<1>7. TimerSound(s, now, prompt[i], foreground[i])
  BY <1>1, TimersPerSession DEF EveryTimerSound, IInv, HasBurst
<1>8. prompt[i] # None /\ s.deadline = prompt[i] + s.idle
  BY <1>5, <1>7 DEF TimerSound
<1>9. prompt[i] \in Nat /\ now \in Nat
  BY <1>8 DEF IInv, TypeOK
<1>10. foreground[i] = s.acc
  BY <1>1, <1>6, <1>7 DEF TimerSound, DisplayedActive, HasBurst
<1> QED
  BY <1>5, <1>6, <1>8, <1>9, <1>10

(* The timer rings only for a session that is armed, that was at its       *)
(* prompt for the whole idle window, and whose commands ran for            *)
(* minimum_active (ActivityEngine::tick).                                  *)
THEOREM RingsAreEarned == Spec => AutomaticRingIsEarned
<1> DEFINE Earned == Tick => \A i \in SessionId : RungBy(i) =>
                       /\ sessions[i].mode # "off"
                       /\ prompt[i] # None
                       /\ now - prompt[i] >= sessions[i].idle
                       /\ foreground[i] >= sessions[i].minimum
<1>1. IInv /\ [Next]_vars => [Earned]_vars
  BY TickRingsEarned
<1>2. Spec => [][Earned]_vars
  BY <1>1, Inductive, PTL DEF Spec
<1> QED
  BY <1>2 DEF AutomaticRingIsEarned
=============================================================================
