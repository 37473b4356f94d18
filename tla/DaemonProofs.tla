---------------------------- MODULE DaemonProofs ----------------------------
(***************************************************************************)
(* Theorems about Daemon, for any number of shells, requests, crashes and  *)
(* failing transactions.                                                   *)
(*                                                                         *)
(* Both copies of the sessions, in memory and in the table, are tables:    *)
(* the first half follows one through a request, a tick, a save and a      *)
(* recovery; the second half goes through the daemon's actions.            *)
(***************************************************************************)
EXTENDS Daemon, SessionProofs, FiniteSetTheorems, SequenceTheorems,
        WellFoundedInduction

Table == [SessionId -> SessionRecord \cup {None}]

(* How a request changes a burst: it forgets it, leaves it, or draws b.    *)
Continues(s, t, b) ==
  \/ t.burst = None
  \/ t.burst = s.burst /\ t.notified = s.notified
  \/ t.burst = b /\ ~t.notified

(* No deadline is earlier on the clock of the daemon than on the wall.     *)
NotEarly(s, offset) ==
  s.state = "settling" => s.deadlineWall <= s.deadline + offset

-----------------------------------------------------------------------------
(* The operators on one session.                                           *)
LEMMA TouchContinues ==
  ASSUME NEW s \in SessionRecord, NEW w \in Int, NEW b, NEW offset \in Int
  PROVE  /\ Continues(s, Touch(s, w), b)
         /\ NotEarly(s, offset) => NotEarly(Touch(s, w), offset)
         /\ Touch(s, w).state = s.state
         /\ Touch(s, w).burst = s.burst
         /\ Touch(s, w).notified = s.notified
  BY DEF Touch, SessionRecord, Continues, NotEarly

LEMMA CommandStartContinues ==
  ASSUME NEW s \in SessionRecord, NEW m \in Nat, NEW w \in Int,
         NEW b, StartsBurst(s) => b \in Burst, NEW offset \in Int
  PROVE  LET t == CommandStart(s, b, m, w)
         IN  /\ Continues(s, t, b)
             /\ NotEarly(s, offset) => NotEarly(t, offset)
             /\ StartsBurst(s) => t.burst = b /\ ~t.notified
<1> DEFINE u == Touch(s, w)
<1>1. /\ u \in SessionRecord /\ u.state = s.state /\ u.burst = s.burst
      /\ u.notified = s.notified /\ Continues(s, u, b)
      /\ NotEarly(s, offset) => NotEarly(u, offset)
  BY TouchFacts, TouchContinues
<1> HIDE DEF u
<1>2. CASE s.state = "armed"
  <2>1. CommandStart(s, b, m, w) = BeginBurst(u, b, m)
    BY <1>2 DEF CommandStart, u
  <2>2. /\ BeginBurst(u, b, m).burst = b
        /\ ~BeginBurst(u, b, m).notified
        /\ BeginBurst(u, b, m).state = "active"
    BY <1>1 DEF BeginBurst, SessionRecord
  <2> QED
    BY <2>1, <2>2 DEF Continues, NotEarly
<1>3. CASE s.state = "settling"
  <2>1. CommandStart(s, b, m, w) = ResumeBurst(u, m)
    BY <1>3 DEF CommandStart, u
  <2>2. /\ ResumeBurst(u, m).burst = s.burst
        /\ ResumeBurst(u, m).notified = s.notified
        /\ ResumeBurst(u, m).state = "active"
    BY <1>1 DEF ResumeBurst, SessionRecord
  <2> QED
    BY <1>3, <2>1, <2>2 DEF Continues, NotEarly, StartsBurst
<1>4. CASE s.state \notin {"armed", "settling"}
  BY <1>1, <1>4 DEF CommandStart, StartsBurst, u
<1> QED
  BY <1>2, <1>3, <1>4

LEMMA ArmContinues ==
  ASSUME NEW s \in SessionRecord, NEW mode \in {"persistent", "once"},
         NEW minimum \in Nat, NEW idle \in Nat, NEW b \in Burst,
         NEW m \in Nat, NEW w \in Int, NEW offset \in Int
  PROVE  LET t == ArmAndStart(s, mode, minimum, idle, b, m, w)
         IN  /\ t \in SessionRecord /\ Coherent(t)
             /\ Continues(s, t, b) /\ t.burst = b
             /\ NotEarly(t, offset)
<1> DEFINE a == Arm(s, mode, minimum, idle, w)
<1>1. a \in SessionRecord /\ Coherent(a) /\ a.state = "armed"
  <2>1. a.state = "armed"
    BY DEF Arm, ResetBurst, SessionRecord
  <2> QED
    BY <2>1, ArmFacts
<1> HIDE DEF a
<1>2. ArmAndStart(s, mode, minimum, idle, b, m, w) = CommandStart(a, b, m, w)
  BY DEF ArmAndStart, a
<1>3. /\ CommandStart(a, b, m, w).burst = b
      /\ ~CommandStart(a, b, m, w).notified
  BY <1>1, CommandStartContinues, 0 \in Int DEF StartsBurst
<1>4. NotEarly(CommandStart(a, b, m, w), offset)
  BY <1>1, CommandStartContinues DEF NotEarly
<1> QED
  BY <1>1, <1>2, <1>3, <1>4, CommandStartFacts DEF Continues

LEMMA PromptReadyContinues ==
  ASSUME NEW s \in SessionRecord, NEW m \in Nat, NEW w \in Int, NEW b,
         NEW offset \in Int, w - m = offset
  PROVE  /\ Continues(s, PromptReady(s, m, w), b)
         /\ NotEarly(s, offset) => NotEarly(PromptReady(s, m, w), offset)
<1> DEFINE u == Touch(s, w)
<1>1. /\ u \in SessionRecord /\ u.state = s.state /\ u.burst = s.burst
      /\ u.notified = s.notified /\ Continues(s, u, b)
      /\ NotEarly(s, offset) => NotEarly(u, offset)
  BY TouchFacts, TouchContinues
<1> HIDE DEF u
<1>2. CASE s.state = "active"
  <2>1. PromptReady(s, m, w) = SettleFrom(u, m, w)
    BY <1>2 DEF PromptReady, u
  <2>2. /\ SettleFrom(u, m, w).burst = s.burst
        /\ SettleFrom(u, m, w).notified = s.notified
        /\ SettleFrom(u, m, w).deadline = m + u.idle
        /\ SettleFrom(u, m, w).deadlineWall = w + u.idle
    BY <1>1 DEF SettleFrom, SessionRecord
  <2>3. u.idle \in Int
    BY <1>1 DEF SessionRecord
  <2> QED
    BY <2>1, <2>2, <2>3 DEF Continues, NotEarly
<1>3. CASE s.state # "active"
  BY <1>1, <1>3 DEF PromptReady, u
<1> QED
  BY <1>2, <1>3

LEMMA DisarmContinues ==
  ASSUME NEW s \in SessionRecord, NEW w \in Int
  PROVE  /\ Disarm(s, w).burst = None
         /\ Disarm(s, w).state = "disarmed"
  BY DEF Disarm, ResetBurst, SessionRecord

(* Any request the daemon hands to a registered session.                   *)
LEMMA HandledFacts ==
  ASSUME NEW s \in SessionRecord, Coherent(s), NEW r \in RequestRecord,
         r.command \notin {"session_close", "manual_ring"},
         NEW minimum \in Nat, NEW idle \in Nat, NEW b,
         \/ r.command \in {"arm_persistent", "arm_once"}
         \/ r.command = "command_start" /\ StartsBurst(s)
         => b \in Burst,
         NEW offset \in Int, r.wall - r.mono = offset, NotEarly(s, offset)
  PROVE  LET t == Handled(r, s, b, minimum, idle)
         IN  /\ t \in SessionRecord /\ Coherent(t)
             /\ Continues(s, t, b)
             /\ (\/ r.command \in {"arm_persistent", "arm_once"}
                 \/ r.command = "command_start" /\ StartsBurst(s)) => t.burst = b
             /\ NotEarly(t, offset)
<1>1. r.mono \in Nat /\ r.wall \in Int /\ r.command \in AllCommands
  BY DEF RequestRecord
<1>2. CASE r.command \in {"arm_persistent", "arm_once"}
  <2>1. ArmMode(r.command) \in {"persistent", "once"}
    BY DEF ArmMode
  <2>2. Handled(r, s, b, minimum, idle)
          = ArmAndStart(s, ArmMode(r.command), minimum, idle, b, r.mono, r.wall)
    BY <1>2 DEF Handled
  <2> QED
    BY <1>1, <1>2, <2>1, <2>2, ArmContinues
<1>3. CASE r.command = "command_start"
  <2>1. Handled(r, s, b, minimum, idle) = CommandStart(s, b, r.mono, r.wall)
    BY <1>3 DEF Handled
  <2>2. StartsBurst(s) => b \in Burst
    BY <1>3
  <2>3. /\ CommandStart(s, b, r.mono, r.wall) \in SessionRecord
        /\ Coherent(CommandStart(s, b, r.mono, r.wall))
    BY <1>1, <2>2, CommandStartFacts
  <2>4. /\ Continues(s, CommandStart(s, b, r.mono, r.wall), b)
        /\ NotEarly(CommandStart(s, b, r.mono, r.wall), offset)
        /\ StartsBurst(s) => CommandStart(s, b, r.mono, r.wall).burst = b
    BY <1>1, <2>2, CommandStartContinues
  <2> QED
    BY <1>3, <2>1, <2>3, <2>4
<1>4. CASE r.command = "prompt_ready"
  <2>1. Handled(r, s, b, minimum, idle) = PromptReady(s, r.mono, r.wall)
    BY <1>4 DEF Handled
  <2> QED
    BY <1>1, <1>4, <2>1, PromptReadyFacts, PromptReadyContinues
<1>5. CASE r.command = "disarm"
  <2>1. Handled(r, s, b, minimum, idle) = Disarm(s, r.wall)
    BY <1>5 DEF Handled
  <2> QED
    BY <1>1, <1>5, <2>1, DisarmFacts, DisarmContinues DEF Continues, NotEarly
<1>6. CASE r.command \in {"set_label", "session_open"}
  <2>1. Handled(r, s, b, minimum, idle) = Touch(s, r.wall)
    BY <1>6 DEF Handled, SetLabel
  <2> QED
    BY <1>1, <1>6, <2>1, TouchFacts, TouchContinues
<1> QED
  BY <1>1, <1>2, <1>3, <1>4, <1>5, <1>6 DEF AllCommands

(* A manual ring that is not suppressed: of no burst, or of a burst that   *)
(* it forgets or marks.                                                    *)
LEMMA ManualRingContinues ==
  ASSUME NEW s \in SessionRecord, Coherent(s), NEW w \in Int, NEW offset \in Int
  PROVE  LET t == ManualRing(s, w)
         IN  /\ NotEarly(s, offset) => NotEarly(t, offset)
             /\ \/ t.burst = None
                \/ t.burst = s.burst /\ t.notified /\ s.burst # None
<1>1. CASE ~Associated(s)
  <2>1. ManualRing(s, w) = Touch(s, w) /\ s.burst = None
    BY <1>1 DEF ManualRing, Associated, Coherent
  <2> QED
    BY <2>1, TouchContinues
<1>2. CASE Associated(s) /\ s.notified
  <2>1. ManualRing(s, w) = Touch(s, w)
    BY <1>2 DEF ManualRing
  <2> QED
    BY <1>2, <2>1, TouchContinues DEF Associated
<1>3. CASE Associated(s) /\ ~s.notified /\ s.mode = "once"
  <2>1. ManualRing(s, w) = Disarm(s, w)
    BY <1>3 DEF ManualRing
  <2> QED
    BY <2>1, DisarmContinues DEF NotEarly
<1>4. CASE Associated(s) /\ ~s.notified /\ s.mode # "once"
  <2>1. ManualRing(s, w) = [s EXCEPT !.lastSeen = w, !.notified = TRUE]
    BY <1>4 DEF ManualRing
  <2>2. /\ ManualRing(s, w).notified
        /\ ManualRing(s, w).burst = s.burst
    BY <2>1 DEF SessionRecord
  <2>3. /\ ManualRing(s, w).state = s.state
        /\ ManualRing(s, w).deadline = s.deadline
        /\ ManualRing(s, w).deadlineWall = s.deadlineWall
    BY <2>1 DEF SessionRecord
  <2> QED
    BY <1>4, <2>2, <2>3 DEF NotEarly, Associated
<1> QED
  BY <1>1, <1>2, <1>3, <1>4

(* A tick forgets the burst of a session that is due and arms it again, in *)
(* the same mode unless it rang.                                           *)
LEMMA SettleContinues ==
  ASSUME NEW s \in SessionRecord, Coherent(s), s.state = "settling", NEW w \in Int
  PROVE  /\ Settle(s, w).state # "settling"
         /\ ~RingsAutomatically(s) =>
              Settle(s, w).mode = s.mode /\ Settle(s, w).state = "armed"
<1> DEFINE u == [s EXCEPT !.lastSeen = w,
                          !.mode = IF RingsAutomatically(s) /\ s.mode = "once"
                                   THEN "off" ELSE s.mode]
<1>1. u \in SessionRecord
  BY DEF SessionRecord, Mode
<1>2. ~RingsAutomatically(s) => u.mode = s.mode
  BY DEF SessionRecord
<1>3. s.mode # "off"
  BY DEF Coherent
<1>4. Settle(s, w) = ResetAfterBurst(u)
  BY DEF Settle
<1> HIDE DEF u
<1>5. /\ ResetAfterBurst(u).mode = u.mode
      /\ ResetAfterBurst(u).state = IF u.mode = "off" THEN "disarmed" ELSE "armed"
  BY <1>1 DEF ResetAfterBurst, ResetBurst, SessionRecord
<1> QED
  BY <1>2, <1>3, <1>4, <1>5

-----------------------------------------------------------------------------
(* Serde and recovery.                                                     *)
LEMMA PersistedFacts ==
  ASSUME NEW s \in SessionRecord, Coherent(s)
  PROVE  LET p == Persisted(s)
         IN  /\ p \in SessionRecord
             /\ p.burst = s.burst /\ p.notified = s.notified
             /\ p.state = s.state /\ p.mode = s.mode
             /\ Persisted(p) = p
             /\ Coherent(Revived(p))
             /\ p = Persisted(Revived(p))
<1> DEFINE p == Persisted(s)
           u == Revived(p)
<1>1. /\ p = [s EXCEPT !.started = None, !.deadline = None]
      /\ p \in SessionRecord
      /\ p.burst = s.burst /\ p.notified = s.notified /\ p.state = s.state
      /\ p.mode = s.mode /\ p.acc = s.acc /\ p.deadlineWall = s.deadlineWall
      /\ p.started = None /\ p.deadline = None
  BY DEF Persisted, SessionRecord
<1> HIDE DEF p
<1>2. Persisted(p) = p
  BY <1>1 DEF Persisted, SessionRecord
<1>3. /\ u \in SessionRecord
      /\ u.burst = p.burst /\ u.notified = p.notified /\ u.state = p.state
      /\ u.mode = p.mode /\ u.acc = p.acc /\ u.deadlineWall = p.deadlineWall
      /\ u.started = (IF p.state = "active" THEN 0 ELSE None)
      /\ u.deadline = (IF p.state = "settling" THEN 0 ELSE None)
  BY <1>1 DEF Revived, SessionRecord
<1>4. Persisted(u) = p
  BY <1>1 DEF Revived, Persisted, SessionRecord
<1> HIDE DEF u
<1>5. Coherent(u)
  BY <1>1, <1>3, NoneAssumption DEF Coherent
<1> QED
  BY <1>1, <1>2, <1>4, <1>5 DEF p, u

(* A record of the table, recovered at the start of the monotonic clock.   *)
LEMMA RecoveredFacts ==
  ASSUME NEW p \in SessionRecord, Coherent(Revived(p)), p = Persisted(Revived(p)),
         NEW w \in Int
  PROVE  LET t == RecoverLiveTiming(p, 0, w)
         IN  /\ t \in SessionRecord /\ Coherent(t)
             /\ t.burst = None \/ (t.burst = p.burst /\ t.notified = p.notified)
             /\ NotEarly(t, w)
             /\ t.mode = p.mode
             /\ p.state = "active" => t.state = IF p.mode = "off" THEN "disarmed" ELSE "armed"
             /\ p.state = "settling" => Persisted(t) = p
<1> DEFINE t == RecoverLiveTiming(p, 0, w)
           Goal ==
             /\ t \in SessionRecord /\ Coherent(t)
             /\ t.burst = None \/ (t.burst = p.burst /\ t.notified = p.notified)
             /\ NotEarly(t, w)
             /\ t.mode = p.mode
             /\ p.state = "active" => t.state = IF p.mode = "off" THEN "disarmed" ELSE "armed"
             /\ p.state = "settling" => Persisted(t) = p
<1>1. Revived(p) \in SessionRecord
  BY DEF Revived, SessionRecord
<1>2. t \in SessionRecord /\ Coherent(t)
  BY <1>1, RecoverFacts, 0 \in Nat
<1>3. Persisted(p) = p /\ p.started = None /\ p.deadline = None
  BY <1>1 DEF Persisted, SessionRecord
<1>4. /\ Revived(p).state = p.state /\ Revived(p).deadlineWall = p.deadlineWall
      /\ Revived(p).mode = p.mode
  BY DEF Revived, SessionRecord
<1> HIDE DEF t
<1>5. ASSUME p.state = "active" PROVE Goal
  <2>1. t = ResetAfterBurst(p)
    BY <1>3, <1>5 DEF RecoverLiveTiming, t
  <2>2. /\ t.burst = None /\ t.mode = p.mode
        /\ t.state = IF p.mode = "off" THEN "disarmed" ELSE "armed"
    BY <2>1 DEF ResetAfterBurst, ResetBurst, SessionRecord
  <2>3. NotEarly(t, w)
    BY <2>2 DEF NotEarly
  <2> QED
    BY <1>2, <1>5, <2>2, <2>3 DEF Goal
<1>6. ASSUME p.state = "settling" PROVE Goal
  <2>1. p.deadlineWall \in Int
    BY <1>4, <1>6, NoneAssumption DEF Coherent, SessionRecord
  <2>2. t = [p EXCEPT !.deadline = 0 + Monus(p.deadlineWall, w)]
    BY <1>3, <1>6, <2>1, NoneAssumption DEF RecoverLiveTiming, t
  <2>3. /\ t.burst = p.burst /\ t.notified = p.notified /\ t.mode = p.mode
        /\ t.deadlineWall = p.deadlineWall /\ t.state = p.state
        /\ t.deadline = 0 + Monus(p.deadlineWall, w)
    BY <2>2 DEF SessionRecord
  <2>4. Persisted(t) = p
    BY <1>3, <2>2 DEF Persisted, SessionRecord
  <2>5. NotEarly(t, w)
    BY <2>1, <2>3 DEF NotEarly, Monus
  <2> QED
    BY <1>2, <1>6, <2>3, <2>4, <2>5 DEF Goal
<1>7. ASSUME p.state \notin {"active", "settling"} PROVE Goal
  <2>1. t = p
    BY <1>3, <1>7 DEF RecoverLiveTiming, t
  <2> QED
    BY <1>2, <1>7, <2>1 DEF NotEarly, Goal
<1> QED
  BY <1>5, <1>6, <1>7 DEF t, Goal

-----------------------------------------------------------------------------
(* Tables of sessions.  D: bursts drawn; C: events committed; R: the burst *)
(* of each event; X: bursts whose transaction failed.                      *)
Good(S, D, C, R, X) ==
  /\ S \in Table
  /\ Owned(S, D, C, R)
  /\ Accounted(S, C, R, X)

InMemory(S, D, C, R, X) == Good(S, D, C, R, X) /\ CoherentInMemory(S)
OnDisk(S, D, C, R, X)   == Good(S, D, C, R, X) /\ CoherentOnDisk(S)

(* Every event rings for a burst that was drawn, or for none.              *)
Drawn(D, C, R) == \A e \in C : R[e] \in D \cup {None}

(* Sessions keep their burst, forget it, are forgotten; k may draw b.      *)
Follows(S, T, k, b) == \A j \in SessionId : T[j] # None =>
  \/ T[j].burst = None
  \/ S[j] # None /\ T[j].burst = S[j].burst /\ T[j].notified = S[j].notified
  \/ j = k /\ T[j].burst = b /\ ~T[j].notified

(* The events E ring for Q: whoever keeps a burst that rang is notified,   *)
(* and has an event if its transaction has not failed.                     *)
Marks(S, T, E, Q, C, R, X) == \A j \in SessionId : T[j] # None =>
  \/ T[j].burst = None
  \/ /\ S[j] # None /\ T[j].burst = S[j].burst /\ T[j].notified = S[j].notified
     /\ \A e \in E : Q[e] # T[j].burst
  \/ /\ S[j] # None /\ T[j].burst = S[j].burst /\ T[j].notified
     /\ T[j].burst \in X \/ \E e \in C : R[e] = T[j].burst

(* Drawing bursts elsewhere and failing leave a table good.                *)
LEMMA GoodGrows ==
  ASSUME NEW S, NEW D, NEW C, NEW R, NEW X, Good(S, D, C, R, X),
         NEW D2, D \subseteq D2, NEW X2, X \subseteq X2
  PROVE  Good(S, D2, C, R, X2)
  BY DEF Good, Owned, Accounted

(* Saving: the table holds what memory holds, without the live times.      *)
LEMMA PersistAllFacts ==
  ASSUME NEW S, NEW D, NEW C, NEW R, NEW X, InMemory(S, D, C, R, X)
  PROVE  OnDisk(PersistAll(S), D, C, R, X)
<1> DEFINE T == PersistAll(S)
<1>1. ASSUME NEW i \in SessionId, S[i] = None PROVE T[i] = None
  BY <1>1 DEF PersistAll
<1>2. ASSUME NEW i \in SessionId, S[i] # None
      PROVE  /\ T[i] \in SessionRecord /\ T[i] # None
             /\ T[i].burst = S[i].burst /\ T[i].notified = S[i].notified
             /\ Coherent(Revived(T[i])) /\ T[i] = Persisted(Revived(T[i]))
  <2>1. S[i] \in SessionRecord /\ Coherent(S[i])
    BY <1>2 DEF InMemory, Good, Table, CoherentInMemory
  <2>2. T[i] = Persisted(S[i])
    BY <1>2 DEF PersistAll
  <2>3. T[i] # None
    BY <2>1, <2>2, PersistedFacts, NoneAssumption
  <2> HIDE DEF T
  <2> QED
    BY <2>1, <2>2, <2>3, PersistedFacts
<1>3. T \in [SessionId -> {T[i] : i \in SessionId}]
  BY DEF PersistAll
<1> HIDE DEF T
<1>4. T \in Table
  <2>1. \A i \in SessionId : T[i] \in SessionRecord \cup {None}
    BY <1>1, <1>2
  <2> QED
    BY <1>3, <2>1 DEF Table
<1>5. Owned(T, D, C, R)
  BY <1>1, <1>2 DEF InMemory, Good, Owned
<1>6. Accounted(T, C, R, X)
  BY <1>1, <1>2 DEF InMemory, Good, Accounted
<1>7. CoherentOnDisk(T)
  BY <1>1, <1>2 DEF CoherentOnDisk
<1> QED
  BY <1>4, <1>5, <1>6, <1>7 DEF OnDisk, Good, T

LEMMA TableContinues ==
  ASSUME NEW S, NEW D, NEW C, NEW R, NEW X, Good(S, D, C, R, X),
         Drawn(D, C, R),
         NEW T, T \in Table, CoherentInMemory(T),
         NEW k, NEW b, NEW B, B = D \cup ({b} \ {None}), b # None => b \notin D,
         Follows(S, T, k, b)
  PROVE  InMemory(T, B, C, R, X)
<1> USE DEF Drawn, Follows
<1>1. ASSUME NEW j \in SessionId, T[j] # None
      PROVE  T[j].burst = None => ~T[j].notified
  BY <1>1 DEF CoherentInMemory, Coherent
<1>2. ASSUME NEW j \in SessionId, T[j] # None
      PROVE  T[j].burst \in B \cup {None}
  BY <1>2 DEF Good, Owned
<1>3. ASSUME NEW i \in SessionId, NEW j \in SessionId, T[i] # None, T[j] # None,
             T[i].burst = T[j].burst, T[i].burst # None
      PROVE  i = j
  <2>1. CASE i = k /\ T[i].burst = b
    <3>1. ASSUME S[j] # None, T[j].burst = S[j].burst PROVE FALSE
      BY <1>3, <2>1, <3>1 DEF Good, Owned
    <3> QED
      BY <1>3, <2>1, <3>1
  <2>2. CASE j = k /\ T[j].burst = b
    <3>1. ASSUME S[i] # None, T[i].burst = S[i].burst PROVE FALSE
      BY <1>3, <2>2, <3>1 DEF Good, Owned
    <3> QED
      BY <1>3, <2>2, <3>1
  <2>3. CASE /\ S[i] # None /\ T[i].burst = S[i].burst
             /\ S[j] # None /\ T[j].burst = S[j].burst
    BY <1>3, <2>3 DEF Good, Owned
  <2> QED
    BY <1>3, <2>1, <2>2, <2>3
<1>4. ASSUME NEW i \in SessionId, T[i] # None, T[i].burst # None, ~T[i].notified,
             NEW e \in C
      PROVE  R[e] # T[i].burst
  <2>1. CASE S[i] # None /\ T[i].burst = S[i].burst /\ T[i].notified = S[i].notified
    BY <1>4, <2>1 DEF Good, Owned
  <2>2. CASE T[i].burst = b
    BY <1>4, <2>2
  <2> QED
    BY <1>4, <2>1, <2>2
<1>5. Owned(T, B, C, R)
  BY <1>2, <1>3, <1>4 DEF Owned
<1>6. Accounted(T, C, R, X)
  BY <1>1 DEF Good, Accounted
<1> QED
  BY <1>5, <1>6 DEF InMemory, Good

(* A transaction commits the events E; a session whose burst rang has been *)
(* marked as notified or has forgotten it.                                 *)
LEMMA TableRings ==
  ASSUME NEW S, NEW D, NEW C, NEW R, NEW X, InMemory(S, D, C, R, X),
         NEW E, E \cap C = {}, NEW Q,
         NEW C2, C2 = C \cup E,
         NEW R2, \A e \in C2 : R2[e] = IF e \in E THEN Q[e] ELSE R[e],
         NEW T, T \in Table, CoherentInMemory(T),
         Marks(S, T, E, Q, C2, R2, X)
  PROVE  InMemory(T, D, C2, R2, X)
<1> USE DEF Marks
<1>1. ASSUME NEW j \in SessionId, T[j] # None
      PROVE  T[j].burst = None => ~T[j].notified
  BY <1>1 DEF CoherentInMemory, Coherent
<1>2. ASSUME NEW j \in SessionId, T[j] # None, T[j].burst # None
      PROVE  S[j] # None /\ T[j].burst = S[j].burst
  BY <1>2
<1>3. ASSUME NEW j \in SessionId, T[j] # None
      PROVE  T[j].burst \in D \cup {None}
  BY <1>2, <1>3 DEF InMemory, Good, Owned
<1>4. ASSUME NEW i \in SessionId, NEW j \in SessionId, T[i] # None, T[j] # None,
             T[i].burst = T[j].burst, T[i].burst # None
      PROVE  i = j
  BY <1>2, <1>4 DEF InMemory, Good, Owned
<1>5. ASSUME NEW i \in SessionId, T[i] # None, T[i].burst # None, ~T[i].notified,
             NEW e \in C2
      PROVE  R2[e] # T[i].burst
  <2>1. /\ S[i] # None /\ T[i].burst = S[i].burst /\ T[i].notified = S[i].notified
        /\ \A g \in E : Q[g] # T[i].burst
    BY <1>5
  <2>2. CASE e \in E
    BY <1>5, <2>1, <2>2
  <2>3. CASE e \notin E
    BY <1>5, <2>1, <2>3 DEF InMemory, Good, Owned
  <2> QED
    BY <2>2, <2>3
<1>6. Owned(T, D, C2, R2)
  BY <1>3, <1>4, <1>5 DEF Owned
<1>7. Accounted(T, C2, R2, X)
  <2> SUFFICES ASSUME NEW i \in SessionId, T[i] # None, T[i].notified
               PROVE  T[i].burst \in X \/ \E e \in C2 : R2[e] = T[i].burst
    BY DEF Accounted
  <2>1. CASE T[i].notified = S[i].notified /\ S[i] # None /\ T[i].burst = S[i].burst
    <3>1. S[i].burst \in X \/ \E e \in C : R[e] = S[i].burst
      BY <2>1 DEF InMemory, Good, Accounted
    <3> QED
      BY <2>1, <3>1
  <2>2. CASE T[i].burst \in X \/ \E e \in C2 : R2[e] = T[i].burst
    BY <2>2
  <2> QED
    BY <1>1, <2>1, <2>2
<1> QED
  BY <1>6, <1>7 DEF InMemory, Good

(* Recovery: what a starting daemon makes of its table.                    *)
LEMMA TableRecovered ==
  ASSUME NEW S, NEW D, NEW C, NEW R, NEW X, OnDisk(S, D, C, R, X),
         Drawn(D, C, R),
         NEW T, T \in [SessionId -> {T[i] : i \in SessionId}], NEW w \in Int,
         \A i \in SessionId :
           T[i] = None \/ (S[i] # None /\ T[i] = RecoverLiveTiming(S[i], 0, w))
  PROVE  /\ InMemory(T, D, C, R, X)
         /\ Follows(S, T, None, None)
         /\ \A i \in SessionId : T[i] # None => NotEarly(T[i], w)
<1>1. ASSUME NEW i \in SessionId, T[i] # None
      PROVE  /\ S[i] # None
             /\ T[i] \in SessionRecord /\ Coherent(T[i])
             /\ \/ T[i].burst = None
                \/ T[i].burst = S[i].burst /\ T[i].notified = S[i].notified
             /\ NotEarly(T[i], w)
  <2>1. S[i] # None /\ T[i] = RecoverLiveTiming(S[i], 0, w)
    BY <1>1
  <2>2. /\ S[i] \in SessionRecord /\ Coherent(Revived(S[i]))
        /\ S[i] = Persisted(Revived(S[i]))
    BY <2>1 DEF OnDisk, Good, Table, CoherentOnDisk
  <2> QED
    BY <2>1, <2>2, RecoveredFacts
<1>2. T \in Table /\ CoherentInMemory(T)
  BY <1>1 DEF Table, CoherentInMemory
<1>3. Follows(S, T, None, None)
  BY <1>1 DEF Follows
<1>4. InMemory(T, D, C, R, X)
  <2>1. Good(S, D, C, R, X)
    BY DEF OnDisk
  <2>2. D = D \cup ({None} \ {None})
    OBVIOUS
  <2> QED
    BY <1>2, <1>3, <2>1, <2>2, TableContinues
<1> QED
  BY <1>1, <1>3, <1>4

-----------------------------------------------------------------------------
(* The queue.                                                              *)
QueueTyped(q) == DOMAIN q \subseteq Event /\ \A e \in DOMAIN q : q[e] \in Row

LEMMA WithoutTyped ==
  ASSUME NEW q, QueueTyped(q), NEW V
  PROVE  /\ QueueTyped(Without(q, V))
         /\ DOMAIN Without(q, V) = DOMAIN q \ V
  BY DEF QueueTyped, Without, Restrict

(* What a transaction has made of the table and the counter.               *)
Pending(t) == QueueTyped(t.rows) /\ t.dropped \in Nat

(* One insertion counts every row it evicts.                               *)
LEMMA EnqueuedTyped ==
  ASSUME NEW t, Pending(t), NEW e \in Event, NEW n, NEW w \in Int,
         NEW p \in Enqueued(t, e, n, w)
  PROVE  /\ Pending(p)
         /\ \E V \in SUBSET Event :
              /\ DOMAIN p.rows = (DOMAIN t.rows \ V) \cup {e}
              /\ p.dropped = t.dropped + Cardinality(V)
<1> DEFINE new == [created |-> w, attempts |-> 0, next |-> w, status |-> "pending"]
<1>1. new \in Row
  BY DEF Row
<1> HIDE DEF new
<1>2. PICK V \in Victims(t.rows, n) :
        p = [rows    |-> Inserted(Without(t.rows, V), e, new),
             dropped |-> t.dropped + Cardinality(V)]
  BY DEF Enqueued, new
<1>3. V \in SUBSET Event
  BY DEF Victims, OldestOf, Pending, QueueTyped
<1>4. Cardinality(V) \in Nat
  BY <1>3, FS_Subset, FS_CardinalityType, DaemonAssumption
<1>5. /\ p.rows = Inserted(Without(t.rows, V), e, new)
      /\ p.dropped = t.dropped + Cardinality(V)
  BY <1>2
<1>6. QueueTyped(Without(t.rows, V)) /\ DOMAIN Without(t.rows, V) = DOMAIN t.rows \ V
  BY WithoutTyped DEF Pending
<1>7. ASSUME NEW o, QueueTyped(o)
      PROVE  QueueTyped(Inserted(o, e, new)) /\ DOMAIN Inserted(o, e, new) = DOMAIN o \cup {e}
  BY <1>1, <1>7 DEF QueueTyped, Inserted
<1>8. QueueTyped(p.rows) /\ DOMAIN p.rows = (DOMAIN t.rows \ V) \cup {e}
  BY <1>5, <1>6, <1>7
<1>9. p.dropped \in Nat
  BY <1>4, <1>5 DEF Pending
<1> QED
  BY <1>3, <1>5, <1>8, <1>9 DEF Pending

LEMMA MarksTyped ==
  ASSUME NEW q, QueueTyped(q), NEW e, NEW next \in Int
  PROVE  /\ QueueTyped(MarkRetry(q, e, next))
         /\ DOMAIN MarkRetry(q, e, next) = DOMAIN q
         /\ QueueTyped(MarkAuthorizationFailure(q, e))
         /\ DOMAIN MarkAuthorizationFailure(q, e) = DOMAIN q
<1>1. \A k \in Nat : Capped(k + 1) \in Nat
  BY RingQueueAssumption DEF Capped
<1> QED
  BY <1>1 DEF QueueTyped, MarkRetry, MarkAuthorizationFailure, Row

(* A bound on a set bounds what is added to it.                            *)
LEMMA CountedUnion ==
  ASSUME NEW A \in SUBSET Event, NEW B \in SUBSET Event, NEW C \in SUBSET (A \cup B),
         NEW n \in Nat, Cardinality(A) <= n
  PROVE  Cardinality(C) <= n + Cardinality(B)
<1>1. IsFiniteSet(A) /\ IsFiniteSet(B)
  BY FS_Subset, DaemonAssumption
<1>2. /\ IsFiniteSet(A \cup B)
      /\ Cardinality(A \cup B) = Cardinality(A) + Cardinality(B) - Cardinality(A \cap B)
  BY <1>1, FS_Union
<1>3. /\ Cardinality(A) \in Nat /\ Cardinality(B) \in Nat /\ Cardinality(A \cap B) \in Nat
      /\ Cardinality(A \cup B) \in Nat
  <2>1. IsFiniteSet(A \cap B)
    BY <1>1, FS_Subset
  <2> QED
    BY <1>1, <1>2, <2>1, FS_CardinalityType
<1>4. Cardinality(C) <= Cardinality(A \cup B) /\ Cardinality(C) \in Nat
  <2>1. IsFiniteSet(C)
    BY <1>2, FS_Subset
  <2> QED
    BY <1>2, <2>1, FS_Subset, FS_CardinalityType
<1> QED
  BY <1>2, <1>3, <1>4

(* A set of naturals that is not empty has a least one.                    *)
LEMMA LeastNatural ==
  ASSUME NEW N \in SUBSET Nat, N # {}
  PROVE  \E n \in N : \A k \in N : n <= k
<1>1. PICK n \in N : \A k \in N : ~(<<k, n>> \in OpToRel(<, Nat))
  BY NatLessThanWellFounded, WFMin
<1>2. \A k \in N : ~(k < n)
  BY <1>1 DEF OpToRel
<1>3. \A k \in N : n <= k
  BY <1>2
<1> QED
  BY <1>3

(* The recursion of EnqueuedAll is defined as far as the events go.        *)
Unfolds(after, q, events, n, w) ==
  after = [k \in 0 .. Len(events) |->
             IF k = 0 THEN {q}
             ELSE UNION {Enqueued(p, events[k], n, w) : p \in after[k - 1]}]

LEMMA EnqueuedAllUnfolds ==
  ASSUME NEW q, NEW events, Len(events) \in Nat, NEW n, NEW w
  PROVE  \E after : /\ Unfolds(after, q, events, n, w)
                    /\ EnqueuedAll(q, events, n, w) = after[Len(events)]
<1> DEFINE Step(k, Q) == UNION {Enqueued(p, events[k], n, w) : p \in Q}
           Upto(f, m) == f = [k \in 0 .. m |-> IF k = 0 THEN {q} ELSE Step(k, f[k - 1])]
           Missing == {m \in Nat : ~\E f : Upto(f, m)}
<1> HIDE DEF Step
<1>1. \E f : Upto(f, 0)
  <2>1. Upto([k \in 0 .. 0 |-> {q}], 0)
    OBVIOUS
  <2> QED
    BY <2>1
<1>2. ASSUME NEW m \in Nat, NEW f, Upto(f, m) PROVE \E g : Upto(g, m + 1)
  <2> DEFINE g == [k \in 0 .. (m + 1) |-> IF k = m + 1 THEN Step(k, f[m]) ELSE f[k]]
  <2>1. g = [k \in 0 .. (m + 1) |-> IF k = 0 THEN {q} ELSE Step(k, g[k - 1])]
    <3>1. ASSUME NEW k \in 0 .. (m + 1)
          PROVE  g[k] = IF k = 0 THEN {q} ELSE Step(k, g[k - 1])
      <4>1. CASE k = m + 1
        BY <4>1
      <4>2. CASE k \in 1 .. m
        <5>1. k \in 0 .. m /\ k - 1 \in 0 .. (m + 1) /\ k # m + 1 /\ k - 1 # m + 1
          BY <4>2
        <5>2. f[k] = Step(k, f[k - 1])
          <6> DEFINE h == [j \in 0 .. m |-> IF j = 0 THEN {q} ELSE Step(j, f[j - 1])]
          <6>1. h[k] = Step(k, f[k - 1])
            BY <4>2, <5>1
          <6>2. f = h
            BY <1>2
          <6> QED
            BY <6>1, <6>2
        <5>3. g[k] = f[k] /\ g[k - 1] = f[k - 1]
          BY <5>1
        <5> QED
          BY <4>2, <5>2, <5>3
      <4>3. CASE k = 0
        BY <1>2, <4>3
      <4> QED
        BY <4>1, <4>2, <4>3
    <3> QED
      BY <3>1
  <2> QED
    BY <2>1
<1> HIDE DEF Upto
<1>3. Missing = {}
  <2> SUFFICES ASSUME Missing # {} PROVE FALSE
    OBVIOUS
  <2>1. PICK m \in Missing : \A k \in Missing : m <= k
    BY LeastNatural
  <2>2. m \in Nat /\ m # 0
    BY <1>1
  <2>3. m - 1 \in Nat /\ ~(m <= m - 1) /\ (m - 1) + 1 = m
    BY <2>2
  <2>4. m - 1 \notin Missing
    BY <2>1, <2>3
  <2>5. PICK f : Upto(f, m - 1)
    BY <2>3, <2>4
  <2>6. \E g : Upto(g, (m - 1) + 1)
    BY <1>2, <2>3, <2>5
  <2> QED
    BY <2>1, <2>3, <2>6
<1>4. \E f : Upto(f, Len(events))
  BY <1>3
<1> QED
  BY <1>4 DEF EnqueuedAll, Step, Upto, Unfolds

(* A transaction counts every row it evicts, those it inserted itself too. *)
LEMMA EnqueuedAllTyped ==
  ASSUME NEW t, Pending(t), NEW events \in Seq(Event), NEW n, NEW w \in Int,
         NEW out \in EnqueuedAll(t, events, n, w)
  PROVE  /\ Pending(out)
         /\ LET gone == (DOMAIN t.rows \cup ToSet(events)) \ DOMAIN out.rows
            IN  t.dropped + Cardinality(gone) <= out.dropped
<1>1. Len(events) \in Nat /\ \A k \in 1 .. Len(events) : events[k] \in Event
  BY LenProperties
<1>2. PICK after : /\ Unfolds(after, t, events, n, w)
                   /\ EnqueuedAll(t, events, n, w) = after[Len(events)]
  BY <1>1, EnqueuedAllUnfolds
<1> DEFINE Came(k)    == DOMAIN t.rows \cup {events[j] : j \in 1 .. k}
           Gone(k, o) == Came(k) \ DOMAIN o.rows
           Counted(k, o) == Pending(o) /\ t.dropped + Cardinality(Gone(k, o)) <= o.dropped
           Typed(k) == \A o \in after[k] : Counted(k, o)
           Missing == {k \in 0 .. Len(events) : ~Typed(k)}
<1>3. Typed(0)
  <2>1. after[0] = {t}
    BY <1>1, <1>2 DEF Unfolds
  <2>2. Gone(0, t) = {}
    OBVIOUS
  <2>3. Cardinality(Gone(0, t)) = 0
    BY <2>2, FS_EmptySet
  <2>4. Counted(0, t)
    BY <2>3 DEF Pending
  <2> QED
    BY <2>1, <2>4
<1>4. ASSUME NEW k \in 1 .. Len(events), Typed(k - 1) PROVE Typed(k)
  <2> SUFFICES ASSUME NEW o \in after[k] PROVE Counted(k, o)
    OBVIOUS
  <2>1. after[k] = UNION {Enqueued(r, events[k], n, w) : r \in after[k - 1]}
    <3>1. k \in 0 .. Len(events) /\ k # 0
      BY <1>1
    <3> QED
      BY <1>2, <3>1 DEF Unfolds
  <2>2. PICK r \in after[k - 1] : o \in Enqueued(r, events[k], n, w)
    BY <2>1
  <2>3. Counted(k - 1, r)
    BY <1>4, <2>2
  <2>4. /\ Pending(o)
        /\ \E V \in SUBSET Event :
              /\ DOMAIN o.rows = (DOMAIN r.rows \ V) \cup {events[k]}
              /\ o.dropped = r.dropped + Cardinality(V)
    BY <1>1, <2>2, <2>3, EnqueuedTyped
  <2>5. PICK V \in SUBSET Event :
              /\ DOMAIN o.rows = (DOMAIN r.rows \ V) \cup {events[k]}
              /\ o.dropped = r.dropped + Cardinality(V)
    BY <2>4
  <2>6. Gone(k, o) \subseteq Gone(k - 1, r) \cup V
    <3>1. Came(k) = Came(k - 1) \cup {events[k]}
      <4>1. 1 .. k = 1 .. (k - 1) \cup {k}
        BY <1>1
      <4> QED
        BY <4>1
    <3> QED
      BY <2>5, <3>1
  <2>7. Gone(k - 1, r) \in SUBSET Event
    <3>1. Came(k - 1) \subseteq Event
      BY <1>1 DEF Pending, QueueTyped
    <3> QED
      BY <3>1
  <2>8. /\ t.dropped \in Nat /\ r.dropped \in Nat /\ o.dropped \in Nat
        /\ Cardinality(V) \in Nat /\ Cardinality(Gone(k - 1, r)) \in Nat
        /\ Cardinality(Gone(k, o)) \in Nat
    <3>1. Gone(k, o) \in SUBSET Event
      BY <2>6, <2>7
    <3> HIDE DEF Gone
    <3>2. \A A \in SUBSET Event : Cardinality(A) \in Nat
      BY FS_Subset, FS_CardinalityType, DaemonAssumption
    <3>3. Cardinality(V) \in Nat
      BY <3>2
    <3>4. Cardinality(Gone(k - 1, r)) \in Nat /\ Cardinality(Gone(k, o)) \in Nat
      BY <2>7, <3>1, <3>2
    <3> QED
      BY <2>3, <2>4, <3>3, <3>4 DEF Pending
  <2> DEFINE m == r.dropped - t.dropped
  <2>9. m \in Nat /\ Cardinality(Gone(k - 1, r)) <= m
    BY <2>3, <2>8
  <2> HIDE DEF Gone, m
  <2>10. Cardinality(Gone(k, o)) <= m + Cardinality(V)
    BY <2>6, <2>7, <2>9, CountedUnion
  <2> QED
    BY <2>4, <2>5, <2>8, <2>10 DEF m
<1> HIDE DEF Typed
<1>5. Missing = {}
  <2> SUFFICES ASSUME Missing # {} PROVE FALSE
    OBVIOUS
  <2>1. PICK k \in Missing : \A j \in Missing : k <= j
    <3>1. Missing \in SUBSET Nat
      OBVIOUS
    <3> QED
      BY <3>1, LeastNatural
  <2>2. k \in 1 .. Len(events)
    BY <1>1, <1>3, <2>1
  <2>3. k - 1 \notin Missing /\ k - 1 \in 0 .. Len(events)
    BY <1>1, <2>1, <2>2
  <2> QED
    BY <1>4, <2>1, <2>2, <2>3
<1>6. Typed(Len(events))
  BY <1>1, <1>5
<1>7. Counted(Len(events), out)
  BY <1>2, <1>6 DEF Typed
<1>8. Came(Len(events)) = DOMAIN t.rows \cup ToSet(events)
  BY <1>1 DEF ToSet
<1> QED
  BY <1>7, <1>8

-----------------------------------------------------------------------------
(* The actions.  What the invariant says of the sessions, as tables.       *)
TablesSound ==
  /\ InMemory(engine, begun, issued, ringOf, unrung)
  /\ OnDisk(saved, begun, issued, ringOf, unrung)
  /\ Drawn(begun, issued, ringOf)

NoneEarly == \A i \in SessionId : engine[i] # None => NotEarly(engine[i], wall - mono)

(* The variables other than the two tables.                                *)
RestTyped ==
  /\ up \in BOOLEAN /\ limit \in Limits
  /\ mono \in Nat /\ wall \in Nat
  /\ requests \in SUBSET RequestRecord /\ loop \in LoopRecord
  /\ QueueTyped(queue) /\ dropped \in Nat
  /\ alive \in SUBSET SessionId /\ begun \in SUBSET Burst
  /\ issued \in SUBSET Event /\ delivered \in SUBSET Event
  /\ uncounted \in SUBSET Event /\ unrung \in SUBSET Burst
  /\ ringOf \in [Event -> Burst \cup {None}]
  /\ crashes \in Nat /\ failures \in Nat

Sound ==
  /\ RestTyped /\ TablesSound /\ OneEventPerBurst /\ OnlySilentResetsAreUnsaved
  /\ ClocksAgree

LEMMA SoundIsIInv == Sound <=> IInv
<1>1. TypeOK <=> RestTyped /\ engine \in Table /\ saved \in Table
  BY DEF TypeOK, RestTyped, Table, QueueTyped
<1> QED
  BY <1>1 DEF Sound, IInv, TablesSound, InMemory, OnDisk, Good, BurstsOwned,
     SuppressionAccounted, Drawn

LEMMA LoopCases ==
  ASSUME loop \in LoopRecord
  PROVE  /\ loop.op \in {"none", "timers", "deliver"}
         /\ loop.op = "timers" => loop.mono \in Nat /\ loop.wall \in Nat
         /\ loop.op = "deliver" =>
              loop.event \in Event /\ loop.wall \in Nat /\ loop.attempts \in Nat
         /\ loop = Idling <=> loop.op = "none"
  BY DEF LoopRecord, Idling

(* Sessions keep or forget their bursts, and at most one draws one.        *)
Draws(S, T, D, B) == \E k, b :
  /\ Follows(S, T, k, b)
  /\ b # None => b \in Burst \ D /\ Knows(T, b)
  /\ B = D \cup ({b} \ {None})

(* What memory becomes in a request that draws no event.                   *)
LEMMA RequestMoves ==
  ASSUME Sound, NEW r \in requests,
         HandleUpdate(r) \/ HandleOpen(r) \/ HandleClose(r) \/ HandleSuppressedRing(r)
  PROVE  /\ InMemory(engine', begun', issued, ringOf, unrung)
         /\ NoneEarly'
         /\ begun \subseteq begun' /\ begun' \in SUBSET Burst
         /\ Draws(engine, engine', begun, begun')
<1> DEFINE i == r.session
<1>1. /\ r \in RequestRecord /\ i \in SessionId /\ r.wall \in Nat /\ r.mono \in Nat
      /\ r.wall - r.mono = wall - mono /\ up
      /\ wall \in Nat /\ mono \in Nat /\ wall - mono \in Int
      /\ wall' = wall /\ mono' = mono
  BY DEF Sound, RestTyped, ClocksAgree, RequestRecord, HandleUpdate, HandleOpen,
         HandleClose, HandleSuppressedRing, Done
<1>2. /\ engine \in Table /\ CoherentInMemory(engine)
      /\ Good(engine, begun, issued, ringOf, unrung)
      /\ Drawn(begun, issued, ringOf)
      /\ begun \in SUBSET Burst
      /\ \A j \in SessionId : engine[j] # None => NotEarly(engine[j], wall - mono)
  BY <1>1 DEF Sound, RestTyped, TablesSound, InMemory, Good, ClocksAgree, NotEarly,
              Registered
<1>3. ASSUME NEW t \in SessionRecord, Coherent(t), NotEarly(t, wall - mono),
             engine' = [engine EXCEPT ![i] = t], NEW b, b # None => b \in Burst \ begun,
             begun' = begun \cup ({b} \ {None}),
             b # None => t.burst = b,
             \/ t.burst = None
             \/ engine[i] # None /\ t.burst = engine[i].burst /\ t.notified = engine[i].notified
             \/ t.burst = b /\ ~t.notified
      PROVE  /\ InMemory(engine', begun', issued, ringOf, unrung)
             /\ NoneEarly'
             /\ begun \subseteq begun' /\ begun' \in SUBSET Burst
             /\ Draws(engine, engine', begun, begun')
  <2>1. /\ engine'[i] = t /\ engine' \in Table
        /\ \A j \in SessionId \ {i} : engine'[j] = engine[j]
    BY <1>1, <1>2, <1>3 DEF Table
  <2>2. CoherentInMemory(engine')
    BY <1>2, <1>3, <2>1 DEF CoherentInMemory
  <2>3. NoneEarly'
    BY <1>1, <1>2, <1>3, <2>1 DEF NoneEarly
  <2>4. Follows(engine, engine', i, b)
    BY <1>3, <2>1 DEF Follows
  <2>5. InMemory(engine', begun', issued, ringOf, unrung)
    <3>1. b # None => b \notin begun
      BY <1>3
    <3>2. begun' = begun \cup ({b} \ {None}) /\ engine' \in Table
      BY <1>3, <2>1
    <3> QED
      BY <1>2, <2>2, <2>4, <3>1, <3>2, TableContinues
  <2>6. b # None => b \in Burst \ begun /\ Knows(engine', b)
    BY <1>1, <1>3, <2>1, NoneAssumption DEF Knows
  <2>7. Draws(engine, engine', begun, begun')
    BY <1>3, <2>4, <2>6 DEF Draws
  <2> QED
    BY <1>2, <1>3, <2>3, <2>5, <2>7
<1>4. CASE HandleUpdate(r)
  <2>1. engine[i] \in SessionRecord /\ Coherent(engine[i]) /\ NotEarly(engine[i], wall - mono)
    BY <1>1, <1>2, <1>4 DEF HandleUpdate, Registered, Table, CoherentInMemory
  <2>2. PICK minimum \in Minimum, idle \in Idle,
             b \in IF DrawsBurst(r) THEN Burst \ begun ELSE {None} :
               /\ engine' = [engine EXCEPT ![i] = Handled(r, engine[i], b, minimum, idle)]
               /\ begun' = begun \cup ({b} \ {None})
    BY <1>1, <1>4 DEF HandleUpdate
  <2>3. r.command \notin {"session_close", "manual_ring"}
    BY <1>4 DEF HandleUpdate
  <2>4. minimum \in Nat /\ idle \in Nat
    BY DaemonAssumption
  <2>5. /\ b # None => b \in Burst \ begun
        /\ (\/ r.command \in {"arm_persistent", "arm_once"}
            \/ r.command = "command_start" /\ StartsBurst(engine[i])) => b \in Burst
    BY <2>2 DEF DrawsBurst
  <2> DEFINE t == Handled(r, engine[i], b, minimum, idle)
  <2>6. /\ t \in SessionRecord /\ Coherent(t) /\ NotEarly(t, wall - mono)
        /\ Continues(engine[i], t, b)
        /\ b # None => t.burst = b
    BY <1>1, <2>1, <2>2, <2>3, <2>4, <2>5, HandledFacts DEF DrawsBurst
  <2> HIDE DEF t
  <2>7. engine[i] # None
    BY <1>4 DEF HandleUpdate, Registered
  <2> QED
    BY <1>3, <2>2, <2>5, <2>6, <2>7 DEF Continues, t
<1>5. CASE HandleOpen(r)
  <2>1. PICK minimum \in Minimum, idle \in Idle :
               engine' = [engine EXCEPT ![i] = NewSession(minimum, idle, r.wall)]
    BY <1>5 DEF HandleOpen
  <2> DEFINE t == NewSession(minimum, idle, r.wall)
  <2>2. t \in SessionRecord /\ Coherent(t)
    BY <1>1, NewSessionFacts, DaemonAssumption
  <2>3. t.burst = None /\ NotEarly(t, wall - mono)
    BY DEF NewSession, NotEarly
  <2>4. begun' = begun \cup ({None} \ {None})
    BY <1>5 DEF HandleOpen
  <2> HIDE DEF t
  <2> QED
    BY <1>3, <2>1, <2>2, <2>3, <2>4 DEF t
<1>6. CASE HandleClose(r)
  <2>1. engine' = [engine EXCEPT ![i] = None] /\ begun' = begun
    BY <1>6 DEF HandleClose
  <2>2. /\ engine' \in Table
        /\ \A j \in SessionId : engine'[j] # None => engine'[j] = engine[j]
    BY <1>1, <1>2, <2>1 DEF Table
  <2>3. CoherentInMemory(engine') /\ NoneEarly'
    BY <1>1, <1>2, <2>2 DEF CoherentInMemory, NoneEarly
  <2>4. InMemory(engine', begun, issued, ringOf, unrung)
    BY <1>2, <2>2, <2>3 DEF InMemory, Good, Owned, Accounted
  <2>5. Draws(engine, engine', begun, begun')
    <3>1. Follows(engine, engine', i, None)
      BY <2>2 DEF Follows
    <3>2. begun' = begun \cup ({None} \ {None})
      BY <2>1
    <3> QED
      BY <3>1, <3>2 DEF Draws
  <2> QED
    BY <1>2, <2>1, <2>3, <2>4, <2>5
<1>7. CASE HandleSuppressedRing(r)
  <2> DEFINE s == engine[i]
             t == ManualRing(engine[i], r.wall)
  <2>1. /\ engine' = [engine EXCEPT ![i] = t] /\ begun' = begun \cup ({None} \ {None})
        /\ s # None /\ Suppressed(s)
    BY <1>7 DEF HandleSuppressedRing, Registered
  <2>2. s \in SessionRecord /\ Coherent(s) /\ NotEarly(s, wall - mono)
    BY <1>1, <1>2, <2>1 DEF Table, CoherentInMemory
  <2>3. t = Touch(s, r.wall)
    BY <2>1 DEF ManualRing, Suppressed
  <2>4. r.wall \in Int /\ wall - mono \in Int
    BY <1>1
  <2> HIDE DEF s, t
  <2>5. t \in SessionRecord /\ Coherent(t)
    BY <2>2, <2>3, <2>4, TouchFacts
  <2>6. NotEarly(t, wall - mono) /\ t.burst = s.burst /\ t.notified = s.notified
    BY <2>2, <2>3, <2>4, TouchContinues
  <2> QED
    BY <1>3, <2>1, <2>5, <2>6 DEF s
<1> QED
  BY <1>4, <1>5, <1>6, <1>7

(* A tick forgets the bursts of the sessions that are due.                 *)
LEMMA TickMoves ==
  ASSUME Sound, loop.op = "timers", engine' = Tick
  PROVE  /\ engine' \in Table /\ CoherentInMemory(engine')
         /\ \A i \in SessionId : engine'[i] # None => engine[i] # None
         /\ \A i \in DueSessions(loop.mono) :
              /\ engine[i] # None /\ engine[i].state = "settling"
              /\ engine'[i] = Settle(engine[i], loop.wall)
              /\ engine'[i] # None /\ engine'[i].burst = None
              /\ engine'[i].state # "settling"
         /\ \A i \in SessionId \ DueSessions(loop.mono) : engine'[i] = engine[i]
         /\ Follows(engine, engine', None, None)
         /\ \A i \in SessionId : engine'[i] # None => NotEarly(engine'[i], wall - mono)
<1>1. engine \in Table /\ CoherentInMemory(engine) /\ loop.wall \in Nat /\ up
  BY LoopCases DEF Sound, TablesSound, InMemory, Good, RestTyped, ClocksAgree
<1>2. ASSUME NEW i \in DueSessions(loop.mono)
      PROVE  /\ i \in SessionId
             /\ engine[i] # None /\ engine[i].state = "settling"
             /\ engine'[i] = Settle(engine[i], loop.wall)
             /\ engine'[i] \in SessionRecord /\ Coherent(engine'[i])
             /\ engine'[i] # None /\ engine'[i].burst = None
             /\ engine'[i].state # "settling"
  <2>1. i \in SessionId /\ engine[i] # None /\ engine[i].state = "settling"
    BY DEF DueSessions, Registered, Due
  <2>2. engine[i] \in SessionRecord /\ Coherent(engine[i])
    BY <1>1, <2>1 DEF Table, CoherentInMemory
  <2>3. engine'[i] = Settle(engine[i], loop.wall)
    BY <2>1 DEF Tick
  <2> QED
    BY <1>1, <2>1, <2>2, <2>3, SettleFacts, SettleContinues, NoneAssumption
<1>3. \A i \in SessionId \ DueSessions(loop.mono) : engine'[i] = engine[i]
  BY DEF Tick
<1>4. engine' \in Table
  <2>1. \A i \in SessionId : engine'[i] \in SessionRecord \cup {None}
    BY <1>1, <1>2, <1>3 DEF Table
  <2> QED
    BY <2>1 DEF Table, Tick
<1>5. CoherentInMemory(engine')
  BY <1>1, <1>2, <1>3 DEF CoherentInMemory
<1>6. Follows(engine, engine', None, None)
  BY <1>2, <1>3 DEF Follows
<1>7. \A i \in SessionId : engine[i] # None => NotEarly(engine[i], wall - mono)
  BY <1>1 DEF Sound, ClocksAgree, NotEarly, Registered
<1>8. \A i \in SessionId : engine'[i] # None => NotEarly(engine'[i], wall - mono)
  BY <1>2, <1>3, <1>7 DEF NotEarly
<1> QED
  BY <1>2, <1>3, <1>4, <1>5, <1>6, <1>8

(* Cleanup forgets sessions.                                               *)
LEMMA KeptMoves ==
  ASSUME Sound, engine' \in {engine, Kept}
  PROVE  /\ engine' \in Table /\ CoherentInMemory(engine')
         /\ Follows(engine, engine', None, None)
         /\ \A i \in SessionId : engine'[i] # None => engine'[i] = engine[i]
<1>1. engine \in Table /\ CoherentInMemory(engine)
  BY DEF Sound, TablesSound, InMemory, Good
<1>2. \A i \in SessionId : engine'[i] # None => engine'[i] = engine[i]
  BY <1>1 DEF Kept
<1>3. engine' \in Table
  BY <1>1 DEF Table, Kept
<1> QED
  BY <1>1, <1>2, <1>3 DEF CoherentInMemory, Follows

(* Recovery.                                                               *)
LEMMA StartMoves ==
  ASSUME Sound, Start
  PROVE  /\ InMemory(engine', begun, issued, ringOf, unrung)
         /\ Follows(saved, engine', None, None)
         /\ NoneEarly'
<1>1. /\ OnDisk(saved, begun, issued, ringOf, unrung) /\ Drawn(begun, issued, ringOf)
      /\ wall \in Int /\ wall' - mono' = wall
  BY DEF Sound, TablesSound, RestTyped, Start
<1>2. engine' \in [SessionId -> {engine'[i] : i \in SessionId}]
  BY DEF Start
<1>3. \A i \in SessionId :
        \/ engine'[i] = None
        \/ saved[i] # None /\ engine'[i] = RecoverLiveTiming(saved[i], 0, wall)
  BY DEF Start, Recovered
<1>4. /\ InMemory(engine', begun, issued, ringOf, unrung)
      /\ Follows(saved, engine', None, None)
      /\ \A i \in SessionId : engine'[i] # None => NotEarly(engine'[i], wall)
  BY <1>1, <1>2, <1>3, TableRecovered
<1> QED
  BY <1>1, <1>4 DEF NoneEarly

(* One transaction: sessions and rings.                                    *)
LEMMA Commits ==
  ASSUME Sound, NEW events \in Seq(Event), NEW Q, NEW w \in Int,
         SaveAndEnqueue(events, Q, w),
         \A e \in ToSet(events) : Q[e] \in Burst \cup {None}
  PROVE  /\ QueueTyped(queue') /\ dropped' \in Nat
         /\ \E B, C \in SUBSET Event :
              /\ DOMAIN queue \cup ToSet(events) \subseteq DOMAIN queue' \cup B \cup C
              /\ dropped + Cardinality(B) + Cardinality(C) <= dropped'
         /\ issued' = issued \cup ToSet(events) /\ issued' \in SUBSET Event
         /\ ringOf' \in [Event -> Burst \cup {None}]
         /\ \A e \in issued' : ringOf'[e] = IF e \in ToSet(events) THEN Q[e] ELSE ringOf[e]
         /\ saved' = PersistAll(engine') /\ failures' = failures /\ unrung' = unrung
<1>1. ToSet(events) \subseteq Event
  BY LenProperties DEF ToSet
<1>2. /\ QueueTyped(queue) /\ issued \in SUBSET Event /\ dropped \in Nat
      /\ ringOf \in [Event -> Burst \cup {None}]
  BY DEF Sound, RestTyped
<1> DEFINE B == Expired(queue, w, MaxAge)
           pruned == [rows |-> Without(queue, B), dropped |-> dropped + Cardinality(B)]
<1>3. /\ \E t \in EnqueuedAll(pruned, events, limit, w) :
           queue' = t.rows /\ dropped' = t.dropped
      /\ issued' = issued \cup ToSet(events)
      /\ ringOf' = [e \in Event |-> IF e \in ToSet(events) THEN Q[e] ELSE ringOf[e]]
      /\ saved' = PersistAll(engine') /\ failures' = failures /\ unrung' = unrung
  BY DEF SaveAndEnqueue, Enqueue
<1>4. /\ B \in SUBSET Event /\ Cardinality(B) \in Nat
      /\ QueueTyped(pruned.rows) /\ DOMAIN pruned.rows = DOMAIN queue \ B
      /\ pruned.dropped = dropped + Cardinality(B)
  <2>1. B \in SUBSET Event
    BY <1>2 DEF Expired, QueueTyped
  <2> HIDE DEF B
  <2>2. QueueTyped(Without(queue, B)) /\ DOMAIN Without(queue, B) = DOMAIN queue \ B
    BY <1>2, WithoutTyped
  <2>3. Cardinality(B) \in Nat
    BY <2>1, FS_Subset, FS_CardinalityType, DaemonAssumption
  <2> QED
    BY <2>1, <2>2, <2>3
<1> HIDE DEF B, pruned
<1>5. PICK t \in EnqueuedAll(pruned, events, limit, w) :
        queue' = t.rows /\ dropped' = t.dropped
  BY <1>3
<1> DEFINE C == (DOMAIN pruned.rows \cup ToSet(events)) \ DOMAIN t.rows
<1>6. Pending(pruned)
  BY <1>2, <1>4 DEF Pending
<1>7. Pending(t) /\ pruned.dropped + Cardinality(C) <= t.dropped
  BY <1>6, EnqueuedAllTyped
<1>8. QueueTyped(queue') /\ dropped' \in Nat
  BY <1>5, <1>7 DEF Pending
<1>9. /\ C \in SUBSET Event
      /\ DOMAIN queue \cup ToSet(events) \subseteq DOMAIN queue' \cup B \cup C
      /\ dropped + Cardinality(B) + Cardinality(C) <= dropped'
  <2>1. C \in SUBSET Event
    BY <1>1, <1>2, <1>4 DEF QueueTyped
  <2>2. DOMAIN queue \cup ToSet(events) \subseteq DOMAIN queue' \cup B \cup C
    BY <1>4, <1>5
  <2> HIDE DEF C
  <2> QED
    BY <1>4, <1>5, <1>7, <2>1, <2>2
<1>10. ringOf' \in [Event -> Burst \cup {None}]
  BY <1>2, <1>3
<1>11. \A e \in issued' : ringOf'[e] = IF e \in ToSet(events) THEN Q[e] ELSE ringOf[e]
  BY <1>1, <1>2, <1>3
<1> HIDE DEF C
<1> QED
  BY <1>1, <1>2, <1>3, <1>4, <1>8, <1>9, <1>10, <1>11

(* What was committed keeps both tables sound, if no burst of the rings    *)
(* had an event and no two of them ring for one burst.                     *)
LEMMA RingsSound ==
  ASSUME Sound, NEW E, E \cap issued = {}, NEW Q,
         \A e \in E : Q[e] \in begun \cup {None},
         \A e \in E, c \in issued : Q[e] # None => ringOf[c] # Q[e],
         \A e, g \in E : e # g /\ Q[e] = Q[g] => Q[e] = None,
         issued' = issued \cup E,
         \A e \in issued' : ringOf'[e] = IF e \in E THEN Q[e] ELSE ringOf[e],
         engine' \in Table, CoherentInMemory(engine'),
         Marks(engine, engine', E, Q, issued', ringOf', unrung),
         saved' = PersistAll(engine'), unrung' = unrung, begun' = begun
  PROVE  TablesSound' /\ OneEventPerBurst'
<1>1. /\ InMemory(engine, begun, issued, ringOf, unrung)
      /\ Drawn(begun, issued, ringOf)
  BY DEF Sound, TablesSound
<1>2. InMemory(engine', begun, issued', ringOf', unrung)
  BY <1>1, TableRings
<1>3. OnDisk(saved', begun, issued', ringOf', unrung)
  BY <1>2, PersistAllFacts
<1>4. Drawn(begun, issued', ringOf')
  BY <1>1 DEF Drawn
<1>5. OneEventPerBurst'
  <2> SUFFICES ASSUME NEW e \in issued', NEW g \in issued', e # g, ringOf'[e] = ringOf'[g]
               PROVE  ringOf'[e] = None
    BY DEF OneEventPerBurst
  <2>1. CASE e \in E /\ g \in E
    BY <2>1
  <2>2. CASE e \notin E /\ g \notin E
    BY <2>2 DEF Sound, OneEventPerBurst
  <2>3. CASE e \in E /\ g \notin E
    BY <2>3
  <2>4. CASE e \notin E /\ g \in E
    BY <2>4
  <2> QED
    BY <2>1, <2>2, <2>3, <2>4
<1> QED
  BY <1>2, <1>3, <1>4, <1>5 DEF TablesSound

(* A manual ring that is not suppressed: what it does to memory and whom   *)
(* its event rings for.                                                    *)
RingBurst(r) ==
  IF Registered(r.session) /\ Associated(engine[r.session])
  THEN engine[r.session].burst ELSE None

LEMMA RingMoves ==
  ASSUME Sound, NEW r \in requests, HandleRing(r), NEW e, NEW Q, Q[e] = RingBurst(r),
         NEW C, NEW R, NEW X, Q[e] # None => Q[e] \in X \/ (e \in C /\ R[e] = Q[e])
  PROVE  /\ engine' \in Table /\ CoherentInMemory(engine')
         /\ Marks(engine, engine', {e}, Q, C, R, X)
         /\ Q[e] \in begun \cup {None}
         /\ \A c \in issued : Q[e] # None => ringOf[c] # Q[e]
         /\ NoneEarly'
<1> DEFINE i == r.session
           s == engine[i]
           t == ManualRing(s, r.wall)
<1>1. /\ i \in SessionId /\ r.wall \in Int /\ up
      /\ wall - mono \in Int /\ wall' - mono' = wall - mono
  BY DEF Sound, RestTyped, RequestRecord, ClocksAgree, HandleRing, Done
<1>2. /\ engine \in Table /\ CoherentInMemory(engine)
      /\ Owned(engine, begun, issued, ringOf)
      /\ \A j \in SessionId : engine[j] # None => NotEarly(engine[j], wall - mono)
  BY <1>1 DEF Sound, TablesSound, InMemory, Good, ClocksAgree, NotEarly, Registered
<1>3. /\ ~(Registered(i) /\ Suppressed(s))
      /\ engine' = IF Registered(i) THEN [engine EXCEPT ![i] = t] ELSE engine
  BY DEF HandleRing
<1>4. CASE ~Registered(i)
  <2>1. engine' = engine /\ Q[e] = None
    BY <1>3, <1>4 DEF RingBurst
  <2>2. Marks(engine, engine', {e}, Q, C, R, X)
    BY <2>1 DEF Marks
  <2>3. NoneEarly'
    BY <1>1, <1>2, <2>1 DEF NoneEarly
  <2> QED
    BY <1>2, <2>1, <2>2, <2>3
<1>5. CASE Registered(i)
  <2> HIDE DEF s, t
  <2>1. s = engine[i] /\ s \in SessionRecord /\ s # None /\ Coherent(s)
    BY <1>1, <1>2, <1>5 DEF Table, CoherentInMemory, Registered, s
  <2>2. /\ t \in SessionRecord /\ Coherent(t) /\ NotEarly(t, wall - mono)
        /\ t.burst = None \/ (t.burst = s.burst /\ t.notified /\ s.burst # None)
    BY <1>1, <1>2, <2>1, ManualRingFacts, ManualRingContinues DEF t
  <2>3. /\ engine'[i] = t /\ engine' \in Table
        /\ \A j \in SessionId \ {i} : engine'[j] = engine[j]
    BY <1>1, <1>2, <1>3, <1>5, <2>2 DEF Table
  <2>4. /\ Q[e] = IF Associated(s) THEN s.burst ELSE None
        /\ Associated(s) => ~s.notified
        /\ s.burst # None => Associated(s)
    BY <1>3, <1>5, <2>1 DEF RingBurst, Suppressed, Associated, Coherent, s
  <2>5. Q[e] \in {s.burst, None} /\ (s.burst # None => Q[e] = s.burst /\ ~s.notified)
    BY <2>4
  <2>6. CoherentInMemory(engine')
    BY <1>2, <2>2, <2>3 DEF CoherentInMemory
  <2>7. NoneEarly'
    BY <1>1, <1>2, <2>2, <2>3 DEF NoneEarly
  <2>8. Q[e] \in begun \cup {None}
    BY <1>1, <1>2, <2>1, <2>5 DEF Owned
  <2>9. ASSUME NEW c \in issued, Q[e] # None PROVE ringOf[c] # Q[e]
    BY <1>1, <1>2, <2>1, <2>5, <2>9 DEF Owned
  <2>10. Marks(engine, engine', {e}, Q, C, R, X)
    <3> SUFFICES ASSUME NEW j \in SessionId, engine'[j] # None, engine'[j].burst # None
                 PROVE  \/ /\ engine[j] # None /\ engine'[j].burst = engine[j].burst
                           /\ engine'[j].notified = engine[j].notified
                           /\ \A g \in {e} : Q[g] # engine'[j].burst
                        \/ /\ engine[j] # None /\ engine'[j].burst = engine[j].burst
                           /\ engine'[j].notified
                           /\ \/ engine'[j].burst \in X
                              \/ \E g \in C : R[g] = engine'[j].burst
      BY DEF Marks
    <3>1. CASE j = i
      <4>1. t.burst = s.burst /\ t.notified /\ s.burst # None
        BY <2>2, <2>3, <3>1
      <4>2. s.burst \in X \/ (e \in C /\ R[e] = s.burst)
        BY <2>5, <4>1
      <4> QED
        BY <2>1, <2>3, <3>1, <4>1, <4>2
    <3>2. CASE j # i
      <4>1. engine'[j] = engine[j]
        BY <2>3, <3>2
      <4>2. Q[e] # engine[j].burst
        BY <1>1, <1>2, <2>1, <2>5, <3>2, <4>1 DEF Owned
      <4> QED
        BY <4>1, <4>2
    <3> QED
      BY <3>1, <3>2
  <2> QED
    BY <2>3, <2>6, <2>7, <2>8, <2>9, <2>10
<1> QED
  BY <1>4, <1>5

(* The rings of one tick: events not yet issued, each for the burst of one *)
(* session that is due, no two for one burst.                              *)
LEMMA TickRings ==
  ASSUME Sound, ProcessTimers, Ringing(loop.mono) # {}
  PROVE  \E events \in Seq(Event) : \E Q :
           /\ SaveAndEnqueue(events, Q, loop.wall)
           /\ ToSet(events) \cap issued = {}
           /\ \A e \in ToSet(events) : \E i \in Ringing(loop.mono) : Q[e] = engine[i].burst
           /\ \A e, g \in ToSet(events) : Q[e] = Q[g] => e = g
<1> DEFINE bursts == {engine[i].burst : i \in Ringing(loop.mono)}
<1>1. PICK EE \in kSubset(Cardinality(bursts), Event \ issued) :
        \E events \in SetToSeqs(EE), Q \in Bijection(EE, bursts) :
          SaveAndEnqueue(events, Q, loop.wall)
  BY DEF ProcessTimers
<1>2. PICK events \in SetToSeqs(EE), Q \in Bijection(EE, bursts) :
        SaveAndEnqueue(events, Q, loop.wall)
  BY <1>1
<1>3. EE \subseteq Event \ issued
  BY <1>1 DEF kSubset
<1>4. Q \in [EE -> bursts] /\ \A e, g \in EE : Q[e] = Q[g] => e = g
  BY <1>2 DEF Bijection, Injection, IsInjective
<1>5. Cardinality(EE) \in Nat
  BY <1>3, FS_Subset, FS_CardinalityType, DaemonAssumption
<1>6. events \in [1 .. Cardinality(EE) -> EE]
  BY <1>2 DEF SetToSeqs
<1>7. events \in Seq(Event)
  <2>1. events \in [1 .. Cardinality(EE) -> Event]
    BY <1>3, <1>6
  <2> QED
    BY <1>5, <2>1, SeqDef
<1>8. ToSet(events) \subseteq EE
  BY <1>6 DEF ToSet
<1>9. \A e \in ToSet(events) : \E i \in Ringing(loop.mono) : Q[e] = engine[i].burst
  BY <1>4, <1>8
<1>10. \A e, g \in ToSet(events) : Q[e] = Q[g] => e = g
  BY <1>4, <1>8
<1> QED
  BY <1>2, <1>3, <1>7, <1>8, <1>9, <1>10

LEMMA RingingHasBurst ==
  ASSUME Sound, NEW i \in Ringing(loop.mono)
  PROVE  /\ i \in SessionId /\ i \in DueSessions(loop.mono) /\ engine[i] # None
         /\ engine[i].burst # None /\ ~engine[i].notified
         /\ engine[i].burst \in begun
         /\ \A c \in issued : ringOf[c] # engine[i].burst
         /\ \A j \in SessionId : engine[j] # None /\ engine[j].burst = engine[i].burst => j = i
<1>1. /\ i \in SessionId /\ i \in DueSessions(loop.mono) /\ engine[i] # None
      /\ engine[i].state = "settling" /\ ~engine[i].notified
  BY DEF Ringing, DueSessions, Registered, Due, RingsAutomatically
<1>2. engine[i].burst # None
  BY <1>1 DEF Sound, TablesSound, InMemory, CoherentInMemory, Coherent
<1>3. Owned(engine, begun, issued, ringOf)
  BY DEF Sound, TablesSound, InMemory, Good
<1> QED
  BY <1>1, <1>2, <1>3 DEF Owned

(* Steps that leave the events alone.                                      *)
LEMMA NoRingSound ==
  ASSUME Sound, UNCHANGED <<issued, ringOf>>,
         InMemory(engine', begun', issued, ringOf, unrung),
         begun \subseteq begun', unrung \subseteq unrung',
         saved' \in {saved, PersistAll(engine')}
  PROVE  TablesSound' /\ OneEventPerBurst'
<1>1. OnDisk(saved, begun, issued, ringOf, unrung) /\ Drawn(begun, issued, ringOf)
  BY DEF Sound, TablesSound
<1>2. InMemory(engine', begun', issued, ringOf, unrung')
  BY GoodGrows DEF InMemory
<1>3. OnDisk(saved', begun', issued, ringOf, unrung')
  <2>1. OnDisk(saved, begun', issued, ringOf, unrung')
    BY <1>1, GoodGrows DEF OnDisk
  <2>2. OnDisk(PersistAll(engine'), begun', issued, ringOf, unrung')
    BY <1>2, PersistAllFacts
  <2> QED
    BY <2>1, <2>2
<1>4. Drawn(begun', issued, ringOf)
  BY <1>1 DEF Drawn
<1>5. OneEventPerBurst'
  BY DEF Sound, OneEventPerBurst
<1> QED
  BY <1>2, <1>3, <1>4, <1>5 DEF TablesSound

(* Steps of the loop that only forget sessions.                            *)
LEMMA ForgettingSound ==
  ASSUME Sound, UNCHANGED <<begun, issued, ringOf>>,
         engine' \in Table, CoherentInMemory(engine'), Follows(engine, engine', None, None),
         unrung' = unrung, saved' \in {saved, PersistAll(engine')}
  PROVE  TablesSound' /\ OneEventPerBurst'
<1>1. /\ Good(engine, begun, issued, ringOf, unrung)
      /\ Drawn(begun, issued, ringOf)
  BY DEF Sound, TablesSound, InMemory
<1>2. begun = begun \cup ({None} \ {None})
  OBVIOUS
<1>3. InMemory(engine', begun, issued, ringOf, unrung)
  BY <1>1, <1>2, TableContinues
<1> QED
  BY <1>3, NoRingSound

(* Every step keeps both tables sound, and one event for each burst.       *)
LEMMA StepSound ==
  ASSUME Sound, Next
  PROVE  TablesSound' /\ OneEventPerBurst'
<1>0. failures \in Nat /\ issued \subseteq Event /\ ringOf \in [Event -> Burst \cup {None}]
  BY DEF Sound, RestTyped
<1>1. CASE Start
  <2>1. /\ saved' = PersistAll(engine') /\ UNCHANGED <<begun, issued, ringOf, unrung>>
    BY <1>1 DEF Start, observer, bounds
  <2> QED
    BY <1>1, <2>1, StartMoves, NoRingSound
<1>2. ASSUME engine' = engine, UNCHANGED <<begun, issued, ringOf, unrung>>,
             saved' \in {saved, PersistAll(engine')}
      PROVE  TablesSound' /\ OneEventPerBurst'
  BY <1>2, NoRingSound DEF Sound, TablesSound
<1>3. CASE Crash \/ Shutdown \/ Receive \/ BeginTimers \/ BeginDelivery
           \/ PassTime \/ ShellExit
  <2>1. engine' = engine /\ UNCHANGED <<begun, issued, ringOf, unrung>>
    BY <1>3 DEF Crash, StopAfterDelete, Shutdown, Stop, Receive, BeginTimers, BeginDelivery, PassTime,
       ShellExit, process, database, observer, bounds
  <2>2. saved' \in {saved, PersistAll(engine')}
    BY <1>3, <2>1 DEF Crash, StopAfterDelete, Shutdown, Stop, Receive, BeginTimers, BeginDelivery, PassTime,
       ShellExit, process, database, observer, bounds
  <2> QED
    BY <1>2, <2>1, <2>2
<1>4. CASE Deliver
  BY <1>2, <1>4 DEF Deliver, MarkDelivered, DiscardPermanent, RefuseAuthorization,
     RetryLater, Answered, bounds
<1>5. CASE Handle
  <2>1. PICK r \in requests :
          \/ HandleUpdate(r) \/ HandleOpen(r) \/ HandleClose(r) \/ HandleRefused(r)
          \/ HandleRing(r) \/ HandleSuppressedRing(r)
    BY <1>5 DEF Handle
  <2>2. CASE HandleUpdate(r) \/ HandleOpen(r) \/ HandleClose(r) \/ HandleSuppressedRing(r)
    <3>1. Save
      BY <2>2 DEF HandleUpdate, HandleOpen, HandleClose, HandleSuppressedRing
    <3>2. /\ UNCHANGED <<issued, ringOf>> /\ saved' \in {saved, PersistAll(engine')}
          /\ unrung' = unrung
      BY <1>0, <3>1 DEF Save, StoreFails, database
    <3> QED
      BY <2>2, <3>2, RequestMoves, NoRingSound
  <2>3. CASE HandleRefused(r)
    BY <1>2, <2>3 DEF HandleRefused, database
  <2>4. CASE HandleRing(r)
    <3>1. begun' = begun
      BY <2>4 DEF HandleRing
    <3> DEFINE Failed ==
          /\ StoreFails
          /\ unrung' = unrung \cup IF Registered(r.session) /\ Associated(engine[r.session])
                                   THEN {engine[r.session].burst} ELSE {}
    <3>2. CASE Failed
      <4> DEFINE Q == [f \in {None} |-> RingBurst(r)]
      <4>1. /\ UNCHANGED <<saved, issued, ringOf>> /\ unrung \subseteq unrung'
            /\ Q[None] # None => Q[None] \in unrung'
        BY <3>2 DEF StoreFails, database, RingBurst
      <4>2. Q[None] = RingBurst(r)
        OBVIOUS
      <4> HIDE DEF Q
      <4>3. /\ engine' \in Table /\ CoherentInMemory(engine')
            /\ Marks(engine, engine', {None}, Q, issued, ringOf, unrung')
        BY <2>4, <4>1, <4>2, RingMoves
      <4>4. Marks(engine, engine', {}, Q, issued, ringOf, unrung')
        BY <4>3 DEF Marks
      <4>5. InMemory(engine, begun, issued, ringOf, unrung')
        BY <4>1, GoodGrows DEF Sound, TablesSound, InMemory
      <4>6. InMemory(engine', begun, issued, ringOf, unrung')
        BY <4>3, <4>4, <4>5, TableRings
      <4>7. OnDisk(saved, begun, issued, ringOf, unrung')
        BY <4>1, GoodGrows DEF Sound, TablesSound, OnDisk
      <4> QED
        BY <3>1, <4>1, <4>6, <4>7 DEF Sound, TablesSound, OneEventPerBurst
    <3>3. ASSUME NEW e \in Event \ issued, NEW Q, Q[e] = RingBurst(r),
                 SaveAndEnqueue(<<e>>, Q, r.wall)
          PROVE  TablesSound' /\ OneEventPerBurst'
      <4>1. <<e>> \in Seq(Event) /\ ToSet(<<e>>) = {e}
        BY DEF ToSet
      <4>2. r.wall \in Int
        BY DEF Sound, RestTyped, RequestRecord
      <4>3. Q[e] \in begun \cup {None} /\ begun \subseteq Burst
        BY <2>4, <3>3, RingMoves DEF Sound, RestTyped
      <4>4. /\ issued' = issued \cup {e}
            /\ \A c \in issued' : ringOf'[c] = IF c \in {e} THEN Q[c] ELSE ringOf[c]
            /\ saved' = PersistAll(engine') /\ unrung' = unrung
        BY <3>3, <4>1, <4>2, <4>3, Commits
      <4>5. e \in issued' /\ ringOf'[e] = Q[e]
        BY <4>4
      <4>6. /\ engine' \in Table /\ CoherentInMemory(engine')
            /\ Marks(engine, engine', {e}, Q, issued', ringOf', unrung)
            /\ \A c \in issued : Q[e] # None => ringOf[c] # Q[e]
        BY <2>4, <3>3, <4>5, RingMoves
      <4>7. {e} \cap issued = {}
        OBVIOUS
      <4> QED
        BY <3>1, <4>3, <4>4, <4>6, <4>7, RingsSound
    <3>4. CASE ~Failed
      <4>1. PICK e \in Event \ issued :
              SaveAndEnqueue(<<e>>, [f \in {e} |-> RingBurst(r)], r.wall)
        BY <2>4, <3>4 DEF HandleRing, RingBurst
      <4>2. [f \in {e} |-> RingBurst(r)][e] = RingBurst(r)
        OBVIOUS
      <4> QED
        BY <3>3, <4>1, <4>2
    <3> QED
      BY <3>2, <3>4
  <2> QED
    BY <2>1, <2>2, <2>3, <2>4
<1>6. CASE ProcessTimers
  <2>1. /\ loop.op = "timers" /\ engine' = Tick /\ begun' = begun
    BY <1>6 DEF ProcessTimers
  <2>2. CASE Ringing(loop.mono) = {}
    <3>1. UNCHANGED <<saved, begun, issued, ringOf, unrung>>
      BY <1>6, <2>2 DEF ProcessTimers, database
    <3> QED
      BY <2>1, <3>1, TickMoves, ForgettingSound
  <2>3. CASE Ringing(loop.mono) # {}
    <3>0. PICK events \in Seq(Event) : \E Q :
            /\ SaveAndEnqueue(events, Q, loop.wall)
            /\ ToSet(events) \cap issued = {}
            /\ \A e \in ToSet(events) : \E i \in Ringing(loop.mono) : Q[e] = engine[i].burst
            /\ \A e, g \in ToSet(events) : Q[e] = Q[g] => e = g
      BY <1>6, <2>3, TickRings
    <3>1. PICK Q :
            /\ SaveAndEnqueue(events, Q, loop.wall)
            /\ ToSet(events) \cap issued = {}
            /\ \A e \in ToSet(events) : \E i \in Ringing(loop.mono) : Q[e] = engine[i].burst
            /\ \A e, g \in ToSet(events) : Q[e] = Q[g] => e = g
      BY <3>0
    <3> DEFINE E == ToSet(events)
    <3> HIDE DEF E
    <3>2. ASSUME NEW e \in E
          PROVE  /\ Q[e] \in begun /\ Q[e] # None
                 /\ \A c \in issued : ringOf[c] # Q[e]
                 /\ \A j \in SessionId \ DueSessions(loop.mono) :
                      engine[j] # None => engine[j].burst # Q[e]
      <4>1. PICK i \in Ringing(loop.mono) : Q[e] = engine[i].burst
        BY <3>1 DEF E
      <4> QED
        BY <4>1, RingingHasBurst
    <3>3. begun \subseteq Burst /\ loop.wall \in Int
      BY <2>1, LoopCases DEF Sound, RestTyped
    <3>4. /\ issued' = issued \cup E
          /\ \A c \in issued' : ringOf'[c] = IF c \in E THEN Q[c] ELSE ringOf[c]
          /\ saved' = PersistAll(engine') /\ unrung' = unrung
      <4>1. \A e \in ToSet(events) : Q[e] \in Burst \cup {None}
        BY <3>2, <3>3 DEF E
      <4> QED
        BY <3>1, <3>3, <4>1, Commits DEF E
    <3>5. engine' \in Table /\ CoherentInMemory(engine')
      BY <2>1, TickMoves
    <3>6. Marks(engine, engine', E, Q, issued', ringOf', unrung)
      <4>1. /\ \A j \in DueSessions(loop.mono) : engine'[j].burst = None
            /\ \A j \in SessionId \ DueSessions(loop.mono) : engine'[j] = engine[j]
        BY <2>1, TickMoves
      <4> QED
        BY <3>2, <4>1 DEF Marks
    <3>7. /\ E \cap issued = {}
          /\ \A e \in E : Q[e] \in begun \cup {None}
          /\ \A e \in E, c \in issued : Q[e] # None => ringOf[c] # Q[e]
          /\ \A e, g \in E : e # g /\ Q[e] = Q[g] => Q[e] = None
      BY <3>1, <3>2 DEF E
    <3> QED
      BY <2>1, <3>4, <3>5, <3>6, <3>7, RingsSound
  <2> QED
    BY <2>2, <2>3
<1>7. CASE ProcessTimersFails
  <2>1. /\ loop.op = "timers" /\ engine' = Tick /\ UNCHANGED <<begun, issued, ringOf>>
        /\ saved' \in {saved, PersistAll(engine')} /\ unrung' = unrung
    BY <1>7 DEF ProcessTimersFails, FatalExit, observer
  <2> QED
    BY <1>0, <2>1, TickMoves, ForgettingSound
<1>8. CASE Cleanup
  <2>1. /\ engine' = Kept /\ saved' \in {saved, PersistAll(engine')}
        /\ UNCHANGED <<begun, issued, ringOf, unrung>>
    BY <1>8 DEF Cleanup, observer, bounds
  <2> QED
    BY <2>1, KeptMoves, ForgettingSound
<1>9. CASE LoopFails
  <2>1. /\ engine' \in {engine, Kept} /\ saved' \in {saved, PersistAll(engine')}
        /\ UNCHANGED <<begun, issued, ringOf, unrung>>
    BY <1>9 DEF LoopFails, StopAfterDelete, FatalExit
  <2> QED
    BY <1>0, <2>1, KeptMoves, ForgettingSound
<1> QED
  BY <1>1, <1>3, <1>4, <1>5, <1>6, <1>7, <1>8, <1>9 DEF Next

(* The table follows memory: what is saved is what memory holds, and a     *)
(* tick that is not saved only resets settling bursts without a ring.      *)
LEMMA StepFollows ==
  ASSUME Sound, Next
  PROVE  OnlySilentResetsAreUnsaved'
<1>0. failures \in Nat /\ engine \in Table
  BY DEF Sound, RestTyped, TablesSound, InMemory, Good
<1>1. ASSUME saved' = PersistAll(engine') PROVE OnlySilentResetsAreUnsaved'
  BY <1>1 DEF OnlySilentResetsAreUnsaved, PersistAll, Registered
<1>2. ASSUME failures' = failures + 1 PROVE OnlySilentResetsAreUnsaved'
  BY <1>0, <1>2 DEF OnlySilentResetsAreUnsaved
<1>3. ASSUME UNCHANGED <<engine, saved, failures>> PROVE OnlySilentResetsAreUnsaved'
  BY <1>3 DEF Sound, OnlySilentResetsAreUnsaved, Registered
<1>4. CASE Start \/ Shutdown
  BY <1>1, <1>4 DEF Start, Shutdown, Stop
<1>5. CASE Crash \/ Receive \/ BeginTimers \/ BeginDelivery \/ PassTime \/ ShellExit
  BY <1>3, <1>5 DEF Crash, Stop, Receive, BeginTimers, BeginDelivery, PassTime, ShellExit,
     process, database, observer, bounds
<1>6. CASE Deliver
  BY <1>3, <1>6 DEF Deliver, MarkDelivered, DiscardPermanent, RefuseAuthorization,
     RetryLater, Answered, bounds
<1>7. CASE Handle
  <2>1. PICK r \in requests :
          \/ HandleUpdate(r) \/ HandleOpen(r) \/ HandleClose(r) \/ HandleRefused(r)
          \/ HandleRing(r) \/ HandleSuppressedRing(r)
    BY <1>7 DEF Handle
  <2>2. CASE Save \/ StoreFails
    BY <1>1, <1>2, <2>2 DEF Save, StoreFails
  <2>3. CASE HandleRefused(r)
    BY <1>3, <2>3 DEF HandleRefused, database
  <2>4. CASE HandleRing(r) /\ ~StoreFails
    BY <1>1, <2>4 DEF HandleRing, SaveAndEnqueue
  <2> QED
    BY <2>1, <2>2, <2>3, <2>4 DEF HandleUpdate, HandleOpen, HandleClose,
       HandleSuppressedRing
<1>8. CASE ProcessTimers /\ Ringing(loop.mono) # {}
  BY <1>1, <1>8 DEF ProcessTimers, SaveAndEnqueue
<1>9. CASE ProcessTimers /\ Ringing(loop.mono) = {}
  <2>1. /\ loop.op = "timers" /\ engine' = Tick /\ UNCHANGED <<saved, failures>>
    BY <1>9 DEF ProcessTimers, database
  <2> SUFFICES ASSUME failures = 0, NEW i \in SessionId
               PROVE  (\/ engine[i] = None /\ saved[i] = None
                       \/ Registered(i) /\ saved[i] = Persisted(engine[i])
                       \/ /\ Registered(i) /\ saved[i] # None
                          /\ saved[i].state = "settling" /\ engine[i].state = "armed"
                          /\ engine[i].mode = saved[i].mode)'
    BY <2>1 DEF OnlySilentResetsAreUnsaved
  <2>2. CASE i \notin DueSessions(loop.mono)
    <3>1. engine'[i] = engine[i]
      BY <2>1, <2>2, TickMoves
    <3> QED
      BY <2>1, <3>1 DEF Sound, OnlySilentResetsAreUnsaved, Registered
  <2>3. CASE i \in DueSessions(loop.mono)
    <3> DEFINE s == engine[i]
    <3>1. /\ s # None /\ s.state = "settling" /\ ~RingsAutomatically(s)
          /\ engine'[i] = Settle(s, loop.wall) /\ engine'[i] # None
      BY <1>9, <2>1, <2>3, TickMoves DEF Ringing
    <3>2. s \in SessionRecord /\ Coherent(s)
      BY <1>0, <3>1 DEF Table, Sound, TablesSound, InMemory, CoherentInMemory
    <3>3. saved[i] = Persisted(s)
      BY <3>1 DEF Sound, OnlySilentResetsAreUnsaved
    <3> HIDE DEF s
    <3>4. Settle(s, loop.wall).state = "armed" /\ Settle(s, loop.wall).mode = s.mode
      BY <2>1, <3>1, <3>2, SettleContinues, LoopCases DEF Sound, RestTyped
    <3>5. /\ saved[i] # None /\ saved[i].state = "settling" /\ saved[i].mode = s.mode
      BY <3>1, <3>2, <3>3, PersistedFacts, NoneAssumption
    <3> QED
      BY <2>1, <3>1, <3>4, <3>5 DEF Registered
  <2> QED
    BY <2>2, <2>3
<1>10. CASE ProcessTimersFails \/ LoopFails
  BY <1>2, <1>10 DEF ProcessTimersFails, LoopFails
<1>11. CASE Cleanup
  <2>1. CASE Forgotten # {}
    BY <1>1, <1>11, <2>1 DEF Cleanup
  <2>2. CASE Forgotten = {}
    <3>1. engine' = engine
      BY <1>0, <1>11, <2>2 DEF Cleanup, Kept, Table
    <3> QED
      BY <1>3, <1>11, <2>2, <3>1 DEF Cleanup, bounds
  <2> QED
    BY <2>1, <2>2
<1> QED
  BY <1>4, <1>5, <1>6, <1>7, <1>8, <1>9, <1>10, <1>11 DEF Next

(* Whoever reads the clocks reads both at once, and what a session waits   *)
(* for is never earlier on the monotonic clock than on the wall.           *)
LEMMA StepClocks ==
  ASSUME Sound, Next
  PROVE  ClocksAgree'
<1>0. /\ mono \in Nat /\ wall \in Nat /\ requests \subseteq RequestRecord
      /\ loop \in LoopRecord
      /\ ClocksAgree /\ (up => NoneEarly)
  BY DEF Sound, RestTyped, ClocksAgree, NoneEarly, NotEarly, Registered
<1>1. ASSUME requests' = {} \/ (requests' \subseteq requests /\ up' = up /\ wall' = wall /\ mono' = mono),
             loop'.op # "timers" \/ (loop' = loop /\ up' = up /\ wall' = wall /\ mono' = mono),
             ~up' \/ NoneEarly'
      PROVE  ClocksAgree'
  BY <1>0, <1>1 DEF ClocksAgree, NoneEarly, NotEarly, Registered
<1>2. ASSUME engine' = engine, wall' = wall, mono' = mono, up PROVE NoneEarly'
  BY <1>0, <1>2 DEF NoneEarly
<1>3. CASE Start
  BY <1>1, <1>3, StartMoves DEF Start, Idling
<1>4. CASE Crash \/ Shutdown \/ ProcessTimersFails \/ LoopFails
  BY <1>1, <1>4 DEF Crash, Shutdown, ProcessTimersFails, LoopFails, FatalExit, Stop, Idling
<1>5. CASE Receive
  <2>1. PICK command \in Commands, i \in alive :
          requests' = requests \cup
            {[command |-> command, session |-> i, mono |-> mono, wall |-> wall]}
    BY <1>5 DEF Receive
  <2>2. up' = up /\ up /\ wall' = wall /\ mono' = mono /\ loop' = loop /\ engine' = engine
    BY <1>5 DEF Receive
  <2> QED
    BY <1>0, <2>1, <2>2 DEF ClocksAgree, Registered
<1>6. CASE Handle
  <2>1. PICK r \in requests :
          \/ HandleUpdate(r) \/ HandleOpen(r) \/ HandleClose(r) \/ HandleRefused(r)
          \/ HandleRing(r) \/ HandleSuppressedRing(r)
    BY <1>6 DEF Handle
  <2>2. Done(r)
    BY <2>1 DEF HandleUpdate, HandleOpen, HandleClose, HandleRefused, HandleRing,
       HandleSuppressedRing
  <2>3. /\ up /\ requests' \subseteq requests /\ up' = up
        /\ wall' = wall /\ mono' = mono /\ loop' = loop
    BY <2>2 DEF Done
  <2>4. NoneEarly'
    <3>1. CASE HandleRefused(r)
      BY <1>2, <2>3, <3>1 DEF HandleRefused
    <3>2. CASE HandleRing(r)
      <4> DEFINE Q == [f \in {None} |-> RingBurst(r)]
      <4>1. Q[None] = RingBurst(r)
        OBVIOUS
      <4> HIDE DEF Q
      <4> QED
        BY <3>2, <4>1, RingMoves
    <3> QED
      BY <2>1, <3>1, <3>2, RequestMoves
  <2> QED
    BY <1>1, <2>3, <2>4
<1>7. CASE BeginTimers
  <2>1. /\ loop' = [op |-> "timers", mono |-> mono, wall |-> wall] /\ up
        /\ UNCHANGED <<up, engine, mono, requests, wall>>
    BY <1>7 DEF BeginTimers
  <2> QED
    BY <1>0, <2>1 DEF ClocksAgree, Registered
<1>8. CASE ProcessTimers
  <2>1. /\ loop.op = "timers" /\ engine' = Tick /\ loop' = Idling
        /\ UNCHANGED <<up, mono, requests, wall>>
    BY <1>8 DEF ProcessTimers
  <2>2. NoneEarly'
    BY <2>1, TickMoves DEF NoneEarly
  <2> QED
    BY <1>1, <2>1, <2>2 DEF Idling
<1>9. CASE BeginDelivery
  <2>1. /\ up /\ UNCHANGED <<up, engine, mono, requests, wall>>
        /\ loop = Idling
        /\ loop' = loop \/ loop'.op = "deliver"
    BY <1>9 DEF BeginDelivery
  <2> QED
    BY <1>1, <1>2, <2>1
<1>10. CASE Deliver
  <2>1. /\ UNCHANGED <<up, engine, mono, requests, wall>> /\ loop' = Idling
    BY <1>10 DEF Deliver, MarkDelivered, DiscardPermanent, RefuseAuthorization, RetryLater,
       Answered
  <2> QED
    BY <1>0, <1>1, <1>2, <2>1 DEF Idling
<1>11. CASE Cleanup
  <2>1. /\ up /\ engine' = Kept /\ UNCHANGED <<up, mono, requests, wall, loop>>
    BY <1>11 DEF Cleanup
  <2>2. NoneEarly'
    BY <1>0, <2>1, KeptMoves DEF NoneEarly
  <2> QED
    BY <1>1, <2>1, <2>2
<1>12. CASE PassTime
  <2>1. /\ wall' = wall + 1 /\ mono' = (IF up THEN mono + 1 ELSE mono)
        /\ UNCHANGED <<up, engine, requests, loop>>
    BY <1>12 DEF PassTime
  <2>2. up => wall' - mono' = wall - mono
    BY <1>0, <2>1
  <2> QED
    BY <1>0, <2>1, <2>2 DEF ClocksAgree, Registered
<1>13. CASE ShellExit
  BY <1>0, <1>13 DEF ShellExit, process, ClocksAgree, Registered
<1> QED
  BY <1>3, <1>4, <1>5, <1>6, <1>7, <1>8, <1>9, <1>10, <1>11, <1>12, <1>13 DEF Next

(* Types of everything but the two tables.                                 *)
LEMMA HandleTyped ==
  ASSUME Sound, Handle
  PROVE  RestTyped'
<1> USE DEF Sound, RestTyped
<1>1. PICK r \in requests :
        \/ HandleUpdate(r) \/ HandleOpen(r) \/ HandleClose(r) \/ HandleRefused(r)
        \/ HandleRing(r) \/ HandleSuppressedRing(r)
  BY DEF Handle
<1>2. Done(r)
  BY <1>1 DEF HandleUpdate, HandleOpen, HandleClose, HandleRefused, HandleRing,
     HandleSuppressedRing
<1>3. /\ UNCHANGED <<up, limit, mono, loop, wall, alive, delivered, uncounted, crashes>>
      /\ requests' \in SUBSET RequestRecord
  BY <1>2 DEF Done
<1>4. begun' \in SUBSET Burst
  BY <1>1, RequestMoves DEF HandleRefused, HandleRing
<1>5. ASSUME UNCHANGED <<queue, dropped, issued, ringOf>>, failures' \in {failures, failures + 1},
             unrung' \in SUBSET Burst
      PROVE  RestTyped'
  BY <1>3, <1>4, <1>5
<1>6. CASE Save
  BY <1>5, <1>6 DEF Save, StoreFails, database
<1>7. CASE HandleRefused(r)
  BY <1>5, <1>7 DEF HandleRefused, database
<1>9. CASE HandleRing(r) /\ StoreFails
  <2>1. RingBurst(r) \in Burst \cup {None}
    <3>1. r.session \in SessionId /\ Owned(engine, begun, issued, ringOf)
      BY DEF TablesSound, InMemory, Good, RequestRecord
    <3> QED
      BY <3>1 DEF Owned, RingBurst, Registered
  <2>2. unrung' \in SUBSET Burst
    <3>1. CASE unrung' = unrung
      BY <3>1
    <3>2. CASE unrung' = unrung \cup IF Registered(r.session) /\ Associated(engine[r.session])
                                     THEN {engine[r.session].burst} ELSE {}
      BY <2>1, <3>2 DEF RingBurst, Associated
    <3> QED
      BY <1>9, <3>1, <3>2 DEF HandleRing, SaveAndEnqueue, Enqueue
  <2> QED
    BY <1>5, <1>9, <2>2 DEF StoreFails, database
<1>8. CASE HandleRing(r) /\ ~StoreFails
  <2>1. PICK e \in Event \ issued :
          SaveAndEnqueue(<<e>>, [f \in {e} |-> RingBurst(r)], r.wall)
    BY <1>8 DEF HandleRing, RingBurst
  <2> DEFINE Q == [f \in {e} |-> RingBurst(r)]
  <2>2. Q[e] = RingBurst(r)
    OBVIOUS
  <2> HIDE DEF Q
  <2>3. <<e>> \in Seq(Event) /\ ToSet(<<e>>) = {e} /\ r.wall \in Int
    BY DEF ToSet, RequestRecord
  <2>4. Q[e] \in Burst \cup {None}
    BY <1>8, <2>2, RingMoves
  <2>5. SaveAndEnqueue(<<e>>, Q, r.wall)
    BY <2>1 DEF Q
  <2>6. /\ QueueTyped(queue') /\ issued' \in SUBSET Event
        /\ ringOf' \in [Event -> Burst \cup {None}] /\ failures' = failures
        /\ unrung' = unrung /\ dropped' \in Nat
    BY <2>3, <2>4, <2>5, Commits
  <2> QED
    BY <1>3, <1>4, <2>6
<1> QED
  BY <1>1, <1>6, <1>7, <1>8, <1>9 DEF HandleUpdate, HandleOpen, HandleClose,
     HandleSuppressedRing

LEMMA TimersTyped ==
  ASSUME Sound, ProcessTimers
  PROVE  RestTyped'
<1> USE DEF Sound, RestTyped
<1>1. /\ loop.op = "timers" /\ loop' = Idling /\ Idling \in LoopRecord
      /\ UNCHANGED <<up, limit, mono, requests, wall, alive, begun, delivered, uncounted, crashes>>
  BY DEF ProcessTimers, LoopRecord
<1>2. CASE Ringing(loop.mono) = {}
  BY <1>1, <1>2 DEF ProcessTimers, database
<1>3. CASE Ringing(loop.mono) # {}
  <2>0. PICK events \in Seq(Event) : \E Q :
          /\ SaveAndEnqueue(events, Q, loop.wall)
          /\ ToSet(events) \cap issued = {}
          /\ \A e \in ToSet(events) : \E i \in Ringing(loop.mono) : Q[e] = engine[i].burst
          /\ \A e, g \in ToSet(events) : Q[e] = Q[g] => e = g
    BY <1>3, TickRings
  <2>1. PICK Q :
          /\ SaveAndEnqueue(events, Q, loop.wall)
          /\ \A e \in ToSet(events) : \E i \in Ringing(loop.mono) : Q[e] = engine[i].burst
    BY <2>0
  <2>2. \A e \in ToSet(events) : Q[e] \in Burst \cup {None}
    BY <2>1, RingingHasBurst
  <2>3. loop.wall \in Int
    BY <1>1, LoopCases
  <2>4. /\ QueueTyped(queue') /\ issued' \in SUBSET Event
        /\ ringOf' \in [Event -> Burst \cup {None}] /\ failures' = failures
        /\ unrung' = unrung /\ dropped' \in Nat
    BY <2>1, <2>2, <2>3, Commits
  <2> QED
    BY <1>1, <2>4
<1> QED
  BY <1>2, <1>3

LEMMA DeliveryTyped ==
  ASSUME Sound, BeginDelivery \/ Deliver \/ Cleanup
  PROVE  RestTyped'
<1> USE DEF Sound, RestTyped
<1>0. Idling \in LoopRecord
  BY DEF LoopRecord
<1>1. ASSUME ExpireOld
      PROVE  /\ QueueTyped(queue') /\ DOMAIN queue' \subseteq DOMAIN queue
             /\ Cardinality(Expired(queue, wall, MaxAge)) \in Nat /\ dropped' \in Nat
  <2>1. QueueTyped(queue') /\ DOMAIN queue' \subseteq DOMAIN queue
    BY <1>1, WithoutTyped DEF ExpireOld
  <2>2. Expired(queue, wall, MaxAge) \subseteq Event
    BY DEF Expired, QueueTyped
  <2>3. Cardinality(Expired(queue, wall, MaxAge)) \in Nat
    BY <2>2, FS_Subset, FS_CardinalityType, DaemonAssumption
  <2> QED
    BY <1>1, <2>1, <2>3 DEF ExpireOld
<1>2. CASE BeginDelivery
  <2>1. /\ ExpireOld /\ loop = Idling
        /\ \/ loop' = loop
           \/ \E e \in NextDue(queue', wall) :
                loop' = [op |-> "deliver", event |-> e, wall |-> wall,
                         attempts |-> queue[e].attempts]
        /\ UNCHANGED <<up, limit, mono, requests, wall, alive, begun, observer,
                       crashes, failures>>
    BY <1>2 DEF BeginDelivery, bounds
  <2>2. loop' \in LoopRecord
    <3>1. ASSUME NEW e \in NextDue(queue', wall)
          PROVE  e \in Event /\ queue[e].attempts \in Nat
      <4>1. e \in DOMAIN queue'
        BY DEF NextDue, OldestOf, DueRows
      <4>2. e \in DOMAIN queue
        BY <1>1, <2>1, <4>1
      <4> QED
        BY <4>2 DEF QueueTyped, Row
    <3> QED
      BY <2>1, <3>1 DEF LoopRecord
  <2> QED
    BY <1>1, <2>1, <2>2 DEF observer
<1>3. CASE Cleanup
  BY <1>1, <1>3 DEF Cleanup, observer, bounds
<1>4. CASE Deliver
  <2>1. /\ loop' = Idling /\ loop.op = "deliver" /\ loop.event \in Event
        /\ loop.wall \in Nat /\ loop.attempts \in Nat
        /\ UNCHANGED <<up, limit, mono, requests, wall, alive, begun, issued, ringOf,
                       uncounted, unrung, crashes, failures>>
    BY <1>4, LoopCases DEF Deliver, MarkDelivered, DiscardPermanent, RefuseAuthorization,
       RetryLater, Answered, bounds
  <2>2. CASE MarkDelivered
    <3>1. QueueTyped(queue') /\ dropped' = dropped /\ delivered' = delivered \cup {loop.event}
      BY <2>2, WithoutTyped DEF MarkDelivered
    <3> QED
      BY <1>0, <2>1, <3>1
  <2>3. CASE DiscardPermanent
    <3>1. QueueTyped(queue') /\ dropped' = dropped + 1 /\ delivered' = delivered
      BY <2>3, WithoutTyped DEF DiscardPermanent
    <3> QED
      BY <1>0, <2>1, <3>1
  <2>4. CASE RefuseAuthorization
    <3>1. QueueTyped(queue') /\ dropped' = dropped /\ delivered' = delivered
      BY <2>4, MarksTyped, 0 \in Int DEF RefuseAuthorization
    <3> QED
      BY <1>0, <2>1, <3>1
  <2>5. CASE RetryLater
    <3>1. PICK delay \in RetryDelay(loop.attempts) :
            queue' = MarkRetry(queue, loop.event, loop.wall + delay)
      BY <2>5 DEF RetryLater
    <3>2. delay \in Int
      BY <3>1 DEF RetryDelay
    <3>3. QueueTyped(queue') /\ dropped' = dropped /\ delivered' = delivered
      BY <2>1, <2>5, <3>1, <3>2, MarksTyped DEF RetryLater
    <3> QED
      BY <1>0, <2>1, <3>3
  <2> QED
    BY <1>4, <2>2, <2>3, <2>4, <2>5 DEF Deliver
<1> QED
  BY <1>2, <1>3, <1>4

LEMMA StopTyped ==
  ASSUME Sound, Stop(engine')
  PROVE  /\ up' \in BOOLEAN /\ limit' \in Limits /\ mono' \in Nat
         /\ requests' \in SUBSET RequestRecord /\ loop' \in LoopRecord /\ crashes' \in Nat
<1>1. up' \in BOOLEAN
  <2>1. up' = FALSE
    BY DEF Stop
  <2> QED
    BY <2>1, Zenon
<1> QED
  BY <1>1 DEF Stop, LoopRecord, Sound, RestTyped

LEMMA StepTyped ==
  ASSUME Sound, Next
  PROVE  RestTyped'
<1> USE DEF Sound, RestTyped
<1>0. Idling \in LoopRecord
  BY DEF LoopRecord
<1>1. \A V : QueueTyped(Without(queue, V))
  BY WithoutTyped
<1>2. CASE Start
  BY <1>0, <1>2 DEF Start, observer, bounds
<1>3. CASE Crash
  BY <1>1, <1>3, StopTyped DEF Crash, StopAfterDelete, Stop, QueueTyped
<1>4. CASE Shutdown
  BY <1>4, StopTyped DEF Shutdown, Stop, observer
<1>5. CASE Receive
  <2>1. PICK command \in Commands, i \in alive :
          requests' = requests \cup
            {[command |-> command, session |-> i, mono |-> mono, wall |-> wall]}
    BY <1>5 DEF Receive
  <2>2. requests' \in SUBSET RequestRecord
    BY <2>1, DaemonAssumption DEF RequestRecord
  <2> QED
    BY <1>5, <2>2 DEF Receive, database, observer, bounds
<1>6. CASE BeginTimers
  <2>1. loop' \in LoopRecord
    BY <1>6 DEF BeginTimers, LoopRecord
  <2> QED
    BY <1>6, <2>1 DEF BeginTimers, database, observer, bounds
<1>7. CASE ProcessTimersFails
  BY <1>7, StopTyped DEF ProcessTimersFails, FatalExit, observer
<1>8. CASE LoopFails
  BY <1>1, <1>8, StopTyped DEF LoopFails, StopAfterDelete, FatalExit, QueueTyped
<1>9. CASE PassTime
  BY <1>9 DEF PassTime, database, observer, bounds
<1>10. CASE ShellExit
  BY <1>10 DEF ShellExit, process, database, observer, bounds
<1> QED
  BY <1>2, <1>3, <1>4, <1>5, <1>6, <1>7, <1>8, <1>9, <1>10,
     HandleTyped, TimersTyped, DeliveryTyped DEF Next

-----------------------------------------------------------------------------
(* Losses.                                                                 *)
Lost == issued \ (DOMAIN queue \cup delivered \cup uncounted)

(* Whatever leaves the queue without having been delivered is counted.     *)
LEMMA StepCounts ==
  ASSUME Sound, LossesAreCounted, Next
  PROVE  LossesAreCounted'
<1>0. /\ issued \in SUBSET Event /\ dropped \in Nat /\ uncounted \in SUBSET Event
      /\ DOMAIN queue \in SUBSET Event /\ QueueTyped(queue)
  BY DEF Sound, RestTyped, QueueTyped
<1>1. ASSUME NEW B \in SUBSET Event, Lost' \subseteq Lost \cup B,
             dropped' \in Nat, dropped + Cardinality(B) <= dropped'
      PROVE  LossesAreCounted'
  <2>1. Cardinality(Lost) <= dropped
    BY DEF LossesAreCounted, Lost
  <2>2. Lost \in SUBSET Event
    BY <1>0 DEF Lost
  <2>3. Cardinality(Lost') <= dropped + Cardinality(B)
    BY <1>0, <1>1, <2>1, <2>2, CountedUnion
  <2>4. Cardinality(Lost') \in Nat /\ Cardinality(B) \in Nat
    <3>1. Lost' \in SUBSET Event
      BY <1>1, <2>2
    <3> HIDE DEF Lost
    <3>2. \A A \in SUBSET Event : Cardinality(A) \in Nat
      BY FS_Subset, FS_CardinalityType, DaemonAssumption
    <3> QED
      BY <1>1, <3>1, <3>2
  <2>5. Cardinality(Lost') <= dropped'
    BY <1>0, <1>1, <2>3, <2>4
  <2> QED
    BY <2>5 DEF LossesAreCounted, Lost
<1>2. ASSUME Lost' \subseteq Lost, dropped' = dropped
      PROVE  LossesAreCounted'
  <2>1. Cardinality({}) = 0
    BY FS_EmptySet
  <2>2. Lost' \subseteq Lost \cup {} /\ dropped' \in Nat /\ dropped + Cardinality({}) <= dropped'
    BY <1>0, <1>2, <2>1
  <2> QED
    BY <1>1, <2>2
<1>3. ASSUME StopAfterDelete PROVE LossesAreCounted'
  BY <1>2, <1>3 DEF StopAfterDelete, Lost
<1>4. ASSUME UNCHANGED <<issued, delivered, uncounted, dropped>>, DOMAIN queue' = DOMAIN queue
      PROVE  LossesAreCounted'
  BY <1>2, <1>4 DEF Lost
<1>5. ASSUME UNCHANGED <<issued, delivered, uncounted>>, ExpireOld
      PROVE  LossesAreCounted'
  <2> DEFINE B == Expired(queue, wall, MaxAge)
  <2>1. DOMAIN queue' = DOMAIN queue \ B /\ B \in SUBSET Event
    BY <1>0, <1>5, WithoutTyped DEF ExpireOld, Expired
  <2>2. dropped' = dropped + Cardinality(B)
    BY <1>5 DEF ExpireOld
  <2> HIDE DEF B
  <2>3. Lost' \subseteq Lost \cup B
    BY <1>5, <2>1 DEF Lost
  <2>4. Cardinality(B) \in Nat
    BY <2>1, FS_Subset, FS_CardinalityType, DaemonAssumption
  <2>5. dropped' \in Nat /\ dropped + Cardinality(B) <= dropped'
    BY <1>0, <2>2, <2>4
  <2> QED
    BY <1>1, <2>1, <2>3, <2>5
<1>6. ASSUME NEW events \in Seq(Event), NEW Q, NEW w \in Int, SaveAndEnqueue(events, Q, w),
             \A e \in ToSet(events) : Q[e] \in Burst \cup {None},
             UNCHANGED <<delivered, uncounted>>
      PROVE  LossesAreCounted'
  <2>1. /\ issued' = issued \cup ToSet(events) /\ dropped' \in Nat
        /\ \E B, C \in SUBSET Event :
             /\ DOMAIN queue \cup ToSet(events) \subseteq DOMAIN queue' \cup B \cup C
             /\ dropped + Cardinality(B) + Cardinality(C) <= dropped'
    BY <1>6, Commits
  <2>2. PICK B, C \in SUBSET Event :
             /\ DOMAIN queue \cup ToSet(events) \subseteq DOMAIN queue' \cup B \cup C
             /\ dropped + Cardinality(B) + Cardinality(C) <= dropped'
    BY <2>1
  <2>3. /\ Cardinality(B) \in Nat /\ Cardinality(C) \in Nat /\ Cardinality(B \cup C) \in Nat
        /\ Cardinality(B \cup C) <= Cardinality(B) + Cardinality(C)
    <3>1. \A A \in SUBSET Event : Cardinality(A) \in Nat
      BY FS_Subset, FS_CardinalityType, DaemonAssumption
    <3>2. Cardinality(B) \in Nat /\ Cardinality(C) \in Nat /\ Cardinality(B \cup C) \in Nat
      BY <3>1
    <3>3. B \cup C \in SUBSET (B \cup C) /\ Cardinality(B) <= Cardinality(B)
      BY <3>2
    <3>4. Cardinality(B \cup C) <= Cardinality(B) + Cardinality(C)
      BY <3>2, <3>3, CountedUnion
    <3> QED
      BY <3>2, <3>4
  <2>4. dropped + Cardinality(B \cup C) <= dropped'
    BY <1>0, <2>1, <2>2, <2>3
  <2>5. Lost' \subseteq Lost \cup (B \cup C)
    BY <1>6, <2>1, <2>2 DEF Lost
  <2>6. B \cup C \in SUBSET Event
    BY <2>2
  <2> QED
    BY <1>1, <2>1, <2>4, <2>5, <2>6
<1>7. CASE \/ Start \/ Receive \/ BeginTimers \/ PassTime \/ ShellExit \/ Shutdown
           \/ ProcessTimersFails
  BY <1>4, <1>7 DEF Start, Receive, BeginTimers, PassTime, ShellExit, Shutdown,
     ProcessTimersFails, process, database, observer, bounds
<1>8. CASE Crash \/ LoopFails
  BY <1>3, <1>8 DEF Crash, LoopFails
<1>9. CASE BeginDelivery \/ Cleanup
  BY <1>5, <1>9 DEF BeginDelivery, Cleanup, observer, bounds
<1>10. CASE Handle
  <2>1. PICK r \in requests :
          \/ HandleUpdate(r) \/ HandleOpen(r) \/ HandleClose(r) \/ HandleRefused(r)
          \/ HandleRing(r) \/ HandleSuppressedRing(r)
    BY <1>10 DEF Handle
  <2>2. UNCHANGED <<delivered, uncounted>>
    BY <2>1 DEF HandleUpdate, HandleOpen, HandleClose, HandleRefused, HandleRing,
       HandleSuppressedRing, Done
  <2>3. CASE Save \/ StoreFails \/ HandleRefused(r)
    BY <1>4, <2>2, <2>3 DEF Save, StoreFails, HandleRefused, database
  <2>4. CASE HandleRing(r) /\ ~StoreFails
    <3>1. PICK e \in Event \ issued :
            SaveAndEnqueue(<<e>>, [f \in {e} |-> RingBurst(r)], r.wall)
      BY <2>4 DEF HandleRing, RingBurst
    <3> DEFINE Q == [f \in {e} |-> RingBurst(r)]
    <3>2. Q[e] = RingBurst(r)
      OBVIOUS
    <3> HIDE DEF Q
    <3>3. <<e>> \in Seq(Event) /\ ToSet(<<e>>) = {e}
      BY DEF ToSet
    <3>4. r.wall \in Int /\ begun \subseteq Burst
      BY DEF RequestRecord, Sound, RestTyped
    <3>5. Q[e] \in Burst \cup {None}
      BY <2>4, <3>2, <3>4, RingMoves
    <3>6. SaveAndEnqueue(<<e>>, Q, r.wall)
      BY <3>1 DEF Q
    <3> QED
      BY <1>6, <2>2, <3>3, <3>4, <3>5, <3>6
  <2> QED
    BY <2>1, <2>3, <2>4 DEF HandleUpdate, HandleOpen, HandleClose, HandleSuppressedRing
<1>11. CASE ProcessTimers
  <2>1. UNCHANGED <<delivered, uncounted>> /\ loop.op = "timers"
    BY <1>11 DEF ProcessTimers
  <2>2. CASE Ringing(loop.mono) = {}
    BY <1>4, <1>11, <2>1, <2>2 DEF ProcessTimers, database
  <2>3. CASE Ringing(loop.mono) # {}
    <3>1. PICK events \in Seq(Event) : \E Q :
            /\ SaveAndEnqueue(events, Q, loop.wall)
            /\ ToSet(events) \cap issued = {}
            /\ \A e \in ToSet(events) : \E i \in Ringing(loop.mono) : Q[e] = engine[i].burst
            /\ \A e, g \in ToSet(events) : Q[e] = Q[g] => e = g
      BY <1>11, <2>3, TickRings
    <3>2. PICK Q :
            /\ SaveAndEnqueue(events, Q, loop.wall)
            /\ \A e \in ToSet(events) : \E i \in Ringing(loop.mono) : Q[e] = engine[i].burst
      BY <3>1
    <3>3. loop.wall \in Int /\ begun \subseteq Burst
      BY <2>1, LoopCases DEF Sound, RestTyped
    <3>4. \A e \in ToSet(events) : Q[e] \in Burst \cup {None}
      BY <3>2, <3>3, RingingHasBurst
    <3> QED
      BY <1>6, <2>1, <3>2, <3>3, <3>4
  <2> QED
    BY <2>2, <2>3
<1>12. CASE Deliver
  <2>1. issued' = issued /\ uncounted' = uncounted
    BY <1>12 DEF Deliver, MarkDelivered, DiscardPermanent, RefuseAuthorization, RetryLater,
       Answered, bounds
  <2>2. CASE MarkDelivered
    <3>1. /\ DOMAIN queue' = DOMAIN queue \ {loop.event}
          /\ delivered' = delivered \cup {loop.event} /\ dropped' = dropped
      BY <1>0, <2>2, WithoutTyped DEF MarkDelivered
    <3> QED
      BY <1>2, <2>1, <3>1 DEF Lost
  <2>3. CASE DiscardPermanent
    <3>1. /\ DOMAIN queue' = DOMAIN queue \ {loop.event}
          /\ delivered' = delivered /\ dropped' = dropped + 1
      BY <1>0, <2>3, WithoutTyped DEF DiscardPermanent
    <3>2. loop.event \in Event
      BY <2>3, LoopCases DEF DiscardPermanent, Answered, Sound, RestTyped
    <3>3. Cardinality({loop.event}) = 1 /\ dropped' \in Nat
      <4>1. Cardinality({loop.event}) = 1
        BY FS_Singleton
      <4> QED
        BY <1>0, <3>1, <4>1
    <3>5. dropped + Cardinality({loop.event}) <= dropped'
      BY <1>0, <3>1, <3>3
    <3>4. Lost' \subseteq Lost \cup {loop.event}
      BY <2>1, <3>1 DEF Lost
    <3> QED
      BY <1>1, <3>2, <3>3, <3>4, <3>5
  <2>4. CASE RefuseAuthorization
    BY <1>0, <1>4, <2>1, <2>4, MarksTyped, 0 \in Int DEF RefuseAuthorization
  <2>5. CASE RetryLater
    <3>1. PICK delay \in RetryDelay(loop.attempts) :
            queue' = MarkRetry(queue, loop.event, loop.wall + delay)
      BY <2>5 DEF RetryLater
    <3>2. loop.wall + delay \in Int
      <4>1. loop.wall \in Int
        BY <2>5, LoopCases DEF RetryLater, Answered, Sound, RestTyped
      <4>2. delay \in Int
        BY <3>1 DEF RetryDelay
      <4> QED
        BY <4>1, <4>2
    <3> QED
      BY <1>0, <1>4, <2>1, <2>5, <3>1, <3>2, MarksTyped DEF RetryLater
  <2> QED
    BY <1>12, <2>2, <2>3, <2>4, <2>5 DEF Deliver
<1> QED
  BY <1>7, <1>8, <1>9, <1>10, <1>11, <1>12 DEF Next

-----------------------------------------------------------------------------
LEMMA InitSound ==
  ASSUME Init
  PROVE  Sound /\ LossesAreCounted
<1>1. RestTyped
  <2>1. up \in BOOLEAN
    BY Zenon DEF Init
  <2>2. QueueTyped(queue)
    BY DEF Init, EmptyQueue, QueueTyped
  <2>3. loop \in LoopRecord
    BY DEF Init, LoopRecord
  <2> QED
    BY <2>1, <2>2, <2>3 DEF Init, RestTyped
<1>2. engine \in Table /\ saved \in Table
  BY DEF Init, Table
<1>3. /\ \A i \in SessionId : engine[i] = None /\ saved[i] = None
      /\ issued = {} /\ requests = {} /\ loop.op = "none" /\ up = FALSE
  BY DEF Init, Idling
<1>4. TablesSound
  BY <1>2, <1>3 DEF TablesSound, InMemory, OnDisk, Good, Owned, Accounted,
     CoherentInMemory, CoherentOnDisk, Drawn
<1>5. OneEventPerBurst /\ OnlySilentResetsAreUnsaved /\ ClocksAgree
  BY <1>3 DEF OneEventPerBurst, OnlySilentResetsAreUnsaved, ClocksAgree
<1>6. LossesAreCounted
  <2>1. issued \ (DOMAIN queue \cup delivered \cup uncounted) = {} /\ dropped = 0
    BY <1>3 DEF Init
  <2> QED
    BY <2>1, FS_EmptySet DEF LossesAreCounted
<1> QED
  BY <1>1, <1>4, <1>5, <1>6 DEF Sound

LEMMA StutterSound ==
  ASSUME UNCHANGED vars
  PROVE  /\ Sound => Sound'
         /\ LossesAreCounted => LossesAreCounted'
<1> USE DEF vars, process, database, observer, bounds
<1>1. Sound => RestTyped' /\ TablesSound'
  BY DEF Sound, RestTyped, TablesSound
<1>2. Sound => OneEventPerBurst' /\ OnlySilentResetsAreUnsaved' /\ ClocksAgree'
  BY DEF Sound, OneEventPerBurst, OnlySilentResetsAreUnsaved, Registered, ClocksAgree
<1>3. LossesAreCounted => LossesAreCounted'
  BY DEF LossesAreCounted
<1> QED
  BY <1>1, <1>2, <1>3 DEF Sound

(* The invariant of the module, and with it the count of losses.           *)
LEMMA AlwaysSound == Spec => [](Sound /\ LossesAreCounted)
<1>1. Init => Sound /\ LossesAreCounted
  BY InitSound
<1>2. Sound /\ LossesAreCounted /\ [Next]_vars => Sound' /\ LossesAreCounted'
  BY StepTyped, StepSound, StepFollows, StepClocks, StepCounts, StutterSound DEF Sound
<1> QED
  BY <1>1, <1>2, PTL DEF Spec

(* The inductive invariant, as TLC checks it.                              *)
THEOREM Inductive == Spec => []IInv
<1>1. Sound => IInv
  BY SoundIsIInv
<1> QED
  BY <1>1, AlwaysSound, PTL

(* Memory, the tables, the queue's rows and what the loop waits for keep   *)
(* their types (daemon.rs, store.rs).                                      *)
THEOREM TypeCorrect == Spec => []TypeOK
<1>1. IInv => TypeOK
  BY DEF IInv
<1> QED
  BY <1>1, Inductive, PTL

(* While no transaction fails, the table lags memory only by the bursts    *)
(* process_timers resets without a ring.                                   *)
THEOREM OnlySilentResets == Spec => []OnlySilentResetsAreUnsaved
<1>1. IInv => OnlySilentResetsAreUnsaved
  BY DEF IInv
<1> QED
  BY <1>1, Inductive, PTL

(* A ring is suppressed as a duplicate only if an event for its burst was  *)
(* committed, or the transaction of that burst's own manual ring failed.   *)
THEOREM SuppressionIsEarned == Spec => []OnlyFailuresSuppress
<1>1. IInv => OnlyFailuresSuppress
  BY DEF IInv, SuppressionAccounted, Accounted, OnlyFailuresSuppress,
     Registered
<1> QED
  BY <1>1, Inductive, PTL

(* Expiry, eviction and permanent refusal count every ring they lose, over *)
(* all restarts, except what a stop caught between delete and count.       *)
THEOREM LossesCounted == Spec => []LossesAreCounted
BY AlwaysSound, PTL

(* What a restart does to a session of a live shell: the mode stays, a     *)
(* settling burst resumes, an active one is discarded (recover_sessions).  *)
THEOREM RestartIsFaithful == Spec => RestartKeepsSessions
<1>1. Sound /\ [Next]_vars =>
        [Start => \A i \in alive :
           Registered(i) /\ failures = 0 /\ wall - saved[i].lastSeen <= StaleAfter =>
             /\ Registered(i)'
             /\ engine'[i].mode = engine[i].mode
             /\ engine[i].state = "settling" => Persisted(engine'[i]) = Persisted(engine[i])
             /\ engine[i].state = "active" => engine'[i].state = "armed"]_vars
  <2> SUFFICES ASSUME Sound, Start, NEW i \in alive, Registered(i), failures = 0,
                      wall - saved[i].lastSeen <= StaleAfter
               PROVE  /\ Registered(i)'
                      /\ engine'[i].mode = engine[i].mode
                      /\ engine[i].state = "settling" =>
                           Persisted(engine'[i]) = Persisted(engine[i])
                      /\ engine[i].state = "active" => engine'[i].state = "armed"
    OBVIOUS
  <2> DEFINE s == engine[i]
             p == saved[i]
             t == RecoverLiveTiming(p, 0, wall)
  <2>1. i \in SessionId /\ wall \in Int
    BY DEF Sound, RestTyped
  <2>2. s # None /\ s \in SessionRecord /\ Coherent(s)
    BY <2>1 DEF Sound, TablesSound, InMemory, Good, Table, CoherentInMemory, Registered
  <2>3. \/ p = Persisted(s)
        \/ p # None /\ p.state = "settling" /\ s.state = "armed" /\ s.mode = p.mode
    BY <2>1, <2>2 DEF Sound, OnlySilentResetsAreUnsaved, Registered
  <2>4. p # None
    BY <2>2, <2>3, PersistedFacts, NoneAssumption
  <2>5. p \in SessionRecord /\ Coherent(Revived(p)) /\ p = Persisted(Revived(p))
    BY <2>1, <2>4 DEF Sound, TablesSound, OnDisk, Good, Table, CoherentOnDisk
  <2>6. engine'[i] = t
    BY <2>1, <2>4 DEF Start, Recovered
  <2> HIDE DEF s, p
  <2>7. /\ t \in SessionRecord /\ t.mode = p.mode
        /\ p.state = "active" => t.state = IF p.mode = "off" THEN "disarmed" ELSE "armed"
        /\ p.state = "settling" => Persisted(t) = p
    BY <2>1, <2>5, RecoveredFacts
  <2> HIDE DEF t
  <2>8. t # None
    BY <2>7, NoneAssumption
  <2>9. ASSUME p = Persisted(s)
        PROVE  /\ t.mode = s.mode
               /\ s.state = "settling" => Persisted(t) = Persisted(s)
               /\ s.state = "active" => t.state = "armed"
    <3>1. p.state = s.state /\ p.mode = s.mode
      BY <2>2, <2>9, PersistedFacts
    <3>2. s.state = "active" => s.mode # "off"
      BY <2>2 DEF Coherent
    <3> QED
      BY <2>7, <2>9, <3>1, <3>2
  <2>10. ASSUME p.state = "settling", s.state = "armed", s.mode = p.mode
         PROVE  /\ t.mode = s.mode
                /\ s.state = "settling" => Persisted(t) = Persisted(s)
                /\ s.state = "active" => t.state = "armed"
    BY <2>7, <2>10
  <2> QED
    BY <2>3, <2>6, <2>8, <2>9, <2>10 DEF Registered, s
<1> QED
  BY <1>1, AlwaysSound, PTL DEF Spec, RestartKeepsSessions

(* No automatic ring comes before the deadline its prompt set on the wall  *)
(* clock, whatever requests, delays and restarts came in between.          *)
THEOREM NoEarlyRing == Spec => NoEarlyRingAcrossRestart
<1>1. Sound /\ [Next]_vars =>
        [ProcessTimers => \A i \in Ringing(loop.mono) :
           loop.wall >= engine[i].deadlineWall]_vars
  <2> SUFFICES ASSUME Sound, ProcessTimers, NEW i \in Ringing(loop.mono)
               PROVE  loop.wall >= engine[i].deadlineWall
    OBVIOUS
  <2>1. /\ loop.op = "timers" /\ up /\ loop.wall - loop.mono = wall - mono
        /\ loop.mono \in Nat /\ loop.wall \in Nat /\ mono \in Nat /\ wall \in Nat
    BY LoopCases DEF ProcessTimers, Sound, RestTyped, ClocksAgree
  <2>2. /\ i \in SessionId /\ engine[i] # None /\ engine[i].state = "settling"
        /\ engine[i].deadline <= loop.mono
    BY DEF Ringing, DueSessions, Registered, Due
  <2>3. engine[i] \in SessionRecord /\ Coherent(engine[i])
    BY <2>2 DEF Sound, TablesSound, InMemory, Good, Table, CoherentInMemory
  <2>4. engine[i].deadline \in Nat /\ engine[i].deadlineWall \in Int
    BY <2>2, <2>3, NoneAssumption DEF Coherent, SessionRecord
  <2>5. engine[i].deadlineWall <= engine[i].deadline + (wall - mono)
    BY <2>1, <2>2 DEF Sound, ClocksAgree, Registered
  <2> QED
    BY <2>1, <2>2, <2>4, <2>5
<1> QED
  BY <1>1, AlwaysSound, PTL DEF Spec, NoEarlyRingAcrossRestart

-----------------------------------------------------------------------------
(* The refinement.  What each step does to the bursts memory and the table *)
(* know, and to the events each burst has.                                 *)
LEMMA PersistAllKnows ==
  ASSUME NEW S \in Table, NEW b, Knows(PersistAll(S), b)
  PROVE  Knows(S, b)
<1>1. PICK i \in SessionId : PersistAll(S)[i] # None /\ PersistAll(S)[i].burst = b
  BY DEF Knows
<1>2. S[i] # None /\ PersistAll(S)[i] = Persisted(S[i])
  BY <1>1 DEF PersistAll
<1>3. S[i] \in SessionRecord
  BY <1>2 DEF Table
<1>4. Persisted(S[i]).burst = S[i].burst
  BY <1>3 DEF Persisted, SessionRecord
<1> QED
  BY <1>1, <1>2, <1>4 DEF Knows

(* Nothing rings: a burst may be drawn, others may be forgotten.           *)
LEMMA BellQuiet ==
  ASSUME Sound, UNCHANGED <<issued, ringOf>>, engine' \in Table,
         saved' \in {saved, PersistAll(engine')},
         NEW S \in {engine, saved}, Draws(S, engine', begun, begun')
  PROVE  Bell!Next
<1>1. PICK k, b : /\ Follows(S, engine', k, b)
                  /\ b # None => b \in Burst \ begun /\ Knows(engine', b)
                  /\ begun' = begun \cup ({b} \ {None})
  BY DEF Draws
<1>2. begun \subseteq Burst /\ None \notin begun
  BY NoneAssumption DEF Sound, RestTyped
<1>3. ASSUME NEW c, c # None, c # b, Knows(engine', c)
      PROVE  Knows(engine, c) \/ Knows(saved, c)
  BY <1>1, <1>3 DEF Follows, Knows
<1>4. ASSUME NEW c, Knows(saved', c) PROVE Knows(saved, c) \/ Knows(engine', c)
  BY <1>4, PersistAllKnows
<1>5. Open' \in SUBSET (Open \cup ({b} \ {None}))
  BY <1>1, <1>2, <1>3, <1>4 DEF Open
<1>6. UNCHANGED [c \in Burst |-> Cardinality(RungFor(c))]
  BY DEF RungFor
<1>7. CASE b = None
  <2>1. begun' = begun /\ Open' \in SUBSET Open
    BY <1>1, <1>5, <1>7
  <2> QED
    BY <1>6, <2>1 DEF Bell!Next, Bell!Abandon
<1>8. CASE b # None
  <2>1. b \in Burst \ begun /\ begun' = begun \cup {b}
    BY <1>1, <1>8
  <2>2. b \in Open'
    BY <1>1, <1>8, <2>1 DEF Open
  <2>3. Open' \in SUBSET (Open \cup {b})
    BY <1>5
  <2> QED
    BY <1>6, <2>1, <2>2, <2>3 DEF Bell!Next, Bell!Begin
<1> QED
  BY <1>7, <1>8

(* One event for each burst of a step that rings.                          *)
LEMMA EventsOfBurst ==
  ASSUME NEW E, NEW Q, \A e, g \in E : e # g /\ Q[e] = Q[g] => Q[e] = None,
         NEW C, NEW R, \A c \in C : c \notin E,
         NEW b, b # None, \E e \in E : Q[e] = b, \A c \in C : R[c] # b,
         NEW C2, C2 = C \cup E, NEW R2,
         \A e \in C2 : R2[e] = IF e \in E THEN Q[e] ELSE R[e]
  PROVE  \E e : {c \in C2 : R2[c] = b} = {e}
<1>1. PICK e \in E : Q[e] = b
  OBVIOUS
<1>2. \A c \in C2 : R2[c] = b => c = e
  BY <1>1
<1>3. e \in C2 /\ R2[e] = b
  BY <1>1
<1> QED
  BY <1>2, <1>3

(* Sessions keep or forget their bursts.                                   *)
Keeps(S, T) == \A i \in SessionId : T[i] # None =>
  T[i].burst = None \/ (S[i] # None /\ T[i].burst = S[i].burst)

(* The events E are committed for Q.                                       *)
LEMMA BellRings ==
  ASSUME Sound, NEW E, E \cap issued = {}, NEW Q,
         \A e \in E : Q[e] \in begun \cup {None},
         \A e \in E : Q[e] # None => Knows(engine, Q[e]),
         \A e \in E, c \in issued : Q[e] # None => ringOf[c] # Q[e],
         \A e, g \in E : e # g /\ Q[e] = Q[g] => Q[e] = None,
         issued' = issued \cup E,
         \A e \in issued' : ringOf'[e] = IF e \in E THEN Q[e] ELSE ringOf[e],
         engine' \in Table, Keeps(engine, engine'),
         saved' = PersistAll(engine'), begun' = begun
  PROVE  Bell!Next
<1> DEFINE rung == {b \in Open : \E e \in E : Q[e] = b}
           Rings == [b \in Burst |-> Cardinality(RungFor(b))]
<1>1. begun \subseteq Burst /\ None \notin begun
  BY NoneAssumption DEF Sound, RestTyped
<1>2. ASSUME NEW c, c # None, Knows(engine', c) PROVE Knows(engine, c)
  BY <1>2 DEF Keeps, Knows
<1>3. Open' \in SUBSET Open
  <2>1. \A c : Knows(saved', c) => Knows(engine', c)
    BY PersistAllKnows
  <2> QED
    BY <1>1, <1>2, <2>1 DEF Open
<1>4. \A e \in E : Q[e] # None => Q[e] \in rung
  BY DEF Open
<1>5. ASSUME NEW b \in Burst, b \notin rung PROVE RungFor(b)' = RungFor(b)
  <2>1. \A e \in E : Q[e] # b
    BY <1>4, <1>5, NoneAssumption
  <2> QED
    BY <2>1 DEF RungFor
<1>6. ASSUME NEW b \in rung
      PROVE  Cardinality(RungFor(b)) = 0 /\ Cardinality(RungFor(b)') = 1
  <2>1. b # None /\ (\E e \in E : Q[e] = b) /\ \A c \in issued : ringOf[c] # b
    BY <1>1 DEF Open
  <2>2. RungFor(b) = {}
    BY <2>1 DEF RungFor
  <2>3. \A c \in issued : c \notin E
    OBVIOUS
  <2>4. \E e : {c \in issued' : ringOf'[c] = b} = {e}
    BY <2>1, <2>3, EventsOfBurst
  <2>5. \E e : RungFor(b)' = {e}
    BY <2>4 DEF RungFor
  <2> QED
    BY <2>2, <2>5, FS_EmptySet, FS_Singleton
<1>7. CASE rung = {}
  <2>1. Rings' = Rings
    BY <1>5, <1>7
  <2> QED
    BY <1>3, <1>7, <2>1 DEF Bell!Next, Bell!Abandon
<1>8. CASE rung # {}
  <2> HIDE DEF rung
  <2>1. \A b \in rung : Rings[b] = 0
    <3>1. rung \subseteq Burst
      BY <1>1 DEF rung, Open
    <3> QED
      BY <1>6, <3>1
  <2>2. ASSUME NEW b \in Burst
        PROVE  Cardinality(RungFor(b))' = Cardinality(RungFor(b)) + IF b \in rung THEN 1 ELSE 0
    <3>1. Cardinality(RungFor(b)) \in Nat
      <4>1. RungFor(b) \subseteq Event
        BY DEF RungFor, Sound, RestTyped
      <4> QED
        BY <4>1, FS_Subset, FS_CardinalityType, DaemonAssumption
    <3>2. CASE b \in rung
      BY <1>6, <3>2
    <3>3. CASE b \notin rung
      BY <1>5, <3>1, <3>3
    <3> QED
      BY <3>2, <3>3
  <2>3. Rings' = [b \in Burst |-> Rings[b] + IF b \in rung THEN 1 ELSE 0]
    BY <2>2
  <2>4. rung \in (SUBSET Open) \ {{}}
    BY <1>8 DEF rung
  <2> QED
    BY <1>3, <2>1, <2>3, <2>4 DEF Bell!Next, Bell!Ring
<1> QED
  BY <1>7, <1>8

(* A request or a recovery of sessions that follows memory or the table.   *)
LEMMA FollowsDraws ==
  ASSUME NEW S, NEW T, Follows(S, T, None, None), NEW D
  PROVE  Draws(S, T, D, D)
<1>1. D = D \cup ({None} \ {None})
  OBVIOUS
<1> QED
  BY <1>1 DEF Draws

LEMMA StepImplementsBell ==
  ASSUME Sound, [Next]_vars
  PROVE  [Bell!Next]_(Bell!vars)
<1>0. engine \in Table /\ begun \subseteq Burst
  BY DEF Sound, TablesSound, InMemory, Good, RestTyped
<1>1. ASSUME engine' = engine, UNCHANGED <<begun, issued, ringOf>>,
             saved' \in {saved, PersistAll(engine')}
      PROVE  Bell!Next
  <2>1. Follows(engine, engine', None, None)
    BY <1>1 DEF Follows
  <2>2. Draws(engine, engine', begun, begun') /\ engine' \in Table
    BY <1>0, <1>1, <2>1, FollowsDraws
  <2> QED
    BY <1>1, <2>2, BellQuiet
<1>2. ASSUME engine' \in Table, Follows(engine, engine', None, None),
             UNCHANGED <<begun, issued, ringOf>>, saved' \in {saved, PersistAll(engine')}
      PROVE  Bell!Next
  <2>1. Draws(engine, engine', begun, begun')
    BY <1>2, FollowsDraws
  <2> QED
    BY <1>2, <2>1, BellQuiet
<1>3. CASE Start
  <2>1. /\ saved' = PersistAll(engine') /\ UNCHANGED <<begun, issued, ringOf>>
    BY <1>3 DEF Start, observer
  <2>2. Draws(saved, engine', begun, begun')
    BY <1>3, <2>1, StartMoves, FollowsDraws
  <2>3. engine' \in Table
    BY <1>3, StartMoves DEF InMemory, Good
  <2> QED
    BY <2>1, <2>2, <2>3, BellQuiet
<1>4. CASE Crash \/ Shutdown \/ Receive \/ BeginTimers \/ BeginDelivery
           \/ PassTime \/ ShellExit
  <2>1. engine' = engine /\ UNCHANGED <<begun, issued, ringOf>>
    BY <1>4 DEF Crash, StopAfterDelete, Shutdown, Stop, Receive, BeginTimers, BeginDelivery, PassTime,
       ShellExit, process, database, observer
  <2>2. saved' \in {saved, PersistAll(engine')}
    BY <1>4, <2>1 DEF Crash, StopAfterDelete, Shutdown, Stop, Receive, BeginTimers, BeginDelivery, PassTime,
       ShellExit, process, database, observer
  <2> QED
    BY <1>1, <2>1, <2>2
<1>5. CASE Deliver
  BY <1>1, <1>5 DEF Deliver, MarkDelivered, DiscardPermanent, RefuseAuthorization,
     RetryLater, Answered
<1>6. CASE Handle
  <2>1. PICK r \in requests :
          \/ HandleUpdate(r) \/ HandleOpen(r) \/ HandleClose(r) \/ HandleRefused(r)
          \/ HandleRing(r) \/ HandleSuppressedRing(r)
    BY <1>6 DEF Handle
  <2>2. CASE HandleUpdate(r) \/ HandleOpen(r) \/ HandleClose(r) \/ HandleSuppressedRing(r)
    <3>1. Save
      BY <2>2 DEF HandleUpdate, HandleOpen, HandleClose, HandleSuppressedRing
    <3>2. /\ UNCHANGED <<issued, ringOf>> /\ saved' \in {saved, PersistAll(engine')}
      BY <3>1 DEF Save, StoreFails, database
    <3>3. Draws(engine, engine', begun, begun') /\ engine' \in Table
      BY <2>2, RequestMoves DEF InMemory, Good
    <3> QED
      BY <3>2, <3>3, BellQuiet
  <2>3. CASE HandleRefused(r)
    BY <1>1, <2>3 DEF HandleRefused, database
  <2>4. CASE HandleRing(r)
    <3>1. begun' = begun
      BY <2>4 DEF HandleRing
    <3>2. engine' \in Table /\ Keeps(engine, engine')
      <4> DEFINE Q == [f \in {None} |-> RingBurst(r)]
      <4>1. Q[None] = RingBurst(r)
        OBVIOUS
      <4> HIDE DEF Q
      <4>2. engine' \in Table /\ Marks(engine, engine', {None}, Q, issued, ringOf, {Q[None]})
        <5>1. Q[None] \in {Q[None]}
          OBVIOUS
        <5> QED
          BY <2>4, <4>1, <5>1, RingMoves
      <4> QED
        BY <4>2 DEF Marks, Keeps
    <3>3. CASE StoreFails
      <4>1. UNCHANGED <<saved, issued, ringOf>>
        BY <3>3 DEF StoreFails, database
      <4>2. ASSUME NEW c, c # None, Knows(engine', c) PROVE Knows(engine, c)
        BY <3>2, <4>2 DEF Keeps, Knows
      <4>3. Open' \in SUBSET Open
        BY <1>0, <3>1, <4>1, <4>2, NoneAssumption DEF Open
      <4>4. UNCHANGED [c \in Burst |-> Cardinality(RungFor(c))]
        BY <4>1 DEF RungFor
      <4> QED
        BY <3>1, <4>3, <4>4 DEF Bell!Next, Bell!Abandon
    <3>4. ASSUME NEW e \in Event \ issued, NEW Q, Q[e] = RingBurst(r),
                 SaveAndEnqueue(<<e>>, Q, r.wall)
          PROVE  Bell!Next
      <4>1. <<e>> \in Seq(Event) /\ ToSet(<<e>>) = {e}
        BY DEF ToSet
      <4>2. r.wall \in Int /\ r.session \in SessionId
        BY DEF Sound, RestTyped, RequestRecord
      <4>3. /\ Q[e] \in begun \cup {None}
            /\ \A c \in issued : Q[e] # None => ringOf[c] # Q[e]
        BY <2>4, <3>4, RingMoves
      <4>4. /\ issued' = issued \cup {e}
            /\ \A c \in issued' : ringOf'[c] = IF c \in {e} THEN Q[c] ELSE ringOf[c]
            /\ saved' = PersistAll(engine')
        BY <1>0, <3>4, <4>1, <4>2, <4>3, Commits
      <4>5. Q[e] # None => Knows(engine, Q[e])
        BY <3>4, <4>2 DEF RingBurst, Registered, Knows
      <4>6. PICK E : E = {e}
        OBVIOUS
      <4>7. /\ E \cap issued = {}
            /\ \A g \in E : Q[g] \in begun \cup {None}
            /\ \A g \in E : Q[g] # None => Knows(engine, Q[g])
            /\ \A g \in E, c \in issued : Q[g] # None => ringOf[c] # Q[g]
            /\ \A g, h \in E : g # h /\ Q[g] = Q[h] => Q[g] = None
        BY <4>3, <4>5, <4>6
      <4> QED
        BY <3>1, <3>2, <4>4, <4>6, <4>7, BellRings
    <3>5. CASE ~StoreFails
      <4>1. PICK e \in Event \ issued :
              SaveAndEnqueue(<<e>>, [f \in {e} |-> RingBurst(r)], r.wall)
        BY <2>4, <3>5 DEF HandleRing, RingBurst
      <4>2. [f \in {e} |-> RingBurst(r)][e] = RingBurst(r)
        OBVIOUS
      <4> QED
        BY <3>4, <4>1, <4>2
    <3> QED
      BY <3>3, <3>5
  <2> QED
    BY <2>1, <2>2, <2>3, <2>4
<1>7. CASE ProcessTimers
  <2>1. /\ loop.op = "timers" /\ engine' = Tick /\ begun' = begun
    BY <1>7 DEF ProcessTimers
  <2>2. /\ engine' \in Table
        /\ Follows(engine, engine', None, None) /\ Keeps(engine, engine')
    BY <2>1, TickMoves DEF Follows, Keeps
  <2>3. CASE Ringing(loop.mono) = {}
    <3>1. UNCHANGED <<saved, begun, issued, ringOf>>
      BY <1>7, <2>3 DEF ProcessTimers, database
    <3> QED
      BY <1>2, <2>2, <3>1
  <2>4. CASE Ringing(loop.mono) # {}
    <3>0. PICK events \in Seq(Event) : \E Q :
            /\ SaveAndEnqueue(events, Q, loop.wall)
            /\ ToSet(events) \cap issued = {}
            /\ \A e \in ToSet(events) : \E i \in Ringing(loop.mono) : Q[e] = engine[i].burst
            /\ \A e, g \in ToSet(events) : Q[e] = Q[g] => e = g
      BY <1>7, <2>4, TickRings
    <3>1. PICK Q :
            /\ SaveAndEnqueue(events, Q, loop.wall)
            /\ ToSet(events) \cap issued = {}
            /\ \A e \in ToSet(events) : \E i \in Ringing(loop.mono) : Q[e] = engine[i].burst
            /\ \A e, g \in ToSet(events) : Q[e] = Q[g] => e = g
      BY <3>0
    <3> DEFINE E == ToSet(events)
    <3> HIDE DEF E
    <3>2. ASSUME NEW e \in E
          PROVE  /\ Q[e] \in begun /\ Q[e] # None /\ Knows(engine, Q[e])
                 /\ \A c \in issued : ringOf[c] # Q[e]
      <4>1. PICK i \in Ringing(loop.mono) : Q[e] = engine[i].burst
        BY <3>1 DEF E
      <4> QED
        BY <4>1, RingingHasBurst DEF Knows
    <3>3. loop.wall \in Int
      BY <2>1, LoopCases DEF Sound, RestTyped
    <3>4. /\ issued' = issued \cup E
          /\ \A c \in issued' : ringOf'[c] = IF c \in E THEN Q[c] ELSE ringOf[c]
          /\ saved' = PersistAll(engine')
      <4>1. \A e \in ToSet(events) : Q[e] \in Burst \cup {None}
        BY <1>0, <3>2 DEF E
      <4> QED
        BY <3>1, <3>3, <4>1, Commits DEF E
    <3>5. /\ E \cap issued = {}
          /\ \A e \in E : Q[e] \in begun \cup {None}
          /\ \A e \in E : Q[e] # None => Knows(engine, Q[e])
          /\ \A e \in E, c \in issued : Q[e] # None => ringOf[c] # Q[e]
          /\ \A e, g \in E : e # g /\ Q[e] = Q[g] => Q[e] = None
      BY <3>1, <3>2 DEF E
    <3> QED
      BY <2>1, <2>2, <3>4, <3>5, BellRings
  <2> QED
    BY <2>3, <2>4
<1>8. CASE ProcessTimersFails
  <2>1. /\ loop.op = "timers" /\ engine' = Tick /\ UNCHANGED <<begun, issued, ringOf>>
        /\ saved' \in {saved, PersistAll(engine')}
    BY <1>8 DEF ProcessTimersFails, FatalExit, observer
  <2> QED
    BY <1>2, <2>1, TickMoves
<1>9. CASE Cleanup
  <2>1. /\ engine' = Kept /\ saved' \in {saved, PersistAll(engine')}
        /\ UNCHANGED <<begun, issued, ringOf>>
    BY <1>9 DEF Cleanup, observer
  <2> QED
    BY <1>2, <2>1, KeptMoves
<1>10. CASE LoopFails
  <2>1. /\ engine' \in {engine, Kept} /\ saved' \in {saved, PersistAll(engine')}
        /\ UNCHANGED <<begun, issued, ringOf>>
    BY <1>10 DEF LoopFails, StopAfterDelete, FatalExit
  <2> QED
    BY <1>2, <2>1, KeptMoves
<1>11. CASE UNCHANGED vars
  <2>1. engine' = engine /\ UNCHANGED <<begun, issued, ringOf>> /\ saved' = saved
    BY <1>11 DEF vars, process, database, observer
  <2> QED
    BY <1>1, <2>1
<1> QED
  BY <1>3, <1>4, <1>5, <1>6, <1>7, <1>8, <1>9, <1>10, <1>11 DEF Next

(* What outlives the process keeps the promise of BurstBell: whatever      *)
(* crashes, restarts, failing transactions and racing requests do, a burst *)
(* begins once, gets at most one event, and only while memory or the table *)
(* knows it; a forgotten burst is over for good (daemon.rs, store.rs).     *)
THEOREM ImplementsBell == Spec => DurableBell
<1>1. Init => Bell!Init
  <2> SUFFICES ASSUME Init PROVE Bell!Init
    OBVIOUS
  <2>1. begun = {} /\ Open = {}
    BY DEF Init, Open
  <2>2. \A b : RungFor(b) = {}
    BY DEF Init, RungFor
  <2> QED
    BY <2>1, <2>2, FS_EmptySet DEF Bell!Init
<1>2. Sound /\ [Next]_vars => [Bell!Next]_(Bell!vars)
  BY StepImplementsBell
<1> QED
  BY <1>1, <1>2, AlwaysSound, PTL DEF Spec, DurableBell, Bell!Spec
=============================================================================
