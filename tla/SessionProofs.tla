--------------------------- MODULE SessionProofs ---------------------------
(***************************************************************************)
(* Facts about the session operators, for every burst identity and every   *)
(* clock value: each takes a session record to a session record, and each  *)
(* takes a coherent session to a coherent one.                             *)
(***************************************************************************)
EXTENDS Session, TLAPS

LEMMA NewSessionFacts ==
  ASSUME NEW minimum \in Nat, NEW idle \in Nat, NEW wall \in Int
  PROVE  /\ NewSession(minimum, idle, wall) \in SessionRecord
         /\ Coherent(NewSession(minimum, idle, wall))
  BY DEF NewSession, SessionRecord, Coherent, Mode, State

LEMMA TouchFacts ==
  ASSUME NEW s \in SessionRecord, NEW wall \in Int
  PROVE  /\ Touch(s, wall) \in SessionRecord
         /\ Coherent(s) => Coherent(Touch(s, wall))
  BY DEF Touch, SessionRecord, Coherent

LEMMA ResetFacts ==
  ASSUME NEW s \in SessionRecord
  PROVE  /\ ResetAfterBurst(s) \in SessionRecord
         /\ Coherent(ResetAfterBurst(s))
  BY DEF ResetAfterBurst, ResetBurst, SessionRecord, Coherent, Mode, State

LEMMA DisarmFacts ==
  ASSUME NEW s \in SessionRecord, NEW wall \in Int
  PROVE  /\ Disarm(s, wall) \in SessionRecord
         /\ Coherent(Disarm(s, wall))
  BY DEF Disarm, ResetBurst, SessionRecord, Coherent, Mode, State

LEMMA ArmFacts ==
  ASSUME NEW s \in SessionRecord, NEW mode \in {"persistent", "once"},
         NEW minimum \in Nat, NEW idle \in Nat, NEW wall \in Int
  PROVE  /\ Arm(s, mode, minimum, idle, wall) \in SessionRecord
         /\ Coherent(Arm(s, mode, minimum, idle, wall))
  BY DEF Arm, ResetBurst, SessionRecord, Coherent, Mode, State

(* command_start needs a burst identity only where it begins a burst.      *)
LEMMA BeginBurstFacts ==
  ASSUME NEW s \in SessionRecord, NEW b \in Burst, NEW mono \in Nat
  PROVE  /\ BeginBurst(s, b, mono) \in SessionRecord
         /\ Coherent(s) /\ s.state = "armed" => Coherent(BeginBurst(s, b, mono))
<1>1. BeginBurst(s, b, mono) \in SessionRecord
  BY DEF BeginBurst, SessionRecord, State
<1>2. Coherent(s) /\ s.state = "armed" => Coherent(BeginBurst(s, b, mono))
  BY NoneAssumption DEF BeginBurst, SessionRecord, Coherent
<1> QED
  BY <1>1, <1>2

LEMMA ResumeBurstFacts ==
  ASSUME NEW s \in SessionRecord, NEW mono \in Nat
  PROVE  /\ ResumeBurst(s, mono) \in SessionRecord
         /\ Coherent(s) /\ s.state = "settling" => Coherent(ResumeBurst(s, mono))
<1>1. ResumeBurst(s, mono) \in SessionRecord
  BY DEF ResumeBurst, SessionRecord, State
<1>2. Coherent(s) /\ s.state = "settling" => Coherent(ResumeBurst(s, mono))
  BY NoneAssumption DEF ResumeBurst, SessionRecord, Coherent
<1> QED
  BY <1>1, <1>2

LEMMA CommandStartFacts ==
  ASSUME NEW s \in SessionRecord, NEW b, NEW mono \in Nat, NEW wall \in Int,
         StartsBurst(s) => b \in Burst
  PROVE  /\ CommandStart(s, b, mono, wall) \in SessionRecord
         /\ Coherent(s) => Coherent(CommandStart(s, b, mono, wall))
<1> DEFINE u == Touch(s, wall)
<1>1. /\ u \in SessionRecord
      /\ Coherent(s) => Coherent(u)
      /\ u.state = s.state
  BY TouchFacts DEF Touch, SessionRecord
<1> HIDE DEF u
<1>2. CASE s.state = "armed"
  BY <1>1, <1>2, BeginBurstFacts DEF CommandStart, StartsBurst, u
<1>3. CASE s.state = "settling"
  BY <1>1, <1>3, ResumeBurstFacts DEF CommandStart, u
<1>4. CASE s.state \notin {"armed", "settling"}
  BY <1>1, <1>4 DEF CommandStart, u
<1> QED
  BY <1>2, <1>3, <1>4

LEMMA DisplayedActiveType ==
  ASSUME NEW s \in SessionRecord, NEW mono \in Nat
  PROVE  DisplayedActive(s, mono) \in Nat
  BY NoneAssumption DEF DisplayedActive, Monus, SessionRecord

LEMMA SettleFromFacts ==
  ASSUME NEW s \in SessionRecord, NEW mono \in Nat, NEW wall \in Int
  PROVE  /\ SettleFrom(s, mono, wall) \in SessionRecord
         /\ Coherent(s) /\ s.state = "active" => Coherent(SettleFrom(s, mono, wall))
<1>1. /\ DisplayedActive(s, mono) \in Nat
      /\ mono + s.idle \in Nat
      /\ wall + s.idle \in Int
  BY DisplayedActiveType DEF SessionRecord
<1>2. ASSUME NEW acc \in Nat, NEW deadline \in Nat, NEW deadlineWall \in Int
      PROVE  LET t == [s EXCEPT !.acc = acc, !.started = None,
                                !.state = "settling", !.deadline = deadline,
                                !.deadlineWall = deadlineWall]
             IN  /\ t \in SessionRecord
                 /\ Coherent(s) /\ s.state = "active" => Coherent(t)
  <2>1. [s EXCEPT !.acc = acc, !.started = None, !.state = "settling",
                  !.deadline = deadline, !.deadlineWall = deadlineWall]
          \in SessionRecord
    BY DEF SessionRecord, State
  <2> QED
    BY <2>1, NoneAssumption DEF SessionRecord, Coherent
<1> QED
  BY <1>1, <1>2 DEF SettleFrom

LEMMA PromptReadyFacts ==
  ASSUME NEW s \in SessionRecord, NEW mono \in Nat, NEW wall \in Int
  PROVE  /\ PromptReady(s, mono, wall) \in SessionRecord
         /\ Coherent(s) => Coherent(PromptReady(s, mono, wall))
<1> DEFINE u == Touch(s, wall)
<1>1. /\ u \in SessionRecord
      /\ Coherent(s) => Coherent(u)
      /\ u.state = s.state
  BY TouchFacts DEF Touch, SessionRecord
<1> HIDE DEF u
<1>2. CASE s.state = "active"
  BY <1>1, <1>2, SettleFromFacts DEF PromptReady, u
<1>3. CASE s.state # "active"
  BY <1>1, <1>3 DEF PromptReady, u
<1> QED
  BY <1>2, <1>3

LEMMA ManualRingFacts ==
  ASSUME NEW s \in SessionRecord, NEW wall \in Int
  PROVE  /\ ManualRing(s, wall) \in SessionRecord
         /\ Coherent(s) => Coherent(ManualRing(s, wall))
<1>1. CASE ~Associated(s) \/ s.notified
  BY <1>1, TouchFacts DEF ManualRing
<1>2. CASE Associated(s) /\ ~s.notified /\ s.mode = "once"
  BY <1>2, DisarmFacts DEF ManualRing
<1>3. CASE Associated(s) /\ ~s.notified /\ s.mode # "once"
  <2>1. ManualRing(s, wall) = [s EXCEPT !.lastSeen = wall, !.notified = TRUE]
    BY <1>3 DEF ManualRing
  <2>2. ManualRing(s, wall) \in SessionRecord
    BY <2>1 DEF SessionRecord
  <2>3. ASSUME Coherent(s) PROVE s.mode = "persistent"
    BY <1>3, <2>3 DEF SessionRecord, Coherent, Associated, Mode
  <2> QED
    BY <1>3, <2>1, <2>2, <2>3 DEF SessionRecord, Coherent, Associated
<1> QED
  BY <1>1, <1>2, <1>3 DEF SessionRecord

(* The reset after a burst leaves a session that has no burst, whatever    *)
(* shape it had before.                                                    *)
LEMMA SettleFacts ==
  ASSUME NEW s \in SessionRecord, NEW wall \in Int
  PROVE  /\ Settle(s, wall) \in SessionRecord
         /\ Coherent(Settle(s, wall))
         /\ Settle(s, wall).burst = None
<1> DEFINE u == [s EXCEPT !.lastSeen = wall,
                          !.mode = IF RingsAutomatically(s) /\ s.mode = "once"
                                   THEN "off" ELSE s.mode]
<1>1. u \in SessionRecord
  BY DEF SessionRecord, Mode
<1>2. Settle(s, wall) = ResetAfterBurst(u)
  BY DEF Settle
<1> HIDE DEF u
<1>3. ResetAfterBurst(u).burst = None
  BY <1>1 DEF ResetAfterBurst, ResetBurst, SessionRecord
<1> QED
  BY <1>1, <1>2, <1>3, ResetFacts

(* What serde leaves out and what recovery puts back: a session read back  *)
(* from the database is coherent again, at any later wall-clock time.      *)
LEMMA RecoverFacts ==
  ASSUME NEW s \in SessionRecord, Coherent(s), NEW mono \in Nat, NEW wall \in Int
  PROVE  /\ RecoverLiveTiming(Persisted(s), mono, wall) \in SessionRecord
         /\ Coherent(RecoverLiveTiming(Persisted(s), mono, wall))
<1> DEFINE p == Persisted(s)
<1>1. /\ p \in SessionRecord
      /\ Persisted(p) = p
      /\ p.state = s.state
      /\ p.deadlineWall = s.deadlineWall
  BY DEF Persisted, SessionRecord
<1>2. CASE s.state = "active"
  BY <1>1, <1>2, ResetFacts DEF RecoverLiveTiming
<1>3. CASE s.state = "settling"
  <2>1. s.deadlineWall \in Int
    BY <1>3, NoneAssumption DEF Coherent, SessionRecord
  <2>2. RecoverLiveTiming(p, mono, wall)
          = [p EXCEPT !.deadline = mono + Monus(s.deadlineWall, wall)]
    BY <1>1, <1>3, <2>1, NoneAssumption DEF RecoverLiveTiming
  <2>3. mono + Monus(s.deadlineWall, wall) \in Nat
    BY <2>1 DEF Monus
  <2> HIDE DEF p
  <2>4. [p EXCEPT !.deadline = mono + Monus(s.deadlineWall, wall)] \in SessionRecord
    BY <1>1, <2>3 DEF SessionRecord
  <2>5. Coherent([p EXCEPT !.deadline = mono + Monus(s.deadlineWall, wall)])
    BY <1>3, <2>3, NoneAssumption DEF p, Persisted, SessionRecord, Coherent
  <2> QED
    BY <2>2, <2>4, <2>5 DEF p
<1>4. CASE s.state \notin {"active", "settling"}
  <2>1. RecoverLiveTiming(p, mono, wall) = p
    BY <1>1, <1>4 DEF RecoverLiveTiming
  <2>2. Coherent(p)
    BY <1>4, NoneAssumption DEF Persisted, SessionRecord, Coherent
  <2> QED
    BY <1>1, <2>1, <2>2
<1> QED
  BY <1>2, <1>3, <1>4
=============================================================================
