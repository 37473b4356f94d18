---------------------------- MODULE ClientProofs ----------------------------
(***************************************************************************)
(* Theorems about what the command line of a shell does with the daemon:   *)
(* starting it (DaemonStartup) and reporting to it (ShellHook).  The first *)
(* half is for any number of processes, stops and kills, the second for    *)
(* any number of late answers, failed starts and stops.                    *)
(***************************************************************************)
EXTENDS DaemonStartup, ShellHook, SessionProofs, FiniteSetTheorems, SequenceTheorems

(* One step of one process. *)
ProcessStep(d) ==
  \/ HookSpawns(d) \/ UnitStarts(d) \/ Continue(d) \/ Tick(d)
  \/ HandleRequest(d) \/ BeginDelivery(d) \/ Stop(d) \/ Kill(d)

(* Each step moves only the process that takes it and its copy.            *)
LEMMA OneProcessMoves ==
  ASSUME StartupTypeOK, NEW d \in Process, ProcessStep(d)
  PROVE  \A e \in Process \ {d} : pc'[e] = pc[e] /\ engine'[e] = engine[e]
<1> USE DEF StartupTypeOK, Goto, End
<1>1. CASE HookSpawns(d) \/ UnitStarts(d) \/ HandleRequest(d) \/ BeginDelivery(d) \/ Stop(d)
  BY <1>1 DEF HookSpawns, UnitStarts, HandleRequest, BeginDelivery, Stop
<1>2. CASE Load(d) \/ SaveRecovered(d) \/ Look(d) \/ EndDelivery(d) \/ SaveAtStop(d)
  BY <1>2 DEF Load, SaveRecovered, Look, EndDelivery, SaveAtStop
<1>3. CASE Ping(d) \/ Remove(d) \/ Bind(d) \/ Leave(d)
  BY <1>3 DEF Ping, Remove, Bind, Leave
<1>4. CASE Tick(d) \/ Kill(d)
  BY <1>4 DEF Tick, Kill
<1> QED
  BY <1>1, <1>2, <1>3, <1>4 DEF ProcessStep, Continue

(* What the moving process becomes: the type of every variable, and that a *)
(* process has a copy exactly from Load to its exit.                       *)
LEMMA StartupStepTyped ==
  ASSUME StartupTypeOK, NEW d \in Process, ProcessStep(d)
  PROVE  StartupTypeOK'
<1> USE DaemonStartupAssumption
    DEF StartupTypeOK, Goto, End, disk, observer, bounds, Starting, Bound
<1>1. CASE HookSpawns(d)
  BY <1>1 DEF HookSpawns
<1>2. CASE UnitStarts(d)
  BY <1>2 DEF UnitStarts
<1>3. CASE Load(d)
  <2>1. pc' = [pc EXCEPT ![d] = "loaded"] /\ engine' = [engine EXCEPT ![d] = sessions]
    BY <1>3 DEF Load
  <2>2. /\ pc' \in [Process -> {"gone", "spawned"} \cup Starting \cup Bound]
        /\ engine' \in [Process -> {"settling", "notified", Nothing}]
    BY <2>1
  <2>3. \A e \in Process : engine'[e] # Nothing <=> pc'[e] \in Starting \cup Bound
    BY <2>1
  <2>4. overlap' \in BOOLEAN
    BY <1>3 DEF Load
  <2>5. UNCHANGED <<unit, socket, sessions, silence, rings, stops, kills>>
    BY <1>3 DEF Load
  <2> QED
    BY <2>2, <2>3, <2>4, <2>5
<1>4. CASE SaveRecovered(d)
  BY <1>4 DEF SaveRecovered
<1>5. CASE Look(d)
  BY <1>5 DEF Look
<1>6. CASE Ping(d)
  BY <1>6 DEF Ping
<1>7. CASE Remove(d)
  BY <1>7 DEF Remove
<1>8. CASE Bind(d)
  BY <1>8 DEF Bind
<1>9. CASE EndDelivery(d)
  BY <1>9 DEF EndDelivery
<1>10. CASE SaveAtStop(d)
  BY <1>10 DEF SaveAtStop
<1>11. CASE Leave(d)
  BY <1>11 DEF Leave
<1>12. CASE Tick(d)
  <2>1. /\ engine[d] = "settling" /\ engine' = [engine EXCEPT ![d] = "notified"]
        /\ sessions' = "notified"
        /\ UNCHANGED <<pc, unit, socket, silence, overlap, stops, kills>>
    BY <1>12 DEF Tick
  <2>2. engine' \in [Process -> {"settling", "notified", Nothing}]
    BY <2>1
  <2>3. \A e \in Process : engine'[e] # Nothing <=> pc'[e] \in Starting \cup Bound
    BY <2>1
  <2>4. rings' \in 0 .. 2
    BY <1>12 DEF Tick
  <2> QED
    BY <2>1, <2>2, <2>3, <2>4
<1>13. CASE HandleRequest(d)
  BY <1>13 DEF HandleRequest
<1>14. CASE BeginDelivery(d)
  BY <1>14 DEF BeginDelivery
<1>15. CASE Stop(d)
  BY <1>15 DEF Stop
<1>16. CASE Kill(d)
  BY <1>16 DEF Kill
<1> QED
  BY <1>1, <1>2, <1>3, <1>4, <1>5, <1>6, <1>7, <1>8, <1>9, <1>10, <1>11, <1>12,
     <1>13, <1>14, <1>15, <1>16 DEF ProcessStep, Continue

(* Only Bind makes a server, only Remove and Leave take the file away, and *)
(* only a starter whose ping was not answered removes it.                  *)
LEMMA StepKeepsTheSocket ==
  ASSUME StartupTypeOK, ServersHoldTheSocket, NEW d \in Process, ProcessStep(d)
  PROVE  ServersHoldTheSocket'
<1>0. \A e \in Process \ {d} : pc'[e] = pc[e]
  BY OneProcessMoves
<1> USE <1>0 DEF ServersHoldTheSocket, Servers, StartupTypeOK, Goto, End, disk, observer, Bound
<1>1. CASE HookSpawns(d) \/ UnitStarts(d)
  BY <1>1 DEF HookSpawns, UnitStarts
<1>2. CASE Load(d) \/ SaveRecovered(d) \/ Look(d)
  BY <1>2 DEF Load, SaveRecovered, Look
<1>3. CASE Ping(d)
  BY <1>3 DEF Ping
<1>4. CASE Remove(d)
  BY <1>4 DEF Remove
<1>5. CASE Bind(d)
  <2>1. CASE socket = Nothing
    <3>1. ~silence => Servers = {}
      BY <2>1, DaemonStartupAssumption
    <3> QED
      BY <1>5, <2>1, <3>1 DEF Bind
  <2>2. CASE socket # Nothing
    BY <1>5, <2>2 DEF Bind
  <2> QED
    BY <2>1, <2>2
<1>6. CASE EndDelivery(d) \/ SaveAtStop(d)
  BY <1>6 DEF EndDelivery, SaveAtStop
<1>7. CASE Leave(d)
  BY <1>7 DEF Leave
<1>8. CASE Tick(d) \/ HandleRequest(d) \/ BeginDelivery(d) \/ Stop(d) \/ Kill(d)
  BY <1>8 DEF Tick, HandleRequest, BeginDelivery, Stop, Kill
<1> QED
  BY <1>1, <1>2, <1>3, <1>4, <1>5, <1>6, <1>7, <1>8 DEF ProcessStep, Continue

(* A copy is loaded from the table, saved to the table, and changed        *)
(* together with the table: alone it never falls behind it.                *)
LEMMA StepKeepsCopies ==
  ASSUME StartupTypeOK, CopiesFollowTheTable, NEW d \in Process, ProcessStep(d)
  PROVE  CopiesFollowTheTable'
<1>0. \A e \in Process \ {d} : engine'[e] = engine[e]
  BY OneProcessMoves
<1>1. ASSUME UNCHANGED <<overlap, rings>>, engine'[d] \in {engine[d], Nothing},
             sessions' = sessions \/ (engine[d] # Nothing /\ sessions' = engine[d])
      PROVE  CopiesFollowTheTable'
  <2> SUFFICES ASSUME ~overlap PROVE CopiesFollowTheTable!2'
    BY <1>1 DEF CopiesFollowTheTable
  <2>1. \A e \in Process : engine'[e] \in {engine[e], Nothing}
    BY <1>0, <1>1
  <2>2. \A e, f \in Process : engine'[e] # Nothing /\ engine'[f] # Nothing => e = f
    BY <2>1 DEF CopiesFollowTheTable
  <2>3. rings' <= 1
    BY <1>1 DEF CopiesFollowTheTable
  <2>4. ASSUME rings' = 1
        PROVE  sessions' = "notified" /\ \A e \in Process : engine'[e] # "settling"
    <3>1. sessions = "notified" /\ \A e \in Process : engine[e] # "settling"
      BY <1>1, <2>4 DEF CopiesFollowTheTable
    <3>2. sessions' = "notified"
      BY <1>1, <3>1 DEF StartupTypeOK
    <3>3. \A e \in Process : engine'[e] # "settling"
      BY <2>1, <3>1, DaemonStartupAssumption
    <3> QED
      BY <3>2, <3>3
  <2> QED
    BY <2>2, <2>3, <2>4
<1> USE DEF StartupTypeOK, Goto, End, disk, observer
<1>2. CASE HookSpawns(d) \/ UnitStarts(d) \/ BeginDelivery(d) \/ Stop(d) \/ Kill(d)
  BY <1>1, <1>2 DEF HookSpawns, UnitStarts, BeginDelivery, Stop, Kill
<1>3. CASE Load(d)
  <2>1. engine[d] = Nothing
    BY <1>3 DEF Load, Starting, Bound
  <2>2. /\ engine'[d] = sessions /\ sessions' = sessions /\ rings' = rings
        /\ overlap' = (overlap \/ \E e \in Process : engine[e] # Nothing)
    BY <1>3 DEF Load
  <2> QED
    BY <1>0, <2>1, <2>2 DEF CopiesFollowTheTable
<1>4. CASE SaveRecovered(d) \/ HandleRequest(d) \/ SaveAtStop(d)
  BY <1>1, <1>4 DEF SaveRecovered, HandleRequest, SaveAtStop, Starting, Bound
<1>5. CASE Look(d) \/ Ping(d) \/ Remove(d) \/ Bind(d) \/ EndDelivery(d) \/ Leave(d)
  BY <1>1, <1>5 DEF Look, Ping, Remove, Bind, EndDelivery, Leave
<1>6. CASE Tick(d)
  <2>1. /\ engine[d] = "settling" /\ engine[d] # Nothing
        /\ engine'[d] = "notified" /\ sessions' = "notified"
        /\ rings' = (IF rings = 0 THEN 1 ELSE 2) /\ overlap' = overlap
    BY <1>6 DEF Tick, Bound
  <2>2. ASSUME ~overlap
        PROVE  /\ rings = 0
               /\ \A e \in Process \ {d} : engine[e] = Nothing
    BY <2>1, <2>2 DEF CopiesFollowTheTable
  <2>3. ASSUME ~overlap, NEW e \in Process
        PROVE  engine'[e] # "settling" /\ (engine'[e] # Nothing => e = d)
    <3>1. CASE e = d
      BY <2>1, <3>1
    <3>2. CASE e # d
      <4>1. engine[e] = Nothing /\ pc[e] \notin Starting \cup Bound
        BY <2>2, <2>3, <3>2
      <4> QED
        BY <1>0, <2>1, <3>2, <4>1 DEF CopiesFollowTheTable
    <3> QED
      BY <3>1, <3>2
  <2> QED
    BY <2>1, <2>2, <2>3 DEF CopiesFollowTheTable
<1> QED
  BY <1>2, <1>3, <1>4, <1>5, <1>6 DEF ProcessStep, Continue

(* The invariant of the module.                                            *)
THEOREM StartupInductive == StartupSpec => []StartupInv
<1>1. StartupInit => StartupInv
  <2> SUFFICES ASSUME StartupInit PROVE StartupInv
    OBVIOUS
  <2> USE DaemonStartupAssumption DEF StartupInit, Starting, Bound
  <2>1. /\ pc \in [Process -> {"gone", "spawned"} \cup Starting \cup Bound]
        /\ engine \in [Process -> {"settling", "notified", Nothing}]
    OBVIOUS
  <2>2. \A d \in Process : engine[d] # Nothing <=> pc[d] \in Starting \cup Bound
    OBVIOUS
  <2>3. rings \in 0 .. 2 /\ {silence, overlap} \subseteq BOOLEAN
    <3>1. rings \in 0 .. 2
      OBVIOUS
    <3>2. silence \in BOOLEAN /\ overlap \in BOOLEAN
      BY Zenon
    <3> QED
      BY <3>1, <3>2
  <2>4. stops \in 0 .. MaxStops /\ kills \in 0 .. MaxKills
    OBVIOUS
  <2>5. StartupTypeOK
    BY <2>1, <2>2, <2>3, <2>4 DEF StartupTypeOK
  <2>6. ServersHoldTheSocket
    BY DEF ServersHoldTheSocket, Servers
  <2>7. CopiesFollowTheTable
    BY DEF CopiesFollowTheTable
  <2> QED
    BY <2>5, <2>6, <2>7 DEF StartupInv
<1>2. StartupInv /\ [StartupNext]_startupVars => StartupInv'
  <2> SUFFICES ASSUME StartupInv, [StartupNext]_startupVars PROVE StartupInv'
    OBVIOUS
  <2>1. ASSUME NEW d \in Process, ProcessStep(d) PROVE StartupInv'
    BY <2>1, StartupStepTyped, StepKeepsTheSocket, StepKeepsCopies DEF StartupInv
  <2>2. CASE UNCHANGED startupVars
    BY <2>2 DEF startupVars, disk, observer, bounds, StartupInv, StartupTypeOK,
      ServersHoldTheSocket, CopiesFollowTheTable, Servers
  <2> QED
    BY <2>1, <2>2 DEF StartupNext, ProcessStep
<1> QED
  BY <1>1, <1>2, PTL DEF StartupSpec

(* Processes, files and copies keep their types; a process has a copy of   *)
(* the sessions exactly while it runs beyond Load.                         *)
THEOREM StartupTypeCorrect == StartupSpec => []StartupTypeOK
<1>1. StartupInv => StartupTypeOK
  BY DEF StartupInv
<1> QED
  BY <1>1, StartupInductive, PTL

(* However many starters race, at most one daemon serves as long as every  *)
(* daemon whose socket file was found answered the ping (prepare_socket).  *)
THEOREM OnlySilence == StartupSpec => []OnlySilenceLetsTwoServe
<1>1. StartupInv => OnlySilenceLetsTwoServe
  <2> SUFFICES ASSUME StartupInv, ~silence PROVE Cardinality(Servers) <= 1
    BY DEF OnlySilenceLetsTwoServe
  <2>1. Servers \subseteq {socket}
    BY DEF StartupInv, ServersHoldTheSocket
  <2>2. IsFiniteSet({socket}) /\ Cardinality({socket}) = 1
    BY FS_Singleton
  <2> QED
    BY <2>1, <2>2, FS_Subset
<1> QED
  BY <1>1, StartupInductive, PTL

(* Daemons that follow one another ring a burst once, wherever each of     *)
(* them was stopped or killed: the ring and the flag that suppresses the   *)
(* next one are written together.                                          *)
THEOREM SuccessorsRingOnce == StartupSpec => []SuccessiveDaemonsRingOnce
<1>1. StartupInv => SuccessiveDaemonsRingOnce
  BY DEF StartupInv, CopiesFollowTheTable, SuccessiveDaemonsRingOnce
<1> QED
  BY <1>1, StartupInductive, PTL

-----------------------------------------------------------------------------
(* ShellHook.  What the daemon makes of its session in a request.          *)
LEMMA RecoverInMemory ==
  ASSUME NEW s \in SessionRecord, Coherent(s)
  PROVE  /\ RecoverLiveTiming(s, 0, 0) \in SessionRecord
         /\ Coherent(RecoverLiveTiming(s, 0, 0))
<1>1. /\ Persisted(Persisted(s)) = Persisted(s)
      /\ Persisted(s).state = s.state /\ Persisted(s).deadlineWall = s.deadlineWall
  BY DEF Persisted, SessionRecord
<1>2. RecoverLiveTiming(s, 0, 0) = RecoverLiveTiming(Persisted(s), 0, 0)
  BY <1>1 DEF RecoverLiveTiming
<1>3. 0 \in Nat /\ 0 \in Int
  OBVIOUS
<1> QED
  BY <1>2, <1>3, RecoverFacts

(* A command that starts while the session is armed, running or settling   *)
(* leaves it running.                                                      *)
LEMMA CommandStartRuns ==
  ASSUME NEW s \in SessionRecord, NEW b
  PROVE  /\ CommandStart(s, b, 0, 0).mode = s.mode
         /\ CommandStart(s, b, 0, 0).state =
              IF s.state \in {"armed", "settling"} THEN "active" ELSE s.state
<1>1. Touch(s, 0) \in SessionRecord /\ Touch(s, 0).mode = s.mode /\ Touch(s, 0).state = s.state
  BY TouchFacts, 0 \in Int DEF Touch, SessionRecord
<1>2. CASE s.state = "armed"
  BY <1>1, <1>2 DEF CommandStart, BeginBurst, SessionRecord
<1>3. CASE s.state = "settling"
  BY <1>1, <1>3 DEF CommandStart, ResumeBurst, SessionRecord
<1>4. CASE s.state \notin {"armed", "settling"}
  BY <1>1, <1>4 DEF CommandStart
<1> QED
  BY <1>2, <1>3, <1>4

LEMMA ArmRuns ==
  ASSUME NEW s \in SessionRecord, NEW mode \in {"persistent", "once"}, NEW m \in Nat,
         NEW b \in Burst
  PROVE  LET t == ArmAndStart(s, mode, m, 0, b, 0, 0)
         IN  t \in SessionRecord /\ Coherent(t) /\ t.state = "active"
<1> DEFINE a == Arm(s, mode, m, 0, 0)
<1>1. a \in SessionRecord /\ Coherent(a)
  BY ArmFacts, 0 \in Nat, 0 \in Int
<1>2. a.state = "armed"
  BY DEF Arm, ResetBurst, SessionRecord
<1> HIDE DEF a
<1>3. ArmAndStart(s, mode, m, 0, b, 0, 0) = CommandStart(a, b, 0, 0)
  BY DEF ArmAndStart, a
<1>4. CommandStart(a, b, 0, 0).state = "active"
  BY <1>1, <1>2, CommandStartRuns
<1> QED
  BY <1>1, <1>3, <1>4, CommandStartFacts, 0 \in Nat, 0 \in Int

LEMMA PromptReadySettles ==
  ASSUME NEW s \in SessionRecord
  PROVE  PromptReady(s, 0, 0).state # "active"
<1>1. Touch(s, 0) \in SessionRecord /\ Touch(s, 0).state = s.state
  BY TouchFacts, 0 \in Int DEF Touch, SessionRecord
<1>2. CASE s.state = "active"
  BY <1>1, <1>2 DEF PromptReady, SettleFrom, SessionRecord
<1>3. CASE s.state # "active"
  BY <1>1, <1>3 DEF PromptReady
<1> QED
  BY <1>2, <1>3

LEMMA DisarmIsOff ==
  ASSUME NEW s \in SessionRecord
  PROVE  Disarm(s, 0).mode = "off" /\ Disarm(s, 0).state = "disarmed"
  BY DEF Disarm, ResetBurst, SessionRecord

LEMMA TouchKeeps ==
  ASSUME NEW s \in SessionRecord
  PROVE  Touch(s, 0).mode = s.mode /\ Touch(s, 0).state = s.state
  BY DEF Touch, SessionRecord

LEMMA ManualRingKeeps ==
  ASSUME NEW s \in SessionRecord
  PROVE  \/ ManualRing(s, 0).mode = "off"
         \/ ManualRing(s, 0).mode = s.mode /\ ManualRing(s, 0).state = s.state
<1>1. CASE ~Associated(s) \/ s.notified
  BY <1>1, TouchKeeps DEF ManualRing
<1>2. CASE ~(~Associated(s) \/ s.notified) /\ s.mode = "once"
  BY <1>2, DisarmIsOff DEF ManualRing
<1>3. CASE ~(~Associated(s) \/ s.notified) /\ s.mode # "once"
  BY <1>3 DEF ManualRing, SessionRecord
<1> QED
  BY <1>1, <1>2, <1>3

(* Any request: types, and what it tells the engine.                       *)
LEMMA HandledFacts ==
  ASSUME NEW c \in Command, NEW s \in SessionRecord \cup {None}, s = None \/ Coherent(s),
         NEW m \in Nat
  PROVE  LET t == Handled(c, s, m)
         IN  /\ t \in SessionRecord \cup {None} /\ (t = None \/ Coherent(t))
             /\ Boundary(c) /\ (s # None \/ c = "session_close") => Agrees(Place(c), t)
             /\ ~Boundary(c) /\ Agrees("command", s) => Agrees("command", t)
<1> DEFINE t == Handled(c, s, m)
           Goal == /\ t \in SessionRecord \cup {None} /\ (t = None \/ Coherent(t))
                   /\ Boundary(c) /\ (s # None \/ c = "session_close") => Agrees(Place(c), t)
                   /\ ~Boundary(c) /\ Agrees("command", s) => Agrees("command", t)
           b == CHOOSE b \in Burst : TRUE
<1>1. b \in Burst
  BY ShellHookAssumption
<1>2. 0 \in Nat /\ 0 \in Int /\ None \notin SessionRecord
  BY NoneAssumption
<1> SUFFICES Goal
  OBVIOUS
<1> HIDE DEF b, t
<1>3. CASE c = "session_close"
  BY <1>3 DEF Handled, Boundary, Agrees, Place, Goal, t
<1>4. CASE c = "session_open" /\ s = None
  <2>1. t = NewSession(0, 0, 0)
    BY <1>4 DEF Handled, t
  <2> QED
    BY <1>2, <1>4, <2>1, NewSessionFacts DEF Boundary, Agrees, Goal
<1>5. CASE c # "session_open" /\ c # "session_close" /\ s = None
  BY <1>5 DEF Handled, Agrees, Boundary, Goal, t
<1>6. CASE s # None /\ c \in {"session_open", "name"}
  <2>1. t = Touch(s, 0)
    BY <1>6 DEF Handled, SetLabel, t
  <2> QED
    BY <1>2, <1>6, <2>1, TouchFacts, TouchKeeps DEF Boundary, Agrees, Goal
<1>7. CASE s # None /\ c = "command_start"
  <2>1. t = CommandStart(s, b, 0, 0)
    BY <1>7 DEF Handled, b, t
  <2>2. t \in SessionRecord /\ Coherent(t)
    BY <1>1, <1>2, <1>7, <2>1, CommandStartFacts
  <2>3. t.mode # "off" => t.state = "active"
    <3>1. s.state \in State /\ (s.state = "disarmed" <=> s.mode = "off")
      BY <1>7 DEF SessionRecord, Coherent
    <3> QED
      BY <1>7, <2>1, <3>1, CommandStartRuns DEF State
  <2> QED
    BY <1>2, <1>7, <2>2, <2>3 DEF Boundary, Agrees, Place, Goal
<1>8. CASE s # None /\ c = "prompt_ready"
  <2>1. t = PromptReady(s, 0, 0)
    BY <1>8 DEF Handled, t
  <2> QED
    BY <1>2, <1>8, <2>1, PromptReadyFacts, PromptReadySettles DEF Boundary, Agrees, Place, Goal
<1>9. CASE s # None /\ c \in {"on", "once"}
  <2>1. PICK mode \in {"persistent", "once"} : t = ArmAndStart(s, mode, m, 0, b, 0, 0)
    BY <1>9 DEF Handled, b, t
  <2>2. t \in SessionRecord /\ Coherent(t) /\ t.state = "active"
    BY <1>1, <1>9, <2>1, ArmRuns
  <2> QED
    BY <1>2, <1>9, <2>2 DEF Boundary, Agrees, Place, Goal
<1>10. CASE s # None /\ c = "off"
  <2>1. t = Disarm(s, 0)
    BY <1>10 DEF Handled, t
  <2> QED
    BY <1>2, <1>10, <2>1, DisarmFacts, DisarmIsOff DEF Boundary, Agrees, Place, Goal
<1>11. CASE s # None /\ c = "status"
  BY <1>11 DEF Handled, Boundary, Goal, t
<1>12. CASE s # None /\ c = "ring"
  <2>1. t = ManualRing(s, 0)
    BY <1>12 DEF Handled, t
  <2> QED
    BY <1>2, <1>12, <2>1, ManualRingFacts, ManualRingKeeps DEF Boundary, Agrees, Goal
<1> QED
  BY <1>3, <1>4, <1>5, <1>6, <1>7, <1>8, <1>9, <1>10, <1>11, <1>12
     DEF Command, Hook, Cli

(* The end of a burst agrees with wherever the shell is.                   *)
LEMMA SettleAgrees ==
  ASSUME NEW s \in SessionRecord, Coherent(s), s.state = "settling", NEW place,
         Agrees(place, s)
  PROVE  Agrees(place, Settle(s, 0))
<1> DEFINE u == [s EXCEPT !.lastSeen = 0,
                          !.mode = IF RingsAutomatically(s) /\ s.mode = "once"
                                   THEN "off" ELSE s.mode]
<1>1. u \in SessionRecord
  BY 0 \in Int DEF SessionRecord, Mode
<1>2. Settle(s, 0) = ResetAfterBurst(u)
  BY DEF Settle
<1> HIDE DEF u
<1>3. ResetAfterBurst(u).state # "active"
  BY <1>1 DEF ResetAfterBurst, ResetBurst, SessionRecord
<1>4. Settle(s, 0) # None
  BY SettleFacts, 0 \in Int, NoneAssumption
<1>5. place \notin {"command", "gone"}
  BY NoneAssumption DEF Agrees, Coherent
<1> QED
  BY <1>2, <1>3, <1>4, <1>5 DEF Agrees

(* Sequences of one and of two.                                            *)
LEMMA PairConcat ==
  ASSUME NEW a, NEW b
  PROVE  <<a>> \o <<b>> = <<a, b>>
<1> DEFINE p == <<a>>
           q == <<b>>
           r == <<a, b>>
<1>1. p \in Seq({a, b}) /\ q \in Seq({a, b}) /\ r \in Seq({a, b})
  OBVIOUS
<1>2. /\ Len(p) = 1 /\ p[1] = a
      /\ Len(q) = 1 /\ q[1] = b
      /\ Len(r) = 2 /\ r[1] = a /\ r[2] = b
  OBVIOUS
<1> HIDE DEF p, q, r
<1>3. /\ p \o q \in Seq({a, b}) /\ Len(p \o q) = 2
      /\ (p \o q)[1] = a /\ (p \o q)[2] = b
  BY <1>1, <1>2, ConcatProperties
<1>4. p \o q = r
  BY <1>1, <1>2, <1>3, SeqEqual
<1> QED
  BY <1>4 DEF p, q, r

LEMMA ShortSequences ==
  ASSUME NEW a, NEW b, NEW c
  PROVE  /\ Head(<<a>>) = a /\ Tail(<<a>>) = <<>> /\ DOMAIN <<a>> = {1} /\ <<a>>[1] = a
         /\ Head(<<a, b>>) = a /\ Tail(<<a, b>>) = <<b>>
         /\ <<a>> # <<>> /\ <<a, b>> # <<>> /\ <<a, b>> # <<c>>
  OBVIOUS

LEMMA ShortLengths ==
  ASSUME NEW q, NEW a, NEW b
  PROVE  (q = <<a>> => Len(q) = 1) /\ (q = <<a, b>> => Len(q) = 2)
<1>1. ASSUME q = <<a>> PROVE Len(q) = 1
  BY <1>1
<1>2. ASSUME q = <<a, b>> PROVE Len(q) = 2
  BY <1>2
<1> QED
  BY <1>1, <1>2

(* What the hooks of a shell run on the way to a prompt.                   *)
LEMMA PromptHooksFacts ==
  ASSUME NEW s \in Shell, NEW returned \in BOOLEAN
  PROVE  LET h == PromptHooks(s, returned)
         IN  /\ h \in Seq(Command)
             /\ s.hooked /\ ~s.later =>
                  h \in {<<"prompt_ready">>, <<"command_start", "prompt_ready">>}
                    \/ (h = <<>> /\ ~returned)
             /\ h = <<"command_start", "prompt_ready">> /\ ~s.later => s.at_prompt
<1> DEFINE h == PromptHooks(s, returned)
<1>1. /\ s.type \in {"bash", "zsh", "fish"} /\ s.hooked \in BOOLEAN
      /\ s.later \in BOOLEAN /\ s.at_prompt \in BOOLEAN
  BY ShellHookAssumption DEF Shell
<1>2. CASE ~s.hooked
  BY <1>2 DEF PromptHooks
<1>3. CASE s.hooked /\ s.type = "bash"
  <2>1. h = (IF s.at_prompt THEN <<"command_start">> ELSE <<>>)
              \o <<"prompt_ready">> \o (IF s.later THEN <<"command_start">> ELSE <<>>)
    BY <1>3 DEF PromptHooks
  <2>2. <<"command_start">> \o <<"prompt_ready">> = <<"command_start", "prompt_ready">>
    BY PairConcat
  <2>3. \A q \in Seq(Command) : q \o <<>> = q /\ <<>> \o q = q
    BY ConcatEmptySeq
  <2>4. {"command_start", "prompt_ready"} \subseteq Command
    BY DEF Command, Hook
  <2>5. /\ <<"prompt_ready">> \in Seq(Command) /\ <<"command_start">> \in Seq(Command)
        /\ <<"command_start", "prompt_ready">> \in Seq(Command)
    BY <2>4
  <2>6. h = IF s.at_prompt
            THEN <<"command_start", "prompt_ready">>
                   \o (IF s.later THEN <<"command_start">> ELSE <<>>)
            ELSE <<"prompt_ready">> \o (IF s.later THEN <<"command_start">> ELSE <<>>)
    BY <2>1, <2>2, <2>3, <2>5
  <2> HIDE DEF h
  <2>7. CASE s.later
    BY <2>5, <2>6, <2>7, ConcatProperties DEF h
  <2>8. CASE ~s.later
    <3>1. h = IF s.at_prompt THEN <<"command_start", "prompt_ready">> ELSE <<"prompt_ready">>
      BY <2>3, <2>5, <2>6, <2>8
    <3> QED
      BY <2>5, <2>8, <3>1 DEF h
  <2> QED
    BY <2>7, <2>8
<1>4. CASE s.hooked /\ s.type = "zsh"
  BY <1>4 DEF PromptHooks, Command, Hook
<1>5. CASE s.hooked /\ s.type = "fish"
  <2>1. (h = <<>> /\ ~returned) \/ h = <<"prompt_ready">>
    BY <1>5 DEF PromptHooks
  <2>2. h # <<"command_start", "prompt_ready">>
    BY <2>1, ShortSequences
  <2>3. h \in Seq(Command)
    <3>1. "prompt_ready" \in Command
      BY DEF Command, Hook
    <3>2. <<"prompt_ready">> \in Seq(Command) /\ <<>> \in Seq(Command)
      BY <3>1
    <3> HIDE DEF h
    <3> QED
      BY <2>1, <3>2
  <2> QED
    BY <2>1, <2>2, <2>3
<1> QED
  BY <1>1, <1>2, <1>3, <1>4, <1>5

(* Helpers, one by one.                                                    *)
LEMMA HooksTail ==
  ASSUME NEW hooks \in Seq(Command), hooks # <<>>
  PROVE  /\ Tail(hooks) \in Seq(Command) /\ Head(hooks) \in Command
         /\ 1 \in DOMAIN hooks /\ hooks[1] = Head(hooks)
  BY HeadTailProperties

LEMMA AheadTail ==
  ASSUME NEW place \in {"prompt", "command", "gone"}, NEW hooks \in Ahead(place), hooks # <<>>
  PROVE  /\ Tail(hooks) \in Ahead(place)
         /\ Tail(hooks) # <<>> => /\ Tail(hooks) = <<"prompt_ready">>
                                  /\ place = "prompt"
         /\ Tail(hooks) = <<>> /\ Boundary(Head(hooks)) => Place(Head(hooks)) = place
         /\ Tail(hooks) = <<>> /\ ~Boundary(Head(hooks)) =>
              \/ place = "command"
              \/ Head(hooks) = "session_open"
<1>1. CASE place = "prompt"
  <2>1. ASSUME NEW c, hooks = <<c>>
        PROVE  Tail(hooks) = <<>> /\ Head(hooks) = c
    BY <2>1
  <2>2. ASSUME NEW c, hooks = <<c, "prompt_ready">>
        PROVE  Tail(hooks) = <<"prompt_ready">> /\ Tail(hooks) # <<>>
    BY <2>2, ShortSequences
  <2>3. CASE hooks \in {<<"session_open">>, <<"prompt_ready">>}
    <3>1. Tail(hooks) = <<>> /\ Head(hooks) \in {"session_open", "prompt_ready"}
      BY <2>1, <2>3
    <3> QED
      BY <1>1, <3>1 DEF Ahead, Boundary, Place
  <2>4. CASE hooks \in {<<"session_open", "prompt_ready">>, <<"command_start", "prompt_ready">>}
    <3>1. Tail(hooks) = <<"prompt_ready">> /\ Tail(hooks) # <<>>
      BY <2>2, <2>4
    <3> QED
      BY <1>1, <3>1 DEF Ahead
  <2> QED
    BY <1>1, <2>3, <2>4 DEF Ahead
<1>2. CASE place = "command"
  <2>1. PICK c \in Cli \cup {"command_start"} : hooks = <<c>>
    BY <1>2 DEF Ahead
  <2>2. Tail(hooks) = <<>> /\ Head(hooks) = c
    BY <2>1
  <2>3. Place(c) = "command"
    BY DEF Place, Cli
  <2> QED
    BY <1>2, <2>2, <2>3 DEF Ahead
<1>3. CASE place = "gone"
  <2>1. hooks = <<"session_close">>
    BY <1>3 DEF Ahead
  <2>2. Tail(hooks) = <<>> /\ Head(hooks) = "session_close"
    BY <2>1
  <2> QED
    BY <1>3, <2>2 DEF Ahead, Boundary, Place
<1> QED
  BY <1>1, <1>2, <1>3

(* The shell's own steps: no helper runs, and none of them changes what    *)
(* the daemon has.                                                         *)
LEMMA ShellStepTyped ==
  ASSUME IInv, call = None, NEW s \in Shell, ShellStep(s)
  PROVE  TypeOK' /\ HelpersAreFit'
<1>1. /\ shell' = s /\ call' = None
      /\ UNCHANGED <<up, session, late, faults, heard, disturbed>>
  BY DEF ShellStep
<1>2. /\ s.type \in ShellType /\ s.at \in {"new", "prompt", "command", "gone"}
      /\ s.hooks \in Seq(Command) /\ s.hooked \in BOOLEAN /\ s.at_prompt \in BOOLEAN
  BY DEF Shell
<1>3. \A n \in DOMAIN s.hooks : s.hooks[n] \in Command
  BY <1>2, LenProperties
<1>4. {s.hooked, s.at_prompt, up, heard, disturbed} \subseteq BOOLEAN
  BY <1>2 DEF IInv, TypeOK
<1>5. TypeOK'
  BY <1>1, <1>2, <1>3, <1>4 DEF IInv, TypeOK
<1>6. HelpersAreFit'
  BY <1>1 DEF IInv, HelpersAreFit
<1> QED
  BY <1>5, <1>6

(* On the way to a prompt.                                                 *)
LEMMA ToPromptFacts ==
  ASSUME NEW s \in Shell, NEW returned \in BOOLEAN, s.hooks \in {<<>>, <<"session_open">>},
         s.hooks = <<"session_open">> => ~s.at_prompt,
         NEW t, t = ToPrompt(s, returned)
  PROVE  /\ t \in Shell /\ t.at = "prompt" /\ t.hooked = s.hooked /\ t.later = s.later
         /\ t.hooked /\ ~t.later => t.hooks \in Ahead("prompt") /\ t.at_prompt
         /\ t.hooked /\ ~t.later /\ s.hooks = <<>> =>
              /\ t.hooks # <<>> => Head(t.hooks) # "session_open"
              /\ \/ t.hooks = <<>> /\ ~returned
                 \/ \E n \in DOMAIN t.hooks : Boundary(t.hooks[n])
<1> DEFINE h == PromptHooks(s, returned)
<1>1. /\ h \in Seq(Command)
      /\ s.hooked /\ ~s.later => h \in {<<"prompt_ready">>, <<"command_start", "prompt_ready">>}
                                   \/ (h = <<>> /\ ~returned)
      /\ h = <<"command_start", "prompt_ready">> /\ ~s.later => s.at_prompt
  BY PromptHooksFacts
<1>2. /\ t = [s EXCEPT !.at = "prompt", !.hooks = s.hooks \o h,
                       !.at_prompt = s.hooked /\ ~s.later]
  BY DEF ToPrompt
<1> HIDE DEF h
<1>3. (s.hooked /\ ~s.later) \in BOOLEAN
  OBVIOUS
<1>4. <<"session_open">> \in Seq(Command) /\ <<>> \in Seq(Command)
  <2>1. "session_open" \in Command
    BY DEF Command, Hook
  <2> QED
    BY <2>1
<1>5. s.hooks \o h \in Seq(Command)
  BY <1>1, <1>4, ConcatProperties
<1>6. /\ t \in Shell /\ t.at = "prompt" /\ t.hooked = s.hooked /\ t.later = s.later
      /\ t.at_prompt = (s.hooked /\ ~s.later) /\ t.hooks = s.hooks \o h
  BY <1>2, <1>3, <1>5 DEF Shell
<1>7. CASE s.hooks = <<>>
  <2>1. t.hooks = h
    BY <1>1, <1>6, <1>7, ConcatEmptySeq
  <2>2. ASSUME s.hooked, ~s.later
        PROVE  /\ h \in Ahead("prompt")
               /\ h # <<>> => Head(h) # "session_open"
               /\ \/ h = <<>> /\ ~returned
                  \/ \E n \in DOMAIN h : Boundary(h[n])
    <3>1. CASE h = <<"prompt_ready">>
      BY <3>1, ShortSequences DEF Ahead, Boundary
    <3>2. CASE h = <<"command_start", "prompt_ready">>
      <4>1. 1 \in DOMAIN h /\ h[1] = "command_start" /\ Head(h) = "command_start"
        BY <3>2
      <4> QED
        BY <3>2, <4>1 DEF Ahead, Boundary
    <3>3. CASE h = <<>> /\ ~returned
      BY <3>3 DEF Ahead
    <3> QED
      BY <1>1, <2>2, <3>1, <3>2, <3>3
  <2> QED
    BY <1>6, <1>7, <2>1, <2>2
<1>8. CASE s.hooks = <<"session_open">>
  <2>1. ASSUME s.hooked, ~s.later PROVE t.hooks \in Ahead("prompt")
    <3>1. CASE h = <<"prompt_ready">>
      BY <1>6, <1>8, <3>1, PairConcat DEF Ahead
    <3>2. CASE h = <<>>
      BY <1>4, <1>6, <1>8, <3>2, ConcatEmptySeq DEF Ahead
    <3> QED
      BY <1>1, <1>8, <2>1, <3>1, <3>2
  <2>2. s.hooks # <<>>
    BY <1>8, ShortSequences
  <2> QED
    BY <1>6, <2>1, <2>2
<1> QED
  BY <1>7, <1>8

(* Steps of the shell keep what the engine was told.                       *)
LEMMA ShellKeeps ==
  ASSUME IInv, OpenShell \/ User
  PROVE  IInv'
<1>0. /\ shell \in Shell /\ IInv
      /\ shell.hooks # <<>> => shell.at # "new"
  BY DEF IInv, HelpersAreFit, HooksAreFit
<1>1. ASSUME NEW s \in Shell, ShellStep(s), call = None, s.at # "new",
             s.hooked /\ ~s.later =>
               /\ s.hooks \in Ahead(s.at)
               /\ s.at = "prompt" => s.at_prompt
               /\ s.hooks # <<>> /\ Head(s.hooks) = "session_open" => ~heard
               /\ \/ \E n \in DOMAIN s.hooks : Boundary(s.hooks[n])
                  \/ ~heard
                  \/ /\ s.at = shell.at /\ shell.hooked /\ ~shell.later
                     /\ shell.hooks = <<>>
      PROVE  IInv'
  <2>1. TypeOK' /\ HelpersAreFit'
    BY <1>1, ShellStepTyped
  <2>2. /\ shell' = s /\ call' = None
        /\ UNCHANGED <<up, session, late, faults, heard, disturbed>>
    BY <1>1 DEF ShellStep
  <2>3. HooksAreFit'
    BY <1>1, <2>2 DEF HooksAreFit
  <2>4. ASSUME shell.hooks = <<>>, InTime PROVE Agrees(shell.at, session)
    BY <2>4 DEF IInv, ToldInTime
  <2>5. ToldInTime'
    BY <1>1, <2>2, <2>4 DEF ToldInTime, InTime
  <2> QED
    BY <2>1, <2>3, <2>5 DEF IInv
<1>2. ASSUME Reached("prompt") \/ Reached("command")
      PROVE  /\ call = None /\ shell.hooks = <<>> /\ shell.at \in {"prompt", "command"}
             /\ shell.hooked /\ ~shell.later /\ shell.at = "prompt" => shell.at_prompt
  BY <1>2 DEF Reached, IInv, HooksAreFit
<1>3. ASSUME NEW c \in Command
      PROVE  /\ <<c>> \in Seq(Command) /\ <<c>> # <<>> /\ Head(<<c>>) = c
             /\ Boundary(c) => \E n \in DOMAIN <<c>> : Boundary(<<c>>[n])
  BY ShortSequences
<1>4. CASE OpenShell
  <2> DEFINE s == [shell EXCEPT !.hooked = TRUE, !.hooks = <<"session_open">>]
  <2>1. call = None /\ ~heard /\ ~shell.at_prompt /\ ShellStep(ToPrompt(s, FALSE))
    BY <1>4 DEF OpenShell, IInv, HooksAreFit
  <2>2. "session_open" \in Command
    BY DEF Command, Hook
  <2>3. s \in Shell /\ s.hooks = <<"session_open">> /\ s.at_prompt = shell.at_prompt
    BY <1>0, <1>3, <2>2 DEF Shell
  <2> HIDE DEF s
  <2>4. PICK t : t = ToPrompt(s, FALSE)
    OBVIOUS
  <2>5. /\ t \in Shell /\ t.at = "prompt"
        /\ t.hooked /\ ~t.later => t.hooks \in Ahead("prompt") /\ t.at_prompt
    BY <2>1, <2>3, <2>4, ToPromptFacts
  <2> QED
    BY <1>1, <2>1, <2>4, <2>5
<1>5. CASE Submit
  <2> DEFINE s == Preexec(shell)
             h == IF shell.hooked /\ (shell.type = "bash" => shell.at_prompt)
                  THEN <<"command_start">> ELSE <<>>
  <2>1. ShellStep(s) /\ Reached("prompt")
    BY <1>5 DEF Submit
  <2>2. "command_start" \in Command /\ Boundary("command_start")
    BY DEF Command, Hook, Boundary
  <2>3. /\ s.at = "command" /\ s.hooked = shell.hooked /\ s.later = shell.later
        /\ s \in Shell
    <3>1. h \in Seq(Command)
      BY <1>3, <2>2
    <3>2. s = [shell EXCEPT !.at = "command", !.at_prompt = FALSE, !.hooks = h]
      BY DEF Preexec
    <3> HIDE DEF h, s
    <3> QED
      BY <1>0, <3>1, <3>2 DEF Shell
  <2>4. s.hooked /\ ~s.later => s.hooks = <<"command_start">>
    BY <1>0, <1>2, <2>1, <2>3 DEF Preexec, Shell, Reached
  <2> HIDE DEF s
  <2> QED
    BY <1>1, <1>2, <1>3, <2>1, <2>2, <2>3, <2>4 DEF Ahead
<1>6. CASE EnterNothing
  <2>1. ShellStep(ToPrompt(shell, FALSE)) /\ Reached("prompt") /\ shell.at = "prompt"
    BY <1>6 DEF EnterNothing, Reached
  <2>2. call = None /\ shell.hooks = <<>> /\ shell.hooks # <<"session_open">>
    BY <1>2, <2>1, ShortSequences
  <2>3. PICK t : t = ToPrompt(shell, FALSE)
    OBVIOUS
  <2>4. /\ t \in Shell /\ t.at = "prompt" /\ t.hooked = shell.hooked /\ t.later = shell.later
        /\ t.hooked /\ ~t.later => t.hooks \in Ahead("prompt") /\ t.at_prompt
        /\ t.hooked /\ ~t.later =>
             /\ t.hooks # <<>> => Head(t.hooks) # "session_open"
             /\ t.hooks = <<>> \/ \E n \in DOMAIN t.hooks : Boundary(t.hooks[n])
    BY <1>0, <2>2, <2>3, ToPromptFacts
  <2> QED
    BY <1>1, <2>1, <2>2, <2>3, <2>4
<1>7. CASE Return
  <2>1. ShellStep(ToPrompt(shell, TRUE)) /\ Reached("command")
    BY <1>7 DEF Return
  <2>2. call = None /\ shell.hooks = <<>> /\ shell.hooks # <<"session_open">>
    BY <1>2, <2>1, ShortSequences
  <2>3. PICK t : t = ToPrompt(shell, TRUE)
    OBVIOUS
  <2>4. /\ t \in Shell /\ t.at = "prompt"
        /\ t.hooked /\ ~t.later => t.hooks \in Ahead("prompt") /\ t.at_prompt
        /\ t.hooked /\ ~t.later =>
             /\ t.hooks # <<>> => Head(t.hooks) # "session_open"
             /\ \E n \in DOMAIN t.hooks : Boundary(t.hooks[n])
    BY <1>0, <2>2, <2>3, ToPromptFacts
  <2> QED
    BY <1>1, <2>1, <2>2, <2>3, <2>4
<1>8. CASE \E c \in Cli : RunCli(c)
  <2>1. PICK c \in Cli : ShellStep([shell EXCEPT !.hooks = <<c>>]) /\ Reached("command")
    BY <1>8 DEF RunCli
  <2>2. PICK s : s = [shell EXCEPT !.hooks = <<c>>]
    OBVIOUS
  <2>3. c \in Command /\ c # "session_open"
    BY DEF Command, Cli
  <2>4. /\ s \in Shell /\ s.hooks = <<c>> /\ s.at = "command"
        /\ s.hooked = shell.hooked /\ s.later = shell.later
    BY <1>0, <1>3, <2>1, <2>2, <2>3 DEF Shell, Reached
  <2>5. shell.at = "command" /\ call = None /\ shell.hooks = <<>>
    BY <2>1 DEF Reached
  <2>6. s.hooks \in Ahead("command")
    BY <2>4 DEF Ahead
  <2> QED
    BY <1>1, <1>3, <2>1, <2>2, <2>3, <2>4, <2>5, <2>6
<1>9. CASE Exec
  <2> DEFINE s == [shell EXCEPT !.hooked = FALSE]
  <2>1. ShellStep(ToPrompt(s, FALSE)) /\ Reached("command")
    BY <1>9 DEF Exec
  <2>2. s \in Shell /\ s.hooks = shell.hooks /\ ~s.hooked
    BY <1>0 DEF Shell
  <2> HIDE DEF s
  <2>3. call = None /\ shell.hooks = <<>> /\ shell.hooks # <<"session_open">>
    BY <1>2, <2>1, ShortSequences
  <2>4. PICK t : t = ToPrompt(s, FALSE)
    OBVIOUS
  <2>5. t \in Shell /\ t.at = "prompt" /\ ~t.hooked
    BY <2>2, <2>3, <2>4, ToPromptFacts
  <2> QED
    BY <1>1, <2>1, <2>3, <2>4, <2>5
<1>10. CASE Exit
  <2> DEFINE h == IF shell.hooked THEN <<"session_close">> ELSE <<>>
             s == [shell EXCEPT !.at = "gone", !.hooks = h]
  <2>1. ShellStep(s) /\ (Reached("prompt") \/ Reached("command"))
    BY <1>10 DEF Exit
  <2>2. "session_close" \in Command /\ Boundary("session_close")
    BY DEF Command, Hook, Boundary
  <2>3. s \in Shell /\ s.at = "gone" /\ (s.hooked => s.hooks = <<"session_close">>)
    <3>1. h \in Seq(Command)
      BY <1>3, <2>2
    <3>2. s = [shell EXCEPT !.at = "gone", !.hooks = h]
      OBVIOUS
    <3>3. shell.hooked => h = <<"session_close">>
      OBVIOUS
    <3> HIDE DEF h, s
    <3> QED
      BY <1>0, <3>1, <3>2, <3>3 DEF Shell
  <2> HIDE DEF s
  <2> QED
    BY <1>1, <1>2, <1>3, <2>1, <2>2, <2>3 DEF Ahead
<1> QED
  BY <1>4, <1>5, <1>6, <1>7, <1>8, <1>9, <1>10 DEF User

(* The helpers ahead of one that runs.                                     *)
LEMMA TailFacts ==
  ASSUME NEW hooks \in Seq(Command), hooks # <<>>
  PROVE  /\ Tail(hooks) = <<>> => DOMAIN hooks = {1}
         /\ Tail(hooks) = <<"prompt_ready">> => 2 \in DOMAIN hooks /\ hooks[2] = "prompt_ready"
<1> DEFINE t == Tail(hooks)
           q == <<"prompt_ready">>
<1>1. /\ Len(t) = Len(hooks) - 1 /\ Len(hooks) \in Nat
      /\ DOMAIN hooks = 1 .. Len(hooks)
      /\ \A i \in 1 .. Len(t) : t[i] = hooks[i + 1]
  BY HeadTailProperties, LenProperties
<1>2. Len(<<>>) = 0 /\ Len(q) = 1 /\ q[1] = "prompt_ready"
  OBVIOUS
<1> HIDE DEF t, q
<1>3. t = <<>> => DOMAIN hooks = {1}
  BY <1>1, <1>2
<1>4. t = q => 2 \in DOMAIN hooks /\ hooks[2] = "prompt_ready"
  <2> SUFFICES ASSUME t = q PROVE 2 \in DOMAIN hooks /\ hooks[2] = "prompt_ready"
    OBVIOUS
  <2>1. Len(t) = 1 /\ t[1] = "prompt_ready"
    BY <1>2
  <2>2. Len(hooks) = 2
    <3>1. PICK k \in Nat : k = Len(hooks)
      BY <1>1
    <3>2. 1 = k - 1
      BY <1>1, <2>1, <3>1
    <3> QED
      BY <3>1, <3>2
  <2>3. 1 \in 1 .. Len(t)
    BY <2>1
  <2> QED
    BY <1>1, <2>1, <2>2, <2>3
<1> QED
  BY <1>3, <1>4 DEF t, q

LEMMA NoBoundaryAhead ==
  ASSUME IInv, shell.hooks # <<>>, shell.hooked, ~shell.later, heard,
         \A n \in DOMAIN shell.hooks : ~Boundary(shell.hooks[n])
  PROVE  shell.at = "command"
<1>1. /\ shell.hooks \in Seq(Command) /\ shell.hooks \in Ahead(shell.at)
      /\ shell.at \in {"prompt", "command", "gone"}
      /\ Head(shell.hooks) # "session_open"
  BY DEF IInv, HelpersAreFit, HooksAreFit, Shell
<1>2. ~Boundary(Head(shell.hooks))
  BY <1>1, HooksTail
<1>3. Tail(shell.hooks) = <<>>
  <2>1. Boundary("prompt_ready")
    BY DEF Boundary
  <2> QED
    BY <1>1, <2>1, AheadTail, TailFacts
<1> QED
  BY <1>1, <1>2, <1>3, AheadTail

(* Steps that leave the shell where it is and tell the engine nothing, or  *)
(* disturb it.                                                             *)
LEMMA Continues ==
  ASSUME IInv, UNCHANGED <<shell, heard>>,
         NEW c \in Call \cup {None}, call' = c,
         c # None => /\ shell.hooks # <<>> /\ c.for = Head(shell.hooks)
                     /\ c.todo \in {<<c.for>>, <<"session_open", c.for>>}
                     /\ c.stage # "done" \/ disturbed',
         session' \in SessionRecord \cup {None}, session' = None \/ Coherent(session'),
         session' = session \/ disturbed',
         disturbed' \in BOOLEAN, disturbed => disturbed',
         up' \in BOOLEAN, ~up' /\ ~disturbed' => session' = None,
         late' \in [Command -> 0 .. MaxFaults], faults' \in 0 .. MaxFaults,
         \A d \in Command : late'[d] <= faults'
  PROVE  IInv'
<1>1. c # None => c.todo # <<>>
  BY ShortSequences
<1>2. TypeOK'
  BY <1>1 DEF IInv, TypeOK
<1>3. HelpersAreFit'
  BY DEF IInv, HelpersAreFit
<1>4. HooksAreFit'
  BY DEF IInv, HooksAreFit
<1>5. ToldInTime'
  BY DEF IInv, ToldInTime, InTime
<1> QED
  BY <1>2, <1>3, <1>4, <1>5 DEF IInv

(* The end of a helper.                                                    *)
LEMMA EndCallKeeps ==
  ASSUME IInv, call # None, NEW a \in BOOLEAN, EndCall(a),
         a => call.stage = "done" /\ call.todo = <<call.for>>,
         UNCHANGED <<up, session, late, disturbed>>,
         faults' \in 0 .. MaxFaults, faults <= faults'
  PROVE  IInv'
<1>1. /\ shell \in Shell /\ shell.hooks # <<>> /\ call.for = Head(shell.hooks)
      /\ shell.hooks \in Seq(Command) /\ shell.at \in {"prompt", "command", "gone"}
      /\ shell.hooked /\ ~shell.later => shell.hooks \in Ahead(shell.at)
  BY DEF IInv, HelpersAreFit, HooksAreFit, Shell
<1>2. PICK t : t = Tail(shell.hooks)
  OBVIOUS
<1>3. t \in Seq(Command) /\ shell.hooks[1] = Head(shell.hooks) /\ 1 \in DOMAIN shell.hooks
  BY <1>1, <1>2, HooksTail
<1>4. shell' = [shell EXCEPT !.hooks = t] /\ call' = None
  BY <1>2 DEF EndCall
<1>5. /\ shell' \in Shell /\ shell'.hooks = t /\ shell'.at = shell.at
      /\ shell'.type = shell.type /\ shell'.later = shell.later
      /\ shell'.hooked = shell.hooked /\ shell'.at_prompt = shell.at_prompt
  BY <1>1, <1>3, <1>4 DEF Shell
<1>6. heard' = IF Boundary(call.for) THEN a ELSE heard
  BY DEF EndCall
<1>7. TypeOK'
  <2>1. \A n \in DOMAIN t : t[n] \in Command
    BY <1>3, LenProperties
  <2>2. {shell'.hooked, shell'.at_prompt, up', heard', disturbed'} \subseteq BOOLEAN
    BY <1>5, <1>6 DEF IInv, TypeOK
  <2> QED
    BY <1>4, <1>5, <2>1, <2>2 DEF IInv, TypeOK
<1>8. HelpersAreFit'
  <2>1. \A d \in Command : late[d] \in Nat /\ late[d] <= faults
    BY ShellHookAssumption DEF IInv, HelpersAreFit, TypeOK
  <2>2. faults \in Int /\ faults' \in Int
    BY ShellHookAssumption DEF IInv, TypeOK
  <2>3. \A d \in Command : late[d] <= faults'
    BY <2>1, <2>2
  <2> QED
    BY <1>4, <1>5, <2>3 DEF IInv, HelpersAreFit
<1>9. ASSUME shell.hooked, ~shell.later
      PROVE  t \in Ahead(shell.at) /\ (t # <<>> => t = <<"prompt_ready">>)
  BY <1>1, <1>2, <1>9, AheadTail
<1>10. HooksAreFit'
  <2>1. Head(<<"prompt_ready">>) # "session_open"
    OBVIOUS
  <2> QED
    BY <1>1, <1>4, <1>5, <1>9, <2>1 DEF IInv, HooksAreFit
<1>11. ToldInTime'
  <2> SUFFICES ASSUME shell.hooked, ~shell.later, heard', ~disturbed,
                      \A n \in DOMAIN t : ~Boundary(t[n])
               PROVE  Agrees(shell.at, session)
    BY <1>4, <1>5 DEF ToldInTime, InTime
  <2>1. t = <<>>
    <3>1. 1 \in DOMAIN <<"prompt_ready">> /\ <<"prompt_ready">>[1] = "prompt_ready"
      OBVIOUS
    <3> QED
      BY <1>9, <3>1 DEF Boundary
  <2>2. CASE Boundary(call.for)
    <3>1. Agrees(Place(call.for), session)
      BY <1>6, <2>2 DEF IInv, ToldInTime
    <3>2. Place(call.for) = shell.at
      BY <1>1, <1>2, <2>1, <2>2, AheadTail
    <3> QED
      BY <3>1, <3>2
  <2>3. CASE ~Boundary(call.for)
    <3>1. \A n \in DOMAIN shell.hooks : ~Boundary(shell.hooks[n])
      BY <1>1, <1>2, <1>3, <2>1, <2>3, TailFacts
    <3> QED
      BY <1>6, <2>3, <3>1 DEF IInv, ToldInTime, InTime
  <2> QED
    BY <2>2, <2>3
<1> QED
  BY <1>7, <1>8, <1>10, <1>11 DEF IInv

(* Steps of the helper.                                                    *)
LEMMA HelperKeeps ==
  ASSUME IInv, Helper
  PROVE  IInv'
<1>1. /\ shell \in Shell /\ call \in Call \cup {None}
      /\ session \in SessionRecord \cup {None} /\ (session = None \/ Coherent(session))
      /\ up \in BOOLEAN /\ disturbed \in BOOLEAN
      /\ late \in [Command -> 0 .. MaxFaults] /\ faults \in 0 .. MaxFaults
      /\ \A d \in Command : late[d] <= faults
      /\ ~up /\ ~disturbed => session = None
      /\ MaxFaults \in Nat /\ None \notin Call
  BY ShellHookAssumption DEF IInv, TypeOK, HelpersAreFit
<1>2. ASSUME call # None
      PROVE  /\ call \in Call /\ call.for \in Command /\ shell.hooks # <<>>
             /\ call.for = Head(shell.hooks)
             /\ call.todo \in {<<call.for>>, <<"session_open", call.for>>}
             /\ call.todo \in Seq(Command)
  BY <1>1, <1>2 DEF IInv, HelpersAreFit, Call
<1>3. ASSUME NEW c \in Call, CallStep(c), shell.hooks # <<>>, c.for = Head(shell.hooks),
             c.todo \in {<<c.for>>, <<"session_open", c.for>>}, c.stage # "done"
      PROVE  IInv'
  BY <1>1, <1>3, Continues DEF CallStep
<1>4. ASSUME NEW c \in Call, call' = c, call # None, c.for = call.for,
             c.todo \in {<<c.for>>, <<"session_open", c.for>>}, c.stage # "done",
             UNCHANGED <<shell, up, session, late, faults, heard, disturbed>>
      PROVE  IInv'
  BY <1>2, <1>3, <1>4 DEF CallStep
<1>5. ASSUME call # None, Len(call.todo) > 1
      PROVE  Tail(call.todo) = <<call.for>> /\ Tail(call.todo) \in Seq(Command)
  <2>1. call.todo = <<call.for>> => Len(call.todo) = 1
    BY ShortLengths
  <2>2. call.todo # <<call.for>>
    <3> SUFFICES ASSUME call.todo = <<call.for>> PROVE FALSE
      OBVIOUS
    <3>1. PICK k : k = Len(call.todo)
      OBVIOUS
    <3>2. k = 1 /\ k > 1
      BY <1>5, <2>1, <3>1, Zenon
    <3> QED
      BY <3>2
  <2>3. call.todo = <<"session_open", call.for>>
    BY <1>2, <1>5, <2>2
  <2>4. Tail(call.todo) = <<call.for>>
    BY <2>3, ShortSequences
  <2> QED
    BY <1>2, <1>5, <2>4
<1>6. CASE BeginCall
  <2> DEFINE h == Head(shell.hooks)
             c == [for |-> h, todo |-> <<h>>, again |-> FALSE,
                   stage |-> IF h \in Hook THEN "send" ELSE "ensure"]
  <2>1. call = None /\ shell.hooks # <<>> /\ CallStep(c)
    BY <1>6 DEF BeginCall
  <2>2. h \in Command
    BY <1>1, <2>1, HooksTail DEF Shell
  <2> HIDE DEF h
  <2>3. <<h>> \in Seq(Command)
    BY <2>2
  <2>4. c \in Call /\ c.for = h /\ c.todo = <<h>> /\ c.stage # "done"
    BY <2>2, <2>3 DEF Call
  <2> HIDE DEF c
  <2> QED
    BY <1>3, <2>1, <2>4 DEF h
<1>7. CASE Send
  <2>1. PICK c : c = [call EXCEPT !.stage = IF up THEN "sent" ELSE "failed"]
    OBVIOUS
  <2>2. call # None /\ CallStep(c)
    BY <1>7, <2>1 DEF Send
  <2>3. c \in Call /\ c.for = call.for /\ c.todo = call.todo /\ c.stage # "done"
    BY <1>2, <2>1, <2>2 DEF Call
  <2> QED
    BY <1>2, <1>3, <2>2, <2>3
<1>8. CASE TakeAnswer
  <2>0. /\ call # None /\ call.stage \in {"done", "error"}
        /\ UNCHANGED <<up, session, late, faults, disturbed>>
    BY <1>8 DEF TakeAnswer
  <2>1. CASE call.stage = "error"
    <3>1. PICK c : c = [call EXCEPT !.stage = "failed"]
      OBVIOUS
    <3>2. call' = c /\ UNCHANGED <<shell, heard>>
      BY <1>8, <2>1, <3>1 DEF TakeAnswer
    <3>3. c \in Call /\ c.for = call.for /\ c.todo = call.todo /\ c.stage # "done"
      BY <1>2, <2>0, <3>1 DEF Call
    <3> QED
      BY <1>2, <1>4, <2>0, <3>2, <3>3
  <2>2. CASE call.stage = "done" /\ Len(call.todo) > 1
    <3>1. PICK c : c = [call EXCEPT !.stage = "send", !.todo = Tail(@)]
      OBVIOUS
    <3>2. call' = c /\ UNCHANGED <<shell, heard>>
      BY <1>8, <2>2, <3>1 DEF TakeAnswer
    <3>3. /\ c \in Call /\ c.for = call.for /\ c.todo = Tail(call.todo)
          /\ c.stage # "done"
      BY <1>2, <1>5, <2>0, <2>2, <3>1 DEF Call
    <3> QED
      BY <1>4, <1>5, <2>0, <2>2, <3>2, <3>3
  <2>3. CASE call.stage = "done" /\ ~(Len(call.todo) > 1)
    <3>1. EndCall(TRUE)
      BY <1>8, <2>3 DEF TakeAnswer
    <3>2. call.todo = <<"session_open", call.for>> => Len(call.todo) = 2
      BY ShortLengths
    <3>3. call.todo = <<call.for>>
      BY <1>2, <2>0, <2>3, <3>2
    <3>4. faults' \in 0 .. MaxFaults /\ faults <= faults'
      BY <1>1, <2>0
    <3> QED
      BY <2>0, <2>3, <3>1, <3>3, <3>4, EndCallKeeps
  <2> QED
    BY <2>0, <2>1, <2>2, <2>3
<1>9. CASE GiveUp
  <2>1. PICK c : c = [call EXCEPT !.stage = "failed"]
    OBVIOUS
  <2>2. /\ call # None /\ call' = c /\ faults < MaxFaults /\ faults' = faults + 1
        /\ UNCHANGED <<shell, up, session, heard, disturbed>>
    BY <1>9, <2>1 DEF GiveUp
  <2>3. c \in Call /\ c.for = call.for /\ c.todo = call.todo /\ c.stage # "done"
    BY <1>2, <2>1, <2>2 DEF Call
  <2>4. PICK h : h = Head(call.todo)
    OBVIOUS
  <2>5. late' = late \/ late' = [late EXCEPT ![h] = @ + 1]
    BY <1>9, <2>4 DEF GiveUp
  <2>6. \A d \in Command : late[d] \in Nat /\ late[d] + 1 <= faults'
    BY <1>1, <2>2
  <2>7. faults' \in 0 .. MaxFaults
    BY <1>1, <2>2
  <2>8. late' \in [Command -> 0 .. MaxFaults] /\ \A d \in Command : late'[d] <= faults'
    BY <1>1, <2>5, <2>6, <2>7
  <2> QED
    BY <1>1, <1>2, <2>2, <2>3, <2>7, <2>8, Continues
<1>10. CASE Fail
  <2>0. call # None /\ UNCHANGED <<up, session, late, faults, disturbed>>
    BY <1>10 DEF Fail
  <2>1. CASE call' = [call EXCEPT !.stage = "ensure"] /\ UNCHANGED <<shell, heard>>
    <3>1. PICK c : c = [call EXCEPT !.stage = "ensure"]
      OBVIOUS
    <3>2. c \in Call /\ c.for = call.for /\ c.todo = call.todo /\ c.stage # "done"
      BY <1>2, <2>0, <3>1 DEF Call
    <3> QED
      BY <1>2, <1>4, <2>0, <2>1, <3>1, <3>2
  <2>2. CASE /\ Len(call.todo) > 1
             /\ call' = [call EXCEPT !.stage = "send", !.todo = Tail(@)]
             /\ UNCHANGED <<shell, heard>>
    <3>1. PICK c : c = [call EXCEPT !.stage = "send", !.todo = Tail(@)]
      OBVIOUS
    <3>2. /\ c \in Call /\ c.for = call.for /\ c.todo = Tail(call.todo)
          /\ c.stage # "done"
      BY <1>2, <1>5, <2>0, <2>2, <3>1 DEF Call
    <3> QED
      BY <1>4, <1>5, <2>0, <2>2, <3>1, <3>2
  <2>3. CASE EndCall(FALSE)
    <3>1. faults' \in 0 .. MaxFaults /\ faults <= faults'
      BY <1>1, <2>0
    <3> QED
      BY <2>0, <2>3, <3>1, EndCallKeeps
  <2> QED
    BY <1>10, <2>1, <2>2, <2>3 DEF Fail
<1>11. CASE EnsureDaemon
  <2>1. PICK c : c = [call EXCEPT !.stage = "send", !.again = TRUE,
                                  !.todo = Registering(call.for)]
    OBVIOUS
  <2>2. /\ call # None /\ call' = c /\ up' = TRUE
        /\ session' = IF up \/ session = None THEN session
                      ELSE RecoverLiveTiming(session, 0, 0)
        /\ UNCHANGED <<shell, late, faults, heard, disturbed>>
    BY <1>11, <2>1 DEF EnsureDaemon
  <2>3. PICK w : w = Registering(call.for)
    OBVIOUS
  <2>4. w \in {<<call.for>>, <<"session_open", call.for>>} /\ w \in Seq(Command)
    <3>1. "session_open" \in Command
      BY DEF Command, Hook
    <3>2. <<call.for>> \in Seq(Command) /\ <<"session_open", call.for>> \in Seq(Command)
      BY <1>2, <2>2, <3>1
    <3> QED
      BY <2>3, <3>2 DEF Registering
  <2>5. c \in Call /\ c.for = call.for /\ c.todo = w /\ c.stage # "done"
    BY <1>2, <2>1, <2>2, <2>3, <2>4 DEF Call
  <2>6. /\ session' \in SessionRecord \cup {None} /\ (session' = None \/ Coherent(session'))
        /\ session' = session \/ disturbed'
    <3>1. CASE up \/ session = None
      BY <1>1, <2>2, <3>1
    <3>2. CASE ~up /\ session # None
      BY <1>1, <2>2, <3>2, RecoverInMemory
    <3> QED
      BY <3>1, <3>2
  <2> QED
    BY <1>1, <1>2, <2>2, <2>4, <2>5, <2>6, Continues
<1>12. CASE DaemonIsNotReady
  <2>1. /\ call # None /\ EndCall(FALSE) /\ UNCHANGED <<up, session, late, disturbed>>
        /\ faults < MaxFaults /\ faults' = faults + 1
    BY <1>12 DEF DaemonIsNotReady
  <2>2. faults' \in 0 .. MaxFaults /\ faults <= faults'
    BY <1>1, <2>1
  <2> QED
    BY <2>1, <2>2, EndCallKeeps
<1> QED
  BY <1>6, <1>7, <1>8, <1>9, <1>10, <1>11, <1>12 DEF Helper

(* Steps of the daemon.                                                    *)
LEMMA ExecuteKeeps ==
  ASSUME IInv, Execute
  PROVE  IInv'
<1>1. /\ shell \in Shell /\ call # None /\ call \in Call /\ call.for \in Command
      /\ session \in SessionRecord \cup {None} /\ (session = None \/ Coherent(session))
      /\ shell.hooks # <<>> /\ call.for = Head(shell.hooks)
      /\ call.todo \in {<<call.for>>, <<"session_open", call.for>>}
      /\ shell.hooks \in Seq(Command) /\ up
  BY DEF Execute, IInv, TypeOK, HelpersAreFit, Call, Shell
<1>2. PICK h : h = Head(call.todo)
  OBVIOUS
<1>3. h \in Command /\ h \in {call.for, "session_open"}
  <2>1. "session_open" \in Command
    BY DEF Command, Hook
  <2> QED
    BY <1>1, <1>2, <2>1, ShortSequences
<1>4. PICK m \in Nat : session' = Handled(h, session, m)
  BY <1>2, ShellHookAssumption DEF Execute
<1>5. PICK c : c = [call EXCEPT !.stage = IF Knows(h) THEN "done" ELSE "error"]
  OBVIOUS
<1>6. /\ call' = c /\ disturbed' = (disturbed /\ (h # call.for \/ ~Boundary(call.for)))
      /\ UNCHANGED <<shell, up, late, faults, heard>>
  BY <1>2, <1>5 DEF Execute
<1>7. /\ c \in Call /\ c # None /\ c.for = call.for /\ c.todo = call.todo
      /\ c.stage = IF Knows(h) THEN "done" ELSE "error"
  BY <1>1, <1>5, ShellHookAssumption DEF Call
<1>8. /\ session' \in SessionRecord \cup {None} /\ (session' = None \/ Coherent(session'))
      /\ Boundary(h) /\ (session # None \/ h = "session_close") => Agrees(Place(h), session')
      /\ ~Boundary(h) /\ Agrees("command", session) => Agrees("command", session')
  BY <1>1, <1>3, <1>4, HandledFacts
<1>9. TypeOK'
  <2>1. call.todo # <<>>
    BY <1>1, ShortSequences
  <2>2. {shell.hooked, shell.at_prompt, up, heard, disturbed'} \subseteq BOOLEAN
    BY <1>6 DEF IInv, TypeOK
  <2> QED
    BY <1>1, <1>6, <1>7, <1>8, <2>1, <2>2 DEF IInv, TypeOK
<1>10. HelpersAreFit'
  BY <1>1, <1>6, <1>7, <1>8 DEF IInv, HelpersAreFit
<1>11. HooksAreFit'
  BY <1>1, <1>6 DEF IInv, HooksAreFit
<1>12. ASSUME c.stage = "done", c.todo = <<c.for>>, Boundary(c.for)
       PROVE  Agrees(Place(c.for), session')
  <2>1. h = c.for
    BY <1>2, <1>7, <1>12, ShortSequences
  <2>2. session # None \/ h = "session_close"
    BY <1>7, <1>12, <2>1 DEF Knows, Boundary
  <2> QED
    BY <1>8, <1>12, <2>1, <2>2
<1>13. ASSUME shell.hooked, ~shell.later, heard, ~disturbed',
              \A n \in DOMAIN shell.hooks : ~Boundary(shell.hooks[n])
       PROVE  Agrees(shell.at, session')
  <2>1. ~Boundary(call.for)
    BY <1>1, <1>13, HooksTail
  <2>2. ~Boundary(h)
    BY <1>3, <2>1 DEF Boundary
  <2>3. Agrees(shell.at, session)
    BY <1>6, <1>13, <2>1 DEF IInv, ToldInTime, InTime
  <2>4. shell.at = "command"
    BY <1>1, <1>13, NoBoundaryAhead
  <2> QED
    BY <1>8, <2>2, <2>3, <2>4
<1>14. ToldInTime'
  <2>1. c.stage = "done" /\ c.todo = <<c.for>> /\ Boundary(c.for) =>
          Agrees(Place(c.for), session')
    BY <1>12
  <2> QED
    BY <1>6, <1>13, <2>1 DEF ToldInTime, InTime
<1> QED
  BY <1>9, <1>10, <1>11, <1>14 DEF IInv

LEMMA DaemonKeeps ==
  ASSUME IInv, Daemon
  PROVE  IInv'
<1>1. /\ shell \in Shell /\ call \in Call \cup {None}
      /\ session \in SessionRecord \cup {None} /\ (session = None \/ Coherent(session))
      /\ up \in BOOLEAN /\ disturbed \in BOOLEAN
      /\ late \in [Command -> 0 .. MaxFaults] /\ faults \in 0 .. MaxFaults
      /\ \A d \in Command : late[d] \in Nat /\ late[d] <= faults
      /\ ~up /\ ~disturbed => session = None
      /\ MaxFaults \in Nat /\ None \notin Call
  BY ShellHookAssumption DEF IInv, TypeOK, HelpersAreFit
<1>2. ASSUME call # None
      PROVE  /\ call \in Call /\ shell.hooks # <<>> /\ call.for = Head(shell.hooks)
             /\ call.todo \in {<<call.for>>, <<"session_open", call.for>>}
  BY <1>1, <1>2 DEF IInv, HelpersAreFit
<1>3. ASSUME NEW d \in Command, ExecuteLate(d) PROVE IInv'
  <2>1. /\ up /\ late[d] > 0 /\ late' = [late EXCEPT ![d] = @ - 1] /\ disturbed' = TRUE
        /\ UNCHANGED <<shell, call, up, faults, heard>>
    BY <1>3 DEF ExecuteLate
  <2>2. PICK m \in Nat : session' = Handled(d, session, m)
    BY <1>3, ShellHookAssumption DEF ExecuteLate
  <2>3. session' \in SessionRecord \cup {None} /\ (session' = None \/ Coherent(session'))
    BY <1>1, <2>2, HandledFacts
  <2>4. late[d] - 1 \in 0 .. MaxFaults /\ late[d] - 1 <= faults
    BY <1>1, <2>1
  <2>5. /\ late' \in [Command -> 0 .. MaxFaults]
        /\ \A e \in Command : late'[e] <= faults'
    BY <1>1, <2>1, <2>4
  <2> QED
    BY <1>1, <1>2, <2>1, <2>3, <2>5, Continues
<1>4. CASE SettleBurst
  <2>1. /\ up /\ session # None /\ session.state = "settling" /\ session' = Settle(session, 0)
        /\ UNCHANGED <<shell, call, up, late, faults, heard, disturbed>>
    BY <1>4 DEF SettleBurst
  <2>2. session \in SessionRecord /\ Coherent(session)
    BY <1>1, <2>1
  <2>3. session' \in SessionRecord /\ Coherent(session') /\ session' # None
    BY <2>1, <2>2, SettleFacts, 0 \in Int, NoneAssumption
  <2>4. \A place : Agrees(place, session) => Agrees(place, session')
    BY <2>1, <2>2, SettleAgrees
  <2>5. TypeOK'
    BY <2>1, <2>3 DEF IInv, TypeOK
  <2>6. HelpersAreFit' /\ HooksAreFit'
    BY <2>1, <2>3 DEF IInv, HelpersAreFit, HooksAreFit
  <2>7. ToldInTime'
    BY <2>1, <2>4 DEF IInv, ToldInTime, InTime
  <2> QED
    BY <2>5, <2>6, <2>7 DEF IInv
<1>5. CASE StopDaemon
  <2>1. /\ up' = FALSE /\ disturbed' = TRUE /\ late' = [d \in Command |-> 0]
        /\ faults < MaxFaults /\ faults' = faults + 1
        /\ UNCHANGED <<shell, session, heard>>
    BY <1>5 DEF StopDaemon
  <2>2. PICK c : c = [call EXCEPT !.stage = "failed"]
    OBVIOUS
  <2>3. call' = call \/ (call # None /\ call' = c)
    BY <1>5, <2>2 DEF StopDaemon
  <2>4. call # None => c \in Call /\ c.for = call.for /\ c.todo = call.todo
    BY <1>2, <2>2 DEF Call
  <2>5. /\ call' \in Call \cup {None}
        /\ call' # None => /\ shell.hooks # <<>> /\ call'.for = Head(shell.hooks)
                           /\ call'.todo \in {<<call'.for>>, <<"session_open", call'.for>>}
    BY <1>1, <1>2, <2>3, <2>4
  <2>6. /\ late' \in [Command -> 0 .. MaxFaults] /\ faults' \in 0 .. MaxFaults
        /\ \A e \in Command : late'[e] <= faults'
    BY <1>1, <2>1
  <2> QED
    BY <1>1, <2>1, <2>5, <2>6, Continues
<1> QED
  BY <1>3, <1>4, <1>5, ExecuteKeeps DEF Daemon

(* ShellHook.  The strengthening holds in every reachable state: whatever  *)
(* the order of late requests, failed helpers and stops of the daemon, the *)
(* engine that was told of a boundary in time agrees with it until the     *)
(* next boundary is ahead.                                                 *)
THEOREM HooksInductive == Spec => []IInv
<1>1. Init => IInv
  <2> SUFFICES ASSUME Init PROVE IInv
    OBVIOUS
  <2>1. /\ shell.type \in ShellType /\ shell.at = "new" /\ shell.hooks = <<>>
        /\ shell.hooked = FALSE /\ shell.at_prompt = FALSE /\ shell.later \in BOOLEAN
        /\ call = None /\ up \in BOOLEAN /\ session = None
        /\ late = [c \in Command |-> 0] /\ faults = 0 /\ heard = FALSE /\ disturbed = FALSE
    BY DEF Init
  <2>2. shell \in Shell
    <3>1. <<>> \in Seq(Command)
      OBVIOUS
    <3>2. shell \in [type : ShellType, later : BOOLEAN, at : {"new"}, hooks : {<<>>},
                     hooked : {FALSE}, at_prompt : {FALSE}]
      BY DEF Init
    <3> QED
      BY <3>1, <3>2 DEF Shell
  <2>3. MaxFaults \in Nat
    BY ShellHookAssumption
  <2>4. late \in [Command -> 0 .. MaxFaults] /\ faults \in 0 .. MaxFaults
    BY <2>1, <2>3
  <2>5. TypeOK
    <3>1. \A n \in DOMAIN shell.hooks : shell.hooks[n] \in Command
      <4>1. DOMAIN <<>> = {}
        OBVIOUS
      <4> QED
        BY <2>1, <4>1
    <3>2. {shell.hooked, shell.at_prompt, up, heard, disturbed} \subseteq BOOLEAN
      BY <2>1
    <3> QED
      BY <2>1, <2>4, <3>1, <3>2 DEF TypeOK
  <2>6. HelpersAreFit
    BY <2>1, <2>2 DEF HelpersAreFit
  <2>7. HooksAreFit
    BY <2>1 DEF HooksAreFit
  <2>8. ToldInTime
    BY <2>1 DEF ToldInTime, InTime
  <2> QED
    BY <2>5, <2>6, <2>7, <2>8 DEF IInv
<1>2. IInv /\ [Next]_vars => IInv'
  <2>1. ASSUME IInv, UNCHANGED vars PROVE IInv'
    <3>1. /\ UNCHANGED <<shell, call, up, session, late, faults>>
          /\ UNCHANGED <<heard, disturbed>>
      BY <2>1 DEF vars
    <3>2. TypeOK'
      BY <2>1, <3>1 DEF IInv, TypeOK
    <3>3. HelpersAreFit' /\ HooksAreFit'
      BY <2>1, <3>1 DEF IInv, HelpersAreFit, HooksAreFit
    <3>4. ToldInTime'
      BY <2>1, <3>1 DEF IInv, ToldInTime, InTime
    <3> QED
      BY <3>2, <3>3, <3>4 DEF IInv
  <2> QED
    BY <2>1, ShellKeeps, HelperKeeps, DaemonKeeps DEF Next
<1> QED
  BY <1>1, <1>2, PTL DEF Spec

(* The types of the shell, its helper and the daemon's session.            *)
THEOREM HooksTypeCorrect == Spec => []TypeOK
<1>1. IInv => TypeOK
  BY DEF IInv
<1> QED
  BY <1>1, HooksInductive, PTL

(* When the last boundary was answered and nothing disturbed the engine    *)
(* since: no burst runs at a prompt, a command of an armed session is      *)
(* measured, and a shell that has left leaves no session behind.           *)
THEOREM EngineKnows == Spec => []EngineAgrees
<1>1. IInv => EngineAgrees
  <2> SUFFICES ASSUME IInv PROVE EngineAgrees
    OBVIOUS
  <2>1. ASSUME NEW place, Reached(place), InTime PROVE Agrees(place, session)
    <3>1. shell.hooks = <<>> /\ shell.at = place /\ DOMAIN <<>> = {}
      BY <2>1 DEF Reached
    <3> QED
      BY <2>1, <3>1 DEF IInv, ToldInTime
  <2> QED
    BY <2>1 DEF EngineAgrees, IdleAtPrompt, CommandsAreMeasured, ExitIsKnown, Agrees
<1> QED
  BY <1>1, HooksInductive, PTL
=============================================================================
