------------------------------ MODULE Activity ------------------------------
(***************************************************************************)
(* ActivityEngine of shellbell-local/src/activity.rs: one state machine    *)
(* per shell session, driven by the shell hooks, by the user's commands    *)
(* and by the daemon's 100 ms timer.  One action per engine method.        *)
(*                                                                         *)
(* The engine is handed a monotonic and a wall clock; while the daemon     *)
(* stays up this module lets them agree (Daemon separates them).  The      *)
(* variables prompt, foreground, rings and arming are not in the program:  *)
(* they observe the shell from outside, so that the properties can compare *)
(* what the engine computed with what really happened.                     *)
(***************************************************************************)
EXTENDS Session

CONSTANTS SessionId,        (* session UUIDs, one per interactive shell     *)
          MaxTime,          (* bound: last instant of the clock             *)
          Minimum,          (* values of minimum_active a user asks for     *)
          Idle,             (* values of idle_for a user asks for           *)
          StaleAfter        (* SESSION_STALE_AFTER                          *)

ASSUME ActivityAssumption ==
  /\ MaxTime \in Nat
  /\ Minimum \subseteq Nat
  /\ Idle \subseteq Nat
  /\ StaleAfter \in Nat

VARIABLES
  sessions,      (* ActivityEngine.sessions, None where there is no entry   *)
  now,           (* the clock the daemon passes in                          *)
  begun,         (* the burst UUIDs drawn so far; Burst bounds their number *)
  rings,         (* observer: rings the engine asked for, per burst         *)
  prompt,        (* observer: since when the shell has been at its prompt,  *)
                 (* None while a foreground command runs                    *)
  foreground,    (* observer: foreground time since the burst began         *)
  arming         (* observer: the last arming (once or not) of a session,   *)
                 (* and how many rings its bursts asked for since           *)

vars     == <<sessions, now, begun, rings, prompt, foreground, arming>>

Registered(i) == sessions[i] # None
HasBurst(i)   == Registered(i) /\ sessions[i].burst # None

(* Uuid::new_v4 draws a burst UUID never drawn before. *)
Fresh == Burst \ begun

Init ==
  /\ sessions = [i \in SessionId |-> None]
  /\ now = 0
  /\ begun = {}
  /\ rings = [b \in Burst |-> 0]
  /\ prompt = [i \in SessionId |-> None]
  /\ foreground = [i \in SessionId |-> 0]
  /\ arming = [i \in SessionId |-> [once |-> FALSE, rings |-> 0]]

-----------------------------------------------------------------------------
(* session_open: a second open of a known session keeps its state.         *)
SessionOpen(i) ==
  /\ \E minimum \in Minimum, idle \in Idle :
       sessions' = [sessions EXCEPT ![i] =
                      IF Registered(i) THEN Touch(sessions[i], now)
                      ELSE NewSession(minimum, idle, now)]
  /\ UNCHANGED <<now, begun, rings, prompt, foreground, arming>>

SessionClose(i) ==
  /\ Registered(i)
  /\ sessions' = [sessions EXCEPT ![i] = None]
  /\ UNCHANGED <<now, begun, rings, prompt, foreground, arming>>

(* arm_and_start, the only way the daemon arms.  The command that armed    *)
(* is itself running, so the shell is not at its prompt.                   *)
ArmSession(i, mode, minimum, idle) ==
  /\ Registered(i)
  /\ \E b \in Fresh :
       /\ sessions' = [sessions EXCEPT ![i] =
                         ArmAndStart(@, mode, minimum, idle, b, now, now)]
       /\ begun' = begun \cup {b}
  /\ prompt' = [prompt EXCEPT ![i] = None]
  /\ foreground' = [foreground EXCEPT ![i] = 0]
  /\ arming' = [arming EXCEPT ![i] = [once |-> (mode = "once"), rings |-> 0]]
  /\ UNCHANGED <<now, rings>>

DisarmSession(i) ==
  /\ Registered(i)
  /\ sessions' = [sessions EXCEPT ![i] = Disarm(@, now)]
  /\ UNCHANGED <<now, begun, rings, prompt, foreground, arming>>

LabelSession(i) ==
  /\ Registered(i)
  /\ sessions' = [sessions EXCEPT ![i] = SetLabel(@, now)]
  /\ UNCHANGED <<now, begun, rings, prompt, foreground, arming>>

HandleCommandStart(i) ==
  /\ Registered(i)
  /\ IF StartsBurst(sessions[i])
     THEN \E b \in Fresh :
            /\ sessions' = [sessions EXCEPT ![i] = CommandStart(@, b, now, now)]
            /\ begun' = begun \cup {b}
     ELSE /\ sessions' = [sessions EXCEPT ![i] = CommandStart(@, None, now, now)]
          /\ UNCHANGED begun
  /\ prompt' = [prompt EXCEPT ![i] = None]
  /\ foreground' = [foreground EXCEPT ![i] = IF StartsBurst(sessions[i]) THEN 0 ELSE @]
  /\ UNCHANGED <<now, rings, arming>>

HandlePromptReady(i) ==
  /\ Registered(i)
  /\ sessions' = [sessions EXCEPT ![i] = PromptReady(@, now, now)]
  /\ prompt' = [prompt EXCEPT ![i] = IF @ = None THEN now ELSE @]
  /\ UNCHANGED <<now, begun, rings, foreground, arming>>

(* manual_ring.  Without a session, or outside a burst, it changes nothing *)
(* here but last_seen: the daemon queues a ring that belongs to no burst.  *)
HandleManualRing(i) ==
  /\ Registered(i)
  /\ sessions' = [sessions EXCEPT ![i] = ManualRing(@, now)]
  /\ IF Associated(sessions[i]) /\ ~Suppressed(sessions[i])
     THEN /\ rings' = [rings EXCEPT ![sessions[i].burst] = @ + 1]
          /\ arming' = [arming EXCEPT ![i].rings = @ + 1]
     ELSE UNCHANGED <<rings, arming>>
  /\ UNCHANGED <<now, begun, prompt, foreground>>

DueSessions == {i \in SessionId : Registered(i) /\ Due(sessions[i], now)}
Ringing     == {i \in DueSessions : RingsAutomatically(sessions[i])}

(* tick: every session that is due settles in one call.                    *)
Tick ==
  /\ DueSessions # {}
  /\ sessions' = [i \in SessionId |->
                    IF i \in DueSessions THEN Settle(sessions[i], now)
                    ELSE sessions[i]]
  /\ rings' = [b \in Burst |->
                 rings[b] + IF \E i \in Ringing : sessions[i].burst = b
                            THEN 1 ELSE 0]
  /\ arming' = [i \in SessionId |->
                  IF i \in Ringing
                  THEN [arming[i] EXCEPT !.rings = @ + 1] ELSE arming[i]]
  /\ UNCHANGED <<now, begun, prompt, foreground>>

(* cleanup_stale with the daemon's cutoff. *)
CleanupStale ==
  /\ \E i \in SessionId : Registered(i) /\ Stale(sessions[i], now - StaleAfter)
  /\ sessions' = [i \in SessionId |->
                    IF Registered(i) /\ Stale(sessions[i], now - StaleAfter)
                    THEN None ELSE sessions[i]]
  /\ UNCHANGED <<now, begun, rings, prompt, foreground, arming>>

(* Time passes; the observer counts it for bursts whose command runs.      *)
PassTime ==
  /\ now < MaxTime
  /\ now' = now + 1
  /\ foreground' = [i \in SessionId |->
                      IF HasBurst(i) /\ prompt[i] = None
                      THEN foreground[i] + 1 ELSE foreground[i]]
  /\ UNCHANGED <<sessions, begun, rings, prompt, arming>>

Request(i) ==
  \/ SessionOpen(i)
  \/ SessionClose(i)
  \/ \E mode \in {"persistent", "once"}, minimum \in Minimum, idle \in Idle :
       ArmSession(i, mode, minimum, idle)
  \/ DisarmSession(i)
  \/ LabelSession(i)
  \/ HandleCommandStart(i)
  \/ HandlePromptReady(i)
  \/ HandleManualRing(i)

Next ==
  \/ \E i \in SessionId : Request(i)
  \/ Tick
  \/ CleanupStale
  \/ PassTime

Spec == Init /\ [][Next]_vars

-----------------------------------------------------------------------------
(* Types of the program's state and of the observers. *)
TypeOK ==
  /\ sessions \in [SessionId -> SessionRecord \cup {None}]
  /\ now \in Nat
  /\ begun \in SUBSET Burst
  /\ rings \in [Burst -> Nat]
  /\ prompt \in [SessionId -> Nat \cup {None}]
  /\ foreground \in [SessionId -> Nat]
  /\ arming \in [SessionId -> [once : BOOLEAN, rings : Nat]]

(* Mode, state, burst id, running timer and deadline always fit together:  *)
(* no deadline survives a new command, no burst survives off, no running   *)
(* timer survives the prompt (reset_burst, reset_after_burst).             *)
SessionsCoherent == \A i \in SessionId : Registered(i) => Coherent(sessions[i])

(* A burst asks for at most one ring, whether a user's `ring` or the timer *)
(* comes first and however often hooks repeat (burst_notified).            *)
OneRingPerBurst == \A b \in Burst : rings[b] <= 1

(* `shellbell once` is one ring: after an arming in once mode its bursts   *)
(* ask for at most one ring together, until the session is armed again.    *)
OneRingPerOnce == \A i \in SessionId : arming[i].once => arming[i].rings <= 1

(* The time a burst is credited with is the time its foreground commands   *)
(* really ran: duplicate command_start or prompt_ready neither restart nor *)
(* double-count it, and a resumed burst keeps what it had.                 *)
CreditedTimeIsForegroundTime == \A i \in SessionId :
  HasBurst(i) => DisplayedActive(sessions[i], now) = foreground[i]

(* The settling deadline is the idle window counted from the moment the    *)
(* prompt came back: a duplicate prompt_ready does not extend it, and no   *)
(* other request (label, manual ring, session_open) moves it.              *)
DeadlineCountsFromPrompt == \A i \in SessionId :
  Registered(i) /\ sessions[i].state = "settling" =>
    /\ prompt[i] # None
    /\ sessions[i].deadline = prompt[i] + sessions[i].idle

RungBy(i) == HasBurst(i) /\ rings'[sessions[i].burst] > rings[sessions[i].burst]

(* The timer rings only for a session that is still armed, that has been   *)
(* at its prompt for the whole idle window and whose commands ran at least *)
(* minimum_active since the burst began.                                   *)
AutomaticRingIsEarned ==
  [][Tick => \A i \in SessionId : RungBy(i) =>
       /\ sessions[i].mode # "off"
       /\ prompt[i] # None
       /\ now - prompt[i] >= sessions[i].idle
       /\ foreground[i] >= sessions[i].minimum]_vars

(* The strengthening that makes the safety invariants inductive.  Burst    *)
(* UUIDs in use were drawn and are not shared; burst_notified is set for   *)
(* exactly the open bursts that have rung; a session still in once mode    *)
(* has not rung since it was armed; the timers agree with the observers.   *)
BurstsDistinct ==
  /\ \A i \in SessionId : HasBurst(i) => sessions[i].burst \in begun
  /\ \A i, j \in SessionId :
       HasBurst(i) /\ HasBurst(j) /\ sessions[i].burst = sessions[j].burst => i = j

RingsRecorded ==
  /\ OneRingPerBurst
  /\ \A b \in Burst \ begun : rings[b] = 0
  /\ \A i \in SessionId :
       HasBurst(i) /\ ~sessions[i].notified => rings[sessions[i].burst] = 0

OnceUnspent ==
  /\ OneRingPerOnce
  /\ \A i \in SessionId : Registered(i) =>
       /\ sessions[i].mode = "once" => arming[i].rings = 0
       /\ sessions[i].mode = "persistent" => ~arming[i].once

TimersAgree ==
  /\ CreditedTimeIsForegroundTime
  /\ DeadlineCountsFromPrompt
  /\ \A i \in SessionId : HasBurst(i) /\ sessions[i].state = "active" =>
       sessions[i].started <= now /\ prompt[i] = None

IInv == TypeOK /\ SessionsCoherent /\ BurstsDistinct /\ RingsRecorded
          /\ OnceUnspent /\ TimersAgree

(* The engine implements BurstBell: bursts begin once, ring at most once   *)
(* while open, never after they are over.                                  *)
OpenBursts == {sessions[i].burst : i \in {j \in SessionId : HasBurst(j)}}

Bell == INSTANCE BurstBell WITH open <- OpenBursts

BellSpec == Bell!Spec
=============================================================================
