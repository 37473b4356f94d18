------------------------------ MODULE Session ------------------------------
(***************************************************************************)
(* The per-shell record of the activity monitor and the pure functions     *)
(* activity.rs applies to it.  Every operator takes a session record and   *)
(* returns the new one (or a Boolean the caller branches on); Activity and *)
(* Daemon build their actions from these operators.                        *)
(*                                                                         *)
(* Abstracted: tty, shell type, label and targets (they never guard a      *)
(* transition), and saturation of u64/i64 at their upper limit (a clock in *)
(* milliseconds does not reach it).  Saturation at zero is kept.           *)
(*                                                                         *)
(* Operators named Mut_... are plausible mistakes kept next to the         *)
(* operator they would replace, to show that a property notices them.      *)
(***************************************************************************)
EXTENDS Integers

CONSTANTS None,      (* Rust's Option::None; also an unregistered session   *)
          Burst      (* the burst UUIDs that can be drawn                   *)

Mode  == {"off", "persistent", "once"}

(* SessionState::Notified is declared by the code but never assigned.      *)
State == {"disarmed", "armed", "active", "settling"}

SessionRecord ==
  [mode : Mode, state : State, burst : Burst \cup {None}, acc : Nat,
   started : Nat \cup {None}, deadline : Nat \cup {None},
   deadlineWall : Int \cup {None}, notified : BOOLEAN,
   minimum : Nat, idle : Nat, lastSeen : Int]

ASSUME NoneAssumption ==
  /\ None \notin Int            (* an absent time is not a time             *)
  /\ None \notin Burst          (* an absent burst is not a burst           *)
  /\ None \notin SessionRecord  (* an unregistered session is not a session *)

(* u64::saturating_sub *)
Monus(a, b) == IF a > b THEN a - b ELSE 0

-----------------------------------------------------------------------------
NewSession(minimum, idle, wall) ==
  [mode |-> "off", state |-> "disarmed", burst |-> None, acc |-> 0,
   started |-> None, deadline |-> None, deadlineWall |-> None,
   notified |-> FALSE, minimum |-> minimum, idle |-> idle, lastSeen |-> wall]

Touch(s, wall) == [s EXCEPT !.lastSeen = wall]

DisplayedActive(s, mono) ==
  s.acc + (IF s.started = None THEN 0 ELSE Monus(mono, s.started))

Mut_ResetBurst(s) ==
  [s EXCEPT !.burst = None, !.acc = 0, !.started = None, !.deadline = None,
            !.deadlineWall = None]

ResetBurst(s) ==
  [s EXCEPT !.burst = None, !.acc = 0, !.started = None, !.deadline = None,
            !.deadlineWall = None, !.notified = FALSE]

ResetAfterBurst(s) ==
  [ResetBurst(s) EXCEPT !.state = IF s.mode = "off" THEN "disarmed" ELSE "armed"]

Arm(s, mode, minimum, idle, wall) ==
  [ResetBurst(s) EXCEPT !.mode = mode, !.minimum = minimum, !.idle = idle,
                        !.lastSeen = wall, !.state = "armed"]

Disarm(s, wall) ==
  [ResetBurst(s) EXCEPT !.mode = "off", !.state = "disarmed", !.lastSeen = wall]

SetLabel(s, wall) == Touch(s, wall)

(* command_start begins a burst (b is its fresh UUID), resumes one that is  *)
(* settling, and is a duplicate in any other state.                        *)
StartsBurst(s) == s.state = "armed"

BeginBurst(s, b, mono) ==
  [s EXCEPT !.burst = b, !.acc = 0, !.notified = FALSE, !.started = mono,
            !.state = "active"]

Mut_ResumeBurst(s, mono) == [s EXCEPT !.started = mono]

ResumeBurst(s, mono) ==
  [s EXCEPT !.deadline = None, !.deadlineWall = None, !.started = mono,
            !.state = "active"]

Mut_CommandStart(s, b, mono, wall) ==
  CASE s.state = "armed" -> BeginBurst(Touch(s, wall), b, mono)
    [] s.state \in {"active", "settling"} -> ResumeBurst(Touch(s, wall), mono)
    [] OTHER -> Touch(s, wall)

CommandStart(s, b, mono, wall) ==
  CASE s.state = "armed"    -> BeginBurst(Touch(s, wall), b, mono)
    [] s.state = "settling" -> ResumeBurst(Touch(s, wall), mono)
    [] OTHER                -> Touch(s, wall)

(* arm_and_start: what shellbell on / once do; the burst starts at once.   *)
ArmAndStart(s, mode, minimum, idle, b, mono, wall) ==
  CommandStart(Arm(s, mode, minimum, idle, wall), b, mono, wall)

(* prompt_ready credits the time of the command that returned and starts   *)
(* the idle window; outside ACTIVE it is a duplicate.                      *)
SettleFrom(s, mono, wall) ==
  [s EXCEPT !.acc = DisplayedActive(s, mono), !.started = None,
            !.state = "settling", !.deadline = mono + s.idle,
            !.deadlineWall = wall + s.idle]

Mut_PromptReady(s, mono, wall) ==
  IF s.state \in {"active", "settling"}
  THEN SettleFrom(Touch(s, wall), mono, wall) ELSE Touch(s, wall)

PromptReady(s, mono, wall) ==
  IF s.state = "active"
  THEN SettleFrom(Touch(s, wall), mono, wall) ELSE Touch(s, wall)

-----------------------------------------------------------------------------
(* manual_ring of a registered session: whether the ring belongs to the    *)
(* running burst, whether it is suppressed, and what it leaves behind.     *)
Associated(s) == s.burst # None /\ s.state \in {"active", "settling"}

Mut_Suppressed(s) == Associated(s) /\ s.notified /\ s.mode = "once"

Suppressed(s) == Associated(s) /\ s.notified

Mut_ManualRingState(s, wall) ==
  IF ~Associated(s) \/ s.notified THEN Touch(s, wall)
  ELSE [s EXCEPT !.lastSeen = wall, !.notified = TRUE, !.state = "notified"]

ManualRing(s, wall) ==
  IF ~Associated(s) \/ s.notified THEN Touch(s, wall)
  ELSE IF s.mode = "once" THEN Disarm(s, wall)
  ELSE [s EXCEPT !.lastSeen = wall, !.notified = TRUE]

(* tick: a session whose idle window is over, whether it rings, and the    *)
(* reset that follows in either case.                                      *)
Due(s, mono) == s.state = "settling" /\ s.deadline # None /\ s.deadline <= mono

RingsAutomatically(s) == s.acc >= s.minimum /\ ~s.notified

Mut_SettleKeepsOnce(s, wall) == ResetAfterBurst(Touch(s, wall))

Settle(s, wall) ==
  ResetAfterBurst(
    [s EXCEPT !.lastSeen = wall,
              !.mode = IF RingsAutomatically(s) /\ s.mode = "once"
                       THEN "off" ELSE s.mode])

Stale(s, cutoff) == s.lastSeen < cutoff

-----------------------------------------------------------------------------
(* What serde writes of a session, and recover_live_timing on what it      *)
(* reads back.                                                             *)
Persisted(s) == [s EXCEPT !.started = None, !.deadline = None]

Mut_RecoverUnsaturated(s, mono, wall) ==
  LET p == Persisted(s) IN
  CASE s.state = "active"   -> ResetAfterBurst(p)
    [] s.state = "settling" -> [p EXCEPT !.deadline = mono + s.deadlineWall - wall]
    [] OTHER -> p

Mut_RecoverAtOnce(s, mono, wall) ==
  LET p == Persisted(s) IN
  CASE s.state = "active"   -> ResetAfterBurst(p)
    [] s.state = "settling" -> [p EXCEPT !.deadline = mono]
    [] OTHER -> p

RecoverLiveTiming(s, mono, wall) ==
  LET p == Persisted(s) IN
  CASE s.state = "active" -> ResetAfterBurst(p)
    [] s.state = "settling" ->
         IF s.deadlineWall = None THEN ResetAfterBurst(p)
         ELSE [p EXCEPT !.deadline = mono + Monus(s.deadlineWall, wall)]
    [] OTHER -> p

-----------------------------------------------------------------------------
(* The shape every session reached through these functions has: which      *)
(* fields are set in which state.                                          *)
Coherent(s) ==
  /\ s.state = "disarmed" <=> s.mode = "off"
  /\ s.started # None <=> s.state = "active"
  /\ s.deadline # None <=> s.state = "settling"
  /\ s.deadlineWall # None <=> s.state = "settling"
  /\ s.burst # None <=> s.state \in {"active", "settling"}
  /\ s.burst = None => s.acc = 0 /\ ~s.notified
  /\ s.notified => s.mode = "persistent"
=============================================================================
