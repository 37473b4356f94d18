--------------------------- MODULE DaemonStartup ---------------------------
(***************************************************************************)
(* Which daemon serves: run_daemon_until and prepare_socket of             *)
(* shellbell-local/src/daemon.rs, started by run_hook and ensure_daemon of *)
(* shellbell-cli, or by the service manager.                               *)
(*                                                                         *)
(* The socket file is the only lock.  A starter looks for the file, pings, *)
(* removes it and binds in separate system calls; it has loaded and saved  *)
(* the sessions before.  A daemon that waits for the relay accepts nothing *)
(* and answers no ping.  A daemon whose file was removed goes on with its  *)
(* timers and deliveries.  The sessions are one settling burst, which a    *)
(* daemon rings once unless its copy says that it has been notified.       *)
(* Its names are its own, so that ShellHook can be extended beside it.     *)
(***************************************************************************)
EXTENDS Naturals, FiniteSets

CONSTANTS Nothing,    (* no process, no file, no sessions in memory           *)
          Process,    (* what may run `shellbell __daemon`                    *)
          Service,    (* whether the service manager runs a daemon too        *)
          MaxStops,   (* bound: orderly stops                                 *)
          MaxKills    (* bound: kills, and stops whose save fails             *)

ASSUME DaemonStartupAssumption ==
  /\ Nothing \notin Process \cup {"settling", "notified"} /\ Service \in BOOLEAN
  /\ {MaxStops, MaxKills} \subseteq Nat

VARIABLES
  pc,         (* where each process is in run_daemon_until                  *)
  unit,       (* the process of the service manager, or Nothing             *)
  socket,     (* the process that bound the socket file, if there is one    *)
  sessions,   (* the burst in table sessions                                *)
  engine,     (* the burst in each process, Nothing before it is loaded     *)
  silence,    (* observer: a starter's ping was not answered                *)
  overlap,    (* observer: two processes had loaded the sessions at a time  *)
  rings,      (* observer: events of the burst, 2 for more                  *)
  stops, kills  (* how much of the bounds is used                           *)

disk        == <<socket, sessions>>
observer    == <<silence, overlap, rings>>
bounds      == <<stops, kills>>
startupVars == <<pc, unit, disk, engine, observer, bounds>>

Starting == {"loaded", "looking", "pinging", "removing", "binding"}
Bound    == {"serving", "delivering", "stopping", "leaving"}
Servers  == {d \in Process : pc[d] \in Bound}
Answers  == socket # Nothing /\ pc[socket] = "serving"

Goto(d, l) == pc' = [pc EXCEPT ![d] = l]

End(d) == Goto(d, "gone") /\ engine' = [engine EXCEPT ![d] = Nothing]

StartupInit ==
  /\ pc = [d \in Process |-> "gone"] /\ engine = [d \in Process |-> Nothing]
  /\ unit = Nothing /\ socket = Nothing /\ sessions = "settling"
  /\ silence = FALSE /\ overlap = FALSE /\ rings = 0
  /\ stops = 0 /\ kills = 0

-----------------------------------------------------------------------------
(* Starters.                                                               *)
HookSpawns(d) ==
  /\ pc[d] = "gone" /\ ~Answers
  /\ Goto(d, "spawned") /\ unit' = IF unit = d THEN Nothing ELSE unit
  /\ UNCHANGED <<disk, engine, observer, bounds>>

(* The unit runs one process, which is started again when it has failed.   *)
UnitStarts(d) ==
  /\ Service /\ pc[d] = "gone"
  /\ unit # Nothing => pc[unit] = "gone"
  /\ Goto(d, "spawned") /\ unit' = d
  /\ UNCHANGED <<disk, engine, observer, bounds>>

Mut_Load(d) ==
  /\ pc[d] = "spawned"
  /\ Goto(d, "loaded")
  /\ UNCHANGED <<unit, disk, engine, observer, bounds>>

Load(d) ==
  /\ pc[d] = "spawned"
  /\ engine' = [engine EXCEPT ![d] = sessions]
  /\ Goto(d, "loaded")
  /\ overlap' = (overlap \/ \E e \in Process : engine[e] # Nothing)
  /\ UNCHANGED <<unit, disk, silence, rings, bounds>>

SaveRecovered(d) ==
  /\ pc[d] = "loaded"
  /\ sessions' = engine[d]
  /\ Goto(d, "looking")
  /\ UNCHANGED <<unit, socket, engine, observer, bounds>>

(* prepare_socket: path.exists, ...                                        *)
Look(d) ==
  /\ pc[d] = "looking"
  /\ Goto(d, IF socket = Nothing THEN "binding" ELSE "pinging")
  /\ UNCHANGED <<unit, disk, engine, observer, bounds>>

Mut_Ping(d) ==
  /\ pc[d] = "pinging"
  /\ IF socket # Nothing
     THEN End(d) /\ UNCHANGED silence
     ELSE Goto(d, "removing") /\ silence' = TRUE /\ UNCHANGED engine
  /\ UNCHANGED <<unit, disk, overlap, rings, bounds>>

(* ... the ping, ...                                                       *)
Ping(d) ==
  /\ pc[d] = "pinging"
  /\ IF Answers
     THEN End(d) /\ UNCHANGED silence
     ELSE Goto(d, "removing") /\ silence' = TRUE /\ UNCHANGED engine
  /\ UNCHANGED <<unit, disk, overlap, rings, bounds>>

(* ... and remove_file, which fails when the file is gone.                 *)
Remove(d) ==
  /\ pc[d] = "removing"
  /\ IF socket = Nothing THEN End(d) ELSE Goto(d, "binding") /\ UNCHANGED engine
  /\ socket' = Nothing
  /\ UNCHANGED <<unit, sessions, observer, bounds>>

Mut_Bind(d) ==
  /\ pc[d] = "binding"
  /\ socket' = d /\ Goto(d, "serving")
  /\ UNCHANGED <<unit, sessions, engine, observer, bounds>>

(* bind fails when there is a file.                                        *)
Bind(d) ==
  /\ pc[d] = "binding"
  /\ IF socket = Nothing
     THEN socket' = d /\ Goto(d, "serving") /\ UNCHANGED engine
     ELSE End(d) /\ UNCHANGED socket
  /\ UNCHANGED <<unit, sessions, observer, bounds>>

-----------------------------------------------------------------------------
(* The select loop.                                                        *)
Mut_Tick(d) ==
  /\ pc[d] = "serving" /\ engine[d] = "settling"
  /\ engine' = [engine EXCEPT ![d] = "notified"]
  /\ rings' = IF rings = 0 THEN 1 ELSE 2
  /\ UNCHANGED <<pc, unit, disk, silence, overlap, bounds>>

Tick(d) ==
  /\ pc[d] = "serving" /\ engine[d] = "settling"
  /\ engine' = [engine EXCEPT ![d] = "notified"]
  /\ sessions' = "notified"
  /\ rings' = IF rings = 0 THEN 1 ELSE 2
  /\ UNCHANGED <<pc, unit, socket, silence, overlap, bounds>>

(* A request ends in save_sessions.  One accepted before executes although *)
(* the loop waits for the relay, or the file is gone, or the loop is over. *)
HandleRequest(d) ==
  /\ pc[d] \in Bound
  /\ sessions' = engine[d]
  /\ UNCHANGED <<pc, unit, socket, engine, observer, bounds>>

BeginDelivery(d) ==
  /\ pc[d] = "serving"
  /\ Goto(d, "delivering")
  /\ UNCHANGED <<unit, disk, engine, observer, bounds>>

EndDelivery(d) ==
  /\ pc[d] = "delivering"
  /\ Goto(d, "serving")
  /\ UNCHANGED <<unit, disk, engine, observer, bounds>>

(* A signal, daemon_shutdown, or an error of the store ends the loop.      *)
Stop(d) ==
  /\ pc[d] = "serving" /\ stops < MaxStops
  /\ stops' = stops + 1
  /\ Goto(d, "stopping")
  /\ UNCHANGED <<unit, disk, engine, observer, kills>>

SaveAtStop(d) ==
  /\ pc[d] = "stopping"
  /\ sessions' = engine[d]
  /\ Goto(d, "leaving")
  /\ UNCHANGED <<unit, socket, engine, observer, bounds>>

(* The file is removed whoever has bound it.                               *)
Leave(d) ==
  /\ pc[d] = "leaving"
  /\ socket' = Nothing
  /\ End(d)
  /\ UNCHANGED <<unit, sessions, observer, bounds>>

(* Killed at any point, or a save that fails before the file is removed.   *)
Kill(d) ==
  /\ pc[d] # "gone" /\ kills < MaxKills
  /\ kills' = kills + 1
  /\ End(d)
  /\ UNCHANGED <<unit, disk, observer, stops>>

Continue(d) ==
  \/ Load(d) \/ SaveRecovered(d) \/ Look(d) \/ Ping(d) \/ Remove(d) \/ Bind(d)
  \/ EndDelivery(d) \/ SaveAtStop(d) \/ Leave(d)

StartupNext == \E d \in Process :
  \/ HookSpawns(d) \/ UnitStarts(d) \/ Continue(d) \/ Tick(d)
  \/ HandleRequest(d) \/ BeginDelivery(d) \/ Stop(d) \/ Kill(d)

StartupSpec == StartupInit /\ [][StartupNext]_startupVars

(* Processes run, the relay answers or times out, and every prompt sends a *)
(* hook that spawns a daemon if none answers.  Nobody need start the unit. *)
StartupFairSpec ==
  /\ StartupSpec
  /\ \A d \in Process : WF_startupVars(Continue(d))
  /\ WF_startupVars(\E d \in Process : HookSpawns(d))

-----------------------------------------------------------------------------
(* Types; a process has an engine from the moment it has loaded sessions.  *)
StartupTypeOK ==
  /\ pc \in [Process -> {"gone", "spawned"} \cup Starting \cup Bound]
  /\ engine \in [Process -> {"settling", "notified", Nothing}]
  /\ \A d \in Process : engine[d] # Nothing <=> pc[d] \in Starting \cup Bound
  /\ {unit, socket} \subseteq Process \cup {Nothing} /\ sessions \in {"settling", "notified"}
  /\ {silence, overlap} \subseteq BOOLEAN /\ rings \in 0 .. 2
  /\ stops \in 0 .. MaxStops /\ kills \in 0 .. MaxKills

(* However many shells start a daemon at once, only one serves, as long as *)
(* every daemon whose socket was found answered the ping.                  *)
OnlySilenceLetsTwoServe == ~silence => Cardinality(Servers) <= 1

(* Daemons that run one after the other, killed or stopped anywhere, ring  *)
(* the burst once.                                                         *)
SuccessiveDaemonsRingOnce == ~overlap => rings <= 1

(* The strengthening: while every ping was answered, no starter is about   *)
(* to remove a file, and a process that serves is the one that bound it.   *)
ServersHoldTheSocket ==
  /\ \A d \in Process : pc[d] = "removing" => silence
  /\ ~silence => \A d \in Servers : socket = d

(* While copies never overlapped there is at most one, and once the burst  *)
(* was rung neither it nor the table has it as settling.                   *)
CopiesFollowTheTable == ~overlap =>
  /\ \A d, e \in Process : engine[d] # Nothing /\ engine[e] # Nothing => d = e
  /\ rings <= 1
  /\ rings = 1 => sessions = "notified" /\ \A d \in Process : engine[d] # "settling"

StartupInv == StartupTypeOK /\ ServersHoldTheSocket /\ CopiesFollowTheTable

(* Whatever was killed, taken over or left behind, hooks find a daemon     *)
(* that answers, again and again.                                          *)
ServiceReturns == []<>Answers

(* What docs/ARCHITECTURE.md says of lazy starts: they converge.           *)
ConcurrentStartsConverge == Cardinality(Servers) <= 1
=============================================================================
