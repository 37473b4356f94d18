------------------------------- MODULE Daemon -------------------------------
(***************************************************************************)
(* The per-user daemon of shellbell-local/src/daemon.rs with its SQLite    *)
(* database (store.rs): the activity engine in memory, the persisted       *)
(* sessions, the durable ring queue, IPC requests handled concurrently     *)
(* with the select loop (timers, delivery, cleanup), store failures,       *)
(* crashes and restarts.                                                   *)
(*                                                                         *)
(* A request reads both clocks before it waits for the engine lock, and    *)
(* holds the lock over its database write, so receiving a request and      *)
(* executing it are two steps and the second is atomic.  The select loop   *)
(* awaits each branch inline: while deliver_one waits for the relay no     *)
(* timer runs, but requests received before still execute.                 *)
(***************************************************************************)
EXTENDS Session, RingQueue, SequencesExt

CONSTANTS SessionId,     (* session UUIDs                                   *)
          Event,         (* event UUIDs of rings                            *)
          Commands,      (* the IPC commands that may arrive                *)
          Minimum, Idle, (* minimum_active and idle_for of sessions         *)
          StaleAfter,    (* SESSION_STALE_AFTER                             *)
          Limits,        (* values queue_limit may have when a daemon starts*)
          MaxAge,        (* event_max_age                                   *)
          MaxTime,       (* bound: last instant of the wall clock           *)
          MaxInFlight,   (* bound: requests waiting for the engine lock     *)
          MaxCrashes,    (* bound: times the daemon stops                   *)
          MaxFailures    (* bound: failing database transactions            *)

AllCommands == {"session_open", "session_close", "command_start", "prompt_ready",
                "arm_persistent", "arm_once", "disarm", "set_label", "manual_ring"}

ASSUME DaemonAssumption ==
  /\ Commands \subseteq AllCommands
  /\ Minimum \subseteq Nat /\ Idle \subseteq Nat
  /\ Limits \subseteq Nat \ {0}
  /\ {StaleAfter, MaxAge, MaxTime, MaxInFlight, MaxCrashes, MaxFailures} \subseteq Nat
  /\ IsFiniteSet(Event)             (* UUIDs have 128 bits                   *)

VARIABLES
  up,          (* whether the daemon runs                                   *)
  engine,      (* its ActivityEngine; what it was at the stop while down    *)
  limit,       (* queue_limit of the configuration it loaded                *)
  mono, wall,  (* milliseconds since it started; the wall clock             *)
  requests,    (* requests that have read the clocks and await the lock     *)
  loop,        (* what the select loop is awaiting                          *)
  saved,       (* table sessions                                            *)
  queue,       (* table ring_queue                                          *)
  dropped,     (* local_meta dropped_events                                 *)
  alive,       (* shells whose process exists                               *)
  begun,       (* burst UUIDs drawn                                         *)
  issued,      (* observer: event UUIDs ever committed to the queue         *)
  ringOf,      (* observer: the burst each issued event rings for           *)
  delivered,   (* observer: events the daemon was told the relay accepted   *)
  uncounted,   (* observer: events deleted, their count never reached       *)
  unrung,      (* observer: bursts a failed transaction was to ring for     *)
  crashes, failures                  (* how much of the bounds is used      *)

process  == <<up, engine, limit, mono, requests, loop>>
database == <<saved, queue, dropped>>
observer == <<issued, ringOf, delivered, uncounted, unrung>>
bounds   == <<crashes, failures>>
vars     == <<process, wall, database, alive, begun, observer, bounds>>

Idling == [op |-> "none"]

Registered(i) == engine[i] # None
HasBurst(i)   == Registered(i) /\ engine[i].burst # None

PersistAll(sessions) ==
  [i \in SessionId |-> IF sessions[i] = None THEN None ELSE Persisted(sessions[i])]

Init ==
  /\ up = FALSE
  /\ engine = [i \in SessionId |-> None]
  /\ limit \in Limits
  /\ mono = 0 /\ wall = 0
  /\ requests = {} /\ loop = Idling
  /\ saved = [i \in SessionId |-> None]
  /\ queue = EmptyQueue /\ dropped = 0
  /\ alive = SessionId
  /\ begun = {}
  /\ issued = {} /\ ringOf = [e \in Event |-> None] /\ delivered = {}
  /\ uncounted = {} /\ unrung = {}
  /\ crashes = 0 /\ failures = 0

-----------------------------------------------------------------------------
(* Start: load the sessions whose shell lives and was seen recently,       *)
(* recover their timers, save them back, then serve.                       *)
Mut_Recovered(i) ==
  IF saved[i] # None /\ i \in alive /\ wall - saved[i].lastSeen <= StaleAfter
  THEN ResetAfterBurst(saved[i]) ELSE None

Recovered(i) ==
  IF saved[i] # None /\ i \in alive /\ wall - saved[i].lastSeen <= StaleAfter
  THEN RecoverLiveTiming(saved[i], 0, wall) ELSE None

Start ==
  /\ ~up
  /\ up' = TRUE
  /\ engine' = [i \in SessionId |-> Recovered(i)]
  /\ saved' = PersistAll(engine')
  /\ limit' \in Limits
  /\ mono' = 0 /\ requests' = {} /\ loop' = Idling
  /\ UNCHANGED <<wall, queue, dropped, alive, begun, observer, bounds>>

(* The process is gone; memory is kept in `engine` only to compare with    *)
(* what the next start recovers.                                           *)
Stop(newEngine) ==
  /\ up' = FALSE
  /\ engine' = newEngine
  /\ requests' = {} /\ loop' = Idling
  /\ crashes' = crashes + 1
  /\ UNCHANGED <<limit, mono>>

(* expire_old and discard_permanent delete rows and count them in two      *)
(* statements: what may be deleted and not yet counted when the loop stops.*)
Uncounted ==
  CASE loop.op = "deliver" -> {loop.event}
    [] loop.op = "none"    -> Expired(queue, wall, MaxAge)
    [] OTHER               -> {}

StopAfterDelete ==
  /\ queue' \in {queue, Without(queue, Uncounted)}
  /\ uncounted' = uncounted \cup (DOMAIN queue \ DOMAIN queue')
  /\ UNCHANGED <<dropped, issued, ringOf, delivered, unrung>>

(* A crash between two statements.                                         *)
Crash ==
  /\ up /\ crashes < MaxCrashes
  /\ Stop(engine)
  /\ StopAfterDelete
  /\ UNCHANGED <<wall, saved, alive, begun, failures>>

(* SIGTERM or daemon_shutdown: the sessions are saved once more.           *)
Shutdown ==
  /\ up /\ loop = Idling /\ crashes < MaxCrashes
  /\ Stop(engine)
  /\ saved' = PersistAll(engine)
  /\ UNCHANGED <<wall, queue, dropped, alive, begun, observer, failures>>

-----------------------------------------------------------------------------
(* IPC.  The hooks and the CLI may send any command, repeat it, or have    *)
(* given up waiting for it; the daemon sees only what it receives.         *)
Receive ==
  /\ up
  /\ Cardinality(requests) < MaxInFlight
  /\ \E command \in Commands, i \in alive :
       requests' = requests \cup
         {[command |-> command, session |-> i, mono |-> mono, wall |-> wall]}
  /\ UNCHANGED <<up, engine, limit, mono, loop, wall, database, alive, begun,
                 observer, bounds>>

(* A transaction that fails leaves the tables as they were; the engine has *)
(* been changed before.                                                    *)
StoreFails ==
  /\ failures < MaxFailures
  /\ failures' = failures + 1
  /\ UNCHANGED <<database, issued, ringOf>>

Mut_Save ==
  /\ saved' = PersistAll(engine)
  /\ UNCHANGED <<queue, dropped, issued, ringOf, unrung, failures>>

(* save_sessions: all sessions, in one transaction. *)
Save ==
  /\ \/ /\ saved' = PersistAll(engine')
        /\ UNCHANGED <<queue, dropped, issued, ringOf, failures>>
     \/ StoreFails
  /\ UNCHANGED unrung

ArmMode(command) == IF command = "arm_once" THEN "once" ELSE "persistent"

(* The engine method a request calls on a registered session.              *)
Handled(r, s, b, minimum, idle) ==
  CASE r.command \in {"arm_persistent", "arm_once"} ->
         ArmAndStart(s, ArmMode(r.command), minimum, idle, b, r.mono, r.wall)
    [] r.command = "command_start" -> CommandStart(s, b, r.mono, r.wall)
    [] r.command = "prompt_ready"  -> PromptReady(s, r.mono, r.wall)
    [] r.command = "disarm"        -> Disarm(s, r.wall)
    [] r.command = "set_label"     -> SetLabel(s, r.wall)
    [] r.command = "session_open"  -> Touch(s, r.wall)

Done(r) ==
  /\ up
  /\ requests' = requests \ {r}
  /\ UNCHANGED <<up, limit, mono, loop, wall, alive, delivered, uncounted, crashes>>

DrawsBurst(r) ==
  \/ r.command \in {"arm_persistent", "arm_once"}
  \/ r.command = "command_start" /\ StartsBurst(engine[r.session])

HandleUpdate(r) ==
  /\ r.command \notin {"session_close", "manual_ring"}
  /\ Registered(r.session)
  /\ \E minimum \in Minimum, idle \in Idle,
        b \in IF DrawsBurst(r) THEN Burst \ begun ELSE {None} :
       /\ engine' = [engine EXCEPT ![r.session] = Handled(r, @, b, minimum, idle)]
       /\ begun' = begun \cup ({b} \ {None})
  /\ Save
  /\ Done(r)

HandleOpen(r) ==
  /\ r.command = "session_open"
  /\ ~Registered(r.session)
  /\ \E minimum \in Minimum, idle \in Idle :
       engine' = [engine EXCEPT ![r.session] = NewSession(minimum, idle, r.wall)]
  /\ Save
  /\ UNCHANGED begun
  /\ Done(r)

HandleClose(r) ==
  /\ r.command = "session_close"
  /\ engine' = [engine EXCEPT ![r.session] = None]
  /\ Save
  /\ UNCHANGED begun
  /\ Done(r)

(* require_session: any other command for an unknown session is refused    *)
(* before anything is saved.                                               *)
HandleRefused(r) ==
  /\ r.command \notin {"session_open", "session_close", "manual_ring"}
  /\ ~Registered(r.session)
  /\ UNCHANGED <<engine, database, begun, issued, ringOf, unrung, failures>>
  /\ Done(r)

(* save_sessions_and_enqueue: sessions and rings in one transaction.  The  *)
(* rings are a sequence of events; burstOf says what each one rings for.   *)
Enqueue(events, burstOf, w) ==
  LET expired == Expired(queue, w, MaxAge)
      pruned  == [rows    |-> Without(queue, expired),
                  dropped |-> dropped + Cardinality(expired)]
  IN  /\ \E t \in EnqueuedAll(pruned, events, limit, w) :
           queue' = t.rows /\ dropped' = t.dropped
      /\ issued' = issued \cup ToSet(events)
      /\ ringOf' = [e \in Event |-> IF e \in ToSet(events) THEN burstOf[e] ELSE ringOf[e]]
      /\ UNCHANGED <<unrung, failures>>

Mut_SaveAndEnqueue(events, burstOf, w) ==
  /\ Enqueue(events, burstOf, w)
  /\ UNCHANGED saved

SaveAndEnqueue(events, burstOf, w) ==
  /\ Enqueue(events, burstOf, w)
  /\ saved' = PersistAll(engine')

(* manual_ring that rings: of the open burst, of no burst, or for a        *)
(* session the daemon does not know.                                       *)
HandleRing(r) ==
  LET i == r.session
      ofBurst == Registered(i) /\ Associated(engine[i])
  IN  /\ r.command = "manual_ring"
      /\ ~(Registered(i) /\ Suppressed(engine[i]))
      /\ engine' = IF Registered(i)
                   THEN [engine EXCEPT ![i] = ManualRing(@, r.wall)] ELSE engine
      /\ \/ \E e \in Event \ issued :
              SaveAndEnqueue(<<e>>, [f \in {e} |-> IF ofBurst THEN engine[i].burst ELSE None],
                             r.wall)
         \/ /\ StoreFails
            /\ unrung' = unrung \cup IF ofBurst THEN {engine[i].burst} ELSE {}
      /\ UNCHANGED begun
      /\ Done(r)

HandleSuppressedRing(r) ==
  /\ r.command = "manual_ring"
  /\ Registered(r.session) /\ Suppressed(engine[r.session])
  /\ engine' = [engine EXCEPT ![r.session] = ManualRing(@, r.wall)]
  /\ Save
  /\ UNCHANGED begun
  /\ Done(r)

Handle == \E r \in requests :
  \/ HandleUpdate(r) \/ HandleOpen(r) \/ HandleClose(r) \/ HandleRefused(r)
  \/ HandleRing(r) \/ HandleSuppressedRing(r)

-----------------------------------------------------------------------------
(* The select loop.  process_timers reads the clocks, waits for the lock,  *)
(* and ticks; the tick is saved only if it rings.  A tick finds something  *)
(* due only if a session is due when it reads the clocks, or a request     *)
(* that read them earlier gets the lock first: other ticks are left out.   *)
BeginTimers ==
  /\ up /\ loop = Idling
  /\ \/ \E i \in SessionId : Registered(i) /\ Due(engine[i], mono)
     \/ \E r \in requests : r.mono < mono
  /\ loop' = [op |-> "timers", mono |-> mono, wall |-> wall]
  /\ UNCHANGED <<up, engine, limit, mono, requests, wall, database, alive, begun,
                 observer, bounds>>

DueSessions(m) == {i \in SessionId : Registered(i) /\ Due(engine[i], m)}
Ringing(m)     == {i \in DueSessions(m) : RingsAutomatically(engine[i])}

Tick ==
  [i \in SessionId |-> IF i \in DueSessions(loop.mono)
                       THEN Settle(engine[i], loop.wall) ELSE engine[i]]

(* A failing transaction breaks the loop: the daemon saves the sessions,   *)
(* if it can, and exits.                                                   *)
FatalExit ==
  /\ Stop(engine')
  /\ saved' \in {saved, PersistAll(engine')}

ProcessTimers ==
  /\ loop.op = "timers"
  /\ engine' = Tick
  /\ IF Ringing(loop.mono) = {}
     THEN UNCHANGED <<database, issued, ringOf, unrung, failures>>
     ELSE LET bursts == {engine[i].burst : i \in Ringing(loop.mono)}
          IN  \E E \in kSubset(Cardinality(bursts), Event \ issued) :
              \E events \in SetToSeqs(E), burstOf \in Bijection(E, bursts) :
                 SaveAndEnqueue(events, burstOf, loop.wall)
  /\ loop' = Idling
  /\ UNCHANGED <<up, limit, mono, requests, wall, alive, begun, delivered, uncounted,
                 crashes>>

ProcessTimersFails ==
  /\ loop.op = "timers"
  /\ Ringing(loop.mono) # {}
  /\ failures < MaxFailures /\ crashes < MaxCrashes
  /\ failures' = failures + 1
  /\ engine' = Tick
  /\ FatalExit
  /\ UNCHANGED <<wall, queue, dropped, alive, begun, observer>>

(* deliver_one: expire, take the oldest due row and submit it; the loop    *)
(* waits for the relay before it does anything else.  The delete, its      *)
(* count and the selection are one step: a request that runs between them  *)
(* might as well come before, its transaction expires the same rows.       *)
ExpireOld ==
  /\ queue' = Without(queue, Expired(queue, wall, MaxAge))
  /\ dropped' = dropped + Cardinality(Expired(queue, wall, MaxAge))

BeginDelivery ==
  /\ up /\ loop = Idling
  /\ DOMAIN queue # {}
  /\ ExpireOld
  /\ LET due == NextDue(queue', wall)
     IN  IF due = {} THEN UNCHANGED loop
         ELSE \E e \in due : loop' = [op |-> "deliver", event |-> e, wall |-> wall,
                                      attempts |-> queue[e].attempts]
  /\ UNCHANGED <<up, engine, limit, mono, requests, wall, saved, alive, begun,
                 observer, bounds>>

Answered ==
  /\ loop.op = "deliver"
  /\ loop' = Idling
  /\ UNCHANGED <<up, engine, limit, mono, requests, wall, saved, alive, begun,
                 issued, ringOf, uncounted, unrung, bounds>>

MarkDelivered ==
  /\ Answered
  /\ queue' = Without(queue, {loop.event})
  /\ delivered' = delivered \cup {loop.event}
  /\ UNCHANGED dropped

(* discard_permanent counts a drop whether or not the row still exists.    *)
DiscardPermanent ==
  /\ Answered
  /\ queue' = Without(queue, {loop.event})
  /\ dropped' = dropped + 1
  /\ UNCHANGED delivered

RefuseAuthorization ==
  /\ Answered
  /\ queue' = MarkAuthorizationFailure(queue, loop.event)
  /\ UNCHANGED <<dropped, delivered>>

(* The relay may have accepted the ring although its answer was lost.      *)
RetryLater ==
  /\ Answered
  /\ \E delay \in RetryDelay(loop.attempts) :
       queue' = MarkRetry(queue, loop.event, loop.wall + delay)
  /\ UNCHANGED <<dropped, delivered>>

(* cleanup_sessions: stale sessions and those of dead shells.              *)
Forgotten == {i \in SessionId : Registered(i) /\
                (Stale(engine[i], wall - StaleAfter) \/ i \notin alive)}

Kept == [i \in SessionId |-> IF i \in Forgotten THEN None ELSE engine[i]]

Cleanup ==
  /\ up /\ loop = Idling
  /\ Forgotten # {} \/ Expired(queue, wall, MaxAge) # {}
  /\ engine' = Kept
  /\ saved' = IF Forgotten # {} THEN PersistAll(engine') ELSE saved
  /\ ExpireOld
  /\ UNCHANGED <<up, limit, mono, requests, loop, wall, alive, begun, observer, bounds>>

(* A statement of deliver_one or cleanup_sessions fails, which is fatal.   *)
LoopFails ==
  /\ up /\ loop.op # "timers"
  /\ failures < MaxFailures /\ crashes < MaxCrashes
  /\ failures' = failures + 1
  /\ engine' \in {engine, IF loop = Idling THEN Kept ELSE engine}
  /\ StopAfterDelete
  /\ FatalExit
  /\ UNCHANGED <<wall, alive, begun>>

-----------------------------------------------------------------------------
(* The environment: time, and shells that end without a session_close.     *)
PassTime ==
  /\ wall < MaxTime
  /\ wall' = wall + 1
  /\ mono' = IF up THEN mono + 1 ELSE mono
  /\ UNCHANGED <<up, engine, limit, requests, loop, database, alive, begun,
                 observer, bounds>>

ShellExit ==
  /\ \E i \in alive : alive' = alive \ {i}
  /\ UNCHANGED <<process, wall, database, begun, observer, bounds>>

Deliver == MarkDelivered \/ DiscardPermanent \/ RefuseAuthorization \/ RetryLater

Next ==
  \/ Start \/ Crash \/ Shutdown
  \/ Receive \/ Handle
  \/ BeginTimers \/ ProcessTimers \/ ProcessTimersFails
  \/ BeginDelivery \/ Deliver
  \/ Cleanup \/ LoopFails
  \/ PassTime \/ ShellExit

Spec == Init /\ [][Next]_vars

(* The supervisor or the next hook starts a daemon, its loop runs, and     *)
(* time passes.  Nothing forces a request to come or a shell to end.       *)
FairSpec ==
  /\ Spec
  /\ WF_vars(Start) /\ WF_vars(Handle)
  /\ WF_vars(BeginTimers) /\ WF_vars(ProcessTimers) /\ WF_vars(Deliver)
  /\ WF_vars(PassTime)

-----------------------------------------------------------------------------
RequestRecord ==
  [command : AllCommands, session : SessionId, mono : Nat, wall : Nat]

LoopRecord ==
  {Idling} \cup [op : {"timers"}, mono : Nat, wall : Nat]
    \cup [op : {"deliver"}, event : Event, wall : Nat, attempts : Nat]

(* Types of memory, tables and observers.                                  *)
TypeOK ==
  /\ up \in BOOLEAN
  /\ engine \in [SessionId -> SessionRecord \cup {None}]
  /\ limit \in Limits
  /\ mono \in Nat /\ wall \in Nat
  /\ requests \in SUBSET RequestRecord
  /\ loop \in LoopRecord
  /\ saved \in [SessionId -> SessionRecord \cup {None}]
  /\ DOMAIN queue \subseteq Event /\ \A e \in DOMAIN queue : queue[e] \in Row
  /\ dropped \in Nat
  /\ alive \in SUBSET SessionId
  /\ begun \in SUBSET Burst
  /\ issued \in SUBSET Event /\ delivered \in SUBSET Event
  /\ uncounted \in SUBSET Event /\ unrung \in SUBSET Burst
  /\ ringOf \in [Event -> Burst \cup {None}]
  /\ crashes \in Nat /\ failures \in Nat

(* While no transaction fails, the database lags memory only by bursts     *)
(* that process_timers reset without a ring: such a session is still       *)
(* settling in the table and armed, in the same mode, in memory; also when *)
(* the memory is gone with its process.                                    *)
OnlySilentResetsAreUnsaved == failures = 0 => \A i \in SessionId :
  \/ engine[i] = None /\ saved[i] = None
  \/ Registered(i) /\ saved[i] = Persisted(engine[i])
  \/ /\ Registered(i) /\ saved[i] # None
     /\ saved[i].state = "settling" /\ engine[i].state = "armed"
     /\ engine[i].mode = saved[i].mode

(* A burst is marked as notified only if an event was committed for it, as *)
(* LOCAL_IPC.md:48 and ARCHITECTURE.md:43 have it (what it suppresses is a *)
(* duplicate), or if the transaction of its own manual ring failed: no     *)
(* stop, restart, racing request or failure of another write marks it.     *)
OnlyFailuresSuppress == \A i \in SessionId :
  Registered(i) /\ engine[i].notified =>
    \/ \E e \in issued : ringOf[e] = engine[i].burst
    \/ engine[i].burst \in unrung

(* Every ring that left the queue without being accepted by the relay is   *)
(* in dropped_events, evictions inside a transaction and losses of earlier *)
(* daemons included, except those a crash or a failing statement caught    *)
(* between the delete and the count of expire_old or discard_permanent.    *)
LossesAreCounted ==
  Cardinality(issued \ (DOMAIN queue \cup delivered \cup uncounted)) <= dropped

(* Restart.  A recent session of a live shell keeps its mode; a settling   *)
(* burst resumes with its credit, flag and wall-clock deadline; an active  *)
(* one is discarded and never completed (ARCHITECTURE.md:48).              *)
RestartKeepsSessions ==
  [][Start => \A i \in alive :
       Registered(i) /\ failures = 0 /\ wall - saved[i].lastSeen <= StaleAfter =>
         /\ Registered(i)'
         /\ engine'[i].mode = engine[i].mode
         /\ engine[i].state = "settling" => Persisted(engine'[i]) = Persisted(engine[i])
         /\ engine[i].state = "active" => engine'[i].state = "armed"]_vars

(* An automatic ring never comes before the settling deadline the prompt   *)
(* set on the wall clock, also when the daemon restarted in between.       *)
NoEarlyRingAcrossRestart ==
  [][ProcessTimers => \A i \in Ringing(loop.mono) :
       loop.wall >= engine[i].deadlineWall]_vars

(* A settling burst that qualifies is rung for, restarts included, unless  *)
(* it is resumed, its session switched off or forgotten.                   *)
SettledBurstIsQueued == \A i \in SessionId : \A b \in Burst :
  (/\ saved[i] # None
   /\ saved[i].burst = b
   /\ saved[i].state = "settling"
   /\ saved[i].acc >= saved[i].minimum
   /\ saved[i].deadlineWall <= MaxTime)
  ~> \/ \E e \in issued : ringOf[e] = b
     \/ saved[i] = None
     \/ saved[i].state = "active"
     \/ saved[i].mode = "off"

(* What outlives the process.  A burst is open as long as memory or the    *)
(* table knows it, and has rung as often as events were committed for it.  *)
Knows(S, b) == \E i \in SessionId : S[i] # None /\ S[i].burst = b

Open == {b \in begun : Knows(engine, b) \/ Knows(saved, b)}

RungFor(b) == {e \in issued : ringOf[e] = b}

(* The daemon and its database implement BurstBell: through crashes,       *)
(* restarts, failing transactions and requests that race the timer, a      *)
(* burst rings at most once, only while it is open, and one that memory    *)
(* and table have forgotten is over for good.                              *)
Bell == INSTANCE BurstBell
  WITH open <- Open, rings <- [b \in Burst |-> Cardinality(RungFor(b))]

DurableBell == Bell!Spec

-----------------------------------------------------------------------------
(* The strengthening.  Sessions in memory are coherent; the table holds    *)
(* coherent sessions without the live times serde skips.                   *)
Revived(p) ==
  [p EXCEPT !.started  = IF p.state = "active" THEN 0 ELSE None,
            !.deadline = IF p.state = "settling" THEN 0 ELSE None]

CoherentInMemory(S) == \A i \in SessionId : S[i] # None => Coherent(S[i])

CoherentOnDisk(S) == \A i \in SessionId : S[i] # None =>
  Coherent(Revived(S[i])) /\ S[i] = Persisted(Revived(S[i]))

(* A burst is drawn once and belongs to one session; as long as it has not *)
(* been notified no event was committed for it.                            *)
Owned(S, drawn, committed, rings) == \A i \in SessionId : S[i] # None =>
  /\ S[i].burst \in drawn \cup {None}
  /\ \A j \in SessionId :
       S[j] # None /\ S[i].burst = S[j].burst /\ S[i].burst # None => i = j
  /\ S[i].burst # None /\ ~S[i].notified => \A e \in committed : rings[e] # S[i].burst

BurstsOwned ==
  /\ Owned(engine, begun, issued, ringOf)
  /\ Owned(saved, begun, issued, ringOf)
  /\ \A e \in issued : ringOf[e] \in begun \cup {None}

(* At most one event is committed for a burst.                             *)
OneEventPerBurst == \A e, f \in issued :
  e # f /\ ringOf[e] = ringOf[f] => ringOf[e] = None

(* A burst that was notified has an event or its transaction failed, in    *)
(* memory and in the table.                                                *)
Accounted(S, committed, rings, spoiled) == \A i \in SessionId :
  S[i] # None /\ S[i].notified =>
    S[i].burst \in spoiled \/ \E e \in committed : rings[e] = S[i].burst

SuppressionAccounted ==
  Accounted(engine, issued, ringOf, unrung) /\ Accounted(saved, issued, ringOf, unrung)

(* Whoever has read the clocks has read both in the same instant of this   *)
(* daemon's life, and no settling deadline is earlier than on the wall.    *)
ClocksAgree ==
  /\ \A r \in requests : up /\ r.wall - r.mono = wall - mono
  /\ loop.op = "timers" => up /\ loop.wall - loop.mono = wall - mono
  /\ up => \A i \in SessionId : Registered(i) /\ engine[i].state = "settling" =>
             engine[i].deadlineWall <= engine[i].deadline + (wall - mono)

IInv ==
  /\ TypeOK /\ CoherentInMemory(engine) /\ CoherentOnDisk(saved)
  /\ BurstsOwned /\ OneEventPerBurst
  /\ SuppressionAccounted /\ OnlySilentResetsAreUnsaved /\ ClocksAgree
=============================================================================
