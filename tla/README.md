# A verification of Shellbell in TLA+

Shellbell rings when a shell has finished something long.  Shell hooks tell a
per-user daemon when a command starts and when the prompt is back; the daemon
decides when a *burst* of activity is over, queues a ring in SQLite, and sends
it to a relay, which pushes it to the owner's receivers.

This directory models that program from its source (paths below are relative to
`src/`), checks the models with TLC on small instances, and proves theorems
about them with TLAPS for every value of the constants.

## 1. Inventory

| part | source | state it keeps | operations | what is hard | modelled |
|---|---|---|---|---|---|
| activity engine | `crates/shellbell-local/src/activity.rs` | one `Session` per shell: mode, state, burst id, credited time, deadline, notified flag | `session_open/close`, `arm_and_start`, `disarm`, `set_label`, `command_start`, `prompt_ready`, `manual_ring`, `tick`, `cleanup_stale`, `recover_live_timing` | every order and repetition of hooks, commands and ticks | `Session`, `Activity`, `BurstBell` |
| daemon | `.../daemon.rs` | the engine behind a mutex, two clocks, the select loop | start, shutdown, one task per IPC request, `process_timers`, `deliver_one`, `cleanup_sessions` | clocks read before the lock; loop blocked by delivery; crash and restart; failing transactions | `Daemon` |
| local store | `.../store.rs` | tables `sessions`, `ring_queue`, `local_meta` | transactional save and enqueue, expiry, eviction, retry, discard | atomicity; queue limit; counts kept in a second statement | `RingQueue`, `Daemon` |
| daemon start-up | `.../daemon.rs` `prepare_socket`, CLI `ensure_daemon` | the socket file, the database | ping, unlink, bind, spawn, remove at stop | several starters at once; a blocked daemon taken for dead | `DaemonStartup` |
| CLI and hooks | `crates/shellbell-cli/src/main.rs`, hook scripts in `install.rs` | the shell's hooks; the Bash hook keeps an at-prompt flag | `run_hook` with one resend, `ensure_daemon`, `on/once/off/name/ring/status`, `pair` | 90 ms time-out, resend after opening the session, a first request executed late | `ShellHook`, spawning in `DaemonStartup`, `pair` in `Pairing`; requests reach `Daemon` in any order, repeated or late |
| local IPC, configuration, installer | `ipc.rs`, `config.rs`, `install.rs` | files | parsing, validation, atomic writes | - | `request`'s time-out only |
| relay: rings | `crates/shellbell-relay/src/lib.rs` `submit_ring` | `rings`, `deliveries`, `receivers` | idempotent insert, push after commit, purge of old history | lost answers, crash after commit, revocation in between, history shorter than retries | `RingDelivery`, `Notification` |
| relay: pairing and sources | same file | `pairings`, `sources` | create, poll, list, approve, reject, revoke | token handed out once although polls are repeated and late; expiry; racing decisions | `Pairing` |
| relay: pull feed | same file | `pull_receivers` cursor, `rings` | feed, acknowledge, create, update, revoke, tag filter, retention | the tags and the cursor are read before the scan; acknowledgements in any order; an update that began before a revocation | `PullFeed` |
| relay: receivers | same file, `push.rs` | `receivers` | upsert, update, revoke, disable on permanent failure | a late failure disables a new subscription; an update writes what it read | `RingDelivery` |
| relay: owner | same file, `main.rs` | `owner_state`, password hash, `owner_sessions` | set, reset and check the password, log out | check-then-act; a session inserted after the transaction that revokes | `OwnerAccess` |
| relay: rate limiter | same file, `main.rs` | windows per key | `allow_owner_attempt`, `check` | window boundary | `OwnerAccess` (the owner's twin of it) |
| protocol, core | `shellbell-protocol`, `shellbell-core` | none | types, validation, hashing | - | no (stateless) |
| PWA, site, scripts | `pwa/`, `site/`, `scripts/` | none | HTTP client, shell scripts | - | no |

How they interact: a hook or the CLI sends one JSON line over a Unix socket and
waits for the answer (90 ms, the CLI 2 s); the daemon runs each request as a task
that takes the engine mutex and holds it over its database write.  The daemon's
loop runs one of timer (100 ms), delivery (1 s) and cleanup (60 s) at a time;
delivery waits for the relay inside the loop.  The relay is an HTTP server over
its own SQLite database; receivers get Web Push or poll the pull feed.

`PROJECT.json` lists the hazards at their lines, with the properties that would
notice them going wrong.

## 2. Modules

* **`Session`** - the record of one shell and the pure functions
  `activity.rs` applies to it.  `DisplayedActive`, `Arm`, `CommandStart`,
  `PromptReady`, `ManualRing`, `Settle`, `RecoverLiveTiming`, ... keep the names
  of the methods.  Text fields are left out; saturation at zero is kept.
* **`Activity`** - `ActivityEngine` alone, one action per method, with one clock.
  `prompt`, `foreground`, `rings`, `arming` are observers: they record what
  happened in the shell, so that properties compare the engine with the facts
  and not with itself.
* **`BurstBell`** - the abstract specification: a burst begins once, rings at
  most once while it is open, never after.  Two specifications implement it.
  `Activity` does with `open <- the burst ids of the sessions`; `Daemon` does across its
  crashes and restarts, where a burst is open as long as memory *or* the table knows it,
  and has rung as often as events were committed for it (`DurableBell`).
* **`RingQueue`** - the `ring_queue` table: expiry, eviction of the oldest row,
  next due row, exponential retry with jitter.
* **`Daemon`** - the daemon process over its database: the same `Session`
  functions, requests that read the clocks first and take the lock later, the
  select loop as a program counter `loop`, both tables, failing transactions,
  crashes (also between the two statements of `expire_old` and
  `discard_permanent`), shutdown and recovery.  The engine's memory is kept
  after a stop only so that properties can compare it with what is recovered.
  `issued`, `ringOf`, `delivered`, `uncounted` and `unrung` are observers: the events
  committed and their bursts, what the relay accepted, what a stop or a failing statement
  caught between delete and count, and the bursts whose own ring's transaction failed.
* **`DaemonStartup`** - several processes on one socket file and one database: the
  steps of `run_daemon_until` up to `bind`, the loop reduced to one burst and to
  whether it answers, and the end that saves and removes the file.  `pc[d]` is the
  place in the code; `engine[d]` is what the process has in memory of the burst, so
  that the early save of a starter, takeovers and saves at the stop can be told apart.
  `silence`, `overlap` and `rings` are observers.
* **`RingDelivery`** - a ring's way from the queue to the receivers.  The daemon's
  side is `deliver_one` reduced to one row state per event (`Daemon` has the
  detail); the network loses requests and answers; on the relay every call has
  its own handler (`calls[c].stage`), whose actions are the code of `submit_ring`
  between two awaits, so handlers of one event overlap when the daemon has given
  up on the first.  The tables `rings`, `deliveries`, `receivers`, the revocation
  of sources, the two statements of `update_receiver`, the purge of old history and
  `shellbell pair` (a new source id) complete it.  `accepted` and `pushes`
  are observers of what the relay tells apart, a source and an event (`Ring`); `silenced`
  observes the owner: the receivers revoked and not registered since, whatever the table
  says.
* **`Notification`** - the abstract specification of that path: an event is accepted
  at most once, and pushed at most once to a receiver.  `RingDelivery` implements it with
  `Ring` for its events.
* **`Pairing`** - the pairing tables, `poll_pairing` and `approve_pairing` as handlers
  with the statements between which they race, the other requests as single steps,
  and the machine that polls, loses answers and asks again.  `worked` is an observer:
  every token that ever authenticated.
* **`ShellHook`** - one integrated shell from its first prompt to its end, the helper
  its hooks run, and the daemon's session for it.  `shell.hooks` are the helper calls
  still to come before the shell goes on; `call` is the place in `run_hook`: first
  attempt, `ensure_daemon`, the opening of the session, second attempt.  A request the
  helper gave up on stays in `late` and may be executed at any later moment.  The daemon
  applies the functions of `Session` to the one session; durations are zero, so a settling
  burst may settle at any moment.  What the shells do besides the hooks' own lines is kept:
  the DEBUG trap of Bash also fires for entries of `PROMPT_COMMAND`, and `exec` of a new shell
  keeps the pid by which the hook file recognises itself.
* **`PullFeed`** - a display that polls the feed.  The owner's `create_pull_receiver` and
  `update_pull_receiver` are two steps each, because they write after an await what they
  read before; `receiver_feed` and `ack_receiver_feed` are authorised in one step and
  scan or write in another.  The display is external: it sends requests with the cursor it
  knows or with none, and takes answers in any order.  `start` and `passed` are observers.
* **`OwnerAccess`** - `owner_password_middleware` statement by statement for any number of
  overlapping requests, the sessions it issues, `owner_auth`, `logout`, and the limiter
  with its clock (for one client: its entries are per client and kind).  A password is named
  by the request that chose it.  `changes`, `began`,
  `at` and `boot` are observers.
* **`MCActivity`, `MCDaemon`, `MCDaemonStartup`, `MCRingDelivery`, `MCPairing`, `MCPullFeed`,
  `MCOwnerAccess`, `MCShellHook`** - symmetry sets and the values of constants for TLC.
* **`SessionProofs`, `ActivityProofs`, `DaemonProofs`, `RingDeliveryProofs`,
  `PairingProofs`, `OwnerAccessProofs`, `PullFeedProofs`** - lemmas about the functions of
  `Session`, and the theorems about the module each is named after.
* **`ClientProofs`** - the theorems about what the command line does with the daemon: start it
  (`DaemonStartup`) and report to it (`ShellHook`).  It extends both, which is why
  `DaemonStartup` has names of its own (`StartupSpec`, `StartupTypeOK`, ...).

Operators called `Mut_...` are mistakes one could make in the operator that
follows them; they are used nowhere in the specifications and serve to show that
each property notices such a mistake.

## 3. Runs

| run | cfg | result | what it shows |
|---|---|---|---|
| `activity` | `MCActivity.cfg` | holds | two shells, two bursts, five instants: one ring per `once`, credited time and deadline equal to what the shell did, automatic rings earned, refinement of `BurstBell` (one ring per burst) |
| `daemon` | `MCDaemon.cfg` | holds | one shell, a full queue, a stop and a failing transaction anywhere: database behind memory only by silent resets, a burst silenced without an event only when its own ring's transaction failed, every lost ring counted over all restarts but for what a stop or failing statement caught between delete and count, what a restart keeps, no early ring, refinement of `BurstBell` (one event per burst) by memory and database together |
| `daemon_live` | `MCDaemonLive.cfg` | holds | a settled burst is queued, with two requests racing and restarts included |
| `startup` | `MCDaemonStartup.cfg` | holds | three processes, hooks and service manager, a stop and a kill: two daemons serve only after a ping that was not answered, daemons that do not overlap ring a burst once, and hooks always find a daemon again |
| `startup_converge` | `MCDaemonStartupConverge.cfg` | violated | without stop or kill, a second lazy start unlinks the socket of a daemon that waits for the relay |
| `shell` | `MCShellHook.cfg` | holds | Bash, Zsh and Fish, two faults anywhere: the engine knows where the shell is unless a late request or a stop came between, and no burst stays active for ever |
| `delivery` | `MCRingDelivery.cfg` | holds | refinement of `Notification` whatever is lost or repeated, for each of two pairings and `Retention >= MaxAge`; what the daemon takes for delivered was accepted; revocations of source and receiver racing with submissions and updates: a revoked receiver stays silent until it registers again |
| `delivery_live` | `MCRingDeliveryLive.cfg` | holds | every queued event is accepted, refused, discarded or expires, also when the machine is paired again |
| `delivery_pairs` | `MCRingDeliveryPairs.cfg` | violated | after pairing anew the retry of an accepted event is a new ring, and its receivers are notified again |
| `pairing` | `MCPairing.cfg` | holds | one source per approval, one working token per source, negative answers true |
| `feed` | `MCPullFeed.cfg` | holds | a display with two requests in flight: no acknowledged ring was skipped, no history replayed, nothing served after a revocation, acknowledgements never go back |
| `owner` | `MCOwnerAccess.cfg` | holds | three requests that set, reset or give the password, interleaved: sessions follow the password, it is replaced on request only, attempts are limited |

**Bounds.**  Time is counted in units of the smallest duration that matters:
`Minimum = Idle = 1` lets a burst be too short, exactly long enough and longer,
within `MaxTime` 4 (engine) or 2 (daemon, where a ring comes at instant 1 or 2
and a restart fits before it).  Two sessions and two bursts let sessions
interfere and a burst follow another; burst and event ids are drawn at most once,
so their number bounds the bursts and rings.  `Daemon` has one session: its sessions
share nothing but the queue, and two sessions are the subject of `Activity`.  One crash and one failure
(`MaxCrashes`, `MaxFailures`) are placed anywhere; `MaxCrashes` counts every stop, clean
shutdowns and fatal exits too; `MaxInFlight = 2` requests
race in `daemon_live`, which has every command but the manual ring; `daemon` has the
commands that make rings: opening a session, an arming (which begins a burst), the prompt
and a manual ring, in any order.  A burst that is resumed by a command is the subject of
`daemon_live` and `activity`.
Two rings and `Limits = {1}` fill the queue and evict.  `MaxAttempts` caps the counter of
attempts.
`RingDelivery` makes two submissions for two events, one of them with tags that no
receiver has: enough for a first call and a retry that overlaps it, also as another
source after pairing anew, or for two events.  `delivery` takes its two receivers for
interchangeable (`SYMMETRY`; its properties are safety properties).  `MaxAge = Retention = 0`, `MaxTime = 1` make an
event expire and a ring leave the history at the next instant (`delivery_live` has
`MaxAge = 1`, with an instant in between); `MaxOwner = 3` is the number of owner
requests that the race of a revocation with an update needs.
`Retention` at least `MaxAge` is a condition of the refinement, not a bound: the configuration allows `event_max_age` up to 30 days
and a history of one day, and then a purged event would be accepted again.
`Pairing` has two requests, two polls and two approvals: the smallest numbers with
which polls, approvals and requests can get in each other's way; `TTL = 1` and
`MaxTime = 2` let a request be decided before, at and after its expiry.  `Limits`
in `Daemon` holds one value: eviction restores the bound one row per insertion, so
after a lowered `queue_limit` the queue would stay longer for a while.

`PullFeed` has two rings, `Limit = 1` and `ScanLimit = 2`: a page that is full before
the scan ends, one the scan ends, and an empty one (a scan cut off before the last ring
is left to the theorem, `ScanLimit` being the number of rings); two requests of the display in
flight let an older answer or acknowledgement overtake a younger; one update races with
the revocation.  Two rings are enough to skip one and show the next.  `OwnerAccess` has
three requests (a password, a second setup or reset, a login or a third setup), one admitted
attempt per window of two instants (so that `2 * Limit - 1` is `Limit`; the theorem has any
limit), sessions that live as long, and one restart.
`ShellHook` has two faults, each a time-out, a failed start or a stop of the daemon: a
request that was given up on and the failure of its second attempt.  `Minimum = {0, 1}`
makes a burst qualify or stay too short, and a single burst name is enough, because only
its presence matters there.

`DaemonStartup` has three processes: one that serves, one that has decided to
remove its file, and one that binds between the two; one stop and one kill are
placed anywhere, and starts are not bounded, so processes come back.  One burst is
enough, because its two values tell apart what a process knows and what the table
says.

**Symmetry** is used where the properties are safety properties and ids are only
compared for equality; the liveness runs use none.

**Deadlock** checking is off where a bound ends everything: with the clock at its bound,
all shells gone, all requests made and the bound of stops reached, nothing need be left
to do.

**Fairness.**  `Daemon!FairSpec`: a stopped daemon is
started again (systemd `Restart`, or the next hook), tasks holding a request
run, the loop begins its timer branch when it is due and finishes what it began,
the HTTP client answers or times out.  `RingDelivery!FairSpec`: the delivery tick
submits and expires rows, a running handler goes on, answers arrive, time passes;
it asks neither that a call succeeds nor that handlers survive.  `StartupFairSpec`:
processes run, the relay answers or times out, and some prompt's hook spawns a
daemon as long as none answers (`ensure_daemon`); the service manager may stay idle
(its unit restarts only on failure, and at most five times a minute).
`ShellHook!FairSpec`: a helper that was started ends, a daemon that runs executes what it
has received, a user who stays submits commands again and again, and they return; `exec`,
exit and the faults are never forced.  The other specifications state no fairness.

## 4. Proofs

`SessionProofs` shows that each function of `Session` keeps the type and the
coherence of a session, and what it does to burst and flag.  `ActivityProofs`
proves, assuming only that `None` is not a number, burst or session record and
that durations and bounds are naturals:

* `TypeCorrect` - `TypeOK`;
* `AlwaysCoherent` - `SessionsCoherent`, inductive together with the type;
* `AtMostOneRingPerBurst` - `OneRingPerBurst`.  Alone it is not inductive: a tick
  rings for any unnotified burst, so one needs that an unnotified open burst has
  not rung, that a burst never drawn has not rung (`RingsRecorded`), and that two
  sessions never hold the same burst (`BurstsDistinct`);
* `ImplementsBell` - `BellSpec`, the refinement of `BurstBell`, from the same
  invariant; the run `activity` checks it, and `OneRingPerBurst`, which it implies, is
  only a theorem;
* `Inductive` - the whole invariant `IInv`, with `OnceUnspent` (an arming with `once` that
  has rung is settled or over) and `TimersAgree` (timers and credit in the engine equal what
  the observers saw the shell do);
* `OnceIsOnce`, `CreditIsExact`, `DeadlineIsExact` - `OneRingPerOnce`,
  `CreditedTimeIsForegroundTime` and `DeadlineCountsFromPrompt`, which follow from it;
* `RingsAreEarned` - the action property `AutomaticRingIsEarned`: `rings` grows in a step
  that is a tick only for sessions that are due and qualify.

`DaemonProofs` proves every safety property of the run `daemon`, for any number of
sessions, events, waiting requests, crashes and failing transactions, and any queue limit.
It assumes that durations, limits and bounds are naturals and that there are finitely many
event ids (losses are counted); that `None` is no burst, number or record comes from
`Session`.  `Daemon!IInv` has four ideas.

1. *Two tables.*  What a crash leaves is the table, so whatever holds of the engine must
   hold of the table as well: `CoherentOnDisk` says that each saved session is a coherent
   one without the live times that serde skips (`Revived` gives it back a time), and
   `Owned` and `Accounted` are stated once and used for both.  Every command changes one
   session in a way that *continues* its burst or starts a fresh one
   (`...Continues` of each function of `Session`), and every save copies the engine, so the
   two tables need one argument (`TableContinues`, `TableRings`, `TableRecovered`).
2. *One event per burst* is not inductive: one needs that a burst which is not notified has
   no event, in memory and in the table, and that no two sessions own the same burst
   (`Owned`).  `DurableBell` implies it, so it is a part of the invariant only.  A manual
   ring whose transaction fails leaves the burst notified without an event; `Accounted`
   says that nothing else does, in memory and in the table, however often the daemon
   stops and recovers (`SuppressionIsEarned`, of `OnlyFailuresSuppress`).
3. *Clocks.*  The monotonic clock restarts with each daemon.  `ClocksAgree` says that
   whoever has read both clocks has read them at the same distance as they have now, so
   a time read long before the engine lock was free still bounds the deadline on the wall
   (`NoEarlyRing`).
4. *Losses* (`LossesCounted`) need no invariant but the type, and count sets: each statement
   that removes rows adds their number to `dropped`, or a stop takes them into `uncounted`
   (`StepCounts`).  The code counts the evictions of a transaction one by one
   (`store.rs:306`), and so does `Enqueued`; that the counts add up to what has vanished in
   the end is shown over the rounds of `EnqueuedAll`, a recursive function over the events
   of a transaction, by a least counterexample (`EnqueuedAllUnfolds`).

`ImplementsBell` proves `DurableBell` from that invariant.  Every step is of one of four
kinds (`StepImplementsBell`): it leaves the events alone and forgets bursts at most, it
begins one burst (a request that drew a fresh id, `Draws`), it commits events of bursts
that are known and have none, or it stutters.  A restart is of the first kind although it
changes every session: what it recovers is what the table knew (`TableRecovered`).  A
failing transaction is too: the engine has changed, and no event was committed.  That a ring
comes only for an open burst is why `Accounted` and `Owned` are needed for the table as
well as for memory.

`RestartIsFaithful` and `NoEarlyRing` are proved for their steps from that invariant.
`OnlySilentResetsAreUnsaved` is stated of every state, also of a daemon that is down,
because the engine's last memory is kept to compare with.

`ClientProofs` proves of `DaemonStartup` `StartupTypeCorrect`, `OnlySilence` and
`SuccessorsRingOnce`, all from `StartupInductive`, for any number of processes, stops and
kills, assuming only that `Nothing` is no process and no state of the burst.  Two strengthenings of `StartupInv` carry it: while every ping was
answered no starter is about to remove a file, and whoever serves is the one that bound the
socket (`ServersHoldTheSocket`), so there cannot be two; while lives never overlapped there
is at most one copy of the burst in memory, and once the burst was rung neither it nor the
table says `settling` (`CopiesFollowTheTable`), so a successor does not ring again although
it saves before it looks at the socket.

`ClientProofs` proves both safety properties of the run `shell`, `HooksTypeCorrect` and
`EngineKnows`, for any number of time-outs, failed starts and stops, assuming that the shells
are Bash, Zsh and Fish, that a burst id can be drawn, and that `None` is no helper.
`EngineAgrees` speaks of moments when the shell has nothing ahead; between two such moments
lies everything that can go wrong.  `ShellHook!IInv` therefore says, at every stage of a
helper,

* *what is ahead* (`HooksAreFit`): the last helper before a place is the boundary that tells
  of it; `Ahead` lists the few sequences there are, among them none at all, where the
  engine must know already.  This is where `PROMPT_COMMAND` entries after `__shellbell_precmd` have to be
  excluded: they send a command start as the last boundary before a prompt;
* *what a request that was executed in time has done* (`ToldInTime`): while its helper still
  waits for the answer, the session agrees with the place of the boundary, and it stays so
  until the next boundary is ahead, whatever name, ring or status request or settling burst
  comes between (`HandledFacts`, `SettleAgrees`);
* *what helpers send* (`HelpersAreFit`): the request alone or after a registration, and a
  daemon that is down had no session to lose unless its stop is on record (`disturbed`).

`EndCallKeeps` is the heart of it: a helper's end is answered only if its last request was
executed, so `heard` and `ToldInTime` change together.  A registration that fails inside
`ensure_current_session_registered` needs no care, because the request after it fails too
when the session is unknown.  The hooks run before the first prompt in `OpenShell` begin with
`session_open`, which is no boundary: nothing was heard yet then.

`RingDeliveryProofs` proves, for any number of events, sources, receivers, calls, faults and
owner requests:

* `TypeCorrect` and `LateRequestsRefused`, from `HandlersSound`, `LatenessSound` and
  `HistorySound`: what a handler carries fits its place in the code, and a late request never
  gets past `source_auth`;
* `DeliveredAccepted` - a row leaves the queue as delivered only for a ring the relay has
  committed, for any retention.  `AnswersSound` says where an answer "accepted" comes from:
  the handler's own commit or a ring in the history (`AcceptanceIsEarned`), and `accepted`
  never shrinks;
* `RevokedStaySilent` - between the revocation of a receiver and its next registration no
  ring is queued for it.  It rests on `SilenceSound`: the column keeps the revocation,
  although an update that read the row before writes it afterwards;
* `ImplementsNotification` - the refinement of `Notification`, under the condition
  `Retention >= MaxAge`, for any number of pairings.  What the relay tells apart is the pair
  of source and event (`Ring`), so this is the promise it keeps: once for each pairing.  That
  an event is pushed once whatever its source is false (`delivery_pairs`).  The proof needs
  `AcceptedOnce`: an accepted ring is still in the history or its event too old to be
  submitted, and one handler alone delivers it, which has not yet pushed to the receivers it
  still has to.

The steps are classified first: `NextCalls` says what can become of a call
(`CallFate`: its handler moves on along the stages, it is given up on, or it is
new), `NextRings` what can happen to the history (nothing, an insertion by a handler, a
purge of old rings).  Each part of the invariant is then preserved by these few changes
instead of by every action.  The model lets time pass only while no handler runs
(`PassTime`), so a handler finishes before its event is too old, as it does in the code,
where the age is days and a handler a few requests long.

`PairingProofs` proves every property of the run `pairing`, for any number of requests,
sources, polls and approvals and any `TTL`.  It assumes that `None` is not a
source, poll, status or record and that the bounds are naturals.  The properties
are not inductive: that a stored token works, for instance, needs that an answer on
its way carries a working token, and this that a poll about to issue one knows the
source of its request.  `Pairing!IInv` says so of every handler (`PollSound`), machine
(`ClientSound`) and token that ever authenticated (`WorkedSound`), and relates the two
tables one to one (`SourcesMatchRequests`).  The argument has three parts:

1. `TableStep` lists what a step can do to the tables (a decision on an
   undecided request, an approval with a new source, a hash set once or revoked),
   and `NextIsTableStep` shows that no step does anything else;
2. no such change takes back a decision (`Decided`), the source of a request
   (`SourceStays`) or the validity of a token (`HoldsStays`), so
   what others have learned stays true;
3. the handler or machine that moves learns something that is true.

From `IInv` follow `TypeCorrect`, `ApprovedOnce`, `NegativeAnswersHold`, `OneToken`,
`StoredTokenLasts` and, for its steps, `DecisionsLast`.

`OwnerAccessProofs` proves every property of the run `owner`, for any
number of requests, any limit, window and lifetime, assuming that the parameters are
naturals, limit and window are positive (they are constants of the code, ten attempts and
five minutes) and `None` is none of the data.  The difficulty of the first three is that a
handler acts on what it read.  The invariant `OwnerAccess!IInv` therefore speaks of what a
handler has read *as long as no password was stored since it began* (`began = changes`):
then "no password" is still true for a setup without reset that got past its check
(`SetupSound`), and a handler that got through has the current password (`AttemptSound`).
Storing a password makes all of this outdated at once (`OutdatedSound`) and revokes every
session in the same transaction; every other step changes one handler and leaves the owner's
tables alone (`HandlerStep`), and only the last statement of a handler inserts a session
(`SessionSound`).

`AttemptsLimited` is about counting.  A window that a clock opens could let twice the limit
through in one span: the limit just before it ends and the limit just after.  Here a window
is opened by an attempt that it admits, so a span shorter than a window that reaches back
beyond the opening of the present window misses the attempt that opened the one before,
and the two windows together admit one less (`WindowOpens`, `WindowCounts`).  The invariant
`LimiterSound` says so of the set of attempts that this life of the relay has admitted
(`Taken`): no admitted attempt is younger than its window lasts, the window has counted those
since it opened, and those of a span just before the opening are fewer than the limit
(`Fits`).

`PullFeedProofs` proves every property of the run `feed`, for any page size and
any number of rings, receivers, updates and requests in flight, assuming that
`Limit` is positive and at most `ScanLimit` and that `None` and `Done` are none of the data.
`PullFeed!IInv` adds that a row being created does not exist yet (so the insertion cannot undo a revocation or set a
cursor back), that the row of an update or a request exists, and that a revoked row has
lost its token, which is what an update that began before cannot give back; from this follow
`TypeCorrect`, `RevokedIsOut` and `AckAdvances`.  `FeedExact` needs more: whoever is at a
cursor - the registration with its acknowledged one, the display, a request on its way, an
answer with its rings - has every ring up to it behind it, shown, passed over or deleted
(`Covered`), and no page starts before the registration (`FeedSound`).  A page covers what
its scan walked because the scan has no gaps (`WalkedIsPrefix`), and everything else that
moves a cursor copies one of these.

**What only TLC checks.**  The liveness properties (`SettledBurstIsQueued`,
`QueuedEventsAreResolved`, `ServiceReturns`, `BurstsEnd`): they rest on fairness, that is on
`ENABLED`, which tlapm does not expand.  The two runs
that end in a violation refute what a document says, and there is nothing to prove.

## 5. Where the code differs from its documents

Two disagreements have a run that shows them (`startup_converge`, `delivery_pairs`; see
`findings` in `PROJECT.json`).  Others were met while modelling; the models have the code's
behaviour and the properties are stated so that they allow it:

* A burst that settles too short is reset in memory only (`daemon.rs:362` returns before it
  saves).  After a kill the table still has it as settling, and it resumes and settles again;
  `docs/ARCHITECTURE.md:41` has it reset.  `OnlySilentResetsAreUnsaved` says that nothing
  else is ever behind.
* When the transaction of a manual ring fails, the engine has already marked the burst as
  notified, so the next ring is suppressed although `docs/LOCAL_IPC.md:48` calls it the
  second.  `OnlyFailuresSuppress` says that only the failed transaction of that burst's own
  ring does that.
* `expire_old` and `discard_permanent` count in a statement of their own
  (`store.rs:198`-`216`): a stop or a failure in between loses the count of what was
  deleted.  `LossesAreCounted` exempts exactly these events (`uncounted`) and no others.
* `SHELLBELL_HISTORY_RETENTION_DAYS` (`main.rs:85`, `docs/DEPLOY_VPS.md:87`) never takes
  effect: the migration inserts the setting (`0001_initial.sql:80`) and `lib.rs:173` only
  inserts it when it is missing.
* `exec bash`, which `docs/LOCAL_DEVELOPMENT.md:63` recommends after the installation, starts a
  shell without hooks when the old one had them: pid and exported variable are the same
  (`install.rs:455`, and the same test for Zsh and Fish at 515 and 549).  `ShellHook!Exec` models it; `BurstsEnd` and `EngineAgrees` speak of
  shells that have their hooks.
* In Bash an empty command line, or an entry of `PROMPT_COMMAND`, fires the DEBUG trap and
  sends a command start (`install.rs:475`); with an entry after `__shellbell_precmd` the engine
  thinks a command runs at the prompt.  `docs/SHELL_INTEGRATIONS.md` speaks of the first
  boundary after a prompt as a command.  `EngineAgrees` excludes the second case.

## 6. Not modelled

Wall-clock jumps; the queue of two daemons on one database (`DaemonStartup` has only
their sessions); the text of messages, names and labels; the duplicate's stored answer; the
framing and validation of IPC lines and HTTP bodies, cookies and CSRF headers; the
installer's edits of startup files and the configuration and credential files (atomic
renames of whole files, no protocol); reading and writing the retention setting;
`bootstrap` and `create_session` of `lib.rs`, which the middleware of `main.rs` answers
before they are reached, and the bootstrap token's file; `shellbell-protocol` and
`shellbell-core` (stateless); the PWA (a client that keeps nothing of its own), site and
scripts.  A refusal by the limiter of the pairing and feed endpoints changes nothing and is
a lost request in `Pairing` and `PullFeed`.  Clock values are naturals: the saturation of
`u64`/`i64` at the top of their range is not reached by a clock in milliseconds.

## 7. Plan

Every safety property and every refinement of the passing runs is proved.  What would come
next, in this order:

1. The queue of two daemons that share a database, by composing `DaemonStartup` with
   `RingQueue`.
2. Abstract specifications for `Pairing` and `PullFeed` like `BurstBell` and `Notification`.
