----------------------------- MODULE ShellHook -----------------------------
(***************************************************************************)
(* One integrated shell and the daemon's session for it: the hook scripts  *)
(* of shellbell-local/src/install.rs (Bash, Zsh, Fish), the helper they    *)
(* run (run_hook, ensure_daemon and ensure_current_session_registered of   *)
(* shellbell-cli) and the commands that act on the session.                *)
(*                                                                         *)
(* The shell waits for its helper, the helper waits at most HOOK_TIMEOUT   *)
(* for an answer; a request it gave up on may still be executed, late and  *)
(* after younger ones.  Time does not matter here: every duration is zero  *)
(* and a settling burst may end at any moment.  The guard variables are    *)
(* left out: they are set exactly while a helper runs, and no boundary     *)
(* occurs then.  The user and the shell program are external.              *)
(***************************************************************************)
EXTENDS Session, Sequences

CONSTANTS ShellType,     (* the shells to consider                          *)
          Minimum,       (* minimum_active values an arming command may give*)
          MaxFaults      (* bound: slow answers, failed starts, stops       *)

Hook == {"session_open", "command_start", "prompt_ready", "session_close"}
Cli  == {"on", "once", "off", "name", "status", "ring"}
Command == Hook \cup Cli

Shell ==
  [type : ShellType,
   later : BOOLEAN,                       (* PROMPT_COMMAND of Bash goes on    *)
                                          (* after __shellbell_precmd          *)
   at : {"new", "prompt", "command", "gone"},  (* where it is, or will be      *)
   hooks : Seq(Command),                  (* helpers to run before             *)
   hooked : BOOLEAN,                      (* its traps are in place            *)
   at_prompt : BOOLEAN]                   (* __shellbell_at_prompt             *)

(* A helper: what it was started for, the requests still to send, whether  *)
(* the first one failed already, and how far the current request is.       *)
Call ==
  [for : Command, todo : Seq(Command), again : BOOLEAN,
   stage : {"send", "sent", "done", "error", "failed", "ensure"}]

ASSUME ShellHookAssumption ==
  /\ ShellType \subseteq {"bash", "zsh", "fish"}
  /\ Minimum \subseteq Nat /\ MaxFaults \in Nat
  /\ Burst # {}                   (* Uuid::new_v4 always returns            *)
  /\ None \notin Call             (* an absent helper is not a helper       *)

VARIABLES
  shell, call,
  up,          (* whether the daemon runs                                   *)
  session,     (* its session for this shell, or None                       *)
  late,        (* how many requests of a kind nobody waits for any more     *)
  faults,
  heard,       (* observer: the last boundary or arming was answered        *)
  disturbed    (* observer: since the last one executed in time, a late     *)
               (* request was executed or the daemon stopped                *)

vars == <<shell, call, up, session, late, faults, heard, disturbed>>

TypeOK ==
  /\ shell.type \in ShellType /\ shell.at \in {"new", "prompt", "command", "gone"}
  /\ \A n \in DOMAIN shell.hooks : shell.hooks[n] \in Command
  /\ {shell.hooked, shell.at_prompt, up, heard, disturbed} \subseteq BOOLEAN
  /\ call # None =>
       /\ shell.hooks # <<>> /\ call.for = Head(shell.hooks)
       /\ call.stage \in {"sent", "done", "error"} => call.todo # <<>>
  /\ session = None \/ Coherent(session)
  /\ late \in [Command -> 0 .. MaxFaults] /\ faults \in 0 .. MaxFaults

Init ==
  /\ shell \in [type : ShellType, later : BOOLEAN, at : {"new"}, hooks : {<<>>},
                hooked : {FALSE}, at_prompt : {FALSE}]
  /\ shell.later => shell.type = "bash"
  /\ call = None /\ up \in BOOLEAN /\ session = None
  /\ late = [c \in Command |-> 0] /\ faults = 0
  /\ heard = FALSE /\ disturbed = FALSE

(***************************************************************************)
(* The shell.                                                              *)
(***************************************************************************)
Reached(place) == shell.at = place /\ shell.hooks = <<>> /\ call = None

ShellStep(s) == shell' = s /\ UNCHANGED <<call, up, session, late, faults, heard, disturbed>>

(* What runs on the way to a prompt.  Bash's DEBUG trap also fires for the *)
(* entries of PROMPT_COMMAND: for the first one if no command ran since    *)
(* the last prompt, and for one that follows __shellbell_precmd.           *)
PromptHooks(s, returned) ==
  IF ~s.hooked THEN <<>>
  ELSE CASE s.type = "bash" -> (IF s.at_prompt THEN <<"command_start">> ELSE <<>>)
                               \o <<"prompt_ready">>
                               \o (IF s.later THEN <<"command_start">> ELSE <<>>)
         [] s.type = "zsh"  -> <<"prompt_ready">>
         [] s.type = "fish" -> IF returned THEN <<"prompt_ready">> ELSE <<>>

Mut_ToPrompt(s, returned) ==
  [s EXCEPT !.at = "prompt", !.hooks = @ \o PromptHooks(s, returned)]

ToPrompt(s, returned) ==
  [s EXCEPT !.at = "prompt", !.hooks = @ \o PromptHooks(s, returned),
            !.at_prompt = s.hooked /\ ~s.later]

(* Sourcing the hook file: the shell's pid differs from the exported one.  *)
OpenShell ==
  /\ shell.at = "new"
  /\ ShellStep(ToPrompt([shell EXCEPT !.hooked = TRUE, !.hooks = <<"session_open">>], FALSE))

(* __shellbell_debug, __shellbell_zsh_preexec, __shellbell_fish_preexec    *)
Preexec(s) ==
  [s EXCEPT !.at = "command", !.at_prompt = FALSE,
            !.hooks = IF s.hooked /\ (s.type = "bash" => s.at_prompt)
                      THEN <<"command_start">> ELSE <<>>]

Submit       == Reached("prompt")  /\ ShellStep(Preexec(shell))
EnterNothing == Reached("prompt")  /\ ShellStep(ToPrompt(shell, FALSE))
Return       == Reached("command") /\ ShellStep(ToPrompt(shell, TRUE))
RunCli(c)    == Reached("command") /\ ShellStep([shell EXCEPT !.hooks = <<c>>])

(* exec of a new shell keeps the pid and the exported variables: the hook  *)
(* file's first line finds its own pid and installs nothing.               *)
Exec ==
  /\ Reached("command")
  /\ ShellStep(ToPrompt([shell EXCEPT !.hooked = FALSE], FALSE))

Mut_Exit ==
  /\ shell.at \in {"prompt", "command"}
  /\ ShellStep([shell EXCEPT !.at = "gone",
                             !.hooks = IF shell.hooked THEN <<"session_close">> ELSE <<>>])

Exit ==
  /\ Reached("prompt") \/ Reached("command")
  /\ ShellStep([shell EXCEPT !.at = "gone",
                             !.hooks = IF shell.hooked THEN <<"session_close">> ELSE <<>>])

(***************************************************************************)
(* The helper.                                                             *)
(***************************************************************************)
CallStep(c) == call' = c /\ UNCHANGED <<shell, up, session, late, faults, heard, disturbed>>

(* A hook sends first and looks for a daemon when that fails; a command    *)
(* makes sure of the daemon and of the session first.                      *)
BeginCall ==
  /\ call = None /\ shell.hooks # <<>>
  /\ LET c == Head(shell.hooks)
     IN CallStep([for |-> c, todo |-> <<c>>, again |-> FALSE,
                  stage |-> IF c \in Hook THEN "send" ELSE "ensure"])

Boundary(c) == c \notin {"session_open", "name", "status", "ring"}

EndCall(answered) ==
  /\ call' = None
  /\ heard' = IF Boundary(call.for) THEN answered ELSE heard
  /\ shell' = [shell EXCEPT !.hooks = Tail(@)]

Send == call # None /\ call.stage = "send"
        /\ CallStep([call EXCEPT !.stage = IF up THEN "sent" ELSE "failed"])

TakeAnswer ==
  /\ call # None /\ call.stage \in {"done", "error"}
  /\ UNCHANGED <<up, session, late, faults, disturbed>>
  /\ CASE call.stage = "error" ->
            call' = [call EXCEPT !.stage = "failed"] /\ UNCHANGED <<shell, heard>>
       [] call.stage = "done" /\ Len(call.todo) > 1 ->
            call' = [call EXCEPT !.stage = "send", !.todo = Tail(@)] /\ UNCHANGED <<shell, heard>>
       [] OTHER -> EndCall(TRUE)

(* The timeout: the request may be waiting still, or the answer is late.   *)
GiveUp ==
  /\ call # None /\ call.stage \in {"sent", "done", "error"}
  /\ faults < MaxFaults /\ faults' = faults + 1
  /\ call' = [call EXCEPT !.stage = "failed"]
  /\ late' = IF call.stage = "sent" THEN [late EXCEPT ![Head(call.todo)] = @ + 1] ELSE late
  /\ UNCHANGED <<shell, up, session, heard, disturbed>>

(* The first failure of a hook leads to ensure_daemon; registering again   *)
(* is allowed to fail before the last attempt; any other failure is final. *)
Fail ==
  /\ call # None /\ call.stage = "failed"
  /\ UNCHANGED <<up, session, late, faults, disturbed>>
  /\ \/ /\ call.for \in Hook /\ ~call.again
        /\ call' = [call EXCEPT !.stage = "ensure"] /\ UNCHANGED <<shell, heard>>
     \/ /\ call.for \in Hook /\ call.again /\ Len(call.todo) > 1
        /\ call' = [call EXCEPT !.stage = "send", !.todo = Tail(@)] /\ UNCHANGED <<shell, heard>>
     \/ /\ call.for \in Hook => call.again /\ Len(call.todo) = 1
        /\ EndCall(FALSE)

Registering(c) == IF c = "session_open" THEN <<c>> ELSE <<"session_open", c>>

(* The daemon answers the ping, or one is started and loads the session.   *)
EnsureDaemon ==
  /\ call # None /\ call.stage = "ensure"
  /\ up' = TRUE
  /\ session' = IF up \/ session = None THEN session ELSE RecoverLiveTiming(session, 0, 0)
  /\ call' = [call EXCEPT !.stage = "send", !.again = TRUE, !.todo = Registering(call.for)]
  /\ UNCHANGED <<shell, late, faults, heard, disturbed>>

DaemonIsNotReady ==
  /\ call # None /\ call.stage = "ensure"
  /\ faults < MaxFaults /\ faults' = faults + 1
  /\ EndCall(FALSE)
  /\ UNCHANGED <<up, session, late, disturbed>>

(***************************************************************************)
(* The daemon.                                                             *)
(***************************************************************************)
Knows(c) == session # None \/ c \in {"session_open", "session_close", "ring"}

Handled(c, s, minimum) ==
  IF c = "session_open" /\ s = None THEN NewSession(0, 0, 0)
  ELSE IF c = "session_close" \/ s = None THEN None
  ELSE CASE c = "session_open"  -> Touch(s, 0)
         [] c = "command_start" -> CommandStart(s, CHOOSE b \in Burst : TRUE, 0, 0)
         [] c = "prompt_ready"  -> PromptReady(s, 0, 0)
         [] c \in {"on", "once"} ->
              ArmAndStart(s, IF c = "once" THEN c ELSE "persistent", minimum, 0,
                          CHOOSE b \in Burst : TRUE, 0, 0)
         [] c = "off"           -> Disarm(s, 0)
         [] c = "name"          -> SetLabel(s, 0)
         [] c = "status"        -> s
         [] c = "ring"          -> ManualRing(s, 0)

Execute ==
  /\ call # None /\ call.stage = "sent" /\ up
  /\ \E m \in Minimum : session' = Handled(Head(call.todo), session, m)
  /\ call' = [call EXCEPT !.stage = IF Knows(Head(call.todo)) THEN "done" ELSE "error"]
  /\ disturbed' = (disturbed /\ (Head(call.todo) # call.for \/ ~Boundary(call.for)))
  /\ UNCHANGED <<shell, up, late, faults, heard>>

ExecuteLate(c) ==
  /\ up /\ late[c] > 0
  /\ late' = [late EXCEPT ![c] = @ - 1]
  /\ \E m \in Minimum : session' = Handled(c, session, m)
  /\ disturbed' = TRUE
  /\ UNCHANGED <<shell, call, up, faults, heard>>

SettleBurst ==
  /\ up /\ session # None /\ session.state = "settling"
  /\ session' = Settle(session, 0)
  /\ UNCHANGED <<shell, call, up, late, faults, heard, disturbed>>

(* Requests die with the daemon.  The saved session is the one in memory,  *)
(* but for a silent reset, which here happens after the restart.           *)
Mut_StopDaemon ==
  /\ up /\ faults < MaxFaults /\ faults' = faults + 1
  /\ up' = FALSE /\ disturbed' = TRUE
  /\ late' = [c \in Command |-> 0]
  /\ UNCHANGED <<shell, call, session, heard>>

StopDaemon ==
  /\ up /\ faults < MaxFaults /\ faults' = faults + 1
  /\ up' = FALSE /\ disturbed' = TRUE
  /\ late' = [c \in Command |-> 0]
  /\ call' = IF call # None /\ call.stage = "sent" THEN [call EXCEPT !.stage = "failed"] ELSE call
  /\ UNCHANGED <<shell, session, heard>>

User   == Submit \/ EnterNothing \/ Return \/ Exec \/ Exit \/ \E c \in Cli : RunCli(c)
Helper == BeginCall \/ Send \/ TakeAnswer \/ GiveUp \/ Fail \/ EnsureDaemon \/ DaemonIsNotReady
Daemon == Execute \/ (\E c \in Command : ExecuteLate(c)) \/ SettleBurst \/ StopDaemon

Next == OpenShell \/ User \/ Helper \/ Daemon

Spec == Init /\ [][Next]_vars

(* The helper and the daemon run on; a user who has not left submits       *)
(* commands now and then, and they return.                                 *)
Fairness ==
  /\ WF_vars(OpenShell) /\ WF_vars(BeginCall \/ Send \/ TakeAnswer \/ Fail \/ EnsureDaemon)
  /\ WF_vars(Execute)
  /\ SF_vars(Submit) /\ SF_vars(Return)

FairSpec == Spec /\ Fairness

(***************************************************************************)
(* Properties.                                                             *)
(***************************************************************************)

(* When the last boundary was answered and nothing disturbed the engine    *)
(* since, the engine knows where the shell is: no burst runs at a prompt,  *)
(* a command of an armed session is measured, and a shell that has left    *)
(* leaves no session behind (run_hook, the hook scripts).  It takes that   *)
(* no entry of PROMPT_COMMAND follows __shellbell_precmd.                  *)
InTime == shell.hooked /\ ~shell.later /\ heard /\ ~disturbed

IdleAtPrompt == Reached("prompt") /\ InTime => session # None /\ session.state # "active"

CommandsAreMeasured ==
  Reached("command") /\ InTime => session # None /\ (session.mode # "off" => session.state = "active")

ExitIsKnown == Reached("gone") /\ InTime => session = None

EngineAgrees == IdleAtPrompt /\ CommandsAreMeasured /\ ExitIsKnown

(* However requests were delayed or lost before, a shell in use that has   *)
(* its hooks does not leave a burst running for ever: again and again the  *)
(* burst settles, which is what lets the timer ring for it.                *)
BurstsEnd == []<>(\/ shell.at = "gone" \/ ~shell.hooked
                  \/ session = None \/ session.state # "active")

(***************************************************************************)
(* The strengthening.                                                      *)
(***************************************************************************)

(* Every helper sends its request alone or after a registration, a late    *)
(* request was given up for a fault of its own, and what a daemon that is  *)
(* down had in memory was lost with it.                                    *)
HelpersAreFit ==
  /\ shell \in Shell /\ call \in Call \cup {None}
  /\ session \in SessionRecord \cup {None}
  /\ call # None => /\ shell.hooks # <<>> /\ call.for = Head(shell.hooks)
                    /\ call.todo \in {<<call.for>>, <<"session_open", call.for>>}
  /\ \A c \in Command : late[c] <= faults
  /\ ~up /\ ~disturbed => session = None

(* The helpers that may still be ahead of a shell that has its hooks, if   *)
(* no entry of PROMPT_COMMAND follows: the last one tells where it is.     *)
Ahead(place) ==
  CASE place = "prompt"  -> {<<>>, <<"session_open">>, <<"prompt_ready">>,
                             <<"session_open", "prompt_ready">>,
                             <<"command_start", "prompt_ready">>}
    [] place = "command" -> {<<>>, <<"command_start">>} \cup {<<c>> : c \in Cli}
    [] place = "gone"    -> {<<>>, <<"session_close">>}

HooksAreFit ==
  /\ shell.at = "new" => /\ ~shell.hooked /\ ~shell.at_prompt /\ shell.hooks = <<>>
                         /\ call = None /\ ~heard
  /\ shell.hooked /\ ~shell.later =>
       /\ shell.hooks \in Ahead(shell.at)
       /\ shell.at = "prompt" => shell.at_prompt
       /\ shell.hooks # <<>> /\ Head(shell.hooks) = "session_open" => ~heard

(* What the engine knows of a shell at a place, and the place a boundary   *)
(* tells it.                                                               *)
Agrees(place, s) ==
  /\ place = "prompt"  => s # None /\ s.state # "active"
  /\ place = "command" => s # None /\ (s.mode # "off" => s.state = "active")
  /\ place = "gone"    => s = None

Place(c) == CASE c = "prompt_ready"  -> "prompt"
              [] c = "session_close" -> "gone"
              [] OTHER               -> "command"

(* A boundary that was executed in time has told the engine, and as long   *)
(* as no other is ahead the engine knows.                                  *)
ToldInTime ==
  /\ call # None /\ call.stage = "done" /\ call.todo = <<call.for>>
       /\ Boundary(call.for) /\ ~disturbed => Agrees(Place(call.for), session)
  /\ InTime /\ (\A n \in DOMAIN shell.hooks : ~Boundary(shell.hooks[n])) =>
       Agrees(shell.at, session)

IInv == TypeOK /\ HelpersAreFit /\ HooksAreFit /\ ToldInTime
=============================================================================
