------------------------------- MODULE Launcher -------------------------------
(***************************************************************************)
(* The desktop launcher: it starts the Docker Compose stack, waits until   *)
(* GET /health says "ok" or a deadline passes, and shows on a splash what  *)
(* came of it; the operator may try again, and may stop the stack from the *)
(* tray at any time.                                                       *)
(*                                                                         *)
(* Code: launcher/core/src/orchestrator.rs, health.rs, runner.rs, state.rs,*)
(* config.rs, launcher/src-tauri/src/lib.rs, src-tauri/ui/index.html.      *)
(*                                                                         *)
(* Docker and the containers are external.  The docker commands take any   *)
(* time (they have no timeout); what follows them is timed, in units of    *)
(* which a poll interval and a request take a few.                         *)
(***************************************************************************)
EXTENDS Naturals

CONSTANTS
  HealthTimeout,   \* health_timeout
  PollInterval,    \* health_poll_interval
  ClientTimeout    \* UreqHealthClient.timeout

\* What the proofs ask of the constants.
LauncherAssumption == HealthTimeout \in Nat /\ PollInterval \in Nat /\ ClientTimeout \in Nat

VARIABLES
  installed,  \* the project directory has a docker-compose.yml
  startup,    \* where the startup thread is: its LauncherState, or what it is doing next
  shown,      \* what the splash shows: "busy", "error", or "frontend" when it has moved on
  elapsed,    \* time since the deadline was set
  timer,      \* what is left of the sleep, or of the request before it times out
  unsure,     \* the request under way has met a stack that was not healthy
  running,    \* the containers run
  healthyFor  \* how long /health would have answered "ok" by now, at most Long; 0 when it would not

launcherVars == <<installed, startup, shown, elapsed, timer, unsure, running, healthyFor>>

Long == ClientTimeout + 2
Terminal == {"RuntimeUnavailable", "StartupFailed", "Ready", "HealthTimedOut"}
Startups == {"None", "CheckingRuntime", "ComposeUp", "Polling", "Waiting", "Sleeping"} \cup Terminal

Show(state) ==
  IF state = "Ready" THEN "frontend"
  ELSE IF state \in Terminal THEN "error" ELSE "busy"

Emit(state) == startup' = state /\ shown' = Show(state)

-----------------------------------------------------------------------------
(* start_stack, in a thread of its own. *)

\* docker_daemon_available; compose_is_running only chooses the words.
CheckRuntime ==
  /\ startup = "CheckingRuntime"
  /\ Emit("ComposeUp") \/ Emit("RuntimeUnavailable")
  /\ UNCHANGED <<installed, elapsed, timer, unsure, running, healthyFor>>

BeginRequest ==
  /\ timer' = ClientTimeout
  /\ unsure' = (healthyFor = 0)

\* compose_up, also when the stack runs already; then the deadline is set.
ComposeUp ==
  /\ startup = "ComposeUp"
  /\ \/ Emit("StartupFailed") /\ running' \in {running, TRUE}
        /\ UNCHANGED <<elapsed, timer, unsure>>
     \/ Emit("Polling") /\ running' = TRUE
        /\ elapsed' = 0 /\ BeginRequest
  /\ UNCHANGED <<installed, healthyFor>>

PollOk ==
  /\ startup = "Polling" /\ healthyFor > 0
  /\ Emit("Ready")
  /\ UNCHANGED <<installed, elapsed, timer, unsure, running, healthyFor>>

\* "degraded", refused, or no answer in time: only of a stack that was not healthy all along.
PollNotOk ==
  /\ startup = "Polling" /\ unsure
  /\ Emit("Waiting")
  /\ UNCHANGED <<installed, elapsed, timer, unsure, running, healthyFor>>

GiveUp ==
  /\ startup = "Waiting" /\ elapsed >= HealthTimeout
  /\ Emit("HealthTimedOut")
  /\ UNCHANGED <<installed, elapsed, timer, unsure, running, healthyFor>>

Sleep ==
  /\ startup = "Waiting" /\ elapsed < HealthTimeout
  /\ startup' = "Sleeping" /\ timer' = PollInterval
  /\ UNCHANGED <<installed, shown, elapsed, unsure, running, healthyFor>>

\* A mutant of PollAgain: the deadline is looked at after the sleep as well.
PollAgainUnlessLate ==
  /\ startup = "Sleeping" /\ timer = 0
  /\ IF elapsed >= HealthTimeout THEN Emit("HealthTimedOut") /\ UNCHANGED <<timer, unsure>>
     ELSE startup' = "Polling" /\ BeginRequest /\ UNCHANGED shown
  /\ UNCHANGED <<installed, elapsed, running, healthyFor>>

PollAgain ==
  /\ startup = "Sleeping" /\ timer = 0
  /\ startup' = "Polling" /\ BeginRequest
  /\ UNCHANGED <<installed, shown, elapsed, running, healthyFor>>

\* Time passes for everybody; what is due is not late.
Timed == startup \in {"Polling", "Sleeping"}
Tick ==
  /\ startup # "Waiting"
  /\ Timed => timer > 0
  /\ IF Timed THEN timer' = timer - 1 /\ elapsed' = elapsed + 1 ELSE UNCHANGED <<timer, elapsed>>
  /\ healthyFor' = IF healthyFor \in 1..(Long - 1) THEN healthyFor + 1 ELSE healthyFor
  /\ UNCHANGED <<installed, startup, shown, unsure, running>>

-----------------------------------------------------------------------------
(* The operator, and the stack. *)

\* retry_startup: the button is there while an error is shown.  Without a project directory it
\* starts nothing, and the splash keeps saying "Retrying".
Retry ==
  /\ shown = "error"
  /\ shown' = "busy"
  /\ startup' = IF installed THEN "CheckingRuntime" ELSE startup
  /\ UNCHANGED <<installed, elapsed, timer, unsure, running, healthyFor>>

\* stop_stack: `docker compose stop` may also fail, and change nothing.
StopStack ==
  /\ installed /\ running
  /\ running' = FALSE
  /\ healthyFor' = 0
  /\ unsure' = (unsure \/ startup = "Polling")
  /\ UNCHANGED <<installed, startup, shown, elapsed, timer>>

\* The backend becomes healthy, or a component of it fails.
HealthChanges ==
  /\ running
  /\ healthyFor' = IF healthyFor = 0 THEN 1 ELSE 0
  /\ unsure' = (unsure \/ (startup = "Polling" /\ healthyFor > 0))
  /\ UNCHANGED <<installed, startup, shown, elapsed, timer, running>>

-----------------------------------------------------------------------------
\* LauncherConfig::resolve, then spawn_startup; the stack may be up already (a warm start).
Init ==
  /\ installed \in BOOLEAN
  /\ startup = IF installed THEN "CheckingRuntime" ELSE "None"
  /\ shown = IF installed THEN "busy" ELSE "error"
  /\ elapsed = 0 /\ timer = 0 /\ unsure = FALSE
  /\ running \in (IF installed THEN BOOLEAN ELSE {FALSE})
  /\ healthyFor \in (IF running THEN {0, Long} ELSE {0})

Next ==
  \/ CheckRuntime \/ ComposeUp
  \/ PollOk \/ PollNotOk \/ GiveUp \/ Sleep \/ PollAgain
  \/ Tick \/ Retry \/ StopStack \/ HealthChanges

Spec == Init /\ [][Next]_launcherVars

-----------------------------------------------------------------------------
TypeOK ==
  /\ installed \in BOOLEAN /\ running \in BOOLEAN /\ unsure \in BOOLEAN
  /\ startup \in Startups
  /\ shown \in {"busy", "error", "frontend"}
  /\ elapsed \in 0..(HealthTimeout + PollInterval + ClientTimeout)
  /\ timer \in 0..(PollInterval + ClientTimeout)
  /\ healthyFor \in 0..Long

\* A startup gives up no earlier than its timeout, no later than one interval and one request
\* after it, and never on a stack that has been healthy for longer than a request takes: what
\* it did not see before its deadline it looks at once more.
GivesUpFairly ==
  [][startup # "HealthTimedOut" /\ startup' = "HealthTimedOut" =>
       /\ elapsed \in HealthTimeout..(HealthTimeout + PollInterval + ClientTimeout)
       /\ healthyFor <= ClientTimeout + 1]_launcherVars
=============================================================================
