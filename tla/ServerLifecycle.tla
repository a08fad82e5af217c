---------------------------- MODULE ServerLifecycle ----------------------------
(***************************************************************************)
(* The server's process: the supervisor that runs one ASGI server after    *)
(* another (cli/commands.py), the desktop shell that owns it               *)
(* (cli/desktop.py), the lifespan that starts and closes the application   *)
(* runtime of each run (runtime/asgi.py, runtime/application.py), and the  *)
(* configuration file an Admin update commits                              *)
(* (config/admin/persistence.py).  The supervisor's thread also runs the   *)
(* event loop; the tray's thread and the Admin requests ask for restarts   *)
(* and stops at any moment.  uvicorn is external: it starts the lifespan,  *)
(* serves until should_exit, and shuts the lifespan down.                  *)
(***************************************************************************)
EXTENDS Naturals

CONSTANTS MaxVersions,     \* bound: versions of the configuration file
          MaxRestarts,     \* bound: restarts asked for
          MaxRelaunches,   \* bound: runs the tray schedules
          MaxFailures      \* bound: steps of a start or a close that fail

ASSUME ServerAssumption ==
    /\ MaxVersions \in Nat \ {0}
    /\ MaxRestarts \in Nat /\ MaxRelaunches \in Nat /\ MaxFailures \in Nat

VARIABLES desktop,         \* whether a tray owns the supervisor, or the terminal
          main,            \* the supervisor's thread
          scheduled, running, stopRequested,
          generation, seen, \* _restart_generation, and what the loop read of it
          handle,          \* the server run() has registered: none, made, exiting
          onDisk,          \* the version in the managed env file
          cache,           \* the version get_settings has cached; 0: none
          loaded,          \* the version the current run was built from
          promised,        \* the version on disk at the last accepted restart
          owed,            \* an automatic restart not asked for yet
          tray,            \* the tray's thread
          stage,           \* how far a start is
          gate,            \* how far a close is, and what it is for
          purpose,
          delivery,        \* the platform's runtime: none, open or quiet
          cli, workflow, transcriber, providers,
          isClosed,        \* the runtime's is_closed
          relaunches, failures

supervisorVars == <<main, scheduled, running, seen, handle, loaded>>
requestVars == <<stopRequested, generation, promised, owed>>
configVars == <<onDisk, cache>>
trayVars == <<tray, relaunches>>
resources == <<delivery, cli, workflow, transcriber, providers>>
runtimeVars == <<resources, stage, gate, purpose, isClosed, failures>>
serverVars == <<desktop, supervisorVars, requestVars, configVars, trayVars, runtimeVars>>

ServerTypeOK ==
    /\ desktop \in BOOLEAN
    /\ main \in {"away", "entered", "looping", "loading", "building", "starting", "serving",
                 "closing", "left", "over"}
    /\ scheduled \in BOOLEAN /\ running \in BOOLEAN /\ stopRequested \in BOOLEAN
    /\ generation \in 0..MaxRestarts /\ seen \in 0..generation
    /\ handle \in {"none", "made", "exiting"}
    /\ onDisk \in 1..MaxVersions
    /\ cache \in 0..onDisk /\ loaded \in 0..onDisk /\ promised \in 0..onDisk
    /\ owed \in BOOLEAN
    /\ tray \in {"none", "open", "alive", "dead", "quitting"}
    /\ stage \in {"none", "warm", "delivery", "cli", "workflow", "platform", "ready"}
    /\ gate \in {"none", "quiesce", "workflow", "delivery", "transcriber", "providers"}
    /\ purpose \in {"none", "repair", "close"}
    /\ delivery \in {"none", "open", "quiet"}
    /\ cli \in BOOLEAN /\ workflow \in BOOLEAN
    /\ transcriber \in BOOLEAN /\ providers \in BOOLEAN
    /\ isClosed \in BOOLEAN /\ relaunches \in 0..MaxRelaunches /\ failures \in 0..MaxFailures

ServerInit ==
    /\ desktop \in BOOLEAN
    /\ main = (IF desktop THEN "away" ELSE "entered")
    /\ scheduled = FALSE /\ running = FALSE /\ stopRequested = FALSE
    /\ generation = 0 /\ seen = 0 /\ handle = "none"
    /\ onDisk = 1 /\ cache = (IF desktop THEN 1 ELSE 0)
    /\ loaded = 0 /\ promised = 0 /\ owed = FALSE
    /\ tray = (IF desktop THEN "dead" ELSE "none")
    /\ stage = "none" /\ gate = "none" /\ purpose = "none"
    /\ delivery = "none" /\ cli = FALSE /\ workflow = FALSE
    /\ transcriber = FALSE /\ providers = FALSE
    /\ isClosed = FALSE /\ relaunches = 0 /\ failures = 0

-----------------------------------------------------------------------------
(* ServerSupervisor.run                                                     *)
EnterRun ==
    /\ main = "entered"
    /\ scheduled' = FALSE
    /\ IF stopRequested THEN main' = "over" /\ UNCHANGED running
                        ELSE main' = "looping" /\ running' = TRUE
    /\ UNCHANGED <<desktop, seen, handle, loaded, requestVars, configVars, trayVars, runtimeVars>>

ReadGeneration ==
    /\ main = "looping"
    /\ IF stopRequested THEN main' = "left" /\ UNCHANGED seen
                        ELSE main' = "loading" /\ seen' = generation
    /\ UNCHANGED <<desktop, scheduled, running, handle, loaded, requestVars, configVars, trayVars,
                   runtimeVars>>

(* get_settings: the cached settings, or those of the file.                 *)
Settings == IF cache = 0 THEN onDisk ELSE cache

LoadSettings ==
    /\ main = "loading"
    /\ loaded' = Settings /\ cache' = Settings
    /\ main' = "building"
    /\ UNCHANGED <<desktop, scheduled, running, seen, handle, onDisk, requestVars, trayVars,
                   runtimeVars>>

(* Faults, for the checks only: only a stop, or a restart, is looked for.   *)
StoppedMeanwhile == stopRequested

RestartedMeanwhile == generation # seen

(* _run_once: what was asked for since the settings were loaded.            *)
Outdated == stopRequested \/ generation # seen

(* build_asgi_app makes the runtime; the server is registered under the lock. *)
BuildServer ==
    /\ main = "building"
    /\ \E voice \in BOOLEAN : transcriber' = voice
    /\ providers' = TRUE /\ delivery' = "none" /\ cli' = FALSE /\ workflow' = FALSE
    /\ isClosed' = FALSE /\ stage' = "warm" /\ gate' = "none" /\ purpose' = "none"
    /\ handle' = IF Outdated THEN "exiting" ELSE "made"
    /\ main' = "starting"
    /\ UNCHANGED <<desktop, scheduled, running, seen, loaded, requestVars, configVars, trayVars,
                   failures>>

-----------------------------------------------------------------------------
(* ApplicationRuntime.start                                                 *)
Starting(at) == main = "starting" /\ gate = "none" /\ stage = at

ToStage(next) == stage' = next /\ UNCHANGED <<gate, purpose, isClosed, failures>>

WarmCache ==
    /\ Starting("warm")
    /\ \E configured \in BOOLEAN :
         IF configured THEN ToStage("delivery") ELSE ToStage("ready")
    /\ UNCHANGED <<desktop, supervisorVars, requestVars, configVars, trayVars, resources>>

OpenDelivery ==
    /\ Starting("delivery")
    /\ delivery' = "open" /\ ToStage("cli")
    /\ UNCHANGED <<desktop, supervisorVars, requestVars, configVars, trayVars,
                   cli, workflow, transcriber, providers>>

OpenSessions ==
    /\ Starting("cli")
    /\ cli' = TRUE /\ ToStage("workflow")
    /\ UNCHANGED <<desktop, supervisorVars, requestVars, configVars, trayVars,
                   delivery, workflow, transcriber, providers>>

OpenWorkflow ==
    /\ Starting("workflow")
    /\ workflow' = TRUE /\ ToStage("platform")
    /\ UNCHANGED <<desktop, supervisorVars, requestVars, configVars, trayVars,
                   delivery, cli, transcriber, providers>>

StartPlatform ==
    /\ Starting("platform")
    /\ ToStage("ready")
    /\ UNCHANGED <<desktop, supervisorVars, requestVars, configVars, trayVars, resources>>

(* A failed start closes everything; a failed start of messaging alone only *)
(* what messaging had opened (_start_messaging_if_configured).              *)
StartFails ==
    /\ main = "starting" /\ gate = "none" /\ stage \notin {"none", "ready"}
    /\ failures < MaxFailures /\ failures' = failures + 1
    /\ gate' = "quiesce"
    /\ purpose' = IF stage = "warm" THEN "close" ELSE "repair"
    /\ UNCHANGED <<desktop, supervisorVars, requestVars, configVars, trayVars, resources, stage,
                   isClosed>>

(* uvicorn serves unless it was told to leave while it started.             *)
Serve ==
    /\ Starting("ready")
    /\ IF handle = "exiting"
       THEN main' = "closing" /\ gate' = "quiesce" /\ purpose' = "close"
       ELSE main' = "serving" /\ UNCHANGED <<gate, purpose>>
    /\ UNCHANGED <<desktop, scheduled, running, seen, handle, loaded, requestVars, configVars,
                   trayVars, resources, stage, isClosed, failures>>

-----------------------------------------------------------------------------
(* ApplicationRuntime.close and _cleanup_messaging: each gate is passed     *)
(* only when the one before it is.                                          *)
ToGate(next) == gate' = next /\ UNCHANGED <<stage, purpose, isClosed, failures>>

Quiesce ==
    /\ gate = "quiesce"
    /\ delivery' = IF delivery = "open" THEN "quiet" ELSE delivery
    /\ ToGate("workflow")
    /\ UNCHANGED <<desktop, supervisorVars, requestVars, configVars, trayVars,
                   cli, workflow, transcriber, providers>>

(* The workflow's close ends its sessions; without one they are stopped.    *)
CloseWorkflow ==
    /\ gate = "workflow"
    /\ workflow' = FALSE /\ cli' = FALSE
    /\ ToGate("delivery")
    /\ UNCHANGED <<desktop, supervisorVars, requestVars, configVars, trayVars,
                   delivery, transcriber, providers>>

(* Messaging is gone: a repaired start goes on without it.                  *)
CloseDelivery ==
    /\ gate = "delivery"
    /\ delivery' = "none"
    /\ IF purpose = "repair"
       THEN gate' = "none" /\ purpose' = "none" /\ stage' = "ready"
            /\ UNCHANGED <<isClosed, failures>>
       ELSE ToGate("transcriber")
    /\ UNCHANGED <<desktop, supervisorVars, requestVars, configVars, trayVars,
                   cli, workflow, transcriber, providers>>

CloseTranscriber ==
    /\ gate = "transcriber"
    /\ transcriber' = FALSE
    /\ ToGate("providers")
    /\ UNCHANGED <<desktop, supervisorVars, requestVars, configVars, trayVars,
                   delivery, cli, workflow, providers>>

CloseProviders ==
    /\ gate = "providers"
    /\ providers' = FALSE /\ isClosed' = TRUE /\ gate' = "none" /\ main' = "left"
    /\ UNCHANGED <<desktop, scheduled, running, seen, handle, loaded, requestVars, configVars,
                   trayVars, delivery, cli, workflow, transcriber, stage, purpose, failures>>

(* A fault, for the checks only: what fails is passed over.                 *)
PassOver ==
    /\ gate \in {"quiesce", "workflow", "delivery"}
    /\ failures < MaxFailures /\ failures' = failures + 1
    /\ gate' = "transcriber"
    /\ UNCHANGED <<desktop, supervisorVars, requestVars, configVars, trayVars, resources, stage,
                   purpose, isClosed>>

(* A failed gate keeps everything behind it.  A repair that fails is a      *)
(* failed start, whose close begins again at the first gate; a close that   *)
(* fails leaves the runtime not closed.                                     *)
GateFails ==
    /\ gate # "none"
    /\ failures < MaxFailures /\ failures' = failures + 1
    /\ IF purpose = "repair"
       THEN gate' = "quiesce" /\ purpose' = "close" /\ UNCHANGED main
       ELSE gate' = "none" /\ main' = "left" /\ UNCHANGED purpose
    /\ UNCHANGED <<desktop, scheduled, running, seen, handle, loaded, requestVars, configVars,
                   trayVars, resources, stage, isClosed>>

-----------------------------------------------------------------------------
(* should_exit, or a signal, ends the serving; the lifespan is shut down.   *)
LeaveServing ==
    /\ main = "serving"
    /\ \/ handle = "exiting" /\ UNCHANGED failures
       \/ failures < MaxFailures /\ failures' = failures + 1
    /\ main' = "closing" /\ gate' = "quiesce" /\ purpose' = "close"
    /\ UNCHANGED <<desktop, scheduled, running, seen, handle, loaded, requestVars, configVars,
                   trayVars, resources, stage, isClosed>>

(* A fault, for the checks only: any restart asked for is made.             *)
AnyRestart == generation # seen /\ ~stopRequested

(* _run_once's answer                                                       *)
RestartNow == generation # seen /\ ~stopRequested /\ isClosed

AfterRun ==
    /\ main = "left" /\ handle # "none"
    /\ handle' = "none"
    /\ IF RestartNow THEN main' = "looping" /\ cache' = 0
                     ELSE UNCHANGED <<main, cache>>
    /\ UNCHANGED <<desktop, scheduled, running, seen, loaded, onDisk, requestVars, trayVars,
                   runtimeVars>>

(* run's finally block; the processes still registered are killed, and the  *)
(* event loop and what lived in it are gone.                                *)
LeaveRun ==
    /\ main = "left" /\ handle = "none"
    /\ running' = FALSE /\ main' = "over"
    /\ delivery' = "none" /\ cli' = FALSE /\ workflow' = FALSE
    /\ transcriber' = FALSE /\ providers' = FALSE
    /\ UNCHANGED <<desktop, scheduled, seen, handle, loaded, requestVars, configVars, trayVars,
                   stage, gate, purpose, isClosed, failures>>

ThreadEnds ==
    /\ main = "over" /\ desktop
    /\ main' = "away"
    /\ UNCHANGED <<desktop, scheduled, running, seen, handle, loaded, requestVars, configVars,
                   trayVars, runtimeVars>>

-----------------------------------------------------------------------------
(* request_restart: coalesced into a run that is scheduled, else the        *)
(* running server is told to leave.                                         *)
RequestRestart ==
    IF stopRequested \/ ~(scheduled \/ running)
    THEN UNCHANGED <<generation, promised, handle>>
    ELSE /\ generation < MaxRestarts /\ generation' = generation + 1
         /\ promised' = onDisk
         /\ handle' = IF ~scheduled /\ handle = "made" THEN "exiting" ELSE handle

RequestStop ==
    /\ stopRequested' = TRUE /\ scheduled' = FALSE
    /\ handle' = IF handle = "made" THEN "exiting" ELSE handle

(* apply_admin_config, answered while the server serves: the file is        *)
(* replaced, the cache cleared, and a change that needs it asks for a       *)
(* restart once the answer is sent.                                         *)
ApplyConfig ==
    /\ main = "serving" /\ onDisk < MaxVersions
    /\ onDisk' = onDisk + 1 /\ cache' = 0
    /\ owed' \in {owed, TRUE}
    /\ UNCHANGED <<desktop, supervisorVars, stopRequested, generation, promised, trayVars,
                   runtimeVars>>

AutomaticRestart ==
    /\ main \in {"serving", "closing"} /\ owed
    /\ owed' = FALSE
    /\ RequestRestart
    /\ UNCHANGED <<desktop, main, scheduled, running, seen, loaded, stopRequested, configVars,
                   trayVars, runtimeVars>>

(* The tray: its menu's restart first looks at the server's thread.         *)
ThreadAlive == main # "away"

TrayRestart ==
    /\ tray = "open"
    /\ tray' = IF ThreadAlive THEN "alive" ELSE "dead"
    /\ UNCHANGED <<desktop, supervisorVars, requestVars, configVars, relaunches, runtimeVars>>

TrayAsks ==
    /\ tray = "alive" /\ tray' = "open"
    /\ RequestRestart
    /\ UNCHANGED <<desktop, main, scheduled, running, seen, loaded, stopRequested, owed, configVars,
                   relaunches, runtimeVars>>

(* _start_server, the first time by run: schedule_run reserves the run.     *)
TrayStarts ==
    /\ tray = "dead" /\ tray' = "open"
    /\ IF ThreadAlive \/ stopRequested \/ scheduled \/ running
       THEN UNCHANGED <<main, scheduled, relaunches>>
       ELSE /\ relaunches < MaxRelaunches /\ relaunches' = relaunches + 1
            /\ scheduled' = TRUE /\ main' = "entered"
    /\ UNCHANGED <<desktop, running, seen, handle, loaded, requestVars, configVars, runtimeVars>>

(* The tray's admin entry opens the page of the current settings.           *)
TrayOpensAdmin ==
    /\ tray = "open" /\ cache = 0
    /\ cache' = onDisk
    /\ UNCHANGED <<desktop, supervisorVars, requestVars, onDisk, trayVars, runtimeVars>>

TrayQuits ==
    /\ tray = "open" /\ tray' = "quitting"
    /\ RequestStop
    /\ UNCHANGED <<desktop, main, running, seen, loaded, generation, promised, owed, configVars,
                   relaunches, runtimeVars>>

StartSteps == WarmCache \/ OpenDelivery \/ OpenSessions \/ OpenWorkflow \/ StartPlatform \/ Serve

CloseSteps == Quiesce \/ CloseWorkflow \/ CloseDelivery \/ CloseTranscriber \/ CloseProviders

SupervisorSteps ==
    \/ EnterRun \/ ReadGeneration \/ LoadSettings \/ BuildServer \/ AfterRun \/ LeaveRun
    \/ ThreadEnds \/ (handle = "exiting" /\ LeaveServing)

ServerProgress == SupervisorSteps \/ StartSteps \/ CloseSteps \/ AutomaticRestart

ServerNext ==
    \/ ServerProgress \/ StartFails \/ GateFails \/ LeaveServing \/ ApplyConfig
    \/ TrayRestart \/ TrayAsks \/ TrayStarts \/ TrayOpensAdmin \/ TrayQuits

(* The supervisor's thread runs, and what it awaits ends, well or badly.    *)
ServerSpec == ServerInit /\ [][ServerNext]_serverVars /\ WF_serverVars(ServerProgress)

-----------------------------------------------------------------------------
(* A resource outlives its users: as long as the workflow may run a turn it *)
(* has its delivery, its sessions and the providers, whichever gate of a    *)
(* start or a close failed before (_cleanup_messaging); nothing is left of  *)
(* a runtime that says it is closed; and none is built over one that is not. *)
UsersFirst ==
    /\ workflow => cli /\ providers /\ delivery # "none"
    /\ cli => delivery # "none"
    /\ delivery # "none" => providers
    /\ delivery = "open" /\ main = "serving" => workflow

ClosedHoldsNothing ==
    isClosed => delivery = "none" /\ ~cli /\ ~workflow /\ ~transcriber /\ ~providers

BuiltOnEmptyGround ==
    main \in {"looping", "loading", "building"} =>
        delivery = "none" /\ ~cli /\ ~workflow /\ ~transcriber /\ ~providers

RuntimeOwned == UsersFirst /\ ClosedHoldsNothing /\ BuiltOnEmptyGround

(* A restart that was accepted is served: whatever serves without having    *)
(* been told to leave loaded its settings after the last accepted restart,  *)
(* from a file at least as new as the one that restart was asked for,       *)
(* through the cache and with several coalesced requests; and nothing       *)
(* serves on after a stop (request_restart, request_stop, _run_once).       *)
RestartsServed ==
    main \in {"starting", "serving"} /\ handle = "made" =>
        seen = generation /\ loaded >= promised /\ ~stopRequested

(* What a start or a close holds is in order, and a restart is not lost.    *)
ServerSound == RuntimeOwned /\ RestartsServed

(* Quitting ends the server: its thread is joined by the tray.              *)
HasQuit == stopRequested => main = "away" /\ ~running

QuitEnds == []<>HasQuit
=============================================================================
