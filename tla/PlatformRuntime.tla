---------------------------- MODULE PlatformRuntime ---------------------------
(***************************************************************************)
(* The runtime of a messaging platform (messaging/platforms/discord.py and *)
(* telegram.py) from its start to the close of the application that owns   *)
(* it (ApplicationRuntime._cleanup_messaging): ingress, the workflow and   *)
(* the delivery of platforms/outbox.py are closed in this order, through   *)
(* finally clauses that go on when a step before them failed or was        *)
(* cancelled, and a cleanup that failed is repeated as a whole by the next *)
(* close.  The SDKs are external: a call of theirs succeeds or fails, and  *)
(* Telegram's Application.stop returns once its handlers did.  The factory *)
(* builds one runtime of the configured platform.                          *)
(***************************************************************************)
EXTENDS Naturals

CONSTANTS Events,            \* messages of users the runtime is configured to hear
          Notices,           \* awaitables given to the outbox to run by themselves
          MaxPlatformFaults  \* bound on the calls that fail or are cancelled

ASSUME PlatformAssumption == MaxPlatformFaults \in Nat

VARIABLES platform,
          setup,        \* where start() is
          failedTries,        \* failed tries of the connection step under way
          sdk,          \* the parts of the SDK that are alive
          exit,         \* the done callback of the Discord client task
          accepting, connected,
          inbound,      \* inbound[e]: the handler of event e
          background,   \* background[n]: the task of notice n in the outbox
          outboxClosed, limiterOn,
          workflowOpen,     \* the application still has the workflow open
          cleaning,      \* where _cleanup_messaging is
          raising,      \* an exception travels through the finally clauses
          faults

platformVars ==
    <<platform, setup, failedTries, sdk, exit, accepting, connected, inbound, background,
      outboxClosed, limiterOn, workflowOpen, cleaning, raising, faults>>

(* "open": the Discord client was not closed; "client": its task runs.      *)
SdkParts == {"open", "client", "initialized", "running", "polling"}

Setups == {"new", "connecting", "initialize", "app", "polling", "started", "failed"}

Ingress == {"closing", "draining", "stopping", "ingress"}
Delivery == {"outbox", "gathering", "limiter", "sdk"}

PlatformTypeOK ==
    /\ platform \in {"discord", "telegram"} /\ setup \in Setups /\ failedTries \in 0 .. 2
    /\ sdk \subseteq SdkParts /\ exit \in {"none", "pending", "seen"}
    /\ accepting \in BOOLEAN /\ connected \in BOOLEAN
    /\ inbound \in [Events -> {"new", "handling", "reporting", "done"}]
    /\ background \in [Notices -> {"new", "running", "cancelled", "done", "refused"}]
    /\ outboxClosed \in BOOLEAN /\ limiterOn \in BOOLEAN /\ workflowOpen \in BOOLEAN
    /\ cleaning \in {"up", "quiesce", "workflow", "closed", "failed"} \union Ingress \union Delivery
    /\ raising \in BOOLEAN /\ faults \in 0 .. MaxPlatformFaults

(* Discord's client is built with its runtime, Telegram's by the start.     *)
Built(p) == IF p = "discord" THEN {"open"} ELSE {}

PlatformInit ==
    /\ platform \in {"discord", "telegram"}
    /\ setup = "new" /\ failedTries = 0
    /\ sdk = Built(platform)
    /\ exit = "none" /\ accepting = FALSE /\ connected = FALSE
    /\ inbound = [e \in Events |-> "new"] /\ background = [n \in Notices |-> "new"]
    /\ outboxClosed = FALSE /\ limiterOn = FALSE /\ workflowOpen = TRUE
    /\ cleaning = "up" /\ raising = FALSE /\ faults = 0

Fault == faults < MaxPlatformFaults /\ faults' = faults + 1

-----------------------------------------------------------------------------
(* Start.  A start that raises is cleaned up at once.                       *)
PlatformStartFails == setup' = "failed" /\ cleaning' = "quiesce"

StartDiscord ==
    /\ platform = "discord" /\ setup = "new" /\ setup' = "connecting"
    /\ sdk' = sdk \union {"client"} /\ accepting' = TRUE /\ limiterOn' = TRUE
    /\ UNCHANGED <<platform, failedTries, exit, connected, inbound, background, outboxClosed,
                   workflowOpen, cleaning, raising, faults>>

MarkConnected ==
    /\ "client" \in sdk /\ accepting /\ ~connected
    /\ connected' = TRUE
    /\ UNCHANGED <<platform, setup, failedTries, sdk, exit, accepting, inbound, background,
                   outboxClosed, limiterOn, workflowOpen, cleaning, raising, faults>>

(* asyncio.wait returns: the client ended, or readiness was seen first, or  *)
(* 30 seconds passed, which may be when readiness has just been set.        *)
StartReturns ==
    /\ setup = "connecting"
    /\ IF "client" \in sdk
       THEN \/ connected /\ setup' = "started" /\ UNCHANGED cleaning
            \/ PlatformStartFails
       ELSE PlatformStartFails
    /\ UNCHANGED <<platform, failedTries, sdk, exit, accepting, connected, inbound, background,
                   outboxClosed, limiterOn, workflowOpen, raising, faults>>

(* The client task ends of itself, or because it was closed or cancelled.   *)
ClientExits ==
    /\ "client" \in sdk /\ sdk' = sdk \ {"client"} /\ exit' = "pending"
    /\ IF "open" \notin sdk \/ cleaning = "draining" THEN UNCHANGED faults ELSE Fault
    /\ UNCHANGED <<platform, setup, failedTries, accepting, connected, inbound, background,
                   outboxClosed, limiterOn, workflowOpen, cleaning, raising>>

ObserveClientExit ==
    /\ exit = "pending" /\ exit' = "seen"
    /\ connected' = (connected /\ ~accepting)
    /\ UNCHANGED <<platform, setup, failedTries, sdk, accepting, inbound, background, outboxClosed,
                   limiterOn, workflowOpen, cleaning, raising, faults>>

StartTelegram ==
    /\ platform = "telegram" /\ setup = "new" /\ setup' = "initialize"
    /\ UNCHANGED <<platform, failedTries, sdk, exit, accepting, connected, inbound, background,
                   outboxClosed, limiterOn, workflowOpen, cleaning, raising, faults>>

(* A connection step that fails is tried three times.                       *)
ConnectionStepFails ==
    /\ setup \in {"initialize", "polling"}
    /\ \/ /\ failedTries < 2 /\ failedTries' = failedTries + 1
          /\ UNCHANGED <<setup, cleaning>>
       \/ failedTries = 2 /\ PlatformStartFails /\ UNCHANGED failedTries
    /\ UNCHANGED <<platform, sdk, exit, accepting, connected, inbound, background,
                   outboxClosed, limiterOn, workflowOpen, raising, faults>>

(* The start of the application is cancelled, which closes it; the updater  *)
(* may take itself for running then.                                        *)
StartCancelled ==
    /\ setup \in {"connecting", "initialize", "app", "polling"}
    /\ Fault /\ PlatformStartFails
    /\ sdk' \in {sdk} \union {sdk \union {p} : p \in {"polling"} \intersect {setup}}
    /\ UNCHANGED <<platform, failedTries, exit, accepting, connected, inbound, background,
                   outboxClosed, limiterOn, workflowOpen, raising>>

Initialized ==
    /\ setup = "initialize" /\ setup' = "app" /\ failedTries' = 0
    /\ sdk' = sdk \union {"initialized"}
    /\ UNCHANGED <<platform, exit, accepting, connected, inbound, background, outboxClosed,
                   limiterOn, workflowOpen, cleaning, raising, faults>>

AppStarts ==
    /\ setup = "app"
    /\ \/ /\ setup' = "polling" /\ sdk' = sdk \union {"running"} /\ limiterOn' = TRUE
          /\ UNCHANGED cleaning
       \/ PlatformStartFails /\ UNCHANGED <<sdk, limiterOn>>
    /\ UNCHANGED <<platform, failedTries, exit, accepting, connected, inbound, background,
                   outboxClosed, workflowOpen, raising, faults>>

PollingStarts ==
    /\ setup = "polling" /\ setup' = "started"
    /\ sdk' = sdk \union {"polling"} /\ connected' = TRUE
    /\ UNCHANGED <<platform, failedTries, exit, accepting, inbound, background, outboxClosed,
                   limiterOn, workflowOpen, cleaning, raising, faults>>

-----------------------------------------------------------------------------
Handling == {e \in Events : inbound[e] \in {"handling", "reporting"}}

(* What is not a text or a voice note of an allowed user is dropped.        *)
Arrives(e) ==
    /\ inbound[e] = "new"
    /\ \E wanted \in BOOLEAN :
          inbound' = [inbound EXCEPT ![e] = IF wanted THEN "handling" ELSE "done"]
    /\ UNCHANGED <<platform, setup, failedTries, sdk, exit, accepting, connected, background,
                   outboxClosed, limiterOn, workflowOpen, cleaning, raising, faults>>

(* Discord runs a task for each event.                                      *)
DiscordEvent(e) == platform = "discord" /\ "client" \in sdk /\ accepting /\ Arrives(e)

(* Telegram runs one handler after another, also for updates that were      *)
(* fetched before polling stopped.                                          *)
TelegramUpdate(e) ==
    /\ platform = "telegram" /\ "running" \in sdk /\ setup = "started" /\ Handling = {}
    /\ Arrives(e)

(* A handler that raised answers the user with an error message.            *)
HandlerMoves(e) ==
    /\ \/ inbound[e] = "handling" /\ inbound' = [inbound EXCEPT ![e] = "reporting"]
       \/ e \in Handling /\ inbound' = [inbound EXCEPT ![e] = "done"]
    /\ UNCHANGED <<platform, setup, failedTries, sdk, exit, accepting, connected, background,
                   outboxClosed, limiterOn, workflowOpen, cleaning, raising, faults>>

(* A handler or the workflow gives work to the outbox, which refuses it     *)
(* once it is closed (fire_and_forget, _require_open).                      *)
FireAndForget(n) ==
    /\ background[n] = "new" /\ (workflowOpen \/ Handling # {})
    /\ background' = [background EXCEPT ![n] = IF outboxClosed THEN "refused" ELSE "running"]
    /\ UNCHANGED <<platform, setup, failedTries, sdk, exit, accepting, connected, inbound,
                   outboxClosed, limiterOn, workflowOpen, cleaning, raising, faults>>

NoticeEnds(n) ==
    /\ background[n] \in {"running", "cancelled"}
    /\ background' = [background EXCEPT ![n] = "done"]
    /\ UNCHANGED <<platform, setup, failedTries, sdk, exit, accepting, connected, inbound,
                   outboxClosed, limiterOn, workflowOpen, cleaning, raising, faults>>

-----------------------------------------------------------------------------
(* The application closes, or closes again after a cleanup that failed.     *)
Cleanup ==
    /\ \/ cleaning = "up" /\ setup = "started"
       \/ cleaning = "failed"
    /\ cleaning' = "quiesce" /\ raising' = FALSE
    /\ UNCHANGED <<platform, setup, failedTries, sdk, exit, accepting, connected, inbound,
                   background, outboxClosed, limiterOn, workflowOpen, faults>>

(* A fault, for the checks only: what failed before is forgotten.           *)
AlwaysQuiesced(failed) == connected' = FALSE /\ cleaning' = "workflow"

(* Delivery is not touched unless ingress is known to have stopped.         *)
Quiesced(failed) ==
    connected' = FALSE /\ cleaning' = IF failed THEN "failed" ELSE "workflow"

(* What Telegram's quiesce does once polling is over.                       *)
StopsApplication ==
    IF "running" \in sdk THEN cleaning' = "stopping" /\ UNCHANGED connected
                         ELSE Quiesced(raising')

QuiesceRuntime ==
    /\ cleaning = "quiesce"
    /\ accepting' = FALSE /\ UNCHANGED raising
    /\ IF {"open", "polling"} \intersect sdk # {}
       THEN cleaning' = "closing" /\ UNCHANGED connected
       ELSE IF platform = "discord" THEN cleaning' = "draining" /\ UNCHANGED connected
       ELSE StopsApplication
    /\ UNCHANGED <<platform, setup, failedTries, sdk, exit, inbound, background, outboxClosed,
                   limiterOn, workflowOpen, faults>>

(* Client.close or Updater.stop returns, or fails having closed or not.     *)
IngressCloses ==
    /\ cleaning = "closing"
    /\ \/ sdk' = sdk \ {"open", "polling"} /\ UNCHANGED <<raising, faults>>
       \/ sdk' \in {sdk, sdk \ {"open", "polling"}} /\ Fault /\ raising' = TRUE
    /\ IF platform = "discord" THEN cleaning' = "draining" /\ UNCHANGED connected
                               ELSE StopsApplication
    /\ UNCHANGED <<platform, setup, failedTries, exit, accepting, inbound, background,
                   outboxClosed, limiterOn, workflowOpen>>

(* Application.stop returns when no handler runs, or fails.                 *)
ApplicationStops ==
    /\ cleaning = "stopping"
    /\ \/ /\ Handling = {} /\ sdk' = sdk \ {"running"}
          /\ Quiesced(raising) /\ UNCHANGED <<raising, faults>>
       \/ Fault /\ raising' = TRUE /\ Quiesced(TRUE) /\ UNCHANGED sdk
    /\ UNCHANGED <<platform, setup, failedTries, exit, accepting, inbound, background,
                   outboxClosed, limiterOn, workflowOpen>>

(* The client task was cancelled if it ran; gather returns when it ended.   *)
StartTaskDrained ==
    /\ cleaning = "draining" /\ "client" \notin sdk /\ exit # "pending"
    /\ cleaning' = "ingress"
    /\ UNCHANGED <<platform, setup, failedTries, sdk, exit, accepting, connected, inbound,
                   background, outboxClosed, limiterOn, workflowOpen, raising, faults>>

(* A fault, for the checks only: the handlers are not waited for.           *)
InboundAbandoned ==
    /\ cleaning = "ingress"
    /\ Quiesced(raising)
    /\ UNCHANGED <<platform, setup, failedTries, sdk, exit, accepting, inbound, background,
                   outboxClosed, limiterOn, workflowOpen, raising, faults>>

InboundDrained ==
    /\ cleaning = "ingress" /\ Handling = {}
    /\ Quiesced(raising)
    /\ UNCHANGED <<platform, setup, failedTries, sdk, exit, accepting, inbound, background,
                   outboxClosed, limiterOn, workflowOpen, raising, faults>>

(* A cancellation of the cleanup while a gather waits: the tasks waited for *)
(* are cancelled and gather returns when they ended.                        *)
CleanupCancelled ==
    /\ cleaning \in {"draining", "ingress", "gathering"} /\ ~raising
    /\ Fault /\ raising' = TRUE
    /\ UNCHANGED <<platform, setup, failedTries, sdk, exit, accepting, connected, inbound,
                   background, outboxClosed, limiterOn, workflowOpen, cleaning>>

(* A fault, for the checks only: delivery is closed without waiting for the *)
(* workflow.                                                                *)
DeliveryFirst ==
    /\ cleaning = "workflow" /\ cleaning' = "outbox"
    /\ UNCHANGED <<platform, setup, failedTries, sdk, exit, accepting, connected, inbound,
                   background, outboxClosed, limiterOn, workflowOpen, raising, faults>>

(* The workflow closes, unless an earlier cleanup closed it.                *)
WorkflowCloses ==
    /\ cleaning = "workflow"
    /\ \/ workflowOpen' = FALSE /\ cleaning' = "outbox" /\ UNCHANGED faults
       \/ workflowOpen /\ Fault /\ cleaning' = "failed" /\ UNCHANGED workflowOpen
    /\ UNCHANGED <<platform, setup, failedTries, sdk, exit, accepting, connected, inbound,
                   background, outboxClosed, limiterOn, raising>>

OutboxCloses ==
    /\ cleaning = "outbox" /\ cleaning' = "gathering" /\ outboxClosed' = TRUE
    /\ background' = [n \in Notices |-> IF background[n] = "running" THEN "cancelled"
                                        ELSE background[n]]
    /\ UNCHANGED <<platform, setup, failedTries, sdk, exit, accepting, connected, inbound,
                   limiterOn, workflowOpen, raising, faults>>

OutboxDrained ==
    /\ cleaning = "gathering" /\ \A n \in Notices : background[n] # "cancelled"
    /\ cleaning' = "limiter"
    /\ UNCHANGED <<platform, setup, failedTries, sdk, exit, accepting, connected, inbound,
                   background, outboxClosed, limiterOn, workflowOpen, raising, faults>>

CleanedUp(failed) == cleaning' = IF failed THEN "failed" ELSE "closed"

LimiterShutsDown ==
    /\ cleaning = "limiter"
    /\ \/ limiterOn' = FALSE /\ UNCHANGED <<raising, faults>>
       \/ limiterOn' \in {limiterOn, FALSE} /\ Fault /\ raising' = TRUE
    /\ IF platform = "telegram" THEN cleaning' = "sdk" ELSE CleanedUp(raising')
    /\ UNCHANGED <<platform, setup, failedTries, sdk, exit, accepting, connected, inbound,
                   background, outboxClosed, workflowOpen>>

ApplicationShutsDown ==
    /\ cleaning = "sdk"
    /\ \/ sdk' = sdk \ {"initialized"} /\ UNCHANGED <<raising, faults>> /\ CleanedUp(raising)
       \/ Fault /\ raising' = TRUE /\ CleanedUp(TRUE) /\ UNCHANGED sdk
    /\ UNCHANGED <<platform, setup, failedTries, exit, accepting, connected, inbound, background,
                   outboxClosed, limiterOn, workflowOpen>>

-----------------------------------------------------------------------------
PlatformStarts ==
    \/ StartReturns \/ ObserveClientExit \/ ConnectionStepFails \/ Initialized
    \/ AppStarts \/ PollingStarts

CleanupSteps ==
    \/ QuiesceRuntime \/ IngressCloses \/ ApplicationStops \/ StartTaskDrained \/ InboundDrained
    \/ WorkflowCloses \/ OutboxCloses \/ OutboxDrained \/ LimiterShutsDown
    \/ ApplicationShutsDown

(* A client that was closed or cancelled ends, and so do handlers and the   *)
(* tasks of the outbox.                                                     *)
PlatformProgress ==
    \/ PlatformStarts \/ CleanupSteps
    \/ ("open" \notin sdk \/ cleaning = "draining") /\ ClientExits
    \/ \E e \in Events : HandlerMoves(e)
    \/ \E n \in Notices : NoticeEnds(n)

PlatformNext ==
    \/ StartDiscord \/ StartTelegram \/ MarkConnected \/ ClientExits
    \/ PlatformStarts \/ StartCancelled \/ CleanupSteps \/ Cleanup \/ CleanupCancelled
    \/ \E e \in Events : DiscordEvent(e) \/ TelegramUpdate(e) \/ HandlerMoves(e)
    \/ \E n \in Notices : FireAndForget(n) \/ NoticeEnds(n)

PlatformSpec == PlatformInit /\ [][PlatformNext]_platformVars /\ WF_platformVars(PlatformProgress)

-----------------------------------------------------------------------------
(* Delivery outlives whatever may still use it: the outbox is closed only   *)
(* when no inbound handler runs and the workflow is closed, and so refuses  *)
(* nobody (_cleanup_messaging).                                             *)
DeliveryOutlivesIngress ==
    /\ outboxClosed \/ cleaning \in Delivery => Handling = {} /\ ~workflowOpen
    /\ \A n \in Notices : background[n] # "refused"

(* A runtime that started says that it is connected until the exit of its   *)
(* client was observed, and one that was quiesced never does again.         *)
ReadinessTold ==
    /\ setup = "started" /\ cleaning = "up" => (connected <=> exit # "seen")
    /\ cleaning \in {"workflow", "closed", "failed"} \union Delivery => ~connected

(* A cleanup that reports success left nothing of the SDK, no task of the   *)
(* outbox and no limiter, whatever failed in the cleanups before it.        *)
CleanupComplete ==
    cleaning = "closed" =>
        /\ sdk = {} /\ exit # "pending" /\ ~accepting /\ ~limiterOn /\ ~workflowOpen
        /\ \A n \in Notices : background[n] \notin {"running", "cancelled"}

PlatformSound == DeliveryOutlivesIngress /\ ReadinessTold /\ CleanupComplete

(* A start and a cleanup come to an end.                                    *)
PlatformSettled ==
    setup \in {"new", "started", "failed"} /\ cleaning \in {"up", "closed", "failed"}
=============================================================================
