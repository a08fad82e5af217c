# A verification development for Free Claude Code

Free Claude Code is a local proxy: it accepts Anthropic Messages and OpenAI
Responses requests, routes each one to a configured provider, and streams the
translated answer back. Beside the proxy runs a messaging bridge: prompts sent
to a Telegram or Discord bot become turns of a reply tree, and each turn is
executed by a managed Claude Code process.

This directory holds TLA+ models of the program's services (the parts in which
several tasks or threads share state) and of its translations (the parts that
turn a request, a stream, a failure or a file into another form), TLC
configurations that check them on small instances, and TLAPS proofs for every
value of the constants.

Paths below are relative to `src/free_claude_code/`.

Contents: 1 Inventory. 2 Reading the models. 3 The modules. 4 The runs.
5 Fairness. 6 What is proved. 7 Disagreements between code and documentation.
8 Observations. 9 What is not modelled. 10 Plan.

## 1 Inventory

The program is one asyncio event loop with a few threads beside it (the
debounce timers of the session file, the tray of the desktop shell). Code
between two `await`s runs without interleaving; everything that can go wrong
between tasks goes wrong where a task is suspended: at a lock, a semaphore, a
condition, a sleep, a network operation, a future. A task can be *cancelled* at
each of those places, because a client disconnects, a user sends `/stop`, or
the server shuts down.

### The proxy

| component | state it keeps | operations | correct when |
|---|---|---|---|
| provider admission (`providers/admission.py`, `providers/http.py`) | the recovery episode (leader, waiters, probe, readiness, exhaustion), the semaphore, per-session budget and permit | `run_with_retry`, `open_attempt`, `accept`, `retry`, `retry_immediately`, `reject`, `abandon`, `aclose` | slots are returned exactly once; one leader per episode, and it is alive; nobody waits for a notification that never comes; nobody exceeds its budget |
| sliding window (`core/rate_limit.py`) | a deque of timestamps, a lock | `acquire`, `acquire_if` | no interval of one window holds more than `rate_limit` acquisitions; every caller is served |
| opening a stream (`providers/openai_chat/provider.py`, `output_cap.py`, `usage.py`, adapters) | learned output caps, the corrections already used | create, correct, retry, close | no correction is repeated; a learned cap only sinks; stream and attempt are handed over together |
| streaming an answer (`providers/openai_chat/`, `providers/stream_recovery.py`, `core/anthropic/streaming/`) | the ledger of blocks, the hold-back buffer, tool calls in pieces, the attempts | read, flush, retry, continue, repair, finish | the client gets one well-formed message; nothing discarded was sent; nothing is repeated or lost |
| native tools of NIM (`providers/nvidia_nim/`) | framers, held text; aliases of parameters | feed, finish; sanitize, alias, restore | no chunking changes the answer; arguments come back under the client's names |
| Responses protocol (`core/openai_responses/`) | active blocks, output slots, provisional errors; namespaces of tools | the assembler, history and tool conversion | items open and close once, in order; a broken call never gets out |
| Anthropic conversion (`core/anthropic/conversion.py`) | the ledger of one history | messages, tool turns, reasoning | each result follows its call; nothing the client said is lost |
| provider profiles (`providers/openai_chat/profiles.py`, `providers/deepseek/`, `mistral/`, `open_router/`, `google_openai/`) | the cache of thought signatures | preparing and reshaping a history | what must be replayed is replayed, or thinking goes off |
| routing and reasoning (`application/`, `core/reasoning.py`) | none | model references, preferences, effort, encoders | the preference that counts is the one that is sent |
| key pool (`providers/openai_chat/key_rotation.py`) | cooldowns, cursor, clients, retired | pick, report, rotate, close | no key is starved; a call gives up only after what was available |
| failure policy (`providers/failure_policy.py`, `core/failures.py`) | none | qualification, classification | what is reported as retryable was retried |
| provider generations (`runtime/provider_manager.py`) | current, retired and unpublished generations, lease counts, cleanup tasks, the discovery task, two locks | `acquire`, lease release, `replace`, `refresh_model_list_cache`, `start_refresh`, `close` | no generation is cleaned up in use; none is forgotten; shutdown reports success only when all are closed |
| response streams (`api/response_streams.py`, `core/trace.py`, handlers) | the first chunk, the body, the lease, the cleanup task | commit, replay, finalize | finalized exactly once, whatever is cancelled |
| application runtime, supervisor, desktop shell (`runtime/application.py`, `runtime/asgi.py`, `cli/commands.py`, `cli/desktop.py`) | the stages of startup and shutdown; the restart generation; the configuration file and its cache | start, admin apply, restart, stop (retryable) | everything started is stopped, in reverse; an accepted restart is served with the settings it was for |
| configuration (`config/admin/`, `config/env_files.py`, `config/env_migrations.py`, `runtime/application.py`) | layers of env files, the settings in force, the keys that wait for a restart | start with migrations, validate and apply an update, restart | what was stored is what a restart reads; a secret shown masked is not written back; a retired key keeps its say |
| model discovery (`providers/runtime/discovery.py`, `model_cache.py`, `api/model_catalog.py`) | a cache of lists per provider, a background refresh | warm, refresh, test, replace, offer | no list of a retired generation is offered; every provider that was asked is accounted for |
| HTTP API, web tools, diagnostics | request-local | handlers, fetches, logging | sequential |

### The messaging bridge

| component | state it keeps | operations | correct when |
|---|---|---|---|
| messaging queue (`messaging/limiter.py`) | list and map of queued updates, futures, pause, background tasks, the worker | `enqueue`, `fire_and_forget`, the worker, `shutdown` | every future is settled; a key is queued once; only the latest version is sent; flood waits are kept |
| conversation trees (`messaging/trees/`) | graph, queue, active claim and tombstones per tree; an index of references | admit, claim, session, complete, fail, finish and claim next, cancel node, subtree or all, restore | one execution per tree; FIFO; nothing queued is stranded; a cancelled node is not revived; a restart finds what was stored |
| workflow and intake (`messaging/workflow.py`, `turn_intake.py`, `commands.py`) | the state lock, stop and clear generations, the messages it answers for | receive, admit, `/stop`, `/clear` (global or reply), the startup notice, restore | a command covers everything received before it; no message is forgotten |
| node runner (`messaging/node_runner.py`, `node_event_pipeline.py`, `transcript/`) | the transcript, subagents, throttled edits | events, edits, report, cancel | the user sees what the process said, and one outcome |
| managed sessions (`cli/managed/`, `cli/process_registry.py`) | pending and real sessions, processes, pids | get, register, start, stop, remove, stop all | one process per session; no process outlives its run |
| session persistence (`messaging/session/`) | snapshot, debounce timer, file, message log | schedule, flush, clear, load | no write and no crash brings back what a clear removed; no older snapshot replaces a newer one |
| voice notes (`messaging/voice.py`, `platforms/voice_flow.py`) | pending notes, aliases, handoffs, active cancellations | reserve, bind, hand off, cancel, join | a cancelled note is not handed over; commands in notes do not wait for each other |
| outbox and adapters (`messaging/platforms/`) | SDK clients and their tasks, handlers under way, background tasks, readiness | start, handle an event, deliver with retries and batches, quiesce, close | delivery outlives ingress and the workflow; a closed outbox starts nothing; what returned was done |
| rendering (`messaging/rendering/`) | none | formatting | |

### How they interact

    HTTP request -> provider generations (lease) -> conversion, policies
                 -> opening -> key pool -> admission (one per provider and
                    generation) -> sliding window -> upstream
    upstream     -> streaming -> (assembler) -> response stream -> client
    user message -> workflow (state lock) -> conversation trees -> node runner
                    -> managed process -> HTTP request to the proxy
    voice note   -> voice registry -> workflow
    node runner, workflow -> outbox -> messaging queue -> sliding window -> platform
    trees, message log -> session store -> file
    admin apply  -> provider generations.replace; messaging restart; supervisor
    shutdown     -> workflow, queue, sessions, then generations.close

Calls are direct awaits. The shared state of each component is reached only
through its own methods, which is why each is a module of its own: what the
models need of their neighbours is that a window admits eventually, that a
managed process ends or is killed, and that a leased runtime is not cleaned up.
Where two components do share a decision, one module has both: the trees, the
intake and the commands (`ConversationTree`), the trees, their runners, the
commands and the store (`StoredConversation`), the supervisor, the runtime and
the configuration file (`ServerLifecycle`), the ledger, the hold-back buffer and
the retry session (`StreamTranslation`), the judgement before a retry and the
one for the client (`FailurePolicy`).

### Which behaviours are hard

* cancellation at any await, a second one during the cleanup after the first;
* state read before an await and used after it (the permit of a session, the
  generation of a turn, the tree of a reply, the snapshot of a tree);
* a condition variable whose notifications must reach every waiter;
* updates applied out of order (compaction of edits, retries after a sleep,
  snapshots written by threads);
* something shutting down while it is being replaced, filled or retried;
* an exception in the middle of a command that has changed half of the state;
* an answer that breaks off after a part of it was sent, in any chunking;
* a history, a tool schema or a file of a shape nobody wrote a test for;
* limits: attempt budgets, the bulkhead, the rate window, drain timeouts.

`PROJECT.json` lists the hazards one by one, each at its line, with the
properties that cover it.

## 2 Reading the models

**One action is the code between two suspension points.** A coroutine is a
value of `pc` (or `task`, `flow`, `run`, `stage`): the place where it is
suspended. A critical section of an `asyncio.Condition` or `Lock` which does not
suspend while it holds the lock is a single step and needs no lock variable;
locks held across an await (`_replace_lock`, `_close_lock`, the workflow's state
lock, the manager's lock, the store's and the writer's) are variables. In
`SessionPersistence` and `ServerLifecycle`, which have threads, a step is what
one lock or one attribute access makes atomic.

**Translations.** A translation is checked over all inputs of small size: its
input is written, or chosen, by the model (`MaxChunks`, `MaxItems`, `MaxTokens`
bound it), then the code's steps follow it, and the property compares what came
out with what went in. Where the code is a pure function it is an operator; a
recursive one is a recursive function or a fold.

**Time.** Only `SlidingWindow` has a clock, and `CredentialPool` the rest of
each cooldown. Elsewhere a deadline is the fact whether it has passed (`ready`,
`cooled`, `paused`), which an action of its own makes true.

**Data.** Messages, errors and requests are model values, numbers, or classes
of outcomes. Nothing is formatted, except where the conversion is the subject:
`ToolNames` joins names, `NativeToolStream` and `NativeArguments` read markup
piece by piece.

**Faults.** Some definitions carry the comment "a fault, for the checks only".
They are the mutated forms that `PROJECT.json` names under `mutants`; no action
uses them. Each property of each passing run has one at least, and TLC finds
the property violated when the fault replaces the definition it belongs to, so
no property holds merely because of the shape of the model. A property that is a
conjunction over several modules has one fault for each of them.

**History.** Some variables record the past for the properties and no guard of
the other variables reads them: `history` (SlidingWindow), `version`, `issued`,
`newest` (MessagingQueue; its `version` also orders the first steps of newly
created tasks), `clearedAt`, `stuck` (SessionPersistence), `faulty`, `abandoned`
(ManagedSessions), `unreached` (ManagedMessages), `passedOver`, `tried`,
`cooled`, `disturbed` (CredentialPool), `upstreamArgs`, `recovered`, `muddled`
(StreamTranslation), `promised` (ServerLifecycle), `dropped` (CredentialPool),
`failed` (ProviderGenerations).

**Sources outside the repository** that appear in the models: the upstream
(answers, rejects, fails or cuts off), a managed process (reports, ends), the
platform clients, uvicorn, and asyncio's semaphore, whose queue order is
abstracted. They are parts of the actions that use them.

**Side by side.** Services that do not act on each other, and translations that
only meet through their inputs, share a run: `MCServices` and `MCTranslation`
have a variable `part` that names the module the behaviour is about; that one
moves and the others stay as they began. The states add up instead of
multiplying, every module is explored completely at its own bounds, and what is
checked is the same as in a run of its own.

## 3 The modules

### RecoveryCircuit and ProviderAdmission

`RecoveryCircuit` is what the admission controller promises: a circuit that is
closed, open, probing, testing or exhausted; while it is not closed the only
upstream attempts are its owner's probes, one at a time; a dismissed execution
never sends again; a budget is never exceeded. It knows no gates, permits,
slots or conditions.

`ProviderAdmission` is the controller with its two users, `run_with_retry` and
the stream runner of `providers/openai_chat/provider.py`. Its correspondence:

| model | code |
|---|---|
| `episode` | `_episode` (`_RecoveryEpisode`): `generation`, `leader`, `waiters`, `probe_active`, `ready_at` reached, `terminal_failure`, `terminal_until` reached |
| `free` | the value of the bulkhead semaphore |
| `permit`, `attempts`, `terminal` | the gate permit, the attempts started and the terminal error of a `ProviderRetrySession` |
| `woken` | waiters of the condition that were notified and have not run yet |
| `resolved`, `outcome`, `nested` | the attempt's recorded outcome; what the runner does after the `finally`; an interrupted stream whose attempt is still open while its continuation is requested |
| `GateRefuses`, `GateOpen`, `GateReopens`, `GateLeads`, `GateWaits`, `BackoffOver` | the branches of `_wait_for_gate` |
| `PassQuota`, `AcquireSlot` | `open_attempt`: window, semaphore, re-check of the permit after each |
| `CallSucceeds` ... `OperationCancelled` | the operation of `run_with_retry`, the creation of a stream |
| `FirstChunk` ... `StreamRecovers` | the body of the stream runner |
| `CloseFinishes` | the close of the stream, then `ProviderAttempt.aclose` |
| `CloseInterrupted`, `CloseRaises` | the two ways to leave a `finally` block before `aclose`: a cancellation strikes the close of any stream (`close_provider_stream` catches only `Exception`); the collector of a continuation closes without that guard (`provider.py:828`), and its close raises |
| `Abandon`, `AbandonInterrupted`, `ShieldedAbandon` | the shielded abandonment of an unresolved attempt |

`Circuit == INSTANCE RecoveryCircuit WITH ...` gives the refinement mapping:
the phase and the owner are read off the episode, `started` is `attempts`,
`dismissed` is `terminal`.

Modelling notes. `MidstreamRecovery` switches recovery of a stream that has
sent output (only then can an execution own two slots). `ClosesMayFail` switches
the two ways to leave a close before it releases its attempt; finding 2 is about
them. The ghost `leaked` holds the closes that were left, and the properties name
it: `SlotsBalance` counts what they keep, `LeaderIsAlive` excepts their leaders,
and `EveryExecutionEnds` says exactly what they can bring to a halt.

### SlidingWindow

`StrictSlidingWindowLimiter`. A round of `_acquire` is one action that reads
the clock twice, `MaxLag` apart at most; `Sleep` computes the wake-up from the
oldest entry; `acquire_if` may refuse; a sleeper may be cancelled.

### MessagingQueue

`MessagingRateLimiter`. `queue` is `_queue_list`, `func` and `futures` are the
two components of `_queue_map`, `job` is what the worker popped
(`_active_futures` among it), `stage` is the progress of `shutdown`. `Enqueue`
compacts, `Submit`/`Retry` are the background task of `fire_and_forget`,
`Take`/`PauseOver`/`StartOperation` the worker, `Flood` a flood wait,
`DrainTimesOut` the bounded wait of `shutdown`. A call without a dedup key is a
call whose key nobody shares.

### ProviderGenerations

`ProviderRuntimeManager`. A runtime's number stands for its generation.
`Clients` lease and release; `Admins` call `replace` or
`refresh_model_list_cache`; `Closers` call `close`; every generation may have a
discovery task and a cleanup task. `lock` and `closeLock` are the two locks
held across awaits. `CommitFails` is a replacement whose commit callback
raises: the candidate is discarded, and stays owned in `unpublished` when its
cleanup fails. `StartRefresh` happens only for the first generation: the
startup of the application is its only caller.

### ConversationTree

The trees of one chat with the workflow's state lock and the intake. A *turn*
is one delivery of one prompt. Since every node is claimed at most once, a turn
also names the claim and the task of its execution; a tree is named by its
root's turn. A reference (`Prompt(m)`, `Status(i)`) is what a user can reply
to.

| model | code |
|---|---|
| `Receive`, `Discard`, `Admit` | `turn_intake.py`: the token read at receipt, its comparison at admission, duplicates, the second lookup of the parent's tree |
| `EnqueueOrClaim`, `FinishAndClaimNext` | `trees/runtime.py`, `trees/queue.py`: the claim, the FIFO, the successor |
| `MayWrite` | the guard of every late write: published tree, active claim, no tombstone |
| `RecordSession`, `CompleteClaim`, `FailClaim`, `RunnerEscapes` | what a runner reports |
| `Struck` | what the cancellation of a task does, by where it is suspended |
| `StopReply`, `ClearReply`, `CancelAll` | cancellation of a node, a literal reply subtree, or a chat |
| `Subtree`, `Descendants`, `Restorable` | `trees/graph.py`: the reply closure, the logical closure, the validation of a snapshot |
| `EndDrain` | the drain of cancelled tasks, bounded by five seconds |

Modelling notes. (1) There is one chat, so the stop generation and the clear
generation are one number. (2) A cancelled runner may still make any report:
the repository's runner makes only a `fail_claim`, which is refused, but
`NodeProcessor` is an interface and the trees must not depend on it. This only
adds behaviours. (3) `SlowStops` says whether a process may take longer to stop
than the drain waits (`cli/managed/session.py:274` kills a process which
ignores termination only after five seconds, the same bound as the drain). (4)
`_ui_target` raises for a node whose status was cleared; `LacksTarget` is its
condition, `Raise` what remains of the command (finding 4). (5) The order in
which `/clear` of a subtree visits nodes before such a failure is not fixed, so
any subset may have been visited.

### StoredConversation

The same trees from the store's side: what a command or a runner saves, and
what a restart makes of it. `kept` is the store, `SnapshotOf` the snapshot of a
tree; a runner saves in the step that changes its tree, a command takes its
snapshots in the transition task (`Command`, `TakeSnapshots`) and saves them in
`ReturnCommand`, after it was resumed. `Writes` says which snapshots are
written, `Settled` what the store is after a command. `CloseConversations` and
`Closed1` are the shutdown, `Crash1` a crash, `Restart` a start with the
normalisation and the repair of status messages. References to status messages
are left to `ConversationTree`, the write of the file to `SessionPersistence`.

### SessionPersistence

`SessionStore`, `DebouncedJsonPersistence` and `ManagedMessageLog` with their threads.
`store` and `file` are the contents in memory and on disk, `contentGeneration`
is `_save_generation`; `ScheduleSave` replaces the timer, `TimerFires`,
`ClaimTimer`, `TakeSnapshot`, `TakeWriterLock`, `WriteFile` are a timer thread
with the places where another thread may overtake it; `IsCurrent` is the test
under the writer lock, `InvalidateOlder` what `write_data` does before an
authoritative clear. `Crash` may come between any two steps.

### ManagedSessions

`ManagedClaudeSessionManager` and `ManagedClaudeSession` as the node runner drives
them. `pendingSessions`, `real`, `tempToReal`, `realToTemp` are the manager's
maps; `process` and `lifecycle` a session's process and lock; `pids` the process
registry. A run goes through `GetOrCreate`, `Launch`/`Launched`, `Register`,
`RunFinished`, `RemoveSession` and may be cancelled at each; `Sweep` is
`stop_all`. `Aliases` are all identities of a session, `Known` the sessions that
can be found.

### ManagedMessages

Which platform messages a later `/clear` finds, and which ones nobody but a clear
deletes. `posted` is the chat, `logged` its log, `replies` the links from a reply
to the turn it answers, `turn` a delivery of a prompt, which may be the second of
the same one. A prompt or a reply is received, its status sent, recorded and
admitted; a turn whose parent was removed, or that an order overtook, is rejected
with the messages of `RejectedIds`, which it then deletes one await at a time. A
command (`directive`) takes the ids it clears under the lock and deletes them
outside; its own message and its feedback are recorded. `InHand` is what somebody
still handles, `unreached` what a refused delete left.

### VoiceNotes

`PendingVoiceRegistry` and the flow of a note: `Reserve`, `StatusSent`,
`BindStatus`, `HandOff`, `HandoffStarts`, `HandoffEnds`; `CancelVoices` takes
the targets out of the registry and cancels their handoffs, `VoicesCancelled`
waits for them. `Owned` is `_entry_for_claim`, `Excluded` the handoffs a command
may not wait for (`protects` are the commands running in a handoff).

### ServerLifecycle

`run`, `request_restart` and `request_stop` of the supervisor, the tray's
thread, the lifespan of one run and the configuration file. `stage` is how far a
start is (`WarmCache`, `OpenDelivery`, `OpenSessions`, `OpenWorkflow`,
`StartFails`), `gate` how far a close is (`Quiesce`, `CloseWorkflow`,
`CloseDelivery`, `CloseTranscriber`, `CloseProviders`, each of which may fail:
`GateFails`); `cache` is the version that the cached `get_settings` holds,
`loaded` the one a run was built from, `promised` the one on disk when a restart
was last accepted.

### ResponseStream

One request: `AcquireLease`, `OpenBody`, the first chunk before there is a
response, `StartResponse`, the chunks, the terminal frame of a body that fails
(`TerminalChunk`, `BodyFails`), and the cleanup task that the end, a disconnect
and the owner's close share (`StartCleanup`, `WaitThrough`, `CleanupBody`,
`CleanupRelease`).

### StreamOpening

`_create_stream` for concurrent requests that share the learned output caps:
`Corrected` is an adapter's correction, `CapRetry`, `UsageRetry`, `AdapterRetry`
the three kinds of `_next_create_retry_body`, `Lowest`/`CapAfter` what is learned
from an answer, `RetryDecided` the policy, `CloseStream` and `CloseAttempt` the
cleanup. Each of its awaits may be cancelled too: `CloseStruck` is a cancellation
of the close of the stream, which leaves stream and attempt (finding 2 again, on
another way out).

### StreamTranslation

One streamed answer. `ledger` is the `AnthropicStreamLedger` with the states of
its tools, `heldEvents` and `committed` the hold-back buffer, `clientView` the
message as a client puts it together. `EmitChunk` is the body of the loop of
`run()`: `EmitReasoning`, then the hook of OpenRouter and Cloudflare
(`EmitDetails`, with the redacted blocks that `GeneratedOutput` does not count),
then the content through the tag parser and the tool parser (`EmitContent`;
`heldPart` is what the two keep), then the calls (`ProcessToolCall` is
`process_tool_call`). `Finish` is the end of a complete answer; `RetryEarly`, `RecoverMidstream`, `RepairTool`, `Continue`,
`FailFinally` are the decisions of `RecoveryController` and what they do. The
pieces of an answer carry the number of the attempt they came from, which is
what tells a repetition from a continuation.

### ResponsesAssembly

The assembler of Responses events. `active` are the blocks by index (also
reused, missing and never started ones), `slots` the output items; `TextAt`,
`EnsureAt`, `BlockStops`, `HoldBack`, `Finished` are the operations of the
assembler, `SourceFails` and `ClientLeaves` the ends from outside.

### NativeToolStream and NativeArguments

`NativeToolStream` is the framer of each field (`Fed`, `FinishFramer`) and what
the stream makes of their blocks; the model writes a text and the upstream cuts
it anywhere. `NativeArguments` is the parser of the arguments of one call and
the decoding of the tree by the types of its schema.

### RequestConversion and RequestPolicies

`RequestConversion` first converts the items of a Responses client (one action
per kind of item, with the pending reasoning and the quarantine of broken
calls), then the messages (`ConvertMessage`, with the drain of the ledger, and
`FinishHistory`). `RequestPolicies` EXTENDS it with what DeepSeek, Mistral,
OpenRouter and Google do before (`PrepareHistory`) and after (`ReshapeBody`,
`StripReasoning`).

### ReasoningPolicies

The steps of one request from its model name to the field of the request body:
`MatchedRoute` and `ResolvedPreference` (routing), `ClientPolicy` and `Resolve`
(the policy), `Encoded` (the encoders of the providers).

### ToolNames and ToolSchemas

`ToolNames`: `WireName`, `ConvertTools`, the identity of a call that comes back
(`Identity`) and its replay. `ToolSchemas`: `Sanitize`, `AliasParameters` with
`FreshAlias`, and `RestoreArguments`.

### FailurePolicy

`Qualifies` is the judgement before a retry, of the head of a chain of exceptions;
`ReportFailure` the classification of the last error, by the end of its chain.
`Failures` are the chains of up to three: what this code raises from, or while
handling, something else (`HiddenHere`), and what the SDK and HTTPX do
(`HiddenInLibraries`). `Override` is NIM's, `AttemptFails` the decision of the
session and of a stream, `GateRefusesAttempt` a `ProviderRecoveryExhausted`, which
carries the last error of another execution.

### CredentialPool

`ProviderCredentialPool` and `RotatingOpenAIClient._call_with_fallback`: `Select` with its two strategies,
`CallFallsBack`, `RecordSuccess`, `CloseClients`/`CloseClient`.

### SnapshotRestore

`RestoreFile`: which trees of a session file are restored (`Connected`,
`NoOverlap`), what becomes of what was running (`SettledTree`), the repair of
its messages and the file that is saved, over several restarts.

### TurnTranscript

The events of a process (`SayChunk` ... `EndTask`, `ProcessErrs`), the transcript
(`shownSegments`, `stack`), the throttled edits (`Edit`, `UpdateIfDue`) and the
ends of a turn.

### AdminConfig

Five layers (`repo`, `managed`, `explicitFile`, `environ` above the template) as
functions from keys to values that name their layer. `StartServer` copies the
user file of earlier versions, renames the retired key (`Migrate`) and reads
`Settings` (`Loaded`); `Submit` is an update from the UI, of which `Writable`
keeps what is neither locked nor a mask and `Target` is the file that would be
written; `RejectUpdate`, `ApplyForRestart` and `ApplyNow` are the three ways
`_apply_admin_config` ends. `Prospective` is what is validated and run.

### ModelCatalog

`StartServing` asks the providers that models refer to, `BackgroundAsks` and
`BackgroundEnds` are the task that asks the others, `RefreshNow`/`RefreshReturns`
the refresh an administrator waits for, `BeginReplacement`/`Publish` a new
generation with its scope, `TestProvider`/`TestListed`/`TestStored` the test of a
provider on a lease, `BeginClose`/`EndClose` the end. `CacheLists` is what enters
the cache, `OfferedModels` the list a client gets.

### PlatformRuntime and PlatformDelivery

`PlatformRuntime` is the life of the one runtime the factory builds, Discord's
or Telegram's: `StartDiscord`, `MarkConnected`, `StartReturns`, the connection
steps of Telegram with their three tries, the handlers of events, the tasks of
the outbox, and the cleanup of the application through its `finally` clauses
(`cleaning` is the clause, `raising` an exception on its way through them). A
cleanup that failed is repeated as a whole. `PlatformDelivery` is one send, edit
or delete: the retries of `_with_retry`, the fallback without formatting, the
batches of a delete and the single deletes behind a batch that was refused.

### MCServices and MCTranslation

See "side by side" in section 2. `ServicesTypeOK`, `StorageSound`, `ChatsSound`,
`ServicesSettle`, `StreamsWellFormed`, `ToolCallsWhole`, `RequestsFaithful`,
`ChoicesSound`, `TurnsTold` are conjunctions of the properties that the
modules state under names and comments of their own. `ProviderChoices` is the part
of `MCTranslation` that is proved about: configuration, models, keys, failures and
reasoning.

## 4 The runs

| run | instance | shows |
|---|---|---|
| `admission` | 3 sessions, one of them a stream with recovery, budget 2, bulkhead 2 | no wake-up is lost, the circuit is implemented, every execution ends |
| `admission_interrupted` | 2 recovering streams, budget 3, bulkhead 2, a close can be cancelled or raise | slots balance but for the closes that were left, leaders live but for theirs, the circuit is implemented, executions end but for the two exceptions of section 5 |
| `admission_held_slot` | 2 streams | violated: a slot is held during backoff (finding 1) |
| `admission_lost_slot` | 2 streams, a close can be cancelled | violated: a slot never returns (finding 2) |
| `queue` | 3 calls, two sharing a key, one of them `fire_and_forget` with one retry | queue and map agree, futures are settled, shutdown leaves nothing, flood waits are kept, every call ends |
| `queue_stale` | the two calls that share a key are `fire_and_forget` | violated: an older version overtakes a newer one (finding 3) |
| `conversation` | 3 turns (turns 1 and 3 may open a tree, turn 3 may repeat an earlier message), 1 command of any kind | all tree properties, and that turns and commands end |
| `conversation_stop` | the same with 2 commands and slow processes | violated: a `/stop` fails in the middle (finding 4) |
| `services` | twelve services side by side, below | each is safe, and none hangs |
| `stored_outcomes` | the stored trees alone | violated: a stored outcome is overwritten (finding 5) |
| `translation` | fifteen translations side by side, below | each keeps what went in |
| `recovered_inputs` | the streamed answer alone | violated: a recovered call begins with a piece of the broken one (finding 6) |

### Inside `services` and `translation`

| part | bounds | states | what is checked |
|---|---|---|---|
| opening | 2 openings of one model, output limit up to 2, 2 attempts, an answer names up to 2 things | 73,023 | `OpeningSound`: who gets a stream gets the open attempt that pays for it, who fails leaves nothing open but where a cancellation struck the close; every correction makes a request smaller, what was learned only sinks |
| window | 4 callers, limit 2, window 3, lag 1 | 11,000 | `StrictWindow`; callers are served |
| response | 2 chunks after the first, 2 cancellations, both protocols | 973 | `ResponsesExact`: the lease outlives the body, a request that is over holds nothing, the terminal frame is the last |
| server | 2 versions, 2 restarts, 2 relaunches, 2 failing steps | 41,393 | `ServerSound`: starts and closes hold what they say, in order; an accepted restart is served with the configuration it was for |
| file | 1 chat, 1 message, cap 1, 2 timer threads, 2 versions, 1 failed write, 1 crash | 57,842 | `StorageSound`: a clear that returned is durable, the file never regresses |
| stored | 2 prompts, 2 commands, 1 crash, slow runs | 85,227 | `StorageSound`: the store matches the trees whenever no command has snapshots in hand, a clean restart loses nothing |
| sessions | 2 runs, one may resume, 1 cancellation each | 73,438 | `ChatsSound`: every process is registered, the identities agree, stops are final, a run leaves nothing |
| managed | 2 deliveries, of two prompts or of one twice, the second may answer the prompt or the status of the first; 1 command of any kind, 1 refused send | 100,804 | `ChatsSound`: a message is found by a later clear, or somebody still handles it, or its delete was refused; a live turn keeps its messages |
| voice | 3 flows of 2 messages, each may be a spoken command | 20,454 | `ChatsSound`: the registry leads to live flows, a cancelled note is not handed over |
| generations | 1 request, 2 admin operations, 2 shutdowns, 3 runtimes; one of each can be cancelled | 184,017 | `LeasesCounted`, `NoUseAfterCleanup`, `NothingLeaked` |
| platform | 2 events, 2 notices, 2 failing or cancelled calls, both platforms | 32,212 | `PlatformSound`: delivery outlives ingress and the workflow, readiness is told, a cleanup that reports success left nothing |
| delivery | 3 messages to delete in batches of 2; a send; an edit | 8,878 | `ChatsSound`: what returned was done, a send that did not time out is not sent twice, tries are bounded |
| stream | 3 tool calls (plain, Task, aliased), calls written as text, reasoning details, 3 chunks per answer, 3 attempts | 155,994 | the contract of the events, one answer whatever is retried, whole inputs |
| assembly | 2 indexes, 5 sent events before the last chunk | 62,792 | items open and close once, in their order; a broken call never gets out |
| native | texts of 3 parts, and blocks with words around them; 2 fields | 16,533 | no marker is shown, no chunking changes the verdict, only bad blocks are refused |
| arguments | 5 tokens, depth 2 | 39,216 | every word of the arguments arrives once; only malformed ones are refused |
| conversion | 4 items or 3 messages, 2 ids | 298,932 | results follow their calls, nothing is lost, answered calls convert |
| policies | histories of 3 messages, 4 providers, a cache of 1 | 178,678 | what must be replayed is replayed, contents stay whole |
| reasoning | every encoder, 5 preferences, every request | 157,778 | off is off, what is said is meant, efforts keep their order |
| names | 2 tools | 230,135 | a call comes home to its tool, with its text; its history agrees |
| schemas | 3 properties on two levels | 15,613 | aliases are private, arguments come back |
| failure | 2 attempts left, chains of up to 3 exceptions, refusals | 3,495 | what is reported as retryable was retried, statuses fit |
| pool | 3 keys, 2 calls, both strategies | 62,774 | exhaustion is honest, no key is starved |
| restore | trees of 3 nodes, shared and missing status ids, two trees, 4 restarts | 150,320 | exactly the trees are restored, nothing stays running |
| turn | 4 events, 1 lost edit | 87,994 | the transcript, the outcome that is shown, and what becomes of replies |
| config | every combination of layers, 2 updates of two keys | 176,800 | what was submitted is stored, the rest stays, what runs is what a restart reads, retired keys keep their say |
| catalog | 2 providers, 2 replacements, 1 refresh, 2 tests | 98,400 | no list out of scope, one refresh for the settings in force, exact reports and offers |

### Why the bounds are enough for the interesting cases

* **admission.** An episode with a leader, a waiter that coalesced into it and a
  newcomer needs three sessions. Budget 2 lets an execution fail, lead, probe
  and exhaust; the bulkhead of 2 is exceeded by demand (three sessions and one
  of them may need two slots) and can be blocked by nobody forever, which is
  what `EveryExecutionEnds` needs: see section 5. `admission_interrupted` has
  two recovering streams on two slots, which is the deadlock of finding 1, and
  budget 3 so that two probes of one leader and a replay after recovery occur.
* **queue.** Compaction, a second version while the first one is queued, in
  flight or sleeping before its retry, and an unrelated key behind them.
* **conversation.** Three turns make a root, a reply or two replies in its queue,
  a reply to a status, a second tree, and a message delivered again while the
  first delivery is pending, done, or cleared. One command covers every kind of
  command in every state. `conversation_stop` needs a clear and then a stop.
* **opening.** Two requests learn from each other; two things named at once make
  an answer that admits two corrections.
* **window.** Two callers more than the limit: one wakes another's entry out.
  Lag 1 against window 3 makes the two clock readings differ across a purge.
  `MaxIdle` bounds the time that passes while nobody sleeps; the clock is
  otherwise bounded because callers are.
* **server.** A restart during a start, a close, and one coalesced with another;
  a configuration that changes between a request and its load; a start that
  fails after a close that failed.
* **file.** Two timer threads and a clear compete; a crash and a failed write at
  any place.
* **stored.** A tree of two prompts whose second is answered while a command has
  the snapshot; a second command on what the first has left.
* **sessions, voice, managed.** Two runs that want one session; three flows, so
  that two commands spoken in notes strike each other and a third is a
  redelivery; a command between each awaited send and its receipt.
* **generations.** Replacing twice gives a retired generation, a current one and
  a candidate; two closers race on the close lock, and the second repeats a
  close whose predecessor failed or was cancelled.
* **stream.** Three chunks are thinking, text and a call, or a call whose pieces
  come around its name, or a call begun in text, text that ends it, and a detail
  of reasoning between; three attempts are an early retry and a recovery, or two
  recoveries.
* **platform, delivery.** Two failing calls are one in a start and one in the
  cleanup after it, or two in one cleanup; a handler and a background task may be
  under way while each step closes. A batch of two behind a batch of one has a
  refused bulk call followed by single deletes, and another batch behind them.
* **translations of requests.** Two ids and four items interleave two calls and
  their results, one of them broken. Three messages are a call, a result and
  what comes behind.
* **native.** A marker is three pieces, so three parts hold every damaged pair of
  markers; the longer texts hold every block of two parts.
* **config.** Two keys: one secret, behind a restart and read from files before the
  process; one that replaced a retired name. Two updates are one that waits for a
  restart and one behind it.
* **catalog.** A hosted and a local provider, lists that differ in what can think;
  two tests that end after two replacements in either order.
* **turn, restore.** A subagent, what it says, its end and what the agent says
  after it; an error, and talk after it. Three nodes make a chain, a fork, a
  cycle and an orphan.

`CHECK_DEADLOCK FALSE` in every configuration: sessions, callers, calls, turns,
commands and inputs are finitely many, and the models stop when they are used
up.

## 5 Fairness

No fairness is assumed of starting anything, cancelling anything, or of a
second cancellation, a failure or a crash. What is assumed:

* `ProviderAdmission`: weak fairness of each session's own steps (the event
  loop runs ready tasks; the HTTP client has read timeouts, so an upstream
  operation ends), of the two timers, and strong fairness of `AcquireSlot`:
  `asyncio.Semaphore` serves its waiters in order, which the model leaves out.
  `EveryExecutionEnds` has two exceptions, both of them the code's: in the end
  every slot is lost, or held by an interrupted stream that waits for the slot of
  its own continuation (`Starved`; findings 1 and 2); or an execution that left
  its close ended as the leader and keeps the lead (`Orphaned`; section 8). In
  the run `admission` neither can happen, with closes that finish and more slots
  than recovering streams; `admission_interrupted`, with as many recovering
  streams as slots, reaches both, and no other end.
* `MessagingQueue`: ready tasks run, timers fire, the window admits
  (`CallsAnswered` of `SlidingWindow`), and the platform clients answer or
  time out. `DrainTimesOut` is *not* fair: shutdown settles the futures without
  it.
* `ConversationTree`: the event loop does not idle while a task or a command can
  go on. One weak fairness condition for all of them is enough, since every
  task and command takes finitely many steps. It includes that a process
  reports, ends or is killed, and that a drain ends.
* `MCServices`: a behaviour is about one service and carries one weak fairness
  condition, on the steps its own specification calls fair (`OwnProgress`): every await of an opening returns
  (`OpeningSteps`); rounds, wake-ups and time of the window; a request that can
  run is run and a provider answers or times out (`ResponseProgress`); the
  supervisor's thread runs and what it awaits ends, well or badly
  (`ServerProgress`); timers and threads of the session file run (`SavesGoOn`);
  a process ends or is stopped, drains are bounded, and a process of the bridge
  that has ended is started again (`StoredProgress`); a managed process ends or
  is killed (`Progress`); the platform answers every send and delete
  (`ManagedProgress`); transcriptions and callbacks end (`VoiceProgress`);
  leases are released, discovery and cleanup answer or fail, ready steps of
  admin operations and shutdowns are taken (`GenerationsProgress`); the SDK
  answers, and started handlers and tasks end (`PlatformProgress`,
  `DeliveryProgress`). One condition
  per service is enough where its steps are finitely many; where they are not
  (the window's rounds, a file that is saved again and again) every step it
  promises changes what the others wait for.
* `MCTranslation` checks invariants only and states no fairness.

`ServicesSettle` is the conjunction of what each service promises under this:
openings end, callers of the window are served or refused, a server that was
told to quit has quit, what was changed is saved, no status message announces
work for good that nobody does, no run waits for ever for a lock of the pool or
a session, a clear reaches what was on its way when it came, commands spoken in
notes do not wait for each other, retired generations are closed and closes end,
a start or a cleanup of a platform and every delivery end, and every request
returns its lease. A shutdown of the generations that is
cancelled while it drains leaves what it retired to the next close, and nobody is
obliged to call it.

## 6 What is proved

All theorems are for every value of the constants that satisfies the
assumptions of the module, and in every reachable state.

**ProviderAdmissionProofs.** Assumptions: finitely many sessions, a positive
budget and bulkhead. The inductive invariant `IInv` is

* `TypeInv`: the variables' values, with no bound on the semaphore yet;
* `BudgetInv`: a session anywhere on the way to a new attempt has budget left,
  and one whose attempt may still fail has been counted. `TypeOK` bounds the
  attempts by the budget, and only this makes that inductive: nothing on the
  path checks the budget again;
* `EpisodeInv`: an exhausted episode has no leader, a probing one has, and a
  leader is not among the waiters;
* `AdmittedInv`: nobody on the way to an attempt has been dismissed, or is among
  those an exhausted episode would dismiss;
* `ProbeInv`: a leader that is being admitted or whose attempt has no outcome
  holds the matching probe, and the holder of a probe is nowhere else; this is
  what makes the owner of the circuit unique.

`SlotsInv`, inductive beside it, counts the semaphore, the attempts that own a
slot, the interrupted streams and the closes that were left. `LeakInv` makes it
inductive: a session leaves the close of its stream, and that of its
continuation, once each, so no lost slot is counted twice.

From it: `TypeCorrect`; `LeadersAlive` (the leader of an open episode is an
execution that will act on it, unless it left a close: section 8 says what
happens then); `SlotsBalanced` (every slot is free, owned, or lost to a close that
was left, whatever is cancelled and whatever fails); `BulkheadBounded`, its
corollary (never more than `MaxConcurrency` attempts);
`WakeupsNotLost` (nobody waits, un-notified,
for a leader that is not there; its own invariant, by the steps that close,
vacate or exhaust an episode); and `Refinement`: the controller implements
`RecoveryCircuit`, step by step. The refinement is where the parts meet: that a
permit is checked again after each wait is what makes `AcquireSlot` an
`Attempt` of the circuit.

**MessagingQueueProofs.** `Typed`, `QueueConsistent`, `FuturesKept`,
`ShutdownComplete` (`ShutdownSound`: a shutdown leaves neither a future nor a background task) and
`FloodWaited` from the conjunction `QInv` of the invariants, of which `BatchInv`
(the futures queued for a key belong to calls of that key, and a key out of the
queue has none) is the strengthening. `CompactionOrdered`: with no
`fire_and_forget` the latest version wins, from `VersionInv`: versions are numbered
in the order of the calls, the queued function is the newest of its futures and
newer than what the worker holds or has run. The assumption is `Forgets = {}`,
and finding 3 is what happens without it.

**ProviderGenerationsProofs.** `GenerationsTyped`, `LeasesExact`,
`NeverUsedAfterCleanup` and `NoRuntimeForgotten`, for any requests, admin operations,
closers and number of runtimes. `GInv` adds to the properties: who is inside
`_replace_lock` and `_close_lock` (`LocksInv`); that only the current generation
has a discovery task which may still begin, and none while a replacement is
prepared (`RefreshInv`: this is why `replace` stops discovery first); that what is
used was published and is not being cleaned up (`UsedInv`); and that what a
closer set out to close covers all that was retired meanwhile (`RetiredInv`: no
generation is retired behind the back of a close, since shutdown is final).
Lease counts are cardinalities of the sets of holders, which needs the holders to
be finite sets; that a count never becomes negative follows.

**ServingProofs.** One request's way to a provider and the process around it.

* `WindowBounded`: `StrictWindow`, from `TailInv` (the deque is the tail of the
  history) and `PurgedInv` (what was purged is a window older than the clock, and
  at most `Limit` entries are kept). It needs neither `MaxLag` nor `MaxIdle` to be
  small: the limiter is strict for every pause between its two readings of the
  clock. `WindowTyped` is type correctness.
* `OpeningSafe`: `OpeningSound`, for any number of openings, any output limit and
  number of attempts, with cancellations at every await, the close of a stream
  included: an attempt is left by a failed opening only with the stream whose
  close was struck. `OpeningInv` says which of stream and attempt is held at each
  place (`Retained`); that a correction only shrinks a request is
  `Lighter`, one lemma per correction.
* `ResponseTyped` and `ResponsesClosed` (`ResponsesExact`), for any number of frames
  and cancellations. `RInv` says who owns the provider's stream and the lease at
  each place of the request's task: the task itself until a response is bound
  (`OwnedByRequest`), then the one cleanup task, which closes the stream before it
  gives the lease back (`OwnedByResponse`); a cancellation kept during the cleanup
  is told at its end (`PendingKept`); while the stream is read there is no error
  frame yet (`ReadingClean`).
* `ServerTyped` and `ServerOwned` (`ServerSound`), for any number of versions,
  restarts, relaunches and failing steps. `SInv` says what each stage of a start
  has opened (`StageInv`), what each gate of a close has closed (`GateInv`,
  whichever gates failed before), that a run is built over nothing (`EmptyInv`),
  and that the settings in the cache are those on disk or absent (`LoopInv`): with
  it an accepted restart is served with the settings it was for.
* `PlatformTyped` and `PlatformCloses` (`PlatformSound`), for any events, notices and
  number of failing calls. `PInv` describes each platform (`DiscordShape`,
  `TelegramShape`), the start (`StartInv`), and for each step of the cleanup what
  the steps before it have closed, or carry along as an exception (`IngressInv`,
  `DeliveryInv`): the workflow is reached only with ingress closed, and the outbox
  only behind the workflow.
* `DeliverySafe`: `DeliverySound`, for a list of any length to delete, batches of
  any size, and any number of timeouts. `OutboxInv` counts calls against
  tries (`Tries`), relates what was sent to what a timeout hid (`Sendings`), and says
  that everything behind the current batch is gone or was reported (`Behind`).

**MessagingProofs.** The bridge beside its trees.

* `VoiceSafe`: `VoicesExact` and `NoHandoffAfterCancel`, for any number of notes,
  redeliveries and commands. The strengthening is that an entry stands only under
  the message and the status of its own flow (`OwnReferences`), what a flow holds
  at each place (`FlowInv`), and that a handoff which may still start has not been
  taken by a command (`StartsUncancelled`).
* `FileSafe`: `ClearIsDurable` and `FileNeverRegresses`, for any number of timer
  threads, chats, versions, failed writes and crashes. `WriterInv` says what the
  snapshot of each writer is (current, it is the store; being written, it is not
  older than the file, under the writer lock), `Clearing` what a clear that has
  not returned holds, `Cleared` that neither the store nor the file has a tree
  older than a clear that returned.
* `StoredRight`: `StoredSafe`, for any number of asks, commands and crashes.
  `StoredInv` says that nodes hang together (`Rooted`) and that a snapshot has
  nodes of its tree only, where they are (`SnapshotsOK`); that the store lists what
  the repository has except for the trees a command is about (`Listed`,
  `TakenExact`), and that after a shutdown has stopped everything nothing is
  written any more and the store is exact (`Quiet`).
* `ManagedRight`: `ManagedSafe`, for any number of deliveries, commands and refused
  calls. `AllAccounted` is `NothingForgotten` per message and place,
  `HandsEmpty`, `RejectedHold` and `TreesAdmitted` say what a turn, a command and the
  notice hold at each place, and `OrdersCounted` that the clears and stops are not
  more than the commands, which bounds their generations.

* `SessionsSafe`: `SessionsOwned` and `SessionsSettle`, for
  any number of runs, resumed sessions and cancellations. `SessionsInv` has two
  halves. `Found`: a temporary identity and its real one belong together both ways
  (`Paired`), a session is found under one identity (`Once`), and while a run lives
  the identity it knows leads to its session (`Resolved`); that needs what `Alone`
  says, that the runs of one resumed session do not overlap, which the tree they
  belong to guarantees and the guard of `GetOrCreate` states. `ProcessesKept`: a session is
  forgotten only after it was closed (`NotLost`), a running process belongs to a
  session that is known (`ProcessesOwned`), and who starts or kills a process holds
  the session's lock (`StartsHeld`, `StopsHeld`). TLC checked the invariant first,
  with three runs. `SessionsAssumption` says that identities made up by this process
  are not those of a resumed session, and that the names are distinct.

**ChoicesProofs.** What decides the provider, the model, the key and the settings a
request meets, and how much it reasons. `ChoicesKept` is `ChoicesSound` in the composition; each part has a
theorem of its own.

* `KeysAreServed`: `KeysServed`, for any number of keys, calls, retry-after headers
  and failures. While a call goes on it has had as many keys as attempts, and all
  but the last are cooling, unless it was disturbed or every key was cooling at some
  choice (`KeysCounted`); so a call that has used up its attempts has had every key.
  Under round robin `InTurn` adds the number of times a healthy key was passed over
  to its distance from the cursor: each choice moves the cursor nearer to it.
* `FailuresAreHonest`: `FailuresHonest`, for every exception with a class, a status, a
  body, a marker in its text and the quirk of a provider, every chain of them in
  `Failures`, a refusal at the gate, and any number of attempts left: the status of
  a failure means its kind (`Fits`), classification and qualification agree on the
  end of the chain, and what is told of the retries is what was done (`Judged`)
  outside the four exceptions that `TellsWhatWasDone` names.
* `ConfigurationKept`: `ConfigSound`, for any updates, rejections, restarts and
  crashes. `ConfigInv` says that after the first update the managed file defines
  every key (`EveryKeyWritten`), which is why neither a migration nor the file of the
  working directory can change what it stored; and that until then the files are
  those of before the first start, migrated once (`FirstFilesKept`), which is why a
  repeated start reads the same.
* `CatalogCurrent`: `CacheInScope`, `RefreshCurrent` and `ReportExact`, for any
  providers, lists, refreshes, tests and replacements. `CatalogInv` says of each
  refresh whose it is and what it asks (`RefreshFits`), and that a refresh and a
  replacement exclude each other. That what is offered is exact (`OffersExact`) is a
  fold, and stays with the run.
* `ReasoningKept`: `ReasoningHonoured`, for every preference, request and provider.
  `ReasoningInv` says what a request has become at each stage: the policy is the one
  its preference and its client resolve to, and the wire is what the encoder makes of
  it, except for a Google configuration of the caller. The rest is about the
  encoders: no word of a table is weaker than the one before it (`KeepsOrder`, for
  each table), every profile has an encoder of a known kind (`ProfilesOK`), and what
  any encoder writes for a policy it also honours (`EncodedSays`).
  `PreferencesAssumption` names the members of `ReasoningPreference`.

**ServicesProofs.** The composition that the run `services` checks. `Apart`: a
behaviour of it is, for each service, a behaviour of that service without its
fairness. From it, `ServicesTyped` (`ServicesTypeOK`), `StorageKept`
(`StorageSound`), `ChatsKept` (`ChatsSound`) and `RequestsKept`. Only safety is
carried over: the composition is fair to the service that moves, and weak
fairness of one disjunct does not follow from that of another specification.

**ConversationTreeProofs.** `Typed`, `TreesRunOnce` (`OneExecution`),
`TurnsNotStranded` (`NoTurnStranded`), `GraphsConsistent` (`TreesConsistent`),
`CancelledStays` (`NoRevival`), `RemovedNeverRuns` (`NoRunAfterRemoval`) and
`StopsAreFinal` (`NothingSurvivesStop`), for any number of turns and commands. The
inductive invariant `CInv` is `TypeOK`, the index (`IndexMatchesGraphs`) and

* `CommandInv`: the command at work holds the state lock, and what it answers
  stays in the index until it commits, since nobody else removes references;
* `OwnerInv`: a tree's active claim has a task from its start to its end, every
  task is the active claim of its own tree, and what waits or runs is a node of
  a published tree; this is `OneExecution` made inductive;
* `NamesInv`, `GraphInv`: a turn outside has no tree, and a published tree has its
  root, every message once, and otherwise nodes that answer one of its own
  references. The last part is why a tree can be restored;
* `RootedInv`: every set of references that holds the root's prompt and is closed
  under answers holds all prompts of the tree. The removal of a reply subtree
  keeps it because what it removes is such a closure itself;
* `ClearedInv`: the claim of a node that was removed or cleared is cancelled, which
  is why its late results are refused;
* `QueueInv`: a tree's queue is its pending nodes, each once, and a tree with
  pending nodes has an execution to finish. Every command that removes nodes must
  hence take them out of the queue and fail the others (`Remaining`).

`StopsAreFinal` assumes that each drain waits for all that it cancelled
(`~SlowStops`); its second invariant, `DrainInv`, says that a tree whose status was
cleared under an active claim is still being drained. Without the assumption it
is false, as `conversation_stop` shows (finding 4). What `Remaining` does with a
queue is proved by the least counterexample (`Least`, `KeptExists`): the closures
`Descendants` and `Subtree` are defined as least closed sets, so no induction is
needed for them.

The assumptions of these modules are the ones on their constants (numbers are
naturals or positive, `None` is not an element of a set it is the absence of); the
proofs add none, except the three conditions named above (that a close is not
interrupted, that nothing is fired and forgotten, that a drain is not outlasted).

**Only model-checked.** Every liveness property and everything about `ENABLED`
(`EverybodyEnds`, `ServicesSettle` among them), and the properties of what is
translated (`TranslationTypeOK`, `StreamsWellFormed`, `ToolCallsWhole`,
`RequestsFaithful`, `TurnsTold`). What a fold or a recursive
function of a translation computes for every input is an induction over data: the
library's induction rules take an operator as parameter, and what can be argued by
a least counterexample, as above, is one function over positions of a sequence.
`NativeArguments` besides reads nested markup with recursive operators, which the
prover's SMT backend does not accept in any module that reaches one. The
translations have their bounded runs for it.

## 7 Disagreements between code and documentation

1. **A slot is held during backoff** (`providers/openai_chat/provider.py:566`).
   The continuation of an interrupted stream is opened inside the `except`
   block; the interrupted attempt is closed by the `finally` around it. So its
   slot is held while the continuation waits at the gate or sits out a backoff,
   and as many interrupted streams as slots wait for one another. The
   architecture document says the bulkhead is never held during retry backoff.
2. **A slot is lost when a close is cancelled** (`providers/http.py:31`).
   `close_provider_stream` catches `Exception`, and `CancelledError` is none:
   `ProviderAttempt.aclose` behind it is not reached. The collector of a
   continuation (`providers/openai_chat/provider.py:828`) does not even go through
   `close_provider_stream`: there any exception of the close has the same effect,
   which `CloseRaises` models.
3. **A retried update overtakes a newer one** (`messaging/limiter.py:321`).
   `fire_and_forget` enqueues its function again after a sleep and replaces, or
   runs after, a version that was queued meanwhile.
4. **`/stop` fails in the middle** (`messaging/trees/runtime.py:247`).
   Cancelling a tree asks for the UI target of the active node if that has
   failed, and raises if its status was cleared; the queue of that tree, and
   the trees after it, are left as they were.
5. **A stored outcome is overwritten** (`messaging/trees/manager.py:374`). A
   command that cancels one node takes the snapshot of its tree in the task of
   the transition and saves it when it is resumed. A runner of the same tree
   that completes in between has saved its success, and the older snapshot
   replaces it; after a crash the prompt is restored as unfinished. The
   architecture document says a later successful exit is authoritative.
6. **A recovered call keeps a piece of the broken one**
   (`providers/openai_chat/provider.py:913`). A stream that breaks off after a
   piece of arguments that came before the name of its tool keeps the piece in
   `pre_start_args`; the call that a continuation completes starts the block
   with it, and the client gets the piece and the whole arguments behind it.

For each, the run of section 4 gives a behaviour of the model; the property
quotes the sentence it refutes.

## 8 Observations

Seen while modelling, with no run of their own:

* **A leader is lost in the way of finding 2** (`providers/openai_chat/provider.py:638`).
  A stream that failed before its first chunk leads the episode while its stream
  is closed; when that close is left, by a cancellation or by an exception of the
  unguarded close of a continuation (`provider.py:828`), nobody frees the
  leadership, and later callers wait for it. `LeaderIsAlive` excepts exactly these
  leaders, and `EveryExecutionEnds` what waits for them.
* **An attempt is left by an opening too** (`providers/openai_chat/provider.py:240`),
  where the adapter's view of a created stream fails and a cancellation strikes
  the close of that stream: `attempt.aclose()` is not reached. `HandedOverWhole`
  excepts exactly this.
* **The end of an answer may be lost to the tool parser**
  (`core/anthropic/tools.py:188`): text behind a `●` that no call follows, and an
  unfinished `<|`, wait in its buffer, and `flush` gives up calls only.
* **An update in flight is overtaken without any retry** when the newer one is a
  `fire_and_forget` that is queued while the older one runs (`MessagingQueue`
  with both calls in `Forgets`).
* **OpenRouter's opaque details may move** to an assistant message the client sent
  without them, when the conversion splits or merges messages: `DetailsInPlace`
  of `RequestPolicies` states the expectation of
  `tests/providers/test_open_router.py:299` in general and is violated.
* **`ExecutionFailure.retryable` is not always what the policy decided**
  (`ARCHITECTURE.md:868`: it "records provider-policy eligibility").
  `EligibilityRecorded` of `FailurePolicy` is that sentence, and TLC refutes it in two
  ways. `underlying_provider_error` reports the exception at the *end* of the chain
  while the admission judged its *head*, and it follows `__context__` even where the
  code raises `from None`: a refused tool argument of NIM is retried and reported as
  final, the `ExecutionFailure` of a Google login loses its kind to the error it
  explains, and NIM's override misses an SDK error whose `HTTPStatusError` is
  behind it. And a `ProviderRecoveryExhausted` is final for the execution that the
  gate refused, which may not have made a single attempt, but is reported as
  the retryable error of the execution that led the recovery. `TellsWhatWasDone`
  states both as its exceptions, and what holds besides them.
* A permission error whose text has a transient marker is retried; the override
  of an adapter is not asked once an attempt was accepted.
* **Closing the key pool** forgets the clients before it closes them one after the
  other (`key_rotation.py:188`): if one close fails the later ones stay open
  (`dropped`).
* A Responses tool whose joined name equals that of another resolves to the first;
  `tool_choice: "required"` with passive tools only is sent without tools.
* `think_tags` replay drops the `reasoning_content` of an assistant message whose
  content is a list; text beside nested elements of native tool arguments is
  dropped when the schema wants an array (`Unplaced` of `NativeArguments`).
* `required` inside an `anyOf` branch without properties keeps the name `type` when
  the property is aliased.
* An older parallel Task that ends first closes the younger ones in the transcript
  (`overtaken` of `TurnTranscript`); talk after an error and before a failing exit
  leaves the status message at "working".
* **A rejected turn may delete the message of a live one**
  (`messaging/turn_intake.py:126`). A reply whose parent was removed while it was
  received is rejected together with its prompt; if the platform delivers that
  prompt again meanwhile, the second delivery finds no parent and is admitted as a
  new root, and the first one's discard then deletes its message and forgets it.
  It takes three deliveries: the proof of `ManagedRight` found it where the run
  with two did not. `LiveStaysPosted` excepts these prompts (`Redelivered`); with
  three deliveries TLC finds no other.
* **A locked process token is replaced** (`config/admin/persistence.py`). A token that
  only the process defines is locked in the UI, but the first write of the managed
  file stores the template's token, and files go before the process for this key.
  `is_locked_source` says such a value "must not be overwritten".
* **A value of the working directory's `.env`** that an existing managed file does not
  define is replaced by the template's with the next update, since every key is
  written (`OthersKept`, `TokenReplaced` of `AdminConfig`); a token replaced so is in
  force only after the next update or restart, for `Settings` is read before the
  file is written. `Settings` and the template have defaults of their own.
* `_pending_fields` holds what waits for a restart because of the last update only: a
  later one replaces it.
* A replacement that fails leaves discovery cancelled until the next one; a test of
  a provider that began before a replacement stores its older list behind a newer
  one; a refresh one of whose listings is cancelled stores the lists before it and
  raises (`ModelCatalog`).
* A handler that is cancelled after a `/clear` cleared the log leaves what it was
  about to delete in the chat (`unreached` of `ManagedMessages`).

## 9 What is not modelled, and why

* **Rendering** (`messaging/rendering/`), truncation, the texts of messages,
  prompts and errors: formatting without state.
* **Local web tools, token counts, health and admin routes**: sequential handlers
  over request-local data. Admin's effect is in `ProviderGenerations`,
  `ServerLifecycle`, `AdminConfig` and `ModelCatalog`.
* **The network operations of discovery** and the clients it makes on demand.
* **Transcription** itself, a model in a thread or a provider.
* **Manifests, provider catalogues, profiles' constant fields**: tables.
* **The text of configuration files**: quoting, comments and the atomic write. The
  manifest has two of its keys in `AdminConfig`. A file edited by hand while the
  server runs is outside.
* **Launchers, installers, the smoke suite, diagnostics and logging**: external
  programs, scripts, formatting. The tray is modelled as far as it drives the
  supervisor.
* `providers/executor.py`, `providers/rate_limiter.py` and
  `providers/credentials_provider.py` have no importers in the program.

Left out of modelled components:

* `ServerLifecycle`: `get_settings` is one step; a restart callback is always
  there.
* `RequestConversion`: two calls of one history with the same id (the conversion
  raises `KeyError`), system texts of Responses clients.
* `FailurePolicy`: of the chains that client libraries build, the two or three
  exceptions the policy can tell apart (`HiddenInLibraries`; what HTTPX hides may
  be a timeout or something unknown).
* `StreamTranslation`: what the tool parser keeps of text that only might begin a
  call (`●`, `<|`), and `<parameter>` elements as such; a call begun in text is
  taken to have the input of its schema when it ends (one with JSON may lack some of
  it, `baretool`). A chunk in which the tag parser completes one thing and begins
  another is two chunks here.
* `ManagedSessions`: a second cancellation of the stop that a cancelled reader
  shields.
* `TurnTranscript`: a cancellation while the runner reports a failure of its own.
* `PlatformRuntime`, `PlatformDelivery`: the SDKs are external, and calls that go
  through the messaging queue are that module's; texts and their pieces are left
  out.
* `VoiceNotes` in `services` has no command from outside a note: one spoken in a
  note does the same and may be struck itself.
* Threads elsewhere: the queue and the trees are used from one event loop.

## 10 Plan

The models and the proofs of the services are written and checked. What is left:

| step | what | what it needs |
|---|---|---|
| 1 | `StreamTranslation`: that nothing discarded was sent | a least counterexample over positions of the answer |
| 2 | `NativeArguments` as a recursive function over depth | then the composition of the translations can be proved about |

Abstract specifications worth adding: a *mailbox per tree* (each admitted turn is
run once or failed, one at a time, in order) for the trees; a *reference count*
for the generations.
