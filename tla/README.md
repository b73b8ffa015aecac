# Sky_Claw: verification project

Sky_Claw is an agent that manages a Skyrim modding set-up: it synchronises mods
from Nexus, runs the modding tools (Synthesis, xEdit, DynDOLOD, VRAMr, LOOT) over
the load order, keeps a journal and snapshots of the files it changes so that it
can go back, asks a human before it does anything destructive, and streams what
happens to a web and a desktop front end. It is one Python process with one
asyncio event loop, several SQLite files, and child processes for the tools.

This directory holds TLA+ modules for the parts of the program that decide what
may run when and what survives a failure, the TLC configurations that check them
on small instances, and the theorems about them that TLAPS proves.

All source paths below are under `src/sky_claw/`.

## 1. The system and its parts

Everything runs on one event loop, so code between two `await`s is atomic; the
hard behaviours come from what happens *at* an `await`: another task runs, the
task is cancelled (`CancelledError` is not an `Exception`, so `except Exception`
does not see it), a statement that was handed to a database worker thread or a
file copy that was handed to `asyncio.to_thread` goes on without its task, or the
process dies.

| Component | State it keeps | Operations | Talks to | What is hard | What makes it correct |
|---|---|---|---|---|---|
| **Resource locks** `antigravity/db/locks.py` (`DistributedLockManager`) | table `resource_locks(resource_id, agent_id, acquired_at, expires_at)`, one shared connection | `acquire_lock`, `release_lock`, `force_release`, `cleanup_expired` | every tool pipeline | one implicit transaction for all callers, clock read before the statement, cancelled callers, crash, lease expiry | at most one running lease per resource, on disk; leaks end with the TTL |
| **Snapshots and the transactional lock** `locks.py` (`SnapshotTransactionLock`), `db/snapshot_manager.py` | snapshot files per day and their checksums; the snapshots of the running transaction | `__aenter__`, `__aexit__`, `create_snapshot`, `restore_snapshot`, size-limit eviction | locks, file system | restore before release, cancellation in the middle, eviction of a live snapshot | files are restored before anybody else can acquire |
| **Tool pipelines** `local/tools/{synthesis,xedit,dyndolod}_service.py` and their runners | a run per service: lock, transaction id, child process | `execute`: lock, snapshot, journal transaction, tool, commit, release, event | locks, journal, event bus, child processes | lease shorter than the tool's timeout, cancelled tool whose process goes on, commit and release in different orders per service | a failed run leaves the file as it was; the journal and the event tell what happened |
| **Operation journal** `db/journal.py` | tables `transactions` and `journal_entries`, `_current_transaction` | begin/commit/mark_rolled_back of a transaction, begin/complete/fail/mark_rolled_back of an entry | pipelines, rollback manager, file operations | status updates without conditions, timestamps of one second | what is in effect is what the completed entries say |
| **Rollback manager** `db/rollback_manager.py` and **file operations** `orchestrator/sync_engine.py` | none of its own (journal and snapshots) | `execute_file_operation`, `undo_last_operation`, passive pruning | journal, snapshots, supervisor | "the last operation of the agent" for concurrent operations, lost snapshots, failure half-way | a failed operation, and nothing else, is undone |
| **Sync engine** `orchestrator/sync_engine.py` (`run`) | bounded queue, producer and worker tasks | `run` | Nexus API, database | poison pills, time-outs on a full queue, fail-fast task group | every mod is processed once, everybody stops |
| **Update cycle** `sync_engine.py` (`check_for_updates`, `enqueue_download`), `scraper/masterlist.py`, `scraper/nexus_downloader.py`, `agent/tools/nexus_tools.py` | a task per mod, the circuit breaker, the staging directory, a transaction per update | metadata, approval, download, upsert, commit or mark | operator, registry, journal | one task that fails cancels the others at any step; retries; one file for two downloads | nothing without consent; journal, registry and result agree |
| **Event bus** `core/event_bus.py` (`CoreEventBus`) | bounded queue, subscriptions, pending handler tasks, dispatch task | `start`, `stop`, `publish`, `subscribe`, `unsubscribe` | every publisher, dead-letter queue | stop with a full queue, handlers cancelled in flight, limits on pending tasks | events reach every subscriber in order, or the dead-letter queue |
| **Dead-letter queue** `core/dlq_manager.py` | table of failed events with status, attempts, next retry | `enqueue`, retry loop, recovery of stale rows | event bus handlers | crash between claim and outcome, attempts from a stale row | a failed event is retried until it succeeds or is dead, never by two at once |
| **Human in the loop** `security/hitl.py` (`HITLGuard`), `comms/telegram*.py`, `app_context.py` (`_hitl_notify`) | pending requests, their decisions and events | `request_approval`, `respond` | Telegram, update cycle, agent | an answer racing the time-out, ids used again, cancelled callers | nothing runs without an approval given for it, in time |
| **Agent chat** `agent/router.py` (`LLMRouter`), `agent/token_budget.py`, `agent/token_circuit_breaker.py` | history per chat, provider and its lock, the breaker | `chat`, `reload_provider` | provider, tools, front ends | windows over a history that several calls write, cancelled probes, rounds | what is sent is well-formed and holds the question; every call ends |
| **Application context** `app_context.py`, `core/db_lifecycle.py`, `orchestrator/supervisor.py` (`start`) | exit stack, references to the current services, pool of connections | `start_minimal`, `start_full`, `stop`, `get_connection`, `evict_connection`, `shutdown_all` | every service | a start that fails half-way, a second start, registration during shutdown | what was opened is closed, in order; one connection per file |
| Tool dispatch `orchestrator/tool_strategies/middleware.py`, `tool_state_machine.py` | active keys, state per tool task | the gate around a strategy | supervisor | | not modelled (section 7) |
| Supervisor graph `orchestrator/state_graph.py`, `security/loop_guardrail.py` | state, pending event, error count | transitions, retries | watcher, tools | | not modelled (section 7) |
| VRAMr `local/tools/vramr_service.py` | lock, output directory | `execute` | locks | | not modelled (section 7) |
| Daemons `orchestrator/{watcher,maintenance}_daemon.py` | last mtime on disk; cycle counter | poll, checkpoint, prune | event bus, databases | a crash between persisting and publishing | not modelled (section 7) |
| Language models: providers, routing, `reasoning/` | prompts, counters | requests | network | nondeterministic model | not modelled: the text of a model, not a protocol |
| Mod and plugin analysis: `mo2/`, `assets/`, `xedit/`, `loot/`, `fomod/` | parsed files | parsers, conflict analysis | local files | data, little control | not modelled |
| Front ends: `comms/`, `web/`, `gui/` | connections, widgets | HTTP, websockets, Telegram, Tk | event bus, HITL | I/O | not modelled, except the way of an operator's answer |
| Scrapers, discovery, configuration, credentials, CLI, modes | settings, key ring | start-up | everything | I/O | not modelled |

## 2. The modules

| Module | Models | Extends |
|---|---|---|
| `LockTable` | the SQL statements of `db/locks.py` on one row | |
| `LeaseService` | abstract: what a manager of time-based leases promises | |
| `ResourceLocks` | `DistributedLockManager` | `LockTable`; refines `LeaseService` |
| `ToolPipelines` | `SnapshotTransactionLock`, the snapshots and the Synthesis, xEdit and DynDOLOD services with their journal rows and events | `LockTable` |
| `UndoStack` | abstract: what the journal promises to whoever undoes by it | |
| `FileOperations` | `execute_file_operation`, the journal's entries, `undo_last_operation`, snapshots by age | refines `UndoStack` |
| `SyncRun` | `SyncEngine.run` | |
| `Approvals` | `HITLGuard` and the way of the operator's answer | |
| `ModUpdates` | `check_for_updates`, `download_mod`, the masterlist client and its breaker, the downloader | `Approvals` |
| `AgentChat` | `LLMRouter.chat`, token budget, token circuit breaker, `reload_provider` | |
| `AppLifecycle` | `AppContext`, `DatabaseLifecycleManager`, the supervisor's `start` | |
| `EventBus` | `CoreEventBus` | |
| `DeadLetters` | `DLQManager` | |
| `ResourceLocksProofs`, `ToolPipelinesProofs`, `ModUpdatesProofs`, `AgentChatProofs`, `AppLifecycleProofs` | theorems | the module they are named after |
| `SyncEngineProofs` | theorems | `SyncRun`, `FileOperations` |
| `EventDeliveryProofs` | theorems | `EventBus`, `DeadLetters` |
| `FoldTheorems` | lemmas about least elements and folds | |
| `MC*` | the instances that TLC checks | the module they are named after |

A definition that begins with the comment "Mutated form" is a plausible bug in the
definition after it. It is used by no specification: each property of a passing run
is violated when one of these forms takes the place of the original.

### 2.1 ResourceLocks

*State.* `table` is `resource_locks` as the manager's one connection sees it,
`durable` as a new connection would, `now` is `time.time()`, and `call[s]` holds the
local variables of session `s`, which is one use of the manager: `acquire_lock`, the
work, `release_lock`.

*Actions.* Python's sqlite3 opens an implicit transaction on the first
statement, and all sessions share the connection: a commit of anybody makes
the statements of everybody durable, and a rollback takes them all back. So a call is
split at its awaits: `Acquire` and `Retry` read the clock and queue the
statement, `ExecAcquire` runs it with the clock reading of that time,
`CommitAcquire` commits and decides, and `ExecDelete`/`CommitDelete` do the same for
the release. `*Error` actions are `aiosqlite` errors of a statement or of a commit, and
lead to the back-off or to the end of the attempts. `Cancel` is a
`CancelledError`: a statement that was already handed to the worker thread takes effect
all the same. `ForceRelease` and `CleanupExpired` are the manager's two other
writers; `Crash` loses what is not durable, and all sessions.

*Properties.* `LeaseIsRow` (from the statement that took it on, a running lease is
the session's own row) and `DurableLease` (it is on disk) are what makes
`MutualExclusion` true. `LeakBounded`: no row keeps the resource from others for longer than a
TTL, whatever happened to its owner. `CallsTerminate`: the retry loop ends.
`ImplementsLeases`: the whole module, with the leases that callers hold mapped to
the set `leases`, implements `LeaseService`.

Exclusion holds under `Separated`: one `agent_id` per session, no commit that fails on
the disk, no forced release. The code does not give the first: `AGENT_ID` is a constant of each
service class (see the known limits in section 5).

### 2.2 ToolPipelines

*State.* A plugin holds what was there before the first run or what a run's tool wrote,
half-written (`Torn`) or whole (`Output`). `row` is the lock table; a call of the lock
manager is a single step here, because `ResourceLocks` has its insides. `run[s]` is one
call of a service: where it is, the exception on its way out, the local variables
`target_files` (`listed`), `snapshots` (`snap`), `lock_info.expires_at`, `tx_id`
(`known`), its row in `transactions` (`tx`) and its completed event (`told`). `good`
and `spoiled` are history: what the last successful run left, and the plugins for
which the program itself gave up (a snapshot that is gone, a restore that failed, a
crash, a process or a copy that outlived its task).

*Actions.* One per await of the services, in their order, which differs:
Synthesis and xEdit leave the lock and then commit and publish, DynDOLOD commits and
publishes inside (`AfterRelease`, `Announce`). An exception inside the block goes
through `Raise` to `Restore` and `Release` (`__aexit__`), and from there to the service's
handlers (`Mark`, `Publish`). `Cancel(s)` is a `CancelledError` at the await where
the run is, with what the code makes of it there: `__aenter__` has no handler for
it, so the lock's row is left behind (`CancelEntering`); the child process is not
killed (`CancelTool`, and `OrphanEnds` when it writes); a copy in its thread goes on
(`CancelRestore`, `CopyEnds`). `Start` looks at the file *before* the wait for
the lock; `Snapshot` may evict every snapshot when the size limit is exceeded.
`Faults` and `Cancels` are constants that say what may fail and where tasks are cancelled.

*Properties.* `OneWriter`, `AllOrNothing` (when nobody is inside, the plugin is what
the last successful run left, unless it is spoiled), `HonestEvent` (success only of
what is committed, rolled back only of what is gone), `CommittedFinal`,
`NeverPending`, `RunsEnd`.

### 2.3 FileOperations and UndoStack

*State.* The files, the rows of `transactions` (`tx`) and `journal_entries` (`entry`,
`stamp`, `id`; `last` is the last id given out), the snapshot an
operation took (`snap`), which snapshot files exist (`store`) and are old enough to be
pruned (`old`), and where each call is. A call is an `execute_file_operation` (`Op`) or a
rollback the supervisor executes on demand (`Rollback`). `spoiled` is history: the
files an undo had no snapshot for, or was kept from.

*Actions.* One per await, in the order of the code: `Begin` (transaction), `Snapshot`,
`LogBegin` (entry with a time stamp of whole seconds), `OperationWrites` and
`OperationSucceeds`/`OperationFails`, `Complete`, `Commit`; on failure `Fail`, then the
automatic rollback: `Pick` (`get_last_operation` of the agent, by time stamp and then
by whatever order SQLite gives to equal ones), `Restore` or `RestoreMissing`,
`MarkBack`; and the `finally` clause, `Prune`. `SnapshotFails`, `JournalFails`,
`RestoreFails`, `MarkBackFails`, `Cancel` and `Crash` are the failures; a statement that
fails may have taken effect (`Perhaps`). `GrowOld` is a month without use.

*Properties.* `JournalTellsFile`: with no call under way a file is what the last
completed entry about it says. `UndoesFailed`: an operation's automatic rollback picks
that operation. `LastInFirstOut`: the operations in effect, `InEffect`, each with the id
of its entry, behave as the stack of `UndoStack`. All three are about calls one after the other and in seconds of
their own; see section 5 for what happens otherwise.

### 2.4 SyncRun

*State.* The queue, the producer task (which batch, how many pills, cancelled or
failing), the workers, the task group (`aborting`) and what the caller sees.
`counted` is `result.processed` per batch, `stored` what the registry has.

*Actions.* The producer's reads, its puts (120 s at most), the pills of its `finally`
clause (5 s each) which it puts even when it was cancelled; the workers' takes,
requests and registry statements; the delivery of `CancelledError` at each await; the
end of the group. The requests of a batch are one step (`Fetch`): a failing request is
counted in the result and raises nothing.

*Properties.* `AllCounted`: a run that returns a result has every batch in it once, in
the registry, and nothing left in the queue. `RunEnds`: `run()` always ends.

### 2.5 Approvals and ModUpdates

*State.* Of the guard: where each `request_approval` is (`call`), `_pending`, the
`decision` and the event (`signalled`) of the last request of each id; of Telegram: is
there an operator, does the webhook know him (`authorised`), and the updates the poll
loop has still to handle (`mail`). Of the engine: `cycle`, one `job` per mod and one for
the agent's `download_mod`, the transaction of each update, the registry (`stored`), the
staging directory (`file`) and the breaker. `answer`, `forgotten`, `opened`, `late` and
`faults` are history.

*Actions.* `Approvals` has the guard's steps: `Ask` (a second request with a pending id
is denied), `Notify` and what comes of it, `Respond`, `Wake`, `Expire`, `Abandon` (a
cancelled caller, whose id stays pending if its prompt was being sent), and the
channel, in which answers are late, double or for another request. `ModUpdates` puts
them under the steps of an update: `Begin`, `Fetch` with the breaker and its retries,
`FileInfo`, `Asks`/`Decided`, `Refuse`, `OpenFile`/`Written`/`WriteFails`/
`ManualDownload`, `Upsert`, `LogTask`, `Commit`, `Mark`. Each has the failures of its
await, told apart by who catches them: counted for the mod (`error`), kept by the task's
wrapper (`isolated`), or raised into the task group, which then cancels the other tasks
wherever they are (`Aborts`, `CancelUpdate`).

*Properties.* `NoneUnapproved`: whatever is repeated, late, misdirected or cancelled,
nothing is downloaded or registered unless the last answer taken for its own request
approves. `PendingHasCaller`: no request that nobody waits for blocks later ones, except
as the code allows. `CycleTells`: journal, registry and results of a cycle agree.
`Delivered`: a registered version has its file.

### 2.6 AgentChat

*State.* `history` of each chat, the calls with their messages and round, the provider
lock, `reload_provider` (`swap`), the breaker. A message is told apart by its call,
round and kind. `broken`, `unreported` and `faults` are history.

*Actions.* `SaveQuestion`, `Load` (the last `max_context` messages), `Refuse` or `Admit`
(the token budget may leave, summarise or truncate; the breaker may trip or probe),
`TakeLock`, `Answer` or `ProviderFails`, `SaveAnswer`, `RunTools` or `ToolsRaise`,
`SaveResults`, which cuts the window again and counts the round. `Cancel` and
`DatabaseFails` at each await.

*Properties.* `Paired` (a tool's use and its result are never parted, whichever windows,
summaries and truncations are applied in whichever order), `QuestionKept`, `ChatEnds`
(the lock is never left taken), `Recovers` (the breaker admits requests again).

### 2.7 AppLifecycle

*State.* Where the context is and how often it was started; what is open and by which
start (`live`); the start that the context's references belong to (`ref`); the exit
`stack`; the pool (`pooled`, `open`, `initLock`, and where each `get_connection` is) with
`orphans`, connections nobody refers to any more (history); the supervisor's task.
`lost` is what nothing will close (history).

*Actions.* `StartMinimal`, `Restart` (teardown of the last start, a new stack), one
action per service `start_full` opens, `Rollback` and `Stop`, the unwinding of the stack,
`shutdown_all` with its list of connections made before its awaits, the steps of
`get_connection`, and the supervisor's opening and closing. Every step that can raise
does so in one variant, as long as `MaxFaults` allows.

*Properties.* `NothingLeft`, `Layers` (LIFO: polling never without its router, a router
never without the registry's connection), `OneConnection`, `Settles`.

### 2.8 EventBus

*State.* The queue with the sentinel that `stop()` puts, the publishers that wait
for room, `_running`, the dispatch task, the call of `stop()`, the subscriptions in order,
and for each dispatch of an event to a subscription its `fate`: a task among
`_pending_tasks` that awaits the callback or the insert of the dead letter, a task
among `_dlq_tasks`, or how it ended.

*Actions.* A step is the code between two awaits, so `DispatchLoop` takes an event
and makes the tasks of all its subscriptions at once: `queue.get()` does not
yield while there is something in the queue. A dispatch beyond `MaxPending` tasks goes to the
dead-letter queue, one beyond `MaxDlq` is dropped and logged. `StopBus` puts the sentinel, or
cancels the loop when the queue is full; `StopCancels`, once the loop has ended, cancels
the callbacks; `StopReturns`, once the accepted drops have been written, is its end.

*Properties.* `Reaches`: an event in the queue of a working bus reaches every matching
subscription or is accounted for, and a callback that never returns harms nobody else.
`NoneOutlives`: after `stop()` no task is left. `StopEnds`: `stop()` returns.

### 2.9 DeadLetters

*State.* `dead_letter_events` (`row`), the rows whose time has come (`due`), and the
local variables of each worker: the batch with the attempts *as read*, the row it works
on and its verdict. Time is only kept as what it is compared with. `handled`,
`failures`, `overran` and `lost` are history.

*Actions.* `Start`, `Recover` (once per start, for rows older than 60 s), `Fetch`,
`Claim` (`UPDATE ... WHERE id=? AND status='pending'`), the callback with its
outcomes, `Record`, and the failing form of each statement, which is caught by the loop or,
for the recovery, ends the worker. `StopWorker` is a stop or a crash at any point.
Several workers on one table are several managers with the same database.

*Properties.* `NoDoubleDispatch`, `NotRepeated`, `DeadDeserved` (a letter is given up
only after `MaxAttempts` failures of its callback, although the count comes from a
batch read long before), `Retried`.

## 3. The runs

| Run | Instance | Checks | Shows |
|---|---|---|---|
| `locks_exclusion` | 3 sessions with agents of their own, 1 resource, cancellation and crash | `TypeOK` `MutualExclusion` `LeaseIsRow` `DurableLease` `ImplementsLeases` | one running lease per resource, whatever is cancelled or dies; the manager is a lease service |
| `locks_recovery` | 2 sessions of one service, disk faults, forced releases | `LeakBounded` `CallsTerminate` | leaks end with the TTL, every call ends |
| `tools_atomic` | a Synthesis and an xEdit run on one plugin, every await cancelled, every fault | `TypeOK` `AllOrNothing` `HonestEvent` `CommittedFinal` `RunsEnd` | a run takes effect entirely or not at all, and says which |
| `tools_dyndolod` | two DynDOLOD runs, leases that run out, faults and cancellation | `OneWriter` `AllOrNothing` `NeverPending` | rows left behind let nobody in too early; no transaction stays pending |
| `tools_orphan` | 1 run cancelled while its tool runs | `RolledBack` (violated) | the **finding** of section 5 |
| `file_undo` | 3 file operations and 2 rollbacks on 2 files, one fault of any kind | `JournalTellsFile` `UndoesFailed` `LastInFirstOut` | the journal tells what the files hold; undo is a stack |
| `sync_run` | 2 workers, 5 batches, queue of 2, all failures | `AllCounted` `RunEnds` | results are complete, and runs end |
| `mod_updates` | a cycle of 2 mods, 2 downloads by the agent, one file for both, an operator | `NoneUnapproved` `PendingHasCaller` `CycleTells` `Delivered` | nothing without consent; what a cycle leaves is consistent |
| `agent_chat` | 2 calls of one chat, a hot-swap, a tripping breaker, one fault | `Paired` `QuestionKept` `ChatEnds` `Recovers` | requests are well-formed; calls end; the breaker recovers |
| `app_lifecycle` | 2 starts, a stop, a supervisor, 2 scans, one fault | `NothingLeft` `Layers` `OneConnection` `Settles` | starts and stops leave nothing open, in order |
| `bus_delivery` | 3 events, 2 subscriptions, one that may hang, failing DLQ | `BusTypeOK` `NoneOutlives` `Reaches` `StopEnds` | delivery and shutdown |
| `dlq_retries` | 2 workers, 2 letters, one whose callback outlasts 60 s, one fault | `NoDoubleDispatch` `NotRepeated` `DeadDeserved` `Retried` | retries at the right time, by one worker, as often as due |

### Bounds

* *Locks.* `MaxTime` 2 and `TTL` 1 give a lease its three phases: running, at its last
  instant (the comparison is strict), over. Three sessions allow a late release while
  a third acquires; `MaxRetries` 1 in the three-session run, where retries only
  repeat what other sessions do anyway, and 2 in `locks_recovery`, which is about
  retries. One resource: statements on different rows have nothing in common
  but the commit, and the theorems hold for any number of resources.
* *Pipelines.* Two runs on one plugin meet in every pair of places; a third only adds a
  successor of the successor. `MaxTime` is 1 in `tools_atomic`, where the clock matters
  only for the row that a crash leaves, and 2 in `tools_dyndolod`, where rows left by
  a cancelled run must expire and be taken over. In both, `Slow` is empty: every tool
  ends within its lease. That is true of Synthesis (300 s) and xEdit (120 s) with a
  lease of 600 s. It is not true of DynDOLOD (14400 s): with a DynDOLOD run in `Slow`,
  `OneWriter` is violated, and what `tools_dyndolod` shows is about runs that stay within
  their lease. `tools_dyndolod` leaves out cancellation in `begin` and `mark`,
  where the program does not know the id of its transaction or has stopped in
  the middle of marking it, and `NeverPending` fails.
* *File operations.* Three operations, one of them a deletion, on two files: an undo
  with something of the same file and something of the other file below it. Two
  rollbacks take back two in a row. `Overlap` and `Ties` are `FALSE` (section 5).
  `MaxFaults` 1: any one statement, snapshot or restore that fails, one cancellation or
  crash, at any point; evictions are not bounded.
* *Updates.* Two mods, so that a failing task finds another one at every one of its
  steps. The agent downloads the file of one of them, twice, so that an id is asked for
  again after its caller was cancelled. Two tries and a threshold of two: an attempt
  that fails and one that opens the breaker. `MaxAnswers` 1 is one answer, at any time
  and for any of the ids; `MaxFaults` 1 is one failing statement of the journal or the
  registry, or one cancelled call of the agent; failures of the network are not bounded.
  The theorems hold for any number of each of these.
* *Chat.* `MaxContext` 4 holds a question with one round and a half, `Preserve` 2 makes
  summaries and truncations cut in the middle of it; two rounds are one that goes on and
  one that is the last. Two calls of one chat are one after the other, or meet anywhere.
* *Context.* Two starts: the second tears down what the first has opened, or what a
  failed one has left. One failing step at any point; two scans race each other, a
  start and a shutdown. The theorems hold for any number of starts, scans and failures.
* *Event bus.* A queue of 2 with three events, one place for pending tasks and one for
  drops: all three limits (1024, 50 and 50 in the code) are reached. One `start()`:
  nobody restarts a bus today, and a second start meets the sentinel of the first.
* *Dead letters.* Two workers and two letters are what a double dispatch and a stale
  batch need; two attempts are one retry and one death; one fault (a stop, a crash or a
  failing statement) at any point. Batches of one row keep the run short (it passes with
  two); the theorems hold for any size, and any number of workers and letters.
* *Sync.* Five batches for a queue of two and two workers: queue and workers are full
  and a batch still waits, as with more than 50 batches in the code.

### Fairness

The event loop runs every task that is ready, the worker threads of `aiosqlite` and
`to_thread` finish their statements and copies, and every wait the code bounds by a
time-out ends. So there is weak fairness on the steps of a call once it has begun, and
none on its beginning (`Acquire` and `Release` of the lock manager, `Start` of a
pipeline or a chat call, `Restart` and `Stop` of the context, `Publish` and `StopBus` of
the bus), on cancellation, on failures, on a crash or on the clock of the locks. In
detail:

* `ResourceLocks`: the statements and sleeps of a session in progress;
* `ToolPipelines`: every step of a run. A runner kills its tool at the time-out, and
  the attempts of `acquire_lock` are counted (`Refused`);
* `SyncRun`: the producer, the workers and the group;
* `AgentChat`: each call's own steps (the provider answers or its 120 s run out, the
  lock is given on), a waiting hot-swap, and the breaker's time;
* `AppLifecycle`: a start, a closing, each request for a connection, the supervisor;
* `EventBus`: the loop, `stop()`, the wake-up of a publisher, the dead-letter tasks, and
  the callbacks outside `Hang`;
* `DeadLetters`: the workers and their callbacks; time passes (`BecomeDue`,
  `BecomeStale`); managers are started (the program starts them at every launch).

`FileOperations` and `ModUpdates` are checked for safety only.

`CHECK_DEADLOCK` is off where the system comes to rest: all runs over, all
events delivered, the sync finished, the context stopped. The lock manager has no such
state, and its runs check deadlock.

## 4. The theorems

TLAPS proves these for every value of the constants that satisfies the modules'
`ASSUME`s. No module with a theorem has a recursive operator: what the code does with a
`for` loop over a list is a `FoldLeft` there.

**FoldTheorems**

The bus routes an event to its subscriptions one by one, and the token budget sorts
messages one by one. `FoldLeft` is defined by a recursive function chosen on the sets of
indices, so nothing about its result is known until such a function is shown to exist,
which takes an induction. It is done without induction theorems that take an operator:
`LeastNatural` (from the well-foundedness of the naturals) gives every set of naturals a
least element, and `Everything` makes it strong induction for a set of naturals.
`FoldExists` builds the function for a step that stays within a set, and `FoldKeeps` says
that the result then stays there too.

**ResourceLocksProofs**

| Theorem | States | Beyond the constants' assumptions |
|---|---|---|
| `TypeCorrect` | `Spec => []TypeOK` | |
| `Exclusion` | `Spec => []MutualExclusion` | `Separated` |
| `LeaseKept` | `Spec => []LeaseIsRow` | `Separated` |
| `LeaseDurable` | `Spec => []DurableLease` | `Separated` |
| `Refinement` | `Spec => ImplementsLeases` | `Separated` |
| `LeakIsBounded` | `Spec => []LeakBounded` | |

`MutualExclusion` speaks of sessions that hold; it is not inductive, because a session
whose statement has run and is not yet committed is as good as a holder. The invariant
is `LockInv`: `TypeOK`, `LeaseIsRow` (which is about `Claimed` sessions, those
with a won statement included) and `DurableLease`. Two leases on one resource would be
one row with two owners, which `Separated` excludes (`LockInvExcludes`). A step either
leaves a claim alone, or is the claiming session's own, or is the statement that makes it
(`ClaimStep`); and nobody else's statement touches the row of a running lease
(`OthersLeaveRow`). The refinement needs a little more: a commit that makes a
session a holder is a `Grant`, every other step a `Drop`, an `Advance` or a stutter.

**ToolPipelinesProofs**

| Theorem | States | Beyond the constants' assumptions |
|---|---|---|
| `TypeCorrect` | `Spec => []TypeOK` | |
| `WritersExclude` | `Spec => []OneWriter` | `Timely` (no tool outlasts its lease), `SameLock` (runs that write one plugin lock one name) |
| `CommittedStays` | `Spec => CommittedFinal` | no DynDOLOD run |
| `TakeEffectEntirely` | `Spec => []AllOrNothing` | `Timely`, `SameLock` |
| `EventsHonest` | `Spec => []HonestEvent` | `Timely`, `SameLock`, no DynDOLOD run |
| `LodNeverPending` | `Spec => []NeverPending` | `JournalAnswers` |

`OneWriter` is not inductive: the lock table must say why the second run does not get
in. `WriterInv` adds `LeaseCovers` (the row of a run inside is the lease it was
granted, and the clock has not passed it) and `OneInside` (one run inside per lock).
Then a claimable lock has nobody inside (`ClaimableFree`), a step that brings nobody
in and leaves the table alone keeps it (`KeepsInv`), and so does a step that takes a
run out (`LeavesInv`), whether it deletes the row or leaves it behind. Both
assumptions of the theorem are needed and both are violated by DynDOLOD (hazards at
`dyndolod_runner.py:106` and `dyndolod_service.py:226`). Runs of one service share an
`agent_id`, which does no harm here: a `Timely` run is never inside after its lease.

`CommittedFinal` needs to know where a run is once it has committed: `CommitLast` says
at its last steps, past every handler that marks a transaction, which overwrites any
status. DynDOLOD commits inside the lock and may mark afterwards, so it is excluded.

`AllOrNothing` speaks of plugins nobody works on. `Undoable` says what the run inside
keeps true of its own: the file is the good state or the run's work, and its snapshot,
once taken, is the good state or missing. It can rely on that because nobody else with
this plugin is inside, which is `OneInside`; a run that comes
in finds the plugin whole for the same reason (`AcquireWhole`). What goes on without its
task, the orphaned process and the copy, writes behind this invariant's back and spoils
the plugin it writes (`SpoilingStep`). Both assumptions are those of `WritersExclude`,
and DynDOLOD violates both.

For `HonestEvent`, `Sees` follows what a run knows from its first await to the event: an
exception that leads to "rolled back" is never met after the run has made the good state,
a cancellation is never told, and the commit lies before every way to "success". So a
plugin that is announced as rolled back is not the run's own good state, and
`TakeEffectEntirely` says that it is a good state or the work of another run. DynDOLOD
announces inside the lock and may be rolled back afterwards.

`NeverPending` is about DynDOLOD. `Closing` says where a pending row may be: the run knows
its id, and is at a step from which every way leads past `Commit` or `Mark`. That a run
leaves the lock with a pending row only with an exception on its way out is what makes
the handlers, and so `Mark`, certain. `JournalAnswers` (no failing statement of the
journal, no cancellation in the two awaits that insert and mark the row) is needed: in
each of these cases the row stays behind.

**SyncEngineProofs**: file operations

| Theorem | States | Beyond the constants' assumptions |
|---|---|---|
| `TypeCorrect` | `Spec => []TypeOK` | `OneAtATime` |
| `JournalTells` | `Spec => []JournalTellsFile` | `OneAtATime` |
| `OwnUndo` | `Spec => UndoesFailed` | `OneAtATime` |
| `UndoOrder` | `Spec => LastInFirstOut` | `OneAtATime` |

`OneAtATime` is `~Overlap /\ ~Ties`: one call at a time, no two entries in one second.
The code enforces neither, and section 5 ("Two operations undo each other") says what
happens otherwise; any number of operations, rollbacks, files, faults and crashes is
allowed. `JournalTellsFile` says what files are when no call is under way; the invariant
says what the entries tell of any point of the past. `Tells(p, k, x)`: the completed
entries about `p` with ids below `k` make it `x`. `SnapOK`: a snapshot that may still be
put back is what the entries before its operation tell. `FileOK`: a file no call is at
work on is what all entries tell. `VictimOK`: what is being undone has the highest id of
all that can be, which `Ids` (ids and time stamps count together) makes the entry that
`get_last_operation` picks. So putting its snapshot back makes the file what the
remaining entries tell: when it is marked, nothing lies above it. `PlaceOK` ties an
operation's step to its entry: an operation at work is the last entry. Steps that leave
the journal alone keep all of this for one reason (`Still`); so do the steps that make
or mark an entry (`Enters`, `Marks`). The refinement maps a completed operation to a push
and a mark on a completed one to a pop of the top (`OnTop`); the rest stutters.

**SyncEngineProofs**: runs

| Theorem | States |
|---|---|
| `RunTypeCorrect` | `RunSpec => []RunTypeOK` |
| `EverythingCounted` | `RunSpec => []AllCounted` |

`AllCounted` speaks of the moment a result is returned; the invariant says all the way
where each batch is. `Line`: the queue is the next batches in order and then pills, as
many as were put less those that have ended a worker, and no worker has ended while a
batch is in the queue. `Shares`: a batch that was taken is with one worker or stored,
counted when it should be, and one that was not is neither. `Progressing`: without an
abort none is missing. `Healthy`: without an abort no task has failed, and a producer
that is done has read everything and put all pills. When a run returns, every worker has
taken its pill, so no pill is left and no batch is ahead; the batches taken are all
there are.

**ModUpdatesProofs**

| Theorem | States |
|---|---|
| `TypeCorrect` | `Spec => []TypeOK` |
| `NoDownloadWithoutConsent` | `Spec => []NoneUnapproved` |
| `PendingIsWaitedFor` | `Spec => []PendingHasCaller` |
| `ApprovedByItsAnswer` | `Spec => []ApprovedByAnswer` |
| `CycleToldTruly` | `Spec => []CycleTells` |
| `RegisteredDelivered` | `Spec => []Delivered` |

A task that was told to go on relies on `answer`, which a later answer for its id would
change. Answers are taken for pending ids only; so the invariant follows an id. `Asked`:
while a caller waits, its id is pending, and a decision that approves is the last answer.
`Blocked`: an id whose caller was cancelled while the prompt was sent is pending for
good, and no later request with it is let through, so no task relies on it. `CallAtAsk`
and `StoredLate` tie the guard's calls and the registry to the tasks' steps.

On top of that invariant stand two more. `CycleTells` looks at a cycle that is over;
`Told` follows every update to there: from `Begin` to its last step its transaction is
pending, its result is open until it is committed or marked, and whoever fails after the
upsert is in `late`. `Grouped`: a task is cancelled only after another has raised, and
the cycle then raises too. Cancellation at any step keeps `Told` (`CancelTells`).
`Delivered` needs `Complete` (the file is there from the download to the upsert, not only
from then on) and `Sharing`: whoever may write to the file that an update and the agent
share has opened it, so that a write by one to what the other relies on means that both
have (`WriteKeeps`). All other steps leave files and downloads alone (`Quiet`).

**EventDeliveryProofs**

| Theorem | States |
|---|---|
| `BusTypeCorrect` | `BusSpec => []BusTypeOK` |
| `NothingOutlives` | `BusSpec => []NoneOutlives` |
| `TypeCorrect` | `Spec => []TypeOK` (`DeadLetters`) |
| `OneDispatch` | `Spec => []NoDoubleDispatch` |
| `HandledOnce` | `Spec => []NotRepeated` |
| `GivenUpForCause` | `Spec => []DeadDeserved` |

`BusTypeOK` says a little more than types: the queue never exceeds its size, nobody waits
or is subscribed twice, and every dispatch has one fate. One step of the loop routes every
event in the queue to every subscription, each time against the limits as the last one
has left them. `RouteTyped` is about one event, a fold over the subscriptions, `RoutesTyped`
about a fold over events, and `DrainTyped` about what the loop takes from the queue, the
sentinel that `stop()` puts included.

Callbacks are started by the dispatch loop only, and `stop()` awaits the loop before it
cancels them. `Phases` ties the two: when `stop()` drains, the loop is gone. `Quiet`
says that without a loop no callback runs or is about to enqueue its failure, and that
`stop()` has not returned while there are drops. It says nothing while a
loop runs, so what the loop makes of the queue, event by event, need not be followed.

The theorems about dead letters hold for any number of workers and letters and any size
of a batch. A worker relies on what it read and on a row that it wrote, never on a lock. `OwnRow`: a
row that some worker attends to and that was never 60 s old is in progress, not stale,
and attended to by that worker only; so a claim, which needs a pending row, finds nobody
there, and a recovery, which needs a stale one, passes it over. `Finished`: a
letter whose callback has returned is deleted, or with a worker that is about to delete
it. `Counting`: the attempts in a row, in a batch and with a worker never exceed the
failures of the letter, until these have reached `MaxAttempts`. All three are kept by every step after which a worker attends to nothing
(`Leaving`), which is most of them.

**AppLifecycleProofs**

| Theorem | States |
|---|---|
| `TypeCorrect` | `Spec => []TypeOK` |
| `ClosedAfterAll` | `Spec => []NothingLeft` |
| `LayersStand` | `Spec => []Layers` |
| `SingleConnection` | `Spec => []OneConnection` |

The theorems hold for any number of starts, scans and failures. `PoolInv` counts
connections: those open to a file are the orphans, the one in the pool and the one whose
pragmas run, and the lock keeps the last two from being there together. For the context,
`Kept` is what is open and not lost. `Held`: from the new stack on, each part in `Kept`
has its closer on the stack and is of the current start (or the session). `Referred`: the
closers of the router and of polling, which close what the context refers to when they
run, find the part they were pushed for. So a closer that runs takes its part out of
`Kept`, and with an empty stack `Kept` is empty: `NothingLeft`. `Ordered`: the stack is
in the order of opening, and what is still to open comes behind it. So what a part was
opened on has its closer below, and the pool's closer, the lowest, runs last: `Layers`.
Nothing of this holds between a restart and its new stack, where only the teardown
closes; there `Referred` says that no router is left but the one it closes.

**AgentChatProofs**

| Theorem | States | Beyond the constants' assumptions |
|---|---|---|
| `TypeCorrect` | `Spec => []TypeOK` | |
| `PairsKept` | `Spec => []Paired` | `EvenWindows` |
| `QuestionShown` | `Spec => []QuestionKept` | `RoundsFit` |

`EvenWindows` says that `MaxContext` and `Preserve` are even: 20 (`router.py:44`) and 6
(`token_budget.py:45`) in the code. With an odd window, a request may begin with results
whose use it has cut off, which is the mutant of `Paired` (`LoadFewer`). `RoundsFit`,
`2 * MaxRounds <= MaxContext + 1`, holds for 10 rounds and a window of 20
(`router.py:44-45`), and TLC checks both properties where they hold, with 2 rounds and a window of 4.
The theorems are about any history and any number of calls, rounds and messages.

A provider sees a window that was cut twice or more, from a history that other calls have
written before, with whatever the budget has kept of it. What holds of all these is
`Beat(s, k, z)`: after `k` summaries, what the model is told (questions, results) and
what it says (uses, texts) alternate, results follow their use, and the place of each is
counted from the end. So an even window keeps the beat (`RecentBeats`) and begins with
what is told only when that is a question; a turn more shifts it (`AppendBeats`); and the
budget, which takes the messages apart by a loop and puts summaries in front of an even
number of turns, keeps it too (`ThoseParts`, by the fold lemmas, and `BudgetBeats`).
Messages that have the beat and end with what is told are what a provider accepts
(`BeatAccepted`).

`Recorded` gives the history of a chat the beat that the place of its call calls for,
`Window` the messages of the call, and a history no call is at work on is `Quiet`: it ends
with a text. That one call of a whole chat is at work at a time (`Others`) comes from the
definition of `broken`: whatever meets another call, fails or is cut short leaves a chat
without the guarantee. So every failure and every cancellation keeps the invariant for
one reason (`Broke`), as do all steps that only pass a call on (`Passing`). `Since` counts
back to the question: two messages for each round, which the window is wide enough for.

*Convention.* A step that changes several fields of a record writes
`[f EXCEPT ![x] = [@ EXCEPT !.a = ..., !.b = ...]]` (or names the new record, as
`Becomes` and `GoOn` do), never `[f EXCEPT ![x].a = ..., ![x].b = ...]`: version
1.4.5 of the proof system translates the second form wrongly for its SMT backend, and
a proof that uses it together with a fact about the old value of one of the fields is
worth nothing.

*Model-checked only.* Every liveness property (`CallsTerminate`, `RunsEnd`, `RunEnds`,
`Reaches`, `StopEnds`, `Retried`, `ChatEnds`, `Recovers`, `Settles`) is beyond this
prover, which has no `ENABLED` and no fairness. Every invariant and every action property
of a passing run is a theorem. What the theorems' hypotheses leave out is not claimed: a
DynDOLOD run that outlasts its lease or whose plugin is locked under another name
(`OneWriter`, `AllOrNothing`), DynDOLOD's own events (`HonestEvent`) and marks
(`CommittedFinal`), file operations that overlap (section 5), and windows that are odd or
too short for the rounds (`Paired`, `QuestionKept`).

## 5. Findings

**A tool that goes on** (`tools_orphan`). `locks.py:442` says "files rolled back,
then lock released". The runners kill the process on `TimeoutError` only; after a
cancellation it writes its output over the restored file.

### Known limits

These follow from the code as well. Each is stated as a property in its module; no run
checks it, because it does not hold.

* **A service's runs are one agent** (`OneAgentAtATime`, `ResourceLocks`).
  `locks.py:15-16` says "only one agent can hold a lock at a time". `release_lock` deletes
  by resource and `agent_id`, and `AGENT_ID` is a constant of the service class: the
  late release of a run whose lease has expired deletes the row of the service's next
  run, and a third party acquires while that run's lease is still running.
* **A lock that is not released** (`LockReleased`, `ToolPipelines`). `locks.py:31-32` says
  that `CancelledError` is not caught, "ensuring the lock is always released in
  `__aexit__`". `__aexit__` is called only when `__aenter__` has returned: a task
  cancelled in `create_snapshot` leaves the row until it expires.
* **Stranded dead letters** (`StrandedRecovered`, `DeadLetters`). `dlq_manager.py:205`
  says that rows left by a crash or a cancellation are recovered. Recovery runs once, at
  the start of a worker, for rows older than 60 s: after a quick restart they stay in
  progress.
* **A slow run is aborted** (`RaisesForCause`, `SyncRun`). `sync_engine.py:71-73`
  justifies the bound on a pill's put by workers that died. With more than 1000 mods the
  queue of 50 batches of 20 is full when the producer ends; if no worker finishes its
  batch within 5 s, the put times out and the task group cancels workers that are alive.
* **Two operations undo each other** (`UndoesFailed`, `FileOperations`, with `Overlap` or
  `Ties`). `undo_last_operation` picks the agent's newest entry, and all entries are of
  the agent "sync_engine": an operation that fails while a later one is under way, or in
  the same second as another one, may undo the other.
* **One mod aborts the cycle** (`SingleFailureIsolated`, `ModUpdates`).
  `sync_engine.py:373-374` says that "a single mod failure never aborts the entire
  cycle". The task's wrapper knows neither a `DownloadError` nor the gateway's errors,
  and the task group cancels the other updates.
* **A probe that is never reported** (`NeverShutForGood`, `AgentChat`).
  `token_circuit_breaker.py:16` says "Recovery timeout prevents permanent OPEN state". A
  half-open breaker admits one request; if that one fails or is cancelled, nothing is
  recorded and no other is admitted, until a call that was admitted before gets its
  answer. `Recovers` therefore excepts it.

## 6. What could come next

1. `VramrPipeline`, once something constructs the service: a lock without snapshots, and
   a clean-up that deletes what was not there before; composed with `LockTable` as
   `ToolPipelines` is.
2. The watcher's persisted time stamp, composed with `EventBus`.
3. The liveness of an update cycle: every task ends though the operator never answers.

## 7. What is not modelled

* *Texts and payloads*: what a tool prints, what a plugin contains, which event carries
  what. A plugin is told apart only by who wrote it.
* *What nothing runs.* No part of the program executes the state graph or submits events
  to it, so neither it nor its loop guardrail is a protocol yet; nothing constructs the
  VRAMr service; idempotency and the tool state machine are used by tests only, and the
  gate around the supervisor's strategies has no notify function and lets every tool pass.
* *The daemons* are poll loops of a few statements. The watcher persists the time stamp
  of the load order before it publishes the change, so that a crash, a stop or a failed
  publish in between loses the announcement. The maintenance daemon makes checkpoints and
  prunes.
* *The other parts listed as not modelled in section 1*: parsers, front ends, the
  language model, network I/O. They decide little that other parts have to agree on.
* *Within the modelled parts*: the lazy set-up of runners, statistics and listings, a
  producer that is cancelled before its first step, requests of one batch that run at the
  same time (they share nothing but the result), the semaphores of the updates, which
  only delay. The manual download takes it that the API tells the size of a file.
* *What is modelled and not wired*: `app_context` gives the sync engine neither a
  downloader nor a rollback manager, and nobody calls its `shutdown()`. `ModUpdates`
  starts with and without a downloader; `FileOperations` is the engine with a rollback
  manager, as its constructor allows.
* *Other processes* on the same databases: the lock manager's file may be opened by a
  second process, which is one more set of sessions whose commits are separate. The
  model has one connection; `Crash` and `durable` say what the next process finds.
