# Hassette in TLA+

Hassette is a framework for Home Assistant automations in Python: apps subscribe
handlers to events and schedule jobs; the framework keeps a connection to Home
Assistant, a cache of its states, and a database of every execution. Nearly all of
it runs on one asyncio loop, so its hard bugs are those of tasks that interleave at
`await`: what was read before a suspension and used after it, a cancellation that
arrives in between, a queue at its limit, a service that is restarted under its
callers.

This directory models the parts where that happens, from the guard around one handler to
the life of the process, checks them with TLC, and proves with TLAPS that the guard keeps its promise and the executor the database's,
that no occurrence of a job and no record of an execution is lost or doubled, and the
safety of the cache of states, of event dispatch, of restarts, of the session records and of the stopping of apps. Paths below are relative to
`src/src/hassette/` unless they start with `docs/`, `tests/` or `src/`.

    tlc -config Guard_modes.cfg ExecutionModeGuard      # a run: module and cfg in PROJECT.json
    tlapm ExecutionModeGuardProofs.tla                  # the proofs

1. [The system](#the-system)
2. [The modules](#the-modules)
3. [The runs](#the-runs)
4. [Where code and documentation disagree](#where-code-and-documentation-disagree)
5. [The proofs](#the-proofs)
6. [Not modelled](#not-modelled)
7. [Plan](#plan)

## The system

### Components

| component | state | operations | modelled in |
|---|---|---|---|
| Execution-mode guard (`execution_mode.py`) | tracked task, lock, FIFO of factories, completion futures | `run`, `release`, done-callback `drain_next`, `run_through_guard`, `drain_pending_done` | `ExecutionModeGuard` |
| Scheduler (`core/scheduler_service.py`, `scheduler/`) | due-time heap, live registry, names, entity watches, rows in `scheduled_jobs` | register, replace, remove, remove all, submit, reschedule, dispatch, `serve` | `SchedulerService` |
| State proxy (`core/state_proxy.py`) | cache, freshness, capability latch, sync coordinator (task, generation, pending request, journal, retry) | event application, observers, bootstrap, poll, retry, commit, `on_disconnect` | `StateProxy` |
| WebSocket service (`core/websocket_service.py`) | connection state, generation, receive task, pending responses | connect, subscribe, receive, notify observers, early drop, failure | `WebsocketService` |
| Command executor (`core/command_executor.py`) | record queue, retry batches, drop counters | execute, drain and persist, retry, row-by-row fallback, flush | `CommandExecutor` |
| Database service (`core/database_service.py`) | bounded write queue, worker, accepting flag | `submit`, `enqueue`, worker, drain and close, restart | `DatabaseService` |
| Bus (`core/bus_service.py`, `bus/`) | router, names, dispatch slots, pending count, duration timers | register, replace, cancel, stop, dispatch, immediate fire, holds | `BusService` |
| Rate limiter (`bus/rate_limiter.py`) | debounce task, time of the last throttled attempt | call, cancel | `BusService` |
| Resource/Service lifecycle (`resources/`) | status, readiness event, serve task, children | start, initialize, shutdown, restart, force-terminate | `ServiceLifecycle` |
| Service watcher (`core/service_watcher.py`) | budgets, restarting set, cooldown tasks | restart, backoff, cooldown, exhaust, crash | `ServiceWatcher`; crash and fatal exhaustion in `HassetteCore` |
| Hassette core (`core/core.py`) | waves, shutdown flags, fatal reason | `run_forever`, `shutdown`, `record_fatal_reason` | `HassetteCore` |
| App lifecycle (`core/app_*.py`) | registry, per-app locks, change lock, bootstrap latch, pending reconciliation | bootstrap, start, stop, reload, apply changes, shutdown all | `AppLifecycleService` |
| Session manager (`core/session_manager.py`) | session id, error flag, lock | create, mark orphans, record crash, finalize | `HassetteCore` |
| Sync executor, task bucket | thread pool, tracked tasks | submit, interrupt, cancel all | – |
| Event stream and filters | bounded channel | send, receive, close | as an order of events |
| REST API, web API and UI, CLI, queries, logging, migrations, watchdogs, models, conversion, injection, configuration, test utilities | none that a protocol depends on | | – |

`PROJECT.json` lists every one with its files and the reason for its status.

### How they interact

    Home Assistant --frames--> WebsocketService --events--> event stream --> BusService
          ^                        |  observers                              |      |
          | get_states             v (awaited)                   dispatch    v      v
          +------------------- StateProxy <------------- state_changed   listeners  scheduler's
                                                                            |       entity watch
                                                                            v
       SchedulerService --dispatch--> ExecutionModeGuard <--dispatch-- Listener
              |                              |
              | rows, status                 v
              |                       CommandExecutor --batches--> DatabaseService --> SQLite
              +------------------------- submit() --------------------^

       ServiceWatcher <--FAILED, RUNNING, CRASHED-- BusService <-- every service
          | restart(), request_shutdown(), Hassette.shutdown()
          v
       HassetteCore --waves--> services    AppLifecycleService <-- file changes, web API
          | SessionManager                        | start, stop, reload
          v                                       v
       DatabaseService                     apps (listeners and jobs)

* **Calls awaited across components**: `WebsocketService.serve()` awaits StateProxy's
  disconnect observer and its connected observer's first steps; registrations, removals and status changes of jobs
  and listeners await `DatabaseService.submit()`.
* **Events**: state changes travel over a channel and a dispatch loop with a bounded
  number of slots; every listener's handler is its own task.
* **Callbacks**: a done-callback drains the guard's queue; `call_soon` order decides
  whether a trigger or the callback comes first.
* **Supervision**: a failed service sends an event that the bus delivers to the watcher, which restarts it or asks the process to stop;
  the bus and the watcher are themselves services that the teardown stops.
* **Shared state**: the scheduler reads StateProxy's cache, which may lag behind the
  event that told it to; executor and scheduler share the database's write queue.

### What is hard, and what makes each part correct

| component | what is hard | correct means |
|---|---|---|
| guard | `drain_next` starts invocations without the lock that `run` and `release` hold across suspensions; triggers slip in between a task's end and its callback | no two invocations overlap; none escapes the guard; whatever is queued or parked has someone left to wake it |
| scheduler | a job is off the heap both while it is dispatched and while a reschedule writes its status; removals and replacements interleave with both; the loop sleeps on a time that moves | no due occurrence is lost or fired twice, the sleep is never too long, names and rows follow the live job |
| state proxy | bulk snapshot and event stream race; synchronizations are requested by observers, bootstrap, poll and retry; connections die at every await | one synchronization at a time, committed only for its own connection, after which the cache is Home Assistant's state; it does become fresh |
| executor and database | bounded queues on both sides, retries, a fallback, restart of the database between two batches, cancellation at any await | every record is in exactly one place or given up and counted; nothing is written to a closed database; no caller hangs |
| bus | the slot semaphore, the pending counter and the active-timer count are kept by hand on many paths; timers, immediate fires and events race for one once-listener; names outlive listeners | counters return to zero, a hold is a hold, once is once, a name never belongs to a dead listener |
| watcher, service | restarts and the teardown are concurrent calls of `initialize()` and `shutdown()` kept apart by flags; FAILED events are dropped as duplicates; a readiness wait resets the budget late | one restart at a time; none of a service given up or stopped; the budget holds; no failure is forgotten; the teardown ends |
| core, session | a crash is served by two handlers, one records it, one stops the process; a handler may call `shutdown()` itself; the last write races the database's close; a kill at any point | a failure once recorded stays recorded, no dead process's session looks alive, a requested shutdown ends |
| app lifecycle | start, stop and reload come from three tasks; changes before the release are postponed and replayed; the shutdown does not take the locks | the configuration is followed in the end; every live instance is in the registry; each is shut down |

The hazards, each at its line, are in `PROJECT.json`; the four without a property say why.

## The modules

Each action is what one task does from one suspension point to the next, with every
call it makes. Suspensions at which nothing else can interfere (an uncontended lock, an `await` of a
coroutine that does not suspend) are not steps. `\* Mutant:` marks a changed form of
the definition that follows it, used only to show that a property can fail.

### ExecutionModeGuard and SerialExecution

`SerialExecution` is the promise: every trigger is refused, or waits and runs or is
discarded, and at most one runs. `ExecutionModeGuard` is `execution_mode.py` whole: modes
single, restart and queued (parallel has no state), the lock with its waiters, the `gather`
on a cancelled task, the done-callback as a step of its own after the task's end, and the completion future
of each parked dispatch. A trigger is one call of `run_through_guard`, a release one of
`release()` followed by `drain_pending_done()`; `Faulty` triggers are those whose
`run_and_track` raises, `Cancellable` ones those whose caller may be cancelled wherever it is suspended: waiting for the lock (`StopLocking`),
in `await done` (`StopAwaitingDone`: the invocation or the queued factory stays), or in the `gather` of a restart, which raises only when the old invocation is over and keeps the lock until then
(`StopReplacing`, `UnwindReplacing`). `SerialExecution` is checked and proved as a refinement (`KeepsSerialPromise`).

### SchedulerService

Heap, registry, names, entity watches and rows as functions of the job or its natural
key; the tasks (registration, dispatch, handler, removal, reschedule) as a small pool of records whose `at`
is the suspension they are at; database writes through one FIFO (`dbq`), whose order is
the write queue's. `serve` is its sleep: until when, and whether it was kicked. The clock
ticks only up to the scenario's end. Triggers are reduced to their kind: once, recurring, entity,
manual. A `Scenario` record in a variable says which calls a behaviour makes, so one run covers
several without multiplying them.

### WebsocketService and StateProxy

`WebsocketService` has the connection: `serve()` by its `pc`, the receive task, the
subscription and the generation that `get_connected_generation()` hands out while the connection is externally ready.
Home Assistant is its environment: it changes entities and sends frames in order. `StateProxy`
extends it and completes the steps that call into the proxy. `sync` is the
coordinator, `task` the synchronization tasks alive (one tracked, others unwinding), `caller` who awaits
them: the observer, the bootstrap, the poll, retries. Values are versions:
`last_updated` is what the code compares. `OneSynchronization` has two halves, the task (`TaskTracked`) and the
retry (`RetryTracked`). A retry is scheduled under a free one of the names `Retries`. One name is the sleeping retry's, another that of a retry whose synchronization has just failed; two
leave out only that a further backoff elapses before that one has returned.

### DatabaseService and CommandExecutor

`DatabaseService` keeps the write queue, the callers suspended in `put`, the worker's
write and the stages of `on_shutdown()` and restart, with writes opaque; its `DbSpec` is the
contract its users rely on. `CommandExecutor` extends it, gives writes their
content and takes the place of the caller `Executor`; it does to the database only what `DbSpec`
allows (property `DbSpec` of `exec_records`, theorem `ImplementsDatabase`). Records sit in single items or `RetryableBatch`es; `serve` is the
coroutine with what it holds; `lost` is a history variable that says by which path a record was
given up, which the code's counters only partly know.

### BusService

One app, its `Bus` and the topic of one entity. The listeners differ by the sets of the
scenario: once, held (duration), immediate, parallel or single, dropping (DROP_NEWEST), with a
predicate on the old state, debounced or throttled. The ready queue of the event loop is explicit and FIFO, because the order of
tasks created by one dispatch matters here; handlers, timers and database writes end at any time.
`StateProxy` is one more target, given each event after the app's listeners, so an immediate fire or a timer may read a state
older than the event. The body of a handler is its start and its end.
A debounced listener has one `delayed_call()` task, asleep (`delayed`) or running the handler (`running[l]["late"]`), which the next event or the removal
cancels; it holds no slot and no pending count. `owed` is a history variable: the last event of the listener is not handled yet. Not
among the scenarios: a listener that drops events and is held and immediate at once (see below).

### ServiceLifecycle and ServiceWatcher

`ServiceLifecycle` is one `Service` that has started. `at[t]` is where task `t` is in `initialize()`, `shutdown()` or the
restart made of both; `serve` has every serve task that still lives and `current` the one the service knows. Hooks and `serve()` fail a bounded number of times;
a failure sends an event. `serve()` may also return (`Completes`). `ReadyIn` says whether the service marks itself ready in `on_initialize()` or in `serve()`.
A service with `children` initializes them after it has spawned `serve()` (stage `trail`), so the new attempt may fail, complete or become ready while its restart is still under way.
`ServiceWatcher` extends it with the handlers of `service_watcher.py` for one TRANSIENT service: the `restarting` mark, the budget, whose
entries may leave its window at any time (`Expires`), cooldown cycles, the tasks that wait for readiness (`waiters`; the `woken` ones go on even if the service is unready again by then), a cooldown that an exhausted budget
replaces and cancels in the middle of its restart (`replaced`, `Interrupts`), and the teardown by waves: `Wave` says whether the
service's wave stops before, with or after the watcher's.

### HassetteCore

One process after the other: `run_forever()` by its steps (`at["main"]`), the watcher's handler that calls `shutdown()` inline (`at["inline"]`), the
session row of every process, the database's write queue with the four writes of `SessionManager`, any of which may raise. A crash is an
event, then two handlers. The waves of startup and teardown are reduced to the order that matters here: watcher, bus with its handlers, session
manager, database. SIGTERM and a kill come at any point; a kill keeps `rows` and nothing else.

### AppLifecycleService

Three kinds of tasks start, stop and reload apps: the bootstrap (one task per app, admitted only once the bootstrap is released), the
file-change handler, and requests. `holder` is the per-app lock, `changing` the change lock, `pending` the snapshot postponed until the
release. A reload reads the file, or fails and leaves the manifests as they are or empty (`Reloads`). An instance remembers the section of the configuration it was made from, so that *the configuration is followed* can be
said. `seen` is a history variable read by properties only: it marks the histories in which the code knowingly or unknowingly does less (see the
disagreements), so that the properties hold of all others.

### What is abstracted everywhere

Payloads, names, predicates, log lines and formatting; the number of apps; wall-clock time, except the scheduler's
clock; threads (synchronous handlers run in one, to the loop they are a handler that ends some time).
Each module names its bounds as constants or fields of its scenario.

## The runs

Every property has a mutant in `PROJECT.json`: a plausible bug in one definition under which TLC finds the
property violated. Deadlock checking is off throughout because every environment is bounded: when the triggers,
events or executions of a scenario are used up, the system rests.

| run | bounds | what it shows |
|---|---|---|
| `guard_modes` | 4 triggers, one of which raises and two whose callers may be cancelled; a release; queue depth 2; each mode | no overlap, nothing detached, stranded or parked for good, every call returns, the queue drains, and the guard refines `SerialExecution` |
| `sched_all` | six scenarios of 1–3 jobs, two names, one of them for up to three jobs, clock to 2 | heap, sleep, registry, names and rows are consistent (rows not `contested`); a due occurrence is run or skipped |
| `state_sync` | five environments: up to 2 connections, 3 changes, 2 failing requests, poll on or off | one synchronization, commits only for the ready connection, fresh means current, and it becomes fresh |
| `exec_records` | 2 executions (one orphan), 2 faults, 1 restart, 2 callers, both queues of length 1 | every record in one place and settled in the end, counters right, events only for written rows, nothing after the close, and the executor keeps `DbSpec` |
| `bus_dispatch` | six scenarios of 2 listeners, 1–3 changes, 1–2 slots | counters, timers and names are consistent, holds hold, once is once, every event is served, and the last of a debounced burst is handled to the end |
| `bus_once` *(violation)* | a once-listener and two matching events | the second event cancels the handler of the first |
| `core_exit` | 2 processes, 2 crashes, exhausted restarts, failing writes, SIGTERM and kill at any point | what the session rows say in the end; every shutdown ends |
| `core_inline` *(violation)* | 1 process, restarts exhausted | the process exits before its failure is recorded |
| `watcher_restarts` | 5 failures, 1 raising shutdown hook, 2 restart tasks, a cooldown and one it has replaced, budget 1, 1 cooldown cycle, with and without children, shutdown at any point | restarts exclusive and rationed, no failure forgotten, the teardown ends with the service stopped |
| `watcher_budget` *(violation)* | 4 failures, a service that is ready before it serves | the budget never runs out |
| `apps_changes` | 1 app, 2 edits, failing reloads, 1 request, release and shutdown at any point | the configuration is followed, live instances are known and stopped, calls end |
| `apps_twice` *(violation)* | 1 app, 1 request | a start replaces a running instance without stopping it |

**Why these bounds are enough to be interesting.** The guard needs a running invocation, a queued one, one that arrives at the wrong moment and
one that raises: four triggers, of which two (one could be the running one's caller, one the replacing one's) may be cancelled; depth 2 lets the queue be empty, partly filled and full. The scheduler's races are between two operations on one job, or two
jobs of one name, with a third job for `remove_all_jobs` and for a name under replacement; clock 2 gives one recurrence after the first. The proxy's races are between two connections, or
a synchronization and its successor (2 task names, 2 retries). The executor with queues of length 1 is at its limits all the time, and `MaxRetries = 1`
makes the second failure the last. The bus scenarios are the pairs of listener kinds that share state: a hold and an immediate hold, a replaced once-hold, a once-handler
waiting for a slot behind a dropping one, a stop while registrations are under way, a debounced listener replaced by another of its
name in the other mode, and a throttled one. Three changes let one event start a debounce, one reset it and one cut the handler.
Two processes are what orphaned rows need, two crashes what a queued crash event next to a handled one needs. The watcher's budget of 1 and one cooldown cycle make a second failure the
exhausting one and a third the last; five failures suffice for each path twice. `MixedFailures` bounds the failures of a service with children in behaviours in which a shutdown hook raises as well; without such a hook it has all five. The runs have `Wave = "after"`, the case of every TRANSIENT service but the web API;
of the other two waves TLC finds `RestartsRationed`, `FailureActedOn` and `TeardownEnds` true as well and `StoppedStays` violated (see the disagreements). Apps share only the change lock, the bootstrap and the shutdown; one app with two edits (away and back) shows
their races, and the safety properties were also checked for two apps without requests (1.0 million states).
The mutants are the check of this: each of those bounds lets a bug in the code be seen.

### Fairness

Only what the program's own scheduling gives; nothing obliges an app, an entity, a shutdown, a connection loss or a
fault to happen.

* A step of the event loop that can run does run: tasks woken, callbacks, the dispatch loop, the serve loops (weak fairness of each).
* An invocation ends (`TaskStep` of the guard, `Finish` of the bus): the executor gives every one a timeout.
* A sleep or backoff ends, and the clock ticks up to its bound.
* A write on the open database ends, the worker takes the next, and a restart reopens it: SQLite's busy timeout bounds each.
* A restart's backoff and cooldown end, hooks of a service and of an app end (each runs under a timeout), and the handlers the bus starts run. A service need not fail,
  start to serve or become ready.
* A live connection delivers and answers: `RecvStates`, `RecvEvent`, `Answers`; a dead one fails the request.

No strong fairness is assumed.

### Properties worth a note

* `StateProxy!FreshMatches` speaks of environments without backlog: an event left over from the connection before defeats it (see below).
* `SchedulerService!RegistrationsAgree` has three parts; `ReplacementKeepsRow` speaks of apps that only replace, `RowShowsStatus` not of `remove_all_jobs`, and `LiveIsNamed` not of one whose writes raise, for the reasons under the disagreements below.
  All three leave out the rows in `contested`, a history variable nothing but they read: a replacing `_add_job()` frees the name and awaits the `removed_at` write (`scheduler/scheduler.py:295`), and another of the same name in between takes it, after which two jobs under one row are live. The run's scenario `Contesting` does that: without the exception TLC finds such a pair.
* `CommandExecutor!CountersTell` states what the counters do count; `lost.logged` and `lost.cancelled` are what they do not.
* `BusService!HoldGuarded` and `HeldThroughout` exclude cancelled listeners: see the disagreements.
* `ExecutionModeGuard!EveryCallEnds` excepts `Faulty` triggers; `TrackedAlone` is *at most one runs* together with *none runs that the guard does not know*.
* `HassetteCore!TeardownRecorded` speaks of a teardown run by `run_forever()`; of the one run by the watcher's handler `core_inline` shows the contrary.
* `ServiceWatcher!FailureActedOn` excepts, besides a raising hook, failures before the watcher listens and failures while a restart initializes the service's children: both are dropped for good (see below).
* `ServiceWatcher!RestartsSound` and `RestartsRationed` hold until a shutdown hook raises; after that see below.
* `AppLifecycleService!ConfigFollowed` excepts apps in `seen.misjudged` (started ahead of a postponed snapshot that a further change was then compared with: see below) and processes that had no app to wait for; after a reload that has not read the file (`seen.unread`) it claims nothing until one has.
* `AppLifecycleService!EveryAppStopped` says that a `shutdown()` of each instance has begun; one that the bootstrap's cancellation meets in `_finalize_shutdown()` (`partly`) has done its cleanup, or part of it, and no more: see below.

## Where code and documentation disagree

Four have a run, a property and an entry under `findings`:

* `bus_once`: mode has "no behavioral effect" on once; the second matching event cancels the first handler (`core/bus_service.py:626`).
* `core_inline`: fatal failures record "a `failure` status to the telemetry session before exiting"; a handler that calls `Hassette.shutdown()` itself makes `run_forever()`'s own call return at once (`core/service_watcher.py:220`).
* `watcher_budget`: the restart budget bounds how often a failing service is restarted; a service that is ready before it serves resets it each time (`core/service_watcher.py:543`).
* `apps_twice`: the per-app locks are there so that `register_app()` does not overwrite "without tearing down the loser's instance"; a start that waited for the lock does just that (`core/app_lifecycle_service.py:493`).

Further ones, met while modelling and not given a run of their own:

* Guard. Queued triggers are promised "one at a time in arrival order" (`types/enums.py:68`); `run_queued` asks only `is_running()`, so a trigger between a task's end and `drain_next` overtakes the queue (`execution_mode.py:136`).
  `drain_pending_done` also resolves the future of a trigger that waits for the lock (`execution_mode.py:268`). A factory that raises in `drain_next` leaves its dispatch parked.
* Scheduler. "Whenever that value changes, Scheduler moves the job" (`scheduler/triggers.py:421`); a change during another change's status write is stored for a dispatch that is not running (`core/scheduler_service.py:163`).
  "The job does not fire again" (`docs/pages/core-concepts/scheduler/management.md:20`); removal during the dispatch's status write does not stop the run (`core/scheduler_service.py:456`).
  `remove()` does not await its `removed_at` write, which then lands on a row that was registered again ("re-registration clears removal", `core/telemetry/repository.py:455`; `core/scheduler_service.py:878`).
  An entity cleared and set back while a dispatch persists leaves the job waiting (`scheduler/scheduler.py:797`). The entity is re-read from StateProxy's cache, which may be older than the event (`:760`).
  A job removed during its registration write stays submit-able (`core/scheduler_service.py:380`). A failing status write skips the popped fire (`:456`). Two concurrent `replace`s give two live jobs of one name (`scheduler/scheduler.py:311`).
  `remove_all_jobs` drops an entity watch by name (`:171`) and stops at the first failing write (`core/scheduler_service.py:953`); the names are cleared by then (`scheduler/scheduler.py:388`), so the jobs it did not reach stay live and no name leads to them.
* State proxy. "No update racing the bulk fetch is lost" (`core/state_proxy.py:111`); an event of the connection before is replayed over the newer snapshot (`:418`).
* WebSocket. When the receive task dies before the subscription is confirmed the state goes from DISCONNECTED to CONNECTED, which `WS_VALID_TRANSITIONS` has not (`core/websocket_service.py:472`, `:65`).
* Executor and database. "On shutdown, flush_queue() persists any remaining records" (`core/command_executor.py:112`); `shutdown()` cancels `serve()` before it can (`:216`). "All-zero counters indicate ... no records have been lost" (`docs/pages/cli/commands.md:334`): records lost to a database restart, a `DataError` or the shutdown are only logged; `_dropped_shutdown` cannot move.
  A batch put back on a full queue at shutdown counts one overflow (`core/command_executor.py:216`). After a foreign-key fallback that dropped a record, the persisted records of the batch send no completion event.
  A batch whose backoff has not elapsed keeps `serve()` spinning. "FK nulled and retried" cannot succeed against the table's CHECK (`migrations_sql/001.sql:107`).
  A `submit()` whose write runs when the drain is cut off does not return.
* Bus. A listener cancelled while its registration awaits the database is routed afterwards, also after its owner has stopped, and its handler runs (`core/bus_service.py:204`; `bus/listeners.py` says a pending `add_listener` skips the route).
  An immediate fire starts a timer on a cancelled listener, which outlives its owner (`bus/duration_timer.py`: "no further start() calls should occur").
  Removing a replaced or once listener pops the name of its successor and marks their row removed, after which two live listeners may share a name (`bus/bus.py:194`).
  The next event cancels a debounced handler that is running already if its mode is parallel (`bus/rate_limiter.py:115`), where "any pending debounce task" is meant (`docs/pages/core-concepts/internals/service-details.md:77`); in the other modes only the task that waits for it.
  A once-hold whose state is over at fire time is removed without having fired. DROP_NEWEST with an immediate hold may drop the event that should end the hold.
* Watcher. A service that fails before the watcher's listeners are registered stays FAILED (`docs/pages/core-concepts/internals/lifecycle.md:98`). A restart suspended in `on_initialize()` spawns `serve()` after the
  service's shutdown has completed (`resources/service.py:126`; `docs/pages/core-concepts/internals/index.md:155`); the web API's can.
  A shutdown hook that raises in the unmarked restart after a cooldown sends FAILED and so starts a second restart next to it (`core/service_watcher.py:433`). The readiness wait may clear `_restarting` while a later restart
  sleeps. `reconcile_after_bus_recovery()` cannot be reached: the bus's own FAILED event would have to be dispatched by the bus. A restart cancelled in `cleanup()` leaves `shutting_down` set; `cleanup()` raises a failed
  initialization's exception again and skips `task_bucket.cancel_all()`. The watcher stops before the bus, not after it (`lifecycle.md`).
  A `serve()` that fails while its restart still initializes the children sends FAILED while `_restarting` is set; the event is dropped as a duplicate (`core/service_watcher.py:371`) and the service stays FAILED. The web API, which has a child (`core/web_api_service.py:68`), is exposed to it.
* Core. A crash after the final write ends with exit code 1 and a row that says success. When the crash's write fails the row stays `running`, because `_session_error` is set already. A SIGTERM while the database starts may be recorded as a startup failure.
* Apps. Without an app to autostart the bootstrap replays before the release, and a change postponed afterwards waits for the next one ("Deferring app reconciliation until bootstrap release opens", `core/app_lifecycle_service.py:767`).
  A replay before the release that has something to start raises and takes the process down. A request or change in flight when `shutdown_all()` runs creates an instance that is never shut down (`docs/pages/core-concepts/apps/lifecycle.md:28`).
  A start between release and replay, made from the newer manifest, is later compared with the older postponed snapshot ("comparison spans everything since before release", `:744`), so an app removed and added again, or edited and put back,
  is not started or runs with the old section. `start_app()` starts a disabled app.
  A reload in which one app's section is not valid only logs (`core/app_lifecycle_service.py:791`), but `config.reload()` has replaced the configuration by one without manifests (`config/config.py:349`), so every app is stopped until the next good reload.
  The cancelled bootstrap leaves an instance whose `_finalize_shutdown()` it was awaiting unregistered, unfinished and with `shutting_down` set (`resources/base.py:369`). `None` is documented as "assume everything may have changed"; `detect_changes()` treats it like the empty set.

## The proofs

`ExecutionModeGuardProofs`, `SchedulerServiceProofs`, `StateProxyProofs`, `CommandExecutorProofs` (with `DatabaseService`), `BusServiceProofs`, `ServiceWatcherProofs`,
`HassetteCoreProofs` and `AppLifecycleServiceProofs` hold for every number of triggers, releases, jobs, tasks, records, callers, writes, failures, listeners, names, slots, events,
restarts, processes, crashes, connections, changes, apps, requests and edits, and for every queue depth, capacity, budget and clock the assumptions on the constants allow.
Those are named in the modules that declare the constants (`GuardAssumption` and the like) and ask for little: that bounds are numbers, that limits which the code has as
positive constants are positive, that jobs, records, listeners and names of tasks are finite sets, that `None` is no job, row, time, caller, record, listener, name or snapshot of the manifests, and that `MinDelay <= MaxDelay`;
`BusAssumption` says besides what a scenario may combine (no listener is both debounced and throttled, once or held with either, or dropping, held and immediate at once).
None of them bounds anything from above.

* **Guard** (`TypeCorrect`, `SerialExecutionHolds`, `QueueHasDrainer`). `AtMostOneRunning` is not inductive: whether a new invocation may start
  depends on what the lock's holder awaits. `GuardInv` adds `LockDiscipline` (whoever is suspended in a `gather` holds the lock, and waits for the tracked task in
  a restart, for a detached one in a release, whether it has been cancelled itself or not), `NoDetachedInvocation`, `OnlyQueuedHasQueue` and `QueueNeverStranded`; it implies `AtMostOneRunning` because two running
  invocations would both be `current`, or be awaited by two holders of one lock. There is one lemma per body that runs under the lock or in the callback
  (`RunStep`, `ReleaseBodyStep`, `RunDoneCallbacksStep`), and `GuardInvStep` puts the actions together; `TypeOK` is proved inductive on its own first.
* **Guard refines its promise** (`GuardKeepsPromise`). On top of `GuardInv`, `RefinementInv` says that what `guard.run()` returned, the invocation and the place in the queue of a trigger agree (`OneEnd`)
  and that nobody is queued twice (`QueuedOnce`). `OneEnd` makes the cases of the mapping `StatusOf` exclude each other (`ImageExact`). Each step is then one of the promise or a stutter: a lemma for a start,
  a refusal, a queued trigger, a release, an end, and for `drain_next` (in the same module) with nothing to start (`DrainNothingRefines`) and with one (`DrainOneRefines`: what is skipped before it is discarded in the same step).
* **Database queue** (`DatabaseTypeCorrect`, `ClosedIsDrained`). `on_shutdown()` closes the connections after `join()`, which counts queue items but not callers
  suspended in `put()` on a full queue. `NothingAfterClose` holds because a caller waits only while the queue is full (`PutMeansFull`), so an
  empty queue has no one waiting. The inductive invariant is type, capacity, `PutMeansFull` (with: writes are accepted
  exactly while the service is up; a drain is cut only into the closed stage) and the property itself.

* **Session records** (`CoreTypeCorrect`, `FailuresStick`, `OneSessionRuns`). The type invariant needs a count (`EventsCounted`): every CRASHED event, queued or handled, stands for a crash or for the one time the watcher's handler
  gave up. `FailureSticks` is about `WriteRuns` alone but depends on everything that queues a write: `StartupOrder` says that the `create` write is alone on the queue and its row unwritten, `FailureKnown` that a crash write is
  on the queue only when `_session_error` is set and that a failure on the row is known to the process, `RowsInOrder` that a new process finds its row unwritten. `OrphansSettled` strengthens `OneRunningSession` by the time between the
  orphans' write and the session's. `LateStep` is the one lemma for all steps after startup.
* **Teardown** (`TeardownIsRecorded`). What the final write finds on the row depends on the crash handler, the lock and the flags of both callers of `shutdown()`. `TeardownInv` says that one caller runs the teardown (`OneRunner`),
  that the database is up until it is reached and left with an empty queue (`DatabaseKept`), that the final write is queued behind no crash write (`LockHeld`), that `_session_error` stands for a failure on the row, under way or lost
  (`CrashKept`), and follows the final write from the queue to the row (`FinalKept`).
* **Synchronization** (`SynchronizesOnce`). `TaskTracked` is nearly inductive; `Coordinated` adds the shapes of the records that `EXCEPT` updates and that the task in flight was never cancelled.
  A task starts only where no other is in flight (`StartSyncCoordinated`), and `on_disconnect()` gives the task up in the step that cancels it (`DisconnectCoordinated`).
  For the retry `ProxyInv` says that the coordinator knows the one that sleeps (`Known`), that a request without a generation is one `serve()` makes for a connection that is gone already, and ends with it
  (`Lateness`), and that without the poll no request outlives its connection (`Current`). From this follows `CommitsConnected`: what may commit has a generation, and it is the ready one.
* **The cache** (`FreshIsCurrent`, and `TypeCorrect` of the proxy). `FreshMatches` is about a moment at which nothing is under way; `CacheInv` follows it through all others. Versions only grow (`Older`); the last event
  of an entity on the wire or the bus tells Home Assistant's state (`Sent`); an answer on the wire is Home Assistant's state but for the events sent behind it (`AnswersTell`), and keeps what its task began with and is still true
  (`Answered`); the journal is exactly what has changed in the cache since the task in charge began, and what it does not name is right in the answer (`Journal`). A commit turns the last two into `Maintained`: but for what is under way,
  the cache of the ready connection is up to date. That events of an earlier connection break this (`env.backlog`) is among the disagreements.
* **Scheduler** (`TypeCorrect`, `HeapAgrees`, `NeverOversleeps`, `RegistrationsHold`). A job is off the heap while it is dispatched, registered or rescheduled, and what the heap lacks then a task must have. `SchedulerInv` says that the occurrence a live job's status
  promises is in one place, its heap entry or one task that carries it (`Occurrences`), unless a write failed, and no heap entry exists meanwhile; that a job is built by one registration or replacement only, and known to the
  database before anything but that can find it (`TasksSound`, `Indexes`); that a heap entry is filed under the due time of its job (`JobsSound`); and that each write in the queue is of the one task that waits for it (`Queue`).
  `SleepNeverPastDue` is inductive with these (`Wakes`): each push kicks the loop, and a job's due time moves only while it is off the heap.
* **Names, rows and live jobs** (`RegistrationsHold`, on top of `SchedulerInv`). `RegistrationsAgree` speaks of a row once nothing writes to it; `RowAgrees` follows each row through the writes that are queued, in their order: status writes come before any registration and are
  for the job that is registered (`MovesFirst`), a live job with a row id is the one registered and nobody follows it (`LiveRegistered`), of the jobs to be entered only the last is live (`LastEnters`), and the last write carries its job's status (`LastWrites`).
  `Unnamed` keeps a name free, and replaced by one task only, while a replacement is under way, or the row is in `contested`; `Named`, `Homes` and `Kinds` tie live jobs to names or to the removal that is to reach them. The lemmas on `In` and `Before` (what an append and a tail do to the order)
  and those on one row (`RowQuiet`, `RowElsewhere`, `RowMoved`, `RowEntered`, `RowMoves`, `RowStarts`) are shared by all actions; then one lemma per action.
* **Executor refines the database's specification** (`ImplementsDatabase`; then `ExecutorClosesDrained` is `ClosedIsDrained` again, of the composed system). `DatabaseService` lets a caller submit only when it is in no `submit()`,
  and `serve()` is one coroutine whose state says whether it is in one: `Calling` ties the two, and `Ours` says that then exactly one write of `serve()` is suspended, queued or running, and that it is of the batch `serve()` holds.
  Each action maps to a step of `DbNext` or a stutter (`DatabaseStep`).
* **Records** (`RecordsAreAccounted`, `ExecutorTypeCorrect`). `RecordAccounted` as a sum: for each record the number of items on the queue, in `serve()`'s hands and in writes nobody waits for (`serve()` was cancelled in `submit()`), the row, and the ways it was
  given up, add up to 1 once its execution has ended and to 0 before (`Accounts`). Every step moves a record from one summand to another. What a write has done is known only through its result, so `Rowed` says which
  rows of the batch exist given where `serve()` is. The lemmas about `Count` (of a concatenation, a head and tail, a removed element, a split) are what carries a sum over sequences through an action; `BatchesOf` shows that
  the split of a drained batch into fresh records and retries keeps each record once. One lemma per action.
* **Slots, holds and names** (`BusTypeCorrect`, `HoldsAreGuarded`, `NamesAreHeld`). The counters of the bus are sums over the ready queue, the running handlers and the timers (`Balanced`): every slot is free, of a
  task on the queue, of a handler, or given to the woken loop; the pending and the active-timer count likewise. `Sound` says which tasks may be on the queue and for whom (`Tasked`), that no route is there twice
  and the cancel route of a live listener is there exactly while its timer sleeps (`Routed`), that timers, debounce tasks and handlers are those of listeners that were routed (`Used`) and that a debounced listener's late handler runs
  once (`OneLate`); `Named` that the holder of a name is live and subscribed or being registered. Steps that do more than one thing (a cancellation, a removal, a refusal) are composed of lemmas about the helpers they are made of;
  the lemmas about `Kept` and `Number` (what a filter, a concatenation, a head and a tail do to a count) are what carries the sums through.
* **What is started is due** (`HandlersAreDue`). That a timer starts a handler only if the state was held depends on the order of the queue: a change that ends a hold reaches the cancel listener before it reaches `StateProxy`, which
  the timer asks when it fires. `Line` says that the targets of one event at a time are on the queue or kept by the blocked loop, in order, `StateProxy` last; `Hold` that while a timer of a live listener sleeps, an event under way to `StateProxy`
  that ends the hold is on its way to the cancel listener as well (unless the listener is immediate and the event older than its start), and that a hold the entity has left is one an immediate fire began on an old state: `StateProxy` is not told "on" by then, and the next event
  that tells it so reaches the listener first and starts the timer again. That a once-listener whose handler was started is spent is part of `Around`. `BusInv` is the conjunction of all these; TLC checks it on the instance of `bus_dispatch`'s scenarios. The three action properties follow from it, one lemma per action.
* **Restarts** (`TypeCorrect`, `OneRestart`, `StopIsFinal`, `RestartBudget`). The `_restarting` mark alone excludes nothing: the restart after a cooldown has none. `OneLife` adds that a failure is due only when no restart is active and no serve task
  lives, and that each failure is heard once (a restart that only waits for the children is over in this sense: it is not `Active`); with it one restart excludes the next although its mark is gone. `GivenUp` keeps a service that is cooling or dead quiet, `Stopped` says what the flags of `shutdown()` let the teardown skip
  and that nothing is spawned once its `cleanup()` has cancelled the bucket (only for a service whose wave stops after the watcher's: `Wave = "after"`), `Flagged` what they say of a restart before the shutdown, and `Rationed` that readiness, which resets the budget, means success (only where ready comes from `serve()`: the contrary is `watcher_budget`).
  All of them hold until a shutdown hook raises, as the properties say.
* **Apps** (`AppsTypeCorrect`, `LiveInstancesKnown`, `ShutdownStopsApps`). That the registry knows what lives is not inductive: a start registers an instance long after it looked at the app.
  `AppsInv` adds `Locks` (a call is in its locked part exactly when it holds the app's lock, so two of them are never in the same app), `Starters` (a task makes one call at a time, and the watcher and the bootstrap
  only under `_change_event_lock`) and `Tracks` (what a call is stopping is unregistered, what it initializes is registered). `ShutdownAlone` carries this through `shutdown_all()`, which takes no lock: after the
  bootstrap's cancellation no call is left, and all that lives is on the list. `Tracks` and `ShutdownAlone` are claimed only while `seen.met` is false, because a request or a change that meets the shutdown does break
  them (see the disagreements). One lemma per action; `CutFacts` and `CutLive` say what a cancellation leaves behind.
* **The configuration is followed** (`ConfigurationFollowed`). `ConfigFollowed` is about a moment at which nothing is under way; `FollowsInv`, on top of `AppsInv`, follows each app through all others. `Base` is what the handler takes the app's
  section for: the postponed snapshot, else the one taken while the new manifests are persisted, else the manifests. `Right` says that a running app was made from that section or from the newest one, or that a change of it is in the
  change set (`Owed`) or being applied (`Coming`); `Started` that an app with autostart runs, failed, was stopped by request, or has its start in a call or the change set. `Books` ties the snapshots to the manifests, `UpToDate` the manifests to the file unless the last reload has not read it, `Gate` says
  that nothing is made before the release, `Early` which apps are ahead of the postponed snapshot, `Bootstrap` that a bootstrap with an app to wait for replays only after the release. Each is needed by the others:
  the lemma on the change set (`ChangesFollow`) serves both a detected change and the replay. `CallFollows` and `QueueFollows` leave for each step of a call only what it does to its own app.

`Spec` in all of them is `Init /\ [][Next]_vars`: the theorems need no fairness.

**Model-checked only**:

* the refutations of the four violation runs.
* all liveness, which is out of the prover's reach, as are `ENABLED` and induction over what a fold computes. So `RecordSettles` says that a record gets its one fate, the theorem only that it has no two.

## Not modelled

Components without a module are in the table above and in `PROJECT.json`. Within the modelled ones:

* guard: *parallel* mode, which never enters the state machine; a cancelled `release()`, which happens only when the owner is shut down and its triggers with it.
* scheduler: trigger arithmetic (cron, daylight saving, jitter), groups, execution timeouts, the listing API.
* proxy and socket: `on_shutdown()` of both, read methods, message ids, per-request timeouts, the early-drop policy's thresholds (which drop is early is a free choice).
* executor: the run of a handler itself (timeouts, error handlers, source capture); completion events of one batch are sent in one step; start-up and the session row, which exists before the executor starts.
* database: retention and size sweeps, heartbeats as such (a restart may come at any time), read connections, migrations.
* bus: several owners and topics, glob matching, injection, error handlers; the invocation record (`CommandExecutor` starts where it ends).
* service and watcher: the first start; what the children do themselves; PERMANENT services other than by their effect in `HassetteCore`; TEMPORARY ones, non-retryable errors, the forced termination after a timeout.
* core and session: wiring, which service is in which wave, the total shutdown timeout, removal of stale once-listeners.
* apps: several instances of one app and their pruning, edits of an app's source file and the class cache, disabled apps, the `--app` filter, registration rows, shutdown timeouts of an app; the order in which waiters get an app's lock is left open.

The share of the repository covered stays small because most of it keeps no state a protocol depends on: models of Home Assistant entities, generated synchronous facades, configuration, command line, web routes, queries, test doubles.

## Plan

Done: guard, scheduler, socket and proxy, executor and database, bus: the paths every event and every job takes; then service and watcher, core and session, app lifecycle: what starts, supervises and stops them.

1. **Composition** of `ServiceWatcher`'s restart with `DatabaseService` and `WebsocketService`, whose restarts are so far their own actions.
2. Several instances per app, and the class cache on source edits, in `AppLifecycleService`.
3. Theorems: every invariant and action property of the passing runs is proved; a further component brings its own.
