# A TLA+ development for lapinq

lapinq is a task queue on one PostgreSQL table. Clients insert tasks over HTTP, workers
(one in Python, one in Rust, and the Python one again inside the server process) claim
them with `FOR UPDATE SKIP LOCKED`, run each in a child process and write the outcome
back. No component holds a lock across two statements and no component waits for
another: everything rests on the `WHERE` clauses, on timeouts, and on a reaper that gives
back the tasks of workers that died. Around that core are the migrations every process
runs when it starts, a scheduler, a live dashboard, user accounts, a rate limiter and a
client that polls. This project models them, model-checks the models with TLC and proves
their main safety properties and the refinements with TLAPS.

## 1. Inventory

| Component | State | Operations | Module |
|---|---|---|---|
| Task table (`storage.py`) | rows of `lapinq_tasks` | enqueue, enqueue_batch, claim, complete, fail, heartbeat, recover_stale, requeue, cancel, delete, cleanup_expired | `TaskRow`, `StorageAPI` |
| Python worker (`worker.py`) | loop position, `shutdown_event`, semaphore, `active_tasks` | claim loop, `process_task`, heartbeat loop, stale-recovery loop, signal, drain | `PyWorker` |
| Child process (`execute.py`) | the running task function | run, `RetryError` update, webhook | inside the workers |
| Rust worker (`main.rs`, `lib.rs`) | loop, semaphore, spawned tasks | claim loop, execute_task, heartbeat and stale tasks, shutdown | `RustWorker` |
| Task API (`server.py`) | none of its own | requeue, cancel, delete, enqueue, cleanup loop | administrator actions of the workers' modules |
| Documented life cycle (`README.md`) | status and attempts of a task | the edges of the diagram | `TaskLifecycle` |
| Scheduler (`scheduler.py`) | `last_triggered_at`, the coroutine of each server | `_loop`, `_tick`, `_parse_cron`, `_should_run` | `Cron`, `Scheduler` |
| Migrations (`storage.py`, `lib.rs`) | schema, rows of `lapinq_schema_version`, the starting processes | `Storage.create`, `_apply_migrations`, `ensure_default_admin`, `ensure_schema` | `Migrations` |
| Dashboard feed (`server.py`) | notification event, coroutine and last payload per socket | `ws_endpoint`, LISTEN/NOTIFY, shutdown | `DashboardFeed` |
| Users (`server.py`, `storage.py`) | `lapinq_users`, session cookies | login, logout, the handlers under `/admin`, change_password, default admin | `Users` |
| Rate limiter (`server.py`) | time stamps per address | `dispatch`, `_evict` | `RateLimit` |
| Client (`client.py`) | polling loop and its deadline | `queue`, `TaskRef.wait` and their async twins | `Client` |
| Inline executor and batches (`execute.py`, `lib.rs`, `worker.py`, `server.py`) | rows of a batch, threads of the executor | `enqueue_batch`, Rust execution, fallback to Python, timeout | `InlineWorker` |
| Archive, HTML, CLI, logging | | | not modelled, see section 8 |

How they interact. The table is the only shared state. A worker knows the task it
executes only from the row it claimed; the server, the reapers of other workers and the
children may change that row at any time. Webhooks leave the system. Within one worker
the coroutines (Python) or spawned tasks (Rust) share a semaphore.

What is hard:

- `complete_task` and `fail_task` update `WHERE id = $1`, whatever has become of the row;
- `fail_task` reads `attempts` and writes `attempts + 1` in two statements;
- the reaper decides by `started_at` alone, while the worker may be alive;
- a statement can be committed and its answer lost;
- a worker can die, or be told to stop, between any two of its steps;
- children outlive the workers and the timeouts that gave up on them;
- sleeps and timers return late, and what was to happen within a minute does not;
- the schedulers of several servers coordinate through one column that each reads,
  and writes after the fact, in statements of their own;
- processes of two languages migrate one schema, each with its own list of migrations and
  its own way to record them;
- the sockets of the dashboard clear one event for each other;
- a cookie carries a role that the table may have taken back;
- a client that is refused by the rate limiter, or answered with 500, cannot tell that
  from a task that is not finished, and goes on polling;
- a timeout ends a wait and not the thread or the child that was waited for, and the
  fallback to Python repeats a function that has already run.

What makes it correct: a task is executed by one worker at a time, which owns its row
until its last write; attempts are counted exactly; failed means that the retries are
used up; the columns agree with the status, so that the reaper can see every row that
needs it; permits are never lost; and every task is settled in the end if one worker
stays up. Schedules fire for the minutes they name and no others, with as few duplicates
as the statements allow. A process that is up finds the schema it needs; a browser is
shown what the table holds; authority does not outlive a session; the rate limit holds;
a wait ends, and not in a timeout when the task was finished long ago; a function runs a
bounded number of times per attempt.

## 2. Modules

```
TaskRow            rows and SQL statements as operators        TaskRow_proofs
  StorageAPI       the table under arbitrary clients           StorageAPI_proofs
  PyWorker         Python workers, children, administrator     PyWorker_proofs
  RustWorker       Rust workers, children, administrator       RustWorker_proofs
TaskLifecycle      abstract specification of a task's life
Migrations         servers and Rust workers that start together    Migrations_proofs
DashboardFeed      the sockets of the dashboard                Server_proofs
Users              accounts, sessions and the handlers         Server_proofs
InlineWorker       a batch, from its INSERTs to the executor   Server_proofs
RateLimit          the middleware                              Client_proofs
  Client           an application behind it, waiting for a     Client_proofs
                   task of TaskLifecycle
Cron               _parse_cron, _should_run and a reference
  Scheduler        the scheduler coroutines of several servers Scheduler_proofs
MCStorage, MCPyWorker, MCRustWorker, MCScheduler               instances for TLC
```

`PyWorker` implements `StorageAPI` (property `StorageSpec`). In the regime of section 4 its
tasks follow `TaskLifecycle` too, but for the late writes that `OnlyLateWritesStray` names:
an expired row is completed or failed, a completed one failed, by the coroutine that still
has the task in hand. `RustWorker` implements `TaskLifecycle` in its regime, for tasks
without a TTL (`LifecycleSpec`); it does not implement `StorageAPI`, because
`fail_task_in_db` writes the attempts of the claim, not those of a `SELECT` just before.
`Client` is built on the abstract side: it composes the rate limiter with the edges of
`TaskLifecycle` and those late writes (`LateWays`) in place of any particular worker.

**TaskRow.** A row keeps the columns the scheduling depends on. Each `UPDATE` is an
operator (`ClaimRow`, `CompleteRow`, `FailRow`, `RetryRow`, `RecoverRow`, `RequeueRow`,
`CancelRow`, `ExpireRow`, `HeartbeatRow`), each `WHERE` a predicate (`Claimable`,
`IsNextClaim`, `Stale`, `TtlExpired`). Payloads, results, errors, progress and metadata
are left out: no statement of the core compares them. A timestamp is stored as its
distance to `now()`, because that is all that is ever compared: `delay` for
`scheduled_at`, `age` for `started_at` (it stops at `StaleAfter + 1`, beyond which no
comparison changes), `ttl` for the deadline of `ttl_seconds` (it stops at -1).
`AgeRow` is the clock. A value `NULL` in the table means that there is no such row; ids
are in the order of `created_at`, which `claim_task` sorts by. Queue names are left out:
one instance is the set of tasks one worker group consumes.

**StorageAPI.** One action per method of `Storage`; `fail_task` is two (`FailRead`,
`FailWrite`) with `failing` holding what was read, and `FailAbort` for a caller that
disappears in between. Callers are unconstrained: anyone may complete or fail any task
at any time, as the `WHERE` clauses allow.

**PyWorker.** `main[w]` is the await the coroutine of `_worker_loop` is at: `top` (the
`while` test), `acquire`, `claim`, `drain` (the `finally` block), `stopped`; `crashed` is
the death of the process. `execs[<<w, i>>]` is the i-th `process_task` coroutine and its
`pc` the await it is at. `orphans[t]` counts children of `t` nobody waits for. `fired`
records the webhook calls. Every database call can fail (`ClaimFault`, `CompleteFault`,
`FailFault`), before or after its commit. `CancelLoop` is what `lifespan` does to the
inline worker when the server stops. The heartbeat and reaper coroutines are single
statements and have no state of their own.

**RustWorker.** `loop[w]` is `claim`, `closing` (after `select!` took the signal),
`stopped` or `crashed`. `execs` holds the spawned tasks, which wait for a permit after the
claim. `att` and `max_retries` are the arguments `execute_task` will pass to
`fail_task_in_db`. `Shutdown` may drop a `claim_task` future whose `UPDATE` is
committed.

**TaskLifecycle.** The diagram of the repository's README as a state machine per task,
with the cancellation, expiry and deletion the API adds: `Ways(t)` is where a task may go,
with the counter it gets. Both workers are mapped to it by what the API shows of a task:
the status and the attempts of its row, or that the row is gone.

**Cron.** The text of an expression is kept as what `_parse_cron` splits it into; `Invalid`
is where it raises `ValueError`, `ParseCron` the five sets it returns, `IsDue` the
reference: what an expression means, value by value, with cron's own weekdays.

**Scheduler.** `srv[s]` is the coroutine of a server: asleep, or at one of the three
statements of `_tick`, with its locals. The `SELECT` decides what the whole tick enqueues.
`triggers` counts the enqueues per row and minute; `since` and `straddled` are histories
the properties use. A tick can fail and a server can stop at any statement, committed or
not, and servers start at any time with their own interval. The rows are the enabled ones.
The server runs `_loop` without `start`, so nothing creates `lapinq_scheduled_tasks`; the
model takes the table to exist. Server and database clocks agree. `asyncio.sleep(interval)`
returns after `interval` units and at most `Lateness` more.

**Migrations.** `proc[p].pc` is the next call of `execute` of a starting process. A call is
one transaction and happens or not; `Rejected` says when PostgreSQL refuses it, `Fault`
lets it fail or lose its answer, with the process going on (`Raised`) or gone. PostgreSQL's
own conflicts between statements that change the schema at once (two `CREATE TABLE IF NOT
EXISTS`, two `CREATE OR REPLACE FUNCTION`) are not refusals of the model: they are among
the faults, of which a run has as many as `MaxFaults`. Columns,
tables, the trigger and the CHECK that allows `expired` are `Features`; `CREATE TABLE IF
NOT EXISTS lapinq_schema_version` belongs to `ReadVersion`. Databases of older releases
(`OldSchema`) are initial states. `torn` records that a process was lost while it had
taken back version 3 and another had recorded it.

**DashboardFeed.** The contents of the table are the number of changes made to it, and
what a browser shows is the pair of numbers its two statements have seen. `pc` is the
await a coroutine is at; clearing the event and beginning to wait for it are two steps,
because the task that waits starts later. The fragments of HTML are compared as the
numbers they were made from. A task that is asked for by its whole id may be there or not
(`found`): if it is, it is serialised twice, which raises, and the socket is closed.
`send_json` belongs to the last statement of a round: the
payload is remembered before it is sent, and a socket that breaks there is closed.

**Users.** Ids are numbers in the order of creation and are not used again, like UUIDs.
`changing` holds the calls of `change_password` between their two statements. The other
handlers check the cookie and run one statement, and are one step each. The validity of a
cookie does not depend on the table. `sinceAdmin` is a history.

**RateLimit** has one operator for `dispatch`, because nothing awaits under its lock. A
time stamp is its distance to now, and a list of them the set of its stamps: the code looks
at their number and ages only. Stamps of one unit are told apart by a number (`Stamped`).
`_evict` keeps the addresses seen last; which of two seen at the same time is left open.

**Client.** The application queues and waits through `Dispatch`, while another address
sends requests of its own. A refused or lost POST, a 500 and `ttl_seconds` 0 give a
`TaskRef` without an id or none at all. A poll is refused, or passes and is answered with
the status, 404 or 500; all but the status are `NULL`, as `_fetch_result` makes of every
answer but 200. The application has its address to itself and runs promptly: time passes
while it sleeps, at most `Lateness` longer than `poll_interval`, or awaits an answer.
`settled` and `crowded` are histories: how long a task has been finished without a poll of
it being answered with 500, and whether the limiter had a request left for the address when
the `wait` began. `awaitait` is the same loop.

**InlineWorker.** `call` is the loop of `enqueue_batch`, `rows` the tasks with the phase
their execution is in, `zombies` the threads that still run a function whose wait timed
out. Which due row is claimed first is left open. Crashes and the reaper are left to
`PyWorker`, whose executions end in the same ways.

PROJECT.json maps every definition to the lines it translates.

## 3. Runs

| Run | Checks | Shows |
|---|---|---|
| `storage_safety` | `TypeOK`, `RowShape`, `FailedIsExhausted` | Any clients, two tasks, two overlapping `fail_task`: status and columns agree; failed means exhausted although `fail_task` may write a count that is out of date. |
| `py_regime` | `TypeOK`, `SoleExecution`, `ExecOwnsRow`, `CompletedHookIsTrue`, `ReturnCostsOneAttempt`, `OnlyLateWritesStray` | One executor per task, which owns its row; exact attempts; true completion webhooks; the documented life cycle, left only by the late writes of that executor; with crashes, signals, lost answers, TTL, cancel, requeue, delete. |
| `py_general` | `PermitsConserved`, `StorageSpec`, `EventuallySettled` | No assumption on timing, `RetryError`, orphans and a failing call included: no permit is lost, the system is a client of `StorageAPI`, and a task is settled while one worker stays up, although functions hang and workers die. |
| `rust_regime` | `TypeOK`, `SoleExecution`, `SnapshotIsCurrent`, `LifecycleSpec` | Rust workers that claim more than they run, with failing claims and writes: one claim per task, the attempts carried since the claim are current, and the life cycle is implemented. |
| `rust_general` | `PermitsConserved`, `RowsAreSound` | No assumption on timing: permits conserved, rows sound, even with one task claimed three times by one worker. |
| `rust_live` | `EventuallySettled` | A task is settled while one Rust worker stays up, database failures included. |
| `scheduler` | `TypeOK`, `TriggersAreDue`, `TriggersBounded`, `NoMinuteMissed` | Two servers, two schedules, several expressions, a failing tick or a stop: rows fire only for the minutes the reference names, at most once per server and failure, and for all of them unless a tick outlasts its minute, if a server's interval and the lateness of its sleep fit into a minute. |
| `migrations` | `TypeOK`, `RecordedIsApplied`, `UpIsComplete`, `VersionNeverLowered`, `StarterComesUp` | Two servers and a Rust worker start in any order and again, on an empty or an old database, with a failing call or a lost process: the version is not lowered although Rust updates every row (the primary key refuses it), what is recorded is applied, who is up is complete, and who starts comes up. |
| `dashboard_feed` | `RoundIsFresh`, `EventuallyShown`, `ShutdownClosesSockets` | Two browsers and one event: a round never holds back news, so a missed notification costs one round; a browser that stays connected is shown each change, or a later one, without any notification and whatever changes meanwhile; shutdown reaches every socket. |
| `users` | `TypeOK`, `AuthorityIsRecent`, `SetsCheckedPassword` | A stale cookie carries authority for a session at most; a change of password, which checks a name and updates an id, never touches an account it has not verified. |
| `client` | `RateHeld`, `TimeoutIsTimely`, `WaitEnds` | The limit holds for each window and eviction; every `wait` ends; a `TimeoutError` comes no later after the end of the task, or the last poll answered with 500, than a window, a sleep and a request. The last rests on refused requests not being counted. With timeouts shorter than these three it excepts a `wait` that begins when its address is at the limit. |
| `inline` | `RunsPerAttempt`, `BatchIsPrefix`, `AnsweredIsSettled` | A failed batch keeps what came before the failing item, a function runs at most twice per attempt and leaves at most one thread behind for each, and every task of an answered batch is settled although hanging functions have taken the threads. |

Disagreements between the code and its documentation, and weaknesses, that the models
exhibit. The properties above are stated so that they hold of the code as it is; what
follows is why some of them are not stronger.

In the workers:

- A task that raises `RetryError` in a child process is not retried: the child sets the row
  to pending and exits with 0 (execute.py:148), the worker takes 0 for success and marks
  the row completed (`ManualRetry`, `ChildRetry`, then `CompleteWrite`). execute.py:27
  says "trigger a retry". In the server's own worker `RetryError` counts as a failure, and
  its countdown is ignored (`After`).
- The outer `wait_for` cancels `subprocess_execute` before its inner timeout can call
  `proc.kill()` (worker.py:152), so the child runs on while its slot is used again
  (`Timeout`, `orphans`). README.md:19 promises control of "exactly how many tasks run
  simultaneously" and docs/en/deployment.md:95 says that the timeout prevents runaway tasks.
- On a signal the Rust worker returns from `main` with tasks running (main.rs:188, `Stop`),
  after logging "draining active tasks" (main.rs:152).
- `recover_stale_tasks` does not look at `max_retries`, so a task with `max_retries=0`,
  the `no_retry` example of docs/en/usage.md, is executed again after a crash (`Recover`).
- Late writes: a task that expires while it runs is completed or failed all the same, and
  pending again if it fails with retries left (`Cleanup`, then `CompleteWrite` or
  `FailWrite`); a task whose completion was committed but not answered is failed, and
  executed again if it has retries left (`CompleteFault`, then `FailWrite`). The API shows
  these steps, and the diagram of README.md has no such edges; they are what
  `OnlyLateWritesStray` excepts.
- The webhook reports `failed` after every failed attempt, also when the next one is
  already scheduled (`FailWrite`).
- The reaper compares `started_at` and never `last_heartbeat`: with a task timeout above
  the stale interval it takes tasks from live workers (section 4).
- The Rust worker sets `started_at` at the claim, before the permit, so a task that only
  waits can be reaped by its own worker (`Start`, `Recover`).
- When a child cannot be spawned, the Rust worker fails the task with attempts 0 and 3
  retries instead of its own counters, so its attempts go back to 1 (`SpawnFault`).
- The Rust worker ignores `retry_delay` and `retry_backoff` (`FailTaskInDb`).

Elsewhere:

- A tick that outlasts its minute writes `last_triggered_at` in the next one, which is then
  skipped (`Update`, then `Select`); sleeping `interval` after each tick makes ticks drift
  towards that. At the default interval of a whole minute (scheduler.py:101) a due minute
  can be skipped with no such tick: one that ends just before a minute is over, and a sleep
  that returns a moment late, step over the next. This is why `NoMinuteMissed` asks that the
  interval and the lateness fit into a minute. docs/en/usage.md names the column of the
  expression `cron_expression`; the table has `cron`.
- A process that read the version early applies version 2 after another has recorded
  version 3, and the status `expired` is refused until it gets to version 3 itself; if it is
  lost in between, nothing ever repairs the constraint (`torn`). Version 2 also fails while
  there are expired rows.
- A table from before version 1 cannot be upgraded: `SQL_SCHEMA` indexes `priority` before
  the migration that adds it (`Rejected`, excepted in `StarterComesUp`).
- A Rust worker that starts beside a server panics when it records its version, because the
  `UPDATE` without `WHERE` meets several rows; its next start succeeds.
- docs/en/usage.md:234 says that the dashboard pushes changes instantly: a missed
  notification, a deletion or the loss of the listener costs up to two seconds.
- docs/en/usage.md:237 offers a filter by task id. For a whole id that is in the table the
  task is serialised when it is read (server.py:823) and again for the table (server.py:850),
  where its dates are strings already: the round ends in an exception and the socket is
  closed with 1011 every time (`ReadTasks`, then `ReadStats`). A part of an id works.
- Demoted and deleted admins keep their authority until the cookie expires; the last admin
  can demote or delete itself; when all accounts are deleted the next start brings back the
  default one. Two changes of password that both verified the old one both succeed.
- A result that is not JSON makes the Rust executor fail after the function has run; it
  is run again by Python and then fails in `json.dumps` (`After`).
- `wait` takes a 429 for a task that is not finished. If it begins while its address is at
  the limit and its timeout is shorter than the window, a sleep and a request, it can end
  with "did not finish within" (client.py:81) about a task that finished long ago
  (`Fetch`, then `GiveUp`); the defaults are such, 30 seconds (client.py:73) and a window
  of 60 (server.py:135), once a limit is configured. `TimeoutIsTimely` excepts exactly
  these.
- `wait` takes a 500 of `get_task_result`, when the database times out or its pool is lost
  (server.py:505), for a task that is not finished as well (client.py:55), so a server whose
  reads fail hides a finished task up to the deadline.
- A `TaskRef` without an id waits for its whole timeout (`FetchNothing`). Several clients
  behind one address share its window, and one can starve the wait of another; this is why
  the application of `Client` has its address to itself.
- A batch answers with fewer ids than items when some have `ttl_seconds` 0.

Every property of a passing run has a mutant: a plausible bug in a mapped definition under
which TLC finds the property violated.

## 4. The regime

`SoleExecution` and what follows from it do not hold without conditions: the reaper takes
a task that executes longer than the stale interval, and then two workers execute it. The
code leaves it to the operator to set `--task-timeout` below
`LAPINQ_STALE_RECOVERY_INTERVAL`. `Regime` in `PyWorker` says what is needed:

- `Prompt` with `TaskTimeout + Slack <= StaleAfter`: an execution, its last write
  included, ends before its row is stale. `Slack` is the time the write may take after
  the timeout. Under `Prompt` the clock waits for executions at their limit;
- no `RetryError`, because its write in the child races the worker's.

Crashes, signals, lost answers, deletions, expiry, cancels and requeues are unrestricted.
For Rust the time waiting for a permit counts as well (`Deadline`). `py_general`,
`rust_general` and `rust_live` drop these assumptions.

## 5. Bounds

- Tasks: one where the property is about the races on one row, two where order, permits
  or several rows matter. Every property of the workers but the Rust queueing is about one
  row at a time, and the actions on different rows share only the permits.
- Workers: two, so that one can die, be stopped or be slow while the other reaps and
  claims; one with two or three slots where the slots of one worker are what matters.
- `MaxAttempts` bounds the counters: statements that add an attempt are disabled there.
  It is at least `max_retries`, so that retry and final failure both happen. Liveness
  properties except states at this bound (`AtBound`).
- `MaxFaults`: one failing database call anywhere. `MaxOrphans`: one abandoned child per
  task followed; more are the same child again. `MaxSpawned`: spawned tasks per Rust
  worker, more than its permits so that tasks wait.
- `StaleAfter`, `TaskTimeout` and the delays are 1 to 3 units: enough for before, at and
  after each limit.
- `Horizon`, `Minute`, `Intervals`: two minutes of two units, servers that tick once a
  minute or twice. The first minute shows duplicates, its end a tick that straddles, the
  second what that does. `Lateness` is one, so that the slower server's sleep may end past
  its minute and the faster one's is still in time. Hours of two minutes are enough for the
  ends of every range.
- `Migrations`: two servers, so that one undoes what the other recorded, one Rust worker,
  every old version, one fault. `MaxTries` is the code's.
- `DashboardFeed`: two sockets, so that one clears the event of the other; two changes, so
  that one falls between the statements of a round and one after it, and the first has to be
  shown although the table changes again; one message.
- `Users`: three ids and two names, so that a name is given away again; two cookies, two
  passwords, one call of `change_password`, one more server. A session lasts one unit:
  before, at and after its end.
- `Client`: one request per window of two units, one address remembered and two in
  existence, so that refusals and evictions are the rule; polls every unit or two and a
  timeout of five, which is `Notice` in this instance. `MaxAdmitted` stops new calls, not
  polls, when three requests passed in a window.
- `InlineWorker`: three items of five kinds each, two attempts, two slots over one thread,
  so that one hanging function stops every later one.
- `AdminOps`, `Outcomes`, `FaultKinds` choose what may happen in a run; between them the
  runs take every action.

Worker ids are symmetric in the safety runs. No symmetry is used for liveness.

## 6. Fairness

`FairSpec` of `PyWorker` assumes weak fairness of the loop's steps, of `process_task`'s
database calls, of the `wait_for` timer, of each worker's reaper and of the clock: the
asyncio loop runs every ready coroutine, timers fire, and `_stale_recovery_loop` repeats
while the worker is up. Nothing is assumed of the task function (`ChildOk`, `ChildError`
need not happen), of signals, crashes, the administrator or the database failures.
`RustWorker` has the same for tokio, and strong fairness of `Start`, because
`tokio::sync::Semaphore` serves its waiters in order.

`Migrations` assumes that a process that has started goes on (`Step`), and nothing of
starts, stops and faults. `DashboardFeed` assumes that the event loop runs the coroutine of
each socket, including its two-second timer; notifications, browsers and the shutdown may
never come. `Client` assumes that the thread in `wait` goes on and that time passes, nothing
of the workers. `InlineWorker` assumes the handler, the claim loop, the import and the timer;
a function need not return and a thread need not become free. `StorageAPI` and `Users` are
checked for safety only.

## 7. Proofs

All theorems hold for any set of workers, servers or processes, any number of tasks, any
options, timeouts and bounds the named assumptions allow. `ConstantAssumption`,
`CallerAssumption`, `WorkerAssumption`, `RustAssumption`, `SchedulerAssumption`,
`MigrationsAssumption`, `FeedAssumption`, `UsersAssumption`, `RateLimitAssumption`,
`ClientAssumption` and `InlineAssumption` give the constants their types, `NullAssumption`
and its like separate `NULL` (in `InlineWorker`, `None`) from the values it stands beside, and
`FieldAssumption` says of the fields of a cron expression what `field_ranges` does
(scheduler.py:47): no range is empty, and weekdays are 0 to 6.

| Theorem | States | Condition |
|---|---|---|
| `StorageTypeOK`, `StorageRowShape`, `StorageFailedIsExhausted` | the invariants of `StorageAPI`, for arbitrary clients | |
| `PyWorkerTypeOK`, `PermitsAreConserved` | `TypeOK`, `PermitsConserved` | |
| `WorkersUseTheStorage` | the refinement `StorageSpec` | |
| `PyTableIsSound` | `RowShape` and `FailedIsExhausted` of the workers' table | |
| `ExecutionIsExclusive`, `ExecutionOwnsItsRow`, `CompletionHooksAreTrue` | `SoleExecution`, `ExecOwnsRow`, `CompletedHookIsTrue` | `Regime` |
| `AttemptsAreAccounted` | the action property `ReturnCostsOneAttempt` | `Regime` |
| `TasksStrayByLateWritesOnly` | the action property `OnlyLateWritesStray` | `Regime` |
| `RustWorkerTypeOK`, `RustPermitsAreConserved`, `RustRowsAreSound` | `TypeOK`, `PermitsConserved`, `RowsAreSound` | |
| `RustExecutionIsExclusive` | `SoleExecution` | `Regime` |
| `RustSnapshotsAreCurrent` | `SnapshotIsCurrent` | `Regime`, no spawn faults |
| `RustTasksLiveAsDocumented` | the refinement `LifecycleSpec` | `Documented` |
| `SchedulerTypeOK`, `TriggersAreBounded`, `NoMinuteIsMissed` | `TypeOK`, `TriggersBounded`, `NoMinuteMissed` | |
| `TriggersAreAlwaysDue` | `TriggersAreDue` | `PlainWeekdays` |
| `MigrationsTypeOK`, `UpIsAlwaysComplete`, `RecordedIsAlwaysApplied` | `TypeOK`, `UpIsComplete`, `RecordedIsApplied` | |
| `VersionIsNeverLowered` | the action property `VersionNeverLowered` | |
| `RoundsAreFresh` | `RoundIsFresh` | |
| `UsersTypeOK`, `AuthorityExpires`, `PasswordsAreVerified` | `TypeOK`, `AuthorityIsRecent`, `SetsCheckedPassword` | |
| `RunsAreBounded`, `BatchesArePrefixes` | `RunsPerAttempt`, `BatchIsPrefix` | |
| `RateIsHeld` | `RateHeld` | |
| `TimeoutsAreTimely` | `TimeoutIsTimely` | |

The conditions are on the constants, and the runs that check the same property satisfy
them. `Regime` is section 4. `Documented` adds to it that no child fails to be spawned,
which would reset the counter of its task, and that tasks have no TTL: a Rust task that
expired in its worker's hands is overwritten by the worker, which no edge of the diagram
allows. `PlainWeekdays` is what the proof of `_should_run` turned up: `_parse_cron` takes
weekdays modulo 7 and so accepts 8 or 9 as Monday or Tuesday, which no reference of cron
does; for the expressions whose weekdays are 0 to 7 the code and the reference agree in
both directions (`ShouldRunIsDue`).

*Rows.* `TaskRow_proofs` holds what every statement preserves of a row, once for all the
modules over the table: its type, its options, and `GoodRow` (columns agree with the
status, failed means exhausted).

*Storage.* `RowShape` is inductive with the types. `FailedIsExhausted` is too, because
`FailRow` compares the very number it stores: a count that is out of date can lose
attempts, but cannot make a row failed too early.

*Python worker.* `SoleExecution` is not inductive: that a claim gives a task to one executor
depends on the row of an executing task not being claimable. That is `ExecOwnsRow` (the row
is running, owned by the worker and exactly as old as the execution; or deleted, expired, or
completed with the answer lost). It needs in turn that the reaper finds no such row stale
(`age = elapsed <= TaskTimeout + Slack <= StaleAfter`, where `Prompt` enters), that nobody
puts it back to pending (requeue needs failed, cancel pending), and that only the executor
writes it. `CompletedHookIsTrue` needs the same, and that a task whose completion was
reported has no executor. The inductive invariant `RInv` is the conjunction. Actions fall
into a few kinds (a statement over the table, dropping executions, ending one, moving one
on), each with one lemma (`TableStep`, `DropStep`, `EndStep`, `MoveStep`), which the proofs
for the actions cite. `PermitsConserved` counts the coroutines of one worker; every action
changes at most one of them, and the lemmas on cardinality say what that does to the count.
`OnlyLateWritesStray` is the same case analysis read per task: under `RInv` every action
takes the status and attempts of a row along one edge or leaves them, or is the last write
of the one coroutine that owns the row, which finds it running, expired or completed with
the answer lost, and nothing else. `StorageSpec` needs no regime: every statement the
workers issue is an action of the interface, a failing call is one of its own calls or none,
and a `fail_task` in two steps is a caller of the interface. `PyTableIsSound` then takes the
invariants over from `StorageAPI_proofs` instead of proving them again.

*Rust worker.* The argument is that of `RInv`, with the time a spawned task waits for a
permit counted (`Deadline`), and with the attempts carried since the claim:
`fail_task_in_db` writes `att + 1` from that snapshot, so the snapshot must be what the row
has. `RowsAreSound` does not need it, since the statement compares what it stores.

*Scheduler.* `BInv` says that what a tick is about to enqueue runs in the minute of its
`now`, and `TriggersAreDue` follows with `ShouldRunIsDue`. `TriggersBounded` needs the
counting invariant `CInv`: while `last_triggered_at` does not show a minute, whoever has
enqueued the row for it is about to write the column or was interrupted; once it does, the
triggers made and the servers that still owe one are together at most the servers plus the
interruptions, because nobody begins to owe any more. `NoMinuteMissed` needs `NInv`: a
mark is of a minute that has its trigger (false once a tick straddles, which is why the
property excepts that), a tick works for the current minute and owes or has enqueued every
row that runs in it, a sleeping server has covered the minute or wakes within it, even if
it wakes as late as it may (where the property's condition on the interval enters), and the
minutes that are over since a server ticks are covered.

*Migrations.* `MInv` says for each position of a starting process what of the schema its
completed calls have established, which nobody but a late version 2 takes back, and that
what version 3 allows is in the schema while a process has recorded it or is about to,
unless another is between the two constraints or was lost there (`torn`). The version is
never lowered because the rows hold 0 or 1 whenever there are any (`versions # {}`
conjunct): an `UPDATE` to 1 either raises the only row, or meets the primary key.

*Dashboard feed.* `GoodSocket` follows a round: the order of its two statements depends on
the filter, and after each the part already read is at least as recent as the start of the
round.

*Users.* `UInv`: ids are not used again, names are unique and do not change, so a cookie's
name still belongs to its id or to nobody who has that id; and a valid admin cookie with
`left` units to go was made when its account was an admin (`sinceAdmin + left <=
SessionMaxAge`).

*Rate limiter.* `RateHeld` counts what passed in the last window, which one unit later is
another set of requests. It is inductive only when it is stated of every part of the window
(`RateInv`): what passed in the last `a` units is at most what the limiter still remembers
of these `a` units plus `max_requests` for every eviction in them. `Older` takes the part of
`a` units to the part of `a + 1`, `Stamped` adds one stamp to all of them, and an eviction
takes at most `max_requests` stamps from each and pays for them. The lemmas on stamps are
facts about finite sets and their cardinality; a stamp with a free number exists by the
pigeonhole principle.

*Waiting.* `WaitInv` says of a `wait` that has no final answer yet that every request
remembered in the window is older than this `wait`, or was made when the task was not
finished or answered with 500: a poll that passed and was answered with a final status ends
the `wait`. So a refused poll shows that the task has been finished for less than a window,
or that all the requests it is refused for are older than the `wait`. These were enough to
refuse it only if the address was at the limit at the beginning: `Few` counts them, by the
part of the window that is younger than the end of the task, as `RateInv` does. `SincePoll`
carries this from the last poll to now (the request and the sleep since), until the
deadline, when the `wait` is younger than a window, a sleep and a request only if its
timeout is shorter than these. With `Timeout = 4` and `Notice = 5` in the instance of the
run TLC finds such a `wait`, refused from beginning to end while its task is finished, so
the exception is needed.

*Batches.* While `enqueue_batch` runs, and when it has answered 201, the rows are those of
the items before its position; `BatchIsPrefix` follows, and when the loop fails the prefix
has grown by one item at most (`BatchInv`). `RunsPerAttempt` needs how often the function
may have been entered in the attempt under way (`Entered`: by the Rust executor, by the
Python executor after it, or by both), that only a running row has a phase, and that
`fail_task`, which counts the attempt, comes after at most two entries and one thread left
behind.

TLC finds every inductive invariant true on the instance of the run that checks the property
proved from it.

Only model-checked:

- the liveness properties (`EventuallySettled`, `StarterComesUp`, `EventuallyShown`,
  `ShutdownClosesSockets`, `WaitEnds`, `AnsweredIsSettled`): fairness and `ENABLED` are out
  of reach of the prover. Every safety invariant, action property and refinement that a
  run checks is proved as well.

## 8. Not modelled

- `update_progress`, `update_task_metadata`: they write columns nothing else reads.
- `archive_old_tasks`: its `DELETE ... LIMIT` is not PostgreSQL, so the loop logs an error
  and deletes nothing; what it intends is a `Delete` of finished rows.
- Validation and serialisation of requests, and the reads of the API that only report
  (listing, search, statistics, metrics): pure functions and single statements that change
  nothing.
- Password hashing and cookie signatures, taken to be sound.
- Dashboard HTML and its scripts but for the filters, CLI, logging.
- Idle back-off and poll interval: how long a worker sleeps, which fairness abstracts.
- Webhook delivery: the call is recorded, its result is ignored by the code as well.

## 9. Plan

All the safety properties and refinements of the runs are proved. What is left:

1. for timeouts shorter than a window, the stronger bound of a `wait` whose polls all fit
   under the limit: a sleep and a request;
2. the archive loop and `update_task_metadata`, once the code changes so that another
   component depends on them.
