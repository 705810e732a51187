# A TLA+ model of dbmaster-server

dbmaster-server is a self-hosted database automation engine (Rust, Axum, Tokio,
sqlx): it copies tables between databases on a cron schedule, watches schemas
for drift, probes database health, executes approved DDL, and serves a query
gateway and an MCP surface, all over one SQLite control database. This project
models the parts whose correctness depends on the order of steps, checks them
with TLC on small instances, and proves the central properties with TLAPS for
every instance.

## 1. Inventory

| Component | State | Operations | What is hard | What makes it correct |
|---|---|---|---|---|
| `data_sync` runner | `data_sync_runs` rows (status, cursor, counters, cancel flag), the target table, loop locals | `run_task`: resume, open row, connect, truncate, batch loop (poll, fetch, insert with retries, save progress), terminal status, notify | each statement can fail or be the last before a crash; runs of one task overlap and `update_progress` writes to all running rows | no resume point skips rows; a succeeded run is complete and its counters add up; only a newer run of the task hides a cancel; every run ends |
| `data_sync` scheduler | `InFlightTasks`, `scheduled_tasks.last_run_at` | scan, due test, acquire, dispatch, release | scan races the end of a run; restart empties the set | scheduled runs exclude each other; a due task is picked up again |
| task endpoints | the same rows | run now, cancel | no coordination with the scheduler | as above, under overlap |
| DDL approvals | `ddl_approvals` (status, exec_status), audit rows | submit, approve, reject, MCP `execute_write`, spawned execution | two doors claim the same row; reject is unconditional; crash between claim and outcome | a script runs at most once; exec_status is truthful and final |
| transaction sessions | `DashMap` of pinned pools, per-session lock, `last_used` | begin, statement, commit, rollback, TTL sweep | DashMap references held across awaits; sweeper races statements; dropped requests | statements run serialized inside their transaction; each session ends once; only a store that blocks every worker hangs or leaks |
| stateless queries, metadata | none (one pool per request) | query, KILL, scripts, catalogs | driver I/O | - |
| stream query, gateway | execution registry, channels, cancel tokens | start, cancel, timeout, stream | cancel races completion; back pressure | one terminal event, last; every execution leaves the registry |
| query statistics | `query_stats` rows, per-digest window, spawned INSERTs | record, insert, rotate | cap at its limit, loss with the process | at most the cap is stored per digest and hour |
| native collector | `query_stats_native_cursor`, the sources' own logs | hourly round over Redis slowlog, MySQL slow log, performance_schema digests | cursor saved after rows; counters reset, evicted, restarted | nothing counted twice, nothing lost behind a cursor |
| weekly reports | `reports` rows | hourly due check, manual generation | check and INSERT are apart; one boundary read three ways | windows do not overlap; a due report gets written |
| drift | snapshot chain, `task_run_history`, in-flight set | canary, collect, diff, insert, notify | concurrent runs read one prior snapshot; crash before notify | each snapshot is compared with one as new as all stored before its run; a change is announced, or its run says it was not |
| health check | per-metric alert state | probe, evaluate, persist, notify | load/evaluate/persist is not atomic | an alert fires at the threshold, once, and resolves once |
| license | license file and its `.tmp`, `instance_meta`, trial window, the entitlement `ArcSwap` | boot resolution, POST /api/license | write, rename and swap with crashes, I/O errors, two POSTs | memory and file agree, so a restart changes nothing |
| credential vault, connections, tasks | `database_connections`, `scheduled_tasks`, credential key and its file, Redis subscriptions | boot (key, database, legacy migration), create, update, delete, register, reveal, subscribe | whole-row read-modify-write; key file torn by a crash; registration after opening | stored passwords can be decrypted; edits survive; subscriptions end with their connection |
| auth, users | `users`, `refresh_tokens`, JWT secrets, rate-limiter window | register, login, refresh, change password, embedded boot | rotation and revocation are separate statements | one live token per login; a password change ends the old sessions |
| workspaces | `workspaces`, `workspace_members` | create, join, leave, remove member, delete | role checks are apart from the writes | members imply an admin and a workspace |
| SSH tunnels | `TUNNELS` DashMap, accept loops, SSH sessions | resolve (probe, remove, build, insert), forward, session loss | guard across an await; loop and session die separately | no wedge; dead tunnels are rebuilt |
| MCP | tokens, whitelist, audit | read tools, `submit_write`, `execute_write` | approval in between | writes only through approvals |
| SQL splitting, config, telemetry | none | parse | text | - |

Components interact through the control database (every scheduler, runner and
handler reads and writes its rows), through `tokio::spawn` (a handler answers
before the work is done) and through shared in-memory maps (`InFlightTasks`, the
session `DashMap`, the entitlement `ArcSwap`). There are no cross-component
transactions, so every `.await` is a point where another actor may step in.

## 2. Modules

| Module | Models |
|---|---|
| `DataSync` | one data_sync task: scheduler, manual trigger, cancel, runner, target table, crashes |
| `DdlApproval` | the approval queue, both doors, guard, script execution, entitlement swap, crashes |
| `OneShot` | what the queue promises: each script taken once, executed at most once, settled for good |
| `TaskLock` | what `InFlightTasks` promises of the runs a scheduler starts: taken before the run, one at a time, free with its end |
| `TxnSessions` | the session store, the four endpoints, the TTL sweeper, DashMap shard locks, worker threads |
| `SchemaDiff` | the schema tree and `compute_drifts`, as pure operators |
| `Drift` | the schema_drift tasks of one connection: scheduler, manual runs, runner, snapshot chain, webhook, crashes |
| `HealthCheck` | one health_check task: scheduler, manual run, runner, alert state machine, webhook, crashes |
| `StreamQuery` | gateway queries: registry, cancel, five driver legs, bounded channel, terminal event |
| `DataPlane` | composes `DdlApproval`, `TxnSessions` and `StreamQuery` |
| `QueryStats` | the slow-query table: recorder and cap, retention, weekly report |
| `NativeCollector` | extends `QueryStats` with the hourly collector, its cursors and the source databases |
| `Entitlement` | boot order, license file, trial, POST /api/license down to open, write and rename |
| `Vault` | connections, tasks, credential key and migration, gateway registration, Redis subscriptions |
| `Sessions` | accounts, token pairs, rotation, password change, embedded bootstrap |
| `Workspaces` | workspaces, members and the checks of their endpoints |
| `Tunnels` | the SSH tunnel cache, probe, accept loops, DashMap guard and worker threads |
| `ControlPlane` | composes `Entitlement`, `Vault`, `Sessions`, `Workspaces` and `Tunnels` |
| `MCDataSync`, `MCDataPlane`, `MCDrift`, `MCHealthCheck`, `MCNativeCollector`, `MCControlPlane` | small instances for TLC |
| `DataSyncProofs`, `DdlApprovalProofs`, `TxnSessionsProofs`, `DriftProofs`, `HealthCheckProofs`, `StreamQueryProofs`, `NativeCollectorProofs`, `ControlPlaneProofs` | theorems and their proofs |

Apart from `NativeCollector`, which writes the table of `QueryStats`, the modules
share no variables: the components touch different tables. What they share in
the code, the entitlement gate, is the variable `gated` of `DdlApproval` and the
refused request (`GateBlocked`) of `Vault`; in `DataSync` the gate would only
disable `RunTaskNow` and `CancelTask`, which the model may leave out of a behaviour
anyway.

### DataSync

Every control statement is keyed by the task id, so one task is modelled. A run
is a number in the order of `started_at`; `pc[r]` says at which await the run
stands, and each action is the code from one await to the next:

`ReadResumeCursor` (`find_resumable_cursor`), `OpenRunRow` (the INSERT),
`PrepareRun` (`run_task_inner` up to `resolve_window_*`), `MaybeTruncate`,
`PollCancel` (`check_cancel`), `FetchBatch` (the batch SELECT and the empty-window
branch), `InsertBatch` (one attempt of `retry_batch_insert`), `SaveProgress`
(`update_progress`, cursor advance, loop exit), `FinishRunRow`,
`UpdateTaskStatus`, `Notify`, `ReleaseTask`; `ScanTasks`, `SkipTask` and
`DispatchTask` are `scan_and_dispatch`; `RunTaskNow` and `CancelTask` are the
endpoints; `Crash` kills every live run and empties `InFlightTasks`.

Abstractions. A row is a model value with a time in seconds; the source table
does not change. Counters are the sets of rows they count, so that "each exactly
once" can be said. The five ETL loops are one loop; where they differ (the flag
given to `maybe_truncate_*`, whether upsert is honoured) the operators
`IsResumeArg` and `Written` distinguish the driver pairs. Text cursors are
numbers, and `Parseable` says whether `parse_cursor` understands the source's
text: when it does not, `advance_cursor` is the identity. Time of the scheduler
is counted in ticks of the task's cron expression, so "a tick lies in
(last, now]" is `last < now`. `Faults` selects which external operations may
fail: control-plane statements, connecting, the SELECT, an INSERT (with or
without effect: `lost_ack`), TRUNCATE.

### DdlApproval

A worker is one call of `approve_approval` or `execute_write` together with the
task it spawns: load, claim (the conditional UPDATE), guard
(`execute_ddl_on_target_with_key` up to the first statement), one step per
statement, `Settle` (the terminal UPDATE) and `Audit`. A failing statement may
or may not have been applied. `Legacy` rows were approved before migration 009
and therefore are approved with exec_status 'pending'; only they can be executed
through `execute_write`.

`ImplementsOneShot` maps `exec_status` to the state of a `OneShot` job and the
statements applied to the target to its effect. Everything else in the module
(doors, claims, rejections, the second status column, audit, crashes) has to
stutter or be one of the four abstract steps.

### TxnSessions

`execute_in_txn` keeps the DashMap reference over its awaits. A reference is a
read lock of the shard; `insert`, `remove` and `remove_if` block the worker
thread they run on until no reference is alive, so `ThreadFree` guards every
step that needs a thread. When as many threads wait as there are (`WorkersWedged`), the
statement whose reference they wait for is never polled again: the process stands still,
and what must eventually happen is stated up to that. Sessions are modelled in one
shard, the worst case.
`touched` records sessions used after the sweeper's `now`; `lost` records
sessions whose pinned connection the pool replaced.

### SchemaDiff and Drift

`SchemaDiff` is `collector.rs` (`Assemble`: from catalog rows to tables with
columns, indexes and foreign keys) and `diff.rs` (`ComputeDrifts`, one set per
drift kind). `Visible` says, independently of the diff, what of a tree a drift
kind can express: the reference against which `ChainRecordsChanges` holds the diff.

In `Drift` the chain is shared by all tasks of a connection, because snapshots
are read by connection. A run is one `run_task`: `OpenRun` (history row, load,
connect, canary), `CollectColumns`, `CollectIndexes`, `CollectFks` (three catalog
queries between which the source may change), `Compare` (the prior snapshot),
`TakeStamp` (`captured_at`, after the comparison, so that overlapping runs may take
theirs in either order), `InsertSnapshot`, `DeliverAttempt` (one POST), `FinishRun` (history
row with summary or error, and `last_run_at`), `ReleaseTask`. `schema_hash` is a digest of
a canonical form, so equal hashes are equal trees and a tree stands for its hash. The
row that a run has read is its local `prior`; what the INSERT stores is that row's hash
(`priorHash`), which several snapshots of one tree share, so the chain of the table is
looser than the reads were and `ChainRecordsChanges` speaks of the stored columns:
some older row has that hash, and is as new as everything that was stored when the
run began (`before`). The awaits inside `OpenRun` and inside `FinishRun` touch
rows that no other modelled step reads in between, and are one step each.

### HealthCheck

One run per trigger; runs repeat without bound. `PrepareRun` opens the pool of
the source (where an unreachable one ends the run), `Collect` takes the sample,
`LoadState`/`PersistMetric`/`PersistMissingPk` are `evaluate_all`, one metric at a
time with the read and the write of `health_alert_state` as separate steps;
`DeliverChange`, `StoreResult`, `FinishRun`, `ReleaseTask` follow. Samples are failing
or not, since the state machine sees nothing else of a threshold metric;
`missing_pk` is the set of tables. The collectors' queries are one step: each
metric is a value of its own, and a change between two of them is a change before
or after the whole. The retries of one webhook are one step with three outcomes.
Deleting results older than `retention_days` is not modelled. `streak`, `silent`
and `lost` are history variables; `lost` names the subjects whose event, count or
baseline an overlap, a failed statement or a crash has lost, so that the
properties say exactly how far the damage goes.

### StreamQuery

An execution is the task `gw_query` spawns. Its `execPc` names the await it stands at:
`load`, `open`, `classify` (Redis ACL), `command` (first answer), `execute`
(`guard_execute`), `stream` and `drain` (`stream_rows` and its tail flush), `reply`
(the flush of a whole result), `terminal`, `cleanup`. The legs (sqlx pools, SQL
Server, MongoDB, Redis, TDengine) differ in the path they take and in which of these
awaits has a cancel branch (`AtCancelPoint`) and which a deadline (`AtDeadlinePoint`);
`Interrupt` is the biased `select!`, in which progress comes last. Rows are
counted; events carry their number of rows. A client reads at any pace, stops,
leaves (which cancels nothing), reuses execution ids, and cancels by id at any
time. The slow-query sample and the audit row are written by the same task and
read by nothing here; a crash ends all executions and leaves nothing to recover.

With the receiver gone, `reserve()` fails at once and the loop comes back to it with
its buffer unchanged. The model leaves it open whether the loop then fetches
(tokio's cooperative budget decides), and assumes no fairness of it.

### DataPlane

Approvals, sessions and gateway keep different tables, maps and pools, and no statement
of one touches what another writes: a behaviour picks one part (`focus`) and takes it
through its own interleavings, faults and restarts. Initial states that differ only in
the naming of ids, in locals not yet read or in a part at rest are one (`Canonical`,
`Rest`). What the parts do share is the runtime's worker threads. A wedge of the store
stops the other parts too, so the fairness of each part is that of a process
which has not wedged; `WorkersWedged` is the exception in the properties of the store itself.

### QueryStats and NativeCollector

Time is counted in ticks of the hourly jobs; the seven-day window, the retention
and the cap are constants. `RecordQuery` is the caller's side of `record` (cap and
spawn), `InsertSample` the spawned task. `generate_slow_query_report` is
`CheckLatest`, `Aggregate`, `InsertReport`, run by the ticker and by the endpoint
without a lock between them; what a report aggregates is the set of samples it saw.

A collector round visits the connections in order. Per source: fetch, read the
cursor, insert row by row, put the cursor, each statement a step that may fail and
before or after which the process may die. The Redis ring gives ids that restart at 0
and may contain the collector's own SLOWLOG command; the MySQL slow log may be switched,
and rows of it may carry one `start_time` (`ties`): the strict `>` of the SELECT then passes
over the rows tied with the cursor, and a first collection may begin inside the
hour at any row that starts a new time (`PassedOver`);
digest counters restart and fall out of the top N. `DiffSnapshots` is
`diff_ps_snapshots`. `excused` names rows whose absence has a cause (a tie is one), `torn` says that
rows were inserted and the cursor behind them not stored (or not read), `switched`
that the slow log was collected although a snapshot or rows of the counters are kept
(`CountersKept`), `crossed` that two generations overlapped.

### Entitlement

The boot is `Start`, `EnsureInstance`, `ResolveEntitlement`, `EnsureTrialStatus`,
`SpawnTasks`; embedded servers skip resolution. A POST is `PostResolve`, `PostOpen`,
`PostWrite`, `PostRename`, `PostStore`, with inodes, since a writer that has `<path>.tmp`
open keeps writing into the file after another POST has renamed it. Signatures are the
set `Genuine`; days pass, licenses and trials lapse.

### Vault

One step per SQL statement of the connection and task endpoints, with foreign keys
(`ON DELETE CASCADE` of tasks, the plain reference of `ddl_approvals`) and the dropped
results of the DELETEs. A ciphertext is its plaintext and the key that made it. The
boot loads or creates `credential.key` (a write that a crash can cut), opens or rebuilds
the embedded database and re-encrypts legacy rows one at a time. `raced` names the
connections on which two requests overlapped, `written` the password last acknowledged.

### Sessions and Workspaces

A token pair is named by the request that minted it and remembers the login it
descends from (`root`) and the password version it was authorised by (`epoch`);
`straddles` marks tokens of requests that were between their read and their INSERT
when the password changed. `AccessTtl` and `RefreshTtl` are the lives a token has in effect:
`jwt.rs:139` validates with the library's default leeway, which adds 60 s to `exp`. In `Workspaces` the role checks are SELECTs of their own,
and `owner` is the column that the creation writes.

### Tunnels

A `DashMap` reference is the shard's read lock; `resolve` holds it over the probe, and
`remove` and `insert` block the worker thread they run on (`FreeWorker`). An accept
loop and its SSH session are separate: `UseTunnel` and the probe try a channel, and a
refused channel ends its own socket only.

### ControlPlane

The five parts share a process and a database, and no state: a behaviour picks
one (`focus`) and takes it through its own interleavings, faults and restarts. What one
part does to another's requests is to refuse them, and a refused request changes
nothing, so interleaving two parts would show each only what it can do alone.

## 3. Runs

| Run | Expectation | Shows |
|---|---|---|
| `sync_overlap` | pass | a manual and a scheduled upsert run overlap, are canceled, lose any control statement and crash: coverage, accounting, exclusion; a canceled run goes on only behind a newer run's row |
| `sync_truncate` | pass | scheduled truncate runs with failing inserts and TRUNCATE, cancel, crash: the latest succeeded run is complete although fresh runs empty the table, every run ends, a due task runs |
| `data_plane` | pass | approvals: at most once, truthful exec_status, refinement of `OneShot`, a claimed script settles unless the server lost it; sessions on two workers: statements in their transaction, single end, sweeper safety, no request and no session hangs unless the workers are wedged; gateway: order of events, truthful complete event, registry, cancel and deadline end every covered await |
| `drift_runs` | pass | overlapping and failing runs while the schema changes, and a run after the fork: the stored chain passes over no change, no finished run loses one silently, the scheduler implements `TaskLock` |
| `health_alerts` | pass | alerts follow consecutive failing samples; the receiver's picture, visible failures, convergence after the faults |
| `slow_queries` | pass | native events counted once, sound cursors, disjoint reports, due reports written |
| `control_plane` | pass | file and entitlement agree; credentials readable, edits survive, subscriptions end; one live token, stale sessions end; workspaces keep an admin; a wedge needs a crowd |
| `sync_cancel` | violation | a canceled run polls the row of a newer run and takes its next batch |
| `sync_pg_truncate` | violation | PG targets are truncated by resuming runs and not by fresh ones |
| `drift_webhook` | violation | a delivery that failed for good is not in `task_run_history.error` |
| `health_outage` | violation | a source that stays unreachable never raises the connectivity alert |
| `tunnels_reconnect` | violation | a tunnel whose SSH session is lost is never rebuilt |

Each property that the code keeps only with an exception names the exception
(`raced`, `shared`, `straddles`, `overlapped`, `crossed`, `torn`, `switched`, `lost`,
`Orphaned`, `WorkersWedged`): TLC finds a counterexample when the exception is dropped, and the
property says that nothing else breaks it. Type invariants (`TypeOK` and the
`...TypeOK` of the control plane's parts) are kept as documentation of the state; those
of `DataSync`, `DdlApproval` and `Drift` are theorems, the others are part of the
inductive invariants that the proofs use.

Bounds and why they suffice. Two rows two seconds apart with one-second windows
give a full, an empty and a last window. Two runs are enough for any pair to
overlap or to resume. One crash per behaviour, since a crash resets all volatile
state. One retry (`Attempts = 2`) exercises every branch of the retry loop. Two
workers are enough for a race on one claim; a legacy and a new approval, one of them
on a read-only target, show that they do not interfere. Two clients and the sweeper
give every pair of conflicting operations on a session, and on two workers they wedge
the store: a statement under way, a COMMIT and the sweeper waiting for the shard. Three
drift runs, of which the second may overlap the first, fork the chain and continue
it after the fork; four catalogs differ by nothing, by something no drift kind
reports, by a column and by tables. In `health_alerts` two changes of the source let
a metric fail and recover, with a threshold of 2, and `MaxFaults = 1` admits one manual
run, failing operation or crash at any point of a behaviour whose runs are not
bounded. In the gateway of `data_plane` results are empty, shorter than a batch (2), exactly the
row limit (3) and longer; a channel of one event makes every send wait; every
statement is considered alone and one pair contends for an execution id. In
`slow_queries` three slow statements against a batch of two and a snapshot of one digest
overflow both; two ticks with a window and a retention of one let a report be reused,
fall due and meet rotated rows; one restart or switch of a source (`MaxUpsets = 1`); the table's own jobs
and each kind of source are behaviours of their own, as the sources share no rows.
In `control_plane` two POSTs suffice for the shared `.tmp`, three vault requests for a
read-modify-write with one request inside it and one before it, four session calls for a
login, two refreshes and a password change, four workspace requests for create, join and
two racing removals, four resolves on two workers for a crowd. Requests `r1` and `r2`
occur in every part and are interchangeable, so their permutation is a symmetry of the
specification and of the invariants; nothing temporal is checked there.

Fairness. `sync_truncate` assumes weak fairness of each run's next step (database
and HTTP calls return, tokio polls ready tasks) and of the scheduler's loop (a
60 s interval ticker that survives errors). `data_plane` assumes it of each approval
worker, of each request to a session, of the sweeper and of time passing; its actions
need a free thread, so fairness says nothing of a wedged process. Nothing is assumed of
users. `health_alerts` assumes it of every run's next step, of the scheduler and of the
cron tick: time passes. `drift_runs` asks nothing that needs fairness.
`slow_queries` assumes it of the hourly tickers and of each statement of a report or a
round. For the gateway `data_plane` assumes it only of steps that wait for nobody but the server: no
row, no reading client and no passing of time is taken for granted. The approvals have
no recovery, so after a crash or a lost terminal UPDATE a row can stay 'executing' for
good: `ExecutionSettles` names that case (`Orphaned`) instead of excluding it. In `data_plane` a behaviour may stop: executions and approvals
end, and the store may wedge, so deadlock is not checked there.

Observed, and not kept as runs. In `data_sync`: a window with more rows than LIMIT
loses the rest silently (`runner.rs:595`; `DenseTime` and `Limit = 1` in `MCDataSync`); a
source whose cursor text `parse_cursor` does not understand is read from the
start for ever (`runner.rs:1006`; `Parseable = FALSE`); a run after a successful one
starts over although `config.rs:128` calls the mode incremental
(`runner.rs:258` resumes from failed and running rows only). In the approvals: the
read of the connection's kind is `.ok().flatten()`, so the read-only guard is
skipped when the read fails (`db_handler.rs:1581`; "control" in `DdlFaults` and a
read-only target). In drift: overlapping runs fork the chain (two snapshots with
one `prior_hash`); a change whose delivery fails, or whose run dies after the
INSERT, is never announced again; two tasks of one connection with different
`pg_schemas` share the chain and report each other's tables as drifts. In
health_check: with `fail_threshold = 1` the alert still needs two samples, while
`config.rs:93` says "1 = no flap suppression", and connectivity is counted like any other
metric, while `alert.rs:26` says that its first failing sample is itself the alert; the state is persisted before its event
is delivered, so a crash in between loses the event. In transactions: a failed
COMMIT is answered with committed: true (`txn.rs:225` drops its result). In the
gateway: a SELECT on SQL Server waits in `simple_query` outside any `select!`
(`stream_query.rs:929`), so neither the wall-clock timeout (line 14) nor cancel ends it
before its first answer, and opening a pool is bounded by the pool's own timeout
only; after a client has left, the loop spins on the closed channel until the
deadline with its buffer kept, where the comment says the buffer is dropped
(`stream_query.rs:1161`); the panic fallback only tries to send its error event, which a
full channel loses (`handlers.rs:382`); a deadline in the tail flush ends in
`complete` with a count of rows the client did not get; a connected client that never
reads keeps the task in `send_terminal`, and with it the registry entry. Further: with
`ManualRuns` and the truncate strategy a fresh manual run empties the target
under a resuming run, which still succeeds;
`update_progress` stores the anchor of the batch just done, not of the next one
as migration 006 says (a resume repeats one batch); an INSERT whose answer is
lost is applied twice in append mode; a due time read before a run's end
dispatches the task a second time for the same tick; `reject_approval` after
execution makes the two status columns disagree. In the session store, `remove`,
`insert` and `remove_if` calls on as many workers as the runtime has stop it while a
statement is under way (`txn.rs:141`): the wedge is reached in `data_plane`, where
`RequestsComplete` and `AbandonedReclaimed` fail when `WorkersWedged` is dropped from them.
In slow queries: when MySQL's slow log is switched on and off again, the executions it
logged are counted a second time by the growth since the old snapshot
(`native_collector.rs:216`); a round cut between its rows and its cursor repeats the
rows; more than 128 Redis entries in an hour are lost, and the entry with id 0 is never
taken; a slow-log row with the `start_time` of the stored cursor that was logged after
the round is never taken (`native_collector.rs:241` compares with a strict `>`); two generations at once write two reports; a report written more than a week
after the last one (the server was down) covers the last seven days only, and the
samples before them are in none. In the license: `entitlement.rs:168` says
that a file without a license block means trial, the code gates; two POSTs share
`<path>.tmp` and can leave a mixed or a different text in the file; a license or trial
that lapses keeps its entitlement until the next boot, and a license posted to a server
that booted gated starts none of its background loops. In the vault:
`register_connection`'s UPDATE of a row deleted in between succeeds with no row, while
its comment (`handlers.rs:810`) says it falls back to the INSERT; both deletes drop the
error of a row that `ddl_approvals` references and answer as if it was deleted; DELETE
/api/connections never revokes subscriptions; a concurrent PUT writes old columns back.
In sessions: a refresh or login under way survives a password change, two refreshes of
one token both succeed, MCP tokens are not touched by a password change, and a
change that fails between its statements leaves the old sessions alive. In workspaces:
a creation that breaks off between its INSERTs leaves a workspace nobody can reach,
and the advice to "promote another member" has no endpoint. In tunnels: a timed-out
probe of a healthy tunnel leaves the old listener and its session running, and more
`resolve` calls than worker threads can stop the runtime.

## 4. Proofs

The theorems hold for every value of the constants that satisfies the named
assumptions of the specifications (`ConstAssumption`, and in the composed parts
`DdlAssumption`, `TxnAssumption`, `StreamAssumption`,
`QueryStatsAssumption`, `CollectorAssumption`, `EntitlementAssumption`,
`VaultAssumption`, `SessionsAssumption`, `WorkspacesAssumption`, `TunnelsAssumption`,
`PartsAssumption`), thus for
any table, batch size, number of runs, requests, workers, retries, crashes and any set
of faults. The assumptions say what a constant is (a number, a finite catalog, a
sequence of metrics) and that the marks for "nothing" are no members of the sets they
are marks for; TLC evaluates them on every run. Where a theorem needs more, it says so
in its ASSUME.

All 26 invariants of the passing runs are theorems, and all action properties. Each proof finds an inductive invariant whose
parts are named; TLC has checked those invariants on the runs' instances before they
were proved. Facts about all elements of a list or of a finite set that need induction
(a greatest element, a sum of rows) are proved by looking at a least counterexample,
from the well-foundedness of the natural numbers.

`DataSyncProofs`:

* `TypeCorrect`. The one step that is not routine is that "ORDER BY started_at
  DESC LIMIT 1" is well defined: `MaxExists` (a non-empty set of run numbers has
  a greatest element, by well-foundedness of the naturals), `LatestIn` and
  `ResumableIn`.
* `ScheduledExclusive`. `ScheduledRunsExclusive` is inductive together with
  `TypeOK`, because it is an equivalence: the in-flight set holds the task
  exactly while a scheduled run is live.
* `Accounting`, assuming `Sparse`: no window holds more rows than LIMIT. The
  invariant does not say what a run has counted before it is done; `Counting(r)`
  does, by where the run stands (everything from its origin up to its cursor,
  up to the next cursor once the batch is inserted, the whole table when the
  outcome is a success) and ties the stored counters of a succeeded row to the
  locals of its run. Windows compose by `WindowSplit`; that a step of one run
  cannot disturb another is `Locality`, whose only delicate case is
  `update_progress`, which writes to other rows while they are running.
  Without `Sparse` the theorem is false: two rows of one time and `Limit = 1`
  are a counterexample TLC finds.
* `ResumeCovered` and `LatestComplete`, assuming `Sparse` and a strategy other
  than truncate. A row is `Settled` when it is in the target or counted as
  failed; settled rows stay settled (`SettledKept`), and `Coverage(r)` says that
  every row before each cursor of a run (stored, resumed from, current) is
  settled, the fetched batch too once its insert is over. The stored cursor of
  a row may come from another run (`SavedCursorCovered`), which is why the
  invariant speaks of rows settled by anybody rather than of the run's own
  counters. `Counting` is needed for the fact that a batch is its whole window.
* `CancelMissedOnlyBehindNewer`, for every instance, manual runs included. `check_cancel`
  reads the flag of the task's latest running row, not of the run that asks. A run at
  its poll has a running row of its own (`RowOf`: whoever else writes rows, only the run
  itself ends its row), so the latest one is that row or a newer one
  (`LatestNewest`), and a flagged run that goes on has a newer, unflagged row before it.
* `TruncateResumeCovered` and `TruncateLatestComplete`: the coverage results for every
  target strategy, for the driver pairs that pass `is_resume` as it is meant (for the others
  `sync_pg_truncate` shows the opposite) and without manual runs. `CancelInv` says that the live
  run is then the newest one and that a run which died leaves an older row. A fresh run
  empties the table under cursors that older rows still hold, so `Coverage` cannot hold of all
  runs; `HeldCoverage` asks it of those whose cursor can still be read (`Held`: the live
  run and the newest one with a row), and `Fresh` says that a run has saved nothing
  before its truncate step. `sync_truncate` checks the second; with manual runs beside the
  scheduler neither holds under truncate.

`DdlApprovalProofs`: the inductive invariant `IInv` adds to `TypeOK` who owns a
row. A row becomes 'executing' only through the conditional UPDATE, so at most
one worker is past it (`Ownership`); what that worker has done to the target
follows from its place in the script (`Progress`), and a row whose exec_status
is still 'pending' is untouched (`PendingUntouched`). The REST door claims by
status and the MCP door by exec_status, so the two columns must be tied together
(`StatusFollows`, `LoadedResolved`); `GuardHeld` says what the guard established.
`AtMostOnce` and `Truthful` are consequences, and `Implements` is the refinement: by
`ExecutorStep` every step under `IInv` is a step of `OneShot` or a stutter (the claim
takes, a statement applies, `Settle` succeeds or fails; a statement cannot exceed the
script by `Progress`, and only the owner of an 'executing' row settles it by
`Ownership`). `ReadOnlySafe` assumes that reads of the
control database succeed ("control" is not in `DdlFaults`): otherwise the guard
fails open.

`StreamQueryProofs`: `RegistryTracked`. Every step except the start and the cleanup
of an execution is an inner step (`InnerSteps`, one case per action): it leaves the
registry and the ids alone and a running execution goes on running. Cleanup removes
by id and not by execution, so the invariant ties each entry to its id; an execution
whose id somebody else has used may lose its entry, which is why the second half
of `RegistryTracksRunning` speaks of ids used once. `EventOrderHolds` and
`CompleteTruthfulHolds` rest on `QueryInv`, per execution: where a leg stands and how far
its result has been read (`Progress`), that what the client has seen and what is still
in the channel is in order taken together (`Told`), and that rows told plus rows
buffered are the rows read (`Tallied`). The last needs a sum over a sequence of events
that grows at one end and is read at the other.

`TxnSessionsProofs`: `StatementInTransactionHolds`, `EndedOnceHolds`, `SweepSparesUsedHolds`
(the last two are action properties). `TxnInv` says that a request which has taken a
session out of the map has it for itself (`Owns`), and that a session in the map can
still be ended (`Endable`); a statement holds its shard reference, so nobody can take the
session from under it.

`DriftProofs`: `DriftTypeCorrect`; `NoDriftMeansSame` (for any two trees `ComputeDrifts` is
empty exactly when `Visible` agrees on them: one direction per drift kind); and
`ChainRecordsChangesHolds`, `ChangesAnnouncedHolds` from `DriftInv`. Per run: the rows
fetched so far come from catalogs the source had (`Fetched`); the snapshot it has read is
stored, older than its own, and as new as all that were stored when the run began
(`Chained`); the row it stores has that snapshot's hash and the number of the drifts
(`Counted`); and what it says of the webhook is what happened (`Announced`). A hash does not
determine a row, so the theorem concludes only that some older row has it, and
which one the run has read is the witness. A step of one run leaves the others
`Undisturbed`, and snapshots once stored are never changed (`ChainKept`).

`HealthCheckProofs`: `AlertAfterThresholdHolds` and `ReceiverPictureHolds` from `HealthInv`,
`FailureVisibleHolds` from `StatusInv`. The state is loaded, evaluated and persisted in
separate steps, so the invariant says what a run has loaded for the metric it is about
to persist (`Loaded`), that two runs at once lose every claim (`Alone`), and that what is
queued for the receiver is the difference between its picture and the control
database (`Speaks`). `Needed` is the number of samples that the code needs: two for a
threshold of one.

`NativeCollectorProofs`: `ReportsDisjointHolds` from `ReportInv`: a report has counted
samples of its window only (`Windows`), and unless generations crossed one is at work at
a time, a window after every report there is (`OneByOne`). `CursorSoundHolds` from
`CursorInv`. Redis gives its entries newest first, so the largest id is inserted first
and everything below it is still in the batch: `RedisCovered` says that an entry at or
below the cursor, the maximum so far or any id in the batch is in the table, excused or
in the batch. The slow log goes the other way (`SlowInv`): everything before the batch is
covered, and the batch is the rest of the log.

`CountedOnceHolds` from `OnceInv`, one part per source beside the shape of the rows.
`RedisPart` and `SlowPart`: an event is in the log once, and what has been copied of it
is at or below the stored cursor or, in the round that inserts, at or below what the
round will store; so a cursor read back excludes exactly what has a row. `MysqlPart` is
a budget per digest: what the table counts (`Counted`: the rows of the counters and the
logged events that have a row) plus what the next difference of snapshots can still find
(`Grown`) was executed. A round splits the growth at its own snapshot: what the old
snapshot missed before it, which are the rows of `DiffSnapshots`, and what grows after
it, which the next round finds. A reset, an eviction or a failed INSERT only lowers the
sum. The budget pays for logged events only while nothing of the counters is kept, and
that is what `switched` excepts: an exemption by the stored snapshot alone is too small,
since a reset leaves an empty snapshot behind rows of the counters, after which the
slow log's older entries are counted again (several upsets of the source, found when the
invariant was tried with TLC). The sum over rows is a recursive function of the row
ids; `TableSum` bounds its change by the row a step adds.

`ControlPlaneProofs`, one section per part, every SQL statement a step:

* `OneLiveSuccessorHolds` (`SessInv`): within a login whose tokens were presented one at a
  time at most one rotation is under way; before it has revoked, the presented token
  is the only one in force, and before it has issued, none is.
* `StaleSessionsEndHolds` (`StaleInv`): once a password change is over, what is stored of an
  older password is revoked, and a request that will still store one straddles it.
* `WorkspaceKeepsAdminHolds` (`WsInv`): the endpoints count admins in a statement of its
  own before they delete. That is sound because only the creation makes an admin,
  before anybody knows the invite code (`BeforeCode`), so the owner is the one admin
  (`OwnerIsAdmin`) and no pending deletion is the admin's (`DeletesNoAdmin`).
* `EntitlementMatchesFileHolds` (`EntInv`): the inode that `<path>.tmp` names is never the
  license file's (`Inode`); as long as no two POSTs overlapped, the one between open and
  store determines what the file and the entitlement will be (`WritesInOrder`).
* `CredentialsReadableHolds`, `EditsSurviveHolds`, `SubscriptionsEndHolds` (`VaultInv`): which
  key the stored rows are under at each step of the boot (`FileKey`, `EnvKey`), what a
  request between its check and its write remembers of the row (`BusyRequests`), and where
  a subscription can be found (`Subscriptions`, `SubscribedTo`).
* `WedgeNeedsCrowdHolds` (`TunnelsInv`): a call holds a reference into the map during its
  probe and at no other time (`GuardsProbe`), so a call that waits for the map holds none;
  the rest is counting.
* `ServerKeepsPromises`: the composed server keeps all eight invariants. By construction of
  the composition its behaviours are behaviours of each part (the lemma `ServerImplementsParts`).

`TaskLock` is the abstract specification of the three schedulers, which have
a copy of `InFlightTasks` each; a run started by hand is none of its runs, because run_task_now does not
ask for the task. `SyncImplementsLock`, `DriftImplementsLock` and `HealthImplementsLock`
show that each scheduler implements it (`drift_runs` checks it as `ImplementsLock`), with the in-flight set for `held` and the live
scheduled runs of a task for `work`. The dispatch is `Acquire`, the wrapper's release after run_task
has returned `Release`, a crash `Restart`, every other step a stutter. The inductive part
(`LockInv`, for `DataSync` `ScheduledRunsExclusive`) is that a task is in flight exactly
while it has a scheduled run, and that it has no second one: without the first half the
dispatch could find the task free with a run at work, without the second the release could
free it too early. For `Drift` the set of tasks is arbitrary and a step of one
task leaves the others as they are.

Left to TLC: the liveness properties and everything that needs ENABLED.

## 5. Plan

1. `sql_split` and the MCP risk classes as operators over a token alphabet.

## 6. Not modelled

Driver and network I/O (`db_handler` queries, `metadata`, `mongo`, `redis_leg`,
`sqlserver`, `tdengine_leg`, the SSH handshake), cryptography (AES-GCM, license
signatures, JWT and password hashing are the identity of a key, a text, a secret or a
version), SQL text, splitting and column mapping, the MCP read tools and risk classes,
configuration parsing, telemetry and routing: they keep no state of their own or are
out of a model checker's reach. Two replicas on one control database are documented
as unsupported.
