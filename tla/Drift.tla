------------------------------- MODULE Drift --------------------------------
(***************************************************************************)
(* The schema_drift tasks that watch one source connection: the interval   *)
(* scheduler (crates/drift/src/scheduler.rs), manual runs                  *)
(* (crates/automation/src/handler.rs), the runner                          *)
(* (crates/drift/src/runner.rs) with its snapshot chain in SQLite, and the *)
(* webhook (crates/drift/src/notify.rs).                                   *)
(*                                                                         *)
(* Snapshots are read by connection, so the tasks of one connection share  *)
(* one chain.  Run r writes at most one snapshot, which therefore carries  *)
(* its number.  The source's schema changes at any time, also between the  *)
(* three catalog queries of one run.                                       *)
(***************************************************************************)
EXTENDS SchemaDiff, Naturals

CONSTANTS
    Task,         \* the enabled schema_drift tasks of the connection
    Catalogs,     \* the schemas the source may have: [columns, indexes, fks]
    Catalog0,     \* the one it has at first
    Kind,         \* database_connections.kind
    Urls,         \* the first notify channel is one of these: "none", "rejected", "valid"
    Attempts,     \* backoffs.len() + 1
    Interval,     \* interval_minutes.max(1)
    MaxRuns,      \* bound: calls of run_task
    Overlapping,  \* bound: the runs that may start while another is active
    ManualRuns,   \* whether POST /api/tasks/:id/run is used
    MaxTime,      \* bound: minutes that pass
    MaxDdl,       \* bound: schema changes of the source
    MaxFaults,    \* bound: crashes and failing operations but the webhook's
    Faults        \* what may fail

FaultKinds == {"control", "connect", "canary", "collect", "webhook", "lost_ack", "crash"}

ASSUME ConstAssumption ==
    /\ Catalog0 \in Catalogs
    /\ \A c \in Catalogs : IsFiniteSet(c.columns) /\ IsFiniteSet(c.indexes) /\ IsFiniteSet(c.fks)
    /\ Kind \in {"collab", "source_drift"} /\ Urls \subseteq {"none", "rejected", "valid"}
    /\ Attempts \in Nat \ {0} /\ Interval \in Nat \ {0}
    /\ MaxRuns \in Nat /\ Overlapping \subseteq Nat /\ MaxTime \in Nat /\ MaxDdl \in Nat /\ MaxFaults \in Nat
    /\ ManualRuns \in BOOLEAN /\ Faults \subseteq FaultKinds

RunId == 1..MaxRuns
NoRun == 0          \* no prior snapshot
Never == MaxTime + 1 \* last_run_at IS NULL
NoTask == "none"
EmptyTree == Assemble({}, {}, {})
NoRows == [columns |-> {}, indexes |-> {}]

VARIABLES
    \* the source database and the webhook receiver
    catalog,       \* what the introspection queries would return now
    received,      \* runs whose payload reached the receiver
    \* the control database
    snaps,         \* runs with a row in schema_snapshots
    tree,          \* schema_json (and the run's local before the INSERT)
    priorHash,     \* prior_hash: {} is NULL, {x} the hash of tree x
    changes,       \* change_count
    stamp,         \* captured_at, as a position in the order of the clock
    history,       \* task_run_history.status, "none" while there is no row
    summary,       \* task_run_history.summary
    errors,        \* runs whose task_run_history.error is set
    lastRun,       \* scheduled_tasks.last_run_at
    \* the server process
    pc,            \* where each run_task is
    task,          \* the task of each run
    trigger,       \* triggered_by
    rows,          \* catalog rows fetched so far
    prior,         \* the PriorSnapshotRow a run has read, by its id
    attempt,       \* the current POST
    webhook,       \* webhook_status
    outcome,       \* what run_task_inner returned
    inFlight,      \* InFlightTasks
    todo,          \* due tasks scan_and_dispatch has yet to dispatch
    \* the environment
    clock,         \* timestamps handed out
    now,           \* minutes
    ddls,          \* schema changes so far
    faults,        \* failures and crashes so far
    url,           \* the notify channel of the tasks
    before         \* history: the snapshots stored when each run started

snapVars  == <<snaps, tree, priorHash, changes, stamp, clock, prior, before>>
taskVars  == <<history, summary, errors, lastRun>>
schedVars == <<inFlight, todo>>
worldVars == <<catalog, now, ddls, url>>
envVars   == <<worldVars, faults>>
vars == <<received, snapVars, taskVars, pc, task, trigger, rows, attempt, webhook,
          outcome, schedVars, envVars>>

----------------------------------------------------------------------------
(* State functions *)

Live == {"open", "columns", "indexes", "fks", "compare", "stamp", "insert",
         "deliver", "finish", "release"}
Active == {r \in RunId : pc[r] \in Live}
\* The bounds let run r, the next one, start.
MayStart(r) ==
    /\ pc[r] = "none" /\ \A q \in 1..(r - 1) : pc[q] # "none"
    /\ Active = {} \/ r \in Overlapping
\* They do not; the scheduler then passes over a due task.
Exhausted == \A r \in RunId : ~ MayStart(r)

\* Mutant: the rows come in ascending order.
OldestSnapshot ==
    IF snaps = {} THEN NoRun ELSE CHOOSE r \in snaps : \A q \in snaps : stamp[r] <= stamp[q]

\* SELECT ... WHERE connection_id ORDER BY captured_at DESC LIMIT 1
PriorSnapshot ==
    IF snaps = {} THEN NoRun ELSE CHOOSE r \in snaps : \A q \in snaps : stamp[q] <= stamp[r]

\* schema_hash is the SHA-256 of a canonical form, so hashes are equal exactly
\* when the trees are, and a tree stands for its hash: two snapshots of one tree
\* share it.
PriorHash(r) == IF prior[r] = NoRun THEN {} ELSE {tree[prior[r]]}

\* compute_drifts runs only when the hashes differ.
DriftsOf(r) ==
    IF prior[r] = NoRun \/ tree[prior[r]] = tree[r] THEN {}
    ELSE ComputeDrifts(tree[prior[r]], tree[r])

IsDue(last) == last = Never \/ last + Interval <= now

TryAcquire(t) == t \notin inFlight

----------------------------------------------------------------------------
(* Starting a run *)

StartRun(r, t, by) ==
    /\ MayStart(r)
    /\ pc' = [pc EXCEPT ![r] = "open"]
    /\ task' = [task EXCEPT ![r] = t]
    /\ trigger' = [trigger EXCEPT ![r] = by]
    /\ before' = [before EXCEPT ![r] = snaps]
    /\ UNCHANGED <<snaps, tree, priorHash, changes, stamp, clock, prior>>

\* scan_and_dispatch reads the enabled tasks and picks the due ones.
ScanTasks ==
    /\ todo = {}
    /\ todo' = {t \in Task : IsDue(lastRun[t])}
    /\ UNCHANGED <<received, snapVars, taskVars, pc, task, trigger, rows, attempt,
                   webhook, outcome, inFlight, envVars>>

\* Still in flight: the tick is skipped.
SkipTask(t) ==
    /\ t \in todo /\ (~TryAcquire(t) \/ Exhausted)
    /\ todo' = todo \ {t}
    /\ UNCHANGED <<received, snapVars, taskVars, pc, task, trigger, rows, attempt,
                   webhook, outcome, inFlight, envVars>>

DispatchTask(t) ==
    /\ t \in todo /\ TryAcquire(t)
    /\ todo' = todo \ {t}
    /\ inFlight' = inFlight \cup {t}
    /\ \E r \in RunId : StartRun(r, t, "scheduler")
    /\ UNCHANGED <<received, taskVars, rows, attempt, webhook, outcome, envVars>>

\* POST /api/tasks/:id/run does not consult InFlightTasks.
RunTaskNow(t) ==
    /\ ManualRuns
    /\ \E r \in RunId : StartRun(r, t, "manual")
    /\ UNCHANGED <<received, taskVars, rows, attempt, webhook, outcome, schedVars, envVars>>

----------------------------------------------------------------------------
(* The steps of one run *)

Goto(r, l) == pc' = [pc EXCEPT ![r] = l]

\* run_task_inner returns o.
Return(r, o) == Goto(r, "finish") /\ outcome' = [outcome EXCEPT ![r] = o]

\* A fault of kind f happens.
Fault(f) == f \in Faults /\ faults < MaxFaults /\ faults' = faults + 1

\* run_task_inner fails on a fault of kind f.
Fails(r, f) == Fault(f) /\ Return(r, "error")

\* check_mysql or check_postgres finds the account writable, or does not reach it.
CanaryRefuses(r) == Kind = "source_drift" /\ Fails(r, "canary")

\* INSERT of the running row, on whose error run_task returns at once; then load,
\* decrypt, audit, connect, and on source_drift connections the canary, which
\* refuses a writable or unreachable account.
OpenRun(r) ==
    /\ pc[r] = "open"
    /\ \/ Fault("control") /\ Goto(r, "release") /\ UNCHANGED <<history, outcome>>
       \/ /\ history' = [history EXCEPT ![r] = "running"]
          /\ \/ Goto(r, "columns") /\ UNCHANGED <<outcome, faults>>
             \/ Fails(r, "control")
             \/ Fails(r, "connect")
             \/ CanaryRefuses(r)
    /\ UNCHANGED <<received, snapVars, summary, errors, lastRun, task, trigger, rows, attempt,
                   webhook, schedVars, worldVars>>

\* The first two catalog queries; fetched is what the run then has.
CollectRows(r, here, fetched, next) ==
    /\ pc[r] = here
    /\ \/ /\ rows' = [rows EXCEPT ![r] = fetched]
          /\ Goto(r, next) /\ UNCHANGED <<outcome, faults>>
       \/ Fails(r, "collect") /\ UNCHANGED rows
    /\ UNCHANGED <<received, snapVars, taskVars, task, trigger, attempt, webhook, schedVars, worldVars>>

CollectColumns(r) ==
    CollectRows(r, "columns", [columns |-> catalog.columns, indexes |-> {}], "indexes")
CollectIndexes(r) ==
    CollectRows(r, "indexes", [columns |-> rows[r].columns, indexes |-> catalog.indexes], "fks")

\* The third query; then the tree is assembled and hashed.
CollectFks(r) ==
    /\ pc[r] = "fks"
    /\ \/ /\ tree' = [tree EXCEPT ![r] = Assemble(rows[r].columns, rows[r].indexes, catalog.fks)]
          /\ rows' = [rows EXCEPT ![r] = NoRows]
          /\ Goto(r, "compare") /\ UNCHANGED <<outcome, faults>>
       \/ Fails(r, "collect") /\ UNCHANGED <<tree, rows>>
    /\ UNCHANGED <<received, snaps, priorHash, changes, stamp, clock, prior, before, taskVars,
                   task, trigger, attempt, webhook, schedVars, worldVars>>

\* The prior snapshot is read.
Compare(r) ==
    /\ pc[r] = "compare"
    /\ \/ /\ prior' = [prior EXCEPT ![r] = PriorSnapshot]
          /\ Goto(r, "stamp") /\ UNCHANGED <<outcome, faults>>
       \/ Fails(r, "control") /\ UNCHANGED prior
    /\ UNCHANGED <<received, snaps, tree, priorHash, changes, stamp, clock, before, taskVars,
                   task, trigger, rows, attempt, webhook, schedVars, worldVars>>

\* captured_at is taken after the comparison and before the INSERT; another run
\* may take its own, or insert, on either side.
TakeStamp(r) ==
    /\ pc[r] = "stamp"
    /\ clock' = clock + 1
    /\ stamp' = [stamp EXCEPT ![r] = clock + 1]
    /\ Goto(r, "insert")
    /\ UNCHANGED <<received, snaps, tree, priorHash, changes, prior, before, taskVars, task,
                   trigger, rows, attempt, webhook, outcome, schedVars, envVars>>

\* INSERT of the snapshot; the webhook follows when there are drifts and a URL.
InsertSnapshot(r) ==
    /\ pc[r] = "insert"
    /\ \/ /\ snaps' = snaps \cup {r}
          /\ priorHash' = [priorHash EXCEPT ![r] = PriorHash(r)]
          /\ changes' = [changes EXCEPT ![r] = Cardinality(DriftsOf(r))]
          /\ UNCHANGED faults
          /\ \/ /\ DriftsOf(r) # {} /\ url # "none"
                /\ Goto(r, "deliver")
                /\ attempt' = [attempt EXCEPT ![r] = 1]
                /\ UNCHANGED <<webhook, outcome>>
             \/ /\ DriftsOf(r) = {} \/ url = "none"
                /\ webhook' = [webhook EXCEPT ![r] = "skipped"]
                /\ Return(r, "ok")
                /\ UNCHANGED attempt
       \/ Fails(r, "control") /\ UNCHANGED <<snaps, priorHash, changes, webhook, attempt>>
    /\ UNCHANGED <<received, tree, stamp, clock, prior, before, taskVars, task, trigger, rows,
                   schedVars, worldVars>>

\* deliver has returned; its audit row is best effort.
Delivered(r, s) == webhook' = [webhook EXCEPT ![r] = s] /\ Return(r, "ok")

\* Mutant: an attempt without an answer counts as delivered.
NoAnswerDelivered(r) ==
    /\ "webhook" \in Faults /\ UNCHANGED received
    /\ Delivered(r, "ok") /\ UNCHANGED attempt

\* No 2xx: the payload may have arrived all the same.
NoAnswer(r) ==
    /\ \/ "webhook" \in Faults /\ UNCHANGED received
       \/ "lost_ack" \in Faults /\ received' = received \cup {r}
    /\ IF attempt[r] = Attempts
       THEN Delivered(r, "failed") /\ UNCHANGED attempt
       ELSE attempt' = [attempt EXCEPT ![r] = @ + 1] /\ UNCHANGED <<webhook, pc, outcome>>

\* One POST of deliver_with_backoff; a rejected URL is never contacted.
DeliverAttempt(r) ==
    /\ pc[r] = "deliver"
    /\ \/ url = "rejected" /\ Delivered(r, "failed") /\ UNCHANGED <<received, attempt>>
       \/ /\ url = "valid" /\ received' = received \cup {r}
          /\ Delivered(r, "ok") /\ UNCHANGED attempt
       \/ url = "valid" /\ NoAnswer(r)
    /\ UNCHANGED <<snapVars, taskVars, task, trigger, rows, schedVars, envVars>>

\* RunSummary
SummaryOf(r) ==
    [count |-> changes[r], webhook |-> webhook[r], snapshot |-> r, baseline |-> prior[r]]
NoSummary == [count |-> 0, webhook |-> "none", snapshot |-> NoRun, baseline |-> NoRun]

\* The terminal status of the history row, with a summary or an error, then
\* update_task_status, whatever the outcome; an error of either UPDATE is dropped.
\* A delivery that failed for good is no error of the run.
FinishRun(r) ==
    /\ pc[r] = "finish"
    /\ \E lost \in SUBSET {"history", "task"} :
          /\ IF lost = {} THEN UNCHANGED faults ELSE Fault("control")
          /\ history' = IF "history" \in lost THEN history
                        ELSE [history EXCEPT ![r] =
                                 IF outcome[r] = "ok" THEN "succeeded" ELSE "failed"]
          /\ summary' = IF "history" \in lost \/ outcome[r] # "ok" THEN summary
                        ELSE [summary EXCEPT ![r] = SummaryOf(r)]
          /\ errors' = IF "history" \in lost \/ outcome[r] = "ok" THEN errors
                       ELSE errors \cup {r}
          /\ lastRun' = IF "task" \in lost THEN lastRun
                        ELSE [lastRun EXCEPT ![task[r]] = now]
    /\ Goto(r, "release")
    /\ UNCHANGED <<received, snapVars, task, trigger, rows, attempt, webhook, outcome,
                   schedVars, worldVars>>

\* The futures of the runs R are gone with their locals; rows stored stay.
Forget(R) ==
    /\ rows' = [r \in RunId |-> IF r \in R THEN NoRows ELSE rows[r]]
    /\ tree' = [r \in RunId |-> IF r \in R \ snaps THEN EmptyTree ELSE tree[r]]
    /\ prior' = [r \in RunId |-> IF r \in R \ snaps THEN NoRun ELSE prior[r]]
    /\ stamp' = [r \in RunId |-> IF r \in R \ snaps THEN 0 ELSE stamp[r]]
    /\ UNCHANGED <<snaps, priorHash, changes, clock, before>>

\* Mutant: a failed run keeps its task in flight.
ReleasedOnSuccess(r) ==
    IF trigger[r] = "scheduler" /\ outcome[r] = "ok" THEN inFlight \ {task[r]} ELSE inFlight

\* The scheduler's wrapper releases the task whatever run_task returned.
Released(r) == IF trigger[r] = "scheduler" THEN inFlight \ {task[r]} ELSE inFlight

ReleaseTask(r) ==
    /\ pc[r] = "release"
    /\ Goto(r, "done")
    /\ inFlight' = Released(r)
    /\ Forget({r})
    /\ UNCHANGED <<received, taskVars, task, trigger, attempt, webhook, outcome, todo, envVars>>

RunStep(r) ==
    \/ OpenRun(r) \/ CollectColumns(r) \/ CollectIndexes(r)
    \/ CollectFks(r) \/ Compare(r) \/ TakeStamp(r) \/ InsertSnapshot(r) \/ DeliverAttempt(r)
    \/ FinishRun(r) \/ ReleaseTask(r)

----------------------------------------------------------------------------
(* The environment *)

\* Somebody changes the source's schema.
SourceDdl ==
    /\ ddls < MaxDdl
    /\ ddls' = ddls + 1
    /\ catalog' \in Catalogs \ {catalog}
    /\ UNCHANGED <<received, snapVars, taskVars, pc, task, trigger, rows, attempt,
                   webhook, outcome, schedVars, now, url, faults>>

Minute ==
    /\ now < MaxTime
    /\ now' = now + 1
    /\ UNCHANGED <<received, snapVars, taskVars, pc, task, trigger, rows, attempt,
                   webhook, outcome, schedVars, catalog, ddls, url, faults>>

\* The process dies and is restarted: futures and InFlightTasks are gone.
Crash ==
    /\ Fault("crash") /\ Active # {}
    /\ pc' = [r \in RunId |-> IF r \in Active THEN "dead" ELSE pc[r]]
    /\ inFlight' = {} /\ todo' = {}
    /\ Forget(Active)
    /\ UNCHANGED <<received, taskVars, task, trigger, attempt, webhook, outcome, worldVars>>

Init ==
    /\ catalog = Catalog0
    /\ received = {} /\ snaps = {} /\ inFlight = {} /\ todo = {}
    /\ tree = [r \in RunId |-> EmptyTree]
    /\ prior = [r \in RunId |-> NoRun] /\ priorHash = [r \in RunId |-> {}]
    /\ before = [r \in RunId |-> {}] /\ errors = {}
    /\ changes = [r \in RunId |-> 0] /\ stamp = [r \in RunId |-> 0]
    /\ history = [r \in RunId |-> "none"] /\ summary = [r \in RunId |-> NoSummary]
    /\ lastRun = [t \in Task |-> Never]
    /\ pc = [r \in RunId |-> "none"]
    /\ task = [r \in RunId |-> NoTask]
    /\ trigger = [r \in RunId |-> "none"]
    /\ rows = [r \in RunId |-> NoRows]
    /\ attempt = [r \in RunId |-> 0]
    /\ webhook = [r \in RunId |-> "none"] /\ outcome = [r \in RunId |-> "none"]
    /\ clock = 0 /\ now = 0 /\ ddls = 0 /\ faults = 0
    /\ url \in Urls

Next ==
    \/ ScanTasks
    \/ \E t \in Task : SkipTask(t) \/ DispatchTask(t) \/ RunTaskNow(t)
    \/ \E r \in RunId : RunStep(r)
    \/ SourceDdl \/ Minute \/ Crash

Spec == Init /\ [][Next]_vars

----------------------------------------------------------------------------
(* Type invariant *)

\* What a run can put together from catalogs of different moments.
Trees == {EmptyTree} \cup
    {Assemble(a.columns, b.indexes, c.fks) : a \in Catalogs, b \in Catalogs, c \in Catalogs}

\* Rows and locals keep their shape; a stored snapshot is one a run can collect.
TypeOK ==
    /\ catalog \in Catalogs
    /\ received \subseteq RunId /\ snaps \subseteq RunId
    /\ tree \in [RunId -> Trees]
    /\ prior \in [RunId -> RunId \cup {NoRun}] /\ priorHash \in [RunId -> SUBSET Trees]
    /\ before \in [RunId -> SUBSET RunId] /\ errors \subseteq RunId
    /\ changes \in [RunId -> Nat] /\ stamp \in [RunId -> Nat] /\ clock \in Nat
    /\ history \in [RunId -> {"none", "running", "succeeded", "failed"}]
    /\ lastRun \in [Task -> Nat]
    /\ pc \in [RunId -> Live \cup {"none", "done", "dead"}]
    /\ task \in [RunId -> Task \cup {NoTask}]
    /\ trigger \in [RunId -> {"none", "scheduler", "manual"}]
    /\ attempt \in [RunId -> Nat]
    /\ webhook \in [RunId -> {"none", "ok", "failed", "skipped"}]
    /\ outcome \in [RunId -> {"none", "ok", "error"}]
    /\ inFlight \subseteq Task /\ todo \subseteq Task
    /\ now \in Nat /\ ddls \in Nat /\ faults \in 0..MaxFaults /\ url \in Urls

----------------------------------------------------------------------------
(* Safety *)

\* The columns of schema_snapshots tell what changed: a row with prior_hash NULL
\* counts no change; any other prior_hash is the schema_hash of an older row,
\* change_count is 0 exactly when no drift kind can tell that tree from the row's,
\* and the older row is at least as new as every snapshot stored before the run
\* began.  However runs overlap, crash or collect a schema that changes under
\* them, a run after a fork compares with the newest branch and no reportable
\* change between snapshots is passed over.
ChainRecordsChanges ==
    \A r \in snaps :
        /\ priorHash[r] = {} => changes[r] = 0 /\ before[r] = {}
        /\ \A h \in priorHash[r] :
              /\ (changes[r] = 0) <=> (Visible(h) = Visible(tree[r]))
              /\ \E q \in snaps :
                    /\ tree[q] = h /\ stamp[q] < stamp[r]
                    /\ \A s \in before[r] : stamp[s] <= stamp[q]

\* The receiver only hears of changes that are stored, webhook_status 'ok' means
\* it has heard, and a change whose run has ended was delivered, or its summary's
\* webhook_status is 'failed' or 'skipped'.  That status is the only trace in
\* task_run_history of a delivery that failed for good: see
\* DeliveryFailureRecorded for the error column.
ChangesAnnounced ==
    /\ \A r \in received : r \in snaps /\ changes[r] > 0
    /\ \A r \in RunId : history[r] = "succeeded" =>
          /\ r \in snaps
          /\ summary[r].count = changes[r] /\ summary[r].baseline = prior[r]
          /\ summary[r].webhook = "ok" => r \in received
          /\ (changes[r] > 0 /\ r \notin received) => summary[r].webhook \in {"failed", "skipped"}
    /\ \A r \in snaps : pc[r] = "done" /\ changes[r] > 0 /\ url = "valid" =>
          r \in received \/ attempt[r] = Attempts

\* notify.rs on a permanent delivery failure: "the runner records it in
\* task_run_history.error (no silent swallow)".  The code keeps the run
\* 'succeeded' with error NULL.
DeliveryFailureRecorded ==
    \A r \in RunId : history[r] \in {"succeeded", "failed"} /\ webhook[r] = "failed" => r \in errors

----------------------------------------------------------------------------
(* The lock of the scheduler *)

\* The runs at work that the scheduler has started, by their task.
Scheduled == {r \in Active : trigger[r] = "scheduler"}
WorkOf == [t \in Task |-> {r \in Scheduled : task[r] = t}]

\* InFlightTasks as a lock of the runs the scheduler has started.
Lock == INSTANCE TaskLock WITH Run <- RunId, held <- inFlight, work <- WorkOf

\* scheduler.rs implements TaskLock: a task is taken before its run starts, has
\* one scheduled run while it is in flight, however ticks, manual runs and slow
\* runs overlap, and is free again with the end of that run on every error path
\* and after a crash, so no failure keeps a task from its next tick.
ImplementsLock == Lock!Spec

=============================================================================
