------------------------------ MODULE DataSync ------------------------------
(***************************************************************************)
(* One data_sync task of dbmaster-server: the cron scheduler               *)
(* (crates/data_sync/src/scheduler.rs), the manual trigger and the cancel  *)
(* endpoint (crates/automation/src/handler.rs) and the ETL runner          *)
(* (crates/data_sync/src/runner.rs) with the run rows it keeps in SQLite.  *)
(*                                                                         *)
(* Every control-plane statement is keyed by task id, so tasks do not      *)
(* interact and one task is modelled.  Runs are numbered in the order in   *)
(* which run_task takes its started_at timestamp: "latest by started_at"   *)
(* is the largest number.  Each `.await` on a database is a point where    *)
(* other runs, the scheduler, an operator or a process crash may step in.  *)
(***************************************************************************)
EXTENDS Integers, FiniteSets

CONSTANTS
    Row,          \* rows of the source's main table
    TimeOf,       \* the batching.time_field of each row, in seconds
    StartAt,      \* batching.start, or MIN(time_field) when it is not set
    MaxTime,      \* MAX(time_field)
    BatchSize,    \* batching.batch_size, as seconds of coverage per batch
    Limit,        \* LIMIT of the batch SELECT: the same number when it is set
    Attempts,     \* batch_retries.max(1)
    Strategy,     \* target_strategy
    Pair,         \* the (source, target) driver pair
    Parseable,    \* whether parse_cursor understands the source's time text
    MaxRuns,      \* bound: calls of run_task
    ManualRuns,   \* whether POST /api/tasks/:id/run is used
    MaxTicks,     \* bound: ticks of the cron expression
    MaxCrashes,   \* bound: process crashes
    Faults        \* which external operations may fail

Pairs == {"mysql_mysql", "pg_pg", "cross", "clickhouse", "doris"}
FaultKinds == {"control", "connect", "fetch", "insert", "lost_ack", "truncate"}

ASSUME ConstAssumption ==
    /\ TimeOf \in [Row -> Nat]
    /\ StartAt \in Nat /\ MaxTime \in Nat
    /\ \A x \in Row : TimeOf[x] <= MaxTime
    /\ BatchSize \in Nat \ {0} /\ Limit \in Nat \ {0} /\ Attempts \in Nat \ {0}
    /\ Strategy \in {"append", "truncate", "upsert"}
    /\ Pair \in Pairs
    /\ Parseable \in BOOLEAN /\ ManualRuns \in BOOLEAN
    /\ MaxRuns \in Nat /\ MaxTicks \in Nat /\ MaxCrashes \in Nat
    /\ Faults \subseteq FaultKinds

RunId == 1..MaxRuns
NoCursor == -1     \* SQL NULL / None
NeverRan == -1     \* last_run_at IS NULL
Cursor == Nat \cup {NoCursor}

VARIABLES
    \* the control database
    status,        \* data_sync_runs.status, "none" while there is no row
    dbCursor,      \* data_sync_runs.cursor
    dbProcessed,   \* the rows counted by data_sync_runs.processed_rows
    dbFailed,      \* the rows counted by data_sync_runs.failed_rows
    cancelReq,     \* data_sync_runs.cancel_requested
    lastRun,       \* scheduled_tasks.last_run_at, in cron ticks
    \* the target database
    target,        \* copies of each source row in the target table
    \* the server process
    pc,            \* where each run_task is
    trigger,       \* triggered_by
    resume,        \* LoopCtx.resume_cursor
    cursor,        \* the batch loop's cursor
    batch,         \* rows fetched and not yet accounted for
    attempt,       \* number of the current insert attempt
    processed,     \* rows this run counted as processed
    failed,        \* rows this run counted as failed
    outcome,       \* what run_task_inner returned
    nowEnd,        \* now_end, in cron ticks
    inFlight,      \* InFlightTasks holds the task's id
    schedPc,       \* where scan_and_dispatch is
    lastSeen,      \* DueTaskRow.last_run_at of the current scan
    \* the environment
    tick,          \* ticks of the cron expression so far
    crashes        \* process crashes so far

rowVars   == <<status, dbCursor, dbProcessed, dbFailed, cancelReq>>
loopVars  == <<cursor, batch, attempt, processed, failed>>
schedVars == <<inFlight, schedPc, lastSeen>>
envVars   == <<tick, crashes>>
vars == <<rowVars, lastRun, target, pc, trigger, resume, loopVars, outcome,
          nowEnd, schedVars, envVars>>

----------------------------------------------------------------------------
(* State functions *)

Live == {"resume", "open", "prepare", "truncate", "poll", "fetch", "insert",
         "progress", "finish", "task", "notify", "release"}
Started == {r \in RunId : pc[r] # "none"}
Active  == {r \in RunId : pc[r] \in Live}
Opened  == {r \in RunId : status[r] # "none"}
Running == {r \in RunId : status[r] = "running"}
LatestOf(S) == CHOOSE r \in S : \A q \in S : q <= r

\* SELECT cursor, status ... ORDER BY started_at DESC LIMIT 1
FindResumableCursor ==
    IF Opened = {} THEN NoCursor
    ELSE LET r == LatestOf(Opened)
         IN  IF status[r] # "succeeded" THEN dbCursor[r] ELSE NoCursor

\* Mutant: the flag is compared the wrong way round.
CancelSeenZero == Running # {} /\ ~cancelReq[LatestOf(Running)]

\* The cancel flag of the task's latest running row; FALSE if there is none.
CancelSeen == Running # {} /\ cancelReq[LatestOf(Running)]

\* Mutant: the cursor is kept from going past MAX(time_field).
AdvanceCursorClamped(c) == IF c + BatchSize > MaxTime THEN MaxTime ELSE c + BatchSize

\* The cursor is text: when it does not parse, it is returned unchanged.
AdvanceCursor(c) == IF Parseable THEN c + BatchSize ELSE c

\* Mutant: the window that ends at MAX(time_field) is taken for the last one.
CursorGe(a, b) == a >= b

CursorGt(a, b) == a > b

\* Where the window of a run begins.
Origin(r) == IF resume[r] # NoCursor THEN resume[r] ELSE StartAt

Window(lo, hi) == {x \in Row : lo <= TimeOf[x] /\ TimeOf[x] < hi}

\* WHERE time >= lo AND time < hi ORDER BY time LIMIT n
SelectBatch(lo, hi) ==
    LET w == Window(lo, hi)
    IN  IF Cardinality(w) <= Limit THEN {w}
        ELSE {b \in SUBSET w : /\ Cardinality(b) = Limit
                               /\ \A x \in b, y \in w \ b : TimeOf[x] <= TimeOf[y]}

\* Mutant: the flag is inverted for every pair.
IsResumeArgInverted(r) == resume[r] = NoCursor

\* The is_resume argument each ETL loop passes to its maybe_truncate_*; the
\* Stream Load loop makes no such call.
IsResumeArg(r) ==
    CASE Pair \in {"mysql_mysql", "clickhouse"} -> resume[r] # NoCursor
      [] Pair \in {"pg_pg", "cross"}            -> resume[r] = NoCursor
      [] Pair = "doris"                         -> TRUE

\* Mutant: every strategy truncates.
TruncatesAlways(r) == ~IsResumeArg(r)

\* The early return on is_resume and the match on the strategy.
TruncatesTarget(r) == ~IsResumeArg(r) /\ Strategy = "truncate"

\* One multi-row INSERT; only the sqlx targets honour the upsert key.
Written(b) ==
    [x \in Row |-> IF x \notin b THEN target[x]
                   ELSE IF Strategy = "upsert" /\ Pair \notin {"clickhouse", "doris"}
                   THEN 1 ELSE target[x] + 1]

\* The loop of retry_batch_insert: 1..=attempts
NextAttempt(n) == n + 1

\* status_label
TerminalStatus(o) == IF o = "error" THEN "failed" ELSE o

\* Mutant: the final UPDATE leaves the counters of the last update_progress.
FinalCountsKept(r) == <<dbProcessed[r], dbFailed[r]>>

\* Only an Ok outcome rewrites the counters of the run's row.
FinalCounts(r) == IF outcome[r] = "error" THEN <<dbProcessed[r], dbFailed[r]>>
                  ELSE <<processed[r], failed[r]>>

\* A tick of the cron expression lies in (last, now].
IsDue(last, now) == last = NeverRan \/ last < now

\* Mutant: the HashSet is not consulted.
TryAcquireAlways == TRUE

\* InFlightTasks::try_acquire: insert returns whether the id was absent.
TryAcquire == ~inFlight

\* Mutant: the id is released only after a success.
ReleasesOnSuccess(r) == trigger[r] = "scheduler" /\ outcome[r] = "succeeded"

\* The scheduler's wrapper releases the id whatever run_task returned.
Releases(r) == trigger[r] = "scheduler"

----------------------------------------------------------------------------
(* Starting a run *)

\* run_task is entered: it takes its run id and started_at.
StartRun(r, by) ==
    /\ pc[r] = "none" /\ \A q \in 1..(r - 1) : pc[q] # "none"
    /\ pc' = [pc EXCEPT ![r] = "resume"]
    /\ trigger' = [trigger EXCEPT ![r] = by]

\* scan_and_dispatch reads the enabled tasks.
ScanTasks ==
    /\ schedPc = "idle"
    /\ schedPc' = "scanned" /\ lastSeen' = lastRun
    /\ UNCHANGED <<rowVars, lastRun, target, pc, trigger, resume, loopVars,
                   outcome, nowEnd, inFlight, envVars>>

\* The bound MaxRuns is used up; the scheduler keeps scanning.
Exhausted == Started = RunId

\* The task is not due, or still in flight: the tick is skipped.
SkipTask ==
    /\ schedPc = "scanned"
    /\ ~IsDue(lastSeen, tick) \/ ~TryAcquire \/ Exhausted
    /\ schedPc' = "idle" /\ lastSeen' = NeverRan
    /\ UNCHANGED <<rowVars, lastRun, target, pc, trigger, resume, loopVars,
                   outcome, nowEnd, inFlight, envVars>>

\* The task is due and try_acquire succeeds: the run is spawned.
DispatchTask ==
    /\ schedPc = "scanned"
    /\ IsDue(lastSeen, tick) /\ TryAcquire
    /\ schedPc' = "idle" /\ lastSeen' = NeverRan
    /\ inFlight' = TRUE
    /\ \E r \in RunId : StartRun(r, "scheduler")
    /\ UNCHANGED <<rowVars, lastRun, target, resume, loopVars, outcome, nowEnd,
                   envVars>>

\* POST /api/tasks/:id/run spawns a run without consulting InFlightTasks.
RunTaskNow ==
    /\ ManualRuns
    /\ \E r \in RunId : StartRun(r, "manual")
    /\ UNCHANGED <<rowVars, lastRun, target, resume, loopVars, outcome, nowEnd,
                   schedVars, envVars>>

\* POST /api/tasks/:id/cancel
CancelTask ==
    /\ \E r \in Running : ~cancelReq[r]
    /\ cancelReq' = [r \in RunId |-> cancelReq[r] \/ r \in Running]
    /\ UNCHANGED <<status, dbCursor, dbProcessed, dbFailed, lastRun, target, pc,
                   trigger, resume, loopVars, outcome, nowEnd, schedVars, envVars>>

----------------------------------------------------------------------------
(* The steps of one run *)

Goto(r, l) == pc' = [pc EXCEPT ![r] = l]

\* run_task_inner returns o.
Return(r, o) == Goto(r, "finish") /\ outcome' = [outcome EXCEPT ![r] = o]

\* A read error of the control database means "start fresh".
ReadResumeCursor(r) ==
    /\ pc[r] = "resume"
    /\ \/ resume' = [resume EXCEPT ![r] = FindResumableCursor]
       \/ "control" \in Faults /\ UNCHANGED resume
    /\ Goto(r, "open")
    /\ UNCHANGED <<rowVars, lastRun, target, trigger, loopVars, outcome, nowEnd,
                   schedVars, envVars>>

\* INSERT of the running row; on error run_task returns at once.
OpenRunRow(r) ==
    /\ pc[r] = "open"
    /\ \/ status' = [status EXCEPT ![r] = "running"] /\ Goto(r, "prepare")
       \/ "control" \in Faults /\ Goto(r, "release") /\ UNCHANGED status
    /\ UNCHANGED <<dbCursor, dbProcessed, dbFailed, cancelReq, lastRun, target,
                   trigger, resume, loopVars, outcome, nowEnd, schedVars, envVars>>

\* Load the task, decrypt, connect and probe MIN/MAX.
PrepareRun(r) ==
    /\ pc[r] = "prepare"
    /\ \/ /\ Goto(r, "truncate")
          /\ cursor' = [cursor EXCEPT ![r] = Origin(r)]
          /\ UNCHANGED outcome
       \/ /\ Faults \cap {"control", "connect"} # {}
          /\ Return(r, "error")
          /\ UNCHANGED cursor
    /\ UNCHANGED <<rowVars, lastRun, target, trigger, resume, batch, attempt,
                   processed, failed, nowEnd, schedVars, envVars>>

\* maybe_truncate_*: an error of TRUNCATE is dropped.
MaybeTruncate(r) ==
    /\ pc[r] = "truncate"
    /\ \/ TruncatesTarget(r) /\ target' = [x \in Row |-> 0]
       \/ ~TruncatesTarget(r) /\ UNCHANGED target
       \/ "truncate" \in Faults /\ UNCHANGED target
    /\ Goto(r, "poll")
    /\ UNCHANGED <<rowVars, lastRun, trigger, resume, loopVars, outcome, nowEnd,
                   schedVars, envVars>>

\* check_cancel at the top of the batch loop.
PollCancel(r) ==
    /\ pc[r] = "poll"
    /\ \/ CancelSeen /\ Return(r, "canceled")
       \/ ~CancelSeen /\ Goto(r, "fetch") /\ UNCHANGED outcome
       \/ "control" \in Faults /\ Return(r, "error")
    /\ UNCHANGED <<rowVars, lastRun, target, trigger, resume, loopVars, nowEnd,
                   schedVars, envVars>>

\* The batch SELECT; an empty window moves the cursor on without any save.
FetchBatch(r) ==
    LET next == AdvanceCursor(cursor[r]) IN
    /\ pc[r] = "fetch"
    /\ \/ \E b \in SelectBatch(cursor[r], next) :
             \/ /\ b # {}
                /\ Goto(r, "insert")
                /\ batch' = [batch EXCEPT ![r] = b]
                /\ attempt' = [attempt EXCEPT ![r] = 1]
                /\ UNCHANGED <<cursor, outcome>>
             \/ /\ b = {} /\ CursorGt(next, MaxTime)
                /\ Return(r, "succeeded")
                /\ UNCHANGED <<cursor, batch, attempt>>
             \/ /\ b = {} /\ ~CursorGt(next, MaxTime)
                /\ Goto(r, "poll")
                /\ cursor' = [cursor EXCEPT ![r] = next]
                /\ UNCHANGED <<outcome, batch, attempt>>
       \/ /\ "fetch" \in Faults
          /\ Return(r, "error")
          /\ UNCHANGED <<cursor, batch, attempt>>
    /\ UNCHANGED <<rowVars, lastRun, target, trigger, resume, processed, failed,
                   nowEnd, schedVars, envVars>>

\* One attempt of retry_batch_insert that reports an error, whether or not the
\* target applied it.
InsertFails(r) ==
    /\ \/ "insert" \in Faults /\ UNCHANGED target
       \/ "lost_ack" \in Faults /\ target' = Written(batch[r])
    /\ UNCHANGED processed
    /\ IF attempt[r] = Attempts
       THEN /\ failed' = [failed EXCEPT ![r] = @ \cup batch[r]]
            /\ Goto(r, "progress")
            /\ UNCHANGED attempt
       ELSE /\ attempt' = [attempt EXCEPT ![r] = NextAttempt(@)]
            /\ UNCHANGED <<failed, pc>>

\* One attempt of retry_batch_insert.
InsertBatch(r) ==
    /\ pc[r] = "insert"
    /\ \/ /\ target' = Written(batch[r])
          /\ processed' = [processed EXCEPT ![r] = @ \cup batch[r]]
          /\ Goto(r, "progress")
          /\ UNCHANGED <<failed, attempt>>
       \/ InsertFails(r)
    /\ UNCHANGED <<rowVars, lastRun, trigger, resume, cursor, batch, outcome,
                   nowEnd, schedVars, envVars>>

\* update_progress writes the anchor of the batch just done to every running
\* row of the task; then the cursor moves on.
SaveProgress(r) ==
    LET next == AdvanceCursor(cursor[r]) IN
    /\ pc[r] = "progress"
    /\ \/ /\ dbCursor' = [q \in RunId |-> IF q \in Running THEN cursor[r] ELSE dbCursor[q]]
          /\ dbProcessed' = [q \in RunId |-> IF q \in Running THEN processed[r] ELSE dbProcessed[q]]
          /\ dbFailed' = [q \in RunId |-> IF q \in Running THEN failed[r] ELSE dbFailed[q]]
          /\ cursor' = [cursor EXCEPT ![r] = next]
          /\ batch' = [batch EXCEPT ![r] = {}]
          /\ \/ CursorGt(next, MaxTime) /\ Return(r, "succeeded")
             \/ ~CursorGt(next, MaxTime) /\ Goto(r, "poll") /\ UNCHANGED outcome
       \/ /\ "control" \in Faults
          /\ Return(r, "error")
          /\ UNCHANGED <<dbCursor, dbProcessed, dbFailed, cursor, batch>>
    /\ UNCHANGED <<status, cancelReq, lastRun, target, trigger, resume, attempt,
                   processed, failed, nowEnd, schedVars, envVars>>

\* The terminal status of the run's row; an error of the UPDATE is dropped.
FinishRunRow(r) ==
    /\ pc[r] = "finish"
    /\ nowEnd' = [nowEnd EXCEPT ![r] = tick]
    /\ \/ /\ status' = [status EXCEPT ![r] = TerminalStatus(outcome[r])]
          /\ dbProcessed' = [dbProcessed EXCEPT ![r] = FinalCounts(r)[1]]
          /\ dbFailed' = [dbFailed EXCEPT ![r] = FinalCounts(r)[2]]
       \/ "control" \in Faults /\ UNCHANGED <<status, dbProcessed, dbFailed>>
    /\ Goto(r, "task")
    /\ UNCHANGED <<dbCursor, cancelReq, lastRun, target, trigger, resume,
                   loopVars, outcome, schedVars, envVars>>

\* update_task_status; then the webhook when rows or the run failed.
UpdateTaskStatus(r) ==
    /\ pc[r] = "task"
    /\ \/ lastRun' = nowEnd[r]
       \/ "control" \in Faults /\ UNCHANGED lastRun
    /\ Goto(r, IF outcome[r] = "error" \/ failed[r] # {} THEN "notify" ELSE "release")
    /\ UNCHANGED <<rowVars, target, trigger, resume, loopVars, outcome, nowEnd,
                   schedVars, envVars>>

\* maybe_notify is best effort: whatever it returns, run_task goes on.
Notify(r) ==
    /\ pc[r] = "notify"
    /\ Goto(r, "release")
    /\ UNCHANGED <<rowVars, lastRun, target, trigger, resume, loopVars, outcome,
                   nowEnd, schedVars, envVars>>

\* The spawned future ends; the scheduler's wrapper releases the task id.
ReleaseTask(r) ==
    /\ pc[r] = "release"
    /\ Goto(r, "done")
    /\ inFlight' = (inFlight /\ ~Releases(r))
    /\ UNCHANGED <<rowVars, lastRun, target, trigger, resume, loopVars, outcome,
                   nowEnd, schedPc, lastSeen, envVars>>

RunStep(r) ==
    \/ ReadResumeCursor(r) \/ OpenRunRow(r) \/ PrepareRun(r) \/ MaybeTruncate(r)
    \/ PollCancel(r) \/ FetchBatch(r) \/ InsertBatch(r) \/ SaveProgress(r)
    \/ FinishRunRow(r) \/ UpdateTaskStatus(r) \/ Notify(r) \/ ReleaseTask(r)

----------------------------------------------------------------------------
(* The environment *)

CronTick ==
    /\ tick < MaxTicks
    /\ tick' = tick + 1
    /\ UNCHANGED <<rowVars, lastRun, target, pc, trigger, resume, loopVars,
                   outcome, nowEnd, schedVars, crashes>>

\* The process dies and is restarted: futures and InFlightTasks are gone, the
\* databases keep what was written.
Crash ==
    /\ crashes < MaxCrashes /\ Active # {}
    /\ crashes' = crashes + 1
    /\ pc' = [r \in RunId |-> IF r \in Active THEN "dead" ELSE pc[r]]
    /\ inFlight' = FALSE /\ schedPc' = "idle" /\ lastSeen' = NeverRan
    /\ UNCHANGED <<rowVars, lastRun, target, trigger, resume, loopVars, outcome,
                   nowEnd, tick>>

Init ==
    /\ status = [r \in RunId |-> "none"]
    /\ dbCursor = [r \in RunId |-> NoCursor]
    /\ dbProcessed = [r \in RunId |-> {}] /\ dbFailed = [r \in RunId |-> {}]
    /\ cancelReq = [r \in RunId |-> FALSE]
    /\ lastRun = NeverRan
    /\ target = [x \in Row |-> 0]
    /\ pc = [r \in RunId |-> "none"]
    /\ trigger = [r \in RunId |-> "none"]
    /\ resume = [r \in RunId |-> NoCursor]
    /\ cursor = [r \in RunId |-> NoCursor]
    /\ batch = [r \in RunId |-> {}] /\ attempt = [r \in RunId |-> 0]
    /\ processed = [r \in RunId |-> {}] /\ failed = [r \in RunId |-> {}]
    /\ outcome = [r \in RunId |-> "none"]
    /\ nowEnd = [r \in RunId |-> NeverRan]
    /\ inFlight = FALSE /\ schedPc = "idle" /\ lastSeen = NeverRan
    /\ tick = 0 /\ crashes = 0

Next ==
    \/ ScanTasks \/ SkipTask \/ DispatchTask \/ RunTaskNow \/ CancelTask
    \/ \E r \in RunId : RunStep(r)
    \/ CronTick \/ Crash

Spec == Init /\ [][Next]_vars

----------------------------------------------------------------------------
(* Type invariant *)

\* Every variable keeps the shape of the row or of the local it stands for.
TypeOK ==
    /\ status \in [RunId -> {"none", "running", "succeeded", "failed", "canceled"}]
    /\ dbCursor \in [RunId -> Cursor]
    /\ dbProcessed \in [RunId -> SUBSET Row] /\ dbFailed \in [RunId -> SUBSET Row]
    /\ cancelReq \in [RunId -> BOOLEAN]
    /\ lastRun \in Nat \cup {NeverRan}
    /\ target \in [Row -> Nat]
    /\ pc \in [RunId -> Live \cup {"none", "done", "dead"}]
    /\ trigger \in [RunId -> {"none", "scheduler", "manual"}]
    /\ resume \in [RunId -> Cursor] /\ cursor \in [RunId -> Cursor]
    /\ batch \in [RunId -> SUBSET Row] /\ attempt \in [RunId -> Nat]
    /\ processed \in [RunId -> SUBSET Row] /\ failed \in [RunId -> SUBSET Row]
    /\ outcome \in [RunId -> {"none", "succeeded", "canceled", "error"}]
    /\ nowEnd \in [RunId -> Nat \cup {NeverRan}]
    /\ inFlight \in BOOLEAN /\ schedPc \in {"idle", "scanned"}
    /\ lastSeen \in Nat \cup {NeverRan}
    /\ tick \in Nat /\ crashes \in Nat

----------------------------------------------------------------------------
(* Safety *)

\* Every source row from the configured start up to c is in the target, or some
\* run gave up on its batch and counted it in failed_rows.
Covered(c) ==
    \A x \in Window(StartAt, c) : target[x] > 0 \/ \E q \in RunId : x \in failed[q]

\* Wherever find_resumable_cursor would let the next run begin, no row before
\* that point is missing: crashes, cancellations, failed batches and runs that
\* write each other's rows in update_progress never make a resume skip rows.
ResumePointCovered ==
    FindResumableCursor # NoCursor => Covered(FindResumableCursor)

\* When the task's latest run says "succeeded", the target holds every source
\* row, apart from those whose batch exhausted its retries.
LatestSucceededComplete ==
    (Opened # {} /\ status[LatestOf(Opened)] = "succeeded") => Covered(MaxTime + 1)

\* A succeeded run's stored processed_rows and failed_rows account for every
\* source row from its starting cursor on, each exactly once, although other
\* runs of the task wrote their own counters into its row while it was running.
SucceededAccounting ==
    \A r \in RunId : status[r] = "succeeded" =>
        /\ dbProcessed[r] \cup dbFailed[r] = {x \in Row : Origin(r) <= TimeOf[x]}
        /\ dbProcessed[r] \cap dbFailed[r] = {}

\* InFlightTasks holds the task exactly while one scheduled run is between its
\* dispatch and its release, so two scheduled runs never overlap and no crash
\* or early return of run_task leaves the task locked out.
ScheduledRunsExclusive ==
    LET S == {r \in Active : trigger[r] = "scheduler"}
    IN  /\ inFlight <=> S # {}
        /\ \A q, r \in S : q = r

----------------------------------------------------------------------------
(* Action properties *)

\* What handler.rs says of POST /cancel: "the runner polls this between batches and
\* stops at the next batch boundary".  check_cancel does not poll the run's own row
\* but the latest running one, so a run started after the cancel hides the flag.
CancelStopsAtNextBatch ==
    [][\A r \in RunId : (pc[r] = "poll" /\ cancelReq[r]) => pc'[r] # "fetch"]_vars

\* The only way a flagged run takes another batch: a newer run of the task, begun
\* after the cancel, has a running row without the flag.  With crashed rows, lost
\* statements and overlapping runs nothing else hides a cancel from check_cancel.
CancelMissedOnlyBehindNewerRun ==
    [][\A r \in RunId : (pc[r] = "poll" /\ cancelReq[r] /\ pc'[r] = "fetch")
            => \E q \in Running : q > r /\ ~cancelReq[q]]_vars

\* TargetStrategy::Truncate is ignored by a run that resumes from a cursor: its
\* truncate step leaves the target alone.
ResumeKeepsTarget ==
    [][\A r \in RunId : (pc[r] = "truncate" /\ pc'[r] = "poll" /\ resume[r] # NoCursor)
            => target' = target]_vars

----------------------------------------------------------------------------
(* Liveness *)

\* Database and webhook calls return, so a spawned run keeps moving, and the
\* 60 s ticker keeps scanning.
Fairness ==
    /\ \A r \in RunId : WF_vars(RunStep(r))
    /\ WF_vars(ScanTasks) /\ WF_vars(SkipTask) /\ WF_vars(DispatchTask)

FairSpec == Spec /\ Fairness

\* Every run that starts ends: it reaches its terminal status and releases the
\* task, or it dies with the process.
RunTerminates ==
    \A r \in RunId : pc[r] \in Live ~> pc[r] \in {"done", "dead"}

\* A task that is due is picked up by the scheduler, whatever runs were canceled,
\* failed or crashed before, unless another run makes it not due first.
DueTaskRuns ==
    IsDue(lastRun, tick) ~>
        \/ \E r \in Active : trigger[r] = "scheduler"
        \/ ~IsDue(lastRun, tick) \/ Exhausted


=============================================================================
