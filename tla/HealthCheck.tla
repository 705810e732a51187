---------------------------- MODULE HealthCheck -----------------------------
(***************************************************************************)
(* One health_check task: the cron scheduler                               *)
(* (crates/health_check/src/scheduler.rs), the manual trigger, the runner  *)
(* (runner.rs), the alert state machine over health_alert_state (alert.rs) *)
(* and the webhook (notify.rs).                                            *)
(*                                                                         *)
(* A run is identified by its trigger: InFlightTasks lets one scheduled    *)
(* run exist at a time, and one manual run at a time is a bound.  Runs     *)
(* repeat without bound.  A threshold metric is sampled as failing or not; *)
(* missing_pk is sampled as the set of tables without a primary key.       *)
(***************************************************************************)
EXTENDS Naturals, Sequences

CONSTANTS
    Order,        \* the threshold metrics as evaluate_all visits them, connectivity first
    Table,        \* tables that may lose their primary key
    Threshold,    \* config.fail_threshold, within 1..10
    Configs,      \* the tasks considered: [supported, url] (db_type has a collector; a webhook)
    MaxChanges,   \* bound: changes of the source
    MaxFaults,    \* bound: manual runs, failing operations and crashes together
    FaultKinds    \* which of them may happen

Metric == {Order[i] : i \in DOMAIN Order}
Subject == Metric \cup Table

ASSUME ConstAssumption ==
    /\ Order \in Seq(Metric) /\ Len(Order) > 0 /\ Order[1] = "connectivity"
    /\ Metric \cap Table = {} /\ "missing_pk" \notin Metric
    /\ Threshold \in 1..10
    /\ Configs \subseteq [supported : BOOLEAN, url : BOOLEAN]
    /\ MaxChanges \in Nat /\ MaxFaults \in Nat
    /\ FaultKinds \subseteq {"history", "prepare", "collect", "load", "persist", "webhook",
                             "lost_ack", "result", "finish", "crash", "manual"}

Trigger == {"scheduler", "manual"}
NoBaseline == [known |-> FALSE, tables |-> {}]
Steps == Append(Order, "missing_pk")
NoSample == [bad |-> {}, nopk |-> {}, got |-> {}]

VARIABLES
    \* the source and the webhook receiver
    up, bad, nopk, \* reachable; metrics over their threshold; tables without a key
    heard,         \* subjects the receiver believes to be in alarm
    \* the control database
    alert,         \* health_alert_state of the threshold metrics: [state, count]
    baseline,      \* detail.last_missing of missing_pk
    result,        \* status of the newest health_check_results row
    lastStatus,    \* scheduled_tasks.last_status
    due,           \* a cron tick lies between last_run_at and now
    \* the server process
    pc,            \* where the run of each trigger is
    sample,        \* its MetricsSnapshot: failing metrics, key-less tables, what was collected
    at,            \* the step of evaluate_all
    prior,         \* what load_metric_state returned for it
    queue,         \* AlertChanges still to deliver
    outcome,       \* what run_task_inner returned
    inFlight,      \* InFlightTasks
    scanned,       \* the scan found the task due
    \* the environment and history
    config,        \* the task considered
    changed, faults,
    streak,        \* consecutive failing samples of each metric, up to Needed
    silent,        \* tables of the first baseline, never announced
    lost           \* subjects of which an event, a count or a baseline was lost

source  == <<up, bad, nopk, changed>>
stored  == <<alert, baseline, streak, silent>>
task    == <<result, lastStatus, due>>
sched   == <<inFlight, scanned>>
vars == <<source, heard, stored, task, pc, sample, at, prior, queue, outcome, sched,
          config, faults, lost>>

Live == {"open", "prepare", "collect", "load", "persist", "deliver", "store", "finish", "release"}
Active == {r \in Trigger : pc[r] \in Live}

Goto(r, l) == pc' = [pc EXCEPT ![r] = l]
Fault(k) == k \in FaultKinds /\ faults < MaxFaults /\ faults' = faults + 1
NoFault == UNCHANGED faults
Return(r, o) == Goto(r, "finish") /\ outcome' = [outcome EXCEPT ![r] = o]
Lose(S) == lost' = lost \cup S

----------------------------------------------------------------------------
(* alert.rs *)

NoRow == [state |-> "none", count |-> 0]
Row(s, n) == [state |-> s, count |-> n]

\* Mutant: one failing sample too many.
ReachedLate(n) == n > Threshold

Reached(n) == n >= Threshold

\* The failing samples an alert takes: the first one only starts the count, so a
\* threshold of 1 works as 2.
Needed == IF Threshold = 1 THEN 2 ELSE Threshold

\* evaluate_threshold_metric: the new row.
NextRow(p, failing) ==
    IF ~failing THEN Row("ok", 0)
    ELSE CASE p.state \in {"none", "ok"} -> Row("failing", 1)
           [] p.state = "failing"  -> IF Reached(p.count + 1) THEN Row("alerting", 0)
                                      ELSE Row("failing", p.count + 1)
           [] p.state = "alerting" -> p

\* ... and the AlertChange: on entering and on leaving alerting.
ThresholdChange(m, p, n) ==
    IF p.state # "alerting" /\ n.state = "alerting"
    THEN {[subject |-> m, trigger |-> "alert"]}
    ELSE IF p.state = "alerting" /\ n.state = "ok"
         THEN {[subject |-> m, trigger |-> "resolved"]} ELSE {}

\* Mutant: only new tables are reported.
MissingPkAlertsOnly(p, current) ==
    IF ~p.known THEN {}
    ELSE {[subject |-> t, trigger |-> "alert"] : t \in current \ p.tables}

\* evaluate_missing_pk: set difference with the baseline, silent on the first run.
MissingPkChanges(p, current) ==
    IF ~p.known THEN {}
    ELSE {[subject |-> t, trigger |-> "alert"] : t \in current \ p.tables}
         \cup {[subject |-> t, trigger |-> "resolved"] : t \in p.tables \ current}

Subjects(changes) == {c.subject : c \in changes}

----------------------------------------------------------------------------
(* Scheduler and manual trigger *)

StartRun(r) ==
    /\ pc[r] = "idle"
    /\ Goto(r, "open")
    /\ lost' = IF Active = {} THEN lost ELSE Subject

ScanTasks ==
    /\ ~scanned /\ due
    /\ scanned' = TRUE
    /\ UNCHANGED <<source, heard, stored, task, pc, sample, at, prior, queue, outcome,
                   inFlight, config, faults, lost>>

\* try_acquire fails: the tick is skipped.
SkipTask ==
    /\ scanned /\ inFlight
    /\ scanned' = FALSE
    /\ UNCHANGED <<source, heard, stored, task, pc, sample, at, prior, queue, outcome,
                   inFlight, config, faults, lost>>

DispatchTask ==
    /\ scanned /\ ~inFlight
    /\ scanned' = FALSE /\ inFlight' = TRUE
    /\ StartRun("scheduler")
    /\ UNCHANGED <<source, heard, stored, task, sample, at, prior, queue, outcome, config, faults>>

\* POST /api/tasks/:id/run
RunTaskNow ==
    /\ Fault("manual")
    /\ StartRun("manual")
    /\ UNCHANGED <<source, heard, stored, task, sample, at, prior, queue, outcome, sched, config>>

----------------------------------------------------------------------------
(* The run *)

\* INSERT of the history row; on its error run_task returns at once.
OpenRun(r) ==
    /\ pc[r] = "open"
    /\ \/ Goto(r, "prepare") /\ NoFault
       \/ Goto(r, "release") /\ Fault("history")
    /\ UNCHANGED <<source, heard, stored, task, sample, at, prior, queue, outcome, sched, config, lost>>

\* Load, decrypt, connect, canary.  An unreachable source ends the run here; a
\* db_type without collector goes to its result with everything unsupported.
PrepareRun(r) ==
    /\ pc[r] = "prepare"
    /\ \/ config.supported /\ up /\ Goto(r, "collect") /\ NoFault /\ UNCHANGED outcome
       \/ config.supported /\ ~up /\ Return(r, "error") /\ NoFault
       \/ ~config.supported /\ Goto(r, "store") /\ NoFault /\ UNCHANGED outcome
       \/ Return(r, "error") /\ Fault("prepare")
    /\ UNCHANGED <<source, heard, stored, task, sample, at, prior, queue, sched, config, lost>>

\* What the collectors deliver for the metrics in got.  A source that went away
\* fails the connectivity probe and every other query.
Snapshot(got) ==
    IF ~up THEN [bad |-> {"connectivity"}, nopk |-> {}, got |-> {"connectivity"}]
    ELSE [bad |-> bad \cap got, nopk |-> nopk, got |-> got]

AllMetrics == Metric \cup {"missing_pk"}

Collect(r) ==
    /\ pc[r] = "collect"
    /\ \/ sample' = [sample EXCEPT ![r] = Snapshot(AllMetrics)] /\ NoFault
       \/ \E m \in AllMetrics \ {"connectivity"} :
             up /\ Fault("collect") /\ sample' = [sample EXCEPT ![r] = Snapshot(AllMetrics \ {m})]
    /\ Goto(r, "load")
    /\ at' = [at EXCEPT ![r] = 1]
    /\ UNCHANGED <<source, heard, stored, task, prior, queue, outcome, sched, config, lost>>

\* evaluate_all has nothing left to evaluate for this run from step i on.
Remaining(r, i) == {j \in i..Len(Steps) : Steps[j] \in sample[r].got}
Continue(r, i) ==
    IF Remaining(r, i) = {}
    THEN Goto(r, "deliver") /\ UNCHANGED at
    ELSE /\ Goto(r, "load")
         /\ at' = [at EXCEPT ![r] = CHOOSE j \in Remaining(r, i) : \A k \in Remaining(r, i) : j <= k]

\* Mutant: the row of another metric is read, which is never found.
StoredRowOther(m) == IF m = "missing_pk" THEN baseline ELSE NoRow

StoredRow(m) == IF m = "missing_pk" THEN baseline ELSE alert[m]
EmptyRow(m)  == IF m = "missing_pk" THEN NoBaseline ELSE NoRow
SubjectsOf(m) == IF m = "missing_pk" THEN Table ELSE {m}

\* load_metric_state(..).ok().flatten(): an error looks like a first run.
LoadState(r) ==
    LET m == Steps[at[r]]
    IN  /\ pc[r] = "load"
        /\ \/ prior' = [prior EXCEPT ![r] = StoredRow(m)] /\ NoFault /\ UNCHANGED lost
           \/ prior' = [prior EXCEPT ![r] = EmptyRow(m)] /\ Fault("load") /\ Lose(SubjectsOf(m))
        /\ Goto(r, "persist")
        /\ UNCHANGED <<source, heard, stored, task, sample, at, queue, outcome, sched, config>>

Streak(m, failing) ==
    IF ~failing THEN 0 ELSE IF streak[m] < Needed THEN streak[m] + 1 ELSE Needed

\* Evaluate and persist one threshold metric; an error of persist_metric_state is
\* logged, the change is reported all the same.
PersistMetric(r) ==
    LET m == Steps[at[r]]
        failing == m \in sample[r].bad
        new == NextRow(prior[r], failing)
    IN  /\ pc[r] = "persist" /\ m # "missing_pk"
        /\ \/ alert' = [alert EXCEPT ![m] = new] /\ NoFault /\ UNCHANGED lost
           \/ UNCHANGED alert /\ Fault("persist") /\ Lose({m})
        /\ streak' = [streak EXCEPT ![m] = Streak(m, failing)]
        /\ queue' = [queue EXCEPT ![r] = @ \cup ThresholdChange(m, prior[r], new)]
        /\ prior' = [prior EXCEPT ![r] = NoRow]
        /\ Continue(r, at[r] + 1)
        /\ UNCHANGED <<source, heard, baseline, silent, task, sample, outcome, sched, config>>

\* The persisted set is always the current one.
PersistMissingPk(r) ==
    LET current == sample[r].nopk
        events  == MissingPkChanges(prior[r], current)
    IN  /\ pc[r] = "persist" /\ Steps[at[r]] = "missing_pk"
        /\ \/ baseline' = [known |-> TRUE, tables |-> current] /\ NoFault /\ UNCHANGED lost
           \/ UNCHANGED baseline /\ Fault("persist") /\ Lose(Table)
        /\ silent' = IF ~prior[r].known THEN current ELSE silent \ Subjects(events)
        /\ queue' = [queue EXCEPT ![r] = @ \cup events]
        /\ prior' = [prior EXCEPT ![r] = NoRow]
        /\ Continue(r, at[r] + 1)
        /\ UNCHANGED <<source, heard, alert, streak, task, sample, outcome, sched, config>>

\* What the receiver believes after it has read c.
Hears(c) == IF c.trigger = "alert" THEN heard \cup {c.subject} ELSE heard \ {c.subject}

\* deliver, with its retries, of one change: delivered, not delivered, or
\* delivered with the answer lost.  A failure only marks webhook_status.
DeliverChange(r) ==
    /\ pc[r] = "deliver" /\ config.url
    /\ \E c \in queue[r] :
          /\ queue' = [queue EXCEPT ![r] = @ \ {c}]
          /\ \/ heard' = Hears(c) /\ NoFault /\ UNCHANGED lost
             \/ heard' = Hears(c) /\ Fault("lost_ack") /\ UNCHANGED lost
             \/ UNCHANGED heard /\ Fault("webhook") /\ Lose({c.subject})
    /\ UNCHANGED <<source, stored, task, pc, sample, at, prior, outcome, sched, config>>

\* Nothing to deliver, or nowhere to deliver it ("skipped").
Delivered(r) ==
    /\ pc[r] = "deliver" /\ (queue[r] = {} \/ ~config.url)
    /\ queue' = [queue EXCEPT ![r] = {}]
    /\ Lose(Subjects(queue[r]))
    /\ Goto(r, "store")
    /\ UNCHANGED <<source, heard, stored, task, sample, at, prior, outcome, sched, config, faults>>

RunStatus(r) == IF sample[r].got = AllMetrics THEN "success" ELSE "partial"

\* INSERT of the health_check_results row, then rotation of the expired ones.
StoreResult(r) ==
    /\ pc[r] = "store"
    /\ \/ result' = RunStatus(r) /\ Return(r, "ok") /\ NoFault
       \/ UNCHANGED result /\ Return(r, "error") /\ Fault("result")
    /\ UNCHANGED <<source, heard, stored, lastStatus, due, sample, at, prior, queue, sched, config, lost>>

\* Mutant: a failed run leaves no results row.
ResultAfterSilent(r) == result

\* insert_failed_result
ResultAfter(r) == IF outcome[r] = "error" THEN "failed" ELSE result

\* Terminal history row, the failed run's results row, and last_run_at; the
\* errors of all three are dropped.
FinishRun(r) ==
    /\ pc[r] = "finish"
    /\ \/ /\ result' = ResultAfter(r)
          /\ lastStatus' = (IF outcome[r] = "ok" THEN "succeeded" ELSE "failed")
          /\ due' = FALSE /\ NoFault
       \/ UNCHANGED <<result, lastStatus, due>> /\ Fault("finish")
    /\ Goto(r, "release")
    /\ UNCHANGED <<source, heard, stored, sample, at, prior, queue, outcome, sched, config, lost>>

\* run_task returns; the scheduler's wrapper releases the task.
ReleaseTask(r) ==
    /\ pc[r] = "release"
    /\ Goto(r, "idle")
    /\ inFlight' = (inFlight /\ r # "scheduler")
    /\ sample' = [sample EXCEPT ![r] = NoSample]
    /\ at' = [at EXCEPT ![r] = 1]
    /\ outcome' = [outcome EXCEPT ![r] = "none"]
    /\ UNCHANGED <<source, heard, stored, task, prior, queue, scanned, config, faults, lost>>

RunStep(r) ==
    \/ OpenRun(r) \/ PrepareRun(r) \/ Collect(r) \/ LoadState(r) \/ PersistMetric(r)
    \/ PersistMissingPk(r) \/ DeliverChange(r) \/ Delivered(r) \/ StoreResult(r)
    \/ FinishRun(r) \/ ReleaseTask(r)

----------------------------------------------------------------------------
(* The environment *)

CronTick ==
    /\ ~due /\ due' = TRUE
    /\ UNCHANGED <<source, heard, stored, result, lastStatus, pc, sample, at, prior, queue,
                   outcome, sched, config, faults, lost>>

\* The source goes away or comes back, a metric crosses its threshold, a table
\* loses or regains its primary key.
SourceChange ==
    /\ changed < MaxChanges
    /\ changed' = changed + 1
    /\ \/ up' = ~up /\ UNCHANGED <<bad, nopk>>
       \/ \E m \in Metric \ {"connectivity"} :
             bad' = (IF m \in bad THEN bad \ {m} ELSE bad \cup {m}) /\ UNCHANGED <<up, nopk>>
       \/ \E t \in Table :
             nopk' = (IF t \in nopk THEN nopk \ {t} ELSE nopk \cup {t}) /\ UNCHANGED <<up, bad>>
    /\ UNCHANGED <<heard, stored, task, pc, sample, at, prior, queue, outcome, sched,
                   config, faults, lost>>

\* The process dies and is restarted.
Crash ==
    /\ Active # {} /\ Fault("crash")
    /\ Lose(UNION {Subjects(queue[r]) : r \in Active})
    /\ pc' = [r \in Trigger |-> "idle"] /\ sample' = [r \in Trigger |-> NoSample]
    /\ at' = [r \in Trigger |-> 1] /\ prior' = [r \in Trigger |-> NoRow]
    /\ queue' = [r \in Trigger |-> {}] /\ outcome' = [r \in Trigger |-> "none"]
    /\ inFlight' = FALSE /\ scanned' = FALSE
    /\ UNCHANGED <<source, heard, stored, task, config>>

Init ==
    /\ up = TRUE /\ bad = {} /\ nopk \in SUBSET Table /\ heard = {}
    /\ alert = [m \in Metric |-> NoRow] /\ baseline = NoBaseline
    /\ result = "none" /\ lastStatus = "none" /\ due = TRUE
    /\ pc = [r \in Trigger |-> "idle"] /\ sample = [r \in Trigger |-> NoSample]
    /\ at = [r \in Trigger |-> 1] /\ prior = [r \in Trigger |-> NoRow]
    /\ queue = [r \in Trigger |-> {}] /\ outcome = [r \in Trigger |-> "none"]
    /\ inFlight = FALSE /\ scanned = FALSE
    /\ config \in Configs
    /\ changed = 0 /\ faults = 0
    /\ streak = [m \in Metric |-> 0] /\ silent = {} /\ lost = {}

Next ==
    \/ ScanTasks \/ SkipTask \/ DispatchTask \/ RunTaskNow
    \/ \E r \in Trigger : RunStep(r)
    \/ CronTick \/ SourceChange \/ Crash

Spec == Init /\ [][Next]_vars

----------------------------------------------------------------------------
(* Type invariant *)

AlertRow == [state : {"none", "ok", "failing", "alerting"}, count : 0..Threshold]

\* health_alert_state holds what alert.rs can write: a count of at most the threshold
\* while failing, 0 otherwise.
TypeOK ==
    /\ up \in BOOLEAN /\ bad \subseteq Metric /\ nopk \subseteq Table /\ heard \subseteq Subject
    /\ alert \in [Metric -> AlertRow]
    /\ \A m \in Metric : alert[m].state # "failing" => alert[m].count = 0
    /\ baseline \in [known : BOOLEAN, tables : SUBSET Table]
    /\ result \in {"none", "success", "partial", "failed"}
    /\ lastStatus \in {"none", "succeeded", "failed"}
    /\ pc \in [Trigger -> Live \cup {"idle"}] /\ at \in [Trigger -> 1..Len(Steps)]
    /\ \A r \in Trigger : queue[r] \subseteq [subject : Subject, trigger : {"alert", "resolved"}]
    /\ due \in BOOLEAN /\ inFlight \in BOOLEAN /\ scanned \in BOOLEAN
    /\ streak \in [Metric -> 0..Needed]
    /\ silent \subseteq Table /\ lost \subseteq Subject

----------------------------------------------------------------------------
(* Safety *)

\* "Failing -> Alerting fires only after fail_threshold consecutive failing
\* samples, and a single passing sample resets to Ok": where no run overlapped
\* and no load or persist failed, the stored row is exactly the streak of failing
\* samples, across runs, restarts, runs that die in the middle of evaluate_all and
\* runs in which the metric was not collected.  (A fail_threshold of 1, which the
\* config calls "no flap suppression", takes two samples like 2.)
AlertAfterThreshold ==
    \A m \in Metric \ lost :
        /\ streak[m] = 0 => alert[m].state \in {"none", "ok"}
        /\ streak[m] \in 1..(Needed - 1) => alert[m] = Row("failing", streak[m])
        /\ streak[m] = Needed => alert[m].state = "alerting"

\* The receiver's picture: once nothing about a subject is left in a queue, the
\* receiver holds it to be in alarm exactly if the control database does, unless
\* it never had to be told (the first baseline) or an event was lost (no URL, all
\* attempts failed, crash before delivery, overlapping runs, a failed load or persist).
Pending == UNION {Subjects(queue[r]) : r \in Trigger}
InAlarm(x) ==
    IF x \in Metric THEN alert[x].state = "alerting" ELSE x \in baseline.tables
ReceiverPicture ==
    \A x \in Subject \ (lost \cup Pending) : InAlarm(x) <=> x \in heard \cup silent

\* "A failed run must still be visible in health history": the newest results row
\* tells of the task's last status, as long as no statement on the control
\* database failed, no run overlapped another and none was cut off by a crash.
FailureVisible ==
    (faults = 0 /\ pc["scheduler"] = "idle") =>
        /\ lastStatus = "failed" <=> result = "failed"
        /\ lastStatus = "succeeded" <=> result \in {"success", "partial"}

----------------------------------------------------------------------------
(* Liveness *)

\* The 60 s ticker keeps scanning, time reaches the next cron tick, and database
\* and webhook calls return.
Fairness ==
    /\ \A r \in Trigger : WF_vars(RunStep(r))
    /\ WF_vars(ScanTasks) /\ WF_vars(SkipTask) /\ WF_vars(DispatchTask) /\ WF_vars(CronTick)

FairSpec == Spec /\ Fairness

\* Whatever overlaps, crashes and failures came before: when a metric of a
\* reachable source stays as it is, its stored row converges to alerting or to ok.
AlertConverges ==
    \A m \in Metric \ {"connectivity"} :
        /\ <>[](config.supported /\ up /\ m \in bad) => <>[](alert[m].state = "alerting")
        /\ <>[](config.supported /\ up /\ m \notin bad) => <>[](alert[m].state = "ok")

\* connectivity is 'critical (connectivity down)': a source that stays
\* unreachable raises its alert.
OutageAlerts ==
    <>[](config.supported /\ ~up) => <>(alert["connectivity"].state = "alerting")

=============================================================================
