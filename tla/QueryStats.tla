----------------------------- MODULE QueryStats -----------------------------
(***************************************************************************)
(* The slow-query table query_stats and what the server does with it: the  *)
(* recorder behind every query entry point                                 *)
(* (crates/automation/src/query_stats.rs) with its per-digest cap          *)
(* (crates/core/src/auth/rate_limiter.rs), the hourly retention job, and   *)
(* the weekly report (crates/automation/src/report_writer.rs), generated   *)
(* by an hourly ticker and by POST /api/reports/generate.                  *)
(*                                                                         *)
(* One unit of time is one tick of the hourly jobs.  NativeCollector adds  *)
(* the job that copies the databases' own slow logs into the same table.   *)
(***************************************************************************)
EXTENDS Naturals, FiniteSets, FiniteSetsExt

CONSTANTS
    Statement,    \* slow statements clients send: [shape, literals]
    Cap,          \* slow_query_cap_per_digest_per_hour
    Week,         \* WINDOW_DAYS
    Retention,    \* slow_query_retention_days
    Jobs,         \* which jobs are at work, one set of them per behaviour
    MaxTime,      \* bound: time
    MaxQueries,   \* bound: slow statements recorded
    MaxReports,   \* bound: reports generated
    MaxFaults,    \* bound: failing operations and crashes
    Faults        \* what may fail

ASSUME QueryStatsAssumption ==
    /\ Cap \in Nat \ {0} /\ Week \in Nat \ {0} /\ Retention \in Nat \ {0}
    /\ MaxTime \in Nat /\ MaxQueries \in Nat /\ MaxReports \in Nat /\ MaxFaults \in Nat

Caller == {"ticker", "manual"}   \* who calls generate_slow_query_report

VARIABLES
    \* the control database
    stats,        \* query_stats: a set of [id, source, key, count, at]
    inserted,     \* rows ever inserted
    reports,      \* reports of type slow_query_weekly
    \* the server process
    window,       \* SlidingWindowLimiter: admissions of each digest in the last hour
    spawned,      \* INSERTs spawned by record and not yet done
    gpc,          \* where each caller of generate is
    gnow, gtotal, \* its now and its totals
    \* the environment
    now, jobs, queries, faults,
    excused,      \* history: keys whose absence from the table has a cause
    crossed       \* history: a generate read the latest report while another one was at work

statsVars  == <<stats, inserted, excused>>
serverVars == <<window, spawned>>
reportVars == <<reports, gpc, gnow, gtotal, crossed>>
envVars    == <<now, jobs, queries>>
qsVars     == <<statsVars, serverVars, reportVars, envVars, faults>>

Fault(k) == k \in Faults /\ faults < MaxFaults /\ faults' = faults + 1

\* t - d in a time that starts at 0.
Before(t, d) == IF t >= d THEN t - d ELSE 0

\* INSERT INTO query_stats: the row gets an id of its own (uuid) and the time.
InsertRow(source, key, n) ==
    /\ stats' = stats \cup {[id |-> inserted, source |-> source, key |-> key,
                             count |-> n, at |-> now]}
    /\ inserted' = inserted + 1

----------------------------------------------------------------------------
(* The recorder *)

\* normalize_digest: literals are replaced by '?', the shape stays.
DigestOf(q) == q.shape

\* check_and_record under the cap of the digest.
Admits(d) == window[d] < Cap

\* record and record_stream do nothing until init has installed the recorder.
Recording == "gateway" \in jobs

\* record: an admitted statement spawns its INSERT, the others are counted as
\* dropped.
RecordQuery(q) ==
    /\ Recording /\ queries < MaxQueries
    /\ queries' = queries + 1
    /\ LET d == DigestOf(q) IN
       \/ /\ Admits(d)
          /\ window' = [window EXCEPT ![d] = @ + 1]
          /\ spawned' = spawned \cup {[digest |-> d, n |-> queries]}
       \/ ~Admits(d) /\ UNCHANGED serverVars
    /\ UNCHANGED <<statsVars, reportVars, now, jobs, faults>>

\* The spawned task: the row is inserted, or dropped when its connection is gone
\* or the INSERT fails.
InsertSample(p) ==
    /\ p \in spawned
    /\ spawned' = spawned \ {p}
    /\ \/ InsertRow("gateway", p.digest, 1) /\ UNCHANGED faults
       \/ Fault("insert") /\ UNCHANGED <<stats, inserted>>
    /\ UNCHANGED <<excused, window, reportVars, envVars>>

\* DELETE ... WHERE captured_at < now - retention, compared as text, so that rows of
\* the same day stay.
Rotate ==
    /\ "rotate" \in jobs
    /\ LET old == {s \in stats : s.at + Retention < now} IN
       /\ old # {}
       /\ stats' = stats \ old
       /\ excused' = excused \cup {[source |-> s.source, key |-> s.key] : s \in old}
    /\ UNCHANGED <<inserted, serverVars, reportVars, envVars, faults>>

----------------------------------------------------------------------------
(* The weekly report *)

Latest == CHOOSE r \in reports : \A q \in reports : q.gen <= r.gen

\* The ticker's due check: no report and a sample in the window, or a report as old
\* as the window.
Due ==
    IF reports = {} THEN \E s \in stats : s.at >= Before(now, Week)
    ELSE Latest.gen + Week <= now

\* Mutant: the report of the current window is not looked for.
ReusesNever(t) == FALSE

\* Mutant: a report exactly as old as the window is reused.
ReusesAtBoundary(t) == reports # {} /\ Latest.gen + Week >= t

\* A report younger than the window is reused.
Reuses(t) == reports # {} /\ Latest.gen + Week > t

Generating == {c \in Caller : gpc[c] \in {"total", "insert"}}

\* The hourly tick finds a report due and calls generate.
TickReports ==
    /\ "reports" \in jobs
    /\ gpc["ticker"] = "idle" /\ Due
    /\ gpc' = [gpc EXCEPT !["ticker"] = "check"]
    /\ gnow' = [gnow EXCEPT !["ticker"] = now]
    /\ UNCHANGED <<statsVars, serverVars, reports, gtotal, crossed, envVars, faults>>

\* POST /api/reports/generate; there is no data threshold here.
GenerateReport ==
    /\ "reports" \in jobs /\ Cardinality(reports) < MaxReports
    /\ gpc["manual"] = "idle"
    /\ gpc' = [gpc EXCEPT !["manual"] = "check"]
    /\ gnow' = [gnow EXCEPT !["manual"] = now]
    /\ UNCHANGED <<statsVars, serverVars, reports, gtotal, crossed, envVars, faults>>

GoTo(c, l) == gpc' = [gpc EXCEPT ![c] = l]

\* The call returns and its locals are gone.
Leave(c) ==
    /\ GoTo(c, "idle")
    /\ gnow' = [gnow EXCEPT ![c] = 0] /\ gtotal' = [gtotal EXCEPT ![c] = {}]

\* The latest report is read and reused, or the generation goes on; an error returns.
CheckLatest(c) ==
    /\ gpc[c] = "check"
    /\ \/ Reuses(gnow[c]) /\ Leave(c) /\ UNCHANGED <<crossed, faults>>
       \/ /\ ~Reuses(gnow[c]) /\ GoTo(c, "total")
          /\ crossed' = (crossed \/ Generating # {})
          /\ UNCHANGED <<gnow, gtotal, faults>>
       \/ Fault("report") /\ Leave(c) /\ UNCHANGED crossed
    /\ UNCHANGED <<statsVars, serverVars, reports, envVars>>

\* The window starts at now - 7 days, or at the oldest sample if that is later.
WindowFrom(c) ==
    LET from == Before(gnow[c], Week)
        ats  == {s.at : s \in stats}
    IN  IF ats # {} /\ Min(ats) > from THEN Min(ats) ELSE from

\* Totals, previous window, top digests and the two distributions: aggregates of
\* captured_at >= from, without an upper bound.
Aggregate(c) ==
    /\ gpc[c] = "total"
    /\ \/ /\ gtotal' = [gtotal EXCEPT ![c] = {s.id : s \in {x \in stats : x.at >= WindowFrom(c)}}]
          /\ GoTo(c, "insert") /\ UNCHANGED <<gnow, faults>>
       \/ Fault("report") /\ Leave(c)
    /\ UNCHANGED <<statsVars, serverVars, reports, crossed, envVars>>

\* INSERT INTO reports with generated_at = now of the call.
InsertReport(c) ==
    /\ gpc[c] = "insert"
    /\ \/ /\ reports' = reports \cup {[by |-> c, gen |-> gnow[c], samples |-> gtotal[c]]}
          /\ UNCHANGED faults
       \/ Fault("report") /\ UNCHANGED reports
    /\ Leave(c)
    /\ UNCHANGED <<statsVars, serverVars, crossed, envVars>>

GenerateStep(c) == CheckLatest(c) \/ Aggregate(c) \/ InsertReport(c)

----------------------------------------------------------------------------
(* The environment *)

\* Time matters to the table's own jobs only.
Tick ==
    /\ now < MaxTime /\ "rotate" \in jobs
    /\ now' = now + 1
    /\ window' = [d \in DOMAIN window |-> 0]
    /\ UNCHANGED <<statsVars, spawned, reportVars, jobs, queries, faults>>

\* What dies with the process: windows, spawned INSERTs and running generations.
ProcessDies ==
    /\ Fault("crash")
    /\ window' = [d \in DOMAIN window |-> 0] /\ spawned' = {}
    /\ gpc' = [c \in Caller |-> "idle"] /\ gnow' = [c \in Caller |-> 0]
    /\ gtotal' = [c \in Caller |-> {}]
    /\ UNCHANGED <<statsVars, reports, crossed, envVars>>

StatsInit ==
    /\ stats = {} /\ inserted = 0 /\ reports = {} /\ spawned = {} /\ excused = {} /\ crossed = FALSE
    /\ window = [d \in {DigestOf(q) : q \in Statement} |-> 0]
    /\ gpc = [c \in Caller |-> "idle"] /\ gnow = [c \in Caller |-> 0]
    /\ gtotal = [c \in Caller |-> {}]
    /\ now = 0 /\ queries = 0 /\ faults = 0 /\ jobs \in Jobs

StatsNext ==
    \/ \E q \in Statement : RecordQuery(q)
    \/ \E p \in spawned : InsertSample(p)
    \/ Rotate \/ TickReports \/ GenerateReport
    \/ \E c \in Caller : GenerateStep(c)
    \/ Tick

\* The ticker is polled and the control database answers.
StatsFairness ==
    /\ WF_qsVars(TickReports)
    /\ \A c \in Caller : WF_qsVars(GenerateStep(c))

----------------------------------------------------------------------------
(* Properties *)

\* Unless two generations were at work at the same time, any two reports are at
\* least a window apart, and a sample is counted in both only if it was captured
\* when the first one was being written.
ReportsDisjoint ==
    ~crossed => \A r, q \in reports : (r # q /\ r.gen <= q.gen) =>
        /\ r.gen + Week <= q.gen
        /\ \A s \in stats : s.id \in r.samples \cap q.samples => s.at >= r.gen

\* A report that is due is generated: the hourly ticker retries after every error,
\* and after a restart.
DueReported == ("reports" \in jobs /\ Due) ~> ~Due

=============================================================================
