-------------------------- MODULE NativeCollector ---------------------------
(***************************************************************************)
(* The native slow-log collector                                           *)
(* (crates/automation/src/native_collector.rs) beside the jobs of          *)
(* QueryStats: once an hour it visits the registered Redis and MySQL       *)
(* connections one after the other and copies what their own logs have     *)
(* seen into query_stats.  Redis: SLOWLOG GET, newest first, cursor = the  *)
(* largest id.  MySQL: mysql.slow_log after the cursor, or, while the slow *)
(* log is off, the growth of the performance_schema digest counters since  *)
(* the stored snapshot.                                                    *)
(*                                                                         *)
(* A Redis or slow-log event is a number; the digests of MySQL statements  *)
(* are the shapes of Statement.                                            *)
(***************************************************************************)
EXTENDS QueryStats, SequencesExt

CONSTANTS
    Batch,        \* SLOWLOG_BATCH
    TopN,         \* PS_SNAPSHOT_DIGESTS
    MaxExec,      \* bound: slow statements executed at the sources
    MaxUpsets     \* bound: restarts and reconfigurations of the sources

ASSUME CollectorAssumption ==
    Batch \in Nat \ {0} /\ TopN \in Nat \ {0} /\ MaxExec \in Nat /\ MaxUpsets \in Nat

Digest == {DigestOf(q) : q \in Statement}
NoCursor == 0                           \* no cursor row; a stored one is at least 1
NoSnapshot == [d \in Digest |-> 0]      \* 0 stands for a digest that is not in the map

VARIABLES
    \* the source databases
    ring,         \* Redis slowlog, oldest first: [id, ev], ev = 0 is the collector's own
    nextId,       \* the next slowlog id; ids restart with Redis
    slowOn,       \* slow_query_log = ON with log_output = TABLE
    slowLog,      \* mysql.slow_log: [ev, digest] in the order of start_time
    ties,         \* positions of slowLog with the start_time of the position before
    counters,     \* COUNT_STAR per digest, 0 while the digest is not in the table
    executed,     \* history: slow statements executed, per digest
    execs, upsets,
    \* query_stats_native_cursor
    cursor,       \* per source: an id, a start_time as a position of slowLog, or a snapshot
    \* the collector task
    cpc,          \* where it is
    batch,        \* rows it still has to insert
    last,         \* the cursor it read
    top,          \* the largest id or start_time it has inserted
    base, snap,   \* the snapshot it read and the one it will store
    n,            \* rows it has inserted in this round
    \* history
    torn,         \* rows were inserted and the cursor behind them was not stored or not read
    switched      \* the slow log was collected after the counters, whose snapshot or rows are kept

sourceVars == <<ring, nextId, slowOn, slowLog, ties, counters, executed, execs, upsets>>
roundVars  == <<batch, last, top, base, snap, n>>
collectorVars == <<sourceVars, cursor, cpc, roundVars, torn, switched>>
tableVars  == <<serverVars, reportVars, envVars>>
vars == <<qsVars, collectorVars>>

Key(source, k) == [source |-> source, key |-> k]

----------------------------------------------------------------------------
(* The databases *)

\* A slow command in Redis.
RedisSlow ==
    /\ "redis" \in jobs /\ execs < MaxExec
    /\ execs' = execs + 1
    /\ ring' = Append(ring, [id |-> nextId, ev |-> execs + 1]) /\ nextId' = nextId + 1
    /\ UNCHANGED <<qsVars, slowOn, slowLog, ties, counters, executed, upsets, cursor, cpc,
                   roundVars, torn, switched>>

\* Redis restarts: the log is gone and ids start again.
RedisRestart ==
    /\ "redis" \in jobs /\ upsets < MaxUpsets
    /\ upsets' = upsets + 1 /\ ring' = <<>> /\ nextId' = 0
    /\ UNCHANGED <<qsVars, slowOn, slowLog, ties, counters, executed, execs, cursor, cpc,
                   roundVars, torn, switched>>

\* A slow statement in MySQL: its counter grows, and it is logged if the log is on,
\* perhaps with the start_time of the row before.
MysqlSlow(d) ==
    /\ "mysql" \in jobs /\ execs < MaxExec
    /\ execs' = execs + 1
    /\ executed' = [executed EXCEPT ![d] = @ + 1]
    /\ counters' = [counters EXCEPT ![d] = @ + 1]
    /\ slowLog' = IF slowOn THEN Append(slowLog, [ev |-> execs + 1, digest |-> d]) ELSE slowLog
    /\ \/ UNCHANGED ties
       \/ slowOn /\ slowLog # <<>> /\ ties' = ties \cup {Len(slowLog) + 1}
    /\ UNCHANGED <<qsVars, ring, nextId, slowOn, upsets, cursor, cpc, roundVars, torn, switched>>

\* A restart or TRUNCATE empties the digest table; a DBA switches the slow log.
MysqlUpset ==
    /\ "mysql" \in jobs /\ upsets < MaxUpsets
    /\ upsets' = upsets + 1
    /\ \/ counters' = [d \in Digest |-> 0] /\ UNCHANGED slowOn
       \/ slowOn' = ~slowOn /\ UNCHANGED counters
    /\ UNCHANGED <<qsVars, ring, nextId, slowLog, ties, executed, execs, cursor, cpc, roundVars,
                   torn, switched>>

----------------------------------------------------------------------------
(* One round *)

\* The connections in the order of the table; a failed one does not stop the round.
NextConn(c) == IF c = "start" /\ "redis" \in jobs THEN "redis"
               ELSE IF c # "mysql" /\ "mysql" \in jobs THEN "mysql" ELSE "idle"

ResetRound ==
    /\ batch' = <<>> /\ last' = NoCursor /\ top' = NoCursor /\ n' = 0
    /\ base' = NoSnapshot /\ snap' = NoSnapshot

\* The round has left connection c.
LeaveConn(c) ==
    /\ cpc' = NextConn(c)
    /\ ResetRound

\* collect_all
CollectTick ==
    /\ cpc = "idle" /\ NextConn("start") # "idle"
    /\ cpc' = NextConn("start")
    /\ UNCHANGED <<qsVars, sourceVars, cursor, roundVars, torn, switched>>

\* Connection or query error: Err, a warning, and the next connection.
ConnFails(c) == Fault("connect") /\ LeaveConn(c)

\* cursor_get of value c; an error reads as no cursor.
CursorGet(local, c, none) ==
    \/ local = c /\ UNCHANGED <<torn, faults>>
    \/ Fault("cursor") /\ local = none /\ torn' = (torn \/ c # none)

\* cursor_put; an error is only logged.
CursorPut(source, value) ==
    \/ cursor' = [cursor EXCEPT ![source] = value] /\ UNCHANGED <<torn, faults>>
    \/ Fault("cursor") /\ UNCHANGED cursor /\ torn' = (torn \/ n > 0)

\* insert_native of row r; a failed row is skipped.
InsertNative(source, r, count, newTop) ==
    \/ /\ InsertRow(source, r, count)
       /\ n' = n + 1 /\ top' = newTop /\ UNCHANGED <<excused, faults>>
    \/ /\ Fault("insert")
       /\ excused' = excused \cup {Key(source, r)}
       /\ UNCHANGED <<stats, inserted, n, top>>

----------------------------------------------------------------------------
(* Redis *)

\* Connect and SLOWLOG GET, which may itself be slow enough to be logged.
FetchSlowlog ==
    /\ cpc = "redis"
    /\ \/ /\ cpc' = "redis_cursor"
          /\ batch' = Reverse(SubSeq(ring, 1 + Before(Len(ring), Batch), Len(ring)))
          /\ excused' = excused \cup
                {Key("redis", ring[i].ev) : i \in 1..Before(Len(ring), Batch)}
          /\ \/ /\ execs < MaxExec /\ execs' = execs + 1
                /\ ring' = Append(ring, [id |-> nextId, ev |-> 0]) /\ nextId' = nextId + 1
             \/ UNCHANGED <<ring, nextId, execs>>
          /\ UNCHANGED <<last, top, base, snap, n, faults>>
       \/ ConnFails("redis") /\ UNCHANGED <<ring, nextId, execs, excused>>
    /\ UNCHANGED <<stats, inserted, tableVars, slowOn, slowLog, ties, counters, executed, upsets,
                   cursor, torn, switched>>

ReadRedisCursor ==
    /\ cpc = "redis_cursor" /\ cpc' = "redis_insert"
    /\ CursorGet(last', cursor.redis, NoCursor)
    /\ UNCHANGED <<statsVars, tableVars, sourceVars, cursor, batch, top, base, snap, n, switched>>

\* The collector's own entries, id 0, and what an earlier round has taken.
SkipsEntry(e) == e.ev = 0 \/ e.id <= 0 \/ e.id <= last

InsertEntry ==
    /\ cpc = "redis_insert" /\ batch # <<>>
    /\ batch' = Tail(batch)
    /\ LET e == Head(batch) IN
       \/ SkipsEntry(e) /\ UNCHANGED <<statsVars, n, top, faults>>
       \/ ~SkipsEntry(e) /\ InsertNative("redis", e.ev, 1, Max({top, e.id}))
    /\ UNCHANGED <<tableVars, sourceVars, cursor, cpc, last, base, snap, torn, switched>>

\* if max_id > last
PutRedisCursor ==
    /\ cpc = "redis_insert" /\ batch = <<>>
    /\ \/ top > last /\ CursorPut("redis", top)
       \/ top <= last /\ UNCHANGED <<cursor, torn, faults>>
    /\ LeaveConn("redis")
    /\ UNCHANGED <<statsVars, tableVars, sourceVars, switched>>

----------------------------------------------------------------------------
(* MySQL, slow log on *)

\* What the counters have told is stored: a snapshot, or rows of their growth.
CountersKept == cursor.ps # NoSnapshot \/ \E s \in stats : s.source = "ps"

\* The settings choose the source of this round.
ReadSettings ==
    /\ cpc = "mysql"
    /\ \/ /\ cpc' = IF slowOn THEN "slow_cursor" ELSE "ps_rows"
          /\ switched' = (switched \/ (slowOn /\ CountersKept))
          /\ UNCHANGED <<roundVars, faults>>
       \/ ConnFails("mysql") /\ UNCHANGED switched
    /\ UNCHANGED <<statsVars, tableVars, sourceVars, cursor, torn>>

ReadSlowCursor ==
    /\ cpc = "slow_cursor" /\ cpc' = "slow_rows"
    /\ CursorGet(last', cursor.slow, NoCursor)
    /\ UNCHANGED <<statsVars, tableVars, sourceVars, cursor, batch, top, base, snap, n, switched>>

\* How many rows WHERE start_time > cursor passes over: those up to the cursor and
\* those tied with it; without a cursor, what is older than an hour.
PassedOver ==
    {q \in last..Len(slowLog) :
        q + 1 \notin ties /\ (last # NoCursor => (last + 1)..q \subseteq ties)}

FetchSlowRows ==
    /\ cpc = "slow_rows"
    /\ \/ \E from \in PassedOver :
          /\ last' = from /\ top' = from
          /\ batch' = [i \in 1..(Len(slowLog) - from) |->
                        [pos |-> from + i, ev |-> slowLog[from + i].ev]]
          /\ excused' = excused \cup {Key("slow", slowLog[i].ev) : i \in (last + 1)..from}
          /\ cpc' = "slow_insert" /\ UNCHANGED <<base, snap, n, faults>>
       \/ ConnFails("mysql") /\ UNCHANGED excused
    /\ UNCHANGED <<stats, inserted, tableVars, sourceVars, cursor, torn, switched>>

InsertSlowRow ==
    /\ cpc = "slow_insert" /\ batch # <<>>
    /\ batch' = Tail(batch)
    /\ InsertNative("slow", Head(batch).ev, 1, Head(batch).pos)
    /\ UNCHANGED <<tableVars, sourceVars, cursor, cpc, last, base, snap, torn, switched>>

\* Mutant: the cursor is the time of the save.
SlowCursorNow == Len(slowLog)

\* max_ts: the largest start_time that was inserted.
SlowCursor == top

\* if n > 0
PutSlowCursor ==
    /\ cpc = "slow_insert" /\ batch = <<>>
    /\ \/ n > 0 /\ CursorPut("slow", SlowCursor)
       \/ n = 0 /\ UNCHANGED <<cursor, torn, faults>>
    /\ LeaveConn("mysql")
    /\ UNCHANGED <<statsVars, tableVars, sourceVars, switched>>

----------------------------------------------------------------------------
(* MySQL, slow log off: the growth of the counters *)

\* Snapshots of the TopN digests with the largest SUM_TIMER_WAIT; durations are not
\* modelled, so any digests may be at the top.
Snapshots ==
    LET seen == {d \in Digest : counters[d] > 0}
    IN  {[d \in Digest |-> IF d \in D THEN counters[d] ELSE 0] :
            D \in kSubset(Min({TopN, Cardinality(seen)}), seen)}

Gained(D, prev, cur) == SetToSeq({[digest |-> d, count |-> cur[d] - prev[d]] : d \in D})

\* Mutant: a digest without a previous value is taken to start from 0.
DiffSnapshotsFromZero(prev, cur) ==
    IF prev = NoSnapshot THEN <<>> ELSE Gained({d \in Digest : cur[d] > prev[d]}, prev, cur)

\* diff_ps_snapshots: nothing without a baseline or after a reset; otherwise what
\* the digests of both snapshots have gained.
DiffSnapshots(prev, cur) ==
    LET both == {d \in Digest : prev[d] > 0 /\ cur[d] > 0}
    IN  IF \E d \in both : cur[d] < prev[d] THEN <<>>
        ELSE Gained({d \in both : cur[d] > prev[d]}, prev, cur)

\* performance_schema is read; if it is off, the connection is left.
FetchDigests ==
    /\ cpc = "ps_rows"
    /\ \/ /\ snap' \in Snapshots
          /\ cpc' = "ps_cursor" /\ UNCHANGED <<batch, last, top, base, n, faults>>
       \/ ConnFails("mysql")
    /\ UNCHANGED <<statsVars, tableVars, sourceVars, cursor, torn, switched>>

ReadSnapshot ==
    /\ cpc = "ps_cursor" /\ cpc' = "ps_insert"
    /\ CursorGet(base', cursor.ps, NoSnapshot)
    /\ batch' = DiffSnapshots(base', snap)
    /\ UNCHANGED <<statsVars, tableVars, sourceVars, cursor, last, top, snap, n, switched>>

InsertDelta ==
    /\ cpc = "ps_insert" /\ batch # <<>>
    /\ batch' = Tail(batch)
    /\ InsertNative("ps", Head(batch).digest, Head(batch).count, top)
    /\ UNCHANGED <<tableVars, sourceVars, cursor, cpc, last, base, snap, torn, switched>>

\* The snapshot is stored whether or not there was growth.
PutSnapshot ==
    /\ cpc = "ps_insert" /\ batch = <<>>
    /\ CursorPut("ps", snap)
    /\ LeaveConn("mysql")
    /\ UNCHANGED <<statsVars, tableVars, sourceVars, switched>>

----------------------------------------------------------------------------

CollectorStep ==
    \/ FetchSlowlog \/ ReadRedisCursor \/ InsertEntry \/ PutRedisCursor
    \/ ReadSettings \/ ReadSlowCursor \/ FetchSlowRows \/ InsertSlowRow \/ PutSlowCursor
    \/ FetchDigests \/ ReadSnapshot \/ InsertDelta \/ PutSnapshot

\* The server dies and is restarted.
Crash ==
    /\ ProcessDies
    /\ cpc' = "idle" /\ ResetRound
    /\ torn' = (torn \/ n > 0)
    /\ UNCHANGED <<sourceVars, cursor, switched>>

Init ==
    /\ StatsInit
    /\ ring = <<>> /\ nextId = 0 /\ slowOn \in (IF "mysql" \in jobs THEN BOOLEAN ELSE {FALSE}) /\ slowLog = <<>> /\ ties = {}
    /\ counters = [d \in Digest |-> 0] /\ executed = [d \in Digest |-> 0]
    /\ execs = 0 /\ upsets = 0
    /\ cursor = [redis |-> NoCursor, slow |-> NoCursor, ps |-> NoSnapshot]
    /\ cpc = "idle" /\ batch = <<>> /\ last = NoCursor /\ top = NoCursor /\ n = 0
    /\ base = NoSnapshot /\ snap = NoSnapshot
    /\ torn = FALSE /\ switched = FALSE

Next ==
    \/ StatsNext /\ UNCHANGED collectorVars
    \/ RedisSlow \/ RedisRestart \/ (\E d \in Digest : MysqlSlow(d)) \/ MysqlUpset
    \/ CollectTick \/ CollectorStep \/ Crash

\* The tickers are polled; the databases answer or time out.
Spec ==
    /\ Init /\ [][Next]_vars
    /\ StatsFairness /\ WF_vars(CollectTick) /\ WF_vars(CollectorStep)

----------------------------------------------------------------------------
(* Properties *)

Copies(source, k) == {s \in stats : s.source = source /\ s.key = k}

\* The count of the row of S with id i; ids are unique.
CountAt(S, i) ==
    IF \E s \in S : s.id = i THEN (CHOOSE s \in S : s.id = i).count ELSE 0

\* What the rows of S with an id below m count together.
SumBelow(S, m) ==
    LET sum[i \in 0..m] == IF i = 0 THEN 0 ELSE sum[i - 1] + CountAt(S, i - 1)
    IN  sum[m]

SumCounts(S) == SumBelow(S, inserted)

\* A native event is counted once: no event has two rows, and the statements of a
\* digest in the table never exceed the ones executed, whatever is evicted from the
\* snapshot, reset or restarted at the source, as long as no round was torn between
\* its rows and its cursor and the slow log was not collected after the counters.
CountedOnce ==
    ~torn =>
        /\ \A e \in 1..execs : Cardinality(Copies("redis", e)) <= 1 /\ Cardinality(Copies("slow", e)) <= 1
        /\ ~switched => \A d \in Digest :
              SumCounts(Copies("ps", d))
                + Cardinality({e \in {slowLog[i] : i \in 1..Len(slowLog)} :
                                  e.digest = d /\ Copies("slow", e.ev) # {}}) <= executed[d]

\* A stored cursor has nothing lost behind it: every event at or before it is in the
\* table, or its INSERT failed, it was older than the batch or the first hour, a row
\* logged with the very start_time of the cursor, or removed by retention.  The
\* collector's own SLOWLOG is never counted.
CursorSound ==
    /\ upsets = 0 => \A i \in 1..Len(ring) :
          (ring[i].ev # 0 /\ ring[i].id \in 1..cursor.redis)
              => Copies("redis", ring[i].ev) # {} \/ Key("redis", ring[i].ev) \in excused
    /\ \A i \in 1..cursor.slow :
          Copies("slow", slowLog[i].ev) # {} \/ Key("slow", slowLog[i].ev) \in excused
    /\ Copies("redis", 0) = {}

=============================================================================
