--------------------------- MODULE DataSyncProofs ---------------------------
(***************************************************************************)
(* Proofs about the data_sync task, for any source table, batch size,      *)
(* number of runs, overlap of manual and scheduled runs, number of crashes *)
(* and set of faults.                                                      *)
(***************************************************************************)
EXTENDS DataSync, WellFoundedInduction, TLAPS

----------------------------------------------------------------------------
(* Types *)

\* A non-empty set of run numbers has a greatest element, so "ORDER BY
\* started_at DESC LIMIT 1" is well defined.
LEMMA MaxExists ==
    ASSUME NEW N \in Nat, NEW S \in SUBSET (1..N), S # {}
    PROVE  \E m \in S : \A q \in S : q <= m
<1> DEFINE D == {N - x : x \in S}
<1>1. \A x \in S : x \in Int /\ x <= N
  OBVIOUS
<1>2. D \subseteq Nat /\ D # {}
  <2>1. ASSUME NEW y \in D PROVE y \in Nat
    BY <1>1, <2>1
  <2>2. PICK x \in S : TRUE
    OBVIOUS
  <2>3. N - x \in D
    BY <2>2
  <2> QED
    BY <2>1, <2>3
<1>3. PICK d \in D : \A y \in D : ~(<<y, d>> \in OpToRel(<, Nat))
  <2> HIDE DEF D
  <2> QED
    BY <1>2, NatLessThanWellFounded, WFMin
<1>4. \A y \in D : ~(y < d)
  <2> HIDE DEF D
  <2> QED
    BY <1>2, <1>3 DEF OpToRel
<1>5. PICK m \in S : d = N - m
  OBVIOUS
<1>6. \A q \in S : q <= m
  BY <1>4, <1>5
<1> QED
  BY <1>6

\* The latest of a non-empty set of runs is one of them.
LEMMA LatestIn ==
    ASSUME NEW S \in SUBSET RunId, S # {}
    PROVE  LatestOf(S) \in S
<1>1. \E m \in S : \A q \in S : q <= m
  BY MaxExists, ConstAssumption DEF RunId
<1> QED
  BY <1>1 DEF LatestOf

\* And none is newer.
LEMMA LatestNewest ==
    ASSUME NEW S \in SUBSET RunId, NEW r \in S
    PROVE  LatestOf(S) \in S /\ r <= LatestOf(S)
<1>1. \E m \in S : \A q \in S : q <= m
  BY MaxExists, ConstAssumption DEF RunId
<1> QED
  BY <1>1 DEF LatestOf

\* What find_resumable_cursor returns is NULL or the cursor of some row.
LEMMA ResumableIn ==
    FindResumableCursor = NoCursor
        \/ \E r \in RunId : FindResumableCursor = dbCursor[r]
<1>1. CASE Opened = {}
  BY <1>1 DEF FindResumableCursor
<1>2. CASE Opened # {}
  <2>1. LatestOf(Opened) \in RunId
    BY <1>2, LatestIn DEF Opened
  <2> QED
    BY <1>2, <2>1 DEF FindResumableCursor
<1> QED
  BY <1>1, <1>2

\* Every batch consists of source rows.
LEMMA BatchType ==
    ASSUME NEW lo, NEW hi, NEW b \in SelectBatch(lo, hi)
    PROVE  b \subseteq Row
  BY DEF SelectBatch, Window

\* The control database starts without run rows, the process without runs.
LEMMA InitType == Init => TypeOK
<1> SUFFICES ASSUME Init PROVE TypeOK
  OBVIOUS
<1> USE DEF Init
<1>1. /\ status \in [RunId -> {"none", "running", "succeeded", "failed", "canceled"}]
      /\ pc \in [RunId -> Live \cup {"none", "done", "dead"}]
      /\ trigger \in [RunId -> {"none", "scheduler", "manual"}]
      /\ outcome \in [RunId -> {"none", "succeeded", "canceled", "error"}]
      /\ cancelReq \in [RunId -> BOOLEAN]
  OBVIOUS
<1>2. /\ dbCursor \in [RunId -> Cursor] /\ resume \in [RunId -> Cursor]
      /\ cursor \in [RunId -> Cursor]
  BY DEF Cursor
<1>3. /\ dbProcessed \in [RunId -> SUBSET Row] /\ dbFailed \in [RunId -> SUBSET Row]
      /\ batch \in [RunId -> SUBSET Row]
      /\ processed \in [RunId -> SUBSET Row] /\ failed \in [RunId -> SUBSET Row]
  OBVIOUS
<1>4. /\ target \in [Row -> Nat] /\ attempt \in [RunId -> Nat]
      /\ nowEnd \in [RunId -> Nat \cup {NeverRan}]
      /\ lastRun \in Nat \cup {NeverRan} /\ lastSeen \in Nat \cup {NeverRan}
  OBVIOUS
<1>5. /\ inFlight \in BOOLEAN /\ schedPc \in {"idle", "scanned"}
      /\ tick \in Nat /\ crashes \in Nat
  OBVIOUS
<1> QED
  BY <1>1, <1>2, <1>3, <1>4, <1>5 DEF TypeOK

\* Each action preserves the types.
LEMMA NextType == TypeOK /\ [Next]_vars => TypeOK'
<1> SUFFICES ASSUME TypeOK, [Next]_vars PROVE TypeOK'
  OBVIOUS
<1> USE ConstAssumption
    DEF TypeOK, Live, rowVars, loopVars, schedVars, envVars, Goto, Return
<1>1. ASSUME NEW r \in RunId, NEW by \in {"scheduler", "manual"}, StartRun(r, by)
      PROVE  /\ pc' \in [RunId -> Live \cup {"none", "done", "dead"}]
             /\ trigger' \in [RunId -> {"none", "scheduler", "manual"}]
  BY <1>1 DEF StartRun
<1>2. CASE ScanTasks
  BY <1>2 DEF ScanTasks
<1>3. CASE SkipTask
  BY <1>3 DEF SkipTask
<1>4. CASE DispatchTask
  BY <1>1, <1>4 DEF DispatchTask
<1>5. CASE RunTaskNow
  BY <1>1, <1>5 DEF RunTaskNow
<1>6. CASE CancelTask
  BY <1>6 DEF CancelTask
<1>7. ASSUME NEW r \in RunId, RunStep(r) PROVE TypeOK'
  <2>1. CASE ReadResumeCursor(r)
    <3>1. FindResumableCursor \in Cursor
      BY ResumableIn DEF Cursor
    <3> QED
      BY <2>1, <3>1 DEF ReadResumeCursor
  <2>2. CASE OpenRunRow(r)
    BY <2>2 DEF OpenRunRow
  <2>3. CASE PrepareRun(r)
    BY <2>3 DEF PrepareRun, Origin, Cursor
  <2>4. CASE MaybeTruncate(r)
    BY <2>4 DEF MaybeTruncate
  <2>5. CASE PollCancel(r)
    BY <2>5 DEF PollCancel
  <2>6. CASE FetchBatch(r)
    <3>1. AdvanceCursor(cursor[r]) \in Cursor
      BY DEF AdvanceCursor, Cursor, NoCursor
    <3>2. \A b \in SelectBatch(cursor[r], AdvanceCursor(cursor[r])) : b \subseteq Row
      BY BatchType
    <3> QED
      BY <2>6, <3>1, <3>2 DEF FetchBatch
  <2>7. CASE InsertBatch(r)
    <3>1. Written(batch[r]) \in [Row -> Nat]
      BY DEF Written
    <3> QED
      BY <2>7, <3>1 DEF InsertBatch, InsertFails, NextAttempt
  <2>8. CASE SaveProgress(r)
    <3>1. AdvanceCursor(cursor[r]) \in Cursor
      BY DEF AdvanceCursor, Cursor, NoCursor
    <3>2. /\ dbCursor' \in [RunId -> Cursor]
          /\ dbProcessed' \in [RunId -> SUBSET Row] /\ dbFailed' \in [RunId -> SUBSET Row]
      BY <2>8 DEF SaveProgress
    <3>3. cursor' \in [RunId -> Cursor] /\ batch' \in [RunId -> SUBSET Row]
      BY <2>8, <3>1 DEF SaveProgress
    <3>4. /\ pc' \in [RunId -> Live \cup {"none", "done", "dead"}]
          /\ outcome' \in [RunId -> {"none", "succeeded", "canceled", "error"}]
      BY <2>8 DEF SaveProgress
    <3> QED
      BY <2>8, <3>2, <3>3, <3>4 DEF SaveProgress
  <2>9. CASE FinishRunRow(r)
    <3>1. TerminalStatus(outcome[r]) \in {"none", "running", "succeeded", "failed", "canceled"}
      BY DEF TerminalStatus
    <3>2. FinalCounts(r)[1] \in SUBSET Row /\ FinalCounts(r)[2] \in SUBSET Row
      BY DEF FinalCounts
    <3> QED
      BY <2>9, <3>1, <3>2 DEF FinishRunRow
  <2>10. CASE UpdateTaskStatus(r)
    BY <2>10 DEF UpdateTaskStatus
  <2>11. CASE Notify(r)
    BY <2>11 DEF Notify
  <2>12. CASE ReleaseTask(r)
    BY <2>12 DEF ReleaseTask
  <2> QED
    BY <1>7, <2>1, <2>2, <2>3, <2>4, <2>5, <2>6, <2>7, <2>8, <2>9, <2>10, <2>11, <2>12
    DEF RunStep
<1>8. CASE CronTick
  BY <1>8 DEF CronTick
<1>9. CASE Crash
  <2>1. pc' \in [RunId -> Live \cup {"none", "done", "dead"}]
    BY <1>9 DEF Crash
  <2>2. inFlight' \in BOOLEAN /\ schedPc' \in {"idle", "scanned"}
    BY <1>9 DEF Crash
  <2>3. lastSeen' \in Nat \cup {NeverRan} /\ crashes' \in Nat
    BY <1>9 DEF Crash
  <2> QED
    BY <1>9, <2>1, <2>2, <2>3 DEF Crash
<1>10. CASE UNCHANGED vars
  BY <1>10 DEF vars
<1> QED
  BY <1>2, <1>3, <1>4, <1>5, <1>6, <1>7, <1>8, <1>9, <1>10 DEF Next

\* The run rows, the runner's locals and the scheduler keep their types, also
\* when runs overlap and write each other's rows.
THEOREM TypeCorrect == Spec => []TypeOK
  BY InitType, NextType, PTL DEF Spec

----------------------------------------------------------------------------
(* Scheduled runs exclude each other *)

Scheduled == {r \in Active : trigger[r] = "scheduler"}

\* A step that moves one live run to another live label keeps the scheduled set.
LEMMA ScheduledKept ==
    ASSUME TypeOK, NEW r \in RunId, NEW l \in Live, pc[r] \in Live,
           Goto(r, l) \/ UNCHANGED pc, UNCHANGED trigger
    PROVE  Scheduled' = Scheduled
<1>1. \A q \in RunId : pc'[q] \in Live <=> pc[q] \in Live
  BY DEF TypeOK, Goto
<1>2. Active' = Active
  BY <1>1 DEF Active
<1> QED
  BY <1>2 DEF Scheduled

\* Only ReleaseTask takes a run out of its live labels.
LEMMA RunStepScheduled ==
    ASSUME TypeOK, NEW r \in RunId, RunStep(r), ~ReleaseTask(r)
    PROVE  Scheduled' = Scheduled /\ inFlight' = inFlight
<1>1. \A l \in Live : (pc[r] \in Live /\ (Goto(r, l) \/ UNCHANGED pc) /\ UNCHANGED trigger)
                        => Scheduled' = Scheduled
  BY ScheduledKept
<1> USE DEF Live, schedVars
<1>2. CASE ReadResumeCursor(r)
  BY <1>1, <1>2 DEF ReadResumeCursor
<1>3. CASE OpenRunRow(r)
  BY <1>1, <1>3 DEF OpenRunRow
<1>4. CASE PrepareRun(r)
  BY <1>1, <1>4 DEF PrepareRun, Return
<1>5. CASE MaybeTruncate(r)
  BY <1>1, <1>5 DEF MaybeTruncate
<1>6. CASE PollCancel(r)
  BY <1>1, <1>6 DEF PollCancel, Return
<1>7. CASE FetchBatch(r)
  BY <1>1, <1>7 DEF FetchBatch, Return
<1>8. CASE InsertBatch(r)
  BY <1>1, <1>8 DEF InsertBatch, InsertFails
<1>9. CASE SaveProgress(r)
  BY <1>1, <1>9 DEF SaveProgress, Return
<1>10. CASE FinishRunRow(r)
  BY <1>1, <1>10 DEF FinishRunRow
<1>11. CASE UpdateTaskStatus(r)
  BY <1>1, <1>11 DEF UpdateTaskStatus
<1>12. CASE Notify(r)
  BY <1>1, <1>12 DEF Notify
<1> QED
  BY <1>2, <1>3, <1>4, <1>5, <1>6, <1>7, <1>8, <1>9, <1>10, <1>11, <1>12
  DEF RunStep

\* Dispatch, release and crash are the steps that change who holds the task.
LEMMA NextExclusive ==
    TypeOK /\ ScheduledRunsExclusive /\ [Next]_vars => ScheduledRunsExclusive'
<1> SUFFICES ASSUME TypeOK, ScheduledRunsExclusive, [Next]_vars
             PROVE  ScheduledRunsExclusive'
  OBVIOUS
<1>1. ScheduledRunsExclusive
        <=> (inFlight <=> Scheduled # {}) /\ \A q, r \in Scheduled : q = r
  BY DEF ScheduledRunsExclusive, Scheduled
<1>2. ScheduledRunsExclusive'
        <=> (inFlight' <=> Scheduled' # {}) /\ \A q, r \in Scheduled' : q = r
  BY DEF ScheduledRunsExclusive, Scheduled
<1>3. ASSUME Scheduled' = Scheduled, inFlight' = inFlight
      PROVE  ScheduledRunsExclusive'
  BY <1>1, <1>2, <1>3
<1>4. ASSUME UNCHANGED <<pc, trigger, inFlight>> PROVE ScheduledRunsExclusive'
  BY <1>3, <1>4 DEF Scheduled, Active
<1>5. ASSUME NEW r \in RunId, NEW by \in {"scheduler", "manual"}, StartRun(r, by)
      PROVE  Scheduled' = IF by = "scheduler" THEN Scheduled \cup {r} ELSE Scheduled
  <2>1. pc[r] \notin Live /\ pc'[r] \in Live /\ trigger'[r] = by
    BY <1>5 DEF StartRun, TypeOK, Live
  <2>2. \A q \in RunId \ {r} : pc'[q] = pc[q] /\ trigger'[q] = trigger[q]
    BY <1>5 DEF StartRun, TypeOK
  <2> QED
    BY <2>1, <2>2 DEF Scheduled, Active
<1>6. CASE ScanTasks
  BY <1>4, <1>6 DEF ScanTasks
<1>7. CASE SkipTask
  BY <1>4, <1>7 DEF SkipTask
<1>8. CASE DispatchTask
  <2>1. PICK r \in RunId : StartRun(r, "scheduler")
    BY <1>8 DEF DispatchTask
  <2>2. Scheduled = {} /\ inFlight' = TRUE
    BY <1>1, <1>8 DEF DispatchTask, TryAcquire
  <2>3. Scheduled' = {r}
    BY <1>5, <2>1, <2>2
  <2> QED
    BY <1>2, <2>2, <2>3
<1>9. CASE RunTaskNow
  <2>1. PICK r \in RunId : StartRun(r, "manual")
    BY <1>9 DEF RunTaskNow
  <2>2. Scheduled' = Scheduled
    BY <1>5, <2>1
  <2> QED
    BY <1>3, <1>9, <2>2 DEF RunTaskNow, schedVars
<1>10. CASE CancelTask
  BY <1>4, <1>10 DEF CancelTask, schedVars
<1>11. ASSUME NEW r \in RunId, ReleaseTask(r) PROVE ScheduledRunsExclusive'
  <2>1. r \in Active /\ Active' = Active \ {r} /\ trigger' = trigger
    BY <1>11 DEF ReleaseTask, Goto, Active, TypeOK, Live
  <2>2. Scheduled' = Scheduled \ {r} /\ (r \in Scheduled <=> Releases(r))
    BY <2>1 DEF Scheduled, Releases
  <2>3. inFlight' <=> inFlight /\ ~Releases(r)
    BY <1>11 DEF ReleaseTask
  <2> QED
    BY <1>1, <1>2, <2>2, <2>3
<1>12. ASSUME NEW r \in RunId, RunStep(r) PROVE ScheduledRunsExclusive'
  BY <1>3, <1>11, <1>12, RunStepScheduled
<1>13. CASE CronTick
  BY <1>4, <1>13 DEF CronTick, schedVars
<1>14. CASE Crash
  <2>1. Scheduled' = {} /\ ~inFlight'
    BY <1>14 DEF Crash, Scheduled, Active, Live
  <2> QED
    BY <1>2, <2>1
<1>15. CASE UNCHANGED vars
  BY <1>4, <1>15 DEF vars, schedVars
<1> QED
  BY <1>6, <1>7, <1>8, <1>9, <1>10, <1>12, <1>13, <1>14, <1>15 DEF Next

\* InFlightTasks admits one scheduled run at a time and is free again after
\* every end of it, a crash included, for any number of runs and crashes.
THEOREM ScheduledExclusive == Spec => []ScheduledRunsExclusive
<1>1. Init => ScheduledRunsExclusive
  BY DEF Init, ScheduledRunsExclusive, Active, Live
<1> QED
  BY <1>1, TypeCorrect, NextExclusive, PTL DEF Spec

----------------------------------------------------------------------------
(* Accounting: what a succeeded run's counters say *)

\* No window holds more rows than LIMIT.
Sparse == \A c \in Nat : Cardinality(Window(c, AdvanceCursor(c))) <= Limit

\* The run has counted every row from its starting cursor up to c, once.
CountedUpTo(r, c) ==
    /\ Origin(r) <= c
    /\ processed[r] \cup failed[r] = Window(Origin(r), c)
    /\ processed[r] \cap failed[r] = {}

\* The run has counted every row from its starting cursor on, once.
CountedAll(r) ==
    /\ processed[r] \cup failed[r] = {x \in Row : Origin(r) <= TimeOf[x]}
    /\ processed[r] \cap failed[r] = {}

\* How far a run has counted, by where it stands: the inductive strengthening
\* of SucceededAccounting.
Counting(r) ==
    /\ pc[r] \in {"none", "resume", "open", "prepare"} =>
          processed[r] = {} /\ failed[r] = {} /\ outcome[r] = "none"
    /\ pc[r] \in {"truncate", "poll", "fetch", "insert"} =>
          cursor[r] \in Nat /\ CountedUpTo(r, cursor[r])
    /\ pc[r] \in {"insert", "progress"} =>
          batch[r] = Window(cursor[r], AdvanceCursor(cursor[r]))
    /\ pc[r] = "progress" =>
          cursor[r] \in Nat /\ CountedUpTo(r, AdvanceCursor(cursor[r]))
    /\ outcome[r] = "succeeded" =>
          pc[r] \in {"finish", "task", "notify", "release", "done", "dead"} /\ CountedAll(r)
    /\ status[r] = "succeeded" =>
          outcome[r] = "succeeded" /\ dbProcessed[r] = processed[r] /\ dbFailed[r] = failed[r]

\* A window splits at any point inside it.
LEMMA WindowSplit ==
    ASSUME NEW lo \in Nat, NEW mid \in Nat, NEW hi \in Nat, lo <= mid, mid <= hi
    PROVE  /\ Window(lo, hi) = Window(lo, mid) \cup Window(mid, hi)
           /\ Window(lo, mid) \cap Window(mid, hi) = {}
<1>1. \A x \in Row : TimeOf[x] \in Nat
  BY ConstAssumption
<1> QED
  BY <1>1 DEF Window

\* A window that reaches past MAX(time_field) has no upper bound.
LEMMA WindowToEnd ==
    ASSUME NEW lo \in Nat, NEW hi \in Nat, hi > MaxTime
    PROVE  Window(lo, hi) = {x \in Row : lo <= TimeOf[x]}
<1>1. \A x \in Row : TimeOf[x] \in Nat /\ TimeOf[x] <= MaxTime
  BY ConstAssumption
<1> QED
  BY <1>1, ConstAssumption DEF Window

\* advance_cursor never goes back.
LEMMA AdvanceType ==
    ASSUME NEW c \in Nat
    PROVE  AdvanceCursor(c) \in Nat /\ c <= AdvanceCursor(c)
  BY ConstAssumption DEF AdvanceCursor

\* In a sparse table a batch is its whole window.
LEMMA SparseBatch ==
    ASSUME Sparse, NEW c \in Nat
    PROVE  SelectBatch(c, AdvanceCursor(c)) = {Window(c, AdvanceCursor(c))}
  BY DEF Sparse, SelectBatch

\* The starting cursor of a run is a time.
LEMMA OriginType ==
    ASSUME TypeOK, NEW r \in RunId
    PROVE  Origin(r) \in Nat
  BY ConstAssumption DEF TypeOK, Origin, Cursor

\* A run that did not move keeps its count, also when it dies and when other
\* runs write to the rows that are still running.
LEMMA CountingKept ==
    ASSUME NEW q \in RunId, Counting(q),
           pc'[q] = pc[q] \/ pc'[q] = "dead",
           resume'[q] = resume[q], cursor'[q] = cursor[q], batch'[q] = batch[q],
           processed'[q] = processed[q], failed'[q] = failed[q],
           outcome'[q] = outcome[q], status'[q] = status[q],
           status[q] = "succeeded" =>
              dbProcessed'[q] = dbProcessed[q] /\ dbFailed'[q] = dbFailed[q]
    PROVE  Counting(q)'
<1>1. Origin(q)' = Origin(q)
  BY DEF Origin
<1>2. /\ CountedAll(q)' <=> CountedAll(q)
      /\ CountedUpTo(q, cursor[q])' <=> CountedUpTo(q, cursor[q])
  BY <1>1 DEF CountedAll, CountedUpTo
<1>3. CountedUpTo(q, AdvanceCursor(cursor[q]))' <=> CountedUpTo(q, AdvanceCursor(cursor[q]))
  BY <1>1 DEF CountedUpTo, AdvanceCursor
<1> QED
  BY <1>2, <1>3 DEF Counting, AdvanceCursor

\* A step of one run leaves the locals and the status of every other run alone,
\* and the counters of every row that is not running.
LEMMA Locality ==
    ASSUME TypeOK, NEW r \in RunId, RunStep(r), NEW q \in RunId, q # r
    PROVE  /\ pc'[q] = pc[q] /\ resume'[q] = resume[q] /\ cursor'[q] = cursor[q]
           /\ batch'[q] = batch[q] /\ processed'[q] = processed[q]
           /\ failed'[q] = failed[q] /\ outcome'[q] = outcome[q]
           /\ status'[q] = status[q]
           /\ status[q] = "succeeded" =>
                 dbProcessed'[q] = dbProcessed[q] /\ dbFailed'[q] = dbFailed[q]
<1> USE DEF TypeOK, rowVars, loopVars, Goto, Return
<1>1. CASE ReadResumeCursor(r)
  BY <1>1 DEF ReadResumeCursor
<1>2. CASE OpenRunRow(r)
  BY <1>2 DEF OpenRunRow
<1>3. CASE PrepareRun(r)
  BY <1>3 DEF PrepareRun
<1>4. CASE MaybeTruncate(r)
  BY <1>4 DEF MaybeTruncate
<1>5. CASE PollCancel(r)
  BY <1>5 DEF PollCancel
<1>6. CASE FetchBatch(r)
  BY <1>6 DEF FetchBatch
<1>7. CASE InsertBatch(r)
  BY <1>7 DEF InsertBatch, InsertFails
<1>8. CASE SaveProgress(r)
  BY <1>8 DEF SaveProgress, Running
<1>9. CASE FinishRunRow(r)
  BY <1>9 DEF FinishRunRow
<1>10. CASE UpdateTaskStatus(r)
  BY <1>10 DEF UpdateTaskStatus
<1>11. CASE Notify(r)
  BY <1>11 DEF Notify
<1>12. CASE ReleaseTask(r)
  BY <1>12 DEF ReleaseTask
<1> QED
  BY <1>1, <1>2, <1>3, <1>4, <1>5, <1>6, <1>7, <1>8, <1>9, <1>10, <1>11, <1>12
  DEF RunStep

\* Fetching a batch, or finding its window empty, keeps the count exact.
LEMMA FetchCounting ==
    ASSUME Sparse, TypeOK, NEW r \in RunId, Counting(r), FetchBatch(r)
    PROVE  Counting(r)'
<1> DEFINE c == cursor[r]
           next == AdvanceCursor(c)
           w == Window(c, next)
<1>1. c \in Nat /\ CountedUpTo(r, c) /\ outcome[r] # "succeeded" /\ status[r] # "succeeded"
  BY DEF FetchBatch, Counting
<1>2. next \in Nat /\ c <= next /\ Origin(r) \in Nat
  BY <1>1, AdvanceType, OriginType
<1>3. Origin(r)' = Origin(r) /\ processed' = processed /\ failed' = failed /\ status' = status
  BY DEF FetchBatch, Origin, rowVars
<1>4. SelectBatch(c, next) = {w}
  BY <1>1, SparseBatch
<1>5. w = {} => CountedUpTo(r, next)
  BY <1>1, <1>2, WindowSplit DEF CountedUpTo
<1>6. CASE /\ w # {} /\ pc' = [pc EXCEPT ![r] = "insert"]
           /\ batch' = [batch EXCEPT ![r] = w] /\ cursor' = cursor /\ outcome' = outcome
  <2>1. pc'[r] = "insert" /\ batch'[r] = w /\ cursor'[r] = c /\ outcome'[r] = outcome[r]
    BY <1>6 DEF TypeOK
  <2> QED
    BY <1>1, <1>3, <2>1 DEF Counting, CountedUpTo, AdvanceCursor
<1>7. CASE /\ w = {} /\ next > MaxTime /\ pc' = [pc EXCEPT ![r] = "finish"]
           /\ outcome' = [outcome EXCEPT ![r] = "succeeded"]
  <2>1. pc'[r] = "finish" /\ outcome'[r] = "succeeded"
    BY <1>7 DEF TypeOK
  <2>2. CountedAll(r)
    BY <1>2, <1>5, <1>7, WindowToEnd DEF CountedUpTo, CountedAll
  <2> QED
    BY <1>1, <1>3, <2>1, <2>2 DEF Counting, CountedAll
<1>8. CASE /\ w = {} /\ pc' = [pc EXCEPT ![r] = "poll"]
           /\ cursor' = [cursor EXCEPT ![r] = next] /\ outcome' = outcome
  <2>1. pc'[r] = "poll" /\ cursor'[r] = next /\ outcome'[r] = outcome[r]
    BY <1>8 DEF TypeOK
  <2> QED
    BY <1>1, <1>2, <1>3, <1>5, <1>8, <2>1 DEF Counting, CountedUpTo
<1>9. CASE pc' = [pc EXCEPT ![r] = "finish"] /\ outcome' = [outcome EXCEPT ![r] = "error"]
  <2>1. pc'[r] = "finish" /\ outcome'[r] = "error"
    BY <1>9 DEF TypeOK
  <2> QED
    BY <1>1, <1>3, <2>1 DEF Counting
<1> QED
  BY <1>4, <1>6, <1>7, <1>8, <1>9 DEF FetchBatch, Goto, Return, CursorGt

\* An attempt of the insert adds the whole window to one of the two counters.
LEMMA InsertCounting ==
    ASSUME TypeOK, NEW r \in RunId, Counting(r), InsertBatch(r)
    PROVE  Counting(r)'
<1> DEFINE c == cursor[r]
           next == AdvanceCursor(c)
<1>1. /\ c \in Nat /\ CountedUpTo(r, c) /\ batch[r] = Window(c, next)
      /\ outcome[r] # "succeeded" /\ status[r] # "succeeded"
  BY DEF InsertBatch, Counting
<1>2. next \in Nat /\ c <= next /\ Origin(r) \in Nat
  BY <1>1, AdvanceType, OriginType
<1>3. /\ Origin(r)' = Origin(r) /\ cursor' = cursor /\ batch' = batch
      /\ outcome' = outcome /\ status' = status
  BY DEF InsertBatch, Origin, rowVars
<1>4. /\ Window(Origin(r), next) = Window(Origin(r), c) \cup batch[r]
      /\ Window(Origin(r), c) \cap batch[r] = {}
  BY <1>1, <1>2, WindowSplit DEF CountedUpTo
<1>5. ASSUME pc'[r] = "progress",
             \/ processed'[r] = processed[r] \cup batch[r] /\ failed'[r] = failed[r]
             \/ failed'[r] = failed[r] \cup batch[r] /\ processed'[r] = processed[r]
      PROVE  Counting(r)'
  <2>1. /\ processed'[r] \cup failed'[r] = Window(Origin(r), next)
        /\ processed'[r] \cap failed'[r] = {}
    BY <1>1, <1>4, <1>5 DEF CountedUpTo
  <2>2. Origin(r) <= next
    BY <1>1, <1>2 DEF CountedUpTo
  <2> QED
    BY <1>1, <1>3, <1>5, <2>1, <2>2 DEF Counting, CountedUpTo, AdvanceCursor
<1>6. CASE /\ pc' = [pc EXCEPT ![r] = "progress"] /\ failed' = failed
           /\ processed' = [processed EXCEPT ![r] = @ \cup batch[r]]
  BY <1>5, <1>6 DEF TypeOK
<1>7. CASE /\ pc' = [pc EXCEPT ![r] = "progress"] /\ processed' = processed
           /\ failed' = [failed EXCEPT ![r] = @ \cup batch[r]]
  BY <1>5, <1>7 DEF TypeOK
<1>8. CASE pc' = pc /\ processed' = processed /\ failed' = failed
  BY <1>1, <1>3, <1>8, CountingKept DEF InsertBatch, rowVars
<1> QED
  BY <1>6, <1>7, <1>8 DEF InsertBatch, InsertFails, Goto

\* Saving the progress moves the cursor to the end of the counted window.
LEMMA SaveCounting ==
    ASSUME TypeOK, NEW r \in RunId, Counting(r), SaveProgress(r)
    PROVE  Counting(r)'
<1> DEFINE c == cursor[r]
           next == AdvanceCursor(c)
<1>1. /\ c \in Nat /\ CountedUpTo(r, next)
      /\ outcome[r] # "succeeded" /\ status[r] # "succeeded"
  BY DEF SaveProgress, Counting
<1>2. next \in Nat /\ Origin(r) \in Nat
  BY <1>1, AdvanceType, OriginType
<1>3. Origin(r)' = Origin(r) /\ processed' = processed /\ failed' = failed /\ status' = status
  BY DEF SaveProgress, Origin
<1>4. CASE /\ next > MaxTime /\ pc' = [pc EXCEPT ![r] = "finish"]
           /\ outcome' = [outcome EXCEPT ![r] = "succeeded"]
  <2>1. pc'[r] = "finish" /\ outcome'[r] = "succeeded"
    BY <1>4 DEF TypeOK
  <2>2. CountedAll(r)
    BY <1>1, <1>2, <1>4, WindowToEnd DEF CountedUpTo, CountedAll
  <2> QED
    BY <1>1, <1>3, <2>1, <2>2 DEF Counting, CountedAll
<1>5. CASE /\ pc' = [pc EXCEPT ![r] = "poll"] /\ outcome' = outcome
           /\ cursor' = [cursor EXCEPT ![r] = next]
  <2>1. pc'[r] = "poll" /\ cursor'[r] = next /\ outcome'[r] = outcome[r]
    BY <1>5 DEF TypeOK
  <2> QED
    BY <1>1, <1>2, <1>3, <2>1 DEF Counting, CountedUpTo
<1>6. CASE pc' = [pc EXCEPT ![r] = "finish"] /\ outcome' = [outcome EXCEPT ![r] = "error"]
  <2>1. pc'[r] = "finish" /\ outcome'[r] = "error"
    BY <1>6 DEF TypeOK
  <2> QED
    BY <1>1, <1>3, <2>1 DEF Counting
<1> QED
  BY <1>4, <1>5, <1>6 DEF SaveProgress, Goto, Return, CursorGt

\* Every other step of a run leaves its count alone, or starts it at zero.
LEMMA StepCounting ==
    ASSUME Sparse, TypeOK, NEW r \in RunId, Counting(r), RunStep(r)
    PROVE  Counting(r)'
<1>1. CASE ReadResumeCursor(r)
  <2>1. /\ pc[r] = "resume" /\ pc'[r] = "open" /\ processed' = processed /\ failed' = failed
        /\ outcome' = outcome /\ status' = status
    BY <1>1 DEF ReadResumeCursor, Goto, TypeOK, loopVars, rowVars
  <2> QED
    BY <2>1 DEF Counting
<1>2. CASE OpenRunRow(r)
  <2>1. /\ pc[r] = "open" /\ pc'[r] \in {"prepare", "release"} /\ processed' = processed
        /\ failed' = failed /\ outcome' = outcome
        /\ status'[r] = status[r] \/ status'[r] = "running"
    BY <1>2 DEF OpenRunRow, Goto, TypeOK, loopVars
  <2> QED
    BY <2>1 DEF Counting
<1>3. CASE PrepareRun(r)
  <2>1. /\ pc[r] = "prepare" /\ processed' = processed /\ failed' = failed
        /\ status' = status /\ Origin(r)' = Origin(r)
    BY <1>3 DEF PrepareRun, rowVars, Origin
  <2>2. processed[r] = {} /\ failed[r] = {} /\ outcome[r] = "none" /\ status[r] # "succeeded"
    BY <2>1 DEF Counting
  <2>3. CASE /\ pc' = [pc EXCEPT ![r] = "truncate"] /\ outcome' = outcome
             /\ cursor' = [cursor EXCEPT ![r] = Origin(r)]
    <3>1. pc'[r] = "truncate" /\ cursor'[r] = Origin(r)
      BY <2>3 DEF TypeOK
    <3>2. Origin(r) \in Nat /\ Window(Origin(r), Origin(r)) = {}
      BY OriginType, ConstAssumption DEF Window
    <3>3. CountedUpTo(r, cursor[r])'
      BY <2>1, <2>2, <3>1, <3>2 DEF CountedUpTo
    <3> QED
      BY <2>1, <2>2, <2>3, <3>1, <3>2, <3>3 DEF Counting
  <2>4. CASE pc' = [pc EXCEPT ![r] = "finish"] /\ outcome' = [outcome EXCEPT ![r] = "error"]
    <3>1. pc'[r] = "finish" /\ outcome'[r] = "error"
      BY <2>4 DEF TypeOK
    <3> QED
      BY <2>1, <2>2, <3>1 DEF Counting
  <2> QED
    BY <1>3, <2>3, <2>4 DEF PrepareRun, Goto, Return
<1>4. CASE MaybeTruncate(r)
  <2>1. /\ pc[r] = "truncate" /\ pc'[r] = "poll" /\ Origin(r)' = Origin(r)
        /\ cursor' = cursor /\ processed' = processed /\ failed' = failed
        /\ outcome' = outcome /\ status' = status
    BY <1>4 DEF MaybeTruncate, Goto, TypeOK, loopVars, rowVars, Origin
  <2> QED
    BY <2>1 DEF Counting, CountedUpTo
<1>5. CASE PollCancel(r)
  <2>1. /\ pc[r] = "poll" /\ Origin(r)' = Origin(r)
        /\ cursor' = cursor /\ processed' = processed /\ failed' = failed /\ status' = status
        /\ \/ pc'[r] = "fetch" /\ outcome'[r] = outcome[r]
           \/ pc'[r] = "finish" /\ outcome'[r] # "succeeded"
    BY <1>5 DEF PollCancel, Goto, Return, TypeOK, loopVars, rowVars, Origin
  <2> QED
    BY <2>1 DEF Counting, CountedUpTo
<1>6. CASE FetchBatch(r)
  BY <1>6, FetchCounting
<1>7. CASE InsertBatch(r)
  BY <1>7, InsertCounting
<1>8. CASE SaveProgress(r)
  BY <1>8, SaveCounting
<1>9. CASE FinishRunRow(r)
  <2>1. /\ pc[r] = "finish" /\ pc'[r] = "task" /\ Origin(r)' = Origin(r)
        /\ processed' = processed /\ failed' = failed /\ outcome' = outcome
    BY <1>9 DEF FinishRunRow, Goto, TypeOK, loopVars, Origin
  <2>2. \/ /\ status'[r] = TerminalStatus(outcome[r])
           /\ dbProcessed'[r] = FinalCounts(r)[1] /\ dbFailed'[r] = FinalCounts(r)[2]
        \/ status' = status /\ dbProcessed' = dbProcessed /\ dbFailed' = dbFailed
    BY <1>9 DEF FinishRunRow, TypeOK
  <2>3. status'[r] = "succeeded" =>
          outcome[r] = "succeeded" /\ dbProcessed'[r] = processed[r] /\ dbFailed'[r] = failed[r]
    BY <2>2 DEF Counting, TerminalStatus, FinalCounts
  <2> QED
    BY <2>1, <2>3 DEF Counting, CountedAll
<1>10. CASE UpdateTaskStatus(r) \/ Notify(r) \/ ReleaseTask(r)
  <2>1. /\ pc[r] \in {"task", "notify", "release"} /\ pc'[r] \in {"notify", "release", "done"}
        /\ Origin(r)' = Origin(r)
        /\ processed' = processed /\ failed' = failed /\ outcome' = outcome /\ status' = status
        /\ dbProcessed' = dbProcessed /\ dbFailed' = dbFailed
    BY <1>10 DEF UpdateTaskStatus, Notify, ReleaseTask, Goto, TypeOK, loopVars, rowVars, Origin
  <2> QED
    BY <2>1 DEF Counting, CountedAll
<1> QED
  BY <1>1, <1>2, <1>3, <1>4, <1>5, <1>6, <1>7, <1>8, <1>9, <1>10 DEF RunStep

\* Every step of the system keeps the count of every run.
LEMMA NextCounting ==
    ASSUME Sparse, TypeOK, \A q \in RunId : Counting(q), [Next]_vars
    PROVE  \A q \in RunId : Counting(q)'
<1> SUFFICES ASSUME NEW q \in RunId
             PROVE  Counting(q)'
  OBVIOUS
<1>1. CASE ScanTasks \/ SkipTask \/ CancelTask \/ CronTick \/ UNCHANGED vars
  BY <1>1, CountingKept DEF ScanTasks, SkipTask, CancelTask, CronTick, vars, rowVars, loopVars
<1>2. CASE DispatchTask \/ RunTaskNow
  <2>1. PICK r \in RunId, by \in {"scheduler", "manual"} : StartRun(r, by)
    BY <1>2 DEF DispatchTask, RunTaskNow
  <2>2. /\ UNCHANGED <<resume, cursor, batch, processed, failed, outcome, status>>
        /\ UNCHANGED <<dbProcessed, dbFailed>>
    BY <1>2 DEF DispatchTask, RunTaskNow, rowVars, loopVars
  <2>3. \/ pc'[q] = pc[q]
        \/ pc[q] = "none" /\ pc'[q] = "resume"
    BY <2>1 DEF StartRun, TypeOK
  <2>4. CASE pc'[q] = pc[q]
    BY <2>2, <2>4, CountingKept
  <2>5. CASE pc[q] = "none" /\ pc'[q] = "resume"
    BY <2>2, <2>5 DEF Counting
  <2> QED
    BY <2>3, <2>4, <2>5
<1>3. CASE \E r \in RunId : RunStep(r)
  <2>1. PICK r \in RunId : RunStep(r)
    BY <1>3
  <2>2. CASE q = r
    BY <2>1, <2>2, StepCounting
  <2>3. CASE q # r
    BY <2>1, <2>3, Locality, CountingKept
  <2> QED
    BY <2>2, <2>3
<1>4. CASE Crash
  BY <1>4, CountingKept DEF Crash, rowVars, loopVars
<1> QED
  BY <1>1, <1>2, <1>3, <1>4 DEF Next

\* No run has counted anything before the first one starts.
LEMMA InitCounting == Init => \A r \in RunId : Counting(r)
  BY DEF Init, Counting

\* In a sparse table, whatever runs overlap, crash or are canceled: the counters
\* of a run that run_task stored as succeeded account for every source row from
\* its starting cursor on, each exactly once.
THEOREM Accounting ==
    ASSUME Sparse
    PROVE  Spec => []SucceededAccounting
<1>1. (\A r \in RunId : Counting(r)) => SucceededAccounting
  BY DEF Counting, CountedAll, SucceededAccounting
<1>2. TypeOK /\ (\A r \in RunId : Counting(r)) /\ [Next]_vars => (\A r \in RunId : Counting(r))'
  BY NextCounting
<1> QED
  BY <1>1, <1>2, InitCounting, TypeCorrect, PTL DEF Spec

----------------------------------------------------------------------------
(* Coverage: no resume skips a row *)

\* The rows that are in the target or that some run counted as failed.
Settled == {x \in Row : target[x] > 0 \/ \E q \in RunId : x \in failed[q]}

\* Every row before the cursors a run holds, saved and in memory, is settled:
\* the inductive strengthening of ResumePointCovered.
Coverage(r) ==
    /\ dbCursor[r] # NoCursor => Window(StartAt, dbCursor[r]) \subseteq Settled
    /\ resume[r] # NoCursor => Window(StartAt, resume[r]) \subseteq Settled
    /\ pc[r] \in {"truncate", "poll", "fetch", "insert", "progress"} =>
          Window(StartAt, cursor[r]) \subseteq Settled
    /\ pc[r] = "progress" => batch[r] \subseteq Settled
    /\ outcome[r] = "succeeded" => Window(StartAt, MaxTime + 1) \subseteq Settled

\* An INSERT adds rows to the target and takes none away.
LEMMA WrittenKeeps ==
    ASSUME TypeOK, NEW b \in SUBSET Row
    PROVE  \A x \in Row : /\ target[x] > 0 => Written(b)[x] > 0
                          /\ x \in b => Written(b)[x] > 0
  BY DEF Written, TypeOK

\* Only an effective TRUNCATE takes settled rows away.
LEMMA SettledKept ==
    ASSUME TypeOK, [Next]_vars, \A r \in RunId : MaybeTruncate(r) => target' = target
    PROVE  Settled \subseteq Settled'
<1>1. ASSUME target' = target,
             \A q \in RunId : failed[q] \subseteq failed'[q]
      PROVE  Settled \subseteq Settled'
  BY <1>1 DEF Settled
<1>2. CASE \/ ScanTasks \/ SkipTask \/ DispatchTask \/ RunTaskNow \/ CancelTask
           \/ CronTick \/ Crash \/ UNCHANGED vars
  BY <1>1, <1>2 DEF ScanTasks, SkipTask, DispatchTask, RunTaskNow, CancelTask, CronTick,
                    Crash, vars, loopVars
<1>3. ASSUME NEW r \in RunId, RunStep(r)
      PROVE  Settled \subseteq Settled'
  <2>1. CASE InsertBatch(r)
    <3>1. batch[r] \in SUBSET Row
      BY DEF TypeOK
    <3>2. \A q \in RunId : failed[q] \subseteq failed'[q]
      BY <2>1 DEF InsertBatch, InsertFails, TypeOK
    <3>3. target' = target \/ target' = Written(batch[r])
      BY <2>1 DEF InsertBatch, InsertFails
    <3> QED
      BY <3>1, <3>2, <3>3, WrittenKeeps DEF Settled
  <2>2. CASE MaybeTruncate(r)
    BY <1>1, <2>2 DEF MaybeTruncate, loopVars
  <2>3. CASE ReadResumeCursor(r) \/ OpenRunRow(r) \/ PrepareRun(r) \/ PollCancel(r)
    BY <1>1, <2>3 DEF ReadResumeCursor, OpenRunRow, PrepareRun, PollCancel, loopVars
  <2>4. CASE FetchBatch(r) \/ SaveProgress(r)
    BY <1>1, <2>4 DEF FetchBatch, SaveProgress
  <2>5. CASE FinishRunRow(r) \/ UpdateTaskStatus(r) \/ Notify(r) \/ ReleaseTask(r)
    BY <1>1, <2>5 DEF FinishRunRow, UpdateTaskStatus, Notify, ReleaseTask, loopVars
  <2> QED
    BY <1>3, <2>1, <2>2, <2>3, <2>4, <2>5 DEF RunStep
<1> QED
  BY <1>2, <1>3 DEF Next

\* What a run did not touch stays covered.
LEMMA CoverageKept ==
    ASSUME NEW q \in RunId, Coverage(q), Settled \subseteq Settled',
           pc'[q] = pc[q] \/ pc'[q] \notin {"truncate", "poll", "fetch", "insert", "progress"},
           dbCursor'[q] = dbCursor[q], resume'[q] = resume[q], cursor'[q] = cursor[q],
           batch'[q] = batch[q], outcome'[q] = outcome[q]
    PROVE  Coverage(q)'
  BY DEF Coverage, Window

\* Once a batch is settled, everything before the next cursor is; past
\* MAX(time_field) that is the whole table.
LEMMA CoverageAdvance ==
    ASSUME NEW c \in Nat, NEW S, Window(StartAt, c) \subseteq S,
           Window(c, AdvanceCursor(c)) \subseteq S
    PROVE  /\ Window(StartAt, AdvanceCursor(c)) \subseteq S
           /\ AdvanceCursor(c) > MaxTime => Window(StartAt, MaxTime + 1) \subseteq S
<1>1. \A x \in Row : TimeOf[x] \in Nat /\ TimeOf[x] <= MaxTime
  BY ConstAssumption
<1>2. AdvanceCursor(c) \in Nat /\ StartAt \in Nat /\ MaxTime \in Nat
  BY AdvanceType, ConstAssumption
<1> HIDE DEF AdvanceCursor
<1> QED
  BY <1>1, <1>2 DEF Window

\* The saved cursors stay covered: update_progress of one run writes a covered
\* cursor to every row that is running.
LEMMA SavedCursorCovered ==
    ASSUME TypeOK, NEW r \in RunId, RunStep(r), NEW q \in RunId,
           Coverage(r), Coverage(q), Settled \subseteq Settled'
    PROVE  dbCursor'[q] # NoCursor => Window(StartAt, dbCursor'[q]) \subseteq Settled'
<1>1. CASE SaveProgress(r)
  <2>1. dbCursor'[q] = dbCursor[q] \/ dbCursor'[q] = cursor[r]
    BY <1>1 DEF SaveProgress
  <2>2. Window(StartAt, cursor[r]) \subseteq Settled
    BY <1>1 DEF SaveProgress, Coverage
  <2> QED
    BY <2>1, <2>2 DEF Coverage
<1>2. CASE ~SaveProgress(r)
  <2>1. dbCursor' = dbCursor
    BY <1>2 DEF RunStep, ReadResumeCursor, OpenRunRow, PrepareRun, MaybeTruncate, PollCancel,
                FetchBatch, InsertBatch, FinishRunRow, UpdateTaskStatus, Notify, ReleaseTask,
                rowVars
  <2> QED
    BY <2>1 DEF Coverage
<1> QED
  BY <1>1, <1>2

\* A step of a run leaves everything before its own cursors settled.
LEMMA StepCoverage ==
    ASSUME Sparse, TypeOK, NEW r \in RunId, RunStep(r), Counting(r), Coverage(r),
           FindResumableCursor # NoCursor => Window(StartAt, FindResumableCursor) \subseteq Settled,
           Settled \subseteq Settled'
    PROVE  Coverage(r)'
<1> DEFINE Db == dbCursor'[r] # NoCursor => Window(StartAt, dbCursor'[r]) \subseteq Settled'
<1>1. Db
  BY SavedCursorCovered
<1>2. CASE ReadResumeCursor(r)
  <2>1. /\ pc'[r] = "open" /\ outcome' = outcome
        /\ resume'[r] = resume[r] \/ resume'[r] = FindResumableCursor
    BY <1>2 DEF ReadResumeCursor, Goto, TypeOK
  <2> QED
    BY <1>1, <2>1 DEF Coverage, Window
<1>3. CASE PrepareRun(r)
  <2>1. CASE /\ pc' = [pc EXCEPT ![r] = "truncate"] /\ outcome' = outcome /\ resume' = resume
             /\ cursor' = [cursor EXCEPT ![r] = Origin(r)]
    <3>1. pc'[r] = "truncate" /\ cursor'[r] = Origin(r)
      BY <2>1 DEF TypeOK
    <3>2. Window(StartAt, StartAt) = {}
      BY ConstAssumption DEF Window
    <3>3. Window(StartAt, Origin(r)) \subseteq Settled
      BY <3>2 DEF Origin, Coverage
    <3> QED
      BY <1>1, <2>1, <3>1, <3>3 DEF Coverage, Window
  <2>2. CASE /\ pc' = [pc EXCEPT ![r] = "finish"] /\ resume' = resume
             /\ outcome' = [outcome EXCEPT ![r] = "error"]
    <3>1. pc'[r] = "finish" /\ outcome'[r] = "error"
      BY <2>2 DEF TypeOK
    <3> QED
      BY <1>1, <2>2, <3>1 DEF Coverage, Window
  <2> QED
    BY <1>3, <2>1, <2>2 DEF PrepareRun, Goto, Return
<1>4. CASE MaybeTruncate(r) \/ PollCancel(r)
  <2>1. /\ pc[r] \in {"truncate", "poll"} /\ pc'[r] \in {"poll", "fetch", "finish"}
        /\ cursor' = cursor /\ resume' = resume
        /\ outcome'[r] = outcome[r] \/ outcome'[r] # "succeeded"
    BY <1>4 DEF MaybeTruncate, PollCancel, Goto, Return, TypeOK, loopVars
  <2> QED
    BY <1>1, <2>1 DEF Coverage, Window
<1>5. CASE FetchBatch(r)
  <2> DEFINE c == cursor[r]
             next == AdvanceCursor(c)
  <2>1. c \in Nat /\ SelectBatch(c, next) = {Window(c, next)} /\ resume' = resume
    BY <1>5, SparseBatch DEF Counting, FetchBatch
  <2>2. Window(StartAt, c) \subseteq Settled
    BY <1>5 DEF Coverage, FetchBatch
  <2>3. Window(c, next) = {} =>
           /\ Window(StartAt, next) \subseteq Settled
           /\ next > MaxTime => Window(StartAt, MaxTime + 1) \subseteq Settled
    BY <2>1, <2>2, CoverageAdvance
  <2>4. \/ pc'[r] = "insert" /\ cursor'[r] = c /\ outcome'[r] = outcome[r]
        \/ /\ Window(c, next) = {} /\ next > MaxTime
           /\ pc'[r] = "finish" /\ outcome'[r] = "succeeded"
        \/ /\ Window(c, next) = {}
           /\ pc'[r] = "poll" /\ cursor'[r] = next /\ outcome'[r] = outcome[r]
        \/ pc'[r] = "finish" /\ outcome'[r] = "error"
    BY <1>5, <2>1 DEF FetchBatch, Goto, Return, CursorGt, TypeOK
  <2> QED
    BY <1>1, <2>1, <2>2, <2>3, <2>4 DEF Coverage, Window
<1>6. CASE InsertBatch(r)
  <2>1. /\ pc[r] = "insert" /\ cursor' = cursor /\ resume' = resume /\ outcome' = outcome
        /\ batch' = batch /\ batch[r] \in SUBSET Row /\ pc'[r] \in {"insert", "progress"}
    BY <1>6 DEF InsertBatch, InsertFails, Goto, TypeOK
  <2>2. pc'[r] = "progress" => target' = Written(batch[r]) \/ batch[r] \subseteq failed'[r]
    BY <1>6 DEF InsertBatch, InsertFails, Goto, TypeOK
  <2>3. pc'[r] = "progress" => batch[r] \subseteq Settled'
    BY <2>1, <2>2, WrittenKeeps DEF Settled
  <2> QED
    BY <1>1, <2>1, <2>3 DEF Coverage, Window
<1>7. CASE SaveProgress(r)
  <2> DEFINE c == cursor[r]
             next == AdvanceCursor(c)
  <2>1. c \in Nat /\ batch[r] = Window(c, next) /\ resume' = resume
    BY <1>7 DEF Counting, SaveProgress
  <2>2. Window(StartAt, c) \subseteq Settled /\ Window(c, next) \subseteq Settled
    BY <1>7, <2>1 DEF Coverage, SaveProgress
  <2>3. /\ Window(StartAt, next) \subseteq Settled
        /\ next > MaxTime => Window(StartAt, MaxTime + 1) \subseteq Settled
    BY <2>1, <2>2, CoverageAdvance
  <2>4. \/ next > MaxTime /\ pc'[r] = "finish" /\ outcome'[r] = "succeeded"
        \/ pc'[r] = "poll" /\ cursor'[r] = next /\ outcome'[r] = outcome[r]
        \/ pc'[r] = "finish" /\ outcome'[r] = "error"
    BY <1>7 DEF SaveProgress, Goto, Return, CursorGt, TypeOK
  <2> QED
    BY <1>1, <2>1, <2>3, <2>4 DEF Coverage, Window
<1>8. CASE \/ OpenRunRow(r) \/ FinishRunRow(r) \/ UpdateTaskStatus(r) \/ Notify(r)
           \/ ReleaseTask(r)
  <2>1. /\ pc'[r] \in {"prepare", "task", "notify", "release", "done"}
        /\ resume' = resume /\ outcome' = outcome
    BY <1>8 DEF OpenRunRow, FinishRunRow, UpdateTaskStatus, Notify, ReleaseTask, Goto, TypeOK
  <2> QED
    BY <1>1, <2>1 DEF Coverage, Window
<1> QED
  BY <1>2, <1>3, <1>4, <1>5, <1>6, <1>7, <1>8 DEF RunStep

\* Every step of the system leaves everything before every cursor settled.
LEMMA NextCoverage ==
    ASSUME Sparse, Strategy # "truncate", TypeOK, [Next]_vars,
           \A q \in RunId : Counting(q), \A q \in RunId : Coverage(q)
    PROVE  \A q \in RunId : Coverage(q)'
<1> SUFFICES ASSUME NEW q \in RunId
             PROVE  Coverage(q)'
  OBVIOUS
<1>1. Settled \subseteq Settled'
  BY SettledKept DEF MaybeTruncate, TruncatesTarget
<1>2. CASE ScanTasks \/ SkipTask \/ CancelTask \/ CronTick \/ UNCHANGED vars
  BY <1>1, <1>2, CoverageKept
  DEF ScanTasks, SkipTask, CancelTask, CronTick, vars, rowVars, loopVars
<1>3. CASE DispatchTask \/ RunTaskNow
  <2>1. PICK r \in RunId, by \in {"scheduler", "manual"} : StartRun(r, by)
    BY <1>3 DEF DispatchTask, RunTaskNow
  <2>2. UNCHANGED <<dbCursor, resume, cursor, batch, outcome>>
    BY <1>3 DEF DispatchTask, RunTaskNow, rowVars, loopVars
  <2>3. pc'[q] = pc[q] \/ pc'[q] = "resume"
    BY <2>1 DEF StartRun, TypeOK
  <2> QED
    BY <1>1, <2>2, <2>3, CoverageKept
<1>4. CASE \E r \in RunId : RunStep(r)
  <2>1. PICK r \in RunId : RunStep(r)
    BY <1>4
  <2>2. CASE q = r
    <3>1. FindResumableCursor # NoCursor
            => Window(StartAt, FindResumableCursor) \subseteq Settled
      BY ResumableIn DEF Coverage
    <3> QED
      BY <1>1, <2>1, <2>2, <3>1, StepCoverage
  <2>3. CASE q # r
    <3>1. /\ pc'[q] = pc[q] /\ resume'[q] = resume[q] /\ cursor'[q] = cursor[q]
          /\ batch'[q] = batch[q] /\ outcome'[q] = outcome[q]
      BY <2>1, <2>3, Locality
    <3>2. dbCursor'[q] # NoCursor => Window(StartAt, dbCursor'[q]) \subseteq Settled'
      BY <1>1, <2>1, SavedCursorCovered
    <3> QED
      BY <1>1, <3>1, <3>2 DEF Coverage, Window
  <2> QED
    BY <2>2, <2>3
<1>5. CASE Crash
  BY <1>1, <1>5, CoverageKept DEF Crash, rowVars, loopVars
<1> QED
  BY <1>2, <1>3, <1>4, <1>5 DEF Next

\* Before the first run there is no cursor and no outcome.
LEMMA InitCoverage == Init => \A r \in RunId : Coverage(r)
  BY DEF Init, Coverage

\* In a sparse table that is not truncated, wherever find_resumable_cursor lets
\* the next run begin, no row before that point is missing, whatever runs
\* overlap, fail, crash or are canceled.
THEOREM ResumeCovered ==
    ASSUME Sparse, Strategy # "truncate"
    PROVE  Spec => []ResumePointCovered
<1>1. (\A r \in RunId : Coverage(r)) => ResumePointCovered
  BY ResumableIn DEF Coverage, ResumePointCovered, Covered, Settled
<1>2. /\ TypeOK /\ (\A r \in RunId : Counting(r)) /\ (\A r \in RunId : Coverage(r))
      /\ [Next]_vars
      => (\A r \in RunId : Coverage(r))'
  BY NextCoverage
<1>3. TypeOK /\ (\A r \in RunId : Counting(r)) /\ [Next]_vars => (\A r \in RunId : Counting(r))'
  BY NextCounting
<1> QED
  BY <1>1, <1>2, <1>3, InitCounting, InitCoverage, TypeCorrect, PTL DEF Spec

\* In a sparse table that is not truncated, a task whose latest run succeeded
\* has every source row in the target, apart from those counted as failed.
THEOREM LatestComplete ==
    ASSUME Sparse, Strategy # "truncate"
    PROVE  Spec => []LatestSucceededComplete
<1>1. (\A r \in RunId : Counting(r)) /\ (\A r \in RunId : Coverage(r)) => LatestSucceededComplete
  <2> SUFFICES ASSUME \A r \in RunId : Counting(r), \A r \in RunId : Coverage(r),
                      Opened # {}, status[LatestOf(Opened)] = "succeeded"
               PROVE  Covered(MaxTime + 1)
    BY DEF LatestSucceededComplete
  <2>1. LatestOf(Opened) \in RunId
    BY LatestIn DEF Opened
  <2>2. outcome[LatestOf(Opened)] = "succeeded"
    BY <2>1 DEF Counting
  <2>3. Window(StartAt, MaxTime + 1) \subseteq Settled
    BY <2>1, <2>2 DEF Coverage
  <2> QED
    BY <2>3 DEF Covered, Settled
<1>2. /\ TypeOK /\ (\A r \in RunId : Counting(r)) /\ (\A r \in RunId : Coverage(r))
      /\ [Next]_vars
      => (\A r \in RunId : Coverage(r))'
  BY NextCoverage
<1>3. TypeOK /\ (\A r \in RunId : Counting(r)) /\ [Next]_vars => (\A r \in RunId : Counting(r))'
  BY NextCounting
<1> QED
  BY <1>1, <1>2, <1>3, InitCounting, InitCoverage, TypeCorrect, PTL DEF Spec

----------------------------------------------------------------------------
(* The rows of the runs, their order, and cancellation *)

\* Between the INSERT of a run's row and its terminal UPDATE.
Body == {"prepare", "truncate", "poll", "fetch", "insert", "progress", "finish"}

\* Runs start in the order of their numbers.
InOrder == \A r \in RunId : pc[r] # "none" => \A q \in 1..(r - 1) : pc[q] # "none"

\* A run has a row only after it started, and a running one in its body.
RowOf(r) ==
    /\ pc[r] = "none" => status[r] = "none"
    /\ pc[r] \in Body => status[r] = "running"

\* A live run is the newest of all, and the scheduler started it.
Newest(r) ==
    /\ pc[r] # "none" => trigger[r] = "scheduler"
    /\ pc[r] \in Live => \A q \in RunId : q > r => pc[q] = "none"

CancelInv == InOrder /\ \A r \in RunId : RowOf(r) /\ Newest(r)

\* A step of one run leaves place and row of every other run alone.
LEMMA RunFrame ==
    ASSUME TypeOK, NEW r \in RunId, RunStep(r), RowOf(r)
    PROVE  /\ pc[r] \in Live /\ pc'[r] \in Live \cup {"done"}
           /\ \A q \in RunId \ {r} : pc'[q] = pc[q] /\ status'[q] = status[q]
           /\ UNCHANGED trigger
           /\ RowOf(r)'
<1> USE DEF Live, Body, RowOf, TypeOK, Goto, Return, rowVars
<1>1. CASE ReadResumeCursor(r)
  BY <1>1 DEF ReadResumeCursor
<1>2. CASE OpenRunRow(r)
  BY <1>2 DEF OpenRunRow
<1>3. CASE PrepareRun(r)
  BY <1>3 DEF PrepareRun
<1>4. CASE MaybeTruncate(r)
  BY <1>4 DEF MaybeTruncate
<1>5. CASE PollCancel(r)
  BY <1>5 DEF PollCancel
<1>6. CASE FetchBatch(r)
  BY <1>6 DEF FetchBatch
<1>7. CASE InsertBatch(r)
  BY <1>7 DEF InsertBatch, InsertFails
<1>8. CASE SaveProgress(r)
  BY <1>8 DEF SaveProgress
<1>9. CASE FinishRunRow(r)
  BY <1>9 DEF FinishRunRow
<1>10. CASE UpdateTaskStatus(r)
  BY <1>10 DEF UpdateTaskStatus
<1>11. CASE Notify(r)
  BY <1>11 DEF Notify
<1>12. CASE ReleaseTask(r)
  BY <1>12 DEF ReleaseTask
<1> QED
  BY <1>1, <1>2, <1>3, <1>4, <1>5, <1>6, <1>7, <1>8, <1>9, <1>10, <1>11, <1>12
  DEF RunStep

\* Without manual runs the order of runs is kept: the scheduler starts one only
\* when none is live.
LEMMA NextCancelInv ==
    ASSUME ~ManualRuns, TypeOK, ScheduledRunsExclusive, CancelInv, [Next]_vars
    PROVE  CancelInv'
<1>1. ASSUME UNCHANGED <<pc, trigger, status>> PROVE CancelInv'
  BY <1>1 DEF CancelInv, InOrder, RowOf, Newest
<1>2. CASE ScanTasks \/ SkipTask \/ CancelTask \/ CronTick \/ UNCHANGED vars
  BY <1>1, <1>2 DEF ScanTasks, SkipTask, CancelTask, CronTick, vars, rowVars
<1>3. CASE DispatchTask
  <2>1. PICK r \in RunId : StartRun(r, "scheduler")
    BY <1>3 DEF DispatchTask
  <2>2. UNCHANGED status
    BY <1>3 DEF DispatchTask, rowVars
  <2>3. \A q \in RunId : pc[q] \notin Live
    BY <1>3 DEF DispatchTask, TryAcquire, ScheduledRunsExclusive, Active, CancelInv, Newest, Live
  <2>4. /\ pc[r] = "none" /\ pc'[r] = "resume" /\ trigger'[r] = "scheduler"
        /\ \A q \in RunId \ {r} : pc'[q] = pc[q] /\ trigger'[q] = trigger[q]
        /\ \A q \in 1..(r - 1) : pc[q] # "none"
    BY <2>1 DEF StartRun, TypeOK
  <2>5. \A q \in RunId : q > r => pc[q] = "none"
    <3>1. ASSUME NEW q \in RunId, q > r, pc[q] # "none" PROVE FALSE
      <4>1. r \in 1..(q - 1)
        BY <3>1, ConstAssumption DEF RunId
      <4> QED
        BY <2>4, <3>1, <4>1 DEF CancelInv, InOrder
    <3> QED
      BY <3>1
  <2>6. InOrder'
    <3>1. ASSUME NEW s \in RunId, pc'[s] # "none", NEW q \in 1..(s - 1)
          PROVE  pc'[q] # "none"
      <4>1. q \in RunId
        BY <3>1, ConstAssumption DEF RunId
      <4>2. CASE q = r
        BY <2>4, <4>2
      <4>3. CASE q # r /\ s = r
        BY <2>4, <4>1, <4>3
      <4>4. CASE q # r /\ s # r
        BY <2>4, <3>1, <4>1, <4>4 DEF CancelInv, InOrder
      <4> QED
        BY <4>2, <4>3, <4>4
    <3> QED
      BY <3>1 DEF InOrder
  <2>7. ASSUME NEW s \in RunId PROVE RowOf(s)' /\ Newest(s)'
    <3>1. CASE s = r
      <4>1. RowOf(r)'
        BY <2>4 DEF RowOf, Body
      <4>2. Newest(r)'
        <5>1. \A q \in RunId : q > r => q # r
          BY ConstAssumption DEF RunId
        <5> QED
          BY <2>4, <2>5, <5>1 DEF Newest
      <4> QED
        BY <3>1, <4>1, <4>2
    <3>2. CASE s # r
      BY <2>2, <2>3, <2>4, <3>2 DEF RowOf, Newest, CancelInv
    <3> QED
      BY <3>1, <3>2
  <2> QED
    BY <2>6, <2>7 DEF CancelInv
<1>4. CASE RunTaskNow
  BY <1>4 DEF RunTaskNow
<1>5. ASSUME NEW r \in RunId, RunStep(r) PROVE CancelInv'
  <2>1. /\ pc[r] \in Live /\ pc'[r] \in Live \cup {"done"}
        /\ \A q \in RunId \ {r} : pc'[q] = pc[q] /\ status'[q] = status[q]
        /\ UNCHANGED trigger
        /\ RowOf(r)'
    BY <1>5, RunFrame DEF CancelInv
  <2>2. \A q \in RunId : (pc'[q] = "none" <=> pc[q] = "none") /\ (pc'[q] \in Live => pc[q] \in Live)
    BY <2>1 DEF Live
  <2>3. \A s \in RunId : \A q \in 1..(s - 1) : q \in RunId
    BY ConstAssumption DEF RunId
  <2>4. InOrder'
    BY <2>2, <2>3 DEF CancelInv, InOrder
  <2>5. \A s \in RunId : Newest(s)'
    BY <2>1, <2>2 DEF CancelInv, Newest
  <2>6. \A s \in RunId : RowOf(s)'
    BY <2>1 DEF CancelInv, RowOf
  <2> QED
    BY <2>4, <2>5, <2>6 DEF CancelInv
<1>6. CASE Crash
  <2>1. /\ UNCHANGED <<status, trigger>>
        /\ pc' = [r \in RunId |-> IF r \in Active THEN "dead" ELSE pc[r]]
    BY <1>6 DEF Crash, rowVars
  <2>2. \A q \in RunId : /\ pc'[q] = "none" <=> pc[q] = "none"
                         /\ pc'[q] \notin Live
    BY <2>1 DEF Active, Live
  <2>3. \A s \in RunId : \A q \in 1..(s - 1) : q \in RunId
    BY ConstAssumption DEF RunId
  <2>4. InOrder'
    BY <2>2, <2>3 DEF CancelInv, InOrder
  <2>5. \A s \in RunId : RowOf(s)' /\ Newest(s)'
    BY <2>1, <2>2 DEF CancelInv, RowOf, Newest, Body, Live
  <2> QED
    BY <2>4, <2>5 DEF CancelInv
<1> QED
  BY <1>2, <1>3, <1>4, <1>5, <1>6 DEF Next

\* The order of runs is an invariant of the scheduler alone.
LEMMA CancelInvariant ==
    ASSUME ~ManualRuns
    PROVE  Spec => []CancelInv
<1>1. Init => CancelInv
  BY DEF Init, CancelInv, InOrder, RowOf, Newest, Body, Live
<1> QED
  BY <1>1, TypeCorrect, ScheduledExclusive, NextCancelInv, PTL DEF Spec

\* Every run's row follows its place, also when runs overlap.
LEMMA RowsInvariant == Spec => [](\A r \in RunId : RowOf(r))
<1>1. Init => \A r \in RunId : RowOf(r)
  BY DEF Init, RowOf, Body
<1>2. TypeOK /\ (\A r \in RunId : RowOf(r)) /\ [Next]_vars => (\A r \in RunId : RowOf(r))'
  <2> SUFFICES ASSUME TypeOK, \A r \in RunId : RowOf(r), [Next]_vars, NEW s \in RunId
               PROVE  RowOf(s)'
    OBVIOUS
  <2>1. ASSUME NEW r \in RunId, RunStep(r) PROVE RowOf(s)'
    <3>1. /\ \A q \in RunId \ {r} : pc'[q] = pc[q] /\ status'[q] = status[q]
          /\ RowOf(r)'
      BY <2>1, RunFrame
    <3> QED
      BY <3>1 DEF RowOf
  <2>2. ASSUME NEW r \in RunId, NEW by, StartRun(r, by), UNCHANGED status PROVE RowOf(s)'
    BY <2>2 DEF StartRun, RowOf, Body, TypeOK
  <2>3. CASE Crash
    BY <2>3 DEF Crash, RowOf, Body, rowVars, Active, Live
  <2>4. CASE ScanTasks \/ SkipTask \/ CancelTask \/ CronTick \/ UNCHANGED vars
    BY <2>4 DEF ScanTasks, SkipTask, CancelTask, CronTick, vars, rowVars, RowOf
  <2> QED
    BY <2>1, <2>2, <2>3, <2>4 DEF Next, DispatchTask, RunTaskNow, rowVars
<1> QED
  BY <1>1, <1>2, TypeCorrect, PTL DEF Spec

\* With manual runs, for any number of overlapping runs, crashes and faults: a run
\* whose row carries cancel_requested takes another batch only while a newer run
\* has a running row without the flag, the row check_cancel then reads (runner.rs).
THEOREM CancelMissedOnlyBehindNewer == Spec => CancelMissedOnlyBehindNewerRun
<1>1. ASSUME TypeOK, \A r \in RunId : RowOf(r), [Next]_vars, NEW r \in RunId,
             pc[r] = "poll", cancelReq[r], pc'[r] = "fetch"
      PROVE  \E q \in Running : q > r /\ ~cancelReq[q]
  <2>1. r \in Running
    BY <1>1 DEF RowOf, Body, Running
  <2>2. ASSUME NEW q \in RunId, RunStep(q), q # r PROVE FALSE
    BY <1>1, <2>2, RunFrame
  <2>3. ~RunStep(r) => FALSE
    <3>1. ASSUME NEW q \in RunId, NEW by, StartRun(q, by) PROVE FALSE
      BY <1>1, <3>1 DEF StartRun, TypeOK
    <3>2. CASE Crash
      BY <1>1, <3>2 DEF Crash
    <3>3. CASE ScanTasks \/ SkipTask \/ CancelTask \/ CronTick \/ UNCHANGED vars
      BY <1>1, <3>3 DEF ScanTasks, SkipTask, CancelTask, CronTick, vars
    <3> QED
      BY <1>1, <2>2, <3>1, <3>2, <3>3 DEF Next, DispatchTask, RunTaskNow
  <2>4. PollCancel(r)
    BY <1>1, <2>3 DEF RunStep, ReadResumeCursor, OpenRunRow, PrepareRun, MaybeTruncate,
       FetchBatch, InsertBatch, SaveProgress, FinishRunRow, UpdateTaskStatus, Notify, ReleaseTask
  <2>5. ~CancelSeen
    BY <1>1, <2>4 DEF PollCancel, Goto, Return, TypeOK
  <2>6. LatestOf(Running) \in Running /\ r <= LatestOf(Running)
    BY <2>1, LatestNewest DEF Running
  <2>7. ~cancelReq[LatestOf(Running)]
    BY <2>1, <2>5 DEF CancelSeen
  <2>8. LatestOf(Running) # r
    BY <1>1, <2>7
  <2>9. LatestOf(Running) > r
    BY <2>6, <2>8, ConstAssumption DEF Running, RunId
  <2> QED
    BY <2>6, <2>7, <2>9
<1>2. TypeOK /\ (\A r \in RunId : RowOf(r)) /\ [Next]_vars
        => [\A r \in RunId : (pc[r] = "poll" /\ cancelReq[r] /\ pc'[r] = "fetch")
                => \E q \in Running : q > r /\ ~cancelReq[q]]_vars
  BY <1>1
<1> QED
  BY <1>2, TypeCorrect, RowsInvariant, PTL DEF Spec, CancelMissedOnlyBehindNewerRun

----------------------------------------------------------------------------
(* Coverage of a truncated table, when only the scheduler starts runs *)

\* The runs whose cursors still count: the live one and the newest with a row.
Held(r) ==
    \/ pc[r] \in Live
    \/ status[r] # "none" /\ \A q \in RunId : q > r => status[q] = "none"

\* A run that has not passed its truncate step has saved nothing, and one that is
\* about to store its status has an outcome.
Fresh(r) ==
    /\ pc[r] \in {"none", "resume"} => resume[r] = NoCursor
    /\ pc[r] \in {"none", "resume", "open", "prepare", "truncate"} => dbCursor[r] = NoCursor
    /\ pc[r] = "truncate" => cursor[r] = Origin(r)
    /\ pc[r] = "finish" => outcome[r] # "none"

HeldCoverage == \A r \in RunId : Fresh(r) /\ (Held(r) => Coverage(r))

\* Two runs are never live at once.
LEMMA OneLive ==
    ASSUME CancelInv, NEW q \in RunId, NEW r \in RunId, pc[q] \in Live, pc[r] \in Live
    PROVE  q = r
<1>1. q \in Int /\ r \in Int
  BY ConstAssumption DEF RunId
<1>2. ~(q > r) /\ ~(r > q)
  BY DEF CancelInv, Newest, Live
<1> QED
  BY <1>1, <1>2

\* Where find_resumable_cursor points was saved by a run that still counts.
LEMMA ResumableHeld ==
    ASSUME HeldCoverage
    PROVE  FindResumableCursor # NoCursor
             => Window(StartAt, FindResumableCursor) \subseteq Settled
<1> SUFFICES ASSUME FindResumableCursor # NoCursor
             PROVE  Window(StartAt, FindResumableCursor) \subseteq Settled
  OBVIOUS
<1> DEFINE m == LatestOf(Opened)
<1>1. Opened # {} /\ FindResumableCursor = dbCursor[m]
  BY DEF FindResumableCursor
<1>2. \E r \in Opened : \A q \in Opened : q <= r
  BY <1>1, MaxExists, ConstAssumption DEF RunId, Opened
<1>3. m \in Opened /\ \A q \in Opened : q <= m
  BY <1>2 DEF LatestOf
<1>4. m \in RunId /\ status[m] # "none"
  BY <1>3 DEF Opened
<1> HIDE DEF m
<1>5. ASSUME NEW q \in RunId, q > m PROVE status[q] = "none"
  <2>1. q \in Int /\ m \in Int
    BY <1>4, ConstAssumption DEF RunId
  <2> QED
    BY <1>3, <1>5, <2>1 DEF Opened
<1>6. Coverage(m)
  BY <1>4, <1>5 DEF HeldCoverage, Held
<1> QED
  BY <1>1, <1>6 DEF Coverage

\* No step but the start of a run makes a run count that did not before.
LEMMA HeldBack ==
    ASSUME TypeOK, CancelInv, NEW r \in RunId, RunStep(r), Fresh(r), NEW q \in RunId, Held(q)'
    PROVE  Held(q)
<1>1. /\ pc[r] \in Live
      /\ \A p \in RunId \ {r} : pc'[p] = pc[p] /\ status'[p] = status[p]
  BY RunFrame DEF CancelInv
<1>2. status'[r] = "none" => status[r] = "none"
  BY DEF RunStep, ReadResumeCursor, OpenRunRow, PrepareRun, MaybeTruncate, PollCancel, FetchBatch,
     InsertBatch, SaveProgress, FinishRunRow, UpdateTaskStatus, Notify, ReleaseTask, rowVars,
     TerminalStatus, TypeOK, Fresh
<1>3. CASE q = r
  BY <1>1, <1>3 DEF Held
<1>4. CASE q # r
  BY <1>1, <1>2, <1>4 DEF Held
<1> QED
  BY <1>3, <1>4

\* Before its truncate step a run's row keeps its empty cursor: nobody else is live
\* to write it.
LEMMA FreshKept ==
    ASSUME TypeOK, CancelInv, NEW r \in RunId, RunStep(r), NEW q \in RunId, Fresh(q)
    PROVE  Fresh(q)'
<1>1. /\ pc[r] \in Live /\ pc'[r] \in Live \cup {"done"}
      /\ \A p \in RunId \ {r} : pc'[p] = pc[p]
  BY RunFrame DEF CancelInv
<1>2. CASE q # r
  <2>1. /\ pc'[q] = pc[q] /\ resume'[q] = resume[q] /\ cursor'[q] = cursor[q]
        /\ outcome'[q] = outcome[q]
    BY <1>2, Locality
  <2>2. pc[q] \in {"none", "resume", "open", "prepare", "truncate"} => q \notin Running
    <3>1. pc[q] \notin Live
      BY <1>1, <1>2, OneLive
    <3> QED
      BY <3>1 DEF Live, CancelInv, RowOf, Running
  <2>3. q \notin Running => dbCursor'[q] = dbCursor[q]
    BY DEF RunStep, ReadResumeCursor, OpenRunRow, PrepareRun, MaybeTruncate, PollCancel, FetchBatch,
       InsertBatch, SaveProgress, FinishRunRow, UpdateTaskStatus, Notify, ReleaseTask, rowVars
  <2> QED
    BY <2>1, <2>2, <2>3 DEF Fresh, Origin
<1>3. CASE q = r
  <2>1. CASE ReadResumeCursor(r)
    BY <1>3, <2>1 DEF ReadResumeCursor, Goto, TypeOK, Fresh, rowVars
  <2>2. CASE OpenRunRow(r)
    BY <1>3, <2>2 DEF OpenRunRow, Goto, TypeOK, Fresh
  <2>3. CASE PrepareRun(r)
    BY <1>3, <2>3 DEF PrepareRun, Goto, Return, TypeOK, Fresh, Origin, rowVars
  <2>4. CASE ~ReadResumeCursor(r) /\ ~OpenRunRow(r) /\ ~PrepareRun(r)
    <3>1. pc'[r] \notin {"none", "resume", "open", "prepare", "truncate"}
      BY <2>4 DEF RunStep, MaybeTruncate, PollCancel, FetchBatch, InsertBatch, InsertFails,
         SaveProgress, FinishRunRow, UpdateTaskStatus, Notify, ReleaseTask, Goto, Return, TypeOK
    <3>2. pc'[r] = "finish" => outcome'[r] # "none"
      BY <2>4 DEF RunStep, MaybeTruncate, PollCancel, FetchBatch, InsertBatch, InsertFails,
         SaveProgress, FinishRunRow, UpdateTaskStatus, Notify, ReleaseTask, Goto, Return, TypeOK
    <3> QED
      BY <1>3, <3>1, <3>2 DEF Fresh
  <2> QED
    BY <2>1, <2>2, <2>3, <2>4
<1> QED
  BY <1>2, <1>3

\* A TRUNCATE is the fresh start of the only run that counts.
LEMMA TruncateCovers ==
    ASSUME Pair \in {"mysql_mysql", "clickhouse", "doris"}, TypeOK, CancelInv, HeldCoverage,
           NEW r \in RunId, MaybeTruncate(r), TruncatesTarget(r), Counting(r),
           NEW q \in RunId, Held(q)'
    PROVE  Coverage(q)'
<1>1. /\ pc[r] = "truncate" /\ pc'[r] = "poll"
      /\ UNCHANGED <<status, dbCursor, resume, cursor, batch, outcome>>
      /\ \A p \in RunId \ {r} : pc'[p] = pc[p]
  BY DEF MaybeTruncate, Goto, TypeOK, rowVars, loopVars
<1>2. CASE q # r
  <2>1. pc[q] \notin Live
    BY <1>1, <1>2, OneLive DEF Live
  <2>2. status[q] # "none" /\ \A p \in RunId : p > q => status[p] = "none"
    BY <1>1, <1>2, <2>1 DEF Held
  <2>3. status[r] = "running" /\ ~(r > q)
    BY <1>1, <2>2 DEF CancelInv, RowOf, Body
  <2>4. q > r
    BY <1>2, <2>3, ConstAssumption DEF RunId
  <2>5. pc[q] = "none"
    BY <1>1, <2>4 DEF CancelInv, Newest, Live
  <2> QED
    BY <2>2, <2>5 DEF CancelInv, RowOf
<1>3. CASE q = r
  <2>1. resume[r] = NoCursor
    BY DEF TruncatesTarget, IsResumeArg
  <2>2. dbCursor[r] = NoCursor /\ cursor[r] = StartAt
    BY <1>1, <2>1 DEF HeldCoverage, Fresh, Origin
  <2>3. outcome[r] # "succeeded"
    BY <1>1 DEF Counting
  <2>4. Window(StartAt, StartAt) = {}
    BY ConstAssumption DEF Window
  <2> QED
    BY <1>1, <1>3, <2>1, <2>2, <2>3, <2>4 DEF Coverage, Window
<1> QED
  BY <1>2, <1>3

\* Every step of the system keeps the runs that count covered.
LEMMA NextHeld ==
    ASSUME Sparse, Pair \in {"mysql_mysql", "clickhouse", "doris"}, ~ManualRuns, TypeOK,
           CancelInv, \A q \in RunId : Counting(q), HeldCoverage, [Next]_vars
    PROVE  HeldCoverage'
<1> SUFFICES ASSUME NEW q \in RunId PROVE Fresh(q)' /\ (Held(q)' => Coverage(q)')
  BY DEF HeldCoverage
<1>f. Fresh(q) /\ (Held(q) => Coverage(q))
  BY DEF HeldCoverage
<1>1. CASE ScanTasks \/ SkipTask \/ CancelTask \/ CronTick \/ UNCHANGED vars
  <2>1. UNCHANGED <<pc, status, dbCursor, resume, cursor, batch, outcome, target, failed>>
    BY <1>1 DEF ScanTasks, SkipTask, CancelTask, CronTick, vars, rowVars, loopVars
  <2>2. Settled' = Settled
    BY <2>1 DEF Settled
  <2>3. Fresh(q)' /\ (Held(q)' => Held(q))
    BY <1>f, <2>1 DEF Fresh, Held, Origin
  <2> QED
    BY <1>f, <2>1, <2>2, <2>3, CoverageKept
<1>2. CASE DispatchTask
  <2>1. PICK r \in RunId : StartRun(r, "scheduler")
    BY <1>2 DEF DispatchTask
  <2>2. UNCHANGED <<status, dbCursor, resume, cursor, batch, outcome, target, failed>>
    BY <1>2 DEF DispatchTask, rowVars, loopVars
  <2>3. Settled' = Settled
    BY <2>2 DEF Settled
  <2>4. /\ pc[r] = "none" /\ pc'[r] = "resume"
        /\ \A p \in RunId \ {r} : pc'[p] = pc[p]
    BY <2>1 DEF StartRun, TypeOK
  <2>5. CASE q = r
    <3>1. resume[q] = NoCursor /\ dbCursor[q] = NoCursor /\ outcome[q] # "succeeded"
      BY <1>f, <2>4, <2>5 DEF Fresh, Counting
    <3> QED
      BY <2>2, <2>4, <2>5, <3>1 DEF Fresh, Coverage
  <2>6. CASE q # r
    <3>1. Fresh(q)' /\ (Held(q)' => Held(q))
      BY <1>f, <2>2, <2>4, <2>6 DEF Fresh, Held, Origin
    <3> QED
      BY <1>f, <2>2, <2>3, <2>4, <2>6, <3>1, CoverageKept
  <2> QED
    BY <2>5, <2>6
<1>3. CASE RunTaskNow
  BY <1>3 DEF RunTaskNow
<1>4. ASSUME NEW r \in RunId, RunStep(r) PROVE Fresh(q)' /\ (Held(q)' => Coverage(q)')
  <2>1. Fresh(q)'
    BY <1>4, <1>f, FreshKept
  <2>2. ASSUME Held(q)' PROVE Coverage(q)'
    <3>1. CASE MaybeTruncate(r) /\ TruncatesTarget(r)
      BY <2>2, <3>1, TruncateCovers
    <3>2. CASE ~(MaybeTruncate(r) /\ TruncatesTarget(r))
      <4>1. ASSUME NEW p \in RunId, MaybeTruncate(p) PROVE target' = target
        <5>1. p = r
          <6>1. pc'[p] # pc[p]
            BY <4>1 DEF MaybeTruncate, Goto, TypeOK
          <6> QED
            BY <1>4, <6>1, RunFrame DEF CancelInv
        <5> QED
          BY <3>2, <4>1, <5>1 DEF MaybeTruncate
      <4>2. Settled \subseteq Settled'
        BY <4>1, SettledKept
      <4>3. pc[r] \in Live
        BY <1>4, RunFrame DEF CancelInv
      <4>4. Coverage(r) /\ Coverage(q)
        <5>1. Held(q)
          BY <1>4, <2>2, HeldBack DEF HeldCoverage
        <5>2. Held(r)
          BY <4>3 DEF Held
        <5> QED
          BY <5>1, <5>2 DEF HeldCoverage
      <4>5. CASE q = r
        BY <1>4, <4>2, <4>4, <4>5, ResumableHeld, StepCoverage
      <4>6. CASE q # r
        <5>1. /\ pc'[q] = pc[q] /\ resume'[q] = resume[q] /\ cursor'[q] = cursor[q]
              /\ batch'[q] = batch[q] /\ outcome'[q] = outcome[q]
          BY <1>4, <4>6, Locality
        <5>2. dbCursor'[q] # NoCursor => Window(StartAt, dbCursor'[q]) \subseteq Settled'
          BY <1>4, <4>2, <4>4, SavedCursorCovered
        <5> QED
          BY <4>2, <4>4, <5>1, <5>2 DEF Coverage, Window
      <4> QED
        BY <4>5, <4>6
    <3> QED
      BY <3>1, <3>2
  <2> QED
    BY <2>1, <2>2
<1>5. CASE Crash
  <2>1. /\ UNCHANGED <<status, dbCursor, resume, cursor, batch, outcome, target, failed>>
        /\ pc'[q] = pc[q] \/ pc'[q] = "dead"
        /\ pc'[q] \notin Live
    BY <1>5 DEF Crash, rowVars, loopVars, Active, Live
  <2>2. Settled' = Settled
    BY <2>1 DEF Settled
  <2>3. Fresh(q)' /\ (Held(q)' => Held(q))
    BY <1>f, <2>1 DEF Fresh, Held, Origin
  <2> QED
    BY <1>f, <2>1, <2>2, <2>3, CoverageKept
<1> QED
  BY <1>1, <1>2, <1>3, <1>4, <1>5 DEF Next

\* Before the first run nothing counts.
LEMMA InitHeld == Init => HeldCoverage
  BY DEF Init, HeldCoverage, Held, Fresh, Live

\* The invariants of the truncated table hold together.
LEMMA HeldInvariant ==
    ASSUME Sparse, Pair \in {"mysql_mysql", "clickhouse", "doris"}, ~ManualRuns
    PROVE  Spec => []HeldCoverage
<1>1. TypeOK /\ CancelInv /\ (\A r \in RunId : Counting(r)) /\ HeldCoverage /\ [Next]_vars
        => HeldCoverage'
  BY NextHeld
<1>2. TypeOK /\ (\A r \in RunId : Counting(r)) /\ [Next]_vars => (\A r \in RunId : Counting(r))'
  BY NextCounting
<1> QED
  BY <1>1, <1>2, InitCounting, InitHeld, TypeCorrect, CancelInvariant, PTL DEF Spec

\* In a sparse table, whatever the target strategy, for the driver pairs that pass
\* is_resume as it is meant and without manual runs: no resume skips a row, although a
\* fresh run empties the table under the cursors that older rows still hold.
THEOREM TruncateResumeCovered ==
    ASSUME Sparse, Pair \in {"mysql_mysql", "clickhouse", "doris"}, ~ManualRuns
    PROVE  Spec => []ResumePointCovered
<1>1. HeldCoverage => ResumePointCovered
  BY ResumableHeld DEF ResumePointCovered, Covered, Settled
<1> QED
  BY <1>1, HeldInvariant, PTL

\* Under the same conditions, a task whose latest run says succeeded has every source
\* row in the target, apart from those counted as failed, with the truncate strategy too.
THEOREM TruncateLatestComplete ==
    ASSUME Sparse, Pair \in {"mysql_mysql", "clickhouse", "doris"}, ~ManualRuns
    PROVE  Spec => []LatestSucceededComplete
<1>1. HeldCoverage /\ (\A r \in RunId : Counting(r)) => LatestSucceededComplete
  <2> SUFFICES ASSUME HeldCoverage, \A r \in RunId : Counting(r),
                      Opened # {}, status[LatestOf(Opened)] = "succeeded"
               PROVE  Covered(MaxTime + 1)
    BY DEF LatestSucceededComplete
  <2>1. PICK m : m = LatestOf(Opened)
    OBVIOUS
  <2>2. \E r \in Opened : \A q \in Opened : q <= r
    BY MaxExists, ConstAssumption DEF RunId, Opened
  <2>3. m \in Opened /\ \A q \in Opened : q <= m
    BY <2>1, <2>2 DEF LatestOf
  <2>4. m \in RunId /\ outcome[m] = "succeeded"
    BY <2>1, <2>3 DEF Opened, Counting
  <2>5. ASSUME NEW q \in RunId, q > m PROVE status[q] = "none"
    <3>1. q \in Int /\ m \in Int
      BY <2>4, ConstAssumption DEF RunId
    <3> QED
      BY <2>3, <2>5, <3>1 DEF Opened
  <2>6. Coverage(m)
    BY <2>3, <2>4, <2>5 DEF HeldCoverage, Held, Opened
  <2> QED
    BY <2>4, <2>6 DEF Coverage, Covered, Settled
<1>2. TypeOK /\ (\A r \in RunId : Counting(r)) /\ [Next]_vars => (\A r \in RunId : Counting(r))'
  BY NextCounting
<1> QED
  BY <1>1, <1>2, InitCounting, TypeCorrect, HeldInvariant, PTL DEF Spec

----------------------------------------------------------------------------
(* The scheduler takes the task before it runs it *)

TaskId == "task"
HeldTasks == IF inFlight THEN {TaskId} ELSE {}
WorkOf == [t \in {TaskId} |-> Scheduled]

\* InFlightTasks as a lock of the runs the scheduler has started.
Lock == INSTANCE TaskLock WITH Task <- {TaskId}, Run <- RunId, held <- HeldTasks, work <- WorkOf

\* What a step does to the lock is what it does to the task's id and its scheduled runs.
LEMMA LockStep ==
    TypeOK /\ ScheduledRunsExclusive /\ [Next]_vars => [Lock!Next]_(Lock!vars)
<1> SUFFICES ASSUME TypeOK, ScheduledRunsExclusive, [Next]_vars
             PROVE  [Lock!Next]_(Lock!vars)
  OBVIOUS
<1>0. (inFlight <=> Scheduled # {}) /\ \A q, r \in Scheduled : q = r
  BY DEF ScheduledRunsExclusive, Scheduled
<1>1. ASSUME Scheduled' = Scheduled, inFlight' = inFlight PROVE UNCHANGED Lock!vars
  BY <1>1 DEF Lock!vars, HeldTasks, WorkOf
<1>2. ASSUME UNCHANGED <<pc, trigger, inFlight>> PROVE UNCHANGED Lock!vars
  BY <1>1, <1>2 DEF Scheduled, Active
<1>3. ASSUME NEW r \in RunId, NEW by \in {"scheduler", "manual"}, StartRun(r, by)
      PROVE  Scheduled' = IF by = "scheduler" THEN Scheduled \cup {r} ELSE Scheduled
  <2>1. pc[r] \notin Live /\ pc'[r] \in Live /\ trigger'[r] = by
    BY <1>3 DEF StartRun, TypeOK, Live
  <2>2. \A q \in RunId \ {r} : pc'[q] = pc[q] /\ trigger'[q] = trigger[q]
    BY <1>3 DEF StartRun, TypeOK
  <2> QED
    BY <2>1, <2>2 DEF Scheduled, Active
<1>4. CASE ScanTasks \/ SkipTask \/ CancelTask \/ CronTick \/ UNCHANGED vars
  BY <1>2, <1>4 DEF ScanTasks, SkipTask, CancelTask, CronTick, vars, schedVars
<1>5. CASE DispatchTask
  <2>1. PICK r \in RunId : StartRun(r, "scheduler")
    BY <1>5 DEF DispatchTask
  <2>2. ~inFlight /\ inFlight' = TRUE
    BY <1>5 DEF DispatchTask, TryAcquire
  <2>3. Scheduled = {} /\ Scheduled' = {r}
    BY <1>0, <1>3, <2>1, <2>2
  <2>4. HeldTasks = {} /\ HeldTasks' = {TaskId}
    BY <2>2 DEF HeldTasks
  <2>5. WorkOf[TaskId] = {} /\ WorkOf' = [WorkOf EXCEPT ![TaskId] = {r}]
    BY <2>3 DEF WorkOf
  <2> QED
    BY <2>4, <2>5 DEF Lock!Next, Lock!Acquire
<1>6. CASE RunTaskNow
  <2>1. PICK r \in RunId : StartRun(r, "manual")
    BY <1>6 DEF RunTaskNow
  <2>2. Scheduled' = Scheduled /\ inFlight' = inFlight
    BY <1>3, <1>6, <2>1 DEF RunTaskNow, schedVars
  <2> QED
    BY <1>1, <2>2
<1>7. ASSUME NEW r \in RunId, ReleaseTask(r) PROVE [Lock!Next]_(Lock!vars)
  <2>1. r \in Active /\ Active' = Active \ {r} /\ trigger' = trigger
    BY <1>7 DEF ReleaseTask, Goto, Active, TypeOK, Live
  <2>2. Scheduled' = Scheduled \ {r} /\ (r \in Scheduled <=> Releases(r))
    BY <2>1 DEF Scheduled, Releases
  <2>3. CASE Releases(r)
    <3>1. Scheduled = {r} /\ inFlight /\ Scheduled' = {} /\ ~inFlight'
      BY <1>0, <1>7, <2>2, <2>3 DEF ReleaseTask
    <3>2. HeldTasks = {TaskId} /\ HeldTasks' = {}
      BY <3>1 DEF HeldTasks
    <3>3. WorkOf[TaskId] = {r} /\ WorkOf' = [WorkOf EXCEPT ![TaskId] = {}]
      BY <3>1 DEF WorkOf
    <3> QED
      BY <3>2, <3>3 DEF Lock!Next, Lock!Release
  <2>4. CASE ~Releases(r)
    <3>1. Scheduled' = Scheduled /\ (inFlight' <=> inFlight)
      BY <1>7, <2>2, <2>4 DEF ReleaseTask
    <3>2. HeldTasks' = HeldTasks
      BY <3>1 DEF HeldTasks
    <3> QED
      BY <3>1, <3>2 DEF Lock!vars, WorkOf
  <2> QED
    BY <2>3, <2>4
<1>8. ASSUME NEW r \in RunId, RunStep(r) PROVE [Lock!Next]_(Lock!vars)
  BY <1>1, <1>7, <1>8, RunStepScheduled
<1>9. CASE Crash
  <2>1. Scheduled' = {} /\ ~inFlight'
    BY <1>9 DEF Crash, Scheduled, Active, Live
  <2> QED
    BY <2>1 DEF Lock!Next, Lock!Restart, HeldTasks, WorkOf
<1> QED
  BY <1>4, <1>5, <1>6, <1>8, <1>9 DEF Next

\* For any number of runs, manual ones included, cancellations and crashes: the
\* data_sync scheduler (scheduler.rs) implements TaskLock, so its runs of the task
\* exclude each other and none of them leaves the task locked out.
THEOREM SyncImplementsLock == Spec => Lock!Spec
<1>1. Init => Lock!Init
  <2> SUFFICES ASSUME Init PROVE Lock!Init
    OBVIOUS
  <2>1. Scheduled = {} /\ ~inFlight
    BY DEF Init, Scheduled, Active, Live
  <2> QED
    BY <2>1 DEF Lock!Init, HeldTasks, WorkOf
<1> QED
  BY <1>1, LockStep, TypeCorrect, ScheduledExclusive, PTL DEF Spec, Lock!Spec

==============================================================================
