-------------------------- MODULE HealthCheckProofs -------------------------
(***************************************************************************)
(* Theorems about HealthCheck: the stored alert state is the streak of     *)
(* failing samples, the receiver's picture is the stored one, and a failed *)
(* run is visible.                                                         *)
(*                                                                         *)
(* The argument: a run is alone unless everything is given up for lost, so *)
(* between the load and the persist of a metric nobody else writes its     *)
(* row; and an AlertChange waiting in a queue says what the stored state   *)
(* says and what the run's sample says.                                    *)
(***************************************************************************)
EXTENDS HealthCheck, WellFoundedInduction, TLAPS

SampleType == [bad : SUBSET Metric, nopk : SUBSET Table, got : SUBSET AllMetrics]
Baseline == [known : BOOLEAN, tables : SUBSET Table]
Change == [subject : Subject, trigger : {"alert", "resolved"}]

HealthShape ==
    /\ bad \subseteq Metric /\ nopk \subseteq Table
    /\ alert \in [Metric -> AlertRow] /\ baseline \in Baseline
    /\ pc \in [Trigger -> Live \cup {"idle"}] /\ at \in [Trigger -> 1..Len(Steps)]
    /\ sample \in [Trigger -> SampleType] /\ prior \in [Trigger -> AlertRow \cup Baseline]
    /\ queue \in [Trigger -> SUBSET Change] /\ outcome \in [Trigger -> {"none", "ok", "error"}]
    /\ streak \in [Metric -> 0..Needed] /\ silent \subseteq Table
    /\ ~baseline.known => baseline.tables = {}

\* Two runs at a time: everything is given up for lost.
Alone ==
    \A r, q \in Trigger : r # q /\ pc[r] # "idle" /\ pc[q] # "idle" => Subject \subseteq lost

\* The metric at which evaluate_all is.
StepOf(r) == Steps[at[r]]

\* What a change in a queue says.
Speaks(r, c) ==
    /\ (c.trigger = "alert") <=> (c.subject \in sample[r].bad \cup sample[r].nopk)
    /\ c.subject \in lost \/ (InAlarm(c.subject) <=> c.trigger = "alert")
    /\ c.subject \in Table => c.subject \in lost \/ (baseline.known /\ c.subject \notin silent)

\* What was loaded for the metric to persist.
Loaded(r) ==
    /\ IF StepOf(r) = "missing_pk" THEN prior[r] \in Baseline ELSE prior[r] \in AlertRow
    /\ SubjectsOf(StepOf(r)) \subseteq lost \/ prior[r] = StoredRow(StepOf(r))

RunInv(r) ==
    /\ pc[r] \notin {"load", "persist", "deliver"} => queue[r] = {}
    /\ \A c \in queue[r] : Speaks(r, c)
    /\ pc[r] = "persist" => Loaded(r)

HealthInv ==
    /\ HealthShape /\ Alone /\ \A r \in Trigger : RunInv(r)
    /\ AlertAfterThreshold /\ ReceiverPicture

----------------------------------------------------------------------------
(* The steps of evaluate_all *)

\* A set of naturals has a least element.
LEMMA LeastElement ==
    ASSUME NEW T, T \subseteq Nat, T # {}
    PROVE  \E x \in T : \A y \in T : x <= y
  <1> DEFINE R == OpToRel(<, Nat)
  <1>1. IsWellFoundedOn(R, Nat)
    BY NatLessThanWellFounded
  <1>2. \A x, y \in Nat : x < y => <<x, y>> \in R
    BY DEF OpToRel
  <1> HIDE DEF R
  <1>3. PICK x \in T : \A y \in T : ~ (<<y, x>> \in R)
    BY <1>1, WFMin
  <1>4. \A y \in T : ~ (y < x)
    BY <1>2, <1>3
  <1> QED  BY <1>3, <1>4

\* Every step evaluates a threshold metric or missing_pk.
LEMMA StepsRange ==
    /\ Len(Steps) \in Nat /\ 1 \in 1..Len(Steps)
    /\ \A i \in 1..Len(Steps) : Steps[i] \in AllMetrics
  <1>1. Order \in Seq(AllMetrics) /\ "missing_pk" \in AllMetrics
    BY ConstAssumption DEF AllMetrics
  <1>2. Len(Order) \in Nat /\ Len(Order) > 0
    BY <1>1, ConstAssumption
  <1>3. Steps \in Seq(AllMetrics) /\ Len(Steps) = Len(Order) + 1
    BY <1>1 DEF Steps
  <1> QED  BY <1>2, <1>3

\* evaluate_all goes on to a later step of the run or to the deliveries.
LEMMA Continues ==
    ASSUME HealthShape, NEW r \in Trigger, Continue(r, at[r] + 1)
    PROVE  /\ at' \in [Trigger -> 1..Len(Steps)]
           /\ \A q \in Trigger : q # r => at'[q] = at[q]
           /\ \E l \in {"load", "deliver"} : pc' = [pc EXCEPT ![r] = l]
  <1> DEFINE T == Remaining(r, at[r] + 1)
  <1>1. at \in [Trigger -> 1..Len(Steps)] /\ Len(Steps) \in Nat
    BY StepsRange DEF HealthShape
  <1>2. T \subseteq 1..Len(Steps) /\ T \subseteq Nat
    BY <1>1 DEF Remaining
  <1>3. CASE T = {}
    BY <1>1, <1>3 DEF Continue, Goto
  <1>4. CASE T # {}
    <2> DEFINE j == CHOOSE j \in T : \A k \in T : j <= k
    <2>1. at' = [at EXCEPT ![r] = j] /\ pc' = [pc EXCEPT ![r] = "load"]
      BY <1>4 DEF Continue, Goto
    <2> HIDE DEF T
    <2>2. \E x \in T : \A y \in T : x <= y
      BY <1>2, <1>4, LeastElement
    <2>3. j \in T
      BY <2>2
    <2> HIDE DEF j
    <2> QED  BY <1>1, <1>2, <2>1, <2>3
  <1> QED  BY <1>3, <1>4

\* The subjects of a step are subjects.
LEMMA StepSubjects ==
    ASSUME HealthShape, NEW r \in Trigger
    PROVE  /\ StepOf(r) \in AllMetrics /\ SubjectsOf(StepOf(r)) \subseteq Subject
           /\ StepOf(r) # "missing_pk" => StepOf(r) \in Metric
  BY StepsRange DEF HealthShape, StepOf, AllMetrics, SubjectsOf, Subject

----------------------------------------------------------------------------
(* What a step leaves alone *)

\* A run that does not move keeps its invariant while another one moves: it is idle,
\* or everything is lost.
LEMMA OtherRuns ==
    ASSUME HealthInv, NEW r \in Trigger, NEW q \in Trigger, q # r, pc[r] # "idle",
           pc'[q] = pc[q], sample'[q] = sample[q], at'[q] = at[q], prior'[q] = prior[q],
           queue'[q] = queue[q], lost \subseteq lost'
    PROVE  RunInv(q)'
  <1>0. HealthShape /\ RunInv(q) /\ Alone
    BY DEF HealthInv
  <1>1. CASE pc[q] = "idle"
    BY <1>0, <1>1 DEF RunInv
  <1>2. CASE pc[q] # "idle"
    <2>1. Subject \subseteq lost'
      BY <1>0, <1>2 DEF Alone
    <2>2. \A c \in queue[q] : c.subject \in Subject
      BY <1>0 DEF HealthShape, Change
    <2>3. \A c \in queue'[q] : Speaks(q, c)'
      BY <1>0, <2>1, <2>2 DEF RunInv, Speaks
    <2>4. StepOf(q)' = StepOf(q) /\ SubjectsOf(StepOf(q))' \subseteq Subject
      BY <1>0, StepSubjects DEF StepOf, SubjectsOf
    <2>5. pc'[q] = "persist" => Loaded(q)'
      BY <1>0, <2>1, <2>4 DEF RunInv, Loaded
    <2> QED  BY <1>0, <2>3, <2>5 DEF RunInv
  <1> QED  BY <1>1, <1>2

\* A step that does not start a run leaves it alone.
LEMMA StaysAlone ==
    ASSUME HealthInv, NEW r \in Trigger, pc[r] # "idle", NEW l, pc' = [pc EXCEPT ![r] = l],
           lost \subseteq lost'
    PROVE  Alone'
  <1>0. pc \in [Trigger -> Live \cup {"idle"}] /\ Alone
    BY DEF HealthInv, HealthShape
  <1>1. \A q \in Trigger : pc'[q] # "idle" => pc[q] # "idle"
    BY <1>0
  <1> QED  BY <1>0, <1>1 DEF Alone

\* Nothing that the receiver or the control database holds has changed.
LEMMA PictureKept ==
    ASSUME HealthInv, UNCHANGED <<heard, alert, baseline, streak, silent, queue>>,
           lost \subseteq lost'
    PROVE  AlertAfterThreshold' /\ ReceiverPicture'
  <1>1. Pending' = Pending /\ \A x : InAlarm(x)' = InAlarm(x)
    BY DEF Pending, InAlarm
  <1>2. AlertAfterThreshold /\ ReceiverPicture
    BY DEF HealthInv
  <1>3. AlertAfterThreshold'
    BY <1>2 DEF AlertAfterThreshold
  <1>4. ReceiverPicture'
    BY <1>1, <1>2 DEF ReceiverPicture
  <1> QED  BY <1>3, <1>4

\* A step of a run outside of evaluate_all and the deliveries.
LEMMA PlainStep ==
    ASSUME HealthInv, NEW r \in Trigger, pc[r] \notin {"idle", "load", "persist", "deliver"},
           NEW l \in (Live \cup {"idle"}) \ {"persist"}, pc' = [pc EXCEPT ![r] = l],
           UNCHANGED <<bad, nopk, heard, alert, baseline, streak, silent, prior, queue, lost>>,
           sample' \in [Trigger -> SampleType], at' \in [Trigger -> 1..Len(Steps)],
           outcome' \in [Trigger -> {"none", "ok", "error"}],
           \A q \in Trigger : q # r => sample'[q] = sample[q] /\ at'[q] = at[q]
    PROVE  HealthInv'
  <1>0. HealthShape /\ RunInv(r)
    BY DEF HealthInv
  <1>1. HealthShape'
    BY <1>0 DEF HealthShape
  <1>2. pc'[r] = l /\ \A q \in Trigger : q # r => pc'[q] = pc[q]
    BY <1>0 DEF HealthShape
  <1>3. RunInv(r)'
    BY <1>0, <1>2 DEF RunInv
  <1>4. ASSUME NEW q \in Trigger, q # r PROVE RunInv(q)'
    BY <1>2, <1>4, OtherRuns
  <1>5. Alone'
    BY StaysAlone
  <1>6. AlertAfterThreshold' /\ ReceiverPicture'
    BY PictureKept
  <1> QED  BY <1>1, <1>3, <1>4, <1>5, <1>6 DEF HealthInv

----------------------------------------------------------------------------
(* The steps *)

\* Scans, skipped ticks, time and changes of the source.
LEMMA WorldSteps ==
    ASSUME HealthInv, ScanTasks \/ SkipTask \/ CronTick \/ SourceChange \/ UNCHANGED vars
    PROVE  HealthInv'
  <1>0. HealthShape /\ Alone /\ \A r \in Trigger : RunInv(r)
    BY DEF HealthInv
  <1>1. UNCHANGED <<heard, alert, baseline, streak, silent, pc, sample, at, prior, queue, outcome, lost>>
    BY DEF ScanTasks, SkipTask, CronTick, SourceChange, vars, stored
  <1>2. bad' \subseteq Metric /\ nopk' \subseteq Table
    BY <1>0 DEF ScanTasks, SkipTask, CronTick, SourceChange, vars, source, HealthShape
  <1>3. HealthShape'
    BY <1>0, <1>1, <1>2 DEF HealthShape
  <1>4. Alone'
    BY <1>0, <1>1 DEF Alone
  <1>5. ASSUME NEW r \in Trigger PROVE RunInv(r)'
    BY <1>0, <1>1 DEF RunInv, Speaks, Loaded, StepOf, StoredRow, InAlarm
  <1>6. AlertAfterThreshold' /\ ReceiverPicture'
    BY <1>1, PictureKept
  <1> QED  BY <1>3, <1>4, <1>5, <1>6 DEF HealthInv

\* A run starts; beside another one everything is given up for lost.
LEMMA StartSteps ==
    ASSUME HealthInv, DispatchTask \/ RunTaskNow
    PROVE  HealthInv'
  <1>0. HealthShape /\ Alone /\ \A r \in Trigger : RunInv(r)
    BY DEF HealthInv
  <1>1. UNCHANGED <<bad, nopk, heard, alert, baseline, streak, silent, sample, at, prior, queue, outcome>>
    BY DEF DispatchTask, RunTaskNow, stored, source
  <1>2. PICK r \in Trigger : StartRun(r)
    BY DEF DispatchTask, RunTaskNow, Trigger
  <1>3. /\ pc[r] = "idle" /\ pc' = [pc EXCEPT ![r] = "open"]
        /\ pc'[r] = "open" /\ \A q \in Trigger : q # r => pc'[q] = pc[q]
    BY <1>0, <1>2 DEF StartRun, Goto, HealthShape
  <1>4. HealthShape'
    BY <1>0, <1>1, <1>3 DEF HealthShape, Live
  <1>5. CASE Active = {}
    <2>1. lost' = lost /\ \A q \in Trigger : pc[q] = "idle"
      BY <1>0, <1>2, <1>5 DEF StartRun, Active, HealthShape
    <2>2. Alone'
      BY <1>3, <2>1 DEF Alone
    <2>3. ASSUME NEW q \in Trigger PROVE RunInv(q)'
      BY <1>0, <1>1, <1>3, <2>1 DEF RunInv
    <2>4. AlertAfterThreshold' /\ ReceiverPicture'
      BY <1>1, <2>1, PictureKept
    <2> QED  BY <1>4, <2>2, <2>3, <2>4 DEF HealthInv
  <1>6. CASE Active # {}
    <2>1. lost' = Subject
      BY <1>2, <1>6 DEF StartRun
    <2>2. Alone'
      BY <2>1 DEF Alone
    <2>3. ASSUME NEW q \in Trigger PROVE RunInv(q)'
      <3>1. \A c \in queue[q] : c.subject \in Subject
        BY <1>0 DEF HealthShape, Change
      <3>2. \A c \in queue'[q] : Speaks(q, c)'
        BY <1>0, <1>1, <2>1, <3>1 DEF RunInv, Speaks
      <3>3. StepOf(q)' = StepOf(q) /\ SubjectsOf(StepOf(q))' \subseteq Subject
        BY <1>0, <1>1, StepSubjects DEF StepOf, SubjectsOf
      <3>4. pc'[q] = "persist" => Loaded(q)'
        BY <1>0, <1>1, <1>3, <2>1, <3>3 DEF RunInv, Loaded
      <3> QED  BY <1>0, <1>1, <1>3, <3>2, <3>4 DEF RunInv
    <2>4. AlertAfterThreshold' /\ ReceiverPicture'
      BY <2>1 DEF AlertAfterThreshold, ReceiverPicture, Subject
    <2> QED  BY <1>4, <2>2, <2>3, <2>4 DEF HealthInv
  <1> QED  BY <1>5, <1>6

\* The collectors sample threshold metrics and tables.
LEMMA SnapshotType ==
    ASSUME HealthShape, NEW got \in SUBSET AllMetrics
    PROVE  Snapshot(got) \in SampleType
  <1>1. "connectivity" \in Metric
    <2>1. 1 \in DOMAIN Order /\ Order[1] = "connectivity"
      BY ConstAssumption
    <2> QED  BY <2>1 DEF Metric
  <1>2. bad \subseteq Metric /\ nopk \subseteq Table
    BY DEF HealthShape
  <1> QED  BY <1>1, <1>2 DEF Snapshot, SampleType, AllMetrics

\* From the trigger to the samples, and from the deliveries to the end.
LEMMA PlainSteps ==
    ASSUME HealthInv, NEW r \in Trigger,
           OpenRun(r) \/ PrepareRun(r) \/ Collect(r) \/ StoreResult(r) \/ FinishRun(r) \/ ReleaseTask(r)
    PROVE  HealthInv'
  <1>0. HealthShape
    BY DEF HealthInv
  <1>1. /\ UNCHANGED <<bad, nopk, heard, alert, baseline, streak, silent, prior, queue, lost>>
        /\ pc[r] \notin {"idle", "load", "persist", "deliver"}
    BY DEF OpenRun, PrepareRun, Collect, StoreResult, FinishRun, ReleaseTask, stored, source
  <1>2. \E l \in (Live \cup {"idle"}) \ {"persist"} : pc' = [pc EXCEPT ![r] = l]
    BY DEF OpenRun, PrepareRun, Collect, StoreResult, FinishRun, ReleaseTask, Goto, Return, Live
  <1>3. outcome' \in [Trigger -> {"none", "ok", "error"}]
    BY <1>0 DEF OpenRun, PrepareRun, Collect, StoreResult, FinishRun, ReleaseTask, Return, HealthShape
  <1>4. \/ UNCHANGED <<sample, at>>
        \/ \E v \in SampleType : /\ sample' = [sample EXCEPT ![r] = v]
                                 /\ at' = [at EXCEPT ![r] = 1]
    <2>1. CASE OpenRun(r) \/ PrepareRun(r) \/ StoreResult(r) \/ FinishRun(r)
      BY <2>1 DEF OpenRun, PrepareRun, StoreResult, FinishRun
    <2>2. CASE Collect(r)
      <3>1. \A m \in AllMetrics : AllMetrics \ {m} \in SUBSET AllMetrics
        OBVIOUS
      <3>2. \A m \in AllMetrics : Snapshot(AllMetrics \ {m}) \in SampleType
        BY <1>0, <3>1, SnapshotType
      <3>3. Snapshot(AllMetrics) \in SampleType
        BY <1>0, SnapshotType
      <3> QED  BY <2>2, <3>2, <3>3 DEF Collect
    <2>3. CASE ReleaseTask(r)
      <3>1. NoSample \in SampleType
        BY DEF NoSample, SampleType
      <3> QED  BY <2>3, <3>1 DEF ReleaseTask
    <2> QED  BY <2>1, <2>2, <2>3
  <1>5. /\ sample' \in [Trigger -> SampleType] /\ at' \in [Trigger -> 1..Len(Steps)]
        /\ \A q \in Trigger : q # r => sample'[q] = sample[q] /\ at'[q] = at[q]
    BY <1>0, <1>4, StepsRange DEF HealthShape
  <1> QED  BY <1>1, <1>2, <1>3, <1>5, PlainStep

\* load_metric_state; an error is a loss.
LEMMA LoadSteps ==
    ASSUME HealthInv, NEW r \in Trigger, LoadState(r)
    PROVE  HealthInv'
  <1>0. HealthShape /\ RunInv(r)
    BY DEF HealthInv
  <1>1. /\ UNCHANGED <<bad, nopk, heard, alert, baseline, streak, silent, sample, at, queue, outcome>>
        /\ pc[r] = "load" /\ pc' = [pc EXCEPT ![r] = "persist"] /\ lost \subseteq lost'
    BY DEF LoadState, Goto, Lose, stored, source
  <1> DEFINE m == StepOf(r)
  <1>2. m \in AllMetrics /\ (m # "missing_pk" => m \in Metric)
    BY <1>0, StepSubjects
  <1>3. \/ prior' = [prior EXCEPT ![r] = StoredRow(m)]
        \/ prior' = [prior EXCEPT ![r] = EmptyRow(m)] /\ SubjectsOf(m) \subseteq lost'
    BY DEF LoadState, Lose, StepOf
  <1>4. m' = m
    BY <1>1 DEF StepOf
  <1> HIDE DEF m
  <1>5. IF m = "missing_pk" THEN StoredRow(m) \in Baseline /\ EmptyRow(m) \in Baseline
                            ELSE StoredRow(m) \in AlertRow /\ EmptyRow(m) \in AlertRow
    <2>1. NoBaseline \in Baseline /\ NoRow \in AlertRow
      BY ConstAssumption DEF NoBaseline, Baseline, NoRow, AlertRow
    <2> QED  BY <1>0, <1>2, <2>1 DEF StoredRow, EmptyRow, HealthShape
  <1>6. /\ prior' \in [Trigger -> AlertRow \cup Baseline]
        /\ prior'[r] = StoredRow(m) \/ (prior'[r] = EmptyRow(m) /\ SubjectsOf(m) \subseteq lost')
        /\ \A q \in Trigger : q # r => prior'[q] = prior[q]
    BY <1>0, <1>3, <1>5 DEF HealthShape
  <1>7. pc'[r] = "persist" /\ \A q \in Trigger : q # r => pc'[q] = pc[q]
    BY <1>0, <1>1 DEF HealthShape
  <1>8. HealthShape'
    BY <1>0, <1>1, <1>6 DEF HealthShape, Live
  <1>9. Loaded(r)'
    <2>1. StepOf(r)' = m
      BY <1>4 DEF m
    <2> QED  BY <1>1, <1>5, <1>6, <2>1 DEF Loaded, SubjectsOf, StoredRow
  <1>10. RunInv(r)'
    <2>1. \A c \in queue[r] : Speaks(r, c)'
      BY <1>0, <1>1 DEF RunInv, Speaks, InAlarm
    <2> QED  BY <1>1, <1>7, <1>9, <2>1 DEF RunInv
  <1>11. ASSUME NEW q \in Trigger, q # r PROVE RunInv(q)'
    BY <1>1, <1>6, <1>7, <1>11, OtherRuns
  <1>12. Alone' /\ AlertAfterThreshold' /\ ReceiverPicture'
    BY <1>1, StaysAlone, PictureKept
  <1> QED  BY <1>8, <1>10, <1>11, <1>12 DEF HealthInv

\* What evaluate_threshold_metric writes, and the streak it stands for.
LEMMA RowFollowsStreak ==
    ASSUME NEW p \in AlertRow, NEW f \in BOOLEAN, NEW k \in 0..Needed
    PROVE  LET new == NextRow(p, f)
               j == IF ~f THEN 0 ELSE IF k < Needed THEN k + 1 ELSE Needed
           IN  /\ new \in AlertRow /\ j \in 0..Needed
               /\ (/\ k = 0 => p.state \in {"none", "ok"}
                   /\ k \in 1..(Needed - 1) => p = Row("failing", k)
                   /\ k = Needed => p.state = "alerting")
                  => /\ j = 0 => new.state \in {"none", "ok"}
                     /\ j \in 1..(Needed - 1) => new = Row("failing", j)
                     /\ j = Needed => new.state = "alerting"
  <1> USE ConstAssumption
  <1>0. /\ Threshold \in Nat /\ Needed \in Nat /\ Needed >= 2 /\ Needed >= Threshold
        /\ Threshold >= 2 => Needed = Threshold
        /\ Threshold = 1 => Needed = 2
    BY DEF Needed
  <1>1. /\ p.state \in {"none", "ok", "failing", "alerting"} /\ p.count \in 0..Threshold
        /\ \A s, c : Row(s, c).state = s /\ Row(s, c).count = c
        /\ \A s \in {"none", "ok", "failing", "alerting"}, c \in 0..Threshold : Row(s, c) \in AlertRow
    BY DEF AlertRow, Row
  <1> DEFINE new == NextRow(p, f)
             j == IF ~f THEN 0 ELSE IF k < Needed THEN k + 1 ELSE Needed
  <1>2. CASE ~f
    <2>1. new = Row("ok", 0) /\ j = 0
      BY <1>2 DEF NextRow
    <2> HIDE DEF new, j
    <2> QED  BY <1>0, <1>1, <2>1 DEF new, j
  <1>3. CASE f
    <2>0. j = IF k < Needed THEN k + 1 ELSE Needed
      BY <1>3
    <2>1. CASE p.state \in {"none", "ok"}
      <3>1. new = Row("failing", 1)
        BY <1>3, <2>1 DEF NextRow
      <3> HIDE DEF new, j
      <3>2. /\ new \in AlertRow /\ j \in 0..Needed /\ j # 0
            /\ k = 0 => j = 1
            /\ k # 0 => k \in 1..(Needed - 1) \/ k = Needed
            /\ \A x : p # Row("failing", x)
        BY <1>0, <1>1, <2>0, <2>1, <3>1
      <3> QED  BY <1>0, <1>1, <2>1, <3>1, <3>2 DEF new, j
    <2>2. CASE p.state = "failing"
      <3>1. new = IF p.count + 1 >= Threshold THEN Row("alerting", 0)
                  ELSE Row("failing", p.count + 1)
        BY <1>3, <2>2 DEF NextRow, Reached
      <3> HIDE DEF new, j
      <3>2. new \in AlertRow /\ j \in 0..Needed
        BY <1>0, <1>1, <2>0, <3>1
      <3>3. ASSUME k \in 1..(Needed - 1), p = Row("failing", k)
            PROVE  /\ j # 0
                   /\ j \in 1..(Needed - 1) => new = Row("failing", j)
                   /\ j = Needed => new.state = "alerting"
        <4>1. p.count = k /\ j = k + 1
          BY <1>0, <1>1, <2>0, <3>3
        <4> QED  BY <1>0, <1>1, <3>1, <3>3, <4>1
      <3>4. k = 0 \/ k = Needed \/ k \in 1..(Needed - 1)
        BY <1>0
      <3> QED  BY <2>2, <3>2, <3>3, <3>4 DEF new, j
    <2>3. CASE p.state = "alerting"
      <3>1. new = p
        BY <1>3, <2>3 DEF NextRow
      <3> HIDE DEF new, j
      <3>2. /\ new \in AlertRow /\ j \in 0..Needed
            /\ k = Needed => j = Needed
            /\ k = 0 \/ k = Needed \/ k \in 1..(Needed - 1)
            /\ \A x : p # Row("failing", x)
        BY <1>0, <1>1, <2>0, <2>3, <3>1
      <3> QED  BY <1>0, <2>3, <3>1, <3>2 DEF new, j
    <2> QED  BY <1>1, <2>1, <2>2, <2>3
  <1> QED  BY <1>2, <1>3

\* The change that evaluate_threshold_metric reports: on entering and on leaving
\* alerting, which a passing sample always does.
LEMMA ThresholdChangeIs ==
    ASSUME NEW p \in AlertRow, NEW f \in BOOLEAN, NEW m \in Metric
    PROVE  LET new == NextRow(p, f)
           IN  /\ ThresholdChange(m, p, new) \subseteq Change
               /\ \A c \in ThresholdChange(m, p, new) :
                     c.subject = m /\ ((c.trigger = "alert") <=> f)
                     /\ ((c.trigger = "alert") <=> new.state = "alerting")
               /\ ThresholdChange(m, p, new) = {} =>
                     (p.state = "alerting" <=> new.state = "alerting")
               /\ p.state = "alerting" /\ f => new.state = "alerting"
               /\ ~f => new.state # "alerting"
  <1>1. /\ p.state \in {"none", "ok", "failing", "alerting"}
        /\ \A s, c : Row(s, c).state = s
    BY DEF AlertRow, Row
  <1> DEFINE new == NextRow(p, f)
  <1>2. /\ ~f => new.state = "ok"
        /\ f /\ p.state = "alerting" => new = p
        /\ f => new.state \in {"failing", "alerting"}
    BY <1>1 DEF NextRow
  <1> HIDE DEF new
  <1>3. \A t \in {"alert", "resolved"} : [subject |-> m, trigger |-> t] \in Change
    BY DEF Change, Subject
  <1>4. /\ ThresholdChange(m, p, new) \subseteq Change
        /\ \A c \in ThresholdChange(m, p, new) :
              c.subject = m /\ ((c.trigger = "alert") <=> f)
              /\ ((c.trigger = "alert") <=> new.state = "alerting")
        /\ ThresholdChange(m, p, new) = {} => (p.state = "alerting" <=> new.state = "alerting")
    BY <1>1, <1>2, <1>3 DEF ThresholdChange
  <1> QED  BY <1>1, <1>2, <1>4 DEF new

\* One threshold metric is evaluated and persisted.
LEMMA MetricSteps ==
    ASSUME HealthInv, NEW r \in Trigger, PersistMetric(r)
    PROVE  HealthInv'
  <1>0. HealthShape /\ RunInv(r) /\ AlertAfterThreshold /\ ReceiverPicture
    BY DEF HealthInv
  <1> PICK m : m = StepOf(r)
    OBVIOUS
  <1> DEFINE f == m \in sample[r].bad
             new == NextRow(prior[r], f)
             ch == ThresholdChange(m, prior[r], new)
             j == Streak(m, f)
  <1>1. /\ pc[r] = "persist" /\ m # "missing_pk" /\ Continue(r, at[r] + 1)
        /\ \/ alert' = [alert EXCEPT ![m] = new] /\ lost' = lost
           \/ alert' = alert /\ lost' = lost \cup {m}
        /\ streak' = [streak EXCEPT ![m] = j]
        /\ queue' = [queue EXCEPT ![r] = queue[r] \cup ch]
        /\ prior' = [prior EXCEPT ![r] = NoRow]
        /\ UNCHANGED <<bad, nopk, heard, baseline, silent, sample, outcome>>
    BY DEF PersistMetric, StepOf, Lose, source
  <1>2. m \in Metric /\ prior[r] \in AlertRow /\ f \in BOOLEAN
    BY <1>0, <1>1, StepSubjects DEF RunInv, Loaded
  <1>3. m \in lost \/ prior[r] = alert[m]
    BY <1>0, <1>1 DEF RunInv, Loaded, SubjectsOf, StoredRow
  <1>4. j = IF ~f THEN 0 ELSE IF streak[m] < Needed THEN streak[m] + 1 ELSE Needed
    BY DEF Streak
  <1>5. streak[m] \in 0..Needed
    BY <1>0, <1>2 DEF HealthShape
  <1> HIDE DEF f, j
  <1>6. /\ new \in AlertRow /\ j \in 0..Needed
        /\ (/\ streak[m] = 0 => prior[r].state \in {"none", "ok"}
            /\ streak[m] \in 1..(Needed - 1) => prior[r] = Row("failing", streak[m])
            /\ streak[m] = Needed => prior[r].state = "alerting")
           => /\ j = 0 => new.state \in {"none", "ok"}
              /\ j \in 1..(Needed - 1) => new = Row("failing", j)
              /\ j = Needed => new.state = "alerting"
    BY <1>2, <1>4, <1>5, RowFollowsStreak
  <1>7. /\ ch \subseteq Change
        /\ \A c \in ch : /\ c.subject = m /\ ((c.trigger = "alert") <=> f)
                         /\ (c.trigger = "alert") <=> new.state = "alerting"
        /\ ch = {} => (prior[r].state = "alerting" <=> new.state = "alerting")
        /\ prior[r].state = "alerting" /\ f => new.state = "alerting"
        /\ ~f => new.state # "alerting"
    BY <1>2, ThresholdChangeIs
  <1> HIDE DEF new, ch
  <1>8. /\ at' \in [Trigger -> 1..Len(Steps)]
        /\ \A q \in Trigger : q # r => at'[q] = at[q]
        /\ \E l \in {"load", "deliver"} : pc' = [pc EXCEPT ![r] = l]
    BY <1>0, <1>1, Continues
  <1>9. /\ alert' \in [Metric -> AlertRow] /\ streak' \in [Metric -> 0..Needed]
        /\ queue' \in [Trigger -> SUBSET Change] /\ prior' \in [Trigger -> AlertRow \cup Baseline]
        /\ queue'[r] = queue[r] \cup ch /\ streak'[m] = j
        /\ alert'[m] = new \/ m \in lost'
        /\ \A x \in Metric : x # m => alert'[x] = alert[x] /\ streak'[x] = streak[x]
        /\ \A q \in Trigger : q # r => queue'[q] = queue[q] /\ prior'[q] = prior[q]
        /\ lost \subseteq lost'
    <2>1. NoRow \in AlertRow
      BY ConstAssumption DEF NoRow, AlertRow
    <2> QED  BY <1>0, <1>1, <1>2, <1>6, <1>7, <2>1 DEF HealthShape
  <1>10. /\ pc'[r] \in {"load", "deliver"} /\ \A q \in Trigger : q # r => pc'[q] = pc[q]
         /\ pc' \in [Trigger -> Live \cup {"idle"}]
    BY <1>0, <1>8 DEF HealthShape, Live
  <1>11. HealthShape'
    BY <1>0, <1>1, <1>8, <1>9, <1>10 DEF HealthShape
  <1>12. \A x : x # m => InAlarm(x)' = InAlarm(x)
    BY <1>1, <1>9 DEF InAlarm
  <1>13. m \in lost' \/ (InAlarm(m)' <=> new.state = "alerting")
    BY <1>2, <1>9 DEF InAlarm
  <1>14. m \in lost \/ (InAlarm(m) <=> prior[r].state = "alerting")
    BY <1>2, <1>3 DEF InAlarm
  <1>15. m \notin Table
    BY <1>2, ConstAssumption
  <1>16. RunInv(r)'
    <2>1. ASSUME NEW c \in ch PROVE Speaks(r, c)'
      <3>1. c.subject = m /\ ((c.trigger = "alert") <=> f) /\ ((c.trigger = "alert") <=> new.state = "alerting")
        BY <1>7
      <3>2. sample'[r].bad = sample[r].bad /\ sample'[r].nopk = sample[r].nopk /\ m \notin sample[r].nopk
        BY <1>0, <1>1, <1>15 DEF HealthShape, SampleType
      <3> QED  BY <1>13, <1>15, <3>1, <3>2 DEF Speaks, f
    <2>2. ASSUME NEW c \in queue[r] PROVE Speaks(r, c)'
      <3>1. Speaks(r, c)
        BY <1>0 DEF RunInv
      <3>2. CASE c.subject # m
        BY <1>1, <1>9, <1>12, <3>1, <3>2 DEF Speaks
      <3>3. CASE c.subject = m
        <4>1. sample'[r].bad = sample[r].bad /\ sample'[r].nopk = sample[r].nopk /\ m \notin sample[r].nopk
          BY <1>0, <1>1, <1>15 DEF HealthShape, SampleType
        <4>2. (c.trigger = "alert") <=> f
          BY <3>1, <3>3, <4>1 DEF Speaks, f
        <4>3. m \in lost' \/ ((c.trigger = "alert") <=> new.state = "alerting")
          BY <1>7, <1>9, <1>14, <3>1, <3>3, <4>2 DEF Speaks
        <4> QED  BY <1>13, <1>15, <3>3, <4>1, <4>2, <4>3 DEF Speaks, f
      <3> QED  BY <3>2, <3>3
    <2> QED  BY <1>9, <1>10, <2>1, <2>2 DEF RunInv
  <1>17. ASSUME NEW q \in Trigger, q # r PROVE RunInv(q)'
    BY <1>1, <1>8, <1>9, <1>10, <1>17, OtherRuns
  <1>18. Alone'
    BY <1>1, <1>8, <1>9, StaysAlone
  <1>19. AlertAfterThreshold'
    <2> SUFFICES ASSUME NEW x \in Metric, x \notin lost'
                 PROVE  /\ streak'[x] = 0 => alert'[x].state \in {"none", "ok"}
                        /\ streak'[x] \in 1..(Needed - 1) => alert'[x] = Row("failing", streak'[x])
                        /\ streak'[x] = Needed => alert'[x].state = "alerting"
      BY DEF AlertAfterThreshold, Needed, Row
    <2>1. CASE x # m
      BY <1>0, <1>9, <2>1 DEF AlertAfterThreshold
    <2>2. CASE x = m
      <3>1. prior[r] = alert[m] /\ m \notin lost
        BY <1>3, <1>9, <2>2
      <3> QED  BY <1>0, <1>2, <1>6, <1>9, <2>2, <3>1 DEF AlertAfterThreshold
    <2> QED  BY <2>1, <2>2
  <1>20. ReceiverPicture'
    <2>1. Pending \subseteq Pending' /\ (m \notin Pending' => ch = {})
      <3>1. Subjects(ch) \subseteq Pending' /\ (ch # {} => m \in Subjects(ch))
        BY <1>7, <1>9 DEF Pending, Subjects
      <3>2. \A q \in Trigger : Subjects(queue[q]) \subseteq Subjects(queue'[q])
        BY <1>9 DEF Subjects
      <3> QED  BY <3>1, <3>2 DEF Pending
    <2> SUFFICES ASSUME NEW x \in Subject, x \notin lost', x \notin Pending'
                 PROVE  InAlarm(x)' <=> x \in heard \cup silent
      BY <1>1 DEF ReceiverPicture
    <2>2. x \notin lost /\ x \notin Pending /\ (InAlarm(x) <=> x \in heard \cup silent)
      BY <1>0, <1>9, <2>1 DEF ReceiverPicture
    <2>3. CASE x # m
      BY <1>12, <2>2, <2>3
    <2>4. CASE x = m
      <3>1. (prior[r].state = "alerting") <=> (new.state = "alerting")
        BY <1>7, <2>1, <2>4
      <3>2. InAlarm(x)' <=> alert'[x].state = "alerting"
        BY <1>2, <2>4 DEF InAlarm
      <3> QED  BY <1>9, <1>14, <2>2, <2>4, <3>1, <3>2
    <2> QED  BY <2>3, <2>4
  <1> QED  BY <1>11, <1>16, <1>17, <1>18, <1>19, <1>20 DEF HealthInv

\* The changes that evaluate_missing_pk reports.
LEMMA MissingPkChangesAre ==
    ASSUME NEW p \in Baseline, NEW cur \in SUBSET Table
    PROVE  /\ MissingPkChanges(p, cur) \subseteq Change
           /\ \A c \in MissingPkChanges(p, cur) :
                 c.subject \in Table /\ p.known /\ ((c.trigger = "alert") <=> c.subject \in cur)
           /\ p.known => \A t \in Table : t \in Subjects(MissingPkChanges(p, cur))
                                          <=> ~(t \in cur <=> t \in p.tables)
  <1> DEFINE A == {[subject |-> t, trigger |-> "alert"] : t \in cur \ p.tables}
             B == {[subject |-> t, trigger |-> "resolved"] : t \in p.tables \ cur}
             M == MissingPkChanges(p, cur)
  <1>0. p.tables \subseteq Table
    BY DEF Baseline
  <1>1. /\ \A c \in A : c \in Change /\ c.subject \in cur /\ c.trigger = "alert"
        /\ \A c \in B : c \in Change /\ c.subject \notin cur /\ c.trigger = "resolved"
        /\ \A c \in A \cup B : c.subject \in Table
    BY <1>0 DEF Change, Subject
  <1>2. CASE ~p.known
    BY <1>2 DEF MissingPkChanges
  <1>3. CASE p.known
    <2>1. M = A \cup B
      BY <1>3 DEF MissingPkChanges
    <2>2. \A t \in Table : t \in Subjects(A \cup B) <=> ~(t \in cur <=> t \in p.tables)
      <3>1. /\ \A c \in A : c.subject \in cur \ p.tables
            /\ \A c \in B : c.subject \in p.tables \ cur
        OBVIOUS
      <3>2. ASSUME NEW t \in cur \ p.tables PROVE \E c \in A : c.subject = t
        <4>1. [subject |-> t, trigger |-> "alert"] \in A
          OBVIOUS
        <4>2. [subject |-> t, trigger |-> "alert"].subject = t
          OBVIOUS
        <4> QED  BY <4>1, <4>2
      <3>3. ASSUME NEW t \in p.tables \ cur PROVE \E c \in B : c.subject = t
        <4>1. [subject |-> t, trigger |-> "resolved"] \in B
          OBVIOUS
        <4>2. [subject |-> t, trigger |-> "resolved"].subject = t
          OBVIOUS
        <4> QED  BY <4>1, <4>2
      <3> HIDE DEF A, B
      <3> QED  BY <1>0, <3>1, <3>2, <3>3 DEF Subjects
    <2> HIDE DEF A, B
    <2> QED  BY <1>1, <1>3, <2>1, <2>2
  <1> QED  BY <1>2, <1>3

\* The tables without a primary key are compared and persisted.
LEMMA MissingPkSteps ==
    ASSUME HealthInv, NEW r \in Trigger, PersistMissingPk(r)
    PROVE  HealthInv'
  <1>0. HealthShape /\ RunInv(r) /\ AlertAfterThreshold /\ ReceiverPicture
    BY DEF HealthInv
  <1> DEFINE p == prior[r]
             cur == sample[r].nopk
             ch == MissingPkChanges(p, cur)
             new == [known |-> TRUE, tables |-> cur]
  <1>1. /\ pc[r] = "persist" /\ StepOf(r) = "missing_pk" /\ Continue(r, at[r] + 1)
        /\ \/ baseline' = new /\ lost' = lost
           \/ baseline' = baseline /\ lost' = lost \cup Table
        /\ silent' = IF ~p.known THEN cur ELSE silent \ Subjects(ch)
        /\ queue' = [queue EXCEPT ![r] = queue[r] \cup ch]
        /\ prior' = [prior EXCEPT ![r] = NoRow]
        /\ UNCHANGED <<bad, nopk, heard, alert, streak, sample, outcome>>
    BY DEF PersistMissingPk, StepOf, Lose, source
  <1>2. p \in Baseline /\ cur \subseteq Table
    BY <1>0, <1>1 DEF RunInv, Loaded, HealthShape, SampleType
  <1>3. Table \subseteq lost \/ p = baseline
    BY <1>0, <1>1 DEF RunInv, Loaded, SubjectsOf, StoredRow
  <1>4. new \in Baseline /\ new.known /\ new.tables = cur
    BY <1>2 DEF Baseline
  <1>5. /\ ch \subseteq Change
        /\ \A c \in ch : c.subject \in Table /\ p.known /\ ((c.trigger = "alert") <=> c.subject \in cur)
        /\ p.known => \A t \in Table : t \in Subjects(ch) <=> ~(t \in cur <=> t \in p.tables)
    BY <1>2, MissingPkChangesAre
  <1> HIDE DEF p, cur, ch, new
  <1>6. /\ at' \in [Trigger -> 1..Len(Steps)]
        /\ \A q \in Trigger : q # r => at'[q] = at[q]
        /\ \E l \in {"load", "deliver"} : pc' = [pc EXCEPT ![r] = l]
    BY <1>0, <1>1, Continues
  <1>7. /\ queue' \in [Trigger -> SUBSET Change] /\ prior' \in [Trigger -> AlertRow \cup Baseline]
        /\ queue'[r] = queue[r] \cup ch
        /\ \A q \in Trigger : q # r => queue'[q] = queue[q] /\ prior'[q] = prior[q]
        /\ lost \subseteq lost' /\ silent' \subseteq Table
        /\ Table \subseteq lost' \/ baseline' = new
    <2>1. NoRow \in AlertRow
      BY ConstAssumption DEF NoRow, AlertRow
    <2> QED  BY <1>0, <1>1, <1>2, <1>5, <2>1 DEF HealthShape
  <1>8. baseline' \in Baseline /\ (~baseline'.known => baseline'.tables = {})
    <2>1. CASE baseline' = baseline
      BY <1>0, <2>1 DEF HealthShape
    <2>2. CASE baseline' = new
      BY <1>4, <2>2
    <2> QED  BY <1>1, <2>1, <2>2
  <1>9. /\ pc'[r] \in {"load", "deliver"} /\ \A q \in Trigger : q # r => pc'[q] = pc[q]
        /\ pc' \in [Trigger -> Live \cup {"idle"}]
    BY <1>0, <1>6 DEF HealthShape, Live
  <1>10. HealthShape'
    BY <1>0, <1>1, <1>6, <1>7, <1>8, <1>9 DEF HealthShape
  <1>11. \A x \in Metric : x \notin Table /\ InAlarm(x)' = InAlarm(x)
    BY <1>1, ConstAssumption DEF InAlarm
  <1>12. \A t \in Table : t \notin Metric /\ (InAlarm(t) <=> t \in baseline.tables)
                          /\ (t \in lost' \/ (InAlarm(t)' <=> t \in cur))
    BY <1>4, <1>7, ConstAssumption DEF InAlarm
  <1>13. \A x \in Subject : x \in Metric \/ x \in Table
    BY DEF Subject
  <1>14. sample'[r].bad = sample[r].bad /\ sample'[r].nopk = cur /\ sample[r].bad \subseteq Metric
    BY <1>0, <1>1 DEF HealthShape, SampleType, cur
  <1>15. RunInv(r)'
    <2>1. ASSUME NEW c \in ch PROVE Speaks(r, c)'
      <3>1. c.subject \in Table /\ p.known /\ ((c.trigger = "alert") <=> c.subject \in cur)
        BY <1>5
      <3>2. c.subject \in Subjects(ch)
        BY DEF Subjects
      <3>3. c.subject \notin silent' /\ c.subject \notin sample[r].bad
        BY <1>1, <1>12, <1>14, <3>1, <3>2
      <3>4. c.subject \in lost' \/ baseline'.known
        BY <1>4, <1>7, <3>1
      <3> QED  BY <1>12, <1>14, <3>1, <3>3, <3>4 DEF Speaks
    <2>2. ASSUME NEW c \in queue[r] PROVE Speaks(r, c)'
      <3>1. Speaks(r, c) /\ c.subject \in Subject
        BY <1>0 DEF RunInv, HealthShape, Change
      <3>2. CASE c.subject \in Metric
        BY <1>1, <1>7, <1>11, <3>1, <3>2 DEF Speaks
      <3>3. CASE c.subject \in Table
        <4>1. (c.trigger = "alert") <=> c.subject \in cur
          BY <1>12, <1>14, <3>1, <3>3 DEF Speaks, cur
        <4>2. c.subject \in lost' \/ c.subject \notin silent'
          BY <1>1, <1>3, <1>7, <3>1, <3>3 DEF Speaks
        <4>3. c.subject \in lost' \/ baseline'.known
          BY <1>4, <1>7, <3>3
        <4> QED  BY <1>12, <1>14, <3>3, <4>1, <4>2, <4>3 DEF Speaks
      <3> QED  BY <1>13, <3>1, <3>2, <3>3
    <2> QED  BY <1>7, <1>9, <2>1, <2>2 DEF RunInv
  <1>16. ASSUME NEW q \in Trigger, q # r PROVE RunInv(q)'
    BY <1>1, <1>6, <1>7, <1>9, <1>16, OtherRuns
  <1>17. Alone'
    BY <1>1, <1>6, <1>7, StaysAlone
  <1>18. AlertAfterThreshold'
    BY <1>0, <1>1, <1>7 DEF AlertAfterThreshold
  <1>19. ReceiverPicture'
    <2>1. Pending \subseteq Pending' /\ Subjects(ch) \subseteq Pending'
      <3>1. \A q \in Trigger : Subjects(queue[q]) \subseteq Subjects(queue'[q])
        BY <1>7 DEF Subjects
      <3>2. Subjects(ch) \subseteq Subjects(queue'[r])
        BY <1>7 DEF Subjects
      <3> QED  BY <3>1, <3>2 DEF Pending
    <2> SUFFICES ASSUME NEW x \in Subject, x \notin lost', x \notin Pending'
                 PROVE  InAlarm(x)' <=> x \in heard \cup silent'
      BY <1>1 DEF ReceiverPicture
    <2>2. x \notin lost /\ x \notin Pending /\ (InAlarm(x) <=> x \in heard \cup silent)
      BY <1>0, <1>7, <2>1 DEF ReceiverPicture
    <2>3. CASE x \in Metric
      BY <1>0, <1>7, <1>11, <2>2, <2>3 DEF HealthShape
    <2>4. CASE x \in Table
      <3>1. p = baseline /\ (InAlarm(x)' <=> x \in cur) /\ (InAlarm(x) <=> x \in baseline.tables)
        BY <1>3, <1>12, <2>2, <2>4
      <3>2. CASE p.known
        <4>1. x \in cur <=> x \in p.tables
          BY <1>5, <2>1, <2>4, <3>2
        <4>2. x \in silent' <=> x \in silent
          BY <1>1, <2>1, <3>2
        <4> QED  BY <2>2, <3>1, <4>1, <4>2
      <3>3. CASE ~p.known
        <4>1. baseline.tables = {}
          BY <1>0, <3>1, <3>3 DEF HealthShape
        <4> QED  BY <1>1, <2>2, <3>1, <3>3, <4>1
      <3> QED  BY <3>2, <3>3
    <2> QED  BY <1>13, <2>3, <2>4
  <1> QED  BY <1>10, <1>15, <1>16, <1>17, <1>18, <1>19 DEF HealthInv

\* One change is delivered, or lost.
LEMMA DeliverSteps ==
    ASSUME HealthInv, NEW r \in Trigger, DeliverChange(r)
    PROVE  HealthInv'
  <1>0. HealthShape /\ RunInv(r) /\ AlertAfterThreshold /\ ReceiverPicture
    BY DEF HealthInv
  <1>1. PICK c \in queue[r] :
          /\ queue' = [queue EXCEPT ![r] = queue[r] \ {c}]
          /\ \/ heard' = Hears(c) /\ lost' = lost
             \/ heard' = heard /\ lost' = lost \cup {c.subject}
    BY DEF DeliverChange, Lose
  <1>2. /\ pc[r] = "deliver"
        /\ UNCHANGED <<bad, nopk, alert, baseline, streak, silent, pc, sample, at, prior, outcome>>
    BY DEF DeliverChange, stored, source
  <1>3. /\ queue' \in [Trigger -> SUBSET Change] /\ queue'[r] = queue[r] \ {c}
        /\ \A q \in Trigger : q # r => queue'[q] = queue[q]
        /\ lost \subseteq lost'
    BY <1>0, <1>1 DEF HealthShape
  <1>4. HealthShape'
    BY <1>0, <1>2, <1>3 DEF HealthShape
  <1>5. \A x : InAlarm(x)' = InAlarm(x)
    BY <1>2 DEF InAlarm
  <1>6. RunInv(r)'
    <2>1. \A d \in queue[r] : Speaks(r, d)'
      BY <1>0, <1>2, <1>3, <1>5 DEF RunInv, Speaks
    <2> QED  BY <1>2, <1>3, <2>1 DEF RunInv
  <1>7. ASSUME NEW q \in Trigger, q # r PROVE RunInv(q)'
    BY <1>2, <1>3, <1>7, OtherRuns
  <1>8. Alone'
    <2>1. Alone
      BY DEF HealthInv
    <2> QED  BY <1>2, <1>3, <2>1 DEF Alone
  <1>9. AlertAfterThreshold'
    BY <1>0, <1>2, <1>3 DEF AlertAfterThreshold
  <1>10. ReceiverPicture'
    <2>0. c \in Change /\ Speaks(r, c)
      BY <1>0 DEF RunInv, HealthShape
    <2>1. c.subject \in Subject /\ c.trigger \in {"alert", "resolved"}
      BY <2>0 DEF Change
    <2>2. ASSUME NEW x, x # c.subject, x \notin Pending' PROVE x \notin Pending
      <3>1. \A q \in Trigger : \A d \in queue[q] : d.subject = x => d \in queue'[q]
        BY <1>3, <2>2
      <3> QED  BY <2>2, <3>1 DEF Pending, Subjects
    <2> SUFFICES ASSUME NEW x \in Subject, x \notin lost', x \notin Pending'
                 PROVE  InAlarm(x) <=> x \in heard' \cup silent
      BY <1>2, <1>5 DEF ReceiverPicture
    <2>3. CASE x # c.subject
      <3>1. InAlarm(x) <=> x \in heard \cup silent
        BY <1>0, <1>3, <2>2, <2>3 DEF ReceiverPicture
      <3>2. x \in heard' <=> x \in heard
        BY <1>1, <2>3 DEF Hears
      <3> QED  BY <3>1, <3>2
    <2>4. CASE x = c.subject
      <3>1. heard' = Hears(c) /\ x \notin lost
        BY <1>1, <1>3, <2>4
      <3>2. InAlarm(x) <=> c.trigger = "alert"
        BY <2>0, <2>4, <3>1 DEF Speaks
      <3>3. x \notin silent
        BY <1>0, <2>0, <2>4, <3>1 DEF Speaks, HealthShape
      <3> QED  BY <2>1, <2>4, <3>1, <3>2, <3>3 DEF Hears
    <2> QED  BY <2>3, <2>4
  <1> QED  BY <1>4, <1>6, <1>7, <1>8, <1>9, <1>10 DEF HealthInv

\* The deliveries end; without a URL what is left is lost.
LEMMA DeliveredSteps ==
    ASSUME HealthInv, NEW r \in Trigger, Delivered(r)
    PROVE  HealthInv'
  <1>0. HealthShape /\ RunInv(r) /\ AlertAfterThreshold /\ ReceiverPicture
    BY DEF HealthInv
  <1>1. /\ pc[r] = "deliver" /\ pc' = [pc EXCEPT ![r] = "store"]
        /\ queue' = [queue EXCEPT ![r] = {}] /\ lost' = lost \cup Subjects(queue[r])
        /\ UNCHANGED <<bad, nopk, heard, alert, baseline, streak, silent, sample, at, prior, outcome>>
    BY DEF Delivered, Lose, Goto, stored, source
  <1>2. /\ queue' \in [Trigger -> SUBSET Change] /\ queue'[r] = {} /\ pc'[r] = "store"
        /\ pc' \in [Trigger -> Live \cup {"idle"}]
        /\ \A q \in Trigger : q # r => queue'[q] = queue[q] /\ pc'[q] = pc[q]
        /\ lost \subseteq lost'
    BY <1>0, <1>1 DEF HealthShape, Live
  <1>3. HealthShape'
    BY <1>0, <1>1, <1>2 DEF HealthShape
  <1>4. RunInv(r)'
    BY <1>2 DEF RunInv
  <1>5. ASSUME NEW q \in Trigger, q # r PROVE RunInv(q)'
    BY <1>1, <1>2, <1>5, OtherRuns
  <1>6. Alone'
    BY <1>1, <1>2, StaysAlone
  <1>7. AlertAfterThreshold'
    BY <1>0, <1>1, <1>2 DEF AlertAfterThreshold
  <1>8. ReceiverPicture'
    <2>1. ASSUME NEW x, x \notin lost', x \notin Pending' PROVE x \notin lost /\ x \notin Pending
      BY <1>1, <1>2, <2>1 DEF Pending
    <2>2. \A x : InAlarm(x)' = InAlarm(x)
      BY <1>1 DEF InAlarm
    <2> QED  BY <1>0, <1>1, <2>1, <2>2 DEF ReceiverPicture
  <1> QED  BY <1>3, <1>4, <1>5, <1>6, <1>7, <1>8 DEF HealthInv

\* A crash loses what the active runs had queued.
LEMMA CrashStep ==
    ASSUME HealthInv, Crash
    PROVE  HealthInv'
  <1>0. HealthShape /\ AlertAfterThreshold /\ ReceiverPicture /\ \A r \in Trigger : RunInv(r)
    BY DEF HealthInv
  <1>1. /\ lost' = lost \cup UNION {Subjects(queue[r]) : r \in Active}
        /\ pc' = [r \in Trigger |-> "idle"] /\ sample' = [r \in Trigger |-> NoSample]
        /\ at' = [r \in Trigger |-> 1] /\ prior' = [r \in Trigger |-> NoRow]
        /\ queue' = [r \in Trigger |-> {}] /\ outcome' = [r \in Trigger |-> "none"]
        /\ UNCHANGED <<bad, nopk, heard, alert, baseline, streak, silent>>
    BY DEF Crash, Lose, stored, source
  <1>2. NoSample \in SampleType /\ NoRow \in AlertRow
    BY ConstAssumption DEF NoSample, SampleType, NoRow, AlertRow
  <1>3. HealthShape'
    BY <1>0, <1>1, <1>2, StepsRange DEF HealthShape
  <1>4. Alone' /\ \A r \in Trigger : RunInv(r)'
    BY <1>1 DEF Alone, RunInv
  <1>5. AlertAfterThreshold'
    BY <1>0, <1>1 DEF AlertAfterThreshold
  <1>6. ReceiverPicture'
    <2>1. \A r \in Trigger : r \notin Active => queue[r] = {}
      BY <1>0 DEF RunInv, Active, Live
    <2>2. \A r \in Trigger : Subjects(queue[r]) \subseteq lost'
      BY <1>1, <2>1 DEF Subjects
    <2>3. ASSUME NEW x, x \notin lost' PROVE x \notin lost /\ x \notin Pending
      BY <1>1, <2>2, <2>3 DEF Pending
    <2>4. \A x : InAlarm(x)' = InAlarm(x)
      BY <1>1 DEF InAlarm
    <2> QED  BY <1>0, <1>1, <2>3, <2>4 DEF ReceiverPicture
  <1> QED  BY <1>3, <1>4, <1>5, <1>6 DEF HealthInv
----------------------------------------------------------------------------
(* The theorems *)

\* Nothing is stored, heard or queued at first.
LEMMA HealthInitInv == Init => HealthInv
  <1> SUFFICES ASSUME Init PROVE HealthInv
    OBVIOUS
  <1> USE ConstAssumption DEF Init
  <1>1. NoSample \in SampleType /\ NoRow \in AlertRow /\ NoBaseline \in Baseline
        /\ ~NoBaseline.known /\ NoBaseline.tables = {} /\ NoRow.state = "none"
    BY DEF NoSample, SampleType, NoRow, AlertRow, NoBaseline, Baseline
  <1>2. 0 \in 0..Needed /\ Needed # 0
    BY DEF Needed
  <1>3. HealthShape
    BY <1>1, <1>2, StepsRange DEF HealthShape
  <1>4. Alone /\ \A r \in Trigger : RunInv(r)
    BY DEF Alone, RunInv
  <1>5. AlertAfterThreshold
    BY <1>1, <1>2 DEF AlertAfterThreshold
  <1>6. ReceiverPicture
    BY <1>1 DEF ReceiverPicture, InAlarm
  <1> QED  BY <1>3, <1>4, <1>5, <1>6 DEF HealthInv

\* Every step keeps it.
LEMMA HealthNextInv == HealthInv /\ [Next]_vars => HealthInv'
  BY WorldSteps, StartSteps, PlainSteps, LoadSteps, MetricSteps, MissingPkSteps, DeliverSteps,
     DeliveredSteps, CrashStep
     DEF Next, RunStep

\* Without a failure there is no manual run, the newest results row and the task's
\* status agree, and a run that succeeded has written its row before it finishes.
StatusInv ==
    /\ pc \in [Trigger -> Live \cup {"idle"}] /\ outcome \in [Trigger -> {"none", "ok", "error"}]
    /\ faults \in Nat
    /\ pc["scheduler"] = "finish" => outcome["scheduler"] # "none"
    /\ faults = 0 =>
          /\ pc["manual"] = "idle"
          /\ pc["scheduler"] # "finish" =>
                /\ lastStatus = "failed" <=> result = "failed"
                /\ lastStatus = "succeeded" <=> result \in {"success", "partial"}
          /\ pc["scheduler"] = "finish" /\ outcome["scheduler"] = "ok" =>
                result \in {"success", "partial"}

\* Every step keeps the agreement of results and status.
LEMMA StatusNextInv == StatusInv /\ [Next]_vars => StatusInv'
  <1> SUFFICES ASSUME StatusInv, [Next]_vars PROVE StatusInv'
    OBVIOUS
  <1> USE DEF StatusInv, Trigger
  <1>1. CASE ScanTasks \/ SkipTask \/ CronTick \/ SourceChange \/ UNCHANGED vars
    BY <1>1 DEF ScanTasks, SkipTask, CronTick, SourceChange, vars, task
  <1>2. CASE DispatchTask
    BY <1>2 DEF DispatchTask, StartRun, Goto, task, Live
  <1>3. CASE RunTaskNow
    BY <1>3 DEF RunTaskNow, StartRun, Goto, Fault, task, Live
  <1>4. CASE Crash
    BY <1>4 DEF Crash, Fault, task, Live
  <1>5. ASSUME NEW r \in Trigger, RunStep(r) PROVE StatusInv'
    <2>0. faults' \in Nat /\ (faults' = 0 => faults = 0 /\ r = "scheduler")
      <3>1. pc[r] # "idle" /\ (faults' = faults \/ faults' = faults + 1)
        BY <1>5 DEF RunStep, OpenRun, PrepareRun, Collect, LoadState, PersistMetric, PersistMissingPk,
                    DeliverChange, Delivered, StoreResult, FinishRun, ReleaseTask, Fault, NoFault
      <3> QED  BY <3>1
    <2>1. CASE OpenRun(r)
      BY <2>0, <2>1 DEF OpenRun, Goto, NoFault, Fault, task, Live
    <2>2. CASE PrepareRun(r)
      BY <2>0, <2>2 DEF PrepareRun, Goto, Return, NoFault, Fault, task, Live
    <2>3. CASE Collect(r) \/ LoadState(r)
      BY <2>0, <2>3 DEF Collect, LoadState, Goto, task, Live
    <2>4. CASE PersistMetric(r) \/ PersistMissingPk(r)
      BY <2>0, <2>4 DEF PersistMetric, PersistMissingPk, Continue, Goto, task, Live
    <2>5. CASE DeliverChange(r) \/ Delivered(r)
      BY <2>0, <2>5 DEF DeliverChange, Delivered, Goto, task, Live
    <2>6. CASE StoreResult(r)
      BY <2>0, <2>6 DEF StoreResult, Return, Goto, RunStatus, NoFault, Fault, Live
    <2>7. CASE FinishRun(r)
      BY <2>0, <2>7 DEF FinishRun, ResultAfter, Goto, NoFault, Fault, Live
    <2>8. CASE ReleaseTask(r)
      BY <2>0, <2>8 DEF ReleaseTask, Goto, task, Live
    <2> QED  BY <1>5, <2>1, <2>2, <2>3, <2>4, <2>5, <2>6, <2>7, <2>8 DEF RunStep
  <1> QED  BY <1>1, <1>2, <1>3, <1>4, <1>5 DEF Next

\* evaluate_threshold_metric over any sequence of runs: for any metrics, tables and
\* fail_threshold, a metric whose rows were loaded and stored by one run at a time
\* alerts exactly when its failing samples have reached the threshold (two samples,
\* if that is 1), and one passing sample resets it.
THEOREM AlertAfterThresholdHolds == Spec => []AlertAfterThreshold
  <1>1. HealthInv => AlertAfterThreshold
    BY DEF HealthInv
  <1> QED  BY <1>1, HealthInitInv, HealthNextInv, PTL DEF Spec

\* The webhook receiver and the control database agree on what is in alarm about
\* every subject of which nothing was lost and nothing is still to be delivered,
\* across crashes, skipped metrics and the silent first baseline.
THEOREM ReceiverPictureHolds == Spec => []ReceiverPicture
  <1>1. HealthInv => ReceiverPicture
    BY DEF HealthInv
  <1> QED  BY <1>1, HealthInitInv, HealthNextInv, PTL DEF Spec

\* run_task: a scheduled run that failed leaves a failed results row, and one that
\* succeeded a row of its own, whatever happens to the source meanwhile.
THEOREM FailureVisibleHolds == Spec => []FailureVisible
  <1>1. Init => StatusInv
    BY DEF Init, StatusInv, Trigger
  <1>2. StatusInv => FailureVisible
    BY DEF StatusInv, FailureVisible
  <1> QED  BY <1>1, <1>2, StatusNextInv, PTL DEF Spec

----------------------------------------------------------------------------
(* The scheduler takes the task before it runs it *)

TaskId == "task"
HeldTasks == IF inFlight THEN {TaskId} ELSE {}
WorkOf == [t \in {TaskId} |-> Active \cap {"scheduler"}]

\* InFlightTasks as a lock of the scheduler's run.
Lock == INSTANCE TaskLock WITH Task <- {TaskId}, Run <- Trigger, held <- HeldTasks, work <- WorkOf

\* The task is in flight exactly while the scheduler's run is at work.
LockInv ==
    /\ inFlight \in BOOLEAN /\ pc \in [Trigger -> Live \cup {"idle"}]
    /\ inFlight <=> pc["scheduler"] # "idle"

\* The lock by where the scheduler's run is.
LEMMA LockValues ==
    ASSUME LockInv
    PROVE  /\ HeldTasks = (IF pc["scheduler"] # "idle" THEN {TaskId} ELSE {})
           /\ WorkOf = [t \in {TaskId} |-> IF pc["scheduler"] # "idle" THEN {"scheduler"} ELSE {}]
  <1>1. pc["scheduler"] \in Live <=> pc["scheduler"] # "idle"
    BY DEF LockInv, Trigger, Live
  <1>2. Active \cap {"scheduler"} = IF pc["scheduler"] # "idle" THEN {"scheduler"} ELSE {}
    BY <1>1 DEF Active, Trigger
  <1> QED  BY <1>2 DEF LockInv, HeldTasks, WorkOf

\* ... and after a step.
LEMMA LockValuesNext ==
    ASSUME LockInv'
    PROVE  /\ HeldTasks' = (IF pc'["scheduler"] # "idle" THEN {TaskId} ELSE {})
           /\ WorkOf' = [t \in {TaskId} |-> IF pc'["scheduler"] # "idle" THEN {"scheduler"} ELSE {}]
  <1>1. pc'["scheduler"] \in Live <=> pc'["scheduler"] # "idle"
    BY DEF LockInv, Trigger, Live
  <1>2. Active' \cap {"scheduler"} = IF pc'["scheduler"] # "idle" THEN {"scheduler"} ELSE {}
    BY <1>1 DEF Active, Trigger
  <1> QED  BY <1>2 DEF LockInv, HeldTasks, WorkOf

\* Every step of a run but its release leads to another one or stays where it is.
LEMMA RunGoesOn ==
    ASSUME LockInv, NEW r \in Trigger, RunStep(r), ~ReleaseTask(r)
    PROVE  /\ pc[r] # "idle" /\ inFlight' = inFlight
           /\ pc' = pc \/ \E l \in Live : pc' = [pc EXCEPT ![r] = l]
  <1>1. CASE OpenRun(r)
    BY <1>1 DEF OpenRun, Goto, sched, Live
  <1>2. CASE PrepareRun(r)
    BY <1>2 DEF PrepareRun, Return, Goto, sched, Live
  <1>3. CASE Collect(r)
    BY <1>3 DEF Collect, Goto, sched, Live
  <1>4. CASE LoadState(r)
    BY <1>4 DEF LoadState, Goto, sched, Live
  <1>5. CASE PersistMetric(r)
    BY <1>5 DEF PersistMetric, Continue, Goto, sched, Live
  <1>6. CASE PersistMissingPk(r)
    BY <1>6 DEF PersistMissingPk, Continue, Goto, sched, Live
  <1>7. CASE DeliverChange(r)
    BY <1>7 DEF DeliverChange, sched
  <1>8. CASE Delivered(r)
    BY <1>8 DEF Delivered, Goto, sched, Live
  <1>9. CASE StoreResult(r)
    BY <1>9 DEF StoreResult, Return, Goto, sched, Live
  <1>10. CASE FinishRun(r)
    BY <1>10 DEF FinishRun, Goto, sched, Live
  <1> QED
    BY <1>1, <1>2, <1>3, <1>4, <1>5, <1>6, <1>7, <1>8, <1>9, <1>10 DEF RunStep

\* A step of anybody is one of the lock: the dispatch takes it, the end of the
\* scheduler's run frees it, a crash frees everything; a run started by hand never
\* touches it.
LEMMA LockNext == LockInv /\ [Next]_vars => LockInv' /\ [Lock!Next]_(Lock!vars)
  <1> SUFFICES ASSUME LockInv, [Next]_vars
               PROVE  LockInv' /\ [Lock!Next]_(Lock!vars)
    OBVIOUS
  <1> DEFINE busy == pc["scheduler"] # "idle"
  <1>0. "scheduler" \in Trigger /\ pc \in [Trigger -> Live \cup {"idle"}]
    BY DEF LockInv, Trigger
  <1>1. ASSUME LockInv', inFlight' = inFlight PROVE UNCHANGED Lock!vars
    <2>1. HeldTasks' = HeldTasks
      BY <1>1 DEF HeldTasks
    <2>2. busy' <=> busy
      BY <1>1 DEF LockInv
    <2>3. WorkOf' = WorkOf
      BY <1>1, <2>2, LockValues, LockValuesNext
    <2> QED  BY <2>1, <2>3 DEF Lock!vars
  <1>2. ASSUME UNCHANGED <<pc, inFlight>> PROVE LockInv' /\ [Lock!Next]_(Lock!vars)
    <2>1. LockInv'
      BY <1>2 DEF LockInv
    <2> QED  BY <1>1, <1>2, <2>1
  <1>3. CASE DispatchTask
    <2>1. ~inFlight /\ inFlight' /\ pc' = [pc EXCEPT !["scheduler"] = "open"]
      BY <1>3 DEF DispatchTask, StartRun, Goto
    <2>2. LockInv' /\ ~busy /\ busy'
      BY <1>0, <2>1 DEF LockInv, Live
    <2>3. /\ HeldTasks = {} /\ HeldTasks' = {TaskId}
          /\ WorkOf = [t \in {TaskId} |-> {}] /\ WorkOf' = [t \in {TaskId} |-> {"scheduler"}]
      BY <2>1, <2>2, LockValues, LockValuesNext DEF HeldTasks
    <2>4. Lock!Acquire(TaskId, "scheduler")
      BY <2>3 DEF Lock!Acquire
    <2> QED  BY <1>0, <2>2, <2>4 DEF Lock!Next
  <1>4. CASE RunTaskNow
    <2>1. inFlight' = inFlight /\ pc' = [pc EXCEPT !["manual"] = "open"]
      BY <1>4 DEF RunTaskNow, StartRun, Goto, sched
    <2>2. LockInv'
      BY <1>0, <2>1 DEF LockInv, Live, Trigger
    <2> QED  BY <1>1, <2>1, <2>2
  <1>5. ASSUME NEW r \in Trigger, RunStep(r), ~ReleaseTask(r)
        PROVE  LockInv' /\ [Lock!Next]_(Lock!vars)
    <2>1. CASE pc' = pc
      BY <1>2, <1>5, <2>1, RunGoesOn
    <2>2. ASSUME NEW l \in Live, pc' = [pc EXCEPT ![r] = l]
          PROVE  LockInv' /\ [Lock!Next]_(Lock!vars)
      <3>1. inFlight' = inFlight /\ pc[r] # "idle" /\ l # "idle"
        BY <1>5, RunGoesOn DEF Live
      <3>2. LockInv'
        BY <1>0, <2>2, <3>1 DEF LockInv
      <3> QED  BY <1>1, <3>1, <3>2
    <2> QED  BY <1>5, <2>1, <2>2, RunGoesOn
  <1>6. ASSUME NEW r \in Trigger, ReleaseTask(r)
        PROVE  LockInv' /\ [Lock!Next]_(Lock!vars)
    <2>1. /\ pc[r] = "release" /\ pc' = [pc EXCEPT ![r] = "idle"]
          /\ inFlight' = (inFlight /\ r # "scheduler")
      BY <1>6 DEF ReleaseTask, Goto
    <2>2. CASE r = "scheduler"
      <3>1. inFlight /\ ~inFlight' /\ busy /\ ~busy' /\ LockInv'
        BY <1>0, <2>1, <2>2 DEF LockInv
      <3>2. /\ HeldTasks = {TaskId} /\ HeldTasks' = {}
            /\ WorkOf = [t \in {TaskId} |-> {"scheduler"}] /\ WorkOf' = [t \in {TaskId} |-> {}]
        BY <3>1, LockValues, LockValuesNext DEF HeldTasks
      <3>3. Lock!Release(TaskId, "scheduler")
        BY <3>2 DEF Lock!Release
      <3> QED  BY <1>0, <3>1, <3>3 DEF Lock!Next
    <2>3. CASE r # "scheduler"
      <3>1. inFlight' = inFlight
        BY <2>1, <2>3 DEF LockInv
      <3>2. LockInv'
        BY <1>0, <2>1, <2>3, <3>1 DEF LockInv
      <3> QED  BY <1>1, <3>1, <3>2
    <2> QED  BY <2>2, <2>3
  <1>7. CASE Crash
    <2>1. inFlight' = FALSE /\ pc' = [r \in Trigger |-> "idle"]
      BY <1>7 DEF Crash
    <2>2. LockInv' /\ ~busy'
      BY <1>0, <2>1 DEF LockInv
    <2>3. HeldTasks' = {} /\ WorkOf' = [t \in {TaskId} |-> {}]
      BY <2>1, <2>2, LockValuesNext DEF HeldTasks
    <2> QED  BY <2>2, <2>3 DEF Lock!Next, Lock!Restart
  <1>8. CASE ScanTasks \/ SkipTask \/ CronTick \/ SourceChange \/ UNCHANGED vars
    BY <1>2, <1>8 DEF ScanTasks, SkipTask, CronTick, SourceChange, vars, sched
  <1> QED  BY <1>3, <1>4, <1>5, <1>6, <1>7, <1>8 DEF Next

\* health_check's scheduler.rs implements TaskLock: the task is taken before its run
\* starts and free again with the end of that run, on every path through run_task and
\* whatever a manual run does meanwhile.
THEOREM HealthImplementsLock == Spec => Lock!Spec
  <1>1. Init => LockInv /\ Lock!Init
    <2> SUFFICES ASSUME Init PROVE LockInv /\ Lock!Init
      OBVIOUS
    <2>1. inFlight = FALSE /\ pc = [r \in Trigger |-> "idle"]
      BY DEF Init
    <2>2. LockInv /\ pc["scheduler"] = "idle"
      BY <2>1 DEF LockInv, Trigger
    <2> QED  BY <2>1, <2>2, LockValues DEF Lock!Init, HeldTasks
  <1> QED  BY <1>1, LockNext, PTL DEF Spec, Lock!Spec

=============================================================================
