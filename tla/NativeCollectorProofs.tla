------------------------ MODULE NativeCollectorProofs ------------------------
(***************************************************************************)
(* Theorems about QueryStats and NativeCollector: weekly reports do not    *)
(* overlap, a stored cursor has nothing lost behind it, and a native event *)
(* is counted once.                                                        *)
(***************************************************************************)
EXTENDS NativeCollector, FiniteSetTheorems, WellFoundedInduction, NaturalsInduction, TLAPS

----------------------------------------------------------------------------
(* Weekly reports: the inductive invariant *)

\* Rows have ids of their own and the time of their INSERT; reports and running
\* generations have the time of their call.
ReportShape ==
    /\ inserted \in Nat /\ now \in Nat /\ crossed \in BOOLEAN
    /\ \A s \in stats : s.id \in Nat /\ s.id < inserted /\ s.at \in Nat /\ s.at <= now
    /\ \A s, u \in stats : s.id = u.id => s = u
    /\ \A r \in reports : r.gen \in Nat /\ r.gen <= now
    /\ gpc \in [Caller -> {"idle", "check", "total", "insert"}]
    /\ gnow \in [Caller -> Nat] /\ \A c \in Caller : gnow[c] <= now
    /\ DOMAIN gtotal = Caller

\* What a report or a generation has counted was captured in its window.
InWindow(samples, gen) ==
    /\ \A i \in samples : i \in Nat /\ i < inserted
    /\ \A s \in stats : s.id \in samples => s.at >= Before(gen, Week)

Windows ==
    /\ \A r \in reports : InWindow(r.samples, r.gen)
    /\ \A c \in Caller : InWindow(gtotal[c], gnow[c])
    /\ \A c \in Caller : gpc[c] # "insert" => gtotal[c] = {}

\* Unless generations crossed, one is at work at a time, a window after every
\* report there is.
OneByOne ==
    ~crossed =>
        /\ \A c, d \in Generating : c = d
        /\ \A c \in Generating, r \in reports : r.gen + Week <= gnow[c]
        /\ \A r, q \in reports : (r # q /\ r.gen <= q.gen) => r.gen + Week <= q.gen

ReportInv == ReportShape /\ Windows /\ OneByOne

----------------------------------------------------------------------------
(* Native collector: the inductive invariant *)

Entry == [id : Nat, ev : Nat]
SlowRow == [pos : Nat, ev : Nat]

InRedis == cpc \in {"redis_cursor", "redis_insert"}

\* The event is in the table, or its absence has a cause.
Covered(source, k) == Copies(source, k) # {} \/ Key(source, k) \in excused

CollectorShape ==
    /\ ring \in Seq(Entry) /\ nextId \in Nat /\ execs \in Nat /\ upsets \in Nat
    /\ slowLog \in Seq([ev : Nat, digest : Digest])
    /\ DOMAIN cursor = {"redis", "slow", "ps"} /\ cursor.redis \in Nat /\ cursor.slow \in Nat
    /\ last \in Nat /\ top \in Nat /\ n \in Nat
    /\ cpc \in {"idle", "redis"} => top = 0
    /\ InRedis => batch \in Seq(Entry)
    /\ cpc = "slow_insert" => batch \in Seq(SlowRow)

\* While Redis has not restarted, ids are positions in its log, and the cursor
\* and the round are about entries of that log.
RingIds ==
    /\ nextId = Len(ring)
    /\ \A i \in 1..Len(ring) : ring[i].id = i - 1
    /\ cursor.redis = 0 \/ cursor.redis < Len(ring)
    /\ InRedis =>
          /\ top = 0 \/ top < Len(ring)
          /\ \A j \in 1..Len(batch) : \E i \in 1..Len(ring) : batch[j] = ring[i]
    /\ cpc = "redis_insert" => last <= cursor.redis

\* The batch goes from the newest entry to the oldest, so the largest id is
\* inserted first: what is at or below it is in the table or still in the batch.
RedisCovered ==
    \A i \in 1..Len(ring) : ring[i].ev # 0 /\ ring[i].id > 0 =>
        /\ ring[i].id <= cursor.redis => Covered("redis", ring[i].ev)
        /\ (InRedis /\ (ring[i].id <= top \/ \E j \in 1..Len(batch) : ring[i].id <= batch[j].id))
              => \/ Covered("redis", ring[i].ev)
                 \/ \E j \in 1..Len(batch) : batch[j] = ring[i]

RedisInv == upsets = 0 => RingIds /\ RedisCovered

\* Everything up to position m of the slow log is accounted for.
SlowCovered(m) == m <= Len(slowLog) /\ \A i \in 1..m : Covered("slow", slowLog[i].ev)

\* The batch is the rest of the slow log after what has been accounted for.
SlowInv ==
    /\ SlowCovered(cursor.slow)
    /\ cpc = "slow_rows" => last <= cursor.slow
    /\ cpc = "slow_insert" =>
          /\ SlowCovered(top)
          /\ batch # <<>> => SlowCovered(batch[1].pos - 1)
          /\ \A k \in 1..Len(batch) :
                /\ batch[k].pos = batch[1].pos + k - 1
                /\ batch[k].pos \in 1..Len(slowLog)
                /\ batch[k].ev = slowLog[batch[k].pos].ev

\* The collector's own command is not recorded.
OwnSkipped == Copies("redis", 0) = {}

CursorInv == CollectorShape /\ RedisInv /\ SlowInv /\ OwnSkipped

----------------------------------------------------------------------------
(* Facts about numbers and windows *)

\* A nonempty set of natural numbers has a least element.
LEMMA LeastOf ==
    ASSUME NEW T, T \subseteq Nat, T # {}
    PROVE  \E x \in T : \A y \in T : x <= y
  <1> DEFINE R == OpToRel(<, Nat)
  <1>1. IsWellFoundedOn(R, Nat)
    BY NatLessThanWellFounded
  <1>2. \A x, y \in Nat : x < y => <<x, y>> \in R
    BY DEF OpToRel
  <1> HIDE DEF R
  <1>3. PICK x \in T : \A y \in T : ~ (<<y, x>> \in R)
    BY <1>1, WFMin
  <1>4. \A y \in T : ~ (y < x)
    BY <1>2, <1>3
  <1> QED  BY <1>3, <1>4

\* ORDER BY generated_at DESC LIMIT 1 finds a newest report.
LEMMA LatestIsNewest ==
    ASSUME ReportShape, reports # {}
    PROVE  Latest \in reports /\ \A q \in reports : q.gen <= Latest.gen
  <1> DEFINE S == {now - r.gen : r \in reports}
  <1>0. now \in Nat /\ \A r \in reports : r.gen \in Nat /\ r.gen <= now
    BY DEF ReportShape
  <1>1. S \subseteq Nat /\ S # {}
    BY <1>0
  <1>2. PICK x \in S : \A y \in S : x <= y
    <2> HIDE DEF S
    <2> QED  BY <1>1, LeastOf
  <1>3. PICK r \in reports : x = now - r.gen
    BY <1>2
  <1>4. \A q \in reports : now - r.gen <= now - q.gen
    BY <1>2, <1>3
  <1>5. \A q \in reports : q.gen <= r.gen
    BY <1>0, <1>4
  <1> QED  BY <1>5 DEF Latest

\* The window of a generation starts at its now - 7 days or later.
LEMMA WindowStart ==
    ASSUME ReportShape, NEW c \in Caller, NEW s \in stats, s.at >= WindowFrom(c)
    PROVE  s.at >= Before(gnow[c], Week)
  <1> DEFINE from == Before(gnow[c], Week)
             ats == {x.at : x \in stats}
  <1>0. from \in Nat /\ s.at \in Nat
    BY QueryStatsAssumption DEF ReportShape, Before
  <1>1. Min(ats) \in ats
    <2>1. ats \subseteq Nat /\ ats # {}
      BY DEF ReportShape
    <2> HIDE DEF ats
    <2>2. \E x \in ats : \A y \in ats : x <= y
      BY <2>1, LeastOf
    <2> QED  BY <2>2 DEF Min
  <1>2. Min(ats) \in Nat
    BY <1>1 DEF ReportShape
  <1>3. WindowFrom(c) = IF ats # {} /\ Min(ats) > from THEN Min(ats) ELSE from
    BY DEF WindowFrom
  <1> HIDE DEF from, ats
  <1>4. WindowFrom(c) >= from /\ WindowFrom(c) \in Nat
    BY <1>0, <1>2, <1>3
  <1>5. s.at >= from
    BY <1>0, <1>4
  <1> QED  BY <1>5 DEF from

----------------------------------------------------------------------------
(* Weekly reports: the steps *)

\* What a step that writes no report does: it may insert a row with a new id and
\* the present time, and delete rows; time goes on.
TableStep ==
    /\ inserted' \in Nat /\ now' \in Nat /\ now <= now' /\ inserted <= inserted'
    /\ \A s \in stats' : s \in stats \/ (s.id = inserted /\ s.at = now /\ inserted' = inserted + 1)
    /\ \A s, u \in stats' : (s \notin stats /\ u \notin stats) => s = u

\* The table's rows keep their shape.
LEMMA TableShape ==
    ASSUME ReportShape, TableStep
    PROVE  /\ \A s \in stats' : s.id \in Nat /\ s.id < inserted' /\ s.at \in Nat /\ s.at <= now'
           /\ \A s, u \in stats' : s.id = u.id => s = u
  <1>1. ASSUME NEW s \in stats'
        PROVE  s.id \in Nat /\ s.id < inserted' /\ s.at \in Nat /\ s.at <= now'
    BY DEF ReportShape, TableStep
  <1>2. ASSUME NEW s \in stats', NEW u \in stats', s.id = u.id PROVE s = u
    <2>1. inserted \in Nat /\ \A x \in stats : x.id \in Nat /\ x.id < inserted
      BY DEF ReportShape
    <2>2. CASE s \in stats /\ u \in stats
      BY <1>2, <2>2 DEF ReportShape
    <2>3. CASE s \notin stats /\ u \notin stats
      BY <2>3 DEF TableStep
    <2>4. CASE s \in stats /\ u \notin stats
      <3>1. u.id = inserted /\ s.id < inserted
        BY <2>1, <2>4 DEF TableStep
      <3> QED  BY <1>2, <2>1, <2>4, <3>1
    <2>5. CASE s \notin stats /\ u \in stats
      <3>1. s.id = inserted /\ u.id < inserted
        BY <2>1, <2>5 DEF TableStep
      <3> QED  BY <1>2, <2>1, <2>5, <3>1
    <2> QED  BY <2>2, <2>3, <2>4, <2>5
  <1> QED  BY <1>1, <1>2

\* New rows are in no window that was counted before.
LEMMA WindowKept ==
    ASSUME ReportShape, TableStep, NEW samples, NEW gen, InWindow(samples, gen)
    PROVE  InWindow(samples, gen)'
  <1>1. \A i \in samples : i \in Nat /\ i < inserted
    BY DEF InWindow
  <1>2. inserted \in Nat /\ inserted' \in Nat /\ inserted <= inserted'
    BY DEF ReportShape, TableStep
  <1>3. \A i \in samples : i \in Nat /\ i < inserted'
    BY <1>1, <1>2
  <1>4. ASSUME NEW s \in stats', s.id \in samples PROVE s.at >= Before(gen, Week)
    <2>1. s.id # inserted
      BY <1>1, <1>2, <1>4
    <2>2. s \in stats
      BY <2>1 DEF TableStep
    <2> QED  BY <1>4, <2>2 DEF InWindow
  <1> QED  BY <1>3, <1>4 DEF InWindow, Before

\* A step that leaves reports and generations alone.
LEMMA QuietReports ==
    ASSUME ReportInv, TableStep, UNCHANGED reportVars
    PROVE  ReportInv'
  <1>0. UNCHANGED <<reports, gpc, gnow, gtotal, crossed>>
    BY DEF reportVars
  <1>1. ReportShape'
    <2>1. /\ \A r \in reports : r.gen \in Nat /\ r.gen <= now'
          /\ \A c \in Caller : gnow[c] <= now'
      BY DEF ReportInv, ReportShape, TableStep
    <2>2. ReportShape
      BY DEF ReportInv
    <2>3. inserted' \in Nat /\ now' \in Nat
      BY DEF TableStep
    <2> QED  BY <1>0, <2>1, <2>2, <2>3, TableShape DEF ReportShape
  <1>2. Windows'
    <2>1. ASSUME NEW r \in reports PROVE InWindow(r.samples, r.gen)'
      BY WindowKept DEF ReportInv, Windows
    <2>2. ASSUME NEW c \in Caller PROVE InWindow(gtotal[c], gnow[c])'
      <3>1. PICK i, g : i = gtotal[c] /\ g = gnow[c]
        OBVIOUS
      <3>2. InWindow(i, g)'
        BY <3>1, WindowKept DEF ReportInv, Windows
      <3> QED  BY <1>0, <3>1, <3>2
    <2> QED  BY <1>0, <2>1, <2>2 DEF ReportInv, Windows
  <1>3. OneByOne'
    BY <1>0 DEF ReportInv, OneByOne, Generating
  <1> QED  BY <1>1, <1>2, <1>3 DEF ReportInv

\* The table is left alone.
LEMMA NoTableStep ==
    ASSUME ReportShape, UNCHANGED <<statsVars, now>>
    PROVE  TableStep
  BY DEF ReportShape, TableStep, statsVars

\* An INSERT.
LEMMA InsertIsTableStep ==
    ASSUME ReportShape, NEW source, NEW k, NEW m, InsertRow(source, k, m), UNCHANGED now
    PROVE  TableStep
  <1> DEFINE row == [id |-> inserted, source |-> source, key |-> k, count |-> m, at |-> now]
  <1>1. row.id = inserted /\ row.at = now
    OBVIOUS
  <1>2. stats' = stats \cup {row} /\ inserted' = inserted + 1 /\ now' = now
    BY DEF InsertRow
  <1> HIDE DEF row
  <1>3. inserted \in Nat /\ now \in Nat
    BY DEF ReportShape
  <1> QED  BY <1>1, <1>2, <1>3 DEF TableStep

\* The steps of the recorder, of retention and of time.
LEMMA TableSteps ==
    ASSUME ReportInv,
           \/ \E q \in Statement : RecordQuery(q)
           \/ \E p \in spawned : InsertSample(p)
           \/ Rotate \/ Tick
    PROVE  ReportInv'
  <1>0. ReportShape
    BY DEF ReportInv
  <1>1. ASSUME NEW q \in Statement, RecordQuery(q) PROVE ReportInv'
    <2>1. UNCHANGED <<statsVars, now>> /\ UNCHANGED reportVars
      BY <1>1 DEF RecordQuery
    <2> QED  BY <1>0, <2>1, NoTableStep, QuietReports
  <1>2. ASSUME NEW p \in spawned, InsertSample(p) PROVE ReportInv'
    <2>0. UNCHANGED <<now, excused>> /\ UNCHANGED reportVars
      BY <1>2 DEF InsertSample, envVars
    <2>1. CASE InsertRow("gateway", p.digest, 1)
      BY <1>0, <2>0, <2>1, InsertIsTableStep, QuietReports
    <2>2. CASE UNCHANGED <<stats, inserted>>
      BY <1>0, <2>0, <2>2, NoTableStep, QuietReports DEF statsVars
    <2> QED  BY <1>2, <2>1, <2>2 DEF InsertSample
  <1>3. CASE Rotate
    <2>1. stats' \subseteq stats /\ UNCHANGED <<inserted, now>> /\ UNCHANGED reportVars
      BY <1>3 DEF Rotate, envVars
    <2>2. TableStep
      BY <1>0, <2>1 DEF TableStep, ReportShape
    <2> QED  BY <2>1, <2>2, QuietReports
  <1>4. CASE Tick
    <2>1. UNCHANGED <<stats, inserted>> /\ now' = now + 1 /\ UNCHANGED reportVars
      BY <1>4 DEF Tick, statsVars
    <2>2. TableStep
      BY <1>0, <2>1 DEF TableStep, ReportShape
    <2> QED  BY <2>1, <2>2, QuietReports
  <1> QED  BY <1>1, <1>2, <1>3, <1>4

\* The beginning of a generation.
LEMMA BeginStep ==
    ASSUME ReportInv, NEW c \in Caller, gpc[c] = "idle",
           gpc' = [gpc EXCEPT ![c] = "check"], gnow' = [gnow EXCEPT ![c] = now],
           UNCHANGED <<statsVars, reports, gtotal, crossed, envVars>>
    PROVE  ReportInv'
  <1>0. UNCHANGED <<stats, inserted, now, reports, gtotal, crossed>>
    BY DEF statsVars, envVars
  <1>1. ReportShape'
    BY <1>0 DEF ReportInv, ReportShape
  <1>2. gtotal[c] = {}
    BY DEF ReportInv, Windows
  <1>3. Windows'
    <2>1. ASSUME NEW r \in reports PROVE InWindow(r.samples, r.gen)'
      BY <1>0 DEF ReportInv, Windows, InWindow
    <2>2. ASSUME NEW d \in Caller PROVE InWindow(gtotal[d], gnow[d])'
      <3>1. CASE d = c
        BY <1>0, <1>2, <3>1 DEF InWindow
      <3>2. CASE d # c
        BY <1>0, <3>2 DEF ReportInv, ReportShape, Windows, InWindow
      <3> QED  BY <3>1, <3>2
    <2>3. \A d \in Caller : gpc'[d] # "insert" => gtotal[d] = {}
      BY <1>2 DEF ReportInv, ReportShape, Windows
    <2> QED  BY <1>0, <2>1, <2>2, <2>3 DEF Windows
  <1>4. Generating' = Generating /\ \A d \in Generating : gnow'[d] = gnow[d]
    BY DEF ReportInv, ReportShape, Generating
  <1>5. OneByOne'
    BY <1>0, <1>4 DEF ReportInv, OneByOne
  <1> QED  BY <1>1, <1>3, <1>5 DEF ReportInv

\* The end of a generation; q is the report it may have written.
LEMMA LeaveStep ==
    ASSUME ReportInv, NEW c \in Caller, Leave(c),
           UNCHANGED <<statsVars, envVars>>, crossed' = crossed,
           \/ reports' = reports
           \/ /\ gpc[c] = "insert"
              /\ reports' = reports \cup {[by |-> c, gen |-> gnow[c], samples |-> gtotal[c]]}
    PROVE  ReportInv'
  <1>0. UNCHANGED <<stats, inserted, now, crossed>>
    BY DEF statsVars, envVars
  <1>a. PICK w : w = [by |-> c, gen |-> gnow[c], samples |-> gtotal[c]]
    OBVIOUS
  <1>b. w.gen = gnow[c] /\ w.samples = gtotal[c]
    BY <1>a
  <1>c. \A r \in reports' : r \in reports \/ (r = w /\ gpc[c] = "insert")
    BY <1>a
  <1>1. ReportShape'
    <2>1. \A r \in reports' : r.gen \in Nat /\ r.gen <= now
      BY <1>b, <1>c DEF ReportInv, ReportShape
    <2>2. /\ gpc' \in [Caller -> {"idle", "check", "total", "insert"}]
          /\ gnow' \in [Caller -> Nat] /\ \A d \in Caller : gnow'[d] <= now
          /\ DOMAIN gtotal' = Caller
      BY DEF ReportInv, ReportShape, Leave, GoTo
    <2> QED  BY <1>0, <2>1, <2>2 DEF ReportInv, ReportShape
  <1>2. Windows'
    <2>1. ASSUME NEW r \in reports' PROVE InWindow(r.samples, r.gen)'
      <3>1. CASE r \in reports
        BY <1>0, <3>1 DEF ReportInv, Windows, InWindow
      <3>2. CASE r = w
        BY <1>0, <1>b, <3>2 DEF ReportInv, Windows, InWindow
      <3> QED  BY <1>c, <3>1, <3>2
    <2>2. ASSUME NEW d \in Caller
          PROVE  InWindow(gtotal[d], gnow[d])' /\ (gpc'[d] # "insert" => gtotal'[d] = {})
      <3>1. CASE d = c
        <4>1. gtotal'[d] = {}
          BY <3>1 DEF ReportInv, ReportShape, Leave
        <4> QED  BY <4>1 DEF InWindow
      <3>2. CASE d # c
        <4>1. gtotal'[d] = gtotal[d] /\ gnow'[d] = gnow[d] /\ gpc'[d] = gpc[d]
          BY <3>2 DEF ReportInv, ReportShape, Leave, GoTo
        <4> QED  BY <1>0, <4>1 DEF ReportInv, Windows, InWindow
      <3> QED  BY <3>1, <3>2
    <2> QED  BY <2>1, <2>2 DEF Windows
  <1>3. OneByOne'
    <2> SUFFICES ASSUME ~crossed PROVE OneByOne'
      BY <1>0 DEF OneByOne
    <2>1. /\ Generating' = Generating \ {c}
          /\ \A d \in Generating \ {c} : gnow'[d] = gnow[d]
      BY DEF ReportInv, ReportShape, Leave, GoTo, Generating
    <2>2. \A d, e \in Generating : d = e
      BY DEF ReportInv, OneByOne
    <2>3. gpc[c] = "insert" => c \in Generating
      BY DEF Generating
    <2>4. ASSUME NEW d \in Generating', NEW r \in reports' PROVE r.gen + Week <= gnow'[d]
      <3>1. d \in Generating /\ d # c /\ gnow'[d] = gnow[d] /\ gpc[c] # "insert"
        BY <2>1, <2>2, <2>3
      <3> QED  BY <1>c, <3>1 DEF ReportInv, OneByOne
    <2>5. ASSUME NEW r \in reports', NEW q \in reports', r # q, r.gen <= q.gen
          PROVE  r.gen + Week <= q.gen
      <3>1. CASE r \in reports /\ q \in reports
        BY <2>5, <3>1 DEF ReportInv, OneByOne
      <3>2. CASE r \in reports /\ q = w /\ gpc[c] = "insert"
        BY <1>b, <2>3, <3>2 DEF ReportInv, OneByOne
      <3>3. CASE q \in reports /\ r = w /\ gpc[c] = "insert"
        <4>1. q.gen + Week <= r.gen
          BY <1>b, <2>3, <3>3 DEF ReportInv, OneByOne
        <4>2. q.gen \in Nat /\ r.gen \in Nat /\ Week \in Nat \ {0}
          BY <1>b, <3>3, QueryStatsAssumption DEF ReportInv, ReportShape
        <4> QED  BY <2>5, <4>1, <4>2
      <3> QED  BY <1>c, <2>5, <3>1, <3>2, <3>3
    <2>6. \A d, e \in Generating' : d = e
      BY <2>1, <2>2
    <2> QED  BY <2>4, <2>5, <2>6 DEF OneByOne
  <1> QED  BY <1>1, <1>2, <1>3 DEF ReportInv

\* The latest report is read: without one in its window the generation goes on.
LEMMA CheckStep ==
    ASSUME ReportInv, NEW c \in Caller, CheckLatest(c)
    PROVE  ReportInv'
  <1>0. UNCHANGED <<statsVars, reports, envVars>>
    BY DEF CheckLatest
  <1>1. CASE Leave(c) /\ UNCHANGED crossed
    BY <1>0, <1>1, LeaveStep
  <1>2. CASE ~Reuses(gnow[c]) /\ GoTo(c, "total") /\ crossed' = (crossed \/ Generating # {})
             /\ UNCHANGED <<gnow, gtotal>>
    <2>0. UNCHANGED <<stats, inserted, now, reports, gnow, gtotal>>
      BY <1>0, <1>2 DEF statsVars, envVars
    <2>1. gpc[c] = "check" /\ c \notin Generating
      BY DEF CheckLatest, Generating
    <2>2. /\ gpc' \in [Caller -> {"idle", "check", "total", "insert"}]
          /\ \A d \in Caller : gpc'[d] = IF d = c THEN "total" ELSE gpc[d]
      BY <1>2 DEF ReportInv, ReportShape, GoTo
    <2>3. crossed' \in BOOLEAN
      BY <1>2
    <2>4. ReportShape'
      BY <2>0, <2>2, <2>3 DEF ReportInv, ReportShape
    <2>5. Windows'
      BY <2>0, <2>1, <2>2 DEF ReportInv, Windows, InWindow
    <2>6. OneByOne'
      <3> SUFFICES ASSUME ~crossed' PROVE OneByOne'
        BY DEF OneByOne
      <3>1. ~crossed /\ Generating = {}
        BY <1>2
      <3>2. Generating' = {c}
        BY <2>2, <3>1 DEF Generating
      <3>3. ASSUME NEW r \in reports PROVE r.gen + Week <= gnow[c]
        <4>1. Latest \in reports /\ r.gen <= Latest.gen
          BY <3>3, LatestIsNewest DEF ReportInv
        <4>2. ~ (Latest.gen + Week > gnow[c])
          BY <1>2, <3>3 DEF Reuses
        <4>3. Latest.gen \in Nat /\ r.gen \in Nat /\ Week \in Nat /\ gnow[c] \in Nat
          BY <3>3, <4>1, QueryStatsAssumption DEF ReportInv, ReportShape
        <4> QED  BY <4>1, <4>2, <4>3
      <3> QED  BY <2>0, <3>1, <3>2, <3>3 DEF ReportInv, OneByOne
    <2> QED  BY <2>4, <2>5, <2>6 DEF ReportInv
  <1> QED  BY <1>1, <1>2 DEF CheckLatest

\* The samples of the window are counted.
LEMMA AggregateStep ==
    ASSUME ReportInv, NEW c \in Caller, Aggregate(c)
    PROVE  ReportInv'
  <1>0. UNCHANGED <<statsVars, reports, crossed, envVars>> /\ gpc[c] = "total"
    BY DEF Aggregate
  <1>1. CASE Leave(c)
    BY <1>0, <1>1, LeaveStep
  <1> DEFINE T == {s.id : s \in {x \in stats : x.at >= WindowFrom(c)}}
  <1>2. CASE gtotal' = [gtotal EXCEPT ![c] = T] /\ GoTo(c, "insert") /\ UNCHANGED gnow
    <2>0. UNCHANGED <<stats, inserted, now, reports, gnow, crossed>>
      BY <1>0, <1>2 DEF statsVars, envVars
    <2>t. InWindow(T, gnow[c])
      <3>1. ASSUME NEW s \in stats, s.id \in T PROVE s.at >= Before(gnow[c], Week)
        <4>1. PICK x \in stats : x.id = s.id /\ x.at >= WindowFrom(c)
          BY <3>1
        <4>2. x = s
          BY <4>1 DEF ReportInv, ReportShape
        <4> QED  BY <4>1, <4>2, WindowStart DEF ReportInv
      <3>2. \A i \in T : i \in Nat /\ i < inserted
        BY DEF ReportInv, ReportShape
      <3> QED  BY <3>1, <3>2 DEF InWindow
    <2> HIDE DEF T
    <2>1. /\ gpc' \in [Caller -> {"idle", "check", "total", "insert"}]
          /\ \A d \in Caller : gpc'[d] = IF d = c THEN "insert" ELSE gpc[d]
          /\ \A d \in Caller : gtotal'[d] = IF d = c THEN T ELSE gtotal[d]
          /\ DOMAIN gtotal' = Caller
      BY <1>2 DEF ReportInv, ReportShape, GoTo
    <2>2. ReportShape'
      BY <2>0, <2>1 DEF ReportInv, ReportShape
    <2>3. Windows'
      <3>1. ASSUME NEW r \in reports PROVE InWindow(r.samples, r.gen)'
        BY <2>0 DEF ReportInv, Windows, InWindow
      <3>2. ASSUME NEW d \in Caller
            PROVE  InWindow(gtotal[d], gnow[d])' /\ (gpc'[d] # "insert" => gtotal'[d] = {})
        <4>1. CASE d = c
          BY <2>0, <2>1, <2>t, <4>1 DEF InWindow
        <4>2. CASE d # c
          BY <2>0, <2>1, <4>2 DEF ReportInv, Windows, InWindow
        <4> QED  BY <4>1, <4>2
      <3> QED  BY <2>0, <3>1, <3>2 DEF Windows
    <2>4. Generating' = Generating
      BY <1>0, <2>1 DEF Generating
    <2>5. OneByOne'
      BY <2>0, <2>4 DEF ReportInv, OneByOne
    <2> QED  BY <2>2, <2>3, <2>5 DEF ReportInv
  <1> QED  BY <1>1, <1>2 DEF Aggregate

\* The process dies: no generation is left.
LEMMA DiesStep ==
    ASSUME ReportInv, ProcessDies
    PROVE  ReportInv'
  <1>0. UNCHANGED <<stats, inserted, now, reports, crossed>>
    BY DEF ProcessDies, statsVars, envVars
  <1>1. /\ gpc' \in [Caller -> {"idle", "check", "total", "insert"}]
        /\ gnow' \in [Caller -> Nat] /\ DOMAIN gtotal' = Caller
        /\ \A c \in Caller : gpc'[c] = "idle" /\ gnow'[c] = 0 /\ gtotal'[c] = {}
    BY DEF ProcessDies
  <1>2. ReportShape'
    BY <1>0, <1>1 DEF ReportInv, ReportShape
  <1>3. Windows'
    BY <1>0, <1>1 DEF ReportInv, Windows, InWindow
  <1>4. Generating' = {}
    BY <1>1 DEF Generating
  <1>5. OneByOne'
    BY <1>0, <1>4 DEF ReportInv, OneByOne
  <1> QED  BY <1>2, <1>3, <1>5 DEF ReportInv

\* The steps of the table's own jobs.
LEMMA StatsSteps ==
    ASSUME ReportInv, StatsNext
    PROVE  ReportInv'
  <1>1. CASE (\E q \in Statement : RecordQuery(q)) \/ (\E p \in spawned : InsertSample(p))
             \/ Rotate \/ Tick
    BY <1>1, TableSteps
  <1>2. CASE TickReports
    <2>1. "ticker" \in Caller
      BY DEF Caller
    <2> QED  BY <1>2, <2>1, BeginStep DEF TickReports
  <1>3. CASE GenerateReport
    <2>1. "manual" \in Caller
      BY DEF Caller
    <2> QED  BY <1>3, <2>1, BeginStep DEF GenerateReport
  <1>4. ASSUME NEW c \in Caller, GenerateStep(c) PROVE ReportInv'
    <2>1. CASE InsertReport(c)
      BY <2>1, LeaveStep DEF InsertReport
    <2> QED  BY <1>4, <2>1, CheckStep, AggregateStep DEF GenerateStep
  <1> QED  BY <1>1, <1>2, <1>3, <1>4 DEF StatsNext

\* The collector only adds rows.
LEMMA CollectorTable ==
    ASSUME ReportInv,
           \/ RedisSlow \/ RedisRestart \/ (\E d \in Digest : MysqlSlow(d)) \/ MysqlUpset
           \/ CollectTick \/ CollectorStep
    PROVE  ReportInv'
  <1>0. ReportShape
    BY DEF ReportInv
  <1>1. ASSUME UNCHANGED <<stats, inserted>>, UNCHANGED tableVars PROVE ReportInv'
    <2>1. TableStep
      BY <1>0, <1>1 DEF TableStep, ReportShape, tableVars, envVars
    <2> QED  BY <1>1, <2>1, QuietReports DEF tableVars
  <1>2. ASSUME NEW source, NEW r, NEW m, NEW p, InsertNative(source, r, m, p), UNCHANGED tableVars
        PROVE  ReportInv'
    <2>1. CASE InsertRow(source, r, m)
      <3>1. UNCHANGED now /\ UNCHANGED reportVars
        BY <1>2 DEF tableVars, envVars
      <3> QED  BY <1>0, <2>1, <3>1, InsertIsTableStep, QuietReports
    <2> QED  BY <1>1, <1>2, <2>1 DEF InsertNative
  <1>3. CASE \/ RedisSlow \/ RedisRestart \/ \E d \in Digest : MysqlSlow(d)
             \/ MysqlUpset \/ CollectTick
    BY <1>1, <1>3 DEF RedisSlow, RedisRestart, MysqlSlow, MysqlUpset, CollectTick, qsVars,
       statsVars, tableVars
  <1>4. CASE FetchSlowlog \/ ReadRedisCursor \/ PutRedisCursor \/ ReadSettings \/ ReadSlowCursor
             \/ FetchSlowRows \/ PutSlowCursor \/ FetchDigests \/ ReadSnapshot \/ PutSnapshot
    BY <1>1, <1>4 DEF FetchSlowlog, ReadRedisCursor, PutRedisCursor, ReadSettings, ReadSlowCursor,
       FetchSlowRows, PutSlowCursor, FetchDigests, ReadSnapshot, PutSnapshot, statsVars
  <1>5. CASE InsertEntry
    BY <1>1, <1>2, <1>5 DEF InsertEntry, statsVars
  <1>6. CASE InsertSlowRow
    BY <1>2, <1>6 DEF InsertSlowRow
  <1>7. CASE InsertDelta
    BY <1>2, <1>7 DEF InsertDelta
  <1> QED  BY <1>3, <1>4, <1>5, <1>6, <1>7 DEF CollectorStep

\* The invariant of the reports holds in every reachable state.
LEMMA ReportInvariant == Spec => []ReportInv
  <1>1. Init => ReportInv
    <2> SUFFICES ASSUME StatsInit PROVE ReportInv
      BY DEF Init
    <2>1. ReportShape
      <3>1. /\ gpc \in [Caller -> {"idle", "check", "total", "insert"}]
            /\ gnow \in [Caller -> Nat] /\ \A c \in Caller : gnow[c] <= now
        BY DEF StatsInit
      <3>2. DOMAIN gtotal = Caller
        BY DEF StatsInit
      <3>3. crossed \in BOOLEAN
        BY Zenon DEF StatsInit
      <3>4. inserted \in Nat /\ now \in Nat /\ stats = {} /\ reports = {}
        BY DEF StatsInit
      <3> QED  BY <3>1, <3>2, <3>3, <3>4 DEF ReportShape
    <2>2. /\ \A c \in Caller : gpc[c] = "idle" /\ gtotal[c] = {}
          /\ stats = {} /\ reports = {}
      BY DEF StatsInit
    <2>3. Windows /\ OneByOne
      BY <2>2 DEF Windows, InWindow, OneByOne, Generating
    <2> QED  BY <2>1, <2>3 DEF ReportInv
  <1>2. ReportInv /\ [Next]_vars => ReportInv'
    <2> SUFFICES ASSUME ReportInv, [Next]_vars PROVE ReportInv'
      OBVIOUS
    <2>1. CASE StatsNext
      BY <2>1, StatsSteps
    <2>2. CASE Crash
      BY <2>2, DiesStep DEF Crash
    <2>3. CASE UNCHANGED vars
      <3>1. UNCHANGED <<statsVars, now>> /\ UNCHANGED reportVars
        BY <2>3 DEF vars, qsVars, envVars
      <3> QED  BY <3>1, NoTableStep, QuietReports DEF ReportInv
    <2> QED  BY <2>1, <2>2, <2>3, CollectorTable DEF Next
  <1> QED  BY <1>1, <1>2, PTL DEF Spec

\* For any window, number of callers' reports, samples and faults: unless two
\* generations were at work at once, weekly reports (report_writer.rs) are at least
\* a window apart and share only samples captured while the first was written.
THEOREM ReportsDisjointHolds == Spec => []ReportsDisjoint
  <1>1. ReportInv => ReportsDisjoint
    <2> SUFFICES ASSUME ReportInv, ~crossed, NEW r \in reports, NEW q \in reports,
                        r # q, r.gen <= q.gen
                 PROVE  /\ r.gen + Week <= q.gen
                        /\ \A s \in stats : s.id \in r.samples \cap q.samples => s.at >= r.gen
      BY DEF ReportsDisjoint
    <2>1. r.gen + Week <= q.gen
      BY DEF ReportInv, OneByOne
    <2>2. r.gen \in Nat /\ q.gen \in Nat /\ Week \in Nat
      BY QueryStatsAssumption DEF ReportInv, ReportShape
    <2>3. Before(q.gen, Week) >= r.gen /\ Before(q.gen, Week) \in Nat
      BY <2>1, <2>2 DEF Before
    <2>4. ASSUME NEW s \in stats, s.id \in q.samples PROVE s.at >= r.gen
      <3>1. s.at >= Before(q.gen, Week) /\ s.at \in Nat
        BY <2>4 DEF ReportInv, ReportShape, Windows, InWindow
      <3> QED  BY <2>2, <2>3, <3>1
    <2> QED  BY <2>1, <2>4
  <1> QED  BY <1>1, ReportInvariant, PTL

----------------------------------------------------------------------------
(* Native collector: frames *)

\* Rows only leave the table with a cause, which is not forgotten.
Kept ==
    /\ excused \subseteq excused'
    /\ \A s \in stats : s \in stats' \/ Key(s.source, s.key) \in excused'

\* What was accounted for stays accounted for.
LEMMA CoveredKept ==
    ASSUME Kept, NEW source, NEW k, Covered(source, k)
    PROVE  Covered(source, k)'
  <1>1. CASE Key(source, k) \in excused
    BY <1>1 DEF Kept, Covered, Key
  <1>2. CASE Copies(source, k) # {}
    <2>1. PICK s \in stats : s.source = source /\ s.key = k
      BY <1>2 DEF Copies
    <2>2. s \in stats' \/ Key(source, k) \in excused'
      BY <2>1 DEF Kept
    <2> QED  BY <2>1, <2>2 DEF Covered, Copies, Key
  <1> QED  BY <1>1, <1>2 DEF Covered

\* No row of the collector's own command is added.
NoOwnRow == \A s \in stats' : s \in stats \/ s.source # "redis" \/ s.key # 0

LEMMA OwnKept ==
    ASSUME OwnSkipped, NoOwnRow
    PROVE  OwnSkipped'
  BY DEF OwnSkipped, NoOwnRow, Copies

\* A step that neither Redis nor its part of the round notices.
RedisAside ==
    /\ upsets' = 0 => upsets = 0
    /\ UNCHANGED <<ring, nextId>> /\ cursor'.redis = cursor.redis
    /\ InRedis' => UNCHANGED <<cpc, batch, last, top>>

LEMMA RedisKept ==
    ASSUME RedisInv, Kept, RedisAside
    PROVE  RedisInv'
  <1> SUFFICES ASSUME upsets' = 0 PROVE RingIds' /\ RedisCovered'
    BY DEF RedisInv
  <1>0. RingIds /\ RedisCovered
    BY DEF RedisInv, RedisAside
  <1>a. UNCHANGED <<ring, nextId>> /\ cursor'.redis = cursor.redis
    BY DEF RedisAside
  <1>b. InRedis' => InRedis /\ UNCHANGED <<cpc, batch, last, top>>
    BY DEF RedisAside, InRedis
  <1>c. cpc' = "redis_insert" => InRedis'
    BY DEF InRedis
  <1>1. RingIds'
    BY <1>0, <1>a, <1>b, <1>c DEF RingIds
  <1>2. ASSUME NEW i \in 1..Len(ring), ring[i].ev # 0, ring[i].id > 0
        PROVE  /\ ring[i].id <= cursor'.redis => Covered("redis", ring[i].ev)'
               /\ (InRedis' /\ (\/ ring[i].id <= top'
                               \/ \E j \in 1..Len(batch') : ring[i].id <= batch'[j].id))
                     => \/ Covered("redis", ring[i].ev)'
                        \/ \E j \in 1..Len(batch') : batch'[j] = ring[i]
    <2>1. PICK e : e = ring[i]
      OBVIOUS
    <2>2. Covered("redis", e.ev) => Covered("redis", e.ev)'
      BY CoveredKept
    <2>3. Covered("redis", ring[i].ev)' <=> Covered("redis", e.ev)'
      BY <1>a, <2>1
    <2> QED  BY <1>0, <1>2, <1>a, <1>b, <2>1, <2>2, <2>3 DEF RedisCovered
  <1> QED  BY <1>1, <1>2, <1>a DEF RedisCovered

\* A step that neither the slow log nor its part of the round notices.
SlowAside ==
    /\ UNCHANGED slowLog /\ cursor'.slow = cursor.slow
    /\ cpc' \in {"slow_rows", "slow_insert"} => UNCHANGED <<cpc, batch, last, top>>

LEMMA SlowCoveredKept ==
    ASSUME Kept, UNCHANGED slowLog, NEW m, SlowCovered(m)
    PROVE  SlowCovered(m)'
  <1>1. ASSUME NEW i \in 1..m PROVE Covered("slow", slowLog[i].ev)'
    <2>1. PICK k : k = slowLog[i].ev
      OBVIOUS
    <2>2. Covered("slow", k)'
      BY <2>1, CoveredKept DEF SlowCovered
    <2> QED  BY <2>1, <2>2
  <1> QED  BY <1>1 DEF SlowCovered

LEMMA SlowKept ==
    ASSUME SlowInv, Kept, SlowAside
    PROVE  SlowInv'
  <1>0. UNCHANGED slowLog
    BY DEF SlowAside
  <1>1. SlowCovered(cursor.slow)'
    <2>1. PICK m : m = cursor.slow
      OBVIOUS
    <2>2. SlowCovered(m)'
      BY <1>0, <2>1, SlowCoveredKept DEF SlowInv
    <2> QED  BY <2>1, <2>2 DEF SlowAside
  <1>2. CASE cpc' \notin {"slow_rows", "slow_insert"}
    BY <1>1, <1>2 DEF SlowInv
  <1>3. CASE cpc' \in {"slow_rows", "slow_insert"}
    <2>0. UNCHANGED <<slowLog, cpc, batch, last, top>> /\ cursor'.slow = cursor.slow
      BY <1>3 DEF SlowAside
    <2>1. PICK t, p : t = top /\ p = batch[1].pos - 1
      OBVIOUS
    <2>2. cpc = "slow_insert" => SlowCovered(t)' /\ (batch # <<>> => SlowCovered(p)')
      BY <1>0, <2>1, SlowCoveredKept DEF SlowInv
    <2>3. cpc = "slow_insert" =>
             SlowCovered(top)' /\ (batch # <<>> => SlowCovered(batch[1].pos - 1)')
      BY <2>0, <2>1, <2>2
    <2> QED  BY <1>1, <2>0, <2>3 DEF SlowInv
  <1> QED  BY <1>2, <1>3

\* The table's jobs leave the collector alone and forget nothing.
LEMMA StatsKept ==
    ASSUME StatsNext
    PROVE  Kept /\ NoOwnRow
  <1>1. ASSUME UNCHANGED <<stats, excused>> PROVE Kept /\ NoOwnRow
    BY <1>1 DEF Kept, NoOwnRow
  <1>2. ASSUME NEW p \in spawned, InsertSample(p) PROVE Kept /\ NoOwnRow
    <2>1. CASE InsertRow("gateway", p.digest, 1)
      <3>1. \A s \in stats' : s \in stats \/ s.source = "gateway"
        BY <2>1 DEF InsertRow
      <3>2. stats \subseteq stats' /\ UNCHANGED excused
        BY <1>2, <2>1 DEF InsertRow, InsertSample
      <3> QED  BY <3>1, <3>2 DEF Kept, NoOwnRow
    <2>2. CASE UNCHANGED <<stats, inserted>>
      BY <1>1, <1>2, <2>2 DEF InsertSample
    <2> QED  BY <1>2, <2>1, <2>2 DEF InsertSample
  <1>3. CASE Rotate
    <2>1. stats' \subseteq stats /\ excused \subseteq excused'
      BY <1>3 DEF Rotate
    <2>2. \A s \in stats \ stats' : [source |-> s.source, key |-> s.key] \in excused'
      BY <1>3 DEF Rotate
    <2> QED  BY <2>1, <2>2 DEF Kept, NoOwnRow, Key
  <1>4. CASE (\E q \in Statement : RecordQuery(q)) \/ TickReports \/ GenerateReport \/ Tick
             \/ \E c \in Caller : GenerateStep(c)
    BY <1>1, <1>4 DEF RecordQuery, TickReports, GenerateReport, Tick, GenerateStep, CheckLatest,
       Aggregate, InsertReport, statsVars
  <1> QED  BY <1>2, <1>3, <1>4 DEF StatsNext

\* insert_native accounts for its row, whether the INSERT fails or not.
LEMMA NativeCovers ==
    ASSUME NEW source, NEW r, NEW m, NEW p, InsertNative(source, r, m, p)
    PROVE  /\ Kept /\ Covered(source, r)'
           /\ (source # "redis" \/ r # 0) => NoOwnRow
  <1>1. CASE InsertRow(source, r, m) /\ UNCHANGED excused
    <2> DEFINE row == [id |-> inserted, source |-> source, key |-> r, count |-> m, at |-> now]
    <2>1. row.source = source /\ row.key = r
      OBVIOUS
    <2>2. stats' = stats \cup {row}
      BY <1>1 DEF InsertRow
    <2> HIDE DEF row
    <2> QED  BY <1>1, <2>1, <2>2 DEF Kept, NoOwnRow, Covered, Copies
  <1>2. CASE excused' = excused \cup {Key(source, r)} /\ UNCHANGED stats
    BY <1>2 DEF Kept, NoOwnRow, Covered, Copies, Key
  <1> QED  BY <1>1, <1>2 DEF InsertNative

\* The round goes to a connection or ends.
LEMMA NextConnIn ==
    ASSUME NEW c
    PROVE  NextConn(c) \in {"redis", "mysql", "idle"}
  BY DEF NextConn

\* Neither source is concerned.
LEMMA BothAside ==
    ASSUME CursorInv, CollectorShape', Kept, NoOwnRow, RedisAside, SlowAside
    PROVE  CursorInv'
  BY RedisKept, SlowKept, OwnKept DEF CursorInv

\* The table is left alone.
LEMMA SameTable ==
    ASSUME UNCHANGED <<stats, excused>>
    PROVE  Kept /\ NoOwnRow
  BY DEF Kept, NoOwnRow

----------------------------------------------------------------------------
(* Native collector: the steps *)

\* The table's jobs, and steps that change nothing.
LEMMA JobsStep ==
    ASSUME CursorInv, UNCHANGED collectorVars, Kept, NoOwnRow
    PROVE  CursorInv'
  <1>0. UNCHANGED <<ring, nextId, slowLog, execs, upsets, cursor, cpc, batch, last, top, n>>
    BY DEF collectorVars, sourceVars, roundVars
  <1>1. CollectorShape'
    BY <1>0 DEF CursorInv, CollectorShape, InRedis
  <1>2. RedisAside /\ SlowAside
    BY <1>0 DEF RedisAside, SlowAside
  <1> QED  BY <1>1, <1>2, BothAside

\* The round leaves a connection, and nothing else changes.
LEMMA LeaveConnStep ==
    ASSUME CursorInv, NEW c, LeaveConn(c), UNCHANGED sourceVars, UNCHANGED cursor, Kept, NoOwnRow
    PROVE  CursorInv'
  <1>0. UNCHANGED <<ring, nextId, slowLog, execs, upsets, cursor>>
    BY DEF sourceVars
  <1>1. /\ cpc' \in {"redis", "mysql", "idle"} /\ batch' = <<>>
        /\ last' = 0 /\ top' = 0 /\ n' = 0
    BY NextConnIn DEF LeaveConn, ResetRound, NoCursor
  <1>2. ~InRedis' /\ cpc' \notin {"slow_rows", "slow_insert"}
    BY <1>1 DEF InRedis
  <1>3. CollectorShape'
    BY <1>0, <1>1, <1>2 DEF CursorInv, CollectorShape
  <1>4. RedisAside /\ SlowAside
    BY <1>0, <1>2 DEF RedisAside, SlowAside
  <1> QED  BY <1>3, <1>4, BothAside

\* A restart of Redis, a reset or a switch of MySQL.
LEMMA UpsetStep ==
    ASSUME CursorInv, RedisRestart \/ MysqlUpset
    PROVE  CursorInv'
  <1>0. /\ UNCHANGED <<stats, excused, slowLog, execs, cursor, cpc, batch, last, top, n>>
        /\ upsets' = upsets + 1
    BY DEF RedisRestart, MysqlUpset, qsVars, statsVars, roundVars
  <1>1. upsets \in Nat
    BY DEF CursorInv, CollectorShape
  <1>2. RedisInv'
    BY <1>0, <1>1 DEF RedisInv
  <1>3. ring' \in Seq(Entry) /\ nextId' \in Nat
    <2>1. CASE RedisRestart
      BY <2>1 DEF RedisRestart
    <2>2. CASE MysqlUpset
      BY <2>2 DEF CursorInv, CollectorShape, MysqlUpset
    <2> QED  BY <2>1, <2>2
  <1>4. CollectorShape'
    BY <1>0, <1>1, <1>3 DEF CursorInv, CollectorShape, InRedis
  <1>5. SlowAside
    BY <1>0 DEF SlowAside
  <1>6. SlowInv' /\ OwnSkipped'
    BY <1>0, <1>5, SlowKept, OwnKept, SameTable DEF CursorInv
  <1> QED  BY <1>2, <1>4, <1>6 DEF CursorInv

\* Redis logs an entry; ev = 0 is the collector's own.
LEMMA AppendKept ==
    ASSUME CollectorShape, RedisInv, Kept, NEW v \in Nat,
           ring' = Append(ring, [id |-> nextId, ev |-> v]), nextId' = nextId + 1,
           upsets' = upsets, cursor' = cursor,
           InRedis' => UNCHANGED <<cpc, batch, last, top>>
    PROVE  RedisInv'
  <1> SUFFICES ASSUME upsets' = 0 PROVE RingIds' /\ RedisCovered'
    BY DEF RedisInv
  <1>0. RingIds /\ RedisCovered
    BY DEF RedisInv
  <1>s. /\ ring \in Seq(Entry) /\ Len(ring) \in Nat /\ nextId = Len(ring)
        /\ cursor.redis \in Nat /\ top \in Nat
    BY <1>0 DEF CollectorShape, RingIds
  <1>e. PICK e : e = [id |-> nextId, ev |-> v] /\ e.id = nextId /\ e \in Entry
    BY <1>s DEF Entry
  <1>r. /\ Len(ring') = Len(ring) + 1 /\ ring'[Len(ring) + 1] = e
        /\ \A i \in 1..Len(ring) : ring'[i] = ring[i]
    BY <1>s, <1>e
  <1>b. InRedis' => InRedis /\ UNCHANGED <<cpc, batch, last, top>>
    BY DEF InRedis
  <1>c. cpc' = "redis_insert" => InRedis'
    BY DEF InRedis
  <1>1. RingIds'
    <2>1. nextId' = Len(ring')
      BY <1>r, <1>s
    <2>2. \A i \in 1..Len(ring') : ring'[i].id = i - 1
      BY <1>0, <1>e, <1>r, <1>s DEF RingIds
    <2>3. cursor'.redis = 0 \/ cursor'.redis < Len(ring')
      BY <1>0, <1>r, <1>s DEF RingIds
    <2>4. InRedis' =>
            /\ top' = 0 \/ top' < Len(ring')
            /\ \A j \in 1..Len(batch') : \E i \in 1..Len(ring') : batch'[j] = ring'[i]
      BY <1>0, <1>b, <1>r, <1>s DEF RingIds
    <2>5. cpc' = "redis_insert" => last' <= cursor'.redis
      BY <1>0, <1>b, <1>c DEF RingIds
    <2> QED  BY <2>1, <2>2, <2>3, <2>4, <2>5 DEF RingIds
  <1>2. ASSUME NEW i \in 1..Len(ring'), ring'[i].ev # 0, ring'[i].id > 0
        PROVE  /\ ring'[i].id <= cursor'.redis => Covered("redis", ring[i].ev)'
               /\ (InRedis' /\ (\/ ring'[i].id <= top'
                               \/ \E j \in 1..Len(batch') : ring'[i].id <= batch'[j].id))
                     => \/ Covered("redis", ring[i].ev)'
                        \/ \E j \in 1..Len(batch') : batch'[j] = ring'[i]
    <2>1. CASE i = Len(ring) + 1
      <3>1. ring'[i].id = Len(ring)
        BY <1>e, <1>r, <1>s, <2>1
      <3>2. ~ (ring'[i].id <= cursor'.redis)
        BY <1>0, <1>2, <1>s, <3>1 DEF RingIds
      <3>3. InRedis' => ~ (ring'[i].id <= top')
        BY <1>0, <1>2, <1>b, <1>s, <3>1 DEF RingIds
      <3>4. ASSUME InRedis', NEW j \in 1..Len(batch') PROVE ~ (ring'[i].id <= batch'[j].id)
        <4>1. PICK k \in 1..Len(ring) : batch'[j] = ring[k]
          BY <1>0, <1>b, <3>4 DEF RingIds
        <4>2. batch'[j].id = k - 1
          BY <1>0, <4>1 DEF RingIds
        <4> QED  BY <1>s, <3>1, <4>2
      <3> QED  BY <3>2, <3>3, <3>4
    <2>2. CASE i \in 1..Len(ring)
      <3>1. PICK x : x = ring[i] /\ x = ring'[i]
        BY <1>r, <2>2
      <3>2. Covered("redis", x.ev) => Covered("redis", x.ev)'
        BY CoveredKept
      <3>3. Covered("redis", ring[i].ev)' <=> Covered("redis", x.ev)'
        BY <3>1
      <3> QED  BY <1>0, <1>2, <1>b, <2>2, <3>1, <3>2, <3>3 DEF RedisCovered
    <2> QED  BY <1>r, <1>s, <2>1, <2>2
  <1> QED  BY <1>1, <1>2 DEF RedisCovered

LEMMA RedisSlowStep ==
    ASSUME CursorInv, RedisSlow
    PROVE  CursorInv'
  <1>0. /\ UNCHANGED <<stats, excused, slowLog, upsets, cursor, cpc, batch, last, top, n>>
        /\ ring' = Append(ring, [id |-> nextId, ev |-> execs + 1])
        /\ nextId' = nextId + 1 /\ execs' = execs + 1
    BY DEF RedisSlow, qsVars, statsVars, roundVars
  <1>1. execs + 1 \in Nat /\ [id |-> nextId, ev |-> execs + 1] \in Entry
    BY DEF CursorInv, CollectorShape, Entry
  <1>2. CollectorShape'
    <2>1. ring' \in Seq(Entry)
      BY <1>0, <1>1 DEF CursorInv, CollectorShape
    <2> QED  BY <1>0, <1>1, <2>1 DEF CursorInv, CollectorShape, InRedis
  <1>3. Kept /\ NoOwnRow
    BY <1>0, SameTable
  <1>4. RedisInv'
    BY <1>0, <1>1, <1>3, AppendKept DEF CursorInv
  <1>5. SlowAside
    BY <1>0 DEF SlowAside
  <1> QED  BY <1>2, <1>3, <1>4, <1>5, SlowKept, OwnKept DEF CursorInv

\* SLOWLOG GET answers with the newest entries, the newest first.
LEMMA NewestFirst ==
    ASSUME NEW s \in Seq(Entry), NEW B \in 0..Len(s)
    PROVE  /\ Reverse(SubSeq(s, 1 + B, Len(s))) \in Seq(Entry)
           /\ Len(Reverse(SubSeq(s, 1 + B, Len(s)))) = Len(s) - B
           /\ \A k \in 1..(Len(s) - B) :
                 Reverse(SubSeq(s, 1 + B, Len(s)))[k] = s[Len(s) - k + 1]
  <1> DEFINE N == Len(s) - B
             old == SubSeq(s, 1 + B, Len(s))
             rev == Reverse(old)
  <1>1. /\ old \in Seq(Entry) /\ Len(old) = N
        /\ \A k \in 1..N : old[k] = s[B + k]
    OBVIOUS
  <1>2. rev = [k \in 1..N |-> old[(N - k) + 1]]
    BY <1>1 DEF Reverse
  <1>3. /\ N \in Nat
        /\ \A k \in 1..N : (N - k) + 1 \in 1..N /\ B + ((N - k) + 1) = Len(s) - k + 1
    OBVIOUS
  <1> HIDE DEF N, old
  <1>4. \A k \in 1..N : rev[k] = old[(N - k) + 1]
    BY <1>2
  <1>5. \A k \in 1..N : old[(N - k) + 1] \in Entry
    BY <1>1, <1>3
  <1>6. rev \in Seq(Entry) /\ Len(rev) = N
    BY <1>2, <1>3, <1>5
  <1> HIDE DEF rev
  <1>7. ASSUME NEW k \in 1..N PROVE rev[k] = s[Len(s) - k + 1]
    <2>1. PICK j \in 1..N : j = (N - k) + 1
      BY <1>3
    <2>2. rev[k] = old[j] /\ old[j] = s[B + j]
      BY <1>1, <1>4, <2>1
    <2>3. B + j = Len(s) - k + 1
      BY <1>3, <2>1
    <2> QED  BY <2>2, <2>3
  <1> QED  BY <1>6, <1>7 DEF N, rev, old

\* SLOWLOG GET: what is older than the batch is excused, the rest is in it.
LEMMA FetchSlowlogStep ==
    ASSUME CursorInv, FetchSlowlog
    PROVE  CursorInv'
  <1>0. /\ UNCHANGED <<stats, slowLog, upsets, cursor>> /\ cpc = "redis"
        /\ CollectorShape /\ top = 0
    BY DEF FetchSlowlog, CursorInv, CollectorShape
  <1>1. CASE ConnFails("redis") /\ UNCHANGED <<ring, nextId, execs, excused>>
    <2>1. UNCHANGED sourceVars /\ Kept /\ NoOwnRow
      BY <1>0, <1>1, SameTable DEF sourceVars, FetchSlowlog
    <2> QED  BY <1>0, <1>1, <2>1, LeaveConnStep DEF ConnFails
  <1> DEFINE B == Before(Len(ring), Batch)
             K == {Key("redis", ring[i].ev) : i \in 1..B}
  <1>2. CASE /\ cpc' = "redis_cursor"
             /\ batch' = Reverse(SubSeq(ring, 1 + B, Len(ring)))
             /\ excused' = excused \cup K
             /\ \/ /\ execs' = execs + 1
                   /\ ring' = Append(ring, [id |-> nextId, ev |-> 0]) /\ nextId' = nextId + 1
                \/ UNCHANGED <<ring, nextId, execs>>
             /\ UNCHANGED <<last, top, n>>
    <2>s. ring \in Seq(Entry) /\ Len(ring) \in Nat /\ nextId \in Nat
      BY <1>0 DEF CollectorShape
    <2>e. PICK e : e = [id |-> nextId, ev |-> 0]
      OBVIOUS
    <2>f. e.id = nextId /\ e.ev = 0 /\ e \in Entry
      BY <2>e, <2>s DEF Entry
    <2>a. \/ UNCHANGED <<ring, nextId, execs>>
          \/ ring' = Append(ring, e) /\ nextId' = nextId + 1 /\ execs' = execs + 1
      BY <1>2, <2>e
    <2>b. B \in 0..Len(ring)
      BY <2>s, CollectorAssumption DEF Before
    <2> DEFINE N == Len(ring) - B
    <2>2. /\ batch' \in Seq(Entry) /\ Len(batch') = N
          /\ \A k \in 1..N : batch'[k] = ring[Len(ring) - k + 1]
      BY <1>2, <2>s, <2>b, NewestFirst
    <2>3. Kept /\ NoOwnRow
      BY <1>0, <1>2 DEF Kept, NoOwnRow
    <2>4. CollectorShape'
      <3>2. ring' \in Seq(Entry) /\ nextId' \in Nat /\ execs' \in Nat
        <4>1. execs \in Nat
          BY <1>0 DEF CollectorShape
        <4>2. e \in Entry
          BY <2>f
        <4>3. CASE UNCHANGED <<ring, nextId, execs>>
          BY <2>s, <4>1, <4>3
        <4>4. CASE ring' = Append(ring, e) /\ nextId' = nextId + 1 /\ execs' = execs + 1
          <5>1. ring' \in Seq(Entry)
            BY <2>s, <4>2, <4>4
          <5> QED  BY <2>s, <4>1, <4>4, <5>1
        <4> QED  BY <2>a, <4>3, <4>4
      <3> QED  BY <1>0, <1>2, <2>2, <3>2 DEF CollectorShape
    <2>5. SlowInv' /\ OwnSkipped'
      <3>1. SlowAside
        BY <1>0, <1>2 DEF SlowAside
      <3> QED  BY <2>3, <3>1, SlowKept, OwnKept DEF CursorInv
    <2>6. RedisInv'
      <3> SUFFICES ASSUME upsets' = 0 PROVE RingIds' /\ RedisCovered'
        BY DEF RedisInv
      <3>0. RingIds /\ RedisCovered
        BY <1>0 DEF CursorInv, RedisInv
      <3>r. /\ Len(ring') \in Nat /\ Len(ring') >= Len(ring)
            /\ \A i \in 1..Len(ring) : ring'[i] = ring[i]
            /\ nextId' = Len(ring')
            /\ \A i \in 1..Len(ring') :
                  \/ i \in 1..Len(ring)
                  \/ i = Len(ring) + 1 /\ ring'[i].ev = 0 /\ ring'[i].id = i - 1
        <4>1. CASE UNCHANGED <<ring, nextId>>
          BY <2>s, <3>0, <4>1 DEF RingIds
        <4>2. CASE ring' = Append(ring, e) /\ nextId' = nextId + 1
          <5>1. nextId = Len(ring)
            BY <3>0 DEF RingIds
          <5> QED  BY <2>f, <2>s, <4>2, <5>1
        <4> QED  BY <2>a, <4>1, <4>2
      <3>1. RingIds'
        <4>1. \A i \in 1..Len(ring') : ring'[i].id = i - 1
          BY <3>0, <3>r DEF RingIds
        <4>2. cursor'.redis = 0 \/ cursor'.redis < Len(ring')
          BY <1>0, <2>s, <3>0, <3>r DEF RingIds, CollectorShape
        <4>3. \A j \in 1..Len(batch') : \E i \in 1..Len(ring') : batch'[j] = ring'[i]
          <5>1. ASSUME NEW j \in 1..Len(batch')
                PROVE  Len(ring) - j + 1 \in 1..Len(ring) /\ Len(ring) - j + 1 \in 1..Len(ring')
            BY <2>b, <2>s, <2>2, <3>r
          <5> QED  BY <2>2, <3>r, <5>1
        <4>4. top' = 0
          BY <1>0, <1>2
        <4>5. cpc' # "redis_insert"
          BY <1>2
        <4> QED  BY <3>r, <4>1, <4>2, <4>3, <4>4, <4>5 DEF RingIds
      <3>2. ASSUME NEW i \in 1..Len(ring'), ring'[i].ev # 0
            PROVE  /\ (ring'[i].id > 0 /\ ring'[i].id <= cursor'.redis) => Covered("redis", ring[i].ev)'
                   /\ \/ Covered("redis", ring[i].ev)'
                      \/ \E j \in 1..Len(batch') : batch'[j] = ring'[i]
        <4>0. i \in 1..Len(ring) /\ ring'[i] = ring[i]
          BY <3>2, <3>r
        <4>1. PICK x : x = ring[i]
          OBVIOUS
        <4>2. Covered("redis", x.ev) => Covered("redis", x.ev)'
          BY <2>3, CoveredKept
        <4>3. Covered("redis", ring[i].ev)' <=> Covered("redis", x.ev)'
          BY <4>0, <4>1
        <4>4. CASE i <= B
          <5>1. i \in 1..B
            BY <2>b, <2>s, <4>0, <4>4
          <5>2. Key("redis", x.ev) \in excused'
            BY <1>2, <4>1, <5>1
          <5>3. Covered("redis", x.ev)'
            BY <5>2 DEF Covered, Key
          <5> QED  BY <4>3, <5>3
        <4>5. CASE i > B
          <5>1. Len(ring) - i + 1 \in 1..N /\ Len(ring) - (Len(ring) - i + 1) + 1 = i
            BY <2>b, <2>s, <4>0, <4>5
          <5>2. batch'[Len(ring) - i + 1] = ring'[i]
            BY <2>2, <4>0, <5>1
          <5>3. (ring'[i].id > 0 /\ ring'[i].id <= cursor'.redis) => Covered("redis", x.ev)
            BY <1>0, <3>0, <3>2, <4>0, <4>1 DEF RedisCovered
          <5> HIDE DEF N
          <5> QED  BY <2>2, <4>2, <4>3, <5>1, <5>2, <5>3
        <4> QED  BY <2>b, <2>s, <4>0, <4>4, <4>5
      <3> QED  BY <3>1, <3>2 DEF RedisCovered
    <2> QED  BY <2>4, <2>5, <2>6 DEF CursorInv
  <1> QED  BY <1>1, <1>2 DEF FetchSlowlog

\* cursor_get: the cursor, or none on an error.
LEMMA ReadRedisStep ==
    ASSUME CursorInv, ReadRedisCursor
    PROVE  CursorInv'
  <1>0. /\ UNCHANGED <<stats, excused, ring, nextId, slowLog, execs, upsets, cursor, batch, top, n>>
        /\ cpc = "redis_cursor" /\ cpc' = "redis_insert" /\ last' \in {cursor.redis, 0}
    BY DEF ReadRedisCursor, CursorGet, NoCursor, statsVars, sourceVars
  <1>1. CollectorShape' /\ last' <= cursor.redis
    BY <1>0 DEF CursorInv, CollectorShape, InRedis
  <1>2. InRedis /\ InRedis'
    BY <1>0 DEF InRedis
  <1>3. Kept /\ NoOwnRow
    BY <1>0, SameTable
  <1>4. SlowAside
    BY <1>0 DEF SlowAside
  <1>5. RedisInv'
    <2> SUFFICES ASSUME upsets = 0 PROVE RingIds' /\ RedisCovered'
      BY <1>0 DEF RedisInv
    <2>1. RingIds /\ RedisCovered
      BY DEF CursorInv, RedisInv
    <2>2. RingIds'
      BY <1>0, <1>1, <1>2, <2>1 DEF RingIds
    <2>3. \A k : Covered("redis", k)' <=> Covered("redis", k)
      BY <1>0 DEF Covered, Copies
    <2>4. RedisCovered'
      BY <1>0, <1>2, <2>1, <2>3 DEF RedisCovered, Covered, Copies
    <2> QED  BY <2>2, <2>4
  <1> QED  BY <1>1, <1>3, <1>4, <1>5, SlowKept, OwnKept DEF CursorInv

\* The loop body over the batch, newest entry first.
LEMMA InsertEntryStep ==
    ASSUME CursorInv, InsertEntry
    PROVE  CursorInv'
  <1>a. PICK e : e = Head(batch)
    OBVIOUS
  <1>0. /\ UNCHANGED <<ring, nextId, slowLog, execs, upsets, cursor, cpc, last>>
        /\ cpc = "redis_insert" /\ batch # <<>> /\ batch' = Tail(batch)
        /\ \/ SkipsEntry(e) /\ UNCHANGED <<stats, excused, n, top>>
           \/ ~SkipsEntry(e) /\ InsertNative("redis", e.ev, 1, Max({top, e.id}))
    BY <1>a DEF InsertEntry, statsVars, sourceVars
  <1>b. InRedis /\ InRedis'
    BY <1>0 DEF InRedis
  <1>s. /\ batch \in Seq(Entry) /\ e \in Entry /\ e = batch[1] /\ Len(batch) \in Nat \ {0}
        /\ batch' \in Seq(Entry) /\ Len(batch') = Len(batch) - 1
        /\ \A k \in 1..Len(batch') : batch'[k] = batch[k + 1]
    BY <1>0, <1>a, <1>b DEF CursorInv, CollectorShape
  <1>t. e.id \in Nat /\ e.ev \in Nat /\ top \in Nat /\ last \in Nat /\ cursor.redis \in Nat /\ n \in Nat
    BY <1>s DEF CursorInv, CollectorShape, Entry
  <1>m. Max({top, e.id}) = IF top >= e.id THEN top ELSE e.id
    <2>1. \E x \in {top, e.id} : \A y \in {top, e.id} : x >= y
      BY <1>t
    <2>2. /\ Max({top, e.id}) \in {top, e.id}
          /\ \A y \in {top, e.id} : Max({top, e.id}) >= y
      BY <2>1 DEF Max
    <2> QED  BY <1>t, <2>2
  <1>1. /\ Kept /\ NoOwnRow /\ top' \in {top, e.id} /\ top' \in Nat /\ n' \in Nat
        /\ ~SkipsEntry(e) => Covered("redis", e.ev)'
    <2>1. CASE SkipsEntry(e) /\ UNCHANGED <<stats, excused, n, top>>
      BY <1>t, <2>1, SameTable
    <2>2. CASE ~SkipsEntry(e) /\ InsertNative("redis", e.ev, 1, Max({top, e.id}))
      <3>1. e.ev # 0
        BY <2>2 DEF SkipsEntry
      <3>2. /\ top' \in {top, Max({top, e.id})} /\ n' \in {n, n + 1}
        BY <2>2 DEF InsertNative
      <3> QED  BY <1>m, <1>t, <2>2, <3>1, <3>2, NativeCovers
    <2> QED  BY <1>0, <2>1, <2>2
  <1>2. CollectorShape'
    BY <1>0, <1>1, <1>s, <1>b DEF CursorInv, CollectorShape
  <1>3. SlowAside
    BY <1>0 DEF SlowAside
  <1>4. RedisInv'
    <2> SUFFICES ASSUME upsets = 0 PROVE RingIds' /\ RedisCovered'
      BY <1>0 DEF RedisInv
    <2>1. RingIds /\ RedisCovered
      BY DEF CursorInv, RedisInv
    <2>2. PICK h \in 1..Len(ring) : e = ring[h]
      BY <1>b, <1>s, <2>1 DEF RingIds
    <2>3. RingIds'
      <3>1. e.id < Len(ring)
        <4>1. e.id = h - 1 /\ Len(ring) \in Nat
          BY <2>1, <2>2 DEF RingIds, CursorInv, CollectorShape
        <4> QED  BY <2>2, <4>1
      <3>2. top' = 0 \/ top' < Len(ring)
        BY <1>1, <1>b, <2>1, <3>1 DEF RingIds
      <3>3. \A j \in 1..Len(batch') : \E i \in 1..Len(ring) : batch'[j] = ring[i]
        <4>1. \A j \in 1..Len(batch') : j + 1 \in 1..Len(batch)
          BY <1>s
        <4> QED  BY <1>b, <1>s, <2>1, <4>1 DEF RingIds
      <3> QED  BY <1>0, <1>b, <2>1, <3>2, <3>3 DEF RingIds
    <2>4. ASSUME NEW i \in 1..Len(ring), ring[i].ev # 0, ring[i].id > 0
          PROVE  /\ ring[i].id <= cursor.redis => Covered("redis", ring[i].ev)'
                 /\ (ring[i].id <= top' \/ \E j \in 1..Len(batch') : ring[i].id <= batch'[j].id)
                       => \/ Covered("redis", ring[i].ev)'
                          \/ \E j \in 1..Len(batch') : batch'[j] = ring[i]
      <3>1. PICK x : x = ring[i]
        OBVIOUS
      <3>2. Covered("redis", x.ev) => Covered("redis", x.ev)'
        BY <1>1, CoveredKept
      <3>3. Covered("redis", ring[i].ev)' <=> Covered("redis", x.ev)'
        BY <1>0, <3>1
      <3>4. x.id <= cursor.redis => Covered("redis", x.ev)
        BY <2>1, <2>4, <3>1 DEF RedisCovered
      <3>5. ASSUME ring[i].id <= top' \/ \E j \in 1..Len(batch') : ring[i].id <= batch'[j].id
            PROVE  Covered("redis", x.ev)' \/ \E j \in 1..Len(batch') : batch'[j] = ring[i]
        <4>1. ring[i].id <= top \/ \E j \in 1..Len(batch) : ring[i].id <= batch[j].id
          <5>1. 1 \in 1..Len(batch) /\ \A j \in 1..Len(batch') : j + 1 \in 1..Len(batch)
            BY <1>s
          <5> QED  BY <1>1, <1>s, <3>5, <5>1
        <4>2. Covered("redis", x.ev) \/ \E j \in 1..Len(batch) : batch[j] = x
          BY <1>b, <2>1, <2>4, <3>1, <4>1 DEF RedisCovered
        <4>3. ASSUME NEW j \in 1..Len(batch), batch[j] = x
              PROVE  Covered("redis", x.ev)' \/ \E k \in 1..Len(batch') : batch'[k] = ring[i]
          <5>1. CASE j = 1
            <6>1. x = e
              BY <1>s, <4>3, <5>1
            <6>2. CASE SkipsEntry(e)
              <7>1. x.id <= last
                BY <2>4, <3>1, <6>1, <6>2, <1>t DEF SkipsEntry
              <7>2. last <= cursor.redis
                BY <1>0, <2>1 DEF RingIds
              <7> QED  BY <1>t, <3>2, <3>4, <6>1, <7>1, <7>2
            <6>3. CASE ~SkipsEntry(e)
              BY <1>1, <6>1, <6>3
            <6> QED  BY <6>2, <6>3
          <5>2. CASE j # 1
            <6>1. j - 1 \in 1..Len(batch') /\ (j - 1) + 1 = j
              BY <1>s, <5>2
            <6>2. batch'[j - 1] = ring[i]
              BY <1>s, <3>1, <4>3, <6>1
            <6> QED  BY <6>1, <6>2
          <5> QED  BY <5>1, <5>2
        <4> QED  BY <3>2, <4>2, <4>3
      <3> QED  BY <3>1, <3>2, <3>3, <3>4, <3>5
    <2> QED  BY <1>0, <2>3, <2>4 DEF RedisCovered
  <1> QED  BY <1>1, <1>2, <1>3, <1>4, SlowKept, OwnKept DEF CursorInv

\* cursor_put for one source, after which the round leaves its connection.
LEMMA PutRedisStep ==
    ASSUME CursorInv, PutRedisCursor
    PROVE  CursorInv'
  <1>0. /\ UNCHANGED <<stats, excused, ring, nextId, slowLog, execs, upsets>>
        /\ cpc = "redis_insert" /\ batch = <<>> /\ LeaveConn("redis")
        /\ UNCHANGED cursor \/ cursor' = [cursor EXCEPT !["redis"] = top]
    BY DEF PutRedisCursor, CursorPut, statsVars, sourceVars
  <1>1. /\ cpc' \in {"redis", "mysql", "idle"} /\ batch' = <<>>
        /\ last' = 0 /\ top' = 0 /\ n' = 0
    BY <1>0, NextConnIn DEF LeaveConn, ResetRound, NoCursor
  <1>2. /\ ~InRedis' /\ InRedis /\ cpc' \notin {"slow_rows", "slow_insert", "redis_insert"}
    BY <1>0, <1>1 DEF InRedis
  <1>3. /\ DOMAIN cursor' = {"redis", "slow", "ps"} /\ cursor'.slow = cursor.slow
        /\ cursor'.redis \in {cursor.redis, top} /\ top \in Nat
    BY <1>0 DEF CursorInv, CollectorShape
  <1>4. CollectorShape'
    BY <1>0, <1>1, <1>2, <1>3 DEF CursorInv, CollectorShape
  <1>5. Kept /\ NoOwnRow /\ SlowAside
    BY <1>0, <1>2, <1>3, SameTable DEF SlowAside
  <1>6. RedisInv'
    <2> SUFFICES ASSUME upsets = 0 PROVE RingIds' /\ RedisCovered'
      BY <1>0 DEF RedisInv
    <2>1. RingIds /\ RedisCovered
      BY DEF CursorInv, RedisInv
    <2>2. RingIds'
      BY <1>0, <1>2, <1>3, <2>1 DEF RingIds
    <2>3. ASSUME NEW i \in 1..Len(ring), ring[i].ev # 0, ring[i].id > 0, ring[i].id <= cursor'.redis
          PROVE  Covered("redis", ring[i].ev)'
      <3>1. Covered("redis", ring[i].ev)
        <4>1. ~ \E j \in 1..Len(batch) : batch[j] = ring[i]
          BY <1>0
        <4> QED  BY <1>2, <1>3, <2>1, <2>3, <4>1 DEF RedisCovered
      <3> QED  BY <1>0, <3>1 DEF Covered, Copies
    <2> QED  BY <1>0, <1>2, <2>2, <2>3 DEF RedisCovered
  <1> QED  BY <1>4, <1>5, <1>6, SlowKept, OwnKept DEF CursorInv

\* A statement in MySQL, which the slow log may record.
LEMMA MysqlSlowStep ==
    ASSUME CursorInv, NEW d \in Digest, MysqlSlow(d)
    PROVE  CursorInv'
  <1>0. /\ UNCHANGED <<stats, excused, ring, nextId, upsets, cursor, cpc, batch, last, top, n>>
        /\ execs' = execs + 1
        /\ UNCHANGED slowLog \/ slowLog' = Append(slowLog, [ev |-> execs + 1, digest |-> d])
    BY DEF MysqlSlow, qsVars, statsVars, roundVars
  <1>1. PICK e : e = [ev |-> execs + 1, digest |-> d]
    OBVIOUS
  <1>2. execs \in Nat /\ slowLog \in Seq([ev : Nat, digest : Digest]) /\ Len(slowLog) \in Nat
    BY DEF CursorInv, CollectorShape
  <1>3. e \in [ev : Nat, digest : Digest]
    BY <1>1, <1>2
  <1>4. UNCHANGED slowLog \/ slowLog' = Append(slowLog, e)
    BY <1>0, <1>1
  <1>5. /\ slowLog' \in Seq([ev : Nat, digest : Digest])
        /\ Len(slowLog') \in Nat /\ Len(slowLog') >= Len(slowLog)
        /\ \A i \in 1..Len(slowLog) : slowLog'[i] = slowLog[i]
    <2> DEFINE R == [ev : Nat, digest : Digest]
    <2>1. slowLog \in Seq(R) /\ e \in R
      BY <1>2, <1>3
    <2> HIDE DEF R
    <2>2. /\ slowLog' \in Seq(R)
          /\ Len(slowLog') \in Nat /\ Len(slowLog') >= Len(slowLog)
          /\ \A i \in 1..Len(slowLog) : slowLog'[i] = slowLog[i]
      BY <1>2, <1>4, <2>1
    <2> QED  BY <2>2 DEF R
  <1>6. CollectorShape'
    BY <1>0, <1>2, <1>5 DEF CursorInv, CollectorShape, InRedis
  <1>7. Kept /\ NoOwnRow /\ RedisAside
    BY <1>0, SameTable DEF RedisAside
  <1>8. SlowInv'
    <2>1. ASSUME NEW m \in Int, SlowCovered(m) PROVE SlowCovered(m)'
      <3>1. m <= Len(slowLog') /\ \A i \in 1..m : i \in 1..Len(slowLog)
        BY <1>2, <1>5, <2>1 DEF SlowCovered
      <3>2. \A i \in 1..m : slowLog'[i] = slowLog[i]
        BY <1>5, <3>1
      <3>3. \A k : Covered("slow", k)' <=> Covered("slow", k)
        BY <1>0 DEF Covered, Copies
      <3>4. ASSUME NEW i \in 1..m PROVE Covered("slow", slowLog[i].ev)'
        <4>1. Covered("slow", slowLog[i].ev)
          BY <2>1 DEF SlowCovered
        <4> QED  BY <1>0, <3>2, <4>1 DEF Covered, Copies
      <3> QED  BY <3>1, <3>4 DEF SlowCovered
    <2>2. SlowCovered(cursor.slow)' /\ (cpc = "slow_rows" => last <= cursor.slow)
      <3>1. PICK m : m = cursor.slow
        OBVIOUS
      <3>2. m \in Int /\ SlowCovered(m)
        BY <3>1 DEF CursorInv, CollectorShape, SlowInv
      <3>3. SlowCovered(m)'
        BY <2>1, <3>2
      <3> QED  BY <1>0, <3>1, <3>3 DEF CursorInv, SlowInv
    <2>3. ASSUME cpc = "slow_insert"
          PROVE  /\ SlowCovered(top)'
                 /\ batch # <<>> => SlowCovered(batch[1].pos - 1)'
                 /\ \A k \in 1..Len(batch) :
                       /\ batch[k].pos = batch[1].pos + k - 1
                       /\ batch[k].pos \in 1..Len(slowLog')
                       /\ batch[k].ev = slowLog'[batch[k].pos].ev
      <3>1. PICK t, p : t = top /\ p = batch[1].pos - 1
        OBVIOUS
      <3>2. SlowCovered(t)'
        BY <2>1, <2>3, <3>1 DEF CursorInv, CollectorShape, SlowInv
      <3>3. batch # <<>> => SlowCovered(p)'
        <4>1. batch # <<>> => p \in Int
          BY <2>3, <3>1 DEF CursorInv, CollectorShape, SlowRow
        <4> QED  BY <2>1, <2>3, <3>1, <4>1 DEF CursorInv, SlowInv
      <3>4. \A k \in 1..Len(batch) :
               /\ batch[k].pos = batch[1].pos + k - 1
               /\ batch[k].pos \in 1..Len(slowLog')
               /\ batch[k].ev = slowLog'[batch[k].pos].ev
        <4>1. \A k \in 1..Len(batch) :
                 /\ batch[k].pos = batch[1].pos + k - 1
                 /\ batch[k].pos \in 1..Len(slowLog)
                 /\ batch[k].ev = slowLog[batch[k].pos].ev
          BY <2>3 DEF CursorInv, SlowInv
        <4>2. \A i \in 1..Len(slowLog) : i \in 1..Len(slowLog')
          BY <1>2, <1>5
        <4> QED  BY <1>5, <4>1, <4>2
      <3> QED  BY <1>0, <3>1, <3>2, <3>3, <3>4
    <2> QED  BY <1>0, <2>2, <2>3 DEF SlowInv
  <1> QED  BY <1>6, <1>7, <1>8, RedisKept, OwnKept DEF CursorInv

\* The cursor of the slow log is read.
LEMMA ReadSlowStep ==
    ASSUME CursorInv, ReadSlowCursor
    PROVE  CursorInv'
  <1>0. /\ UNCHANGED <<stats, excused, ring, nextId, slowLog, execs, upsets, cursor, batch, top, n>>
        /\ cpc' = "slow_rows" /\ last' \in {cursor.slow, 0}
    BY DEF ReadSlowCursor, CursorGet, NoCursor, statsVars, sourceVars
  <1>1. ~InRedis'
    BY <1>0 DEF InRedis
  <1>2. CollectorShape' /\ last' <= cursor.slow
    BY <1>0, <1>1 DEF CursorInv, CollectorShape
  <1>3. Kept /\ NoOwnRow /\ RedisAside
    BY <1>0, <1>1, SameTable DEF RedisAside
  <1>4. SlowInv'
    BY <1>0, <1>2 DEF CursorInv, SlowInv, SlowCovered, Covered, Copies
  <1> QED  BY <1>2, <1>3, <1>4, RedisKept, OwnKept DEF CursorInv

\* What is not fetched is behind the cursor or excused.
LEMMA FetchSlowStep ==
    ASSUME CursorInv, FetchSlowRows
    PROVE  CursorInv'
  <1>0. UNCHANGED <<stats, ring, nextId, slowLog, execs, upsets, cursor>> /\ cpc = "slow_rows"
    BY DEF FetchSlowRows, sourceVars
  <1>1. CASE ConnFails("mysql") /\ UNCHANGED excused
    <2>1. Kept /\ NoOwnRow /\ UNCHANGED sourceVars
      BY <1>0, <1>1, SameTable DEF FetchSlowRows
    <2> QED  BY <1>0, <1>1, <2>1, LeaveConnStep DEF ConnFails
  <1>2. ASSUME NEW from \in last..Len(slowLog),
               last' = from, top' = from,
               batch' = [i \in 1..(Len(slowLog) - from) |->
                            [pos |-> from + i, ev |-> slowLog[from + i].ev]],
               excused' = excused \cup {Key("slow", slowLog[i].ev) : i \in (last + 1)..from},
               cpc' = "slow_insert", n' = n
        PROVE  CursorInv'
    <2>1. slowLog \in Seq([ev : Nat, digest : Digest]) /\ Len(slowLog) \in Nat
      BY DEF CursorInv, CollectorShape
    <2>2. from \in 0..Len(slowLog)
      BY <1>0, <2>1 DEF CursorInv, CollectorShape, SlowInv, SlowCovered
    <2> DEFINE N == Len(slowLog) - from
               f(i) == [pos |-> from + i, ev |-> slowLog[from + i].ev]
    <2>3. N \in Nat /\ \A i \in 1..N : from + i \in 1..Len(slowLog)
      BY <2>1, <2>2
    <2>4. \A i \in 1..N : /\ f(i) \in SlowRow /\ f(i).pos = from + i
                          /\ f(i).ev = slowLog[from + i].ev
      <3>1. \A i \in 1..N : slowLog[from + i].ev \in Nat /\ from + i \in Nat
        <4> HIDE DEF f, N
        <4> DEFINE R == [ev : Nat, digest : Digest]
        <4>1. slowLog \in Seq(R)
          BY <2>1
        <4> HIDE DEF R
        <4>2. ASSUME NEW j \in 1..Len(slowLog) PROVE slowLog[j].ev \in Nat
          <5>1. slowLog[j] \in R
            BY <4>1, <4>2
          <5> QED  BY <5>1 DEF R
        <4>3. \A j \in 1..Len(slowLog) : j \in Nat /\ slowLog[j].ev \in Nat
          BY <2>1, <4>2
        <4> QED  BY <2>3, <4>3
      <3> QED  BY <3>1 DEF SlowRow
    <2>5. batch' = [i \in 1..N |-> f(i)]
      BY <1>2
    <2> HIDE DEF f, N
    <2>6. batch' \in Seq(SlowRow) /\ Len(batch') = N /\ \A i \in 1..N : batch'[i] = f(i)
      BY <2>3, <2>4, <2>5
    <2>7. ~InRedis'
      BY <1>2 DEF InRedis
    <2>8. CollectorShape'
      <3>1. from \in Nat
        BY <2>1, <2>2
      <3> QED  BY <1>0, <1>2, <2>6, <2>7, <3>1 DEF CursorInv, CollectorShape
    <2>9. Kept /\ NoOwnRow /\ RedisAside
      BY <1>0, <1>2, <2>7 DEF Kept, NoOwnRow, RedisAside
    <2>10. SlowInv'
      <3>1. SlowCovered(cursor.slow)'
        <4>1. PICK m : m = cursor.slow
          OBVIOUS
        <4>2. SlowCovered(m)'
          BY <1>0, <2>9, <4>1, SlowCoveredKept DEF CursorInv, SlowInv
        <4> QED  BY <1>0, <4>1, <4>2
      <3>2. SlowCovered(from)'
        <4>1. ASSUME NEW i \in 1..from PROVE Covered("slow", slowLog[i].ev)'
          <5>0. last \in Nat /\ from \in Nat /\ cursor.slow \in Nat /\ last <= cursor.slow
            BY <1>0, <2>1, <2>2 DEF CursorInv, CollectorShape, SlowInv
          <5>1. CASE i \in 1..last
            <6>1. i \in 1..cursor.slow /\ cursor'.slow = cursor.slow
              BY <1>0, <5>0, <5>1
            <6> QED  BY <1>0, <3>1, <6>1 DEF SlowCovered
          <5>2. CASE i \in (last + 1)..from
            <6>1. Key("slow", slowLog[i].ev) \in excused'
              BY <1>2, <5>2
            <6> QED  BY <1>0, <6>1 DEF Covered, Key
          <5> QED  BY <5>0, <5>1, <5>2
        <4> QED  BY <1>0, <2>1, <2>2, <4>1 DEF SlowCovered
      <3>3. \A k \in 1..Len(batch') : /\ batch'[k].pos = from + k
                                      /\ batch'[k].pos \in 1..Len(slowLog)
                                      /\ batch'[k].ev = slowLog[batch'[k].pos].ev
        BY <2>3, <2>4, <2>6
      <3>4. batch' # <<>> => 1 \in 1..Len(batch') /\ batch'[1].pos - 1 = from
        BY <2>2, <2>3, <2>6, <3>3
      <3>5. \A k \in 1..Len(batch') : batch'[k].pos = batch'[1].pos + k - 1
        <4>1. ASSUME NEW k \in 1..Len(batch') PROVE batch'[k].pos = batch'[1].pos + k - 1
          <5>1. 1 \in 1..Len(batch')
            BY <2>3, <2>6
          <5>2. batch'[1].pos = from + 1 /\ batch'[k].pos = from + k
            BY <3>3, <5>1
          <5> QED  BY <2>2, <2>3, <2>6, <5>2
        <4> QED  BY <4>1
      <3>6. SlowCovered(top)'
        BY <1>2, <3>2 DEF SlowCovered
      <3>7. batch' # <<>> => SlowCovered(batch[1].pos - 1)'
        BY <3>2, <3>4 DEF SlowCovered
      <3> QED  BY <1>0, <1>2, <3>1, <3>3, <3>5, <3>6, <3>7 DEF SlowInv
    <2> QED  BY <2>8, <2>9, <2>10, RedisKept, OwnKept DEF CursorInv
  <1> QED  BY <1>1, <1>2 DEF FetchSlowRows, PassedOver

\* The loop body over the rows of the slow log, oldest first.
LEMMA InsertSlowStep ==
    ASSUME CursorInv, InsertSlowRow
    PROVE  CursorInv'
  <1>a. PICK e : e = Head(batch)
    OBVIOUS
  <1>0. /\ UNCHANGED <<ring, nextId, slowLog, execs, upsets, cursor, cpc, last>>
        /\ cpc = "slow_insert" /\ batch # <<>> /\ batch' = Tail(batch)
        /\ InsertNative("slow", e.ev, 1, e.pos)
    BY <1>a DEF InsertSlowRow, sourceVars
  <1>s. /\ batch \in Seq(SlowRow) /\ e \in SlowRow /\ e = batch[1] /\ Len(batch) \in Nat \ {0}
        /\ batch' \in Seq(SlowRow) /\ Len(batch') = Len(batch) - 1
        /\ \A k \in 1..Len(batch') : batch'[k] = batch[k + 1] /\ k + 1 \in 1..Len(batch)
    BY <1>0, <1>a DEF CursorInv, CollectorShape
  <1>t. e.pos \in Nat /\ e.ev \in Nat /\ top \in Nat /\ n \in Nat
    BY <1>s DEF CursorInv, CollectorShape, SlowRow
  <1>1. Kept /\ NoOwnRow /\ Covered("slow", e.ev)'
    BY <1>0, NativeCovers
  <1>2. top' \in {top, e.pos} /\ n' \in {n, n + 1}
    BY <1>0 DEF InsertNative
  <1>3. ~InRedis'
    BY <1>0 DEF InRedis
  <1>4. CollectorShape'
    BY <1>0, <1>2, <1>3, <1>s, <1>t DEF CursorInv, CollectorShape
  <1>5. RedisAside
    BY <1>0, <1>3 DEF RedisAside
  <1>6. SlowInv'
    <2>0. /\ SlowCovered(top) /\ SlowCovered(e.pos - 1)
          /\ \A k \in 1..Len(batch) :
                /\ batch[k].pos = e.pos + k - 1
                /\ batch[k].pos \in 1..Len(slowLog)
                /\ batch[k].ev = slowLog[batch[k].pos].ev
      BY <1>0, <1>s DEF CursorInv, SlowInv
    <2>1. e.pos \in 1..Len(slowLog) /\ e.ev = slowLog[e.pos].ev
      BY <1>s, <2>0
    <2>2. SlowCovered(e.pos)'
      <3>1. PICK m : m = e.pos - 1
        OBVIOUS
      <3>2. SlowCovered(m)'
        BY <1>0, <1>1, <2>0, <3>1, SlowCoveredKept
      <3>3. Covered("slow", slowLog[e.pos].ev)'
        BY <1>0, <1>1, <2>1
      <3>4. \A i \in 1..e.pos : i \in 1..m \/ i = e.pos
        BY <1>t, <3>1
      <3>5. e.pos <= Len(slowLog)'
        BY <1>0, <2>1
      <3> QED  BY <3>2, <3>3, <3>4, <3>5 DEF SlowCovered
    <2>3. SlowCovered(top)'
      <3>1. PICK t : t = top
        OBVIOUS
      <3>2. SlowCovered(t)'
        BY <1>0, <1>1, <2>0, <3>1, SlowCoveredKept
      <3> QED  BY <1>2, <2>2, <3>1, <3>2 DEF SlowCovered
    <2>4. SlowCovered(cursor.slow)'
      <3>1. PICK m : m = cursor.slow
        OBVIOUS
      <3>2. SlowCovered(m)'
        BY <1>0, <1>1, <3>1, SlowCoveredKept DEF CursorInv, SlowInv
      <3> QED  BY <1>0, <3>1, <3>2
    <2>5. ASSUME NEW k \in 1..Len(batch')
          PROVE  /\ batch'[k].pos = e.pos + k
                 /\ batch'[k].pos \in 1..Len(slowLog)
                 /\ batch'[k].ev = slowLog[batch'[k].pos].ev
      <3>1. batch'[k] = batch[k + 1] /\ k + 1 \in 1..Len(batch)
        BY <1>s
      <3>2. batch[k + 1].pos = e.pos + (k + 1) - 1
        BY <2>0, <3>1
      <3> QED  BY <1>t, <2>0, <3>1, <3>2
    <2>6. ASSUME NEW k \in 1..Len(batch')
          PROVE  batch'[k].pos = batch'[1].pos + k - 1 /\ batch'[1].pos - 1 = e.pos
      <3>1. 1 \in 1..Len(batch') /\ k \in Nat
        BY <1>s
      <3>2. batch'[1].pos = e.pos + 1 /\ batch'[k].pos = e.pos + k
        BY <2>5, <3>1
      <3> QED  BY <1>t, <3>1, <3>2
    <2>7. batch' # <<>> => SlowCovered(batch[1].pos - 1)'
      <3>1. batch' # <<>> => 1 \in 1..Len(batch')
        BY <1>s
      <3> QED  BY <2>2, <2>6, <3>1 DEF SlowCovered
    <2> QED  BY <1>0, <2>3, <2>4, <2>5, <2>6, <2>7 DEF SlowInv
  <1> QED  BY <1>1, <1>4, <1>5, <1>6, RedisKept, OwnKept DEF CursorInv

\* A cursor of MySQL is stored.
LEMMA PutMysqlStep ==
    ASSUME CursorInv, PutSlowCursor \/ PutSnapshot
    PROVE  CursorInv'
  <1>0. /\ UNCHANGED <<stats, excused, ring, nextId, slowLog, execs, upsets>> /\ LeaveConn("mysql")
    BY DEF PutSlowCursor, PutSnapshot, statsVars, sourceVars
  <1>1. /\ cpc' \in {"redis", "mysql", "idle"} /\ batch' = <<>>
        /\ last' = 0 /\ top' = 0 /\ n' = 0
    BY <1>0, NextConnIn DEF LeaveConn, ResetRound, NoCursor
  <1>2. ~InRedis' /\ cpc' \notin {"slow_rows", "slow_insert"}
    BY <1>1 DEF InRedis
  <1>3. /\ DOMAIN cursor' = {"redis", "slow", "ps"} /\ cursor'.redis = cursor.redis
        /\ cursor'.slow = cursor.slow \/ (cpc = "slow_insert" /\ cursor'.slow = top)
        /\ cursor'.slow \in Nat
    BY DEF CursorInv, CollectorShape, PutSlowCursor, PutSnapshot, CursorPut, SlowCursor
  <1>4. CollectorShape'
    BY <1>0, <1>1, <1>2, <1>3 DEF CursorInv, CollectorShape
  <1>5. Kept /\ NoOwnRow /\ RedisAside
    BY <1>0, <1>2, <1>3, SameTable DEF RedisAside
  <1>6. SlowInv'
    <2>1. SlowCovered(cursor'.slow)
      BY <1>3 DEF CursorInv, SlowInv
    <2>2. PICK m : m = cursor'.slow
      OBVIOUS
    <2>3. SlowCovered(m)'
      BY <1>0, <1>5, <2>1, <2>2, SlowCoveredKept
    <2>4. SlowCovered(cursor.slow)'
      BY <2>2, <2>3
    <2> QED  BY <1>2, <2>4 DEF SlowInv
  <1> QED  BY <1>4, <1>5, <1>6, RedisKept, OwnKept DEF CursorInv

\* The other steps of a round in MySQL, the hourly tick and the crash.
LEMMA OtherSteps ==
    ASSUME CursorInv, ReadSettings \/ FetchDigests \/ ReadSnapshot \/ InsertDelta
                      \/ CollectTick \/ Crash
    PROVE  CursorInv'
  <1>1. ASSUME Kept, NoOwnRow, UNCHANGED <<ring, nextId, slowLog, execs, upsets, cursor>>,
               cpc' \notin {"redis_cursor", "redis_insert", "slow_rows", "slow_insert"},
               last' \in Nat, top' \in Nat, n' \in Nat,
               cpc' \in {"idle", "redis"} => top' = 0
        PROVE  CursorInv'
    <2>1. ~InRedis'
      BY <1>1 DEF InRedis
    <2>2. CollectorShape'
      BY <1>1, <2>1 DEF CursorInv, CollectorShape
    <2>3. RedisAside /\ SlowAside
      BY <1>1, <2>1 DEF RedisAside, SlowAside
    <2> QED  BY <1>1, <2>2, <2>3, BothAside
  <1>t. last \in Nat /\ top \in Nat /\ n \in Nat
    BY DEF CursorInv, CollectorShape
  <1>2. ASSUME NEW c, LeaveConn(c), UNCHANGED <<stats, excused>>, UNCHANGED sourceVars,
               UNCHANGED cursor
        PROVE  CursorInv'
    BY <1>2, SameTable, LeaveConnStep
  <1>3. CASE ReadSettings
    <2>1. CASE ConnFails("mysql")
      BY <1>2, <1>3, <2>1 DEF ConnFails, ReadSettings, statsVars
    <2>2. CASE cpc' \in {"slow_cursor", "ps_rows"} /\ UNCHANGED roundVars
      BY <1>1, <1>3, <1>t, <2>2, SameTable DEF ReadSettings, roundVars, statsVars, sourceVars
    <2> QED  BY <1>3, <2>1, <2>2 DEF ReadSettings
  <1>4. CASE FetchDigests
    <2>1. CASE ConnFails("mysql")
      BY <1>2, <1>4, <2>1 DEF ConnFails, FetchDigests, statsVars
    <2>2. CASE cpc' = "ps_cursor" /\ UNCHANGED <<last, top, n>>
      BY <1>1, <1>4, <1>t, <2>2, SameTable DEF FetchDigests, statsVars, sourceVars
    <2> QED  BY <1>4, <2>1, <2>2 DEF FetchDigests
  <1>5. CASE ReadSnapshot
    BY <1>1, <1>5, <1>t, SameTable DEF ReadSnapshot, statsVars, sourceVars
  <1>6. CASE InsertDelta
    <2>1. PICK d, m : InsertNative("ps", d, m, top)
      BY <1>6 DEF InsertDelta
    <2>2. Kept /\ NoOwnRow
      BY <2>1, NativeCovers
    <2>3. top' = top /\ n' \in {n, n + 1}
      BY <2>1 DEF InsertNative
    <2>4. /\ cpc' = "ps_insert" /\ UNCHANGED <<ring, nextId, slowLog, execs, upsets, cursor, last>>
      BY <1>6 DEF InsertDelta, sourceVars
    <2> QED  BY <1>1, <1>t, <2>2, <2>3, <2>4
  <1>7. CASE CollectTick
    <2>1. cpc' \in {"redis", "mysql", "idle"} /\ top = 0 /\ UNCHANGED roundVars
      BY <1>7, NextConnIn DEF CollectTick, CursorInv, CollectorShape
    <2>2. UNCHANGED <<stats, excused, ring, nextId, slowLog, execs, upsets, cursor>>
      BY <1>7 DEF CollectTick, qsVars, statsVars, sourceVars
    <2> QED  BY <1>1, <1>t, <2>1, <2>2, SameTable DEF roundVars
  <1>8. CASE Crash
    <2>1. /\ cpc' = "idle" /\ last' = 0 /\ top' = 0 /\ n' = 0
          /\ UNCHANGED <<stats, excused, ring, nextId, slowLog, execs, upsets, cursor>>
      BY <1>8 DEF Crash, ResetRound, NoCursor, ProcessDies, statsVars, sourceVars
    <2> QED  BY <1>1, <2>1, SameTable
  <1> QED  BY <1>3, <1>4, <1>5, <1>6, <1>7, <1>8

\* The invariant of the collector holds in every reachable state.
LEMMA CursorInvariant == Spec => []CursorInv
  <1>1. Init => CursorInv
    <2> SUFFICES ASSUME Init PROVE CursorInv
      OBVIOUS
    <2>0. /\ ring = <<>> /\ nextId = 0 /\ slowLog = <<>> /\ execs = 0 /\ upsets = 0
          /\ cpc = "idle" /\ last = 0 /\ top = 0 /\ n = 0 /\ stats = {}
      BY DEF Init, StatsInit, NoCursor
    <2>1. DOMAIN cursor = {"redis", "slow", "ps"} /\ cursor.redis = 0 /\ cursor.slow = 0
      BY DEF Init, NoCursor
    <2>2. CollectorShape /\ ~InRedis
      BY <2>0, <2>1 DEF CollectorShape, InRedis
    <2>3. RedisInv
      BY <2>0, <2>1, <2>2 DEF RedisInv, RingIds, RedisCovered
    <2>4. SlowInv /\ OwnSkipped
      BY <2>0, <2>1 DEF SlowInv, SlowCovered, OwnSkipped, Copies
    <2> QED  BY <2>2, <2>3, <2>4 DEF CursorInv
  <1>2. CursorInv /\ [Next]_vars => CursorInv'
    <2> SUFFICES ASSUME CursorInv, [Next]_vars PROVE CursorInv'
      OBVIOUS
    <2>1. CASE StatsNext /\ UNCHANGED collectorVars
      BY <2>1, StatsKept, JobsStep
    <2>2. CASE RedisSlow \/ RedisRestart \/ (\E d \in Digest : MysqlSlow(d)) \/ MysqlUpset
      BY <2>2, RedisSlowStep, UpsetStep, MysqlSlowStep
    <2>3. CASE CollectTick \/ CollectorStep \/ Crash
      BY <2>3, FetchSlowlogStep, ReadRedisStep, InsertEntryStep, PutRedisStep, ReadSlowStep,
         FetchSlowStep, InsertSlowStep, PutMysqlStep, OtherSteps DEF CollectorStep
    <2>4. CASE UNCHANGED vars
      <3>1. UNCHANGED collectorVars /\ UNCHANGED <<stats, excused>>
        BY <2>4 DEF vars, qsVars, statsVars
      <3> QED  BY <3>1, SameTable, JobsStep
    <2> QED  BY <2>1, <2>2, <2>3, <2>4 DEF Next
  <1> QED  BY <1>1, <1>2, PTL DEF Spec

\* For any batch size, any number of entries, restarts, lost cursor reads and
\* writes and crashes: an event at or before a stored cursor
\* (query_stats_native_cursor) is in query_stats or its absence has a cause, and the
\* collector never counts its own SLOWLOG (native_collector.rs).
THEOREM CursorSoundHolds == Spec => []CursorSound
  <1>1. CursorInv => CursorSound
    <2> SUFFICES ASSUME CursorInv PROVE CursorSound
      OBVIOUS
    <2>1. ASSUME upsets = 0, NEW i \in 1..Len(ring),
                 ring[i].ev # 0, ring[i].id \in 1..cursor.redis
          PROVE  Covered("redis", ring[i].ev)
      <3>1. ring[i].id > 0 /\ ring[i].id <= cursor.redis
        BY <2>1 DEF CursorInv, CollectorShape
      <3> QED  BY <2>1, <3>1 DEF CursorInv, RedisInv, RedisCovered
    <2>2. \A i \in 1..cursor.slow : Covered("slow", slowLog[i].ev)
      BY DEF CursorInv, SlowInv, SlowCovered
    <2> QED  BY <2>1, <2>2 DEF CursorSound, CursorInv, OwnSkipped, Covered
  <1> QED  BY <1>1, CursorInvariant, PTL

----------------------------------------------------------------------------
(* Counted once: the inductive invariant *)

Copied(source, k) == Copies(source, k) # {}

InSlow == cpc \in {"slow_cursor", "slow_rows", "slow_insert"}

\* An event of Redis is in the log once, and with the same id in the batch.
RedisEvents ==
    /\ \A i \in 1..Len(ring) : ring[i].ev <= execs
    /\ \A i, j \in 1..Len(ring) : ring[i].ev = ring[j].ev => ring[i].ev = 0 \/ i = j
    /\ InRedis =>
          /\ \A j \in 1..Len(batch) : batch[j].ev <= execs
          /\ \A j, k \in 1..Len(batch) : batch[j].ev = batch[k].ev => batch[j].ev = 0 \/ j = k
          /\ \A i \in 1..Len(ring), j \in 1..Len(batch) :
                ring[i].ev = batch[j].ev => ring[i].ev = 0 \/ ring[i].id = batch[j].id

\* An event is in the slow log once.
SlowEvents ==
    /\ \A i \in 1..Len(slowLog) : slowLog[i].ev <= execs
    /\ \A i, j \in 1..Len(slowLog) : slowLog[i].ev = slowLog[j].ev => i = j

\* Rows are about events that have happened; a round that inserts nothing has
\* inserted nothing.
RowShape ==
    /\ \A s \in stats : s.source \in {"redis", "slow"} => s.key \in Nat /\ s.key <= execs
    /\ \A s \in stats : s.source = "ps" => s.count \in Nat
    /\ cpc \notin {"redis_insert", "slow_insert", "ps_insert"} => n = 0

OneRow(source) ==
    \A s, u \in stats : (s.source = source /\ u.source = source /\ s.key = u.key) => s = u

\* What has been copied is at or below the cursor, or at or below what this round
\* will store; the rest of the batch has been copied only if the cursor says so.
RedisOnce ==
    /\ OneRow("redis")
    /\ \A i \in 1..Len(ring) : Copied("redis", ring[i].ev) =>
          ring[i].id <= cursor.redis \/ (cpc = "redis_insert" /\ n > 0 /\ ring[i].id <= top)
    /\ InRedis => \A j \in 1..Len(batch) : Copied("redis", batch[j].ev) => batch[j].id <= cursor.redis
    /\ cpc = "redis_insert" => last = cursor.redis /\ (n > 0 => top > last)

\* The same for positions of the slow log.
SlowOnce ==
    /\ OneRow("slow")
    /\ \A i \in 1..Len(slowLog) : Copied("slow", slowLog[i].ev) =>
          i <= cursor.slow \/ (cpc = "slow_insert" /\ n > 0 /\ i <= top)
    /\ cpc = "slow_rows" => last = cursor.slow
    /\ cpc = "slow_insert" => cursor.slow <= top /\ \A k \in 1..Len(batch) : batch[k].pos > top

\* The logged events of a digest, and the ones that have a row.
LoggedOf(d) == {e \in {slowLog[i] : i \in 1..Len(slowLog)} : e.digest = d}
FoundOf(d) ==
    {e \in {slowLog[i] : i \in 1..Len(slowLog)} : e.digest = d /\ Copies("slow", e.ev) # {}}

\* The statements of digest d that the table counts.
Counted(d) == SumCounts(Copies("ps", d)) + Cardinality(FoundOf(d))

\* What the next difference of snapshots can find for digest d.
Grown(prev, cur, d) == IF prev[d] > 0 /\ cur[d] > prev[d] THEN cur[d] - prev[d] ELSE 0

Delta == [digest : Digest, count : Nat]

MysqlShape ==
    /\ counters \in [Digest -> Nat] /\ executed \in [Digest -> Nat]
    /\ cursor.ps \in [Digest -> Nat] /\ snap \in [Digest -> Nat]
    /\ IsFiniteSet({d \in Digest : counters[d] > 0}) /\ IsFiniteSet({d \in Digest : snap[d] > 0})
    /\ \A d \in Digest : IsFiniteSet(LoggedOf(d)) /\ Cardinality(LoggedOf(d)) <= executed[d]
    /\ cpc = "ps_insert" =>
          /\ batch \in Seq(Delta)
          /\ \A j, k \in 1..Len(batch) : batch[j].digest = batch[k].digest => j = k

\* What the table counts, and what the stored snapshot still lets a round count, was
\* executed.  Between the reading of a snapshot and its storing that is what the round
\* will insert and what has grown since.
MysqlCount ==
    /\ InSlow => cursor.ps = NoSnapshot /\ \A s \in stats : s.source # "ps"
    /\ \A d \in Digest :
          /\ (cpc # "ps_insert" \/ n = 0) =>
                Counted(d) + Grown(cursor.ps, counters, d) <= executed[d]
          /\ cpc = "ps_cursor" =>
                Counted(d) + Grown(cursor.ps, snap, d) + Grown(snap, counters, d) <= executed[d]
          /\ cpc = "ps_insert" => Counted(d) + Grown(snap, counters, d) <= executed[d]
    /\ cpc = "ps_insert" => \A j \in 1..Len(batch) :
          Counted(batch[j].digest) + batch[j].count + Grown(snap, counters, batch[j].digest)
              <= executed[batch[j].digest]

RedisPart == RedisEvents /\ (~torn => RedisOnce)
SlowPart  == SlowEvents /\ (~torn => SlowOnce)
MysqlPart == MysqlShape /\ ((~torn /\ ~switched) => MysqlCount)

OnceInv == RowShape /\ RedisPart /\ SlowPart /\ MysqlPart

----------------------------------------------------------------------------
(* Sums over the rows of the table *)

\* g holds the sums of the rows of S with an id below 0, 1, ..., m.
PartialSums(g, S, m) == g[0] = 0 /\ \A k \in 1..m : g[k] = g[k - 1] + CountAt(S, k - 1)

\* Every row of S counts a number.
CountsNat(S) == \A i \in Nat : CountAt(S, i) \in Nat

\* Partial sums exist.
LEMMA SumsExist ==
    ASSUME NEW S, NEW m \in Nat, CountsNat(S)
    PROVE  \E g \in [0..m -> Nat] : PartialSums(g, S, m)
  <1> DEFINE Upto(k) == \E g \in [0..k -> Nat] : PartialSums(g, S, k)
             Bad == {k \in 0..m : ~Upto(k)}
  <1>1. Upto(0)
    <2> DEFINE g == [k \in 0..0 |-> 0]
    <2>1. g \in [0..0 -> Nat] /\ PartialSums(g, S, 0)
      BY DEF PartialSums
    <2> HIDE DEF g
    <2> QED  BY <2>1
  <1>2. ASSUME NEW k \in 1..m, Upto(k - 1) PROVE Upto(k)
    <2>1. PICK g \in [0..(k - 1) -> Nat] : PartialSums(g, S, k - 1)
      BY <1>2
    <2>2. PICK c \in Nat : c = CountAt(S, k - 1)
      BY DEF CountsNat
    <2>k. k \in Nat /\ k - 1 \in Nat /\ k - 1 \in 0..(k - 1)
      OBVIOUS
    <2> DEFINE h == [j \in 0..k |-> IF j = k THEN g[k - 1] + c ELSE g[j]]
    <2>3. h \in [0..k -> Nat]
      BY <2>2, <2>k
    <2>4. PartialSums(h, S, k)
      BY <2>1, <2>2, <2>k DEF PartialSums
    <2> HIDE DEF h
    <2> QED  BY <2>3, <2>4
  <1> HIDE DEF Upto
  <1>3. Bad = {}
    <2> SUFFICES ASSUME Bad # {} PROVE FALSE
      OBVIOUS
    <2>0. Bad \subseteq Nat
      OBVIOUS
    <2>1. PICK k \in Bad : \A y \in Bad : k <= y
      <3> HIDE DEF Bad
      <3> QED  BY <2>0, LeastOf
    <2>2. k # 0 /\ k - 1 \in 0..m /\ k - 1 \notin Bad
      BY <1>1, <2>1
    <2> QED  BY <1>2, <2>1, <2>2
  <1>4. Upto(m)
    BY <1>3
  <1> QED  BY <1>4 DEF Upto

\* A row that counts less makes no partial sum larger.
LEMMA SumsBelow ==
    ASSUME NEW m \in Nat, NEW S, NEW T, NEW g, NEW h \in [0..m -> Nat],
           PartialSums(g, T, m), PartialSums(h, S, m),
           \A i \in 0..(m - 1) :
              CountAt(T, i) \in Nat /\ CountAt(S, i) \in Nat /\ CountAt(T, i) <= CountAt(S, i)
    PROVE  \A k \in 0..m : g[k] \in Nat /\ g[k] <= h[k]
  <1> DEFINE Bad == {k \in 0..m : ~ (g[k] \in Nat /\ g[k] <= h[k])}
  <1> SUFFICES ASSUME Bad # {} PROVE FALSE
    OBVIOUS
  <1>0. Bad \subseteq Nat
    OBVIOUS
  <1>1. PICK k \in Bad : \A y \in Bad : k <= y
    <2> HIDE DEF Bad
    <2> QED  BY <1>0, LeastOf
  <1>2. k # 0 /\ k \in 1..m
    BY <1>1 DEF PartialSums
  <1>3. k - 1 \in 0..m /\ k - 1 \notin Bad /\ k - 1 \in 0..(m - 1)
    BY <1>1, <1>2
  <1>4. g[k] = g[k - 1] + CountAt(T, k - 1) /\ h[k] = h[k - 1] + CountAt(S, k - 1)
    BY <1>2 DEF PartialSums
  <1>5. PICK a \in Nat, b \in Nat : a = CountAt(T, k - 1) /\ b = CountAt(S, k - 1) /\ a <= b
    BY <1>3
  <1>6. g[k - 1] \in Nat /\ h[k - 1] \in Nat /\ g[k - 1] <= h[k - 1] /\ k \in 0..m
    BY <1>2, <1>3
  <1>7. g[k] \in Nat /\ g[k] <= h[k]
    BY <1>4, <1>5, <1>6
  <1> QED  BY <1>1, <1>7

\* SumBelow is the last of the partial sums.
LEMMA SumBelowIsSum ==
    ASSUME NEW S, NEW m \in Nat, CountsNat(S),
           NEW g, PartialSums(g, S, m)
    PROVE  SumBelow(S, m) = g[m] /\ SumBelow(S, m) \in Nat
  <1> DEFINE Solves(f) == f = [i \in 0..m |-> IF i = 0 THEN 0 ELSE f[i - 1] + CountAt(S, i - 1)]
             sum == CHOOSE f : Solves(f)
  <1>1. PICK f \in [0..m -> Nat] : PartialSums(f, S, m)
    BY SumsExist
  <1>2. Solves(f)
    BY <1>1 DEF PartialSums
  <1>3. Solves(sum)
    BY <1>2
  <1>4. SumBelow(S, m) = sum[m]
    BY DEF SumBelow
  <1>5. PartialSums(sum, S, m)
    <2> HIDE DEF sum
    <2> QED  BY <1>3 DEF PartialSums
  <1> HIDE DEF sum, Solves
  <1>c. \A i \in 0..(m - 1) : CountAt(S, i) \in Nat /\ CountAt(S, i) <= CountAt(S, i)
    BY DEF CountsNat
  <1>6. g[m] \in Nat /\ sum[m] \in Nat
    <2>1. \A k \in 0..m : g[k] \in Nat
      BY <1>1, <1>c, SumsBelow
    <2>2. \A k \in 0..m : sum[k] \in Nat
      BY <1>1, <1>5, <1>c, SumsBelow
    <2> QED  BY <2>1, <2>2
  <1>7. \A a, b : (PartialSums(a, S, m) /\ PartialSums(b, S, m)) => a[m] = b[m]
    <2> SUFFICES ASSUME NEW a, NEW b, PartialSums(a, S, m), PartialSums(b, S, m), a[m] # b[m]
                 PROVE  FALSE
      OBVIOUS
    <2> DEFINE Bad == {j \in 0..m : a[j] # b[j]}
    <2>1. Bad \subseteq Nat /\ Bad # {}
      <3>1. m \in Bad
        OBVIOUS
      <3> QED  BY <3>1
    <2>2. PICK j \in Bad : \A y \in Bad : j <= y
      <3> HIDE DEF Bad
      <3> QED  BY <2>1, LeastOf
    <2>3. j # 0 /\ j \in 1..m
      BY <2>2 DEF PartialSums
    <2>4. j - 1 \in 0..m /\ j - 1 \notin Bad
      BY <2>2, <2>3
    <2> QED  BY <2>2, <2>3, <2>4 DEF PartialSums
  <1> QED  BY <1>4, <1>5, <1>6, <1>7

\* The row with the next id adds its count.
LEMMA SumBelowNext ==
    ASSUME NEW S, NEW m \in Nat, CountsNat(S)
    PROVE  SumBelow(S, m + 1) = SumBelow(S, m) + CountAt(S, m) /\ SumBelow(S, m) \in Nat
  <1>0. m + 1 \in Nat /\ m \in 0..(m + 1)
    OBVIOUS
  <1>1. PICK g \in [0..(m + 1) -> Nat] : PartialSums(g, S, m + 1)
    BY <1>0, SumsExist
  <1>2. PartialSums(g, S, m)
    BY <1>1 DEF PartialSums
  <1>3. g[m + 1] = g[m] + CountAt(S, m)
    BY <1>1 DEF PartialSums
  <1>4. SumBelow(S, m + 1) = g[m + 1]
    BY <1>0, <1>1, SumBelowIsSum
  <1>5. SumBelow(S, m) = g[m] /\ SumBelow(S, m) \in Nat
    BY <1>2, SumBelowIsSum
  <1> QED  BY <1>3, <1>4, <1>5

\* A set whose rows count less has no larger sum.
LEMMA SumBelowLess ==
    ASSUME NEW S, NEW T, NEW m \in Nat,
           CountsNat(S), CountsNat(T),
           \A i \in 0..(m - 1) : CountAt(T, i) <= CountAt(S, i)
    PROVE  SumBelow(T, m) <= SumBelow(S, m)
  <1>1. PICK g \in [0..m -> Nat] : PartialSums(g, T, m)
    BY SumsExist
  <1>2. PICK h \in [0..m -> Nat] : PartialSums(h, S, m)
    BY SumsExist
  <1>3. \A i \in 0..(m - 1) :
           CountAt(T, i) \in Nat /\ CountAt(S, i) \in Nat /\ CountAt(T, i) <= CountAt(S, i)
    <2>1. \A i \in 0..(m - 1) : i \in Nat
      OBVIOUS
    <2>2. \A i \in Nat : CountAt(T, i) \in Nat /\ CountAt(S, i) \in Nat
      BY DEF CountsNat
    <2> QED  BY <2>1, <2>2
  <1>4. \A k \in 0..m : g[k] \in Nat /\ g[k] <= h[k]
    BY <1>1, <1>2, <1>3, SumsBelow
  <1>5. SumBelow(T, m) = g[m] /\ SumBelow(S, m) = h[m]
    BY <1>1, <1>2, SumBelowIsSum
  <1> QED  BY <1>4, <1>5

\* No row, no count.
LEMMA SumBelowEmpty ==
    ASSUME NEW m \in Nat
    PROVE  SumBelow({}, m) = 0
  <1> DEFINE g == [k \in 0..m |-> 0]
  <1>1. \A i : CountAt({}, i) = 0
    BY DEF CountAt
  <1>2. CountsNat({}) /\ PartialSums(g, {}, m) /\ g[m] = 0
    BY <1>1 DEF CountsNat, PartialSums
  <1> HIDE DEF g
  <1> QED  BY <1>2, SumBelowIsSum

----------------------------------------------------------------------------
(* Counted once: the table *)

\* What every step does to the table: it adds at most one row, and may delete some.
Moves == TableStep /\ inserted' \in {inserted, inserted + 1}

\* Rows of one source are not added.
NoRow(source) == \A s \in stats' : s.source = source => s \in stats

\* insert_native adds the row it was given, or nothing.
LEMMA NativeRow ==
    ASSUME ReportShape, NEW source, NEW r, NEW c, NEW p, InsertNative(source, r, c, p), UNCHANGED now
    PROVE  /\ Moves
           /\ \A s \in stats' : s \in stats \/ (s.source = source /\ s.key = r /\ s.count = c)
           /\ \/ n' = n + 1 /\ top' = p
              \/ UNCHANGED <<stats, n, top>>
  <1>1. CASE InsertRow(source, r, c) /\ n' = n + 1 /\ top' = p
    <2> DEFINE row == [id |-> inserted, source |-> source, key |-> r, count |-> c, at |-> now]
    <2>1. row.source = source /\ row.key = r /\ row.count = c
      OBVIOUS
    <2>2. stats' = stats \cup {row} /\ inserted' = inserted + 1
      BY <1>1 DEF InsertRow
    <2>3. TableStep
      BY <1>1, InsertIsTableStep
    <2> HIDE DEF row
    <2> QED  BY <1>1, <2>1, <2>2, <2>3 DEF Moves
  <1>2. CASE UNCHANGED <<stats, inserted, n, top>>
    <2>1. TableStep
      BY <1>2 DEF ReportShape, TableStep
    <2> QED  BY <1>2, <2>1 DEF Moves
  <1> QED  BY <1>1, <1>2 DEF InsertNative

\* The table's own jobs add no native row.
LEMMA StatsRows ==
    ASSUME ReportShape, StatsNext
    PROVE  Moves /\ \A s \in stats' : s \in stats \/ s.source = "gateway"
  <1>1. ASSUME UNCHANGED <<stats, inserted>>, now' \in {now, now + 1}
        PROVE  Moves /\ \A s \in stats' : s \in stats \/ s.source = "gateway"
    <2>1. now \in Nat
      BY DEF ReportShape
    <2> QED  BY <1>1, <2>1 DEF Moves, TableStep, ReportShape
  <1>2. ASSUME NEW p \in spawned, InsertSample(p)
        PROVE  Moves /\ \A s \in stats' : s \in stats \/ s.source = "gateway"
    <2>0. UNCHANGED now
      BY <1>2 DEF InsertSample, envVars
    <2>1. CASE InsertRow("gateway", p.digest, 1)
      <3>1. TableStep
        BY <2>0, <2>1, InsertIsTableStep
      <3>2. inserted' = inserted + 1 /\ \A s \in stats' : s \in stats \/ s.source = "gateway"
        BY <2>1 DEF InsertRow
      <3> QED  BY <3>1, <3>2 DEF Moves
    <2>2. CASE UNCHANGED <<stats, inserted>>
      BY <1>1, <2>0, <2>2
    <2> QED  BY <1>2, <2>1, <2>2 DEF InsertSample
  <1>3. CASE Rotate
    <2>1. stats' \subseteq stats /\ UNCHANGED <<inserted, now>>
      BY <1>3 DEF Rotate, envVars
    <2> QED  BY <2>1 DEF Moves, TableStep, ReportShape
  <1>4. CASE (\E q \in Statement : RecordQuery(q)) \/ TickReports \/ GenerateReport \/ Tick
             \/ \E c \in Caller : GenerateStep(c)
    BY <1>1, <1>4 DEF RecordQuery, TickReports, GenerateReport, Tick, GenerateStep, CheckLatest,
       Aggregate, InsertReport, statsVars, envVars
  <1> QED  BY <1>2, <1>3, <1>4 DEF StatsNext

\* A row that is not added is not found.
LEMMA CopiedBefore ==
    ASSUME NEW source, NoRow(source)
    PROVE  /\ \A k : Copied(source, k)' => Copied(source, k)
           /\ OneRow(source) => OneRow(source)'
  BY DEF NoRow, Copied, Copies, OneRow

\* The rows of the counters grow by what is inserted at most.
LEMMA TableSum ==
    ASSUME ReportShape, RowShape, Moves, NEW d, NEW c \in Nat,
           \A s \in stats' : s \in stats \/ ((s.source = "ps" /\ s.key = d) => s.count = c)
    PROVE  /\ SumCounts(Copies("ps", d))' <= SumCounts(Copies("ps", d)) + c
           /\ SumCounts(Copies("ps", d)) \in Nat /\ SumCounts(Copies("ps", d))' \in Nat
  <1> DEFINE S == Copies("ps", d)
             T == {s \in stats' : s.source = "ps" /\ s.key = d}
  <1>0. /\ inserted \in Nat
        /\ \A s \in stats : s.id \in Nat /\ s.id < inserted
        /\ \A s, u \in stats : s.id = u.id => s = u
    BY DEF ReportShape
  <1>1. /\ \A s \in S : s \in stats /\ s.count \in Nat
        /\ \A s \in stats : (s.source = "ps" /\ s.key = d) => s \in S
    BY DEF RowShape, Copies
  <1>2. \A t \in T : t \in S \/ (t.id = inserted /\ inserted' = inserted + 1 /\ t.count = c)
    BY <1>1 DEF Moves, TableStep
  <1>3. SumCounts(Copies("ps", d)) = SumBelow(S, inserted)
        /\ SumCounts(Copies("ps", d))' = SumBelow(T, inserted')
    BY DEF SumCounts, Copies
  <1> HIDE DEF S, T
  <1>4. CountsNat(S) /\ CountsNat(T)
    <2>1. \A t \in T : t.count \in Nat
      BY <1>1, <1>2
    <2>2. ASSUME NEW U, \A t \in U : t.count \in Nat PROVE CountsNat(U)
      <3>1. ASSUME NEW i \in Nat PROVE CountAt(U, i) \in Nat
        BY <2>2 DEF CountAt
      <3> QED  BY <3>1 DEF CountsNat
    <2> QED  BY <1>1, <2>1, <2>2
  <1>5. ASSUME NEW i \in 0..(inserted - 1) PROVE CountAt(T, i) <= CountAt(S, i)
    <2>1. CASE \E t \in T : t.id = i
      <3>1. PICK t \in T : t.id = i
        BY <2>1
      <3>2. t \in S
        BY <1>0, <1>2, <3>1
      <3>3. \A u \in T : u.id = i => u = t
        BY <1>0, <1>1, <1>2, <3>1, <3>2
      <3>4. \A u \in S : u.id = i => u = t
        BY <1>0, <1>1, <3>1, <3>2
      <3>5. (CHOOSE u \in T : u.id = i) = t /\ (CHOOSE u \in S : u.id = i) = t
        BY <3>1, <3>2, <3>3, <3>4
      <3>6. CountAt(T, i) = t.count /\ CountAt(S, i) = t.count /\ t.count \in Nat
        BY <1>1, <3>1, <3>2, <3>5 DEF CountAt
      <3> QED  BY <3>6
    <2>2. CASE ~ \E t \in T : t.id = i
      <3>1. CountAt(T, i) = 0
        BY <2>2 DEF CountAt
      <3>2. CountAt(S, i) \in Nat
        <4>1. i \in Nat
          BY <1>0
        <4> QED  BY <1>4, <4>1 DEF CountsNat
      <3> QED  BY <3>1, <3>2
    <2> QED  BY <2>1, <2>2
  <1>6. SumBelow(T, inserted) <= SumBelow(S, inserted)
    BY <1>0, <1>4, <1>5, SumBelowLess
  <1>7. /\ SumBelow(S, inserted) \in Nat /\ SumBelow(T, inserted) \in Nat
        /\ SumBelow(T, inserted + 1) = SumBelow(T, inserted) + CountAt(T, inserted)
    BY <1>0, <1>4, SumBelowNext
  <1>8. CountAt(T, inserted) \in {0, c}
    <2>1. CASE \E t \in T : t.id = inserted
      <3>1. PICK t \in T : t.id = inserted /\ t = CHOOSE u \in T : u.id = inserted
        BY <2>1
      <3>2. t \notin S
        BY <1>0, <1>1, <3>1
      <3>3. t.count = c
        BY <1>2, <3>2
      <3> QED  BY <3>1, <3>3 DEF CountAt
    <2>2. CASE ~ \E t \in T : t.id = inserted
      BY <2>2 DEF CountAt
    <2> QED  BY <2>1, <2>2
  <1>9. inserted' \in {inserted, inserted + 1}
    BY DEF Moves
  <1> QED  BY <1>3, <1>6, <1>7, <1>8, <1>9

\* So does what the table counts, unless a logged event is found that was not.
LEMMA CountedGrows ==
    ASSUME ReportShape, RowShape, Moves, MysqlShape, NEW d \in Digest, NEW c \in Nat,
           \A s \in stats' : s \in stats \/ ((s.source = "ps" /\ s.key = d) => s.count = c),
           FoundOf(d)' \subseteq FoundOf(d)
    PROVE  Counted(d)' <= Counted(d) + c /\ Counted(d) \in Nat /\ Counted(d)' \in Nat
  <1>1. IsFiniteSet(LoggedOf(d)) /\ FoundOf(d) \subseteq LoggedOf(d)
    BY DEF MysqlShape, FoundOf, LoggedOf
  <1>2. IsFiniteSet(FoundOf(d))
    BY <1>1, FS_Subset
  <1>3. PICK F, G : F = FoundOf(d) /\ G = FoundOf(d)'
    OBVIOUS
  <1>4. /\ Cardinality(F) \in Nat /\ Cardinality(G) \in Nat
        /\ Cardinality(G) <= Cardinality(F)
    <2>1. IsFiniteSet(F) /\ G \in SUBSET F
      BY <1>2, <1>3
    <2>2. IsFiniteSet(G) /\ Cardinality(G) <= Cardinality(F)
      BY <2>1, FS_Subset
    <2> QED  BY <2>1, <2>2, FS_CardinalityType
  <1>5. PICK a, b : a = SumCounts(Copies("ps", d)) /\ b = SumCounts(Copies("ps", d))'
    OBVIOUS
  <1>6. a \in Nat /\ b \in Nat /\ b <= a + c
    BY <1>5, TableSum
  <1>7. Counted(d) = a + Cardinality(F) /\ Counted(d)' = b + Cardinality(G)
    BY <1>3, <1>5 DEF Counted
  <1> QED  BY <1>4, <1>6, <1>7

\* Without new rows of the slow log, and without new entries, nothing is newly found.
LEMMA FoundBefore ==
    ASSUME NoRow("slow"), UNCHANGED slowLog, NEW d
    PROVE  FoundOf(d)' \subseteq FoundOf(d)
  BY DEF NoRow, FoundOf, Copies

----------------------------------------------------------------------------
(* Counted once: Redis *)

\* The entries are records of numbers.
LEMMA EntryTypes ==
    ASSUME CollectorShape
    PROVE  /\ Len(ring) \in Nat /\ \A i \in 1..Len(ring) : ring[i].id \in Nat /\ ring[i].ev \in Nat
           /\ InRedis => /\ Len(batch) \in Nat
                         /\ \A j \in 1..Len(batch) : batch[j].id \in Nat /\ batch[j].ev \in Nat
  <1>1. ASSUME NEW s \in Seq(Entry)
        PROVE  Len(s) \in Nat /\ \A i \in 1..Len(s) : s[i].id \in Nat /\ s[i].ev \in Nat
    <2>1. ASSUME NEW i \in 1..Len(s) PROVE s[i].id \in Nat /\ s[i].ev \in Nat
      <3>1. s[i] \in Entry
        OBVIOUS
      <3> QED  BY <3>1 DEF Entry
    <2> QED  BY <2>1
  <1> QED  BY <1>1 DEF CollectorShape

\* A step that has nothing to do with what Redis logs and what is copied of it.
RedisQuiet ==
    /\ NoRow("redis") /\ execs <= execs' /\ ring' \in {ring, <<>>} /\ cursor'.redis = cursor.redis
    /\ InRedis' => UNCHANGED <<cpc, batch, last, top, n>>
    /\ ~torn' => ~torn /\ ((cpc = "redis_insert" /\ n > 0) => UNCHANGED <<cpc, top, n>>)

LEMMA RedisQuietKept ==
    ASSUME CollectorShape, CollectorShape', RedisPart, RedisQuiet
    PROVE  RedisPart'
  <1>0. execs \in Nat /\ execs' \in Nat /\ execs <= execs' /\ RedisEvents
    BY DEF CollectorShape, RedisQuiet, RedisPart
  <1>1. InRedis' => InRedis /\ UNCHANGED <<cpc, batch, last, top, n>>
    BY DEF RedisQuiet, InRedis
  <1>2. \A i \in 1..Len(ring') : i \in 1..Len(ring) /\ ring'[i] = ring[i]
    BY EntryTypes DEF RedisQuiet
  <1>3. RedisEvents'
    <2>1. \A i \in 1..Len(ring') : ring'[i].ev <= execs'
      <3>1. ASSUME NEW i \in 1..Len(ring') PROVE ring'[i].ev <= execs'
        <4>1. ring[i].ev \in Nat /\ ring[i].ev <= execs
          BY <1>0, <1>2, EntryTypes DEF RedisEvents
        <4> QED  BY <1>0, <1>2, <4>1
      <3> QED  BY <3>1
    <2>2. \A i, j \in 1..Len(ring') : ring'[i].ev = ring'[j].ev => ring'[i].ev = 0 \/ i = j
      BY <1>0, <1>2 DEF RedisEvents
    <2>3. ASSUME InRedis'
          PROVE  /\ \A j \in 1..Len(batch') : batch'[j].ev <= execs'
                 /\ \A j, k \in 1..Len(batch') : batch'[j].ev = batch'[k].ev => batch'[j].ev = 0 \/ j = k
                 /\ \A i \in 1..Len(ring'), j \in 1..Len(batch') :
                       ring'[i].ev = batch'[j].ev => ring'[i].ev = 0 \/ ring'[i].id = batch'[j].id
      <3>0. InRedis /\ batch' = batch
        BY <1>1, <2>3
      <3>1. ASSUME NEW j \in 1..Len(batch) PROVE batch[j].ev <= execs'
        <4>1. batch[j].ev \in Nat /\ batch[j].ev <= execs
          BY <1>0, <3>0, EntryTypes DEF RedisEvents
        <4> QED  BY <1>0, <4>1
      <3> QED  BY <1>0, <1>2, <3>0, <3>1 DEF RedisEvents
    <2> QED  BY <2>1, <2>2, <2>3 DEF RedisEvents
  <1>4. ASSUME ~torn' PROVE RedisOnce'
    <2>0. RedisOnce /\ ((cpc = "redis_insert" /\ n > 0) => UNCHANGED <<cpc, top, n>>)
      BY <1>4 DEF RedisQuiet, RedisPart
    <2>1. \A k : Copied("redis", k)' => Copied("redis", k)
      BY CopiedBefore DEF RedisQuiet
    <2>2. OneRow("redis")'
      BY <2>0, CopiedBefore DEF RedisQuiet, RedisOnce
    <2>c. cursor'.redis = cursor.redis
      BY DEF RedisQuiet
    <2>3. ASSUME NEW i \in 1..Len(ring'), Copied("redis", ring[i].ev)'
          PROVE  \/ ring'[i].id <= cursor'.redis
                 \/ cpc' = "redis_insert" /\ n' > 0 /\ ring'[i].id <= top'
      <3>1. PICK k : k = ring'[i].ev
        OBVIOUS
      <3>2. Copied("redis", k)
        BY <2>1, <2>3, <3>1
      <3>3. i \in 1..Len(ring) /\ ring'[i] = ring[i]
        BY <1>2
      <3> QED  BY <2>0, <2>c, <3>1, <3>2, <3>3 DEF RedisOnce
    <2>4. ASSUME InRedis', NEW j \in 1..Len(batch'), Copied("redis", batch[j].ev)'
          PROVE  batch'[j].id <= cursor'.redis
      <3>1. PICK k : k = batch'[j].ev
        OBVIOUS
      <3>2. Copied("redis", k)
        BY <2>1, <2>4, <3>1
      <3> QED  BY <1>1, <2>0, <2>4, <2>c, <3>1, <3>2 DEF RedisOnce
    <2>5. cpc' = "redis_insert" => last' = cursor'.redis /\ (n' > 0 => top' > last')
      BY <1>1, <2>0, <2>c DEF RedisOnce, InRedis
    <2> QED  BY <2>2, <2>3, <2>4, <2>5 DEF RedisOnce
  <1> QED  BY <1>3, <1>4 DEF RedisPart

\* Redis logs an entry: a new event, or the collector's own command.
LEMMA RedisAppendKept ==
    ASSUME CollectorShape, CollectorShape', RowShape, OwnSkipped, RedisPart,
           NEW v \in {0, execs + 1}, execs' = execs + 1,
           ring' = Append(ring, [id |-> nextId, ev |-> v]), UNCHANGED <<stats, cursor, torn>>,
           UNCHANGED <<cpc, batch, last, top, n>>
    PROVE  RedisPart'
  <1>0. execs \in Nat /\ execs' = execs + 1 /\ RedisEvents /\ ring \in Seq(Entry)
    BY DEF CollectorShape, RedisPart
  <1>e. PICK e : e = [id |-> nextId, ev |-> v] /\ e.id = nextId /\ e.ev = v
    OBVIOUS
  <1>1. /\ Len(ring') = Len(ring) + 1 /\ ring'[Len(ring) + 1] = e
        /\ \A i \in 1..Len(ring) : ring'[i] = ring[i]
        /\ \A i \in 1..Len(ring') : i \in 1..Len(ring) \/ i = Len(ring) + 1
    BY <1>0, <1>e
  <1>t. /\ \A i \in 1..Len(ring) : ring[i].ev \in Nat /\ ring[i].ev <= execs
        /\ InRedis => \A j \in 1..Len(batch) : batch[j].ev \in Nat /\ batch[j].ev <= execs
    BY <1>0, EntryTypes DEF RedisEvents
  <1>u. InRedis' <=> InRedis
    BY DEF InRedis
  <1>2. ~Copied("redis", v)
    <2>1. CASE v = 0
      BY <2>1 DEF OwnSkipped, Copied
    <2>2. CASE v = execs + 1
      BY <1>0, <2>2 DEF RowShape, Copied, Copies
    <2> QED  BY <2>1, <2>2
  <1>3. RedisEvents'
    <2>1. \A i \in 1..Len(ring') : ring'[i].ev <= execs'
      BY <1>0, <1>1, <1>e, <1>t
    <2>2. \A i, j \in 1..Len(ring') : ring'[i].ev = ring'[j].ev => ring'[i].ev = 0 \/ i = j
      <3>1. \A i \in 1..Len(ring) : ring[i].ev = v => v = 0
        BY <1>0, <1>t
      <3> QED  BY <1>0, <1>1, <1>e, <3>1 DEF RedisEvents
    <2>3. ASSUME InRedis
          PROVE  /\ \A j \in 1..Len(batch) : batch[j].ev <= execs'
                 /\ \A j, k \in 1..Len(batch) : batch[j].ev = batch[k].ev => batch[j].ev = 0 \/ j = k
                 /\ \A i \in 1..Len(ring'), j \in 1..Len(batch) :
                       ring'[i].ev = batch[j].ev => ring'[i].ev = 0 \/ ring'[i].id = batch[j].id
      <3>1. \A j \in 1..Len(batch) : batch[j].ev = v => v = 0
        BY <1>0, <1>t, <2>3
      <3>2. \A j \in 1..Len(batch) : batch[j].ev <= execs'
        BY <1>0, <1>t, <2>3
      <3>3. \A i \in 1..Len(ring'), j \in 1..Len(batch) :
               ring'[i].ev = batch[j].ev => ring'[i].ev = 0 \/ ring'[i].id = batch[j].id
        <4> SUFFICES ASSUME NEW i \in 1..Len(ring'), NEW j \in 1..Len(batch),
                            ring'[i].ev = batch[j].ev
                     PROVE  ring'[i].ev = 0 \/ ring'[i].id = batch[j].id
          OBVIOUS
        <4>1. CASE i \in 1..Len(ring)
          BY <1>0, <1>1, <2>3, <4>1 DEF RedisEvents
        <4>2. CASE i = Len(ring) + 1
          BY <1>1, <1>e, <3>1, <4>2
        <4> QED  BY <1>1, <4>1, <4>2
      <3> QED  BY <1>0, <2>3, <3>2, <3>3 DEF RedisEvents
    <2> QED  BY <1>u, <2>1, <2>2, <2>3 DEF RedisEvents
  <1>4. ASSUME ~torn' PROVE RedisOnce'
    <2>0. RedisOnce
      BY <1>4 DEF RedisPart
    <2>1. \A k : Copied("redis", k)' <=> Copied("redis", k)
      BY DEF Copied, Copies
    <2>2. ASSUME NEW i \in 1..Len(ring'), Copied("redis", ring'[i].ev)
          PROVE  ring'[i].id <= cursor.redis \/ (cpc = "redis_insert" /\ n > 0 /\ ring'[i].id <= top)
      <3>1. i # Len(ring) + 1
        BY <1>1, <1>2, <1>e, <2>2
      <3> QED  BY <1>1, <2>0, <2>2, <3>1 DEF RedisOnce
    <2>3. \A i \in 1..Len(ring') : Copied("redis", ring[i].ev)' <=> Copied("redis", ring'[i].ev)
      BY DEF Copied, Copies
    <2>4. \A j \in 1..Len(batch) : Copied("redis", batch[j].ev)' <=> Copied("redis", batch[j].ev)
      BY DEF Copied, Copies
    <2>5. OneRow("redis")'
      BY <2>0 DEF RedisOnce, OneRow
    <2> QED  BY <1>u, <2>0, <2>2, <2>3, <2>4, <2>5 DEF RedisOnce
  <1> QED  BY <1>3, <1>4 DEF RedisPart

\* SLOWLOG GET: the batch is taken from the log when every copy is behind the cursor.
LEMMA FetchRedisOnce ==
    ASSUME CollectorShape, CollectorShape', RowShape, OwnSkipped, RedisPart, FetchSlowlog,
           cpc' = "redis_cursor",
           batch' = Reverse(SubSeq(ring, 1 + Before(Len(ring), Batch), Len(ring)))
    PROVE  RedisPart'
  <1>0. /\ cpc = "redis" /\ UNCHANGED <<stats, cursor, torn>>
        /\ \/ execs' = execs + 1 /\ ring' = Append(ring, [id |-> nextId, ev |-> 0])
           \/ UNCHANGED <<ring, execs>>
    BY NextConnIn DEF FetchSlowlog, ConnFails, LeaveConn
  <1>s. execs \in Nat /\ ring \in Seq(Entry) /\ Len(ring) \in Nat /\ RedisEvents /\ n = 0
    BY <1>0 DEF CollectorShape, RedisPart, RowShape
  <1>d. PICK e : e = [id |-> nextId, ev |-> 0]
    OBVIOUS
  <1>e. e = [id |-> nextId, ev |-> 0] /\ e.ev = 0
    BY <1>d
  <1>1. /\ Len(ring') \in Nat
        /\ \A i \in 1..Len(ring) : ring'[i] = ring[i]
        /\ \A i \in 1..Len(ring') : i \in 1..Len(ring) \/ ring'[i].ev = 0
    <2>1. CASE ring' = Append(ring, e)
      BY <1>e, <1>s, <2>1
    <2>2. CASE ring' = ring
      BY <1>s, <2>2
    <2> QED  BY <1>0, <1>e, <2>1, <2>2
  <1>2. /\ Len(batch') \in Nat
        /\ \A k \in 1..Len(batch') : /\ Len(ring) - k + 1 \in 1..Len(ring)
                                     /\ batch'[k] = ring[Len(ring) - k + 1]
    <2>1. Before(Len(ring), Batch) \in 0..Len(ring)
      BY <1>s, CollectorAssumption DEF Before
    <2>2. /\ Len(batch') = Len(ring) - Before(Len(ring), Batch)
          /\ \A k \in 1..Len(batch') : batch'[k] = ring[Len(ring) - k + 1]
      BY <1>s, <2>1, NewestFirst
    <2> QED  BY <1>s, <2>1, <2>2
  <1>3. RedisEvents'
    <2>t. \A i \in 1..Len(ring) : ring[i].ev \in Nat /\ ring[i].ev <= execs'
      <3>1. \A i \in 1..Len(ring) : ring[i].ev \in Nat /\ ring[i].ev <= execs
        BY <1>s, EntryTypes DEF RedisEvents
      <3> QED  BY <1>0, <1>s, <3>1
    <2>x. execs' \in Nat
      BY DEF CollectorShape
    <2>1. \A i \in 1..Len(ring') : ring'[i].ev <= execs'
      BY <1>1, <2>t, <2>x
    <2>2. \A i, j \in 1..Len(ring') : ring'[i].ev = ring'[j].ev => ring'[i].ev = 0 \/ i = j
      BY <1>1, <1>s DEF RedisEvents
    <2>3. \A j \in 1..Len(batch') : batch'[j].ev <= execs'
      BY <1>2, <2>t
    <2>4. ASSUME NEW j \in 1..Len(batch'), NEW k \in 1..Len(batch'), batch'[j].ev = batch'[k].ev
          PROVE  batch'[j].ev = 0 \/ j = k
      <3>1. batch'[j].ev = 0 \/ Len(ring) - j + 1 = Len(ring) - k + 1
        BY <1>2, <1>s, <2>4 DEF RedisEvents
      <3> QED  BY <1>2, <1>s, <3>1
    <2>5. ASSUME NEW i \in 1..Len(ring'), NEW j \in 1..Len(batch'), ring'[i].ev = batch'[j].ev
          PROVE  ring'[i].ev = 0 \/ ring'[i].id = batch'[j].id
      <3>1. CASE ring'[i].ev # 0
        <4>1. i \in 1..Len(ring) /\ ring'[i] = ring[i]
          BY <1>1, <3>1
        <4>2. i = Len(ring) - j + 1
          BY <1>2, <1>s, <2>5, <3>1, <4>1 DEF RedisEvents
        <4> QED  BY <1>2, <4>1, <4>2
      <3> QED  BY <3>1
    <2> QED  BY <2>1, <2>2, <2>3, <2>4, <2>5 DEF RedisEvents
  <1>4. ASSUME ~torn' PROVE RedisOnce'
    <2>0. RedisOnce
      BY <1>0, <1>4 DEF RedisPart
    <2>1. \A k : Copied("redis", k)' <=> Copied("redis", k)
      BY <1>0 DEF Copied, Copies
    <2>2. \A i \in 1..Len(ring) : Copied("redis", ring[i].ev) => ring[i].id <= cursor.redis
      BY <1>0, <2>0 DEF RedisOnce
    <2>3. ASSUME NEW i \in 1..Len(ring'), Copied("redis", ring'[i].ev)
          PROVE  ring'[i].id <= cursor.redis
      <3>1. ~Copied("redis", 0)
        BY DEF OwnSkipped, Copied
      <3>2. ring'[i].ev # 0
        BY <2>3, <3>1
      <3> QED  BY <1>1, <2>2, <2>3, <3>2
    <2>4. \A j \in 1..Len(batch') : Copied("redis", batch'[j].ev) => batch'[j].id <= cursor.redis
      BY <1>2, <2>2
    <2>5. /\ \A i \in 1..Len(ring') : Copied("redis", ring[i].ev)' <=> Copied("redis", ring'[i].ev)
          /\ \A j \in 1..Len(batch') : Copied("redis", batch[j].ev)' <=> Copied("redis", batch'[j].ev)
      BY <1>0 DEF Copied, Copies
    <2>6. OneRow("redis")'
      BY <1>0, <2>0 DEF RedisOnce, OneRow
    <2>7. cpc' # "redis_insert"
      OBVIOUS
    <2> QED  BY <1>0, <2>3, <2>4, <2>5, <2>6, <2>7 DEF RedisOnce
  <1> QED  BY <1>3, <1>4 DEF RedisPart

\* The cursor is read, or the round is torn.
LEMMA ReadRedisOnce ==
    ASSUME CollectorShape, RowShape, RedisPart, ReadRedisCursor
    PROVE  RedisPart'
  <1>0. /\ UNCHANGED <<stats, ring, execs, cursor, batch, top, n>> /\ cpc = "redis_cursor"
        /\ cpc' = "redis_insert" /\ n = 0
        /\ ~torn' => ~torn /\ last' = cursor.redis
    <2>1. /\ cpc = "redis_cursor" /\ cpc' = "redis_insert"
          /\ UNCHANGED <<stats, ring, execs, cursor, batch, top, n>>
          /\ CursorGet(last', cursor.redis, NoCursor)
      BY DEF ReadRedisCursor, statsVars, sourceVars
    <2>2. n = 0
      BY <2>1 DEF RowShape
    <2>3. ~torn' => ~torn /\ last' = cursor.redis
      BY <2>1 DEF CursorGet
    <2> QED  BY <2>1, <2>2, <2>3
  <1>1. InRedis /\ InRedis'
    BY <1>0 DEF InRedis
  <1>2. RedisEvents'
    BY <1>0, <1>1 DEF RedisPart, RedisEvents
  <1>3. ASSUME ~torn' PROVE RedisOnce'
    <2>0. RedisOnce /\ last' = cursor.redis
      BY <1>0, <1>3 DEF RedisPart
    <2> QED  BY <1>0, <1>1, <2>0 DEF RedisOnce, OneRow, Copied, Copies
  <1> QED  BY <1>2, <1>3 DEF RedisPart

\* The loop body: an entry above the cursor has no copy yet.
LEMMA InsertRedisOnce ==
    ASSUME CollectorShape, CollectorShape', OwnSkipped, RedisPart, InsertEntry
    PROVE  RedisPart'
  <1>a. PICK e : e = Head(batch)
    OBVIOUS
  <1>0. /\ UNCHANGED <<ring, execs, cursor, cpc, last, torn, now>>
        /\ cpc = "redis_insert" /\ batch # <<>> /\ batch' = Tail(batch)
        /\ \/ SkipsEntry(e) /\ UNCHANGED <<stats, n, top>>
           \/ ~SkipsEntry(e) /\ InsertNative("redis", e.ev, 1, Max({top, e.id}))
    BY <1>a DEF InsertEntry, statsVars, sourceVars, tableVars, envVars
  <1>b. InRedis /\ InRedis'
    BY <1>0 DEF InRedis
  <1>s. /\ batch \in Seq(Entry) /\ e \in Entry /\ e = batch[1] /\ Len(batch) \in Nat \ {0}
        /\ Len(batch') = Len(batch) - 1 /\ 1 \in 1..Len(batch)
        /\ \A k \in 1..Len(batch') : batch'[k] = batch[k + 1] /\ k + 1 \in 1..Len(batch)
    BY <1>0, <1>a, <1>b DEF CollectorShape
  <1>t. e.id \in Nat /\ e.ev \in Nat /\ top \in Nat /\ last \in Nat /\ n \in Nat
    BY <1>s DEF CollectorShape, Entry
  <1>m. Max({top, e.id}) \in Nat /\ Max({top, e.id}) >= top /\ Max({top, e.id}) >= e.id
    <2>1. \E x \in {top, e.id} : \A y \in {top, e.id} : x >= y
      BY <1>t
    <2>2. /\ Max({top, e.id}) \in {top, e.id}
          /\ \A y \in {top, e.id} : Max({top, e.id}) >= y
      BY <2>1 DEF Max
    <2> QED  BY <1>t, <2>2
  <1>1. RedisEvents'
    <2>0. RedisEvents
      BY DEF RedisPart
    <2>1. ASSUME NEW j \in 1..Len(batch'), NEW k \in 1..Len(batch'), batch'[j].ev = batch'[k].ev
          PROVE  batch'[j].ev = 0 \/ j = k
      <3>1. batch'[j].ev = 0 \/ j + 1 = k + 1
        BY <1>b, <1>s, <2>0, <2>1 DEF RedisEvents
      <3> QED  BY <1>s, <3>1
    <2>2. \A j \in 1..Len(batch') : batch'[j].ev <= execs
      BY <1>b, <1>s, <2>0 DEF RedisEvents
    <2>3. \A i \in 1..Len(ring), j \in 1..Len(batch') :
             ring[i].ev = batch'[j].ev => ring[i].ev = 0 \/ ring[i].id = batch'[j].id
      BY <1>b, <1>s, <2>0 DEF RedisEvents
    <2> QED  BY <1>0, <2>0, <2>1, <2>2, <2>3 DEF RedisEvents
  <1>2. ASSUME ~torn' PROVE RedisOnce'
    <2>0. RedisOnce /\ RedisEvents
      BY <1>0, <1>2 DEF RedisPart
    <2>l. last = cursor.redis /\ (n > 0 => top > last)
      BY <1>0, <2>0 DEF RedisOnce
    <2>1. ASSUME UNCHANGED <<stats, n, top>> PROVE RedisOnce'
      <3>1. /\ \A i \in 1..Len(ring) : Copied("redis", ring[i].ev)' <=> Copied("redis", ring[i].ev)
            /\ \A j \in 1..Len(batch') : Copied("redis", batch[j].ev)' <=> Copied("redis", batch[j + 1].ev)
        BY <1>0, <1>s, <2>1 DEF Copied, Copies
      <3>2. OneRow("redis")'
        BY <2>0, <2>1 DEF RedisOnce, OneRow
      <3>3. \A j \in 1..Len(batch') : Copied("redis", batch[j].ev)' => batch'[j].id <= cursor.redis
        BY <1>b, <1>s, <2>0, <3>1 DEF RedisOnce
      <3> QED  BY <1>0, <2>0, <2>1, <3>1, <3>2, <3>3 DEF RedisOnce
    <2>2. ASSUME ~SkipsEntry(e), n' = n + 1, top' = Max({top, e.id}),
                 InsertRow("redis", e.ev, 1)
          PROVE  RedisOnce'
      <3>1. e.ev # 0 /\ e.id > last
        BY <1>t, <2>2 DEF SkipsEntry
      <3>2. ~Copied("redis", e.ev)
        <4>1. Copied("redis", e.ev) => e.id <= cursor.redis
          BY <1>b, <1>s, <2>0 DEF RedisOnce
        <4> QED  BY <1>t, <2>l, <3>1, <4>1
      <3>r. PICK row : /\ stats' = stats \cup {row} /\ row.source = "redis" /\ row.key = e.ev
        <4> DEFINE r == [id |-> inserted, source |-> "redis", key |-> e.ev, count |-> 1, at |-> now]
        <4>1. stats' = stats \cup {r} /\ r.source = "redis" /\ r.key = e.ev
          BY <2>2 DEF InsertRow
        <4> HIDE DEF r
        <4> QED  BY <4>1
      <3>3. \A k : Copied("redis", k)' => Copied("redis", k) \/ k = e.ev
        BY <3>r DEF Copied, Copies
      <3>4. OneRow("redis")'
        <4>1. \A s \in stats : ~ (s.source = "redis" /\ s.key = e.ev)
          BY <3>2 DEF Copied, Copies
        <4> QED  BY <2>0, <3>r, <4>1 DEF RedisOnce, OneRow
      <3>n. n' > 0 /\ top' \in Nat /\ top' >= top /\ top' >= e.id /\ top' > last
        BY <1>m, <1>t, <2>2, <3>1
      <3>5. ASSUME NEW i \in 1..Len(ring), Copied("redis", ring[i].ev)'
            PROVE  ring[i].id <= cursor.redis \/ ring[i].id <= top'
        <4>t. ring[i].id \in Nat /\ cursor.redis \in Nat
          BY EntryTypes DEF CollectorShape
        <4>1. PICK k : k = ring[i].ev
          OBVIOUS
        <4>2. Copied("redis", k) \/ k = e.ev
          BY <1>0, <3>3, <3>5, <4>1
        <4>3. CASE Copied("redis", k)
          <5>1. ring[i].id <= cursor.redis \/ ring[i].id <= top
            BY <2>0, <4>1, <4>3 DEF RedisOnce
          <5> QED  BY <1>t, <3>n, <4>t, <5>1
        <4>4. CASE k = e.ev
          <5>0. ring[i].ev = batch[1].ev => ring[i].ev = 0 \/ ring[i].id = batch[1].id
            BY <1>b, <1>s, <2>0 DEF RedisEvents
          <5>1. ring[i].id = e.id
            BY <1>s, <3>1, <4>1, <4>4, <5>0
          <5> QED  BY <1>t, <3>n, <5>1
        <4> QED  BY <4>2, <4>3, <4>4
      <3>6. ASSUME NEW j \in 1..Len(batch'), Copied("redis", batch[j].ev)'
            PROVE  batch'[j].id <= cursor.redis
        <4>1. PICK k : k = batch'[j].ev
          OBVIOUS
        <4>2. Copied("redis", k) \/ k = e.ev
          BY <3>3, <3>6, <4>1
        <4>3. k # e.ev
          <5>1. k = e.ev => j + 1 = 1
            BY <1>b, <1>s, <2>0, <3>1, <4>1 DEF RedisEvents
          <5> QED  BY <1>s, <5>1
        <4> QED  BY <1>b, <1>s, <2>0, <4>1, <4>2, <4>3 DEF RedisOnce
      <3> QED  BY <1>0, <2>l, <3>4, <3>5, <3>6, <3>n DEF RedisOnce
    <2> QED  BY <1>0, <2>1, <2>2 DEF InsertNative
  <1> QED  BY <1>1, <1>2 DEF RedisPart

\* The largest id is stored; if that fails after rows, the round is torn.
LEMMA PutRedisOnce ==
    ASSUME CollectorShape, RedisPart, PutRedisCursor
    PROVE  RedisPart'
  <1>0. /\ UNCHANGED <<stats, ring, execs>> /\ LeaveConn("redis") /\ cpc = "redis_insert"
        /\ \/ top > last /\ CursorPut("redis", top)
           \/ top <= last /\ UNCHANGED <<cursor, torn>>
    BY DEF PutRedisCursor, statsVars, sourceVars
  <1>1. ~InRedis' /\ cpc' # "redis_insert"
    BY <1>0, NextConnIn DEF LeaveConn, InRedis
  <1>2. RedisEvents'
    BY <1>0, <1>1 DEF RedisPart, RedisEvents
  <1>3. ASSUME ~torn' PROVE RedisOnce'
    <2>t. last \in Nat /\ top \in Nat /\ n \in Nat /\ cursor.redis \in Nat
      BY DEF CollectorShape
    <2>a. ~torn
      BY <1>0, <1>3 DEF CursorPut
    <2>0. RedisOnce /\ last = cursor.redis /\ (n > 0 => top > last)
      BY <1>0, <2>a DEF RedisPart, RedisOnce
    <2>1. \/ cursor'.redis = top /\ top > last
          \/ cursor'.redis = cursor.redis /\ ~ (n > 0)
      <3>1. CASE top > last /\ CursorPut("redis", top)
        <4>1. CASE cursor' = [cursor EXCEPT !["redis"] = top]
          BY <3>1, <4>1 DEF CollectorShape
        <4>2. CASE UNCHANGED cursor /\ torn' = (torn \/ n > 0)
          BY <1>3, <4>2
        <4> QED  BY <3>1, <4>1, <4>2 DEF CursorPut
      <3>2. CASE top <= last /\ UNCHANGED <<cursor, torn>>
        BY <2>0, <2>t, <3>2
      <3> QED  BY <1>0, <3>1, <3>2
    <2>2. ASSUME NEW i \in 1..Len(ring), Copied("redis", ring[i].ev)
          PROVE  ring[i].id <= cursor'.redis
      <3>1. ring[i].id \in Nat
        BY EntryTypes
      <3>2. ring[i].id <= cursor.redis \/ (n > 0 /\ ring[i].id <= top)
        BY <2>0, <2>2 DEF RedisOnce
      <3> QED  BY <2>0, <2>1, <2>t, <3>1, <3>2
    <2>3. OneRow("redis")' /\ \A k : Copied("redis", k)' <=> Copied("redis", k)
      BY <1>0, <2>0 DEF RedisOnce, OneRow, Copied, Copies
    <2>4. \A i \in 1..Len(ring) : Copied("redis", ring[i].ev)' <=> Copied("redis", ring[i].ev)
      BY <1>0 DEF Copied, Copies
    <2> QED  BY <1>0, <1>1, <2>2, <2>3, <2>4 DEF RedisOnce
  <1> QED  BY <1>2, <1>3 DEF RedisPart

----------------------------------------------------------------------------
(* Counted once: the slow log *)

LEMMA LogTypes ==
    ASSUME CollectorShape
    PROVE  /\ slowLog \in Seq([ev : Nat, digest : Digest]) /\ Len(slowLog) \in Nat
           /\ \A i \in 1..Len(slowLog) : slowLog[i].ev \in Nat /\ slowLog[i].digest \in Digest
  <1> DEFINE R == [ev : Nat, digest : Digest]
  <1>1. slowLog \in Seq(R)
    BY DEF CollectorShape
  <1>2. \A r \in R : r.ev \in Nat /\ r.digest \in Digest
    OBVIOUS
  <1> HIDE DEF R
  <1>3. \A i \in 1..Len(slowLog) : slowLog[i] \in R
    BY <1>1
  <1>4. Len(slowLog) \in Nat
    BY <1>1
  <1> QED  BY <1>1, <1>2, <1>3, <1>4 DEF R

\* A step that has nothing to do with the slow log and what is copied of it.
SlowQuiet ==
    /\ NoRow("slow") /\ execs <= execs' /\ UNCHANGED slowLog /\ cursor'.slow = cursor.slow
    /\ cpc' \in {"slow_rows", "slow_insert"} => UNCHANGED <<cpc, batch, last, top, n>>
    /\ ~torn' => ~torn /\ ((cpc = "slow_insert" /\ n > 0) => UNCHANGED <<cpc, top, n>>)

LEMMA SlowQuietKept ==
    ASSUME CollectorShape, CollectorShape', SlowPart, SlowQuiet
    PROVE  SlowPart'
  <1>0. execs \in Nat /\ execs' \in Nat /\ execs <= execs' /\ SlowEvents /\ UNCHANGED slowLog
    BY DEF CollectorShape, SlowQuiet, SlowPart
  <1>1. SlowEvents'
    <2>1. ASSUME NEW i \in 1..Len(slowLog) PROVE slowLog[i].ev <= execs'
      <3>1. slowLog[i].ev \in Nat /\ slowLog[i].ev <= execs
        BY <1>0, LogTypes DEF SlowEvents
      <3> QED  BY <1>0, <3>1
    <2> QED  BY <1>0, <2>1 DEF SlowEvents
  <1>2. ASSUME ~torn' PROVE SlowOnce'
    <2>0. SlowOnce /\ ((cpc = "slow_insert" /\ n > 0) => UNCHANGED <<cpc, top, n>>)
      BY <1>2 DEF SlowQuiet, SlowPart
    <2>c. /\ cursor'.slow = cursor.slow
          /\ cpc' \in {"slow_rows", "slow_insert"} => UNCHANGED <<cpc, batch, last, top, n>>
      BY DEF SlowQuiet
    <2>1. OneRow("slow")' /\ \A k : Copied("slow", k)' => Copied("slow", k)
      BY <2>0, CopiedBefore DEF SlowQuiet, SlowOnce
    <2>2. ASSUME NEW i \in 1..Len(slowLog), Copied("slow", slowLog[i].ev)'
          PROVE  i <= cursor'.slow \/ (cpc' = "slow_insert" /\ n' > 0 /\ i <= top')
      <3>1. PICK k : k = slowLog[i].ev
        OBVIOUS
      <3>2. Copied("slow", k)
        BY <1>0, <2>1, <2>2, <3>1
      <3> QED  BY <2>0, <2>c, <3>1, <3>2 DEF SlowOnce
    <2>3. cpc' = "slow_rows" => last' = cursor'.slow
      BY <2>0, <2>c DEF SlowOnce
    <2>4. cpc' = "slow_insert" => cursor'.slow <= top' /\ \A k \in 1..Len(batch') : batch'[k].pos > top'
      BY <2>0, <2>c DEF SlowOnce
    <2> QED  BY <1>0, <2>1, <2>2, <2>3, <2>4 DEF SlowOnce
  <1> QED  BY <1>1, <1>2 DEF SlowPart

\* MySQL logs a new event.
LEMMA SlowAppendKept ==
    ASSUME CollectorShape, RowShape, SlowPart, NEW d \in Digest, MysqlSlow(d)
    PROVE  SlowPart'
  <1>a. PICK e : e = [ev |-> execs + 1, digest |-> d]
    OBVIOUS
  <1>0. /\ UNCHANGED <<stats, cursor, torn, cpc, batch, last, top, n>> /\ execs' = execs + 1
        /\ slowLog' = slowLog \/ slowLog' = Append(slowLog, e)
    BY <1>a DEF MysqlSlow, qsVars, statsVars, roundVars
  <1>s. execs \in Nat /\ SlowEvents /\ e.ev = execs + 1 /\ slowLog \in Seq([ev : Nat, digest : Digest])
    BY <1>a DEF CollectorShape, SlowPart
  <1>1. /\ \A i \in 1..Len(slowLog) : i \in 1..Len(slowLog') /\ slowLog'[i] = slowLog[i]
        /\ \A i \in 1..Len(slowLog') : i \in 1..Len(slowLog) \/ (i = Len(slowLog) + 1 /\ slowLog'[i] = e)
    <2>1. CASE slowLog' = slowLog
      BY <2>1
    <2>2. CASE slowLog' = Append(slowLog, e)
      BY <1>s, <2>2
    <2> QED  BY <1>0, <2>1, <2>2
  <1>t. \A i \in 1..Len(slowLog) : slowLog[i].ev \in Nat /\ slowLog[i].ev <= execs
    BY <1>s, LogTypes DEF SlowEvents
  <1>2. SlowEvents'
    <2>1. \A i \in 1..Len(slowLog') : slowLog'[i].ev <= execs'
      BY <1>0, <1>1, <1>s, <1>t
    <2>2. ASSUME NEW i \in 1..Len(slowLog'), NEW j \in 1..Len(slowLog'), slowLog'[i].ev = slowLog'[j].ev
          PROVE  i = j
      <3>1. CASE i \in 1..Len(slowLog) /\ j \in 1..Len(slowLog)
        BY <1>1, <1>s, <2>2, <3>1 DEF SlowEvents
      <3>2. \A k \in 1..Len(slowLog) : slowLog[k].ev # execs + 1
        BY <1>s, <1>t
      <3> QED  BY <1>1, <1>s, <2>2, <3>1, <3>2
    <2> QED  BY <2>1, <2>2 DEF SlowEvents
  <1>3. ASSUME ~torn' PROVE SlowOnce'
    <2>0. SlowOnce
      BY <1>0, <1>3 DEF SlowPart
    <2>1. ~Copied("slow", execs + 1)
      BY <1>s DEF RowShape, Copied, Copies
    <2>2. \A i \in 1..Len(slowLog') : Copied("slow", slowLog[i].ev)' <=> Copied("slow", slowLog'[i].ev)
      BY <1>0 DEF Copied, Copies
    <2>3. ASSUME NEW i \in 1..Len(slowLog'), Copied("slow", slowLog'[i].ev)
          PROVE  i <= cursor.slow \/ (cpc = "slow_insert" /\ n > 0 /\ i <= top)
      <3>1. i \in 1..Len(slowLog) /\ slowLog'[i] = slowLog[i]
        BY <1>1, <1>s, <2>1, <2>3
      <3> QED  BY <2>0, <2>3, <3>1 DEF SlowOnce
    <2>4. OneRow("slow")'
      BY <1>0, <2>0 DEF SlowOnce, OneRow
    <2> QED  BY <1>0, <2>0, <2>2, <2>3, <2>4 DEF SlowOnce
  <1> QED  BY <1>2, <1>3 DEF SlowPart

\* The cursor is read, or the round is torn.
LEMMA ReadSlowOnce ==
    ASSUME RowShape, SlowPart, ReadSlowCursor
    PROVE  SlowPart'
  <1>1. /\ cpc = "slow_cursor" /\ cpc' = "slow_rows"
        /\ UNCHANGED <<stats, slowLog, execs, cursor, batch, top, n>>
        /\ CursorGet(last', cursor.slow, NoCursor)
    BY DEF ReadSlowCursor, statsVars, sourceVars
  <1>2. SlowEvents'
    BY <1>1 DEF SlowPart, SlowEvents
  <1>3. ASSUME ~torn' PROVE SlowOnce'
    <2>1. ~torn /\ last' = cursor.slow
      <3>1. ~torn' => ~torn /\ last' = cursor.slow
        BY <1>1 DEF CursorGet
      <3> QED  BY <1>3, <3>1
    <2>2. SlowOnce
      BY <2>1 DEF SlowPart
    <2> QED  BY <1>1, <2>1, <2>2 DEF SlowOnce, OneRow, Copied, Copies
  <1> QED  BY <1>2, <1>3 DEF SlowPart

\* The batch begins after the cursor.
LEMMA FetchSlowOnce ==
    ASSUME CollectorShape, SlowInv, RowShape, SlowPart, FetchSlowRows, cpc' = "slow_insert"
    PROVE  SlowPart'
  <1>1. PICK from \in last..Len(slowLog) :
           /\ top' = from
           /\ batch' = [i \in 1..(Len(slowLog) - from) |->
                           [pos |-> from + i, ev |-> slowLog[from + i].ev]]
           /\ n' = n
    BY NextConnIn DEF FetchSlowRows, PassedOver, ConnFails, LeaveConn
  <1>2. cpc = "slow_rows" /\ UNCHANGED <<stats, slowLog, execs, cursor, torn>>
    BY DEF FetchSlowRows, sourceVars
  <1>t. last \in Nat /\ cursor.slow \in Nat /\ Len(slowLog) \in Nat /\ n = 0
    BY <1>2, LogTypes DEF CollectorShape, RowShape
  <1>3. SlowEvents'
    BY <1>2 DEF SlowPart, SlowEvents
  <1>4. ASSUME ~torn' PROVE SlowOnce'
    <2>0. SlowOnce /\ last = cursor.slow
      BY <1>2, <1>4 DEF SlowPart, SlowOnce
    <2>1. from \in Nat /\ cursor.slow <= from
      BY <1>t, <2>0 DEF NoCursor
    <2>2. \A k \in 1..Len(batch') : batch'[k].pos > from
      <3> DEFINE N == Len(slowLog) - from
                 f(i) == [pos |-> from + i, ev |-> slowLog[from + i].ev]
      <3>1. batch' = [i \in 1..N |-> f(i)]
        BY <1>1
      <3>2. \A i \in 1..N : f(i).pos = from + i
        OBVIOUS
      <3>3. N \in Int
        BY <1>t, <2>1
      <3>4. N \in Nat
        BY <1>1, <1>t, <2>0, <3>3 DEF NoCursor, SlowInv, SlowCovered
      <3> HIDE DEF f, N
      <3>5. Len(batch') = N /\ \A k \in 1..N : batch'[k] = f(k)
        BY <3>1, <3>4
      <3> QED  BY <2>1, <3>2, <3>4, <3>5
    <2>3. OneRow("slow")' /\ \A i \in 1..Len(slowLog) :
             Copied("slow", slowLog[i].ev)' <=> Copied("slow", slowLog[i].ev)
      BY <1>2, <2>0 DEF SlowOnce, OneRow, Copied, Copies
    <2>4. \A i \in 1..Len(slowLog) : Copied("slow", slowLog[i].ev) => i <= cursor.slow
      BY <1>2, <2>0 DEF SlowOnce
    <2> QED  BY <1>1, <1>2, <2>1, <2>2, <2>3, <2>4 DEF SlowOnce
  <1> QED  BY <1>3, <1>4 DEF SlowPart

\* A row after the cursor has no copy yet.
LEMMA InsertSlowOnce ==
    ASSUME CollectorShape, SlowInv, SlowPart, InsertSlowRow
    PROVE  SlowPart'
  <1>a. PICK e : e = Head(batch)
    OBVIOUS
  <1>0. /\ UNCHANGED <<slowLog, execs, cursor, cpc, last, torn, now>>
        /\ cpc = "slow_insert" /\ batch # <<>> /\ batch' = Tail(batch)
        /\ InsertNative("slow", e.ev, 1, e.pos)
    BY <1>a DEF InsertSlowRow, sourceVars, tableVars, envVars
  <1>s. /\ batch \in Seq(SlowRow) /\ e \in SlowRow /\ e = batch[1] /\ Len(batch) \in Nat \ {0}
        /\ Len(batch') = Len(batch) - 1 /\ 1 \in 1..Len(batch)
        /\ \A k \in 1..Len(batch') : batch'[k] = batch[k + 1] /\ k + 1 \in 1..Len(batch)
    BY <1>0, <1>a DEF CollectorShape
  <1>t. e.pos \in Nat /\ e.ev \in Nat /\ top \in Nat /\ n \in Nat /\ cursor.slow \in Nat
    BY <1>s DEF CollectorShape, SlowRow
  <1>p. /\ \A k \in 1..Len(batch) : batch[k].pos = e.pos + k - 1
        /\ e.pos \in 1..Len(slowLog) /\ e.ev = slowLog[e.pos].ev
    BY <1>0, <1>s DEF SlowInv
  <1>1. SlowEvents /\ SlowEvents'
    BY <1>0 DEF SlowPart, SlowEvents
  <1>2. ASSUME ~torn' PROVE SlowOnce'
    <2>0. SlowOnce /\ cursor.slow <= top /\ \A k \in 1..Len(batch) : batch[k].pos > top
      BY <1>0, <1>2 DEF SlowPart, SlowOnce
    <2>1. ASSUME UNCHANGED <<stats, n, top>> PROVE SlowOnce'
      <3>1. \A k \in 1..Len(batch') : batch'[k].pos > top
        BY <1>s, <2>0
      <3>2. OneRow("slow")' /\ \A i \in 1..Len(slowLog) :
               Copied("slow", slowLog[i].ev)' <=> Copied("slow", slowLog[i].ev)
        BY <1>0, <2>0, <2>1 DEF SlowOnce, OneRow, Copied, Copies
      <3> QED  BY <1>0, <2>0, <2>1, <3>1, <3>2 DEF SlowOnce
    <2>2. ASSUME n' = n + 1, top' = e.pos, InsertRow("slow", e.ev, 1) PROVE SlowOnce'
      <3>1. e.pos > top
        BY <1>s, <2>0
      <3>2. ~Copied("slow", e.ev)
        <4>1. Copied("slow", e.ev) => e.pos <= cursor.slow \/ e.pos <= top
          BY <1>p, <2>0 DEF SlowOnce
        <4> QED  BY <1>t, <2>0, <3>1, <4>1
      <3>r. PICK row : /\ stats' = stats \cup {row} /\ row.source = "slow" /\ row.key = e.ev
        <4> DEFINE r == [id |-> inserted, source |-> "slow", key |-> e.ev, count |-> 1, at |-> now]
        <4>1. stats' = stats \cup {r} /\ r.source = "slow" /\ r.key = e.ev
          BY <2>2 DEF InsertRow
        <4> HIDE DEF r
        <4> QED  BY <4>1
      <3>3. \A k : Copied("slow", k)' => Copied("slow", k) \/ k = e.ev
        BY <3>r DEF Copied, Copies
      <3>4. OneRow("slow")'
        <4>1. \A s \in stats : ~ (s.source = "slow" /\ s.key = e.ev)
          BY <3>2 DEF Copied, Copies
        <4> QED  BY <2>0, <3>r, <4>1 DEF SlowOnce, OneRow
      <3>5. ASSUME NEW i \in 1..Len(slowLog), Copied("slow", slowLog[i].ev)'
            PROVE  i <= top'
        <4>1. PICK k : k = slowLog[i].ev
          OBVIOUS
        <4>2. Copied("slow", k) \/ k = e.ev
          BY <1>0, <3>3, <3>5, <4>1
        <4>3. CASE Copied("slow", k)
          <5>1. i <= cursor.slow \/ i <= top
            BY <2>0, <4>1, <4>3 DEF SlowOnce
          <5> QED  BY <1>t, <2>0, <2>2, <3>1, <5>1
        <4>4. CASE k = e.ev
          <5>1. i = e.pos
            BY <1>1, <1>p, <4>1, <4>4 DEF SlowEvents
          <5> QED  BY <1>t, <2>2, <5>1
        <4> QED  BY <4>2, <4>3, <4>4
      <3>6. ASSUME NEW k \in 1..Len(batch') PROVE batch'[k].pos > e.pos
        <4>1. batch'[k] = batch[k + 1] /\ batch[k + 1].pos = e.pos + (k + 1) - 1 /\ k \in Nat \ {0}
          BY <1>p, <1>s
        <4> QED  BY <1>t, <4>1
      <3>7. n' > 0 /\ cursor.slow <= e.pos
        BY <1>t, <2>0, <2>2, <3>1
      <3> QED  BY <1>0, <2>2, <3>4, <3>5, <3>6, <3>7 DEF SlowOnce
    <2> QED  BY <1>0, <2>1, <2>2 DEF InsertNative
  <1> QED  BY <1>1, <1>2 DEF SlowPart

\* The largest start_time is stored; if that fails after rows, the round is torn.
LEMMA PutSlowOnce ==
    ASSUME CollectorShape, SlowPart, PutSlowCursor
    PROVE  SlowPart'
  <1>0. /\ UNCHANGED <<stats, slowLog, execs>> /\ LeaveConn("mysql") /\ cpc = "slow_insert"
        /\ \/ n > 0 /\ CursorPut("slow", top)
           \/ n = 0 /\ UNCHANGED <<cursor, torn>>
    BY DEF PutSlowCursor, SlowCursor, statsVars, sourceVars
  <1>1. cpc' \notin {"slow_rows", "slow_insert"}
    BY <1>0, NextConnIn DEF LeaveConn
  <1>2. SlowEvents'
    BY <1>0 DEF SlowPart, SlowEvents
  <1>3. ASSUME ~torn' PROVE SlowOnce'
    <2>t. top \in Nat /\ n \in Nat /\ cursor.slow \in Nat
      BY DEF CollectorShape
    <2>a. ~torn
      BY <1>0, <1>3 DEF CursorPut
    <2>0. SlowOnce /\ cursor.slow <= top
      BY <1>0, <2>a DEF SlowPart, SlowOnce
    <2>1. \/ cursor'.slow = top
          \/ cursor'.slow = cursor.slow /\ ~ (n > 0)
      <3>1. CASE n > 0 /\ CursorPut("slow", top)
        <4>1. CASE cursor' = [cursor EXCEPT !["slow"] = top]
          BY <4>1 DEF CollectorShape
        <4>2. CASE UNCHANGED cursor /\ torn' = (torn \/ n > 0)
          BY <1>3, <4>2
        <4> QED  BY <3>1, <4>1, <4>2 DEF CursorPut
      <3>2. CASE n = 0 /\ UNCHANGED <<cursor, torn>>
        BY <3>2
      <3> QED  BY <1>0, <3>1, <3>2
    <2>2. ASSUME NEW i \in 1..Len(slowLog), Copied("slow", slowLog[i].ev)
          PROVE  i <= cursor'.slow
      <3>2. i <= cursor.slow \/ (n > 0 /\ i <= top)
        BY <2>0, <2>2 DEF SlowOnce
      <3> QED  BY <2>0, <2>1, <2>t, <3>2
    <2>3. OneRow("slow")'
      BY <1>0, <2>0 DEF SlowOnce, OneRow
    <2>4. \A i \in 1..Len(slowLog) : Copied("slow", slowLog[i].ev)' <=> Copied("slow", slowLog[i].ev)
      BY <1>0 DEF Copied, Copies
    <2> QED  BY <1>0, <1>1, <2>2, <2>3, <2>4 DEF SlowOnce
  <1> QED  BY <1>2, <1>3 DEF SlowPart

----------------------------------------------------------------------------
(* Counted once: the counters *)

\* Growth is a number that a statement makes larger by one at most, and a reset not.
LEMMA GrownFacts ==
    ASSUME NEW prev \in [Digest -> Nat], NEW cur \in [Digest -> Nat], NEW d \in Digest
    PROVE  /\ Grown(prev, cur, d) \in Nat
           /\ \A c \in [Digest -> Nat] : c[d] <= cur[d] + 1 => Grown(prev, c, d) <= Grown(prev, cur, d) + 1
           /\ \A c \in [Digest -> Nat] : c[d] <= cur[d] => Grown(prev, c, d) <= Grown(prev, cur, d)
           /\ prev[d] = 0 => Grown(prev, cur, d) = 0
           /\ cur[d] = prev[d] => Grown(prev, cur, d) = 0
  <1>1. prev[d] \in Nat /\ cur[d] \in Nat
    OBVIOUS
  <1> QED  BY <1>1 DEF Grown

\* What a round has to insert is a digest and a number each.
LEMMA DeltaTypes ==
    ASSUME MysqlShape, cpc = "ps_insert"
    PROVE  \A j \in 1..Len(batch) : batch[j].digest \in Digest /\ batch[j].count \in Nat
  <1>1. batch \in Seq(Delta)
    BY DEF MysqlShape
  <1>2. \A j \in 1..Len(batch) : batch[j] \in Delta
    BY <1>1
  <1> QED  BY <1>2 DEF Delta

\* A step that has nothing to do with MySQL and what is counted of it; a reset of the
\* counters is one.
MysqlQuiet ==
    /\ NoRow("slow") /\ NoRow("ps") /\ UNCHANGED <<slowLog, executed>> /\ cursor'.ps = cursor.ps
    /\ counters' = counters \/ counters' = NoSnapshot
    /\ snap' = snap \/ snap' = NoSnapshot
    /\ cpc' \in {"ps_cursor", "ps_insert"} => UNCHANGED <<cpc, batch, snap, n>>
    /\ InSlow' => InSlow
    /\ (~torn' /\ ~switched') =>
          ~torn /\ ~switched /\ ((cpc = "ps_insert" /\ n > 0) => UNCHANGED <<cpc, n>>)

LEMMA MysqlQuietKept ==
    ASSUME ReportShape, CollectorShape, RowShape, Moves, MysqlPart, MysqlQuiet
    PROVE  MysqlPart'
  <1>0. MysqlShape
    BY DEF MysqlPart
  <1>f. UNCHANGED <<slowLog, executed>> /\ cursor'.ps = cursor.ps
    BY DEF MysqlQuiet
  <1>n. NoSnapshot \in [Digest -> Nat] /\ \A d \in Digest : NoSnapshot[d] = 0
    BY DEF NoSnapshot
  <1>t. /\ counters \in [Digest -> Nat] /\ executed \in [Digest -> Nat]
        /\ cursor.ps \in [Digest -> Nat] /\ snap \in [Digest -> Nat]
        /\ counters' \in [Digest -> Nat] /\ snap' \in [Digest -> Nat]
    BY <1>0, <1>n DEF MysqlShape, MysqlQuiet
  <1>1. MysqlShape'
    <2>1. IsFiniteSet({d \in Digest : counters'[d] > 0}) /\ IsFiniteSet({d \in Digest : snap'[d] > 0})
      <3>1. {d \in Digest : NoSnapshot[d] > 0} = {}
        BY <1>n
      <3>2. IsFiniteSet({d \in Digest : NoSnapshot[d] > 0})
        BY <3>1, FS_EmptySet
      <3>3. IsFiniteSet({d \in Digest : counters[d] > 0}) /\ IsFiniteSet({d \in Digest : snap[d] > 0})
        BY <1>0 DEF MysqlShape
      <3> QED  BY <3>2, <3>3 DEF MysqlQuiet
    <2>2. \A d \in Digest : IsFiniteSet(LoggedOf(d)') /\ Cardinality(LoggedOf(d)') <= executed'[d]
      BY <1>0, <1>f DEF MysqlShape, LoggedOf
    <2>3. cpc' = "ps_insert" =>
             /\ batch' \in Seq(Delta)
             /\ \A j, k \in 1..Len(batch') : batch'[j].digest = batch'[k].digest => j = k
      BY <1>0 DEF MysqlShape, MysqlQuiet
    <2> QED  BY <1>f, <1>t, <2>1, <2>2, <2>3 DEF MysqlShape
  <1>2. ASSUME ~torn', ~switched' PROVE MysqlCount'
    <2>0. MysqlCount /\ ((cpc = "ps_insert" /\ n > 0) => UNCHANGED <<cpc, n>>)
      BY <1>2 DEF MysqlQuiet, MysqlPart
    <2>1. InSlow' => cursor'.ps = NoSnapshot /\ \A s \in stats' : s.source # "ps"
      BY <1>f, <2>0 DEF MysqlQuiet, MysqlCount, NoRow
    <2>c. ASSUME NEW d \in Digest
          PROVE  Counted(d)' <= Counted(d) /\ Counted(d) \in Nat /\ Counted(d)' \in Nat
      <3>1. FoundOf(d)' \subseteq FoundOf(d)
        BY FoundBefore DEF MysqlQuiet
      <3>2. \A s \in stats' : s \in stats \/ ((s.source = "ps" /\ s.key = d) => s.count = 0)
        BY DEF MysqlQuiet, NoRow
      <3>3. Counted(d)' <= Counted(d) + 0 /\ Counted(d) \in Nat /\ Counted(d)' \in Nat
        BY <1>0, <3>1, <3>2, CountedGrows
      <3> QED  BY <3>3
    <2>g. ASSUME NEW d \in Digest, NEW prev \in [Digest -> Nat]
          PROVE  /\ Grown(prev, counters', d) <= Grown(prev, counters, d)
                 /\ Grown(prev, counters, d) \in Nat /\ Grown(prev, counters', d) \in Nat
      <3>1. counters'[d] <= counters[d] /\ counters[d] \in Nat
        BY <1>n, <1>t DEF MysqlQuiet
      <3> QED  BY <1>t, <3>1, GrownFacts
    <2>p. cpc' \in {"ps_cursor", "ps_insert"} => UNCHANGED <<cpc, batch, snap, n>>
      BY DEF MysqlQuiet
    <2>n. (cpc' # "ps_insert" \/ n' = 0) => (cpc # "ps_insert" \/ n = 0)
      BY <2>0 DEF CollectorShape
    <2>2. ASSUME NEW d \in Digest
          PROVE  /\ (cpc' # "ps_insert" \/ n' = 0) =>
                       Counted(d)' + Grown(cursor.ps, counters', d) <= executed[d]
                 /\ cpc' = "ps_cursor" =>
                       Counted(d)' + Grown(cursor.ps, snap', d) + Grown(snap', counters', d) <= executed[d]
                 /\ cpc' = "ps_insert" => Counted(d)' + Grown(snap', counters', d) <= executed[d]
      <3>1. executed[d] \in Nat /\ Grown(cursor.ps, snap, d) \in Nat
        BY <1>t, GrownFacts
      <3>2. (cpc' # "ps_insert" \/ n' = 0) => Counted(d) + Grown(cursor.ps, counters, d) <= executed[d]
        BY <2>0, <2>n DEF MysqlCount
      <3>3. (cpc' # "ps_insert" \/ n' = 0) => Counted(d)' + Grown(cursor.ps, counters', d) <= executed[d]
        BY <1>t, <2>c, <2>g, <3>1, <3>2
      <3>4. cpc' = "ps_cursor" =>
               Counted(d)' + Grown(cursor.ps, snap', d) + Grown(snap', counters', d) <= executed[d]
        <4> SUFFICES ASSUME cpc' = "ps_cursor"
                     PROVE  Counted(d)' + Grown(cursor.ps, snap, d) + Grown(snap, counters', d) <= executed[d]
          BY <2>p
        <4>1. Counted(d) + Grown(cursor.ps, snap, d) + Grown(snap, counters, d) <= executed[d]
          BY <2>0, <2>p DEF MysqlCount
        <4> QED  BY <1>t, <2>c, <2>g, <3>1, <4>1
      <3>5. cpc' = "ps_insert" => Counted(d)' + Grown(snap', counters', d) <= executed[d]
        <4> SUFFICES ASSUME cpc' = "ps_insert"
                     PROVE  Counted(d)' + Grown(snap, counters', d) <= executed[d]
          BY <2>p
        <4>1. Counted(d) + Grown(snap, counters, d) <= executed[d]
          BY <2>0, <2>p DEF MysqlCount
        <4> QED  BY <1>t, <2>c, <2>g, <3>1, <4>1
      <3> QED  BY <3>3, <3>4, <3>5
    <2>3. ASSUME cpc' = "ps_insert", NEW j \in 1..Len(batch')
          PROVE  Counted(batch[j].digest)' + batch'[j].count + Grown(snap', counters', batch'[j].digest)
                    <= executed[batch'[j].digest]
      <3>1. cpc = "ps_insert" /\ UNCHANGED <<batch, snap>> /\ j \in 1..Len(batch)
        BY <2>3, <2>p
      <3>2. PICK d, c : d = batch[j].digest /\ c = batch[j].count
        OBVIOUS
      <3>3. d \in Digest /\ c \in Nat
        BY <1>0, <3>1, <3>2, DeltaTypes
      <3>4. Counted(d) + c + Grown(snap, counters, d) <= executed[d]
        BY <2>0, <3>1, <3>2 DEF MysqlCount
      <3>5. Counted(d)' + c + Grown(snap, counters', d) <= executed[d]
        <4>1. executed[d] \in Nat
          BY <1>t, <3>3
        <4>2. Counted(d)' <= Counted(d) /\ Counted(d) \in Nat /\ Counted(d)' \in Nat
          BY <2>c, <3>3
        <4>3. /\ Grown(snap, counters', d) <= Grown(snap, counters, d)
              /\ Grown(snap, counters, d) \in Nat /\ Grown(snap, counters', d) \in Nat
          BY <1>t, <2>g, <3>3
        <4> QED  BY <3>3, <3>4, <4>1, <4>2, <4>3
      <3> QED  BY <3>1, <3>2, <3>5
    <2> QED  BY <1>f, <2>1, <2>2, <2>3 DEF MysqlCount
  <1> QED  BY <1>1, <1>2 DEF MysqlPart

\* A statement is executed: its counter grows, and it may be logged.
LEMMA MysqlSlowCount ==
    ASSUME ReportShape, CollectorShape, RowShape, SlowPart, MysqlPart, NEW x \in Digest, MysqlSlow(x)
    PROVE  MysqlPart'
  <1>a. PICK e : e = [ev |-> execs + 1, digest |-> x]
    OBVIOUS
  <1>0. /\ UNCHANGED <<stats, inserted, now, cursor, torn, switched, cpc, batch, snap, n>>
        /\ executed' = [executed EXCEPT ![x] = @ + 1] /\ counters' = [counters EXCEPT ![x] = @ + 1]
        /\ slowLog' = slowLog \/ slowLog' = Append(slowLog, e)
    BY <1>a DEF MysqlSlow, qsVars, statsVars, envVars, roundVars
  <1>e. e.ev = execs + 1 /\ e.digest = x
    BY <1>a
  <1>s. MysqlShape
    BY DEF MysqlPart
  <1>t. /\ counters \in [Digest -> Nat] /\ executed \in [Digest -> Nat]
        /\ cursor.ps \in [Digest -> Nat] /\ snap \in [Digest -> Nat]
        /\ counters' \in [Digest -> Nat] /\ executed' \in [Digest -> Nat]
        /\ \A d \in Digest : /\ counters'[d] = IF d = x THEN counters[d] + 1 ELSE counters[d]
                             /\ executed'[d] = IF d = x THEN executed[d] + 1 ELSE executed[d]
    BY <1>0, <1>s DEF MysqlShape
  <1>l. slowLog \in Seq([ev : Nat, digest : Digest])
    BY LogTypes
  <1>1. {slowLog'[i] : i \in 1..Len(slowLog')} \subseteq {slowLog[i] : i \in 1..Len(slowLog)} \cup {e}
    <2>1. CASE slowLog' = slowLog
      BY <2>1
    <2>2. CASE slowLog' = Append(slowLog, e)
      <3>1. \A i \in 1..Len(slowLog') : slowLog'[i] = e \/ (i \in 1..Len(slowLog) /\ slowLog'[i] = slowLog[i])
        BY <1>l, <2>2
      <3> QED  BY <3>1
    <2> QED  BY <1>0, <2>1, <2>2
  <1>2. MysqlShape'
    <2>1. IsFiniteSet({d \in Digest : counters'[d] > 0})
      <3> DEFINE old == {d \in Digest : counters[d] > 0}
                 new == {d \in Digest : counters'[d] > 0}
      <3>1. IsFiniteSet(old)
        BY <1>s DEF MysqlShape
      <3>2. new \subseteq old \cup {x}
        BY <1>t
      <3> HIDE DEF old, new
      <3>3. IsFiniteSet(old \cup {x})
        BY <3>1, FS_AddElement
      <3>4. IsFiniteSet(new)
        BY <3>2, <3>3, FS_Subset
      <3> QED  BY <3>4 DEF new
    <2>2. ASSUME NEW d \in Digest
          PROVE  IsFiniteSet(LoggedOf(d)') /\ Cardinality(LoggedOf(d)') <= executed'[d]
      <3>0. PICK L, M : L = LoggedOf(d) /\ M = LoggedOf(d)'
        OBVIOUS
      <3>1. IsFiniteSet(L) /\ Cardinality(L) <= executed[d] /\ executed[d] \in Nat
        BY <1>s, <1>t, <3>0 DEF MysqlShape
      <3>2. M \subseteq L \cup {e} /\ (d # x => M \subseteq L)
        BY <1>1, <1>e, <3>0 DEF LoggedOf
      <3>3. CASE d = x
        <4>1. IsFiniteSet(L \cup {e}) /\ Cardinality(L \cup {e}) \in {Cardinality(L), Cardinality(L) + 1}
          BY <3>1, FS_AddElement
        <4>2. IsFiniteSet(M) /\ Cardinality(M) <= Cardinality(L \cup {e})
          BY <3>2, <4>1, FS_Subset
        <4>3. Cardinality(L) \in Nat /\ Cardinality(M) \in Nat
          BY <3>1, <4>2, FS_CardinalityType
        <4>4. executed'[d] = executed[d] + 1
          BY <1>t, <3>3
        <4>5. Cardinality(M) <= executed'[d]
          BY <3>1, <4>1, <4>2, <4>3, <4>4
        <4> QED  BY <3>0, <4>2, <4>5
      <3>4. CASE d # x
        <4>1. IsFiniteSet(M) /\ Cardinality(M) <= Cardinality(L)
          BY <3>1, <3>2, <3>4, FS_Subset
        <4>2. Cardinality(L) \in Nat /\ Cardinality(M) \in Nat
          BY <3>1, <4>1, FS_CardinalityType
        <4>3. executed'[d] = executed[d]
          BY <1>t, <3>4
        <4>4. Cardinality(M) <= executed'[d]
          BY <3>1, <4>1, <4>2, <4>3
        <4> QED  BY <3>0, <4>1, <4>4
      <3> QED  BY <3>3, <3>4
    <2> QED  BY <1>0, <1>s, <1>t, <2>1, <2>2 DEF MysqlShape
  <1>3. ASSUME ~torn', ~switched' PROVE MysqlCount'
    <2>0. MysqlCount
      BY <1>0, <1>3 DEF MysqlPart
    <2>1. InSlow' => cursor'.ps = NoSnapshot /\ \A s \in stats' : s.source # "ps"
      BY <1>0, <2>0 DEF MysqlCount, InSlow
    <2>c. ASSUME NEW d \in Digest
          PROVE  Counted(d)' <= Counted(d) /\ Counted(d) \in Nat /\ Counted(d)' \in Nat
      <3>1. ~Copied("slow", execs + 1)
        BY DEF RowShape, Copied, Copies, CollectorShape
      <3>2. FoundOf(d)' \subseteq FoundOf(d)
        BY <1>0, <1>1, <1>e, <3>1 DEF FoundOf, Copied, Copies
      <3>3. Moves
        BY <1>0 DEF Moves, TableStep, ReportShape
      <3>4. Counted(d)' <= Counted(d) + 0 /\ Counted(d) \in Nat /\ Counted(d)' \in Nat
        BY <1>0, <1>s, <3>2, <3>3, CountedGrows
      <3> QED  BY <3>4
    <2>g. ASSUME NEW d \in Digest, NEW prev \in [Digest -> Nat], NEW p \in Nat,
                 Counted(d) + p + Grown(prev, counters, d) <= executed[d]
          PROVE  Counted(d)' + p + Grown(prev, counters', d) <= executed'[d]
      <3>1. /\ Grown(prev, counters, d) \in Nat /\ Grown(prev, counters', d) \in Nat
            /\ executed[d] \in Nat /\ counters[d] \in Nat
        BY <1>t, GrownFacts
      <3>2. CASE d = x
        <4>1. Grown(prev, counters', d) <= Grown(prev, counters, d) + 1 /\ executed'[d] = executed[d] + 1
          BY <1>t, <3>1, <3>2, GrownFacts
        <4> QED  BY <2>c, <2>g, <3>1, <4>1
      <3>3. CASE d # x
        <4>1. Grown(prev, counters', d) <= Grown(prev, counters, d) /\ executed'[d] = executed[d]
          BY <1>t, <3>1, <3>3, GrownFacts
        <4> QED  BY <2>c, <2>g, <3>1, <4>1
      <3> QED  BY <3>2, <3>3
    <2>2. ASSUME NEW d \in Digest
          PROVE  /\ (cpc # "ps_insert" \/ n = 0) =>
                       Counted(d)' + Grown(cursor.ps, counters', d) <= executed'[d]
                 /\ cpc = "ps_cursor" =>
                       Counted(d)' + Grown(cursor.ps, snap, d) + Grown(snap, counters', d) <= executed'[d]
                 /\ cpc = "ps_insert" => Counted(d)' + Grown(snap, counters', d) <= executed'[d]
      <3>1. /\ Grown(cursor.ps, snap, d) \in Nat /\ Grown(cursor.ps, counters, d) \in Nat
            /\ Grown(snap, counters, d) \in Nat /\ Grown(cursor.ps, counters', d) \in Nat
            /\ Grown(snap, counters', d) \in Nat
        BY <1>t, GrownFacts
      <3>2. ASSUME cpc # "ps_insert" \/ n = 0
            PROVE  Counted(d)' + Grown(cursor.ps, counters', d) <= executed'[d]
        <4>1. Counted(d) + 0 + Grown(cursor.ps, counters, d) <= executed[d]
          BY <2>0, <2>c, <3>1, <3>2 DEF MysqlCount
        <4>2. Counted(d)' + 0 + Grown(cursor.ps, counters', d) <= executed'[d]
          BY <1>t, <2>g, <4>1
        <4> QED  BY <2>c, <3>1, <4>2
      <3>3. ASSUME cpc = "ps_cursor"
            PROVE  Counted(d)' + Grown(cursor.ps, snap, d) + Grown(snap, counters', d) <= executed'[d]
        <4>1. Counted(d) + Grown(cursor.ps, snap, d) + Grown(snap, counters, d) <= executed[d]
          BY <2>0, <3>3 DEF MysqlCount
        <4> QED  BY <1>t, <2>g, <3>1, <4>1
      <3>4. ASSUME cpc = "ps_insert" PROVE Counted(d)' + Grown(snap, counters', d) <= executed'[d]
        <4>1. Counted(d) + 0 + Grown(snap, counters, d) <= executed[d]
          BY <2>0, <2>c, <3>1, <3>4 DEF MysqlCount
        <4>2. Counted(d)' + 0 + Grown(snap, counters', d) <= executed'[d]
          BY <1>t, <2>g, <4>1
        <4> QED  BY <2>c, <3>1, <4>2
      <3> QED  BY <3>2, <3>3, <3>4
    <2>3. ASSUME cpc = "ps_insert", NEW j \in 1..Len(batch)
          PROVE  Counted(batch[j].digest)' + batch[j].count + Grown(snap, counters', batch[j].digest)
                    <= executed'[batch[j].digest]
      <3>1. PICK d, c : d = batch[j].digest /\ c = batch[j].count
        OBVIOUS
      <3>2. d \in Digest /\ c \in Nat
        BY <1>s, <2>3, <3>1, DeltaTypes
      <3>3. Counted(d) + c + Grown(snap, counters, d) <= executed[d]
        BY <2>0, <2>3, <3>1 DEF MysqlCount
      <3>4. Counted(d)' + c + Grown(snap, counters', d) <= executed'[d]
        BY <1>t, <2>g, <3>2, <3>3
      <3> QED  BY <1>0, <3>1, <3>4
    <2> QED  BY <1>0, <2>1, <2>2, <2>3 DEF MysqlCount
  <1> QED  BY <1>2, <1>3 DEF MysqlPart

\* The shape of the counters' part, when a step changes the snapshots or the batch.
LEMMA MysqlShapeKept ==
    ASSUME MysqlShape, UNCHANGED <<slowLog, counters, executed>>,
           cursor'.ps \in [Digest -> Nat], snap' \in [Digest -> Nat],
           IsFiniteSet({d \in Digest : snap'[d] > 0}),
           cpc' = "ps_insert" =>
               /\ batch' \in Seq(Delta)
               /\ \A j, k \in 1..Len(batch') : batch'[j].digest = batch'[k].digest => j = k
    PROVE  MysqlShape'
  <1>1. /\ counters' \in [Digest -> Nat] /\ executed' \in [Digest -> Nat]
        /\ IsFiniteSet({d \in Digest : counters'[d] > 0})
    BY DEF MysqlShape
  <1>2. \A d \in Digest : IsFiniteSet(LoggedOf(d)') /\ Cardinality(LoggedOf(d)') <= executed'[d]
    BY DEF MysqlShape, LoggedOf
  <1> QED  BY <1>1, <1>2 DEF MysqlShape

\* The snapshot of no digest.
LEMMA EmptySnapshot ==
    /\ NoSnapshot \in [Digest -> Nat] /\ \A d \in Digest : NoSnapshot[d] = 0
    /\ IsFiniteSet({d \in Digest : NoSnapshot[d] > 0})
  <1>1. NoSnapshot \in [Digest -> Nat] /\ \A d \in Digest : NoSnapshot[d] = 0
    BY DEF NoSnapshot
  <1>2. {d \in Digest : NoSnapshot[d] > 0} = {}
    BY <1>1
  <1> QED  BY <1>1, <1>2, FS_EmptySet

\* The settings are read: the slow log is collected only while nothing is kept of the
\* counters, or the source has been switched.
LEMMA SettingsCount ==
    ASSUME ReportShape, CollectorShape, RowShape, MysqlPart, ReadSettings,
           cpc' \in {"slow_cursor", "ps_rows"}, switched' = (switched \/ (slowOn /\ CountersKept)),
           cpc' = "slow_cursor" => slowOn
    PROVE  MysqlPart'
  <1>0. /\ UNCHANGED <<stats, inserted, cursor, slowLog, counters, executed, torn>> /\ cpc = "mysql"
        /\ UNCHANGED <<batch, snap, n>>
    BY NextConnIn DEF ReadSettings, ConnFails, LeaveConn, statsVars, sourceVars, roundVars
  <1>1. MysqlShape'
    <2>1. /\ MysqlShape /\ cpc' # "ps_insert" /\ cursor'.ps = cursor.ps
      BY <1>0 DEF MysqlPart
    <2>2. /\ cursor'.ps \in [Digest -> Nat] /\ snap' \in [Digest -> Nat]
          /\ IsFiniteSet({d \in Digest : snap'[d] > 0})
      BY <1>0, <2>1 DEF MysqlShape
    <2> QED  BY <1>0, <2>1, <2>2, MysqlShapeKept
  <1>2. ASSUME ~torn', ~switched' PROVE MysqlCount'
    <2>0. MysqlCount
      BY <1>0, <1>2 DEF MysqlPart
    <2>1. cpc' = "slow_cursor" => cursor.ps = NoSnapshot /\ \A s \in stats : s.source # "ps"
      BY <1>2 DEF CountersKept
    <2>2. InSlow' => cursor'.ps = NoSnapshot /\ \A s \in stats' : s.source # "ps"
      BY <1>0, <2>1 DEF InSlow
    <2>3. \A d \in Digest : Counted(d)' = Counted(d)
      BY <1>0 DEF Counted, SumCounts, Copies, FoundOf
    <2>4. \A d \in Digest : Counted(d) + Grown(cursor.ps, counters, d) <= executed[d]
      BY <1>0, <2>0 DEF MysqlCount
    <2> QED  BY <1>0, <2>2, <2>3, <2>4 DEF MysqlCount
  <1> QED  BY <1>1, <1>2 DEF MysqlPart

\* A logged event is inserted while nothing is counted but logged events.
LEMMA InsertSlowCount ==
    ASSUME ReportShape, CollectorShape, RowShape, MysqlPart, InsertSlowRow
    PROVE  MysqlPart'
  <1>a. PICK e : e = Head(batch)
    OBVIOUS
  <1>0. /\ UNCHANGED <<slowLog, counters, executed, cursor, cpc, torn, switched, snap, now>>
        /\ cpc = "slow_insert" /\ InsertNative("slow", e.ev, 1, e.pos)
    BY <1>a DEF InsertSlowRow, sourceVars, tableVars, envVars
  <1>s. MysqlShape
    BY DEF MysqlPart
  <1>1. MysqlShape'
    <2>1. cpc' # "ps_insert" /\ cursor'.ps = cursor.ps
      BY <1>0
    <2>2. /\ cursor'.ps \in [Digest -> Nat] /\ snap' \in [Digest -> Nat]
          /\ IsFiniteSet({d \in Digest : snap'[d] > 0})
      BY <1>0, <1>s, <2>1 DEF MysqlShape
    <2> QED  BY <1>0, <1>s, <2>1, <2>2, MysqlShapeKept
  <1>2. ASSUME ~torn', ~switched' PROVE MysqlCount'
    <2>0. MysqlCount /\ cursor.ps = NoSnapshot /\ \A s \in stats : s.source # "ps"
      BY <1>0, <1>2 DEF MysqlPart, MysqlCount, InSlow
    <2>1. Moves /\ \A s \in stats' : s \in stats \/ s.source = "slow"
      BY <1>0, NativeRow
    <2>2. \A s \in stats' : s.source # "ps"
      BY <2>0, <2>1
    <2>3. ASSUME NEW d \in Digest
          PROVE  Counted(d)' <= executed[d] /\ Grown(cursor.ps, counters, d) = 0 /\ Counted(d)' \in Nat
      <3>1. SumCounts(Copies("ps", d))' = 0
        <4>1. {s \in stats' : s.source = "ps" /\ s.key = d} = {}
          BY <2>2
        <4>2. SumCounts(Copies("ps", d))' = SumBelow({}, inserted')
          BY <4>1 DEF SumCounts, Copies
        <4>3. inserted' \in Nat
          BY <2>1 DEF Moves, TableStep
        <4> QED  BY <4>2, <4>3, SumBelowEmpty
      <3>2. PICK L, M : L = LoggedOf(d) /\ M = FoundOf(d)'
        OBVIOUS
      <3>3. IsFiniteSet(L) /\ Cardinality(L) <= executed[d] /\ executed[d] \in Nat /\ M \subseteq L
        BY <1>0, <1>s, <3>2 DEF MysqlShape, LoggedOf, FoundOf
      <3>4. IsFiniteSet(M) /\ Cardinality(M) <= Cardinality(L)
        BY <3>3, FS_Subset
      <3>5. Cardinality(L) \in Nat /\ Cardinality(M) \in Nat
        BY <3>3, <3>4, FS_CardinalityType
      <3>6. Counted(d)' = 0 + Cardinality(M)
        BY <3>1, <3>2 DEF Counted
      <3>7. Grown(cursor.ps, counters, d) = 0
        BY <2>0 DEF Grown, NoSnapshot
      <3> QED  BY <3>3, <3>4, <3>5, <3>6, <3>7
    <2>4. \A d \in Digest : Counted(d)' + Grown(cursor.ps, counters, d) <= executed[d]
      BY <2>3
    <2> QED  BY <1>0, <2>0, <2>2, <2>4 DEF MysqlCount
  <1> QED  BY <1>1, <1>2 DEF MysqlPart

\* A snapshot has the counters of some digests.
LEMMA SnapshotOf ==
    ASSUME MysqlShape, NEW s \in Snapshots
    PROVE  /\ s \in [Digest -> Nat] /\ IsFiniteSet({d \in Digest : s[d] > 0})
           /\ \A d \in Digest : s[d] = counters[d] \/ s[d] = 0
  <1> DEFINE seen == {d \in Digest : counters[d] > 0}
             kept == {d \in Digest : s[d] > 0}
  <1>0. counters \in [Digest -> Nat] /\ IsFiniteSet(seen)
    BY DEF MysqlShape
  <1>1. PICK D : s = [d \in Digest |-> IF d \in D THEN counters[d] ELSE 0]
    BY DEF Snapshots
  <1>2. \A d \in Digest : s[d] = counters[d] \/ s[d] = 0
    BY <1>1
  <1>3. s \in [Digest -> Nat]
    BY <1>0, <1>1
  <1>4. kept \subseteq seen
    BY <1>2
  <1> HIDE DEF seen
  <1>5. IsFiniteSet(kept)
    BY <1>0, <1>4, FS_Subset
  <1> QED  BY <1>2, <1>3, <1>5

\* The digests are read: between what the old snapshot has missed and what the new one
\* will miss there is nothing that is counted twice.
LEMMA FetchDigestsCount ==
    ASSUME ReportShape, CollectorShape, RowShape, MysqlPart, FetchDigests, cpc' = "ps_cursor"
    PROVE  MysqlPart'
  <1>0. /\ UNCHANGED <<stats, inserted, cursor, slowLog, counters, executed, torn, switched>>
        /\ cpc = "ps_rows" /\ snap' \in Snapshots
    BY NextConnIn DEF FetchDigests, ConnFails, LeaveConn, statsVars, sourceVars
  <1>s. MysqlShape
    BY DEF MysqlPart
  <1>t. /\ counters \in [Digest -> Nat] /\ executed \in [Digest -> Nat] /\ cursor.ps \in [Digest -> Nat]
    BY <1>s DEF MysqlShape
  <1>p. /\ snap' \in [Digest -> Nat] /\ IsFiniteSet({d \in Digest : snap'[d] > 0})
        /\ \A d \in Digest : snap'[d] = counters[d] \/ snap'[d] = 0
    BY <1>0, <1>s, SnapshotOf
  <1>1. MysqlShape'
    <2>1. cursor'.ps \in [Digest -> Nat] /\ cpc' # "ps_insert"
      BY <1>0, <1>t
    <2> QED  BY <1>0, <1>s, <1>p, <2>1, MysqlShapeKept
  <1>2. ASSUME ~torn', ~switched' PROVE MysqlCount'
    <2>0. MysqlCount
      BY <1>0, <1>2 DEF MysqlPart
    <2>1. ~InSlow'
      BY DEF InSlow
    <2>2. ASSUME NEW d \in Digest
          PROVE  /\ Counted(d)' + Grown(cursor.ps, counters, d) <= executed[d]
                 /\ Counted(d)' + Grown(cursor.ps, snap', d) + Grown(snap', counters, d) <= executed[d]
      <3>1. Counted(d)' = Counted(d)
        BY <1>0 DEF Counted, SumCounts, Copies, FoundOf
      <3>2. Counted(d) + Grown(cursor.ps, counters, d) <= executed[d]
        BY <1>0, <2>0 DEF MysqlCount
      <3>3. Counted(d) \in Nat
        <4>1. Moves /\ FoundOf(d)' \subseteq FoundOf(d)
          BY <1>0 DEF Moves, TableStep, ReportShape, FoundOf, Copies, FetchDigests, tableVars, envVars
        <4>2. Counted(d)' <= Counted(d) + 0 /\ Counted(d) \in Nat
          BY <1>0, <1>s, <4>1, CountedGrows
        <4> QED  BY <4>2
      <3>4. Grown(cursor.ps, snap', d) <= Grown(cursor.ps, counters, d)
        <4>1. snap'[d] <= counters[d]
          BY <1>t, <1>p
        <4> QED  BY <1>t, <1>p, <4>1, GrownFacts
      <3>5. Grown(snap', counters, d) = 0
        BY <1>t, <1>p, GrownFacts
      <3>6. /\ Grown(cursor.ps, snap', d) \in Nat /\ Grown(cursor.ps, counters, d) \in Nat
            /\ executed[d] \in Nat
        BY <1>t, <1>p, GrownFacts
      <3> QED  BY <3>1, <3>2, <3>3, <3>4, <3>5, <3>6
    <2> QED  BY <1>0, <2>1, <2>2 DEF MysqlCount
  <1> QED  BY <1>1, <1>2 DEF MysqlPart

\* The rows of a difference: each digest once, with what it has gained.
LEMMA GainedRows ==
    ASSUME NEW prev \in [Digest -> Nat], NEW cur \in [Digest -> Nat],
           NEW D, D \subseteq Digest, IsFiniteSet(D), \A d \in D : cur[d] > prev[d]
    PROVE  /\ Gained(D, prev, cur) \in Seq(Delta)
           /\ \A j \in 1..Len(Gained(D, prev, cur)) :
                 /\ Gained(D, prev, cur)[j].digest \in D
                 /\ Gained(D, prev, cur)[j].count
                       = cur[Gained(D, prev, cur)[j].digest] - prev[Gained(D, prev, cur)[j].digest]
           /\ \A j, k \in 1..Len(Gained(D, prev, cur)) :
                 Gained(D, prev, cur)[j].digest = Gained(D, prev, cur)[k].digest => j = k
  <1> DEFINE row(d) == [digest |-> d, count |-> cur[d] - prev[d]]
             S == {row(d) : d \in D}
             f == [d \in D |-> row(d)]
  <1>1. f \in Surjection(D, S)
    BY DEF Surjection
  <1>2. \A x \in S : /\ x.digest \in D /\ x.count = cur[x.digest] - prev[x.digest] /\ x \in Delta
                     /\ x = row(x.digest)
    <2>1. ASSUME NEW d \in D PROVE row(d) \in Delta /\ row(d).digest = d /\ row(d).count = cur[d] - prev[d]
      <3>1. cur[d] - prev[d] \in Nat
        OBVIOUS
      <3> QED  BY <3>1 DEF Delta
    <2> QED  BY <2>1
  <1>3. Gained(D, prev, cur) = SetToSeq(S)
    BY DEF Gained
  <1> HIDE DEF f, S, row
  <1>4. IsFiniteSet(S)
    BY <1>1, FS_Surjection
  <1>5. PICK g : g = SetToSeq(S) /\ g \in [1..Cardinality(S) -> S] /\ IsInjective(g)
    <2>1. \E g \in [1..Cardinality(S) -> S] : IsInjective(g)
      BY <1>4, FS_CardinalityType DEF ExistsBijection, Bijection, Injection
    <2> QED  BY <2>1 DEF SetToSeq
  <1>6. Cardinality(S) \in Nat
    BY <1>4, FS_CardinalityType
  <1>7. Len(g) = Cardinality(S) /\ g \in Seq(S)
    BY <1>5, <1>6
  <1>8. \A j \in 1..Len(g) : g[j] \in S
    BY <1>5, <1>7
  <1>9. \A j, k \in 1..Len(g) : g[j] = g[k] => j = k
    BY <1>5, <1>7 DEF IsInjective
  <1>10. g \in Seq(Delta)
    <2>1. g \in [1..Cardinality(S) -> Delta]
      BY <1>2, <1>5
    <2> QED  BY <1>6, <2>1
  <1>11. \A j \in 1..Len(g) : g[j].digest \in D /\ g[j].count = cur[g[j].digest] - prev[g[j].digest]
    BY <1>2, <1>8
  <1>12. \A j, k \in 1..Len(g) : g[j].digest = g[k].digest => j = k
    BY <1>2, <1>8, <1>9
  <1> QED  BY <1>3, <1>5, <1>10, <1>11, <1>12

\* diff_ps_snapshots counts the growth of digests of both snapshots.
LEMMA DiffRows ==
    ASSUME NEW prev \in [Digest -> Nat], NEW cur \in [Digest -> Nat],
           IsFiniteSet({d \in Digest : cur[d] > 0}), NEW b, b = DiffSnapshots(prev, cur)
    PROVE  /\ b \in Seq(Delta)
           /\ \A j, k \in 1..Len(b) : b[j].digest = b[k].digest => j = k
           /\ \A j \in 1..Len(b) : b[j].count = Grown(prev, cur, b[j].digest)
  <1> DEFINE both == {d \in Digest : prev[d] > 0 /\ cur[d] > 0}
             D == {d \in both : cur[d] > prev[d]}
  <1>1. CASE \E d \in both : cur[d] < prev[d]
    <2>1. b = <<>>
      BY <1>1 DEF DiffSnapshots
    <2>2. b \in Seq(Delta) /\ Len(b) = 0
      BY <2>1
    <2> QED  BY <2>2
  <1>2. CASE ~ \E d \in both : cur[d] < prev[d]
    <2>1. b = Gained(D, prev, cur)
      BY <1>2 DEF DiffSnapshots
    <2>2. D \subseteq {d \in Digest : cur[d] > 0} /\ D \subseteq Digest
      OBVIOUS
    <2>3. IsFiniteSet(D)
      BY <2>2, FS_Subset
    <2>4. \A d \in D : d \in Digest /\ prev[d] > 0 /\ cur[d] > prev[d]
      OBVIOUS
    <2> HIDE DEF D
    <2>5. /\ b \in Seq(Delta)
          /\ \A j \in 1..Len(b) : b[j].digest \in D /\ b[j].count = cur[b[j].digest] - prev[b[j].digest]
          /\ \A j, k \in 1..Len(b) : b[j].digest = b[k].digest => j = k
      BY <2>1, <2>2, <2>3, <2>4, GainedRows
    <2> QED  BY <2>4, <2>5 DEF Grown
  <1> QED  BY <1>1, <1>2

\* What the table counts is a number.
LEMMA CountedNat ==
    ASSUME ReportShape, RowShape, MysqlShape, UNCHANGED <<stats, inserted, now, slowLog>>, NEW d \in Digest
    PROVE  Counted(d) \in Nat /\ Counted(d)' = Counted(d)
  <1>1. Counted(d)' = Counted(d)
    BY DEF Counted, SumCounts, Copies, FoundOf
  <1>2. Moves /\ FoundOf(d)' \subseteq FoundOf(d)
    BY DEF Moves, TableStep, ReportShape, FoundOf, Copies
  <1>3. Counted(d)' <= Counted(d) + 0 /\ Counted(d) \in Nat
    BY <1>2, CountedGrows
  <1> QED  BY <1>1, <1>3

\* The stored snapshot is read: the rows of the difference are what the old snapshot
\* has missed.
LEMMA ReadSnapshotCount ==
    ASSUME ReportShape, CollectorShape, RowShape, MysqlPart, ReadSnapshot
    PROVE  MysqlPart'
  <1>0. /\ UNCHANGED <<stats, inserted, now, cursor, slowLog, counters, executed, switched, snap, n>>
        /\ cpc = "ps_cursor" /\ cpc' = "ps_insert" /\ batch' = DiffSnapshots(base', snap)
        /\ CursorGet(base', cursor.ps, NoSnapshot)
    BY DEF ReadSnapshot, statsVars, sourceVars, tableVars, envVars
  <1>s. MysqlShape /\ n = 0
    BY <1>0 DEF MysqlPart, RowShape
  <1>t. /\ counters \in [Digest -> Nat] /\ executed \in [Digest -> Nat]
        /\ cursor.ps \in [Digest -> Nat] /\ snap \in [Digest -> Nat]
        /\ IsFiniteSet({d \in Digest : snap[d] > 0})
    BY <1>s DEF MysqlShape
  <1>b. base' \in {cursor.ps, NoSnapshot} /\ (~torn' => ~torn /\ base' = cursor.ps)
    <2>1. base' \in {cursor.ps, NoSnapshot}
      BY <1>0 DEF CursorGet
    <2>2. ~torn' => ~torn /\ base' = cursor.ps
      BY <1>0, Zenon DEF CursorGet
    <2> QED  BY <2>1, <2>2
  <1>r. /\ batch' \in Seq(Delta)
        /\ \A j, k \in 1..Len(batch') : batch'[j].digest = batch'[k].digest => j = k
        /\ \A j \in 1..Len(batch') : batch'[j].count = Grown(base', snap, batch'[j].digest)
    <2>1. base' \in [Digest -> Nat]
      BY <1>b, <1>t, EmptySnapshot
    <2>2. PICK p, c, b : p = base' /\ c = snap /\ b = batch'
      OBVIOUS
    <2>3. /\ p \in [Digest -> Nat] /\ c \in [Digest -> Nat] /\ b = DiffSnapshots(p, c)
          /\ IsFiniteSet({d \in Digest : c[d] > 0})
      BY <1>0, <1>t, <2>1, <2>2
    <2>4. /\ b \in Seq(Delta)
          /\ \A j, k \in 1..Len(b) : b[j].digest = b[k].digest => j = k
          /\ \A j \in 1..Len(b) : b[j].count = Grown(p, c, b[j].digest)
      BY <2>3, DiffRows
    <2> QED  BY <2>2, <2>4
  <1>1. MysqlShape'
    <2>1. cursor'.ps \in [Digest -> Nat] /\ snap' \in [Digest -> Nat]
          /\ IsFiniteSet({d \in Digest : snap'[d] > 0})
      BY <1>0, <1>t
    <2> QED  BY <1>0, <1>s, <1>r, <2>1, MysqlShapeKept
  <1>2. ASSUME ~torn', ~switched' PROVE MysqlCount'
    <2>0. MysqlCount /\ base' = cursor.ps
      BY <1>0, <1>2, <1>b DEF MysqlPart
    <2>1. ~InSlow'
      BY <1>0 DEF InSlow
    <2>2. ASSUME NEW d \in Digest
          PROVE  /\ Counted(d)' + Grown(cursor.ps, counters, d) <= executed[d]
                 /\ Counted(d)' + Grown(snap, counters, d) <= executed[d]
                 /\ Counted(d)' + Grown(cursor.ps, snap, d) + Grown(snap, counters, d) <= executed[d]
      <3>1. Counted(d) \in Nat /\ Counted(d)' = Counted(d)
        BY <1>0, <1>s, CountedNat
      <3>2. /\ Counted(d) + Grown(cursor.ps, counters, d) <= executed[d]
            /\ Counted(d) + Grown(cursor.ps, snap, d) + Grown(snap, counters, d) <= executed[d]
        BY <1>0, <2>0 DEF MysqlCount
      <3>3. /\ Grown(cursor.ps, snap, d) \in Nat /\ Grown(snap, counters, d) \in Nat
            /\ executed[d] \in Nat
        BY <1>t, GrownFacts
      <3> QED  BY <3>1, <3>2, <3>3
    <2>3. ASSUME NEW j \in 1..Len(batch')
          PROVE  Counted(batch[j].digest)' + batch'[j].count + Grown(snap, counters, batch'[j].digest)
                    <= executed[batch'[j].digest]
      <3>1. PICK d, c : d = batch'[j].digest /\ c = batch'[j].count
        OBVIOUS
      <3>2. d \in Digest /\ c = Grown(cursor.ps, snap, d)
        <4>1. batch'[j] \in Delta
          BY <1>r
        <4> QED  BY <1>r, <2>0, <3>1, <4>1 DEF Delta
      <3>3. Counted(d)' + c + Grown(snap, counters, d) <= executed[d]
        BY <2>2, <3>2
      <3> QED  BY <3>1, <3>3
    <2> QED  BY <1>0, <2>1, <2>2, <2>3 DEF MysqlCount
  <1> QED  BY <1>1, <1>2 DEF MysqlPart

\* A row of the difference is inserted, or its INSERT fails.
LEMMA InsertDeltaCount ==
    ASSUME ReportShape, CollectorShape, RowShape, MysqlPart, InsertDelta
    PROVE  MysqlPart'
  <1>s. MysqlShape
    BY DEF MysqlPart
  <1>a. PICK x, c : x = Head(batch).digest /\ c = Head(batch).count
    OBVIOUS
  <1>0. /\ UNCHANGED <<now, cursor, slowLog, counters, executed, torn, switched, snap, cpc>>
        /\ cpc = "ps_insert" /\ batch # <<>> /\ batch' = Tail(batch)
        /\ InsertNative("ps", x, c, top)
    BY <1>a DEF InsertDelta, sourceVars, tableVars, envVars
  <1>t. /\ counters \in [Digest -> Nat] /\ executed \in [Digest -> Nat]
        /\ cursor.ps \in [Digest -> Nat] /\ snap \in [Digest -> Nat]
        /\ IsFiniteSet({d \in Digest : snap[d] > 0}) /\ n \in Nat
    BY <1>s DEF MysqlShape, CollectorShape
  <1>q. batch \in Seq(Delta) /\ \A j, k \in 1..Len(batch) : batch[j].digest = batch[k].digest => j = k
    BY <1>0, <1>s DEF MysqlShape
  <1>h. /\ 1 \in 1..Len(batch) /\ Head(batch) = batch[1] /\ batch' \in Seq(Delta)
        /\ \A k \in 1..Len(batch') : k + 1 \in 1..Len(batch) /\ batch'[k] = batch[k + 1]
    BY <1>0, <1>q
  <1>x. x \in Digest /\ c \in Nat /\ x = batch[1].digest /\ c = batch[1].count
    BY <1>0, <1>a, <1>h, <1>s, DeltaTypes
  <1>m. /\ Moves /\ \A s \in stats' : s \in stats \/ (s.source = "ps" /\ s.key = x /\ s.count = c)
        /\ n' = n + 1 \/ (n' = n /\ stats' = stats)
    BY <1>0, NativeRow
  <1>1. MysqlShape'
    <2>1. cursor'.ps \in [Digest -> Nat] /\ snap' \in [Digest -> Nat]
          /\ IsFiniteSet({d \in Digest : snap'[d] > 0})
      BY <1>0, <1>t
    <2>2. ASSUME NEW j \in 1..Len(batch'), NEW k \in 1..Len(batch'), batch'[j].digest = batch'[k].digest
          PROVE  j = k
      <3>1. j + 1 = k + 1
        BY <1>q, <1>h, <2>2
      <3> QED  BY <3>1
    <2> QED  BY <1>0, <1>s, <1>h, <2>1, <2>2, MysqlShapeKept
  <1>2. ASSUME ~torn', ~switched' PROVE MysqlCount'
    <2>0. MysqlCount
      BY <1>0, <1>2 DEF MysqlPart
    <2>1. ~InSlow'
      BY <1>0 DEF InSlow
    <2>f. \A d \in Digest : FoundOf(d)' \subseteq FoundOf(d)
      <3>1. NoRow("slow")
        BY <1>m DEF NoRow
      <3> QED  BY <1>0, <3>1, FoundBefore
    <2>c. ASSUME NEW d \in Digest
          PROVE  /\ Counted(d) \in Nat /\ Counted(d)' \in Nat
                 /\ Counted(d)' <= Counted(d) + c
                 /\ (d # x \/ stats' = stats) => Counted(d)' <= Counted(d)
      <3>1. CASE d # x \/ stats' = stats
        <4>1. \A s \in stats' : s \in stats \/ ((s.source = "ps" /\ s.key = d) => s.count = 0)
          BY <1>m, <3>1
        <4>2. Counted(d)' <= Counted(d) + 0 /\ Counted(d) \in Nat /\ Counted(d)' \in Nat
          BY <1>m, <1>s, <2>f, <4>1, CountedGrows
        <4> QED  BY <1>x, <4>2
      <3>2. CASE ~(d # x \/ stats' = stats)
        <4>1. \A s \in stats' : s \in stats \/ ((s.source = "ps" /\ s.key = d) => s.count = c)
          BY <1>m
        <4>2. Counted(d)' <= Counted(d) + c /\ Counted(d) \in Nat /\ Counted(d)' \in Nat
          BY <1>m, <1>s, <1>x, <2>f, <4>1, CountedGrows
        <4> QED  BY <3>2, <4>2
      <3> QED  BY <3>1, <3>2
    <2>2. ASSUME NEW d \in Digest
          PROVE  /\ n' = 0 => Counted(d)' + Grown(cursor.ps, counters, d) <= executed[d]
                 /\ Counted(d)' + Grown(snap, counters, d) <= executed[d]
      <3>1. /\ Grown(cursor.ps, counters, d) \in Nat /\ Grown(snap, counters, d) \in Nat
            /\ executed[d] \in Nat
        BY <1>t, GrownFacts
      <3>2. n' = 0 => n = 0 /\ stats' = stats
        BY <1>m, <1>t
      <3>3. n = 0 => Counted(d) + Grown(cursor.ps, counters, d) <= executed[d]
        BY <2>0 DEF MysqlCount
      <3>4. n' = 0 => Counted(d)' + Grown(cursor.ps, counters, d) <= executed[d]
        BY <2>c, <3>1, <3>2, <3>3
      <3>5. Counted(d) + Grown(snap, counters, d) <= executed[d]
        BY <1>0, <2>0 DEF MysqlCount
      <3>6. CASE d # x
        BY <2>c, <3>1, <3>4, <3>5, <3>6
      <3>7. CASE d = x
        <4>1. Counted(d) + c + Grown(snap, counters, d) <= executed[d]
          BY <1>0, <1>h, <1>x, <2>0, <3>7 DEF MysqlCount
        <4> QED  BY <1>x, <2>c, <3>1, <3>4, <4>1
      <3> QED  BY <3>6, <3>7
    <2>3. ASSUME NEW j \in 1..Len(batch')
          PROVE  Counted(batch[j].digest)' + batch'[j].count + Grown(snap, counters, batch'[j].digest)
                    <= executed[batch'[j].digest]
      <3>1. PICK d, m : d = batch[j + 1].digest /\ m = batch[j + 1].count
        OBVIOUS
      <3>2. batch'[j] = batch[j + 1] /\ j + 1 \in 1..Len(batch)
        BY <1>h
      <3>3. d \in Digest /\ m \in Nat
        BY <1>0, <1>s, <3>1, <3>2, DeltaTypes
      <3>4. d # x
        BY <1>h, <1>q, <1>x, <3>1, <3>2
      <3>5. Counted(d) + m + Grown(snap, counters, d) <= executed[d]
        BY <1>0, <2>0, <3>1, <3>2 DEF MysqlCount
      <3>6. Counted(d)' <= Counted(d) /\ Counted(d) \in Nat /\ Counted(d)' \in Nat
        BY <2>c, <3>3, <3>4
      <3>7. Grown(snap, counters, d) \in Nat /\ executed[d] \in Nat
        BY <1>t, <3>3, GrownFacts
      <3>8. Counted(d)' + m + Grown(snap, counters, d) <= executed[d]
        BY <3>3, <3>5, <3>6, <3>7
      <3> QED  BY <3>1, <3>2, <3>8
    <2> QED  BY <1>0, <2>1, <2>2, <2>3 DEF MysqlCount
  <1> QED  BY <1>1, <1>2 DEF MysqlPart

\* The snapshot is stored, or its storing fails: after rows were inserted that is torn.
LEMMA PutSnapshotCount ==
    ASSUME ReportShape, CollectorShape, RowShape, MysqlPart, PutSnapshot
    PROVE  MysqlPart'
  <1>0. /\ UNCHANGED <<stats, inserted, now, slowLog, counters, executed, switched>>
        /\ cpc = "ps_insert" /\ CursorPut("ps", snap) /\ LeaveConn("mysql")
    BY DEF PutSnapshot, statsVars, sourceVars, tableVars, envVars
  <1>s. MysqlShape
    BY DEF MysqlPart
  <1>t. /\ counters \in [Digest -> Nat] /\ executed \in [Digest -> Nat]
        /\ cursor.ps \in [Digest -> Nat] /\ snap \in [Digest -> Nat] /\ n \in Nat
    BY <1>s DEF MysqlShape, CollectorShape
  <1>c. cpc' \in {"redis", "mysql", "idle"} /\ snap' = NoSnapshot
    BY <1>0, NextConnIn DEF LeaveConn, ResetRound
  <1>p. \/ cursor'.ps = snap /\ torn' = torn
        \/ cursor' = cursor /\ torn' = (torn \/ n > 0)
    BY <1>0 DEF CursorPut, CollectorShape
  <1>1. MysqlShape'
    <2>1. /\ cursor'.ps \in [Digest -> Nat] /\ snap' \in [Digest -> Nat]
          /\ IsFiniteSet({d \in Digest : snap'[d] > 0}) /\ cpc' # "ps_insert"
      BY <1>c, <1>p, <1>t, EmptySnapshot
    <2> QED  BY <1>0, <1>s, <2>1, MysqlShapeKept
  <1>2. ASSUME ~torn', ~switched' PROVE MysqlCount'
    <2>0. MysqlCount
      BY <1>0, <1>2, <1>p DEF MysqlPart
    <2>1. ~InSlow'
      BY <1>c DEF InSlow
    <2>2. ASSUME NEW d \in Digest
          PROVE  Counted(d)' + Grown(cursor'.ps, counters, d) <= executed[d]
      <3>1. Counted(d)' = Counted(d)
        BY <1>0, <1>s, CountedNat
      <3>2. CASE cursor'.ps = snap
        BY <1>0, <2>0, <3>1, <3>2 DEF MysqlCount
      <3>3. CASE cursor' = cursor /\ n = 0
        BY <1>0, <2>0, <3>1, <3>3 DEF MysqlCount
      <3>4. cursor'.ps = snap \/ (cursor' = cursor /\ ~(n > 0))
        BY <1>2, <1>p, Zenon
      <3> QED  BY <1>t, <3>2, <3>3, <3>4
    <2> QED  BY <1>0, <1>c, <2>1, <2>2 DEF MysqlCount
  <1> QED  BY <1>1, <1>2 DEF MysqlPart

----------------------------------------------------------------------------
(* Counted once: the steps *)

\* What the lemmas of the parts need.
LEMMA OnceFacts ==
    ASSUME ReportInv, CursorInv, CursorInv', OnceInv
    PROVE  /\ ReportShape /\ CollectorShape /\ CollectorShape' /\ SlowInv /\ OwnSkipped
           /\ RowShape /\ RedisPart /\ SlowPart /\ MysqlPart
  BY DEF ReportInv, CursorInv, OnceInv

\* Rows of the native sources are not added.
NoNativeRow == NoRow("redis") /\ NoRow("slow") /\ NoRow("ps")

\* A row may be added if it is about an event that has happened.
LEMMA RowShapeKept ==
    ASSUME CollectorShape, CollectorShape', RowShape, execs <= execs',
           \A s \in stats' : \/ s \in stats
                             \/ s.source \in {"redis", "slow"} /\ s.key \in Nat /\ s.key <= execs
                             \/ s.source = "ps" /\ s.count \in Nat
                             \/ s.source \notin {"redis", "slow", "ps"},
           cpc' \notin {"redis_insert", "slow_insert", "ps_insert"} => n' = 0
    PROVE  RowShape'
  <1>0. execs \in Nat /\ execs' \in Nat
    BY DEF CollectorShape
  <1>1. ASSUME NEW s \in stats', s.source \in {"redis", "slow"} PROVE s.key \in Nat /\ s.key <= execs'
    <2>1. s.key \in Nat /\ s.key <= execs
      BY <1>1 DEF RowShape
    <2> QED  BY <1>0, <2>1
  <1>2. ASSUME NEW s \in stats', s.source = "ps" PROVE s.count \in Nat
    BY <1>2 DEF RowShape
  <1> QED  BY <1>1, <1>2 DEF RowShape

LEMMA RowShapeQuiet ==
    ASSUME CollectorShape, CollectorShape', RowShape, execs <= execs', NoNativeRow,
           cpc' \notin {"redis_insert", "slow_insert", "ps_insert"} => n' = 0
    PROVE  RowShape'
  <1>1. \A s \in stats' : s \in stats \/ s.source \notin {"redis", "slow", "ps"}
    BY DEF NoNativeRow, NoRow
  <1> QED  BY <1>1, RowShapeKept

\* A table that is left alone.
LEMMA SameRows ==
    ASSUME ReportShape, UNCHANGED <<stats, inserted, now>>
    PROVE  Moves /\ NoNativeRow
  BY DEF Moves, TableStep, ReportShape, NoNativeRow, NoRow

\* A step that is of no part.
LEMMA QuietOnce ==
    ASSUME ReportInv, CursorInv, CursorInv', OnceInv, Moves, NoNativeRow, execs' = execs,
           cpc' \notin {"redis_insert", "slow_insert", "ps_insert"} => n' = 0,
           RedisQuiet, SlowQuiet, MysqlQuiet
    PROVE  OnceInv'
  <1>0. /\ ReportShape /\ CollectorShape /\ CollectorShape'
        /\ RowShape /\ RedisPart /\ SlowPart /\ MysqlPart
    BY OnceFacts
  <1>1. RowShape'
    <2>1. execs <= execs'
      BY <1>0 DEF CollectorShape
    <2> QED  BY <1>0, <2>1, RowShapeQuiet
  <1>2. RedisPart'
    BY <1>0, RedisQuietKept
  <1>3. SlowPart'
    BY <1>0, SlowQuietKept
  <1>4. MysqlPart'
    BY <1>0, MysqlQuietKept
  <1> QED  BY <1>1, <1>2, <1>3, <1>4 DEF OnceInv

\* The jobs of the table, the restarts of the sources and the tick.
LEMMA IdleOnce ==
    ASSUME ReportInv, CursorInv, CursorInv', OnceInv, Moves, NoNativeRow,
           ring' \in {ring, <<>>}, counters' = counters \/ counters' = NoSnapshot,
           UNCHANGED <<slowLog, executed, execs, cursor, batch, last, top, snap, n, torn, switched>>,
           cpc' = cpc \/ (cpc = "idle" /\ cpc' \in {"redis", "mysql", "idle"})
    PROVE  OnceInv'
  <1>0. CollectorShape /\ RowShape
    BY OnceFacts
  <1>e. execs <= execs' /\ execs \in Nat
    BY <1>0 DEF CollectorShape
  <1>1. RedisQuiet
    BY <1>e DEF RedisQuiet, NoNativeRow, InRedis
  <1>2. SlowQuiet
    BY <1>e DEF SlowQuiet, NoNativeRow
  <1>3. MysqlQuiet
    BY DEF MysqlQuiet, NoNativeRow, InSlow
  <1>4. cpc' \notin {"redis_insert", "slow_insert", "ps_insert"} => n' = 0
    BY <1>0 DEF RowShape
  <1> QED  BY <1>1, <1>2, <1>3, <1>4, QuietOnce

\* The round is left before it has inserted a row, or it is torn.
LEMMA LeftOnce ==
    ASSUME ReportInv, CursorInv, CursorInv', OnceInv, Moves, NoNativeRow,
           UNCHANGED sourceVars, UNCHANGED <<cursor, switched>>, ResetRound,
           cpc' \in {"redis", "mysql", "idle"}, ~torn' => ~torn /\ n = 0
    PROVE  OnceInv'
  <1>0. /\ CollectorShape /\ UNCHANGED <<ring, slowLog, counters, executed, execs, cursor>>
        /\ n' = 0 /\ snap' = NoSnapshot
    BY OnceFacts DEF sourceVars, ResetRound
  <1>e. execs <= execs' /\ execs \in Nat
    BY <1>0 DEF CollectorShape
  <1>1. RedisQuiet
    BY <1>0, <1>e DEF RedisQuiet, NoNativeRow, InRedis
  <1>2. SlowQuiet
    BY <1>0, <1>e DEF SlowQuiet, NoNativeRow
  <1>3. MysqlQuiet
    BY <1>0 DEF MysqlQuiet, NoNativeRow, InSlow
  <1> QED  BY <1>0, <1>1, <1>2, <1>3, QuietOnce

\* A connection fails.
LEMMA FailsOnce ==
    ASSUME ReportInv, CursorInv, CursorInv', OnceInv, NEW c, ConnFails(c),
           UNCHANGED <<stats, inserted, now>>, UNCHANGED sourceVars, UNCHANGED <<cursor, torn, switched>>,
           cpc \notin {"redis_insert", "slow_insert", "ps_insert"}
    PROVE  OnceInv'
  <1>0. ReportShape /\ RowShape
    BY OnceFacts
  <1>1. Moves /\ NoNativeRow
    BY <1>0, SameRows
  <1>2. ResetRound /\ cpc' \in {"redis", "mysql", "idle"}
    BY NextConnIn DEF ConnFails, LeaveConn
  <1>3. n = 0
    BY <1>0 DEF RowShape
  <1> QED  BY <1>1, <1>2, <1>3, LeftOnce

LEMMA CrashOnce ==
    ASSUME ReportInv, CursorInv, CursorInv', OnceInv, Crash
    PROVE  OnceInv'
  <1>0. ReportShape /\ CollectorShape
    BY OnceFacts
  <1>1. Moves /\ NoNativeRow
    <2>1. UNCHANGED <<stats, inserted, now>>
      BY DEF Crash, ProcessDies, statsVars, envVars
    <2> QED  BY <1>0, <2>1, SameRows
  <1>2. ResetRound /\ cpc' = "idle" /\ UNCHANGED sourceVars /\ UNCHANGED <<cursor, switched>>
    BY DEF Crash
  <1>3. ~torn' => ~torn /\ ~(n > 0)
    BY Zenon DEF Crash
  <1>4. n \in Nat
    BY <1>0 DEF CollectorShape
  <1> QED  BY <1>1, <1>2, <1>3, <1>4, LeftOnce

LEMMA RedisSlowOnce ==
    ASSUME ReportInv, CursorInv, CursorInv', OnceInv, RedisSlow
    PROVE  OnceInv'
  <1>0. /\ ReportShape /\ CollectorShape /\ CollectorShape' /\ OwnSkipped
        /\ RowShape /\ RedisPart /\ SlowPart /\ MysqlPart
    BY OnceFacts
  <1>1. /\ execs' = execs + 1 /\ ring' = Append(ring, [id |-> nextId, ev |-> execs + 1])
        /\ UNCHANGED <<stats, inserted, now, slowLog, counters, executed, cursor, cpc, torn, switched>>
        /\ UNCHANGED <<batch, last, top, snap, n>>
    BY DEF RedisSlow, qsVars, statsVars, envVars, roundVars
  <1>2. Moves /\ NoNativeRow /\ execs <= execs'
    BY <1>0, <1>1, SameRows DEF CollectorShape
  <1>3. RowShape'
    <2>1. cpc' \notin {"redis_insert", "slow_insert", "ps_insert"} => n' = 0
      BY <1>0, <1>1 DEF RowShape
    <2> QED  BY <1>0, <1>2, <2>1, RowShapeQuiet
  <1>4. RedisPart'
    BY <1>0, <1>1, RedisAppendKept
  <1>5. SlowPart'
    <2>1. SlowQuiet
      BY <1>1, <1>2 DEF SlowQuiet, NoNativeRow
    <2> QED  BY <1>0, <2>1, SlowQuietKept
  <1>6. MysqlPart'
    <2>1. MysqlQuiet
      BY <1>1, <1>2 DEF MysqlQuiet, NoNativeRow, InSlow
    <2> QED  BY <1>0, <1>2, <2>1, MysqlQuietKept
  <1> QED  BY <1>3, <1>4, <1>5, <1>6 DEF OnceInv

LEMMA MysqlSlowOnce ==
    ASSUME ReportInv, CursorInv, CursorInv', OnceInv, NEW d \in Digest, MysqlSlow(d)
    PROVE  OnceInv'
  <1>0. /\ ReportShape /\ CollectorShape /\ CollectorShape'
        /\ RowShape /\ RedisPart /\ SlowPart /\ MysqlPart
    BY OnceFacts
  <1>1. /\ execs' = execs + 1
        /\ UNCHANGED <<stats, inserted, now, ring, cursor, cpc, torn>>
        /\ UNCHANGED <<batch, last, top, n>>
    BY DEF MysqlSlow, qsVars, statsVars, envVars, roundVars
  <1>2. NoNativeRow /\ execs <= execs'
    BY <1>0, <1>1, SameRows DEF CollectorShape
  <1>3. RowShape'
    <2>1. cpc' \notin {"redis_insert", "slow_insert", "ps_insert"} => n' = 0
      BY <1>0, <1>1 DEF RowShape
    <2> QED  BY <1>0, <1>2, <2>1, RowShapeQuiet
  <1>4. RedisPart'
    <2>1. RedisQuiet
      BY <1>1, <1>2 DEF RedisQuiet, NoNativeRow
    <2> QED  BY <1>0, <2>1, RedisQuietKept
  <1>5. SlowPart'
    BY <1>0, SlowAppendKept
  <1>6. MysqlPart'
    BY <1>0, MysqlSlowCount
  <1> QED  BY <1>3, <1>4, <1>5, <1>6 DEF OnceInv

LEMMA FetchSlowlogOnce ==
    ASSUME ReportInv, CursorInv, CursorInv', OnceInv, FetchSlowlog
    PROVE  OnceInv'
  <1>0. /\ ReportShape /\ CollectorShape /\ CollectorShape' /\ OwnSkipped
        /\ RowShape /\ RedisPart /\ SlowPart /\ MysqlPart
    BY OnceFacts
  <1>1. /\ cpc = "redis" /\ n = 0
        /\ UNCHANGED <<stats, inserted, now, slowLog, ties, counters, executed, upsets, slowOn, cursor, torn, switched>>
    BY <1>0 DEF FetchSlowlog, tableVars, envVars, RowShape
  <1>2. CASE /\ cpc' = "redis_cursor"
             /\ batch' = Reverse(SubSeq(ring, 1 + Before(Len(ring), Batch), Len(ring)))
             /\ execs' = execs + 1 \/ execs' = execs
             /\ UNCHANGED <<last, top, base, snap, n>>
    <2>1. Moves /\ NoNativeRow /\ execs <= execs'
      BY <1>0, <1>1, <1>2, SameRows DEF CollectorShape
    <2>2. RowShape'
      BY <1>0, <1>1, <1>2, <2>1, RowShapeQuiet
    <2>3. RedisPart'
      BY <1>0, <1>2, FetchRedisOnce
    <2>4. SlowPart'
      <3>1. SlowQuiet
        BY <1>1, <1>2, <2>1 DEF SlowQuiet, NoNativeRow
      <3> QED  BY <1>0, <3>1, SlowQuietKept
    <2>5. MysqlPart'
      <3>1. MysqlQuiet
        BY <1>1, <1>2, <2>1 DEF MysqlQuiet, NoNativeRow, InSlow
      <3> QED  BY <1>0, <2>1, <3>1, MysqlQuietKept
    <2> QED  BY <2>2, <2>3, <2>4, <2>5 DEF OnceInv
  <1>3. CASE ConnFails("redis") /\ UNCHANGED <<ring, nextId, execs>>
    <2>1. UNCHANGED sourceVars
      BY <1>1, <1>3 DEF sourceVars
    <2> QED  BY <1>1, <1>3, <2>1, FailsOnce
  <1> QED  BY <1>2, <1>3 DEF FetchSlowlog

LEMMA ReadCursorOnce ==
    ASSUME ReportInv, CursorInv, CursorInv', OnceInv, ReadRedisCursor \/ ReadSlowCursor
    PROVE  OnceInv'
  <1>0. /\ ReportShape /\ CollectorShape /\ CollectorShape'
        /\ RowShape /\ RedisPart /\ SlowPart /\ MysqlPart
    BY OnceFacts
  <1>1. /\ UNCHANGED <<stats, inserted, now, ring, slowLog, counters, executed, execs, cursor, switched>>
        /\ UNCHANGED <<batch, top, snap, n>>
        /\ \/ cpc = "redis_cursor" /\ cpc' = "redis_insert"
           \/ cpc = "slow_cursor" /\ cpc' = "slow_rows"
    BY DEF ReadRedisCursor, ReadSlowCursor, statsVars, sourceVars, tableVars, envVars
  <1>t. (~torn' => ~torn) /\ n = 0
    <2>1. n = 0
      BY <1>0, <1>1 DEF RowShape
    <2>2. ~torn' => ~torn
      BY DEF ReadRedisCursor, ReadSlowCursor, CursorGet
    <2> QED  BY <2>1, <2>2
  <1>2. Moves /\ NoNativeRow /\ execs <= execs'
    BY <1>0, <1>1, SameRows DEF CollectorShape
  <1>3. RowShape'
    BY <1>0, <1>1, <1>2, <1>t, RowShapeQuiet
  <1>4. MysqlPart'
    <2>1. MysqlQuiet
      BY <1>1, <1>2, <1>t DEF MysqlQuiet, NoNativeRow, InSlow
    <2> QED  BY <1>0, <1>2, <2>1, MysqlQuietKept
  <1>5. CASE ReadRedisCursor
    <2>1. SlowQuiet
      <3>1. cpc = "redis_cursor" /\ cpc' = "redis_insert"
        BY <1>5 DEF ReadRedisCursor
      <3> QED  BY <1>1, <1>2, <1>t, <3>1 DEF SlowQuiet, NoNativeRow
    <2>2. SlowPart'
      BY <1>0, <2>1, SlowQuietKept
    <2>3. RedisPart'
      BY <1>0, <1>5, ReadRedisOnce
    <2> QED  BY <1>3, <1>4, <2>2, <2>3 DEF OnceInv
  <1>6. CASE ReadSlowCursor
    <2>1. RedisQuiet
      <3>1. cpc = "slow_cursor" /\ cpc' = "slow_rows"
        BY <1>6 DEF ReadSlowCursor
      <3> QED  BY <1>1, <1>2, <1>t, <3>1 DEF RedisQuiet, NoNativeRow, InRedis
    <2>2. RedisPart'
      BY <1>0, <2>1, RedisQuietKept
    <2>3. SlowPart'
      BY <1>0, <1>6, ReadSlowOnce
    <2> QED  BY <1>3, <1>4, <2>2, <2>3 DEF OnceInv
  <1> QED  BY <1>5, <1>6

LEMMA InsertEntryOnce ==
    ASSUME ReportInv, CursorInv, CursorInv', OnceInv, InsertEntry
    PROVE  OnceInv'
  <1>0. /\ ReportShape /\ CollectorShape /\ CollectorShape' /\ OwnSkipped
        /\ RowShape /\ RedisPart /\ SlowPart /\ MysqlPart
    BY OnceFacts
  <1>a. PICK v, i : v = Head(batch).ev /\ i = Head(batch).id
    OBVIOUS
  <1>1. /\ UNCHANGED <<now, ring, slowLog, counters, executed, execs, cursor, cpc, last, snap, torn, switched>>
        /\ cpc = "redis_insert" /\ batch # <<>>
        /\ \/ UNCHANGED <<stats, inserted, n, top>>
           \/ InsertNative("redis", v, 1, Max({top, i}))
    BY <1>a DEF InsertEntry, sourceVars, tableVars, envVars, statsVars
  <1>2. v \in Nat /\ v <= execs
    <2>1. InRedis /\ RedisEvents /\ batch \in Seq(Entry)
      BY <1>0, <1>1 DEF InRedis, RedisPart, CollectorShape
    <2>2. 1 \in 1..Len(batch) /\ Head(batch) = batch[1]
      BY <1>1, <2>1
    <2> QED  BY <1>0, <1>a, <2>1, <2>2, EntryTypes DEF RedisEvents
  <1>3. Moves /\ \A s \in stats' : s \in stats \/ (s.source = "redis" /\ s.key = v)
    <2>1. CASE UNCHANGED <<stats, inserted, n, top>>
      BY <1>0, <1>1, <2>1, SameRows
    <2>2. CASE InsertNative("redis", v, 1, Max({top, i}))
      <3>1. PICK p : p = Max({top, i})
        OBVIOUS
      <3>2. InsertNative("redis", v, 1, p)
        BY <2>2, <3>1
      <3> QED  BY <1>0, <1>1, <3>2, NativeRow
    <2> QED  BY <1>1, <2>1, <2>2
  <1>4. RowShape'
    <2>1. execs <= execs' /\ cpc' = "redis_insert"
      BY <1>0, <1>1 DEF CollectorShape
    <2> QED  BY <1>0, <1>2, <1>3, <2>1, RowShapeKept
  <1>5. RedisPart'
    BY <1>0, InsertRedisOnce
  <1>6. SlowPart'
    <2>1. SlowQuiet
      BY <1>0, <1>1, <1>3 DEF SlowQuiet, NoRow, CollectorShape
    <2> QED  BY <1>0, <2>1, SlowQuietKept
  <1>7. MysqlPart'
    <2>1. MysqlQuiet
      BY <1>1, <1>3 DEF MysqlQuiet, NoRow, InSlow
    <2> QED  BY <1>0, <1>3, <2>1, MysqlQuietKept
  <1> QED  BY <1>4, <1>5, <1>6, <1>7 DEF OnceInv

LEMMA PutRedisCursorOnce ==
    ASSUME ReportInv, CursorInv, CursorInv', OnceInv, PutRedisCursor
    PROVE  OnceInv'
  <1>0. /\ ReportShape /\ CollectorShape /\ CollectorShape'
        /\ RowShape /\ RedisPart /\ SlowPart /\ MysqlPart
    BY OnceFacts
  <1>1. /\ UNCHANGED <<stats, inserted, now, ring, slowLog, counters, executed, execs, switched>>
        /\ cpc = "redis_insert" /\ cpc' \in {"redis", "mysql", "idle"} /\ n' = 0 /\ snap' = NoSnapshot
    BY NextConnIn DEF PutRedisCursor, LeaveConn, ResetRound, statsVars, sourceVars, tableVars, envVars
  <1>c. cursor'.slow = cursor.slow /\ cursor'.ps = cursor.ps
    BY <1>0 DEF PutRedisCursor, CursorPut, CollectorShape
  <1>t. ~torn' => ~torn
    BY DEF PutRedisCursor, CursorPut
  <1>2. Moves /\ NoNativeRow /\ execs <= execs'
    BY <1>0, <1>1, SameRows DEF CollectorShape
  <1>3. RowShape'
    BY <1>0, <1>1, <1>2, RowShapeQuiet
  <1>4. RedisPart'
    BY <1>0, PutRedisOnce
  <1>5. SlowPart'
    <2>1. SlowQuiet
      BY <1>1, <1>2, <1>c, <1>t DEF SlowQuiet, NoNativeRow
    <2> QED  BY <1>0, <2>1, SlowQuietKept
  <1>6. MysqlPart'
    <2>1. MysqlQuiet
      BY <1>1, <1>2, <1>c, <1>t DEF MysqlQuiet, NoNativeRow, InSlow
    <2> QED  BY <1>0, <1>2, <2>1, MysqlQuietKept
  <1> QED  BY <1>3, <1>4, <1>5, <1>6 DEF OnceInv

LEMMA ReadSettingsOnce ==
    ASSUME ReportInv, CursorInv, CursorInv', OnceInv, ReadSettings
    PROVE  OnceInv'
  <1>0. /\ ReportShape /\ CollectorShape /\ CollectorShape'
        /\ RowShape /\ RedisPart /\ SlowPart /\ MysqlPart
    BY OnceFacts
  <1>1. cpc = "mysql" /\ n = 0 /\ UNCHANGED <<stats, inserted, now, cursor, torn>> /\ UNCHANGED sourceVars
    BY <1>0 DEF ReadSettings, statsVars, tableVars, envVars, RowShape
  <1>2. CASE /\ cpc' = IF slowOn THEN "slow_cursor" ELSE "ps_rows"
             /\ switched' = (switched \/ (slowOn /\ CountersKept)) /\ UNCHANGED roundVars
    <2>1. Moves /\ NoNativeRow /\ execs <= execs' /\ UNCHANGED <<ring, slowLog>>
      BY <1>0, <1>1, SameRows DEF CollectorShape, sourceVars
    <2>2. cpc' \in {"slow_cursor", "ps_rows"} /\ (cpc' = "slow_cursor" => slowOn) /\ n' = 0
      BY <1>1, <1>2 DEF roundVars
    <2>3. RowShape'
      BY <1>0, <2>1, <2>2, RowShapeQuiet
    <2>4. RedisPart'
      <3>1. RedisQuiet
        BY <1>1, <2>1, <2>2 DEF RedisQuiet, NoNativeRow, InRedis
      <3> QED  BY <1>0, <3>1, RedisQuietKept
    <2>5. SlowPart'
      <3>1. SlowQuiet
        BY <1>1, <2>1, <2>2 DEF SlowQuiet, NoNativeRow
      <3> QED  BY <1>0, <3>1, SlowQuietKept
    <2>6. MysqlPart'
      BY <1>0, <1>2, <2>2, SettingsCount
    <2> QED  BY <2>3, <2>4, <2>5, <2>6 DEF OnceInv
  <1>3. CASE ConnFails("mysql") /\ UNCHANGED switched
    BY <1>1, <1>3, FailsOnce
  <1> QED  BY <1>2, <1>3 DEF ReadSettings

LEMMA FetchSlowRowsOnce ==
    ASSUME ReportInv, CursorInv, CursorInv', OnceInv, FetchSlowRows
    PROVE  OnceInv'
  <1>0. /\ ReportShape /\ CollectorShape /\ CollectorShape' /\ SlowInv
        /\ RowShape /\ RedisPart /\ SlowPart /\ MysqlPart
    BY OnceFacts
  <1>1. cpc = "slow_rows" /\ n = 0 /\ UNCHANGED <<stats, inserted, now, cursor, torn, switched>>
        /\ UNCHANGED sourceVars
    BY <1>0 DEF FetchSlowRows, tableVars, envVars, RowShape
  <1>2. CASE cpc' = "slow_insert" /\ UNCHANGED <<snap, n>>
    <2>1. /\ Moves /\ NoNativeRow /\ execs <= execs'
          /\ UNCHANGED <<ring, slowLog, counters, executed>>
      BY <1>0, <1>1, SameRows DEF CollectorShape, sourceVars
    <2>2. RowShape'
      BY <1>0, <1>2, <2>1, RowShapeQuiet
    <2>3. RedisPart'
      <3>1. RedisQuiet
        BY <1>1, <1>2, <2>1 DEF RedisQuiet, NoNativeRow, InRedis
      <3> QED  BY <1>0, <3>1, RedisQuietKept
    <2>4. SlowPart'
      BY <1>0, <1>2, FetchSlowOnce
    <2>5. MysqlPart'
      <3>1. MysqlQuiet
        BY <1>1, <1>2, <2>1 DEF MysqlQuiet, NoNativeRow, InSlow
      <3> QED  BY <1>0, <2>1, <3>1, MysqlQuietKept
    <2> QED  BY <2>2, <2>3, <2>4, <2>5 DEF OnceInv
  <1>3. CASE ConnFails("mysql")
    BY <1>1, <1>3, FailsOnce
  <1> QED  BY <1>2, <1>3 DEF FetchSlowRows

LEMMA InsertSlowRowOnce ==
    ASSUME ReportInv, CursorInv, CursorInv', OnceInv, InsertSlowRow
    PROVE  OnceInv'
  <1>0. /\ ReportShape /\ CollectorShape /\ CollectorShape' /\ SlowInv
        /\ RowShape /\ RedisPart /\ SlowPart /\ MysqlPart
    BY OnceFacts
  <1>a. PICK v, p : v = Head(batch).ev /\ p = Head(batch).pos
    OBVIOUS
  <1>1. /\ UNCHANGED <<now, ring, slowLog, execs, cursor, cpc, torn>>
        /\ cpc = "slow_insert" /\ batch # <<>> /\ InsertNative("slow", v, 1, p)
    BY <1>a DEF InsertSlowRow, sourceVars, tableVars, envVars
  <1>2. v \in Nat /\ v <= execs
    <2>1. SlowEvents /\ batch \in Seq(SlowRow)
      BY <1>0, <1>1 DEF SlowPart, CollectorShape
    <2>2. 1 \in 1..Len(batch) /\ Head(batch) = batch[1]
      BY <1>1, <2>1
    <2>3. PICK i \in 1..Len(slowLog) : v = slowLog[i].ev
      BY <1>0, <1>1, <1>a, <2>2 DEF SlowInv
    <2> QED  BY <1>0, <2>1, <2>3, LogTypes DEF SlowEvents
  <1>3. \A s \in stats' : s \in stats \/ (s.source = "slow" /\ s.key = v)
    BY <1>0, <1>1, NativeRow
  <1>e. execs <= execs' /\ cpc' = "slow_insert"
    BY <1>0, <1>1 DEF CollectorShape
  <1>4. RowShape'
    BY <1>0, <1>2, <1>3, <1>e, RowShapeKept
  <1>5. RedisPart'
    <2>1. RedisQuiet
      BY <1>1, <1>3, <1>e DEF RedisQuiet, NoRow, InRedis
    <2> QED  BY <1>0, <2>1, RedisQuietKept
  <1>6. SlowPart'
    BY <1>0, InsertSlowOnce
  <1>7. MysqlPart'
    BY <1>0, InsertSlowCount
  <1> QED  BY <1>4, <1>5, <1>6, <1>7 DEF OnceInv

LEMMA PutSlowCursorOnce ==
    ASSUME ReportInv, CursorInv, CursorInv', OnceInv, PutSlowCursor
    PROVE  OnceInv'
  <1>0. /\ ReportShape /\ CollectorShape /\ CollectorShape'
        /\ RowShape /\ RedisPart /\ SlowPart /\ MysqlPart
    BY OnceFacts
  <1>1. /\ UNCHANGED <<stats, inserted, now, ring, slowLog, counters, executed, execs, switched>>
        /\ cpc = "slow_insert" /\ cpc' \in {"redis", "mysql", "idle"} /\ n' = 0 /\ snap' = NoSnapshot
    BY NextConnIn DEF PutSlowCursor, LeaveConn, ResetRound, statsVars, sourceVars, tableVars, envVars
  <1>c. cursor'.redis = cursor.redis /\ cursor'.ps = cursor.ps
    BY <1>0 DEF PutSlowCursor, CursorPut, CollectorShape
  <1>t. ~torn' => ~torn
    BY DEF PutSlowCursor, CursorPut
  <1>2. Moves /\ NoNativeRow /\ execs <= execs'
    BY <1>0, <1>1, SameRows DEF CollectorShape
  <1>3. RowShape'
    BY <1>0, <1>1, <1>2, RowShapeQuiet
  <1>4. RedisPart'
    <2>1. RedisQuiet
      BY <1>1, <1>2, <1>c, <1>t DEF RedisQuiet, NoNativeRow, InRedis
    <2> QED  BY <1>0, <2>1, RedisQuietKept
  <1>5. SlowPart'
    BY <1>0, PutSlowOnce
  <1>6. MysqlPart'
    <2>1. MysqlQuiet
      BY <1>1, <1>2, <1>c, <1>t DEF MysqlQuiet, NoNativeRow, InSlow
    <2> QED  BY <1>0, <1>2, <2>1, MysqlQuietKept
  <1> QED  BY <1>3, <1>4, <1>5, <1>6 DEF OnceInv

\* The steps of the counters leave the parts of the logs alone.
LEMMA CountersAside ==
    ASSUME ReportInv, CursorInv, CursorInv', OnceInv, NoRow("redis"), NoRow("slow"),
           UNCHANGED <<ring, slowLog, execs>>, cursor'.redis = cursor.redis, cursor'.slow = cursor.slow,
           cpc \in {"ps_rows", "ps_cursor", "ps_insert"},
           cpc' \in {"ps_cursor", "ps_insert", "redis", "mysql", "idle"}, ~torn' => ~torn
    PROVE  RedisPart' /\ SlowPart'
  <1>0. CollectorShape /\ CollectorShape' /\ RedisPart /\ SlowPart
    BY OnceFacts
  <1>1. execs <= execs'
    BY <1>0 DEF CollectorShape
  <1>2. RedisQuiet
    BY <1>1 DEF RedisQuiet, InRedis
  <1>3. SlowQuiet
    BY <1>1 DEF SlowQuiet
  <1> QED  BY <1>0, <1>2, <1>3, RedisQuietKept, SlowQuietKept

LEMMA SnapshotsOnce ==
    ASSUME ReportInv, CursorInv, CursorInv', OnceInv, FetchDigests \/ ReadSnapshot \/ PutSnapshot
    PROVE  OnceInv'
  <1>0. /\ ReportShape /\ CollectorShape /\ CollectorShape' /\ RowShape /\ MysqlPart
    BY OnceFacts
  <1>1. /\ UNCHANGED <<stats, inserted, now, switched>> /\ UNCHANGED sourceVars
    BY DEF FetchDigests, ReadSnapshot, PutSnapshot, statsVars, tableVars, envVars
  <1>2. Moves /\ NoNativeRow /\ UNCHANGED <<ring, slowLog, execs>> /\ execs <= execs'
    BY <1>0, <1>1, SameRows DEF CollectorShape, sourceVars
  <1>3. CASE FetchDigests
    <2>0. cpc = "ps_rows" /\ n = 0 /\ UNCHANGED <<cursor, torn>>
      BY <1>0, <1>3 DEF FetchDigests, RowShape
    <2>1. CASE cpc' = "ps_cursor" /\ n' = n
      <3>1. RowShape'
        BY <1>0, <1>2, <2>0, <2>1, RowShapeQuiet
      <3>2. RedisPart' /\ SlowPart'
        BY <1>2, <2>0, <2>1, CountersAside DEF NoNativeRow
      <3>3. MysqlPart'
        BY <1>0, <1>3, <2>1, FetchDigestsCount
      <3> QED  BY <3>1, <3>2, <3>3 DEF OnceInv
    <2>2. CASE ConnFails("mysql")
      BY <1>1, <2>0, <2>2, FailsOnce
    <2> QED  BY <1>3, <2>1, <2>2 DEF FetchDigests
  <1>4. CASE ReadSnapshot
    <2>0. cpc = "ps_cursor" /\ cpc' = "ps_insert" /\ UNCHANGED cursor
      BY <1>4 DEF ReadSnapshot
    <2>t. ~torn' => ~torn
      BY <1>4 DEF ReadSnapshot, CursorGet
    <2>1. RowShape'
      BY <1>0, <1>2, <2>0, RowShapeQuiet
    <2>2. RedisPart' /\ SlowPart'
      BY <1>2, <2>0, <2>t, CountersAside DEF NoNativeRow
    <2>3. MysqlPart'
      BY <1>0, <1>4, ReadSnapshotCount
    <2> QED  BY <2>1, <2>2, <2>3 DEF OnceInv
  <1>5. CASE PutSnapshot
    <2>0. cpc = "ps_insert" /\ cpc' \in {"redis", "mysql", "idle"} /\ n' = 0
      BY <1>5, NextConnIn DEF PutSnapshot, LeaveConn, ResetRound
    <2>c. cursor'.redis = cursor.redis /\ cursor'.slow = cursor.slow
      BY <1>0, <1>5 DEF PutSnapshot, CursorPut, CollectorShape
    <2>t. ~torn' => ~torn
      BY <1>5 DEF PutSnapshot, CursorPut
    <2>1. RowShape'
      BY <1>0, <1>2, <2>0, RowShapeQuiet
    <2>2. RedisPart' /\ SlowPart'
      BY <1>2, <2>0, <2>c, <2>t, CountersAside DEF NoNativeRow
    <2>3. MysqlPart'
      BY <1>0, <1>5, PutSnapshotCount
    <2> QED  BY <2>1, <2>2, <2>3 DEF OnceInv
  <1> QED  BY <1>3, <1>4, <1>5

LEMMA InsertDeltaOnce ==
    ASSUME ReportInv, CursorInv, CursorInv', OnceInv, InsertDelta
    PROVE  OnceInv'
  <1>0. /\ ReportShape /\ CollectorShape /\ CollectorShape' /\ RowShape /\ MysqlPart
    BY OnceFacts
  <1>a. PICK x, c : x = Head(batch).digest /\ c = Head(batch).count
    OBVIOUS
  <1>1. /\ UNCHANGED <<now, ring, slowLog, execs, cursor, cpc, torn>>
        /\ cpc = "ps_insert" /\ batch # <<>> /\ InsertNative("ps", x, c, top)
    BY <1>a DEF InsertDelta, sourceVars, tableVars, envVars
  <1>2. c \in Nat
    <2>1. MysqlShape /\ batch \in Seq(Delta)
      BY <1>0, <1>1 DEF MysqlPart, MysqlShape
    <2>2. 1 \in 1..Len(batch) /\ Head(batch) = batch[1]
      BY <1>1, <2>1
    <2> QED  BY <1>1, <1>a, <2>1, <2>2, DeltaTypes
  <1>3. \A s \in stats' : s \in stats \/ (s.source = "ps" /\ s.count = c)
    BY <1>0, <1>1, NativeRow
  <1>4. RowShape'
    <2>1. execs <= execs' /\ cpc' = "ps_insert"
      BY <1>0, <1>1 DEF CollectorShape
    <2> QED  BY <1>0, <1>2, <1>3, <2>1, RowShapeKept
  <1>5. RedisPart' /\ SlowPart'
    <2>1. NoRow("redis") /\ NoRow("slow")
      BY <1>3 DEF NoRow
    <2> QED  BY <1>1, <2>1, CountersAside
  <1>6. MysqlPart'
    BY <1>0, InsertDeltaCount
  <1> QED  BY <1>4, <1>5, <1>6 DEF OnceInv

\* The jobs of the table, and the steps of the sources and the ticker that start or
\* empty something.
LEMMA QuietStepsOnce ==
    ASSUME ReportInv, CursorInv, CursorInv', OnceInv,
           \/ StatsNext /\ UNCHANGED collectorVars
           \/ RedisRestart \/ MysqlUpset \/ CollectTick \/ UNCHANGED vars
    PROVE  OnceInv'
  <1>0. ReportShape
    BY OnceFacts
  <1>1. CASE StatsNext /\ UNCHANGED collectorVars
    <2>1. Moves /\ NoNativeRow
      BY <1>0, <1>1, StatsRows DEF NoNativeRow, NoRow
    <2>2. UNCHANGED <<ring, counters, slowLog, executed, execs, cursor, batch, last, top, snap, n,
                      torn, switched, cpc>>
      BY <1>1 DEF collectorVars, sourceVars, roundVars
    <2> QED  BY <2>1, <2>2, IdleOnce
  <1>2. ASSUME UNCHANGED qsVars PROVE Moves /\ NoNativeRow
    BY <1>0, <1>2, SameRows DEF qsVars, statsVars, envVars
  <1>3. CASE RedisRestart
    BY <1>2, <1>3, IdleOnce DEF RedisRestart, roundVars
  <1>4. CASE MysqlUpset
    BY <1>2, <1>4, IdleOnce DEF MysqlUpset, roundVars, NoSnapshot
  <1>5. CASE CollectTick
    BY <1>2, <1>5, NextConnIn, IdleOnce DEF CollectTick, sourceVars, roundVars
  <1>6. CASE UNCHANGED vars
    BY <1>2, <1>6, IdleOnce DEF vars, collectorVars, sourceVars, roundVars
  <1> QED  BY <1>1, <1>3, <1>4, <1>5, <1>6

\* The invariant of the counting holds in every reachable state.
LEMMA OnceInvariant == Spec => []OnceInv
  <1>1. Init => OnceInv
    <2> SUFFICES ASSUME Init PROVE OnceInv
      OBVIOUS
    <2>0. /\ ring = <<>> /\ slowLog = <<>> /\ execs = 0 /\ cpc = "idle" /\ n = 0
          /\ stats = {} /\ inserted = 0 /\ snap = NoSnapshot /\ cursor.ps = NoSnapshot
          /\ counters = NoSnapshot /\ executed = NoSnapshot
      BY DEF Init, StatsInit, NoSnapshot
    <2>1. RowShape /\ RedisPart /\ SlowPart
      BY <2>0 DEF RowShape, RedisPart, RedisEvents, RedisOnce, SlowPart, SlowEvents, SlowOnce,
         InRedis, OneRow
    <2>2. ASSUME NEW d \in Digest
          PROVE  /\ LoggedOf(d) = {} /\ FoundOf(d) = {} /\ Copies("ps", d) = {}
      BY <2>0 DEF LoggedOf, FoundOf, Copies
    <2>3. MysqlShape
      <3>1. ASSUME NEW d \in Digest PROVE IsFiniteSet(LoggedOf(d)) /\ Cardinality(LoggedOf(d)) <= executed[d]
        <4>1. IsFiniteSet(LoggedOf(d)) /\ Cardinality(LoggedOf(d)) = 0
          BY <2>2, FS_EmptySet
        <4>2. executed[d] = 0
          BY <2>0, EmptySnapshot
        <4> QED  BY <4>1, <4>2
      <3> QED  BY <2>0, <3>1, EmptySnapshot DEF MysqlShape
    <2>4. MysqlCount
      <3>1. ASSUME NEW d \in Digest PROVE Counted(d) + Grown(cursor.ps, counters, d) <= executed[d]
        <4>1. SumCounts(Copies("ps", d)) = 0
          BY <2>0, <2>2, SumBelowEmpty DEF SumCounts
        <4>2. Cardinality(FoundOf(d)) = 0
          BY <2>2, FS_EmptySet
        <4>3. Grown(cursor.ps, counters, d) = 0 /\ executed[d] = 0
          BY <2>0, EmptySnapshot DEF Grown
        <4> QED  BY <4>1, <4>2, <4>3 DEF Counted
      <3> QED  BY <2>0, <3>1 DEF MysqlCount, InSlow
    <2> QED  BY <2>1, <2>3, <2>4 DEF OnceInv, MysqlPart
  <1>2. ReportInv /\ CursorInv /\ CursorInv' /\ OnceInv /\ [Next]_vars => OnceInv'
    <2> SUFFICES ASSUME ReportInv, CursorInv, CursorInv', OnceInv, [Next]_vars PROVE OnceInv'
      OBVIOUS
    <2>1. CASE (StatsNext /\ UNCHANGED collectorVars) \/ RedisRestart \/ MysqlUpset \/ CollectTick
               \/ UNCHANGED vars
      BY <2>1, QuietStepsOnce
    <2>2. CASE RedisSlow \/ (\E d \in Digest : MysqlSlow(d)) \/ Crash
      BY <2>2, RedisSlowOnce, MysqlSlowOnce, CrashOnce
    <2>3. CASE CollectorStep
      BY <2>3, FetchSlowlogOnce, ReadCursorOnce, InsertEntryOnce, PutRedisCursorOnce, ReadSettingsOnce,
         FetchSlowRowsOnce, InsertSlowRowOnce, PutSlowCursorOnce, SnapshotsOnce, InsertDeltaOnce
         DEF CollectorStep
    <2> QED  BY <2>1, <2>2, <2>3 DEF Next
  <1> QED  BY <1>1, <1>2, ReportInvariant, CursorInvariant, PTL DEF Spec

\* For any batch size, number of digests in a snapshot, entries, restarts of the
\* sources and switches of the slow log, lost INSERTs, cursor reads and writes and
\* crashes: unless a round was torn between its rows and its cursor, collect_redis and
\* collect_mysql copy no event twice into query_stats, and, unless the slow log was
\* collected after the counters, the counts of a digest never exceed its executions
\* (native_collector.rs).
THEOREM CountedOnceHolds == Spec => []CountedOnce
  <1>1. ReportInv /\ OnceInv => CountedOnce
    <2> SUFFICES ASSUME ReportInv, OnceInv, ~torn PROVE CountedOnce
      BY DEF CountedOnce
    <2>0. RowShape /\ RedisOnce /\ SlowOnce /\ MysqlPart
      BY DEF OnceInv, RedisPart, SlowPart
    <2>1. ASSUME NEW source, OneRow(source), NEW k PROVE Cardinality(Copies(source, k)) <= 1
      <3>1. PICK C : C = Copies(source, k)
        OBVIOUS
      <3>2. \A s, u \in C : s = u
        BY <2>1, <3>1 DEF OneRow, Copies
      <3>3. CASE C = {}
        BY <3>1, <3>3, FS_EmptySet
      <3>4. CASE C # {}
        <4>1. PICK s : C = {s}
          BY <3>2, <3>4
        <4> QED  BY <3>1, <4>1, FS_Singleton
      <3> QED  BY <3>3, <3>4
    <2>2. ASSUME ~switched, NEW d \in Digest PROVE Counted(d) <= executed[d]
      <3>0. MysqlShape /\ MysqlCount
        BY <2>0, <2>2 DEF MysqlPart
      <3>t. /\ counters \in [Digest -> Nat] /\ executed \in [Digest -> Nat]
            /\ cursor.ps \in [Digest -> Nat] /\ snap \in [Digest -> Nat]
        BY <3>0 DEF MysqlShape
      <3>1. Grown(cursor.ps, counters, d) \in Nat /\ Grown(snap, counters, d) \in Nat /\ executed[d] \in Nat
        BY <3>t, GrownFacts
      <3>2. Counted(d) \in Nat
        <4>1. IsFiniteSet(FoundOf(d))
          <5>1. IsFiniteSet(LoggedOf(d)) /\ FoundOf(d) \subseteq LoggedOf(d)
            BY <3>0 DEF MysqlShape, FoundOf, LoggedOf
          <5> QED  BY <5>1, FS_Subset
        <4>2. Cardinality(FoundOf(d)) \in Nat
          BY <4>1, FS_CardinalityType
        <4>3. SumCounts(Copies("ps", d)) \in Nat
          <5>1. \A s \in Copies("ps", d) : s.count \in Nat
            BY <2>0 DEF RowShape, Copies
          <5>2. CountsNat(Copies("ps", d))
            BY <5>1 DEF CountsNat, CountAt
          <5>3. inserted \in Nat
            BY DEF ReportInv, ReportShape
          <5> QED  BY <5>2, <5>3, SumBelowNext DEF SumCounts
        <4> QED  BY <4>2, <4>3 DEF Counted
      <3>3. \/ Counted(d) + Grown(cursor.ps, counters, d) <= executed[d]
            \/ Counted(d) + Grown(snap, counters, d) <= executed[d]
        BY <3>0 DEF MysqlCount
      <3> QED  BY <3>1, <3>2, <3>3
    <2>3. \A e \in 1..execs : Cardinality(Copies("redis", e)) <= 1 /\ Cardinality(Copies("slow", e)) <= 1
      BY <2>0, <2>1 DEF RedisOnce, SlowOnce
    <2> QED  BY <2>2, <2>3 DEF CountedOnce, Counted, FoundOf
  <1> QED  BY <1>1, ReportInvariant, OnceInvariant, PTL
==============================================================================
