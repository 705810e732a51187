------------------------- MODULE StreamQueryProofs --------------------------
(***************************************************************************)
(* Theorems about StreamQuery: the registry names the running executions,  *)
(* what a client is told is in order, and a completion tells the truth      *)
(* about the result.                                                       *)
(***************************************************************************)
EXTENDS StreamQuery, SequenceTheorems, WellFoundedInduction, TLAPS

RunningPc == Serving \cup {"load", "terminal", "cleanup"}

\* What the proof needs of the types.
Shape ==
    /\ registry \in [Id -> Exec \cup {NoExec}]
    /\ id \in [Exec -> Id]
    /\ execPc \in [Exec -> RunningPc \cup {"idle", "done"}]

\* A step that leaves registry and ids alone and moves at most one running
\* execution, which goes on running.
Inner(e) ==
    /\ UNCHANGED <<registry, id>>
    /\ \/ UNCHANGED execPc
       \/ execPc[e] \in RunningPc /\ \E l \in RunningPc : execPc' = [execPc EXCEPT ![e] = l]

\* Everything but the start and the cleanup of an execution is such a step: cancel,
\* the client and the clock do not move it, and the runner goes from one await of
\* the run to the next.
LEMMA InnerSteps ==
    ASSUME NEW e \in Exec,
           \/ \E i \in Id : CancelExecution(i)
           \/ LoadConnection(e) \/ StepInterrupted(e) \/ SendWaiting(e)
           \/ Drain(e) \/ Reply(e) \/ SendTerminal(e)
           \/ DatabaseStep(e)
           \/ ClientReads(e) \/ ClientLeaves(e) \/ DeadlinePasses(e)
    PROVE  Inner(e)
  <1> USE DEF Inner, RunningPc, Serving, control
  <1>1. CASE \E i \in Id : CancelExecution(i)  BY <1>1 DEF CancelExecution
  <1>2. CASE LoadConnection(e)  BY <1>2 DEF LoadConnection, ExecGoto, Return
  <1>3. CASE StepInterrupted(e)
    <2>1. execPc[e] \in RunningPc
      BY <1>3 DEF StepInterrupted, Interrupt, AtCancelPoint, AtDeadlinePoint
    <2>2. execPc' = [execPc EXCEPT ![e] = "terminal"] /\ UNCHANGED <<registry, id>>
      BY <1>3 DEF StepInterrupted, Return, ExecGoto
    <2> QED  BY <2>1, <2>2
  <1>4. CASE SendWaiting(e)  BY <1>4 DEF SendWaiting
  <1>5. CASE Drain(e)  BY <1>5 DEF Drain, Return, ExecGoto
  <1>6. CASE Reply(e)  BY <1>6 DEF Reply, Return, ExecGoto
  <1>7. CASE SendTerminal(e)  BY <1>7 DEF SendTerminal, ExecGoto
  <1>8. CASE DatabaseStep(e)
    <2>1. CASE OpenConnection(e)
      <3>1. AfterOpen(plan[e]) \subseteq {"command", "classify", "execute", "stream"}
        BY DEF AfterOpen
      <3> QED  BY <2>1, <3>1 DEF OpenConnection, ExecGoto, Return
    <2>2. CASE Classify(e)  BY <2>2 DEF Classify, ExecGoto, Return
    <2>3. CASE Execute(e)  BY <2>3 DEF Execute, ExecGoto, Return
    <2>4. CASE Command(e)  BY <2>4 DEF Command, BeginReply, ExecGoto, Return
    <2>5. CASE FetchRow(e)  BY <2>5 DEF FetchRow, CanFetch, ExecGoto
    <2>6. CASE FetchEnd(e)  BY <2>6 DEF FetchEnd, CanFetch, ExecGoto, Return
    <2>7. CASE Panic(e)  BY <2>7 DEF Panic, CanFetch, ExecGoto
    <2> QED  BY <1>8, <2>1, <2>2, <2>3, <2>4, <2>5, <2>6, <2>7 DEF DatabaseStep
  <1>9. CASE ClientReads(e)  BY <1>9 DEF ClientReads
  <1>10. CASE ClientLeaves(e)  BY <1>10 DEF ClientLeaves
  <1>11. CASE DeadlinePasses(e)  BY <1>11 DEF DeadlinePasses
  <1> QED  BY <1>1, <1>2, <1>3, <1>4, <1>5, <1>6, <1>7, <1>8, <1>9, <1>10, <1>11

\* Every step starts an execution, cleans one up, or is an inner step.
LEMMA StepKinds ==
    ASSUME [StreamNext]_streamVars
    PROVE  \/ \E e \in Exec : StartQuery(e) \/ Cleanup(e) \/ Inner(e)
           \/ UNCHANGED <<registry, id, execPc>>
  <1>1. CASE UNCHANGED streamVars  BY <1>1 DEF streamVars, control
  <1>2. CASE \E i \in Id : CancelExecution(i)  BY <1>2 DEF CancelExecution
  <1>3. ASSUME NEW e \in Exec,
               \/ StartQuery(e) \/ ServerStep(e) \/ DatabaseStep(e)
               \/ ClientReads(e) \/ ClientLeaves(e) \/ DeadlinePasses(e)
        PROVE  StartQuery(e) \/ Cleanup(e) \/ Inner(e)
    BY <1>3, InnerSteps DEF ServerStep
  <1> QED  BY <1>1, <1>2, <1>3 DEF StreamNext

IInv == Shape /\ RegistryTracksRunning

\* The registry names only running executions, so it does not grow with the
\* executions that have ended, and an execution whose id nobody else has used is
\* always found by it; for any number of executions and ids, any plans, and every
\* interleaving of cancel, deadline, client and database.
THEOREM RegistryTracked == StreamSpec => []RegistryTracksRunning
  <1> USE StreamAssumption
  <1>1. StreamInit => IInv
    BY DEF StreamInit, IInv, Shape, RegistryTracksRunning, Running
  <1>2. IInv /\ [StreamNext]_streamVars => IInv'
    <2> SUFFICES ASSUME IInv, [StreamNext]_streamVars PROVE IInv'
      OBVIOUS
    <2>1. CASE UNCHANGED <<registry, id, execPc>>
      BY <2>1 DEF IInv, Shape, RegistryTracksRunning, Running
    <2>2. ASSUME NEW e \in Exec, Inner(e) PROVE IInv'
      <3>1. Shape'  BY <2>2 DEF IInv, Shape, Inner
      <3>2. \A f \in Exec : Running(f)' = Running(f) /\ (execPc'[f] = "idle") = (execPc[f] = "idle")
        BY <2>2 DEF IInv, Shape, Inner, Running, RunningPc, Serving
      <3> QED  BY <2>2, <3>1, <3>2 DEF IInv, Shape, Inner, RegistryTracksRunning
    <2>3. ASSUME NEW e \in Exec, StartQuery(e) PROVE IInv'
      <3>1. /\ registry' = [registry EXCEPT ![id[e]] = e]
            /\ id' = id /\ execPc[e] = "idle" /\ execPc' = [execPc EXCEPT ![e] = "load"]
        BY <2>3 DEF StartQuery, ExecGoto
      <3>2. Shape'  BY <3>1 DEF IInv, Shape, RunningPc
      <3>3. ASSUME NEW i \in Id, registry'[i] # NoExec
            PROVE  id'[registry'[i]] = i /\ Running(registry[i])' 
        BY <3>1, <3>3 DEF IInv, Shape, RegistryTracksRunning, Running
      <3>4. ASSUME NEW f \in Exec, Running(f)',
                   \A g \in Exec \ {f} : id'[g] = id'[f] => execPc'[g] = "idle"
            PROVE  registry'[id'[f]] = f
        BY <3>1, <3>4 DEF IInv, Shape, RegistryTracksRunning, Running
      <3> QED  BY <3>2, <3>3, <3>4 DEF IInv, RegistryTracksRunning
    <2>4. ASSUME NEW e \in Exec, Cleanup(e) PROVE IInv'
      <3>1. /\ registry' = [registry EXCEPT ![id[e]] = NoExec]
            /\ id' = id /\ execPc[e] = "cleanup" /\ execPc' = [execPc EXCEPT ![e] = "done"]
        BY <2>4 DEF Cleanup, Unregistered, ExecGoto
      <3>2. Shape'  BY <3>1 DEF IInv, Shape
      <3>3. ASSUME NEW i \in Id, registry'[i] # NoExec
            PROVE  id'[registry'[i]] = i /\ Running(registry[i])'
        BY <3>1, <3>3 DEF IInv, Shape, RegistryTracksRunning, Running
      <3>4. ASSUME NEW f \in Exec, Running(f)',
                   \A g \in Exec \ {f} : id'[g] = id'[f] => execPc'[g] = "idle"
            PROVE  registry'[id'[f]] = f
        BY <3>1, <3>4 DEF IInv, Shape, RegistryTracksRunning, Running
      <3> QED  BY <3>2, <3>3, <3>4 DEF IInv, RegistryTracksRunning
    <2> QED  BY <2>1, <2>2, <2>3, <2>4, StepKinds
  <1>3. IInv => RegistryTracksRunning
    BY DEF IInv
  <1> QED  BY <1>1, <1>2, <1>3, PTL DEF StreamSpec

\* A result is told of as long as the task may still send.
MaySend(e) == execPc[e] \notin {"cleanup", "done"}

QueryShape ==
    /\ execPc \in [Exec -> RunningPc \cup {"idle", "done"}]
    /\ count \in [Exec -> 0..RowLimit] /\ batch \in [Exec -> 0..RowLimit]
    /\ meta \in [Exec -> {"none", "pending", "sent"}]
    /\ outcome \in [Exec -> Event \cup {None}]
    /\ chan \in [Exec -> Seq(Event)] /\ heard \in [Exec -> Seq(Event)]
    /\ DOMAIN plan \subseteq Exec /\ \A e \in DOMAIN plan : plan[e] \in Plan
    /\ \A e \in Exec : execPc[e] # "idle" => e \in DOMAIN plan

\* Where a leg can be, and how far its result has been read there.
Progress(e) ==
    /\ batch[e] <= count[e]
    /\ execPc[e] \in {"idle", "load", "open", "classify", "execute", "command"} =>
             count[e] = 0 /\ meta[e] = "none"
    /\ execPc[e] = "execute" => plan[e].write
    /\ execPc[e] \in {"stream", "drain"} =>
             plan[e].leg \in {"pool", "tds", "mongo"} /\ count[e] <= plan[e].size
    /\ execPc[e] = "stream" => count[e] < RowLimit /\ (count[e] = 0 => meta[e] = "none")
    /\ execPc[e] = "drain" => count[e] \in {RowLimit, plan[e].size}
    /\ execPc[e] = "reply" =>
             /\ plan[e].leg \in {"redis", "tdengine"} \/ (plan[e].leg = "mongo" /\ plan[e].size = 1)
             /\ count[e] = Limited(plan[e].size)
    /\ count[e] > 0 => meta[e] # "none"

\* The first two clauses of EventOrder, of one sequence of events.
Ordered(s) ==
    /\ \A j, k \in DOMAIN s : j < k => ~IsTerminal(s[j]) /\ s[k].type # "meta"
    /\ \A k \in DOMAIN s : s[k].type = "rows" => s[1].type = "meta"

\* Nothing is told before the meta event, it is the first, and a terminal event
\* ends what is told.
Told(e) ==
    /\ Ordered(Events(e))
    /\ MaySend(e) => \A k \in DOMAIN Events(e) : ~IsTerminal(Events(e)[k])
    /\ MaySend(e) /\ meta[e] # "sent" => Events(e) = <<>>
    /\ e \notin gone /\ meta[e] = "sent" => Events(e) # <<>> /\ Events(e)[1].type = "meta"
    /\ execPc[e] = "terminal" => IsTerminal(outcome[e])
    /\ ~MaySend(e) /\ e \notin gone =>
         \/ \E k \in DOMAIN Events(e) : IsTerminal(Events(e)[k])
         \/ plan[e].leg = "tds" /\ outcome[e] = Error("DB_ERROR")

\* What a complete event says of the size of the result.
TrueCount(e, ev) ==
    IF ev.truncated THEN ev.n = RowLimit /\ plan[e].size >= RowLimit ELSE ev.n = plan[e].size
CutShort(e) == e \in cancelled \cup overdue /\ plan[e].leg \in {"pool", "tds", "mongo"}

\* Every complete event in s is true and preceded by the rows that it counts.
Accounted(e, s) ==
    \A k \in DOMAIN s : s[k].type = "complete" /\ ~plan[e].write =>
        /\ TrueCount(e, s[k])
        /\ RowsIn(SubSeq(s, 1, k - 1)) = s[k].n \/ CutShort(e)

\* The rows told and the rows buffered are the rows read.
Tallied(e) ==
    /\ e \notin gone /\ MaySend(e) => RowsIn(Events(e)) + batch[e] = count[e]
    /\ execPc[e] = "terminal" /\ outcome[e].type = "complete" /\ ~plan[e].write =>
             /\ TrueCount(e, outcome[e]) /\ outcome[e].n = count[e]
             /\ batch[e] = 0 \/ CutShort(e)
    /\ Accounted(e, Events(e))

ExecInv(e) == Progress(e) /\ Told(e) /\ Tallied(e)
QueryInv == QueryShape /\ \A e \in Exec : ExecInv(e)

----------------------------------------------------------------------------
(* Sums of rows.  The induction over the length of a sequence is made by    *)
(* its least counterexample.                                                *)

\* A set of naturals has a least element.
LEMMA LeastElement ==
    ASSUME NEW T, T \subseteq Nat, T # {}
    PROVE  \E x \in T : \A y \in T : x <= y
  <1> DEFINE R == OpToRel(<, Nat)
  <1>1. IsWellFoundedOn(R, Nat)
    BY NatLessThanWellFounded
  <1>2. \A x, y \in Nat : x < y => <<x, y>> \in R
    BY DEF OpToRel
  <1> HIDE DEF R
  <1>3. PICK x \in T : \A y \in T : ~ (<<y, x>> \in R)
    BY <1>1, WFMin
  <1>4. \A y \in T : ~ (y < x)
    BY <1>2, <1>3
  <1> QED  BY <1>3, <1>4

\* g holds the sums of the first 0, 1, ..., m rows of s.
PartialSums(g, s, m) == g[0] = 0 /\ \A k \in 1..m : g[k] = g[k - 1] + s[k].n

\* Partial sums exist.
LEMMA SumsExist ==
    ASSUME NEW s \in Seq(Event)
    PROVE  \E g \in [0..Len(s) -> Nat] : PartialSums(g, s, Len(s))
  <1> DEFINE Upto(m) == \E g \in [0..m -> Nat] : PartialSums(g, s, m)
             Bad == {m \in 0..Len(s) : ~Upto(m)}
  <1>0. Len(s) \in Nat
    OBVIOUS
  <1>1. Upto(0)
    <2> DEFINE g == [k \in 0..0 |-> 0]
    <2>1. g \in [0..0 -> Nat] /\ PartialSums(g, s, 0)
      BY DEF PartialSums
    <2> HIDE DEF g
    <2> QED  BY <2>1
  <1>2. ASSUME NEW m \in 1..Len(s), Upto(m - 1) PROVE Upto(m)
    <2>1. PICK g \in [0..(m - 1) -> Nat] : PartialSums(g, s, m - 1)
      BY <1>2
    <2> DEFINE h == [k \in 0..m |-> IF k = m THEN g[m - 1] + s[m].n ELSE g[k]]
    <2>2. s[m].n \in Nat /\ m \in Nat
      <3>1. s[m] \in Event
        OBVIOUS
      <3> QED  BY <3>1, StreamAssumption DEF Event
    <2>3. h \in [0..m -> Nat]
      BY <2>2
    <2>4. PartialSums(h, s, m)
      BY <2>1, <2>2 DEF PartialSums
    <2> HIDE DEF h
    <2> QED  BY <2>3, <2>4
  <1> HIDE DEF Upto
  <1>3. Bad = {}
    <2> SUFFICES ASSUME Bad # {} PROVE FALSE
      OBVIOUS
    <2>0. Bad \subseteq Nat
      BY <1>0
    <2>1. PICK m \in Bad : \A y \in Bad : m <= y
      <3> HIDE DEF Bad
      <3> QED  BY <2>0, LeastElement
    <2>2. m # 0 /\ m - 1 \in 0..Len(s) /\ m - 1 \notin Bad
      BY <1>0, <1>1, <2>1
    <2> QED  BY <1>2, <2>1, <2>2
  <1>4. Upto(Len(s))
    BY <1>0, <1>3
  <1> QED  BY <1>4 DEF Upto

\* Partial sums are unique.
LEMMA SumsAgree ==
    ASSUME NEW m \in Nat, NEW s, NEW g, NEW h, PartialSums(g, s, m), PartialSums(h, s, m)
    PROVE  \A k \in 0..m : g[k] = h[k]
  <1> DEFINE Bad == {k \in 0..m : g[k] # h[k]}
  <1> SUFFICES ASSUME Bad # {} PROVE FALSE
    OBVIOUS
  <1>0. Bad \subseteq Nat
    OBVIOUS
  <1>1. PICK k \in Bad : \A y \in Bad : k <= y
    <2> HIDE DEF Bad
    <2> QED  BY <1>0, LeastElement
  <1>2. k # 0 /\ k \in 1..m
    BY <1>1 DEF PartialSums
  <1>3. k - 1 \in 0..m /\ k - 1 \notin Bad
    BY <1>1, <1>2
  <1>4. g[k] = g[k - 1] + s[k].n /\ h[k] = h[k - 1] + s[k].n
    BY <1>2 DEF PartialSums
  <1> QED  BY <1>1, <1>3, <1>4

\* RowsIn is the last of the partial sums.
LEMMA RowsInIsSum ==
    ASSUME NEW s \in Seq(Event), NEW g, PartialSums(g, s, Len(s))
    PROVE  RowsIn(s) = g[Len(s)] /\ RowsIn(s) \in Nat
  <1> DEFINE Solves(f) == f = [k \in 0..Len(s) |-> IF k = 0 THEN 0 ELSE f[k - 1] + s[k].n]
             sum == CHOOSE f : Solves(f)
  <1>0. Len(s) \in Nat
    OBVIOUS
  <1>1. PICK f \in [0..Len(s) -> Nat] : PartialSums(f, s, Len(s))
    BY SumsExist
  <1>2. Solves(f)
    BY <1>0, <1>1 DEF PartialSums
  <1>3. Solves(sum)
    BY <1>2
  <1>4. RowsIn(s) = sum[Len(s)]
    BY DEF RowsIn
  <1>5. PartialSums(sum, s, Len(s))
    <2> HIDE DEF sum
    <2> QED  BY <1>0, <1>3 DEF PartialSums
  <1> HIDE DEF sum, Solves
  <1>6. sum[Len(s)] = g[Len(s)] /\ sum[Len(s)] = f[Len(s)]
    BY <1>0, <1>1, <1>5, SumsAgree
  <1> QED  BY <1>0, <1>1, <1>4, <1>6

\* No event, no rows.
LEMMA RowsInEmpty == RowsIn(<<>>) = 0
  <1> DEFINE s == <<>>
             g == [k \in 0..0 |-> 0]
  <1>1. s \in Seq(Event) /\ Len(s) = 0
    OBVIOUS
  <1>2. PartialSums(g, s, 0) /\ g[0] = 0
    BY DEF PartialSums
  <1> HIDE DEF g, s
  <1>3. RowsIn(s) = 0
    BY <1>1, <1>2, RowsInIsSum
  <1> QED  BY <1>3 DEF s

\* One more event adds its rows.
LEMMA RowsInAppend ==
    ASSUME NEW s \in Seq(Event), NEW ev \in Event
    PROVE  RowsIn(Append(s, ev)) = RowsIn(s) + ev.n /\ RowsIn(s) \in Nat
  <1> DEFINE t == Append(s, ev)
  <1>1. PICK g \in [0..Len(t) -> Nat] : PartialSums(g, t, Len(t))
    <2>1. t \in Seq(Event)
      OBVIOUS
    <2> QED  BY <2>1, SumsExist
  <1>2. /\ t \in Seq(Event) /\ Len(t) = Len(s) + 1 /\ Len(s) \in Nat /\ t[Len(t)] = ev
        /\ \A k \in 1..Len(s) : t[k] = s[k]
    OBVIOUS
  <1> HIDE DEF t
  <1>3. PartialSums(g, s, Len(s))
    BY <1>1, <1>2 DEF PartialSums
  <1>4. g[Len(t)] = g[Len(s)] + ev.n
    BY <1>1, <1>2 DEF PartialSums
  <1>5. RowsIn(t) = g[Len(t)] /\ RowsIn(s) = g[Len(s)] /\ RowsIn(s) \in Nat
    BY <1>1, <1>2, <1>3, RowsInIsSum
  <1> QED  BY <1>4, <1>5 DEF t

----------------------------------------------------------------------------
(* What is told stays ordered and accounted when an event is added, and when *)
(* the client leaves and loses what it has not read.                         *)

\* An event may follow if no terminal event came before, meta only as the first and
\* rows only after meta.
LEMMA OrderedAppend ==
    ASSUME NEW s \in Seq(Event), NEW ev \in Event, Ordered(s),
           \A k \in DOMAIN s : ~IsTerminal(s[k]),
           ev.type = "meta" => s = <<>>,
           ev.type = "rows" => s # <<>> /\ s[1].type = "meta"
    PROVE  Ordered(Append(s, ev))
  <1> DEFINE t == Append(s, ev)
  <1>1. /\ DOMAIN s = 1..Len(s) /\ DOMAIN t = 1..(Len(s) + 1) /\ Len(s) \in Nat
        /\ t[Len(s) + 1] = ev /\ \A k \in 1..Len(s) : t[k] = s[k]
        /\ s = <<>> => Len(s) = 0
        /\ s # <<>> => Len(s) > 0
    OBVIOUS
  <1> HIDE DEF t
  <1>2. \A j, k \in DOMAIN t : j < k => ~IsTerminal(t[j]) /\ t[k].type # "meta"
    BY <1>1 DEF Ordered
  <1>3. \A k \in DOMAIN t : t[k].type = "rows" => t[1].type = "meta"
    BY <1>1 DEF Ordered
  <1>4. Ordered(t)
    BY <1>2, <1>3 DEF Ordered
  <1> QED  BY <1>4 DEF t

\* A true completion can be added to what is accounted for.
LEMMA AccountedAppend ==
    ASSUME NEW e, NEW s \in Seq(Event), NEW ev \in Event, Accounted(e, s),
           ev.type = "complete" /\ ~plan[e].write =>
               TrueCount(e, ev) /\ (RowsIn(s) = ev.n \/ CutShort(e))
    PROVE  Accounted(e, Append(s, ev))
  <1> DEFINE t == Append(s, ev)
  <1>1. /\ DOMAIN s = 1..Len(s) /\ DOMAIN t = 1..(Len(s) + 1) /\ Len(s) \in Nat
        /\ t[Len(s) + 1] = ev /\ \A k \in 1..Len(s) : t[k] = s[k]
    OBVIOUS
  <1>2. ASSUME NEW k \in 1..(Len(s) + 1) PROVE SubSeq(t, 1, k - 1) = SubSeq(s, 1, k - 1)
    BY <1>1
  <1>3. SubSeq(s, 1, Len(s)) = s
    BY SubSeqFull
  <1> HIDE DEF t
  <1>4. SubSeq(t, 1, (Len(s) + 1) - 1) = s
    BY <1>1, <1>2, <1>3
  <1>5. Accounted(e, t)
    <2> SUFFICES ASSUME NEW k \in 1..(Len(s) + 1), t[k].type = "complete", ~plan[e].write
                 PROVE  /\ TrueCount(e, t[k])
                        /\ RowsIn(SubSeq(t, 1, k - 1)) = t[k].n \/ CutShort(e)
      BY <1>1 DEF Accounted
    <2>1. CASE k = Len(s) + 1
      BY <1>1, <1>4, <2>1
    <2>2. CASE k \in 1..Len(s)
      <3>1. t[k] = s[k] /\ k \in DOMAIN s /\ SubSeq(t, 1, k - 1) = SubSeq(s, 1, k - 1)
        BY <1>1, <1>2, <2>2
      <3> QED  BY <3>1 DEF Accounted
    <2> QED  BY <1>1, <2>1, <2>2
  <1> QED  BY <1>5 DEF t

\* What was read is a prefix of what was told, and as ordered and as accounted for.
LEMMA PrefixKeeps ==
    ASSUME NEW e, NEW h \in Seq(Event), NEW c \in Seq(Event), Ordered(h \o c), Accounted(e, h \o c)
    PROVE  /\ Ordered(h) /\ Accounted(e, h)
           /\ \A k \in DOMAIN h : k \in DOMAIN (h \o c) /\ (h \o c)[k] = h[k]
  <1> DEFINE t == h \o c
  <1>1. /\ DOMAIN h = 1..Len(h) /\ DOMAIN t = 1..(Len(h) + Len(c)) /\ Len(h) \in Nat /\ Len(c) \in Nat
        /\ \A k \in 1..Len(h) : t[k] = h[k]
    OBVIOUS
  <1>2. ASSUME NEW k \in 1..Len(h) PROVE SubSeq(t, 1, k - 1) = SubSeq(h, 1, k - 1)
    BY <1>1
  <1> HIDE DEF t
  <1>3. Ordered(t) /\ Accounted(e, t)
    BY DEF t
  <1>4. Ordered(h)
    BY <1>1, <1>3 DEF Ordered
  <1>5. ASSUME NEW k \in DOMAIN h, h[k].type = "complete", ~plan[e].write
        PROVE  TrueCount(e, h[k]) /\ (RowsIn(SubSeq(h, 1, k - 1)) = h[k].n \/ CutShort(e))
    <2>1. k \in DOMAIN t /\ t[k] = h[k] /\ SubSeq(t, 1, k - 1) = SubSeq(h, 1, k - 1)
      BY <1>1, <1>2
    <2> QED  BY <1>3, <1>5, <2>1 DEF Accounted
  <1>6. \A k \in DOMAIN h : k \in DOMAIN t /\ t[k] = h[k]
    BY <1>1
  <1> QED  BY <1>4, <1>5, <1>6 DEF Accounted, t

\* Reading an event moves it from the channel to what was heard.
LEMMA ReadMovesHead ==
    ASSUME NEW h \in Seq(Event), NEW c \in Seq(Event), c # <<>>
    PROVE  Append(h, Head(c)) \o Tail(c) = h \o c
  <1> DEFINE a == Append(h, Head(c))
             t == Tail(c)
  <1>1. /\ a \in Seq(Event) /\ t \in Seq(Event) /\ Len(a) = Len(h) + 1 /\ Len(t) = Len(c) - 1
        /\ Len(h) \in Nat /\ Len(c) \in Nat \ {0}
        /\ a[Len(h) + 1] = c[1] /\ \A k \in 1..Len(h) : a[k] = h[k]
        /\ \A k \in 1..(Len(c) - 1) : t[k] = c[k + 1]
    BY HeadTailProperties, EmptySeq, AppendProperties
  <1> HIDE DEF a, t
  <1>2. /\ a \o t \in Seq(Event) /\ h \o c \in Seq(Event)
        /\ Len(a \o t) = Len(h) + Len(c) /\ Len(h \o c) = Len(h) + Len(c)
    <2>1. a \o t \in Seq(Event) /\ Len(a \o t) = Len(a) + Len(t)
      BY <1>1, ConcatProperties
    <2>2. h \o c \in Seq(Event) /\ Len(h \o c) = Len(h) + Len(c)
      BY ConcatProperties
    <2> QED  BY <1>1, <2>1, <2>2
  <1>3. ASSUME NEW k \in 1..(Len(h) + Len(c)) PROVE (a \o t)[k] = (h \o c)[k]
    <2>1. CASE k <= Len(h)
      BY <1>1, <2>1
    <2>2. CASE k = Len(h) + 1
      BY <1>1, <2>2
    <2>3. CASE k > Len(h) + 1
      BY <1>1, <2>3
    <2> QED  BY <1>1, <2>1, <2>2, <2>3
  <1> QED  BY <1>2, <1>3, SeqEqual DEF a, t

\* An event sent is the last of what is told.
LEMMA ConcatAppend ==
    ASSUME NEW h \in Seq(Event), NEW c \in Seq(Event), NEW ev \in Event
    PROVE  h \o Append(c, ev) = Append(h \o c, ev)
  <1> DEFINE a == Append(c, ev)
             b == Append(h \o c, ev)
  <1>1. /\ a \in Seq(Event) /\ Len(a) = Len(c) + 1 /\ Len(h) \in Nat /\ Len(c) \in Nat
        /\ a[Len(c) + 1] = ev /\ \A k \in 1..Len(c) : a[k] = c[k]
    BY AppendProperties
  <1>2. h \o c \in Seq(Event) /\ Len(h \o c) = Len(h) + Len(c)
    BY ConcatProperties
  <1>3. /\ b \in Seq(Event) /\ Len(b) = Len(h) + Len(c) + 1
        /\ b[Len(h) + Len(c) + 1] = ev /\ \A k \in 1..(Len(h) + Len(c)) : b[k] = (h \o c)[k]
    BY <1>1, <1>2, AppendProperties
  <1> HIDE DEF a, b
  <1>4. h \o a \in Seq(Event) /\ Len(h \o a) = Len(h) + Len(a)
    BY <1>1, ConcatProperties
  <1>5. ASSUME NEW k \in 1..(Len(h) + Len(c) + 1) PROVE (h \o a)[k] = b[k]
    <2>1. CASE k <= Len(h)
      BY <1>1, <1>3, <2>1
    <2>2. CASE k = Len(h) + Len(c) + 1
      BY <1>1, <1>3, <2>2
    <2>3. CASE k > Len(h) /\ k < Len(h) + Len(c) + 1
      <3>1. k - Len(h) \in 1..Len(c) /\ k \in 1..(Len(h) + Len(c))
        BY <1>1, <2>3
      <3>2. (h \o a)[k] = a[k - Len(h)] /\ (h \o c)[k] = c[k - Len(h)]
        BY <1>1, <2>3
      <3> QED  BY <1>1, <1>3, <3>1, <3>2
    <2> QED  BY <1>1, <2>1, <2>2, <2>3
  <1> QED  BY <1>1, <1>3, <1>4, <1>5, SeqEqual DEF a, b

----------------------------------------------------------------------------
(* Steps *)

\* A step leaves execution f alone, and at most tells more of it to be cancelled
\* or out of time.
Still(f) ==
    /\ execPc'[f] = execPc[f] /\ count'[f] = count[f] /\ batch'[f] = batch[f] /\ meta'[f] = meta[f]
    /\ outcome'[f] = outcome[f] /\ chan'[f] = chan[f] /\ heard'[f] = heard[f]
    /\ f \in gone' <=> f \in gone
World == plan' = plan /\ cancelled \subseteq cancelled' /\ overdue \subseteq overdue'

\* Accounts only depend on the events and the plan, and stay true when a cut comes.
LEMMA AccountedStays ==
    ASSUME World, NEW e, Accounted(e, Events(e)), Events(e)' = Events(e)
    PROVE  Accounted(e, Events(e))'
  <1>1. /\ \A ev : TrueCount(e, ev) => TrueCount(e, ev)'
        /\ CutShort(e) => CutShort(e)'
    BY DEF World, TrueCount, CutShort
  <1> QED  BY <1>1 DEF World, Accounted

\* An execution that is left alone keeps its invariant.
LEMMA StillKeeps ==
    ASSUME QueryInv, World, NEW f \in Exec, Still(f)
    PROVE  ExecInv(f)'
  <1>1. Events(f)' = Events(f)
    BY DEF Events, Still
  <1>2. ExecInv(f)
    BY DEF QueryInv
  <1>3. Progress(f)'
    BY <1>2 DEF ExecInv, Progress, Still, World
  <1>4. Told(f)'
    BY <1>1, <1>2 DEF ExecInv, Told, MaySend, Still, World, Ordered
  <1>5. Accounted(f, Events(f))'
    BY <1>1, <1>2, AccountedStays DEF ExecInv, Tallied
  <1>6. Tallied(f)'
    BY <1>1, <1>2, <1>5 DEF ExecInv, Tallied, MaySend, TrueCount, CutShort, Still, World
  <1> QED  BY <1>3, <1>4, <1>6 DEF ExecInv

\* A step of one execution.
LEMMA OneMoves ==
    ASSUME QueryInv, QueryShape', World, NEW e \in Exec, \A f \in Exec : f # e => Still(f),
           ExecInv(e)'
    PROVE  QueryInv'
  BY StillKeeps DEF QueryInv

\* The run returns: its outcome waits to be sent.
LEMMA Returns ==
    ASSUME QueryInv, NEW e \in Exec, NEW o \in Event, Return(e, o), IsTerminal(o),
           UNCHANGED <<control, count, batch, meta, chan, heard>>,
           execPc[e] \in Serving \cup {"load"},
           o.type = "complete" /\ ~plan[e].write =>
               /\ TrueCount(e, o) /\ o.n = count[e]
               /\ batch[e] = 0 \/ CutShort(e)
    PROVE  QueryInv'
  <1>0. QueryShape /\ ExecInv(e)
    BY DEF QueryInv
  <1>1. /\ execPc' = [execPc EXCEPT ![e] = "terminal"] /\ outcome' = [outcome EXCEPT ![e] = o]
        /\ UNCHANGED <<gone, cancelled, overdue, plan, count, batch, meta, chan, heard>>
    BY DEF Return, ExecGoto, control
  <1>2. World /\ Events(e)' = Events(e)
    BY <1>1 DEF World, Events
  <1>3. /\ execPc'[e] = "terminal" /\ outcome'[e] = o
        /\ \A f \in Exec : f # e => execPc'[f] = execPc[f] /\ outcome'[f] = outcome[f]
        /\ execPc' \in [Exec -> RunningPc \cup {"idle", "done"}]
        /\ outcome' \in [Exec -> Event \cup {None}]
    BY <1>0, <1>1 DEF QueryShape, RunningPc
  <1>4. QueryShape'
    BY <1>0, <1>1, <1>3 DEF QueryShape, Serving
  <1>5. Progress(e)'
    BY <1>0, <1>1, <1>3 DEF ExecInv, Progress
  <1>6. MaySend(e) /\ MaySend(e)'
    BY <1>3 DEF MaySend, Serving
  <1>7. Told(e)'
    BY <1>0, <1>1, <1>2, <1>3, <1>6 DEF ExecInv, Told, Ordered
  <1>8. Accounted(e, Events(e))'
    BY <1>0, <1>2, AccountedStays DEF ExecInv, Tallied
  <1>9. Tallied(e)'
    BY <1>0, <1>1, <1>2, <1>3, <1>6, <1>8 DEF ExecInv, Tallied, TrueCount, CutShort
  <1> QED  BY <1>1, <1>2, <1>3, <1>4, <1>5, <1>7, <1>9, OneMoves DEF ExecInv, Still

\* The run goes on to another await, or reads on; nothing is told.
LEMMA GoesOn ==
    ASSUME QueryInv, QueryShape', NEW e \in Exec, World, gone' = gone,
           UNCHANGED <<outcome, chan, heard>>,
           \A f \in Exec : f # e => /\ execPc'[f] = execPc[f] /\ count'[f] = count[f]
                                    /\ batch'[f] = batch[f] /\ meta'[f] = meta[f],
           MaySend(e), execPc'[e] \in Serving \cup {"load"}, Progress(e)',
           meta'[e] = meta[e] \/ (meta[e] = "none" /\ meta'[e] = "pending"),
           count'[e] - batch'[e] = count[e] - batch[e]
    PROVE  QueryInv'
  <1>0. QueryShape /\ ExecInv(e)
    BY DEF QueryInv
  <1>1. Events(e)' = Events(e) /\ MaySend(e)'
    BY DEF Events, MaySend, Serving
  <1>2. Told(e)'
    BY <1>0, <1>1 DEF ExecInv, Told, Ordered, Serving
  <1>3. Accounted(e, Events(e))'
    BY <1>0, <1>1, AccountedStays DEF ExecInv, Tallied
  <1>4. e \notin gone => RowsIn(Events(e)) + batch'[e] = count'[e]
    <2>1. e \notin gone => RowsIn(Events(e)) + batch[e] = count[e]
      BY <1>0 DEF ExecInv, Tallied
    <2>2. /\ count[e] \in Nat /\ batch[e] \in Nat /\ count'[e] \in Nat /\ batch'[e] \in Nat
      BY <1>0, StreamAssumption DEF QueryShape
    <2>3. RowsIn(Events(e)) \in Nat
      <3>1. Events(e) \in Seq(Event)
        BY <1>0, ConcatProperties DEF Events, QueryShape
      <3>2. PICK g \in [0..Len(Events(e)) -> Nat] : PartialSums(g, Events(e), Len(Events(e)))
        BY <3>1, SumsExist
      <3> QED  BY <3>1, <3>2, RowsInIsSum
    <2> QED  BY <2>1, <2>2, <2>3
  <1>5. Tallied(e)'
    BY <1>1, <1>3, <1>4 DEF Tallied, Serving
  <1> QED  BY <1>2, <1>5, OneMoves DEF ExecInv, Still

\* tx.send adds the event to what is told, unless the client is gone.
LEMMA Sends ==
    ASSUME QueryShape, NEW e \in Exec, NEW ev \in Event, Send(e, ev), heard' = heard
    PROVE  /\ chan' \in [Exec -> Seq(Event)] /\ \A f \in Exec : f # e => chan'[f] = chan[f]
           /\ Events(e) \in Seq(Event)
           /\ e \in gone => Events(e)' = Events(e)
           /\ e \notin gone => Events(e)' = Append(Events(e), ev)
  <1>1. chan[e] \in Seq(Event) /\ heard[e] \in Seq(Event) /\ Events(e) \in Seq(Event)
    BY ConcatProperties DEF QueryShape, Events
  <1>2. CASE e \in gone
    BY <1>1, <1>2 DEF Send, Events, QueryShape
  <1>3. CASE e \notin gone
    <2>1. chan' = [chan EXCEPT ![e] = Append(chan[e], ev)]
      BY <1>3 DEF Send
    <2>2. Append(chan[e], ev) \in Seq(Event)
      BY <1>1
    <2>3. /\ chan' \in [Exec -> Seq(Event)] /\ chan'[e] = Append(chan[e], ev)
          /\ \A f \in Exec : f # e => chan'[f] = chan[f]
      BY <2>1, <2>2 DEF QueryShape
    <2>4. heard[e] \o Append(chan[e], ev) = Append(heard[e] \o chan[e], ev)
      BY <1>1, ConcatAppend
    <2> QED  BY <1>1, <1>3, <2>3, <2>4 DEF Events
  <1> QED  BY <1>2, <1>3

\* Meta or a batch of rows goes out while the run flushes.
LEMMA Flushes ==
    ASSUME QueryInv, NEW e \in Exec, execPc[e] \in {"stream", "drain", "reply"},
           UNCHANGED <<control, execPc, count, outcome, heard>>, NEW n \in Nat,
           \/ /\ meta[e] = "pending" \/ (meta[e] = "none" /\ count[e] = 0 /\ execPc[e] = "drain")
              /\ Send(e, Meta) /\ meta' = [meta EXCEPT ![e] = "sent"] /\ UNCHANGED batch
           \/ /\ meta[e] # "pending" /\ batch[e] > 0 /\ n <= batch[e]
              /\ Send(e, Rows(n)) /\ batch' = [batch EXCEPT ![e] = batch[e] - n] /\ UNCHANGED meta
    PROVE  QueryInv'
  <1> USE StreamAssumption
  <1>0. QueryShape /\ ExecInv(e)
    BY DEF QueryInv
  <1>1. World /\ gone' = gone /\ plan' = plan
    BY DEF World, control
  <1>2. count[e] \in 0..RowLimit /\ batch[e] \in 0..RowLimit
    BY <1>0 DEF QueryShape
  <1>3. PICK ev \in Event :
          /\ Send(e, ev)
          /\ \/ /\ ev.type = "meta" /\ ev.n = 0 /\ meta[e] # "sent" /\ meta' = [meta EXCEPT ![e] = "sent"]
                /\ batch' = batch
                /\ meta[e] = "none" => count[e] = 0 /\ execPc[e] = "drain"
             \/ /\ ev.type = "rows" /\ ev.n = n /\ n <= batch[e] /\ meta[e] = "sent" /\ meta' = meta
                /\ batch' = [batch EXCEPT ![e] = batch[e] - n]
    <2>1. CASE /\ meta[e] = "pending" \/ (meta[e] = "none" /\ count[e] = 0 /\ execPc[e] = "drain")
               /\ Send(e, Meta) /\ meta' = [meta EXCEPT ![e] = "sent"] /\ UNCHANGED batch
      <3>1. Meta \in Event /\ Meta.type = "meta" /\ Meta.n = 0
        BY DEF Meta, Event
      <3> QED  BY <2>1, <3>1
    <2>2. CASE /\ meta[e] # "pending" /\ batch[e] > 0 /\ n <= batch[e]
               /\ Send(e, Rows(n)) /\ batch' = [batch EXCEPT ![e] = batch[e] - n] /\ UNCHANGED meta
      <3>1. Rows(n) \in Event /\ Rows(n).type = "rows" /\ Rows(n).n = n
        BY <1>2, <2>2 DEF Rows, Event
      <3>2. meta[e] = "sent"
        <4>1. count[e] > 0
          BY <1>0, <1>2, <2>2 DEF ExecInv, Progress
        <4> QED  BY <1>0, <2>2, <4>1 DEF ExecInv, Progress, QueryShape
      <3> QED  BY <2>2, <3>1, <3>2
    <2> QED  BY <2>1, <2>2
  <1>4. /\ chan' \in [Exec -> Seq(Event)] /\ \A f \in Exec : f # e => chan'[f] = chan[f]
        /\ Events(e) \in Seq(Event)
        /\ e \in gone => Events(e)' = Events(e)
        /\ e \notin gone => Events(e)' = Append(Events(e), ev)
    BY <1>0, <1>3, Sends
  <1>5. /\ meta' \in [Exec -> {"none", "pending", "sent"}] /\ batch' \in [Exec -> 0..RowLimit]
        /\ meta'[e] = "sent" /\ \A f \in Exec : f # e => meta'[f] = meta[f] /\ batch'[f] = batch[f]
        /\ batch'[e] = batch[e] - ev.n /\ ev.n <= batch[e]
        /\ ev.n \in Nat
    <2>1. CASE ev.type = "meta"
      <3>1. ev.n = 0 /\ meta' = [meta EXCEPT ![e] = "sent"] /\ batch' = batch
        BY <1>3, <2>1
      <3>2. meta \in [Exec -> {"none", "pending", "sent"}] /\ batch \in [Exec -> 0..RowLimit]
        BY <1>0 DEF QueryShape
      <3> QED  BY <1>2, <3>1, <3>2
    <2>2. CASE ev.type = "rows"
      <3>1. batch[e] - n \in 0..RowLimit
        BY <1>2, <1>3, <2>2
      <3>2. /\ ev.n = n /\ n <= batch[e] /\ meta' = meta /\ meta[e] = "sent"
            /\ batch' = [batch EXCEPT ![e] = batch[e] - n]
        BY <1>3, <2>2
      <3>3. meta \in [Exec -> {"none", "pending", "sent"}] /\ batch \in [Exec -> 0..RowLimit]
        BY <1>0 DEF QueryShape
      <3> QED  BY <1>2, <3>1, <3>2, <3>3
    <2> QED  BY <1>3, <2>1, <2>2
  <1>6. QueryShape'
    BY <1>0, <1>1, <1>4, <1>5 DEF QueryShape
  <1>7. Progress(e)'
    <2>1. execPc[e] = "stream" => count[e] > 0
      <3>1. meta[e] = "none" => execPc[e] = "drain"
        BY <1>3
      <3> QED  BY <1>0, <1>2, <3>1 DEF ExecInv, Progress
    <2> QED  BY <1>0, <1>1, <1>2, <1>5, <2>1 DEF ExecInv, Progress
  <1>8. MaySend(e) /\ MaySend(e)' /\ execPc[e] # "terminal"
    BY DEF MaySend
  <1>9. CASE e \in gone
    <2>1. Told(e)'
      BY <1>0, <1>1, <1>4, <1>5, <1>8, <1>9 DEF ExecInv, Told, Ordered
    <2>2. Accounted(e, Events(e))'
      BY <1>0, <1>1, <1>4, <1>9, AccountedStays DEF ExecInv, Tallied
    <2>3. Tallied(e)'
      BY <1>1, <1>8, <1>9, <2>2 DEF Tallied
    <2> QED  BY <1>1, <1>4, <1>5, <1>6, <1>7, <2>1, <2>3, OneMoves DEF ExecInv, Still
  <1>10. CASE e \notin gone
    <2> DEFINE t == Append(Events(e), ev)
    <2>1. Ordered(t)
      <3>1. Ordered(Events(e)) /\ \A k \in DOMAIN Events(e) : ~IsTerminal(Events(e)[k])
        BY <1>0, <1>8 DEF ExecInv, Told
      <3>2. ev.type = "meta" => Events(e) = <<>>
        BY <1>0, <1>3, <1>8 DEF ExecInv, Told
      <3>3. ev.type = "rows" => Events(e) # <<>> /\ Events(e)[1].type = "meta"
        BY <1>0, <1>3, <1>10 DEF ExecInv, Told
      <3> QED  BY <1>4, <3>1, <3>2, <3>3, OrderedAppend
    <2>2. /\ t # <<>> /\ t[1].type = "meta"
          /\ \A k \in DOMAIN t : ~IsTerminal(t[k])
      <3>1. /\ DOMAIN t = 1..(Len(Events(e)) + 1) /\ Len(Events(e)) \in Nat /\ t # <<>>
            /\ t[Len(Events(e)) + 1] = ev /\ \A k \in 1..Len(Events(e)) : t[k] = Events(e)[k]
            /\ DOMAIN Events(e) = 1..Len(Events(e)) /\ (Events(e) = <<>> => Len(Events(e)) = 0)
            /\ (Events(e) # <<>> => Len(Events(e)) > 0)
        BY <1>4
      <3> HIDE DEF t
      <3>2. ~IsTerminal(ev)
        BY <1>3 DEF IsTerminal, ErrorCode
      <3>3. \A k \in DOMAIN Events(e) : ~IsTerminal(Events(e)[k])
        BY <1>0, <1>8 DEF ExecInv, Told
      <3>4. \A k \in DOMAIN t : ~IsTerminal(t[k])
        BY <3>1, <3>2, <3>3
      <3>5. t[1].type = "meta"
        <4>1. CASE ev.type = "meta"
          <5>1. Events(e) = <<>>
            BY <1>0, <1>3, <1>8, <4>1 DEF ExecInv, Told
          <5> QED  BY <3>1, <4>1, <5>1
        <4>2. CASE ev.type = "rows"
          <5>1. Events(e) # <<>> /\ Events(e)[1].type = "meta"
            BY <1>0, <1>3, <1>10, <4>2 DEF ExecInv, Told
          <5> QED  BY <3>1, <5>1
        <4> QED  BY <1>3, <4>1, <4>2
      <3> QED  BY <3>1, <3>4, <3>5
    <2>3. Accounted(e, t) /\ RowsIn(t) = RowsIn(Events(e)) + ev.n /\ RowsIn(Events(e)) \in Nat
      <3>1. Accounted(e, Events(e)) /\ ev.type # "complete"
        BY <1>0, <1>3 DEF ExecInv, Tallied
      <3> QED  BY <1>4, <3>1, AccountedAppend, RowsInAppend
    <2>4. Events(e)' = t
      BY <1>4, <1>10
    <2> HIDE DEF t
    <2>5. Told(e)'
      <3>1. Ordered(Events(e))'
        BY <2>1, <2>4 DEF Ordered
      <3> QED  BY <1>1, <1>5, <1>8, <2>2, <2>4, <3>1 DEF Told
    <2>6. Accounted(e, Events(e))'
      BY <1>1, <2>3, <2>4 DEF Accounted, TrueCount, CutShort, World
    <2>7. RowsIn(t) + batch'[e] = count[e]
      <3>1. RowsIn(Events(e)) + batch[e] = count[e]
        BY <1>0, <1>8, <1>10 DEF ExecInv, Tallied
      <3> QED  BY <1>2, <1>5, <2>3, <3>1
    <2>8. Tallied(e)'
      BY <1>8, <2>4, <2>6, <2>7 DEF Tallied
    <2> QED  BY <1>1, <1>4, <1>5, <1>6, <1>7, <2>5, <2>8, OneMoves DEF ExecInv, Still
  <1> QED  BY <1>9, <1>10

\* The end of an execution: the terminal event, which ends what is told, a panic in
\* its place, and the cleanup.
LEMMA Ends ==
    ASSUME QueryInv, NEW e \in Exec, SendTerminal(e) \/ Panic(e) \/ Cleanup(e)
    PROVE  QueryInv'
  <1> USE StreamAssumption
  <1>0. QueryShape /\ ExecInv(e)
    BY DEF QueryInv
  <1>1. /\ World /\ gone' = gone /\ plan' = plan /\ UNCHANGED <<count, batch, meta, heard>>
        /\ execPc' = [execPc EXCEPT ![e] = IF execPc[e] = "cleanup" THEN "done" ELSE "cleanup"]
        /\ execPc[e] \in {"terminal", "stream", "cleanup"}
    BY DEF SendTerminal, Panic, CanFetch, Cleanup, ExecGoto, World, control
  <1>2. /\ execPc'[e] \in {"cleanup", "done"} /\ \A f \in Exec : f # e => execPc'[f] = execPc[f]
        /\ execPc' \in [Exec -> RunningPc \cup {"idle", "done"}]
    BY <1>0, <1>1 DEF QueryShape, RunningPc
  <1>3. ~MaySend(e)' /\ execPc'[e] # "terminal"
    BY <1>2 DEF MaySend
  <1>4. Progress(e)'
    BY <1>0, <1>1, <1>2 DEF ExecInv, Progress
  <1>5. e \in DOMAIN plan
    BY <1>0, <1>1 DEF QueryShape
  (* Nothing is told: the client is gone, there was no room after a panic, or the task is over. *)
  <1>6. ASSUME chan' = chan, outcome' \in [Exec -> Event \cup {None}],
               \A f \in Exec : f # e => outcome'[f] = outcome[f],
               \/ e \in gone
               \/ execPc[e] = "cleanup" /\ outcome' = outcome
               \/ plan[e].leg = "tds" /\ outcome'[e] = Error("DB_ERROR")
        PROVE  QueryInv'
    <2>1. Events(e)' = Events(e)
      BY <1>1, <1>6 DEF Events
    <2>2. QueryShape'
      BY <1>0, <1>1, <1>2, <1>5, <1>6 DEF QueryShape
    <2>3. Told(e)'
      <3>1. Ordered(Events(e))'
        BY <1>0, <2>1 DEF ExecInv, Told, Ordered
      <3>2. e \notin gone /\ meta[e] = "sent" => Events(e) # <<>> /\ Events(e)[1].type = "meta"
        BY <1>0 DEF ExecInv, Told
      <3>3. e \notin gone => \/ \E k \in DOMAIN Events(e) : IsTerminal(Events(e)[k])
                             \/ plan[e].leg = "tds" /\ outcome'[e] = Error("DB_ERROR")
        BY <1>0, <1>6 DEF ExecInv, Told, MaySend
      <3> QED  BY <1>1, <1>3, <2>1, <3>1, <3>2, <3>3 DEF Told
    <2>4. Accounted(e, Events(e))'
      BY <1>0, <1>1, <2>1, AccountedStays DEF ExecInv, Tallied
    <2>5. Tallied(e)'
      BY <1>3, <2>4 DEF Tallied
    <2> QED  BY <1>1, <1>2, <1>4, <1>6, <2>2, <2>3, <2>5, OneMoves DEF ExecInv, Still
  (* A terminal event is told. *)
  <1>7. ASSUME NEW ev \in Event, IsTerminal(ev), e \notin gone, MaySend(e),
               chan' \in [Exec -> Seq(Event)], \A f \in Exec : f # e => chan'[f] = chan[f],
               Events(e) \in Seq(Event), Events(e)' = Append(Events(e), ev),
               outcome' \in [Exec -> Event \cup {None}],
               \A f \in Exec : f # e => outcome'[f] = outcome[f],
               ev.type = "complete" /\ ~plan[e].write =>
                   TrueCount(e, ev) /\ (RowsIn(Events(e)) = ev.n \/ CutShort(e))
        PROVE  QueryInv'
    <2> DEFINE t == Append(Events(e), ev)
    <2>1. ev.type \notin {"meta", "rows"}
      BY <1>7 DEF IsTerminal, ErrorCode
    <2>2. Ordered(t) /\ Accounted(e, t)
      <3>1. /\ Ordered(Events(e)) /\ \A k \in DOMAIN Events(e) : ~IsTerminal(Events(e)[k])
            /\ Accounted(e, Events(e))
        BY <1>0, <1>7 DEF ExecInv, Told, Tallied
      <3> QED  BY <1>7, <2>1, <3>1, OrderedAppend, AccountedAppend
    <2>3. /\ t # <<>> /\ \E k \in DOMAIN t : IsTerminal(t[k])
          /\ Events(e) # <<>> => t[1] = Events(e)[1]
      <3>1. /\ DOMAIN t = 1..(Len(Events(e)) + 1) /\ Len(Events(e)) \in Nat /\ t # <<>>
            /\ t[Len(Events(e)) + 1] = ev /\ \A k \in 1..Len(Events(e)) : t[k] = Events(e)[k]
            /\ (Events(e) # <<>> => Len(Events(e)) > 0)
        BY <1>7
      <3> HIDE DEF t
      <3> QED  BY <1>7, <3>1
    <2>4. Events(e)' = t
      BY <1>7
    <2> HIDE DEF t
    <2>5. QueryShape'
      BY <1>0, <1>1, <1>2, <1>5, <1>7 DEF QueryShape
    <2>6. Told(e)'
      <3>1. Ordered(Events(e))'
        BY <2>2, <2>4 DEF Ordered
      <3>2. meta[e] = "sent" => Events(e) # <<>> /\ Events(e)[1].type = "meta"
        BY <1>0, <1>7 DEF ExecInv, Told
      <3> QED  BY <1>1, <1>3, <2>3, <2>4, <3>1, <3>2 DEF Told
    <2>7. Tallied(e)'
      <3>1. Accounted(e, Events(e))'
        BY <1>1, <2>2, <2>4 DEF Accounted, TrueCount, CutShort, World
      <3> QED  BY <1>3, <3>1 DEF Tallied
    <2> QED  BY <1>1, <1>2, <1>4, <1>7, <2>5, <2>6, <2>7, OneMoves DEF ExecInv, Still
  <1>8. CASE SendTerminal(e)
    <2>1. /\ execPc[e] = "terminal" /\ Send(e, outcome[e]) /\ outcome' = outcome /\ MaySend(e)
      BY <1>8 DEF SendTerminal, MaySend
    <2>2. IsTerminal(outcome[e]) /\ outcome[e] \in Event
      <3>1. IsTerminal(outcome[e])
        BY <1>0, <2>1 DEF ExecInv, Told
      <3>2. ~IsTerminal(None)
        BY DEF IsTerminal, None, ErrorCode
      <3> QED  BY <1>0, <3>1, <3>2 DEF QueryShape
    <2>3. /\ chan' \in [Exec -> Seq(Event)] /\ \A f \in Exec : f # e => chan'[f] = chan[f]
          /\ Events(e) \in Seq(Event)
          /\ e \in gone => Events(e)' = Events(e)
          /\ e \notin gone => Events(e)' = Append(Events(e), outcome[e])
      BY <1>0, <1>1, <2>1, <2>2, Sends
    <2>4. outcome' \in [Exec -> Event \cup {None}]
      BY <1>0, <2>1 DEF QueryShape
    <2>5. CASE e \in gone
      <3>1. chan' = chan
        BY <2>1, <2>5 DEF Send
      <3> QED  BY <1>6, <2>1, <2>4, <2>5, <3>1
    <2>6. CASE e \notin gone
      <3>1. outcome[e].type = "complete" /\ ~plan[e].write =>
              TrueCount(e, outcome[e]) /\ (RowsIn(Events(e)) = outcome[e].n \/ CutShort(e))
        <4> SUFFICES ASSUME outcome[e].type = "complete", ~plan[e].write
                     PROVE  TrueCount(e, outcome[e]) /\ (RowsIn(Events(e)) = outcome[e].n \/ CutShort(e))
          OBVIOUS
        <4>1. /\ TrueCount(e, outcome[e]) /\ outcome[e].n = count[e]
              /\ batch[e] = 0 \/ CutShort(e)
              /\ RowsIn(Events(e)) + batch[e] = count[e]
          BY <1>0, <2>1, <2>6 DEF ExecInv, Tallied
        <4>2. RowsIn(Events(e)) \in Nat
          BY <2>2, <2>3, RowsInAppend
        <4> QED  BY <4>1, <4>2
      <3> QED  BY <1>7, <2>1, <2>2, <2>3, <2>4, <2>6, <3>1
    <2> QED  BY <2>5, <2>6
  <1>9. CASE Panic(e)
    <2> DEFINE ev == Error("DB_ERROR")
    <2>1. /\ execPc[e] = "stream" /\ outcome' = [outcome EXCEPT ![e] = ev] /\ plan[e].leg = "tds"
          /\ chan' = IF HasRoom(e) THEN [chan EXCEPT ![e] = Append(@, ev)] ELSE chan
      BY <1>9 DEF Panic, CanFetch
    <2>2. ev \in Event /\ IsTerminal(ev) /\ ev.type # "complete" /\ MaySend(e)
      BY <2>1 DEF Error, Event, IsTerminal, ErrorCode, MaySend
    <2> HIDE DEF ev
    <2>3. /\ outcome' \in [Exec -> Event \cup {None}] /\ outcome'[e] = ev
          /\ \A f \in Exec : f # e => outcome'[f] = outcome[f]
      BY <1>0, <2>1, <2>2 DEF QueryShape
    <2>4. CASE ~HasRoom(e)
      <3>1. chan' = chan
        BY <2>1, <2>4
      <3> QED  BY <1>6, <2>1, <2>3, <3>1 DEF ev
    <2>5. CASE HasRoom(e)
      <3>1. Send(e, ev) /\ e \notin gone
        BY <2>1, <2>5 DEF Send, HasRoom
      <3>2. /\ chan' \in [Exec -> Seq(Event)] /\ \A f \in Exec : f # e => chan'[f] = chan[f]
            /\ Events(e) \in Seq(Event) /\ Events(e)' = Append(Events(e), ev)
        BY <1>0, <1>1, <2>2, <3>1, Sends
      <3> QED  BY <1>7, <2>2, <2>3, <3>1, <3>2
    <2> QED  BY <2>4, <2>5
  <1>10. CASE Cleanup(e)
    <2>1. UNCHANGED <<chan, outcome>> /\ execPc[e] = "cleanup"
      BY <1>10 DEF Cleanup
    <2> QED  BY <1>0, <1>6, <2>1 DEF QueryShape
  <1> QED  BY <1>8, <1>9, <1>10

\* The client reads or leaves, somebody cancels, the deadline passes.
LEMMA Outside ==
    ASSUME QueryInv,
           \/ \E i \in Id : CancelExecution(i)
           \/ \E e \in Exec : ClientReads(e) \/ ClientLeaves(e) \/ DeadlinePasses(e)
           \/ UNCHANGED streamVars
    PROVE  QueryInv'
  <1>0. QueryShape
    BY DEF QueryInv
  <1>1. World
    BY DEF CancelExecution, ClientReads, ClientLeaves, DeadlinePasses, streamVars, control, World
  <1>2. CASE \/ \E i \in Id : CancelExecution(i)
             \/ \E e \in Exec : DeadlinePasses(e)
             \/ UNCHANGED streamVars
    <2>1. UNCHANGED <<execPc, count, batch, meta, outcome, chan, heard, gone, plan>>
      BY <1>2 DEF CancelExecution, DeadlinePasses, streamVars, control
    <2>2. QueryShape' /\ \A f \in Exec : Still(f)
      BY <1>0, <2>1 DEF QueryShape, Still
    <2> QED  BY <1>1, <2>2, StillKeeps DEF QueryInv
  <1>3. ASSUME NEW e \in Exec, ClientReads(e) PROVE QueryInv'
    <2>1. /\ chan[e] # <<>> /\ heard' = [heard EXCEPT ![e] = Append(heard[e], Head(chan[e]))]
          /\ chan' = [chan EXCEPT ![e] = Tail(chan[e])]
          /\ UNCHANGED <<execPc, count, batch, meta, outcome, gone, plan>>
      BY <1>3 DEF ClientReads, control
    <2>2. heard[e] \in Seq(Event) /\ chan[e] \in Seq(Event)
      BY <1>0 DEF QueryShape
    <2>3. Append(heard[e], Head(chan[e])) \in Seq(Event) /\ Tail(chan[e]) \in Seq(Event)
      BY <2>1, <2>2, HeadTailProperties, AppendProperties
    <2>4. /\ chan' \in [Exec -> Seq(Event)] /\ heard' \in [Exec -> Seq(Event)]
          /\ chan'[e] = Tail(chan[e]) /\ heard'[e] = Append(heard[e], Head(chan[e]))
          /\ \A f \in Exec : f # e => chan'[f] = chan[f] /\ heard'[f] = heard[f]
      BY <1>0, <2>1, <2>3 DEF QueryShape
    <2>5. QueryShape'
      BY <1>0, <2>1, <2>4 DEF QueryShape
    <2>6. Events(e)' = Events(e)
      BY <2>1, <2>2, <2>4, ReadMovesHead DEF Events
    <2>7. ExecInv(e)
      BY DEF QueryInv
    <2>8. Progress(e)' /\ Told(e)'
      BY <2>1, <2>6, <2>7 DEF ExecInv, Progress, Told, Ordered, MaySend
    <2>9. Accounted(e, Events(e))'
      BY <1>1, <2>6, <2>7, AccountedStays DEF ExecInv, Tallied
    <2>10. Tallied(e)'
      BY <1>1, <2>1, <2>6, <2>7, <2>9 DEF ExecInv, Tallied, MaySend, TrueCount, CutShort, World
    <2> QED  BY <1>1, <2>1, <2>4, <2>5, <2>8, <2>10, OneMoves DEF ExecInv, Still
  <1>4. ASSUME NEW e \in Exec, ClientLeaves(e) PROVE QueryInv'
    <2>1. /\ gone' = gone \cup {e} /\ chan' = [chan EXCEPT ![e] = <<>>]
          /\ UNCHANGED <<execPc, count, batch, meta, outcome, heard, plan>>
      BY <1>4 DEF ClientLeaves
    <2>2. heard[e] \in Seq(Event) /\ chan[e] \in Seq(Event) /\ <<>> \in Seq(Event)
      BY <1>0 DEF QueryShape
    <2>3. /\ chan' \in [Exec -> Seq(Event)] /\ chan'[e] = <<>>
          /\ \A f \in Exec : f # e => chan'[f] = chan[f]
      BY <1>0, <2>1, <2>2 DEF QueryShape
    <2>4. QueryShape'
      BY <1>0, <2>1, <2>3 DEF QueryShape
    <2>5. Events(e)' = heard[e]
      BY <2>1, <2>2, <2>3, ConcatEmptySeq DEF Events
    <2>6. ExecInv(e)
      BY DEF QueryInv
    <2>7. Ordered(heard[e]) /\ Accounted(e, heard[e])
      BY <2>2, <2>6, PrefixKeeps DEF ExecInv, Told, Tallied, Events
    <2>8. Progress(e)'
      BY <2>1, <2>6 DEF ExecInv, Progress
    <2>9. Told(e)'
      <3>1. Ordered(Events(e))'
        BY <2>5, <2>7 DEF Ordered
      <3>2. \A k \in DOMAIN heard[e] : k \in DOMAIN Events(e) /\ Events(e)[k] = heard[e][k]
        <4> DEFINE h == heard[e]
                   c == chan[e]
        <4>1. h \in Seq(Event) /\ c \in Seq(Event) /\ Ordered(h \o c) /\ Accounted(e, h \o c)
          BY <2>2, <2>6 DEF ExecInv, Told, Tallied, Events
        <4> HIDE DEF h, c
        <4>2. \A k \in DOMAIN h : k \in DOMAIN (h \o c) /\ (h \o c)[k] = h[k]
          BY <4>1, PrefixKeeps
        <4> QED  BY <4>2 DEF Events, h, c
      <3>3. Events(e) = <<>> => heard[e] = <<>>
        BY <2>2, ConcatEqualIffEmpty DEF Events
      <3> QED  BY <2>1, <2>5, <2>6, <3>1, <3>2, <3>3 DEF ExecInv, Told, MaySend
    <2>10. Tallied(e)'
      <3>1. Accounted(e, Events(e))'
        BY <1>1, <2>5, <2>7 DEF Accounted, TrueCount, CutShort, World
      <3> QED  BY <1>1, <2>1, <2>6, <3>1 DEF ExecInv, Tallied, MaySend, TrueCount, CutShort, World
    <2> QED  BY <1>1, <2>1, <2>3, <2>4, <2>8, <2>9, <2>10, OneMoves DEF ExecInv, Still
  <1> QED  BY <1>2, <1>3, <1>4

\* Errors and completions are terminal events.
LEMMA Terminals ==
    /\ \A c \in ErrorCode : /\ Error(c) \in Event /\ IsTerminal(Error(c)) /\ Error(c).type # "complete"
    /\ \A n \in 0..RowLimit : \A t \in BOOLEAN :
         /\ Complete(n, t) \in Event /\ IsTerminal(Complete(n, t))
         /\ Complete(n, t).n = n /\ (Complete(n, t).truncated <=> t)
  BY StreamAssumption DEF Error, Complete, Event, IsTerminal, ErrorCode

\* A failed run.
LEMMA Fails ==
    ASSUME QueryInv, NEW e \in Exec, NEW c \in ErrorCode, Return(e, Error(c)),
           UNCHANGED <<control, count, batch, meta, chan, heard>>,
           execPc[e] \in Serving \cup {"load"}
    PROVE  QueryInv'
  <1> DEFINE o == Error(c)
  <1>1. o \in Event /\ IsTerminal(o) /\ o.type # "complete"
    BY Terminals
  <1>2. Return(e, o)
    OBVIOUS
  <1> HIDE DEF o
  <1> QED  BY <1>1, <1>2, Returns

\* A completed run.
LEMMA Completes ==
    ASSUME QueryInv, NEW e \in Exec, NEW n \in 0..RowLimit, NEW t \in BOOLEAN,
           Return(e, Complete(n, t)), UNCHANGED <<control, count, batch, meta, chan, heard>>,
           execPc[e] \in Serving,
           ~plan[e].write => /\ IF t THEN n = RowLimit /\ plan[e].size >= RowLimit
                                ELSE n = plan[e].size
                             /\ n = count[e]
                             /\ batch[e] = 0 \/ CutShort(e)
    PROVE  QueryInv'
  <1> DEFINE o == Complete(n, t)
  <1>1. o \in Event /\ IsTerminal(o) /\ o.n = n /\ (o.truncated <=> t)
    BY Terminals
  <1>2. Return(e, o)
    OBVIOUS
  <1> HIDE DEF o
  <1>3. ~plan[e].write => TrueCount(e, o)
    BY <1>1 DEF TrueCount
  <1> QED  BY <1>1, <1>2, <1>3, Returns

\* A completed statement without rows.
LEMMA Executes ==
    ASSUME QueryInv, NEW e \in Exec, Return(e, Complete(0, FALSE)), plan[e].write,
           UNCHANGED <<control, count, batch, meta, chan, heard>>, execPc[e] \in Serving
    PROVE  QueryInv'
  <1> DEFINE o == Complete(0, FALSE)
  <1>0. 0 \in 0..RowLimit /\ FALSE \in BOOLEAN
    BY StreamAssumption
  <1>1. o \in Event /\ IsTerminal(o)
    BY <1>0, Terminals
  <1>2. Return(e, o)
    OBVIOUS
  <1> HIDE DEF o
  <1> QED  BY <1>1, <1>2, Returns

\* From the request to the first answer.
LEMMA Opening ==
    ASSUME QueryInv, NEW e \in Exec,
           \/ StartQuery(e) \/ LoadConnection(e) \/ OpenConnection(e) \/ Classify(e) \/ Execute(e)
    PROVE  QueryInv'
  <1> USE StreamAssumption
  <1>0. QueryShape /\ Progress(e)
    BY DEF QueryInv, ExecInv
  <1>1. /\ World /\ gone' = gone /\ plan' = plan /\ UNCHANGED <<count, batch, meta, chan, heard>>
        /\ execPc[e] \in {"idle", "load", "open", "classify", "execute"}
    BY DEF StartQuery, LoadConnection, OpenConnection, Classify, Execute, World, control
  <1>2. count[e] = 0 /\ batch[e] = 0 /\ meta[e] = "none"
    BY <1>0, <1>1 DEF Progress, QueryShape
  <1>3. ASSUME NEW l \in {"load", "open", "classify", "execute", "command", "stream"}, ExecGoto(e, l),
               UNCHANGED outcome, e \in DOMAIN plan,
               l = "execute" => plan[e].write,
               l = "stream" => plan[e].leg = "pool"
        PROVE  QueryInv'
    <2>1. /\ execPc' \in [Exec -> RunningPc \cup {"idle", "done"}] /\ execPc'[e] = l
          /\ \A f \in Exec : f # e => execPc'[f] = execPc[f]
      BY <1>0, <1>3 DEF ExecGoto, QueryShape, RunningPc, Serving
    <2>2. QueryShape'
      BY <1>0, <1>1, <1>3, <2>1 DEF QueryShape
    <2>3. plan[e].size \in Nat
      BY <1>0, <1>3 DEF QueryShape, Plan
    <2>4. Progress(e)'
      BY <1>0, <1>1, <1>2, <1>3, <2>1, <2>3 DEF Progress
    <2>5. MaySend(e) /\ execPc'[e] \in Serving \cup {"load"}
      BY <1>1, <2>1 DEF MaySend, Serving
    <2> QED  BY <1>1, <1>2, <1>3, <2>1, <2>2, <2>4, <2>5, GoesOn
  <1>4. ASSUME Return(e, Error("DB_ERROR")), execPc[e] # "idle",
               UNCHANGED <<control, count, batch, meta, chan, heard>>
        PROVE  QueryInv'
    BY <1>1, <1>4, Fails DEF Serving, ErrorCode
  <1>5. CASE StartQuery(e)
    BY <1>3, <1>5 DEF StartQuery
  <1>6. CASE LoadConnection(e)
    <2>1. e \in DOMAIN plan
      BY <1>0, <1>6 DEF LoadConnection, QueryShape
    <2> QED  BY <1>3, <1>4, <1>6, <2>1 DEF LoadConnection
  <1>7. CASE OpenConnection(e)
    <2>1. e \in DOMAIN plan
      BY <1>0, <1>7 DEF OpenConnection, QueryShape
    <2>2. ASSUME NEW l \in AfterOpen(plan[e])
          PROVE  /\ l \in {"classify", "execute", "command", "stream"}
                 /\ l = "execute" => plan[e].write
                 /\ l = "stream" => plan[e].leg = "pool"
      BY <2>2 DEF AfterOpen
    <2> QED  BY <1>3, <1>4, <1>7, <2>1, <2>2 DEF OpenConnection
  <1>8. CASE Classify(e)
    <2>1. e \in DOMAIN plan
      BY <1>0, <1>8 DEF Classify, QueryShape
    <2> QED  BY <1>3, <1>4, <1>8, <2>1 DEF Classify
  <1>9. CASE Execute(e)
    <2>1. execPc[e] = "execute" /\ plan[e].write /\ execPc[e] \in Serving
      BY <1>0, <1>9 DEF Execute, Progress, Serving
    <2>2. UNCHANGED <<control, count, batch, meta, chan, heard>>
      BY <1>9 DEF Execute
    <2>3. CASE Return(e, Complete(0, FALSE))
      BY <2>1, <2>2, <2>3, Executes
    <2> QED  BY <1>4, <1>9, <2>1, <2>2, <2>3 DEF Execute
  <1> QED  BY <1>5, <1>6, <1>7, <1>8, <1>9

\* The first answer.
LEMMA Answers ==
    ASSUME QueryInv, NEW e \in Exec, Command(e)
    PROVE  QueryInv'
  <1> USE StreamAssumption
  <1>0. QueryShape /\ Progress(e)
    BY DEF QueryInv, ExecInv
  <1>1. /\ World /\ gone' = gone /\ plan' = plan /\ UNCHANGED <<control, chan, heard>>
        /\ execPc[e] = "command" /\ execPc[e] \in Serving /\ MaySend(e)
    BY DEF Command, World, control, Serving, MaySend
  <1>2. count[e] = 0 /\ batch[e] = 0 /\ meta[e] = "none"
    BY <1>0, <1>1 DEF Progress, QueryShape
  <1>3. e \in DOMAIN plan /\ plan[e].size \in Nat
    BY <1>0, <1>1 DEF QueryShape, Plan
  <1>4. CASE plan[e].leg \in {"tds", "mongo"} /\ ExecGoto(e, "stream") /\ UNCHANGED <<count, batch, meta, outcome>>
    <2>1. /\ execPc' \in [Exec -> RunningPc \cup {"idle", "done"}] /\ execPc'[e] = "stream"
          /\ \A f \in Exec : f # e => execPc'[f] = execPc[f]
      BY <1>0, <1>4 DEF ExecGoto, QueryShape, RunningPc, Serving
    <2>2. QueryShape'
      BY <1>0, <1>1, <1>3, <1>4, <2>1 DEF QueryShape
    <2>3. Progress(e)'
      BY <1>0, <1>1, <1>2, <1>3, <1>4, <2>1 DEF Progress
    <2>4. execPc'[e] \in Serving \cup {"load"}
      BY <2>1 DEF Serving
    <2> QED  BY <1>1, <1>2, <1>4, <2>1, <2>2, <2>3, <2>4, GoesOn
  <1>5. ASSUME BeginReply(e, plan[e].size), UNCHANGED outcome,
               plan[e].leg \in {"redis", "tdengine"} \/ (plan[e].leg = "mongo" /\ plan[e].size = 1)
        PROVE  QueryInv'
    <2> DEFINE n == Limited(plan[e].size)
    <2>1. n \in 0..RowLimit
      BY <1>3 DEF Limited, Smaller
    <2>2. /\ count' = [count EXCEPT ![e] = n] /\ batch' = [batch EXCEPT ![e] = n]
          /\ meta' = [meta EXCEPT ![e] = "pending"] /\ execPc' = [execPc EXCEPT ![e] = "reply"]
      BY <1>5 DEF BeginReply, ExecGoto
    <2> HIDE DEF n
    <2>3. /\ count' \in [Exec -> 0..RowLimit] /\ batch' \in [Exec -> 0..RowLimit]
          /\ meta' \in [Exec -> {"none", "pending", "sent"}]
          /\ execPc' \in [Exec -> RunningPc \cup {"idle", "done"}]
          /\ count'[e] = n /\ batch'[e] = n /\ meta'[e] = "pending" /\ execPc'[e] = "reply"
          /\ \A f \in Exec : f # e => /\ execPc'[f] = execPc[f] /\ count'[f] = count[f]
                                      /\ batch'[f] = batch[f] /\ meta'[f] = meta[f]
      BY <1>0, <2>1, <2>2 DEF QueryShape, RunningPc, Serving
    <2>4. QueryShape'
      BY <1>0, <1>1, <1>3, <1>5, <2>3 DEF QueryShape
    <2>5. Progress(e)'
      BY <1>1, <1>5, <2>1, <2>3 DEF Progress, n
    <2>6. execPc'[e] \in Serving \cup {"load"}
      BY <2>3 DEF Serving
    <2> QED  BY <1>1, <1>2, <1>5, <2>1, <2>3, <2>4, <2>5, <2>6, GoesOn
  <1>6. CASE plan[e].write /\ Return(e, Complete(0, FALSE)) /\ UNCHANGED <<count, batch, meta>>
    BY <1>1, <1>6, Executes
  <1>7. CASE Return(e, Error("DB_ERROR")) /\ UNCHANGED <<count, batch, meta>>
    BY <1>1, <1>7, Fails DEF ErrorCode
  <1> QED  BY <1>4, <1>5, <1>6, <1>7 DEF Command

\* stream_rows and the replies that are read whole.
LEMMA Streaming ==
    ASSUME QueryInv, NEW e \in Exec,
           FetchRow(e) \/ FetchEnd(e) \/ SendWaiting(e) \/ Drain(e) \/ Reply(e)
    PROVE  QueryInv'
  <1> USE StreamAssumption
  <1>0. QueryShape /\ Progress(e)
    BY DEF QueryInv, ExecInv
  <1>1. /\ World /\ gone' = gone /\ plan' = plan /\ UNCHANGED <<control, heard>>
        /\ execPc[e] \in {"stream", "drain", "reply"} /\ execPc[e] \in Serving /\ MaySend(e)
    BY DEF FetchRow, FetchEnd, CanFetch, SendWaiting, Drain, Reply, World, control, Serving, MaySend
  <1>2. count[e] \in 0..RowLimit /\ batch[e] \in 0..RowLimit
    BY <1>0 DEF QueryShape
  <1>3. e \in DOMAIN plan /\ plan[e].size \in Nat
    BY <1>0, <1>1 DEF QueryShape, Plan
  <1>4. CASE FetchRow(e)
    <2>1. /\ execPc[e] = "stream" /\ count[e] < plan[e].size /\ UNCHANGED <<outcome, chan>>
          /\ count' = [count EXCEPT ![e] = count[e] + 1]
          /\ batch' = [batch EXCEPT ![e] = batch[e] + 1]
          /\ meta' = [meta EXCEPT ![e] = IF count[e] = 0 THEN "pending" ELSE meta[e]]
          /\ execPc' = IF count[e] + 1 >= RowLimit THEN [execPc EXCEPT ![e] = "drain"] ELSE execPc
      BY <1>4 DEF FetchRow, CanFetch, FirstRow, ExecGoto
    <2>2. count[e] < RowLimit /\ batch[e] <= count[e] /\ (count[e] = 0 => meta[e] = "none")
      BY <1>0, <2>1 DEF Progress
    <2>3. count[e] + 1 \in 0..RowLimit /\ batch[e] + 1 \in 0..RowLimit
      BY <1>2, <2>2
    <2>4. /\ count' \in [Exec -> 0..RowLimit] /\ batch' \in [Exec -> 0..RowLimit]
          /\ meta' \in [Exec -> {"none", "pending", "sent"}]
          /\ execPc' \in [Exec -> RunningPc \cup {"idle", "done"}]
          /\ count'[e] = count[e] + 1 /\ batch'[e] = batch[e] + 1
          /\ count[e] = 0 => meta'[e] = "pending"
          /\ count[e] # 0 => meta'[e] = meta[e]
          /\ count[e] + 1 >= RowLimit => execPc'[e] = "drain"
          /\ count[e] + 1 < RowLimit => execPc'[e] = "stream"
          /\ \A f \in Exec : f # e => /\ execPc'[f] = execPc[f] /\ count'[f] = count[f]
                                      /\ batch'[f] = batch[f] /\ meta'[f] = meta[f]
      BY <1>0, <2>1, <2>3 DEF QueryShape, RunningPc, Serving
    <2>5. execPc'[e] \in {"stream", "drain"}
      BY <1>2, <2>4
    <2>6. QueryShape'
      BY <1>0, <1>1, <1>3, <2>1, <2>4 DEF QueryShape
    <2>7. Progress(e)'
      BY <1>0, <1>1, <1>2, <1>3, <2>1, <2>2, <2>4, <2>5 DEF Progress
    <2>8. execPc'[e] \in Serving \cup {"load"}
      BY <2>5 DEF Serving
    <2>9. /\ meta'[e] = meta[e] \/ (meta[e] = "none" /\ meta'[e] = "pending")
          /\ count'[e] - batch'[e] = count[e] - batch[e]
      BY <1>2, <2>2, <2>4
    <2> QED  BY <1>1, <2>1, <2>4, <2>6, <2>7, <2>8, <2>9, GoesOn
  <1>5. CASE FetchEnd(e)
    <2>1. execPc[e] = "stream" /\ UNCHANGED <<count, batch, meta, chan>>
      BY <1>5 DEF FetchEnd, CanFetch
    <2>2. CASE Return(e, Error("DB_ERROR"))
      BY <1>1, <2>1, <2>2, Fails DEF ErrorCode
    <2>3. CASE count[e] = plan[e].size /\ ExecGoto(e, "drain") /\ UNCHANGED outcome
      <3>1. /\ execPc' \in [Exec -> RunningPc \cup {"idle", "done"}] /\ execPc'[e] = "drain"
            /\ \A f \in Exec : f # e => execPc'[f] = execPc[f]
        BY <1>0, <2>3 DEF ExecGoto, QueryShape, RunningPc, Serving
      <3>2. QueryShape'
        BY <1>0, <1>1, <1>3, <2>1, <2>3, <3>1 DEF QueryShape
      <3>3. Progress(e)'
        BY <1>0, <1>1, <2>1, <2>3, <3>1 DEF Progress
      <3>4. execPc'[e] \in Serving \cup {"load"}
        BY <3>1 DEF Serving
      <3> QED  BY <1>1, <2>1, <2>3, <3>1, <3>2, <3>3, <3>4, GoesOn
    <2> QED  BY <1>5, <2>2, <2>3 DEF FetchEnd
  <1>6. CASE SendWaiting(e)
    <2>1. UNCHANGED <<control, execPc, count, outcome, heard>>
      BY <1>6 DEF SendWaiting
    <2>2. CASE /\ meta[e] = "pending"
               /\ Send(e, Meta) /\ meta' = [meta EXCEPT ![e] = "sent"] /\ UNCHANGED batch
      BY <1>1, <1>2, <2>1, <2>2, Flushes
    <2>3. CASE /\ meta[e] # "pending" /\ batch[e] >= BatchSize
               /\ Send(e, Rows(batch[e])) /\ batch' = [batch EXCEPT ![e] = 0] /\ UNCHANGED meta
      <3>1. batch[e] \in Nat /\ batch[e] > 0 /\ batch[e] <= batch[e] /\ batch[e] - batch[e] = 0
        BY <1>2, <2>3
      <3> QED  BY <1>1, <2>1, <2>3, <3>1, Flushes
    <2> QED  BY <1>6, <2>2, <2>3 DEF SendWaiting, Waiting
  <1>7. ASSUME SendNext(e), UNCHANGED <<execPc, outcome, count>> PROVE QueryInv'
    <2>1. CASE /\ meta[e] = "pending"
               /\ Send(e, Meta) /\ meta' = [meta EXCEPT ![e] = "sent"] /\ UNCHANGED batch
      BY <1>1, <1>2, <1>7, <2>1, Flushes
    <2>2. CASE /\ meta[e] # "pending" /\ batch[e] > 0
               /\ Send(e, Rows(Smaller(batch[e], BatchSize)))
               /\ batch' = [batch EXCEPT ![e] = batch[e] - Smaller(batch[e], BatchSize)]
               /\ UNCHANGED meta
      <3>1. Smaller(batch[e], BatchSize) \in Nat /\ Smaller(batch[e], BatchSize) <= batch[e]
        BY <1>2 DEF Smaller
      <3> QED  BY <1>1, <1>7, <2>2, <3>1, Flushes
    <2> QED  BY <1>7, <2>1, <2>2 DEF SendNext
  <1>8. CASE Drain(e)
    <2>1. execPc[e] = "drain" /\ count' = count
      BY <1>8 DEF Drain
    <2>2. CASE SendNext(e) /\ UNCHANGED <<execPc, outcome>>
      BY <1>7, <2>1, <2>2
    <2>3. CASE /\ count[e] = 0 /\ meta[e] = "none" /\ Send(e, Meta)
               /\ meta' = [meta EXCEPT ![e] = "sent"] /\ UNCHANGED <<batch, execPc, outcome>>
      BY <1>1, <1>2, <2>1, <2>3, Flushes
    <2>4. CASE Flushed(e) /\ Return(e, Completion(e)) /\ UNCHANGED <<batch, meta, chan>>
      <3>1. batch[e] = 0 /\ count[e] \in {RowLimit, plan[e].size} /\ count[e] <= plan[e].size
        BY <1>0, <2>1, <2>4 DEF Flushed, Progress
      <3> DEFINE t == count[e] >= RowLimit
      <3>2. Return(e, Complete(count[e], t))
        BY <2>4 DEF Completion
      <3>3. IF t THEN count[e] = RowLimit /\ plan[e].size >= RowLimit ELSE count[e] = plan[e].size
        BY <1>2, <1>3, <3>1
      <3>4. t \in BOOLEAN
        OBVIOUS
      <3> HIDE DEF t
      <3> QED  BY <1>1, <1>2, <2>1, <2>4, <3>1, <3>2, <3>3, <3>4, Completes
    <2> QED  BY <1>8, <2>2, <2>3, <2>4 DEF Drain
  <1>9. CASE Reply(e)
    <2>1. execPc[e] = "reply" /\ count' = count
      BY <1>9 DEF Reply
    <2>2. CASE SendNext(e) /\ UNCHANGED <<execPc, outcome>>
      BY <1>7, <2>1, <2>2
    <2>3. CASE /\ Flushed(e) /\ Return(e, Complete(count[e], ReplyTruncated(plan[e])))
               /\ UNCHANGED <<batch, meta, chan>>
      <3>1. /\ batch[e] = 0 /\ count[e] = Limited(plan[e].size)
            /\ plan[e].leg \in {"redis", "tdengine"} \/ (plan[e].leg = "mongo" /\ plan[e].size = 1)
        BY <1>0, <2>1, <2>3 DEF Flushed, Progress
      <3> DEFINE t == ReplyTruncated(plan[e])
      <3>2. IF t THEN count[e] = RowLimit /\ plan[e].size >= RowLimit ELSE count[e] = plan[e].size
        BY <1>2, <1>3, <3>1 DEF ReplyTruncated, Limited, Smaller
      <3>3. t \in BOOLEAN
        BY DEF ReplyTruncated
      <3>4. Return(e, Complete(count[e], t))
        BY <2>3
      <3> HIDE DEF t
      <3> QED  BY <1>1, <1>2, <2>1, <2>3, <3>1, <3>2, <3>3, <3>4, Completes
    <2> QED  BY <1>9, <2>2, <2>3 DEF Reply
  <1> QED  BY <1>4, <1>5, <1>6, <1>8, <1>9

\* Cancel or the deadline ends the run; in the tail flush it still completes.
LEMMA Interrupted ==
    ASSUME QueryInv, NEW e \in Exec, StepInterrupted(e)
    PROVE  QueryInv'
  <1> USE StreamAssumption
  <1>0. QueryShape /\ Progress(e)
    BY DEF QueryInv, ExecInv
  <1>1. UNCHANGED <<control, count, batch, meta, chan, heard>>
    BY DEF StepInterrupted
  <1>2. /\ execPc[e] \in Serving /\ Interrupt(e) \in ErrorCode
        /\ e \in cancelled \cup overdue
    BY DEF StepInterrupted, Interrupt, AtCancelPoint, AtDeadlinePoint, Serving, ErrorCode
  <1>3. CASE execPc[e] # "drain"
    <2>1. Return(e, Error(Interrupt(e)))
      BY <1>3 DEF StepInterrupted
    <2> QED  BY <1>1, <1>2, <2>1, Fails
  <1>4. CASE execPc[e] = "drain"
    <2> DEFINE t == count[e] >= RowLimit
    <2>1. Return(e, Complete(count[e], t))
      BY <1>4 DEF StepInterrupted, Completion
    <2>2. /\ count[e] \in {RowLimit, plan[e].size} /\ count[e] <= plan[e].size
          /\ plan[e].leg \in {"pool", "tds", "mongo"} /\ count[e] \in 0..RowLimit
          /\ plan[e].size \in Nat
      BY <1>0, <1>4 DEF Progress, QueryShape, Plan
    <2>3. IF t THEN count[e] = RowLimit /\ plan[e].size >= RowLimit ELSE count[e] = plan[e].size
      BY <2>2
    <2>4. t \in BOOLEAN
      OBVIOUS
    <2>5. CutShort(e)
      BY <1>2, <2>2 DEF CutShort
    <2> HIDE DEF t
    <2> QED  BY <1>1, <1>2, <2>1, <2>2, <2>3, <2>4, <2>5, Completes
  <1> QED  BY <1>3, <1>4

----------------------------------------------------------------------------
(* The theorems *)

\* Before the first request nothing is told.
LEMMA QueryInitInv == StreamInit => QueryInv
  <1> SUFFICES ASSUME StreamInit PROVE QueryInv
    OBVIOUS
  <1> USE StreamAssumption
  <1>1. /\ execPc = [e \in Exec |-> "idle"] /\ plan \in Plans
        /\ count = [e \in Exec |-> 0] /\ batch = [e \in Exec |-> 0]
        /\ meta = [e \in Exec |-> "none"] /\ outcome = [e \in Exec |-> None]
        /\ chan = [e \in Exec |-> <<>>] /\ heard = [e \in Exec |-> <<>>]
    BY DEF StreamInit
  <1>2. <<>> \in Seq(Event) /\ <<>> \o <<>> = <<>>
    BY ConcatEmptySeq
  <1>3. QueryShape
    BY <1>1, <1>2 DEF QueryShape
  <1>4. ASSUME NEW e \in Exec PROVE ExecInv(e)
    <2>1. Events(e) = <<>>
      BY <1>1, <1>2 DEF Events
    <2>2. DOMAIN Events(e) = {} /\ RowsIn(Events(e)) = 0
      BY <2>1, RowsInEmpty
    <2>3. execPc[e] = "idle" /\ count[e] = 0 /\ batch[e] = 0 /\ meta[e] = "none"
      BY <1>1
    <2>4. Progress(e)
      BY <2>3 DEF Progress
    <2>5. Told(e)
      BY <2>1, <2>2, <2>3 DEF Told, Ordered, MaySend
    <2>6. Tallied(e)
      BY <2>2, <2>3 DEF Tallied, Accounted, MaySend
    <2> QED  BY <2>4, <2>5, <2>6 DEF ExecInv
  <1> QED  BY <1>3, <1>4 DEF QueryInv

\* Every step of the server, the database, the client and the clock keeps it.
LEMMA QueryNextInv == QueryInv /\ [StreamNext]_streamVars => QueryInv'
  <1> SUFFICES ASSUME QueryInv, [StreamNext]_streamVars PROVE QueryInv'
    OBVIOUS
  <1>1. CASE \/ UNCHANGED streamVars
             \/ \E i \in Id : CancelExecution(i)
             \/ \E e \in Exec : ClientReads(e) \/ ClientLeaves(e) \/ DeadlinePasses(e)
    BY <1>1, Outside
  <1>2. ASSUME NEW e \in Exec, StartQuery(e) \/ ServerStep(e) \/ DatabaseStep(e)
        PROVE  QueryInv'
    <2>1. CASE StartQuery(e) \/ LoadConnection(e) \/ OpenConnection(e) \/ Classify(e) \/ Execute(e)
      BY <2>1, Opening
    <2>2. CASE Command(e)
      BY <2>2, Answers
    <2>3. CASE FetchRow(e) \/ FetchEnd(e) \/ SendWaiting(e) \/ Drain(e) \/ Reply(e)
      BY <2>3, Streaming
    <2>4. CASE StepInterrupted(e)
      BY <2>4, Interrupted
    <2>5. CASE SendTerminal(e) \/ Panic(e) \/ Cleanup(e)
      BY <2>5, Ends
    <2> QED  BY <1>2, <2>1, <2>2, <2>3, <2>4, <2>5 DEF ServerStep, DatabaseStep
  <1> QED  BY <1>1, <1>2 DEF StreamNext

\* What the clients were told is in order, and the completions they heard are true.
LEMMA QueryInvImplies == QueryInv => EventOrder /\ CompleteTruthful
  <1> SUFFICES ASSUME QueryInv PROVE EventOrder /\ CompleteTruthful
    OBVIOUS
  <1>1. ASSUME NEW e \in Exec PROVE Told(e) /\ Tallied(e)
    BY DEF QueryInv, ExecInv
  <1>2. EventOrder
    BY <1>1 DEF EventOrder, Told, Ordered, MaySend
  <1>3. ASSUME NEW e \in Exec, heard[e] # <<>>, heard[e][Len(heard[e])].type = "complete",
               ~plan[e].write
        PROVE  /\ TrueCount(e, heard[e][Len(heard[e])])
               /\ \/ RowsIn(SubSeq(heard[e], 1, Len(heard[e]) - 1)) = heard[e][Len(heard[e])].n
                  \/ CutShort(e)
    <2>1. heard[e] \in Seq(Event) /\ chan[e] \in Seq(Event)
      BY DEF QueryInv, QueryShape
    <2>2. Ordered(heard[e] \o chan[e]) /\ Accounted(e, heard[e] \o chan[e])
      BY <1>1 DEF Told, Tallied, Events
    <2>3. Accounted(e, heard[e])
      BY <2>1, <2>2, PrefixKeeps
    <2>4. Len(heard[e]) \in DOMAIN heard[e]
      BY <1>3, <2>1
    <2> QED  BY <1>3, <2>3, <2>4 DEF Accounted
  <1> QED  BY <1>2, <1>3 DEF CompleteTruthful, TrueCount, CutShort

\* "The terminal event always arrives last": for any executions, plans, batch size,
\* row limit and channel capacity the client sees at most one meta, no rows before
\* it, nothing after a terminal event, and a terminal event before the response
\* ends, unless it left or the task panicked on a TDS row.
THEOREM EventOrderHolds == StreamSpec => []EventOrder
  BY QueryInitInv, QueryNextInv, QueryInvImplies, PTL DEF StreamSpec

\* A complete event is true of the result: the result is whole, or it is marked
\* truncated and has row_limit rows; and unless cancel or the deadline cut the tail
\* flush short the rows before it, however batched, sum to what it counts.
THEOREM CompleteTruthfulHolds == StreamSpec => []CompleteTruthful
  BY QueryInitInv, QueryNextInv, QueryInvImplies, PTL DEF StreamSpec

=============================================================================
