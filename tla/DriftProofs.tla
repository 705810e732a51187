----------------------------- MODULE DriftProofs ----------------------------
(***************************************************************************)
(* Theorems about SchemaDiff and Drift: compute_drifts reports nothing     *)
(* exactly when no drift kind can tell two trees apart, the snapshots of a *)
(* connection form a chain that passes over no reportable change, and no   *)
(* stored change is dropped without a trace.                               *)
(***************************************************************************)
EXTENDS Drift, FiniteSetTheorems, WellFoundedInduction, NaturalsInduction, TLAPS

----------------------------------------------------------------------------
(* compute_drifts *)

\* The differences that the drift kinds speak about, table by table.
SameTable(p, c) ==
    /\ DOMAIN p.columns = DOMAIN c.columns
    /\ \A n \in DOMAIN p.columns : /\ p.columns[n].shape = c.columns[n].shape
                                   /\ p.columns[n].nullable = c.columns[n].nullable
    /\ p.pk = c.pk
    /\ DOMAIN p.indexes = DOMAIN c.indexes
    /\ DOMAIN p.fks = DOMAIN c.fks

\* Two tables without a difference look alike.
LEMMA VisibleTables ==
    ASSUME NEW p, NEW c
    PROVE  Visible(p) = Visible(c) <=>
             DOMAIN p = DOMAIN c /\ \A t \in DOMAIN p : SameTable(p[t], c[t])
  <1> DEFINE V(x, t) == [columns |-> [n \in DOMAIN x[t].columns |->
                                        <<x[t].columns[n].shape, x[t].columns[n].nullable>>],
                         pk      |-> x[t].pk,
                         indexes |-> DOMAIN x[t].indexes,
                         fks     |-> DOMAIN x[t].fks]
  <1>1. ASSUME NEW t PROVE V(p, t) = V(c, t) <=> SameTable(p[t], c[t])
    <2> DEFINE f == [n \in DOMAIN p[t].columns |-> <<p[t].columns[n].shape, p[t].columns[n].nullable>>]
               g == [n \in DOMAIN c[t].columns |-> <<c[t].columns[n].shape, c[t].columns[n].nullable>>]
    <2>1. f = g <=>
            /\ DOMAIN p[t].columns = DOMAIN c[t].columns
            /\ \A n \in DOMAIN p[t].columns : /\ p[t].columns[n].shape = c[t].columns[n].shape
                                              /\ p[t].columns[n].nullable = c[t].columns[n].nullable
      <3>1. ASSUME f = g
            PROVE  /\ DOMAIN p[t].columns = DOMAIN c[t].columns
                   /\ \A n \in DOMAIN p[t].columns : /\ p[t].columns[n].shape = c[t].columns[n].shape
                                                     /\ p[t].columns[n].nullable = c[t].columns[n].nullable
        <4>1. DOMAIN p[t].columns = DOMAIN c[t].columns
          BY <3>1
        <4>2. \A n \in DOMAIN p[t].columns : f[n] = g[n]
          BY <3>1
        <4> QED  BY <4>1, <4>2
      <3> QED  BY <3>1
    <2>2. V(p, t) = V(c, t) <=> /\ f = g /\ p[t].pk = c[t].pk
                                /\ DOMAIN p[t].indexes = DOMAIN c[t].indexes
                                /\ DOMAIN p[t].fks = DOMAIN c[t].fks
      <3> HIDE DEF f, g
      <3>1. /\ V(p, t) = [columns |-> f, pk |-> p[t].pk, indexes |-> DOMAIN p[t].indexes, fks |-> DOMAIN p[t].fks]
            /\ V(c, t) = [columns |-> g, pk |-> c[t].pk, indexes |-> DOMAIN c[t].indexes, fks |-> DOMAIN c[t].fks]
        BY DEF f, g
      <3> HIDE DEF V
      <3> QED  BY <3>1
    <2> HIDE DEF f, g, V
    <2> QED  BY <2>1, <2>2 DEF SameTable
  <1>2. /\ Visible(p) = [t \in DOMAIN p |-> V(p, t)]
        /\ Visible(c) = [t \in DOMAIN c |-> V(c, t)]
    BY DEF Visible
  <1> HIDE DEF V
  <1>3. Visible(p) = Visible(c) <=> DOMAIN p = DOMAIN c /\ \A t \in DOMAIN p : V(p, t) = V(c, t)
    BY <1>2
  <1> QED  BY <1>1, <1>3

\* A table without a difference has no drift.
LEMMA NoTableDrift ==
    ASSUME NEW t, NEW p, NEW c
    PROVE  (/\ DiffTableColumns(t, p.columns, c.columns) = {} /\ DiffTablePk(t, p.pk, c.pk) = {}
            /\ DiffTableIndexes(t, p.indexes, c.indexes) = {} /\ DiffTableFks(t, p.fks, c.fks) = {})
           <=> SameTable(p, c)
  <1>1. ASSUME NEW k, NEW x, NEW y
        PROVE  /\ Added(k, t, x, y) = {} <=> DOMAIN y \subseteq DOMAIN x
               /\ Dropped(k, t, x, y) = {} <=> DOMAIN x \subseteq DOMAIN y
    BY DEF Added, Dropped
  <1>2. ColumnChanges(t, p.columns, c.columns) = {} <=>
          \A n \in DOMAIN p.columns \cap DOMAIN c.columns :
              /\ p.columns[n].shape = c.columns[n].shape
              /\ p.columns[n].nullable = c.columns[n].nullable
    BY DEF ColumnChanges
  <1>3. DiffTablePk(t, p.pk, c.pk) = {} <=> p.pk = c.pk
    BY DEF DiffTablePk
  <1>4. DiffTableIndexes(t, p.indexes, c.indexes) = {} <=> DOMAIN p.indexes = DOMAIN c.indexes
    <2>1. /\ Added("index_added", t, p.indexes, c.indexes) = {} <=> DOMAIN c.indexes \subseteq DOMAIN p.indexes
          /\ Dropped("index_dropped", t, p.indexes, c.indexes) = {} <=> DOMAIN p.indexes \subseteq DOMAIN c.indexes
      BY <1>1, Zenon
    <2> QED  BY <2>1 DEF DiffTableIndexes
  <1>5. DiffTableFks(t, p.fks, c.fks) = {} <=> DOMAIN p.fks = DOMAIN c.fks
    <2>1. /\ Added("fk_added", t, p.fks, c.fks) = {} <=> DOMAIN c.fks \subseteq DOMAIN p.fks
          /\ Dropped("fk_dropped", t, p.fks, c.fks) = {} <=> DOMAIN p.fks \subseteq DOMAIN c.fks
      BY <1>1, Zenon
    <2> QED  BY <2>1 DEF DiffTableFks
  <1>6. DiffTableColumns(t, p.columns, c.columns) = {} <=> DOMAIN p.columns = DOMAIN c.columns /\ ColumnChanges(t, p.columns, c.columns) = {}
    <2>1. /\ Added("column_added", t, p.columns, c.columns) = {} <=> DOMAIN c.columns \subseteq DOMAIN p.columns
          /\ Dropped("column_dropped", t, p.columns, c.columns) = {} <=> DOMAIN p.columns \subseteq DOMAIN c.columns
      BY <1>1, Zenon
    <2> QED  BY <2>1 DEF DiffTableColumns
  <1> QED  BY <1>2, <1>3, <1>4, <1>5, <1>6 DEF SameTable

\* compute_drifts is empty exactly when the trees look alike to every drift kind.
LEMMA DriftsTellApart ==
    ASSUME NEW p, NEW c
    PROVE  ComputeDrifts(p, c) = {} <=> Visible(p) = Visible(c)
  <1> DEFINE Of(t) == DiffTableColumns(t, p[t].columns, c[t].columns)
                      \cup DiffTablePk(t, p[t].pk, c[t].pk)
                      \cup DiffTableIndexes(t, p[t].indexes, c[t].indexes)
                      \cup DiffTableFks(t, p[t].fks, c[t].fks)
  <1>1. ASSUME NEW t PROVE Of(t) = {} <=> SameTable(p[t], c[t])
    <2>1. Of(t) = {} <=>
            /\ DiffTableColumns(t, p[t].columns, c[t].columns) = {} /\ DiffTablePk(t, p[t].pk, c[t].pk) = {}
            /\ DiffTableIndexes(t, p[t].indexes, c[t].indexes) = {} /\ DiffTableFks(t, p[t].fks, c[t].fks) = {}
      OBVIOUS
    <2> QED  BY <2>1, NoTableDrift
  <1>2. ComputeDrifts(p, c) =
          {Drift("table_added", t, "") : t \in DOMAIN c \ DOMAIN p}
          \cup {Drift("table_dropped", t, "") : t \in DOMAIN p \ DOMAIN c}
          \cup UNION {Of(t) : t \in DOMAIN p \cap DOMAIN c}
    BY DEF ComputeDrifts
  <1> HIDE DEF Of
  <1>3. ComputeDrifts(p, c) = {} <=>
          DOMAIN p = DOMAIN c /\ \A t \in DOMAIN p \cap DOMAIN c : Of(t) = {}
    <2> DEFINE A == {Drift("table_added", t, "") : t \in DOMAIN c \ DOMAIN p}
               B == {Drift("table_dropped", t, "") : t \in DOMAIN p \ DOMAIN c}
               D == UNION {Of(t) : t \in DOMAIN p \cap DOMAIN c}
    <2>1. (A = {} /\ B = {}) <=> DOMAIN p = DOMAIN c
      OBVIOUS
    <2>2. D = {} <=> \A t \in DOMAIN p \cap DOMAIN c : Of(t) = {}
      OBVIOUS
    <2>3. ComputeDrifts(p, c) = A \cup B \cup D
      BY <1>2
    <2> HIDE DEF A, B, D
    <2> QED  BY <2>1, <2>2, <2>3
  <1> QED  BY <1>1, <1>3, VisibleTables

----------------------------------------------------------------------------
(* Snapshots are finite, and so are their drifts *)

\* Finitely many tables, and finitely many names in them.
FiniteTree(x) ==
    /\ IsFiniteSet(DOMAIN x)
    /\ \E N : /\ IsFiniteSet(N)
              /\ \A t \in DOMAIN x : /\ DOMAIN x[t].columns \subseteq N
                                     /\ DOMAIN x[t].indexes \subseteq N
                                     /\ DOMAIN x[t].fks \subseteq N

\* Finitely many catalog rows have finitely many names and tables.
LEMMA FiniteFields ==
    ASSUME NEW R, IsFiniteSet(R)
    PROVE  IsFiniteSet({x.name : x \in R}) /\ IsFiniteSet(TablesOf(R))
  <1> DEFINE N == {x.name : x \in R}
             T == {x.table : x \in R}
             f == [x \in R |-> x.name]
             g == [x \in R |-> x.table]
  <1>1. f \in Surjection(R, N) /\ g \in Surjection(R, T)
    BY DEF Surjection
  <1> HIDE DEF f, g, N, T
  <1>2. IsFiniteSet(N) /\ IsFiniteSet(T)
    BY <1>1, FS_Surjection
  <1> QED  BY <1>2 DEF N, T, TablesOf

\* The tree that collect_schema assembles is finite.
LEMMA AssembleFinite ==
    ASSUME NEW a, NEW b, NEW c, IsFiniteSet(a), IsFiniteSet(b), IsFiniteSet(c)
    PROVE  FiniteTree(Assemble(a, b, c))
  <1> DEFINE N(R) == {x.name : x \in R}
             x == Assemble(a, b, c)
             NN == (N(a) \cup N(b)) \cup N(c)
  <1>1. DOMAIN x = TablesOf(a) \cup TablesOf(b) \cup TablesOf(c)
    BY DEF Assemble
  <1>2. IsFiniteSet(DOMAIN x)
    BY <1>1, FiniteFields, FS_Union
  <1>3. IsFiniteSet(NN)
    <2>1. IsFiniteSet(N(a)) /\ IsFiniteSet(N(b)) /\ IsFiniteSet(N(c))
      BY FiniteFields
    <2> HIDE DEF N
    <2> QED  BY <2>1, FS_Union
  <1>4. ASSUME NEW t \in DOMAIN x
        PROVE  /\ DOMAIN x[t].columns \subseteq NN
               /\ DOMAIN x[t].indexes \subseteq NN
               /\ DOMAIN x[t].fks \subseteq NN
    <2>1. /\ x[t].columns = Named(OfTable(a, t))
          /\ x[t].indexes = Named({y \in OfTable(b, t) : ~y.primary})
          /\ x[t].fks = Named(OfTable(c, t))
      BY <1>1 DEF Assemble
    <2>2. ASSUME NEW R PROVE DOMAIN Named(R) = N(R)
      BY DEF Named
    <2>3. /\ OfTable(a, t) \subseteq a /\ {y \in OfTable(b, t) : ~y.primary} \subseteq b
          /\ OfTable(c, t) \subseteq c
      BY DEF OfTable
    <2>4. ASSUME NEW R, NEW S, R \subseteq S PROVE N(R) \subseteq N(S)
      BY <2>4
    <2> HIDE DEF x, N
    <2>5. N(a) \subseteq NN /\ N(b) \subseteq NN /\ N(c) \subseteq NN
      OBVIOUS
    <2>6. /\ DOMAIN x[t].columns \subseteq N(a)
          /\ DOMAIN x[t].indexes \subseteq N(b)
          /\ DOMAIN x[t].fks \subseteq N(c)
      BY <2>1, <2>2, <2>3, <2>4
    <2> QED  BY <2>5, <2>6
  <1> HIDE DEF NN, x
  <1>5. FiniteTree(x)
    BY <1>2, <1>3, <1>4 DEF FiniteTree
  <1> QED  BY <1>5 DEF x

\* compute_drifts of finite trees is finite, so change_count is a number, and it
\* is 0 exactly when there is no drift.
LEMMA DriftsFinite ==
    ASSUME NEW p, NEW c, FiniteTree(p), FiniteTree(c)
    PROVE  /\ IsFiniteSet(ComputeDrifts(p, c))
           /\ Cardinality(ComputeDrifts(p, c)) \in Nat
           /\ Cardinality(ComputeDrifts(p, c)) = 0 <=> ComputeDrifts(p, c) = {}
  <1> DEFINE Bounds(x, N) == \A t \in DOMAIN x : /\ DOMAIN x[t].columns \subseteq N
                                                /\ DOMAIN x[t].indexes \subseteq N
                                                /\ DOMAIN x[t].fks \subseteq N
  <1>1. PICK P : IsFiniteSet(P) /\ Bounds(p, P)
    BY DEF FiniteTree
  <1>2. PICK C : IsFiniteSet(C) /\ Bounds(c, C)
    BY DEF FiniteTree
  <1> DEFINE K == ((({"table_added", "table_dropped", "pk_changed"}
                      \cup {"column_added", "column_dropped", "column_type_changed"})
                    \cup {"column_nullability_changed", "index_added", "index_dropped"})
                   \cup {"fk_added", "fk_dropped", "fk_dropped"})
             T == DOMAIN p \cup DOMAIN c
             N == (P \cup C) \cup {""}
             Z == (K \X T) \X N
             D == {Drift(z[1][1], z[1][2], z[2]) : z \in Z}
             f == [z \in Z |-> Drift(z[1][1], z[1][2], z[2])]
  <1>3. IsFiniteSet(K)
    <2>1. ASSUME NEW x, NEW y, NEW z PROVE IsFiniteSet({x, y, z})
      <3>1. {x, y, z} = ({x} \cup {y}) \cup {z}
        OBVIOUS
      <3>2. IsFiniteSet({x}) /\ IsFiniteSet({y}) /\ IsFiniteSet({z})
        BY FS_Singleton
      <3>3. IsFiniteSet(({x} \cup {y}) \cup {z})
        BY <3>2, FS_Union
      <3> QED  BY <3>1, <3>3
    <2>2. ASSUME NEW A, NEW B, IsFiniteSet(A), IsFiniteSet(B) PROVE IsFiniteSet(A \cup B)
      BY <2>2, FS_Union
    <2> QED  BY <2>1, <2>2
  <1>4. IsFiniteSet(T) /\ IsFiniteSet(N)
    BY <1>1, <1>2, FS_Union, FS_Singleton DEF FiniteTree
  <1>5. IsFiniteSet(D)
    <2>1. f \in Surjection(Z, D)
      <3> HIDE DEF Z
      <3> QED  BY DEF Surjection
    <2>2. IsFiniteSet(Z)
      <3> HIDE DEF K, T, N
      <3>1. IsFiniteSet(K \X T)
        BY <1>3, <1>4, FS_Product
      <3> QED  BY <1>4, <3>1, FS_Product
    <2> HIDE DEF f, D, Z
    <2> QED  BY <2>1, <2>2, FS_Surjection
  <1>6. \A k \in K, t \in T, n \in N : Drift(k, t, n) \in D
    <2> HIDE DEF K, T, N
    <2> SUFFICES ASSUME NEW k \in K, NEW t \in T, NEW n \in N PROVE Drift(k, t, n) \in D
      OBVIOUS
    <2>1. <<<<k, t>>, n>> \in Z
      OBVIOUS
    <2> QED  BY <2>1
  <1>7. ComputeDrifts(p, c) \subseteq D
    <2>0. "" \in N /\ P \subseteq N /\ C \subseteq N
      OBVIOUS
    <2> HIDE DEF D, N
    <2> DEFINE Of(t) == DiffTableColumns(t, p[t].columns, c[t].columns)
                        \cup DiffTablePk(t, p[t].pk, c[t].pk)
                        \cup DiffTableIndexes(t, p[t].indexes, c[t].indexes)
                        \cup DiffTableFks(t, p[t].fks, c[t].fks)
    <2>1. ASSUME NEW k \in K, NEW t \in T, NEW x, NEW y, DOMAIN x \subseteq N, DOMAIN y \subseteq N
          PROVE  Added(k, t, x, y) \subseteq D /\ Dropped(k, t, x, y) \subseteq D
      <3> HIDE DEF K, T
      <3> QED  BY <1>6, <2>1 DEF Added, Dropped
    <2>2. ASSUME NEW t \in DOMAIN p \cap DOMAIN c PROVE Of(t) \subseteq D
      <3>0. t \in T
        BY <2>2
      <3>1. /\ DOMAIN p[t].columns \subseteq N /\ DOMAIN c[t].columns \subseteq N
            /\ DOMAIN p[t].indexes \subseteq N /\ DOMAIN c[t].indexes \subseteq N
            /\ DOMAIN p[t].fks \subseteq N /\ DOMAIN c[t].fks \subseteq N
        BY <1>1, <1>2, <2>0
      <3>2. ColumnChanges(t, p[t].columns, c[t].columns) \subseteq D
        <4>1. /\ \A n \in N : Drift("column_type_changed", t, n) \in D
              /\ \A n \in N : Drift("column_nullability_changed", t, n) \in D
          BY <1>6, <3>0
        <4> QED  BY <4>1, <3>1 DEF ColumnChanges
      <3>3. DiffTableColumns(t, p[t].columns, c[t].columns) \subseteq D
        BY <2>1, <3>0, <3>1, <3>2 DEF DiffTableColumns
      <3>4. DiffTablePk(t, p[t].pk, c[t].pk) \subseteq D
        <4>1. Drift("pk_changed", t, "") \in D
          BY <1>6, <2>0, <3>0
        <4> QED  BY <4>1 DEF DiffTablePk
      <3>5. DiffTableIndexes(t, p[t].indexes, c[t].indexes) \subseteq D
        BY <2>1, <3>0, <3>1 DEF DiffTableIndexes
      <3>6. DiffTableFks(t, p[t].fks, c[t].fks) \subseteq D
        BY <2>1, <3>0, <3>1 DEF DiffTableFks
      <3> QED  BY <3>3, <3>4, <3>5, <3>6
    <2>3. /\ \A t \in DOMAIN c \ DOMAIN p : Drift("table_added", t, "") \in D
          /\ \A t \in DOMAIN p \ DOMAIN c : Drift("table_dropped", t, "") \in D
      BY <1>6, <2>0
    <2>4. ComputeDrifts(p, c) =
            {Drift("table_added", t, "") : t \in DOMAIN c \ DOMAIN p}
            \cup {Drift("table_dropped", t, "") : t \in DOMAIN p \ DOMAIN c}
            \cup UNION {Of(t) : t \in DOMAIN p \cap DOMAIN c}
      BY DEF ComputeDrifts
    <2> HIDE DEF Of
    <2> QED  BY <2>2, <2>3, <2>4
  <1>8. IsFiniteSet(ComputeDrifts(p, c))
    <2> HIDE DEF D
    <2> QED  BY <1>5, <1>7, FS_Subset
  <1> QED  BY <1>8, FS_CardinalityType, FS_EmptySet

----------------------------------------------------------------------------
(* The inductive invariant *)

FetchedRows == [columns : {c.columns : c \in Catalogs} \cup {{}},
                indexes : {c.indexes : c \in Catalogs} \cup {{}}]

Summaries == [count : Nat, webhook : {"none", "ok", "failed", "skipped"},
              snapshot : RunId \cup {NoRun}, baseline : RunId \cup {NoRun}]

\* Every variable has its shape.
DriftShape ==
    /\ TypeOK
    /\ rows \in [RunId -> FetchedRows]
    /\ summary \in [RunId -> Summaries]

\* The rows a run holds between two of its catalog queries come from catalogs
\* the source had.
Fetched(r) ==
    /\ pc[r] \in {"indexes", "fks"} => rows[r].columns \in {c.columns : c \in Catalogs}
    /\ pc[r] = "fks" => rows[r].indexes \in {c.indexes : c \in Catalogs}

\* From the comparison on, the prior of a run is an older snapshot, whatever an
\* overlapping run inserts in between, and none of those stored when the run began
\* is newer.
Chained(r) ==
    /\ stamp[r] <= clock
    /\ before[r] \subseteq snaps
    /\ pc[r] \in {"stamp", "insert"} \/ r \in snaps =>
          \/ prior[r] = NoRun /\ before[r] = {}
          \/ /\ prior[r] # NoRun /\ prior[r] \in snaps
             /\ \A s \in before[r] : stamp[s] <= stamp[prior[r]]
    /\ (pc[r] = "insert" \/ r \in snaps) /\ prior[r] # NoRun => stamp[prior[r]] < stamp[r]

\* A stored snapshot has the hash of its prior and counts the changes the drift
\* kinds tell apart.
Counted(r) ==
    r \in snaps =>
        /\ pc[r] \in {"deliver", "finish", "release", "done", "dead"}
        /\ priorHash[r] = PriorHash(r)
        /\ prior[r] = NoRun => changes[r] = 0
        /\ prior[r] # NoRun =>
              (changes[r] = 0 <=> Visible(tree[prior[r]]) = Visible(tree[r]))

\* Only stored changes are delivered, what run_task_inner returns says whether
\* they were, and the history row repeats it.
Announced(r) ==
    /\ pc[r] = "deliver" => r \in snaps /\ changes[r] > 0
    /\ r \in received => r \in snaps /\ changes[r] > 0
    /\ outcome[r] = "ok" => /\ pc[r] \in {"finish", "release", "done", "dead"}
                            /\ r \in snaps
                            /\ webhook[r] \in {"ok", "failed", "skipped"}
                            /\ webhook[r] = "ok" => r \in received
    /\ history[r] = "succeeded" =>
          /\ pc[r] \in {"release", "done", "dead"} /\ outcome[r] = "ok"
          /\ summary[r].count = changes[r] /\ summary[r].baseline = prior[r]
          /\ summary[r].webhook = webhook[r]
    /\ (r \in snaps /\ pc[r] \in {"finish", "release", "done"} /\ changes[r] > 0 /\ url = "valid")
          => r \in received \/ attempt[r] = Attempts

RunInv(r) == Fetched(r) /\ Chained(r) /\ Counted(r) /\ Announced(r)

DriftInv == DriftShape /\ \A r \in RunId : RunInv(r)


\* What a step of another run, of the scheduler or of the environment leaves
\* alone of run r: it may start r, or end it with the process, when the locals of
\* r go.
Undisturbed(r) ==
    /\ pc'[r] = pc[r] \/ pc'[r] = "dead" \/ (pc[r] = "none" /\ pc'[r] = "open")
    /\ rows'[r] = rows[r] \/ pc'[r] = "dead"
    /\ \/ tree'[r] = tree[r] /\ prior'[r] = prior[r] /\ stamp'[r] = stamp[r]
       \/ pc'[r] = "dead" /\ r \notin snaps /\ stamp'[r] = 0
    /\ before'[r] = before[r] \/ (pc'[r] = "open" /\ before'[r] = snaps)
    /\ changes'[r] = changes[r] /\ priorHash'[r] = priorHash[r]
    /\ history'[r] = history[r] /\ summary'[r] = summary[r]
    /\ attempt'[r] = attempt[r] /\ webhook'[r] = webhook[r] /\ outcome'[r] = outcome[r]
    /\ r \in snaps' <=> r \in snaps
    /\ r \in received' <=> r \in received

\* What every step leaves alone: stored snapshots and the order of the clock.
ChainKept ==
    /\ snaps \subseteq snaps'
    /\ \A q \in snaps : tree'[q] = tree[q] /\ stamp'[q] = stamp[q]
    /\ clock <= clock' /\ url' = url

----------------------------------------------------------------------------
(* Facts the steps rest on *)

\* Every snapshot a run can collect is finite.
LEMMA TreesFinite ==
    ASSUME NEW x \in Trees
    PROVE  FiniteTree(x)
  <1>1. CASE x = EmptyTree
    BY <1>1, AssembleFinite, FS_EmptySet DEF EmptyTree
  <1>2. CASE x \in {Assemble(a.columns, b.indexes, c.fks) :
                      a \in Catalogs, b \in Catalogs, c \in Catalogs}
    <2>1. PICK a \in Catalogs, b \in Catalogs, c \in Catalogs :
             x = Assemble(a.columns, b.indexes, c.fks)
      BY <1>2
    <2>2. IsFiniteSet(a.columns) /\ IsFiniteSet(b.indexes) /\ IsFiniteSet(c.fks)
      BY ConstAssumption
    <2> QED  BY <2>1, <2>2, AssembleFinite
  <1> QED  BY <1>1, <1>2 DEF Trees

\* A nonempty set of natural numbers has a least element.
LEMMA LeastOf ==
    ASSUME NEW T, T \subseteq Nat, T # {}
    PROVE  \E x \in T : \A y \in T : x <= y
  <1> DEFINE R == OpToRel(<, Nat)
  <1>1. IsWellFoundedOn(R, Nat)
    BY NatLessThanWellFounded
  <1>2. \A x, y \in Nat : x < y => <<x, y>> \in R
    BY DEF OpToRel
  <1> HIDE DEF R
  <1>3. PICK x \in T : \A y \in T : ~ (<<y, x>> \in R)
    BY <1>1, WFMin
  <1>4. \A y \in T : ~ (y < x)
    BY <1>2, <1>3
  <1> QED  BY <1>3, <1>4

\* The snapshot read as prior is a stored one, and none is newer: captured_at has
\* a latest.
LEMMA PriorStored ==
    ASSUME DriftInv, snaps # {}
    PROVE  PriorSnapshot \in snaps /\ \A q \in snaps : stamp[q] <= stamp[PriorSnapshot]
  <1> DEFINE S == {clock - stamp[q] : q \in snaps}
  <1>0. snaps \subseteq RunId /\ clock \in Nat /\ \A q \in snaps : stamp[q] \in Nat /\ stamp[q] <= clock
    BY DEF DriftInv, DriftShape, TypeOK, RunInv, Chained
  <1>1. S \subseteq Nat /\ S # {}
    BY <1>0
  <1>2. PICK x \in S : \A y \in S : x <= y
    <2> HIDE DEF S
    <2> QED  BY <1>1, LeastOf
  <1>3. PICK r \in snaps : x = clock - stamp[r]
    BY <1>2
  <1>4. \A q \in snaps : clock - stamp[r] <= clock - stamp[q]
    BY <1>2, <1>3
  <1>5. \A q \in snaps : stamp[q] <= stamp[r]
    BY <1>0, <1>4
  <1> QED  BY <1>5 DEF PriorSnapshot

\* A run that is left alone keeps its invariant.
LEMMA UndisturbedKept ==
    ASSUME DriftInv, NEW r \in RunId, Undisturbed(r), ChainKept, DriftShape'
    PROVE  RunInv(r)'
  <1>0. RunInv(r)
    BY DEF DriftInv
  <1>1. Fetched(r)'
    BY <1>0 DEF RunInv, Fetched, Undisturbed
  <1>2. Chained(r)'
    <2>1. stamp[r] \in Nat /\ clock \in Nat /\ clock' \in Nat /\ 0 <= clock'
      BY DEF DriftInv, DriftShape, TypeOK
    <2>2. stamp'[r] <= clock'
      BY <1>0, <2>1 DEF RunInv, Chained, Undisturbed, ChainKept
    <2>3. before'[r] \subseteq snaps'
      BY <1>0 DEF RunInv, Chained, Undisturbed, ChainKept
    <2>4. CASE pc'[r] = "stamp" \/ pc'[r] = "insert" \/ r \in snaps
      <3>1. /\ prior'[r] = prior[r] /\ stamp'[r] = stamp[r] /\ before'[r] = before[r]
            /\ pc'[r] = pc[r] \/ r \in snaps
            /\ pc'[r] = "insert" => pc[r] = "insert"
        BY <1>0, <2>4 DEF RunInv, Counted, Undisturbed
      <3>2. prior[r] # NoRun => prior[r] \in snaps
        BY <1>0, <2>4, <3>1 DEF RunInv, Chained
      <3>3. prior[r] # NoRun => stamp'[prior[r]] = stamp[prior[r]] /\ prior[r] \in snaps'
        BY <3>2 DEF ChainKept
      <3>4. \A s \in before[r] : stamp'[s] = stamp[s]
        BY <1>0 DEF RunInv, Chained, ChainKept
      <3>5. \/ prior'[r] = NoRun /\ before'[r] = {}
            \/ /\ prior'[r] # NoRun /\ prior'[r] \in snaps'
               /\ \A s \in before'[r] : stamp'[s] <= stamp'[prior'[r]]
        BY <1>0, <2>4, <3>1, <3>3, <3>4 DEF RunInv, Chained
      <3>6. (pc'[r] = "insert" \/ r \in snaps') /\ prior'[r] # NoRun => stamp'[prior'[r]] < stamp'[r]
        BY <1>0, <2>4, <3>1, <3>3 DEF RunInv, Chained, Undisturbed
      <3> QED  BY <2>2, <2>3, <3>5, <3>6 DEF Chained
    <2>5. CASE ~ (pc'[r] = "stamp" \/ pc'[r] = "insert" \/ r \in snaps)
      BY <2>2, <2>3, <2>5 DEF Chained, Undisturbed
    <2> QED  BY <2>4, <2>5
  <1>3. Counted(r)'
    <2>1. SUFFICES ASSUME r \in snaps PROVE Counted(r)'
      BY DEF Counted, Undisturbed
    <2>2. prior[r] # NoRun => prior[r] \in snaps
      BY <1>0, <2>1 DEF RunInv, Chained
    <2>3. prior[r] # NoRun => tree'[prior[r]] = tree[prior[r]]
      BY <2>2 DEF ChainKept
    <2>r. prior'[r] = prior[r] /\ tree'[r] = tree[r]
      BY <2>1 DEF Undisturbed
    <2>4. prior'[r] # NoRun =>
            (changes'[r] = 0 <=> Visible(tree'[prior'[r]]) = Visible(tree'[r]))
      BY <1>0, <2>1, <2>3, <2>r DEF RunInv, Counted, Undisturbed
    <2>5. /\ pc'[r] \in {"deliver", "finish", "release", "done", "dead"}
          /\ prior'[r] = NoRun => changes'[r] = 0
      BY <1>0, <2>1, <2>r DEF RunInv, Counted, Undisturbed
    <2>6. priorHash'[r] = PriorHash(r)'
      BY <1>0, <2>1, <2>3, <2>r DEF RunInv, Counted, Undisturbed, PriorHash
    <2> QED  BY <2>4, <2>5, <2>6 DEF Counted
  <1>4. Announced(r)'
    BY <1>0 DEF RunInv, Announced, Undisturbed, ChainKept
  <1> QED  BY <1>1, <1>2, <1>3, <1>4 DEF RunInv

\* When futures go, the rows stored stay and the locals are empty.
LEMMA ForgetShape ==
    ASSUME DriftInv, NEW R, Forget(R)
    PROVE  /\ rows' \in [RunId -> FetchedRows] /\ tree' \in [RunId -> Trees]
           /\ prior' \in [RunId -> RunId \cup {NoRun}] /\ stamp' \in [RunId -> Nat]
           /\ UNCHANGED <<snaps, priorHash, changes, clock, before>>
           /\ \A r \in RunId : r \notin R => rows'[r] = rows[r]
           /\ \A r \in RunId :
                 IF r \in R \ snaps THEN stamp'[r] = 0
                 ELSE tree'[r] = tree[r] /\ prior'[r] = prior[r] /\ stamp'[r] = stamp[r]
  <1>1. EmptyTree \in Trees /\ NoRows \in FetchedRows /\ 0 \in Nat
    BY DEF Trees, FetchedRows, NoRows
  <1>2. /\ rows \in [RunId -> FetchedRows] /\ tree \in [RunId -> Trees]
        /\ prior \in [RunId -> RunId \cup {NoRun}] /\ stamp \in [RunId -> Nat]
    BY DEF DriftInv, DriftShape, TypeOK
  <1> QED  BY <1>1, <1>2 DEF Forget

----------------------------------------------------------------------------
(* The steps of the scheduler and of the environment *)

\* Every run is left alone.
LEMMA AllUndisturbed ==
    ASSUME DriftInv, DriftShape', ChainKept, \A r \in RunId : Undisturbed(r)
    PROVE  DriftInv'
  <1>1. ASSUME NEW r \in RunId PROVE RunInv(r)'
    BY UndisturbedKept
  <1> QED  BY <1>1 DEF DriftInv

\* A scan reads the due tasks.
LEMMA StepScan ==
    ASSUME DriftInv, ScanTasks
    PROVE  DriftInv'
  <1>1. DriftShape'
    BY ConstAssumption DEF DriftInv, DriftShape, TypeOK, ScanTasks, snapVars, taskVars, envVars,
       worldVars
  <1>2. ChainKept
    BY DEF DriftInv, DriftShape, TypeOK, ChainKept, ScanTasks, snapVars, taskVars, envVars,
       worldVars
  <1>3. \A r \in RunId : Undisturbed(r)
    BY DEF DriftInv, DriftShape, TypeOK, Undisturbed, ScanTasks, snapVars, taskVars, envVars,
       worldVars
  <1> QED  BY <1>1, <1>2, <1>3, AllUndisturbed

\* A task in flight is passed over.
LEMMA StepSkip ==
    ASSUME DriftInv, NEW t \in Task, SkipTask(t)
    PROVE  DriftInv'
  <1>1. DriftShape'
    BY ConstAssumption DEF DriftInv, DriftShape, TypeOK, SkipTask, snapVars, taskVars, envVars,
       worldVars
  <1>2. ChainKept
    BY DEF DriftInv, DriftShape, TypeOK, ChainKept, SkipTask, snapVars, taskVars, envVars, worldVars
  <1>3. \A r \in RunId : Undisturbed(r)
    BY DEF DriftInv, DriftShape, TypeOK, Undisturbed, SkipTask, snapVars, taskVars, envVars,
       worldVars
  <1> QED  BY <1>1, <1>2, <1>3, AllUndisturbed

\* The scheduler starts a run.
LEMMA StepDispatch ==
    ASSUME DriftInv, NEW t \in Task, DispatchTask(t)
    PROVE  DriftInv'
  <1>1. DriftShape'
    BY ConstAssumption DEF DriftInv, DriftShape, TypeOK, Live, DispatchTask, StartRun, MayStart, snapVars,
       taskVars, envVars, worldVars
  <1>2. ChainKept
    BY DEF DriftInv, DriftShape, TypeOK, ChainKept, DispatchTask, StartRun, MayStart, snapVars, taskVars,
       envVars, worldVars
  <1>3. \A r \in RunId : Undisturbed(r)
    BY DEF DriftInv, DriftShape, TypeOK, Undisturbed, DispatchTask, StartRun, MayStart, snapVars, taskVars,
       envVars, worldVars
  <1> QED  BY <1>1, <1>2, <1>3, AllUndisturbed

\* A manual run starts.
LEMMA StepManual ==
    ASSUME DriftInv, NEW t \in Task, RunTaskNow(t)
    PROVE  DriftInv'
  <1>1. DriftShape'
    BY ConstAssumption DEF DriftInv, DriftShape, TypeOK, Live, RunTaskNow, StartRun, MayStart, snapVars,
       taskVars, schedVars, envVars, worldVars
  <1>2. ChainKept
    BY DEF DriftInv, DriftShape, TypeOK, ChainKept, RunTaskNow, StartRun, MayStart, snapVars, taskVars,
       schedVars, envVars, worldVars
  <1>3. \A r \in RunId : Undisturbed(r)
    BY DEF DriftInv, DriftShape, TypeOK, Undisturbed, RunTaskNow, StartRun, MayStart, snapVars, taskVars,
       schedVars, envVars, worldVars
  <1> QED  BY <1>1, <1>2, <1>3, AllUndisturbed

\* The source's schema changes.
LEMMA StepDdl ==
    ASSUME DriftInv, SourceDdl
    PROVE  DriftInv'
  <1>1. DriftShape'
    BY ConstAssumption DEF DriftInv, DriftShape, TypeOK, SourceDdl, snapVars, taskVars,
       schedVars, envVars, worldVars
  <1>2. ChainKept
    BY DEF DriftInv, DriftShape, TypeOK, ChainKept, SourceDdl, snapVars, taskVars, schedVars,
       envVars, worldVars
  <1>3. \A r \in RunId : Undisturbed(r)
    BY DEF DriftInv, DriftShape, TypeOK, Undisturbed, SourceDdl, snapVars, taskVars, schedVars,
       envVars, worldVars
  <1> QED  BY <1>1, <1>2, <1>3, AllUndisturbed

\* Time passes.
LEMMA StepMinute ==
    ASSUME DriftInv, Minute
    PROVE  DriftInv'
  <1>1. DriftShape'
    BY ConstAssumption DEF DriftInv, DriftShape, TypeOK, Minute, snapVars, taskVars, schedVars,
       envVars, worldVars
  <1>2. ChainKept
    BY DEF DriftInv, DriftShape, TypeOK, ChainKept, Minute, snapVars, taskVars, schedVars,
       envVars, worldVars
  <1>3. \A r \in RunId : Undisturbed(r)
    BY DEF DriftInv, DriftShape, TypeOK, Undisturbed, Minute, snapVars, taskVars, schedVars,
       envVars, worldVars
  <1> QED  BY <1>1, <1>2, <1>3, AllUndisturbed

\* The process dies: its runs end where they are.
LEMMA StepCrash ==
    ASSUME DriftInv, Crash
    PROVE  DriftInv'
  <1>0. /\ rows' \in [RunId -> FetchedRows] /\ tree' \in [RunId -> Trees]
        /\ prior' \in [RunId -> RunId \cup {NoRun}] /\ stamp' \in [RunId -> Nat]
        /\ UNCHANGED <<snaps, priorHash, changes, clock, before>>
        /\ \A r \in RunId : r \notin Active => rows'[r] = rows[r]
        /\ \A r \in RunId :
              IF r \in Active \ snaps THEN stamp'[r] = 0
              ELSE tree'[r] = tree[r] /\ prior'[r] = prior[r] /\ stamp'[r] = stamp[r]
    <2>1. Forget(Active)
      BY DEF Crash
    <2> QED  BY <2>1, ForgetShape
  <1>1. DriftShape'
    BY <1>0, ConstAssumption DEF DriftInv, DriftShape, TypeOK, Crash, Fault, taskVars, worldVars
  <1>2. ChainKept
    BY <1>0 DEF DriftInv, DriftShape, TypeOK, ChainKept, Crash, worldVars
  <1>3. \A r \in RunId : Undisturbed(r)
    <2>1. \A r \in RunId : pc'[r] = IF r \in Active THEN "dead" ELSE pc[r]
      BY DEF Crash
    <2> QED  BY <1>0, <2>1 DEF Undisturbed, Crash, taskVars
  <1> QED  BY <1>1, <1>2, <1>3, AllUndisturbed

----------------------------------------------------------------------------
(* The steps of a run *)

\* The step of one run leaves the others alone.
LEMMA OneDisturbed ==
    ASSUME DriftInv, DriftShape', ChainKept, NEW q \in RunId, RunInv(q)',
           \A r \in RunId \ {q} : Undisturbed(r)
    PROVE  DriftInv'
  <1>1. ASSUME NEW r \in RunId PROVE RunInv(r)'
    <2>1. CASE r = q
      BY <2>1
    <2>2. CASE r # q
      BY <2>2, UndisturbedKept
    <2> QED  BY <2>1, <2>2
  <1> QED  BY <1>1 DEF DriftInv

\* The run opens its history row and the source.
LEMMA StepOpen ==
    ASSUME DriftInv, NEW q \in RunId, OpenRun(q)
    PROVE  DriftInv'
  <1>0. RunInv(q)
    BY DEF DriftInv
  <1>1. DriftShape'
    BY ConstAssumption DEF DriftInv, DriftShape, TypeOK, Live, OpenRun, CanaryRefuses, Goto,
       Return, Fault, Fails, snapVars, taskVars, schedVars, worldVars, envVars
  <1>2. ChainKept
    BY <1>0 DEF DriftInv, DriftShape, TypeOK, RunInv, Counted, ChainKept, OpenRun, CanaryRefuses,
       Goto, Return, Fault, Fails, snapVars, taskVars, schedVars, worldVars, envVars
  <1>3. \A r \in RunId \ {q} : Undisturbed(r)
    BY DEF DriftInv, DriftShape, TypeOK, Undisturbed, OpenRun, CanaryRefuses, Goto, Return,
       Fault, Fails, snapVars, taskVars, schedVars, worldVars, envVars
  <1>4. RunInv(q)'
    <2>1. Fetched(q)'
      BY <1>0 DEF DriftInv, DriftShape, TypeOK, RunInv, Fetched, OpenRun, CanaryRefuses, Goto,
         Return, Fault, Fails, snapVars, taskVars, schedVars, worldVars, envVars
    <2>2. Chained(q)'
      BY <1>0 DEF DriftInv, DriftShape, TypeOK, RunInv, Chained, Counted, OpenRun, CanaryRefuses,
         Goto, Return, Fault, Fails, snapVars, taskVars, schedVars, worldVars, envVars
    <2>3. Counted(q)'
      BY <1>0 DEF DriftInv, DriftShape, TypeOK, RunInv, Counted, OpenRun, CanaryRefuses, Goto,
         Return, Fault, Fails, snapVars, taskVars, schedVars, worldVars, envVars
    <2>4. Announced(q)'
      BY <1>0 DEF DriftInv, DriftShape, TypeOK, RunInv, Counted, Announced, OpenRun,
         CanaryRefuses, Goto, Return, Fault, Fails, snapVars, taskVars, schedVars, worldVars,
         envVars
    <2> QED  BY <2>1, <2>2, <2>3, <2>4 DEF RunInv
  <1> QED  BY <1>1, <1>2, <1>3, <1>4, OneDisturbed

\* The first catalog query.
LEMMA StepColumns ==
    ASSUME DriftInv, NEW q \in RunId, CollectColumns(q)
    PROVE  DriftInv'
  <1>0. RunInv(q)
    BY DEF DriftInv
  <1>p. pc[q] = "columns" => [columns |-> catalog.columns, indexes |-> {}] \in FetchedRows
    BY <1>0 DEF DriftInv, DriftShape, TypeOK, RunInv, Fetched, FetchedRows
  <1>1. DriftShape'
    <2>1. PICK fetched : /\ pc[q] = "columns" => fetched \in FetchedRows
                         /\ CollectRows(q, "columns", fetched, "indexes")
      BY <1>p DEF CollectColumns
    <2> QED
      BY <2>1, ConstAssumption
      DEF DriftInv, DriftShape, TypeOK, Live, CollectRows, Goto, Return, Fault, Fails, snapVars,
      taskVars, schedVars, worldVars, envVars
  <1>2. ChainKept
    BY <1>0 DEF DriftInv, DriftShape, TypeOK, RunInv, Counted, ChainKept, CollectColumns,
       CollectRows, Goto, Return, Fault, Fails, snapVars, taskVars, schedVars, worldVars, envVars
  <1>3. \A r \in RunId \ {q} : Undisturbed(r)
    BY DEF DriftInv, DriftShape, TypeOK, Undisturbed, CollectColumns, CollectRows, Goto, Return,
       Fault, Fails, snapVars, taskVars, schedVars, worldVars, envVars
  <1>4. RunInv(q)'
    <2>1. Fetched(q)'
      BY <1>0, <1>p DEF DriftInv, DriftShape, TypeOK, RunInv, Fetched, CollectColumns,
         CollectRows, Goto, Return, Fault, Fails, snapVars, taskVars, schedVars, worldVars, envVars
    <2>2. Chained(q)'
      BY <1>0 DEF DriftInv, DriftShape, TypeOK, RunInv, Chained, Counted, CollectColumns,
         CollectRows, Goto, Return, Fault, Fails, snapVars, taskVars, schedVars, worldVars, envVars
    <2>3. Counted(q)'
      BY <1>0 DEF DriftInv, DriftShape, TypeOK, RunInv, Counted, CollectColumns, CollectRows,
         Goto, Return, Fault, Fails, snapVars, taskVars, schedVars, worldVars, envVars
    <2>4. Announced(q)'
      BY <1>0 DEF DriftInv, DriftShape, TypeOK, RunInv, Counted, Announced, CollectColumns,
         CollectRows, Goto, Return, Fault, Fails, snapVars, taskVars, schedVars, worldVars, envVars
    <2> QED  BY <2>1, <2>2, <2>3, <2>4 DEF RunInv
  <1> QED  BY <1>1, <1>2, <1>3, <1>4, OneDisturbed

\* The second catalog query.
LEMMA StepIndexes ==
    ASSUME DriftInv, NEW q \in RunId, CollectIndexes(q)
    PROVE  DriftInv'
  <1>0. RunInv(q)
    BY DEF DriftInv
  <1>p. pc[q] = "indexes" => [columns |-> rows[q].columns, indexes |-> catalog.indexes] \in FetchedRows
    BY <1>0 DEF DriftInv, DriftShape, TypeOK, RunInv, Fetched, FetchedRows
  <1>1. DriftShape'
    <2>1. PICK fetched : /\ pc[q] = "indexes" => fetched \in FetchedRows
                         /\ CollectRows(q, "indexes", fetched, "fks")
      BY <1>p DEF CollectIndexes
    <2> QED
      BY <2>1, ConstAssumption
      DEF DriftInv, DriftShape, TypeOK, Live, CollectRows, Goto, Return, Fault, Fails, snapVars,
      taskVars, schedVars, worldVars, envVars
  <1>2. ChainKept
    BY <1>0 DEF DriftInv, DriftShape, TypeOK, RunInv, Counted, ChainKept, CollectIndexes,
       CollectRows, Goto, Return, Fault, Fails, snapVars, taskVars, schedVars, worldVars, envVars
  <1>3. \A r \in RunId \ {q} : Undisturbed(r)
    BY DEF DriftInv, DriftShape, TypeOK, Undisturbed, CollectIndexes, CollectRows, Goto, Return,
       Fault, Fails, snapVars, taskVars, schedVars, worldVars, envVars
  <1>4. RunInv(q)'
    <2>1. Fetched(q)'
      BY <1>0, <1>p DEF DriftInv, DriftShape, TypeOK, RunInv, Fetched, CollectIndexes,
         CollectRows, Goto, Return, Fault, Fails, snapVars, taskVars, schedVars, worldVars, envVars
    <2>2. Chained(q)'
      BY <1>0 DEF DriftInv, DriftShape, TypeOK, RunInv, Chained, Counted, CollectIndexes,
         CollectRows, Goto, Return, Fault, Fails, snapVars, taskVars, schedVars, worldVars, envVars
    <2>3. Counted(q)'
      BY <1>0 DEF DriftInv, DriftShape, TypeOK, RunInv, Counted, CollectIndexes, CollectRows,
         Goto, Return, Fault, Fails, snapVars, taskVars, schedVars, worldVars, envVars
    <2>4. Announced(q)'
      BY <1>0 DEF DriftInv, DriftShape, TypeOK, RunInv, Counted, Announced, CollectIndexes,
         CollectRows, Goto, Return, Fault, Fails, snapVars, taskVars, schedVars, worldVars, envVars
    <2> QED  BY <2>1, <2>2, <2>3, <2>4 DEF RunInv
  <1> QED  BY <1>1, <1>2, <1>3, <1>4, OneDisturbed

\* The third catalog query and the assembly of the tree.
LEMMA StepFks ==
    ASSUME DriftInv, NEW q \in RunId, CollectFks(q)
    PROVE  DriftInv'
  <1>0. RunInv(q)
    BY DEF DriftInv
  <1>p. /\ pc[q] = "fks" => Assemble(rows[q].columns, rows[q].indexes, catalog.fks) \in Trees
        /\ NoRows \in FetchedRows
    <2>1. NoRows \in FetchedRows
      BY DEF FetchedRows, NoRows
    <2>2. ASSUME pc[q] = "fks"
          PROVE  Assemble(rows[q].columns, rows[q].indexes, catalog.fks) \in Trees
      <3>1. PICK a \in Catalogs, b \in Catalogs : rows[q].columns = a.columns /\ rows[q].indexes = b.indexes
        BY <1>0, <2>2 DEF RunInv, Fetched
      <3>2. catalog \in Catalogs
        BY DEF DriftInv, DriftShape, TypeOK
      <3> QED  BY <3>1, <3>2 DEF Trees
    <2> QED  BY <2>1, <2>2
  <1>1. DriftShape'
    <2>1. rows' \in [RunId -> FetchedRows]
      BY <1>p DEF DriftInv, DriftShape, CollectFks
    <2>2. tree' \in [RunId -> Trees]
      BY <1>p DEF DriftInv, DriftShape, TypeOK, CollectFks
    <2>3. /\ pc' \in [RunId -> Live \cup {"none", "done", "dead"}]
          /\ outcome' \in [RunId -> {"none", "ok", "error"}] /\ faults' \in 0..MaxFaults
      BY ConstAssumption DEF DriftInv, DriftShape, TypeOK, Live, CollectFks, Goto, Return, Fault,
         Fails
    <2> QED
      BY <2>1, <2>2, <2>3 DEF DriftInv, DriftShape, TypeOK, CollectFks, snapVars, taskVars,
         schedVars, worldVars, envVars
  <1>2. ChainKept
    BY <1>0 DEF DriftInv, DriftShape, TypeOK, RunInv, Counted, ChainKept, CollectFks, Goto,
       Return, Fault, Fails, snapVars, taskVars, schedVars, worldVars, envVars
  <1>3. \A r \in RunId \ {q} : Undisturbed(r)
    BY DEF DriftInv, DriftShape, TypeOK, Undisturbed, CollectFks, Goto, Return, Fault, Fails,
       snapVars, taskVars, schedVars, worldVars, envVars
  <1>4. RunInv(q)'
    <2>1. Fetched(q)'
      BY <1>0 DEF DriftInv, DriftShape, TypeOK, RunInv, Fetched, CollectFks, Goto, Return, Fault,
         Fails, snapVars, taskVars, schedVars, worldVars, envVars
    <2>2. Chained(q)'
      BY <1>0 DEF DriftInv, DriftShape, TypeOK, RunInv, Chained, Counted, CollectFks, Goto,
         Return, Fault, Fails, snapVars, taskVars, schedVars, worldVars, envVars
    <2>3. Counted(q)'
      BY <1>0 DEF DriftInv, DriftShape, TypeOK, RunInv, Counted, CollectFks, Goto, Return, Fault,
         Fails, snapVars, taskVars, schedVars, worldVars, envVars
    <2>4. Announced(q)'
      BY <1>0 DEF DriftInv, DriftShape, TypeOK, RunInv, Counted, Announced, CollectFks, Goto,
         Return, Fault, Fails, snapVars, taskVars, schedVars, worldVars, envVars
    <2> QED  BY <2>1, <2>2, <2>3, <2>4 DEF RunInv
  <1> QED  BY <1>1, <1>2, <1>3, <1>4, OneDisturbed

\* The prior snapshot is read.
LEMMA StepCompare ==
    ASSUME DriftInv, NEW q \in RunId, Compare(q)
    PROVE  DriftInv'
  <1>0. RunInv(q)
    BY DEF DriftInv
  <1>p. \/ PriorSnapshot = NoRun /\ snaps = {}
        \/ PriorSnapshot \in snaps /\ \A s \in snaps : stamp[s] <= stamp[PriorSnapshot]
    <2>1. CASE snaps = {}
      BY <2>1 DEF PriorSnapshot
    <2>2. CASE snaps # {}
      BY <2>2, PriorStored
    <2> QED  BY <2>1, <2>2
  <1>1. DriftShape'
    BY <1>p, ConstAssumption DEF DriftInv, DriftShape, TypeOK, Live, Compare, Goto, Return, Fault, Fails,
       snapVars, taskVars, schedVars, worldVars, envVars
  <1>2. ChainKept
    BY <1>0 DEF DriftInv, DriftShape, TypeOK, RunInv, Counted, ChainKept, Compare, Goto, Return, Fault, Fails,
       snapVars, taskVars, schedVars, worldVars, envVars
  <1>3. \A r \in RunId \ {q} : Undisturbed(r)
    BY DEF DriftInv, DriftShape, TypeOK, Undisturbed, Compare, Goto, Return, Fault, Fails,
       snapVars, taskVars, schedVars, worldVars, envVars
  <1>4. RunInv(q)'
    <2>1. Fetched(q)'
      BY <1>0 DEF DriftInv, DriftShape, TypeOK, RunInv, Fetched, Compare, Goto, Return, Fault, Fails,
       snapVars, taskVars, schedVars, worldVars, envVars
    <2>2. Chained(q)'
      <3>1. /\ q \notin snaps /\ before[q] \subseteq snaps /\ stamp[q] <= clock /\ NoRun \notin snaps
            /\ UNCHANGED <<snaps, stamp, before, clock>>
        BY <1>0 DEF DriftInv, DriftShape, TypeOK, RunInv, Chained, Counted, Compare, NoRun, RunId
      <3>2. CASE prior' = [prior EXCEPT ![q] = PriorSnapshot] /\ pc' = [pc EXCEPT ![q] = "stamp"]
        <4>1. prior'[q] = PriorSnapshot /\ pc'[q] = "stamp"
          BY <3>2 DEF DriftInv, DriftShape, TypeOK
        <4> QED  BY <1>p, <3>1, <4>1 DEF Chained
      <3>3. CASE pc' = [pc EXCEPT ![q] = "finish"]
        <4>1. pc'[q] = "finish"
          BY <3>3 DEF DriftInv, DriftShape, TypeOK
        <4> QED  BY <3>1, <4>1 DEF Chained
      <3> QED  BY <3>2, <3>3 DEF Compare, Goto, Return, Fault, Fails
    <2>3. Counted(q)'
      BY <1>0 DEF DriftInv, DriftShape, TypeOK, RunInv, Counted, Compare, Goto, Return, Fault,
         Fails, snapVars, taskVars, schedVars, worldVars, envVars
    <2>4. Announced(q)'
      BY <1>0 DEF DriftInv, DriftShape, TypeOK, RunInv, Counted, Announced, Compare, Goto,
         Return, Fault, Fails, snapVars, taskVars, schedVars, worldVars, envVars
    <2> QED  BY <2>1, <2>2, <2>3, <2>4 DEF RunInv
  <1> QED  BY <1>1, <1>2, <1>3, <1>4, OneDisturbed

\* The run takes its captured_at.
LEMMA StepStamp ==
    ASSUME DriftInv, NEW q \in RunId, TakeStamp(q)
    PROVE  DriftInv'
  <1>0. RunInv(q)
    BY DEF DriftInv
  <1>p. clock \in Nat /\ clock + 1 \in Nat
    BY DEF DriftInv, DriftShape, TypeOK
  <1>1. DriftShape'
    BY <1>p, ConstAssumption DEF DriftInv, DriftShape, TypeOK, Live, TakeStamp, Goto, Return, Fault, Fails,
       snapVars, taskVars, schedVars, worldVars, envVars
  <1>2. ChainKept
    BY <1>0 DEF DriftInv, DriftShape, TypeOK, RunInv, Counted, ChainKept, TakeStamp, Goto, Return, Fault, Fails,
       snapVars, taskVars, schedVars, worldVars, envVars
  <1>3. \A r \in RunId \ {q} : Undisturbed(r)
    BY DEF DriftInv, DriftShape, TypeOK, Undisturbed, TakeStamp, Goto, Return, Fault, Fails,
       snapVars, taskVars, schedVars, worldVars, envVars
  <1>4. RunInv(q)'
    <2>1. Fetched(q)'
      BY <1>0 DEF DriftInv, DriftShape, TypeOK, RunInv, Fetched, TakeStamp, Goto, Return, Fault, Fails,
       snapVars, taskVars, schedVars, worldVars, envVars
    <2>2. Chained(q)'
      <3>1. /\ q \notin snaps /\ before[q] \subseteq snaps /\ UNCHANGED <<snaps, before, prior>>
            /\ \/ prior[q] = NoRun /\ before[q] = {}
               \/ /\ prior[q] # NoRun /\ prior[q] \in snaps
                  /\ \A s \in before[q] : stamp[s] <= stamp[prior[q]]
        BY <1>0 DEF RunInv, Chained, Counted, TakeStamp
      <3>2. \A r \in snaps : stamp'[r] = stamp[r] /\ stamp[r] \in Nat /\ stamp[r] <= clock
        BY <1>2 DEF DriftInv, DriftShape, TypeOK, RunInv, Chained, ChainKept
      <3>3. stamp'[q] = clock + 1 /\ clock' = clock + 1
        BY DEF DriftInv, DriftShape, TypeOK, TakeStamp
      <3> QED  BY <1>p, <3>1, <3>2, <3>3 DEF Chained
    <2>3. Counted(q)'
      BY <1>0 DEF DriftInv, DriftShape, TypeOK, RunInv, Counted, TakeStamp, Goto, Return, Fault,
         Fails, snapVars, taskVars, schedVars, worldVars, envVars
    <2>4. Announced(q)'
      BY <1>0 DEF DriftInv, DriftShape, TypeOK, RunInv, Counted, Announced, TakeStamp, Goto,
         Return, Fault, Fails, snapVars, taskVars, schedVars, worldVars, envVars
    <2> QED  BY <2>1, <2>2, <2>3, <2>4 DEF RunInv
  <1> QED  BY <1>1, <1>2, <1>3, <1>4, OneDisturbed

\* The snapshot is stored with its change_count.
LEMMA StepInsert ==
    ASSUME DriftInv, NEW q \in RunId, InsertSnapshot(q)
    PROVE  DriftInv'
  <1>0. RunInv(q)
    BY DEF DriftInv
  <1>p. /\ prior[q] = NoRun \/ prior[q] \in snaps
        /\ q \notin snaps
        /\ PriorHash(q) \in SUBSET Trees /\ PriorHash(q)' = PriorHash(q)
    <2>1. prior[q] = NoRun \/ prior[q] \in snaps
      BY <1>0 DEF RunInv, Chained, InsertSnapshot
    <2>2. prior[q] # NoRun => tree[prior[q]] \in Trees
      BY <2>1 DEF DriftInv, DriftShape, TypeOK
    <2> QED  BY <1>0, <2>1, <2>2 DEF RunInv, Counted, InsertSnapshot, PriorHash
  <1>d. /\ Cardinality(DriftsOf(q)) \in Nat
        /\ Cardinality(DriftsOf(q)) = 0 <=> DriftsOf(q) = {}
        /\ prior[q] = NoRun => DriftsOf(q) = {}
        /\ prior[q] # NoRun => (DriftsOf(q) = {} <=> Visible(tree[prior[q]]) = Visible(tree[q]))
    <2>1. CASE prior[q] = NoRun \/ tree[prior[q]] = tree[q]
      BY <2>1, FS_EmptySet DEF DriftsOf
    <2>2. CASE ~ (prior[q] = NoRun \/ tree[prior[q]] = tree[q])
      <3>1. DriftsOf(q) = ComputeDrifts(tree[prior[q]], tree[q])
        BY <2>2 DEF DriftsOf
      <3>2. tree[prior[q]] \in Trees /\ tree[q] \in Trees
        BY <1>p, <2>2 DEF DriftInv, DriftShape, TypeOK
      <3>3. FiniteTree(tree[prior[q]]) /\ FiniteTree(tree[q])
        BY <3>2, TreesFinite
      <3> QED  BY <2>2, <3>1, <3>3, DriftsFinite, DriftsTellApart
    <2> QED  BY <2>1, <2>2
  <1>1. DriftShape'
    BY <1>p, <1>d, ConstAssumption DEF DriftInv, DriftShape, TypeOK, Live, InsertSnapshot, Goto,
       Return, Fault, Fails, snapVars, taskVars, schedVars, worldVars, envVars
  <1>2. ChainKept
    BY <1>0 DEF DriftInv, DriftShape, TypeOK, RunInv, Counted, ChainKept, InsertSnapshot, Goto,
       Return, Fault, Fails, snapVars, taskVars, schedVars, worldVars, envVars
  <1>3. \A r \in RunId \ {q} : Undisturbed(r)
    BY DEF DriftInv, DriftShape, TypeOK, Undisturbed, InsertSnapshot, Goto, Return, Fault, Fails,
       snapVars, taskVars, schedVars, worldVars, envVars
  <1>4. RunInv(q)'
    <2>1. Fetched(q)'
      BY <1>0 DEF DriftInv, DriftShape, TypeOK, RunInv, Fetched, InsertSnapshot, Goto, Return,
         Fault, Fails, snapVars, taskVars, schedVars, worldVars, envVars
    <2>2. Chained(q)'
      BY <1>0 DEF DriftInv, DriftShape, TypeOK, RunInv, Chained, Counted, InsertSnapshot, Goto,
         Return, Fault, Fails, snapVars, taskVars, schedVars, worldVars, envVars
    <2>3. Counted(q)'
      BY <1>0, <1>p, <1>d DEF DriftInv, DriftShape, TypeOK, RunInv, Counted, InsertSnapshot,
         Goto, Return, Fault, Fails, snapVars, taskVars, schedVars, worldVars, envVars
    <2>4. Announced(q)'
      BY <1>0, <1>p, <1>d DEF DriftInv, DriftShape, TypeOK, RunInv, Counted, Announced,
         InsertSnapshot, Goto, Return, Fault, Fails, snapVars, taskVars, schedVars, worldVars,
         envVars
    <2> QED  BY <2>1, <2>2, <2>3, <2>4 DEF RunInv
  <1> QED  BY <1>1, <1>2, <1>3, <1>4, OneDisturbed

\* One POST to the webhook.
LEMMA StepDeliver ==
    ASSUME DriftInv, NEW q \in RunId, DeliverAttempt(q)
    PROVE  DriftInv'
  <1>0. RunInv(q)
    BY DEF DriftInv
  <1>1. DriftShape'
    BY ConstAssumption DEF DriftInv, DriftShape, TypeOK, Live, DeliverAttempt, NoAnswer,
       Delivered, Goto, Return, Fault, Fails, snapVars, taskVars, schedVars, worldVars, envVars
  <1>2. ChainKept
    BY <1>0 DEF DriftInv, DriftShape, TypeOK, RunInv, Counted, ChainKept, DeliverAttempt,
       NoAnswer, Delivered, Goto, Return, Fault, Fails, snapVars, taskVars, schedVars, worldVars,
       envVars
  <1>3. \A r \in RunId \ {q} : Undisturbed(r)
    BY DEF DriftInv, DriftShape, TypeOK, Undisturbed, DeliverAttempt, NoAnswer, Delivered, Goto,
       Return, Fault, Fails, snapVars, taskVars, schedVars, worldVars, envVars
  <1>4. RunInv(q)'
    <2>1. Fetched(q)'
      BY <1>0 DEF DriftInv, DriftShape, TypeOK, RunInv, Fetched, DeliverAttempt, NoAnswer,
         Delivered, Goto, Return, Fault, Fails, snapVars, taskVars, schedVars, worldVars, envVars
    <2>2. Chained(q)'
      BY <1>0 DEF DriftInv, DriftShape, TypeOK, RunInv, Chained, Counted, DeliverAttempt,
         NoAnswer, Delivered, Goto, Return, Fault, Fails, snapVars, taskVars, schedVars,
         worldVars, envVars
    <2>3. Counted(q)'
      BY <1>0 DEF DriftInv, DriftShape, TypeOK, RunInv, Counted, PriorHash, DeliverAttempt, NoAnswer,
         Delivered, Goto, Return, Fault, Fails, snapVars, taskVars, schedVars, worldVars, envVars
    <2>4. Announced(q)'
      BY <1>0 DEF DriftInv, DriftShape, TypeOK, RunInv, Counted, Announced, DeliverAttempt,
         NoAnswer, Delivered, Goto, Return, Fault, Fails, snapVars, taskVars, schedVars,
         worldVars, envVars
    <2> QED  BY <2>1, <2>2, <2>3, <2>4 DEF RunInv
  <1> QED  BY <1>1, <1>2, <1>3, <1>4, OneDisturbed

\* The history row gets its terminal status.
LEMMA StepFinish ==
    ASSUME DriftInv, NEW q \in RunId, FinishRun(q)
    PROVE  DriftInv'
  <1>0. RunInv(q)
    BY DEF DriftInv
  <1>p. SummaryOf(q) \in Summaries
    BY DEF DriftInv, DriftShape, TypeOK, SummaryOf, Summaries
  <1>1. DriftShape'
    <2>1. PICK lost \in SUBSET {"history", "task"} :
             /\ IF lost = {} THEN UNCHANGED faults ELSE Fault("control")
             /\ history' = IF "history" \in lost THEN history
                           ELSE [history EXCEPT ![q] =
                                    IF outcome[q] = "ok" THEN "succeeded" ELSE "failed"]
             /\ summary' = IF "history" \in lost \/ outcome[q] # "ok" THEN summary
                           ELSE [summary EXCEPT ![q] = SummaryOf(q)]
             /\ errors' = IF "history" \in lost \/ outcome[q] = "ok" THEN errors ELSE errors \cup {q}
             /\ lastRun' = IF "task" \in lost THEN lastRun ELSE [lastRun EXCEPT ![task[q]] = now]
      BY DEF FinishRun
    <2>2. summary' \in [RunId -> Summaries]
      BY <1>p, <2>1 DEF DriftInv, DriftShape
    <2>e. errors' \subseteq RunId
      BY <2>1 DEF DriftInv, DriftShape, TypeOK
    <2>3. history' \in [RunId -> {"none", "running", "succeeded", "failed"}]
      BY <2>1 DEF DriftInv, DriftShape, TypeOK
    <2>4. lastRun' \in [Task -> Nat]
      BY <2>1 DEF DriftInv, DriftShape, TypeOK
    <2>5. faults' \in 0..MaxFaults
      BY <2>1, ConstAssumption DEF DriftInv, DriftShape, TypeOK, Fault
    <2>6. pc' \in [RunId -> Live \cup {"none", "done", "dead"}]
      BY DEF DriftInv, DriftShape, TypeOK, Live, FinishRun, Goto
    <2> QED
      BY <2>e, <2>2, <2>3, <2>4, <2>5, <2>6 DEF DriftInv, DriftShape, TypeOK, FinishRun, snapVars,
         taskVars, schedVars, worldVars, envVars
  <1>2. ChainKept
    BY <1>0 DEF DriftInv, DriftShape, TypeOK, RunInv, Counted, ChainKept, FinishRun, SummaryOf,
       Goto, Return, Fault, Fails, snapVars, taskVars, schedVars, worldVars, envVars
  <1>3. \A r \in RunId \ {q} : Undisturbed(r)
    BY DEF DriftInv, DriftShape, TypeOK, Undisturbed, FinishRun, SummaryOf, Goto, Return, Fault,
       Fails, snapVars, taskVars, schedVars, worldVars, envVars
  <1>4. RunInv(q)'
    <2>1. Fetched(q)'
      BY <1>0 DEF DriftInv, DriftShape, TypeOK, RunInv, Fetched, FinishRun, SummaryOf, Goto,
         Return, Fault, Fails, snapVars, taskVars, schedVars, worldVars, envVars
    <2>2. Chained(q)'
      BY <1>0 DEF DriftInv, DriftShape, TypeOK, RunInv, Chained, Counted, FinishRun, SummaryOf,
         Goto, Return, Fault, Fails, snapVars, taskVars, schedVars, worldVars, envVars
    <2>3. Counted(q)'
      BY <1>0 DEF DriftInv, DriftShape, TypeOK, RunInv, Counted, PriorHash, FinishRun, SummaryOf, Goto,
         Return, Fault, Fails, snapVars, taskVars, schedVars, worldVars, envVars
    <2>4. Announced(q)'
      BY <1>0 DEF DriftInv, DriftShape, TypeOK, RunInv, Counted, Announced, FinishRun, SummaryOf,
         Goto, Return, Fault, Fails, snapVars, taskVars, schedVars, worldVars, envVars
    <2> QED  BY <2>1, <2>2, <2>3, <2>4 DEF RunInv
  <1> QED  BY <1>1, <1>2, <1>3, <1>4, OneDisturbed

\* The task leaves InFlightTasks.
LEMMA StepRelease ==
    ASSUME DriftInv, NEW q \in RunId, ReleaseTask(q)
    PROVE  DriftInv'
  <1>0. RunInv(q)
    BY DEF DriftInv
  <1>f. /\ rows' \in [RunId -> FetchedRows] /\ tree' \in [RunId -> Trees]
        /\ prior' \in [RunId -> RunId \cup {NoRun}] /\ stamp' \in [RunId -> Nat]
        /\ UNCHANGED <<snaps, priorHash, changes, clock, before>>
        /\ \A r \in RunId : r \notin {q} => rows'[r] = rows[r]
        /\ \A r \in RunId :
              IF r \in {q} \ snaps THEN stamp'[r] = 0
              ELSE tree'[r] = tree[r] /\ prior'[r] = prior[r] /\ stamp'[r] = stamp[r]
    <2>1. Forget({q})
      BY DEF ReleaseTask
    <2> QED  BY <2>1, ForgetShape
  <1>g. /\ pc[q] = "release" /\ pc'[q] = "done" /\ \A r \in RunId \ {q} : pc'[r] = pc[r]
        /\ pc' \in [RunId -> Live \cup {"none", "done", "dead"}]
    BY DEF DriftInv, DriftShape, TypeOK, ReleaseTask, Goto
  <1>1. DriftShape'
    BY <1>f, <1>g DEF DriftInv, DriftShape, TypeOK, ReleaseTask, Released, taskVars, worldVars, envVars
  <1>2. ChainKept
    BY <1>f DEF DriftInv, DriftShape, TypeOK, ChainKept, ReleaseTask, worldVars, envVars
  <1>3. \A r \in RunId \ {q} : Undisturbed(r)
    BY <1>f, <1>g DEF Undisturbed, ReleaseTask, taskVars
  <1>4. RunInv(q)'
    <2>1. Fetched(q)'
      BY <1>g DEF Fetched
    <2>2. Chained(q)'
      <3>1. clock \in Nat /\ snaps \subseteq RunId
        BY DEF DriftInv, DriftShape, TypeOK
      <3>2. CASE q \in snaps
        <4>1. /\ \A r \in snaps : stamp'[r] = stamp[r]
              /\ prior'[q] = prior[q] /\ stamp'[q] = stamp[q]
          BY <1>f, <3>1, <3>2
        <4> QED  BY <1>0, <1>f, <1>g, <3>2, <4>1 DEF RunInv, Chained
      <3>3. CASE q \notin snaps
        BY <1>0, <1>f, <1>g, <3>1, <3>3 DEF RunInv, Chained
      <3> QED  BY <3>2, <3>3
    <2>3. Counted(q)'
      <3>1. SUFFICES ASSUME q \in snaps PROVE Counted(q)'
        BY <1>f DEF Counted
      <3>2. prior[q] # NoRun => prior[q] \in snaps /\ prior[q] \in RunId
        BY <1>0, <3>1 DEF RunInv, Chained, DriftInv, DriftShape, TypeOK
      <3>3. /\ prior'[q] = prior[q] /\ tree'[q] = tree[q]
            /\ prior[q] # NoRun => tree'[prior[q]] = tree[prior[q]]
        BY <1>f, <3>1, <3>2
      <3> QED  BY <1>0, <1>f, <1>g, <3>1, <3>3 DEF RunInv, Counted, PriorHash
    <2>4. Announced(q)'
      <3>1. q \in snaps => prior'[q] = prior[q]
        BY <1>f
      <3> QED  BY <1>0, <1>f, <1>g, <3>1 DEF RunInv, Announced, ReleaseTask, taskVars, worldVars, envVars
    <2> QED  BY <2>1, <2>2, <2>3, <2>4 DEF RunInv
  <1> QED  BY <1>1, <1>2, <1>3, <1>4, OneDisturbed

----------------------------------------------------------------------------
(* The theorems *)

\* The inductive invariant holds at boot.
LEMMA InitDriftInv == Init => DriftInv
  <1> SUFFICES ASSUME Init PROVE DriftInv
    OBVIOUS
  <1>1. /\ EmptyTree \in Trees /\ NoSummary \in Summaries
        /\ NoRows \in FetchedRows
    BY DEF Trees, NoSummary, Summaries, FetchedRows, NoRows
  <1>2. DriftShape
    <2>1. tree \in [RunId -> Trees] /\ summary \in [RunId -> Summaries] /\ rows \in [RunId -> FetchedRows]
      BY <1>1 DEF Init
    <2>2. Never \in Nat
      BY ConstAssumption DEF Never
    <2> QED  BY <2>1, <2>2, ConstAssumption DEF DriftShape, TypeOK, Init
  <1>3. ASSUME NEW r \in RunId PROVE RunInv(r)
    BY DEF Init, RunInv, Fetched, Chained, Counted, Announced
  <1> QED  BY <1>2, <1>3 DEF DriftInv

\* Every step keeps it.
LEMMA NextDriftInv == DriftInv /\ [Next]_vars => DriftInv'
  <1> SUFFICES ASSUME DriftInv, [Next]_vars PROVE DriftInv'
    OBVIOUS
  <1>1. CASE ScanTasks
    BY <1>1, StepScan
  <1>2. ASSUME NEW t \in Task, SkipTask(t) \/ DispatchTask(t) \/ RunTaskNow(t) PROVE DriftInv'
    BY <1>2, StepSkip, StepDispatch, StepManual
  <1>3. ASSUME NEW r \in RunId, RunStep(r) PROVE DriftInv'
    BY <1>3, StepOpen, StepColumns, StepIndexes, StepFks, StepCompare, StepStamp, StepInsert,
       StepDeliver, StepFinish, StepRelease DEF RunStep
  <1>4. CASE SourceDdl \/ Minute \/ Crash
    BY <1>4, StepDdl, StepMinute, StepCrash
  <1>5. CASE UNCHANGED vars
    <2>1. DriftShape'
      BY <1>5 DEF DriftInv, DriftShape, TypeOK, vars, snapVars, taskVars, schedVars, worldVars,
         envVars
    <2>2. ChainKept /\ \A r \in RunId : Undisturbed(r)
      BY <1>5 DEF DriftInv, DriftShape, TypeOK, ChainKept, Undisturbed, vars, snapVars, taskVars,
          schedVars, worldVars, envVars
    <2> QED  BY <2>1, <2>2, AllUndisturbed
  <1> QED  BY <1>1, <1>2, <1>3, <1>4, <1>5 DEF Next

\* Every reachable state satisfies it.
LEMMA DriftInvariant == Spec => []DriftInv
  BY InitDriftInv, NextDriftInv, PTL DEF Spec

\* For any tasks, catalogs, retries and numbers of runs: runner.rs reads and
\* writes rows of their types, and every snapshot it stores is one its three
\* catalog queries can have put together.
THEOREM DriftTypeCorrect == Spec => []TypeOK
  <1>1. DriftInv => TypeOK
    BY DEF DriftInv, DriftShape
  <1> QED  BY <1>1, DriftInvariant, PTL

\* compute_drifts (diff.rs) returns nothing exactly when the two trees agree on
\* all that the eleven drift kinds speak about, for any two trees.
THEOREM NoDriftMeansSame ==
    \A p, c : ComputeDrifts(p, c) = {} <=> Visible(p) = Visible(c)
  BY DriftsTellApart

\* However many runs overlap, crash or see the schema change under them: the
\* prior_hash of every stored row is the schema_hash of an older row that is no
\* older than any snapshot stored when its run began, and change_count is 0
\* exactly when no drift kind tells the two trees apart (run_task_inner in
\* runner.rs).
THEOREM ChainRecordsChangesHolds == Spec => []ChainRecordsChanges
  <1>1. DriftInv => ChainRecordsChanges
    <2> SUFFICES ASSUME DriftInv, NEW r \in snaps
                 PROVE  /\ priorHash[r] = {} => changes[r] = 0 /\ before[r] = {}
                        /\ \A h \in priorHash[r] :
                              /\ (changes[r] = 0) <=> (Visible(h) = Visible(tree[r]))
                              /\ \E q \in snaps :
                                    /\ tree[q] = h /\ stamp[q] < stamp[r]
                                    /\ \A s \in before[r] : stamp[s] <= stamp[q]
      BY DEF ChainRecordsChanges
    <2>1. RunInv(r)
      BY DEF DriftInv, DriftShape, TypeOK
    <2>2. CASE prior[r] = NoRun
      <3>1. priorHash[r] = {}
        BY <2>1, <2>2 DEF RunInv, Counted, PriorHash
      <3> QED  BY <2>1, <2>2, <3>1 DEF RunInv, Chained, Counted
    <2>3. CASE prior[r] # NoRun
      <3>1. priorHash[r] = {tree[prior[r]]}
        BY <2>1, <2>3 DEF RunInv, Counted, PriorHash
      <3>2. /\ prior[r] \in snaps /\ stamp[prior[r]] < stamp[r]
            /\ \A s \in before[r] : stamp[s] <= stamp[prior[r]]
            /\ changes[r] = 0 <=> Visible(tree[prior[r]]) = Visible(tree[r])
        BY <2>1, <2>3 DEF RunInv, Chained, Counted
      <3> QED  BY <3>1, <3>2
    <2> QED  BY <2>2, <2>3
  <1> QED  BY <1>1, DriftInvariant, PTL

\* The webhook only speaks of stored changes, webhook_status 'ok' means that the
\* payload arrived, and a change whose run has ended was delivered or its run
\* says that it was not (notify.rs and the end of run_task in runner.rs).
THEOREM ChangesAnnouncedHolds == Spec => []ChangesAnnounced
  <1>1. DriftInv => ChangesAnnounced
    <2> SUFFICES ASSUME DriftInv PROVE ChangesAnnounced
      OBVIOUS
    <2>0. received \subseteq RunId /\ snaps \subseteq RunId /\ \A r \in RunId : RunInv(r)
      BY DEF DriftInv, DriftShape, TypeOK
    <2>1. \A r \in received : r \in snaps /\ changes[r] > 0
      BY <2>0 DEF RunInv, Announced
    <2>2. ASSUME NEW r \in RunId, history[r] = "succeeded"
          PROVE  /\ r \in snaps
                 /\ summary[r].count = changes[r] /\ summary[r].baseline = prior[r]
                 /\ summary[r].webhook = "ok" => r \in received
                 /\ (changes[r] > 0 /\ r \notin received) => summary[r].webhook \in {"failed", "skipped"}
      BY <2>0, <2>2 DEF RunInv, Announced
    <2>3. \A r \in snaps : pc[r] = "done" /\ changes[r] > 0 /\ url = "valid" =>
             r \in received \/ attempt[r] = Attempts
      BY <2>0 DEF RunInv, Announced
    <2> QED  BY <2>1, <2>2, <2>3 DEF ChangesAnnounced
  <1> QED  BY <1>1, DriftInvariant, PTL

----------------------------------------------------------------------------
(* The scheduler takes a task before it runs it *)

\* A task is in flight exactly while it has such a run, and it has one.
LockInv ==
    /\ \A r \in Scheduled : task[r] \in inFlight
    /\ \A t \in inFlight : \E r \in Scheduled : task[r] = t
    /\ \A q, r \in Scheduled : task[q] = task[r] => q = r

\* A step that changes nothing of the lock.
LEMMA LockIdle ==
    ASSUME LockInv, UNCHANGED <<inFlight, task, trigger>>, Active' = Active
    PROVE  LockInv' /\ UNCHANGED Lock!vars
  <1>1. Scheduled' = Scheduled
    BY DEF Scheduled
  <1>2. WorkOf' = WorkOf
    BY <1>1 DEF WorkOf
  <1> QED  BY <1>1, <1>2 DEF LockInv, Lock!vars

\* A run that goes from one of its steps to the next.
LEMMA LockMove ==
    ASSUME TypeOK, LockInv, NEW r \in RunId, pc[r] \in Live, NEW l \in Live,
           pc' = [pc EXCEPT ![r] = l] \/ UNCHANGED pc, UNCHANGED <<inFlight, task, trigger>>
    PROVE  LockInv' /\ UNCHANGED Lock!vars
  <1>1. \A q \in RunId : pc'[q] \in Live <=> pc[q] \in Live
    BY DEF TypeOK
  <1>2. Active' = Active
    BY <1>1 DEF Active
  <1> QED  BY <1>2, LockIdle

\* The scheduler starts a run of a task it has taken.
LEMMA LockDispatch ==
    ASSUME TypeOK, LockInv, NEW t \in Task, DispatchTask(t)
    PROVE  LockInv' /\ Lock!Next
  <1>1. PICK r \in RunId : StartRun(r, t, "scheduler")
    BY DEF DispatchTask
  <1>2. t \notin inFlight /\ inFlight' = inFlight \cup {t}
    BY DEF DispatchTask, TryAcquire
  <1>3. /\ pc[r] = "none" /\ pc'[r] = "open" /\ task'[r] = t /\ trigger'[r] = "scheduler"
        /\ \A q \in RunId : q # r => pc'[q] = pc[q] /\ task'[q] = task[q] /\ trigger'[q] = trigger[q]
    BY <1>1 DEF StartRun, MayStart, TypeOK
  <1>4. Scheduled' = Scheduled \cup {r} /\ r \notin Scheduled /\ Scheduled \subseteq RunId
    BY <1>3 DEF Scheduled, Active, Live
  <1>5. \A q \in Scheduled : task'[q] = task[q] /\ task[q] # t
    BY <1>2, <1>3, <1>4 DEF LockInv
  <1>6. LockInv'
    BY <1>2, <1>3, <1>4, <1>5 DEF LockInv
  <1>7. WorkOf[t] = {} /\ WorkOf' = [WorkOf EXCEPT ![t] = {r}]
    BY <1>3, <1>4, <1>5 DEF WorkOf
  <1> QED  BY <1>2, <1>6, <1>7 DEF Lock!Next, Lock!Acquire

\* A manual run is not the scheduler's.
LEMMA LockManual ==
    ASSUME TypeOK, LockInv, NEW t \in Task, RunTaskNow(t)
    PROVE  LockInv' /\ UNCHANGED Lock!vars
  <1>1. PICK r \in RunId : StartRun(r, t, "manual")
    BY DEF RunTaskNow
  <1>2. /\ pc[r] = "none" /\ trigger'[r] = "manual"
        /\ \A q \in RunId : q # r => pc'[q] = pc[q] /\ task'[q] = task[q] /\ trigger'[q] = trigger[q]
    BY <1>1 DEF StartRun, MayStart, TypeOK
  <1>3. Scheduled' = Scheduled /\ \A q \in Scheduled : task'[q] = task[q]
    BY <1>2 DEF Scheduled, Active, Live
  <1>4. inFlight' = inFlight
    BY DEF RunTaskNow, schedVars
  <1>5. WorkOf' = WorkOf
    BY <1>3 DEF WorkOf
  <1> QED  BY <1>3, <1>4, <1>5 DEF LockInv, Lock!vars

\* The wrapper releases the task with the end of its run.
LEMMA LockRelease ==
    ASSUME TypeOK, LockInv, NEW r \in RunId, ReleaseTask(r)
    PROVE  LockInv' /\ [Lock!Next]_(Lock!vars)
  <1>1. /\ pc[r] = "release" /\ UNCHANGED <<task, trigger>> /\ pc'[r] = "done"
        /\ \A q \in RunId : q # r => pc'[q] = pc[q]
    BY DEF ReleaseTask, Goto, TypeOK
  <1>2. Scheduled' = Scheduled \ {r} /\ Scheduled \subseteq RunId
    BY <1>1 DEF Scheduled, Active, Live
  <1>3. CASE trigger[r] = "scheduler"
    <2>1. r \in Scheduled /\ inFlight' = inFlight \ {task[r]}
      BY <1>1, <1>3 DEF Scheduled, Active, Live, ReleaseTask, Released
    <2>2. task[r] \in inFlight /\ task[r] \in Task
      BY <2>1 DEF LockInv, TypeOK
    <2>3. LockInv'
      BY <1>1, <1>2, <2>1, <2>2 DEF LockInv
    <2>4. WorkOf[task[r]] = {r} /\ WorkOf' = [WorkOf EXCEPT ![task[r]] = {}]
      <3>1. \A q \in Scheduled : task[q] = task[r] => q = r
        BY <2>1 DEF LockInv
      <3>2. WorkOf[task[r]] = {r}
        BY <2>1, <2>2, <3>1 DEF WorkOf
      <3>3. ASSUME NEW t \in Task PROVE WorkOf'[t] = IF t = task[r] THEN {} ELSE WorkOf[t]
        BY <1>1, <1>2, <3>1 DEF WorkOf
      <3>4. WorkOf' = [WorkOf EXCEPT ![task[r]] = {}]
        BY <3>3 DEF WorkOf
      <3> QED  BY <3>2, <3>4
    <2> QED  BY <2>1, <2>2, <2>3, <2>4 DEF Lock!Next, Lock!Release
  <1>4. CASE trigger[r] # "scheduler"
    <2>1. Scheduled' = Scheduled /\ inFlight' = inFlight
      BY <1>2, <1>4 DEF Scheduled, ReleaseTask, Released
    <2>2. WorkOf' = WorkOf
      BY <1>1, <2>1 DEF WorkOf
    <2> QED  BY <1>1, <2>1, <2>2 DEF LockInv, Lock!vars
  <1> QED  BY <1>3, <1>4

\* Every other step of a run leaves the lock alone.
LEMMA LockRunStep ==
    ASSUME TypeOK, LockInv, NEW r \in RunId, RunStep(r), ~ReleaseTask(r)
    PROVE  LockInv' /\ UNCHANGED Lock!vars
  <1>1. \A l \in Live : /\ pc[r] \in Live /\ (pc' = [pc EXCEPT ![r] = l] \/ UNCHANGED pc)
                        /\ UNCHANGED <<inFlight, task, trigger>>
                        => LockInv' /\ UNCHANGED Lock!vars
    BY LockMove
  <1> USE DEF Live, Goto, Return, Fails, schedVars
  <1>2. CASE OpenRun(r)
    BY <1>1, <1>2 DEF OpenRun, CanaryRefuses
  <1>3. CASE CollectColumns(r)
    BY <1>1, <1>3 DEF CollectColumns, CollectRows
  <1>4. CASE CollectIndexes(r)
    BY <1>1, <1>4 DEF CollectIndexes, CollectRows
  <1>5. CASE CollectFks(r)
    BY <1>1, <1>5 DEF CollectFks
  <1>6. CASE Compare(r) \/ TakeStamp(r)
    BY <1>1, <1>6 DEF Compare, TakeStamp
  <1>7. CASE InsertSnapshot(r)
    BY <1>1, <1>7 DEF InsertSnapshot
  <1>8. CASE DeliverAttempt(r)
    BY <1>1, <1>8 DEF DeliverAttempt, Delivered, NoAnswer
  <1>9. CASE FinishRun(r)
    BY <1>1, <1>9 DEF FinishRun
  <1> QED  BY <1>2, <1>3, <1>4, <1>5, <1>6, <1>7, <1>8, <1>9 DEF RunStep

LEMMA LockNext == TypeOK /\ LockInv /\ [Next]_vars => LockInv' /\ [Lock!Next]_(Lock!vars)
  <1> SUFFICES ASSUME TypeOK, LockInv, [Next]_vars PROVE LockInv' /\ [Lock!Next]_(Lock!vars)
    OBVIOUS
  <1>1. ASSUME UNCHANGED <<inFlight, task, trigger, pc>> PROVE LockInv' /\ UNCHANGED Lock!vars
    BY <1>1, LockIdle DEF Active
  <1>2. CASE ScanTasks \/ (\E t \in Task : SkipTask(t)) \/ SourceDdl \/ Minute \/ UNCHANGED vars
    BY <1>1, <1>2 DEF ScanTasks, SkipTask, SourceDdl, Minute, vars, schedVars
  <1>3. CASE \E t \in Task : DispatchTask(t) \/ RunTaskNow(t)
    BY <1>3, LockDispatch, LockManual
  <1>4. CASE \E r \in RunId : RunStep(r)
    BY <1>4, LockRunStep, LockRelease
  <1>5. CASE Crash
    <2>1. Active' = {} /\ inFlight' = {}
      BY <1>5 DEF Crash, Active, Live, TypeOK
    <2>2. Scheduled' = {}
      BY <2>1 DEF Scheduled
    <2>3. WorkOf' = [t \in Task |-> {}]
      BY <2>2 DEF WorkOf
    <2> QED  BY <2>1, <2>2, <2>3 DEF LockInv, Lock!Next, Lock!Restart
  <1> QED  BY <1>2, <1>3, <1>4, <1>5 DEF Next

\* For any number of tasks, runs, failures, manual runs and crashes: the drift scheduler
\* (scheduler.rs) implements TaskLock, so a task it has in flight has exactly one
\* scheduled run at work and is free again with its end, on every error path.
THEOREM DriftImplementsLock == Spec => ImplementsLock
  <1>1. Init => LockInv /\ Lock!Init
    <2> SUFFICES ASSUME Init PROVE LockInv /\ Lock!Init
      OBVIOUS
    <2>1. Scheduled = {} /\ inFlight = {}
      BY DEF Init, Scheduled, Active, Live
    <2> QED  BY <2>1 DEF LockInv, Lock!Init, WorkOf
  <1> QED  BY <1>1, DriftTypeCorrect, LockNext, PTL DEF Spec, ImplementsLock, Lock!Spec

==============================================================================
