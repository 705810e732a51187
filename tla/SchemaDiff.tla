----------------------------- MODULE SchemaDiff -----------------------------
(***************************************************************************)
(* Schema snapshots of the drift crate and their structural diff:          *)
(* crates/drift/src/collector.rs (rows to tree), snapshot.rs (the tree) and *)
(* diff.rs (the eleven kinds).                                             *)
(*                                                                         *)
(* A catalog is what the three introspection queries return: sets of rows  *)
(* [table, name, def].  A column's def is [shape, nullable, default], where *)
(* shape stands for data_type, length, precision and scale, and default for *)
(* column_default and ordinal; an index row also says whether it is the    *)
(* primary key.  Keys are qualified names.                                 *)
(***************************************************************************)
EXTENDS FiniteSets

\* The BTreeMap name |-> definition of a set of rows with distinct names.
Named(rows) == [n \in {x.name : x \in rows} |-> (CHOOSE x \in rows : x.name = n).def]

TablesOf(rows) == {x.table : x \in rows}

OfTable(rows, t) == {x \in rows : x.table = t}

\* A table is entered by whichever query mentions it first, so a tree put
\* together from queries of different moments may hold a table without columns.
Assemble(cols, idx, fks) ==
    [t \in TablesOf(cols) \cup TablesOf(idx) \cup TablesOf(fks) |->
        [columns |-> Named(OfTable(cols, t)),
         pk      |-> {<<x.name, x.def>> : x \in {y \in OfTable(idx, t) : y.primary}},
         indexes |-> Named({y \in OfTable(idx, t) : ~y.primary}),
         fks     |-> Named(OfTable(fks, t))]]

----------------------------------------------------------------------------
(* compute_drifts *)

Drift(k, t, n) == [kind |-> k, table |-> t, name |-> n]

Added(k, t, p, c)   == {Drift(k, t, n) : n \in DOMAIN c \ DOMAIN p}
Dropped(k, t, p, c) == {Drift(k, t, n) : n \in DOMAIN p \ DOMAIN c}

\* Mutant: nullability is not compared.
ColumnChangesTypeOnly(t, p, c) ==
    LET both == DOMAIN p \cap DOMAIN c
    IN  {Drift("column_type_changed", t, n) :
            n \in {m \in both : p[m].shape # c[m].shape}}

\* column_default alone is no drift kind.
ColumnChanges(t, p, c) ==
    LET both == DOMAIN p \cap DOMAIN c
    IN  {Drift("column_type_changed", t, n) :
            n \in {m \in both : p[m].shape # c[m].shape}}
        \cup {Drift("column_nullability_changed", t, n) :
            n \in {m \in both : p[m].nullable # c[m].nullable}}

DiffTableColumns(t, p, c) ==
    Added("column_added", t, p, c) \cup Dropped("column_dropped", t, p, c)
        \cup ColumnChanges(t, p, c)

DiffTablePk(t, p, c) == IF p # c THEN {Drift("pk_changed", t, "")} ELSE {}

\* Indexes and foreign keys are compared by name only.
DiffTableIndexes(t, p, c) == Added("index_added", t, p, c) \cup Dropped("index_dropped", t, p, c)

DiffTableFks(t, p, c) == Added("fk_added", t, p, c) \cup Dropped("fk_dropped", t, p, c)

\* Every entry of the Vec is distinct, so the set has its length.
ComputeDrifts(prior, current) ==
    {Drift("table_added", t, "") : t \in DOMAIN current \ DOMAIN prior}
    \cup {Drift("table_dropped", t, "") : t \in DOMAIN prior \ DOMAIN current}
    \cup UNION {  DiffTableColumns(t, prior[t].columns, current[t].columns)
                  \cup DiffTablePk(t, prior[t].pk, current[t].pk)
                  \cup DiffTableIndexes(t, prior[t].indexes, current[t].indexes)
                  \cup DiffTableFks(t, prior[t].fks, current[t].fks) :
                t \in DOMAIN prior \cap DOMAIN current}

----------------------------------------------------------------------------
(* What the eleven kinds can tell apart *)

\* The part of a tree that a drift kind speaks about.
Visible(tree) ==
    [t \in DOMAIN tree |->
        [columns |-> [n \in DOMAIN tree[t].columns |->
                        <<tree[t].columns[n].shape, tree[t].columns[n].nullable>>],
         pk      |-> tree[t].pk,
         indexes |-> DOMAIN tree[t].indexes,
         fks     |-> DOMAIN tree[t].fks]]

=============================================================================
