------------------------------ MODULE MCDrift -------------------------------
(* Small instances of Drift for TLC. *)
EXTENDS Drift, TLC

CONSTANT t1

Col(t, n, s, null, d) ==
    [table |-> t, name |-> n, def |-> [shape |-> s, nullable |-> null, default |-> d]]
Pk(t)     == [table |-> t, name |-> "PRIMARY", def |-> <<"id">>, primary |-> TRUE]
Idx(t, n) == [table |-> t, name |-> n, def |-> <<"a">>, primary |-> FALSE]
Fk(t, n)  == [table |-> t, name |-> n, def |-> <<"a">>]

\* One table with a key and an index.
Base == [columns |-> {Col("t", "a", 1, TRUE, 0)}, indexes |-> {Pk("t"), Idx("t", "i")},
         fks |-> {}]
\* The same with another column default: no drift kind reports it.
NewDefault == [Base EXCEPT !.columns = {Col("t", "a", 1, TRUE, 1)}]
\* The column becomes NOT NULL.
NotNull == [Base EXCEPT !.columns = {Col("t", "a", 1, FALSE, 0)}]
\* There is a second table and a foreign key to it, and the index is gone.
NewTable == [columns |-> {Col("t", "a", 1, TRUE, 0), Col("u", "a", 2, FALSE, 0)},
             indexes |-> {Pk("t"), Pk("u")}, fks |-> {Fk("t", "f")}]

AllCatalogs == {Base, NewDefault, NotNull, NewTable}

=============================================================================
