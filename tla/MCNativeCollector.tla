------------------------- MODULE MCNativeCollector --------------------------
(* Small instances of QueryStats and NativeCollector for TLC. *)
EXTENDS NativeCollector

\* Two literals of one statement and another statement.
Statements == {[shape |-> "a", literal |-> 1], [shape |-> "a", literal |-> 2],
               [shape |-> "b", literal |-> 1]}

\* The table's own jobs, and the collector with each kind of source.
JobSets == {{"gateway", "rotate", "reports"}, {"redis"}, {"mysql"}}

=============================================================================
