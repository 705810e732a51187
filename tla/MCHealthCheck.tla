--------------------------- MODULE MCHealthCheck ----------------------------
(* Small instances of HealthCheck for TLC. *)
EXTENDS HealthCheck, TLC

CONSTANT t1

TwoMetrics == <<"connectivity", "row_count">>
OneMetric  == <<"connectivity">>

Watched == {[supported |-> TRUE, url |-> TRUE]}
AllConfigs == Watched \cup {[supported |-> TRUE, url |-> FALSE], [supported |-> FALSE, url |-> TRUE]}

=============================================================================
