----------------------------- MODULE MCDataSync -----------------------------
(* Small instances of DataSync for TLC. *)
EXTENDS DataSync, TLC

CONSTANTS x1, x2, x3

\* One row per window of one second; second 1 has none.
SparseTime == (x1 :> 0) @@ (x2 :> 2)
\* Two rows in the same second: more than LIMIT allows in one window.
DenseTime == (x1 :> 0) @@ (x2 :> 0) @@ (x3 :> 1)

=============================================================================
