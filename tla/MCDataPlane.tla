---------------------------- MODULE MCDataPlane -----------------------------
(* Small instances of the data plane for TLC. *)
EXTENDS DataPlane, TLC

CONSTANTS a1, a2, w1, w2,     \* approvals and the calls that work on them
          s1, c1, c2,         \* a session and its clients
          e1, e2, i1, i2      \* executions and their ids

Query(leg, n) == [leg |-> leg, write |-> FALSE, size |-> n]
Write(leg) == [leg |-> leg, write |-> TRUE, size |-> 0]

\* Empty, shorter than a batch, exactly the limit, more than the limit.
Queries == {Query(l, n) : l \in Leg, n \in {0, 1, 3, 4}}
Writes  == {Write(l) : l \in Leg \ {"redis"}}

\* Every statement alone, and two that may share an execution id.
Scenarios == {e1 :> p : p \in Queries \cup Writes}
             \cup {(e1 :> Query("pool", 1)) @@ (e2 :> Write("pool"))}

=============================================================================
