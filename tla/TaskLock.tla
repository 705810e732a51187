------------------------------ MODULE TaskLock ------------------------------
(***************************************************************************)
(* What InFlightTasks promises of the runs a scheduler starts, whatever    *)
(* the kind of task: a task is taken before its run starts, it has one     *)
(* such run at a time, it is free again with the end of that run however   *)
(* it ends, and a restart of the server frees every task.                  *)
(***************************************************************************)

CONSTANTS Task, Run

VARIABLES
    held,    \* the tasks in flight
    work     \* per task: the runs at work that the scheduler has started

vars == <<held, work>>

Init == held = {} /\ work = [t \in Task |-> {}]

Acquire(t, r) ==
    /\ t \notin held /\ work[t] = {}
    /\ held' = held \cup {t}
    /\ work' = [work EXCEPT ![t] = {r}]

Release(t, r) ==
    /\ t \in held /\ work[t] = {r}
    /\ held' = held \ {t}
    /\ work' = [work EXCEPT ![t] = {}]

Restart == held' = {} /\ work' = [t \in Task |-> {}]

Next ==
    \/ \E t \in Task, r \in Run : Acquire(t, r) \/ Release(t, r)
    \/ Restart

Spec == Init /\ [][Next]_vars

=============================================================================
