------------------------------ MODULE OneShot -------------------------------
(***************************************************************************)
(* What the approval queue promises of a script, whoever executes it: it   *)
(* is taken once, its statements reach the target only while it is taken,  *)
(* none of them more than once, success is recorded only for a complete    *)
(* script, and a recorded outcome is final.  A script that nobody settles  *)
(* (its executor died) stays taken and is never executed again.            *)
(***************************************************************************)
EXTENDS Naturals

CONSTANTS Job, Stmts

VARIABLES state, done

vars == <<state, done>>

Init == state = [j \in Job |-> "pending"] /\ done = [j \in Job |-> 0]

Take(j) ==
    /\ state[j] = "pending"
    /\ state' = [state EXCEPT ![j] = "executing"]
    /\ UNCHANGED done

Apply(j) ==
    /\ state[j] = "executing" /\ done[j] < Stmts
    /\ done' = [done EXCEPT ![j] = @ + 1]
    /\ UNCHANGED state

Succeed(j) ==
    /\ state[j] = "executing" /\ done[j] = Stmts
    /\ state' = [state EXCEPT ![j] = "approved"]
    /\ UNCHANGED done

Fail(j) ==
    /\ state[j] = "executing"
    /\ state' = [state EXCEPT ![j] = "failed"]
    /\ UNCHANGED done

Next == \E j \in Job : Take(j) \/ Apply(j) \/ Succeed(j) \/ Fail(j)

Spec == Init /\ [][Next]_vars

=============================================================================
