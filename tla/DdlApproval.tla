---------------------------- MODULE DdlApproval ----------------------------
(***************************************************************************)
(* The DDL approval queue.  A row of ddl_approvals is submitted by a user  *)
(* or by an MCP agent; its script reaches the target database through two  *)
(* doors that share one implementation: the REST approve handler           *)
(* (crates/automation/src/handler.rs), which claims the row and executes   *)
(* it in a spawned task, and the MCP tool execute_write                    *)
(* (crates/mcp/src/write.rs), which executes a row already approved.       *)
(*                                                                         *)
(* A worker is one call of approve_approval or execute_write with the task *)
(* it spawns.  Each SQL statement on the control database and each         *)
(* statement of the script on the target is a step.                        *)
(***************************************************************************)
EXTENDS Integers

CONSTANTS
    Approval,     \* approval ids
    Worker,       \* concurrent calls of the two handlers
    Stmts,        \* statements in a script
    Legacy,       \* rows approved before migration 009 added exec_status
    ReadOnly,     \* approvals whose target connection is read_only
    MaxCrashes,   \* bound: process crashes
    DdlFaults     \* which operations may fail: "control", "target"

ASSUME DdlAssumption ==
    /\ Stmts \in Nat \ {0}
    /\ Legacy \subseteq Approval /\ ReadOnly \subseteq Approval
    /\ MaxCrashes \in Nat
    /\ DdlFaults \subseteq {"control", "target"}

VARIABLES
    status,       \* ddl_approvals.status, "absent" while there is no row
    exec,         \* ddl_approvals.exec_status
    gated,        \* the entitlement is Gated
    workerPc,     \* where each worker is
    door,         \* which handler the worker runs
    job,          \* the approval it works on
    result,       \* exec_result of the script
    step,         \* statements of the script this worker has executed
    audit,        \* credential_access_audit rows of action ddl_execute
    \* the target database
    applied,      \* statements of each script executed there
    starts,       \* scripts begun there
    crashes

workerVars == <<workerPc, door, job, result, step>>
targetVars == <<applied, starts>>
ddlVars == <<status, exec, gated, workerVars, audit, targetVars, crashes>>

Status == {"absent", "pending", "executing", "approved", "failed", "rejected"}
ExecStatus == {"pending", "executing", "approved", "failed"}

\* The worker has claimed its row and not yet written the outcome.
Claimed(w) == workerPc[w] \in {"guard", "run", "settle"}

WorkerGoto(w, l) == workerPc' = [workerPc EXCEPT ![w] = l]

----------------------------------------------------------------------------
(* Submitting and rejecting *)

\* POST /api/approvals and the MCP tool submit_write.
Submit(a) ==
    /\ ~gated /\ status[a] = "absent"
    /\ status' = [status EXCEPT ![a] = "pending"]
    /\ UNCHANGED <<exec, gated, workerVars, audit, targetVars, crashes>>

\* The UPDATE of reject_approval has no condition on the status.
RejectApproval(a) ==
    /\ ~gated /\ status[a] # "absent"
    /\ status' = [status EXCEPT ![a] = "rejected"]
    /\ UNCHANGED <<exec, gated, workerVars, audit, targetVars, crashes>>

----------------------------------------------------------------------------
(* Claiming a row *)

\* approve_approval reads the row: it must be pending.
ApproveLoad(w, a) ==
    /\ workerPc[w] = "idle" /\ ~gated
    /\ status[a] = "pending"
    /\ WorkerGoto(w, "claim")
    /\ door' = [door EXCEPT ![w] = "rest"] /\ job' = [job EXCEPT ![w] = a]
    /\ UNCHANGED <<status, exec, gated, result, step, audit, targetVars, crashes>>

\* execute_write reads the submitter's row: it must be approved.
ExecuteLoad(w, a) ==
    /\ workerPc[w] = "idle" /\ ~gated
    /\ status[a] = "approved"
    /\ WorkerGoto(w, "claim")
    /\ door' = [door EXCEPT ![w] = "mcp"] /\ job' = [job EXCEPT ![w] = a]
    /\ UNCHANGED <<status, exec, gated, result, step, audit, targetVars, crashes>>

\* Mutant: the UPDATE does not repeat the check of the SELECT.
ClaimableUnchecked(w) == TRUE

\* The WHERE clause of the claiming UPDATE of each door.
Claimable(w) == IF door[w] = "rest" THEN status[job[w]] = "pending"
                                    ELSE exec[job[w]] = "pending"

\* rows_affected = 1: the row is this worker's.
Claim(w) ==
    /\ workerPc[w] = "claim" /\ Claimable(w)
    /\ exec' = [exec EXCEPT ![job[w]] = "executing"]
    /\ status' = IF door[w] = "rest" THEN [status EXCEPT ![job[w]] = "executing"]
                                     ELSE status
    /\ WorkerGoto(w, "guard")
    /\ step' = [step EXCEPT ![w] = 0]
    /\ UNCHANGED <<gated, door, job, result, audit, targetVars, crashes>>

\* The row was taken by another call, the whitelist no longer allows the
\* connection (execute_write), or the UPDATE failed: the call returns.
ClaimLost(w) ==
    /\ workerPc[w] = "claim"
    /\ ~Claimable(w) \/ door[w] = "mcp" \/ "control" \in DdlFaults
    /\ WorkerGoto(w, "idle")
    /\ UNCHANGED <<status, exec, gated, door, job, result, step, audit, targetVars,
                   crashes>>

----------------------------------------------------------------------------
(* execute_ddl_on_target_with_key *)

\* read_only of the target connection.
GuardRefuses(a) == a \in ReadOnly

\* Credentials, engine, read_only / source_drift and the DDL whitelist.  When
\* the read of the guard columns fails, the guard is skipped.
Guard(w) ==
    /\ workerPc[w] = "guard"
    /\ \/ /\ ~GuardRefuses(job[w]) \/ "control" \in DdlFaults
          /\ WorkerGoto(w, "run")
          /\ starts' = [starts EXCEPT ![job[w]] = @ + 1]
          /\ UNCHANGED result
       \/ /\ WorkerGoto(w, "settle")
          /\ result' = [result EXCEPT ![w] = "failed"]
          /\ UNCHANGED starts
    /\ UNCHANGED <<status, exec, gated, door, job, step, audit, applied, crashes>>

\* One statement of the script; the first error ends the script, whether or not
\* the target applied the statement.
RunStatement(w) ==
    /\ workerPc[w] = "run" /\ step[w] < Stmts
    /\ \/ /\ step' = [step EXCEPT ![w] = @ + 1]
          /\ applied' = [applied EXCEPT ![job[w]] = @ + 1]
          /\ UNCHANGED <<workerPc, result>>
       \/ /\ "target" \in DdlFaults
          /\ \E d \in {0, 1} : applied' = [applied EXCEPT ![job[w]] = @ + d]
          /\ WorkerGoto(w, "settle")
          /\ result' = [result EXCEPT ![w] = "failed"]
          /\ UNCHANGED step
    /\ UNCHANGED <<status, exec, gated, door, job, audit, starts, crashes>>

\* Every statement was executed: Ok(()).
ScriptDone(w) ==
    /\ workerPc[w] = "run" /\ step[w] = Stmts
    /\ WorkerGoto(w, "settle")
    /\ result' = [result EXCEPT ![w] = "approved"]
    /\ UNCHANGED <<status, exec, gated, door, job, step, audit, targetVars, crashes>>

----------------------------------------------------------------------------
(* Recording the outcome *)

\* Mutant: the outcome is recorded as a success.
OutcomeAlwaysOk(w) == "approved"

\* Mutant: the label of the audit row is written to the approval row.
OutcomeAuditLabel(w) == IF result[w] = "approved" THEN "ok" ELSE "error"

\* 'approved' on Ok, 'failed' on Err, in both columns.
Outcome(w) == result[w]

\* The terminal UPDATE, by id alone; its error is dropped.
Settle(w) ==
    /\ workerPc[w] = "settle"
    /\ \/ /\ status' = [status EXCEPT ![job[w]] = Outcome(w)]
          /\ exec' = [exec EXCEPT ![job[w]] = Outcome(w)]
       \/ "control" \in DdlFaults /\ UNCHANGED <<status, exec>>
    /\ WorkerGoto(w, IF door[w] = "rest" THEN "audit" ELSE "idle")
    /\ step' = [step EXCEPT ![w] = 0]     \* the script and its position are dropped
    /\ UNCHANGED <<gated, door, job, result, audit, targetVars, crashes>>

\* Best-effort audit row of the REST door.
Audit(w) ==
    /\ workerPc[w] = "audit"
    /\ \/ audit' = [audit EXCEPT ![job[w]] = @ \cup {result[w]}]
       \/ "control" \in DdlFaults /\ UNCHANGED audit
    /\ WorkerGoto(w, "idle")
    /\ result' = [result EXCEPT ![w] = "failed"]
    /\ UNCHANGED <<status, exec, gated, door, job, step, targetVars, crashes>>

----------------------------------------------------------------------------
(* The environment *)

\* POST /api/license or the end of the trial swaps the entitlement.
SwapEntitlement ==
    /\ gated' = ~gated
    /\ UNCHANGED <<status, exec, workerVars, audit, targetVars, crashes>>

\* The process dies: calls and spawned tasks are gone, rows and target stay.
Crash ==
    /\ crashes < MaxCrashes
    /\ crashes' = crashes + 1
    /\ workerPc' = [w \in Worker |-> "idle"]
    /\ door' = [w \in Worker |-> "rest"]
    /\ result' = [w \in Worker |-> "failed"] /\ step' = [w \in Worker |-> 0]
    /\ UNCHANGED <<status, exec, gated, job, audit, targetVars>>

DdlInit ==
    /\ status = [a \in Approval |-> IF a \in Legacy THEN "approved" ELSE "absent"]
    /\ exec = [a \in Approval |-> "pending"]
    /\ gated \in BOOLEAN
    /\ workerPc = [w \in Worker |-> "idle"]
    /\ door = [w \in Worker |-> "rest"]
    /\ job \in [Worker -> Approval]     \* unused until a row is loaded
    /\ result = [w \in Worker |-> "failed"]
    /\ step = [w \in Worker |-> 0]
    /\ audit = [a \in Approval |-> {}]
    /\ applied = [a \in Approval |-> 0] /\ starts = [a \in Approval |-> 0]
    /\ crashes = 0

WorkerStep(w) ==
    \/ Claim(w) \/ ClaimLost(w) \/ Guard(w) \/ RunStatement(w) \/ ScriptDone(w)
    \/ Settle(w) \/ Audit(w)

DdlNext ==
    \/ \E a \in Approval : Submit(a) \/ RejectApproval(a)
    \/ \E w \in Worker, a \in Approval : ApproveLoad(w, a) \/ ExecuteLoad(w, a)
    \/ \E w \in Worker : WorkerStep(w)
    \/ SwapEntitlement \/ Crash

DdlSpec == DdlInit /\ [][DdlNext]_ddlVars

\* A spawned task is polled and the databases answer.
DdlFairSpec == DdlSpec /\ \A w \in Worker : WF_ddlVars(WorkerStep(w))

----------------------------------------------------------------------------
(* Properties *)

\* Every column and local keeps its vocabulary.
DdlTypeOK ==
    /\ status \in [Approval -> Status] /\ exec \in [Approval -> ExecStatus]
    /\ gated \in BOOLEAN
    /\ workerPc \in [Worker -> {"idle", "claim", "guard", "run", "settle", "audit"}]
    /\ door \in [Worker -> {"rest", "mcp"}] /\ job \in [Worker -> Approval]
    /\ result \in [Worker -> {"approved", "failed"}]
    /\ step \in [Worker -> 0..Stmts]
    /\ audit \in [Approval -> SUBSET {"approved", "failed"}]
    /\ applied \in [Approval -> Nat] /\ starts \in [Approval -> Nat]
    /\ crashes \in Nat

\* A script is begun on its target at most once, whatever reviewers approve,
\* agents execute, operators reject and crashes cut short.
ExecutedAtMostOnce == \A a \in Approval : starts[a] <= 1

\* exec_status tells the truth about the target: 'pending' means untouched,
\* 'approved' means every statement was executed exactly once.
ExecStatusTruthful ==
    \A a \in Approval :
        /\ exec[a] = "pending" => applied[a] = 0
        /\ exec[a] = "approved" => applied[a] = Stmts

\* A read-only target is never written, as long as reads of the control database
\* succeed.
ReadOnlyUntouched == \A a \in ReadOnly : applied[a] = 0

\* The queue as a one-shot executor: exec_status is its state and the statements
\* on the target are its effect.
Executor == INSTANCE OneShot WITH Job <- Approval, state <- exec, done <- applied

\* Both doors together, with rejections, lost writes and crashes, implement the
\* one-shot executor: a script is taken once, no statement of it runs twice or
\* outside its claim, 'approved' stands for a complete script, and the recorded
\* outcome is final.
ImplementsOneShot == Executor!Spec

\* The row is claimed and no call works on it: its process died, or the terminal
\* UPDATE was lost.
Orphaned(a) == exec[a] = "executing" /\ \A w \in Worker : Claimed(w) => job[w] # a

\* pending -> executing -> approved/failed: a claimed row reaches its outcome, or
\* the server lost it on the way; it never waits for another call.
ExecutionSettles ==
    \A a \in Approval :
        exec[a] = "executing" ~> (exec[a] \in {"approved", "failed"} \/ Orphaned(a))

=============================================================================
