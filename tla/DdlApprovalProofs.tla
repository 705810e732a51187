------------------------- MODULE DdlApprovalProofs -------------------------
(***************************************************************************)
(* Proofs about the DDL approval queue, for any number of approvals,       *)
(* reviewers, agents, statements and crashes.                              *)
(*                                                                         *)
(* The argument: a worker that has claimed a row owns it (Ownership), a    *)
(* row whose exec_status is still 'pending' has not been touched           *)
(* (PendingUntouched), and what a worker has run on the target is what its *)
(* program counter says (Progress).  A claim needs exec_status 'pending',  *)
(* directly at the MCP door and through StatusFollows at the REST door;    *)
(* LoadedResolved is what keeps StatusFollows true at the MCP door.        *)
(***************************************************************************)
EXTENDS DdlApproval, TLAPS

\* A row still open for approval has not been executed.
StatusFollows ==
    \A a \in Approval : status[a] \in {"absent", "pending"} => exec[a] = "pending"

PendingUntouched ==
    \A a \in Approval : exec[a] = "pending" => starts[a] = 0 /\ applied[a] = 0

\* A row that was approved or resolved when execute_write read it never becomes
\* pending again.
LoadedResolved ==
    \A w \in Worker : (workerPc[w] = "claim" /\ door[w] = "mcp")
        => status[job[w]] \notin {"absent", "pending"}

\* A claimed row is 'executing' and has one worker.
Ownership ==
    /\ \A w \in Worker : Claimed(w) => exec[job[w]] = "executing"
    /\ \A v, w \in Worker : (Claimed(v) /\ Claimed(w) /\ job[v] = job[w]) => v = w

\* The target reflects exactly what the owner has run.
Progress ==
    \A w \in Worker :
        /\ workerPc[w] = "guard" => starts[job[w]] = 0 /\ applied[job[w]] = 0 /\ step[w] = 0
        /\ workerPc[w] = "run" => starts[job[w]] = 1 /\ applied[job[w]] = step[w]
        /\ (workerPc[w] = "settle" /\ result[w] = "approved") => applied[job[w]] = Stmts

\* What a run step may touch is writable unless the guard was skipped.
GuardHeld ==
    /\ \A w \in Worker : workerPc[w] = "run" => (job[w] \notin ReadOnly \/ "control" \in DdlFaults)
    /\ \A a \in ReadOnly : applied[a] = 0 \/ "control" \in DdlFaults

IInv ==
    /\ DdlTypeOK /\ StatusFollows /\ LoadedResolved /\ PendingUntouched /\ Ownership /\ Progress
    /\ GuardHeld /\ ExecutedAtMostOnce /\ ExecStatusTruthful

\* The initial rows, legacy ones included, satisfy the invariant.
LEMMA InitIInv == DdlInit => IInv
<1> SUFFICES ASSUME DdlInit PROVE IInv
  OBVIOUS
<1> USE DdlAssumption DEF DdlInit
<1>3. DdlTypeOK
  BY DEF DdlTypeOK, Status, ExecStatus
<1>4. StatusFollows /\ LoadedResolved /\ PendingUntouched /\ Ownership /\ Progress
  BY DEF StatusFollows, LoadedResolved, PendingUntouched, Ownership, Claimed, Progress
<1>5. GuardHeld /\ ExecutedAtMostOnce /\ ExecStatusTruthful
  BY DEF GuardHeld, ExecutedAtMostOnce, ExecStatusTruthful
<1> QED
  BY <1>3, <1>4, <1>5 DEF IInv

\* Steps that touch only status or locals outside a claim keep the invariant.
LEMMA OutsideStep ==
    ASSUME IInv,
           \/ \E a \in Approval : Submit(a) \/ RejectApproval(a)
           \/ \E w \in Worker, a \in Approval : ApproveLoad(w, a) \/ ExecuteLoad(w, a)
           \/ \E w \in Worker : ClaimLost(w) \/ Audit(w)
           \/ SwapEntitlement \/ Crash
    PROVE  IInv'
<1> USE DdlAssumption
    DEF IInv, DdlTypeOK, Status, ExecStatus, StatusFollows, LoadedResolved, PendingUntouched, Ownership,
        Claimed, Progress, GuardHeld, ExecutedAtMostOnce, ExecStatusTruthful, targetVars,
        workerVars, WorkerGoto
<1>1. ASSUME NEW a \in Approval, Submit(a) PROVE IInv'
  BY <1>1 DEF Submit
<1>2. ASSUME NEW a \in Approval, RejectApproval(a) PROVE IInv'
  BY <1>2 DEF RejectApproval
<1>3. ASSUME NEW w \in Worker, NEW a \in Approval, ApproveLoad(w, a) PROVE IInv'
  BY <1>3 DEF ApproveLoad
<1>4. ASSUME NEW w \in Worker, NEW a \in Approval, ExecuteLoad(w, a) PROVE IInv'
  BY <1>4 DEF ExecuteLoad
<1>5. ASSUME NEW w \in Worker, ClaimLost(w) PROVE IInv'
  BY <1>5 DEF ClaimLost
<1>6. ASSUME NEW w \in Worker, Audit(w) PROVE IInv'
  BY <1>6 DEF Audit
<1>7. CASE SwapEntitlement
  BY <1>7 DEF SwapEntitlement
<1>8. CASE Crash
  BY <1>8 DEF Crash
<1> QED
  BY <1>1, <1>2, <1>3, <1>4, <1>5, <1>6, <1>7, <1>8

\* A claim takes a row that nobody owns and nobody has run.
LEMMA ClaimStep ==
    ASSUME IInv, NEW w \in Worker, Claim(w)
    PROVE  IInv'
<1> USE DdlAssumption DEF IInv, DdlTypeOK, Status, ExecStatus, targetVars, WorkerGoto
<1>1. exec[job[w]] = "pending"
  BY DEF Claim, Claimable, StatusFollows
<1>2. DdlTypeOK'
  BY DEF Claim
<1>3. StatusFollows' /\ LoadedResolved' /\ PendingUntouched' /\ GuardHeld' /\ ExecutedAtMostOnce'
  BY <1>1 DEF Claim, StatusFollows, LoadedResolved, PendingUntouched, GuardHeld, ExecutedAtMostOnce
<1>4. \A v \in Worker : Claimed(v) => job[v] # job[w]
  BY <1>1 DEF Ownership
<1>5. Ownership'
  BY <1>4 DEF Claim, Ownership, Claimed
<1>6. Progress'
  BY <1>1, <1>4 DEF Claim, Progress, PendingUntouched
<1>7. ExecStatusTruthful'
  BY <1>1 DEF Claim, ExecStatusTruthful
<1> QED
  BY <1>2, <1>3, <1>5, <1>6, <1>7 DEF IInv

\* Executing the script: the owner alone moves its row's target state.
LEMMA ExecStep ==
    ASSUME IInv, NEW w \in Worker, Guard(w) \/ RunStatement(w) \/ ScriptDone(w)
    PROVE  IInv'
<1> USE DdlAssumption DEF IInv, DdlTypeOK, Status, ExecStatus, targetVars, WorkerGoto
<1>1. Claimed(w) /\ exec[job[w]] = "executing"
  BY DEF Guard, RunStatement, ScriptDone, Claimed, Ownership
<1>2. \A v \in Worker : v # w /\ Claimed(v) => job[v] # job[w]
  BY <1>1 DEF Ownership
<1>3. DdlTypeOK'
  BY DEF Guard, RunStatement, ScriptDone
<1>4. StatusFollows' /\ LoadedResolved' /\ PendingUntouched'
  BY <1>1 DEF Guard, RunStatement, ScriptDone, StatusFollows, LoadedResolved, PendingUntouched
<1>5. Ownership'
  BY <1>1, <1>2 DEF Guard, RunStatement, ScriptDone, Ownership, Claimed
<1>6. Progress' /\ ExecutedAtMostOnce'
  <2>1. CASE Guard(w)
    BY <1>1, <1>2, <2>1 DEF Guard, GuardRefuses, Progress, Claimed, ExecutedAtMostOnce
  <2>2. CASE RunStatement(w)
    BY <1>1, <1>2, <2>2 DEF RunStatement, Progress, Claimed, ExecutedAtMostOnce
  <2>3. CASE ScriptDone(w)
    BY <1>1, <1>2, <2>3 DEF ScriptDone, Progress, Claimed, ExecutedAtMostOnce
  <2> QED
    BY <2>1, <2>2, <2>3
<1>7. GuardHeld'
  BY DEF Guard, GuardRefuses, RunStatement, ScriptDone, GuardHeld
<1>8. ExecStatusTruthful'
  BY <1>1 DEF Guard, RunStatement, ScriptDone, ExecStatusTruthful
<1> QED
  BY <1>3, <1>4, <1>5, <1>6, <1>7, <1>8 DEF IInv

\* The terminal UPDATE records what the owner did.
LEMMA SettleStep ==
    ASSUME IInv, NEW w \in Worker, Settle(w)
    PROVE  IInv'
<1> USE DdlAssumption DEF IInv, DdlTypeOK, Status, ExecStatus, targetVars, WorkerGoto, Outcome
<1>1. Claimed(w) /\ exec[job[w]] = "executing"
  BY DEF Settle, Claimed, Ownership
<1>2. \A v \in Worker : v # w /\ Claimed(v) => job[v] # job[w]
  BY <1>1 DEF Ownership
<1>3. DdlTypeOK'
  BY DEF Settle
<1>4. StatusFollows' /\ LoadedResolved' /\ PendingUntouched' /\ GuardHeld' /\ ExecutedAtMostOnce'
  BY <1>1 DEF Settle, StatusFollows, LoadedResolved, PendingUntouched, GuardHeld, ExecutedAtMostOnce
<1>5. Ownership'
  BY <1>1, <1>2 DEF Settle, Ownership, Claimed
<1>6. Progress'
  BY <1>1, <1>2 DEF Settle, Progress
<1>7. ExecStatusTruthful'
  BY <1>1 DEF Settle, Progress, ExecStatusTruthful
<1> QED
  BY <1>3, <1>4, <1>5, <1>6, <1>7 DEF IInv

\* The invariant is inductive.
LEMMA NextIInv == IInv /\ [DdlNext]_ddlVars => IInv'
<1> SUFFICES ASSUME IInv, [DdlNext]_ddlVars PROVE IInv'
  OBVIOUS
<1>1. CASE UNCHANGED ddlVars
  BY <1>1
  DEF ddlVars, workerVars, targetVars, IInv, DdlTypeOK, StatusFollows, LoadedResolved, PendingUntouched,
      Ownership, Claimed, Progress, GuardHeld, ExecutedAtMostOnce, ExecStatusTruthful
<1>2. CASE DdlNext
  BY <1>2, OutsideStep, ClaimStep, ExecStep, SettleStep DEF DdlNext, WorkerStep
<1> QED
  BY <1>1, <1>2

\* IInv is an invariant of the queue.
LEMMA SpecIInv == DdlSpec => []IInv
  BY InitIInv, NextIInv, PTL DEF DdlSpec

\* The columns and locals of the approval queue keep their vocabulary in every
\* run of approve_approval, reject_approval and execute_write.
THEOREM TypeCorrect == DdlSpec => []DdlTypeOK
  BY SpecIInv, PTL DEF IInv

\* No interleaving of reviewers, agents, rejections and crashes begins a DDL
\* script twice: the two claiming UPDATEs exclude each other.
THEOREM AtMostOnce == DdlSpec => []ExecutedAtMostOnce
  BY SpecIInv, PTL DEF IInv

\* exec_status never claims more or less than what the target has executed.
THEOREM Truthful == DdlSpec => []ExecStatusTruthful
  BY SpecIInv, PTL DEF IInv

\* As long as reads of the control database succeed, execute_ddl_on_target
\* never writes a read-only target.
THEOREM ReadOnlySafe ==
    ASSUME "control" \notin DdlFaults
    PROVE  DdlSpec => []ReadOnlyUntouched
<1>1. IInv => ReadOnlyUntouched
  BY DEF IInv, GuardHeld, ReadOnlyUntouched
<1> QED
  BY <1>1, SpecIInv, PTL

\* Every step of the queue is a step of the one-shot executor or changes neither
\* exec_status nor the target.
LEMMA ExecutorStep ==
    ASSUME IInv, DdlNext
    PROVE  Executor!Next \/ UNCHANGED <<exec, applied>>
<1> USE DdlAssumption DEF IInv, DdlTypeOK
<1>1. ASSUME NEW w \in Worker, Claim(w) PROVE Executor!Take(job[w])
  BY <1>1 DEF Claim, Claimable, StatusFollows, Executor!Take, targetVars
<1>2. ASSUME NEW w \in Worker, RunStatement(w)
      PROVE  Executor!Apply(job[w]) \/ UNCHANGED <<exec, applied>>
  <2>1. exec[job[w]] = "executing" /\ applied[job[w]] < Stmts
    BY <1>2 DEF RunStatement, Ownership, Claimed, Progress
  <2> QED
    BY <1>2, <2>1 DEF RunStatement, Executor!Apply
<1>3. ASSUME NEW w \in Worker, Settle(w)
      PROVE  Executor!Succeed(job[w]) \/ Executor!Fail(job[w]) \/ UNCHANGED <<exec, applied>>
  <2>1. exec[job[w]] = "executing" /\ (result[w] = "approved" => applied[job[w]] = Stmts)
    BY <1>3 DEF Settle, Ownership, Claimed, Progress
  <2> QED
    BY <1>3, <2>1 DEF Settle, Outcome, Executor!Succeed, Executor!Fail, targetVars
<1>4. ASSUME NEW w \in Worker, Guard(w) \/ ScriptDone(w) \/ ClaimLost(w) \/ Audit(w)
      PROVE  UNCHANGED <<exec, applied>>
  BY <1>4 DEF Guard, ScriptDone, ClaimLost, Audit, targetVars
<1>5. ASSUME NEW a \in Approval,
             \/ Submit(a) \/ RejectApproval(a)
             \/ \E w \in Worker : ApproveLoad(w, a) \/ ExecuteLoad(w, a)
      PROVE  UNCHANGED <<exec, applied>>
  BY <1>5 DEF Submit, RejectApproval, ApproveLoad, ExecuteLoad, targetVars
<1>6. CASE SwapEntitlement \/ Crash
  BY <1>6 DEF SwapEntitlement, Crash, targetVars
<1>7. \A w \in Worker : job[w] \in Approval
  OBVIOUS
<1> QED
  BY <1>1, <1>2, <1>3, <1>4, <1>5, <1>6, <1>7 DEF DdlNext, WorkerStep, Executor!Next

\* The two doors of approve_approval and execute_write, with rejections, lost
\* writes and crashes, implement the one-shot executor, for any number of
\* approvals, calls and statements.
THEOREM Implements == DdlSpec => ImplementsOneShot
<1>1. DdlInit => Executor!Init
  BY DEF DdlInit, Executor!Init
<1>2. IInv /\ [DdlNext]_ddlVars => [Executor!Next]_<<exec, applied>>
  <2>1. UNCHANGED ddlVars => UNCHANGED <<exec, applied>>
    BY DEF ddlVars, targetVars
  <2> QED
    BY <2>1, ExecutorStep
<1> QED
  BY <1>1, <1>2, SpecIInv, PTL DEF DdlSpec, ImplementsOneShot, Executor!Spec, Executor!vars

=============================================================================
