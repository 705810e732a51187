---------------------------- MODULE StreamQuery -----------------------------
(***************************************************************************)
(* The query gateway: gw_query and cancel_execution                        *)
(* (crates/gateway/src/handlers.rs), the execution registry                *)
(* (crates/gateway/src/lib.rs) and the streaming execution                 *)
(* (crates/automation/src/stream_query.rs).                                *)
(*                                                                         *)
(* An execution is a spawned task that sends meta, rows and one terminal   *)
(* event through a bounded channel to the SSE response.  It races the      *)
(* client (who may be slow, leave, or cancel by id) and its deadline.  The *)
(* drivers' protocols (legs) differ in which awaits are covered by the     *)
(* cancel token and which by the deadline.                                 *)
(***************************************************************************)
EXTENDS Naturals, Sequences, FiniteSets

CONSTANTS
    Exec,        \* calls of gw_query
    Id,          \* execution ids, which clients may choose and reuse
    Plans,       \* the statements considered together, by call: [leg, write, size]
    NoExec,      \* an id that is not registered
    BatchSize,   \* BATCH_SIZE
    RowLimit,    \* row_limit
    Capacity     \* SSE_CHANNEL_BATCHES

Leg == {"pool", "tds", "mongo", "redis", "tdengine"}
Plan == [leg : Leg, write : BOOLEAN, size : Nat]

ASSUME StreamAssumption ==
    /\ \A f \in Plans : DOMAIN f \subseteq Exec /\ \A e \in DOMAIN f : f[e] \in Plan
    /\ NoExec \notin Exec
    /\ BatchSize \in Nat \ {0} /\ RowLimit \in Nat \ {0} /\ Capacity \in Nat \ {0}

VARIABLES
    registry,    \* ExecutionRegistry: the execution whose token an id leads to
    cancelled,   \* executions whose token is cancelled
    overdue,     \* executions whose deadline has passed
    gone,        \* executions whose SSE response was dropped by the client
    execPc,      \* the await at which each execution stands
    id, plan,    \* its execution id (X-Execution-Id, or a fresh one) and statement
    count,       \* row_count
    batch,       \* rows buffered and not sent
    meta,        \* the meta event: "none", "pending" or "sent"
    outcome,     \* what the run returned
    chan,        \* events in the channel
    heard        \* events the client has read

control == <<registry, cancelled, overdue, gone, id, plan>>
streamVars == <<control, execPc, count, batch, meta, outcome, chan, heard>>

----------------------------------------------------------------------------
(* Events and outcomes *)

Meta == [type |-> "meta", n |-> 0, truncated |-> FALSE]
Rows(n) == [type |-> "rows", n |-> n, truncated |-> FALSE]
Complete(n, t) == [type |-> "complete", n |-> n, truncated |-> t]
Error(c) == [type |-> c, n |-> 0, truncated |-> FALSE]

ErrorCode == {"CANCELLED", "TIMEOUT", "DB_ERROR"}
None == [type |-> "none", n |-> 0, truncated |-> FALSE]
IsTerminal(ev) == ev.type \in ErrorCode \cup {"complete"}

HasRoom(e) == e \notin gone /\ Len(chan[e]) < Capacity

ExecGoto(e, l) == execPc' = [execPc EXCEPT ![e] = l]
Return(e, o) == ExecGoto(e, "terminal") /\ outcome' = [outcome EXCEPT ![e] = o]

\* tx.send completes: the event is queued, or dropped when the receiver is gone.
Send(e, ev) ==
    /\ HasRoom(e) \/ e \in gone
    /\ chan' = IF e \in gone THEN chan ELSE [chan EXCEPT ![e] = Append(@, ev)]

Smaller(a, b) == IF a < b THEN a ELSE b

----------------------------------------------------------------------------
(* gw_query and cancel_execution *)

\* register replaces the token of an execution that has the same id.
StartQuery(e) ==
    /\ execPc[e] = "idle" /\ e \in DOMAIN plan
    /\ registry' = [registry EXCEPT ![id[e]] = e]
    /\ ExecGoto(e, "load")
    /\ UNCHANGED <<cancelled, overdue, gone, id, plan, count, batch, meta, outcome, chan, heard>>

\* DELETE /api/gw/executions/:id, a no-op for an unknown id.
CancelExecution(i) ==
    /\ registry[i] # NoExec
    /\ cancelled' = cancelled \cup {registry[i]}
    /\ UNCHANGED <<registry, overdue, gone, id, plan, execPc, count, batch, meta, outcome, chan, heard>>

----------------------------------------------------------------------------
(* Which awaits can be interrupted *)

\* The phases whose select! has a cancel branch; a TDengine request has one too.
AtCancelPoint(e) ==
    \/ execPc[e] \in {"execute", "stream", "drain", "reply"}
    \/ execPc[e] = "command" /\ plan[e].leg = "tdengine"

\* The deadline also covers opening and the first answer, except where the pool
\* opens connections by itself, where simple_query waits for TDS metadata and
\* where Redis is asked for the class of a command.
AtDeadlinePoint(e) ==
    \/ AtCancelPoint(e)
    \/ execPc[e] = "open" /\ plan[e].leg # "pool"
    \/ execPc[e] = "command" /\ plan[e].leg # "tds"

\* Mutant: the deadline is not looked at.
InterruptCancelOnly(e) == IF e \in cancelled /\ AtCancelPoint(e) THEN "CANCELLED" ELSE "none"

\* The select! is biased: cancel before deadline before progress.
Interrupt(e) ==
    IF e \in cancelled /\ AtCancelPoint(e) THEN "CANCELLED"
    ELSE IF e \in overdue /\ AtDeadlinePoint(e) THEN "TIMEOUT" ELSE "none"

\* Mutant: a result of exactly row_limit rows passes for whole.
CompletionOffByOne(e) == Complete(count[e], count[e] > RowLimit)

\* stream_rows reports truncation as soon as the limit is reached.
Completion(e) == Complete(count[e], count[e] >= RowLimit)

\* An interrupted tail flush drops what is left and still completes; anywhere
\* else the interruption is the outcome.
StepInterrupted(e) ==
    /\ Interrupt(e) # "none"
    /\ Return(e, IF execPc[e] = "drain" THEN Completion(e) ELSE Error(Interrupt(e)))
    /\ UNCHANGED <<control, count, batch, meta, chan, heard>>

----------------------------------------------------------------------------
(* Connecting and the first answer *)

\* load_connection, and the checks of kind and of read_only.
LoadConnection(e) ==
    /\ execPc[e] = "load"
    /\ \/ ExecGoto(e, IF plan[e].leg = "tdengine" THEN "command" ELSE "open") /\ UNCHANGED outcome
       \/ Return(e, Error("DB_ERROR"))
    /\ UNCHANGED <<control, count, batch, meta, chan, heard>>

\* What follows the connection.
AfterOpen(p) ==
    CASE p.leg = "redis" -> {"command", "classify"}
      [] p.leg = "pool"  -> IF p.write THEN {"execute"} ELSE {"stream"}
      [] OTHER           -> IF p.write THEN {"execute"} ELSE {"command"}

\* Opening, with its one retry without the default database.
OpenConnection(e) ==
    /\ execPc[e] = "open" /\ Interrupt(e) = "none"
    /\ \/ (\E l \in AfterOpen(plan[e]) : ExecGoto(e, l)) /\ UNCHANGED outcome
       \/ Return(e, Error("DB_ERROR"))
    /\ UNCHANGED <<control, count, batch, meta, chan, heard>>

\* On a read_only Redis connection each command is classified first, with ACL CAT
\* when the answer is not cached; a write is refused.
Classify(e) ==
    /\ execPc[e] = "classify"
    /\ \/ ExecGoto(e, "command") /\ UNCHANGED outcome
       \/ Return(e, Error("DB_ERROR"))
    /\ UNCHANGED <<control, count, batch, meta, chan, heard>>

\* guard_execute: a statement without rows.
Execute(e) ==
    /\ execPc[e] = "execute" /\ Interrupt(e) = "none"
    /\ Return(e, Complete(0, FALSE)) \/ Return(e, Error("DB_ERROR"))
    /\ UNCHANGED <<control, count, batch, meta, chan, heard>>

\* The row limit.
Limited(n) == Smaller(n, RowLimit)

\* A whole result of n rows is cut to the limit and then sent.
BeginReply(e, n) ==
    /\ count' = [count EXCEPT ![e] = Limited(n)]
    /\ batch' = [batch EXCEPT ![e] = Limited(n)]
    /\ meta' = [meta EXCEPT ![e] = "pending"]
    /\ ExecGoto(e, "reply")

\* The first answer of TDS (metadata), MongoDB (a cursor or one document), Redis
\* and TDengine (everything).
Command(e) ==
    /\ execPc[e] = "command" /\ Interrupt(e) = "none"
    /\ \/ /\ plan[e].leg \in {"tds", "mongo"}
          /\ ExecGoto(e, "stream") /\ UNCHANGED <<count, batch, meta, outcome>>
       \/ /\ plan[e].leg = "mongo" /\ plan[e].size = 1
          /\ BeginReply(e, 1) /\ UNCHANGED outcome
       \/ /\ plan[e].leg = "redis" \/ (plan[e].leg = "tdengine" /\ ~plan[e].write)
          /\ BeginReply(e, plan[e].size) /\ UNCHANGED outcome
       \/ /\ plan[e].leg = "tdengine" /\ plan[e].write
          /\ Return(e, Complete(0, FALSE)) /\ UNCHANGED <<count, batch, meta>>
       \/ Return(e, Error("DB_ERROR")) /\ UNCHANGED <<count, batch, meta>>
    /\ UNCHANGED <<control, chan, heard>>

----------------------------------------------------------------------------
(* stream_rows *)

Waiting(e) == meta[e] = "pending" \/ batch[e] >= BatchSize

\* Mutant: "no meta is pending" is taken for "no meta was sent".
FirstRowByPending(e) == meta[e] # "pending"

\* Only the first row carries the columns.
FirstRow(e) == count[e] = 0

\* The reserve branch: meta first, then a full batch.  With the receiver gone
\* reserve fails at once, and the loop comes back here with nothing changed.
SendWaiting(e) ==
    /\ execPc[e] = "stream" /\ Interrupt(e) = "none" /\ Waiting(e) /\ HasRoom(e)
    /\ \/ /\ meta[e] = "pending"
          /\ Send(e, Meta) /\ meta' = [meta EXCEPT ![e] = "sent"] /\ UNCHANGED batch
       \/ /\ meta[e] # "pending"
          /\ Send(e, Rows(batch[e])) /\ batch' = [batch EXCEPT ![e] = 0] /\ UNCHANGED meta
    /\ UNCHANGED <<control, execPc, count, outcome, heard>>

\* The stream.next branch is polled while the batch is not full and reserve is
\* not ready.  With the receiver gone reserve is always ready and wins, except when
\* the task's cooperative budget has run out: a fetch is possible, never assured.
CanFetch(e) ==
    /\ execPc[e] = "stream" /\ Interrupt(e) = "none"
    /\ batch[e] < BatchSize /\ ~(Waiting(e) /\ HasRoom(e))

FetchRow(e) ==
    /\ CanFetch(e) /\ count[e] < plan[e].size
    /\ count' = [count EXCEPT ![e] = @ + 1]
    /\ batch' = [batch EXCEPT ![e] = @ + 1]
    /\ meta' = [meta EXCEPT ![e] = IF FirstRow(e) THEN "pending" ELSE @]
    /\ IF count[e] + 1 >= RowLimit THEN ExecGoto(e, "drain") ELSE UNCHANGED execPc
    /\ UNCHANGED <<control, outcome, chan, heard>>

FetchEnd(e) ==
    /\ CanFetch(e)
    /\ \/ count[e] = plan[e].size /\ ExecGoto(e, "drain") /\ UNCHANGED outcome
       \/ Return(e, Error("DB_ERROR"))
    /\ UNCHANGED <<control, count, batch, meta, chan, heard>>

\* The next event of a flush: meta before rows, rows in batches.
SendNext(e) ==
    \/ /\ meta[e] = "pending"
       /\ Send(e, Meta) /\ meta' = [meta EXCEPT ![e] = "sent"] /\ UNCHANGED batch
    \/ /\ meta[e] # "pending" /\ batch[e] > 0
       /\ Send(e, Rows(Smaller(batch[e], BatchSize)))
       /\ batch' = [batch EXCEPT ![e] = @ - Smaller(@, BatchSize)] /\ UNCHANGED meta

Flushed(e) == meta[e] # "pending" /\ batch[e] = 0

\* The tail flush; an empty result gets a meta event without columns.
Drain(e) ==
    /\ execPc[e] = "drain" /\ Interrupt(e) = "none"
    /\ \/ SendNext(e) /\ UNCHANGED <<execPc, outcome>>
       \/ /\ Flushed(e) /\ count[e] = 0 /\ meta[e] = "none"
          /\ Send(e, Meta) /\ meta' = [meta EXCEPT ![e] = "sent"]
          /\ UNCHANGED <<batch, execPc, outcome>>
       \/ /\ Flushed(e) /\ (count[e] > 0 \/ meta[e] = "sent")
          /\ Return(e, Completion(e)) /\ UNCHANGED <<batch, meta, chan>>
    /\ UNCHANGED <<control, count, heard>>

----------------------------------------------------------------------------
(* Whole results *)

\* One document is never truncated; Redis marks a result that reaches the limit,
\* TDengine one that exceeds it.
ReplyTruncated(p) ==
    \/ p.leg = "redis" /\ p.size >= RowLimit
    \/ p.leg = "tdengine" /\ p.size > RowLimit

Reply(e) ==
    /\ execPc[e] = "reply" /\ Interrupt(e) = "none"
    /\ \/ SendNext(e) /\ UNCHANGED <<execPc, outcome>>
       \/ /\ Flushed(e)
          /\ Return(e, Complete(count[e], ReplyTruncated(plan[e])))
          /\ UNCHANGED <<batch, meta, chan>>
    /\ UNCHANGED <<control, count, heard>>

----------------------------------------------------------------------------
(* The end of an execution *)

\* send_terminal waits for room, without a limit.
SendTerminal(e) ==
    /\ execPc[e] = "terminal"
    /\ Send(e, outcome[e])
    /\ ExecGoto(e, "cleanup")
    /\ UNCHANGED <<control, count, batch, meta, outcome, heard>>

\* A panic while decoding a TDS row; the error event is only tried.
Panic(e) ==
    /\ CanFetch(e) /\ plan[e].leg = "tds"
    /\ outcome' = [outcome EXCEPT ![e] = Error("DB_ERROR")]
    /\ chan' = IF HasRoom(e) THEN [chan EXCEPT ![e] = Append(@, Error("DB_ERROR"))] ELSE chan
    /\ ExecGoto(e, "cleanup")
    /\ UNCHANGED <<control, count, batch, meta, heard>>

\* Mutant: the entry stays.
RemovedNothing(e) == registry

\* registry.remove, by id.
Unregistered(e) == [registry EXCEPT ![id[e]] = NoExec]

\* Then the best-effort audit row; with the task its senders are dropped.
Cleanup(e) ==
    /\ execPc[e] = "cleanup"
    /\ registry' = Unregistered(e)
    /\ ExecGoto(e, "done")
    /\ UNCHANGED <<cancelled, overdue, gone, id, plan, count, batch, meta, outcome, chan, heard>>

----------------------------------------------------------------------------
(* Client and clock *)

ClientReads(e) ==
    /\ e \notin gone /\ chan[e] # <<>>
    /\ heard' = [heard EXCEPT ![e] = Append(@, Head(chan[e]))]
    /\ chan' = [chan EXCEPT ![e] = Tail(@)]
    /\ UNCHANGED <<control, execPc, count, batch, meta, outcome>>

\* The SSE response is dropped, which cancels nothing.
ClientLeaves(e) ==
    /\ execPc[e] \notin {"idle", "done"} /\ e \notin gone
    /\ gone' = gone \cup {e}
    /\ chan' = [chan EXCEPT ![e] = <<>>]
    /\ UNCHANGED <<registry, cancelled, overdue, id, plan, execPc, count, batch, meta, outcome, heard>>

Serving == {"open", "classify", "execute", "command", "stream", "drain", "reply"}

DeadlinePasses(e) ==
    /\ execPc[e] \in Serving /\ e \notin overdue
    /\ overdue' = overdue \cup {e}
    /\ UNCHANGED <<registry, cancelled, gone, id, plan, execPc, count, batch, meta, outcome, chan, heard>>

StreamInit ==
    /\ registry = [i \in Id |-> NoExec]
    /\ cancelled = {} /\ overdue = {} /\ gone = {}
    /\ execPc = [e \in Exec |-> "idle"]
    /\ id \in [Exec -> Id]
    /\ plan \in Plans
    /\ count = [e \in Exec |-> 0] /\ batch = [e \in Exec |-> 0]
    /\ meta = [e \in Exec |-> "none"]
    /\ outcome = [e \in Exec |-> None]
    /\ chan = [e \in Exec |-> <<>>] /\ heard = [e \in Exec |-> <<>>]

\* Steps that wait for nobody but the server itself, or for an open channel.
ServerStep(e) ==
    \/ LoadConnection(e) \/ StepInterrupted(e) \/ SendWaiting(e)
    \/ Drain(e) \/ Reply(e) \/ SendTerminal(e) \/ Cleanup(e)

\* Steps that wait for the database.
DatabaseStep(e) ==
    \/ OpenConnection(e) \/ Classify(e) \/ Execute(e) \/ Command(e)
    \/ FetchRow(e) \/ FetchEnd(e) \/ Panic(e)

StreamNext ==
    \/ \E e \in Exec : StartQuery(e)
    \/ \E i \in Id : CancelExecution(i)
    \/ \E e \in Exec : ServerStep(e) \/ DatabaseStep(e)
    \/ \E e \in Exec : ClientReads(e) \/ ClientLeaves(e) \/ DeadlinePasses(e)

StreamSpec == StreamInit /\ [][StreamNext]_streamVars

\* Tokio polls what is ready.  Nothing is assumed of the database, the client or
\* the clock.
StreamFairSpec == StreamSpec /\ \A e \in Exec : WF_streamVars(ServerStep(e))

----------------------------------------------------------------------------
(* Type invariant *)

Event == [type : ErrorCode \cup {"complete", "meta", "rows"}, n : 0..RowLimit, truncated : BOOLEAN]

\* Locals and rows keep their shape, and the channel its capacity.
StreamTypeOK ==
    /\ registry \in [Id -> Exec \cup {NoExec}] /\ id \in [Exec -> Id]
    /\ cancelled \subseteq Exec /\ overdue \subseteq Exec /\ gone \subseteq Exec
    /\ execPc \in [Exec -> Serving \cup {"idle", "load", "terminal", "cleanup", "done"}]
    /\ DOMAIN plan \subseteq Exec /\ \A e \in DOMAIN plan : plan[e] \in Plan
    /\ count \in [Exec -> 0..RowLimit] /\ batch \in [Exec -> 0..RowLimit]
    /\ meta \in [Exec -> {"none", "pending", "sent"}]
    /\ \A e \in Exec :
          /\ outcome[e] \in Event \cup {None}
          /\ chan[e] \in Seq(Event) /\ Len(chan[e]) <= Capacity
          /\ heard[e] \in Seq(Event)

----------------------------------------------------------------------------
(* Safety *)

Events(e) == heard[e] \o chan[e]

\* "The terminal event always arrives last": the client sees at most one meta, no
\* rows before it, nothing after a terminal event, and, unless it left or the
\* task panicked on a TDS row, a terminal event before the response ends; whatever
\* the races of cancel, deadline and a slow reader in the three flush loops.
EventOrder ==
    \A e \in Exec :
        /\ \A j, k \in DOMAIN Events(e) : j < k =>
              /\ ~IsTerminal(Events(e)[j])
              /\ Events(e)[k].type # "meta"
        /\ \A k \in DOMAIN Events(e) :
              Events(e)[k].type = "rows" => Events(e)[1].type = "meta"
        /\ execPc[e] = "done" /\ e \notin gone =>
                  \/ \E k \in DOMAIN Events(e) : IsTerminal(Events(e)[k])
                  \/ plan[e].leg = "tds" /\ outcome[e] = Error("DB_ERROR")

\* Rows in the first k events of s.
RowsIn(s) ==
    LET sum[k \in 0..Len(s)] == IF k = 0 THEN 0 ELSE sum[k - 1] + s[k].n
    IN  sum[Len(s)]

\* A complete event tells the truth about the result: it is whole, or it is marked
\* truncated and has row_limit rows; and the rows that came before it are as many
\* as it counts, unless cancel or the deadline cut the tail flush short.
CompleteTruthful ==
    \A e \in Exec :
        LET s == heard[e] last == s[Len(s)]
        IN  s # <<>> /\ last.type = "complete" /\ ~plan[e].write =>
              /\ IF last.truncated THEN last.n = RowLimit /\ plan[e].size >= RowLimit
                 ELSE last.n = plan[e].size
              /\ \/ RowsIn(SubSeq(s, 1, Len(s) - 1)) = last.n
                 \/ e \in cancelled \cup overdue /\ plan[e].leg \in {"pool", "tds", "mongo"}

Running(e) == execPc[e] \notin {"idle", "done"}

\* The registry names running executions only ("removed by the execution task
\* after the terminal state"), and as long as an id is used once the execution
\* can be cancelled by it at every moment; not so when a client reuses the id.
RegistryTracksRunning ==
    /\ \A i \in Id : registry[i] # NoExec => id[registry[i]] = i /\ Running(registry[i])
    /\ \A e \in Exec :
          Running(e) /\ (\A f \in Exec \ {e} : id[f] = id[e] => execPc[f] = "idle")
          => registry[id[e]] = e

----------------------------------------------------------------------------
(* Liveness *)

\* Only a connected client that does not read keeps the execution.
Settled(e) == execPc[e] = "done" \/ (execPc[e] = "terminal" /\ e \notin gone /\ ~HasRoom(e))

\* Cancel "must terminate the execution on the server" and the deadline too, even
\* while the client has stopped consuming, the database is silent, or the receiver
\* is gone and the loop spins: at every covered await the run ends, and after it the
\* task, but for the terminal event in a full channel.
InterruptSettles ==
    \A e \in Exec :
        (e \in cancelled /\ AtCancelPoint(e)) \/ (e \in overdue /\ AtDeadlinePoint(e))
        ~> Settled(e)

=============================================================================
