----------------------------- MODULE DataPlane ------------------------------
(***************************************************************************)
(* The parts of the server that act on user databases for a client: the    *)
(* DDL approval queue, the transaction sessions and the query gateway.     *)
(* Each has tables or maps, pools and locks of its own, and no statement of *)
(* one reads or writes what another one writes, so an interleaving of two  *)
(* parts shows each of them only what it can also do alone.  A behaviour    *)
(* therefore picks one part (focus) and runs it against all its own        *)
(* interleavings, faults and restarts, with the others at rest.            *)
(*                                                                         *)
(* What the parts do share is the worker threads of the runtime.  Threads  *)
(* of TxnSessions are the ones its own requests compete for; once the store *)
(* has wedged them all (WorkersWedged) the other parts stand still too, so *)
(* the fairness of each part is that of a process whose store has not.     *)
(***************************************************************************)
EXTENDS DdlApproval, TxnSessions, StreamQuery

CONSTANT Parts    \* the parts a behaviour may pick

ASSUME PartsAssumption == Parts \subseteq {"ddl", "txn", "stream"}

VARIABLE focus

vars == <<focus, ddlVars, txnVars, streamVars>>

\* A part that is not in focus needs only one initial state.
Rest(part, quiet) == focus = part \/ quiet

\* A local that a worker sets before it reads it; execution ids are interchangeable,
\* and a call that is never made needs none of its own.
Canonical ==
    /\ \A w \in Worker : job[w] = CHOOSE a \in Approval : TRUE
    /\ \E e \in Exec : id[e] = CHOOSE i \in Id : TRUE
    /\ \A e \in Exec \ DOMAIN plan : \A f \in Exec : id[e] = id[f]

Init ==
    /\ focus \in Parts
    /\ DdlInit /\ Rest("ddl", ~gated)
    /\ TxnInit
    /\ StreamInit /\ Rest("stream", plan = CHOOSE p \in Plans : TRUE)
    /\ Canonical

Next ==
    \/ focus = "ddl" /\ DdlNext /\ UNCHANGED <<focus, txnVars, streamVars>>
    \/ focus = "txn" /\ TxnNext /\ UNCHANGED <<focus, ddlVars, streamVars>>
    \/ focus = "stream" /\ StreamNext /\ UNCHANGED <<focus, ddlVars, txnVars>>

Spec == Init /\ [][Next]_vars

\* The fairness of the part in focus: spawned tasks are polled; the databases of
\* the approval queue and of the sessions answer; the ticker wakes the sweeper
\* and time passes.
Fairness ==
    /\ \A w \in Worker : WF_ddlVars(focus = "ddl" /\ WorkerStep(w))
    /\ \A c \in Client : WF_txnVars(focus = "txn" /\ RequestStep(c))
    /\ WF_txnVars(focus = "txn" /\ Sweeper)
    /\ \A s \in Session : WF_txnVars(focus = "txn" /\ Expire(s))
    /\ \A e \in Exec : WF_streamVars(focus = "stream" /\ ServerStep(e))

FairSpec == Spec /\ Fairness

=============================================================================
