---------------------------- MODULE TxnSessions ----------------------------
(***************************************************************************)
(* The transaction session store (crates/automation/src/txn.rs): sessions  *)
(* pinned to one database connection, kept in a DashMap, used by the four  *)
(* transaction endpoints (crates/automation/src/db_handler.rs) and swept   *)
(* by a TTL task (crates/automation/src/lib.rs).                           *)
(*                                                                         *)
(* execute_in_txn keeps the DashMap reference, and with it the shard's     *)
(* read lock, across its awaits.  insert, remove and remove_if take the    *)
(* shard's write lock and block the worker thread they run on until every  *)
(* reference is dropped; any other step needs a worker thread that is not  *)
(* blocked in this way, so enough writers wedge the process for good.      *)
(* Sessions are modelled in one shard.                                     *)
(***************************************************************************)
EXTENDS Integers, FiniteSets

CONSTANTS
    Session,      \* session ids, each used for one transaction
    Client,       \* connections that send one request at a time
    Threads,      \* worker threads of the runtime
    MaxRequests,  \* bound: requests per client
    TxnFaults     \* "stmt", "control", "drop" (client goes away), "reconnect"

ASSUME TxnAssumption ==
    /\ Threads \in Nat \ {0} /\ MaxRequests \in Nat
    /\ TxnFaults \subseteq {"stmt", "control", "drop", "reconnect"}
    /\ "free" \notin Client

NoSession == "none"

VARIABLES
    map,          \* ids present in the DashMap
    lock,         \* the client holding TxnSession.lock, or "free"
    expired,      \* sessions idle for longer than the TTL
    touched,      \* sessions whose last_used is later than the sweep's `now`
    reqPc,        \* where each client's request is
    sess,         \* the session it names
    verb,         \* COMMIT or ROLLBACK of a finish
    reply,        \* the answer to the client's last request
    requests,     \* requests sent by each client
    sweep,        \* where cleanup_expired is
    victims,      \* its candidates
    \* the user's database
    txn,          \* the transaction of each session
    lost          \* sessions whose pinned connection was replaced

clientVars == <<reqPc, sess, verb, reply, requests>>
sweepVars == <<sweep, victims, touched>>
dbVars == <<txn, lost>>
txnVars == <<map, lock, expired, clientVars, sweepVars, dbVars>>

\* A request that holds a DashMap reference.
Referencing(c) == reqPc[c] \in {"lock", "stmt"}
References == {c \in Client : Referencing(c)}

\* Inside insert, remove or remove_if while references are alive.
BlockedClients == {c \in Client : reqPc[c] \in {"insert", "remove"}}
SweepRemoving == sweep = "sweep" /\ victims # {}
BlockedThreads ==
    IF References = {} THEN 0
    ELSE Cardinality(BlockedClients) + (IF SweepRemoving THEN 1 ELSE 0)

\* A future can be polled.
ThreadFree == BlockedThreads < Threads

\* Every worker waits for a write lock that only a request without a worker can
\* give back: no future of the process is polled any more.
WorkersWedged == ~ThreadFree

\* Mutant: the write lock is taken although references are alive.
ShardWritableAlways == TRUE

\* The shard's write lock is free.
ShardWritable == References = {}

ReqGoto(c, l) == reqPc' = [reqPc EXCEPT ![c] = l]

\* The request is answered.
Answer(c, r) == ReqGoto(c, "idle") /\ reply' = [reply EXCEPT ![c] = r]

----------------------------------------------------------------------------
(* begin *)

\* The pinned pool is open and BEGIN was executed; the session is not in the
\* map yet.
Begin(c, s) ==
    /\ reqPc[c] = "idle" /\ ThreadFree /\ requests[c] < MaxRequests
    /\ txn[s] = "none"
    /\ txn' = [txn EXCEPT ![s] = "open"]
    /\ sess' = [sess EXCEPT ![c] = s]
    /\ requests' = [requests EXCEPT ![c] = @ + 1]
    /\ ReqGoto(c, "insert")
    /\ UNCHANGED <<map, lock, expired, verb, reply, sweepVars, lost>>

\* sessions.insert
InsertSession(c) ==
    /\ reqPc[c] = "insert" /\ ShardWritable
    /\ map' = map \cup {sess[c]}
    /\ Answer(c, "ok")
    /\ UNCHANGED <<lock, expired, sess, verb, requests, sweepVars, dbVars>>

----------------------------------------------------------------------------
(* execute_in_txn *)

\* sessions.get: a session that is gone is reported as not found.
GetSession(c, s) ==
    /\ reqPc[c] = "idle" /\ ThreadFree /\ requests[c] < MaxRequests
    /\ txn[s] # "none"
    /\ requests' = [requests EXCEPT ![c] = @ + 1]
    /\ sess' = [sess EXCEPT ![c] = s]
    /\ IF s \in map THEN ReqGoto(c, "lock") /\ UNCHANGED reply
                    ELSE Answer(c, "not_found")
    /\ UNCHANGED <<map, lock, expired, verb, sweepVars, dbVars>>

\* The mutex of the session.
LockFree(s) == lock[s] = "free"

\* entry.lock.lock().await, then the statement is sent.
StartStatement(c) ==
    /\ reqPc[c] = "lock" /\ ThreadFree
    /\ LockFree(sess[c])
    /\ lock' = [lock EXCEPT ![sess[c]] = c]
    /\ ReqGoto(c, "stmt")
    /\ UNCHANGED <<map, expired, sess, verb, reply, requests, sweepVars, dbVars>>

\* last_used = now
RefreshLastUsed(s) ==
    /\ expired' = expired \ {s}
    /\ touched' = touched \cup {s}

\* Mutant: the lock stays taken.
KeepsLock(c) == lock

\* The guard of TxnSession.lock is dropped.
ReleasesLock(c) == [lock EXCEPT ![sess[c]] = "free"]

\* The statement returns; only a success refreshes last_used.  The lock and the
\* reference are dropped.
FinishStatement(c) ==
    /\ reqPc[c] = "stmt" /\ ThreadFree
    /\ lock' = ReleasesLock(c)
    /\ \/ Answer(c, "ok") /\ RefreshLastUsed(sess[c])
       \/ "stmt" \in TxnFaults /\ Answer(c, "error") /\ UNCHANGED <<expired, touched>>
    /\ UNCHANGED <<map, sess, verb, requests, sweep, victims, dbVars>>

----------------------------------------------------------------------------
(* finish: commit and rollback *)

\* The handler calls sessions.remove.
StartFinish(c, s, v) ==
    /\ reqPc[c] = "idle" /\ ThreadFree /\ requests[c] < MaxRequests
    /\ txn[s] # "none"
    /\ requests' = [requests EXCEPT ![c] = @ + 1]
    /\ sess' = [sess EXCEPT ![c] = s] /\ verb' = [verb EXCEPT ![c] = v]
    /\ ReqGoto(c, "remove")
    /\ UNCHANGED <<map, lock, expired, reply, sweepVars, dbVars>>

\* Mutant: a finish of a session that is gone goes on.
RemovedAlways(s) == TRUE

\* remove returned the entry.
Removed(s) == s \in map

\* The write lock is granted; the session now belongs to this request.
RemoveSession(c) ==
    /\ reqPc[c] = "remove" /\ ShardWritable
    /\ map' = map \ {sess[c]}
    /\ IF Removed(sess[c]) THEN ReqGoto(c, "control") /\ UNCHANGED reply
                           ELSE Answer(c, "not_found")
    /\ UNCHANGED <<lock, expired, sess, verb, requests, sweepVars, dbVars>>

\* What COMMIT or ROLLBACK makes of an open transaction; when it fails, dropping
\* the pool closes the connection and the database rolls back.
Ended(v) == IF v = "COMMIT" THEN "committed" ELSE "rolledback"

\* session.lock.lock().await, execute_control with its result dropped, Ok(()).
ControlStatement(c) ==
    /\ reqPc[c] = "control" /\ ThreadFree /\ LockFree(sess[c])
    /\ \/ sess[c] \notin lost /\ txn' = [txn EXCEPT ![sess[c]] = Ended(verb[c])]
       \/ sess[c] \in lost /\ UNCHANGED txn    \* no transaction on the new connection
       \/ "control" \in TxnFaults /\ txn' = [txn EXCEPT ![sess[c]] = "rolledback"]
    /\ Answer(c, IF verb[c] = "COMMIT" THEN "committed" ELSE "ok")
    /\ UNCHANGED <<map, lock, expired, sess, verb, requests, sweepVars, lost>>

----------------------------------------------------------------------------
(* cleanup_expired *)

\* The scan: candidates are the sessions idle past the TTL at its `now`.
SweepScan ==
    /\ sweep = "idle" /\ ThreadFree
    /\ victims' = map \cap expired /\ touched' = {}
    /\ sweep' = "sweep"
    /\ UNCHANGED <<map, lock, expired, clientVars, dbVars>>

\* Mutant: the predicate of remove_if is not evaluated again.
StillIdleAlways(s) == TRUE

\* Mutant: the predicate of remove_if never holds.
StillIdleNever(s) == FALSE

\* now.duration_since(*l) > ttl, for the `now` of the scan
StillIdle(s) == s \notin touched

\* remove_if, then ROLLBACK; its error only means that closing rolls back.
SweepRemove(s) ==
    /\ sweep = "sweep" /\ s \in victims /\ ShardWritable
    /\ victims' = victims \ {s}
    /\ IF s \in map /\ StillIdle(s)
       THEN map' = map \ {s} /\ txn' = [txn EXCEPT ![s] = "rolledback"]
       ELSE UNCHANGED <<map, txn>>
    /\ UNCHANGED <<lock, expired, clientVars, sweep, touched, lost>>

SweepDone ==
    /\ sweep = "sweep" /\ victims = {} /\ ThreadFree
    /\ sweep' = "idle"
    /\ UNCHANGED <<map, lock, expired, clientVars, victims, touched, dbVars>>

----------------------------------------------------------------------------
(* The environment *)

\* Five minutes pass without a refresh of last_used.
Expire(s) ==
    /\ s \in map \ expired
    /\ expired' = expired \cup {s}
    /\ UNCHANGED <<map, lock, clientVars, sweepVars, dbVars>>

\* The HTTP client goes away and the handler's future is dropped at an await:
\* locks and references are released, a removed session is dropped with its pool.
DropRequest(c) ==
    /\ "drop" \in TxnFaults /\ ThreadFree
    /\ reqPc[c] \in {"lock", "stmt", "control"}
    /\ lock' = IF reqPc[c] = "stmt" THEN ReleasesLock(c) ELSE lock
    /\ txn' = IF reqPc[c] = "control" THEN [txn EXCEPT ![sess[c]] = "rolledback"] ELSE txn
    /\ Answer(c, "none")
    /\ UNCHANGED <<map, expired, sess, verb, requests, sweepVars, lost>>

\* The pinned connection breaks or reaches the pool's max_lifetime: the database
\* rolls back and the pool will connect anew for the next acquire.
Reconnect(s) ==
    /\ "reconnect" \in TxnFaults
    /\ s \in map /\ txn[s] = "open" /\ lock[s] = "free"
    /\ txn' = [txn EXCEPT ![s] = "rolledback"]
    /\ lost' = lost \cup {s}
    /\ UNCHANGED <<map, lock, expired, clientVars, sweepVars>>

TxnInit ==
    /\ map = {} /\ lock = [s \in Session |-> "free"]
    /\ expired = {} /\ touched = {}
    /\ reqPc = [c \in Client |-> "idle"] /\ sess = [c \in Client |-> NoSession]
    /\ verb = [c \in Client |-> "ROLLBACK"]
    /\ reply = [c \in Client |-> "none"]
    /\ requests = [c \in Client |-> 0]
    /\ sweep = "idle" /\ victims = {}
    /\ txn = [s \in Session |-> "none"] /\ lost = {}

\* A request under way takes its next step.
RequestStep(c) ==
    \/ InsertSession(c) \/ StartStatement(c) \/ FinishStatement(c)
    \/ RemoveSession(c) \/ ControlStatement(c)

Sweeper == SweepScan \/ (\E s \in Session : SweepRemove(s)) \/ SweepDone

TxnNext ==
    \/ \E c \in Client, s \in Session :
          \/ Begin(c, s) \/ GetSession(c, s)
          \/ \E v \in {"COMMIT", "ROLLBACK"} : StartFinish(c, s, v)
    \/ \E c \in Client : RequestStep(c) \/ DropRequest(c)
    \/ Sweeper
    \/ \E s \in Session : Expire(s) \/ Reconnect(s)

TxnSpec == TxnInit /\ [][TxnNext]_txnVars

\* The user's database answers, the runtime polls every future it has a thread
\* for, the ticker wakes the sweeper and time passes.
TxnFairness ==
    /\ \A c \in Client : WF_txnVars(RequestStep(c))
    /\ WF_txnVars(Sweeper)
    /\ \A s \in Session : WF_txnVars(Expire(s))

TxnFairSpec == TxnSpec /\ TxnFairness

----------------------------------------------------------------------------
(* Properties *)

\* Every variable keeps its shape, and only open or ended transactions have
\* sessions.
TxnTypeOK ==
    /\ map \subseteq Session /\ lock \in [Session -> Client \cup {"free"}]
    /\ expired \subseteq Session /\ touched \subseteq Session
    /\ reqPc \in [Client -> {"idle", "insert", "lock", "stmt", "remove", "control"}]
    /\ sess \in [Client -> Session \cup {NoSession}]
    /\ verb \in [Client -> {"COMMIT", "ROLLBACK"}]
    /\ reply \in [Client -> {"none", "ok", "not_found", "error", "committed"}]
    /\ requests \in [Client -> 0..MaxRequests]
    /\ sweep \in {"idle", "sweep"} /\ victims \subseteq Session
    /\ txn \in [Session -> {"none", "open", "committed", "rolledback"}]
    /\ lost \subseteq Session

\* A statement runs only inside its session's open transaction: neither a
\* commit, a rollback nor the sweeper ends the transaction under it.  Only the
\* pool can, by replacing the pinned connection.
StatementInTransaction ==
    \A c \in Client : reqPc[c] = "stmt" =>
        txn[sess[c]] = IF sess[c] \in lost THEN "rolledback" ELSE "open"

\* A transaction is ended once: what was committed or rolled back stays so, and
\* two finishing requests, or one and the sweeper, never both end it.
EndedOnce ==
    [][\A s \in Session : txn[s] \in {"committed", "rolledback"} => txn'[s] = txn[s]]_txnVars

\* The sweeper leaves a session alone that was used after its scan.
SweepSparesUsed ==
    [][\A s \in Session : (s \in touched /\ s \in map /\ sweep = "sweep" /\ s \notin map')
            => \E c \in Client : reqPc[c] = "remove" /\ sess[c] = s]_txnVars

\* Every request is answered, or dropped with its client, unless the workers are
\* wedged: one statement under way and as many insert, remove and remove_if calls
\* as there are workers.  That the store can do (execute_in_txn keeps its
\* reference across awaits); any other wait for the shard or for TxnSession.lock
\* ends, whatever statements, commits and sweeps meet.
RequestsComplete ==
    \A c \in Client : reqPc[c] # "idle" ~> reqPc[c] = "idle" \/ WorkersWedged

\* A session nobody finishes is rolled back, as long as the workers are not wedged:
\* a client that never commits cannot leak a pinned connection.
AbandonedReclaimed ==
    \A s \in Session : txn[s] = "open" ~> txn[s] # "open" \/ WorkersWedged

=============================================================================
