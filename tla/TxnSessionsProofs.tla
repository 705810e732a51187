------------------------- MODULE TxnSessionsProofs --------------------------
(***************************************************************************)
(* Theorems about TxnSessions: statements run inside their transaction, a  *)
(* transaction is ended once, and the sweeper spares a session in use.     *)
(*                                                                         *)
(* The argument is ownership.  A transaction that has begun is owned by    *)
(* the request that will insert it, by the map, or by the one request that *)
(* removed it, and only its owner ends it; a session stays in the map as   *)
(* long as a statement holds a reference to it, because the write lock of  *)
(* the shard waits for the references.                                     *)
(***************************************************************************)
EXTENDS TxnSessions, TLAPS

\* The transaction can still be ended: it is open, or the pool has lost it.
Endable(s) == txn[s] = "open" \/ (s \in lost /\ txn[s] = "rolledback")

\* Requests that have a session to themselves.
Owns(c, s) == reqPc[c] \in {"insert", "control"} /\ sess[c] = s

TxnInv ==
    /\ TxnTypeOK
    /\ \A c \in Client : reqPc[c] # "idle" => sess[c] \in Session
    /\ \A c \in Client : Referencing(c) => sess[c] \in map
    /\ \A s \in Session : s \in map => Endable(s)
    /\ \A s \in Session : s \in lost => txn[s] = "rolledback"
    /\ \A c \in Client, s \in Session : Owns(c, s) =>
          /\ Endable(s) /\ s \notin map
          /\ \A d \in Client : Owns(d, s) => d = c

\* No session exists at first.
LEMMA InitTxnInv == TxnInit => TxnInv
  BY TxnAssumption DEF TxnInit, TxnInv, TxnTypeOK, Referencing, Owns, NoSession

\* The requests of the clients.
LEMMA TxnRequests ==
    ASSUME TxnInv, NEW c \in Client,
           \/ \E s \in Session : Begin(c, s) \/ GetSession(c, s)
                                 \/ \E v \in {"COMMIT", "ROLLBACK"} : StartFinish(c, s, v)
           \/ StartStatement(c) \/ FinishStatement(c)
    PROVE  TxnInv'
  <1> USE TxnAssumption DEF TxnInv, TxnTypeOK, Referencing, Owns, Endable, ReqGoto, Answer
  <1>1. ASSUME NEW s \in Session, Begin(c, s) PROVE TxnInv'
    BY <1>1 DEF Begin, sweepVars
  <1>2. ASSUME NEW s \in Session, GetSession(c, s) PROVE TxnInv'
    BY <1>2 DEF GetSession, sweepVars, dbVars
  <1>3. ASSUME NEW s \in Session, NEW v \in {"COMMIT", "ROLLBACK"}, StartFinish(c, s, v)
        PROVE  TxnInv'
    BY <1>3 DEF StartFinish, sweepVars, dbVars
  <1>4. CASE StartStatement(c)
    BY <1>4 DEF StartStatement, sweepVars, dbVars
  <1>5. CASE FinishStatement(c)
    BY <1>5 DEF FinishStatement, ReleasesLock, RefreshLastUsed, dbVars
  <1> QED  BY <1>1, <1>2, <1>3, <1>4, <1>5

\* The steps that change the map or end a transaction.
LEMMA TxnEnds ==
    ASSUME TxnInv, NEW c \in Client,
           InsertSession(c) \/ RemoveSession(c) \/ ControlStatement(c) \/ DropRequest(c)
    PROVE  TxnInv'
  <1> USE TxnAssumption DEF TxnInv, TxnTypeOK, Referencing, Owns, Endable, ReqGoto, Answer
  <1>1. CASE InsertSession(c)
    BY <1>1 DEF InsertSession, sweepVars, dbVars
  <1>2. CASE RemoveSession(c)
    BY <1>2 DEF RemoveSession, ShardWritable, References, Removed, sweepVars, dbVars
  <1>3. CASE ControlStatement(c)
    BY <1>3 DEF ControlStatement, Ended, sweepVars
  <1>4. CASE DropRequest(c)
    BY <1>4 DEF DropRequest, ReleasesLock, sweepVars
  <1> QED  BY <1>1, <1>2, <1>3, <1>4

\* The sweeper, the clock, the pool and steps of nobody.
LEMMA TxnOthers ==
    ASSUME TxnInv,
           Sweeper \/ (\E s \in Session : Expire(s) \/ Reconnect(s)) \/ UNCHANGED txnVars
    PROVE  TxnInv'
  <1> USE TxnAssumption DEF TxnInv, TxnTypeOK, Referencing, Owns, Endable
  <1>1. CASE SweepScan
    BY <1>1 DEF SweepScan, clientVars, dbVars
  <1>2. ASSUME NEW s \in Session, SweepRemove(s) PROVE TxnInv'
    BY <1>2 DEF SweepRemove, ShardWritable, References, clientVars
  <1>3. CASE SweepDone
    BY <1>3 DEF SweepDone, clientVars, dbVars
  <1>4. ASSUME NEW s \in Session, Expire(s) PROVE TxnInv'
    BY <1>4 DEF Expire, clientVars, sweepVars, dbVars
  <1>5. ASSUME NEW s \in Session, Reconnect(s) PROVE TxnInv'
    BY <1>5 DEF Reconnect, clientVars, sweepVars
  <1>6. CASE UNCHANGED txnVars
    BY <1>6 DEF txnVars, clientVars, sweepVars, dbVars
  <1> QED  BY <1>1, <1>2, <1>3, <1>4, <1>5, <1>6 DEF Sweeper

\* Every step keeps the ownership of the sessions.
LEMMA NextTxnInv == TxnInv /\ [TxnNext]_txnVars => TxnInv'
  BY TxnRequests, TxnEnds, TxnOthers DEF TxnNext, RequestStep

\* Ended transactions stay as they are.
LEMMA TxnNextEnds ==
    ASSUME TxnInv, TxnNext
    PROVE  \A s \in Session : txn[s] \in {"committed", "rolledback"} => txn'[s] = txn[s]
  <1> USE DEF TxnInv, TxnTypeOK, Endable
  <1>1. ASSUME NEW c \in Client, ControlStatement(c) \/ DropRequest(c)
        PROVE  \A s \in Session : txn[s] \in {"committed", "rolledback"} => txn'[s] = txn[s]
    BY <1>1 DEF ControlStatement, DropRequest, Owns
  <1>2. ASSUME NEW s \in Session, SweepRemove(s) \/ Reconnect(s)
        PROVE  \A x \in Session : txn[x] \in {"committed", "rolledback"} => txn'[x] = txn[x]
    BY <1>2 DEF SweepRemove, Reconnect
  <1>3. ASSUME NEW c \in Client, NEW s \in Session, Begin(c, s)
        PROVE  \A x \in Session : txn[x] \in {"committed", "rolledback"} => txn'[x] = txn[x]
    BY <1>3 DEF Begin
  <1>4. ASSUME UNCHANGED txn
        PROVE  \A s \in Session : txn[s] \in {"committed", "rolledback"} => txn'[s] = txn[s]
    BY <1>4
  <1>5. ASSUME NEW c \in Client, NEW s \in Session,
               GetSession(c, s) \/ \E v \in {"COMMIT", "ROLLBACK"} : StartFinish(c, s, v)
        PROVE  UNCHANGED txn
    BY <1>5 DEF GetSession, StartFinish, dbVars
  <1>6. ASSUME NEW c \in Client,
               InsertSession(c) \/ StartStatement(c) \/ FinishStatement(c) \/ RemoveSession(c)
        PROVE  UNCHANGED txn
    BY <1>6 DEF InsertSession, StartStatement, FinishStatement, RemoveSession, dbVars
  <1>7. SweepScan \/ SweepDone \/ (\E s \in Session : Expire(s)) => UNCHANGED txn
    BY DEF SweepScan, SweepDone, Expire, dbVars
  <1> QED
    BY <1>1, <1>2, <1>3, <1>4, <1>5, <1>6, <1>7 DEF TxnNext, RequestStep, Sweeper

\* Only a finishing request takes a session that was used after the scan.
LEMMA TxnNextSpares ==
    ASSUME TxnInv, TxnNext, NEW s \in Session, s \in touched, s \in map, s \notin map'
    PROVE  \E c \in Client : reqPc[c] = "remove" /\ sess[c] = s
  <1>1. ASSUME NEW c \in Client, RemoveSession(c)
        PROVE  reqPc[c] = "remove" /\ sess[c] = s
    BY <1>1 DEF RemoveSession
  <1>2. ASSUME NEW x \in Session, SweepRemove(x) PROVE FALSE
    BY <1>2 DEF SweepRemove, StillIdle
  <1>3. ASSUME NEW c \in Client, InsertSession(c) PROVE FALSE
    BY <1>3 DEF InsertSession
  <1>4. ASSUME NEW c \in Client, NEW x \in Session,
               \/ Begin(c, x) \/ GetSession(c, x)
               \/ \E v \in {"COMMIT", "ROLLBACK"} : StartFinish(c, x, v)
        PROVE  FALSE
    BY <1>4 DEF Begin, GetSession, StartFinish
  <1>5. ASSUME NEW c \in Client,
               StartStatement(c) \/ FinishStatement(c) \/ ControlStatement(c) \/ DropRequest(c)
        PROVE  FALSE
    BY <1>5 DEF StartStatement, FinishStatement, ControlStatement, DropRequest
  <1>6. ~(SweepScan \/ SweepDone \/ (\E x \in Session : Expire(x) \/ Reconnect(x)))
    BY DEF SweepScan, SweepDone, Expire, Reconnect
  <1> QED
    BY <1>1, <1>2, <1>3, <1>4, <1>5, <1>6 DEF TxnNext, RequestStep, Sweeper

\* execute_in_txn: whatever commits, rollbacks, sweeps, dropped requests and
\* reconnections interleave with it, a statement runs in its session's open
\* transaction, or in one that the pool itself has lost.
THEOREM StatementInTransactionHolds == TxnSpec => []StatementInTransaction
  <1>1. TxnInv => StatementInTransaction
    BY DEF TxnInv, StatementInTransaction, Referencing, Endable, TxnTypeOK
  <1> QED  BY <1>1, InitTxnInv, NextTxnInv, PTL DEF TxnSpec

\* finish and cleanup_expired: of the requests that finish a session and the sweeper
\* one ends its transaction, and what was committed or rolled back stays so.
THEOREM EndedOnceHolds == TxnSpec => EndedOnce
  <1>1. TxnInv /\ [TxnNext]_txnVars =>
          [\A s \in Session : txn[s] \in {"committed", "rolledback"} => txn'[s] = txn[s]]_txnVars
    BY TxnNextEnds
  <1> QED  BY <1>1, InitTxnInv, NextTxnInv, PTL DEF TxnSpec, EndedOnce

\* cleanup_expired: remove_if evaluates its predicate again, so that a session used
\* after the scan leaves the map by a commit or a rollback only.
THEOREM SweepSparesUsedHolds == TxnSpec => SweepSparesUsed
  <1>1. TxnInv /\ [TxnNext]_txnVars =>
          [\A s \in Session : (s \in touched /\ s \in map /\ sweep = "sweep" /\ s \notin map')
              => \E c \in Client : reqPc[c] = "remove" /\ sess[c] = s]_txnVars
    BY TxnNextSpares
  <1> QED  BY <1>1, InitTxnInv, NextTxnInv, PTL DEF TxnSpec, SweepSparesUsed

=============================================================================
