SPECIFICATION FairSpec
CONSTANTS
    a1 = a1
    a2 = a2
    w1 = w1
    w2 = w2
    s1 = s1
    c1 = c1
    c2 = c2
    e1 = e1
    e2 = e2
    i1 = i1
    i2 = i2
    NoExec = NoExec
    Parts = {"ddl", "txn", "stream"}
    Approval = {a1, a2}
    Worker = {w1, w2}
    Stmts = 2
    Legacy = {a1}
    ReadOnly = {a2}
    MaxCrashes = 1
    DdlFaults = {"control", "target"}
    Session = {s1}
    Client = {c1, c2}
    Threads = 2
    MaxRequests = 3
    TxnFaults = {"stmt", "control", "drop", "reconnect"}
    Exec = {e1, e2}
    Id = {i1, i2}
    Plans <- Scenarios
    BatchSize = 2
    RowLimit = 3
    Capacity = 1
INVARIANT ExecutedAtMostOnce
INVARIANT ExecStatusTruthful
INVARIANT StatementInTransaction
INVARIANT EventOrder
INVARIANT CompleteTruthful
INVARIANT RegistryTracksRunning
PROPERTY ImplementsOneShot
PROPERTY EndedOnce
PROPERTY SweepSparesUsed
PROPERTY ExecutionSettles
PROPERTY RequestsComplete
PROPERTY AbandonedReclaimed
PROPERTY InterruptSettles
CHECK_DEADLOCK FALSE
