SPECIFICATION Spec
CONSTANTS
    x1 = x1
    x2 = x2
    x3 = x3
    Row = {x1, x2}
    TimeOf <- SparseTime
    StartAt = 0
    MaxTime = 2
    BatchSize = 1
    Limit = 1
    Attempts = 1
    Strategy = "upsert"
    Pair = "mysql_mysql"
    Parseable = TRUE
    MaxRuns = 2
    ManualRuns = TRUE
    MaxTicks = 0
    MaxCrashes = 1
    Faults = {"control", "fetch"}
INVARIANT ResumePointCovered
INVARIANT LatestSucceededComplete
INVARIANT SucceededAccounting
INVARIANT ScheduledRunsExclusive
PROPERTY CancelMissedOnlyBehindNewerRun
