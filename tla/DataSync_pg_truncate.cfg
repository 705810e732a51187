SPECIFICATION Spec
CONSTANTS
    x1 = x1
    x2 = x2
    x3 = x3
    Row = {x1, x2}
    TimeOf <- SparseTime
    StartAt = 0
    MaxTime = 2
    BatchSize = 1
    Limit = 1
    Attempts = 2
    Strategy = "truncate"
    Pair = "pg_pg"
    Parseable = TRUE
    MaxRuns = 2
    ManualRuns = FALSE
    MaxTicks = 1
    MaxCrashes = 1
    Faults = {}
PROPERTY ResumeKeepsTarget
