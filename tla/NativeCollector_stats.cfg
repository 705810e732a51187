SPECIFICATION Spec
CONSTANTS
    Statement <- Statements
    Cap = 1
    Week = 1
    Retention = 1
    Jobs <- JobSets
    MaxTime = 2
    MaxQueries = 2
    MaxReports = 2
    MaxFaults = 1
    Faults = {"insert", "report", "cursor", "connect", "crash"}
    Batch = 2
    TopN = 1
    MaxExec = 3
    MaxUpsets = 1
CHECK_DEADLOCK FALSE
INVARIANT CountedOnce
INVARIANT CursorSound
INVARIANT ReportsDisjoint
PROPERTY DueReported
