SPECIFICATION Spec
CONSTANTS
    t1 = t1
    Task = {t1}
    Catalogs <- AllCatalogs
    Catalog0 <- Base
    Kind = "source_drift"
    Urls = {"rejected", "valid"}
    Attempts = 2
    Interval = 1
    MaxRuns = 3
    Overlapping = {2}
    ManualRuns = TRUE
    MaxTime = 1
    MaxDdl = 1
    MaxFaults = 1
    Faults = {"control", "connect", "canary", "collect", "webhook", "lost_ack", "crash"}
INVARIANT ChainRecordsChanges
INVARIANT ChangesAnnounced
PROPERTY ImplementsLock
