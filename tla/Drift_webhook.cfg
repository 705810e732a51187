SPECIFICATION Spec
CONSTANTS
    t1 = t1
    Task = {t1}
    Catalogs <- AllCatalogs
    Catalog0 <- Base
    Kind = "source_drift"
    Urls = {"valid"}
    Attempts = 2
    Interval = 1
    MaxRuns = 2
    Overlapping = {}
    ManualRuns = TRUE
    MaxTime = 1
    MaxDdl = 1
    MaxFaults = 0
    Faults = {"webhook"}
INVARIANT DeliveryFailureRecorded
