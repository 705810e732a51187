SPECIFICATION FairSpec
CONSTANTS
    t1 = t1
    Order <- OneMetric
    Table = {t1}
    Threshold = 2
    Configs <- Watched
    MaxChanges = 1
    MaxFaults = 0
    FaultKinds = {}
PROPERTY OutageAlerts
