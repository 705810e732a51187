SPECIFICATION FairSpec
CONSTANTS
    t1 = t1
    Order <- TwoMetrics
    Table = {t1}
    Threshold = 2
    Configs <- AllConfigs
    MaxChanges = 2
    MaxFaults = 1
    FaultKinds = {"history", "prepare", "collect", "load", "persist", "webhook", "lost_ack", "result", "finish", "crash", "manual"}
INVARIANT AlertAfterThreshold
INVARIANT ReceiverPicture
INVARIANT FailureVisible
PROPERTY AlertConverges
