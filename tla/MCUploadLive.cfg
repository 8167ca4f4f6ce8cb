SPECIFICATION FairSpec
CONSTANTS
    g1 = g1  g2 = g2
    Uploads = {u1}
    Workers = {g1, g2}
    MaxRetries = 1
    MaxBackoff = 1
    MaxResume = 1
    BreakerThreshold = 1
    MaxBatches = 2
    Chunks = 1
    Faults = {"ledgerRead", "ledgerWrite"}
    EagerRetry = FALSE
    MaxOperatorRetries = 0
    MaxRestarts = 1
    MaxLostWrites = 1
CHECK_DEADLOCK FALSE
PROPERTIES Settles OrphansReclaimed
