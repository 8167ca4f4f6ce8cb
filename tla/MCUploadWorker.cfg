SPECIFICATION Spec
CONSTANTS
    g1 = g1  g2 = g2
    Uploads = {u1}
    Workers = {g1, g2}
    MaxRetries = 1
    MaxBackoff = 1
    MaxResume = 1
    BreakerThreshold = 1
    MaxBatches = 2
    Chunks = 1
    Faults = {"ledgerWrite", "rowRead", "sendReply", "receiptParse"}
    EagerRetry = FALSE
    MaxOperatorRetries = 1
    MaxRestarts = 1
    MaxLostWrites = 0
SYMMETRY WorkerSymmetry
CHECK_DEADLOCK FALSE
INVARIANTS OnePayer LedgerOnePlan PaymentsAuthorized PaidSourceKept
PROPERTIES SweepSparesLive CompletedIsFinal ImplementsLifecycle
