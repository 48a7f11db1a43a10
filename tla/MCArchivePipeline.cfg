CONSTANTS
    w1 = w1
    w2 = w2
    Workers = {w1, w2}
    NoWorker = NoWorker
    LastSequence = 2
    Partition <- Hours
    Batches <- AllBatches
    Ranges <- MemoryRanges
    AwaitOk = TRUE
    c1 = c1
    c2 = c2
    k1 = k1
    k2 = k2
    e1 = e1
    p1 = p1
    v1 = v1
    v2 = v2
    Logs <- BrokerLogs
    Consumers = {c1, c2}
    MaxFailures = 1
    CoverageKeys = {k1, k2}
    Positions = {1, 2}
    Causes = {"loss", "restart"}
    EvidenceIds = {e1}
    MaxRevision = 3
    MaxAppended = 4
    LineageIds = {1, 2, 3, 4}
    Subjects = {p1}
    MaxSlot = 2
    Versions = {v1, v2}
    MaxDeployments = 2
    MaxAttempts = 2
    NoEnd = NoEnd
    NoVersion = NoVersion
    MaxFaults = 2
SPECIFICATION MCSpec
PROPERTY ArchivesImplementContract
INVARIANT OkIsDurable
INVARIANT ReclaimSafe
PROPERTY PersistentCallersSucceed
INVARIANT AcknowledgedIsWhole
INVARIANT ReadersAreExact
PROPERTY RecordsNormalized
INVARIANT RecoveryNamesItsGap
INVARIANT TraceIsExact
INVARIANT AttemptsStayValid
