CONSTANTS
    w1 = w1
    Workers = {w1}
    NoWorker = NoWorker
    LastSequence = 2
    Partition <- Hours
    Batches <- AllBatches
    AwaitOk = FALSE
    MaxFaults = 1
SPECIFICATION Spec
INVARIANT ReclaimSafe
