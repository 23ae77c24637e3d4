\* Two workers, two rows, batches that fit the reap threshold.
SPECIFICATION Spec
CONSTANTS
    w1 = w1
    w2 = w2
    d1 = d1
    d2 = d2
    NoClaim = NoClaim
    Workers <- TwoWorkers
    Deliveries <- TwoDeliveries
    Batch = 2
    Deadline = 1
    ReapAfter = 2
    MaxAttempts = 1
    RetryDelays <- OneDelay
    MaxFaults = 1
    MaxStops = 1
    MaxRequeues = 1
SYMMETRY Interchangeable
INVARIANTS TypeOK ClaimsExclusive ReaperSparesRunning FewStranded SendsBounded
PROPERTY KeepsPromise
