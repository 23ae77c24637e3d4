\* Two rows compete for batches of one; a crash or a failed statement, a
\* graceful stop and a user retry may happen at any point.
SPECIFICATION FairSpec
CONSTANTS
    w1 = w1
    w2 = w2
    d1 = d1
    d2 = d2
    NoClaim = NoClaim
    Workers <- OneWorker
    Deliveries <- TwoDeliveries
    Batch = 1
    Deadline = 1
    ReapAfter = 1
    MaxAttempts = 1
    RetryDelays <- OneDelay
    MaxFaults = 1
    MaxStops = 1
    MaxRequeues = 1
PROPERTY EverySettled
