SPECIFICATION FairSpec
CONSTANTS
    a1 = a1
    Cycles = {c1, c2}
    Blocks = {1, 2}
    Addrs = {a1, a2}
    Amount <- DistinctAmounts
    MinPayout = 2
    MaxBatch = 2
    RetryLimit = 16
    RecentTxs = 4
    MaxTx = 4
    Faults = {"refuse", "redis", "crash"}
INVARIANTS
    PaidAtMostOnce
    SentMeansPaid
    PendingIsRetried
PROPERTIES
    ImplementsSettlement
    FailedEventuallyPaid
    PendingEventuallyDecided
