SPECIFICATION Spec
CONSTANTS
    a1 = a1
    Cycles = {c1}
    Blocks = {1}
    Addrs = {a1, a2}
    Amount <- DistinctAmounts
    MinPayout = 2
    MaxBatch = 2
    RetryLimit = 8
    RecentTxs = 4
    MaxTx = 4
    Faults = {"refuse", "db"}
INVARIANTS
    SentMeansPaid
CHECK_DEADLOCK FALSE
