SPECIFICATION PipeSpec
CONSTANTS
    Cycles = {c1}
    Watchers = {w1}
    Blocks = {1}
    Addrs = {a1}
    Amount <- OneAmount
    MinPayout = 2
    MaxBatch = 2
    RetryLimit = 8
    RecentTxs = 4
    MaxTx = 4
    Faults = {}
PROPERTIES
    MatureEventuallyPaid
CHECK_DEADLOCK FALSE
