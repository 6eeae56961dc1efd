SPECIFICATION Spec
CONSTANTS
    a1 = a1
    Cycles = {c1, c2}
    Blocks = {1}
    Addrs = {a1}
    Amount <- DistinctAmounts
    MinPayout = 2
    MaxBatch = 1
    RetryLimit = 2
    RecentTxs = 1
    MaxTx = 2
    Faults = {"refuse", "lost", "rpc", "redis", "db", "crash", "overrun", "reorg"}
INVARIANTS
    TypeOK
    CreditMeansPaid
    LedgerMeansPaid
CHECK_DEADLOCK FALSE
