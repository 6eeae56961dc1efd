SPECIFICATION AloneSpec
CONSTANTS
    Blocks = {1, 2}
    Watchers = {w1}
    MaxRestarts = 2
    Faults = {"rpc", "db", "crash", "reorg"}
INVARIANTS
    WTypeOK
    NoFalseOrphan
    PayableShowsChainHash
PROPERTIES
    KeptIsConfirmed
CHECK_DEADLOCK FALSE
