SPECIFICATION MiningFair
CONSTANTS
    Updaters = {u1}
    Clients = {c1}
    Aux = {x1}
    Slots = {s1}
    Nonces <- TwoNonces
    Work <- TwoWorks
    Diffs = {2}
    MaxJobs = 2
    MaxTip = 2
    MaxAux = 2
    MaxMade = 2
    MaxShares = 1
    MaxRetries = 2
    NetDiff = 3
    AuxDiff = 3
    RewardConfigured = TRUE
    Faults = {"rpc", "aux", "redis", "refuse", "lost", "db", "expire", "crash"}
INVARIANTS
    BlockMatchesHeader
    RecordedIsAccepted
PROPERTY
    ShareIsDone
CHECK_DEADLOCK FALSE
