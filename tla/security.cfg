SPECIFICATION FairSpec
CONSTANTS
    Addrs = {a1}
    IPs = {i1}
    Handlers = {h1, h2}
    MaxScore = 4
    Default = 3
    BanAt = 1
    PenaltyOf <- MCPenaltyOf
    Reward = 1
    Decay = 1
    BwhShares = 2
    Abuse = 1
    MaxShares = 2
    MaxBlocks = 1
    MaxFaults = 1
INVARIANTS
    TypeOK
    ScoreExplained
PROPERTIES
    ScoreRecovers
CHECK_DEADLOCK FALSE
