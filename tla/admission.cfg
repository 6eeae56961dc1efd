SPECIFICATION AdmFair
CONSTANTS
    IPs = {ip1}
    Hour = 1
    Day = 2
    Faults = {"db", "crash"}
    MaxScore = 4
    Neutral = 2
    RejectBelow = 1
    TrustFrom = 3
    SharePenalty = 1
    BanPenalty = 2
    BlockBonus = 1
    RejectedPerMin = 1
    MaxRejected = 2
    MaxRestarts = 2
INVARIANTS
    AdmTypeOK
    StoredBansHold
    OverrideHolds
PROPERTIES
    PermanentStays
    AccessReturns
