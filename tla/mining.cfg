SPECIFICATION MiningSpec
CONSTANTS
    Updaters = {u1}
    Clients = {c1}
    Aux = {x1}
    Slots = {s1, s2}
    Nonces <- TwoNonces
    Work <- TwoWorks
    Diffs = {1, 2}
    MaxJobs = 1
    MaxTip = 2
    MaxAux = 1
    MaxMade = 2
    MaxShares = 2
    MaxRetries = 2
    NetDiff = 3
    AuxDiff = 3
    RewardConfigured = TRUE
    Faults = {"aux", "refuse", "rpc"}
INVARIANTS
    MiningTypeOK
    CreditedOnce
    CreditIsEarned
    AcceptedIsRecorded
    OneSubmission
CHECK_DEADLOCK FALSE
SYMMETRY SlotSymmetry
