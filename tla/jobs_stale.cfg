SPECIFICATION JobSpec
CONSTANTS
    Updaters = {u1, u2}
    Clients = {c1}
    Aux = {}
    MaxJobs = 2
    RewardConfigured = TRUE
    MaxTip = 2
    MaxAux = 1
    MaxMade = 6
    Faults = {"rpc"}
PROPERTY
    CurrentJobCatchesUp
CHECK_DEADLOCK FALSE
