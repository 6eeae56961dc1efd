SPECIFICATION JobSpec
CONSTANTS
    Updaters = {u1}
    Clients = {c1}
    Aux = {}
    MaxJobs = 2
    RewardConfigured = FALSE
    MaxTip = 2
    MaxAux = 1
    MaxMade = 2
    Faults = {}
INVARIANT
    CurrentJobExists
CHECK_DEADLOCK FALSE
