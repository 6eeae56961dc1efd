SPECIFICATION Spec
CONSTANTS
    Agents <- MCAgents
    Speeds <- MCSpeeds
    StartDiff = 500
    MinDiff = 90
    MaxDiff = 100000
    Enough = 3
    MaxSubscribes = 2
    MaxMoods = 2
INVARIANTS
    FloorKept
PROPERTIES
    SettlesOnTarget
