SPECIFICATION AloneSpec
CONSTANTS
    Blocks = {1}
    Watchers = {w1}
    MaxRestarts = 1
    Faults = {"crash", "reorg"}
PROPERTIES
    ReplacedIsFlagged
CHECK_DEADLOCK FALSE
