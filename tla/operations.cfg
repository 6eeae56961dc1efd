SPECIFICATION Spec
CONSTANTS
    Callers = {k1, k2, p1}
    Checks = {k1, k2}
    Collections = {p1}
    Threshold = 3
    BufferLimit = 2
    MaxEntries = 2
    MaxFlips = 2
INVARIANTS
    TypeOK
    OpensOnFailures
    KeptOnce
PROPERTIES
    RecoveryNoticed
CHECK_DEADLOCK FALSE
