CONSTANTS
    Files = {f1}
    Fds = {3, 4, 5}
    Nobody = Nobody
    Sizes = {4, 7}
    Len = 6
    Seeks <- MCSeeksLarge
    MaxRead = 2
    Half = 2
    FaultSets <- MCFaultSetsInTime
SPECIFICATION FairSpec
INVARIANTS
    StreamPosition
PROPERTY MutexReleased
CHECK_DEADLOCK FALSE
