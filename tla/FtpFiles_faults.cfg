CONSTANTS
    Files = {f1, f2}
    Fds = {3, 4, 5, 6}
    Nobody = Nobody
    Sizes = {1, 3}
    Len = 2
    Seeks <- MCSeeks
    MaxRead = 2
    Half = 8
    FaultSets <- MCFaultSets
SPECIFICATION Spec
SYMMETRY FileSymmetry
INVARIANTS
    TypeOK
    StreamPosition
    SocketsHeld
    FateExplained
PROPERTY EndOnlyAtEnd
CHECK_DEADLOCK FALSE
