CONSTANTS
    Kinds = {"cue", "iso"}
    Files = {f1, f2}
    Nobody = Nobody
    Extents <- MCExtents
    Size = 9
    Header = 2
    Block = 3
    Lengths = {1, 3, 4}
    Moves <- MCMoves
    Bound = 8
    MaxStreams = 3
SPECIFICATION ImageSpec
SYMMETRY FileSymmetry
INVARIANT CrashExplained
PROPERTIES
    TracksApart
    IsoInPlace
CHECK_DEADLOCK FALSE
