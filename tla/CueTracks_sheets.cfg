CONSTANTS
    Length <- MCLength
    Times = {0, 1, 2, 4}
    Word = 64
    FileSize = 20
    MaxTracks = 3
    MaxFiles = 2
SPECIFICATION Spec
INVARIANTS
    FirstGapRight
    AudioTracksContiguous
PROPERTY DiscMonotone
CHECK_DEADLOCK FALSE
