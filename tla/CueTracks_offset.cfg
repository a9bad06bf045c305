CONSTANTS
    Length <- MCLength
    Times = {0, 1, 2, 4}
    Word = 64
    FileSize = 20
    MaxTracks = 3
    MaxFiles = 1
SPECIFICATION Spec
INVARIANT FileOffsetIsData
CHECK_DEADLOCK FALSE
