CONSTANTS
    Archives <- MCArchives
    Folders <- MCFolders
    Asked <- MCAsked
    Dirs = {d1, d2}
    Files = {f1}
    Lengths = {2}
    Moves <- MCMoves
    MemLimit = 3
    MaxFiles = 2
    Bound = 4
SPECIFICATION Spec
INVARIANTS
    ListingExact
    StatExact
    HandleFollows
CHECK_DEADLOCK FALSE
