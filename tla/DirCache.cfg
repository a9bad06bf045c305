CONSTANTS
    Kinds = {"ftp", "smb", "iso", "nfs", "ssh"}
    Dirs = {d1, d2}
    Callers = {c1}
    Nobody = Nobody
    Opens <- MCOpens
    Asks <- MCAsks
    Lines <- MCLines
    MaxVersion = 1
    Truncates = TRUE
SPECIFICATION Spec
INVARIANTS
    OrderlyListing
    
    
PROPERTIES
    CompleteListing
    
    NoUseWhileFilled
    ImplementsDirStream
