CONSTANTS
    Kinds = {"ssh", "nfs", "m3u8", "smb"}
    Threads = {t1, t2}
    Nobody = Nobody
    Size = 3
    Chunk = 2
    Uses <- MCUses
    Bound = 4
SPECIFICATION Spec
SYMMETRY ThreadSymmetry
INVARIANTS
    TypeOK
    PositionsAgree
PROPERTY ImplementsPosixFile
