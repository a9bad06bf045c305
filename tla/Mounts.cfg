CONSTANTS
    o1 = o1
    o2 = o2
    o3 = o3
    Kinds = {"nfs", "smb", "ftp", "m3u8", "iso", "cue", "arch"}
    Objects = {o1, o2, o3}
    NameOf <- MCNameOf
    Slots = {1, 2, 3}
    Callers = {c1}
    Nobody = Nobody
    MaxConnects = 3
SPECIFICATION Spec
SYMMETRY NamesakeSymmetry
INVARIANTS
    NoDanglingDevice
    StaysMounted
    FreedOnce
    CallKeepsContext
CHECK_DEADLOCK FALSE
