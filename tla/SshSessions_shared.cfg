CONSTANTS
    o1 = o1
    o2 = o2
    Objects = {o1, o2}
    Names = {"ssh0"}
    NameOf <- OneName
    Callers = {c1}
    Nobody = Nobody
    Errors = {"ALLOC", "AUTHENTICATION_FAILED"}
    MaxConnects = 2
SPECIFICATION FairSpec
INVARIANTS
    TypeOK
    LibraryCounted
    LeaksBounded
    CallKeepsChannel
    NoDanglingDevice
PROPERTY DestroyEnds
CHECK_DEADLOCK FALSE
