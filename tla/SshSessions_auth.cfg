CONSTANTS
    o1 = o1
    o2 = o2
    Objects = {o1, o2}
    Names = {"ssh0", "ssh1"}
    NameOf <- OwnNames
    Callers = {}
    Nobody = Nobody
    Errors = {"AUTHENTICATION_FAILED"}
    MaxConnects = 1
SPECIFICATION Spec
INVARIANT RegisteredIsConnected
CHECK_DEADLOCK FALSE
