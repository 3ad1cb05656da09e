SPECIFICATION Spec
CONSTANTS
    r1 = r1
    r2 = r2
    n1 = n1
    NoCall = NoCall
    Calls = {r1}
    Ids = {r1}
    Kind <- MCKind
    IdOf <- MCIdOf
    Capacity = 1
    MaxAttempts = 1
    StreamCapacity = 1
    Events = {"endpoint"}
INVARIANT
    HandleHasEndpoint
CHECK_DEADLOCK FALSE
