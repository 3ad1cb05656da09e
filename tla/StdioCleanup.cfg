SPECIFICATION ResponsiveSpec
CONSTANTS
    shared = shared
    r1 = r1
    r2 = r2
    r3 = r3
    n1 = n1
    a1 = a1
    o1 = o1
    NoCall = NoCall
    Calls = {r1, n1}
    Ids = {shared, n1}
    Kind <- MCKind
    IdOf <- MCIdOf
    Capacity = 1
    StdoutCapacity = 1
    Noise = {"garbled"}
    Closable = {}
PROPERTY
    CleanupFollows
CHECK_DEADLOCK FALSE
