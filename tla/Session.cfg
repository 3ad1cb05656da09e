SPECIFICATION FairSpec
CONSTANTS
    r1 = r1
    big = big
    nul = nul
    n1 = n1
    a1 = a1
    i1 = i1
    i2 = i2
    i3 = i3
    NoCall = NoCall
    Calls = {big, nul, a1}
    Ids = {i1, i2, i3}
    Kind <- MCKind
    IdOf <- MCIdOf
    Returns <- MCReturns
    Chunked = {big}
    Capacity = 1
    PipeCapacity = 2
    StdoutCapacity = 1
PROPERTIES
    ServerIsAChild
    CallsAreSettled
    ShutdownCompletes
CHECK_DEADLOCK FALSE
