SPECIFICATION Spec
CONSTANTS
    shared = shared
    r1 = r1
    r2 = r2
    r3 = r3
    n1 = n1
    a1 = a1
    o1 = o1
    NoCall = NoCall
    Calls = {r1, r2, r3}
    Ids = {shared, r3}
    Kind <- MCKind
    IdOf <- MCIdOf
    Capacity = 1
    StdoutCapacity = 1
    Noise = {"log", "garbled"}
    Closable = {"stdout"}
SYMMETRY SymShared
INVARIANTS
    TypeOK
    NoCrossTalk
    NoLostReply
    NobodyLeftWaiting
    CauseReported
    ReturnedLeavesNoEntry
PROPERTY
    KeepsPromise
CHECK_DEADLOCK FALSE
