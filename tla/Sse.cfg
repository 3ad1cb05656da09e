SPECIFICATION FairSpec
CONSTANTS
    r1 = r1
    r2 = r2
    n1 = n1
    NoCall = NoCall
    Calls = {r1, r2}
    Ids = {r1, r2}
    Kind <- MCKind
    IdOf <- MCIdOf
    Capacity = 1
    MaxAttempts = 1
    StreamCapacity = 1
    Events = {"endpoint", "bad", "error", "other"}
INVARIANTS
    TypeOK
    NoCrossTalk
    NoLostReply
    NotConnectedIsFinal
PROPERTIES
    KeepsPromise
    EveryCallEnds
CHECK_DEADLOCK FALSE
