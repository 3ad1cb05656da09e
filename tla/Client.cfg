SPECIFICATION FairClientSpec
CONSTANTS
    init1 = init1
    init2 = init2
    op1 = op1
    op2 = op2
    NoOp = NoOp
    Ops = {init1, init2, op1, op2}
    Initializers = {init1, init2}
    Needs <- MCNeeds
    Capabilities = {"tools", "prompts"}
    MaxRequests = 4
    Calls <- MCCalls
    Ids <- MCCalls
    NoCall = 0
    Kind <- MCKind
    IdOf <- MCIdOf
    Capacity = 1
INVARIANTS
    ClientTypeOK
    IdCheckNeverRejects
    OneInFlight
    HandshakeFirst
    InitializedMeansHandshake
PROPERTY
    EveryOpEnds
CHECK_DEADLOCK FALSE
