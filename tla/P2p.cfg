SPECIFICATION Spec
CONSTANTS
    g1 = g1
    g2 = g2
    g3 = g3
    a = a
    b = b
    k = k
    q = q
    first = first
    second = second
    peer = peer
    res = res
    req = req
    Nobody = Nobody
    Calls = {g1, g2, g3, a, b, k, q}
    Droppable = {g1, g2}
    Peers = {peer}
    Ids = {first, second}
    Uris = {res}
    Requests = {req}
    Op <- MCOp
    Payload <- MCPayload
    Peer <- MCPeer
    MsgId <- MCMsgId
    Uri <- MCUri
    Request <- MCRequest
    Asked <- MCAsked
    PeerTimeout = 1
    Ttl = 1
    MaxTime = 1
SYMMETRY MCSymmetry
INVARIANTS
    P2pTypeOK
    OncePerTtl
    StoredInOrder
    DuplicatesWereHandled
    OnlyCleanupDeadlocks
CHECK_DEADLOCK FALSE
