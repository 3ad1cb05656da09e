SPECIFICATION FairSpec
CONSTANTS
    g1 = g1
    g2 = g2
    g3 = g3
    a = a
    b = b
    k = k
    q = q
    first = first
    second = second
    peer = peer
    res = res
    req = req
    Nobody = Nobody
    Calls = {g1, k}
    Droppable = {}
    Peers = {peer}
    Ids = {first, second}
    Uris = {res}
    Requests = {req}
    Op <- MCOp
    Payload <- MCPayload
    Peer <- MCPeer
    MsgId <- MCMsgId
    Uri <- MCUri
    Request <- MCRequest
    Asked <- MCAsked
    PeerTimeout = 1
    Ttl = 1
    MaxTime = 1
PROPERTY
    CleanupEnds
CHECK_DEADLOCK FALSE
