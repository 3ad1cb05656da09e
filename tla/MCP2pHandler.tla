---------------------------- MODULE MCP2pHandler ----------------------------
(* Constants of the model-checked instances of P2pHandler. *)
EXTENDS P2pHandler, TLC

CONSTANTS
    g1, g2, g3,     \* gossip about one resource, the first two with one id
    a,              \* the response to a request
    b, k,           \* a broadcast of the resource, a clean-up
    q,              \* a query of it
    first, second,  \* ids of gossip messages
    peer,
    req, res        \* the request, and the resource it asked for

MCOp == [c \in Calls |->
           CASE c \in {g1, g2, g3} -> "gossip" [] c = a -> "response"
             [] c = b -> "broadcast" [] c = k -> "cleanup" [] c = q -> "direct"]
MCPayload == [c \in Calls |->
                CASE c = a -> "answer" [] c = q -> "query" [] OTHER -> "resource"]
MCPeer == [c \in Calls |-> peer]
MCMsgId == [c \in Calls |-> IF c = g3 THEN second ELSE first]
MCUri == [c \in Calls |-> res]
MCRequest == [c \in Calls |-> req]
MCAsked == [r \in Requests |-> res]

\* Calls with the same arguments.
MCSymmetry == Permutations({g1, g2})

=============================================================================
