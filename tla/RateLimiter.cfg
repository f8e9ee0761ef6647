SPECIFICATION Spec
CONSTANTS
    p1 = p1
    p2 = p2
    in = in
    Peers <- MCPeers
    Ingress = in
    Forged <- MCForged
    Cap = 4
    Cost = 2
    IdleFor = 4
    MaxNow = 8
INVARIANTS WindowBound
PROPERTIES EvictionKeepsUp RefinesTokenBucket
