\* We are a Node bootstrapping off two nodes that both dial back.
CONSTANTS
    p1 = p1
    p2 = p2
    NoPeer = NoPeer
    HsNode = HsNode
    HsClient = HsClient
    EchoReq = EchoReq
    EchoResp = EchoResp
    NoMsg = NoMsg
    Peers <- TwoPeers
    BootCands <- TwoCands
    OurType = "Node"
    MaxCalls = 2
    MaxSends = 0
    MaxReads = 0
    MaxInbound = 1
    MaxEchoReqs = 0
    CacheCap = 2
    StrictTerminator = FALSE
    HostDisconnects = FALSE

SPECIFICATION Spec

INVARIANT BootstrappedAtMostOnce

CHECK_DEADLOCK FALSE
