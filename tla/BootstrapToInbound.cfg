\* We are a Node; the cached node dials us before we bootstrap off it.
CONSTANTS
    p1 = p1
    p2 = p2
    NoPeer = NoPeer
    HsNode = HsNode
    HsClient = HsClient
    EchoReq = EchoReq
    EchoResp = EchoResp
    NoMsg = NoMsg
    Peers <- OnePeer
    BootCands <- OneCand
    OurType = "Node"
    MaxCalls = 1
    MaxSends = 0
    MaxReads = 0
    MaxInbound = 1
    MaxEchoReqs = 0
    CacheCap = 2
    StrictTerminator = FALSE
    HostDisconnects = FALSE

SPECIFICATION Spec

INVARIANT BootstrappedOnlyToContacted

CHECK_DEADLOCK FALSE
