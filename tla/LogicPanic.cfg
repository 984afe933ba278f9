\* We are a Node; an attempt of the bootstrap group outlives its record. Strict terminator semantics.
CONSTANTS
    p1 = p1
    p2 = p2
    NoPeer = NoPeer
    HsNode = HsNode
    HsClient = HsClient
    EchoReq = EchoReq
    EchoResp = EchoResp
    NoMsg = NoMsg
    Peers <- OnePeer
    BootCands <- OneCand
    OurType = "Node"
    MaxCalls = 3
    MaxSends = 0
    MaxReads = 0
    MaxInbound = 2
    MaxEchoReqs = 0
    CacheCap = 2
    StrictTerminator = TRUE
    HostDisconnects = FALSE

SPECIFICATION Spec

INVARIANT NoLogicPanic

CHECK_DEADLOCK FALSE
