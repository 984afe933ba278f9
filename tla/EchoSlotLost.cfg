\* We are a Node without a configured address; one node dials us and we ask it for an endpoint echo.
CONSTANTS
    p1 = p1
    p2 = p2
    NoPeer = NoPeer
    HsNode = HsNode
    HsClient = HsClient
    EchoReq = EchoReq
    EchoResp = EchoResp
    NoMsg = NoMsg
    Peers <- OnePeer
    BootCands <- OneCand
    OurType = "Node"
    MaxCalls = 2
    MaxSends = 0
    MaxReads = 1
    MaxInbound = 1
    MaxEchoReqs = 1
    CacheCap = 2
    StrictTerminator = FALSE
    HostDisconnects = FALSE

SPECIFICATION Spec

INVARIANT EchoRespLearnsAddress

CHECK_DEADLOCK FALSE
