\* We are a Node that never dials: the peer opens two inbound connections, the second a duplicate.
CONSTANTS
    p1 = p1
    p2 = p2
    NoPeer = NoPeer
    HsNode = HsNode
    HsClient = HsClient
    EchoReq = EchoReq
    EchoResp = EchoResp
    NoMsg = NoMsg
    Peers <- OnePeer
    BootCands <- OneCand
    OurType = "Node"
    MaxCalls = 0
    MaxSends = 0
    MaxReads = 0
    MaxInbound = 2
    MaxEchoReqs = 0
    CacheCap = 2
    StrictTerminator = TRUE
    HostDisconnects = FALSE

SPECIFICATION Spec

PROPERTY SeveredOnlyByOwnSession

CHECK_DEADLOCK FALSE
