\* We are a Client with an empty bootstrap cache dialling one node: the
\* driver of an earlier outbound session outlives its record.
CONSTANTS
    p1 = p1
    p2 = p2
    NoPeer = NoPeer
    HsNode = HsNode
    HsClient = HsClient
    EchoReq = EchoReq
    EchoResp = EchoResp
    NoMsg = NoMsg
    Peers <- OnePeer
    BootCands <- NoCands
    OurType = "Client"
    MaxCalls = 3
    MaxSends = 0
    MaxReads = 0
    MaxInbound = 0
    MaxEchoReqs = 0
    CacheCap = 2
    StrictTerminator = TRUE
    HostDisconnects = FALSE

SPECIFICATION Spec

PROPERTY SeveredOnlyByOwnSession

CHECK_DEADLOCK FALSE
