\* We are a Node sending to one peer while its record is torn down (by a
\* failure or disconnect_from) and re-created twice: every queued user
\* message leaves pending_sends.
CONSTANTS
    p1 = p1
    p2 = p2
    NoPeer = NoPeer
    HsNode = HsNode
    HsClient = HsClient
    EchoReq = EchoReq
    EchoResp = EchoResp
    NoMsg = NoMsg
    Peers <- OnePeer
    BootCands <- OneCand
    OurType = "Node"
    MaxCalls = 3
    MaxSends = 2
    MaxReads = 0
    MaxInbound = 1
    MaxEchoReqs = 1
    CacheCap = 1
    StrictTerminator = FALSE
    HostDisconnects = TRUE

SPECIFICATION Spec

PROPERTY QueuedSendsLeaveQueue

CHECK_DEADLOCK FALSE
