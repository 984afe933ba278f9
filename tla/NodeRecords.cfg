\* We are a Node talking to one peer: both halves of its record, pending
\* sends and reads, record teardown and re-creation.
CONSTANTS
    p1 = p1
    p2 = p2
    NoPeer = NoPeer
    HsNode = HsNode
    HsClient = HsClient
    EchoReq = EchoReq
    EchoResp = EchoResp
    NoMsg = NoMsg
    Peers <- OnePeer
    BootCands <- OneCand
    OurType = "Node"
    MaxCalls = 2
    MaxSends = 2
    MaxReads = 2
    MaxInbound = 2
    MaxEchoReqs = 0
    CacheCap = 2
    StrictTerminator = FALSE
    HostDisconnects = TRUE

SPECIFICATION Spec

INVARIANT TypeOK
INVARIANT SendsInSubmitOrder
PROPERTY SessionsRefined

\* The process idles once the bounded environment has no more to do.
CHECK_DEADLOCK FALSE
