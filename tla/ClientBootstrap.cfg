\* We are a Client bootstrapping off two nodes of the cache: the group race.
CONSTANTS
    p1 = p1
    p2 = p2
    NoPeer = NoPeer
    HsNode = HsNode
    HsClient = HsClient
    EchoReq = EchoReq
    EchoResp = EchoResp
    NoMsg = NoMsg
    Peers <- TwoPeers
    BootCands <- TwoCands
    OurType = "Client"
    MaxCalls = 3
    MaxSends = 1
    MaxReads = 1
    MaxInbound = 0
    MaxEchoReqs = 1
    CacheCap = 2
    StrictTerminator = FALSE
    HostDisconnects = FALSE

SPECIFICATION Spec

INVARIANT BootstrappedAtMostOnce
INVARIANT NoReverseConnectToClient
PROPERTY BootstrapRaceRefined
PROPERTY QueuedSendsLeaveQueue

\* The process idles once the bounded environment has no more to do.
CHECK_DEADLOCK FALSE
