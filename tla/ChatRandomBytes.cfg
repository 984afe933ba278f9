\* A remote chat uses sendrand: a short message may not be valid UTF-8.
CONSTANTS
    n1 = n1
    n2 = n2
    NoPeer = NoPeer
    PeerIds <- TwoPeerIds
    MaxEvents = 1
    MaxCmds = 0
    MaxIdx = 1
    RandomSends = TRUE

SPECIFICATION Spec

PROPERTY QuitExitsCleanly

CHECK_DEADLOCK FALSE
