\* Two peers; remote chats only send text. The user lists, deletes and sends while the event thread inserts peers.
CONSTANTS
    n1 = n1
    n2 = n2
    NoPeer = NoPeer
    PeerIds <- TwoPeerIds
    MaxEvents = 3
    MaxCmds = 4
    MaxIdx = 1
    RandomSends = FALSE

SPECIFICATION Spec

INVARIANT TypeOK
INVARIANT SendGoesToListedPeer
PROPERTY QuitExitsCleanly

CHECK_DEADLOCK FALSE
