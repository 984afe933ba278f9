------------------------- MODULE MCConnectionManager -------------------------
(* Instantiation of ConnectionManager for TLC. The peers are model values; *)
(* the on-disk bootstrap cache holds them in the order given here.         *)
EXTENDS ConnectionManager

CONSTANTS p1, p2

OnePeer      == {p1}
OneCand      == <<p1>>
TwoPeers     == {p1, p2}
TwoCands     == <<p1, p2>>
NoCands      == <<>>
=============================================================================
