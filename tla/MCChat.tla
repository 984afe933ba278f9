------------------------------- MODULE MCChat -------------------------------
(* Instantiation of Chat for TLC: the peers are model values. *)
EXTENDS Chat

CONSTANTS n1, n2

TwoPeerIds == {n1, n2}
=============================================================================
