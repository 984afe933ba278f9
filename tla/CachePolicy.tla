----------------------------- MODULE CachePolicy ------------------------------
(***************************************************************************)
(* The insertion policy of the bootstrap cache (BootstrapCache::add_peer,  *)
(* spec section 3): an ordered set of nodes of bounded size; re-inserting  *)
(* a node moves it to the back, an insertion past the capacity evicts the  *)
(* front.  AddPeer is what the connect path applies on every outbound      *)
(* handshake we initiated.                                                  *)
(***************************************************************************)
EXTENDS Naturals, Sequences, SequencesExt

CONSTANT CacheCap   \* capacity of the bootstrap cache

ASSUME CacheCap \in Nat \ {0}

\* Mutant: re-insertion appends without removing the old entry.
AddPeerNoDedup(c, p) ==
    LET c1 == c \o <<p>>
    IN  IF Len(c1) > CacheCap THEN Tail(c1) ELSE c1

\* Mutant: eviction only once the cache is two past its capacity.
AddPeerLateEvict(c, p) ==
    LET c1 == SelectSeq(c, LAMBDA q : q # p) \o <<p>>
    IN  IF Len(c1) > CacheCap + 1 THEN Tail(c1) ELSE c1

\* BootstrapCache::add_peer: move to the back, evict from the front.
AddPeer(c, p) ==
    LET c1 == SelectSeq(c, LAMBDA q : q # p) \o <<p>>
    IN  IF Len(c1) > CacheCap THEN Tail(c1) ELSE c1

=============================================================================
