----------------------------- MODULE PeerSessions -----------------------------
(***************************************************************************)
(* What quic-p2p promises its host about the sessions with each peer       *)
(* (spec sections 4.3, 4.4 and 5), with the mechanics left out: a session  *)
(* with a peer is absent, half open (a record exists, not both halves are  *)
(* ready) or ready.  Each record lifetime has a fresh name.  The host's    *)
(* event stream receives exactly one connected event for a lifetime, when  *)
(* it becomes ready, and a peer's messages only while its session is       *)
(* ready, in the order the peer wrote them.  A session may be torn down at *)
(* any time.                                                                *)
(***************************************************************************)
EXTENDS Naturals, Sequences

CONSTANTS Peers

VARIABLES
    status,   \* per peer: "Absent", "HalfOpen" or "Ready"
    life,     \* per peer: the name of the current lifetime, 0 when absent
    events    \* the host's event stream

vars == <<status, life, events>>

IsConnected(e) == e.ev \in {"ConnectedTo", "BootstrappedTo"}

\* Lifetimes of p that events have already named.
LivesOf(p) == {events[i].life : i \in {j \in 1..Len(events) : events[j].peer = p}}

\* Message numbers of p already given to the host.
MsgsOf(p) ==
    {events[i].msg : i \in {j \in 1..Len(events) : events[j].peer = p /\ events[j].ev = "NewMessage"}}

\* ms are messages of p's current lifetime, each newer than every message
\* of p the host has seen, and in increasing order among themselves.
InOrderDelivery(p, ms) ==
    \A i \in 1..Len(ms) :
        /\ ms[i].ev = "NewMessage" /\ ms[i].peer = p /\ ms[i].life = life[p]
        /\ \A k \in MsgsOf(p) : k < ms[i].msg
        /\ \A j \in 1..(i - 1) : ms[j].msg < ms[i].msg

\* The events a step appends to the stream.
Appended == SubSeq(events', Len(events) + 1, Len(events'))

Extends == Len(events') > Len(events) /\ SubSeq(events', 1, Len(events)) = events

Init ==
    /\ status = [p \in Peers |-> "Absent"]
    /\ life = [p \in Peers |-> 0]
    /\ events = <<>>

Open(p) ==
    /\ status[p] = "Absent"
    /\ status' = [status EXCEPT ![p] = "HalfOpen"]
    /\ life'[p] # 0 /\ life'[p] \notin LivesOf(p)
    /\ life' = [life EXCEPT ![p] = life'[p]]
    /\ UNCHANGED events

Close(p) ==
    /\ status[p] # "Absent"
    /\ status' = [status EXCEPT ![p] = "Absent"]
    /\ life' = [life EXCEPT ![p] = 0]
    /\ UNCHANGED events

\* Both halves are ready: the connected event, then whatever the peer wrote
\* while the session was half open.
Ready(p) ==
    /\ status[p] = "HalfOpen"
    /\ status' = [status EXCEPT ![p] = "Ready"]
    /\ UNCHANGED life
    /\ Extends
    /\ IsConnected(Appended[1]) /\ Appended[1].peer = p /\ Appended[1].life = life[p]
    /\ InOrderDelivery(p, Tail(Appended))

Deliver(p) ==
    /\ status[p] = "Ready"
    /\ UNCHANGED <<status, life>>
    /\ Extends /\ Len(Appended) = 1
    /\ InOrderDelivery(p, Appended)

Next == \E p \in Peers : Open(p) \/ Close(p) \/ Ready(p) \/ Deliver(p)

Spec == Init /\ [][Next]_vars

=============================================================================
