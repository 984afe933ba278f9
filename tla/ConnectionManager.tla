-------------------------- MODULE ConnectionManager --------------------------
(***************************************************************************)
(* The connection-management state machine of quic-p2p, seen from one      *)
(* process (the Context): the table of connection records keyed by peer   *)
(* address, the connect path (src/src/connect.rs), the listen path         *)
(* (src/src/listener.rs), the bootstrap group that races candidate         *)
(* attempts, the buffers of sends and reads held before a record is ready, *)
(* the one-shot slot for our external address, and the events given to    *)
(* the host.                                                               *)
(*                                                                         *)
(* Everything outside the process is environment: a QUIC handshake in      *)
(* flight may succeed or fail, a connection driver may fail, remote peers  *)
(* may dial us and write messages.  Every handler runs to completion on    *)
(* the single event-loop thread (ctx_mut never suspends), so each handler  *)
(* is one atomic action.  A panic in a handler kills the event loop:       *)
(* panicked names the panic, and nothing is enabled afterwards.            *)
(*                                                                         *)
(* Data is abstracted: certificates are not modelled (the peer is its      *)
(* address), user messages are numbers, and the wire messages that matter  *)
(* are the two handshakes, the echo request and the echo response.         *)
(***************************************************************************)
EXTENDS Naturals, Sequences, SequencesExt, FiniteSets, CachePolicy

CONSTANTS
    Peers,            \* remote socket addresses (model values)
    NoPeer,           \* the peer of an attempt slot not used yet
    OurType,          \* "Node" or "Client", fixed at start
    BootCands,        \* sequence of peers that bootstrap() dials, in cache order
    MaxCalls,         \* bound on calls of connect_to
    MaxSends,         \* bound on user messages the host submits with send()
    MaxReads,         \* bound on user messages each remote writes to us
    MaxInbound,       \* bound on inbound QUIC connections per peer
    MaxEchoReqs,      \* bound on endpoint-echo requests the host asks for
    HsNode, HsClient, \* WireMsg::Handshake(Node{..}) and Handshake(Client)
    EchoReq, EchoResp,\* WireMsg::EndpointEchoReq and EndpointEchoResp
    NoMsg,            \* send_after_connect = None
    StrictTerminator, \* TRUE: an attempt whose terminator senders are all
                      \* dropped can no longer complete (see Abandon)
    HostDisconnects   \* the host may call disconnect_from

ASSUME OurType \in {"Node", "Client"}
ASSUME BootCands \in Seq(Peers) /\ NoPeer \notin Peers
ASSUME {MaxCalls, MaxSends, MaxReads, MaxInbound, MaxEchoReqs} \subseteq Nat
ASSUME StrictTerminator \in BOOLEAN /\ HostDisconnects \in BOOLEAN

AttIds     == 1..MaxCalls           \* one slot per connect_to call
UserMsgs   == 1..MaxSends           \* WireMsg::UserMsg we send
RemoteMsgs == 1..MaxReads           \* WireMsg::UserMsg a remote sends
ToStates   == {"NoConnection", "Initiated", "Established"}
FromStates == {"NoConnection", "NotNeeded", "Established"}
OutMsgs    == {HsNode, HsClient, EchoReq} \cup UserMsgs
InMsgs     == {EchoResp} \cup RemoteMsgs
EventKinds == {"ConnectedTo", "BootstrappedTo", "NewMessage"}

VARIABLES
    conns,      \* Context.connections: the records, a function on the peers that have one
    att,        \* per connect_to call: the handshake leaf it spawned and what it wrote
    nCalls,     \* connect_to calls made
    group,      \* the bootstrap group: stored terminators, finished flag
    boot,       \* candidates bootstrap() has still to dial in its (atomic) loop
    booted,     \* bootstrap() has been called
    inq,        \* per peer: messages in flight to our read loop for that peer
    rsent,      \* per peer: user messages the remote has written so far
    echoDue,    \* per peer: echo requests written to it and not yet answered
    nEcho,      \* echo requests the host has asked for
    inDrivers,  \* per peer: the inbound connections (numbered) whose drivers still run
    nIn,        \* per peer: inbound connections accepted
    extAddr,    \* Context.our_ext_addr_tx: "Waiting" (sender present), "Known", "Lost"
    echoSeen,   \* an EndpointEchoResp has been dispatched
    cache,      \* Context.bootstrap_cache
    events,     \* the event channel to the host, in send order
    nSub,       \* user messages submitted with send()
    dropped,    \* user messages discarded with their record before being written
    nLife,      \* records created so far (names record lifetimes)
    panicked    \* "No", or the panic the event-loop thread died of

connVars  == <<conns, nLife>>
attVars   == <<att, nCalls, group>>
netVars   == <<inq, rsent, echoDue, nEcho, inDrivers, nIn>>
hostVars  == <<boot, booted, nSub, dropped>>
outVars   == <<extAddr, echoSeen, cache, events, panicked>>
vars      == <<connVars, attVars, netVars, hostVars, outVars>>

-----------------------------------------------------------------------------
(* Records and helpers                                                     *)

\* Connection::new: both halves NoConnection, no buffered data.
NewConnection(weContacted, grp, life) ==
    [to |-> "NoConnection", from |-> "NoConnection", grp |-> grp,
     we |-> weContacted, att |-> 0, in |-> 0, sends |-> <<>>, reads |-> <<>>, life |-> life]

Connection == [to : ToStates, from : FromStates, grp : BOOLEAN, we : BOOLEAN,
               att : 0..MaxCalls, in : 0..MaxInbound, sends : Seq(OutMsgs), reads : Seq(InMsgs),
               life : Nat]

Event == [ev : EventKinds, peer : Peers, life : Nat, msg : 0..MaxReads, we : BOOLEAN]

\* The peer-connected event of a record that becomes ready: BootstrappedTo
\* when it still holds a bootstrap group ref, ConnectedTo otherwise.
SuccessEvent(p, rec) ==
    [ev |-> IF rec.grp THEN "BootstrappedTo" ELSE "ConnectedTo",
     peer |-> p, life |-> rec.life, msg |-> 0, we |-> rec.we]

NewMessage(p, rec, m) ==
    [ev |-> "NewMessage", peer |-> p, life |-> rec.life, msg |-> m, we |-> rec.we]

IsRemoteMsg(m) == m \in RemoteMsgs

\* A handshake leaf whose terminator some owner still holds: the record whose
\* ToPeer::Initiated it created, or the bootstrap group it registered with.
Held(a) ==
    \/ a \in group.members
    \/ \E p \in DOMAIN conns : conns[p].to = "Initiated" /\ conns[p].att = a

\* A read loop runs for p: on the inbound connection, or (for a Client) on
\* the incoming streams of our own connection once it is established.
Reading(p) ==
    /\ p \in DOMAIN conns
    /\ \/ conns[p].from = "Established"
       \/ conns[p].from = "NotNeeded" /\ conns[p].to = "Established"

\* BootstrapGroupRef::terminate_group(true) called for peer p: fire every
\* stored terminator but p's, mark the group finished.
Terminated(atts, p) ==
    [x \in AttIds |-> IF x \in group.members /\ atts[x].peer # p
                      THEN [atts[x] EXCEPT !.fired = TRUE] ELSE atts[x]]

\* Mutant: a failed outbound attempt resets only the outbound half.
RemoveConnectionOutboundOnly(p) ==
    /\ conns' = IF p \in DOMAIN conns
                THEN [conns EXCEPT ![p].to = "NoConnection", ![p].att = 0, ![p].sends = <<>>]
                ELSE conns
    /\ dropped' = dropped \cup
         (IF p \in DOMAIN conns THEN ToSet(conns[p].sends) \cap UserMsgs ELSE {})
    /\ inq' = inq
    /\ echoDue' = echoDue

\* Removing p's record drops both halves, both buffers and the read loop.
RemoveConnection(p) ==
    /\ conns' = [q \in DOMAIN conns \ {p} |-> conns[q]]
    /\ dropped' = dropped \cup
         (IF p \in DOMAIN conns THEN ToSet(conns[p].sends) \cap UserMsgs ELSE {})
    /\ inq' = [inq EXCEPT ![p] = <<>>]
    /\ echoDue' = [echoDue EXCEPT ![p] = 0]

Running == panicked = "No" /\ boot = <<>>

-----------------------------------------------------------------------------
Init ==
    /\ conns = [p \in {} |-> NewConnection(FALSE, FALSE, 0)]
    /\ att = [a \in AttIds |-> [peer |-> NoPeer, st |-> "none", fired |-> FALSE, wrote |-> <<>>]]
    /\ nCalls = 0
    /\ group = [members |-> {}, finished |-> FALSE]
    /\ boot = <<>>
    /\ booted = FALSE
    /\ inq = [p \in Peers |-> <<>>]
    /\ rsent = [p \in Peers |-> 0]
    /\ echoDue = [p \in Peers |-> 0]
    /\ nEcho = 0
    /\ inDrivers = [p \in Peers |-> {}]
    /\ nIn = [p \in Peers |-> 0]
    /\ extAddr = "Waiting"
    /\ echoSeen = FALSE
    /\ cache = BootCands   \* read from disk at start
    /\ events = <<>>
    /\ nSub = 0
    /\ dropped = {}
    /\ nLife = 0
    /\ panicked = "No"

-----------------------------------------------------------------------------
(* Connect path: connect_to (connect.rs 25-113)                            *)
(*   certOk  - peer_config::new_client_cfg accepts the certificate         *)
(*   quicOk  - quic_ep().connect_with returns the handshake future         *)
(*   sac     - send_after_connect (NoMsg, EchoReq or a user message)     *)
(*   viaGroup- a bootstrap group maker was passed                          *)
(* The step leaves boot alone; callers say what happens to it.             *)

ConnectTo(p, certOk, quicOk, sac, viaGroup) ==
  LET a     == nCalls + 1
      isNew == p \notin DOMAIN conns
      rec0  == IF isNew THEN NewConnection(TRUE, FALSE, nLife + 1) ELSE conns[p]
      joins == viaGroup /\ ~rec0.grp
      rec1  == [rec0 EXCEPT !.to = "Initiated", !.att = a, !.grp = @ \/ viaGroup,
                            !.from = IF OurType = "Client" THEN "NotNeeded" ELSE @,
                            !.sends = IF sac = NoMsg THEN <<>> ELSE <<sac>>]
  IN
  /\ nCalls < MaxCalls
  /\ nCalls' = a
  /\ UNCHANGED <<rsent, inDrivers, nIn, extAddr, echoSeen, cache, events>>
  /\ \/ \* new_client_cfg failed: handle_connect_err removes any record of p
        /\ ~certOk
        /\ RemoveConnection(p)
        /\ UNCHANGED <<att, group, nLife, panicked>>
     \/ \* DuplicateConnectionToPeer: nothing changes
        /\ certOk
        /\ rec0.to # "NoConnection"
        /\ UNCHANGED <<conns, dropped, inq, echoDue, att, group, nLife, panicked>>
     \/ \* to_peer is NoConnection. A Client first sets from_peer NotNeeded,
        \* and panics ("Logic Error") if an inbound half exists; then
        \* to_peer := Initiated, and connect_with either spawns the leaf or
        \* fails, and handle_connect_err removes the record again.
        /\ certOk
        /\ rec0.to = "NoConnection"
        /\ IF OurType = "Client" /\ rec0.from # "NoConnection"
             THEN /\ panicked' = "ReverseToClient"
                  /\ UNCHANGED <<conns, dropped, inq, echoDue, att, group, nLife>>
             ELSE /\ group' = IF joins THEN [group EXCEPT !.members = @ \cup {a}] ELSE group
                  /\ UNCHANGED panicked
                  /\ \/ /\ quicOk
                        /\ conns' = (p :> rec1) @@ conns
                        /\ att' = [att EXCEPT ![a] = [peer |-> p, st |-> "pending",
                                                      fired |-> FALSE, wrote |-> <<>>]]
                        /\ nLife' = IF isNew THEN nLife + 1 ELSE nLife
                        /\ UNCHANGED <<dropped, inq, echoDue>>
                     \/ /\ ~quicOk
                        /\ conns' = [q \in DOMAIN conns \ {p} |-> conns[q]]
                        /\ dropped' = dropped \cup ({sac} \cap UserMsgs)
                        /\ inq' = [inq EXCEPT ![p] = <<>>]
                        /\ echoDue' = [echoDue EXCEPT ![p] = 0]
                        /\ UNCHANGED <<att, nLife>>

\* The host calls connect_to (directly, or with an echo request queued).
HostConnect(p) ==
    /\ Running
    /\ \E certOk, quicOk \in BOOLEAN, sac \in {NoMsg, EchoReq} :
          /\ sac = EchoReq => nEcho < MaxEchoReqs /\ extAddr = "Waiting"
          /\ nEcho' = IF sac = EchoReq THEN nEcho + 1 ELSE nEcho
          /\ ConnectTo(p, certOk, quicOk, sac, FALSE)
    /\ UNCHANGED <<boot, booted, nSub>>

-----------------------------------------------------------------------------
(* The handshake leaf of attempt a (connect.rs 82-99): the terminator      *)
(* stream is polled before the handshake future, so once a terminator has  *)
(* fired, or its last sender is gone, the handshake can no longer win.     *)

\* Mutant: the handshake future polled before the terminator.
LeafMayCompleteUnordered(a) ==
    /\ att[a].st = "pending"
    /\ StrictTerminator => Held(a)

LeafMayComplete(a) ==
    /\ att[a].st = "pending"
    /\ ~att[a].fired
    /\ StrictTerminator => Held(a)

\* Mutant: the pending sends written before the handshake.
FlushedBeforeHandshake(hs, sends) == sends \o hs

\* Mutant: the pending sends forgotten instead of written.
FlushedNone(hs, sends) == hs

\* What the new connection carries: the handshake of the FromPeer arm, then
\* every pending send in FIFO order (connect.rs 180-196, 247-249).
Flushed(hs, sends) == hs \o sends

\* The user messages of pending_reads.drain(..), in buffer order
\* (connect.rs 233-243).
Drained(reads) == SelectSeq(reads, IsRemoteMsg)

\* The FromPeer::Established arm sends the connected event, then drains
\* pending_reads through dispatch_wire_msg (connect.rs 216-243).
ReadyEvents(ev, msgs) == ev \o msgs

\* handle_new_connection_res, Ok arm (connect.rs 126-259): spawn the driver,
\* then, if the record is still there, complete the application handshake.
HandshakeOk(a) ==
  LET p   == att[a].peer
      rec == conns[p]
      \* which FromPeer arm runs, and whether it fires the connected event
      fires   == rec.from \in {"NotNeeded", "Established"}
      hs      == CASE rec.from = "NoConnection" -> <<HsNode>>
                   [] rec.from = "NotNeeded"    -> <<HsClient>>
                   [] OTHER                     -> <<>>
      drained == IF rec.from = "Established" THEN rec.reads ELSE <<>>
      ev      == IF fires THEN <<SuccessEvent(p, rec)>> ELSE <<>>
      msgs    == [i \in 1..Len(Drained(drained)) |-> NewMessage(p, rec, Drained(drained)[i])]
      wrote   == Flushed(hs, rec.sends)
      live    == [att EXCEPT ![a].st = "live", ![a].wrote = wrote]
  IN
  /\ Running
  /\ LeafMayComplete(a)
  /\ UNCHANGED <<nCalls, inq, rsent, nEcho, inDrivers, nIn, hostVars>>
  /\ \/ \* "a peer we are no longer interested in": only the driver runs
        /\ p \notin DOMAIN conns
        /\ att' = [att EXCEPT ![a].st = "live"]
        /\ UNCHANGED <<connVars, group, echoDue, outVars>>
     \/ \* unreachable!(...) on a ToPeer that is not Initiated
        /\ p \in DOMAIN conns
        /\ rec.to # "Initiated"
        /\ att' = [att EXCEPT ![a].st = "live"]
        /\ panicked' = "Unreachable"
        /\ UNCHANGED <<connVars, group, echoDue, extAddr, echoSeen, cache, events>>
     \/ /\ p \in DOMAIN conns
        /\ rec.to = "Initiated"
        /\ conns' = [conns EXCEPT ![p] = [@ EXCEPT !.to = "Established", !.att = a,
                        !.sends = <<>>, !.reads = <<>>, !.grp = @ /\ ~fires]]
        /\ cache' = IF rec.we THEN AddPeer(cache, p) ELSE cache
        /\ att' = IF fires /\ rec.grp THEN Terminated(live, p) ELSE live
        /\ group' = IF fires /\ rec.grp THEN [group EXCEPT !.finished = TRUE] ELSE group
        /\ events' = events \o ReadyEvents(ev, msgs)
        \* every drained message is dispatched with our_ext_addr_tx.take():
        \* the first one takes the sender, whatever kind of message it is
        /\ extAddr' = IF drained # <<>> /\ extAddr = "Waiting"
                      THEN IF Head(drained) = EchoResp THEN "Known" ELSE "Lost"
                      ELSE extAddr
        /\ echoSeen' = (echoSeen \/ EchoResp \in ToSet(drained))
        /\ echoDue' = [echoDue EXCEPT ![p] = @ + Len(SelectSeq(wrote, LAMBDA m : m = EchoReq))]
        /\ UNCHANGED <<nLife, panicked>>

\* handle_new_connection_res, Err arm (connect.rs 130): handle_connect_err.
HandshakeFail(a) ==
    /\ Running
    /\ LeafMayComplete(a)
    /\ att' = [att EXCEPT ![a].st = "closed"]
    /\ group' = [group EXCEPT !.members = @ \ {a}]
    /\ RemoveConnection(att[a].peer)
    /\ UNCHANGED <<nCalls, nLife, rsent, nEcho, inDrivers, nIn, boot, booted, nSub, outVars>>

\* The terminator fired first (connect.rs 82-89): ConnectionCancelled.
Cancelled(a) ==
    /\ Running
    /\ att[a].st = "pending" /\ att[a].fired
    /\ att' = [att EXCEPT ![a].st = "closed"]
    /\ group' = [group EXCEPT !.members = @ \ {a}]
    /\ RemoveConnection(att[a].peer)
    /\ UNCHANGED <<nCalls, nLife, rsent, nEcho, inDrivers, nIn, boot, booted, nSub, outVars>>

\* Every sender of the terminator is gone (its Initiated record replaced or
\* removed, and no group stores it): the terminator stream ends, for_each
\* resolves Ok, select drops the handshake (connect.rs 82-97). No handler runs.
Abandon(a) ==
    /\ Running
    /\ att[a].st = "pending" /\ ~att[a].fired
    /\ ~Held(a)
    /\ att' = [att EXCEPT ![a].st = "closed"]
    /\ UNCHANGED <<connVars, nCalls, group, netVars, hostVars, outVars>>

\* The driver of an established outbound connection fails (connect.rs
\* 132-134): handle_connect_err removes whatever record p has now.
DriverFail(a) ==
    /\ Running
    /\ att[a].st = "live"
    /\ att' = [att EXCEPT ![a].st = "closed"]
    /\ RemoveConnection(att[a].peer)
    /\ UNCHANGED <<nCalls, group, nLife, rsent, nEcho, inDrivers, nIn, boot, booted, nSub, outVars>>

-----------------------------------------------------------------------------
(* Listen path: handle_new_conn (listener.rs 31-92)                      *)

\* Mutant: the listener fires as soon as an outbound attempt exists.
OutboundReadyOrInitiated(rec) == rec.to \in {"Initiated", "Established"}

\* The listener fires the connected event only if our half is already
\* ToPeer::Established (listener.rs 56-58).
OutboundReady(rec) == rec.to = "Established"

IncomingConn(p) ==
  LET i     == nIn[p] + 1
      isNew == p \notin DOMAIN conns
      rec0  == IF isNew THEN NewConnection(FALSE, FALSE, nLife + 1) ELSE conns[p]
      fires == OutboundReady(rec0)
  IN
  /\ Running
  /\ OurType = "Node"
  /\ nIn[p] < MaxInbound
  /\ nIn' = [nIn EXCEPT ![p] = i]
  \* the driver is spawned before the duplicate check
  /\ inDrivers' = [inDrivers EXCEPT ![p] = @ \cup {i}]
  /\ IF rec0.from = "NoConnection"
       THEN /\ conns' = (p :> [rec0 EXCEPT !.from = "Established", !.in = i,
                                            !.grp = @ /\ ~fires]) @@ conns
            /\ nLife' = IF isNew THEN nLife + 1 ELSE nLife
            /\ events' = IF fires THEN Append(events, SuccessEvent(p, rec0)) ELSE events
            /\ att' = IF fires /\ rec0.grp THEN Terminated(att, p) ELSE att
            /\ group' = IF fires /\ rec0.grp THEN [group EXCEPT !.finished = TRUE] ELSE group
       \* "Not allowing duplicate connection from peer": the new one is dropped
       ELSE UNCHANGED <<connVars, events, att, group>>
  /\ UNCHANGED <<nCalls, inq, rsent, echoDue, nEcho, hostVars, extAddr, echoSeen, cache, panicked>>

\* The driver of inbound connection i of p fails (listener.rs 40-42):
\* utils::handle_communication_err severs whatever record p has now, whether
\* or not connection i is its from_peer half.
InboundDriverFail(p, i) ==
    /\ Running
    /\ i \in inDrivers[p]
    /\ inDrivers' = [inDrivers EXCEPT ![p] = @ \ {i}]
    /\ RemoveConnection(p)
    /\ UNCHANGED <<nLife, attVars, rsent, nEcho, nIn, boot, booted, nSub, outVars>>

-----------------------------------------------------------------------------
(* Communicate: the read loop and dispatch_wire_msg                         *)

\* Read the next message for p: buffer it in pending_reads while our half
\* is not Established, dispatch it otherwise.
ReadMsg(p) ==
  LET m   == Head(inq[p])
      rec == conns[p]
  IN
  /\ Running
  /\ Reading(p)
  /\ inq[p] # <<>>
  /\ inq' = [inq EXCEPT ![p] = Tail(@)]
  /\ IF rec.to # "Established"
       THEN /\ conns' = [conns EXCEPT ![p].reads = Append(@, m)]
            /\ UNCHANGED <<events, extAddr, echoSeen>>
       ELSE /\ events' = IF m \in RemoteMsgs THEN Append(events, NewMessage(p, rec, m)) ELSE events
            /\ echoSeen' = (echoSeen \/ m = EchoResp)
            /\ extAddr' = IF m = EchoResp /\ extAddr = "Waiting" THEN "Known" ELSE extAddr
            /\ UNCHANGED conns
  /\ UNCHANGED <<nLife, attVars, rsent, echoDue, nEcho, inDrivers, nIn, hostVars, cache, panicked>>

\* The remote writes its next user message to us.
RemoteWrite(p) ==
    /\ Running
    /\ Reading(p)
    /\ rsent[p] < MaxReads
    /\ rsent' = [rsent EXCEPT ![p] = @ + 1]
    /\ inq' = [inq EXCEPT ![p] = Append(@, rsent[p] + 1)]
    /\ UNCHANGED <<connVars, attVars, echoDue, nEcho, inDrivers, nIn, hostVars, outVars>>

\* The remote answers an echo request with EndpointEchoResp.
RemoteEchoResp(p) ==
    /\ Running
    /\ Reading(p)
    /\ echoDue[p] > 0
    /\ echoDue' = [echoDue EXCEPT ![p] = @ - 1]
    /\ inq' = [inq EXCEPT ![p] = Append(@, EchoResp)]
    /\ UNCHANGED <<connVars, attVars, rsent, nEcho, inDrivers, nIn, hostVars, outVars>>

-----------------------------------------------------------------------------
(* Host API: send, bootstrap and disconnect_from                           *)

\* QuicP2p::send of user message nSub+1: queue it while the outbound half is
\* Initiated, write it when Established, otherwise dial with it queued.
Send(p) ==
  LET n == nSub + 1 IN
  /\ Running
  /\ nSub < MaxSends
  /\ nSub' = n
  /\ \/ /\ p \in DOMAIN conns /\ conns[p].to = "Initiated"
        /\ conns' = [conns EXCEPT ![p].sends = Append(@, n)]
        /\ UNCHANGED <<nLife, attVars, netVars, boot, booted, dropped, outVars>>
     \/ /\ p \in DOMAIN conns /\ conns[p].to = "Established"
        /\ att' = [att EXCEPT ![conns[p].att].wrote = Append(@, n)]
        /\ UNCHANGED <<connVars, nCalls, group, netVars, boot, booted, dropped, outVars>>
     \/ /\ IF p \in DOMAIN conns THEN conns[p].to = "NoConnection" ELSE TRUE
        /\ \E quicOk \in BOOLEAN : ConnectTo(p, TRUE, quicOk, n, FALSE)
        /\ UNCHANGED <<nEcho, boot, booted>>

\* QuicP2p::bootstrap: dial every node of the bootstrap cache with one group.
\* The loop runs inside one event-loop task, so no other handler runs until
\* BootstrapStep has dialled every candidate.
Bootstrap ==
    /\ Running
    /\ ~booted
    /\ cache # <<>>
    /\ nCalls + Len(cache) <= MaxCalls
    /\ booted' = TRUE
    /\ boot' = cache
    /\ group' = [members |-> {}, finished |-> FALSE]
    /\ UNCHANGED <<connVars, att, nCalls, netVars, nSub, dropped, outVars>>

BootstrapStep ==
    /\ panicked = "No"
    /\ boot # <<>>
    /\ boot' = Tail(boot)
    /\ \E quicOk \in BOOLEAN : ConnectTo(Head(boot), TRUE, quicOk, NoMsg, TRUE)
    /\ UNCHANGED <<nEcho, booted, nSub>>

\* QuicP2p::disconnect_from: the record is removed, which drops both
\* halves, their buffers and the read loop.
HostDisconnect(p) ==
    /\ HostDisconnects
    /\ Running
    /\ p \in DOMAIN conns
    /\ RemoveConnection(p)
    /\ UNCHANGED <<nLife, attVars, rsent, nEcho, inDrivers, nIn, hostVars, outVars>>

-----------------------------------------------------------------------------
Next ==
    \/ Bootstrap
    \/ BootstrapStep
    \/ \E p \in Peers :
          \/ HostConnect(p)
          \/ HostDisconnect(p)
          \/ Send(p)
          \/ IncomingConn(p)
          \/ \E i \in 1..MaxInbound : InboundDriverFail(p, i)
          \/ ReadMsg(p)
          \/ RemoteWrite(p)
          \/ RemoteEchoResp(p)
    \/ \E a \in AttIds :
          \/ HandshakeOk(a)
          \/ HandshakeFail(a)
          \/ Cancelled(a)
          \/ Abandon(a)
          \/ DriverFail(a)

\* Every handshake leaf resolves: QUIC gives up on an unanswered handshake
\* after its idle timeout, and a fired or dropped terminator is seen on the
\* next poll. The bootstrap loop runs to its end once started.
Fairness ==
    /\ \A a \in AttIds :
          WF_vars(HandshakeOk(a) \/ HandshakeFail(a) \/ Cancelled(a) \/ Abandon(a))
    /\ WF_vars(BootstrapStep)

Spec == Init /\ [][Next]_vars /\ Fairness

-----------------------------------------------------------------------------
(* Properties                                                              *)

TypeOK ==
    /\ DOMAIN conns \subseteq Peers
    /\ \A p \in DOMAIN conns : conns[p] \in Connection
    /\ att \in [AttIds -> [peer : Peers \cup {NoPeer}, st : {"none", "pending", "live", "closed"},
                           fired : BOOLEAN, wrote : Seq(OutMsgs)]]
    /\ nCalls \in 0..MaxCalls
    /\ group \in [members : SUBSET AttIds, finished : BOOLEAN]
    /\ boot \in Seq(Peers) /\ booted \in BOOLEAN
    /\ inq \in [Peers -> Seq(InMsgs)]
    /\ rsent \in [Peers -> 0..MaxReads] /\ echoDue \in [Peers -> Nat]
    /\ nEcho \in 0..MaxEchoReqs
    /\ inDrivers \in [Peers -> SUBSET (1..MaxInbound)] /\ nIn \in [Peers -> 0..MaxInbound]
    /\ extAddr \in {"Waiting", "Known", "Lost"} /\ echoSeen \in BOOLEAN
    /\ cache \in Seq(Peers) /\ Len(cache) <= CacheCap /\ IsInjective(cache)
    /\ events \in Seq(Event)
    /\ nSub \in 0..MaxSends /\ dropped \subseteq UserMsgs
    /\ nLife \in Nat /\ panicked \in {"No", "ReverseToClient", "Unreachable"}

\* Section 5: per-session send order is FIFO. On every outbound connection
\* the application handshake, when written, is written first, and user
\* messages follow in the order send() submitted them, whether they were
\* queued in pending_sends (connect.rs 247-249) or written directly.
SendsInSubmitOrder ==
    \A a \in AttIds :
        LET w == att[a].wrote IN
        \A i, j \in 1..Len(w) :
            /\ w[i] \in {HsNode, HsClient} => i = 1
            /\ i < j /\ w[i] \in UserMsgs /\ w[j] \in UserMsgs => w[i] < w[j]

\* Spec scenario 5: one bootstrap() yields exactly one BootstrappedTo; the
\* winner's terminate_group(true) cancels every other candidate.
BootstrappedAtMostOnce ==
    Cardinality({i \in 1..Len(events) : events[i].ev = "BootstrappedTo"}) <= 1

\* Spec invariant 2: BootstrappedTo is emitted only for a record this side
\* created (we_contacted_peer).
BootstrappedOnlyToContacted ==
    \A i \in 1..Len(events) :
        events[i].ev = "BootstrappedTo" => events[i].we

\* The unreachable!() of connect.rs 165 and the panic of connect.rs 58 are
\* never reached: the event loop never panics.
NoLogicPanic == panicked = "No"

\* Spec section 9 leaves open whether a Client can ever reach the panic of
\* connect.rs 58, "cannot expect Network to reverse connect to a client":
\* connect_to finding a record with no outbound half but an inbound (or
\* NotNeeded) one. A Client accepts no inbound connection and every failure
\* removes the whole record (handle_connect_err, connect.rs 273), so over
\* any sequence of dials, bootstraps, sends, failures and cancellations
\* the panic is never reached.
NoReverseConnectToClient == panicked # "ReverseToClient"

\* Spec 4.6: an EndpointEchoResp delivers the address into the one-shot
\* slot if it is still empty; so once one has been dispatched, our external
\* address is known and the sender was not thrown away on another message.
EchoRespLearnsAddress ==
    echoSeen => extAddr = "Known"

\* The session whose failure ends a step: an inbound connection whose
\* driver stops, or an outbound attempt that resolves or whose driver stops.
StoppedInbound(p) == inDrivers[p] \ inDrivers'[p]
StoppedAttempts   == {a \in AttIds : att[a].st \in {"pending", "live"} /\ att'[a].st = "closed"}

\* Spec 4.3 step 4 and 4.7: a failing session severs its own record; a
\* duplicate inbound is dropped silently, and an outbound session that no
\* longer backs the record is no longer its session. So when a record
\* disappears in a step in which a session stops, the stopped session is
\* the record's from_peer connection or the attempt that made its to_peer.
\* Both handle_connect_err (connect.rs 262-283) and the driver spawned at
\* listener.rs 40 remove the record by address alone.
SeveredOnlyByOwnSession ==
    [][\A p \in DOMAIN conns \ DOMAIN conns' :
          /\ \A i \in StoppedInbound(p) : conns[p].in = i
          /\ \A a \in StoppedAttempts : att[a].peer = p => conns[p].att = a
      ]_vars

Queued(n)  ==\E p \in DOMAIN conns : n \in ToSet(conns[p].sends)
Written(n) == \E a \in AttIds : n \in ToSet(att[a].wrote)

\* Section 5 / invariant 5: a user message queued in pending_sends is, in
\* the end, written to a connection, or discarded with its record; it never
\* stays queued while the attempt it waits for resolves.
QueuedSendsLeaveQueue ==
    \A n \in UserMsgs :
        Queued(n) ~> (Written(n) \/ n \in dropped \/ panicked # "No")


-----------------------------------------------------------------------------
(* Refinement: the record table implements the per-peer sessions of       *)
(* PeerSessions. A record is a ready session when its to_peer is          *)
(* Established and its from_peer is Established or NotNeeded; the record  *)
(* lifetime names the session.                                             *)

SessionStatus ==
    [p \in Peers |->
        IF p \notin DOMAIN conns THEN "Absent"
        ELSE IF conns[p].to = "Established" /\ conns[p].from # "NoConnection"
             THEN "Ready" ELSE "HalfOpen"]

SessionLife == [p \in Peers |-> IF p \in DOMAIN conns THEN conns[p].life ELSE 0]

Sessions == INSTANCE PeerSessions WITH status <- SessionStatus, life <- SessionLife

\* Spec sections 4.3-4.4 and 5: the connected event of a record is given
\* exactly when its second half arrives, whichever path (listener.rs 56-79
\* or connect.rs 197-243) sees it arrive, names the record alive at that
\* moment, and messages are given only for the ready record of that peer,
\* in write order. Checked as: ConnectionManager refines PeerSessions.
SessionsRefined == Sessions!Spec


(* Refinement: the bootstrap group of a Client implements the one-shot     *)
(* race of BootstrapRace. A candidate races while its attempt is a group   *)
(* member still pending; the winners are the peers of BootstrappedTo      *)
(* events.                                                                 *)

RaceRacing == {att[a].peer : a \in {x \in group.members : att[x].st = "pending"}}

RaceWon == {events[i].peer : i \in {j \in 1..Len(events) : events[j].ev = "BootstrappedTo"}}

Race == INSTANCE BootstrapRace WITH Cands <- Peers, racing <- RaceRacing, won <- RaceWon

\* Spec 4.5 and 9: bootstrap() is a one-shot barrier. The first candidate
\* whose record becomes ready wins (connect.rs 197-208 take the group ref
\* and call terminate_group), every other candidate still racing is
\* cancelled through its terminator (connect.rs 82-89), none wins after
\* the winner, and the race always ends: every attempt in it resolves.
BootstrapRaceRefined == Race!Spec

=============================================================================
