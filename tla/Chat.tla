--------------------------------- MODULE Chat ---------------------------------
(***************************************************************************)
(* The chat example (src/examples/chat.rs): a host of quic-p2p with two    *)
(* threads sharing a PeerList behind a Mutex.  The main thread runs the    *)
(* command loop; every command holds the lock for its whole body, so a     *)
(* command is one atomic step.  The event thread drains the std::mpsc      *)
(* channel that quic-p2p sends its events into, and inserts a peer on      *)
(* ConnectedTo under the same lock.  On quit the main thread drops the     *)
(* QuicP2p, which drops the event sender, and joins the event thread.      *)
(*                                                                         *)
(* Data is abstracted: a peer is a model value, an index typed by the user *)
(* is a small number, a message is only whether its bytes are valid UTF-8 *)
(* and whether it is longer than 512 bytes.                                *)
(***************************************************************************)
EXTENDS Naturals, Sequences, SequencesExt

CONSTANTS
    PeerIds,      \* the Peer values events and addpeer can name
    NoPeer,       \* no expectation about a send's target
    MaxEvents,    \* bound on events quic-p2p emits
    MaxCmds,      \* bound on commands the user types
    MaxIdx,       \* largest index the user types
    RandomSends   \* remote chats may use sendrand, whose bytes are random

ASSUME NoPeer \notin PeerIds /\ RandomSends \in BOOLEAN
ASSUME {MaxEvents, MaxCmds, MaxIdx} \subseteq Nat

\* What quic-p2p puts on the channel. Remote chats send text with "send"
\* (valid UTF-8) or random bytes with "sendrand" (valid or not).
Events ==
    [ev : {"ConnectedTo"}, peer : PeerIds, utf8 : {TRUE}, big : {FALSE}]
    \cup [ev : {"NewMessage"}, peer : {NoPeer}, utf8 : IF RandomSends THEN BOOLEAN ELSE {TRUE},
          big : BOOLEAN]
    \cup [ev : {"Other"}, peer : {NoPeer}, utf8 : {TRUE}, big : {FALSE}]

VARIABLES
    peers,     \* PeerList.peers
    evq,       \* the event channel, oldest first
    nEv,       \* events quic-p2p has emitted
    evThread,  \* the event thread: "Running", "Panicked" or "Done"
    main,      \* the main thread: "Repl", "Joining", "Exited" or "Panicked"
    qp2p,      \* the QuicP2p (and with it the event sender) is alive
    nCmd,      \* commands typed
    shown,     \* the list the user last saw with listpeers
    fresh,     \* no delpeer since that listing
    sent       \* per send: the peer it went to and the one listed at its index

vars == <<peers, evq, nEv, evThread, main, qp2p, nCmd, shown, fresh, sent>>

Init ==
    /\ peers = <<>>
    /\ evq = <<>>
    /\ nEv = 0
    /\ evThread = "Running"
    /\ main = "Repl"
    /\ qp2p = TRUE
    /\ nCmd = 0
    /\ shown = <<>>
    /\ fresh = FALSE
    /\ sent = <<>>

-----------------------------------------------------------------------------
(* PeerList (chat.rs 30-68); indices are 0-based as in the code.           *)

\* Mutant: a new peer put in front of the list.
InsertFront(l, p) == IF p \in ToSet(l) THEN l ELSE <<p>> \o l

\* Mutant: the contains check dropped.
InsertNoDedup(l, p) == Append(l, p)

\* PeerList::insert: append unless already present.
Insert(l, p) == IF p \in ToSet(l) THEN l ELSE Append(l, p)

\* PeerList::remove: Vec::remove shifts the later peers down.
RemoveIdx(l, idx) == RemoveAt(l, idx + 1)

\* PeerList::get for an index below the length (callers check it).
Get(l, idx) == l[idx + 1]

-----------------------------------------------------------------------------
(* The main thread's command loop (chat.rs 96-138)                         *)

Command(body) ==
    /\ main = "Repl"
    /\ nCmd < MaxCmds
    /\ nCmd' = nCmd + 1
    /\ body
    /\ UNCHANGED <<evq, nEv, evThread, main, qp2p>>

\* addpeer <json>: insert_from_json, which inserts nothing on a parse error.
AddPeer(p, jsonOk) ==
    Command(/\ peers' = IF jsonOk THEN Insert(peers, p) ELSE peers
            /\ UNCHANGED <<shown, fresh, sent>>)

\* listpeers: the user sees the list as it is under the lock.
ListPeers ==
    Command(/\ shown' = peers /\ fresh' = TRUE
            /\ UNCHANGED <<peers, sent>>)

\* delpeer <idx>: "Index out of bounds" leaves the list alone.
DelPeer(idx) ==
    Command(/\ IF idx < Len(peers)
                 THEN peers' = RemoveIdx(peers, idx) /\ fresh' = FALSE
                 ELSE UNCHANGED <<peers, fresh>>
            /\ UNCHANGED <<shown, sent>>)

\* send <idx> <text> and sendrand <idx> <n>: on_cmd_send(_rand) look the
\* peer up with PeerList::get and call qp2p.send; out of bounds is an error.
Send(idx) ==
    Command(/\ idx < Len(peers)
            /\ sent' = Append(sent, [to |-> Get(peers, idx),
                                     want |-> IF fresh /\ idx < Len(shown)
                                              THEN shown[idx + 1] ELSE NoPeer])
            /\ UNCHANGED <<peers, shown, fresh>>)

\* ourinfo, help, an unknown command, a blank line or a readline error:
\* something is printed and the loop goes on.
OtherInput ==
    Command(UNCHANGED <<peers, shown, fresh, sent>>)

\* Mutant: the join placed before drop(qp2p).
QuitKeepingQp2p ==
    /\ main = "Repl"
    /\ main' = "Joining"
    /\ UNCHANGED <<qp2p, peers, evq, nEv, evThread, nCmd, shown, fresh, sent>>

\* quit, exit, end of input: leave the loop, drop(qp2p).
Quit ==
    /\ main = "Repl"
    /\ main' = "Joining"
    /\ qp2p' = FALSE
    /\ UNCHANGED <<peers, evq, nEv, evThread, nCmd, shown, fresh, sent>>

\* rx_thread.join().unwrap(): panics if the event thread panicked.
Join ==
    /\ main = "Joining"
    /\ evThread # "Running"
    /\ main' = IF evThread = "Panicked" THEN "Panicked" ELSE "Exited"
    /\ UNCHANGED <<peers, evq, nEv, evThread, qp2p, nCmd, shown, fresh, sent>>

-----------------------------------------------------------------------------
(* quic-p2p emits an event: event_tx.send fails (and is only logged) once  *)
(* the event thread, which owns the receiver, is gone.                     *)

Emit(e) ==
    /\ qp2p
    /\ nEv < MaxEvents
    /\ nEv' = nEv + 1
    /\ evq' = IF evThread = "Running" THEN Append(evq, e) ELSE evq
    /\ UNCHANGED <<peers, evThread, main, qp2p, nCmd, shown, fresh, sent>>

(* The event thread, handle_qp2p_events (chat.rs 179-202).                 *)

\* The next event: ConnectedTo inserts its peer under the lock; NewMessage
\* of at most 512 bytes is printed after unwrap!(String::from_utf8(..)).
Consume ==
    LET e == Head(evq) IN
    /\ evThread = "Running"
    /\ evq # <<>>
    /\ evq' = Tail(evq)
    /\ peers' = IF e.ev = "ConnectedTo" THEN Insert(peers, e.peer) ELSE peers
    /\ evThread' = IF e.ev = "NewMessage" /\ ~e.big /\ ~e.utf8 THEN "Panicked" ELSE "Running"
    /\ UNCHANGED <<nEv, main, qp2p, nCmd, shown, fresh, sent>>

\* event_rx.iter() ends once the channel is empty and every sender is gone.
ChannelClosed ==
    /\ evThread = "Running"
    /\ evq = <<>>
    /\ ~qp2p
    /\ evThread' = "Done"
    /\ UNCHANGED <<peers, evq, nEv, main, qp2p, nCmd, shown, fresh, sent>>

-----------------------------------------------------------------------------
Next ==
    \/ \E p \in PeerIds, ok \in BOOLEAN : AddPeer(p, ok)
    \/ ListPeers
    \/ OtherInput
    \/ \E idx \in 0..MaxIdx : DelPeer(idx) \/ Send(idx)
    \/ Quit
    \/ Join
    \/ \E e \in Events : Emit(e)
    \/ Consume
    \/ ChannelClosed

\* Both threads are OS threads: once able to run, each runs.
Spec == Init /\ [][Next]_vars /\ WF_vars(Consume) /\ WF_vars(ChannelClosed) /\ WF_vars(Join)

-----------------------------------------------------------------------------
(* Properties                                                              *)

TypeOK ==
    /\ peers \in Seq(PeerIds) /\ IsInjective(peers)
    /\ evq \in Seq(Events) /\ nEv \in 0..MaxEvents
    /\ evThread \in {"Running", "Panicked", "Done"}
    /\ main \in {"Repl", "Joining", "Exited", "Panicked"}
    /\ qp2p \in BOOLEAN /\ nCmd \in 0..MaxCmds
    /\ shown \in Seq(PeerIds) /\ fresh \in BOOLEAN
    /\ sent \in Seq([to : PeerIds, want : PeerIds \cup {NoPeer}])

\* The user addresses peers by the index listpeers showed. The event thread
\* inserts peers concurrently with the command loop; as long as the user
\* has deleted nothing since the listing, "send <idx>" must reach the peer
\* that was listed at idx, however many ConnectedTo events were handled in
\* between (chat.rs 45-49, 111, 141-154, 186).
SendGoesToListedPeer ==
    \A i \in 1..Len(sent) : sent[i].want # NoPeer => sent[i].to = sent[i].want

\* After quit the program ends cleanly: the dropped QuicP2p closes the
\* channel, the event thread finishes, and join().unwrap() returns
\* (chat.rs 137-138, 184).
QuitExitsCleanly == main = "Joining" ~> main = "Exited"

=============================================================================
