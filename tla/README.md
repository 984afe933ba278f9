# TLA+ model of quic-p2p connection management

This directory holds TLA+ models of the connection-management core of
quic-p2p, the configs that check them with TLC, and `PROJECT.json`, which
maps every definition to the source lines it models and lists the runs,
mutants, findings and hazards.

Sources: `src/src/connect.rs` (the connect path) and `src/src/listener.rs`
(the listen path) are the only implementation files present. The other
modules they call are not in `src/`: `connection.rs`, `communicate.rs`,
`context.rs`, `utils.rs`, `bootstrap_cache.rs`, `lib.rs`. Where the model
needs their behaviour, it is taken from `spec.md` and marked
`spec_modelled` in the map. `src/examples/chat.rs` is a host application, modelled in `Chat.tla`, and
`src/tests/quic_p2p.rs` holds three integration tests. The spec's scenarios
1 to 3 are those tests.

## 1. Inventory

### Components and their state

| Component | Code | State | Operations |
|---|---|---|---|
| Context | context.rs (absent) | connections table, `our_type`, bootstrap cache, event sender, one-shot `our_ext_addr_tx` | `ctx_mut`: exclusive, non-suspending access |
| Connection record | connection.rs (absent) | `to_peer` (NoConnection / Initiated{terminator, cert, pending_sends} / Established{cert, q_conn}), `from_peer` (NoConnection / NotNeeded / Established{q_conn, pending_reads}), `bootstrap_group_ref`, `we_contacted_peer` | `Connection::new`, removal, Drop |
| Connect path | connect.rs | the record's `to_peer`, one handshake leaf per attempt (terminator racing the QUIC handshake), the outbound connection driver | `connect_to`, `handle_new_connection_res`, `handle_connect_err` |
| Listen path | listener.rs | the record's `from_peer`, the inbound connection driver | `listen`, `handle_new_conn` |
| Bootstrap group | connection.rs (absent) | stored terminators, finished flag | `add_member_and_get_group_ref`, `terminate_group` |
| Bootstrap cache | bootstrap_cache.rs (absent) | bounded ordered set of NodeInfo | `add_peer`, snapshot, disk load/save |
| Communicate | communicate.rs (absent) | read loops, per-session writes | `read_from_peer`, `dispatch_wire_msg`, `write_to_peer_connection` |
| Event bus & API | lib.rs (absent) | event channel to the host | `connect_to`, `send`, `bootstrap`, `our_connection_info`, `disconnect_from` |
| Wire messages, peer config | wire_msg.rs, peer_config.rs (absent) | none | serialisation, certificate and QUIC configs |
| Host example | src/examples/chat.rs | peer list | command loop, event consumer thread |

### How they interact

All handlers run on one `current_thread` event loop. Each one takes the
Context through `ctx_mut` and finishes without suspending, so each handler
is one atomic step. Work crosses handlers only through spawned futures:

* a handshake leaf per `connect_to`, where the terminator stream is polled
  before the handshake future (`select`, connect.rs 95-97);
* connection drivers (outbound, connect.rs 132-134; inbound, listener.rs
  40-42), whose failure tears the record down by peer address;
* read loops that buffer into `pending_reads` or dispatch.

The bootstrap group links attempts to different peers. When one of them
becomes ready, `terminate_group(true)` fires the terminators of the others.

### What is hard

* **Two halves in either order.** The inbound half (listener) and the
  outbound half (handshake completion) reach a record in either order. The
  connected event must fire exactly once, when the second one arrives.
* **Stale futures keyed by address.** Handshake leaves, drivers and read
  loops refer to the peer by address, not by record. A future started for
  one record can act on a later record of the same peer: complete its
  handshake, or remove it.
* **The bootstrap race.** The winner is chosen when its record becomes
  ready. A Node's candidates complete their QUIC handshakes well before they
  dial back.
* **Buffers and one-shot slots.** `pending_sends` and `pending_reads` are
  drained in the same step that fires the event, and the external-address
  sender is taken while the reads are drained.
* **Failures at every await.** A handshake can fail, a driver can die, a
  terminator can fire, or its last sender can be dropped.

### Properties that make it correct

* The record table implements the per-peer sessions of `PeerSessions`
  (`SessionsRefined`): at most one ConnectedTo/BootstrappedTo per record
  lifetime, given when the record becomes Ready and naming the live
  record; NewMessage only after it, while Ready, in the order the remote
  wrote the messages.
* Each connection carries the handshake first, then user messages in the
  order they were submitted (`SendsInSubmitOrder`).
* A queued send is eventually written or discarded with its record
  (`QueuedSendsLeaveQueue`).
* One bootstrap yields at most one BootstrappedTo (`BootstrappedAtMostOnce`).
* BootstrappedTo is given only for records we created
  (`BootstrappedOnlyToContacted`).
* The handlers' `unreachable!`/`panic!` are never reached (`NoLogicPanic`).
* A Client never reaches the "reverse connect to a client" panic of
  connect.rs 58, the spec's section 9 open question
  (`NoReverseConnectToClient`).
* An EndpointEchoResp teaches us our address (`EchoRespLearnsAddress`).
* A record disappears only when one of its own sessions fails: its inbound
  connection, or the attempt that made its outbound half. This is an action
  property (`SeveredOnlyByOwnSession`).
* The record table implements the abstract sessions of `PeerSessions`
  (`SessionsRefined`). A Client's bootstrap group implements the one-shot
  race of `BootstrapRace` (`BootstrapRaceRefined`).
* Chat: a send reaches the peer that `listpeers` showed at that index,
  whatever the event thread inserted meanwhile (`SendGoesToListedPeer`). After
  quit, the program exits cleanly (`QuitExitsCleanly`).

## 2. Modules

### `ConnectionManager.tla` (written)

One process (the Context) talking to the remote peers in `Peers`. The remote
peers, QUIC and the host are the environment.

State:

* `conns` is the connections table: a function on the peers that have a
  record. A record holds `to`, `from`, `grp` (bootstrap group ref present),
  `we` (`we_contacted_peer`), `att` (the attempt that made `to_peer`
  Initiated or Established), `sends` (`pending_sends`), `reads`
  (`pending_reads`), `in` (the number of the inbound connection installed
  as `from_peer`) and `life` (a ghost naming the record's lifetime).
* `att[a]` is the handshake leaf of the a-th `connect_to` call: its peer,
  whether it is pending, live (driver running) or closed, whether its
  terminator fired, and what was written on its connection.
* `group` is the bootstrap group. `boot` is the rest of the loop that
  `bootstrap()` runs.
* The environment is `inq`, `rsent`, `echoDue`, `inDrivers` (the numbers
  of the inbound connections whose drivers still run) and `nIn`.
* The outputs are `events` (the event channel), `cache`, `extAddr` (the
  one-shot slot) and `panicked`.

Actions, one per handler:

| Action | Code |
|---|---|
| `ConnectTo(p, certOk, quicOk, sac, viaGroup)` | `connect_to`, connect.rs 25-113, every branch: config error, duplicate, Client panic, connect_with failure |
| `HandshakeOk(a)` | `handle_new_connection_res` Ok arm, connect.rs 126-259: record gone, `unreachable!`, or the three FromPeer arms with cache insert, event, drain and flush |
| `HandshakeFail(a)`, `Cancelled(a)`, `Abandon(a)` | the other outcomes of the leaf's `select`, connect.rs 82-97, 130 |
| `DriverFail(a)` | outbound driver error, connect.rs 132-134 → `handle_connect_err` |
| `IncomingConn(p)` | `handle_new_conn`, listener.rs 31-92 |
| `InboundDriverFail(p, i)` | the driver of inbound connection i errors, listener.rs 40-42 → `handle_communication_err` (spec_modelled: severs the record) |
| `ReadMsg(p)` | read loop: buffer while `to_peer` is not Established, otherwise dispatch (spec_modelled) |
| `Send(p)`, `HostConnect(p)`, `Bootstrap`, `BootstrapStep` | host API (spec_modelled) |
| `HostDisconnect(p)` | `disconnect_from`: the record is removed with both halves (spec_modelled); enabled only when the constant `HostDisconnects` is TRUE |
| `RemoteWrite(p)`, `RemoteEchoResp(p)` | remote peers (environment) |

Modelling choices, each read from the code:

* The terminator is polled before the handshake, so a fired terminator
  always wins (`LeafMayComplete`).
* `handle_connect_err` removes whatever record the address has now
  (`RemoveConnection`).
* The listener spawns the driver before its duplicate check, so a
  duplicate's driver can still fail (`inDrivers`).
* The drain passes `our_ext_addr_tx.take()` to every drained message, so
  the first one takes the sender.

Abstractions:

* Certificates are not modelled; a peer is its address.
* User messages are numbers. The handshakes and echo messages are model
  values.
* `panicked` names the panic (`"ReverseToClient"` for connect.rs 58,
  `"Unreachable"` for connect.rs 165), so the two can be checked apart.
* `ConnectionFailure` events are not modelled (see section 5).

`StrictTerminator` chooses what happens when every sender of a terminator
has been dropped. The terminator lives in `utils.rs`, which is absent.

* `FALSE`: the attempt may still complete, or it may be abandoned.
* `TRUE`: the attempt can only be abandoned, as with a futures mpsc
  channel whose last sender is gone.

The passing runs use `FALSE`, which covers both behaviours. The bootstrap
group keeps each member's terminator until that member's attempt resolves
(spec 4.5).

### `PeerSessions.tla` and the refinement

`PeerSessions` is the abstract specification of what the host is promised
(spec 4.3, 4.4, 5). Per peer, a session is Absent, HalfOpen or Ready, and
each lifetime has a fresh name. The host's event stream gets one connected
event for a lifetime, exactly when it becomes Ready. It may be followed by
the messages buffered so far. Later messages come one by one, only while the
session is Ready, in the order the peer wrote them. A session may be closed
at any time.

`ConnectionManager` maps onto it:

* a record with `to_peer` Established and `from_peer` Established or
  NotNeeded is Ready (`SessionStatus`);
* any other record is HalfOpen;
* no record is Absent;
* the record's `life` is the session's name (`SessionLife`);
* `events` maps to itself.

`SessionsRefined == Sessions!Spec` is checked in node_records. It is the
one property of that run about events: one connected event per lifetime,
messages after it and in write order, the event naming the record alive at
that moment, and messages only for a Ready record. Separate invariants for
the first three would only repeat it.

### `BootstrapRace.tla` and the refinement

`BootstrapRace` is the bootstrap group as spec 4.5 and 9 describe it: a
one-shot race.

* Candidates enter while no one has won.
* A racing candidate drops out (its attempt failed) or wins, but only
  while no one has won.
* After a win, the others are cancelled.
* With weak fairness on leaving the race, the race always ends.

The mapping:

* `racing` is the peers of group members whose attempt is still pending
  (`RaceRacing`).
* `won` is the set of peers that BootstrappedTo events name (`RaceWon`). A second
  BootstrappedTo changes it, and no step of the race allows that.

`BootstrapRaceRefined == Race!Spec` is checked in client_bootstrap. For a
Node it cannot hold: node_bootstrap_twice shows a second win.

### `Chat.tla`

This is the chat example: two OS threads and a `PeerList` behind a Mutex.

* Every command of the main loop holds the lock for its whole body, so each
  command is one action: `AddPeer`, `ListPeers`, `DelPeer`, `Send` (for
  both `send` and `sendrand`), `Quit`, `Join`.
* The event thread (`Consume`, `ChannelClosed`) drains the mpsc channel
  that quic-p2p fills (`Emit`). It inserts peers on ConnectedTo and prints
  messages.
* A message is abstracted to whether it is valid UTF-8 and whether it is
  longer than 512 bytes. Those are the two facts the code branches on.
* `shown` and `fresh` record what the user last saw with `listpeers`, and
  whether a `delpeer` has happened since. `sent` records each send with
  the peer that was listed at its index.

Dropping `QuicP2p` is assumed to drop the event sender. That is library
code not under `src/`.

Fairness is weak fairness on the event thread and on the join. Both are OS
threads.

The command loop's other inputs (`ourinfo`, `help`, unknown commands, a
blank line, a readline error) print and go on. They are one action,
`OtherInput`, that only uses up a command.

### `CachePolicy.tla` and `BootstrapCache.tla`

`CachePolicy` holds `add_peer` as the operator `AddPeer`: drop the node if
present, append it, evict the front past `CacheCap`. `ConnectionManager`
extends it and applies it where connect.rs 176-178 calls `add_peer`.

`BootstrapCache` is the cache over process restarts (spec sections 3 and 6;
`bootstrap_cache.rs` is not in `src/`):

* `Start` reads the file into memory;
* `Insert(p)` is the `we_contacted_peer` branch of connect.rs 176-178;
* `Shutdown` writes the cache back, `Crash` does not.

The initial file is any duplicate-free sequence of at most `CacheCap`
nodes. The run checks only the type invariant (capacity, no duplicate
node). `add_peer` and the promise it keeps would both be read from the
same sentence of spec section 3, since `bootstrap_cache.rs` is absent, so
checking one against the other would show nothing about the code. The
spec's invariant 3 (only outbound handshakes we initiated populate the
cache) is a single guard of `HandshakeOk` and is not stated again.

### Plan for the next sittings, in order

1. **`BootstrapCache.tla`, done.**
2. **`disconnect_from`, done** (`HostDisconnect`). Failure events could
   not be modelled faithfully (section 5).
3. **Bootstrap group, done as `BootstrapRace.tla`.**
4. **Spec section 9 open question, done** (`NoReverseConnectToClient`).
   The two-peer composition could not be built (section 5).
5. **Wire messages.** Not modelled (section 5).

## 3. Runs

The runs use `MCConnectionManager.tla`, `MCChat.tla` or `MCBootstrapCache.tla`, which give the
peers as model values. `CHECK_DEADLOCK FALSE` is set everywhere: the event loop really does
idle once the bounded environment has nothing more to deliver, and a
stopped process stays stopped once its starts are used up.

| Run | cfg | Expect | What it shows |
|---|---|---|---|
| node_records | NodeRecords.cfg | pass | Node, one peer, 2 calls, 2 sends, 2 remote messages, 2 inbound connections, `disconnect_from`: both halves in either order, teardown and re-creation. The record table refines `PeerSessions` (one event per lifetime, at Ready, messages after it and in order); sends keep their order. |
| client_bootstrap | ClientBootstrap.cfg | pass | Client bootstrapping off two nodes, with an echo request and sends: the terminator race gives exactly one BootstrappedTo, and the group refines `BootstrapRace`, its liveness included. A send queued on a cancelled candidate still leaves the queue. No sequence of steps drives a Client into the panic of connect.rs 58. `HostDisconnects` is FALSE here: with it, the `unreachable!` below is reached (and the race then never ends). |
| send_liveness | SendLiveness.cfg | pass | Node, one peer, 3 calls, 2 sends, with `disconnect_from`: every queued send leaves the queue while the record is torn down and re-created twice, under fairness of the handshake leaves. |
| node_bootstrap_twice | NodeBootstrapTwice.cfg | violation | A Node gets BootstrappedTo twice. |
| bootstrap_to_inbound | BootstrapToInbound.cfg | violation | BootstrappedTo for a record the listener created. |
| echo_slot_lost | EchoSlotLost.cfg | violation | Draining pending_reads throws the external-address sender away. |
| logic_panic | LogicPanic.cfg | violation | The `unreachable!` of connect.rs 165 is reachable. |
| duplicate_driver_severs | DuplicateDriverSevers.cfg | violation | Node, no dialling, two inbound connections: the dropped duplicate's driver fails and severs the live record (`SeveredOnlyByOwnSession`). |
| stale_driver_severs | StaleDriverSevers.cfg | violation | Client, three calls, strict terminators: the driver of a session whose record was removed fails and removes the record a later `connect_to` made. |
| chat_threads | ChatThreads.cfg | pass | Chat with two peers, 3 events, 4 commands, indices 0-1, text only. Sends go to the peer listed at the index despite concurrent inserts, and quit ends the program. |
| chat_random_bytes | ChatRandomBytes.cfg | violation | One short random message panics the event thread, and quit then panics in the join. |
| cache_policy | CachePolicy.cfg | pass | Cache of capacity 2 over three nodes, five insertions, three starts, any initial file: through every mix of re-insertion, eviction, clean shutdown and crash the cache stays within its capacity and duplicate-free (type invariant only). |

Bounds:

* Two peers are the least for a group race; one peer is enough for the
  questions about a single record.
* Two or three `connect_to` calls allow a record to be re-created while an
  older attempt is still live. send_liveness uses three, so a queued send
  outlives two re-creations. node_records with three calls generates 40
  million states (over five minutes), so it keeps two.
* Two remote messages and two sends are the least that can be reordered.
* Two inbound connections per peer exercise the duplicate path.
* The cache needs three nodes with capacity 2 to evict, and five
  insertions let a node be re-inserted both before and after an eviction.

Each pass run explores between 1,900 (cache_policy) and 500 thousand distinct states.

Fairness (`Fairness`) is weak fairness on each handshake leaf and on the
bootstrap loop. The code justifies it:

* QUIC gives up on a handshake after its idle timeout.
* A fired or dropped terminator is seen on the next poll.
* The bootstrap loop is a plain `for` over the cache.

Nothing else is assumed fair: remote peers and the host may stop at any
time.

## 4. Findings

* **Two BootstrappedTo for one bootstrap (Node).** The group ref is taken
  only where the connected event fires (connect.rs 216, listener.rs 67). The
  scenario:
  1. A Node bootstraps off two nodes, and both QUIC handshakes complete.
     Their records keep their refs, because `from_peer` is still
     NoConnection.
  2. The first node to dial back wins. `terminate_group` fires a terminator
     that nobody listens to any more.
  3. When the second node dials back, its record still holds its ref, so
     it emits a second BootstrappedTo.

  This contradicts spec scenario 5.
* **BootstrappedTo for a node that dialled us.** connect.rs 63-67 attaches
  the group to a record that the listener created (`we_contacted_peer`
  false). The spec's invariant 2 is then broken, and the node is not put in
  the cache.
* **Echo response lost.** connect.rs 237 passes `our_ext_addr_tx.take()`
  to every drained message. If the first buffered message is a user
  message, the sender is dropped. The EndpointEchoResp that answers our
  queued EchoReq then finds the slot empty.
* **`unreachable!` reached.** The scenario:
  1. A bootstrap attempt is pending.
  2. Its record is removed: a `connect_to` with an unparsable certificate
     fails, or an inbound driver fails.
  3. The peer dials in again, and the listener creates a new record.
  4. The group still stores the attempt's terminator, so its handshake can
     complete. It finds `to_peer` = NoConnection and panics.

  This holds even with `StrictTerminator = TRUE`. `disconnect_from` gives
  a third way to step 2: a Client that disconnects a bootstrap candidate
  and dials it again panics when the group's attempt completes on the new,
  already Established record. This is why client_bootstrap runs without
  `disconnect_from`.

* **A dropped duplicate severs the live session.** listener.rs 40 spawns
  the driver, whose error handler severs the record by address, before the
  duplicate check. When the duplicate's connection fails, the peer's live
  record is removed. Spec 4.3 says a duplicate is dropped silently.
* **A stale outbound driver removes a newer record.** connect.rs 133 calls
  `handle_connect_err(peer_addr)`, which removes whatever record the address
  has. The driver of a session whose record was already removed therefore
  takes down the record of a later `connect_to`. The same happens for a
  handshake that fails after its record was replaced (connect.rs 130).
* **Chat event thread panics on random bytes.** chat.rs 194 decodes every
  message of at most 512 bytes with `unwrap!(String::from_utf8(..))`. Short
  random bytes from a remote `sendrand` panic the event thread. The peer
  list stops being updated, and `quit` panics in `join().unwrap()`.

## 5. Not modelled

* QUIC itself, TLS and certificates: the handshake is an environment
  outcome.
* Serialisation and framing.
* Configuration and argument parsing.
* The chat example's printing and argument parsing: they change no state
  (`ourinfo` and `help` are `OtherInput`).
* The cache file's format: the spec leaves it opaque and asks only for a
  round trip, which `Start` assumes.
* What the host learns when `bootstrap()` meets a node we already dial or
  hold (DuplicateConnectionToPeer, connect.rs 104, returned early at
  268-270). That node joins no group, so its success fires ConnectedTo and
  no BootstrappedTo. Whether the host is told of the duplicate is decided in
  `lib.rs`, which is absent, so this is listed as a hazard with no property.
* The application handshake dispatch in `communicate.rs`, which is absent
  from `src/`, and with it a two-peer composition. Spec 4.6 buffers every
  message, the remote's Handshake(Node) included, while a record is half
  open. Yet the round-trip law of section 8 and the integration test
  `incoming_connections_yield_connected_to_event` need the handshake to
  trigger our reverse connect. The code that settles this is not in
  `src/`, so a second Context would be modelled on a guess. The host's
  nondeterministic `HostConnect` stands for the reverse connect. Whether
  `pending_reads` (connect.rs 233) can grow without bound depends on the
  same dispatch, so it is not listed as a hazard.
* `ConnectionFailure`, `UnsentUserMessage`, `SentUserMessage`, `Finish`.
  No code under `src/` emits them: `handle_connect_err` only removes the
  record. They would come from `Connection`'s Drop and `lib.rs`, both
  absent, and the spec disagrees with itself on a Duplicate (section 7
  excludes it, scenario 4 expects a ConnectionFailure). The section 7 rule
  "one outcome event per `connect_to`" is therefore not checked.
* Wire messages and peer configs: pure conversions in absent files; the
  model keeps which message is sent and whether the config is accepted.
