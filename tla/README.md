# JeanGrey: a TLA+ verification project

JeanGrey is a peer-to-peer messenger in Rust on top of libp2p: devices with
ML-DSA identities find each other through a Kademlia DHT, run an ML-KEM/ML-DSA
handshake on one stream of a connection, and exchange acknowledged text messages
over the AEAD session that results. This directory holds TLA+ models of the parts
of it that keep state, TLC configurations that check them on small instances, and
TLAPS proofs that every safety invariant and both refinements the configurations
check hold for every value of the constants.

`PROJECT.json` is the index: components, runs, the map from definitions to source
lines, one mutation per checked property, findings, hazards and theorems.

## 1. Inventory

| component | source | state | operations | what makes it correct |
|---|---|---|---|---|
| session | `session.rs` | keys, `out_seq`, `in_seq`, violations, `seen` window | encrypt message / ack / control, `handle_frame` | no nonce twice; what is delivered is a prefix of what was sent; acks are true |
| handshake | `handshake.rs` | payloads exchanged so far, transcript, keys, flags | one handler per frame type, timeout | who establishes does so with the dialed device and the same keys; nobody is left half open |
| stream handler, framing | `transport.rs` (`SessionHandler`), `framing.rs` | substream, read buffer, write queue, closed flag | negotiate, poll, read, flush, decode, close | frames come out as they went in; only bad frames are refused; both ends use one stream |
| session behaviour | `transport.rs` (`SessionBehaviour`) | handshakes per connection, one session per device, queued texts, observed addresses | send, swarm events, frames, poll | at most once, true delivery reports, sessions only on live connections, queue drains |
| discovery and reconnect | `node.rs` (M2.1, M2.2) | record cache, lookups, retry queues, `dialing`, `had_session` | lookup, record found, dial failure, reconnect, maintenance | a lost peer is found again; the dialing guard is never leaked; rediscovery is single |
| address lifecycle and records | `node.rs`, `records.rs` | listen addresses, own record | new / expired address, interface scan, sign, verify | the record names current addresses only; readers accept it |
| NAT traversal and relay | `node.rs` (M2.4) | bootstrap and relay guards, reservation, paths, attempt counters | bootstrap and relay dials, reservation, DCUtR results | guards match dials; the node joins; paths are honest |
| external address validation | `node.rs` (M2.3) | candidates, validated addresses, pending probes, record | observed address, dial-back request / result, probe failure, maintenance | published public addresses were reached; stale ones leave; nothing waits for ever |
| storage | `storage.rs` | identity, config, history files | atomic save, load, append | a crash leaves the old or the new file; the log tells the truth |
| command line | `cli.rs` | the command that runs | init, node, send, lookup, peers | one device per directory; what is printed is so; `send` ends |
| identity, cryptography | `identity.rs`, `crypto.rs` | keys | KEM, signatures, KDF, AEAD | symbolic here |

How they interact: the swarm polls the behaviour and the handlers in one task per
node, so inside a node handlers run one at a time; all concurrency is between
devices, between the connections of one pair of devices, between processes that
share a data directory, and between timers and frames. The handler turns bytes into
frames for the behaviour; the behaviour runs handshakes, owns sessions and queues
`BehaviourEvent`s; the node consumes these later, so it always reacts to a past
state of the behaviour. Devices talk only through frames on streams, through the
DHT and through dialing each other.

What is hard here, and hardly reachable by tests: two connections to one peer
whose handshakes finish in different orders; frames of a session that was
replaced; streams that break under a living connection, or that the two ends do
not share; reads and writes that cut frames anywhere; a timeout racing a late
answer; answers attributed by device rather than by connection; guards that some
other connection's events release; stale records that the DHT hands out again;
addresses reported by two sources; kills and power cuts between two calls of the
file system. The list with lines is under `hazards` in `PROJECT.json`.

## 2. Modules

| module | models | composed of / relation |
|---|---|---|
| `SecureChannel` | what a session promises: two FIFO logs, an ack with every text | abstract specification |
| `Session` | two `Session` objects and their fail-closed caller over an arbitrary wire | refines `SecureChannel` (`ImplementsChannel`) |
| `SessionProofs` | theorems about `Session` | extends `Session` |
| `Handshake` | both ends of one handshake over a damaged stream | gives `SessionBehaviour` its Hello/Ready abstraction |
| `HandshakeProofs` | theorems about `Handshake` | extends `Handshake` |
| `FrameStream` | what the two handlers of a connection promise: whole frames, in order, once, until an end is over | abstract specification |
| `StreamHandler` | two `SessionHandler`s, framing and a flow-controlled stream | refines `FrameStream` (`ImplementsFrameStream`), on which `SessionBehaviour`'s FIFO of frames rests |
| `StreamHandlerProofs` | theorems about `StreamHandler` | extends `StreamHandler` |
| `SessionBehaviour` | the behaviours and nodes of two devices over several connections | uses the handshake, session and stream layers in reduced form |
| `SessionBehaviourProofs` | theorems about `SessionBehaviour` | extends `SessionBehaviour` |
| `Discovery` | one node looking for one peer that moves | sessions and handshakes reduced to how a connection ends up |
| `DiscoveryProofs` | theorems about `Discovery` | extends `Discovery` |
| `Connectivity` | bootstrap and relay dials, listen addresses, record, path of a peer | its record's public part is `AddressValidation`'s |
| `ConnectivityProofs` | theorems about `Connectivity` | extends `Connectivity` |
| `AddressValidation` | one owner and its probers | runs over sessions that come and go |
| `AddressValidationProofs` | theorems about `AddressValidation` | extends `AddressValidation` |
| `Device` | the data directory and the processes on it | texts on their way as in `SessionBehaviour`, reduced |
| `DeviceProofs` | theorems about `Device` | extends `Device` |
| `MC...` | small instances for TLC | |

**Session.** `ep[p]` is the `Session` of end p, `status` what its owner in
`SessionBehaviour::sessions` did with it, `sealed` and `delivered` are histories.
`EncryptMessage`, `EncryptControl`, `AcceptMessage` (which acknowledges in the same
step, as `on_session_frame` does) and `AcceptAckOrControl` are the good paths; the
four `Reject...` actions are the error returns of `handle_frame` in their order,
including that the counter and the window move *before* decryption;
`ControlPanics` and `AckPanics` are the two `expect`s at the end of the u32 range.
The wire is the weakest possible: any header with any ciphertext either end has
ever sealed, or garbage. Only the send and receive *keys* are assumed to be as the
handshake left them.

**Handshake.** `hs[p]` has the fields of `Handshake`; payloads are terms, `v` tells
an altered copy from the original. Each `On...` action is one handler, its
`...Accepted` operator the conditions of its early returns. An error anywhere is
`FailClosed`: the entry is removed, the node disconnects, and the other end sees
`ConnectionClosed`. A timeout needs a frame that is damaged, lost or late; being
late is one of the faults the wire can commit.

**StreamHandler.** A stream carries cells, the pieces of encoded frames, so that
a read or a write can end anywhere; a cell knows its frame, which lets the model
tell a frame that came through from one put together of pieces. `poll` is split
at its calls of the stream (`AnnounceReady`, `PollWrite`, `PollFrame`, `PollRead`,
`RequestOutbound`), because the other end runs meanwhile; the early returns between
them are guards, so a handler with something to write does not read. A frame is
good, garbled in its header, too long, or carries fields its type may not, which
`decode` refuses at different points. `Initiators` are the ends whose handler was
built for a dialed connection: one, or both after a simultaneous dial. The end of
a stream is, as in the code, no event at all (`Ok(None)` and `Pending`), contrary to
the comment at `transport.rs:107`, and a failed upgrade closes the handler silently.

**SessionBehaviour.** One action per arm of `on_swarm_event`, `on_handler_event`,
`on_frame`, `on_session_frame`, per `send_message`, the expiry in `poll`, and per
session event of the node. A connection number doubles as the session id of the
handshake on it. The network may drop a link, break a stream (`StreamClosed`) or
be too slow for a handshake. `Redundant` says whether devices may dial while they
are connected: Kademlia, record dials, probes and hole punching do. A text that is
`TooLong` is dropped from the queue, or raises a failure when it is sent within a
session. `pursuit[p]` is what module `Discovery` details: an attempt to reach the peer
is due (`ScheduleReconnect` after the loss of a session, or the lookup that comes with
a text sent without one), there is none, or the last one came to nothing. As in
`schedule_reconnect`, a loss noticed without a cached record schedules nothing, and as
`had_session` has it, neither does a connection lost before its session: nothing but a
due attempt makes a device dial.

**Discovery.** The node's tables for one peer: `cache` (`records`), `pending` and
`retryLookups` (counted and queued by attempt number and, as a history, by whether
they go back to a command or to `schedule_rediscovery`), `retryDials`, `dialing`,
`hadSession`, `waiters`; `dials` and `aborted` are the dials the swarm has under way,
`known` whether the behaviour can name the device behind the transport id. One
action per way a lookup, a dial or a connection ends, per command, per session
event, and `Maintenance` for a turn of the loop: any prefix of each queue may be
due. Deadlines are thus abstracted to the order of the queues. The unit of `now` is
longer than `PUBLISH_INTERVAL` and `TTL` counts such units, so a peer that is there
has always published within the last unit, and an old record expires. The DHT may
answer with any record it was ever given until it converges on the last one.
`HandshakeFailed` makes the node disconnect, which in libp2p closes the connections
*and* aborts the dials under way. The swarm reports the addresses of a failed
dial with a `/p2p` suffix, so `invalidate_candidates` may find none of them in the
cache (`OnDialError`).

In this code some events end the search for a lost peer without a further attempt,
and `ended` records them: an older, expired or forged answer to a lookup, the last
lookup attempt failing although a record exists, `WrongPeerId`, a failed or expired
handshake, a stream or link that breaks under a handshake, and a `HandshakeFailed`
that the node handles only after the failed session's link has closed: its
`disconnect_peer_id` (`node.rs:1235`) then aborts the attempt made since. The two
properties on lost peers say that *nothing else* ends it. The last of these endings
was found by the proof of `LostPeerStaysPursued`: it takes more troubles than the run
allows.

**Connectivity.** A bootstrap peer or relay has one address and is named by it; the
relay may be a bootstrap peer as well (`boots`, chosen initially), which then has both
guards. A dial fails with `DialError::Transport`, which releases every guard of the
address (`DialFails`), or with some other error, which releases none (`DialRefused`;
`refused` remembers the host). Each
part of `maintenance` (scan, periodic publish, bootstrap loop, relay) may or may not
be due in a turn. `listeners` is the swarm's view, `current` and `published` the
node's; the interface scan adds the former to `current`, filters by the host's
addresses and publishes only if that took something out. A relayed listen address
is `"circuit"`. `links` and `path` are the connections to one peer by kind and what
`peers` shows for it. A relayed connection begins a hole punch, which may bring a direct
connection; its DCUtR event (`PunchSucceeds`, `PunchFails`) comes at any later time, also
after every connection has closed, and `late` remembers that it set the path then.

**AddressValidation.** `cand`, `validated`, `record` are the owner's tables, `probe`
and `dials` the probers'. Every action is one handler with the publish it ends in;
`CandidateMaintenance` and `ProbeMaintenance` are the halves of
`public_addr_maintenance` that concern the two roles. Ages count units and stop at the
value they are compared with. A `LocalAddr` report stands for all observations the
classification ignores. A probe that reaches some other device, or whose handshake
fails, is `ProbeHandshakeFails`: no code path reports it. `EstablishSession` is told
what its connection has reached: the address of a probe dial, or nothing. It answers
for whatever probe is pending, as `pending_probes` is looked up by device. `reached`
records the addresses really reached, `credited` those reported reachable on a session
that did not reach them, and `others` counts sessions that replaced another one while a
probe was pending. Only the public part of the record is kept; `local` is the number of
listen addresses before it, and `Truncations` the ways `MAX_ADDRS` may cut the rest.

**Device.** The files of the data directory, call by call: `write_atomic` creates,
writes, syncs and renames; `append_history` makes two writes, because `writeln!` does.
`survives[f]` is the set of contents a power cut may leave: the directory is never
synced, so a rename may be undone until the file system settles, and what was not
synced is torn. Each process runs one command; `init` runs alone (two at once would
share a temporary file), the others may overlap. A fault is a kill, a failing write
or a power cut. `mishaps` counts the appends a fault cut short or another append
interrupted.

## 3. Runs

| run | shows | states |
|---|---|---|
| `session` | types, `NonceUnique`, `InOrderExactlyOnce`, `AcksAreTruthful`, refinement of `SecureChannel` | 89,705 |
| `handshake` | `PeerIsAuthentic`, `EstablishedAgrees`, `SettlesAsDialed`, `NoHalfOpenSession` | 102,602 |
| `stream` | `ReadBufferBounded`, `RefusesOnlyBadFrames`, `FramesFlow`, refinement of `FrameStream` | 208,381 |
| `behaviour` | `SessionOnLiveConnection`, `AtMostOnce`, `AckedWasDelivered` with overlap and one fault of any kind | 1,736,143 |
| `behaviour_reconnect` | `InOrder`, `NoSpuriousFailure`, `EveryTextAcknowledged`, `SessionRecovers` without overlap, with a text that is too long | 74,653 |
| `discovery` | guard never leaked, rediscovery single, a lost peer pursued (`LostPeerIsPursued`) and found (`LostPeerIsFound`) | 897,848 |
| `connectivity` | `GuardsAreExact`, `RecordIsCurrent`, `PathIsHonest`, `NodeJoins`, `RecordSettles` | 197,280 |
| `validation` | the owner's tables and record agree, what is validated was reached or credited, nothing waits for ever, stale addresses go | 429,104 |
| `device` | `CutsLeaveWholeFiles`, `IdentityIsKept`, `NodesAreTheDevice`, `ReportsAreTrue`, `LogDamageIsBounded`, `SendEnds`, `AckedIsLogged` | 403,389 |
| `stream_hole_punch` | violation: after a simultaneous dial the ends may keep different substreams | |
| `behaviour_closed_handler` | violation: a broken stream leaves its session behind | |
| `connectivity_circuit` | violation: a record with the relayed address is refused by its readers | |

The type invariant of a module is a conjunct of one of its invariants
(`EstablishedAgrees`, `SessionOnLiveConnection`, `RediscoveryIsSingle`,
`ValidatedAgrees`, `ReadBufferBounded`, `GuardsAreExact`, `CutsLeaveWholeFiles`); in
`Session` it stands by itself.

The three violations are disagreements between the code and its documents or
comments; each finding in `PROJECT.json` quotes the line. In all three the network
is sound (or fails once) and texts are swallowed or a device cannot be found.

Deadlock checking is off everywhere: finite numbers of texts, connections,
commands and sequence numbers end, and a closed session may stay closed.

**Bounds.** `session`: `MaxSeq` 2 lets each end seal two frames, so counters reach
their end, both panics happen, the window (1) slides, and a replay, a reflection
and a skipped number are all possible; two message ids let an altered id be told
from the original. `handshake`: three faults hit any combination of the ten frames;
every pair of dialed identities is an initial state. `stream`: frames of every size
up to the limit, one beyond it and one refused late, in both directions, reads and
writes of one or two cells, a window smaller than the largest frame, so both windows
can be full at once; one or both ends dialers is decided by the run (both), since a
single dialer's behaviours are among those of two. `behaviour`: two connections
are enough for one session to replace another in both orders; two texts let one
be queued and one be sent. `behaviour_reconnect`: three texts with a bad one in the
middle; two connections and one fault (a failing link, the long text sent within a
session, or an attempt that comes to nothing), so that one session is lost and won back. `validation`:
two probers (own and fallback), one candidate; a new session comes up only when
fewer than `MaxQueue` frames are in flight, and one may replace another during a probe;
`MaxAttempts` 2 for the code's 3 and `MaxAddrs` 2, so that listen addresses leave place
for none, some or all public ones (a cut *between* two public addresses needs two of
them: that is left to the proof); the two timeouts are equal, so that owner and
prober may give up in either order, which includes the code's (15 s before 30 s).
`discovery`: two addresses (one can fail while the
other is kept), two connections, two lookup attempts, three moves, commands or
faults in any order and place; two further units of time let a record expire and its
successor be looked up (with one address the same properties also hold with four
troubles, and the invariants with six). `connectivity`: a bootstrap peer and a relay, or one host
that is both; one interface address beside loopback; two changes of interfaces or
hosts or refused dials, so that an address goes and comes back, or a host fails and a
dial to it is refused; dials to one host are counted up to two. `device`: two processes, three
commands and one fault: `init`, then two overlapping nodes, or an `init` that is cut
short, a second one and a node.

**Fairness.** Weak fairness only, of what the program's single task is bound to do:
the swarm hands over frames and connection events it has and polls handlers that
can make progress, the run loop drains session events and goes through maintenance
on every turn, processes are scheduled, timers fire, time passes. In
`SessionBehaviour` an attempt that is due is eventually made or fails, which `Discovery`
shows; a device with queued texts but no attempt due is under no obligation to dial. In
`Discovery` a peer that is away comes back and publishes, the DHT converges on its
last record, queries, dials and handshakes end one way or the other (libp2p and the
handshake timeout see to that), and every queued entry comes due. In `Connectivity`
a dial to a host that can be reached succeeds and any other fails, and the listener
reports the interfaces it finds. Nothing is assumed of users, of the network, of
faults, or of how soon a dial ends.

### Known deviations without a run of their own

The passing properties are stated so that they hold of the code as it is; where the
code falls short of its documents the exception is part of the property or named here.

* A handshake on a second connection replaces the session while frames of the first
  are on their way; such a frame is a `WrongSession` error and takes the new session
  down, although `docs/architecture.md:306` promises "stale connections closed without
  session loss". `behaviour` has these steps; `InOrder` and `NoSpuriousFailure` are
  checked without overlap for this reason.
* A session that is lost while another connection to the peer remains is not reported
  (`transport.rs:875`), although `docs/protocol.md:289` has the node look the peer up.
* Any session that comes up while a probe is pending validates the probe's address
  (`node.rs:1202`), although `node.rs:364` says "proven reachable by a dial-back probe".
  `ValidatedWasReached` allows such an address only as `credited`, and says that it takes
  a session that replaces one of the prober's, or the late dial of an earlier probe.
* A connection that is lost before its session comes up is not followed by another
  attempt, even with texts queued: `had_session` is false (`node.rs:1301`) and the lookup
  was used up by its answer (`node.rs:1128`). `SessionRecovers` and `LostPeerIsFound` except
  attempts that come to nothing.
* A rejected candidate that is observed again starts with a fresh budget
  (`node.rs:879`), against "at most 3 validation attempts" in `docs/protocol.md:273`.
* Answering a lookup command empties the record cache for every peer (`node.rs:1946`),
  after which a lost session is neither re-dialed nor looked up, against
  `docs/protocol.md:241`; it also prints every cached record, not only the one asked for.
* A `HandshakeFailed` event that is handled late disconnects the peer the node is
  already dialing again (`node.rs:1235`), and nothing dials it after that.
* Failed addresses come with a `/p2p` suffix and are then not dropped from the cache,
  against `docs/PROJECT_CONTEXT.md:208`.
* Two handlers whose windows are both full wait for each other (`transport.rs:290`);
  two ends on different substreams wait for the handshake timeout.
* A bootstrap peer that was reached once is never dialed again by the bootstrap loop,
  and a lost relay reservation is not renewed; a node may stay isolated.
  Bootstrap peers with several addresses are dialed at the first one only, and the
  guards of the others stay set.
* A dial that ends with another error than `DialError::Transport` (`node.rs:1716`) releases
  no guard, and the host is not dialed again, although the comment at `node.rs:1391` has
  the relay "re-attempted on failure". `GuardsAreExact` and `NodeJoins` except such hosts.
* A host named by both `--bootstrap` and `--relay` (`cli.rs:117`) is dialed once for each
  in the same turn, and both guards go when one of the dials fails, although
  `docs/architecture.md:153` says "All outgoing dials are guarded (`bootstrap_dialing` set)
  so the bootstrap loop cannot issue duplicate dials to the same address while one is in
  flight". `GuardsAreExact` counts the dials to all other hosts; of this one it says that
  a guard means a dial.
* A DCUtR event handled after the last connection has closed sets the path to "failed" or
  "direct" (`node.rs:1447`, `node.rs:1474`), until the next connection. `PathIsHonest` excepts
  this (`late`).
* A record is cut to `MAX_ADDRS` addresses, listen addresses first (`records.rs:116`), so
  a host with eight of them no longer publishes its validated public ones.
* The path shown stays "direct" or "via-relay" when the connection of that kind closes
  and one of the other kind remains, and "failed" while a relayed connection lives.
* `init` that is cut short after the identity leaves a device without its port, and
  cannot be repeated. A text is acknowledged before it is logged: a process that ends
  in between has lost it. Errors of the history file are ignored.
* A message to oneself "hangs" (`README.md:173`) only in the interactive node:
  `SendEnds` shows that `send` gives up.

## 4. Proofs

Every invariant that a passing run checks, `IdentityIsKept` and the two refinements
are theorems: they hold for all sets of devices' texts, addresses, connections,
processes and frames, and for all bounds, whatever values the configurations give
them. Each module of proofs has one inductive invariant (or a small family), one
lemma per action or group of actions that shows it is kept, and a theorem per
property. The invariants below were checked by TLC on the configurations before
they were proved.

| theorem | states | inductive invariant |
|---|---|---|
| `TypeCorrect`, `NoncesNeverRepeat`, `DeliveryIsAPrefix`, `AcksNeverLie`, `Refinement` | `TypeOK`, `NonceUnique`, `InOrderExactlyOnce`, `AcksAreTruthful`, `ImplementsChannel` | `IInv`, then `AcksNameDeliveries` |
| `AuthenticPeer`, `SignatureSettlesKeys`, `EstablishedStaysAgreed` | `PeerIsAuthentic`, keys follow a verified signature, `EstablishedAgrees` | `HandshakeInv` |
| `BufferStaysBounded`, `OnlyBadFramesAreRefused`, `StreamRefinement` | `ReadBufferBounded`, `RefusesOnlyBadFrames`, `ImplementsFrameStream` | `StreamInv` |
| `SessionsStayLive`, `TextsArriveOnce`, `AckedStaysDelivered` | `SessionOnLiveConnection`, `AtMostOnce`, `AckedWasDelivered` | `BehaviourInv` |
| `TextsArriveInOrder` | `InOrder`, if `~Redundant` | `OrderInv` |
| `NoFailureIsSpurious` | `NoSpuriousFailure`, if `~Redundant` and no stream or timeout faults | `NumberInv` |
| `GuardIsNeverLeaked`, `RediscoveryStaysSingle`, `LostPeerStaysPursued` | `GuardIsReleasable`, `RediscoveryIsSingle`, `LostPeerIsPursued` | `GuardInv`; `RediscoveryInv`; `PursuitInv` |
| `GuardsStayExact`, `RecordStaysCurrent`, `PathStaysHonest` | `GuardsAreExact`, `RecordIsCurrent`, `PathIsHonest` | `ConnInv` |
| `TablesAgree`, `ValidatedMeansReached` | `ValidatedAgrees`, `ValidatedWasReached` | `OwnerInv`, `NetInv` |
| `FilesAreWhole`, `NodesRunTheDevice`, `IdentityStays`, `ReportsStayTrue`, `LogDamage` | `CutsLeaveWholeFiles`, `NodesAreTheDevice`, `IdentityIsKept`, `ReportsAreTrue`, `LogDamageIsBounded` | `FilesInv`; `TextsInv`; `LogInv` |

**Assumptions on the constants.** They only keep names apart (the two ends, the marks
`None`, `Absent`, `Torn`, the terms of the handshake, loopback and circuit addresses),
give bounds and sizes their types, and put the timeouts in their order
(`TimesAssumption`: 15 s, 30 s and 300 s, the first two in that order or equal). Two say
more: in `Connectivity` the host has no more than `MAX_ADDRS` addresses
(`AddrsAssumption`), and in `StreamHandler` a header is not empty. TLC evaluates all of
them in the runs.

**Session.** `IInv` adds `SealedByCounter` (the i-th frame an end sealed is the one made
at counter i - 1, so the log's length is `out_seq`) and `CursorAgrees` (while a session
is open, `in_seq` is the number of frames handed up). `OpensMeansGenuine` is the key
lemma: a frame that opens carries the key, nonce and header of exactly one sealed
frame, the one at its sequence number in the peer's log. With `CursorAgrees` that is
the next undelivered one. `CursorAgrees` breaks in the very step in which a frame
cannot be opened, which is harmless only because that step closes the session: the
proof shows that the fail-closed rule is needed and where. `AcksAreTruthful` needs the
same from the other side: an acknowledgement is sealed only for a text that has
been handed up. The refinement maps each accepting step to one of `SecureChannel` and
every other step to a stutter.

**Handshake.** The wire is allowed to alter anything; what it cannot do is make a
signature or a session id that verifies (`WireIsHonest`: these are symbolic terms, which
is the assumption on the cryptography). `FieldsInStep` says that what is derived is
derived from the payloads held. An end that accepts a signature then has the
signer's transcript (`SignedIsShared`), the transcript contains all six payloads, and
so one transcript makes one pair of keys. An end that accepts a session id has it
from a peer that accepted its signature (`SettledIsShared`); the agreement of both ends
is more than each end's own checks give.

**Stream handler.** The pipe to an end is its read buffer, what is on the stream and what
its peer has still to write of a frame it has begun. `StreamInv` says that the pipe holds the
frames that were handed over and have not arrived, one after the other, and ends where
the peer's write queue begins. `Carries` says so with a function `start` from frames to
positions, of which the invariant states that one exists; reading, writing or
decoding moves the pipe's parts or shifts `start`, so no step needs an induction over
the buffer. Refusals follow because a decoder that stands at `start[k + 1]` sees a real
header. After a simultaneous dial the invariant holds for each stream an end may
yet settle on.

**Session behaviour.** `BehaviourInv` says that a text is in one place only: queued, in one
frame on one connection, or handed up. It holds with overlapping connections and all
faults. `OrderInv` needs connections that do not overlap: then all connections but one are
`Dead`, whatever is on a dead one is never read, and texts handed up come before
those on the wire, those before the queued ones. `NumberInv` counts: the i-th frame
on a wire is the one its receiver's handshake or session expects next, which a broken
stream or an expired handshake would spoil. The hypotheses of these two theorems are
those of the run `behaviour_reconnect`, except that `TextsArriveInOrder` allows every
fault. Where connections overlap both properties are false (see the deviations).

**Discovery.** `GuardInv` adds `GuardIsKnown` (whoever set the guard has registered the
transport id, without which closing the last connection would not clear it) and
`GuardTypes` (no cached or queued address set is empty, so `connect` always has something
to dial). `RediscoveryIsSingle` says that of all lookups pending or queued at most one is
the node's own; a retry inherits its origin, so the number of commands does not matter.
`PursuitInv` needs the most: as long as no
ending has occurred, every loss the node has yet to hear of is followed by a new
session or is the last event (`LossIsMadeGood`); when the last event is a loss no connection is
past its handshake, and a guard that is set stands for an attempt still being made
(`QuietIsBare`), so that the node's answer to that loss is never swallowed by a stale
guard; and once it has been heard something is under way (`Hunted`).

**Connectivity.** `HubInv` makes the guards exact with the facts that a mapped host
has no guard, that the relay has none once it is resolved, that a bootstrap peer with
connections is mapped (closing one clears its guard, and must not meet a dial), and that
a guard left behind by a refused dial stays set. `PathInv` adds that a late event is one
without a connection. `RecordIsCurrent` needs `LoopbackStays`:
`publish_record` returns early for an empty set, which would leave the old record
standing if the last address could go.

**Address validation.** `OwnerInv` is about the owner's tables, `NetInv` about sessions, frames
and probes; the link is the set `Frames`, whose positive results name addresses that
were reached or credited. That an address is credited only in two ways needs that a
pending probe implies a session, so a session that comes up then replaces one.

**Device.** `FilesInv` places `init` between its calls (`InitPlace`) and says what each file
may hold after a cut; `TextsInv` says how far a `send` has got and that only one command
has a text; `LogInv` counts a line left open by a process that is gone as a mishap
yet to show (`Dangling`), without which the bound would not be inductive.

**Only model-checked.** Liveness under fairness is out of the prover's reach:
`SettlesAsDialed`, `NoHalfOpenSession`, `FramesFlow`, `EveryTextAcknowledged`,
`SessionRecovers`, `LostPeerIsFound`, `NodeJoins`, `RecordSettles`, `CandidateIsDecided`,
`StaleAddressLeavesRecord`, `SendEnds`, `AckedIsLogged`. The library's induction theorems
take an operator as parameter and cannot be used; where an argument needed induction
(`Without` in `flush_pending_sends`) it goes through the least element of a set of numbers
(lemma `UpTo`).

## 5. Not modelled

The arithmetic of cryptography, byte layouts, logging and printing; argument parsing
and the interactive prompt; libp2p itself (Kademlia's routing, connection
upgrades, relay and hole punching protocols), which appears only as dials that
succeed or fail, streams and connections that come and go, and results of a punch.
`was_seen` is dead code.

## 6. Plan

1. Done: models of all components, the runs, and theorems for every invariant, the
   action property and the refinements.
2. Left: to shorten the longest proofs (`SessionBehaviourProofs`, `DiscoveryProofs`)
   by factoring the facts about queues and sequences they share; to state the safety
   half of liveness properties where it is worth a theorem (that a `send` moves
   through its waits in one direction only, that a half-open session has a closing
   connection).
