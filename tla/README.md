# A TLA+ verification of sing-quic-rs

sing-quic-rs is a Rust library of three proxy protocols over QUIC: Hysteria2,
ShadowQUIC (authenticated inside the TLS handshake by JLS) and SunnyQUIC (the
same framing, authenticated by a credential sent on a stream); the last two are
called SQuic where they do not differ. This directory holds TLA+ models of the
library, TLC runs that check them on small instances, and TLAPS proofs for
instances of any size.

Modules are translated from the Rust source; `PROJECT.json` maps the definitions
to the lines they model.

## The system and its parts

| Part | Source | Module |
|---|---|---|
| Hysteria2 UDP session: ids, fragments, reassembly | `hysteria2/packet.rs` | `Defragger`, `Hy2Udp` |
| Hysteria2 UDP inactivity timer | `hysteria2/packet.rs` | `Hy2Inactivity` |
| Hysteria2 client: cached connection, authentication | `hysteria2/client.rs` | `Hy2Handshake` |
| Hysteria2 server: first request, bandwidth negotiation | `hysteria2/server.rs`, `protocol.rs` | `Hy2Handshake` |
| Hysteria2 server: select loop, UDP session table, accept queue | `hysteria2/server.rs` | `Hy2Sessions` |
| Hysteria2 masquerade | `hysteria2/server.rs` | `Masquerade` |
| TCP streams: Hysteria2 and SQuic framing, varints, addresses | `hysteria2/protocol.rs`, `stream.rs`, `varint.rs`, `address.rs`, `shadowquic/mod.rs` | `Wire`, `TcpStreams` |
| SQuic UDP associations | `shadowquic/mod.rs` | `SQuicUdp` |
| SQuic route registry | `shadowquic/mod.rs` | `IncomingUdpRegistry` |
| SQuic server: authentication and requests | `shadowquic/mod.rs` | `SQuicAuth` |
| SQuic client: cached connection and its handles | `shadowquic/mod.rs`, `sunnyquic/mod.rs` | `SQuicClient` |
| SQuic server: accept loop, configuration updates, close | `shadowquic/mod.rs`, `sunnyquic/mod.rs` | `SQuicServer` |
| Congestion switch, adaptive windows, metrics | `congestion.rs`, `transport.rs`, `hysteria2/metrics.rs` | `Tuning` |
| Socket options, errors, crate root | `hysteria2/transport.rs`, `error.rs`, `lib.rs` | not modelled |
| Vendored quinn-proto, h3 | `src/vendor` | mostly assumed, see below |

(Paths are relative to `src/src`, the last to the repository.)

How they interact. A *Hysteria2 client* dials once for all its callers, posts an
HTTP/3 request with its password and receive rate, and the *server* answers 233
or *masquerades* as a web server, for this and all further requests of the
connection. Once authenticated the server runs one select loop per connection,
which spawns a task per TCP stream and feeds datagrams to *UDP sessions*; both
reach the application through one bounded *accept queue*. A UDP packet is cut into
fragments that carry a 16-bit packet id, and the *defragger* of the other side
puts them together. Both ends switch the connection's *congestion controller* to
the rates they agreed on and may start a task that logs *metrics*.

A *SQuic client* also caches one connection. The *server* copies its congestion
setting for each connection that arrives, lets quinn do the handshake with the
TLS configuration of the moment, switches the congestion controller, starts a
task that adapts the *windows*, and spawns one task per stream and per datagram.
On SunnyQUIC each task first waits for the outcome of authentication on a `watch`
channel. A UDP association is a control stream that announces *context
ids*; datagrams and unidirectional streams carry an id, and a task that meets an
unknown id waits in the *registry* until the control stream's task registers it.

What all this asks of QUIC and of tokio is assumed: streams are reliable and
ordered, datagrams may be lost and reordered but are not duplicated, a connection
may be lost at any time and closes when its last handle is dropped, and `Notify`,
`watch`, `mpsc` and `Mutex` behave as documented. That dropping an h3 server
connection closes the QUIC connection is taken from `src/vendor/h3`, which is what
`Cargo.toml` builds. The quinn it builds is outside the repository
(`Cargo.toml:26-29`), so what `Tuning` needs of it is external: a rebound IPv4 path
gets a clone of the congestion controller and any other new path a new one. The
copy in `src/vendor/quinn-proto-jls`, which is not built, does this in `migrate`.

## Modules

Each module that models code has its state as variables, one action per handler
or per step between two awaits, and *slips*: variants of a definition with a
plausible mistake, used only to show that the properties notice them.

**`DatagramService`** is the abstract specification of a UDP relay: what is
delivered was offered, unchanged, and is delivered once. Loss and reordering are
allowed. `Hy2Udp` and `SQuicUdp` are both shown to implement it; the refinement
maps the packets given to `send` to `offered` and those returned by `recv` to
`delivered` (`Hy2Udp`: those returned while ids were spaced, see *Bounds*).

**`Defragger`** is the receiving half of a Hysteria2 session. `fragments` is the
map of `Defragger`, `incoming` the channel of capacity 64, `open` says that `input`
has not failed. `InputWhole`, `InputIgnored`, `InputPartial` and `InputComplete` are the
exits of `feed`; expiry of the whole table is part of the two that reach it. Ages
saturate one tick above the lifetime.

**`Hy2Udp`** adds the sender and the network. `Send` draws an id from the 32-bit
counter modulo 65535, cuts the packet and may fail after any number of
fragments; `SendRejected` spends an id without sending. `peer` is chosen in `Init`:
with `"any"` the receiver gets every message that decodes, in any order.

**`Hy2Inactivity`** is `wait_inactive`: the deadline, the sleep, the clock, and the
borrow it is compared with are separate steps, so that a packet can come between
any two of them.

**`Hy2Handshake`** composes client and server. `config` is chosen in `Init` from
all combinations of rates, password and header; `holder` is the mutex around the
cached connection; `live`, `status`, `answer` and the two rates belong to connections.
`client_send_rate` and `server_send_rate` are the two functions named
`negotiated_send_rate`.

**`Hy2Sessions`** is the server loop after authentication: `loop` is the point of
the select loop (waiting, pushing a new session to the accept queue, feeding a
message), `udp_sessions` the table of weak references, `task` the progress of
`handle_stream`. What a message does to reassembly is its *effect*, one of the
outcomes `Defragger` has. Leaving the loop drops the HTTP/3 connection, which
closes the QUIC connection.

**`IncomingUdpRegistry`** breaks `register`, `remove`, `wait` and `close` at their lock
regions and at the creation, polling and completion of the `Notified` future.

**`SQuicUdp`** is one direction of UDP on a SQuic connection, from `send` to `recv`,
over datagrams and over streams. `setup`, chosen in `Init`, says which end receives
and which associations use streams: the server spawns a task per datagram, the
client handles datagrams inside its loop (`Serial`). Waiting in the registry is
one step here, as the previous module justifies.

**`SQuicAuth`** is the server side of a connection from the first poll to
`Server::accept`. `authentication` is chosen in `Init`. Each stream's task moves
through the points at which it reads or waits.

**`QuicLink`, `SQuicClient`, `SQuicServer`, `SQuicEndpoints`** are a SQuic client and a server.
`QuicLink` declares what both see of a connection: `net`, and `jls`, the
connections whose handshake JLS authenticated. In `SQuicClient`, `pc` is the
progress of each caller of `connect`, `associate` or `congestion_kind`, `holder` the
mutex, `cached` the connection behind it, `receivers` SunnyQUIC's receiver tasks;
`Held` says who holds a handle of a connection and `Collect` closes those without
one. A stream returned to its caller is `"streaming"`; the control-stream task
that outlives a dropped association is `"draining"`. In `SQuicServer`, `congestion` and
`tls` name the update whose value is in force (0 is `bind`), `update` the progress of
each call of `update_config` or `update_certificate`, `task` that of each connection,
`seen` what its task read of the two. Options are abstracted to
whether they serve the client: good ones have its user and a usable congestion
setting, bad ones neither. `stream` is the progress of the task of each
bidirectional stream and `queue` the number of items for `Server::accept`. The accept
loop, the task of a connection and the tasks of its streams each hold a sender of
that queue, so `AcceptCloses` waits for all of them. A stream may be taken at any
time while its connection is served and ask for anything; `SQuicAuth` has what
becomes of it. `SQuicEndpoints` composes
the two and keeps, in `current`, the values that were in force since a connection
was dialled.

**`Wire`** has the byte formats as operators: varints, the Hysteria2 request and
response, the CONNECT request with its address. A reader is given the bytes that
have arrived and answers `More`, `Bad`, or what it read and what it leaves. A host is a
number with a form, a text length and a canonical spelling; its text or octets
are that number repeated, so a frame has the length it has in the code.

**`TcpStreams`** uses them for the life of a proxied stream. `out` and `serverOut` are
frames still to be written, `up` and `down` what is on its way. A frame is written
in pieces and either side may leave at any point. The Hysteria2 server of this
crate never answers with an error; the client's handling of one is exercised by a
server that may (`status` 1).

**`Masquerade`** is an unauthenticated connection: the loop that takes requests one
by one and resolves their headers, the task of each request, and a client that
sends headers in two parts, bodies in chunks, resets requests and leaves. The
response is a record of what `send_masquerade_response` looks at: status, size
of the body, `length` (the `Content-Length` header, if any) and `hop`, its
connection-specific headers, of which `Connection` and `Transfer-Encoding` are removed
and the others are not. **`ConnectionStreams`** composes the two: whether the first request
authenticated decides which one the connection runs.

**`Tuning`** is a connection's congestion controller and its two tasks. `state` holds
the shared states behind `SwitchableController` (the controller that `runs`, the MTU it
runs `with`, the `kind` and `current_mtu` on record), `path` and `fallback` which of them
quinn uses. `TakeHandle` and `ApplySwitch` are the two halves of
`configure_connection_*`. SQuic connections may move to a new path; Hysteria2
servers disable path management, so their connections only rebind. `WindowTick`
is one round of `AdaptiveWindowTask`; a round of the metrics task is a report,
`MetricsTick`, and a look at the connection, `MetricsCheck`.

In all of them the end of a connection is seen by each task in its own time.
Streams and datagrams that came before it can be taken after it, as quinn allows,
until the loop itself meets the error.

The `MC...` modules give constants their small values. The `...Proofs` modules hold
the theorems.

## Runs

| Run | Instance | What it shows |
|---|---|---|
| `hy2_udp` | 3 packets, 2 ids, a counter that wraps, up to 3 fragments, channel of 1; this crate or any peer | `WellFormed`, `NothingWithheld`, `MixesOnlyOneId`, and `ServiceSpec`, the refinement |
| `udp_registry` | 2 waiters, 2 control streams, 2 ids | `NoLostWakeup`, `WaitersReleased` |
| `squic_udp_safety` | 2 associations (one per mode), 2 destinations, 2 ids | `WellFormed`, `StreamsInOrder`, and `ServiceSpec`, the refinement |
| `squic_udp_live` | 2 associations; server with and without streams, client | `LoopKeepsUp`, `NothingStays` |
| `squic_auth` | 3 streams, 2 users, queue of 1, both protocols | `OnlyAuthenticated`, `AuthenticatedIsPrompt`, `BadCredentialCloses`, `TasksGoOn` |
| `hy2_handshake` | 540 configurations, 2 callers | `SingleFlight`, `OnlyEstablished`, `RatesAgreed`, `CallersAnswered` |
| `hy2_sessions` | 2 session ids, 2 messages, 1 stream, queues of 1 | `WellFormed`, `SessionBeginsWithItsPacket`, `AnsweredIsHanded`, `LoopGoesOn` |
| `hy2_inactivity` | 2 calls, timeout of 2 ticks | `ReleasedWhenQuiet`, `QuietIsReleased` |
| `squic_endpoints` | 2 callers, 1 caller and 2 updates, or 1 caller and 2 streams with a queue of 1; both protocols | `OneConnection`, `UpdateHeals`, `ServedUnderCurrentOptions`, `CallersAnswered`, `CloseEndsAccept`, `AbandonedIsReleased` |
| `tuning` | 2 switches, 2 controllers, 2 MTUs, integers of 4 and 8 bits | `SwitchHolds`, `WindowsFit`, `TasksEndWithConnection` |
| `connection_streams` | 1 proxied stream to 5 hosts in either framing, or 2 masquerade requests | `RightDestination`, `StreamsIntact`, `ConnectReturns`; `BodiesWhole`, `AnswersConsistent`, `RequestsAnswered` |
| `hy2_cc_rx_doc` | 1 caller | violated as expected, see *Finding* |

The comment above each property says what it means. `WellFormed` of a module is its
type invariant together with what makes its tables exact: counters of fragment
sets, ownership of routes, one live session per id. That packets are routed right
and arrive intact is what `ServiceSpec` says of those that are received. Types of
the registry, of authentication, of the handshake, of the inactivity timer, of
the endpoints and of `Tuning` are proved, not run; `TcpStreams` and `Masquerade` have no
type invariant of their own. Every property is violated when the definition
named beside it under `mutants` in `PROJECT.json` is replaced by its slip.

Three progress properties say that a bad state does not last for ever (`~<>[]`):
`WaitersReleased`, `LoopKeepsUp` and `NothingStays`. In these models, whose inputs are
bounded, that amounts to each such state being left for good.

Deadlock is checked where the system never stops (`hy2_udp`, `udp_registry`,
`hy2_inactivity`). Elsewhere a behaviour may end: the connection is lost, its tasks
are done and no bounded input is left.

### Bounds

- *Ids.* `IdSpace` stands for 65535 (Hysteria2) or 65536 (SQuic) and is 2, so ids
  come round within a few sends. `CounterSpace` stands for 2^32; like 2^32, it is
  one above a multiple of `IdSpace`, which is what makes id 0 come twice in a row.
- *Reuse.* The code never checks that an id is free. In `Hy2Udp` the history variable
  `spaced` records whether, so far, nothing of the last packet of an id was in
  flight or fresh when the id came round; `NothingWithheld` and `ServiceSpec` speak of
  behaviours as long as it holds, `WellFormed` and `MixesOnlyOneId` of all. `SQuicUdp`
  assumes that no context and nothing in flight uses an id that is drawn
  (`IdUnused`): it does not cover a connection that draws 2^16 contexts while one of
  the first still lives.
- *Queues.* Capacities 64 and 256 become 1: every property is about "full" and "not
  full", and one item reaches both.
- *Sends and messages.* Two or three: enough for a packet to overtake another, for
  an id to be used again, for a session to end and come back.
- *Actors.* Two of each kind that race, three streams in `squic_auth`: a bad
  credential, a good one and a request. In `squic_endpoints` two callers race under
  one configuration, one caller with two updates, and one caller's connection has
  two streams, one more than the accept queue holds; the proofs cover all at once
  and in any number.
- *Rates.* `{0, 1, 2}`: 0 is "not configured", and 1 and 2 are two limits in either order.
- *Frames.* Host texts of 7 to 70 bytes and a padding of 64 put every length on both
  sides of the step from one to two varint bytes, and one address beyond
  `MaxAddress` (66 for 2048). A frame is cut at its start, its end, around its length
  fields and in the middle. One stream is enough: streams share nothing here.
- *Bodies.* `MaxBody` is 1 for 16 MiB and chunks have 1 or 2 bytes, so bodies are
  below, at and above the limit, in one chunk and in two.
- *Integers of `Tuning`.* `Max64` is 15 and `Max128` 255, with rates and round-trip times
  so large that every product saturates, and so small that none does. The proof
  is for any widths.
- *Paths.* Two controller objects: a connection moves once to a path with its own,
  and rebinds and returns any number of times.

### Fairness

Fairness is assumed only of what the runtime schedules. A task that can go on is
polled (weak fairness of its steps). A sender that waits for room in the accept
queue is served in turn, which tokio's semaphore guarantees: strong fairness of
`Push`, `PushSession` and `PushStream`, since others may fill the queue in between
(in `SQuicEndpoints`, where a stream pushes once, weak fairness is enough). A timer
fires. The application calls `accept`, and in `SQuicUdp` reads from the associations
it keeps; a masquerade handler answers. Nothing is assumed of the peer: no
message need be sent, no byte need come, no datagram need arrive, with these
exceptions that are part of what is asked. `Hy2Handshake` takes it that a request is
answered or its connection lost (the code has no timeout there), `SQuicEndpoints`
that a QUIC handshake ends, by quinn's timeout if not otherwise, and that a read
of a stream fails once its connection is closed, and `SQuicUdp`
and `TcpStreams` that what was sent and not lost is read. Applications are not
assumed to drop, close, cancel or update anything.

## Proofs

Every invariant, action property and refinement that a run checks is also proved,
for every value of the constants that satisfies the named assumptions of the
modules: capacities and limits are naturals, most of them positive, markers such
as `NoUser` are not members of the set they mark, products of 64 bits by a billion
fit into 128, and (`LengthsEncodable`) the lengths of addresses and of padding that
a reader allows are numbers a varint can hold. TLC evaluates these assumptions on
its instances.

`ConnectionProofs` has four components that work around a connection.

- `RegistryTypeCorrect`, `WakeupsAreNotLost`. `NoLostWakeup` speaks of parked waiters
  only and is not inductive: what a waiter missed, it missed before it parked.
  `WakeupInv` says for each point of `wait` that a route inserted or a flag stored
  since the waiter looked has completed its future or is about to. That the future
  is created before the lookup is what makes it hold.
- `AuthTypeCorrect`, `ServesOnlyAuthenticated`, `PromptAfterAuthentication`. `AuthInv`
  strengthens `OnlyAuthenticated` by what is on the way to an output: a published
  user has presented a credential on this connection (`ChannelTrue`), the user of a
  task past its wait is such a user, and a handshake task serves nothing.
- `InactivityIsReal`, an action property. The duration a call is about to compare is
  never longer than the time since the last activity (`MarksBehind`).
- `HandshakeSingleFlight`, `HandshakeOnlyEstablished`, `HandshakeRatesAgreed`.
  `HandshakeInv` adds who holds the mutex, that a live connection is either cached
  or being authenticated by the holder and not both, and that the rates of a
  connection are those its two headers determine. What those rates satisfy is the
  lemma `RatesOfNegotiation`, about the operators only.

`SQuicEndpointsProofs`: `ClientHasOneConnection`, from `ClientInv`, which also says
where handles can come from; `UpdatesHeal` and `ServedIsCurrent`, from `ServerInv`: an
update that runs alone has stored its setting and nobody else may install one, and
what a task has read was in force since its connection was dialled.
It also has the transport of a connection, `SwitchesHold` and `WindowsAlwaysFit`.
`TuningInv` speaks of every controller object, since old paths and old handles lead
back to them, and says that a handle taken since the last new path is of the
current one. The arithmetic of `adaptive_window` is in `AdaptiveWindowFits`.

`SQuicUdpProofs`: `WellFormedAlways` and `ImplementsService`, the refinement. `UdpInv`
says that routes are owned by the control streams that are read, that an id in use
has one context, that everything in flight is labelled with the context it was
sent on (`Labelled`), and that a packet is in one place only (`OnePlace`), from which
"at most once" follows. `SQuicUdpOrderProofs`: `StreamOrder`. For each stream context,
what was received, what is queued and what is still in the stream are, in this
order, sent in this order (`Ordered`) and without a gap (`Gapless`).

`Hy2SessionsProofs`: `OneSessionPerId` and `SessionsBegin`. The table knows sessions
weakly, so the invariant is about the loop: what it is pushing or feeding is a
session that is alive because the loop holds it, and a readable session whose
first packet is not there yet is the one the loop is about to feed.

`Hy2UdpProofs`: `ReceiverTypeCorrect` and `ReceiverCountsExactly`, of the receiver fed
with any messages and proved together, for neither is inductive alone: a set is
removed when its counter says it is complete, so types depend on the count, and
the count on the shape of sets. `SessionWellFormed`; and `SessionMixesOnlyOneId`, which
needs no assumption on ids. `Hy2UdpServiceProofs`: `SessionWithholdsNothing` and
`SessionImplementsService`, the refinement, as long as ids are spaced. `SpacedInv`
says that an unexpired fragment set has chunks of one packet (`Pure`), that a packet
is passed on once (`Once`), and that every chunk is in flight, in its set, passed
on or accounted for (`Accounted`).

`TransportProofs` has what a connection carries.

- `MasqueradeBodiesWhole` and `MasqueradeAnswersConsistent`. `MasqueradeInv` says of a
  task that is collecting a body that what it has and the chunks on their way add
  up to what was sent (`AddUp`, with the partial sums as a witness in place of a
  recursive sum), and follows the answer from the record the handler made to
  the bytes written.
- `VarintRoundTrip`, by cases on the four lengths: every number below 2^62 is read
  back and the bytes after it are left.
- Frames. `Reads(result, p, t, e, value, x)` says of a reader that, when a stream is
  the frame `e` and then `x`, and `p` of it has arrived and `t` has not, it asks for
  more if `p` falls short of `e` and otherwise returns the value and leaves exactly
  what came after. It is proved of varints, of fixed lengths and, by `Chain`, of
  readers that go on where another one stopped, and so of requests in both framings
  (`FrameReads`) and of responses (`ResponseReads`), for all lengths and all cuts.
- `StreamsReachTheirDestination` (`RightDestination`) and `ProxiedBytesArriveIntact`
  (`StreamsIntact`). Neither is inductive. `TcpInv` says, per stream, what its bytes
  are. `Upstream`: before the request is read, what arrived and what is still to be
  written is the request and the bytes written behind it; afterwards what was read,
  what arrived and what is to come are those bytes. `Downstream`: the same of the
  response, together with its status, so that a client that reads status 0 has the
  whole answer of a server that serves the stream. `Understands`: what the server
  took for the destination is the one asked for.

Only model-checked: the liveness properties, since the prover handles neither
fairness nor `ENABLED`. They are `WaitersReleased`, `LoopKeepsUp`, `NothingStays`,
`BadCredentialCloses`, `TasksGoOn`, `CallersAnswered` (twice), `AnsweredIsHanded`,
`LoopGoesOn`, `QuietIsReleased`, `CloseEndsAccept`, `AbandonedIsReleased`,
`TasksEndWithConnection`, `ConnectReturns` and `RequestsAnswered`.

## Finding

`hy2_cc_rx_doc`: `PROTOCOL.md:15` says that the server "responds with its receive
rate in `Hysteria-CC-RX`", with one exception for `ignore_client_bandwidth`. The
code advertises it only if it negotiated a send rate for itself
(`src/src/hysteria2/server.rs:355`). The property is about servers that have a fixed
receive rate, to which the exception does not apply. In the trace that TLC finds
the server's receive rate is 1, `ignore_client_bandwidth` is off and the receive
rate in the client's request is 0: the answer is `auto`. A client that also has a
send rate would then use BBR instead of Brutal.

Some limits of the code are part of the models and not findings, since nothing
in the repository promises otherwise.

- The SQuic client's serial loop stops at a datagram whose association has ended.
- The mutex of a Hysteria2 client is held while a server that never answers is
  waited for.
- The table of UDP sessions of a Hysteria2 connection only grows.
- SunnyQUIC's receiver task holds a handle of the connection whose end it waits
  for, so the connection outlives its client until the peer or a timeout ends it;
  the control-stream task of an association holds one until that stream ends.
  `AbandonedIsReleased` is about the rest.
- A failed `update_config` leaves the new congestion setting with the old TLS
  configuration, until the next update that succeeds.
- SunnyQUIC's `update_certificate` writes the users and the congestion setting of
  `bind` again.
- A SQuic connection that moves to a new address starts there with BBR, and a switch
  that took its handle before returns true without effect on the new path.
- After a rebinding that quinn gives up, the shared controller keeps the MTU of the
  path that failed until the next MTU update.
- The masquerade loop waits for one request header at a time. Of the
  connection-specific headers a masquerade handler may return, `Keep-Alive`,
  `Proxy-Connection` and `Upgrade` reach the client; `AnswersConsistent` is about
  those that bear on the length of the body.
- A SQuic context id is drawn without looking whether it is in use, so the 2^16-th
  context after one that still lives takes over its id.
- After `close` of a SQuic server, `accept` goes on waiting while a stream task waits for
  authentication, up to its timeout, or for a place in the queue. `CloseEndsAccept`
  takes it that the application goes on accepting.

## Not modelled

- Bytes of UDP messages, control streams and HTTP/3: models use the decoded fields,
  and "does not decode" where the code can fail. Parsing of arbitrary address
  text: hosts are taken from those that parse.
- `bind`, `update_certificate` and `close` of the Hysteria2 server and `close` of its
  client, other than as loss of connections; dropping a SQuic `Server` while
  connections are served (`Hy2Sessions` has it for Hysteria2).
- `ShadowQuicPacketConnection::send` and `Hysteria2PacketConnection::send` are not
  cancelled half-way. A SQuic send that is leaves its control stream out of step;
  the code makes no promise for it.
- A masquerade client that stops reading a response after its request was complete,
  other than by leaving.
- Congestion control below the choice of controller, its rate and its MTU; TLS and
  what a TLS configuration contains.
- Socket options and transport parameters, errors, logging.
