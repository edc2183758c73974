# A TLA+ model of NSB

NSB (Network Simulation Bridge) lets application programs exchange payloads
through a network simulator. A **daemon** sits in the middle. An **application
client** `send()`s a payload to the daemon; a **simulator client** `fetch()`es
it, carries it through the simulated network and `post()`s it back; the
destination's application client `receive()`s it.

This directory specifies

- the socket version: the daemon (`cpp/src/nsb_daemon.cc`), the C++ client
  library (`cpp/src/nsb_client.cc`, `cpp/src/nsb.cc`) and the Python one
  (`python/nsb_client.py`), with the TCP channels between them;
- the RabbitMQ version: the C++ daemon and clients (`cpp/rabbit/`), the Python
  ones (`rabbit/`) and the broker between them;
- what both are for, as an abstract specification;
- the database connectors of both;
- the ns-3 simulator program over TCP (`examples/ns3/nsb-testing-tcp.cc`).

Paths below are relative to the repository.

## Inventory

| Component | State | Operations | What makes it correct |
|---|---|---|---|
| Message format (`proto/nsb.proto`) | none | build, serialize, parse | a read gives the message that was written, or a known merge |
| TCP channels (operating system) | backlog, descriptors, streams, ports | connect, accept, send, recv, close | external; the model has what NSB depends on |
| Daemon | `channel_fds`, `fd_lookup`, `app_client_lookup`, `sim_client_lookup`, `tx_buffer`, `rx_buffer`, `running` | select loop; handlers for INIT, PING, SEND, FETCH, POST, RECEIVE, EXIT | records agree with the kernel; every payload in one place; answers on the right channel, once; EXIT stops it |
| Client libraries, C++ and Python | three connections, configuration | connect, initialize, ping, exit, send, receive, fetch, post, close | a call returns the answer to its own request; calls end |
| Payload database (Redis) connectors | connection, counter; stored payloads | store, check out, peek | keys differ; a key gives its payload, once |
| RabbitMQ broker (external) | exchange, bindings, queues | declare, bind, publish, consume, cancel, delete | external |
| RabbitMQ daemon, C++ and Python | worker running or not | start, INIT, PING, stop | each INIT is answered once; stopping loses no payload |
| RabbitMQ clients: rmq, unified, Python | connection, deliveries held by the AMQP library | connect, initialize, ping, exit, send, receive, fetch, post, listen | payloads not duplicated, reordered, misdelivered |
| ns-3 TCP program | queue, two mutexes, transfers, receive buffers | poll or listen, transfer, receive, post, signal | a message is posted once, whole, under the right names; it can be ended |
| Other simulator bindings, measurement scripts, tests | | | not modelled: users of the libraries |

How they interact: each client opens three TCP connections, CTRL, SEND and
RECV. CTRL carries INIT, PING and EXIT; SEND carries SEND and POST, which get
no answer; RECV carries FETCH and RECEIVE and their answers in PULL mode, and
forwarded payloads in PUSH mode. The daemon is one thread; every client is a
process of its own. In the RabbitMQ version the daemon only answers INIT and
PING; payloads go through the broker, from `send()` or `post()` to the RECV
queue of the destination. With a database, messages carry keys. The ns-3
program is a simulator client: its network is what the two versions only see
as the time between `fetch()` and `post()`.

What is hard:

- There is no framing. Whatever one read returns is parsed as one message, so
  messages that arrive together are *merged* by protobuf's rules.
- The daemon accepts at most one connection per turn of its loop, after it has
  served readable channels. INIT races with the accept of the client's other
  channels.
- Descriptor numbers and ports come back; the lookups keep old ones.
- A call that times out leaves its answer on the channel.
- Undefined behaviour (`begin()` of an empty map, `FD_SET(-1)`) and SIGPIPE are
  within reach of a plain `send()` in PUSH mode.
- In the RabbitMQ version nothing is acknowledged, consumers are cancelled with
  deliveries under way, queues outlive their clients, and a stopping daemon
  deletes the exchange under everybody.
- Database keys come from a counter and a clock that wrap, and a connection to
  the server is never made again.
- The ns-3 program has two threads on one simulator client and a signal handler
  that joins one of them.

`PROJECT.json` lists each hazard at its line, with the properties that watch it.

## Modules

| Module | Models |
|---|---|
| `NsbWire` | messages, `Parse` of a merged read, `MessageEntry` |
| `NsbSockets` | the channels, as both sides' system calls see them (external) |
| `NsbDaemon` | the select loop and the handlers |
| `NsbClient` | the client libraries, the database and the simulated network |
| `NsbSystem` | the socket version composed, and its properties |
| `NsbBridge` | the abstract specification of both versions |
| `NsbBroker` | the RabbitMQ broker (external) |
| `NsbRabbitDaemon` | its two daemons |
| `NsbRabbit` | its three client libraries, the composition and its properties |
| `NsbStore` | the three database connectors on a server that fails |
| `NsbNs3` | the ns-3 program over TCP |
| `MCNsb`, `MCRabbit`, `MCStore`, `MCNs3` | instances for TLC |
| `NsbWireProofs` | theorems about reads |
| `NsbSafetyProofs`, `NsbPlaceProofs`, `NsbBridgeProofs`, `NsbOrderProofs` | theorems about `NsbSystem`; each extends the one before |
| `NsbRabbitProofs`, `NsbStoreProofs`, `NsbNs3Proofs` | theorems about the others |

`NsbWire`, `NsbSockets`, `NsbDaemon`, `NsbClient`, `NsbSystem` extend one
another in this order; so do `NsbWire`, `NsbBroker`, `NsbRabbitDaemon`,
`NsbRabbit`. `NsbStore` and `NsbNs3` stand alone: they justify what the others
take for granted of the database and of the simulated network. Definitions
that some run's properties are tried against (names in `Faulty`,
`CancelRedelivers`, `PostTargetSim`) are plausible mistakes; no specification
uses them.

### Daemon

One turn of `start_server`'s loop is `Select`, then for each flagged descriptor
in the order of `channel_fds` one `Handle` or `Disconnect`, then at most one
`Accept`. `Shutdown` is what follows the loop. A handler is one step because
the daemon has one thread and no handler waits for a client (the one that can
block for ever, forwarding, moves to `status = "hung"`). Clients may act
between any two of these steps.

- `read_fds` are the flagged descriptors not visited yet; `Select` flags any
  nonempty part of what is readable, since data is under way for any time.
- `Receive(f, n)` takes *n* messages of the stream, for any *n* that may have
  arrived; `Incoming` parses them as one.
- `status` is `running`, `stopping` (EXIT was handled; the rest of the turn is
  still served), `stopped`, `crashed` (SIGPIPE, exception, undefined behaviour)
  or `hung` (a `select()` without a timeout on nothing).
- `Details` looks the client's ports up in `fd_lookup` as `ClientDetails` does;
  a channel not accepted yet has no descriptor.
- `SocketSend` on a connection the client has closed may get the connection
  reset, and on a reset one ends the daemon: nothing handles SIGPIPE.

### Clients

`pc[c]` is where the client is. A call that waits is two steps, the request and
the return (`InitReturn`, `PingReturn`, `ReceiveReturn`, `FetchReturn`), and a
wait may also end by `WaitTimeout`/`InitTimeout` or meet the end of the
connection (`WaitEof`). `Impl[c]` selects the library; they differ in:

| | C++ | Python |
|---|---|---|
| INIT not answered, or answered oddly | goes on with the default configuration | raises |
| end of file while waiting | spins for ever (`pc = "spin"`) | returns None |
| `fetch()` without a source | metadata with an empty source | no metadata |
| `post()` with a database | stores the payload, sends the key | sends the payload as the key |
| operation of a received message | must be RECEIVE or FORWARD | any (the test is always true) |
| send on a closed connection | may die of SIGPIPE (`BrokenPipe`) | raises; the model goes on as a program that catches it |

`Network` is the simulated network: what was fetched may come out at any
simulator client in any order, once, or never.

### The bridge

`NsbBridge` has one variable, how far each payload has come: unsent, outgoing,
network, returning, delivered or lost. A step moves one payload one part
further and may lose others. `NsbSystem` and `NsbRabbit` each define `StageOf`
from their own state and instantiate it (`Bridge`); `CrossesNetwork` is
`Bridge!Spec`. So a payload must not skip the simulated network, not go round
twice, not be delivered twice, not turn up again after it was lost. The socket
version implements it (`PullData`, `PullTimeouts`, `PushNodes`). The RabbitMQ
version does not (`VBypass`).

### RabbitMQ version

A queue is a pair (kind, identifier). `bound` holds the queues with a binding;
`Routed` drops a message whose queue has none, as a broker does without the
mandatory flag. `dstate` follows `stop()` of the C++ daemon through its three
steps, since clients act between them; `dimpl` is chosen at each start, so one
daemon may replace the other.

`pc[c]` and `Impl[c]` are used as in `NsbClient`. The C++ libraries consume
without acknowledgement: `Recv` lets the broker deliver any number of messages
to the consumer before it is cancelled, and `Cancel` leaves what was not taken
in `inbox[c]`, or loses it, because SimpleAmqpClient promises neither.
`WaitTimeout` and `stop_listen` cancel too. Python's `basic_get` takes one. A
publish without the exchange throws in C++ and closes the channel of a Python
client for good (`dead`).

| | rmq | unified | Python |
|---|---|---|---|
| INIT answer accepted | DAEMON_RESPONSE | that or SUCCESS | any with a configuration |
| `ping()` | does not wait | waits | waits |
| declaration fails | again until timeout | again until timeout | raises |
| database | ignored | `send` and `post` store | `post` sends the payload as the key |
| operations received | any | SEND, FORWARD, and RECEIVE, POST or FETCH | SEND, FORWARD |
| `listen()` | a thread | none | not modelled |

### Database connectors

`generatePayloadId` makes a key of the clock, cut to the connector's unit and
width, the identifier and the next counter. `context[c]` is the connection:
`stale` when the server has been down since and hiredis has not noticed, `err`
afterwards, which is final for C++ (`IsConnected`); redis-py connects again.
`Written` is what SET is given. `ServerDown` keeps or loses what is stored.
`epoch` in `issued` is how often the server had been down at `store()`.

### ns-3 program

The listener thread and the main thread are separate. Taking a mutex and what
it protects are separate steps where both threads use it, so a signal or the
other thread may fall between: `ListenerLock`, `ListenerFetch` and `LockToPost`,
`Post` for `simClientMutex`; `ListenerLockQueue`, `ListenerPush` and `LockQueue`,
`PopQueue` (one turn of the loop of `ProcessQueuedMessages`) for `queueMutex`.
In PULL mode there is one thread, and `PollToFetch` is one step. A transfer
counts segments (`Size` per payload); `flight` is the TCP connection (external).
`TcpCloseCallback` is `Close` (normal or error), `LockToPost`, `Post`. An
identifier is a host number, or `NotAHost`.

`connected` falls when the daemon goes. `fetch()` may still return what had
come; then `receiveMessage` finds the end of the stream for ever and never
unlocks `simClientMutex` (listener or main thread at `"spin"`), and a `send()` may
end the program by SIGPIPE (`BrokenPipe`). `SignalHandler` may interrupt the main
thread anywhere, whatever it holds or waits for; a second signal during the
join exits at once. Locks inside the libraries (output streams, logging,
memory), which a signal may interrupt as well, are not modelled.

### Abstractions

Payloads are pairs (sender, number), so that every one is distinguishable; a
database key is `<<"#", i>>`; an introduction names the client, whose ports are
looked up in `port`. Ports stand for address and port, and the address a client
reports is taken to be the one the daemon sees. Streams carry whole messages:
a read that ends inside a message is not modelled. Streams have no capacity.
Logging, YAML parsing and payload sizes are left out. The configuration of the
RabbitMQ daemon has no content but `UseDB`. `NsbClient` and `NsbRabbit` number
database keys; `NsbStore` says when that is right.

## Properties and runs

Each property has a comment where it is defined. In short, of `NsbSystem`:

- `OnePlace`: a payload is nowhere twice and none is invented.
  `LossOnlyByMerging`: only a read of two or more messages loses one.
- `FetchOrder`, `ReceiveOrder`: no reordering per source, per poster.
- `OwnMail`, `OwnNode`, `AnswersMatch`: payloads reach whom they are for, and a
  call returns what it asked for.
- `Lockstep`: one message on a RECV channel while its client waits, else none.
- `KeysResolve`: a database key under way has its payload stored.
- `DescriptorsConsistent`, `RegisteredRight`, `OneSimulator`: the daemon's
  records of connections and clients.
- `CrossesNetwork`: the refinement of `NsbBridge`.
- `DaemonSurvives` (proved in PULL mode, in no run): no crash, no hang.
- `Delivery`, `WaitsEnd`, `ExitHeeded`: what must eventually happen.

Of `NsbRabbit`: `OneCopy`, `MailOrder`, `OwnQueue` (no duplicates, order,
addressee), `AnsweredOnce` (INIT requests and answers never outnumber the
starts), `QueuedSafe` (only its receiver takes a payload off a RECV queue),
`Answered` (an INIT in the queue is answered). Of `NsbStore`: `KeysDiffer` (when
keys may repeat), `Intact` (a key gives its payload, once). Of `NsbNs3`:
`PostedRight`, `Carried`, `ShutdownEnds`.

Runs that pass:

| Run | Instance | Checks |
|---|---|---|
| `PullData` | PULL; a1 sends 2 payloads to a or b; fetch by source; no timeouts | `OnePlace` `Lockstep` `ReceiveOrder` `AnswersMatch` `LossOnlyByMerging` `CrossesNetwork` |
| `PullTimeouts` | PULL; 2 payloads, empty ones too; one call gives up | `OnePlace` `FetchOrder` `ReceiveOrder` `OwnMail` `CrossesNetwork` |
| `PushNodes` | PUSH, PER_NODE, database; 2 payloads; 4 clients | `OnePlace` `OwnNode` `KeysResolve` `OwnMail` `LossOnlyByMerging` `CrossesNetwork` |
| `PullLive` | PULL, Python; one payload, two ping or exit calls per client; fairness | `Delivery` `WaitsEnd` `ExitHeeded` |
| `ColdStart` | PUSH from process start; a C++ application, a Python simulator; an INIT timeout | `TypeOK` `DescriptorsConsistent` `RegisteredRight` |
| `Churn` | PUSH; b1 leaves, s2 connects on 7 descriptors and maybe on b1's ports | `DescriptorsConsistent` `OneSimulator` `OnePlace` |
| `RabbitData` | a unified, an rmq and a Python client; 2 payloads; the rmq client listens; C++ daemon stopped once | `OneCopy` `MailOrder` `OwnQueue` |
| `RabbitRestart` | a unified client that starts twice, a Python one; database; either daemon, stopped once; a timeout, a ping; fairness | `TypeOK` `AnsweredOnce` `QueuedSafe` `Answered` |
| `Store` | a cpp and a unified connector of one identifier, a Python one; 3 payloads; counters and clocks of two values; server down once | `TypeOK` `KeysDiffer` `Intact` |
| `Ns3` | 2 hosts, 5 messages, 3 of them from or to no host; 2 segments; a broken connection; the daemon may go; a signal; both modes; fairness | `TypeOK` `PostedRight` `Carried` `ShutdownEnds` |

Runs that show a disagreement with the repository's own words (details in
`PROJECT.json`, "findings"):

| Run | Property | What happens |
|---|---|---|
| `VLoss` | `NoLoss` | two SENDs read together become one |
| `VBypass` | `CrossesNetwork` | RabbitMQ: a payload is received without having been in the network |

### Seen while modelling

In the model, without a run of their own. Each can be seen by adding the named
property to the named configuration, with the changes given.

- A call that follows one that timed out takes the late answer to the earlier
  request (`AnswersMatch` in `PullTimeouts` with `ReceiveAs = {"a", "b"}`).
- INIT is served before the client's other channels are accepted, and they stay
  unknown to the daemon (`FullyRegistered` in `ColdStart` with
  `MaxTimeouts = 0`).
- In PUSH mode a SEND before a simulator has registered crashes or hangs the
  daemon; the branch meant for it cannot be reached (`DaemonSurvives` in
  `ColdStart`). In PULL mode a client that is destroyed with two requests the
  daemon has not answered ends it by SIGPIPE (`DaemonSurvives` in `PullTimeouts` with
  `MayClose = {"a1"}` and `MaxCalls = 2`, deadlock not checked).
- A C++ call that waits when the daemon ends spins for ever, whatever its
  timeout (`WaitsEnd` in `PullLive` with `Impl <- MCCpp`).
- The Python `fetch()` without a source is answered NO_MESSAGE for ever
  (`Delivery` in `PullLive` with `FetchFrom = {""}`); the Python `post()` with a
  database sends the payload as its key (`KeysResolve` in `PushNodes` with
  Python simulator clients).
- A C++ simulator client whose INIT timed out, or that meets a payload forwarded
  to a stale descriptor in place of its INIT response, is used beside the
  registered one (`OneSimulator`).
- After the C++ RabbitMQ daemon has stopped, clients in use are bound to
  nothing, also when it is started again; what is sent to them is dropped
  silently (`Reachable` in `RabbitData`).
- The rmq client refuses the answer of the Python daemon (`ServedByEither` in
  `RabbitData` with `DaemonImpls = {"cpp", "py"}`).
- Neither RabbitMQ daemon can answer a PING, which carries no introduction;
  `ping()` returns by its timeout or takes an old INIT answer.
- `RedisConnector::store` of `nsb.cc` cuts a payload at its first NUL, and
  `peek` dereferences a missing reply; `Intact` and `peek` have both.
- A port that comes back leads the daemon to the descriptor of the client that
  had it before, and a client is registered with the descriptors of another
  (`RegisteredRight` in `Churn` with `SimulatorMode = "PER_NODE"` and `sb` in
  place of `s1`, also in `StartOrder`). The theorem `Registered` says that nothing
  else brings this about.
- Shutdown of the ns-3 program hangs in three ways, the exceptions of
  `ShutdownEnds` (`Stuck`): the signal interrupts `post()`, and the listener waits
  for `simClientMutex`; it interrupts `ProcessQueuedMessages` between lines 256 and
  264, and the listener waits for `queueMutex`; or the daemon has gone, and the
  listener's `fetch()` spins. Without any one of the three the property fails.
- `post()` of the ns-3 program waits for ever if the listener, which locks
  `simClientMutex` again at once, gets it each time, or spins with it; the
  listener's push in the same way for `queueMutex`, which the main thread comes
  back to every 100 ms of simulated time (`Carried` without `PassedOver`).
- `python/nsb_client.py:876-878` says that `fetch()` without a source returns the
  most recent message. The daemon takes the first one in the buffer
  (`nsb_daemon.cc:409-413`), as `nsb_daemon.h:248-250` says; `FetchOrder` rests on it.

Not in the model: `receiveMessage` in `nsb.cc` keeps a pointer to a `timeval`
whose scope has ended; the `default:` branch of `handle_message` answers
nothing; `channel_fds.erase(it)` reuses `it`, which works for the vector it is;
`listen()` of the rmq client uses the AMQP channel from a second thread, and a
client destroyed while it listens ends the program.

### Bounds

`MaxSends` (2) is what order, duplication and merging need: two payloads of one
sender on one channel. `MaxTimeouts` (1) is one abandoned request, which is
enough for a late answer to meet a later call. `MaxCalls` (2) lets EXIT be
merged with a PING or another EXIT. `MaxFd` is enough for every connection, but
7 in `Churn`, so that accept() fails until b1's descriptors come back. Each
client process of the socket version starts once; a restart would be another
process. Its runs other than `ColdStart` begin in `Connected`, the state after
the clients have connected and initialized one after the other; it is a state
`Spec` reaches.

In the RabbitMQ runs one stop (`MaxStops`) is enough for a daemon to disappear
at any moment of any client's start and for another to take over, one timeout
(`MaxTimeouts`) leaves one unclaimed answer, and two starts of one client
(`MaxStarts`) let it meet that answer. In `Store`, `CounterMod = 2` with three
payloads makes a counter wrap, `TimeMod = 2` with two clock steps a clock, and
`MaxObjects` of 2 resets a counter. In `Ns3`, two segments make a transfer that
can break in the middle, `MaxErrors = 1` breaks one, and `MaxSignals = 1` starts the
one shutdown there is (a second signal, which exits at once, is left to the
theorems). The daemon goes once, at any moment or never.

Deadlock checking is off only where the system may stop: after EXIT, after a
crash, with every client closed, when an ns-3 program has ended or hangs, or when a
bound (stores, clock, starts) is used up.

### Fairness

`DaemonFairness`: the loop runs on (weak fairness of the daemon's next step),
and since what is sent arrives after finite time, a `select()` that sees all of
it happens again and again (strong fairness of `SelectAll`: it is not
continuously enabled, as the loop is also elsewhere). `WaitFairness`: a waiting
client takes what is there; it sits in `select()` or `recv()`. No timeout is
assumed to fire and none is needed. `UseFairness`, for `Delivery` only: the
programs around the libraries keep calling `receive()` and `fetch()`, and the
simulated network hands out what it holds. No fairness for `send`, `ping`,
`exit`, connecting or leaving.

`NsbRabbit!Fairness`: a daemon that is off is started (that the operator does so
is the premise of `Answered`), its worker's loop goes on, and a client in
`initialize()` takes its answer. `NsbNs3!Fairness`: weak for the steps of the two threads, so a mutex
that stays free is taken, `post()` ends (the daemon reads, or the connection
fails) and so does a `fetch()` while the daemon is there (it has a timeout);
strong for the events of the simulator, which are only enabled between other
callbacks. No fairness of a mutex is assumed, since `std::mutex` promises none:
that a thread is passed over for ever is the exception `PassedOver` of `Carried`.
It names the two contentions that may go on for ever in the instance. The other
two, for `queueMutex` against the listener's pushes and for `simClientMutex`
against posts, end there because messages do; with messages without end they
would be exceptions too.

## Proofs

Every theorem holds for any set of clients and any bounds, from the named
assumptions of the modules (`WireAssumption`, `SocketsAssumption`,
`ConfigAssumption`, `ClientAssumption`, `DaemonAssumption`, `RabbitAssumption`,
`StoreAssumption`, `Ns3Assumption`), which TLC evaluates in every run of the
module. Where a theorem has a hypothesis of its own, it is given with the reason.
Runs and theorems complement each other: `OwnNode`, `KeysResolve` and
`OneSimulator` are checked in PUSH mode and proved in PULL mode.

### Reads and types

- `NsbWireProofs!ParseIsMerge`: `Parse(s \o t)` is the protobuf merge of
  `Parse(s)` and `Parse(t)`, for reads of any length. `Parse` is defined field
  by field; the theorem ties it to protobuf's own rule.
- `NsbSafetyProofs!TypeCorrect`: `Spec => []TypeOK`. The invariant is
  `TypeInv = TypeOK /\ BacklogKnown`: a connection in the backlog has a port,
  without which `Accept` could add a key that is no port to `fd_lookup`, and a
  flagged listening socket has a backlog. Handlers share the lemma
  `HandlerStep`: each only has to show that its records stay typed and that what
  it sends has one of the outcomes of `send()`.
- `RabbitTypeCorrect`, `StoreTypeCorrect`, `Ns3TypeCorrect`: the same for the
  other three specifications.

### Socket version: connections and registration (`NsbSafetyProofs`)

- `DescriptorsSafe`: `Spec => []DescriptorsConsistent`. The invariant `LinkInv`
  adds `TypeInv` and `EndsKnown`: a flagged descriptor stays readable until it is
  visited, a connection that was reset is one the client has closed, and only an
  open client end has data to read. Without the first, `Disconnect` could close
  the descriptor of a client that is still there.
- `LockstepSafe`: `Lockstep` in PULL mode without abandoned calls, without which
  it is false (a late answer stays on the channel). `LockInv` adds to `LinkInv`:
  `EndsFollowPc` (which ends a client has at each `pc`), `ChannelDiscipline`
  (which operations travel on which channel, so that no merge turns a request
  into another operation) and `PullConfig` (every client is in PULL mode).
- `PullOneSimulator`: `OneSimulator` in PULL mode. `StartInv` says what is on the
  CTRL channel of a client that is starting: nothing, its one request, or the
  one answer; and that no two simulators of one key are admitted or have a grant
  under way. Hypothesis `NoBlindStart`: no C++ client goes on without the answer
  to its INIT. It may after a timeout, and the property is then false.
- `Registered`: `RegisteredRight` in both modes. `RegInv` adds that `fd_lookup`
  leads from a port to the descriptor of the connection that has the port, or
  had it until its client left (`PortsLead`), and that an introduction, merged
  or not, names the client that wrote it (`KindInv`). Hypothesis `FreshPorts`: no
  two connections may be given one port; see "Seen while modelling".

### Socket version: payloads (`NsbPlaceProofs`, `NsbBridgeProofs`)

- `OnePlaceSafe`: `Spec => []OnePlace`, in both modes, with and without a
  database, whatever is merged, abandoned, reset or killed. The places of a
  payload are split into boxes (a channel in one direction, a buffer, the
  network, what a client received); `PlaceInv` says that at most one box holds a
  payload, once, and none holds one that was not sent. The lemma `DataSteps`
  reduces all actions to a few kinds, and a kind that moves a payload takes it out
  of the box it was in. With a database a key stands for what is stored under it,
  so `PlaceInv` needs `KeysKnown`: a key under way was handed out before, or
  storing a payload could make an old key stand for it.
- `PullCrossesNetwork`: `Spec => CrossesNetwork` in PULL mode, the refinement of
  `NsbBridge`. `BoxStage` gives the stage of each box, `StageIs` that `StageOf` is
  the stage of the box that holds the payload. A step that keeps boxes is a
  stutter or a loss (`KeptStays`), one that moves a payload from one box to
  another is the step of `NsbBridge` between their stages (`MovedMoves`), and
  `KindInv` says which boxes a handler can move between: the up channel of an
  application leads to `tx_buffer` only, that of a simulator to `rx_buffer`.
- `PullOwnMail`: `OwnMail` in PULL mode. `MailInv`: what is on an application's
  RECV channel is addressed to it or to nobody, through merges of requests and
  answers. Hypothesis `ReceiveAs = {}`: `receive()` is called for the client's
  own identifier, as the property presupposes.
- `PullOwnNode`: `OwnNode` in PULL and PER_NODE mode, under `NoBlindStart` (a
  client on the default configuration asks for any node). `NodeInv` is `MailInv`
  for sources, with `StartInv` for the configuration.
- `PullKeysResolve`: `KeysResolve` in PULL mode. `LiveInv` adds to `PlaceInv` that
  every key in a channel, a buffer or a merge is `Live`. Checking out a key
  empties it; that no other copy of it is under way is `OnePlace`. Hypotheses
  `NoBlindStart` and `StoresAll`: a database, no empty payloads (which are
  stored as what a missing key gives), and no Python simulator (whose `post()`
  sends the payload as its key).
- `PullAnswersMatch`: `Spec => AnswersMatch` in PULL mode without abandoned calls.
  `AskInv` adds to `LockInv` that the request on a RECV channel asks for, and
  the answer on it is about, what the client asked for last; `AnswersFew` carries
  `Lockstep` on for answers after the daemon has died, when a client may still
  call. Hypothesis `SourceHeeded`: PER_NODE mode does not replace the source
  `fetch()` is called with, which it does by design.

### Socket version: order, loss and survival (`NsbOrderProofs`)

- `PullFetchOrder` and `PullReceiveOrder`: `FetchOrder` and `ReceiveOrder` in PULL
  mode, with no other hypothesis. What an application sends comes to `fetch()`
  by its SEND channel, `tx_buffer`, the caller's RECV channel and its log; what
  is posted comes to `receive()` in the same way by `rx_buffer`. `OrderInv` says
  that on each such way the earlier of two payloads is `Ahead`: in a place
  nearer the log, or before the later one in the same place. Every step is a
  `Flow`: each sequence loses a run of positions, and what it stood for may be
  put at the end of the next sequence. `FlowAhead` shows once that a flow keeps
  the order when nothing that stays in a place was before what leaves it. For a
  channel that is so because a read takes its beginning. For a buffer it rests
  on `find_if` taking the first match, and on the two payloads matching the
  same requests: `SendsRight` says that an application signs what it sends, and
  that what stands for a posted payload is addressed as it was posted. The
  logs need `LogInv`: what was fetched is never posted before, nor posted twice.
- `PullLossOnlyByMerging`: `Spec /\ []Alive => LossOnlyByMerging` in PULL mode with
  `MayClose = {}`, timeouts and late answers included. Both hypotheses are what
  the property speaks of: a client that leaves takes what is on its channels
  with it, and so does the daemon. Each step that takes what stands for a payload
  out of a place is shown to put what stands for it in the next one, unless it
  read two messages or more. `LossInv` adds to `LogInv` what that needs.
  `DataSound`: a message with a payload has the code, the addresses and the kind
  of body its receiver insists on, and the operation it waits for; a test that
  failed would drop the payload. `Fresh`: a client that is not in use has nothing
  on its SEND and RECV channels, so a refused one takes nothing with it.
  `LinkInv` and `EndsFollowPc`: an answer goes to a client that is still there.
  `Configured`: both sides agree whether the payload or its key travels.
  Hypothesis `KeysTravel`: with a database, `NoBlindStart` and no Python simulator,
  since a payload sent where a key is looked for is lost without any merging
  (see `KeysResolve` above).
- `PullDaemonSurvives`: `Spec => []DaemonSurvives` in PULL mode with `MayClose = {}`,
  for any number of clients, refused simulators, timeouts and calls of exit().
  Then a client closes only in initialize(), refused or by its timeout. `OneInits`
  says that such a client has one request or one answer on its CTRL channel,
  `Fresh` that it has nothing on the others, and `Clean` that a connection that is
  reset has no request left to answer, since the first answer, or an answer left
  unread, is what resets it. The hypothesis is needed: see "Seen while modelling".
- `PullCalmLossOnlyByMerging`: with `MaxCalls = 0`, so that nobody calls exit(), the
  daemon runs for ever (`Steady`, part of `SurviveInv`), and `LossOnlyByMerging` follows
  without `[]Alive`. `PullData` checks it with `MaxTimeouts = 0`.

### RabbitMQ version (`NsbRabbitProofs`)

Every `recv()`, timeout, callback and `stop_listen()` is shown to be `Consumes`:
deliveries from the front of a queue to what the client holds, of which it takes
one or none.

- `RabbitQueuedSafe`, an action property: `Spec => QueuedSafe`.
- `RabbitOwnQueue`: `OwnInv` says what is in each queue and each inbox.
- `RabbitOneCopy`: `CopyInv`, boxes as above; deliveries go from the box of the
  queue to that of the inbox.
- `RabbitMailOrder`: `OrderInv`: of two payloads of one sender the earlier one is
  ahead, in each of queue, inbox and log and from one to the next. Hypothesis
  `OneName`: applications do not share an identifier, which is all that names
  the sender of a payload.
- `RabbitAnsweredOnce`: `OnceInv` counts INIT requests, answers and the start that
  is going on. Hypothesis `OwnName`: clients do not share an identifier, as
  answers are routed by it.

### Database connectors and ns-3 program

- `StoreIntact`: `Spec => []Intact`, for any widths of counter and clock and any
  number of failures of the server. `Intact` says nothing of what was stored
  before the server last went down and may still be there; `StoreInv` adds that
  it is right if it is there (`FoundRight`), and that a connection is lost, the
  server away or a key older than the last failure only if there was one
  (`DownBefore`). `store()` is the step that matters: a key that is made again
  takes the older payload out of what `Intact` speaks of, and any other leaves
  it alone.
- `StoreKeysDiffer`: `KeysInv` relates each key to the number of keys its connector
  has made: counters rise by one and wrap, so equal counters are a full turn
  apart.
- `Ns3PostedRight`: `Ns3Inv` follows a message from the listener to `post()`: until
  its connection is made it is in one place that waits (`Unstarted`); then what
  was written is in flight or in the buffer (`Segments`), and a buffer belongs to
  one connection or to the close callback that runs (`Buffers`).

### Only model-checked

- `LossOnlyByMerging`, `OwnMail`, `OwnNode`, `KeysResolve`, `CrossesNetwork` and
  `OneSimulator` in PUSH mode. There a forwarded payload goes to the descriptor in a lookup, so each
  needs `RegInv` and that the descriptor has not been reused since.
- All liveness (`Delivery`, `WaitsEnd`, `ExitHeeded`, `Answered`, `Carried`,
  `ShutdownEnds`): fairness and ENABLED are out of the prover's reach.

## Not modelled

- `SocketBackend` of `NSBUnified.cpp` and `rabbit/nsb_unified.py`: the protocol of
  `NsbClient` once more behind another interface.
- The asyncio `listen()` methods of the Python clients: tasks that repeat the
  receive calls that are modelled.
- A second `initialize()` of an rmq client whose first one threw.
- Reads that end inside a message, and full socket buffers.
- OMNeT++ and INET bindings and the UDP program of ns-3: one thread, one packet
  per message, no state between messages.
- Measurement scripts, tests, build files, generated code.

## Plan

In this order:

1. The PUSH mode of `OwnMail` and `CrossesNetwork`, on `RegInv`.
2. Reads that end inside a message, as a refinement of `Read`.
