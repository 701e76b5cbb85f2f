# Hasta-Vaquet in TLA+

Hasta-Vaquet is a VPN in Go. A client (`core/`, with a desktop GUI in `gui/`
and an Android service in `android/`) takes packets from a TUN device, encrypts
them and sends them over UDP, WebSocket or HTTP; a server (`server/`) finds the
user by the packet's ShortID, refuses replays, decrypts, and writes to its own
TUN device. This directory holds models of its concurrent parts, the TLC
configurations that check them, and proofs of their safety properties: those of
the server's packet path and registry, of the engine, of the batching transport,
of the tunnel over a network with faults, and of the Android service.

Contents: [the inventory](#inventory), [the modules](#modules-and-the-code),
[the runs](#runs), [fairness](#fairness), [the proofs](#proofs),
[what disagrees with the documents](#disagreements),
[what else the models show](#what-the-models-show-beside-the-properties),
[what is left out](#not-modelled),
[the plan](#plan).

## Inventory

| Component | State | Operations | Hard because | Correct when |
|---|---|---|---|---|
| Packet ingress (`server/server.go`) | `incomingCh`, `Peer.CP`/`cpMu`, `Peer.Writer` | readers, `processPacket`, `xhttpProcessPacket`, TUN reader | the main loop, one goroutine per POST and the TUN reader share each peer's cipher; check, set and count are separate steps | a cipher has one user at a time; no mutex outlives a packet; answers go back the way the question came |
| Replay filter (`server.go:106-145, 671-699`) | `bloom`, `bloomCount` | check, set, count, reset by two tickers | the handlers check outside any lock that covers the set; the reset is two steps | no packet is accepted by the main loop twice between resets; nothing is lost or left over; a full filter is emptied |
| Peer registry (`server/webpanel.go`, `main`) | `peers`, `ipToPeer`, `server_config.json` | create, delete, save, load at start | concurrent requests, a file rewritten in place, crashes, write errors | the maps are two indexes of one set; the file follows them; acknowledged changes survive the end of the process |
| Control panel, statistics | counters, `prevBytes*` | stats, reset, QR, client config | counters read and reset by several goroutines | speeds and totals follow the traffic |
| Engine lifecycle (`core/vpn.go`, loops of `core/vpn_windows.go`) | `running`, `stopping`, `reconnecting`, `stopCh`, `conn`, session | Start, Stop, Destroy, Reconnect; ping, reader, writer, stats, route loops | a loop restarts the engine it belongs to while the user stops it; loops read shared fields without a lock | a running engine is whole and has its loops; one ping loop; status honest; Stop returns; a dead link is handled |
| Windows tunnel and kill switch (`core/vpn_windows.go`, `core/killswitch_windows.go`) | the system's routing table, `realGateway`, `ifIndex`, read buffers, adapter, session | open, close, destroy, refresh of the server route, (de)activate; read with a time limit | commands fail silently; two refreshes may cross; the machine changes networks; two reads outstanding on one channel of results | a stopped engine has given the traffic back; the route to the server follows the gateway; one read at a time |
| Echo statistics (`core/vpn.go:270-322`) | ring of slots | push, ack, loss, reset | duplicates, the window boundary, answers without an identity | the loss shown does not exceed the keep-alives unanswered |
| Transports (`core/transport.go`) | `TransportManager`, `xhttpConn` batch and read buffer | dial by priority, write, flush, read, close | flushes by ticker, size and reader at once; failed POSTs | a packet is in exactly one POST; none stays behind; an answer is counted once |
| WebSocket server (`server/wss_server.go`) | accept channel | upgrade, read, write, close | an answer needs the path of the present connection | after a Reconnect the answers find the new connection |
| Android engine (`core/gomobile.go`, `core/vpn_android.go`, Kotlin service) | `globalVPN`, `plat.tunFile`, `isRunning`, `tunFd` | buttons, intents, StartVPN, StopVPN, polling of status | globals without a lock, main thread against start threads and the engine's own Reconnect; who closes the descriptor | a descriptor is closed once; no engine outlives a stopped service; "online" means an engine runs |
| Desktop GUI (`gui/app.go`) | `a.vpn`, profiles | DoConnect, DoDisconnect, shutdown | calls arrive on different threads | at most one engine runs |
| Formats (`protocol/cipher.go`, `protocol/quic.go`) | nonce counters | encrypt, decrypt, header encode and decode | a packet that looks like another format | what the client sends, the reader recognises |
| Health, CLI, benchmarks, pages | - | I/O and drivers | - | - |

The client's writer loop and the ping loop send to the server's readers, which
fill `incomingCh`; the main loop (or a POST handler) answers keep-alives, which
the client's reader loop takes for the sign that the link lives; silence makes
the ping loop reconnect. The panel changes the maps by which the packet path
finds its peers.

`PROJECT.json` lists the hazards of this code, each at its line and with the
properties that would catch it.

## Modules and the code

**`ReplayGuard`** is the abstract promise of the replay filter: a key is
accepted only if it was not since the last `Forget`. No bits, no threads.

**`ServerIngress`** is the packet path of `server/server.go`. A thread is the
main loop (`"main"`), the TUN reader (`"tun"`) or a net/http goroutine
(`Handlers`). Its `pc` stands at the next access to shared state:

| Steps | Code |
|---|---|
| `Receive` | the UDP and WebSocket readers put an `IncomingPacket` into `incomingCh` |
| `MainTake`, `MainSetWriter`, `MainLock`, `MainCheck`, `MainSet`, `MainCount`, `EchoLock`, `MainEcho`, `MainWrite` | `processPacket` |
| `HttpPost`, `HttpNext`, `HttpCheck`, `HttpSet`, `HttpCount`, `HttpLock`, `HttpOpen`, `EchoLock`, `HttpEcho`, `HttpWrite` | the POST handler and `xhttpProcessPacket` |
| `TunRead`, `TunLock`, `TunSend` | the TUN reader |
| `ResetTick`, `ResetFull`, `ZeroCount` | the reset goroutine; clearing the filter and zeroing the counter are two steps, as in the code |

A packet is a record of ShortID, nonce and kind: `"data"`, `"ping"` (empty
payload) or `"bad"` (Decrypt fails); encryption itself is not modelled. The
hash functions are the constant `BitsOf`, from a key to a set of bit positions,
so a false positive is possible and occurs in the instance checked. `setBy` and
`accepted` are history variables: who inserted a key since the last reset, and
how often the main loop did. They guard no action.

**`VpnLifecycle`** is `core/vpn.go` with the loops of `core/vpn_windows.go`. A
*generation* is one call of `Start` that made a stop channel; the channel, its
connection, session and loops carry its number, so `conn = stopCh` says that
the connection is that of the last Start. The loops are not bound to their
generation, as in the code: they read `v.stopCh`, `v.conn` and the session in
every iteration. `mu` is `v.mu`; Stop and Start are several steps inside it.
Callers are the thread of `DoConnect` (once), those of `DoDisconnect`, that of
the window's shutdown, and every ping loop, through `Reconnect`. Labels
`stopLock .. stopped` are `Stop`, `start .. spawn` are `Start`, `reconnect,
stop, restart` are `Reconnect`. A dial or a later step of Start may fail. `status`
is what was last emitted for the window: by the callbacks of the engine, and by
`DoDisconnect` itself after its Stop (`StopReturn`).

`VpnLifecycle` extends **`Routing`**, the routing table of Windows and the fields
of `plat` that the engine keeps of it: `NoGatewayFound`, `NoAdapter` and
`SetRoutes` are `openTunnel` after the dial, as far as it gets, `CloseRoutes` is
`closeTunnel`, `DestroyRoutes` `destroyTunnel`, `Activate`/`Deactivate` the kill
switch, `ServerRoute` and `RememberGateway` the two writes of
`refreshServerRoute`. The code discards the result of every command it runs, and
any may fail: each step leaves any of the tables that some of its commands make.
`Detected` is what `getDefaultGateway` may answer: nothing (PowerShell failed, no
gateway, or one in 10.0.0.0/8, which are `TenNet`), or the next hop of any default
route outside the tunnel, those included that the code has added before. The engine runs them inside its own steps:
`StartOpen`, `StopTunnel`, `StopConn`, `StopReturn`, `PingJudge`, and the route
monitor's `RouteTick`, `RouteAdd`, `RouteDone`, between which others may come.
`net` is the gateway of the system's default route; `GatewayMoves` changes it.
Two history variables say what the properties except: `crossed`, that a refresh ran
while another one, or an `openTunnel`, did; `undone`, what the last commands for
it did not bring about: the route to the server (`"server"`), a default route
through the gateway (`"default"`), the end of the one into the tunnel
(`"tunnel"`). They guard no action.

**`PeerRegistry`** is the panel's `createUser`, `deleteUser` and `saveConfig`,
the start of `main`, and the service manager. A save truncates the file
(`Torn`) and then fills it; either step may fail; the process may end between
any two steps (`Crash`), which leaves the file as it is; `Restart` needs a whole
file with a user in it. `os.WriteFile` does not sync: `flushed` is the file as the
machine has written it back (`WriteBack`, at any time), and `PowerLoss`, the end of
the machine, may leave that one, or a torn one. A first file may give one address
to two users: `main` refuses only a ShortID given twice, so that `Load` lets any of
them be the one `ipToPeer` finds. `last` and `promise` record what each request was
answered.

**`BatchChannel`** is the abstract promise of the batching transport: packets
are written to a queue, and a POST takes the whole queue. **`XhttpConn`** is
`xhttpConn` of `core/transport.go` with the endpoint that serves it
(`server/server.go`, `startXHTTPServer`). Threads are `writerLoop` and
`persistentPingLoop` (`Encrypt`, `WriteCopy`, `WriteAppend`, `WriterFlush`), the
flusher goroutine (`FlusherTick`, `FlusherLast`) and `readerLoop` (`ReadStart`,
`ReadEnd`). `Flush` takes the batch in one critical section; the POST is under
way outside it, and ends with `PostFails` or `PostReturns`; a request that fails
for the client may be served all the same. `flush` looks neither at the status of
the response nor at the error of `ReadAll`, so `Responses` holds whatever may then
be in `readBuf`: the answers, the first of them, or `Garbage` (a body that is not
the server's, or that ends within an answer). `ServerCheck` and `ServerAccept` are
the two critical sections of `xhttpProcessPacket`; `ResetFilter` empties the filter
between any two steps, as the reset goroutine may. `taken` records what was
accepted since. `Channel` maps `batch` to the abstract queue and the bodies of `req`
to its POSTs. Not modelled: `bodyClose`; a POST that holds a single packet without
a count (the client never sends one).

**`Transports`** holds the pure part of the datagram and stream transports:
the order in which they are tried (any dial may fail, that of a datagram socket by
the name resolution or the own system), the frame of `quicUDPConn`, the masked ShortID of `CipherPack.Encrypt` (an ID is the set of its
bits, so that the mask is a symmetric difference), and what the server's readers
take a frame for: a bare packet that looks like a QUIC frame is read with the
ShortID its two stray bytes happen to be (`stray`). **`Tunnel`** puts one client, the network and
the server on a clock of seconds: the dial (`OpenSucceeds`, `OpenFails`), the
keep-alives and the judgement (`PingWrite`, `PingPush`), a network that loses,
repeats, delays and reorders datagrams and keeps streams in order (`Tick`,
`LinkDies`), the accept loop and readers (`AcceptWS`, `ReaderEnds`,
`ServerTake`), `readerLoop` and the echo ring (`ClientRead`, `EchoAck`).
`ReadPanics` and `WritePanics` are the two ways in which the WebSocket library
ends the client. The replay filter is never reset here, and the server's step is
atomic: `ServerIngress` has both. The clock counts whole seconds: what differs by
less than one, such as the third tick of 3 s against the limit of 6 s, is equal.

**`AndroidApp`** is the Kotlin service and activity on the main thread
(`main`, `queue`), the threads that call `Core.startVPN`, the exports of
`core/gomobile.go`, and the engine with the tunnel of `core/vpn_android.go`. A
start that got a TUN has a number, which its descriptor, thread and engine
carry. `StopVPN` and `StopClears` are the two steps of `Core.stopVPN`; `PassCheck`
to `Publish` are those of `Core.startVPN`; the ping loop may call `Reconnect` at
any time. A descriptor that is closed while a Read is under way is closed when
the Read returns (`closing`), since the TUN is a blocking file; `Finalize` is
the finalizer of `os.File`. `Dies` ends the process, by a nil connection or by
the system, which then restarts the service with a null intent.

The **`MC...`** modules hold the small instances. **`ServerIngressProofs`**,
**`XhttpProofs`**, **`PeerRegistryProofs`**, **`VpnLifecycleProofs`**,
**`TunnelProofs`** (with `Transports`) and **`AndroidAppProofs`** hold the
theorems, each about the module it extends.

Definitions named `Wrong...` are faulty variants of the definition after them.
No action uses them; each, put in place of the right one, breaks the property
`PROJECT.json` pairs it with, which shows that the property depends on it.

## Runs

| Run | Instance | Shows |
|---|---|---|
| `ingress` | 1 peer, 4 packets (data, keep-alive, one that the filter takes for known, an unknown ShortID), 2 return paths, 1 handler, filter of 2; 384 thousand states | `CipherMutex`, `FreshAtCheck`, `EchoToSender`; the main loop implements `ReplayGuard` (`GuardSpec`); `Serves` and `FullIsReset` under fairness |
| `lifecycle` | DoConnect, one DoDisconnect, shutdown, 2 generations, reader and writer loops, one gateway, failing route commands; 7.3 million states | `RunningIsWhole`, `Manned`, `OnePinger`, `StatusHonest` |
| `lifecycle_live` | DoConnect, shutdown, 2 generations, route monitors, one gateway, kill switch on, failing route commands; 70 thousand states | `Manned` of these loops, `RoutesGivenBack`; `StopReturns`, `DeadLinkHandled` under fairness |
| `lifecycle_follow` | DoConnect, shutdown, 1 generation, route monitor, 3 gateways of which one is in 10.0.0.0/8, two moves, failing route commands; 172 thousand states | `FieldIsRoute`, `RoutesGivenBack`; `ServerRouteFollows` under fairness |
| `lifecycle_cipher` | DoConnect, one DoDisconnect, shutdown, 2 generations, writer loops, no move | `CipherPerGoroutine` is violated |
| `lifecycle_status` | the same | `StatusShown` is violated |
| `registry` | 2 ShortIDs, 2 addresses, of which the first file gives one to both, 2 requests at a time, 4 in all, 1 failing write, any number of ends of the process and of the machine; 1.6 million states | `Indexed`, `DiskMatches`, `AckIsDurable` |
| `registry_hot` | the same | `HotReload` is violated |
| `xhttp` | a data packet and a keep-alive in two copies each, batches of two, two POSTs; 1.3 million states | `BatchBounded`, `FlushedOnClose`, `OncePerPost`, `AnswerOnce`; it implements `BatchChannel` (`ChannelSpec`); `Flushed` under fairness |
| `tunnel` | a client with WebSocket and then UDP, one with the QUIC header; the code's times in seconds, 2 copies, 6 keep-alives, 2 connections, delay 1 s; 6.4 million states | `OneRead`, `LossBound`, `PathRecovers`, `Patient` |
| `android` | 2 configurations (symmetric), 2 starts, 3 calls by user or system; 2.6 million states | `FdClosedOnce`, `ServiceHonest`, `StatsHonest` |
| `android_recovers` | the same | `RecoversUntilStopped` is violated |

Why the bounds are enough:

- *ingress*: a race for a key needs two copies of one packet, two threads and a
  reset; for the echo path, two packets of one peer by two paths. All are in
  the instance. One packet in the TUN direction is enough to contend for
  `cpMu`. Peers share nothing but the filter and the main loop, and the packet of
  the unknown ShortID stands for the other users of both; two peers were checked
  once without the liveness (1.3 million states).
- *lifecycle*: the hazards are between one generation and the next, so two
  generations; the safety properties are proved for any number. A bound on
  `MaxGen` means that a third `Start` does not happen, so `DeadLinkHandled` and
  `StopReturns` speak of behaviours with up to two generations: `Start` past the
  bound waits before it takes `mu`, with `running` false. `lifecycle_live` has no
  DoDisconnect, since the shutdown makes the same calls, and leaves the machine
  where it is, since no call waits for a gateway.
- *lifecycle*, routes: one move makes the field and the route differ from the
  gateway, and either gateway may be the one that `closeTunnel` restores. For
  `ServerRouteFollows` the machine must leave the network it started in and may
  pass through one that `getDefaultGateway` does not see: two moves, three
  gateways. A second generation adds to it only refreshes that cross (`crossed`),
  which the property excepts. Two generations with their monitors, two gateways
  and one move were checked once for `FieldIsRoute` and `RoutesGivenBack` (4.4
  million states).
- *xhttp*: batches of two make every kind of flush happen; two POSTs under way at
  once are enough for responses to replace each other and for copies of one packet
  to meet at the server, which needs packets in two copies. Writers that fill the batch
  while both POSTs hang were checked once with five packets in one copy (4.8 million
  states). The bound on POSTs stops a flush, so `Flushed` excepts it.
- *tunnel*: six keep-alives span a whole judgement (6 s) and the first ones of
  a second connection; a ring of five slots instead of 100 makes it overflow;
  `MaxOpen` 7 lets `openTunnel` exceed the 6 s limit; a delay of 1 s is enough
  for late packets of an old connection.
- *android*: a restart, or a start after a stop, needs two starts; three calls
  are a start, a stop and one in between. A process that died can be started
  again.
- The invariants and action properties of the passing runs are all proved for every
  value of the constants, too ([below](#proofs)); what rests on the bounds alone is
  the liveness: `Serves`, `FullIsReset`, `Flushed`, `StopReturns`,
  `DeadLinkHandled`, `ServerRouteFollows`.
- *registry*: two requests compete for one ShortID or one address, and a third
  and fourth can undo them; a failing write, the end of the process and that of the
  machine can come at any step.

All runs set `CHECK_DEADLOCK FALSE`: with the bounds used up, or the engine
stopped for good, or a server whose file is torn, nothing has to happen.

Exceptions written into the properties, each something the code really does,
listed [below](#what-the-models-show-beside-the-properties):

- `RunningIsWhole` and `StatusHonest` do not speak of a state after a failed
  `Start` (the code leaves `v.conn` open and the last status standing); shutdown
  may take the session away from a generation that a concurrent Reconnect has just
  started, which `RunningIsWhole` states.
- `StatusHonest` allows an engine that runs another status after a `DoDisconnect`,
  which emits its own last (`lifecycle_status` shows what that comes to).
- `RoutesGivenBack` and `FieldIsRoute` hold unless the very commands for it failed
  (`undone`), and the first unless the session did not start after the route into
  the tunnel was set. `FieldIsRoute` and `ServerRouteFollows` except refreshes that
  met (`crossed`), `ServerRouteFollows` also a gateway hidden behind another
  default route that the code has added.
- `DiskMatches` and `AckIsDurable` except a file whose last write failed, because
  the code answers 201 all the same; `AckIsDurable` is about ends of the process:
  what the machine loses before it has written the file back, and a torn file, are
  excepted.
- `Indexed` finds a user by both keys only if the first file does not give its
  address twice; that an entry of `ipToPeer` is never a user who is gone holds of
  any file.
- `OncePerPost` speaks of the time between two resets of the filter.
- `Patient`, `PathRecovers`, `FlushedOnClose`, `ServiceHonest` and `StatsHonest`
  name their exceptions in their comments.

## Fairness

`ServerIngress!FairSpec`: weak fairness for each goroutine's own steps (the Go
scheduler), strong fairness for taking a `sync.Mutex` (a waiter of more than
1 ms switches it to first-in-first-out), weak fairness for the 5 s check of the
reset goroutine. Nothing for clients, the TUN device or the 60 s ticker.

`VpnLifecycle!FairSpec`: weak fairness for the steps of calls under way and of
the ping loop and the route monitor (their tickers fire every 3 s and every
30 s), strong fairness for `v.mu`. PowerShell may fail, or name another default
route, but not for ever: strong fairness for a tick of the monitor at which
`getDefaultGateway` finds the system's gateway, if it is not in 10.0.0.0/8 and no
default route that the code added hides it. Nothing for the user, for packets, for
the success of any other command, for the moves of the machine or for the link. A
dial is assumed to return; the TCP-based dials have time limits, a UDP dial waits at
most for the name resolution.

`XhttpConn!FairSpec`: weak fairness for the flusher's tick (5 ms), for its last
flush, and for the end of its POST (the client sets no time limit, but TCP ends
the request of a server that is gone). Nothing for the writers, the reader or
the server. `Tunnel` and `AndroidApp` state no liveness.

## Proofs

`ServerIngressProofs`, checked by TLAPS for all values of the constants under
the assumptions `PacketsAssumption`, `NamesAssumption` and `BoundsAssumption`
of `ServerIngress` (kinds of packets, `BitsOf` is a function into sets of bits,
the thread names and placeholders are distinct, bounds are naturals):

| Theorem | States |
|---|---|
| `Invariance` | `Spec => []IInv` |
| `TypeCorrect` | `Spec => []TypeOK` |
| `CiphersAreExclusive` | `Spec => []CipherMutex` |
| `AnswersGoBack` | `Spec => []EchoToSender` |
| `OnlyFreshPass` | `Spec => FreshAtCheck` |
| `MainLoopGuards` | `Spec => GuardSpec`, the refinement of `ReplayGuard` |

The inductive invariant `IInv` has, beside the invariants themselves:

- `Working`: a thread past its lookup works on a packet of a configured peer.
  Without it `cpMu[job[t].peer]` means nothing.
- `CpMuHeld`: a thread inside a cipher's critical section is the one recorded
  in `cpMu`. `CipherMutex` follows, since a mutex records one thread.
- `Counted` and `MainWindow`: a key the main loop accepted is in `setBy`, and
  between `MainCheck` and `MainSet` the main loop has not accepted its own key.
  The handlers may insert that key meanwhile, and the reset may clear it; both
  leave the main loop's promise intact, because only the main loop accepts
  there, under one pass of its sequential loop. That is why `GuardSpec` holds
  though the filter's check and set are not atomic.
- `ViaIsWriter`: from `MainSetWriter` on, the peer's `Writer` is the path of
  the packet being processed; only the main loop writes it.

`FreshAtCheck` follows from a part of `IInv`, `FilterExact`: the filter holds the
bits of what is in `setBy`. If a thread had inserted the key, all its bits would
be set, and `Fresh` false. The converse fails, by false positives. `MainLoopGuards` maps `ReplayGuard!accepted` to `accepted`:
`MainSet` is `Accept`, `Clear` is `Forget`, every other step a stutter.

`XhttpProofs`, for all values of the constants of `XhttpConn` under
`PacketsAssumption` (every packet belongs to one of the two writing loops) and
`SizesAssumption` (at least one copy, a batch limit of at least one, a natural
bound on POSTs):

| Theorem | States |
|---|---|
| `Invariance` | `Spec => []IInv` |
| `TypeCorrect` | `Spec => []TypeOK` |
| `BatchStaysShort` | `Spec => []BatchBounded` |
| `LastFlushLeavesNothing` | `Spec => []FlushedOnClose` |
| `TakenOncePerPost` | `Spec => []OncePerPost` |
| `AnswersCountOnce` | `Spec => []AnswerOnce` |
| `ImplementsChannel` | `Spec => ChannelSpec`, the refinement of `BatchChannel` |

None of the four invariants is inductive. What `IInv` adds:

- `HasJob` and `Positions`: a writer with a copy to append has a packet; a
  request that is not done has a packet at the server's position. They give the
  types of what is appended and taken.
- `FullFlushed`: the batch is shorter than the limit plus the number of writers
  that stand before their flush. A writer that appends to a full batch is
  itself before its flush afterwards; a flush, whoever's, empties the batch.
  `BatchBounded` follows, as there are two writers.
- `LastFlush`: from the flusher's last flush on (which may be a POST still
  under way) the connection is closed and the batch holds late packets only.
- `Counting`: what the server has accepted since the last reset is in the filter;
  and the packet between its check and its insertion is none of those accepted out
  of its own request, though another request, or a copy in it, may have inserted
  the same packet meanwhile. `OncePerPost` is preserved, because one goroutine
  takes the packets of a request one by one.
- `Answers`: the answers counted, those waiting in `readBuf` and those in
  responses under way are together no more than the server gave.

`ImplementsChannel` maps a flush of a batch that is not empty to `Post`,
`WriteAppend` to `Write`, and every other step to a stutter: the server and the
end of a POST change no body.

`PeerRegistryProofs`, under `ConfigAssumption` (the first file has a user;
`Nobody` is no admin; natural bounds):

| Theorem | States |
|---|---|
| `Invariance` | `Spec => []IInv` |
| `TypeCorrect` | `Spec => []TypeOK` |
| `MapsAgree` | `Spec => []Indexed` |
| `FileFollows` | `Spec => []DiskMatches` |
| `AcksAreDurable` | `Spec => []AckIsDurable` |

`DiskMatches` alone is not inductive, because `saveConfig` takes its list under
one lock and writes it under another. `IInv` follows a list through a save:
`SnapFresh` says that the list being written is that of the users, unless some
other request still has to save (and will write after this one, since
`configMu` is held from the list to the file); `DiskFresh` says the same of the
file when nobody holds `configMu`. For `AckIsDurable`, `MemoryAgrees`, `SnapAgrees` and
`DiskAgrees` carry what was promised of a user, and what the last request for
this user is about to promise, from memory to list to file. For the second half
of `Indexed` the restart needs `ListsOneToOne`: an address that the first file does
not give twice is not twice in any list or file, written back or not, whichever the
machine leaves.

`VpnLifecycleProofs`, under `CallersAssumption` (the callers are distinct, at
least one generation), `LoopsAssumption` (which loops are modelled, so that the
theorems hold for every run's choice) and `GatewaysAssumption`:

| Theorem | States |
|---|---|
| `Invariance` | `Spec => []IInv` |
| `TypeCorrect` | `Spec => []TypeOK` |
| `RunningEngineIsWhole` | `Spec => []RunningIsWhole` |
| `LoopsAreThere` | `Spec => []Manned` |
| `OnePingLoop` | `Spec => []OnePinger` |
| `StatusIsHonest` | `Spec => []StatusHonest` |
| `TrafficGivenBack` | `Spec => []RoutesGivenBack` |
| `FieldFollowsRoute` | `Spec => []FieldIsRoute` |

The invariant has three layers. `CallsInv` says who is where: `Mutex` (the labels
inside `v.mu`), `NotYet` (whoever is between his Stop and the end of a Start knows
that `running` is false, which is why no Start is refused), `Channels` and
`Building` (a new stop channel is neither closed nor read by anyone until its
connection and session are in place), and what each flag implies about the
calls under way (`StoppingIsCalled`, `ReconnectingIsCalled`, `StatusFollows`).
`HasLoops` says that the loops of a running engine wait on its own channel, or are at
the top where they will read it; it holds although `stopping` belongs to no
generation, because a loop that could see the flag set is about to lose its
engine. `RoutesInv` says where the route and the field are at each point of a
refresh (`RouteIsField`), that a default route into the tunnel is one the next
`closeTunnel` can delete (`TunDefaultGone`), and that a stopped engine has restored
one (`DefaultRestored`, which needs that a gateway is known from the first Start
on, `GatewayKnown`), each unless the command for it failed.

`TunnelProofs`, about `Tunnel` and `Transports`, for every configuration, ring,
number of copies and delay, under `TimesAssumption` (two intervals of keep-alives
fit into `reconnectTimeout`, and one interval with it into the limit of a Read:
3 s, 6 s and 10 s in the code), `SizesAssumption`, `ConfigsAssumption` (the types of the
fields) and `ShortIDAssumption` (no client has the ShortID 0,
`server/server.go:452`):

| Theorem | States |
|---|---|
| `ServerKnowsItsClient` | what `Encrypt` and `Frame` make, `ServerRead` and `Decrypt` undo, except a bare packet over UDP that looks like a frame: it cannot be opened, whoever its stray bytes name |
| `Invariance` | `Spec => []IInv` |
| `TypeCorrect` | `Spec => []TypeOK` |
| `OneReadAtATime` | `Spec => []OneRead` |
| `NotGivenUpEarly` | `Spec => Patient` |
| `LossIsBounded` | `Spec => []LossBound` |
| `PathComesBack` | `Spec => []PathRecovers` |

What `IInv` adds to the properties:

- `Clocks`: `rx` is the time of the dial plus that of the wait, and `wait` exceeds
  `Timeout` by no more than the time since the last judgement. `OneRead` follows
  from `PingEvery + Timeout < ReadWait`.
- `HeardLately`: if one of the last three keep-alives was answered, the reader
  has not waited longer than the time since that keep-alive was due. With two
  intervals in `Timeout`, `Patient` follows.
- `Numbered`: messages, slots and answers of this connection carry its own numbers,
  increasing in the ring. Between `PingWrite` and `PingPush` the newest number
  has no slot; an answer that comes so early is counted in `early`.
- `Counted`: up to any keep-alive, no more slots are open than keep-alives are
  unanswered. It is stated for every keep-alive, not only for the newest slot
  that counts as lost: `echoAck` closes the oldest open slot, whichever the
  answer was for, so a bound for one number depends on those before it.
- `ByAge` and `Path`: if `Peer.Writer` is not the present connection, either a
  keep-alive has been due for as long, or one is under way with all its copies and
  is older than the trouble, less one interval. Since messages age and are
  delivered or lost within `Delay`, `PathRecovers` follows.

`AndroidAppProofs`, under `BoundsAssumption` (natural bounds, at least one start),
for any set of configurations:

| Theorem | States |
|---|---|
| `Invariance` | `Spec => []IInv` |
| `TypeCorrect` | `Spec => []TypeOK` |
| `NoDescriptorTwice` | `Spec => []FdClosedOnce` |
| `ServiceIsHonest` | `Spec => []ServiceHonest` |
| `ScreenIsHonest` | `Spec => []StatsHonest` |

`Descriptors` says who owns a descriptor at each point of a start; `Engines`, that
whoever stopped an engine has let go of the tunnel of its own start; `Credit`, that
each `Start` of an engine uses up one tunnel, without which the type of an engine's
counter is not inductive.
`NoOverlap` is what the two promises about the truth rest on: until a start or
stop overlaps another, there is at most one start under way (`OneStart`), nothing
runs while the main thread stops or rests (`Asleep`), the engine that runs is
`globalVPN` (`Known`), and nobody else starts while a ping loop is about
(`Last`).

Each inductive invariant was first checked by TLC on the run's instance. Only
model-checked are the six liveness properties: TLAPS proves none under fairness.
`BatchChannel` and `ReplayGuard` are implemented by theorem as well as by run.

## Disagreements

Four runs show the code doing something else than a comment or document says:

- `lifecycle_cipher`: `encCP` is not used by one goroutine (`core/vpn.go:34`,
  `protocol/cipher.go:69`): a writer loop that misses the closed channel during
  a Reconnect, because it was waiting for a packet, goes on beside the new one.
- `lifecycle_status`: the window may say "disconnected" of an engine that runs
  (`00_MASTER_PLAN.md:61`): a `DoDisconnect` whose Stop found the engine stopped by
  `Reconnect` emits it after `Reconnect` has started the engine again.
- `android_recovers`: `Reconnect` is tried once, not with a backoff from 1 s to
  60 s (`00_MASTER_PLAN.md:60`), and on Android that once is no recovery
  (`core/vpn.go:150`): its Stop closes and forgets the TUN that its Start needs.
- `registry_hot`: a user created by the panel is not served without a restart
  (`00_MASTER_PLAN.md:31`): its `Peer` has no cipher, and its first packet ends
  the process, or leaves `cpMu` locked when it comes by a POST.

## What the models show beside the properties

Behaviour that the models contain because the code has it, and that no
property forbids: the exceptions named above, and what was met on the way.

Server

- `bloomCount` is not "the number of unique entries" (`server/server.go:108`): it is
  zeroed after `bloomMu` is released (line 695), so that packets counted in between
  are lost from it, and two threads that race for one packet count it twice.

Engine

- `Reconnect` is tried once on Windows too (`core/vpn.go:235`): if its Start fails,
  because the network is not back yet, the ping loop has returned and the engine
  stays down until the user connects again (`00_MASTER_PLAN.md:60` has a backoff).

Transports and tunnel

- A POST that fails loses its batch; the Writes have reported success.
- `xhttpProcessPacket` never sets `Peer.Writer`: data for an XHTTP client that
  comes from the TUN device has no way back.
- `DialXHTTP` makes no contact with the server, and the dial of `udp` and `quic`
  fails only by the own system: a server that does not answer there never leads to
  the next transport of the list.
- A reset of the filter between two copies of a packet lets the second one pass, in
  one POST too.
- `core/transport.go:264` speaks of 1000 packets in a batch; the code flushes
  at 500 (line 319).
- A WebSocket connection that goes on failing ends the client: the library
  panics at the 1000th read after an error (`vpn_windows.go:284-290`), and when
  two goroutines write at once (`transport.go:160`). There is no `recover()`,
  contrary to `08_TESTING_AND_LIMITS.md:39`.
- `Start` sets `lastPacketRx` (`vpn.go:97`) before `openTunnel`; after a slow
  WebSocket handshake the ping loop gives the new link up at its first
  judgement. That is the exception of `Patient`.
- `echoAck` takes any answer for that of the oldest keep-alive: early answers
  make the loss shown too high, the second copies of FEC make it too low.
- `server.go:602`: a frame that starts like a QUIC short header is read as one.

Routes

- The kill switch is activated with an empty address and returns at once
  (`vpn.go:231`, `killswitch_windows.go:24`), contrary to the text of
  `Settings.svelte:175`. While `Reconnect` has the tunnel down the default route is
  there, with one more that `closeTunnel` has added, also when no command has failed
  (`00_MASTER_PLAN.md:88-89` promises that nothing leaves the machine then).
- A full tunnel may run without the route to the server that `03_OS_SPECIFICS.md:5`
  calls mandatory: the result of `route add` is discarded, and the monitor, which
  compares gateways, does not repair it.
- `closeTunnel` leaves the server's host route; the default routes it restores
  are never deleted, and `getDefaultGateway` may later take one of them for the
  system's. All commands may fail unnoticed, and no later step looks whether one
  did. `openTunnel` sets no default route when the adapter has no index. A Start
  that fails after the default route was set leaves it.
- With a gateway in 10.0.0.0/8 the engine does not start, or keeps the gateway of
  the network it was in before (`vpn_windows.go:47-50`).
- The dial comes before the route to the server is corrected.
- Two refreshes that cross may leave the server's route wrong until the next
  Reconnect (`crossed`). The period is 30 s, not the 3 s of the comment
  (`vpn.go:22,254`).

Android

- `Reconnect` cannot succeed by itself, since the descriptor is used up
  (`android_recovers`); one that is late may take the descriptor of another start.
- A start refused as already running, or for its configuration, leaks the
  detached descriptor. A dial that fails leaves `plat.tunFile` open and the TUN
  device up, so the device's traffic goes nowhere.
- A stop before `globalVPN` is published leaves an engine that runs; the posted
  stop of a start that failed stops the engine of another; a restart calls
  `stopSelf`, whose `onDestroy` may stop the new engine.
- `onRevoke` leaves `isRunning` set; a service restarted by the system gets a
  null intent and does not connect again.
- A blocking Read of the TUN device delays its close; the packet that ends it
  is then written to a nil connection.
- `GetStatus` reads `androidState`, which nothing writes.

## Not modelled

- Cryptography, random numbers and the layout of packets beyond what
  `Transports` needs; the cipher's QUIC mode, which neither client nor server
  turns on, and `protocol/quic.go`, which only that mode calls; the IsQUIC branch of
  `processPacket` (no reader sets the flag) and `no_encrypt`.
- `protocol/transport.go` and `TransportManager.Fallback`: used by neither
  client nor server.
- Of the Windows tunnel: interface metrics, the IPv6 and bypass routes, the
  `vpn_only` mode, the creation of the adapter. They run in the same places as
  the routes that are modelled and are read by nothing.
- `statsLoop`, which reads counters and calls back; round-trip times; drop and
  traffic counters; log lines.
- The panel's statistics, resets, QR codes and client files; the contents of
  requests beyond ShortID and address.
- `bodyClose` of the batching transport.
- Health checks, command-line clients, benchmarks, pages, build files.

The components with status `partly` or `not_modelled` in `PROJECT.json` say
what is missing of each.

In `VpnLifecycle` a later `DoConnect` creates another engine object and is left
out; so is the time: `dead` may become true at any moment, and false when the
reader gets a packet (`Tunnel` has the clock). A nil `v.conn` met between its
test and its use ends the behaviour (`crashed`).

## Plan

Done: the packet path, the engine with its routes, the registry, the batching
transport with its abstract channel, the tunnel over a network with faults, the
Android service; proofs of all their safety properties. Left, in order of
importance:

1. An abstract specification of the engine (connected, or not, and what the user
   was told) that `VpnLifecycle` implements.
2. Properties that relate the descriptors' leaks of `AndroidApp` to the calls that
   cause them.
3. The counters of the panel: totals and speeds read and reset by several
   goroutines.
