# GatewayD in TLA+

GatewayD sits between database clients and database servers. It accepts
connections, assigns each one a backend connection from a pool, relays traffic in
both directions, runs plugins on it, and replicates the state of its load balancers
with Raft. This directory specifies its concurrent core, model-checks it with TLC on
small instances and proves its main invariants with TLAPS.

`PROJECT.json` lists every run, the source lines each definition models, the known
hazards and the findings. Source paths below are relative to the repository.

## Parts of the system

| Part | Source | State | Operations | Module |
|---|---|---|---|---|
| Pool | `pool/pool.go` | a `sync.Map`, a capacity | `Put`, `Get`, `Pop`, `Remove`, `Size`, `ForEach`, `Clear` | Proxy |
| Backend client | `network/client.go` | socket, ID, address, `connected` | `NewClient`, `Reconnect`, `ResetSession`, `Close`; `Send`, `Receive` | Proxy; Traffic, Session |
| Proxy | `network/proxy.go` | available and busy pools, scheduler | `Connect`, `Disconnect`, health check, `Shutdown`; pass-through | Proxy, Lease; Traffic |
| Request stack | `network/stack.go` | requests of one connection | push, pop, update, clear | Traffic |
| Server | `network/server.go` | status, listener, counter, connection map | `Run`, `OnOpen`, `OnTraffic`, `OnClose`, `OnShutdown`, `Shutdown` | Server; Traffic |
| Application | `cmd/gatewayd_app.go`, `cmd/run.go` | all parts, stop flag and channel | start, `stopGracefully`, signals; plugin health check | Server; Hooks |
| PostgreSQL startup | `network/pg_startup.go` | one handshake | `pgStartup`, `pgResetSession` | Session |
| Retry | `network/retry.go` | attempts | `Retry` | Session |
| Load balancers | `network/*roundrobin.go`, `consistenthash.go`, `random.go` | replicated index, weights, hash table | `NextProxy` | Balancer |
| Raft FSM | `raft/raft.go`, `raft/rpc.go` | balancing state, peer map | `Apply`, `Snapshot`, `Restore`, forwarding | Balancer, Peers |
| Cluster membership | `raft/raft.go`, `raft/rpc.go` | raft configuration, peer map | bootstrap, join, `AddPeer`, `RemovePeer`, leave, synchroniser | Peers |
| Act registry | `act/` | signals, policies, actions | `Apply`, `Run`, `RunAll` | Hooks |
| Plugin registry | `plugin/` | plugins, hooks by priority | load, register, `Run`, `Remove`, `Shutdown` | Hooks |
| Metrics merger, configuration, API, logging, tracing, tools | `metrics/`, `config/`, `api/`, `logging/`, `cmd/` | | sequential, or views of other parts | none |

### How they interact, and where it is hard

The accept loop calls `OnOpen`, which asks the load balancer for a proxy and takes a
backend client from the proxy's pool. A goroutine per connection then runs `OnTraffic`,
which starts one goroutine per direction, each running the plugins' hooks, and
`OnClose`, which recycles the client. Schedulers check the available clients and the
plugins at the same time. A signal, or a server that failed, runs `stopGracefully`,
which shuts the proxies and then the plugins down under all of them.

- No lock covers an operation on two pools, so a client may be in neither, and the
  health check may hold a client that was assigned meanwhile.
- A recycled session must be clean; each path of recycling can fail half-way.
- The traffic goroutines interrupt each other with expired deadlines, one of which is
  on a socket that outlives them.
- `Client.Close` sets the socket to nil while others test and use it.
- Starting sets status, listener and flag in separate steps, and a signal may arrive
  between any two.
- A node decides from its own copy of the replicated state, which may be behind, and
  reads it piece by piece; a command that returned an error may have been committed.
- The addresses of peers are kept beside the log, in a map that joins, the log, the
  configuration file and a synchroniser all write.
- The map of hooks has no lock; a request looks its hooks up one by one while another
  request, the health check or `Shutdown` deletes and adds some.

## Modules

**Proxy** (MCProxy, ProxyProofs). `available` and `busy` are the two pools, `id`,
`addr` and `auth` the fields of each client, `session` the session behind it,
`acc` the accept loop inside `Connect`, `pc`, `ref` and `key` the goroutine of each
connection inside `Disconnect`, `hc` the health check, `sd` `Shutdown`. Each pool
operation and each blocking call on a client is a step of its own; `Put` is two, because
it compares the size before it stores. `Range` follows a fixed order of keys with a
cursor. `Size` is one step although it counts with a `Range`. Assignments in a row
without a call between them are one step. A session is clean, used, or left: a connection
may end with a query unanswered, and a reset without error then says nothing about the
session (`session_reset`). Only a reconnect makes such a session clean again.

**Lease** (ProxyProofs) is what a proxy promises the server: clients are leased, one to a
connection, and only after the session of the last one was reset or replaced. Proxy
implements it with `lease <- busy` and `used <- session`. Server takes `Connect` and
`Disconnect` as single steps on the strength of this.

**Traffic** (TrafficStreams, TrafficProofs). One incoming connection. `c2s` and `s2c` are
the two goroutines, `main` is `OnTraffic`. `front` and `back` are what the two sockets hold
unread; a `Read` returns any part of it up to `Chunk` units, and a read that fills the
chunk is followed by another. `frontExpired` and `backExpired` are the deadlines; an
expired one comes before data and before EOF, as in Go. `busy = FALSE` at the start is a
connection whose `OnOpen` failed, and later one whose entry `Shutdown` cleared, which it
does without regard to whether it closed the client. `cl.conn` is tested in one step and
used in the next, as it is read without the lock; a use after `Close` is a panic, which
ends the process. The stack is cut at `StackBound`, which only the endless loop of
`traffic_spin` reaches. An answer of GatewayD's own is one message, to the last request
that ends in the buffer. The receive timeout is off (its default) and hooks do not change
messages.

**Server** (ServerProofs). One server with one proxy. `run` is `Server.Run`, `pc` the
goroutine of each connection, `stopper` and `ticker` the two helper goroutines, `sd`
`Server.Shutdown`, `stop` and `exited` the application. The proxy's `Shutdown` is two
steps. `OnTraffic` may end at any time and must end once its backend client is closed.
`unserved` records the connections whose `Connect` failed for another reason than an
exhausted pool. `Run` may fail at each of its returns: at the listener, at its address
(which has no port on a Unix socket), at the certificate and at an `Accept`.

**Session** (SessionProofs). One backend connection, message by message: the dial with its
retries, the handshake by each authentication method (`pc` is the place in `pgStartup` and
`pgHandleSCRAM`), the owners that lease the connection in turn, the reset and the
reconnect. `up` and `down` are the messages on their way, `phase`, `tx` and `state` the
backend. Passwords and proofs are opaque; a query either changes session state, opens a
transaction or does not.

**Balancer** (MCBalancer, BalancerProofs). Nodes that accept connections and choose
proxies with the four strategies, plain or behind consistent hashing, as `scenario` says.
`log` is the committed log, `fsm` and `applied` each node's copy and how far it is,
`snap` its snapshot, `call` its `NextProxy` in progress. Weighted round robin reads one
weight per step. `states` and `fresh` are history: the state after each command, and
whether every command so far was computed from the state it was applied to. The index
wraps at `Modulus` (2^32 in the code); the effective weights are constant. A node has the
proxies of its own configuration (`ProxyByBlock`): a block name in the table that it does
not know is a miss, and its choice replaces the entry for all nodes.

**Peers** (MCPeers, PeersProofs). `log` holds configurations and peer commands, `got` and
`pos` how much of it a node has and has applied, `peers` the map `raftPeers` of each node,
`join` the steps of `AddPeerInternal` for each joining node, `sync` the synchroniser. Any
step of `AddPeerInternal` may fail, with or without effect. A node has one `AddPeer`
request at a time; that it may give up joining is covered by not requiring `Join` to
happen. A node that leaves is removed first and shut down in a later step; raft may or may
not still send it the entry that removes it. A restart goes back to a snapshot of any
earlier moment.

**Hooks** (MCHooks, HooksProofs). The methods of one hook name. `plugins` and `hooks` are
the registry, `up` the plugin processes, `pc`, `todo`, `at`, `callee`, `value` and
`outputs` each request inside `Run`, `hc` the health check, `stopped` the shutdown.
`called` and `failed` are history: the plugins `Run` has called for a request, whether
they answered or not, and the plugins whose last load did not start them or did not
register their hooks. The health check may also reload a live plugin that did not answer.
`Apply` and `Outcomes` compute outputs and verdicts from signals as package act does. A
call of a deleted hook is a nil call and ends the process, as may a write of the map
beside another access (`MapFatal`). The asynchronous log action changes nothing here.

## Runs

Runs that pass:

| Run | Properties | What it shows |
|---|---|---|
| `proxy_recycle` | `ExclusiveAssignment`, `CleanWhenAvailable`, `NoClientLost`, `RecycleInv`, `DisconnectReturns` | a client serves one connection at a time, is handed out only after a reset or a reconnect, is put back under its own ID and is not lost while resets and handshakes fail |
| `proxy_shutdown` | `TypeOK`, `IInv`, `LeaseSpec`, `ShutdownReturns`, `DeadClientRemoved` | Proxy implements Lease with `Shutdown` under a health check that replaces clients; operations return, dead clients leave the pool |
| `traffic_sync` | `TypeOK`, `NoStaleDeadline`, `Pairing`, `C2sStopsS2c`, `ShutdownUnblocks`, `ResponseDelivered` | no expired deadline survives `OnTraffic` in the busy pool; one goroutine's end interrupts the other as long as the pool lists the connection, and a closed backend client ends both; a response is held back only where it ends with a full chunk; hooks see a response with its own request |
| `traffic_pipelined` | `RelayedInOrder`, `OrderInv` | answers reach the client complete and in order, however reads split them; `OrderInv` is why |
| `server` | `TypeOK`, `CleanFinish`, `StopExits` | a connection that ended leaves nothing behind while the server runs; a stop ends the process unless `Run` failed before its helper goroutines started |
| `session` | `TypeOK`, `PooledIdle`, `NoCrossTalk`, `HandshakeReturns` | every handshake and reset returns; unless an owner left a query unanswered, the session it leaves is idle and clean, and its next owner sees its own answers only |
| `balancer` | `ReplicasAgree`, `WeightedShare`, `ShareInv`, `RoundRobinCycles`, `Sticky` | replicas agree across crashes and snapshots; the strategies keep what they promise when decided from the current state, consistent hashing among nodes with the same proxies |
| `peers` | `VoterAnnounced`, `PeersInv`, `GhostsVanish` | a voter's address is in the log before it votes; addresses of non-members disappear |
| `hooks` | `NoGhostHook`, `CalledOnce`, `VerdictDecides`, `IInv`, `RunReturns`, `ReloadRestores` | the registry is consistent under crashes and reloads, a crashed plugin comes back unless its reload failed, and verdicts alone decide what happens to a request |

Runs in which the code departs from what a comment says of it; the finding in
`PROJECT.json` quotes the comment:

| Run | Property | Behaviour |
|---|---|---|
| `proxy_connect_race` | `ConnectAssignsOrFails` | `Connect` goes on with a nil client when the pool is refilled between two of its tests |
| `traffic_spin` | `S2cStopsC2s` | after the backend closed, the goroutine from the client loops on its expired deadline |
| `session_reset` | `ResetMakesReusable` | `pgResetSession` returns at the `ReadyForQuery` of a query its owner left unanswered; the next owner reads the answer to `DISCARD ALL` |

Other departures that TLC finds. Their properties are defined in the modules; each is
violated on the instance given, which differs from the named configuration only in what
is written here:

| Property | Instance | Behaviour | What it contradicts |
|---|---|---|---|
| `PreAuthenticated` | `MCProxyRecycle` | a connection whose handshake failed in `Reconnect` is in the pool | `gatewayd.yaml:50`, `network/client.go:181` |
| `ResolveFallbackWorks` | `MCProxyShutdown` | the client built after a failed resolution has no retry object | `network/client.go:92` |
| `NoOrphanedConnection` | `MCProxyShutdown` | an open backend socket is in no pool | `network/proxy.go:121` |
| `WithinCapacity` | `MCProxyShutdown`, `Spec`, three clients (two of them initial), three ports | the health check and a `Disconnect` both find room for the last slot, and the pool has one client too many | |
| `ShutdownClosesAll` | `MCProxyConnectRace`, two connections, two shutdowns, no symmetry | a client between two pools survives `Shutdown` | `network/proxy.go:662` |
| `ExitInterrupts` | `MCTrafficSync` | `Shutdown` clears the entry of a connection whose client it did not close; the goroutine from the server is then not interrupted | `network/server.go:346` |
| `NothingHeldBack` | `MCTrafficSync` | a response that fills the last read is held back | |
| `ClearSurvivesClose` | `MCTrafficSpin`, `Spec`, `Faults = {"shutdown"}` | `ClearBackendDeadline` uses a socket that `Close` set to nil | `network/proxy.go:752` |
| `StopAlwaysExits` | `MCServer` | after a failed `Listen`, or a listener address that does not split into host and port, nobody receives what `Shutdown` sends, and the process stays | `cmd/gatewayd_app.go:1149` |
| `GracefulExit` | `MCServer`, `Spec`, no faults | a signal during start-up ends in an exit before the stop is over | |
| `ShutdownClosesIncoming` | `MCServer`, `Spec`, no faults | incoming sockets stay open after the shutdown | |
| `WeightsBalanced` | `MCBalancer` | a command computed from weights of two states, or from a stale one, leaves the weights out of balance | `network/weightedroundrobin.go:47` |
| `StickyAnywhere` | `MCBalancer` | a node that has no proxy of the block in the table moves the source for all nodes | |
| `Synchronized` | `MCPeers` | a member whose address was lost may never be found again: the synchroniser asks only the peers it still knows | `raft/raft.go:1175` |
| `RemovalSurvived` | `MCHooks` | a hook deleted while `Run` iterates is called as a nil function | `plugin/plugin_registry.go:325` |
| `ConfigOrder` | `MCHooks` | a reloaded plugin has the priority of the first one in the file | `plugin/plugin_registry.go:479` |
| `LivePluginHooked` | `MCHooks` | the reloaded plugin replaces the hooks of the one that has that priority | |
| `ReloadAlwaysRestores` | `MCHooks` | a crashed plugin is removed before it is started again; when the start or the registration fails, nothing tries again | `cmd/gatewayd_app.go:312` |
| `ArgsPassedOn` | `MCHooks` | when the first hook fails the next one does not get the arguments | `plugin/plugin_registry.go:255` |

### Bounds

- Proxy: a pool of two, so that one client can be assigned and one available; three
  connections where they compete for the last one, one where the health check and
  `Shutdown` interleave with it; as many ports as clients, so that ports are reused.
- Traffic: a chunk of two or three units and messages below, at and above it; two or three
  requests, so that an older one can be on the stack. `Pairing` is about a client that
  waits for its answers and requests that arrive in one read. In `traffic_sync` a chunk is
  two units and a response one to three, so that a response may fill its last read.
- Server: two connections and one backend client, so that the pool is exhausted.
- Session: two owners, three queries, one retry. `MaxLeft` bounds what stays unread in a
  pooled connection.
- Balancer: two nodes that list two proxies of weights 2 and 1 in opposite orders, and a
  third that has one of them, with consistent hashing only; three commands, so that a full
  weighted round and a wrap at 3 fit; one fault with one accepting node, none with two.
- Peers: a bootstrap node and one that joins and leaves, four entries, one fault. The
  invariants are proved for any number of nodes; a third node is beyond TLC here.
- Hooks: three plugins, the last requiring the first, one request, and one crash or one
  unanswered ping (`MaxCrashes` counts both); starts, restarts, registrations, calls and
  actions may fail every time. What is proved holds for any number of requests and crashes.

Deadlock is not checked: each system may stop when its clients do nothing more or its
bounds are reached, and an exited process takes no step.

### Fairness

Weak fairness of each goroutine, which the Go scheduler gives, and of the schedulers of the
health checks. In Traffic also of the backend's answers; in Session the backend answers or
closes, because by default no deadline bounds a silent one; in Hooks a plugin answers or
its call times out; in Peers raft elects, replicates to the members, and the ticker fires.
Clients, faults, joins and signals are free. In Server, a session must end only when it has
no backend client or that client was closed: `traffic_spin` shows a case in which
`OnTraffic` does not end although the backend closed its side.

## Proofs

The theorems hold for all values of the constants under the named assumptions
(`PoolAssumption`, `TrafficAssumption`, `ServerAssumption`, `SessionAssumption`,
`BalancerAssumption`, `PeersAssumption`, `HooksAssumption`): they type the constants, keep
the placeholders apart from real values and make the order of a `Range` an order. Further
hypotheses are stated in the theorem and explained here. Each inductive invariant was
model-checked on the instances of its module before it was proved.

**Proxy** (ProxyProofs)

- `TypeCorrect`, `Exclusive`, `CleanHandout`, from `Invariance`. The invariant `IInv` adds
  to the types `Ownership` (a client referred to by a goroutine or by `busy` is nowhere
  else where it could be handed out), `AcceptLoop` (what `Connect` holds between its
  steps) and `CleanSessions` (a client that recycling has reset or is dialling again, and
  the new client of the health check, do not have a used session). A connection that ends
  with a query unanswered is excepted in the statement itself: its session is left, and
  stays left until a reconnect. Exclusiveness alone is not
  inductive: a stale reference of the health check could put an assigned client back.
- `Refinement`: Proxy implements Lease. `LeaseInv` adds that `busy` has entries of serving
  connections only and that the client in the hands of the accept loop was not used since;
  every step is then a grant, a release, a cleaning, the end of all leases or a stutter.
- `CapacityKept`, from `Recycling`, under `RecyclingOnly`: no health check, no `Shutdown`,
  no failing dial, and a capacity of at least the number of clients. Each of these loses
  clients otherwise (`NoOrphanedConnection` above, or the shared empty ID of two clients
  whose dial failed); the capacity is the pool size the clients were created for.
  `RecycleInv` says that a pooled client is connected and under its own ID and that no two
  clients share one, so that `Store` finds its key free. `RoomInPool` is the capacity
  test: as long as a `Disconnect` holds a client, a full pool would have the same client
  under two keys.

**Traffic** (TrafficStreams, TrafficProofs)

- `DeadlineCleared`. `DeadlineInv` adds `ReturnsLast`: `OnTraffic` goes on to clear the
  deadline only when neither goroutine can expire it any more. It speaks of the clients in
  the busy pool, where `ClearBackendDeadline` looks for them; a client whose entry
  `Shutdown` cleared is not recycled.
- `TrafficTyped`: the types.
- `ResponsesInOrder`, from `RelayInvariant`, for a client that does not pipeline or hooks
  that do not answer: an answer of a hook to a pipelined request overtakes the responses
  to earlier ones. `OrderInv` looks at all units between the client and the backend as two
  streams. Both are sorted, a request that can still be answered comes after all that were,
  and while both directions are open none in between is missing. TrafficStreams has the
  lemmas on what moving, appending and dropping units does to such streams, whatever their
  length; TrafficProofs shows that every step is one of these.
- `ResponsesPaired`, for a client that does not pipeline and requests that arrive in one
  read (`ReqSizes = {1}`). A request in two parts is pushed twice, and the hooks then see
  the older part beside the next response. `StackInv` says that the stack is empty or holds
  the one request that waits for its response.

**Server** (ServerProofs)

- `Finished`. `LifeInv` adds `StoppedFirst` (pools are cleared only after the status was
  set) and `Holds` (what a connection holds at each place of its goroutine).
- `ServerTyped`: the types. `CountInv` adds that the counter is the number of connections
  between its increment and its decrement, and that available and assigned clients are
  together no more than the pool had.

**Session** (SessionProofs)

- `SessionTyped`, `PooledConnectionIdle`, `OwnAnswersOnly`, from `SessionInvariant`.
  `SessionInv` says which messages are on their way at each place of the goroutine. During
  the handshake each side waits for the other (`HandshakeInv`). During a reset either
  `DISCARD ALL` is on its way, or its answer, which starts with an error unless the session
  is clean (`ResetInv`). In both cases a `ReadyForQuery` is the last message, so that
  nothing is left unread when it has arrived (`PooledInv`), and an owner meets nothing of
  an earlier one (`OwnedInv`).

**Balancer** (BalancerProofs)

- `Agreement`. `ReplicaInv` ties each copy and each snapshot to the history: both are the
  state after as many commands as they say. Agreement alone is not inductive, since a
  snapshot taken earlier may be installed later.
- `BalancerTyped`, and with it `BaseInv`, which the next three rest on: a call in progress
  whose command would still be fresh holds the command that its strategy computes from the
  state after all committed commands (`CallInv`), since only a command of its own kind
  changes the part of the state that it read (`KeptInv`).
- `SourceSticks`, for accepting nodes that have the same proxies (`Listed`). `StickyInv`:
  the table keeps what it has, and has what was served.
- `TurnsCycle`, under `Group`: each node lists a proxy once, and its cycle fits below the
  modulus. Nodes may list different proxies. `TurnInv` bounds how far the index
  has moved since each choice.
- `SharesKept`, from `WeightsAccounted`, if the distribution lists no proxy twice. `ShareInv`
  identifies a current weight with what the proxy is owed. The bound on one side is that no
  weight falls to minus the total, because the raised weights sum up to the total and so the
  selected one is positive. At
  the end of a cycle all weights are multiples of the total and sum up to 0, so all are 0.
  The symmetric bound, that no proxy falls a whole choice behind, does not hold: with
  weights 1, 1, 1, 3, 3, 3 the last proxy is behind by one after eight choices.

**Peers** (PeersProofs)

- `Announcement`, from `RequestsLogged`. `PeersInv` adds the types and that a request about
  to call `AddVoter` has its command in the log at the index it waits for.

**Hooks** (HooksProofs)

- `NoGhosts`, `OneCall`, `Verdicts`, from `Inductive`. `IInv` of Hooks adds the types and
  `CallsBehind`: a plugin that `Run` has called is registered only behind the priorities
  still to come, which a reload keeps because it registers at the first priority.
  `VerdictSoFar` does the same for the verdicts.

Facts that need an induction (the sum over a distribution, the greatest of a list) are
proved from the least number in a set of counterexamples (`Least`, `UpTo` in
BalancerProofs), because the induction theorems of the library take an operator as a
parameter, which the backends cannot instantiate.

Only model-checked: liveness, and everything else that needs fairness or `ENABLED`. Every
invariant and action property of a passing run is proved.

## Not modelled

- Configuration, logging, tracing and the command line tools are sequential; the API only
  shows the state of other parts, except for its calls of `AddPeer` and `RemovePeer`,
  which are in Peers.
- The metrics merger reads sockets and concatenates text that only the metrics endpoint
  uses.
- The queue of asynchronous actions (`act/publisher.go`) hands messages to Redis and to
  another process; nothing here waits for them.
- The lengths of backoff pauses and timeouts; a timeout may fire whenever its call is in
  progress.
- A command that was forwarded to the leader and reaches it after the caller has given up
  is committed at the moment of the failure or not at all, never later; weighted round
  robin on nodes whose configurations list different proxies.
- A client whose `Close` falls between the dial of a `Reconnect` and the assignment of its
  ID keeps a local address as its ID although it is closed.
- Several proxies behind one server, and several server groups: they share the load
  balancer, which is in Balancer, and the plugins, which are in Hooks, and nothing else.
- Hazards seen in the source and outside the modelled state: the maps of `raft/rpc.go`
  and of the metrics merger have no lock; the map `roundRobinIndex` is read by `NextProxy`
  (`raft/raft.go:772`) and written by `FSM.Apply` (`raft/raft.go:823`) without the lock that
  guards the other maps of the FSM, so that the first command of a group may meet a reader
  and the runtime then ends the process; a receive deadline, when one is configured, is
  set once at the dial; the exponential backoff can overflow before it is capped; an
  action goes on after its timeout; an effective weight ignores a later configuration.
- The contents of messages, TLS, and what plugins compute are data that no property here
  depends on.
- hashicorp/raft, gocron, gRPC and the Go runtime are external and modelled from how the
  code uses them.
