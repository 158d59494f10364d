# dubbo-rs in TLA+

Models of dubbo-rs, a Rust implementation of Apache Dubbo: how a consumer finds
providers, routes, balances, retries and filters a call; how connections are pooled
and shared; how a call is written, read and answered over five protocols; how a provider
counts, limits, breaks and shuts down; and what registries, configuration
centres, metadata storages, metrics and traces keep meanwhile. Each module is
translated from the source files named in `PROJECT.json` (`map` gives the lines of every
definition). Line numbers below are those of this commit.

    tlc -config ConnectionPool.cfg ConnectionPool.tla
    tlc -config MCPlatform.cfg MCPlatform.tla
    tlapm ConnectionPool_proofs.tla

Configurations whose module has an `MC` form (`MCServerChain`, `MCZookeeperNaming`) are
run with that module. `MCConsumer` and `MCPlatform` each check a group of modules that
share no state, side by side (section 4).

## 1. The system and its parts

A consumer calls through *filters* to a *cluster invoker*, which lists a *directory*
(fed by a *registry*), routes, balances and calls a *protocol invoker*, which takes
a connection from a *pool* and exchanges frames with a provider. There a handler
calls through the provider's filters to the service. An *Instance* owns the
provider's server, its registries and its shutdown.

| Component (crate) | State | Operations | Talks to | What is hard, and what must hold |
|---|---|---|---|---|
| Connection pool (`dubbo-remoting`, `pool`) | idle clients and `in_use` per address, under one mutex; an eviction task | `get`, drop of a connection (a spawned task), eviction, drop of the pool | `DubboInvoker`; the factory that connects | A slot is taken before an await and given up in another task; a caller may be dropped in between. Limits hold, slots are neither lost nor given up twice, exhaustion ends. |
| Reconnect (`dubbo-remoting`, `reconnect`) | attempts, current delay | `should_reconnect`, `next_delay`, `record_success/failure`, `reset` | whoever holds a connection | Two locks for one decision; a delay that must stay within its bounds. |
| Dubbo protocol (`dubbo-protocol-dubbo`) | one TCP stream per connection, a global request id | `invoke`, `request`, `handle_connection`, `export`, `un_export` | pool, server, `TimeoutFilter` | Responses are paired with requests by order; a timeout drops a caller at any await. A reply must be the caller's own; a request is served at most once; every call returns. |
| Filter chain and counting filters (`dubbo-filter`) | a flag, counters, a semaphore, a `Notify` | `invoke`, `on_response`, `shutdown`, `wait_for_shutdown` | each other, by nesting; `Instance` | Count in, await, count out: errors, rejections further in and dropped calls take different ways back. Limits hold, counts are exact, shutdown returns and the service falls silent. |
| Circuit breaker (`dubbo-filter`) | a state and two instants under three mutexes, four atomics | `is_call_permitted`, `record_success/failure` | the calls that go through it | No decision is atomic. It opens at its threshold, an open one is probed, a half-open one resolves. |
| Caches (`dubbo-filter`) | a map and the order of its keys, under two locks | `get`, `put` | calls | Capacity, expiry, many callers that miss together, an eviction between two locks. The keys used last are the ones that are kept. |
| Stateless filters and the client (`dubbo-filter`, `dubbo-client`) | the invocation context, which belongs to the caller and is used again by a retry | `invoke`, `on_response`, `dial` | each other, through the context; the provider's context, through attachments | What a filter leaves in the context is there at the next attempt. The service is asked only for calls that were let through. |
| Instance (`dubbo`) | server, registries, URLs, the shutdown filter | `start`, `shutdown` | all of the provider's side | Each step may fail and the next ones must still happen. |
| Zookeeper registry (`dubbo-registry-zookeeper`) | session, registered paths, listeners, a task per watch | `register`, `unregister`, `subscribe(_with_watcher)`, `unsubscribe`, `destroy` | ZooKeeper; the directory | Fetching and watching are two requests; watches fire once; several tasks notify the same listeners. The directory must follow the children. |
| Other registries (nacos, redis, etcd, in-memory, `MultipleRegistry`) | listeners, known instances, leases, entries to refresh | the same trait, heartbeats | their servers; the directory | Leases that nobody keeps, one entry per service, a heartbeat that puts a removed provider back, listeners told after the lock is released. |
| Registry directory (`dubbo-cluster`) | provider URLs and invokers, under two locks | `notify`, `refresh_invokers`, `list` | registry, cluster invoker | `notify` reads under one lock and writes under another. |
| Cluster invokers, routers, load balancers | retry state, the pending list of failback, round-robin and active counters, averages | `invoke`, `route`, `select`, `record_result` | directory, protocol | Retries over a list that changes; the first of several answers; counters that wrap, averages that are overwritten. Those that stayed are tried, results are earned, routes are exact. |
| Serialization and codec (`dubbo-serialization-hessian2`, `dubbo-protocol-dubbo`) | references and class definitions of a stream | encode, decode | protocols | Compact forms that meet at their bounds, references that must be numbered alike, lengths of sixteen bits. What is written is read back. |
| Protocols over HTTP (triple, grpc, jsonrpc, rest) | a channel, the two ends of a stream | `connect`, `invoke`, `recv` | tonic, hyper | Many ways to fail that end in one `RPCResult`. A failure that was answered is not a success. |
| Configuration centres | values, listeners, poll and watch tasks | `set`, `watch`, polls | their servers, application listeners | Events are sent after the value's lock is released, in spawned tasks: out of order. When all is quiet, listeners agree with the centre. |
| Metadata | a map, or nodes of a server | `store`, `get`, `remove`, lookups | their servers | Check-then-act on the server, errors that are dropped. The last of the calls counts. |
| Server and instance (`dubbo-server`, `dubbo`, `dubbo-protocol-dubbo`) | listeners, accept tasks, tasks per connection, a signal | `export`, `un_export`, `serve`, `graceful_shutdown`, `start` | tokio, tonic | A close before anybody waits for it, a server taken out of its owner. What was closed lets its address go. |
| Metrics, health, tracing | counters and histograms, checks, spans | `record`, scrape, probe, `invoke` | calls, Prometheus, exporters | A scrape in the middle of a call's records, two evaluations for one answer, spans of retries. What is shown held. |
| Configuration, URLs, extensions, code generation, TLS, logging | builders, maps, generated text | | everything | No concurrent logic: not modelled. |

`hazards` in `PROJECT.json` lists what is hard to test, line by line, and the
properties that are about it.

## 2. Plan

Written, in this order (the data path first, as everything else uses it):

1. `SocketLimit`, `ConnectionPool`, `ConnectionPool_proofs`: the pool, and the
   promise it makes, as a refinement.
2. `DubboExchange`, `DubboExchange_proofs`: invokers, connections and servers; of the
   pool it uses only that a connection has one holder.
3. `ServerChain`, `ServerChain_proofs`: the counting filters, nested in any order, with
   `Instance.shutdown()`.
4. `ZookeeperNaming`, `ZookeeperNaming_proofs`: registry, watch tasks and directory.
5. `Lists`, `Cluster`, `Routing`, `LoadBalance`: whom a call goes to.
6. `CircuitBreaker`, `P2C`, `Caches`, `Filters`, `SimplePool`: what else a consumer keeps;
   `Consumer_proofs` for this and the item before. All parts of a consumer but the breaker
   are checked by `MCConsumer`.
7. `HessianNumbers`, `Hessian2`, `DubboMessages`, `HttpProtocols`: the wire, put together in
   `Wire`; `Wire_proofs`; `Data_proofs`: numbers and lists.
8. `Registries`, `Discovery`, `ConfigCenters`, `Metadata`, `Metrics`, `Tracing`, put together
   in `Surroundings`; `Surroundings_proofs`; and `Listeners`. With the wire they are checked
   by `MCPlatform`.

Left, in the order of what they would add:

9. The ZooKeeper session: `destroy()` for subscribers, expiry and what it does to watches.
10. A directory shared by `ZookeeperNaming` and `Cluster` in one model; both have it, each
    with the operations the other part uses left to chance.
11. The conversions of generic calls and the rules of `ValidationFilter`; readers of
    configuration.

## 3. The modules

All modules share a few conventions. A step of a model is what the code does
between two points at which another task can see or change what it uses: the
critical section of a mutex, one access to an atomic, one request to a server.
Faults are chosen in the initial state (`faults`, `hazards`, `failing`, `broken`,
`plain`), so that one run covers all combinations and a property can say which ones
it needs absent. A definition whose comment starts with **Bug:** is not used by the
model: it is the definition below it with a plausible slip, and shows that
some property would catch that slip.

### ConnectionPool

`PooledConnectionPool` (`dubbo-remoting/src/lib.rs:120-430`). `stage` follows every client
through connecting, held, returning and idle; `idle`, `stale`, `inUse` are
`PoolState`; time is the number of idle clients that have outlived `idle_timeout`.
`Get` is the locked part of `get()` (reuse, reserve or exhausted), `ConnectOk`,
`ConnectErr` and `ReleaseFailed` what follows its await, `DropConnection` and
`Return` the guard's drop and the task it spawns, `Evict`, `DropPool`, `FreeState`
the eviction task and the end of the pool. The faults are a caller whose future is
dropped inside `get()` and a connection dropped outside the runtime.

Properties: `SlotsCoverBusy` (a slot is never given up twice, the saturating
subtraction never saturates), `InUseIsExactWithoutFaults`, `ExhaustionEnds`,
`DropClosesAll`, and `ImplementsSocketLimit`: never more than `MaxConn` clients of an
address are open, the idle ones and those on their way back included. That last
one is not obvious: `get()` compares the limit with `in_use` only, and reuse does not
compare at all; it holds because every eviction, reuse and return keeps
`Sockets` within what `get()` has counted.

### DubboExchange

`DubboInvoker.invoke`, `DubboClient.request`, `read_frame` and `handle_connection`. The
ends of a connection are `link`, the bytes on their way sequences of frames,
each with the id it carries and whether it is whole; `serving` is what the handler is
invoking. A caller acquires a connection (its own or from a pool), writes a
frame in two steps, and takes the next frame that comes. `Timeout` drops it at an
await (`TimeoutFilter`); with "torn", also within a frame; `Reset` breaks a connection.

`PairedWithoutTimeouts` and its reason `FreeIsClean` hold: as long as no caller is
dropped, a connection that nobody holds has nothing outstanding. `AtMostOnce`
holds under all faults, `InvokeReturns` under fairness.

### CircuitBreaker

Each access to the breaker's mutexes and atomics is a step of the caller that makes
it; `where` says which comes next. A counter is kept up to the threshold it is
compared with, an instant as "old enough". `ClosedBelowThreshold` and `HalfOpenHasRoom`
speak of calls one at a time, as the code makes no such promise for calls that
overlap; `OpenIsProbed` holds however calls overlap or are dropped.

### ServerChain

`at` and `step` are where a call is in its chain of `FilterNode`s: `Inward` is the call of
the next node, `Outward` its return. An `Err` passes by `on_response()`. `Admit` and
`CountIn` are the two atomic accesses of `GracefulShutdownFilter.invoke`, `CountOut` and
`Notify` those of `decrement_and_notify`; `Limit`, `UndoLimit` and `Unlimit` those of
`ActiveLimitFilter`; `Acquire` and `Release` the permit of `ExecuteLimitFilter`, which is
also given back when the call is dropped (`Cancel`). `Shutdown`, `Unregister`, `Wait`
and `WaitTimesOut` are `Instance.shutdown()`. `shared` says whether the instance
waits on the chain's own filter or on one that has its flag only (`from_flag`).

The limits hold whatever fails (`WithinLimits`), permits always add up
(`PermitsAddUp`), `active_count()` of the shutdown filter is exact but for calls
that were dropped (`InFlightIsExact`); that of the active limiter only if nothing further
in fails (`ActiveIsExactWithoutErrors`: an error is never counted out, see hazards).
Shutdown tells every registry it can (`UnregistersAllItCan`), returns
(`ShutdownReturns`) and leaves a service that falls silent (`FallsSilent`).

### ZookeeperNaming

`nodes` are the children of the service's node; each provider and subscriber has a
`pc`. `EnsureExists` and `EnsureCreate` are the two requests of `ensure_path`, in which
two processes can collide. A subscriber goes through `Listen`, `Snapshot`, `Announce`,
`Watch`; its task then waits for the watch to fire and goes through `Fetch`,
`Rewatch` and `Announce`. What is to be announced is the `queue` of calls of `notify()`, to
every listener there was; each call is a read and a write of the directory's list
(`ReadUrls`, `RefreshInvokers`). `plain` subscribers call `subscribe()`, which leaves
no watch. Three history variables record what the code cannot know: the first
children a subscriber saw (`snapshot`), who has missed a change between a fetch and
its watch (`missed`), and which list was overwritten by a task that had read an older
one (`raced`).

`IdleIsCurrent` says that these three are all that can go wrong: once everything is
settled, every other directory holds just the registered providers. `LoopAgrees`
relates the directory to the task's memory even when changes are missed and
requests fail. `Follows` is the liveness of both.

### Cluster

`FailoverCluster` and the seven others over `RegistryDirectory.list()`. `List` takes the
available invokers of the moment; a call then works off that `list` by position (`pos`) while
`NotifyAdd` and `NotifyRemove` change `urls` and `invokers` under it. Some providers' URLs the factory makes no
invoker of (`Makeable`). Forking has tasks in flight and a `channel`; failback a `pending` list.

`SteadyAreTried`: a failover call that gives up has asked every provider that was there all
the time, once per attempt, and a broadcast each of them once. `RemovedAreLetGo`: nobody is
asked who was gone when the list was taken. `OutcomesAreEarned`: a
success was some provider's, except those failback invents, which are the ones it
remembers. `CallsReturn`: forking too, though it waits for more answers than it started tasks.

### Routing, LoadBalance, P2C

`Routing` has the condition, tag and script routers and their chain: each router is given all
the invokers, and the positions it returns are intersected with those left; a rule is the
record its text parses to (`Parse`). `RoutesAreExact` says what the chain returns
(`RoutesWithinRules`, `NobodyIsLeftOut`) by a definition that does not mention the order of
the routers. `Lists` has what `filter()` and `retain()` leave of a list. `LoadBalance` has each `select()` as a step,
with weights after warm-up, and the shared counter of round robin, which wraps at
`CounterSize` (2^64 in the code). Random choices are a choice among `Offsets`, so that
`RandomIsWeighted` is exact. `BalancersAreTrue` is that with what warming up, round robin and
the choice of the least active promise. `P2C` has each access to a counter as a step of its own;
`ActiveIsOutstanding` is proved for any number of callers.

### Caches, Filters, SimplePool

`Caches`: two callers go through `CacheFilter` over an LRU or a TTL store; a history of the keys
touched (`touched`) is what `CacheKeepsRecent` compares the order with. `Filters`: a call goes in
and out of a consumer's chain, crosses, and goes in and out of the provider's; `ctx` is the
context of either side, and the consumer's is kept for another attempt. `ServedAreEntitled` is
about one attempt (`CallsAreEntitled`) and about two (`RepeatsAgree`). `dial()` is modelled with what it makes of the
configured filters: with a cluster the first `dial()` ignores them and a second one builds
their chain, without one the first does; once both are used up an invoker is bare. `SimplePool`: the pool whose mutex is
held over `connect().await`, and `ReconnectManager` with its two maps under two mutexes.

### HessianNumbers, Hessian2

`HessianNumbers` has the numbers as bytes, with shifts as divisions; its two round trips are
proved for all 32- and 64-bit integers. `Hessian2` runs one encoder and one decoder over a
document of values (two in the run), each the calls its encode function makes; `reader` has
the references and definitions the decoder has numbered. A text is one element of the
stream with a length (`Chars`), so that the sixteen-bit cut of a length is modelled and no
character is. `StreamRoundTrips` names the documents for which it holds (`PlainDocument`):
not, for instance, those in which a string with a reference comes beside one without, as the
encoder numbers the former only and the decoder both.

### DubboMessages, HttpProtocols

`DubboMessages` follows one exchange through header, bodies, dispatch and back; `Split` and
`ParseArguments` are what body.rs does to lengths and descriptors. `MeaningIsKept` says which
differences there may be between what was asked, seen, returned and received. `HttpProtocols`
has what the Triple, gRPC, JSON-RPC and REST invokers make of a call and of an answer;
the servers and the libraries are external. `RemoteResultsAreKept` excuses by name the
cases in which gRPC takes an error or a message cut short for an empty success.

`Wire` puts the three together and states `WireKeepsMeaning`, the conjunction of their
properties; they share no state.

### ConfigCenters, Metadata

One key, three kinds of centre: in memory, polled (Apollo, Nacos), and ZooKeeper with
watches that fire once. Events go to listeners one by one, later than the change. `since` and
`overlapped` are history: what a listener has to have heard, and whether two `set()` ran
at once. `Metadata` has the storages request by request; `latest` and `untroubled` are history.

### Registries, Discovery

`Registries`: a process registers providers and keeps them alive in Redis, etcd or Nacos, whose
server forgets what is not kept (`Tick`); `kept` says whose heartbeat runs, `told` what a
listener was there to hear. `Discovery`: the in-memory registry, where a call changes the
list first (`Alter`), reads who is listening and tells them one by one later (`clashed`: two
calls for one instance overlapped), and `MultipleRegistry`, which stops at the first registry
that fails.

`Surroundings` puts these two, the centres, metadata, metrics and traces together and states
what is checked of them in three properties: `ProvidersAreFound`, `CentersAgree` and
`MetricsAreTrue`.

### Listeners, Metrics, Tracing

`Listeners`: exports with an accept task and a task per connection, closed by a `Notify` that
keeps one permit; and the server over tonic with its builder and shutdown signal.
`un_export()` drops the future of `close()`, so that it is a step that changes nothing. `Metrics`:
a call recorded metric by metric while a scrape reads metric by metric; a probe that
evaluates status and checks twice. `Tracing`: the filters of both ends over what a context
carries, with exporters that exist or not and sampling at its two extremes.

### What the modules show about the code besides

Behaviours that the properties name as exceptions, and that a reader of the code may not
expect: the gRPC invoker takes trailers-only errors and truncated frames for an empty
success, and a stream's error for its end; `BidiStream.send` gives its message to nobody;
JSON-RPC has `Err` for a result that is null; an array of arrays is parsed as two
parameters (`body.rs`); what is longer than 65535 bytes is cut; `FailbackCluster` never retries
(:592-624, where :483-489 says it does); `RouterChain` hands every
router all the invokers and intersects, unlike its comment (:1298); round robin ignores the ratio of weights; a provider's URL from
`ServiceInstance::to_url` has no leading `/` (dubbo-registry :123); spans of retries are
children of the attempt before, and the sampled flag that comes in is ignored;
`MultipleRegistry` leaves a partial registration behind.

## 4. Runs

| Run | Expected | Bounds | Shows |
|---|---|---|---|
| `pool` | pass | 1 address, 4 clients, limit 3, 2 idle | all properties of the pool, in all combinations of faults |
| `pool_leak` | violation | the same, smaller | `InUseIsExact`: a dropped `get()` leaks its slot |
| `exchange` | pass | 2 callers, 2 connections, 3 requests | pairing, at-most-once, return of every call |
| `exchange_late` | violation | | `ReplyMatchesRequest`: after a timeout the next caller gets the late reply |
| `breaker` | pass | 2 callers, thresholds 2, 2 probes | the breaker with overlapping and dropped calls |
| `breaker_stuck` | violation | 3 successes asked for, 2 probes | `HalfOpenResolves`: half-open for ever |
| `chain` | pass | 2 calls, limits 1, 1 dropped call, 2 registrations, all 15 chains | limits, counts, shutdown |
| `chain_drain` | violation | the chain of the shutdown filter alone | `DrainedWhenCompleted`: the wait returns true with a call about to come in |
| `naming` | pass | 2 providers and 1 subscriber, 4 changes, 1 failure; 1 provider and 2 subscribers, 3 changes or 1 change and 1 failure | the directory follows the registry, but for the cases named |
| `naming_removal` | violation | 1 subscriber | `RemovalsFollow`: a provider of the snapshot that leaves is never removed |
| `consumer` | pass | one of 7 parts per behaviour, see below | what a consumer does with a call |
| `platform` | pass | one of 12 parts per behaviour, see below | what carries a call and what surrounds it |

In `consumer` and `platform` the variable `part` is chosen at the start and only the actions
of that part are taken; the variables of the others stay as they are in one of their
initial states. So the states of the parts add up and are not multiplied, and every part
is explored as if alone. `MCConsumer` extends the modules of its parts, `MCPlatform` extends
`Surroundings` and `Wire`, and instantiates the listeners.

| Part | Bounds | Property |
|---|---|---|
| cluster | 1 call, 3 providers of which 2 can be made, 1 retry, 3 forks, 4 changes, 8 strategies | `SteadyAreTried`, `OutcomesAreEarned`, `RemovedAreLetGo`, `CallsReturn` |
| routing | 3 invokers, 1 environment, 2 tags; no, one or two condition rules with up to a pair on a side, among them malformed ones; no script, one that fails, that returns nobody, that reorders, or that answers what is no position | `RoutesAreExact` |
| balance | 3 invokers, weights 0..3, counter modulo 16 | `BalancersAreTrue` |
| choices (P2C) | 2 callers, 2 invokers, latencies 0 and 7, 3 reports, 1 lost call | `ActiveIsOutstanding` |
| caches | 2 callers, 3 keys, room for 2, 2 ticks | `CacheKeepsRecent` |
| filters | 6 chains on either side, 2 tokens, 2 attempts, 2 ticks | `ServedAreEntitled` |
| pool | 3 users, 2 addresses, 3 connections, 4 failures, delays 1, 2, 3 | `PoolKeepsBooks` |
| hessian | documents of 2 values out of every kind; texts of 8, 40 and 65540 characters; integers around each bound | `WireKeepsMeaning` |
| messages | 3 sizes of payload around 65535, 5 types, 2 ids | `WireKeepsMeaning` |
| http | 4 protocols, 3 bodies, 5 verbs, 5 codes, streams of 2 | `WireKeepsMeaning` |
| config, metadata | 2 listeners, 2 clients, 2 tasks, 2 changes; 2 applications, 2 processes, 2 revisions | `CentersAgree` |
| registries, discovery, multiple | 2 providers, 2 listeners, expiry after 2 ticks, 2 operations; 2 callers, 3 calls; 3 registries | `ProvidersAreFound` |
| metrics, health, tracing | 2 calls and a scrape; 2 checks, 1 probe, 3 changes; 2 attempts | `MetricsAreTrue` |
| listeners | 2 exports, 2 addresses, 1 peer | `ClosedLetGo` |

Why the bounds are enough. Two callers are one that acts and one that interferes, and
the code treats all callers alike; limits of 1 to 3 are reached and passed; four
clients against a limit of three let one be idle, one connecting, one on its way back and one
turned away. Three requests are a late reply, the call that gets it and one after.
Four changes let a provider of the snapshot leave, come back, and a second one come
and go meanwhile; in the cluster they let one come, go and come again under a call and
another one go. A cache with room for two and three keys evicts in both orders. A heartbeat
of one tick against an expiry of two is in time once and late twice if it is not sent.
The integers around each bound are the first and last of every compact form; for all
others there is the proof. Two values in a document let the second refer to what the first
has defined. Bounds on counters that only grow (`MaxReq`, `MaxDropped`, `changes`,
`errors`, `MaxReport`, `MaxLost`, `MaxChange`, `MaxOps`, `MaxTime`, `MaxClock`, `MaxAttempt`, `MaxCalls`,
`MaxAccept`, `MaxOpen`, `MaxFail`, `MaxDocument`, `MaxStream`, `MaxRevision`) are guards.
Symmetry is not used, as the passing runs check liveness.

Deadlock is checked except in `exchange`, `naming`, `consumer` and `platform`, which may really
stop: when all requests have been made, when nothing changes any more, when a call is done.

Each `violation` run is a behaviour of the code that one of its own comments or docs
denies; `findings` in `PROJECT.json` quotes both.

## 5. Fairness

Assumed: tokio polls a task that is ready (weak fairness of every step that needs
nothing from outside), a mutex serves those that wait, timers fire, `connect()` and
services end in an answer or an error, ZooKeeper delivers the event of a watch. Not
assumed: that anybody calls, subscribes, cancels, leaves or shuts down, that idle clients
age, that bytes of a torn frame are ever completed. The breaker has strong fairness
of `Invoke`: it does nothing unless called, and a caller that is rejected comes again.
The cluster has weak fairness of the `Work` of a call (the task that polls it, and the tasks it
has spawned); `Listeners` of an accept task that starts to wait and of one that ends: its
`select!` takes a branch that stays ready in the end, since it picks at random among
those that are.

## 6. Proofs

Every theorem is about the module's own specification, for all values of its constants that
satisfy the named assumption; the fairness in a specification is never used.

`ConnectionPool_proofs` proves, for any addresses, clients and limits (`PoolAssumption`:
the set of clients is finite, the limits are naturals):

- `TypeCorrect`, `SlotsCovered`, `ExactWithoutFaults`: `TypeOK`, `SlotsCoverBusy` and
  `InUseIsExactWithoutFaults` are invariants. None is inductive alone. `IInv` adds that
  the idle list names clients in stage "idle", each once (`IdleMatches`), and that `in_use`
  covers the busy clients, with equality without faults (`Counted`). The lemmas of the
  first part say how the set of busy clients changes when one client changes its stage;
  each action is then one lemma.
- `Refines`: `Spec => ImplementsSocketLimit`. Every step maps to an `Open`, a `Close` or a stutter of
  `SocketLimit` under the refinement mapping "the clients that exist"; the lemma
  `ReserveOpens` uses `Counted` to show that a count below the limit means that there is room.

`DubboExchange_proofs` proves, for any callers, connections and number of requests
(`ExchangeAssumption`: the own connection is one of them, "no connection" is none):

- `RepliesPaired` (`PairedWithoutTimeouts`) and `GivenBackClean` (`FreeIsClean`). The code compares
  no ids, so the invariant follows a connection through its whole life (`ConnOK`): it has one
  holder; nobody's, it is clean at both ends and on the way; and its holder finds
  there its own exchange, as far as it has come (`Exchange`, `Outstanding`): a request half
  written or whole, the request being served, the reply whole or half read, or nothing,
  if the connection is broken. The lemmas `WireStep` and `CallerMoves` say what a step must show for
  the rest to follow; `NoGarbage` and `NoTornRequest` that the steps over torn frames are
  not taken at all without timeouts.
- `ServedOnce` (`AtMostOnce`), for all faults. The invariant above is of no use here, as it needs
  timeouts absent. `Once` says where an id can be: every frame is of a request of its own that
  has not been served (`OneFrameEach`), and the request of a caller that has not begun to
  write is in no frame, not served, and no other caller's (`OneCallerEach`). Every step that
  reads, tears or loses frames only takes some away (`Fewer`).

`ServerChain_proofs` proves, for any number of calls, any limits and any set of orders of
the filters (`ChainAssumption`: finitely many calls, no filter twice in a chain):

- `TypeCorrect`, `LimitsHold` (`WithinLimits`), `PermitsKept` (`PermitsAddUp`) and `InFlightExact`
  (`InFlightIsExact`). Inductive is `IInv`: with the types it says that a call that has not
  arrived is outside, that permits add up, that the in-flight count is exact, and
  `ActiveCovers`: the active count is at least the calls counted and those about to
  undo their increment, and at most the limit and those about to undo. The lemmas
  `InwardMoves`, `OutwardMoves`, `StayMoves` and `CancelMoves` say how the calls a filter counts
  change when one call moves, wherever that filter is in the chain; so the proof is
  by action and not by order of the filters.
- `ActiveExactWithoutErrors` (`ActiveIsExactWithoutErrors`): the same count with equality, as long as no
  call passes by `on_response()` and none is dropped. `UnregistersAll` (`UnregistersAllItCan`): while
  `shutdown()` unregisters, what is still registered is what it has yet to try and what cannot be
  removed; after that, only the latter (`StillRegistered`).

`ZookeeperNaming_proofs` proves, for any providers and subscribers, changes and failures
(`NamingAssumption`: a provider is no subscriber):

- `DirectoryAgrees` (`LoopAgrees`) and the types it needs (`NamingTypeCorrect`). Between two waits
  a task remembers as announced what it has announced in part only. `WillAgree` therefore
  speaks of the list that the calls of `notify()` still queued would leave (`After`): it agrees with
  the task's memory at every step, and once the queue is empty it is the directory. `LoopInv`
  says so of a subscriber as long as no other has subscribed (`Quiet`).
- `SettledIsCurrent` (`IdleIsCurrent`). Every task announces to every directory, and the last word
  may be anybody's. `FollowInv` says of each task that what it has fetched is what there is
  until its watch fires (`Known`), of each task and directory that what is still to be told
  agrees with what is remembered (`Telling`), and of each directory that what it lists or lacks
  is accounted for by what some task remembers or has yet to tell (`Listed`). Which tasks have
  fetched again since their snapshot cannot be read off the state; the invariant says that
  there is such a set of them.

`Data_proofs` proves what other proofs build on. Induction is stated with a set in the place of a
predicate (`Induction` for numbers, `ListInduction` for lists), as the provers cannot
instantiate a predicate; with it the lemmas `Keep...` say what `filter()` and `retain()` leave:
the elements, their order, each once, and what happens when one is appended. Then, for all
integers of 32 and of 64 bits:

- `IntRoundTrip`, `LongRoundTrip`: what `write_int()` and `write_long()` write in any of their forms is
  read back as it was, with as many bytes. The lemmas say of each form in which range
  its first byte is, so that the reader takes the branch of the writer.

`Consumer_proofs` proves, for any calls, providers and lists (`ClusterAssumption`, `RoutingAssumption`,
`BalanceAssumption`: the constants have their types, a chain has at most one script, there is an
invoker, and a counter can count them):

- `SteadyProvidersAreTried` (`SteadyAreTried`), `CallOutcomesAreEarned` (`OutcomesAreEarned`) and the
  action property `RemovedProvidersAreLetGo` (`RemovedAreLetGo`). The code keeps no record of whom a
  call has asked: `ClusterInv` reads it off the answers, the position and the attempt. It
  says for every strategy and place of a call who of its list was asked how often, that
  the list has everyone who stayed, and that no outcome is better than the answers.
- `RoutesExactly` (`RoutesAreExact`). Each router's result is a rising list of a set of positions;
  intersecting two such lists gives the list of the intersection (`RetainLists`), so the chain gives
  the list of those whom every router allows, in whatever order the routers are.
- `BalancedTruly` (`BalancersAreTrue`). An offset reaches the invoker in whose part of the sum it
  is, so that as many reach it as it has weight. `BalanceInv` says of round robin that
  there is a rising list of the values the counter had at the picks, and that nobody's turn is
  missing from it (`Taken`); two picks of one invoker are then at least a round apart, and
  in a round everybody has a turn. That somebody is accepted at all needs that the heaviest is
  (`HeaviestAccepted`), whatever `gcd()` returns for the others. The loop for the least active
  keeps the best of those it has seen (`LoopFacts`), by induction.

and, for any number of callers:

- `ActiveCountIsExact` (`ActiveIsOutstanding`) and `P2CTypeCorrect` (`P2CAssumption`: finitely many
  callers). They need each other: the counter is decremented without a look at it, and only that
  it is exact keeps it a natural.
- `SimplePoolKeepsBooks` (`PoolKeepsBooks`; `SimplePoolAssumption`). `PoolInv` adds who holds the
  mutexes, what an address's delay is between the counting of a failure and the storing of the
  delay, and how many users may still record a failure although the limit is reached.
- `CachesKeepRecent` (`CacheKeepsRecent`; `CachesAssumption`). `CacheInv` says by which list the history
  of the keys touched is longer than the order of the store: of a key between two locks, and
  of those evicted.
- `OpensAtThreshold` (`ClosedBelowThreshold`) and `HalfOpenAdmits` (`HalfOpenHasRoom`;
  `BreakerAssumption`: positive thresholds, and somebody calls). Both speak of the breaker at
  rest, and both are broken and repaired during a call. `BreakerInv` says for every place of
  a call what state and counters are when it is the only one (`SafeAt`), and that there is
  only one; every step of a call that is alone keeps the first, so no action needs to look at
  another caller.
- `EntitledAreServed` (`ServedAreEntitled`; `FilterAssumption`), for chains of any filters, in any order
  and as long as they like, where the run has six of them. `FilterInv` says what the filters that
  a call has passed have seen to (`Passed`, `Lets`), that the context has the caller's
  attachments and a signature of its own that is not from the future (`AttachmentsOK`), what a
  first attempt that was served says of the second (`FirstTold`), and that a result on its way
  out has met the filters behind it (`ComingOut`).

`Surroundings_proofs` proves, for any providers, listeners, callers, registries, applications, calls
and probes:

- `ProvidersFound` (`ProvidersAreFound`; `RegistryAssumption`: the heartbeat is more frequent than the
  expiry; `DiscoveryAssumption`). `RegistryInv` compares times: a kept provider has more time left than
  the next heartbeat is away (`Ahead`), and what a listener was told and does not know is on
  its way (`OnTheWay`). `DiscoveryInv` says what a directory may lack while one call for an instance is
  on its way; `MultipleInv` how far an operation has come through its registries.
- `CentersAgreeAtRest` (`CentersAgree`; `ConfigAssumption`, `MetadataAssumption`). `ConfigInv` has one
  part per kind of centre: who has yet to hear a value is on the list of the call that has
  stored it, of the task that has fetched it, or of a task that was spawned. `MetadataInv` follows
  the one call of an application that overlaps no other (`Undertakes`).
- `MeasuredTruly` (`MetricsAreTrue`; `MetricsAssumption`, `TracingAssumption`). `CollectorInv`: what was
  counted differs by what the calls being recorded still owe (`Balanced`); `HealthInv`: what a probe has
  read was so at some time since it asked; `TracingInv`: the spans that have ended and those open
  belong to one trace, and what an end carries names one of them (`Carries`).

`Wire_proofs` proves, for any strings, numbers of 64 bits, classes, types, payloads and bytes
(`HessianAssumption`: lengths are naturals, the names and fields of a class are strings;
`MessagesAssumption`: no class name has a semicolon, sizes are naturals; `HttpAssumption`: bytes
are bytes, and a message is shorter than the length of a frame can count):

- `DocumentsRoundTrip` (`StreamRoundTrips`), for documents of any length. Writing and reading are
  folds over the calls of a value, and references and definitions reach from one value into those
  before it. The proof is by one call at a time: for each operation the bytes written are read as
  what they were written for, whatever follows them in the stream (`IsReading`, with the theorems
  above for the numbers), and `Follows` relates writer and reader after as many calls: the
  definitions read are those written; the strings read are those tracked, or no reference is to
  come. `HessianInv` says that the reader is where a value begins and follows the writer as
  it was there: so it speaks of a history of the writer (`History`), of which a state has
  the last only. `FlattenSeq` and the folds are unfolded step by step (`JoinSteps`, `WriteSteps`,
  `ReadSteps`) and then by induction with a set.
- `MessageMeaningKept` (`MeaningIsKept`). `LaidOut` and `BodyIs` say at which place of a body each of its
  parts is; a payload too long for its length puts a stray item where another is wanted, and
  the body does not decode. `EndsAfter` says that a parameter ends where its descriptor does,
  if it is no array of arrays, and `SplitJoined` that joined lists are split again where they
  end. `MessageInv` says of each stage what the frame on the way is made of.
- `RemoteResultsKept` (`RemoteResultsAreKept`). `HttpInv` says that what came back is one of what the
  protocol makes of what the service did (`Came`) and the result one of what the invoker makes of
  that (`Made`), and that what was taken and what is on its way are together a beginning of
  what was emitted.
- `WireMeaningKept` (`WireKeepsMeaning`): the three together.

Every property of the passing runs that is an invariant, and `AtMostOnce`, `RemovedAreLetGo` and
`ImplementsSocketLimit`, are theorems. What is only model-checked is liveness: `DropClosesAll`,
`ExhaustionEnds`, `InvokeReturns`, `OpenIsProbed`, `HalfOpenResolves`, `ShutdownReturns`,
`FallsSilent`, `Follows`, `CallsReturn` and `ClosedLetGo`. Fairness and `ENABLED` are beyond the
prover.

## 7. What is not modelled

`components` in `PROJECT.json` gives the reason for each part. In short:

- Configuration, URLs and their parsing, errors, the map of extensions, builders: data without
  a step that another task could see half done. Code generation, macros and proxies run at
  compile time. Logger and TLS are wrappers.
- Characters. A text is an element with a length; a rule, a URL, a traceparent or a key is
  the record of what it says. The conversions between values of generic calls, and the rules
  of `ValidationFilter`, are left out.
- What tonic, hyper, axum, prost, serde_json, redis, etcd-client, zookeeper-async and the
  Nacos and Apollo servers do, beyond what the code uses of them: such definitions are marked
  external in `map`.
- The TPS limiter of `dubbo-filter` is defined inside the module of its tests.
- In the modelled parts: the ZooKeeper session of a subscriber (its end, and `destroy()` of its
  registry); `destroy()` of two configuration centres; the reasons for which an invoker becomes
  unavailable; memory orderings, which are all sequentially consistent where two
  atomics are related.
- Hazards without a property are listed with a note in `PROJECT.json`.
