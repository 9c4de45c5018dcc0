# A TLA+ verification project for rrr-proxy

rrr-proxy is a media proxy. A control server asks it, over http, for ports that
lead to a media server; clients send udp datagrams or open tcp connections to
those ports, and the proxy relays in both directions. Everything runs as tokio
tasks on a multi-threaded runtime. This project models the tasks and the
channels between them, checks them with TLC on small instances, and proves the
safety properties with TLAPS for every instance.

Paths below are relative to the repository (`src/...` is the crate's `src`).

## Inventory

| part | state | operations | talks to |
|---|---|---|---|
| **Pooled udp endpoint** `src/proxy/udp_pooled.rs` | `routes` (ufrag to target), `sessions` (session to ufrag), `clients` (address to relay and ufrag) | datagram, relay's end report, AddRoute, RemoveSession | owns relays; control messages from the manager |
| **Udp relays** `src/proxy/udp_client.rs` `ProxyClient` | a socket connected to the target, a control channel of 10 | copy replies back, take DataSent notices, idle out or fail, close and report | reports to its owner over a channel of 10; is aborted when its handler is dropped |
| **Per-session udp endpoint** `ProxyEndpoint` | `clients` (address to relay) | datagram, relay's end report, idle timer, kill | owns relays; reports to the manager |
| **Tcp endpoint and relays** `src/proxy/tcp_clients.rs` | `clients` (address to task) | accept, end of a connection, idle timer, kill; copying in both directions | reports to the manager |
| **Proxy manager** `src/proxy.rs` | actor: `udp_proxy`, `tcp_proxy` (endpoint to task); front: `udp_endpoints`, `tcp_endpoints` (port and session to endpoint), the pool and `next_pooled` | create, delete, EndpointEnded | a channel of 100 to its actor, oneshot answers |
| **Allocation API** `src/manager/endpoint.rs` | the manager behind a write lock | allocate, delete, status; timeout, load shedding | calls the manager |
| **STUN parser** `src/proxy/stun.rs` | none | `local_ufrag` | called for datagrams of unknown clients |
| **Registration** `src/manager/register.rs`, `src/main.rs` | attempts, the unbounded message channel | register, heartbeat, retry, deregister on a signal, exit | the registrar's websocket |
| Configuration, metrics, load, ebpf | - | environment, counters; ebpf is empty | - |

What is hard here, and what correctness means:

* **Pooled endpoint.** One task handles one event at a time, but handling a
  datagram awaits, and relays stop, report and are aborted meanwhile. Reports
  carry only an address, which may be served by a newer relay by the time they
  are read. Correct means: a ufrag has a target exactly while a session uses
  it; every flow goes to the target its ufrag has now; no live flow is torn
  down by a late report; no dead one stays; no relay is left over; owner and
  relay never wait for each other for good.
* **Per-session endpoint.** The same relays with another owner, which ends when
  it has lost its last client. Correct means: it ends then, it tells its
  manager once, and takes its relays with it.
* **Manager.** Requests may be dropped by the http timeout at any await while
  what they sent is still carried out; endpoints end on their own and report
  over the same bounded channel; the system reuses ports. Correct means: what a
  client was told stays known and DELETE ends it; entries of ended endpoints go;
  requests always finish. DELETE does not end everything: a tcp endpoint whose
  port number is also that of a udp entry of its session cannot be reached.
* **Manager, pooled mode.** A request posts to one of several sockets and awaits
  its acknowledgement; dropped half way, it leaves a route that nothing times
  out. Correct means: what is answered is live and stays so, what is deleted
  stays gone, and only dropped requests can leave something behind.
* **Tcp.** Connections are detached, not aborted, and outlive their endpoint; a
  connection may end before it is inserted; a target that no longer resolves
  panics the endpoint. Correct means: the endpoint ends with its last client and
  not before, and no connection stays after it has stopped. The copying loop
  drops one direction's future when the other completes and writes only once.
  Correct means: nothing out of order or twice, nothing lost, an end when a peer
  closes.
* **Registration.** Deregistrations behind load reports, on connections that end;
  attempts that are never reset. Correct means: a proxy registers only when it
  can serve, gets registered or gives up unless the server leaves an attempt without an
  answer, and does not forget to deregister.
* **STUN.** Lengths that lie, padding, values that look like headers. Correct
  means: the ufrag is the first USERNAME's, read by the attributes' structure.

`PROJECT.json` lists the hazards one by one, at their lines.

## Modules

| module | what it is |
|---|---|
| `ProxyBase` | the shared constants: addresses, targets, sessions, ufrags, `None` |
| `RouteTable` | `on_control` and `forget_ufrag_if_unused` as functions of the two tables |
| `UdpRelay` | the relay tasks: state, what an owner does to them, what they do themselves |
| `PooledUdpEndpoint` | the pooled endpoint: `RouteTable` and `UdpRelay` composed with the receive loop |
| `SessionRouting` | the abstract specification of a pooled socket: bind, unbind, open, close, reset |
| `EndpointTask` | the abstract specification of a per-session endpoint: serve, stop, report once, be killed; `FragileTaskSpec` may also panic; `TaskSafety` and `FragileTaskSafety` are their safety parts |
| `UdpEndpoint` | the per-session udp endpoint over `UdpRelay`; implements `EndpointTask` |
| `ProxyManager` | the manager in per-session mode with the API in front of it; its tasks are those of `EndpointTask` |
| `PooledAllocation` | the manager in pooled mode: allocation and deletion over several pooled sockets, whose tasks are `RouteTable`s |
| `UdpPool` | `with_udp_pool` and `bind` |
| `TcpEndpoint` | the tcp endpoint and its connections' tasks; implements `EndpointTask!FragileTaskSpec` |
| `TcpRelay` | the copying loop of one tcp connection |
| `Registration` | registration, heartbeat, signal, drain and exit |
| `Process` | `main`: `UdpPool` first, then the services of `Registration` |
| `Stun` | `local_ufrag` on byte sequences, its loop one iteration at a time, and a declarative definition of what it should return |
| `MCStun` | model checking: the words packets are made of |
| `ProxyLemmas` | lemmas several proofs use: what `RouteTable` does to the tables, what sending and taking do to a channel |
| `PooledUdpProofs`, `AllocationProofs`, `ManagerProofs`, `UdpEndpointProofs`, `TcpEndpointProofs`, `ProcessProofs` | the proofs about the module of that name (`AllocationProofs`: `PooledAllocation`; `ManagerProofs`: `ProxyManager`) |
| `ByteProofs` | the proofs about the two algorithms on bytes, `TcpRelay` and `Stun` |

An operator whose comment says "Mutant of X" is X with a plausible bug; each
property is known to fail when X is replaced by one of them. They are not part
of any specification.

### How the models correspond to the code

An action is what a task does between two points where another task can see it.

* **Loops.** `pc` is where the endpoint's `run` stands. `Receive` enters the
  handling of a datagram; `Forward` is `socket.send`, `Notify` the completion of
  `sender.send(DataSent)`, with their failures as actions of their own.
  `on_control` and the ClientEnded branch do not await and are one action each.
* **Channels** are sequences, or counters where only the number matters
  (`ctl`), with their capacity as a constant. Sending is enabled when there is
  room; it fails when the receiver is closed or gone.
* **Ownership.** `held[r]` says that a `ProxyClientHandler` of relay `r` exists.
  Every place where Rust drops one clears it; that is the abort. The task itself
  goes later, in `RelayAborted`, and until then may still take its own steps,
  because a task that another thread is polling finishes that poll.
* **Idle timers** may fire at any time: there is no clock. That allows more than
  the code does, so what is proved or passes holds for every timeout. The
  counterexamples need no implausible timing: a relay or an endpoint idles out
  while its client sends again.
* **Relay identities** are reused once the task is done and no handler exists;
  their number bounds how many relays exist at once. When none is free,
  `allocate_handler` can only fail, as it does when no socket can be bound.
* **Datagrams** on a pooled socket are an address and what `stun::local_ufrag`
  makes of them, any ufrag or `None`. `dgram.to` collects the targets one
  datagram was sent to.
* **Requests** (`ProxyManager`). `req` is the request that holds the write lock,
  `req.todo` what it still has to create, `sent` whether it awaits an answer.
  `Cancel` drops it at any await. `live` on a message says whether its oneshot
  still has a receiver. A DELETE of an unknown port and session changes nothing
  and is not an action; neither is a request that fails before the manager is
  reached. `told` records which tasks' ports went into `udp_endpoints` or
  `tcp_endpoints`, `panicked` in which sessions a tcp endpoint has panicked; both
  are for the properties only.
* **Requests in pooled mode** (`PooledAllocation`). `req.at` is the await the
  request is in: sending to the socket's channel, the acknowledgement, or the
  tcp part, which is that of `ProxyManager` and appears as answered or failed.
  `next` is `next_pooled` modulo the number of sockets (the code's counter wraps
  at 2^64, which is not reached). `told`, `gone` and `lost` record answered
  allocations, answered deletions and requests dropped half way.
* **Overtaken addresses.** `overtaken` (`UdpEndpoint`) and `reused`
  (`TcpEndpoint`) record addresses that got a new relay or connection before the
  earlier one was over and its report handled. Both owners remove clients by
  address, so these are the addresses whose newer client a late report removes.
* **Tcp endpoint.** A `JoinHandle` that is dropped detaches its task, so nothing
  aborts a connection. `insert` is a state of its own because the connection's
  task, already spawned, may run, end and report before it is in `clients`; as
  there is no await in it, the endpoint cannot be aborted there.
* **Tcp relay.** `canRead` and `canWrite` are tokio's cached readiness, which
  decides whether a future reads and writes in one poll or waits between the two.
  Bytes are their position in the stream; the send buffer has room for `SndCap`.
* **Registration.** `outgoing` is the message `forward` has taken from the
  channel; when the connection ends it is lost, which `cut` records if it was the
  deregistration. `cur_attempt` counts modulo `AttemptLimit`, as in the release
  build of the Dockerfile; `max_attempt` is any value of that width. An attempt
  that is not answered stays in "connecting".
* **STUN.** Packets grow word by word and may be truncated or get a bad header;
  at any point the parser may be called on what is there. `off` is where its
  slice `attrs` begins; each return and each iteration of its loop is an action.
  The empty sequence stands for `None`. UTF-8 is modelled for one and two bytes.
* **Pool startup.** Any pool size and base port up to the bounds; any socket may
  fail to bind. Ports are counted modulo `MaxPort + 1`, the width of a port.
* **The message channel, the maps and the lock** of the Rust libraries are
  modelled from how the code uses them; `PROJECT.json` marks what is external.

## Runs

| run | result | what it shows |
|---|---|---|
| `pooled_udp` | pass, 191,556 states | tables, flows, relays and reports stay consistent under every interleaving; no live flow falls to a late report; the endpoint implements `SessionRouting`; the loop always returns to its select, ended flows are removed, dropped relays end |
| `pooled_one_target` | violation | one datagram can reach two targets (`udp_pooled.rs:21-23`) |
| `udp_endpoint` | pass, 44,655 | no dead relay is kept for good; losing the last client ends the endpoint; a late report takes a live relay in one case only; implements `EndpointTask`, fairness included; no mutual blocking |
| `manager` | pass, 338,525 | ended endpoints are reported and their entries go, told ports stay known, an answered DELETE leaves nothing serving that was told the port, for sessions with a udp and a tcp endpoint, which may get the same port number, and tcp endpoints that panic; the two exceptions are named (`Shadowed`, `Unambiguous`); requests finish, with one slot in the channel |
| `manager_stale` | violation | a late end report kills the newer endpoint (`proxy.rs:137`) |
| `manager_shadowed` | violation | DELETE of a tcp endpoint's port is answered again and again from a dead udp entry of the same port number, and the endpoint keeps serving (`integration_test.rs:340`) |
| `allocation` | pass, 328,064 | an answered allocation is live and stays so, a deleted session stays gone, only dropped requests leave a route that DELETE cannot find; requests give the lock back |
| `tcp_endpoint` | pass, 108,588 | no dead connection is kept for good; the endpoint ends when, and but for reused addresses only when, its last client is gone; implements `EndpointTask` with panics; stopped connections finish |
| `tcp_relay` | pass, 383,441 | bytes arrive in order and once; none is lost while the receiver keeps up; a closed peer ends the relay |
| `tcp_relay_intact` | violation | under back-pressure bytes are dropped in the middle of a stream (`tcp_clients.rs:87`) |
| `process` | pass, 522,820 | pooled ports are distinct and, with a base port, in its range; a proxy that registers can serve; the deregistration is lost only with a connection; a proxy registers or ends, or hangs in one attempt the server never answers |
| `stun` | pass, 3,279,693 | the parser computes the reference definition, in which the first USERNAME decides |

The violation runs state what a comment or a test of the code says; the findings in
`PROJECT.json` quote the lines and tell the story of each counterexample.

Four more places where the code differs from its comments were met while
modelling. They are visible in the models, and the passing properties say what
holds instead:

* `udp_pooled.rs:112`, "the client relay has ended": also any other error of
  `socket.send` gets there (`ForwardFails`; the exception in `LiveFlowsSurvive`).
* `udp_client.rs:274`, "so the owner can tell this relay from a newer one": the
  per-session owner does not look (`OnClientEnded`; `EndsWithLastClient`).
* `proxy.rs:276`, "tolerating partial failures as long as one binds": a pool that
  runs past the last port fails the startup although sockets were bound
  (`ExceedsRange`).
* `stun.rs:3-4`, "anything that is not a well-formed binding request with a
  USERNAME yields None": what follows the first USERNAME is not looked at, so a
  packet whose later attribute is cut off yields a ufrag (`FoundUsername`;
  `Reference` asks only for the first USERNAME to lie within the packet).

Two more limits of the code are not in conflict with anything it says, and are
part of the property `RegistersOrEnds`: `connect_async` and the write of the
registration have no timeout, so an attempt may hang for ever (`Hangs`), and a
maximum of 65535 attempts is never exceeded by a u16.

**Bounds.** Two addresses, two targets and two sessions that share a ufrag are
enough for flows and sessions to be confused: one session reroutes or outlives
the other. Two relays, whose identities are reused, allow one address to have a
live relay and an older one on its way out, or its report. Channels have one slot
(two where messages must queue), so that being full is
the normal case; the code's 10 and 100 only make it rarer. Two endpoint tasks
let a port be reused while an older task is still ending; `manager` has
one port number, so that udp and tcp endpoints collide on it and every new
endpoint reuses a port. Two pooled sockets let a session have a route on each and
a repeated allocation go to the other one. Three connections allow one address to
have two connections while another one's ends. Five bytes with a buffer and a
send buffer of two let each direction fill both, lose bytes and go on. Attempts
counted modulo five give maxima with a first, a middle and a last attempt, and the
one that cannot be exceeded. Packets of four words hold
two attributes, one of them padded, or a header inside another attribute's value.
Five sockets over four ports reach the end of the port range from every base
port, and exhaust it. The proofs confirm that no safety property depends on the
bounds.

That a session moves from one ufrag to another takes two ufrags, which only
`pooled_one_target` has; elsewhere it is left to the theorems (`RoutesMatch`,
`FlowsFollow`, `Refinement` and `Allocated`), which hold for any set of
ufrags. `MCPooledUdp.cfg` also passes with two ufrags and one address (123,933
states), and so do its `RoutesMatchSessions`, `FlowsFollowRoutes` and
`RoutingSpec` with two of each (1,085,044 states), and the `AllocatedIsLive` of
`MCAllocation.cfg` with two ufrags and one slot (1,345,410 states); with the
other properties these instances are too large for a regular run.

**Deadlock** is checked except where the system stops: the pooled endpoint may be
shut down, a tcp relay and the process come to an end, and a packet of `Stun` is
complete. A per-session endpoint, udp or tcp, may be killed again after
its end, and the manager can always take a request.

**Fairness.** Weak fairness where a task that can proceed is polled (the loop,
the actor, the runtime's aborts). Strong fairness where a task waits for room
in a channel or a `select!` branch waits to be picked: tokio serves waiting
senders in order, and `select!` picks a ready branch at random. The abort of a tcp
endpoint is strongly fair, because it is not possible while the endpoint inserts
a connection and an endpoint that keeps accepting passes there again and again;
so is each copying direction of a tcp connection, since the other direction's
completion drops and restarts it. In `Process`, startup goes on and the two sleeps
end; nothing is assumed of a connection attempt, which may never be answered; in `TcpRelay`, silence on both streams
fires the timer. Datagrams, requests, failures, peers, signals, idle timers and
kills are never assumed to happen.

## Proofs

Every safety invariant and action property the passing runs check is a theorem,
for any sets of addresses, targets, sessions, ufrags, relays, connections and
endpoint tasks, any sizes and packets of any length. Each module has the same shape:
an inductive invariant, which TLC checked first with the constants of the
component's run (`StunInv` with packets of three words); `InitInv`; one lemma per action or kind of action; `NextInv`;
`Invariance`; and the properties, which follow from it.

**Assumptions.** They are the `ASSUME`s of the modules, which TLC evaluates on
every run: `None` is none of the values it is told apart from (`BaseAssumption`,
`RelayAssumption`, `PooledAssumption`, `TcpAssumption`, and for the requests,
answers and endpoints of the manager `ManagerAssumption` and
`AllocationAssumption`); a channel has room for one message, a pool in use has a
socket, buffers hold a byte; `Remote` is a target; packets are
made of words of four bytes and may be cut anywhere (`StunAssumption`). `AttemptAssumption`
only says that the counter has values.

* **`PooledUdpProofs`** (`PooledInv`). `FlowsFollowRoutes` says where a client's
  relay is connected, and survives the reuse of relay identities only because a
  client's relay is held (`Owned`). That no address has two relays follows from
  `Owned` read the other way: a held relay is the one its address's client has,
  or the one `on_datagram` is setting up, and then the address has no client
  (`LoopOK`). `EndedFlowsReported` rests on `RelaysOK`: a relay that left its
  loop has closed its channel, so a report that meets a client with an open
  channel cannot be that client's own, and may be dropped. Steps that remove
  clients share `RemoveClientsInv`, those that spawn a relay `SpawnInv`;
  `AddRouteGood` and `RemoveSessionGood` say what both control messages make of
  the tables. `Refinement` is `Spec => RoutingSpec`: inserting a relay is Open,
  removing the client of an address Close, control messages are Bind and
  Unbind, the end is Reset, all else stutters. `LiveSurvive` is the action
  property `LiveFlowsSurvive`. `TargetsBounded` says what the counterexample of
  `pooled_one_target` leaves standing: a datagram goes to routed targets only,
  to a second one only if it has a ufrag, and then where that ufrag leads; the
  routes do not change while a datagram is handled.
* **`AllocationProofs`** (`AllocationInv`). At most one message over all sockets
  has a waiting sender: that of the request holding the lock, the last of its
  channel (`OneWaits`). So when it is acknowledged the channel is empty
  (`EffectSeen`), and nothing a dropped request left behind can undo what was
  answered: no message is about a session that was told its ufrag
  (`ToldUndisturbed`), no AddRoute about one that was deleted
  (`GoneUndisturbed`). `Accounted` is `OnlyDroppedRequestsLeak` with the messages
  that are still to be applied. `SocketsRoute` shows that the tables of every
  single socket implement `SessionRouting`, the promise that `PooledUdpProofs`
  shows of a socket with its flows: the two views of a pooled socket agree on
  what allocations and deletions do to it. `TableBound` and `TableUnbound` of
  `ProxyLemmas` are what both refinements need of the tables.
* **`ManagerProofs`** (`ManagerInv`). Tasks that are not gone never share a port
  (`TasksOK`), so only a gone task with an entry left could take another's place
  in `known`. Its report is in the channel, and ahead of everything the present
  request sends (`StaleAhead`), because it was sent before the allocation that
  got the port ended, and requests hold the lock one after the other; so an answer never names a port that another live
  endpoint of the session was told (`AnswerFresh`). `DeletionOK` says that a
  deletion under way names the task to be killed, until it is answered.
  `DeletedKilled` rests on it; the tcp endpoints it leaves out are those behind a
  udp entry (`Shadowed`), of which `manager_shadowed` shows that DELETE never
  ends them, and those of a session with a panic.
  `NothingOrphaned`: a task that runs and was not killed is in the table under
  its own name. `OnlyNamedIsKilled` says what the counterexample of
  `manager_stale` leaves standing: the message a task is killed for names its
  endpoint, if not always that task.
* **`UdpEndpointProofs`** (`EndpointInv`). Handlers and clients match (`Owned`), so
  an abort never hits a client's relay. An address that was not overtaken has no
  other relay that could report, and no report while its relay is open (`Sole`):
  this is where "close, then report" is used. `Ends` is `EndsWithLastClient`;
  `Lifecycle` is the refinement of `EndpointTask`'s `TaskSafety`.
* **`TcpEndpointProofs`** (`TcpInv`). Between accept and insert no report is
  handled, so the report of a connection that ended that early is still there
  when its entry appears (`FreshReported`). An address that was not reused has one
  unfinished connection, the one entered or about to be, and no report (`Sole`,
  `SoleFresh`). `Closes` is `ClosesWhenUnused`; `Lifecycle` is the refinement of
  `FragileTaskSafety`.
* **`ByteProofs`**, for `TcpRelay` (`RelayInv`). A future holds the last bytes
  read, the stream it writes to was given only earlier ones, and it holds them
  across polls only after a write met a full send buffer (`Holds`). Whether they
  are written, partly written or dropped, the next write goes on behind the last
  one (`Written`).
* **`ByteProofs`**, for `Stun` (`StunInv`). The reference says where attributes
  start by the least set of offsets that has 0 and with an attribute the next
  one (`Starts`). The parser's loop stands at a member of it, and every member
  before was passed: complete, no USERNAME (`WalkOK`). An iteration keeps this
  because no start lies between an attribute and the next (`NoneSkipped`, from
  leastness); no induction over the packet is needed. When the loop returns, the
  attribute it stands at is the first USERNAME, or there is none. `UfragCorrect`
  follows; `ValidUtf8` is never expanded, so it holds for any notion of valid
  text. `WalkIsBounded`: an iteration returns or moves on by four bytes or more
  and never past the end, so the parser terminates on every packet.
* **`ProcessProofs`** (`ProcessInv`). With a base port the sockets bound so far lie
  below the next one to try (`PortsSoFar`); the sum does not wrap because
  `OutOfRange` is tested first (`AskedPort`). Nothing enters the message channel
  or leaves "connecting" before a successful startup (`ServicesAfterStartup`).
  While the agent goes on its counter is at most the maximum (`AttemptsLeft`);
  unless that is the largest u16 the next increment does not wrap, so every end of
  an attempt counts (`AttemptsAreCounted`), and there are only so many of them.
  `RegistersOrEnds` itself is liveness and stays with TLC.

**Nobody waits in vain.** Liveness itself is out of the prover's reach, but that
no wait is hopeless is a safety property. `NobodyWaitsInACircle` (both udp
endpoints): a relay in whose full control channel the owner waits for room is in
its own loop with messages to take, so it is not waiting for the owner to take
its report. `AckIsDue` and `AnswerIsDue`: a request that holds the lock and
awaits an answer still has its message in the channel; for pooled sockets this is
part of `AllocationInv`, for the manager a second induction on top of
`ManagerInv`. With the fairness of the runs, which moves every channel on, these
are why `LoopReturns`, `DatagramsHandled` and `RequestsFinish` hold.

**Only model-checked.**

* All liveness, which under fairness is out of the prover's reach: `LoopReturns`,
  `EndedFlowsReleased`, `DroppedRelaysEnd`, `DatagramsHandled`, `RequestsFinish`
  (both), `EndedEntriesRemoved`, `ConnectionsFinish`, `ClosedPeerEndsRelay`,
  `RegistersOrEnds`, and the fairness in both `LifecycleSpec`, of which the
  theorems `Lifecycle` prove the rest.
* The four violation runs, whose properties are false.

## Maintenance

Every component with state of its own is modelled, the safety properties of all
passing runs are proved, and so is what the counterexamples leave
standing (for `tcp_relay_intact` that is `NoLoss`, for `manager_shadowed`
`DeletedKilled`). When the code changes:

1. change the action, and its entry in `PROJECT.json`; run the component's run
   and its mutants first;
2. repair the action's lemma in the proof module; `NextInv` and the theorems
   stay as they are unless the invariant changes;
3. a violation run that passes is a finding that was fixed: `KilledOnlyWhenDeleted`
   then joins `manager` and replaces `OnlyNamedIsKilled`,
   `OneTargetPerDatagram` replaces `TargetsBounded`, `StreamIntact` replaces
   `LossOnlyUnderPressure`, `DeletingEnds` joins `manager` and `Shadowed`
   leaves `DeletedIsKilled`.

## Not modelled

* **Configuration** (`src/lib.rs`): reads the environment once
  into constants. **Metrics and load** (`src/manager/pmetrics.rs`, `src/manager/load.rs`): output only, nothing reads it back. **`src/ebpf`** is empty.
* The http server, its routing and load shedding are the library's and refuse
  requests before they reach the manager; the timeout is modelled, as `Cancel`.
* Payloads, the wording of responses and messages, logging; the clock (see idle
  timers); the sockets' own behaviour beyond success, failure and, for tcp
  streams, readiness and room.
* A panic of the tcp endpoint's task is modelled; running out of memory or of
  identifiers is not.
