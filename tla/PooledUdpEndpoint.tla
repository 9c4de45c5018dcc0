-------------------------- MODULE PooledUdpEndpoint --------------------------
(***************************************************************************)
(* One pooled inbound socket of src/proxy/udp_pooled.rs with the relays of *)
(* its clients.  A single task runs PooledUdpEndpoint::run: its select!    *)
(* takes a datagram, a ClientEnded report of a relay or a control message, *)
(* and handles it to the end before the next.  Handling a datagram awaits, *)
(* so relays and aborts interleave with it, but control messages and       *)
(* reports do not.  `pc` is where on_datagram stands:                      *)
(*                                                                         *)
(*   select       in the select!                                           *)
(*   forward      the address has a client: about to socket.send           *)
(*   notify       sent; awaiting sender.send(DataSent) of that client      *)
(*   route        no (longer a) client: about to look the ufrag up         *)
(*   notifyFresh  sent through a new relay; awaiting its DataSent          *)
(*   closed       the task is gone, and all it owned                       *)
(*                                                                         *)
(* A datagram is its source address and what stun::local_ufrag reads from  *)
(* it: a ufrag, or None for media and for anything not well formed.        *)
(* Control messages are taken from any sender at any time; the channel and *)
(* the acknowledgements belong to the callers' side.                       *)
(***************************************************************************)
EXTENDS RouteTable, UdpRelay

VARIABLES
  sessions,  \* session id -> ufrag
  routes,    \* ufrag -> target
  clients,   \* client address -> PooledClient [relay, ufrag]
  pc,        \* where the loop is, see above
  dgram,     \* the datagram being handled; .to: the targets it was sent to
  fresh      \* the PooledClient on_datagram has allocated, not yet inserted

loopVars == <<pc, dgram, fresh>>
tableVars == <<sessions, routes>>
vars == <<sessions, routes, clients, pc, dgram, fresh, relayVars>>

PooledClient == [relay : Relay, ufrag : Ufrag]
Datagram == [addr : Addr, ufrag : Ufrag \cup {None}, to : SUBSET Target]

ASSUME PooledAssumption ==
  None \notin PooledClient \cup Datagram \cup [ufrag : Ufrag, target : Target]

PooledTypeOK ==
  /\ RelayTypeOK
  /\ sessions \in Map(Session, Ufrag)
  /\ routes \in Map(Ufrag, Target)
  /\ clients \in Map(Addr, PooledClient)
  /\ pc \in {"select", "forward", "notify", "route", "notifyFresh", "closed"}
  /\ dgram \in Datagram \cup {None}
  /\ fresh \in PooledClient \cup {None}

Init ==
  /\ RelayInit
  /\ sessions = EmptyMap(Session)
  /\ routes = EmptyMap(Ufrag)
  /\ clients = EmptyMap(Addr)
  /\ pc = "select"
  /\ dgram = None
  /\ fresh = None

-----------------------------------------------------------------------------
(* Helpers *)

(* self.clients without the addresses in A; dropping a client aborts its relay. *)
RemoveClients(A) ==
  /\ clients' = [a \in Addr |-> IF a \in A THEN None ELSE clients[a]]
  /\ DropHandlers({clients[a].relay : a \in {b \in A : clients[b] # None}})

(* drop_clients for every ufrag in U *)
FlowsOf(U) == {a \in Addr : clients[a] # None /\ clients[a].ufrag \in U}

(* Mutant of Stale: a report removes whatever relay serves the address. *)
StaleAny(a) == clients[a] # None

(* Mutant of Stale: the is_closed() test is the wrong way round. *)
StaleInverted(a) == clients[a] # None /\ rxOpen[clients[a].relay]

(* clients.get(&addr).is_some_and(|c| c.handler.sender.is_closed()) *)
Stale(a) == clients[a] # None /\ ~rxOpen[clients[a].relay]

Routable == dgram.ufrag # None /\ routes[dgram.ufrag] # None

BackToSelect == pc' = "select" /\ dgram' = None /\ fresh' = None

-----------------------------------------------------------------------------
(* on_datagram *)

(* recv_from yields a datagram from address a. *)
Receive(a, u) ==
  /\ pc = "select"
  /\ pc' = IF clients[a] # None THEN "forward" ELSE "route"
  /\ dgram' = [addr |-> a, ufrag |-> u, to |-> {}]
  /\ UNCHANGED <<clients, fresh, tableVars, relayVars>>

(* socket.send(data) succeeds on the socket of the client's relay. *)
Forward ==
  /\ pc = "forward"
  /\ pc' = "notify"
  /\ dgram' = [dgram EXCEPT !.to = @ \cup {rtarget[clients[dgram.addr].relay]}]
  /\ UNCHANGED <<clients, fresh, tableVars, relayVars>>

(* Mutant of GiveUpClient: routes afresh without removing the client. *)
GiveUpClientKept == pc' = "route" /\ UNCHANGED <<clients, dgram, fresh, tableVars, relayVars>>

(* Either half of ProxyClient::send failed: forget the client, route afresh. *)
GiveUpClient ==
  /\ pc' = "route"
  /\ RemoveClients({dgram.addr})
  /\ UNCHANGED <<dgram, fresh, tableVars, task, raddr, rtarget, ctl, rxOpen, ended>>

(* socket.send(data) fails, e.g. with a pending ICMP error. *)
ForwardFails == pc = "forward" /\ GiveUpClient

(* sender.send(DataSent) completes, and on_datagram with it. *)
Notify ==
  /\ pc = "notify"
  /\ PostDataSent(clients[dgram.addr].relay)
  /\ BackToSelect
  /\ UNCHANGED <<clients, tableVars>>

(* sender.send(DataSent) fails: the relay has closed its control channel. *)
NotifyFails ==
  /\ pc = "notify"
  /\ ~rxOpen[clients[dgram.addr].relay]
  /\ GiveUpClient

(* No route for the datagram: it is counted and dropped. *)
DropUnroutable ==
  /\ pc = "route" /\ ~Routable
  /\ BackToSelect
  /\ UNCHANGED <<clients, tableVars, relayVars>>

(* allocate_handler fails to bind or to connect; the datagram is lost. *)
AllocateFails ==
  /\ pc = "route" /\ Routable
  /\ BackToSelect
  /\ UNCHANGED <<clients, tableVars, relayVars>>

(* allocate_handler succeeds and the new relay's socket takes the datagram. *)
Allocate(r) ==
  /\ pc = "route" /\ Routable
  /\ Spawn(r, dgram.addr, routes[dgram.ufrag], TRUE)
  /\ fresh' = [relay |-> r, ufrag |-> dgram.ufrag]
  /\ dgram' = [dgram EXCEPT !.to = @ \cup {routes[dgram.ufrag]}]
  /\ pc' = "notifyFresh"
  /\ UNCHANGED <<clients, tableVars>>

(* The new relay's socket refuses the datagram: its handler is dropped. *)
AllocateSendFails(r) ==
  /\ pc = "route" /\ Routable
  /\ Spawn(r, dgram.addr, routes[dgram.ufrag], FALSE)
  /\ BackToSelect
  /\ UNCHANGED <<clients, tableVars>>

(* The new relay is notified and becomes the client of the address. *)
NotifyFresh ==
  /\ pc = "notifyFresh"
  /\ PostDataSent(fresh.relay)
  /\ clients' = [clients EXCEPT ![dgram.addr] = fresh]
  /\ BackToSelect
  /\ UNCHANGED tableVars

(* The new relay has already ended: its handler is dropped. *)
NotifyFreshFails ==
  /\ pc = "notifyFresh"
  /\ ~rxOpen[fresh.relay]
  /\ DropHandlers({fresh.relay})
  /\ BackToSelect
  /\ UNCHANGED <<clients, tableVars, task, raddr, rtarget, ctl, rxOpen, ended>>

OnDatagram ==
  \/ Forward \/ ForwardFails \/ Notify \/ NotifyFails
  \/ DropUnroutable \/ AllocateFails
  \/ \E r \in Relay : Allocate(r) \/ AllocateSendFails(r)
  \/ NotifyFresh \/ NotifyFreshFails

-----------------------------------------------------------------------------
(* The other branches of the select! *)

(* client_rx.recv() yields ClientEnded { addr }: the address may already be *)
(* served by a newer relay, which stays.                                    *)
OnClientEnded ==
  /\ pc = "select" /\ ended # <<>>
  /\ ended' = Tail(ended)
  /\ RemoveClients({a \in {Head(ended)} : Stale(a)})
  /\ UNCHANGED <<loopVars, tableVars, task, raddr, rtarget, ctl, rxOpen>>

(* on_control installs the tables `tb` and drops the flows it lost. *)
Install(tb) ==
  /\ sessions' = tb.sessions
  /\ routes' = tb.routes
  /\ RemoveClients(FlowsOf(tb.dropped))
  /\ UNCHANGED <<loopVars, task, raddr, rtarget, ctl, rxOpen, ended>>

OnAddRoute(s, u, t) == pc = "select" /\ Install(AddRoute(sessions, routes, s, u, t))

OnRemoveSession(s) == pc = "select" /\ Install(RemoveSession(sessions, routes, s))

(* The PooledUdpEndpointHandler is dropped: run() is aborted at whatever    *)
(* await it is in, or finds the control channel closed and breaks.  Its     *)
(* maps go, every ProxyClientHandler with them, and the report channel.     *)
Shutdown ==
  /\ pc # "closed"
  /\ pc' = "closed" /\ dgram' = None /\ fresh' = None
  /\ sessions' = EmptyMap(Session)
  /\ routes' = EmptyMap(Ufrag)
  /\ clients' = EmptyMap(Addr)
  /\ DropHandlers(Relay)
  /\ ended' = <<>>
  /\ UNCHANGED <<task, raddr, rtarget, ctl, rxOpen>>

Up == pc # "closed"

Relays ==
  \E r \in Relay : RelayStep(r, Up) /\ UNCHANGED <<clients, tableVars, loopVars>>

Next ==
  \/ \E a \in Addr, u \in Ufrag \cup {None} : Receive(a, u)
  \/ OnDatagram
  \/ OnClientEnded
  \/ \E s \in Session, u \in Ufrag, t \in Target : OnAddRoute(s, u, t)
  \/ \E s \in Session : OnRemoveSession(s)
  \/ Shutdown
  \/ Relays

Spec == Init /\ [][Next]_vars

(***************************************************************************)
(* Fairness.  The runtime polls every task that can make progress; tokio's *)
(* bounded channels serve waiting senders first come, first served, so a   *)
(* relay waiting to report is not overtaken for ever; and select! picks    *)
(* among its ready branches at random, so a report is taken even while     *)
(* datagrams keep arriving.  Datagrams, control messages, socket errors,   *)
(* the idle timer and the shutdown are never required to happen.           *)
(***************************************************************************)
RelayProgress(r) ==
  /\ \/ RelayConsume(r) \/ RelayReport(r, Up) \/ RelayExit(r) \/ RelayAborted(r)
  /\ UNCHANGED <<clients, tableVars, loopVars>>

FairSpec ==
  /\ Spec
  /\ WF_vars(OnDatagram)
  /\ SF_vars(OnClientEnded)
  /\ \A r \in Relay : SF_vars(RelayProgress(r))

-----------------------------------------------------------------------------
(* Properties *)

(* A ufrag has a target exactly while some session uses it: sharing a      *)
(* ufrag, moving a session to another one and removing sessions in any     *)
(* order neither lose a live session's route nor leave one behind          *)
(* (on_control, forget_ufrag_if_unused).                                   *)
RoutesMatchSessions == \A u \in Ufrag : routes[u] # None <=> InUse(sessions, u)

(* Client c can serve address a: its relay sends to the target its ufrag   *)
(* has now, and answers to a.                                              *)
Serves(c, a) ==
  /\ raddr[c.relay] = a
  /\ routes[c.ufrag] # None
  /\ rtarget[c.relay] = routes[c.ufrag]

(* No flow outlives its route: whatever sequence of reroutes, moves,       *)
(* removals, relay ends and reallocations led here, the relay of every     *)
(* client, and the one on_datagram is about to insert, is connected to the *)
(* target its ufrag has now and serves that client's address (drop_clients *)
(* in on_control).                                                         *)
FlowsFollowRoutes ==
  /\ \A a \in Addr : clients[a] # None => Serves(clients[a], a)
  /\ fresh # None => Serves(fresh, dgram.addr)

(* A client address never holds two relays, so no reply reaches it twice   *)
(* and no relay is left without an owner that could drop it, although      *)
(* on_datagram allocates the next relay of an address in the same call     *)
(* that finds the previous one dead (clients.remove before                 *)
(* allocate_handler, udp_pooled.rs).                                       *)
OneRelayPerAddress ==
  \A r1, r2 \in Relay : held[r1] /\ held[r2] /\ raddr[r1] = raddr[r2] => r1 = r2

(* A client whose relay task is over always has its ClientEnded report     *)
(* still on the way, so the entry cannot stay behind for ever, although    *)
(* reports carry only an address and are dropped when a newer relay serves *)
(* it (ProxyClient::run closes before it reports, udp_client.rs; the       *)
(* is_closed check of the receive loop, udp_pooled.rs).                    *)
EndedFlowsReported ==
  \A a \in Addr :
    clients[a] # None /\ task[clients[a].relay] \in {"exiting", "done"}
      => \E i \in 1..Len(ended) : ended[i] = a

(* A late report never tears down the relay that took over its address: a  *)
(* client with a live relay goes only when its send failed, when its ufrag *)
(* lost or changed its target, or when the endpoint itself goes.           *)
LiveFlowsSurvive ==
  [][\A a \in Addr :
       clients[a] # None /\ rxOpen[clients[a].relay] /\ clients'[a] # clients[a]
         => \/ pc = "forward" /\ dgram.addr = a
            \/ routes'[clients[a].ufrag] # routes[clients[a].ufrag]
            \/ pc' = "closed"]_vars

(* The endpoint implements the routing it promises: seen through the       *)
(* targets its relays are connected to, every step of the loop and of the  *)
(* relays opens, closes, binds, unbinds or changes nothing.                *)
SR == INSTANCE SessionRouting WITH
        flows <- [a \in Addr |->
                    IF clients[a] = None THEN None
                    ELSE [ufrag  |-> clients[a].ufrag,
                          target |-> rtarget[clients[a].relay]]]

RoutingSpec == SR!Spec

(* Liveness.  The loop always comes back to its select!: waiting for room  *)
(* in a relay's control channel while that relay waits for room in the     *)
(* report channel never becomes a deadlock (ProxyClient::run closes its    *)
(* control channel before it reports, which fails the pending send).       *)
LoopReturns == pc \notin {"select", "closed"} ~> pc \in {"select", "closed"}

(* A client whose relay has stopped is removed: the report gets through    *)
(* and finds it, or a datagram does.                                       *)
EndedFlowsReleased ==
  \A a \in Addr :
    clients[a] # None /\ ~rxOpen[clients[a].relay]
      ~> clients[a] = None \/ rxOpen[clients[a].relay]

(* A relay whose handler was dropped comes to its end, so rerouting,       *)
(* removing and shutting down leave no relay task behind (Drop for         *)
(* ProxyClientHandler).                                                    *)
DroppedRelaysEnd == \A r \in Relay : ~held[r] ~> task[r] = "done" \/ held[r]

(* "its local ufrag selects the target. Afterwards the client address      *)
(* alone routes the flow" (udp_pooled.rs, header): a datagram is routed by *)
(* one of the two, so it reaches at most one target.                       *)
OneTargetPerDatagram ==
  dgram # None => \A t1, t2 \in dgram.to : t1 = t2
=============================================================================
