-------------------------- MODULE PooledUdpProofs ----------------------------
(***************************************************************************)
(* Proofs about PooledUdpEndpoint, for any numbers of addresses, targets,  *)
(* sessions, ufrags and relays and any channel capacities: its inductive   *)
(* invariant, what follows from it, and that it implements SessionRouting. *)
(***************************************************************************)
EXTENDS PooledUdpEndpoint, ProxyLemmas

(* What the program counter says about the datagram, its client and the    *)
(* relay being set up: the local variables of on_datagram.                 *)
LoopOK ==
  /\ dgram = None <=> pc \in {"select", "closed"}
  /\ fresh # None <=> pc = "notifyFresh"
  /\ pc \in {"forward", "notify"} => clients[dgram.addr] # None
  /\ pc \in {"route", "notifyFresh"} => clients[dgram.addr] = None
  /\ pc = "closed" => \A a \in Addr : clients[a] = None

(* Handlers and clients match: Rust's ownership, made explicit. *)
Owned ==
  /\ \A a \in Addr : clients[a] # None => held[clients[a].relay]
  /\ fresh # None => held[fresh.relay]
  /\ \A r \in Relay : held[r] =>
       \/ fresh # None /\ fresh.relay = r
       \/ /\ raddr[r] \in Addr
          /\ clients[raddr[r]] # None
          /\ clients[raddr[r]].relay = r

(* A relay that has left its loop has closed its control channel, and one  *)
(* that may still report has an address.                                   *)
RelaysOK ==
  \A r \in Relay : /\ task[r] # "running" => ~rxOpen[r]
                   /\ task[r] # "done" => raddr[r] \in Addr

(* The inductive invariant. *)
PooledInv ==
  /\ PooledTypeOK
  /\ LoopOK
  /\ Owned
  /\ RelaysOK
  /\ RoutesMatchSessions
  /\ FlowsFollowRoutes
  /\ EndedFlowsReported

-----------------------------------------------------------------------------
(* The inductive step, one lemma per kind of step *)

(* A freshly bound pooled socket (bind, new) is in order. *)
LEMMA InitInv == Init => PooledInv
<1> SUFFICES ASSUME Init PROVE PooledInv
  OBVIOUS
<1> USE DEF Init, RelayInit, EmptyMap
<1>1. PooledTypeOK
  BY RelayAssumption DEF PooledTypeOK, RelayTypeOK, Map, TaskState
<1>2. LoopOK /\ Owned /\ RelaysOK
  BY DEF LoopOK, Owned, RelaysOK
<1>3. RoutesMatchSessions /\ FlowsFollowRoutes /\ EndedFlowsReported
  BY BaseAssumption DEF RoutesMatchSessions, InUse, FlowsFollowRoutes, EndedFlowsReported
<1> QED
  BY <1>1, <1>2, <1>3 DEF PooledInv

(* A step that only moves the loop: nothing that on_datagram shares with   *)
(* relays and tables changes, and no relay is being set up.                *)
LEMMA LoopOnlyInv ==
  ASSUME PooledInv, UNCHANGED <<clients, tableVars, relayVars>>,
         LoopOK', fresh' = None, dgram' \in Datagram \cup {None},
         pc' \in {"select", "forward", "notify", "route"}, fresh = None
  PROVE  PooledInv'
<1> USE DEF PooledInv, tableVars, relayVars
<1>1. PooledTypeOK'
  BY DEF PooledTypeOK, RelayTypeOK
<1>2. Owned' /\ RelaysOK'
  BY DEF Owned, RelaysOK
<1>3. RoutesMatchSessions' /\ EndedFlowsReported'
  BY DEF RoutesMatchSessions, InUse, EndedFlowsReported
<1>4. FlowsFollowRoutes'
  BY DEF FlowsFollowRoutes, Serves
<1> QED
  BY <1>1, <1>2, <1>3, <1>4

(* recv_from only starts on_datagram. *)
LEMMA ReceiveInv ==
  ASSUME PooledInv, NEW a \in Addr, NEW u \in Ufrag \cup {None}, Receive(a, u)
  PROVE  PooledInv'
<1>1. dgram' \in Datagram /\ dgram'.addr = a /\ dgram' # None
  BY PooledAssumption DEF Receive, Datagram
<1>2. fresh = None /\ fresh' = None
  BY DEF Receive, PooledInv, LoopOK
<1>3. LoopOK'
  BY <1>1, <1>2 DEF Receive, LoopOK
<1> QED
  BY <1>1, <1>2, <1>3, LoopOnlyInv DEF Receive

(* The client that pc = "forward" or "notify" speaks of. *)
LEMMA CurrentClient ==
  ASSUME PooledInv, pc \in {"forward", "notify"}
  PROVE  /\ dgram \in Datagram /\ dgram.addr \in Addr
         /\ clients[dgram.addr] \in PooledClient
         /\ clients[dgram.addr].relay \in Relay
         /\ rtarget[clients[dgram.addr].relay] \in Target
         /\ fresh = None
<1>1. dgram \in Datagram /\ dgram.addr \in Addr /\ fresh = None
  BY DEF PooledInv, PooledTypeOK, LoopOK, Datagram
<1>2. clients[dgram.addr] \in PooledClient /\ clients[dgram.addr] # None
  BY <1>1 DEF PooledInv, PooledTypeOK, LoopOK, Map
<1>3. Serves(clients[dgram.addr], dgram.addr)
  BY <1>1, <1>2 DEF PooledInv, FlowsFollowRoutes
<1> QED
  BY <1>1, <1>2, <1>3 DEF PooledInv, PooledTypeOK, RelayTypeOK, PooledClient, Serves, Map

(* socket.send only records the target the datagram went to. *)
LEMMA ForwardInv == ASSUME PooledInv, Forward PROVE PooledInv'
<1>1. dgram' \in Datagram /\ dgram'.addr = dgram.addr /\ dgram' # None
  BY CurrentClient, PooledAssumption DEF Forward, Datagram
<1>2. fresh = None /\ fresh' = None
  BY CurrentClient DEF Forward
<1>3. LoopOK'
  BY <1>1, <1>2 DEF Forward, PooledInv, LoopOK
<1> QED
  BY <1>1, <1>2, <1>3, LoopOnlyInv DEF Forward

(* on_datagram gives the datagram up and returns. *)
LEMMA ReturnInv ==
  ASSUME PooledInv, pc = "route", BackToSelect, UNCHANGED <<clients, tableVars, relayVars>>
  PROVE  PooledInv'
<1>1. fresh = None
  BY DEF PooledInv, LoopOK
<1>2. LoopOK'
  BY DEF BackToSelect, LoopOK
<1> QED
  BY <1>1, <1>2, LoopOnlyInv DEF BackToSelect

(* Removing clients, whichever step does it, keeps the others in order: A  *)
(* are the addresses that lose their client.                               *)
LEMMA RemoveClientsInv ==
  ASSUME PooledInv, NEW A \in SUBSET Addr, RemoveClients(A), fresh = None, fresh' = None,
         UNCHANGED <<task, raddr, rtarget, ctl, rxOpen>>
  PROVE  /\ clients' \in Map(Addr, PooledClient)
         /\ held' \in [Relay -> BOOLEAN]
         /\ \A a \in Addr : clients'[a] # None => clients'[a] = clients[a] /\ a \notin A
         /\ Owned' /\ RelaysOK'
<1> DEFINE R == {clients[a].relay : a \in {b \in A : clients[b] # None}}
<1>1. /\ clients' = [a \in Addr |-> IF a \in A THEN None ELSE clients[a]]
      /\ held' = [r \in Relay |-> held[r] /\ r \notin R]
  BY DEF RemoveClients, DropHandlers
<1>2. clients \in Map(Addr, PooledClient) /\ held \in [Relay -> BOOLEAN]
  BY DEF PooledInv, PooledTypeOK, RelayTypeOK
<1>3. clients' \in Map(Addr, PooledClient) /\ held' \in [Relay -> BOOLEAN]
  BY <1>1, <1>2 DEF Map
<1>4. \A a \in Addr : clients'[a] # None => clients'[a] = clients[a] /\ a \notin A
  BY <1>1
<1>5. \A a, b \in Addr : clients[a] # None /\ clients[b] # None
                          /\ clients[a].relay = clients[b].relay => a = b
  BY DEF PooledInv, FlowsFollowRoutes, Serves
<1>6. ASSUME NEW a \in Addr, clients'[a] # None PROVE held'[clients'[a].relay]
  <2>1. clients'[a] = clients[a] /\ a \notin A /\ clients[a].relay \in Relay
    BY <1>2, <1>4, <1>6 DEF Map, PooledClient
  <2>2. clients[a].relay \notin R
    BY <2>1, <1>5, <1>6
  <2> QED BY <2>1, <2>2, <1>1, <1>6 DEF PooledInv, Owned
<1>7. ASSUME NEW r \in Relay, held'[r]
      PROVE  raddr'[r] \in Addr /\ clients'[raddr'[r]] # None /\ clients'[raddr'[r]].relay = r
  <2>1. held[r] /\ r \notin R
    BY <1>1, <1>7
  <2>2. raddr[r] \in Addr /\ clients[raddr[r]] # None /\ clients[raddr[r]].relay = r
    BY <2>1 DEF PooledInv, Owned
  <2>3. raddr[r] \notin A
    BY <2>1, <2>2
  <2> QED BY <1>1, <2>2, <2>3
<1>8. RelaysOK'
  BY DEF PooledInv, RelaysOK
<1> QED
  BY <1>3, <1>4, <1>6, <1>7, <1>8 DEF Owned

(* A failed send removes the client and goes on to route afresh. *)
LEMMA GiveUpInv ==
  ASSUME PooledInv, pc \in {"forward", "notify"}, GiveUpClient
  PROVE  PooledInv'
<1>1. /\ dgram \in Datagram /\ dgram.addr \in Addr
      /\ fresh = None /\ fresh' = None /\ dgram' = dgram /\ pc' = "route"
  BY CurrentClient DEF GiveUpClient
<1>2. /\ clients' \in Map(Addr, PooledClient) /\ held' \in [Relay -> BOOLEAN]
      /\ \A a \in Addr : clients'[a] # None => clients'[a] = clients[a] /\ a # dgram.addr
      /\ Owned' /\ RelaysOK'
  <2>1. {dgram.addr} \in SUBSET Addr /\ RemoveClients({dgram.addr})
    BY <1>1 DEF GiveUpClient
  <2> QED BY <1>1, <2>1, RemoveClientsInv DEF GiveUpClient
<1> USE DEF GiveUpClient, tableVars, PooledInv
<1>3. PooledTypeOK'
  BY <1>1, <1>2 DEF PooledTypeOK, RelayTypeOK
<1>4. LoopOK'
  BY <1>1, <1>2 DEF LoopOK
<1>5. RoutesMatchSessions'
  BY DEF RoutesMatchSessions, InUse
<1>6. FlowsFollowRoutes'
  BY <1>1, <1>2 DEF FlowsFollowRoutes, Serves
<1>7. EndedFlowsReported'
  BY <1>2 DEF EndedFlowsReported
<1> QED
  BY <1>2, <1>3, <1>4, <1>5, <1>6, <1>7

(* The DataSent notice to an existing client arrives. *)
LEMMA NotifyInv == ASSUME PooledInv, Notify PROVE PooledInv'
<1> DEFINE r == clients[dgram.addr].relay
<1>1. /\ r \in Relay /\ fresh = None
      /\ rxOpen[r] /\ ctl[r] < CtlCap /\ ctl' = [ctl EXCEPT ![r] = @ + 1]
      /\ UNCHANGED <<task, held, raddr, rtarget, rxOpen, ended, clients, sessions, routes>>
      /\ pc' = "select" /\ dgram' = None /\ fresh' = None
  BY CurrentClient DEF Notify, PostDataSent, BackToSelect, tableVars
<1> USE <1>1 DEF PooledInv
<1>2. PooledTypeOK'
  BY RelayAssumption DEF PooledTypeOK, RelayTypeOK
<1>3. LoopOK' /\ Owned' /\ RelaysOK'
  BY DEF LoopOK, Owned, RelaysOK
<1>4. RoutesMatchSessions' /\ FlowsFollowRoutes' /\ EndedFlowsReported'
  BY DEF RoutesMatchSessions, InUse, FlowsFollowRoutes, Serves, EndedFlowsReported
<1> QED
  BY <1>2, <1>3, <1>4

(* Spawning a relay disturbs no client: the relay it takes was free. *)
LEMMA SpawnInv ==
  ASSUME PooledInv, pc = "route", Routable,
         NEW r \in Relay, NEW keep \in BOOLEAN, Spawn(r, dgram.addr, routes[dgram.ufrag], keep),
         UNCHANGED <<clients, tableVars>>
  PROVE  /\ dgram \in Datagram /\ dgram # None /\ dgram.addr \in Addr /\ dgram.ufrag \in Ufrag
         /\ routes[dgram.ufrag] \in Target
         /\ RelayTypeOK' /\ RelaysOK' /\ RoutesMatchSessions' /\ EndedFlowsReported'
         /\ \A a \in Addr : clients'[a] # None =>
              /\ held'[clients'[a].relay]
              /\ clients'[a].relay # r
              /\ Serves(clients[a], a)'
         /\ clients' = clients /\ routes' = routes /\ sessions' = sessions
         /\ raddr'[r] = dgram.addr /\ rtarget'[r] = routes[dgram.ufrag]
         /\ held'[r] = keep /\ ~held[r]
<1> USE DEF PooledInv, tableVars
<1>1. dgram \in Datagram /\ dgram # None /\ dgram.addr \in Addr /\ dgram.ufrag \in Ufrag
  BY DEF PooledTypeOK, LoopOK, Datagram, Routable
<1>2. routes[dgram.ufrag] \in Target
  BY <1>1 DEF PooledTypeOK, Map, Routable
<1>3. RelayTypeOK'
  BY <1>1, <1>2, RelayAssumption DEF PooledTypeOK, RelayTypeOK, Spawn, Map, TaskState
<1>4. /\ ~held[r] /\ held'[r] = keep
      /\ raddr'[r] = dgram.addr /\ rtarget'[r] = routes[dgram.ufrag]
      /\ \A q \in Relay : q # r => /\ held'[q] = held[q] /\ raddr'[q] = raddr[q]
                                   /\ rtarget'[q] = rtarget[q] /\ task'[q] = task[q]
                                   /\ rxOpen'[q] = rxOpen[q]
      /\ task'[r] = "running"
  BY DEF Spawn, Free, PooledTypeOK, RelayTypeOK, Map
<1>5. ASSUME NEW a \in Addr, clients[a] # None
      PROVE  clients[a].relay \in Relay /\ clients[a].relay # r /\ held[clients[a].relay]
  BY <1>4, <1>5 DEF PooledTypeOK, Map, PooledClient, Owned
<1>6. ASSUME NEW a \in Addr, clients'[a] # None
      PROVE  held'[clients'[a].relay] /\ clients'[a].relay # r /\ Serves(clients[a], a)'
  BY <1>4, <1>5, <1>6 DEF FlowsFollowRoutes, Serves
<1>7. RelaysOK' /\ RoutesMatchSessions'
  BY <1>1, <1>4 DEF RelaysOK, RoutesMatchSessions, InUse
<1>8. EndedFlowsReported'
  BY <1>4, <1>5 DEF EndedFlowsReported, Spawn
<1> QED
  BY <1>1, <1>2, <1>3, <1>4, <1>6, <1>7, <1>8

(* A new relay is spawned for a routed datagram; it is not a client yet. *)
LEMMA AllocateInv ==
  ASSUME PooledInv, NEW r \in Relay, Allocate(r)
  PROVE  PooledInv'
<1> DEFINE t == routes[dgram.ufrag]
<1>1. /\ pc = "route" /\ Routable /\ Spawn(r, dgram.addr, t, TRUE)
      /\ UNCHANGED <<clients, tableVars>>
      /\ fresh' = [relay |-> r, ufrag |-> dgram.ufrag]
      /\ dgram' = [dgram EXCEPT !.to = @ \cup {t}]
      /\ pc' = "notifyFresh"
  BY DEF Allocate
<1>2. /\ dgram \in Datagram /\ dgram # None /\ dgram.addr \in Addr /\ dgram.ufrag \in Ufrag
      /\ t \in Target
      /\ RelayTypeOK' /\ RelaysOK' /\ RoutesMatchSessions' /\ EndedFlowsReported'
      /\ \A a \in Addr : clients'[a] # None =>
           /\ held'[clients'[a].relay]
           /\ clients'[a].relay # r
           /\ Serves(clients[a], a)'
      /\ clients' = clients /\ routes' = routes /\ sessions' = sessions
      /\ raddr'[r] = dgram.addr /\ rtarget'[r] = t
      /\ held'[r] = TRUE /\ ~held[r]
  BY <1>1, SpawnInv
<1>3. dgram' \in Datagram /\ dgram' # None /\ dgram'.addr = dgram.addr
  BY <1>1, <1>2, PooledAssumption DEF Datagram
<1>4. fresh' \in PooledClient /\ fresh' # None /\ fresh'.relay = r /\ fresh'.ufrag = dgram.ufrag
  BY <1>1, <1>2, PooledAssumption DEF PooledClient
<1>5. PooledTypeOK'
  BY <1>1, <1>2, <1>3, <1>4 DEF PooledInv, PooledTypeOK
<1>6. LoopOK'
  BY <1>1, <1>2, <1>3, <1>4 DEF PooledInv, LoopOK
<1>7. Owned'
  <2>1. ASSUME NEW q \in Relay, q # r, held'[q]
        PROVE  raddr'[q] \in Addr /\ clients'[raddr'[q]] # None /\ clients'[raddr'[q]].relay = q
    <3>1. held[q] /\ raddr'[q] = raddr[q] /\ fresh = None
      BY <1>1, <2>1 DEF Spawn, PooledInv, PooledTypeOK, RelayTypeOK, Map, LoopOK
    <3> QED BY <3>1, <1>2 DEF PooledInv, Owned
  <2> QED BY <2>1, <1>2, <1>4 DEF Owned
<1>8. FlowsFollowRoutes'
  <2>1. \A a \in Addr : clients'[a] # None => Serves(clients[a], a)'
    BY <1>2
  <2>2. Serves(fresh, dgram.addr)'
    BY <1>1, <1>2, <1>3, <1>4 DEF Serves, Routable
  <2> QED BY <2>1, <2>2 DEF FlowsFollowRoutes
<1> QED
  BY <1>2, <1>5, <1>6, <1>7, <1>8 DEF PooledInv

(* A new relay whose socket refuses the datagram is dropped at once. *)
LEMMA AllocateSendFailsInv ==
  ASSUME PooledInv, NEW r \in Relay, AllocateSendFails(r)
  PROVE  PooledInv'
<1> DEFINE t == routes[dgram.ufrag]
<1>1. /\ pc = "route" /\ Routable /\ Spawn(r, dgram.addr, t, FALSE)
      /\ UNCHANGED <<clients, tableVars>>
      /\ fresh' = None /\ dgram' = None /\ pc' = "select"
  BY DEF AllocateSendFails, BackToSelect
<1>2. /\ RelayTypeOK' /\ RelaysOK' /\ RoutesMatchSessions' /\ EndedFlowsReported'
      /\ \A a \in Addr : clients'[a] # None =>
           /\ held'[clients'[a].relay]
           /\ Serves(clients[a], a)'
      /\ clients' = clients /\ routes' = routes /\ sessions' = sessions
      /\ held'[r] = FALSE
  BY <1>1, SpawnInv
<1>3. PooledTypeOK'
  BY <1>1, <1>2 DEF PooledInv, PooledTypeOK
<1>4. LoopOK'
  BY <1>1 DEF LoopOK
<1>5. Owned'
  <2>1. ASSUME NEW q \in Relay, held'[q]
        PROVE  raddr'[q] \in Addr /\ clients'[raddr'[q]] # None /\ clients'[raddr'[q]].relay = q
    <3>1. held[q] /\ raddr'[q] = raddr[q] /\ fresh = None
      BY <1>1, <1>2, <2>1 DEF Spawn, PooledInv, PooledTypeOK, RelayTypeOK, Map, LoopOK
    <3> QED BY <3>1, <1>2 DEF PooledInv, Owned
  <2> QED BY <2>1, <1>1, <1>2 DEF Owned
<1>6. FlowsFollowRoutes'
  BY <1>1, <1>2 DEF FlowsFollowRoutes
<1> QED
  BY <1>2, <1>3, <1>4, <1>5, <1>6 DEF PooledInv

(* The relay that pc = "notifyFresh" speaks of. *)
LEMMA FreshClient ==
  ASSUME PooledInv, pc = "notifyFresh"
  PROVE  /\ dgram \in Datagram /\ dgram.addr \in Addr /\ clients[dgram.addr] = None
         /\ fresh \in PooledClient /\ fresh # None /\ fresh.relay \in Relay
         /\ held[fresh.relay] /\ Serves(fresh, dgram.addr)
<1>1. dgram \in Datagram /\ fresh \in PooledClient /\ fresh # None
  BY DEF PooledInv, PooledTypeOK, LoopOK
<1> QED
  BY <1>1 DEF PooledInv, LoopOK, Owned, FlowsFollowRoutes, Datagram, PooledClient

(* The new relay becomes the client of its address, which had none. *)
LEMMA NotifyFreshInv == ASSUME PooledInv, NotifyFresh PROVE PooledInv'
<1> DEFINE r == fresh.relay
<1>1. /\ dgram \in Datagram /\ dgram.addr \in Addr /\ clients[dgram.addr] = None
      /\ fresh \in PooledClient /\ fresh # None /\ r \in Relay
      /\ held[r] /\ Serves(fresh, dgram.addr)
  BY FreshClient DEF NotifyFresh
<1>2. /\ rxOpen[r] /\ ctl[r] < CtlCap /\ ctl' = [ctl EXCEPT ![r] = @ + 1]
      /\ UNCHANGED <<task, held, raddr, rtarget, rxOpen, ended, sessions, routes>>
      /\ clients' = [clients EXCEPT ![dgram.addr] = fresh]
      /\ pc' = "select" /\ dgram' = None /\ fresh' = None
  BY DEF NotifyFresh, PostDataSent, BackToSelect, tableVars
<1> USE DEF PooledInv
<1>3. PooledTypeOK'
  BY <1>1, <1>2, RelayAssumption DEF PooledTypeOK, RelayTypeOK, Map
<1>4. /\ clients'[dgram.addr] = fresh
      /\ \A a \in Addr : a # dgram.addr => clients'[a] = clients[a]
  BY <1>1, <1>2 DEF PooledTypeOK, Map
<1>5. LoopOK' /\ RelaysOK' /\ RoutesMatchSessions'
  BY <1>2 DEF LoopOK, RelaysOK, RoutesMatchSessions, InUse
<1>6. Owned'
  <2>1. \A a \in Addr : clients'[a] # None => held'[clients'[a].relay]
    BY <1>1, <1>2, <1>4 DEF Owned
  <2>2. ASSUME NEW q \in Relay, held'[q]
        PROVE  raddr'[q] \in Addr /\ clients'[raddr'[q]] # None /\ clients'[raddr'[q]].relay = q
    <3>1. CASE q = r
      BY <3>1, <1>1, <1>2, <1>4 DEF Serves
    <3>2. CASE q # r
      BY <3>2, <2>2, <1>1, <1>2, <1>4 DEF Owned
    <3> QED BY <3>1, <3>2
  <2> QED BY <2>1, <2>2, <1>2 DEF Owned
<1>7. FlowsFollowRoutes'
  BY <1>1, <1>2, <1>4 DEF FlowsFollowRoutes, Serves
<1>8. EndedFlowsReported'
  <2>1. task[r] = "running"
    BY <1>1, <1>2 DEF RelaysOK
  <2> QED BY <2>1, <1>2, <1>4 DEF EndedFlowsReported
<1> QED
  BY <1>3, <1>5, <1>6, <1>7, <1>8

(* A new relay that ended before it was inserted is dropped. *)
LEMMA NotifyFreshFailsInv == ASSUME PooledInv, NotifyFreshFails PROVE PooledInv'
<1> DEFINE r == fresh.relay
<1>1. /\ clients[dgram.addr] = None /\ dgram.addr \in Addr
      /\ fresh # None /\ r \in Relay /\ Serves(fresh, dgram.addr)
  BY FreshClient DEF NotifyFreshFails
<1>2. /\ held' = [q \in Relay |-> held[q] /\ q \notin {r}]
      /\ UNCHANGED <<clients, task, raddr, rtarget, ctl, rxOpen, ended, sessions, routes>>
      /\ pc' = "select" /\ dgram' = None /\ fresh' = None
  BY DEF NotifyFreshFails, DropHandlers, BackToSelect, tableVars
<1> USE DEF PooledInv
<1>3. PooledTypeOK'
  BY <1>2 DEF PooledTypeOK, RelayTypeOK
<1>4. LoopOK' /\ RelaysOK' /\ RoutesMatchSessions' /\ EndedFlowsReported'
  BY <1>2 DEF LoopOK, RelaysOK, RoutesMatchSessions, InUse, EndedFlowsReported
<1>5. Owned'
  <2>1. ASSUME NEW a \in Addr, clients[a] # None
        PROVE  clients[a].relay \in Relay /\ clients[a].relay # r
    BY <2>1, <1>1 DEF FlowsFollowRoutes, Serves, PooledTypeOK, Map, PooledClient
  <2> QED BY <2>1, <1>1, <1>2 DEF Owned
<1>6. FlowsFollowRoutes'
  BY <1>2 DEF FlowsFollowRoutes, Serves
<1> QED
  BY <1>3, <1>4, <1>5, <1>6

(* The report that leaves the channel is the only one lost: every other    *)
(* address that had one still has.                                         *)
LEMMA ReportsLeft ==
  ASSUME NEW q \in Seq(Addr), q # <<>>, NEW a \in Addr, a # Head(q),
         \E i \in 1..Len(q) : q[i] = a
  PROVE  \E i \in 1..Len(Tail(q)) : Tail(q)[i] = a
<1>1. PICK i \in 1..Len(q) : q[i] = a
  OBVIOUS
<1>2. i # 1 /\ i - 1 \in 1..Len(Tail(q)) /\ Tail(q)[i - 1] = a
  BY <1>1
<1> QED
  BY <1>2

(* A ClientEnded report removes the client it is about, or nothing: a      *)
(* client that stays is served by a relay with a report of its own to come. *)
LEMMA ClientEndedInv == ASSUME PooledInv, OnClientEnded PROVE PooledInv'
<1> DEFINE A == {a \in {Head(ended)} : Stale(a)}
<1> USE DEF PooledInv
<1>1. /\ pc = "select" /\ ended # <<>> /\ ended' = Tail(ended) /\ RemoveClients(A)
      /\ UNCHANGED <<loopVars, sessions, routes, task, raddr, rtarget, ctl, rxOpen>>
  BY DEF OnClientEnded, tableVars
<1>2. ended \in Seq(Addr) /\ Head(ended) \in Addr /\ A \in SUBSET Addr
      /\ Len(Tail(ended)) <= EndCap /\ Tail(ended) \in Seq(Addr)
  BY <1>1, RelayAssumption DEF PooledTypeOK, RelayTypeOK
<1>3. fresh = None /\ fresh' = None /\ dgram' = None /\ pc' = "select"
  BY <1>1 DEF LoopOK, loopVars
<1>4. /\ clients' \in Map(Addr, PooledClient) /\ held' \in [Relay -> BOOLEAN]
      /\ \A a \in Addr : clients'[a] # None => clients'[a] = clients[a] /\ a \notin A
      /\ Owned' /\ RelaysOK'
  BY <1>1, <1>2, <1>3, RemoveClientsInv
<1>5. PooledTypeOK'
  BY <1>1, <1>2, <1>3, <1>4 DEF PooledTypeOK, RelayTypeOK
<1>6. LoopOK' /\ RoutesMatchSessions'
  BY <1>1, <1>3 DEF LoopOK, RoutesMatchSessions, InUse
<1>7. FlowsFollowRoutes'
  BY <1>1, <1>3, <1>4 DEF FlowsFollowRoutes, Serves
<1>8. EndedFlowsReported'
  <2> SUFFICES ASSUME NEW a \in Addr, clients'[a] # None,
                      task'[clients'[a].relay] \in {"exiting", "done"}
               PROVE  \E i \in 1..Len(ended') : ended'[i] = a
    BY DEF EndedFlowsReported
  <2>1. /\ clients[a] # None /\ a \notin A /\ clients[a].relay \in Relay
        /\ task[clients[a].relay] \in {"exiting", "done"}
    BY <1>1, <1>4 DEF PooledTypeOK, Map, PooledClient
  <2>2. a # Head(ended)
    BY <2>1 DEF Stale, RelaysOK
  <2>3. \E i \in 1..Len(ended) : ended[i] = a
    BY <2>1 DEF EndedFlowsReported
  <2> QED BY <1>1, <1>2, <2>2, <2>3, ReportsLeft
<1> QED
  BY <1>4, <1>5, <1>6, <1>7, <1>8

(* on_control: any good table may be installed. *)
LEMMA InstallInv ==
  ASSUME PooledInv, pc = "select", NEW tb, GoodTable(sessions, routes, tb), Install(tb)
  PROVE  PooledInv'
<1> DEFINE A == FlowsOf(tb.dropped)
<1> USE DEF PooledInv
<1>1. /\ sessions' = tb.sessions /\ routes' = tb.routes /\ RemoveClients(A)
      /\ UNCHANGED <<loopVars, task, raddr, rtarget, ctl, rxOpen, ended>>
  BY DEF Install
<1>2. fresh = None /\ fresh' = None /\ dgram' = None /\ pc' = "select" /\ A \in SUBSET Addr
  BY <1>1 DEF LoopOK, loopVars, FlowsOf
<1>3. /\ clients' \in Map(Addr, PooledClient) /\ held' \in [Relay -> BOOLEAN]
      /\ \A a \in Addr : clients'[a] # None => clients'[a] = clients[a] /\ a \notin A
      /\ Owned' /\ RelaysOK'
  BY <1>1, <1>2, RemoveClientsInv
<1>4. PooledTypeOK'
  BY <1>1, <1>2, <1>3 DEF PooledTypeOK, RelayTypeOK, GoodTable
<1>5. LoopOK'
  BY <1>2 DEF LoopOK
<1>6. RoutesMatchSessions'
  BY <1>1 DEF RoutesMatchSessions, GoodTable, InUse
<1>7. FlowsFollowRoutes'
  <2> SUFFICES ASSUME NEW a \in Addr, clients'[a] # None
               PROVE  Serves(clients[a], a)' /\ clients'[a] = clients[a]
    BY <1>2 DEF FlowsFollowRoutes, Serves
  <2>1. /\ clients'[a] = clients[a] /\ clients[a] # None
        /\ clients[a].ufrag \in Ufrag \ tb.dropped
    BY <1>3 DEF FlowsOf, PooledTypeOK, Map, PooledClient
  <2>2. tb.routes[clients[a].ufrag] = routes[clients[a].ufrag]
    BY <2>1 DEF FlowsFollowRoutes, Serves, GoodTable
  <2> QED BY <1>1, <2>1, <2>2 DEF FlowsFollowRoutes, Serves
<1>8. EndedFlowsReported'
  BY <1>1, <1>3 DEF EndedFlowsReported
<1> QED
  BY <1>3, <1>4, <1>5, <1>6, <1>7, <1>8

(* on_control installs good tables. *)
LEMMA ControlInv ==
  ASSUME PooledInv, \/ \E s \in Session, u \in Ufrag, t \in Target : OnAddRoute(s, u, t)
                    \/ \E s \in Session : OnRemoveSession(s)
  PROVE  PooledInv'
<1>1. /\ sessions \in Map(Session, Ufrag) /\ routes \in Map(Ufrag, Target)
      /\ \A v \in Ufrag : routes[v] # None <=> InUse(sessions, v)
  BY DEF PooledInv, PooledTypeOK, RoutesMatchSessions
<1>2. CASE \E s \in Session, u \in Ufrag, t \in Target : OnAddRoute(s, u, t)
  BY <1>1, <1>2, AddRouteGood, InstallInv DEF OnAddRoute
<1>3. CASE \E s \in Session : OnRemoveSession(s)
  BY <1>1, <1>3, RemoveSessionGood, InstallInv DEF OnRemoveSession
<1> QED
  BY <1>2, <1>3

(* Dropping the PooledUdpEndpointHandler leaves nothing behind. *)
LEMMA ShutdownInv == ASSUME PooledInv, Shutdown PROVE PooledInv'
<1> USE DEF Shutdown, DropHandlers, EmptyMap, PooledInv
<1>1. PooledTypeOK'
  BY RelayAssumption DEF PooledTypeOK, RelayTypeOK, Map
<1>2. LoopOK' /\ Owned' /\ RelaysOK'
  BY DEF LoopOK, Owned, RelaysOK
<1>3. RoutesMatchSessions' /\ FlowsFollowRoutes' /\ EndedFlowsReported'
  BY BaseAssumption DEF RoutesMatchSessions, InUse, FlowsFollowRoutes, EndedFlowsReported
<1> QED
  BY <1>1, <1>2, <1>3

(* A relay's own step: the owner's state, and who serves whom, stay. *)
LEMMA RelayStepInv ==
  ASSUME PooledInv, NEW r \in Relay, RelayStep(r, Up), UNCHANGED <<clients, tableVars, loopVars>>
  PROVE  PooledInv'
<1> USE DEF PooledInv, tableVars, loopVars
<1>1. /\ UNCHANGED <<held, raddr, rtarget>>
      /\ \A q \in Relay : q # r => task'[q] = task[q] /\ rxOpen'[q] = rxOpen[q]
  BY DEF RelayStep, RelayConsume, RelayStop, RelayReport, RelayExit, RelayAborted, Gone,
         PooledTypeOK, RelayTypeOK
<1>2. LoopOK' /\ Owned' /\ RoutesMatchSessions' /\ FlowsFollowRoutes'
  BY <1>1 DEF LoopOK, Owned, RoutesMatchSessions, InUse, FlowsFollowRoutes, Serves
<1>3. ASSUME RelayTypeOK', RelaysOK', EndedFlowsReported'
      PROVE  PooledInv'
  BY <1>2, <1>3 DEF PooledTypeOK
<1>4. CASE RelayConsume(r)
  <2>1. RelayTypeOK'
    BY <1>4, RelayAssumption DEF RelayConsume, PooledTypeOK, RelayTypeOK
  <2>2. RelaysOK' /\ EndedFlowsReported'
    BY <1>4 DEF RelayConsume, RelaysOK, EndedFlowsReported
  <2> QED BY <1>3, <2>1, <2>2
<1>5. CASE RelayStop(r)
  <2>1. RelayTypeOK'
    BY <1>5 DEF RelayStop, PooledTypeOK, RelayTypeOK, TaskState
  <2>2. task[r] = "running" /\ task'[r] = "reporting" /\ ~rxOpen'[r] /\ ended' = ended
    BY <1>5 DEF RelayStop, PooledTypeOK, RelayTypeOK
  <2>3. RelaysOK'
    BY <1>1, <2>2 DEF RelaysOK
  <2>4. EndedFlowsReported'
    BY <1>1, <2>2 DEF EndedFlowsReported, PooledTypeOK, Map, PooledClient
  <2> QED BY <1>3, <2>1, <2>3, <2>4
<1>6. CASE RelayReport(r, Up)
  <2>1. task[r] = "reporting" /\ task'[r] = "exiting" /\ rxOpen' = rxOpen
    BY <1>6 DEF RelayReport, PooledTypeOK, RelayTypeOK
  <2>2. RelaysOK'
    BY <1>1, <2>1 DEF RelaysOK
  <2>3. CASE ~Up
    <3>1. RelayTypeOK'
      BY <1>6, <2>3 DEF RelayReport, PooledTypeOK, RelayTypeOK, TaskState
    <3>2. \A a \in Addr : clients[a] = None
      BY <2>3 DEF LoopOK, Up
    <3> QED BY <1>3, <2>2, <3>1, <3>2 DEF EndedFlowsReported
  <2>4. CASE Up
    <3>1. /\ raddr[r] \in Addr /\ ended \in Seq(Addr) /\ Len(ended) < EndCap
          /\ ended' = Append(ended, raddr[r])
      BY <1>6, <2>1, <2>4 DEF RelayReport, RelaysOK, PooledTypeOK, RelayTypeOK
    <3>2. /\ ended' \in Seq(Addr) /\ Len(ended') = Len(ended) + 1
          /\ ended'[Len(ended) + 1] = raddr[r]
          /\ \A i \in 1..Len(ended) : ended'[i] = ended[i]
      BY <3>1
    <3>3. RelayTypeOK'
      BY <1>6, <3>1, <3>2, RelayAssumption
         DEF RelayReport, PooledTypeOK, RelayTypeOK, TaskState
    <3>4. ASSUME NEW a \in Addr, clients[a] # None,
                 task'[clients[a].relay] \in {"exiting", "done"}
          PROVE  \E i \in 1..Len(ended') : ended'[i] = a
      <4>1. CASE clients[a].relay = r
        <5>1. raddr[r] = a
          BY <3>4, <4>1 DEF FlowsFollowRoutes, Serves
        <5> QED BY <3>1, <3>2, <5>1
      <4>2. CASE clients[a].relay # r
        <5>1. task'[clients[a].relay] = task[clients[a].relay]
          BY <1>1, <3>4, <4>2 DEF PooledTypeOK, Map, PooledClient
        <5>2. \E i \in 1..Len(ended) : ended[i] = a
          BY <3>4, <5>1 DEF EndedFlowsReported
        <5> QED BY <3>1, <3>2, <5>2
      <4> QED BY <4>1, <4>2
    <3>5. EndedFlowsReported'
      BY <3>4 DEF EndedFlowsReported
    <3> QED BY <1>3, <2>2, <3>3, <3>5
  <2> QED BY <2>3, <2>4
<1>7. CASE RelayExit(r) \/ RelayAborted(r)
  <2>1. Gone(r)
    BY <1>7 DEF RelayExit, RelayAborted
  <2>2. RelayTypeOK'
    BY <2>1, RelayAssumption DEF Gone, PooledTypeOK, RelayTypeOK, TaskState
  <2>3. task'[r] = "done" /\ ~rxOpen'[r] /\ ended' = ended
    BY <2>1 DEF Gone, PooledTypeOK, RelayTypeOK
  <2>4. RelaysOK'
    BY <1>1, <2>3 DEF RelaysOK
  <2>5. ASSUME NEW a \in Addr, clients[a] # None, task'[clients[a].relay] \in {"exiting", "done"}
        PROVE  task[clients[a].relay] \in {"exiting", "done"}
    <3>1. clients[a].relay \in Relay /\ held[clients[a].relay]
      BY <2>5 DEF PooledTypeOK, Map, PooledClient, Owned
    <3> QED BY <1>1, <1>7, <2>5, <3>1 DEF RelayExit, RelayAborted
  <2>6. EndedFlowsReported'
    BY <2>3, <2>5 DEF EndedFlowsReported
  <2> QED BY <1>3, <2>2, <2>4, <2>6
<1> QED
  BY <1>4, <1>5, <1>6, <1>7 DEF RelayStep

(* Every step of the endpoint, its relays or the runtime keeps the invariant. *)
LEMMA NextInv == PooledInv /\ [Next]_vars => PooledInv'
<1> SUFFICES ASSUME PooledInv, [Next]_vars PROVE PooledInv'
  OBVIOUS
<1>1. CASE \E a \in Addr, u \in Ufrag \cup {None} : Receive(a, u)
  BY <1>1, ReceiveInv
<1>2. CASE OnDatagram
  <2>1. CASE Forward
    BY <2>1, ForwardInv
  <2>2. CASE ForwardFails \/ NotifyFails
    BY <2>2, GiveUpInv DEF ForwardFails, NotifyFails
  <2>3. CASE Notify
    BY <2>3, NotifyInv
  <2>4. CASE DropUnroutable \/ AllocateFails
    BY <2>4, ReturnInv DEF DropUnroutable, AllocateFails
  <2>5. CASE \E r \in Relay : Allocate(r) \/ AllocateSendFails(r)
    BY <2>5, AllocateInv, AllocateSendFailsInv
  <2>6. CASE NotifyFresh \/ NotifyFreshFails
    BY <2>6, NotifyFreshInv, NotifyFreshFailsInv
  <2> QED
    BY <1>2, <2>1, <2>2, <2>3, <2>4, <2>5, <2>6 DEF OnDatagram
<1>3. CASE OnClientEnded
  BY <1>3, ClientEndedInv
<1>4. CASE \/ \E s \in Session, u \in Ufrag, t \in Target : OnAddRoute(s, u, t)
           \/ \E s \in Session : OnRemoveSession(s)
  BY <1>4, ControlInv
<1>5. CASE Shutdown
  BY <1>5, ShutdownInv
<1>6. CASE Relays
  BY <1>6, RelayStepInv DEF Relays
<1>7. CASE UNCHANGED vars
  <2> USE <1>7 DEF PooledInv, vars, relayVars
  <2>1. PooledTypeOK' /\ LoopOK' /\ Owned' /\ RelaysOK'
    BY DEF PooledTypeOK, RelayTypeOK, LoopOK, Owned, RelaysOK
  <2>2. RoutesMatchSessions' /\ FlowsFollowRoutes' /\ EndedFlowsReported'
    BY DEF RoutesMatchSessions, InUse, FlowsFollowRoutes, Serves, EndedFlowsReported
  <2> QED BY <2>1, <2>2
<1> QED
  BY <1>1, <1>2, <1>3, <1>4, <1>5, <1>6, <1>7 DEF Next

-----------------------------------------------------------------------------
(* The theorems *)

(* The inductive invariant holds in every reachable state. *)
THEOREM Invariance == Spec => []PooledInv
  BY InitInv, NextInv, PTL DEF Spec

(* Every variable keeps its type, so that no channel of the endpoint ever  *)
(* holds more than its capacity and no step looks up a client, a relay or  *)
(* a target that is not there.                                             *)
THEOREM TypeCorrect == Spec => []PooledTypeOK
<1>1. PooledInv => PooledTypeOK
  BY DEF PooledInv
<1> QED
  BY <1>1, Invariance, PTL

(* on_control and forget_ufrag_if_unused: a ufrag has a target exactly     *)
(* while some session uses it.                                             *)
THEOREM RoutesMatch == Spec => []RoutesMatchSessions
<1>1. PooledInv => RoutesMatchSessions
  BY DEF PooledInv
<1> QED
  BY <1>1, Invariance, PTL

(* drop_clients: no flow outlives its route or follows another one. *)
THEOREM FlowsFollow == Spec => []FlowsFollowRoutes
<1>1. PooledInv => FlowsFollowRoutes
  BY DEF PooledInv
<1> QED
  BY <1>1, Invariance, PTL

(* on_datagram: a client address never holds two relays. *)
THEOREM OneRelay == Spec => []OneRelayPerAddress
<1>1. PooledInv => OneRelayPerAddress
  <2> SUFFICES ASSUME PooledInv, NEW r1 \in Relay, NEW r2 \in Relay,
                      held[r1], held[r2], raddr[r1] = raddr[r2]
               PROVE  r1 = r2
    BY DEF OneRelayPerAddress
  <2>1. fresh # None => /\ clients[dgram.addr] = None
                        /\ raddr[fresh.relay] = dgram.addr
    BY DEF PooledInv, LoopOK, FlowsFollowRoutes, Serves
  <2> QED
    BY <2>1 DEF PooledInv, Owned
<1> QED
  BY <1>1, Invariance, PTL

(* ProxyClient::run and the receive loop: the report of a relay that is    *)
(* over is never lost while its client remains.                            *)
THEOREM EndedReported == Spec => []EndedFlowsReported
<1>1. PooledInv => EndedFlowsReported
  BY DEF PooledInv
<1> QED
  BY <1>1, Invariance, PTL

-----------------------------------------------------------------------------
(* The endpoint implements SessionRouting *)

(* The abstract flow of a client, as the refinement mapping defines it. *)
FlowOf(a) == IF clients[a] = None THEN None
             ELSE [ufrag |-> clients[a].ufrag, target |-> rtarget[clients[a].relay]]

FlowMap == [a \in Addr |-> FlowOf(a)]

(* What a client's flow is. *)
LEMMA FlowOfClient ==
  ASSUME PooledInv, NEW a \in Addr, clients[a] # None
  PROVE  /\ FlowOf(a) # None
         /\ clients[a].ufrag \in Ufrag /\ clients[a].relay \in Relay
         /\ FlowOf(a).ufrag = clients[a].ufrag
         /\ FlowOf(a).target = rtarget[clients[a].relay]
         /\ FlowOf(a).target = routes[clients[a].ufrag]
         /\ FlowOf(a) = [ufrag |-> clients[a].ufrag, target |-> routes[clients[a].ufrag]]
<1>1. clients[a].ufrag \in Ufrag /\ clients[a].relay \in Relay
  BY DEF PooledInv, PooledTypeOK, Map, PooledClient
<1>2. /\ rtarget[clients[a].relay] = routes[clients[a].ufrag]
      /\ routes[clients[a].ufrag] \in Target
  BY <1>1 DEF PooledInv, PooledTypeOK, Map, FlowsFollowRoutes, Serves
<1>3. [ufrag |-> clients[a].ufrag, target |-> rtarget[clients[a].relay]]
        \in [ufrag : Ufrag, target : Target]
  BY <1>1, <1>2
<1> QED
  BY <1>1, <1>2, <1>3, PooledAssumption DEF FlowOf

(* Steps that leave every client, its target and the tables alone. *)
LEMMA StutterStep ==
  ASSUME clients' = clients, sessions' = sessions, routes' = routes,
         \A a \in Addr : clients[a] # None =>
           rtarget'[clients[a].relay] = rtarget[clients[a].relay]
  PROVE  UNCHANGED SR!vars
  BY DEF SR!vars

(* Steps that remove the clients of one address at most. *)
LEMMA CloseStep ==
  ASSUME PooledInv, NEW A \in SUBSET Addr, NEW b \in Addr, A \subseteq {b},
         RemoveClients(A), UNCHANGED <<sessions, routes, rtarget>>
  PROVE  SR!Close(b) \/ UNCHANGED SR!vars
<1>1. clients' = [a \in Addr |-> IF a \in A THEN None ELSE clients[a]]
  BY DEF RemoveClients
<1>2. clients = [a \in Addr |-> clients[a]]
  BY DEF PooledInv, PooledTypeOK, Map
<1>3. CASE b \notin A \/ clients[b] = None
  <2>1. clients' = clients
    BY <1>1, <1>2, <1>3
  <2> QED BY <2>1, StutterStep
<1>4. CASE b \in A /\ clients[b] # None
  <2>1. FlowOf(b) # None
    BY <1>4, FlowOfClient
  <2>2. FlowMap' = [FlowMap EXCEPT ![b] = None]
    BY <1>1, <1>4 DEF FlowMap, FlowOf
  <2> QED BY <2>1, <2>2 DEF SR!Close, FlowMap, FlowOf
<1> QED
  BY <1>3, <1>4

(* Inserting the new relay opens the flow of its address. *)
LEMMA OpenStep ==
  ASSUME PooledInv, NotifyFresh
  PROVE  \E b \in Addr, u \in Ufrag : SR!Open(b, u)
<1>1. /\ dgram.addr \in Addr /\ clients[dgram.addr] = None
      /\ fresh \in PooledClient /\ fresh # None /\ Serves(fresh, dgram.addr)
  BY FreshClient DEF NotifyFresh
<1>2. PICK b \in Addr, u \in Ufrag : b = dgram.addr /\ u = fresh.ufrag
  BY <1>1 DEF PooledClient
<1>3. /\ clients' = [clients EXCEPT ![b] = fresh]
      /\ UNCHANGED <<sessions, routes, rtarget>>
  BY <1>2 DEF NotifyFresh, PostDataSent, tableVars
<1>4. clients \in [Addr -> PooledClient \cup {None}]
  BY DEF PooledInv, PooledTypeOK, Map
<1>5. FlowMap' = [FlowMap EXCEPT ![b] = [ufrag |-> u, target |-> routes[u]]]
  BY <1>1, <1>2, <1>3, <1>4 DEF FlowMap, FlowOf, Serves
<1>6. FlowMap[b] = None /\ routes[u] # None
  BY <1>1, <1>2 DEF FlowMap, FlowOf, Serves
<1>7. SR!Open(b, u)
  BY <1>3, <1>5, <1>6 DEF SR!Open, FlowMap, FlowOf
<1> QED
  BY <1>7

(* Installing a good table keeps exactly the flows whose ufrag keeps the   *)
(* target they were opened with.                                           *)
LEMMA InstallKeepsFlows ==
  ASSUME PooledInv, NEW tb, GoodTable(sessions, routes, tb), Install(tb)
  PROVE  SR!KeepRoutedFlows
<1>1. /\ clients' = [a \in Addr |-> IF a \in FlowsOf(tb.dropped) THEN None ELSE clients[a]]
      /\ routes' = tb.routes /\ rtarget' = rtarget
  BY DEF Install, RemoveClients
<1>2. ASSUME NEW a \in Addr
      PROVE  FlowOf(a)' = IF FlowOf(a) # None /\ routes'[FlowOf(a).ufrag] # FlowOf(a).target
                          THEN None ELSE FlowOf(a)
  <2>1. CASE clients[a] = None
    BY <1>1, <2>1 DEF FlowOf
  <2>2. CASE clients[a] # None
    <3> DEFINE u == clients[a].ufrag
    <3>1. /\ u \in Ufrag /\ FlowOf(a) # None /\ FlowOf(a).ufrag = u
          /\ FlowOf(a).target = routes[u] /\ routes[u] # None
      BY <2>2, FlowOfClient DEF PooledInv, FlowsFollowRoutes, Serves
    <3>2. a \in FlowsOf(tb.dropped) <=> routes'[u] # routes[u]
      BY <1>1, <2>2, <3>1 DEF FlowsOf, GoodTable
    <3>3. FlowOf(a)' = IF a \in FlowsOf(tb.dropped) THEN None ELSE FlowOf(a)
      BY <1>1, <2>2 DEF FlowOf
    <3> QED BY <3>1, <3>2, <3>3
  <2> QED BY <2>1, <2>2
<1> QED
  BY <1>2 DEF SR!KeepRoutedFlows, FlowOf

(* AddRoute binds the session, whatever it and the ufrag were before. *)
LEMMA BindStep ==
  ASSUME PooledInv, NEW s \in Session, NEW u \in Ufrag, NEW t \in Target, OnAddRoute(s, u, t)
  PROVE  SR!Bind(s, u, t)
<1> DEFINE tb == AddRoute(sessions, routes, s, u, t)
<1>1. /\ sessions \in Map(Session, Ufrag) /\ routes \in Map(Ufrag, Target)
      /\ \A v \in Ufrag : routes[v] # None <=> InUse(sessions, v)
  BY DEF PooledInv, PooledTypeOK, RoutesMatchSessions
<1>2. GoodTable(sessions, routes, tb) /\ Install(tb)
  BY <1>1, AddRouteGood DEF OnAddRoute
<1>3. SR!KeepRoutedFlows
  BY <1>2, InstallKeepsFlows
<1>4. sessions' = [sessions EXCEPT ![s] = u] /\ routes' = tb.routes
  BY <1>2 DEF Install, AddRoute
<1>5. \A v \in Ufrag : v \in SR!Used' <=> InUse(sessions', v)
  BY DEF SR!Used, InUse
<1>6. routes' = [v \in Ufrag |-> IF v = u THEN t
                                ELSE IF v \in SR!Used' THEN routes[v] ELSE None]
  <2>1. TableBound(sessions, routes, s, u, t, tb)
    BY <1>1, AddRouteRoutes
  <2> QED BY <1>2, <1>5, <2>1 DEF Install, TableBound
<1> QED
  BY <1>3, <1>4, <1>6 DEF SR!Bind

(* RemoveSession unbinds the session, and nothing more. *)
LEMMA UnbindStep ==
  ASSUME PooledInv, NEW s \in Session, OnRemoveSession(s)
  PROVE  SR!Unbind(s)
<1> DEFINE tb == RemoveSession(sessions, routes, s)
<1>1. /\ sessions \in Map(Session, Ufrag) /\ routes \in Map(Ufrag, Target)
      /\ \A v \in Ufrag : routes[v] # None <=> InUse(sessions, v)
  BY DEF PooledInv, PooledTypeOK, RoutesMatchSessions
<1>2. GoodTable(sessions, routes, tb) /\ Install(tb)
  BY <1>1, RemoveSessionGood DEF OnRemoveSession
<1>3. SR!KeepRoutedFlows
  BY <1>2, InstallKeepsFlows
<1>4. sessions' = [sessions EXCEPT ![s] = None] /\ routes' = tb.routes
  BY <1>2 DEF Install, RemoveSession
<1>5. \A v \in Ufrag : v \in SR!Used' <=> InUse(sessions', v)
  BY DEF SR!Used, InUse
<1>6. routes' = [v \in Ufrag |-> IF v \in SR!Used' THEN routes[v] ELSE None]
  <2>1. TableUnbound(sessions, routes, s, tb)
    BY <1>1, RemoveSessionRoutes
  <2> QED BY <1>2, <1>5, <2>1 DEF Install, TableUnbound
<1> QED
  BY <1>3, <1>4, <1>6 DEF SR!Unbind

(* A freshly bound pooled socket has no session, route or flow. *)
LEMMA InitRefines == Init => SR!Init
<1> SUFFICES ASSUME Init PROVE SR!Init
  OBVIOUS
<1>1. \A a \in Addr : clients[a] = None
  BY DEF Init, EmptyMap
<1> QED
  BY <1>1 DEF Init, SR!Init, EmptyMap, SR!EmptyMap

(* Relays never change where a client's relay is connected; only Spawn     *)
(* sets a target, and it takes a relay that is no client's.                *)
LEMMA NextRefines == PooledInv /\ [Next]_vars => [SR!Next]_(SR!vars)
<1> SUFFICES ASSUME PooledInv, [Next]_vars PROVE SR!Next \/ UNCHANGED SR!vars
  OBVIOUS
<1>1. CASE UNCHANGED <<clients, tableVars, rtarget>>
  BY <1>1, StutterStep DEF tableVars
<1>2. CASE \E a \in Addr, u \in Ufrag \cup {None} : Receive(a, u)
  BY <1>1, <1>2 DEF Receive, relayVars
<1>3. CASE Forward \/ Notify \/ DropUnroutable \/ AllocateFails
  BY <1>1, <1>3 DEF Forward, Notify, PostDataSent, DropUnroutable, AllocateFails, relayVars
<1>4. CASE ForwardFails \/ NotifyFails
  <2>1. PICK b \in Addr : b = dgram.addr
    BY <1>4, CurrentClient DEF ForwardFails, NotifyFails
  <2>2. /\ {b} \in SUBSET Addr /\ RemoveClients({b})
        /\ UNCHANGED <<sessions, routes, rtarget>>
    BY <1>4, <2>1 DEF ForwardFails, NotifyFails, GiveUpClient, tableVars
  <2>3. SR!Close(b) \/ UNCHANGED SR!vars
    BY <2>2, CloseStep
  <2> QED BY <2>3 DEF SR!Next
<1>5. CASE \E r \in Relay : Allocate(r) \/ AllocateSendFails(r)
  <2>1. PICK r \in Relay, keep \in BOOLEAN :
           /\ pc = "route" /\ Routable /\ Spawn(r, dgram.addr, routes[dgram.ufrag], keep)
           /\ UNCHANGED <<clients, tableVars>>
    BY <1>5 DEF Allocate, AllocateSendFails
  <2>2. ASSUME NEW a \in Addr, clients[a] # None
        PROVE  rtarget'[clients[a].relay] = rtarget[clients[a].relay]
    <3>1. clients[a].relay # r /\ clients[a].relay \in Relay
      BY <2>1, <2>2, SpawnInv, FlowOfClient
    <3> QED BY <2>1, <3>1 DEF Spawn, PooledInv, PooledTypeOK, RelayTypeOK, Map
  <2> QED BY <2>1, <2>2, StutterStep DEF tableVars, SR!vars
<1>6. CASE NotifyFresh
  BY <1>6, OpenStep DEF SR!Next
<1>7. CASE NotifyFreshFails
  BY <1>1, <1>7 DEF NotifyFreshFails
<1>8. CASE OnClientEnded
  <2>1. PICK b \in Addr : b = Head(ended)
    BY <1>8 DEF OnClientEnded, PooledInv, PooledTypeOK, RelayTypeOK
  <2>2. PICK A \in SUBSET {b} : A = {a \in {b} : Stale(a)}
    OBVIOUS
  <2>3. A \in SUBSET Addr /\ RemoveClients(A) /\ UNCHANGED <<sessions, routes, rtarget>>
    BY <1>8, <2>1, <2>2 DEF OnClientEnded, tableVars
  <2>4. SR!Close(b) \/ UNCHANGED SR!vars
    BY <2>2, <2>3, CloseStep
  <2> QED BY <2>4 DEF SR!Next
<1>9. CASE \E s \in Session, u \in Ufrag, t \in Target : OnAddRoute(s, u, t)
  BY <1>9, BindStep DEF SR!Next
<1>10. CASE \E s \in Session : OnRemoveSession(s)
  BY <1>10, UnbindStep DEF SR!Next
<1>11. CASE Shutdown
  <2>1. \A a \in Addr : clients'[a] = None
    BY <1>11 DEF Shutdown, EmptyMap
  <2>2. SR!Reset
    BY <1>11, <2>1 DEF Shutdown, SR!Reset, EmptyMap, SR!EmptyMap
  <2> QED BY <2>2 DEF SR!Next
<1>12. CASE Relays
  BY <1>1, <1>12 DEF Relays, RelayStep, RelayConsume, RelayStop, RelayReport, RelayExit,
                     RelayAborted, Gone
<1>13. CASE UNCHANGED vars
  BY <1>1, <1>13 DEF vars, relayVars, tableVars
<1> QED
  BY <1>2, <1>3, <1>4, <1>5, <1>6, <1>7, <1>8, <1>9, <1>10, <1>11, <1>12, <1>13
     DEF Next, OnDatagram

(* The pooled endpoint, with all its tasks and channels, implements the    *)
(* session routing it promises.                                            *)
THEOREM Refinement == Spec => RoutingSpec
  BY InitRefines, NextRefines, Invariance, PTL DEF Spec, RoutingSpec, SR!Spec

(* What LiveFlowsSurvive says of one step. *)
Survives ==
  \A a \in Addr :
    clients[a] # None /\ rxOpen[clients[a].relay] /\ clients'[a] # clients[a]
      => \/ pc = "forward" /\ dgram.addr = a
         \/ routes'[clients[a].ufrag] # routes[clients[a].ufrag]
         \/ pc' = "closed"

(* on_control drops the flows of ufrags that lost or changed their target. *)
LEMMA InstallSurvives ==
  ASSUME PooledInv, NEW tb, GoodTable(sessions, routes, tb), Install(tb)
  PROVE  Survives
<1> SUFFICES ASSUME NEW a \in Addr, clients[a] # None, clients'[a] # clients[a]
             PROVE  routes'[clients[a].ufrag] # routes[clients[a].ufrag]
  BY DEF Survives
<1>1. clients[a].ufrag \in Ufrag /\ clients[a].ufrag \in tb.dropped
  BY FlowOfClient DEF Install, RemoveClients, FlowsOf
<1>2. routes[clients[a].ufrag] # None
  BY DEF PooledInv, FlowsFollowRoutes, Serves
<1> QED
  BY <1>1, <1>2 DEF Install, GoodTable

(* No step removes a live flow but for the reasons LiveFlowsSurvive lists. *)
LEMMA NextSurvives == PooledInv /\ [Next]_vars => [Survives]_vars
<1> SUFFICES ASSUME PooledInv, Next PROVE Survives
  OBVIOUS
<1> USE DEF Survives
<1>1. CASE UNCHANGED clients
  BY <1>1
<1>2. CASE ForwardFails \/ NotifyFails
  BY <1>2 DEF ForwardFails, NotifyFails, GiveUpClient, RemoveClients
<1>3. CASE NotifyFresh
  <2>1. clients[dgram.addr] = None /\ dgram.addr \in Addr
    BY <1>3, FreshClient DEF NotifyFresh
  <2> QED BY <1>3, <2>1 DEF NotifyFresh, PooledInv, PooledTypeOK, Map
<1>4. CASE OnClientEnded
  BY <1>4 DEF OnClientEnded, RemoveClients, Stale
<1>5. CASE \E s \in Session, u \in Ufrag, t \in Target : OnAddRoute(s, u, t)
  BY <1>5, AddRouteGood, InstallSurvives
     DEF OnAddRoute, PooledInv, PooledTypeOK, RoutesMatchSessions
<1>6. CASE \E s \in Session : OnRemoveSession(s)
  BY <1>6, RemoveSessionGood, InstallSurvives
     DEF OnRemoveSession, PooledInv, PooledTypeOK, RoutesMatchSessions
<1>7. CASE Shutdown
  BY <1>7 DEF Shutdown
<1>8. CASE Relays \/ \E a \in Addr, u \in Ufrag \cup {None} : Receive(a, u)
  BY <1>1, <1>8 DEF Relays, Receive
<1>9. CASE Forward \/ Notify \/ DropUnroutable \/ AllocateFails \/ NotifyFreshFails
             \/ \E r \in Relay : Allocate(r) \/ AllocateSendFails(r)
  BY <1>1, <1>9 DEF Forward, Notify, DropUnroutable, AllocateFails, NotifyFreshFails,
                    Allocate, AllocateSendFails
<1> QED
  BY <1>2, <1>3, <1>4, <1>5, <1>6, <1>7, <1>8, <1>9 DEF Next, OnDatagram

(* The is_closed check of the receive loop: no late report tears down a    *)
(* live flow.                                                              *)
THEOREM LiveSurvive == Spec => LiveFlowsSurvive
<1>1. Spec => [][Survives]_vars
  BY NextSurvives, Invariance, PTL DEF Spec
<1> QED
  BY <1>1 DEF LiveFlowsSurvive, Survives

-----------------------------------------------------------------------------
(* Where a datagram goes *)

(* The targets that are routed now. *)
Routed == {t \in Target : \E u \in Ufrag : routes[u] = t}

(* A datagram is sent to routed targets only, and to a second one only     *)
(* when it carries a ufrag, after the relay of its flow took it and ended, *)
(* and then to the target of that ufrag.  OneTargetPerDatagram says what   *)
(* the header of udp_pooled.rs does; this is how far the code falls short. *)
DatagramTargets ==
  dgram # None =>
    /\ dgram.to \subseteq Routed
    /\ \A t1, t2 \in dgram.to :
         \/ t1 = t2
         \/ /\ pc = "notifyFresh" /\ dgram.ufrag # None
            /\ routes[dgram.ufrag] \in {t1, t2}

(* DatagramTargets, and that nothing is sent before "forward".             *)
Destinations == DatagramTargets /\ (pc = "forward" => dgram.to = {})

(* A step that leaves on_datagram, or takes place outside it. *)
LEMMA NoDatagram ==
  ASSUME PooledInv', dgram' = None
  PROVE  Destinations'
  BY DEF PooledInv, LoopOK, Destinations, DatagramTargets

(* A step that changes neither the datagram nor the routes. *)
LEMMA SameDestinations ==
  ASSUME Destinations, UNCHANGED <<dgram, routes>>,
         pc' = pc \/ (pc \in {"forward", "notify"} /\ pc' = "route")
  PROVE  Destinations'
<1>1. Routed' = Routed
  BY DEF Routed
<1> QED
  BY <1>1 DEF Destinations, DatagramTargets

(* A flow leads to a routed target. *)
LEMMA FlowIsRouted ==
  ASSUME PooledInv, pc \in {"forward", "notify"}
  PROVE  rtarget[clients[dgram.addr].relay] \in Routed
<1>1. /\ dgram.addr \in Addr /\ clients[dgram.addr] \in PooledClient
      /\ clients[dgram.addr] # None /\ rtarget[clients[dgram.addr].relay] \in Target
  BY CurrentClient, PooledAssumption
<1>2. Serves(clients[dgram.addr], dgram.addr)
  BY <1>1 DEF PooledInv, FlowsFollowRoutes
<1>3. clients[dgram.addr].ufrag \in Ufrag
  BY <1>1 DEF PooledClient
<1> QED
  BY <1>1, <1>2, <1>3 DEF Serves, Routed

(* on_datagram sends to the target of the flow, then to that of the ufrag. *)
LEMMA NextDestinations == PooledInv /\ Destinations /\ [Next]_vars => Destinations'
<1> SUFFICES ASSUME PooledInv, Destinations, [Next]_vars PROVE Destinations'
  OBVIOUS
<1>1. PooledInv'
  BY NextInv
<1>2. CASE \E a \in Addr, u \in Ufrag \cup {None} : Receive(a, u)
  <2>1. dgram'.to = {}
    BY <1>2 DEF Receive
  <2> QED BY <2>1 DEF Destinations, DatagramTargets
<1>3. CASE Forward
  <2> DEFINE t == rtarget[clients[dgram.addr].relay]
  <2>1. dgram \in Datagram /\ dgram # None /\ t \in Routed /\ dgram.to = {}
    BY <1>3, CurrentClient, FlowIsRouted, PooledAssumption DEF Forward, Destinations
  <2>2. dgram'.to = {t}
    BY <1>3, <2>1 DEF Forward, Datagram
  <2>3. Routed' = Routed /\ pc' = "notify"
    BY <1>3 DEF Forward, Routed, tableVars
  <2> HIDE DEF t
  <2> QED BY <2>1, <2>2, <2>3 DEF Destinations, DatagramTargets
<1>4. CASE ForwardFails \/ NotifyFails
  BY <1>4, SameDestinations DEF ForwardFails, NotifyFails, GiveUpClient, tableVars
<1>5. CASE \E r \in Relay : Allocate(r)
  <2> DEFINE t == routes[dgram.ufrag]
  <2>1. /\ pc = "route" /\ Routable /\ pc' = "notifyFresh" /\ UNCHANGED routes
        /\ dgram' = [dgram EXCEPT !.to = @ \cup {t}]
    BY <1>5 DEF Allocate, tableVars
  <2>2. dgram \in Datagram /\ dgram # None
    BY <2>1 DEF PooledInv, PooledTypeOK, LoopOK
  <2>3. dgram'.to = dgram.to \cup {t} /\ dgram'.ufrag = dgram.ufrag
    BY <2>1, <2>2 DEF Datagram
  <2>4. t \in Routed /\ dgram.ufrag # None
    BY <2>1, <2>2 DEF Routable, Datagram, Routed, PooledInv, PooledTypeOK, Map
  <2>5. dgram.to \subseteq Routed /\ \A t1, t2 \in dgram.to : t1 = t2
    BY <2>1, <2>2 DEF Destinations, DatagramTargets
  <2>6. Routed' = Routed /\ routes'[dgram'.ufrag] = t
    BY <2>1, <2>3 DEF Routed
  <2> HIDE DEF t
  <2> QED BY <2>1, <2>3, <2>4, <2>5, <2>6 DEF Destinations, DatagramTargets
<1>6. CASE \/ Notify \/ DropUnroutable \/ AllocateFails \/ NotifyFresh \/ NotifyFreshFails
           \/ Shutdown \/ \E r \in Relay : AllocateSendFails(r)
  BY <1>1, <1>6, NoDatagram DEF Notify, DropUnroutable, AllocateFails, NotifyFresh,
     NotifyFreshFails, AllocateSendFails, BackToSelect, Shutdown
<1>7. CASE OnClientEnded \/ (\E s \in Session, u \in Ufrag, t \in Target : OnAddRoute(s, u, t))
             \/ (\E s \in Session : OnRemoveSession(s))
  <2>1. pc = "select" /\ dgram' = dgram
    BY <1>7 DEF OnClientEnded, OnAddRoute, OnRemoveSession, Install, loopVars
  <2>2. dgram' = None
    BY <2>1 DEF PooledInv, LoopOK
  <2> QED BY <1>1, <2>2, NoDatagram
<1>8. CASE Relays \/ UNCHANGED vars
  BY <1>8, SameDestinations DEF Relays, loopVars, tableVars, vars
<1> QED
  BY <1>2, <1>3, <1>4, <1>5, <1>6, <1>7, <1>8 DEF Next, OnDatagram

(* on_datagram: no datagram leaves for a target that is not routed, none   *)
(* without a ufrag has two targets, and none has three.                    *)
THEOREM TargetsBounded == Spec => []DatagramTargets
<1>1. Init => Destinations
  BY DEF Init, Destinations, DatagramTargets
<1>2. Destinations => DatagramTargets
  BY DEF Destinations
<1> QED
  BY <1>1, <1>2, NextDestinations, Invariance, PTL DEF Spec

-----------------------------------------------------------------------------
(* No circular wait *)

(* on_datagram waits for room in the control channel of relay r. *)
WaitsFor(r) ==
  /\ rxOpen[r] /\ ctl[r] = CtlCap
  /\ \/ pc = "notify" /\ clients[dgram.addr].relay = r
     \/ pc = "notifyFresh" /\ fresh.relay = r

(* A relay the loop waits for is in its own loop and has messages to take  *)
(* (RelayConsume can happen): it is never waiting for the loop, which      *)
(* alone makes room for reports.                                           *)
NoCircularWait == \A r \in Relay : WaitsFor(r) => task[r] = "running" /\ ctl[r] > 0

(* The safety half of LoopReturns: ProxyClient::run closes its control     *)
(* channel before it reports, so the two never wait for each other.        *)
THEOREM NobodyWaitsInACircle == Spec => []NoCircularWait
<1>1. PooledInv => NoCircularWait
  BY RelayAssumption DEF PooledInv, RelaysOK, NoCircularWait, WaitsFor
<1> QED
  BY <1>1, Invariance, PTL
=============================================================================
