-------------------------- MODULE UdpEndpointProofs --------------------------
(***************************************************************************)
(* Proofs about UdpEndpoint, for any numbers of addresses and relays and   *)
(* any channel capacities.                                                 *)
(*                                                                         *)
(* The argument: a relay is owned exactly while it is the relay of its     *)
(* address, so an abort never hits a client's relay and the end of such a  *)
(* relay is always reported.  An address whose relay was not created too   *)
(* early has no other relay that could still report, and since a relay     *)
(* closes its channel before it reports, no report for the address is      *)
(* there while its relay is open.                                          *)
(***************************************************************************)
EXTENDS UdpEndpoint, ProxyLemmas

(* The local variables of run(), by where it stands. *)
LoopOK ==
  /\ from # None <=> pc \in {"create", "forward", "notify"}
  /\ pc = "create" => clients[from] = None
  /\ pc \in {"forward", "notify"} => clients[from] # None
  /\ pc = "ended" => ended = <<>> /\ \A a \in Addr : clients[a] = None

(* Handlers and clients match: Rust's ownership, made explicit. *)
Owned ==
  /\ \A a \in Addr : clients[a] # None => held[clients[a]] /\ raddr[clients[a]] = a
  /\ \A r \in Relay : held[r] => raddr[r] \in Addr /\ clients[raddr[r]] = r

(* The control channel is open exactly while the relay's loop runs, and a  *)
(* relay that may still report has an address.                             *)
RelaysOK ==
  \A r \in Relay : /\ rxOpen[r] => task[r] = "running"
                   /\ task[r] # "done" => raddr[r] \in Addr

(* An endpoint without a client never had one. *)
NeverHadClients ==
  pc \in {"select", "create"} /\ (\A a \in Addr : clients[a] = None)
    => \A r \in Relay : raddr[r] = None

(* A client whose relay was not created too early has no other relay that  *)
(* could report, and no report while its relay is open.                    *)
Sole ==
  \A a \in Addr : clients[a] # None /\ a \notin overtaken
    => /\ \A r \in Relay : raddr[r] = a /\ task[r] \in {"running", "reporting"}
                             => r = clients[a]
       /\ rxOpen[clients[a]] => ~Reported(a)

(* The inductive invariant. *)
EndpointInv ==
  /\ EndpointTypeOK
  /\ LoopOK
  /\ Owned
  /\ RelaysOK
  /\ EndedClientsReported
  /\ NeverHadClients
  /\ Sole

-----------------------------------------------------------------------------
(* The inductive step, one lemma per kind of step *)

(* A freshly bound endpoint is in order. *)
LEMMA InitInv == Init => EndpointInv
<1> SUFFICES ASSUME Init PROVE EndpointInv
  OBVIOUS
<1> USE DEF Init, RelayInit, EmptyMap
<1>1. ended \in Seq(Addr) /\ Len(ended) <= EndCap
  BY EmptySeq, RelayAssumption
<1>2. EndpointTypeOK
  <2>1. 0 \in 0..CtlCap
    BY RelayAssumption
  <2>2. RelayTypeOK
    BY <1>1, <2>1 DEF RelayTypeOK, Map, TaskState
  <2> QED BY <2>2 DEF EndpointTypeOK, Map
<1>3. LoopOK /\ Owned /\ RelaysOK
  BY DEF LoopOK, Owned, RelaysOK
<1>4. EndedClientsReported /\ NeverHadClients /\ Sole
  BY DEF EndedClientsReported, NeverHadClients, Sole
<1> QED
  BY <1>2, <1>3, <1>4 DEF EndpointInv

(* A client's relay is a relay. *)
LEMMA ClientsAreRelays ==
  ASSUME EndpointInv, NEW a \in Addr, clients[a] # None
  PROVE  clients[a] \in Relay
  BY DEF EndpointInv, EndpointTypeOK, Map

(* Steps that leave the clients and the relays alone. *)
LEMMA LoopOnlyInv ==
  ASSUME EndpointInv,
         (\E a \in Addr : Receive(a)) \/ ReceiveFailsOrIdle \/ CreateFails \/ Forward \/ Kill
  PROVE  EndpointInv'
<1> USE DEF EndpointInv, relayVars
<1>1. UNCHANGED <<clients, sentEnd, overtaken, relayVars>>
  BY DEF Receive, ReceiveFailsOrIdle, CreateFails, Forward, Kill
<1>2. pc' \in {"select", "create"} => pc \in {"select", "create"}
  BY DEF Receive, ReceiveFailsOrIdle, CreateFails, Forward, Kill
<1>3. EndpointTypeOK'
  BY DEF EndpointTypeOK, RelayTypeOK,
         Receive, ReceiveFailsOrIdle, CreateFails, Forward, Kill
<1>4. LoopOK'
  BY BaseAssumption DEF LoopOK, Receive, ReceiveFailsOrIdle, CreateFails, Forward, Kill
<1>5. Owned' /\ RelaysOK'
  BY <1>1 DEF Owned, RelaysOK
<1>6. EndedClientsReported' /\ NeverHadClients' /\ Sole'
  BY <1>1, <1>2 DEF EndedClientsReported, NeverHadClients, Sole, Reported
<1> QED
  BY <1>3, <1>4, <1>5, <1>6

(* get_or_create_client: a new relay for an address that has none. *)
LEMMA CreateInv ==
  ASSUME EndpointInv, NEW r \in Relay, Create(r)
  PROVE  EndpointInv'
<1> USE DEF EndpointInv
<1>1. /\ pc = "create" /\ pc' = "forward" /\ from \in Addr /\ from # None
      /\ clients[from] = None /\ UNCHANGED <<from, aborted, sentEnd, ended>>
      /\ Free(r) /\ r # None
  BY RelayAssumption DEF Create, Spawn, EndpointTypeOK, LoopOK
<1>2. /\ clients'[from] = r
      /\ \A a \in Addr : a # from => clients'[a] = clients[a]
  BY <1>1 DEF Create, EndpointTypeOK, Map
<1>3. /\ task'[r] = "running" /\ held'[r] /\ raddr'[r] = from /\ rxOpen'[r]
      /\ \A q \in Relay : q # r => /\ task'[q] = task[q] /\ held'[q] = held[q]
                                   /\ raddr'[q] = raddr[q] /\ rxOpen'[q] = rxOpen[q]
  BY DEF Create, Spawn, EndpointTypeOK, RelayTypeOK, Map
<1>4. ASSUME NEW a \in Addr, clients[a] # None
      PROVE  clients[a] \in Relay /\ clients[a] # r /\ a # from
  BY <1>1, <1>4, ClientsAreRelays DEF Owned, Free
<1>5. EndpointTypeOK'
  <2>1. RelayTypeOK'
    BY <1>1, RelayAssumption, RemoteAssumption
    DEF Create, Spawn, EndpointTypeOK, RelayTypeOK, Map, TaskState
  <2> QED BY <1>1, <2>1 DEF Create, EndpointTypeOK, Map
<1>6. LoopOK'
  BY <1>1, <1>2 DEF LoopOK
<1>7. Owned'
  <2>1. ASSUME NEW a \in Addr, clients'[a] # None
        PROVE  held'[clients'[a]] /\ raddr'[clients'[a]] = a
    BY <1>2, <1>3, <1>4, <2>1 DEF Owned
  <2>2. ASSUME NEW q \in Relay, held'[q]
        PROVE  raddr'[q] \in Addr /\ clients'[raddr'[q]] = q
    BY <1>1, <1>2, <1>3, <2>2, RelayAssumption DEF Owned
  <2> QED BY <2>1, <2>2 DEF Owned
<1>8. RelaysOK'
  BY <1>1, <1>3 DEF RelaysOK
<1>9. EndedClientsReported'
  BY <1>1, <1>2, <1>3, <1>4 DEF EndedClientsReported, Reported
<1>10. NeverHadClients'
  BY <1>1 DEF NeverHadClients
<1>11. Sole'
  <2>1. overtaken \subseteq overtaken' /\ (from \notin overtaken' => ~Unfinished(from))
    BY DEF Create
  <2>2. from \notin overtaken' =>
          /\ \A q \in Relay : raddr'[q] = from /\ task'[q] \in {"running", "reporting"} => q = r
          /\ ~Reported(from)'
    BY <1>1, <1>3, <2>1 DEF Unfinished, Reported
  <2>3. ASSUME NEW a \in Addr, a # from, clients'[a] # None, a \notin overtaken'
        PROVE  /\ \A q \in Relay : raddr'[q] = a /\ task'[q] \in {"running", "reporting"}
                                     => q = clients'[a]
               /\ rxOpen'[clients'[a]] => ~Reported(a)'
    BY <1>1, <1>2, <1>3, <1>4, <2>1, <2>3 DEF Sole, Reported
  <2>4. ASSUME NEW a \in Addr, clients'[a] # None, a \notin overtaken'
        PROVE  /\ \A q \in Relay : raddr'[q] = a /\ task'[q] \in {"running", "reporting"}
                                     => q = clients'[a]
               /\ rxOpen'[clients'[a]] => ~Reported(a)'
    <3>1. CASE a = from
      BY <1>1, <1>2, <2>2, <2>4, <3>1 DEF Reported
    <3>2. CASE a # from
      BY <2>3, <2>4, <3>2
    <3> QED BY <3>1, <3>2
  <2> QED BY <2>4 DEF Sole
<1> QED
  BY <1>5, <1>6, <1>7, <1>8, <1>9, <1>10, <1>11

(* ProxyClient::send has posted its DataSent. *)
LEMMA NotifyInv == ASSUME EndpointInv, Notify PROVE EndpointInv'
<1> USE DEF EndpointInv
<1>1. /\ pc = "notify" /\ pc' = "select" /\ from' = None
      /\ from \in Addr /\ clients[from] # None
      /\ UNCHANGED <<clients, aborted, sentEnd, overtaken, task, held, raddr, rtarget, rxOpen, ended>>
  BY DEF Notify, PostDataSent, EndpointTypeOK, LoopOK
<1>2. ctl' \in [Relay -> 0..CtlCap]
  <2>1. clients[from] \in Relay
    BY <1>1, ClientsAreRelays
  <2> QED BY <2>1, RelayAssumption DEF Notify, PostDataSent, EndpointTypeOK, RelayTypeOK
<1>3. EndpointTypeOK' /\ LoopOK'
  BY <1>1, <1>2 DEF EndpointTypeOK, RelayTypeOK, LoopOK
<1>4. Owned' /\ RelaysOK'
  BY <1>1 DEF Owned, RelaysOK
<1>5. EndedClientsReported' /\ NeverHadClients' /\ Sole'
  BY <1>1 DEF EndedClientsReported, NeverHadClients, Sole, Reported
<1> QED
  BY <1>3, <1>4, <1>5

(* A client is removed, for a failed send or for a report: its handler     *)
(* goes with it, no other does, and the loop ends if it was the last.      *)
LEMMA RemoveClientInv ==
  ASSUME EndpointInv, pc # "ended", NEW b \in Addr, RemoveClient(b),
         UNCHANGED <<task, raddr, rtarget, ctl, rxOpen>>,
         ended' \in Seq(Addr), Len(ended') <= EndCap,
         \A a : Reported(a)' => Reported(a),
         \A a : Reported(a) /\ a # b => Reported(a)'
  PROVE  EndpointInv'
<1> USE DEF EndpointInv
<1>1. /\ clients' \in Map(Addr, Relay) /\ clients'[b] = None
      /\ \A a \in Addr : a # b => clients'[a] = clients[a]
  BY DEF RemoveClient, EndpointTypeOK, Map
<1>2. /\ held' \in [Relay -> BOOLEAN]
      /\ \A q \in Relay : held'[q] = (held[q] /\ q # clients[b])
  BY DEF RemoveClient, DropHandlers, EndpointTypeOK, RelayTypeOK
<1>3. /\ pc' \in {"select", "ending"} /\ from' = None /\ UNCHANGED <<aborted, sentEnd, overtaken>>
      /\ pc' = "select" => \E a \in Addr : clients'[a] # None
  BY DEF RemoveClient
<1>4. EndpointTypeOK'
  BY <1>1, <1>2, <1>3 DEF EndpointTypeOK, RelayTypeOK
<1>5. LoopOK' /\ NeverHadClients'
  BY <1>3 DEF LoopOK, NeverHadClients
<1>6. Owned'
  <2>1. ASSUME NEW a \in Addr, clients'[a] # None
        PROVE  held'[clients'[a]] /\ raddr'[clients'[a]] = a
    <3>1. a # b /\ clients'[a] = clients[a] /\ clients[a] \in Relay
      BY <1>1, <2>1, ClientsAreRelays
    <3>2. held[clients[a]] /\ raddr[clients[a]] = a /\ clients[a] # clients[b]
      BY <2>1, <3>1 DEF Owned
    <3> QED BY <1>2, <3>1, <3>2
  <2>2. ASSUME NEW q \in Relay, held'[q]
        PROVE  raddr'[q] \in Addr /\ clients'[raddr'[q]] = q
    BY <1>1, <1>2, <2>2 DEF Owned
  <2> QED BY <2>1, <2>2 DEF Owned
<1>7. RelaysOK'
  BY DEF RelaysOK
<1>8. EndedClientsReported'
  BY <1>1 DEF EndedClientsReported
<1>9. Sole'
  BY <1>1, <1>3 DEF Sole
<1> QED
  BY <1>4, <1>5, <1>6, <1>7, <1>8, <1>9

(* Either half of ProxyClient::send failed. *)
LEMMA SendFailsInv == ASSUME EndpointInv, SendFails PROVE EndpointInv'
<1>1. /\ pc # "ended" /\ from \in Addr /\ RemoveClient(from)
      /\ UNCHANGED <<task, raddr, rtarget, ctl, rxOpen, ended>>
      /\ ended \in Seq(Addr) /\ Len(ended) <= EndCap
  BY DEF SendFails, EndpointInv, EndpointTypeOK, RelayTypeOK, LoopOK
<1>2. \A a : Reported(a)' = Reported(a)
  BY <1>1 DEF Reported
<1> QED
  BY <1>1, <1>2, RemoveClientInv

(* What is left of the reports when one is taken. *)
LEMMA TakeReport ==
  ASSUME EndpointInv, OnClientEnded
  PROVE  /\ Head(ended) \in Addr /\ Reported(Head(ended))
         /\ ended' \in Seq(Addr) /\ Len(ended') <= EndCap
         /\ \A a : Reported(a)' => Reported(a)
         /\ \A a : Reported(a) /\ a # Head(ended) => Reported(a)'
<1>1. ended \in Seq(Addr) /\ ended # <<>> /\ ended' = Tail(ended) /\ Len(ended) <= EndCap
  BY DEF EndpointInv, EndpointTypeOK, RelayTypeOK, OnClientEnded
<1>2. /\ Head(ended) \in Addr /\ Among(ended, Head(ended)) /\ ended' \in Seq(Addr)
      /\ Len(ended) \in Nat /\ Len(ended') = Len(ended) - 1
      /\ \A a : Among(ended', a) => Among(ended, a)
      /\ \A a : Among(ended, a) /\ a # Head(ended) => Among(ended', a)
  BY <1>1, AmongTail
<1>3. Len(ended') <= EndCap
  BY <1>1, <1>2, RelayAssumption
<1> QED
  BY <1>2, <1>3 DEF Among, Reported

(* A report is handled: whichever relay its address has goes. *)
LEMMA ClientEndedInv == ASSUME EndpointInv, OnClientEnded PROVE EndpointInv'
<1>1. /\ pc # "ended" /\ RemoveClient(Head(ended))
      /\ UNCHANGED <<task, raddr, rtarget, ctl, rxOpen>>
  BY DEF OnClientEnded
<1> QED
  BY <1>1, TakeReport, RemoveClientInv

(* run() is over, however it ended. *)
LEMMA OverInv ==
  ASSUME EndpointInv, Over, aborted' \in BOOLEAN, sentEnd' \in BOOLEAN
  PROVE  EndpointInv'
<1> USE DEF EndpointInv, Over, EmptyMap
<1>1. ended' \in Seq(Addr) /\ Len(ended') = 0
  BY EmptySeq
<1>2. held' \in [Relay -> BOOLEAN] /\ \A r \in Relay : ~held'[r]
  BY DEF DropHandlers
<1>3. EndpointTypeOK'
  BY <1>1, <1>2, RelayAssumption DEF EndpointTypeOK, RelayTypeOK, Map
<1>4. LoopOK' /\ Owned' /\ RelaysOK'
  BY <1>2 DEF LoopOK, Owned, RelaysOK
<1>5. EndedClientsReported' /\ NeverHadClients' /\ Sole'
  BY DEF EndedClientsReported, NeverHadClients, Sole
<1> QED
  BY <1>3, <1>4, <1>5

(* A relay reads a DataSent, breaks out of its loop, or is gone: nothing   *)
(* is reported, and the relay of a client is never gone unreported.        *)
LEMMA RelayQuietInv ==
  ASSUME EndpointInv, NEW r \in Relay, UNCHANGED ownVars,
         RelayConsume(r) \/ RelayStop(r) \/ RelayExit(r) \/ RelayAborted(r)
  PROVE  EndpointInv'
<1> USE DEF EndpointInv, ownVars
<1> DEFINE st == task'[r]
<1>1. UNCHANGED <<held, raddr, rtarget, ended>>
  BY DEF RelayConsume, RelayStop, RelayExit, RelayAborted, Gone
<1>2. /\ task' \in [Relay -> TaskState] /\ ctl' \in [Relay -> 0..CtlCap]
      /\ rxOpen' \in [Relay -> BOOLEAN]
  <2>1. \A n \in 0..CtlCap : 0 \in 0..CtlCap /\ (n > 0 => n - 1 \in 0..CtlCap)
    BY RelayAssumption
  <2>2. ctl \in [Relay -> 0..CtlCap] /\ task \in [Relay -> TaskState] /\ rxOpen \in [Relay -> BOOLEAN]
    BY DEF EndpointTypeOK, RelayTypeOK
  <2>3. CASE RelayConsume(r)
    BY <2>1, <2>2, <2>3 DEF RelayConsume
  <2>4. CASE RelayStop(r)
    BY <2>2, <2>4 DEF RelayStop, TaskState
  <2>5. CASE RelayExit(r) \/ RelayAborted(r)
    BY <2>1, <2>2, <2>5 DEF RelayExit, RelayAborted, Gone, TaskState
  <2> QED BY <2>3, <2>4, <2>5
<1>3. \A q \in Relay : q # r => task'[q] = task[q] /\ rxOpen'[q] = rxOpen[q]
  BY DEF EndpointTypeOK, RelayTypeOK, RelayConsume, RelayStop, RelayExit, RelayAborted, Gone
<1>4. \/ st = "running" /\ task[r] = "running" /\ rxOpen'[r] = rxOpen[r]
      \/ st = "reporting" /\ task[r] = "running" /\ ~rxOpen'[r]
      \/ st = "done" /\ task[r] # "done" /\ ~rxOpen'[r] /\ (task[r] = "exiting" \/ ~held[r])
  BY DEF EndpointTypeOK, RelayTypeOK, RelayConsume, RelayStop, RelayExit, RelayAborted, Gone
<1> HIDE DEF st
<1>5. EndpointTypeOK' /\ LoopOK'
  BY <1>1, <1>2 DEF EndpointTypeOK, RelayTypeOK, LoopOK
<1>6. Owned' /\ NeverHadClients'
  BY <1>1 DEF Owned, NeverHadClients
<1>7. RelaysOK'
  BY <1>1, <1>3, <1>4 DEF RelaysOK, st
<1>8. EndedClientsReported'
  <2>1. ASSUME NEW a \in Addr, clients[a] # None, task'[clients[a]] \in {"exiting", "done"}
        PROVE  Reported(a)'
    <3>1. clients[a] \in Relay /\ held[clients[a]]
      BY <2>1, ClientsAreRelays DEF Owned
    <3>2. task[clients[a]] \in {"exiting", "done"}
      BY <1>3, <1>4, <2>1, <3>1 DEF st
    <3> QED BY <1>1, <2>1, <3>2 DEF EndedClientsReported, Reported
  <2> QED BY <2>1 DEF EndedClientsReported
<1>9. Sole'
  <2>1. \A q \in Relay : /\ task'[q] \in {"running", "reporting"} => task[q] \in {"running", "reporting"}
                         /\ rxOpen'[q] => rxOpen[q]
    BY <1>3, <1>4 DEF st
  <2>2. \A a \in Addr : clients[a] # None => clients[a] \in Relay
    BY ClientsAreRelays
  <2> QED BY <1>1, <2>1, <2>2 DEF Sole, Reported
<1> QED
  BY <1>5, <1>6, <1>7, <1>8, <1>9

(* A relay reports its end, or finds its endpoint gone. *)
LEMMA RelayReportInv ==
  ASSUME EndpointInv, NEW r \in Relay, UNCHANGED ownVars, RelayReport(r, Up)
  PROVE  EndpointInv'
<1> USE DEF EndpointInv
<1>1. /\ task[r] = "reporting" /\ UNCHANGED <<held, raddr, rtarget, ctl, rxOpen>>
      /\ \A q \in Relay : task'[q] = IF q = r THEN "exiting" ELSE task[q]
      /\ task' \in [Relay -> TaskState]
  BY DEF RelayReport, EndpointTypeOK, RelayTypeOK, TaskState
<1>2. UNCHANGED <<clients, pc, from, aborted, sentEnd, overtaken>>
  BY DEF ownVars
<1>3. raddr[r] \in Addr /\ ~rxOpen[r]
  BY <1>1 DEF RelaysOK
<1>4. CASE pc = "ended"
  <2>1. ended' = ended /\ \A a \in Addr : clients[a] = None
    BY <1>4 DEF RelayReport, Up, LoopOK
  <2>2. EndpointTypeOK' /\ LoopOK'
    BY <1>1, <1>2, <2>1 DEF EndpointTypeOK, RelayTypeOK, LoopOK
  <2>3. Owned' /\ RelaysOK' /\ EndedClientsReported' /\ NeverHadClients' /\ Sole'
    BY <1>1, <1>2, <1>3, <1>4, <2>1 DEF Owned, RelaysOK, EndedClientsReported, NeverHadClients, Sole
  <2> QED BY <2>2, <2>3
<1>5. CASE pc # "ended"
  <2>1. /\ ended' \in Seq(Addr) /\ Len(ended') <= EndCap
        /\ \A a : Reported(a)' <=> Reported(a) \/ a = raddr[r]
    <3>1. ended \in Seq(Addr) /\ Len(ended) < EndCap /\ ended' = Append(ended, raddr[r])
      BY <1>5 DEF EndpointTypeOK, RelayTypeOK, RelayReport, Up
    <3>2. /\ ended' \in Seq(Addr) /\ Len(ended) \in Nat /\ Len(ended') = Len(ended) + 1
          /\ \A a : Among(ended', a) <=> Among(ended, a) \/ a = raddr[r]
      BY <1>3, <3>1, AmongAppend
    <3>3. Len(ended') <= EndCap
      BY <3>1, <3>2, RelayAssumption
    <3> QED BY <3>2, <3>3 DEF Among, Reported
  <2>2. EndpointTypeOK' /\ LoopOK'
    BY <1>1, <1>2, <1>5, <2>1 DEF EndpointTypeOK, RelayTypeOK, LoopOK
  <2>3. Owned' /\ RelaysOK' /\ NeverHadClients'
    BY <1>1, <1>2, <1>3 DEF Owned, RelaysOK, NeverHadClients
  <2>4. \A a \in Addr : clients[a] # None => clients[a] \in Relay /\ raddr[clients[a]] = a
    BY ClientsAreRelays DEF Owned
  <2>5. EndedClientsReported'
    BY <1>1, <1>2, <2>1, <2>4 DEF EndedClientsReported
  <2>6. Sole'
    <3>1. ASSUME NEW a \in Addr, clients[a] # None, a \notin overtaken
          PROVE  /\ \A q \in Relay : raddr[q] = a /\ task'[q] \in {"running", "reporting"}
                                       => q = clients[a]
                 /\ rxOpen[clients[a]] => ~Reported(a)'
      BY <1>1, <1>3, <2>1, <3>1 DEF Sole
    <3> QED BY <1>1, <1>2, <3>1 DEF Sole
  <2> QED BY <2>2, <2>3, <2>5, <2>6
<1> QED
  BY <1>4, <1>5

(* Every step of the endpoint, its relays or the runtime keeps the         *)
(* invariant.                                                              *)
LEMMA NextInv == EndpointInv /\ [Next]_vars => EndpointInv'
<1> SUFFICES ASSUME EndpointInv, [Next]_vars PROVE EndpointInv'
  OBVIOUS
<1>1. CASE (\E a \in Addr : Receive(a)) \/ ReceiveFailsOrIdle \/ CreateFails \/ Forward \/ Kill
  BY <1>1, LoopOnlyInv
<1>2. CASE \E r \in Relay : Create(r)
  BY <1>2, CreateInv
<1>3. CASE Notify \/ SendFails \/ OnClientEnded
  BY <1>3, NotifyInv, SendFailsInv, ClientEndedInv
<1>4. CASE ReportEnd \/ Aborted
  <2>1. Over /\ aborted' \in BOOLEAN /\ sentEnd' \in BOOLEAN
    BY <1>4 DEF ReportEnd, Aborted, EndpointInv, EndpointTypeOK
  <2> QED BY <2>1, OverInv
<1>5. CASE Relays
  BY <1>5, RelayQuietInv, RelayReportInv DEF Relays, RelayStep
<1>6. CASE UNCHANGED vars
  <2> USE <1>6 DEF EndpointInv, vars, ownVars, relayVars
  <2>1. EndpointTypeOK' /\ LoopOK' /\ Owned' /\ RelaysOK'
    BY DEF EndpointTypeOK, RelayTypeOK, LoopOK, Owned, RelaysOK
  <2>2. EndedClientsReported' /\ NeverHadClients' /\ Sole'
    BY DEF EndedClientsReported, NeverHadClients, Sole, Reported
  <2> QED BY <2>1, <2>2
<1> QED
  BY <1>1, <1>2, <1>3, <1>4, <1>5, <1>6 DEF Next, OnDatagram

-----------------------------------------------------------------------------
(* The theorems *)

(* The inductive invariant holds in every reachable state. *)
THEOREM Invariance == Spec => []EndpointInv
  BY InitInv, NextInv, PTL DEF Spec

(* Every variable keeps its type, and both channels their bounds. *)
THEOREM TypeCorrect == Spec => []EndpointTypeOK
<1>1. EndpointInv => EndpointTypeOK
  BY DEF EndpointInv
<1> QED
  BY <1>1, Invariance, PTL

(* ProxyClient::run and run(): a client whose relay is over has its        *)
(* ClientEnded report on the way.                                          *)
THEOREM EndedReported == Spec => []EndedClientsReported
<1>1. EndpointInv => EndedClientsReported
  BY DEF EndpointInv
<1> QED
  BY <1>1, Invariance, PTL

(* What EndsWithLastClient says of a state and of a step. *)
IdleIsNew ==
  pc = "select" /\ (\A a \in Addr : clients[a] = None) => \A r \in Relay : raddr[r] = None

TakesOnlyOvertaken ==
  \A a \in Addr :
    clients[a] # None /\ rxOpen[clients[a]] /\ ended' # ended /\ pc' # "ended"
      => clients'[a] = clients[a] \/ a \in overtaken

(* Besides a relay's report only OnClientEnded changes the channel, and it *)
(* removes an address that was reported.                                   *)
LEMMA NextTakes == EndpointInv /\ [Next]_vars => TakesOnlyOvertaken
<1> SUFFICES ASSUME EndpointInv, [Next]_vars, NEW a \in Addr,
                    clients[a] # None, rxOpen[clients[a]], ended' # ended, pc' # "ended",
                    clients'[a] # clients[a], a \notin overtaken
             PROVE  FALSE
  BY DEF TakesOnlyOvertaken
<1>1. OnClientEnded
  BY DEF Next, OnDatagram, Relays, vars, ownVars, relayVars, Receive, ReceiveFailsOrIdle,
         Create, Spawn, CreateFails, Forward, Notify, PostDataSent, SendFails, ReportEnd, Kill,
         Aborted, Over
<1>2. Reported(Head(ended)) /\ Head(ended) \in Addr
  BY <1>1, TakeReport
<1>3. a = Head(ended)
  BY <1>1, <1>2 DEF OnClientEnded, RemoveClient, EndpointInv, EndpointTypeOK, Map
<1> QED
  BY <1>2, <1>3 DEF EndpointInv, Sole

(* run() and ProxyClient::run: the endpoint ends with its last client, and *)
(* a report takes a live relay from its client only if that relay was      *)
(* created before the earlier one was over and its report handled.         *)
THEOREM Ends == Spec => EndsWithLastClient
<1>1. EndpointInv => IdleIsNew
  BY DEF EndpointInv, NeverHadClients, IdleIsNew
<1>2. EndpointInv /\ [Next]_vars => [TakesOnlyOvertaken]_vars
  BY NextTakes
<1>3. Spec => []IdleIsNew /\ [][TakesOnlyOvertaken]_vars
  BY <1>1, <1>2, Invariance, PTL DEF Spec
<1> QED
  BY <1>3 DEF EndsWithLastClient, IdleIsNew, TakesOnlyOvertaken

-----------------------------------------------------------------------------
(* The endpoint is an EndpointTask *)

(* What the manager sees of `pc`, as the refinement mapping defines it. *)
PhaseOf == CASE pc = "ending" -> "ending"
             [] pc = "ended" -> "gone"
             [] OTHER -> "serving"

(* The steps of one task, in terms of the endpoint's own variables. *)
LEMMA TaskSteps ==
  /\ PhaseOf = "serving" /\ PhaseOf' = "ending" /\ UNCHANGED <<aborted, sentEnd>>
       => ET!Stop(0)
  /\ PhaseOf = "ending" /\ PhaseOf' = "gone" /\ sentEnd' = TRUE /\ UNCHANGED aborted
       => ET!Report(0)
  /\ aborted' = TRUE /\ PhaseOf' = PhaseOf /\ UNCHANGED sentEnd => ET!Kill(0)
  /\ aborted /\ PhaseOf # "gone" /\ PhaseOf' = "gone" /\ UNCHANGED <<aborted, sentEnd>>
       => ET!Abort(0)
  /\ PhaseOf' = PhaseOf /\ UNCHANGED <<aborted, sentEnd>> => UNCHANGED ET!taskVars
  BY DEF ET!Stop, ET!Report, ET!Kill, ET!Abort, ET!taskVars, PhaseOf

(* Every step is one of the task's, or invisible to the manager. *)
LEMMA NextRefines == EndpointInv /\ [Next]_vars => [ET!TaskNext]_(ET!taskVars)
<1> SUFFICES ASSUME EndpointInv, [Next]_vars
             PROVE  \/ \E i \in {0} : ET!Stop(i) \/ ET!Report(i) \/ ET!Kill(i) \/ ET!Abort(i)
                    \/ UNCHANGED ET!taskVars
  BY DEF ET!TaskNext
<1> USE DEF PhaseOf
<1>1. CASE ReceiveFailsOrIdle \/ CreateFails
  BY <1>1, TaskSteps DEF ReceiveFailsOrIdle, CreateFails
<1>2. CASE SendFails \/ OnClientEnded
  BY <1>2, TaskSteps DEF SendFails, OnClientEnded, RemoveClient
<1>3. CASE ReportEnd
  BY <1>3, TaskSteps DEF ReportEnd, Over
<1>4. CASE Kill
  BY <1>4, TaskSteps DEF Kill
<1>5. CASE Aborted
  BY <1>5, TaskSteps DEF Aborted, Over
<1>6. CASE (\E a \in Addr : Receive(a)) \/ (\E r \in Relay : Create(r)) \/ Forward \/ Notify
  BY <1>6, TaskSteps DEF Receive, Create, Forward, Notify
<1>7. CASE Relays \/ UNCHANGED vars
  BY <1>7, TaskSteps DEF Relays, vars, ownVars
<1> QED
  BY <1>1, <1>2, <1>3, <1>4, <1>5, <1>6, <1>7 DEF Next, OnDatagram

(* Seen by its manager the endpoint is a task that serves until its loop   *)
(* ends, reports that once and as its last step, and may be killed at any  *)
(* time: the safety part of LifecycleSpec.                                 *)
THEOREM Lifecycle == Spec => ET!TaskSafety
<1>1. Init => ET!TaskInit
  BY DEF Init, ET!TaskInit
<1> QED
  BY <1>1, NextRefines, Invariance, PTL DEF Spec, ET!TaskSafety

-----------------------------------------------------------------------------
(* No circular wait *)

(* A relay whose full control channel run() waits for (sender.send) is in  *)
(* its own loop and has messages to take: it never waits, in turn, for     *)
(* room in the report channel that run() would have to make.               *)
NoCircularWait ==
  pc = "notify" /\ rxOpen[clients[from]] /\ ctl[clients[from]] = CtlCap
    => task[clients[from]] = "running" /\ ctl[clients[from]] > 0

(* The safety half of DatagramsHandled: ProxyClient::run closes its        *)
(* control channel before it reports.                                      *)
THEOREM NobodyWaitsInACircle == Spec => []NoCircularWait
<1>1. EndpointInv => NoCircularWait
  <2> SUFFICES ASSUME EndpointInv, pc = "notify", rxOpen[clients[from]],
                      ctl[clients[from]] = CtlCap
               PROVE  task[clients[from]] = "running" /\ ctl[clients[from]] > 0
    BY DEF NoCircularWait
  <2>1. from \in Addr /\ clients[from] # None
    BY DEF EndpointInv, EndpointTypeOK, LoopOK
  <2>2. clients[from] \in Relay
    BY <2>1, ClientsAreRelays
  <2> QED BY <2>2, RelayAssumption DEF EndpointInv, RelaysOK
<1> QED
  BY <1>1, Invariance, PTL
=============================================================================
