----------------------------- MODULE UdpEndpoint -----------------------------
(***************************************************************************)
(* One per-session endpoint of src/proxy/udp_client.rs (ProxyEndpoint)     *)
(* with the relays of its clients.  Its loop handles datagrams, ClientEnded *)
(* reports and its idle timer; when it ends it reports UdpEndpointEnded to *)
(* the manager, and everything it owns goes with it.  `pc` is where run()  *)
(* stands:                                                                 *)
(*                                                                         *)
(*   select    in the select!                                              *)
(*   create    the address is new: about to allocate_handler               *)
(*   forward   about to socket.send through the relay of the address       *)
(*   notify    sent; awaiting sender.send(DataSent)                        *)
(*   ending    the loop is over; awaiting the report to the manager        *)
(*   ended     the task is gone, and all it owned                          *)
(*                                                                         *)
(* The idle timer may fire at any time.  The manager's channel takes the   *)
(* report eventually.                                                      *)
(***************************************************************************)
EXTENDS UdpRelay

CONSTANT Remote      \* ProxyEndpoint.remote_addr

ASSUME RemoteAssumption == Remote \in Target

VARIABLES
  clients,           \* client address -> relay (ProxyClientHandler)
  pc,                \* where the task is, see above
  from,              \* the source address of the datagram being handled
  aborted,           \* whether kill() was called
  sentEnd,           \* whether UdpEndpointEnded was sent
  overtaken          \* addresses that got a relay before their earlier one was
                     \* over and its report handled (for the properties)

ownVars == <<clients, pc, from, aborted, sentEnd, overtaken>>
vars == <<ownVars, relayVars>>

EndpointTypeOK ==
  /\ RelayTypeOK
  /\ clients \in Map(Addr, Relay)
  /\ pc \in {"select", "create", "forward", "notify", "ending", "ended"}
  /\ from \in Addr \cup {None}
  /\ aborted \in BOOLEAN
  /\ sentEnd \in BOOLEAN
  /\ overtaken \subseteq Addr

Init ==
  /\ RelayInit
  /\ clients = EmptyMap(Addr)
  /\ pc = "select"
  /\ from = None
  /\ aborted = FALSE
  /\ sentEnd = FALSE
  /\ overtaken = {}

-----------------------------------------------------------------------------
(* recv_from yields a datagram from address a. *)
Receive(a) ==
  /\ pc = "select"
  /\ pc' = IF clients[a] = None THEN "create" ELSE "forward"
  /\ from' = a
  /\ UNCHANGED <<clients, aborted, sentEnd, overtaken, relayVars>>

(* recv_from fails, or the idle timer fires: the loop ends. *)
ReceiveFailsOrIdle ==
  /\ pc = "select"
  /\ pc' = "ending"
  /\ UNCHANGED <<clients, from, aborted, sentEnd, overtaken, relayVars>>

Reported(a) == \E i \in 1..Len(ended) : ended[i] = a

Unfinished(a) ==
  Reported(a) \/ \E r \in Relay : raddr[r] = a /\ task[r] \in {"running", "reporting"}

(* get_or_create_client inserts a new relay. *)
Create(r) ==
  /\ pc = "create"
  /\ Spawn(r, from, Remote, TRUE)
  /\ clients' = [clients EXCEPT ![from] = r]
  /\ pc' = "forward"
  /\ overtaken' = IF Unfinished(from) THEN overtaken \cup {from} ELSE overtaken
  /\ UNCHANGED <<from, aborted, sentEnd>>

(* allocate_handler fails, which ends the loop. *)
CreateFails ==
  /\ pc = "create"
  /\ pc' = "ending" /\ from' = None
  /\ UNCHANGED <<clients, aborted, sentEnd, overtaken, relayVars>>

(* socket.send(data) succeeds. *)
Forward ==
  /\ pc = "forward"
  /\ pc' = "notify"
  /\ UNCHANGED <<clients, from, aborted, sentEnd, overtaken, relayVars>>

Notify ==
  /\ pc = "notify"
  /\ PostDataSent(clients[from])
  /\ pc' = "select" /\ from' = None
  /\ UNCHANGED <<clients, aborted, sentEnd, overtaken>>

(* Mutant of RemoveClient: an endpoint that lost its last client stays. *)
RemoveClientStay(a) ==
  /\ clients' = [clients EXCEPT ![a] = None]
  /\ DropHandlers({clients[a]})
  /\ pc' = "select" /\ from' = None
  /\ UNCHANGED <<aborted, sentEnd, overtaken>>

(* self.clients.remove(&addr), which ends the loop when no client is left. *)
RemoveClient(a) ==
  /\ clients' = [clients EXCEPT ![a] = None]
  /\ DropHandlers({clients[a]})
  /\ pc' = IF \A b \in Addr : clients'[b] = None THEN "ending" ELSE "select"
  /\ from' = None
  /\ UNCHANGED <<aborted, sentEnd, overtaken>>

(* Either half of ProxyClient::send fails. *)
SendFails ==
  /\ \/ pc = "forward"
     \/ pc = "notify" /\ ~rxOpen[clients[from]]
  /\ RemoveClient(from)
  /\ UNCHANGED <<task, raddr, rtarget, ctl, rxOpen, ended>>

(* client_rx.recv() yields ClientEnded { addr }: whichever relay now serves *)
(* the address is dropped.                                                  *)
OnClientEnded ==
  /\ pc = "select" /\ ended # <<>>
  /\ ended' = Tail(ended)
  /\ RemoveClient(Head(ended))
  /\ UNCHANGED <<task, raddr, rtarget, ctl, rxOpen>>

(* run() is over: its maps, its handlers and its channel go. *)
Over ==
  /\ pc' = "ended" /\ from' = None
  /\ clients' = EmptyMap(Addr)
  /\ DropHandlers(Relay)
  /\ ended' = <<>>
  /\ UNCHANGED <<overtaken, task, raddr, rtarget, ctl, rxOpen>>

(* Mutant of ReportEnd: the endpoint goes without a word. *)
ReportEndSilent == pc = "ending" /\ Over /\ UNCHANGED <<aborted, sentEnd>>

(* The manager takes UdpEndpointEnded and run() returns. *)
ReportEnd == pc = "ending" /\ sentEnd' = TRUE /\ Over /\ UNCHANGED aborted

(* ProxyEndpointHandler::kill *)
Kill == aborted' = TRUE /\ UNCHANGED <<clients, pc, from, sentEnd, overtaken, relayVars>>

(* The runtime drops the aborted task at an await. *)
Aborted == aborted /\ pc # "ended" /\ Over /\ UNCHANGED <<aborted, sentEnd>>

Up == pc # "ended"

Relays == \E r \in Relay : RelayStep(r, Up) /\ UNCHANGED ownVars

OnDatagram ==
  \/ \E r \in Relay : Create(r)
  \/ CreateFails \/ Forward \/ Notify \/ SendFails

Next ==
  \/ \E a \in Addr : Receive(a)
  \/ ReceiveFailsOrIdle
  \/ OnDatagram
  \/ OnClientEnded
  \/ ReportEnd
  \/ Kill
  \/ Aborted
  \/ Relays

Spec == Init /\ [][Next]_vars

(* Fairness as for the pooled endpoint: every task that can make progress  *)
(* is polled, waiting senders are served in turn, and select! does not     *)
(* ignore a ready branch for ever.  A relay's idle timer, which runs        *)
(* whenever neither side sends, is not assumed to fire.                     *)
RelayProgress(r) ==
  /\ RelayConsume(r) \/ RelayReport(r, Up) \/ RelayExit(r) \/ RelayAborted(r)
  /\ UNCHANGED ownVars

FairSpec ==
  /\ Spec
  /\ WF_vars(OnDatagram) /\ SF_vars(OnClientEnded)
  /\ WF_vars(ReportEnd) /\ WF_vars(Aborted)
  /\ \A r \in Relay : SF_vars(RelayProgress(r))

-----------------------------------------------------------------------------
(* Properties *)

(* A client whose relay task is over always has its ClientEnded report on  *)
(* the way: no dead relay keeps a session's port open, or its client cut   *)
(* off, for good (ProxyClient::run, the ClientEnded branch of run()).      *)
EndedClientsReported ==
  \A a \in Addr :
    clients[a] # None /\ task[clients[a]] \in {"exiting", "done"}
      => Reported(a)

(* The endpoint loses its clients when they have ended, and ends with the  *)
(* last.  One that waits for traffic and has no client has never had one:  *)
(* losing the last, by a report or by a failed send, always ends it.  And  *)
(* a ClientEnded report takes a live relay from its client only if that    *)
(* relay was created before the earlier one of the address was over and    *)
(* its report handled: the removal by address is wrong in that one case,   *)
(* and the order "close, then report" of ProxyClient::run rules out every  *)
(* other.                                                                  *)
EndsWithLastClient ==
  /\ [](pc = "select" /\ (\A a \in Addr : clients[a] = None)
          => \A r \in Relay : raddr[r] = None)
  /\ [][\A a \in Addr :
          clients[a] # None /\ rxOpen[clients[a]] /\ ended' # ended /\ pc' # "ended"
            => clients'[a] = clients[a] \/ a \in overtaken]_vars

(* Seen by its manager the endpoint is an EndpointTask: it reports its own *)
(* end exactly once and as its last step, and a kill always ends it, even  *)
(* while it waits for a relay or for the manager.                          *)
ET == INSTANCE EndpointTask WITH
        Inst     <- {0},
        phase    <- [i \in {0} |-> CASE pc = "ending" -> "ending"
                                     [] pc = "ended" -> "gone"
                                     [] OTHER -> "serving"],
        killed   <- [i \in {0} |-> aborted],
        reported <- [i \in {0} |-> sentEnd]

LifecycleSpec == ET!TaskSpec

(* The loop does not get stuck between a full control channel and a relay  *)
(* waiting to report (ProxyClient::run closes before it reports).          *)
DatagramsHandled == pc \in {"create", "forward", "notify"} ~> pc \in {"select", "ending", "ended"}
=============================================================================
