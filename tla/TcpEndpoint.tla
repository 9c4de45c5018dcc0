----------------------------- MODULE TcpEndpoint -----------------------------
(***************************************************************************)
(* One tcp endpoint of src/proxy/tcp_clients.rs (ProxyTcpEndpoint) and the *)
(* tasks of its connections (ProxyTcpClient), whose copying is module      *)
(* TcpRelay.  Unlike a udp relay, a connection is held by a JoinHandle:    *)
(* dropping that lets the connection go on by itself.  `pc` is where run() *)
(* stands:                                                                 *)
(*                                                                         *)
(*   select    in the select!                                              *)
(*   connect   accepted; ProxyTcpClient::new resolves and connects         *)
(*   insert    the connection's task is spawned, not yet in `clients`;     *)
(*             there is no await here, so no abort either                  *)
(*   ending    the loop is over; awaiting the report to the manager        *)
(*   ended     the task is gone: ended, killed or panicked                 *)
(*                                                                         *)
(* A client's address may be accepted again while its earlier connection   *)
(* is still being taken down, as after a reset.  The idle timer may fire   *)
(* at any time: it sees accepts and reports, not the connections' traffic. *)
(***************************************************************************)
EXTENDS ProxyBase, Sequences

CONSTANTS
  Conn,      \* identities of connection tasks
  EndCap     \* capacity of the channel of ClientEnded reports (10 in the code)

ASSUME TcpAssumption == None \notin Conn /\ EndCap \in Nat \ {0}

VARIABLES
  pc, from,  \* where the endpoint is, and the address it has accepted
  fresh,     \* the connection spawned and not yet inserted
  clients,   \* client address -> connection
  aborted,   \* whether kill() was called
  sentEnd,   \* whether TcpEndpointEnded was sent
  conn,      \* state of a connection's task
  caddr,     \* its client's address; None before its first use
  ended,     \* channel of ClientEnded reports, as addresses
  reused     \* addresses accepted again before their earlier connection was
             \* over and its report handled (for the properties)

ownVars == <<pc, from, fresh, clients, aborted, sentEnd>>
vars == <<ownVars, conn, caddr, ended, reused>>

TcpTypeOK ==
  /\ pc \in {"select", "connect", "insert", "ending", "ended"}
  /\ from \in Addr \cup {None}
  /\ fresh \in Conn \cup {None}
  /\ clients \in Map(Addr, Conn)
  /\ aborted \in BOOLEAN /\ sentEnd \in BOOLEAN
  /\ conn \in [Conn -> {"running", "reporting", "done"}]
  /\ caddr \in Map(Conn, Addr)
  /\ ended \in Seq(Addr) /\ Len(ended) <= EndCap
  /\ reused \subseteq Addr

Init ==
  /\ pc = "select" /\ from = None /\ fresh = None
  /\ clients = EmptyMap(Addr)
  /\ aborted = FALSE /\ sentEnd = FALSE
  /\ conn = [c \in Conn |-> "done"]
  /\ caddr = EmptyMap(Conn)
  /\ ended = <<>>
  /\ reused = {}

-----------------------------------------------------------------------------
(* The endpoint *)

Reported(a) == \E n \in 1..Len(ended) : ended[n] = a

Unfinished(a) == Reported(a) \/ \E c \in Conn : caddr[c] = a /\ conn[c] # "done"

(* tcp_listener.accept() yields a connection from address a. *)
Accept(a) ==
  /\ pc = "select"
  /\ pc' = "connect" /\ from' = a
  /\ reused' = IF Unfinished(a) THEN reused \cup {a} ELSE reused
  /\ UNCHANGED <<fresh, clients, aborted, sentEnd, conn, caddr, ended>>

(* accept() fails, or the idle timer fires: the loop ends. *)
AcceptFailsOrIdle ==
  /\ pc = "select"
  /\ pc' = "ending"
  /\ UNCHANGED <<from, fresh, clients, aborted, sentEnd, conn, caddr, ended, reused>>

(* The target accepts, and the connection's task c is spawned. *)
Connect(c) ==
  /\ pc = "connect"
  /\ conn[c] = "done" /\ \A a \in Addr : clients[a] # c
  /\ conn' = [conn EXCEPT ![c] = "running"]
  /\ caddr' = [caddr EXCEPT ![c] = from]
  /\ pc' = "insert" /\ fresh' = c
  /\ UNCHANGED <<from, clients, aborted, sentEnd, ended, reused>>

(* self.clients.insert(addr, handler); an older connection is detached. *)
Insert ==
  /\ pc = "insert"
  /\ clients' = [clients EXCEPT ![from] = fresh]
  /\ pc' = "select" /\ from' = None /\ fresh' = None
  /\ UNCHANGED <<aborted, sentEnd, conn, caddr, ended, reused>>

(* The target refuses: the accepted stream is dropped. *)
ConnectFails ==
  /\ pc = "connect"
  /\ pc' = "select" /\ from' = None
  /\ UNCHANGED <<fresh, clients, aborted, sentEnd, conn, caddr, ended, reused>>

(* run() is over: the listener, `clients` and the channel go. *)
Over ==
  /\ pc' = "ended" /\ from' = None /\ fresh' = None
  /\ clients' = EmptyMap(Addr)
  /\ ended' = <<>>
  /\ UNCHANGED <<conn, caddr, reused>>

(* The target does not resolve: unwrap() panics. *)
ConnectPanics == pc = "connect" /\ Over /\ UNCHANGED <<aborted, sentEnd>>

(* Mutant of OnClientEnded: ends with one client left. *)
OnClientEndedEarly ==
  /\ pc = "select" /\ ended # <<>>
  /\ ended' = Tail(ended)
  /\ clients' = [clients EXCEPT ![Head(ended)] = None]
  /\ pc' = IF \E b \in Addr : \A a \in Addr \ {b} : clients'[a] = None
           THEN "ending" ELSE "select"
  /\ UNCHANGED <<from, fresh, aborted, sentEnd, conn, caddr, reused>>

(* rx.recv() yields ClientEnded { addr }: whichever connection the address *)
(* has now is forgotten, and the loop ends when no client is left.         *)
OnClientEnded ==
  /\ pc = "select" /\ ended # <<>>
  /\ ended' = Tail(ended)
  /\ clients' = [clients EXCEPT ![Head(ended)] = None]
  /\ pc' = IF \A a \in Addr : clients'[a] = None THEN "ending" ELSE "select"
  /\ UNCHANGED <<from, fresh, aborted, sentEnd, conn, caddr, reused>>

(* Mutant of ReportEnd: the endpoint goes without a word. *)
ReportEndSilent == pc = "ending" /\ Over /\ UNCHANGED <<aborted, sentEnd>>

(* The manager takes TcpEndpointEnded and run() returns. *)
ReportEnd == pc = "ending" /\ sentEnd' = TRUE /\ Over /\ UNCHANGED aborted

(* ProxyTcpEndpointHandler::kill *)
Kill ==
  /\ aborted' = TRUE
  /\ UNCHANGED <<pc, from, fresh, clients, sentEnd, conn, caddr, ended, reused>>

(* The runtime drops the aborted task at an await. *)
Aborted == aborted /\ pc \notin {"insert", "ended"} /\ Over /\ UNCHANGED <<aborted, sentEnd>>

-----------------------------------------------------------------------------
(* The connections *)

(* The copying loop breaks: end of stream, error or silence. *)
ConnStops(c) ==
  /\ conn[c] = "running"
  /\ conn' = [conn EXCEPT ![c] = "reporting"]
  /\ UNCHANGED <<ownVars, caddr, ended, reused>>

(* Mutant of ConnReports: does not wait for room. *)
ConnReportsUnbounded(c) ==
  /\ conn[c] = "reporting"
  /\ conn' = [conn EXCEPT ![c] = "done"]
  /\ ended' = IF pc = "ended" THEN ended ELSE Append(ended, caddr[c])
  /\ UNCHANGED <<ownVars, caddr, reused>>

(* Mutant of ConnReports: the report is dropped when there is no room. *)
ConnReportsIfRoom(c) ==
  /\ conn[c] = "reporting"
  /\ conn' = [conn EXCEPT ![c] = "done"]
  /\ ended' = IF pc = "ended" \/ Len(ended) = EndCap THEN ended ELSE Append(ended, caddr[c])
  /\ UNCHANGED <<ownVars, caddr, reused>>

(* Mutant of ConnReports: keeps trying after the endpoint is gone. *)
ConnReportsUntilTaken(c) ==
  /\ conn[c] = "reporting" /\ pc # "ended"
  /\ Len(ended) < EndCap
  /\ conn' = [conn EXCEPT ![c] = "done"]
  /\ ended' = Append(ended, caddr[c])
  /\ UNCHANGED <<ownVars, caddr, reused>>

(* msg_tx.send(ClientEnded) waits for room, or fails when the endpoint is  *)
(* gone; the task is over and its streams are closed.                      *)
ConnReports(c) ==
  /\ conn[c] = "reporting"
  /\ conn' = [conn EXCEPT ![c] = "done"]
  /\ \/ pc = "ended" /\ UNCHANGED ended
     \/ pc # "ended" /\ Len(ended) < EndCap /\ ended' = Append(ended, caddr[c])
  /\ UNCHANGED <<ownVars, caddr, reused>>

OnAccept ==
  \/ \E c \in Conn : Connect(c)
  \/ Insert \/ ConnectFails \/ ConnectPanics

Next ==
  \/ \E a \in Addr : Accept(a)
  \/ AcceptFailsOrIdle
  \/ OnAccept
  \/ OnClientEnded
  \/ ReportEnd
  \/ Kill
  \/ Aborted
  \/ \E c \in Conn : ConnStops(c) \/ ConnReports(c)

Spec == Init /\ [][Next]_vars

(* connect() completes or times out; a waiting report is served in turn;   *)
(* select! does not ignore a ready branch for ever; an aborted task is     *)
(* dropped at its next await however it moves between them.                *)
FairSpec ==
  /\ Spec
  /\ WF_vars(OnAccept) /\ SF_vars(OnClientEnded)
  /\ WF_vars(ReportEnd) /\ SF_vars(Aborted)
  /\ \A c \in Conn : SF_vars(ConnReports(c))

-----------------------------------------------------------------------------
(* Properties *)

(* An entry of `clients` whose connection is over has a ClientEnded report *)
(* on the way, although the connection may end and report before run() has *)
(* inserted it, and although addresses come again: no dead entry keeps the *)
(* endpoint from ending with its last client.                              *)
EndedConnsReported ==
  \A a \in Addr : clients[a] # None /\ conn[clients[a]] = "done" => Reported(a)

(* The listener closes for lack of clients when it has none, and only      *)
(* then.  An endpoint that waits and has no client has never had one; a    *)
(* report that closes the listener ("No clients left") finds no connection *)
(* running, except from an address that was accepted again before its      *)
(* earlier connection was done with: the removal by address forgets the    *)
(* newer one (run(), the ClientEnded branch).                              *)
ClosesWhenUnused ==
  /\ [](pc = "select" /\ (\A a \in Addr : clients[a] = None)
          => \A c \in Conn : caddr[c] = None)
  /\ [][pc = "select" /\ ended # <<>> /\ ended' = Tail(ended) /\ pc' = "ending"
          => \A c \in Conn : conn[c] = "running" => caddr[c] \in reused]_vars

(* Seen by its manager the endpoint is an EndpointTask that may panic: it  *)
(* reports its own end once and as its last step, and a kill always ends   *)
(* it, whatever it is connecting to.                                       *)
ET == INSTANCE EndpointTask WITH
        Inst     <- {0},
        phase    <- [i \in {0} |-> CASE pc = "ending" -> "ending"
                                     [] pc = "ended" -> "gone"
                                     [] OTHER -> "serving"],
        killed   <- [i \in {0} |-> aborted],
        reported <- [i \in {0} |-> sentEnd]

LifecycleSpec == ET!FragileTaskSpec

(* A connection that has stopped closes its streams and goes: neither a    *)
(* full channel, nor an endpoint busy connecting, nor one that ended, was  *)
(* killed or panicked while the connection went on, holds it for ever.     *)
ConnectionsFinish == \A c \in Conn : conn[c] = "reporting" ~> conn[c] = "done"
=============================================================================
