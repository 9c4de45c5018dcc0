---------------------------- MODULE ProxyManager -----------------------------
(***************************************************************************)
(* ProxyManager of src/proxy.rs in per-session mode, with the allocation   *)
(* API of src/manager/endpoint.rs in front of it and the endpoint tasks    *)
(* behind it.                                                              *)
(*                                                                         *)
(* A request holds the manager's write lock while it runs, so there is one *)
(* at a time; what it wants done it sends to the manager's actor over a    *)
(* bounded channel, and awaits the answer.  The HTTP layer drops a request *)
(* that takes too long, or whose peer hangs up, at whatever await it is    *)
(* in; what it has already sent is still carried out.  The actor owns the  *)
(* tables of endpoint tasks.  The tasks report their end over the same     *)
(* channel (module EndpointTask).                                          *)
(*                                                                         *)
(* An allocation is a list of creations, one udp and up to MaxTcp tcp,     *)
(* done in order; None in the list is a port number that does not parse.   *)
(***************************************************************************)
EXTENDS EndpointTask, Sequences

CONSTANTS
  Port,      \* local port numbers the system hands out
  QCap,      \* capacity of the actor's channel (100 in the code)
  MaxTcp     \* tcp ports in an allocation: target_tcp_port, target_ssl_tcp_port

VARIABLES
  proto, endp, port,  \* what each endpoint task is: udp or tcp, for what, where
  proxies,   \* udp_proxy and tcp_proxy of the actor: Endpoint -> task
  known,     \* udp_endpoints and tcp_endpoints: (port, session) -> Endpoint
  queue,     \* the actor's channel; .live: a request awaits the answer
  req,       \* the request holding the lock
  answer,    \* the answer in its oneshot channel
  told,      \* tasks whose port an allocation was told (for the properties)
  panicked   \* sessions that had a tcp task panic (for the properties)

instVars == <<proto, endp, port>>
vars == <<taskVars, instVars, proxies, known, queue, req, answer, told, panicked>>

Proto == {"udp", "tcp"}
Endpoint == [sid : Session, target : Target]
Item == [proto : Proto, endp : Endpoint]
Key == Port \X Session
Msg == [op : {"create", "delete", "ended"}, item : Item, live : BOOLEAN]
Request == [op : {"create", "delete"}, key : Key \cup {None},
            todo : Seq(Item \cup {None}), sent : BOOLEAN]
Answer == [ok : BOOLEAN, inst : Inst \cup {None}, port : Port \cup {None}]

ASSUME ManagerAssumption ==
  /\ None \notin Inst \cup Port
  /\ None \notin Endpoint /\ None \notin Request /\ None \notin Answer
  /\ QCap \in Nat \ {0} /\ MaxTcp \in Nat

ManagerTypeOK ==
  /\ TaskTypeOK
  /\ proto \in [Inst -> Proto \cup {None}]
  /\ endp \in Map(Inst, Endpoint)
  /\ port \in Map(Inst, Port)
  /\ proxies \in [Proto -> Map(Endpoint, Inst)]
  /\ known \in [Proto -> Map(Key, Endpoint)]
  /\ queue \in Seq(Msg) /\ Len(queue) <= QCap
  /\ req \in Request \cup {None}
  /\ answer \in Answer \cup {None}
  /\ told \in [Inst -> BOOLEAN]
  /\ panicked \subseteq Session

Init ==
  /\ phase = [i \in Inst |-> "gone"]
  /\ killed = [i \in Inst |-> FALSE]
  /\ reported = [i \in Inst |-> FALSE]
  /\ proto = EmptyMap(Inst) /\ endp = EmptyMap(Inst) /\ port = EmptyMap(Inst)
  /\ proxies = [p \in Proto |-> EmptyMap(Endpoint)]
  /\ known = [p \in Proto |-> EmptyMap(Key)]
  /\ queue = <<>>
  /\ req = None
  /\ answer = None
  /\ told = [i \in Inst |-> FALSE]
  /\ panicked = {}

-----------------------------------------------------------------------------
(* Requests *)

TcpLists(s) ==
  UNION {[1..n -> {[proto |-> "tcp", endp |-> [sid |-> s, target |-> t]] : t \in Target} \cup {None}]
         : n \in 0..MaxTcp}

(* create_proxy takes the lock. *)
Allocate(s, t, tcps) ==
  /\ req = None
  /\ req' = [op |-> "create", key |-> None, sent |-> FALSE,
             todo |-> <<[proto |-> "udp", endp |-> [sid |-> s, target |-> t]]>> \o tcps]
  /\ UNCHANGED <<taskVars, instVars, proxies, known, queue, answer, told, panicked>>

(* The table delete_proxy finds (port, session) in: udp before tcp. *)
DeletedProto(k) == IF known["udp"][k] # None THEN "udp" ELSE "tcp"

(* delete_proxy takes the lock; an unknown (port, session) changes nothing. *)
Delete(k) ==
  /\ req = None
  /\ known[DeletedProto(k)][k] # None
  /\ req' = [op |-> "delete", key |-> k, sent |-> FALSE,
             todo |-> <<[proto |-> DeletedProto(k), endp |-> known[DeletedProto(k)][k]]>>]
  /\ UNCHANGED <<taskVars, instVars, proxies, known, queue, answer, told, panicked>>

(* Mutant of SendRequest: does not wait for room. *)
SendRequestUnbounded ==
  /\ req # None /\ ~req.sent /\ Head(req.todo) # None
  /\ queue' = Append(queue, [op |-> req.op, item |-> Head(req.todo), live |-> TRUE])
  /\ req' = [req EXCEPT !.sent = TRUE]
  /\ UNCHANGED <<taskVars, instVars, proxies, known, answer, told, panicked>>

(* self.tx.send(...) completes: there is room. *)
SendRequest ==
  /\ req # None /\ ~req.sent /\ Head(req.todo) # None
  /\ Len(queue) < QCap
  /\ queue' = Append(queue, [op |-> req.op, item |-> Head(req.todo), live |-> TRUE])
  /\ req' = [req EXCEPT !.sent = TRUE]
  /\ UNCHANGED <<taskVars, instVars, proxies, known, answer, told, panicked>>

(* A tcp port does not parse: the request fails, what it created stays. *)
ParseFails ==
  /\ req # None /\ ~req.sent /\ Head(req.todo) = None
  /\ req' = None
  /\ UNCHANGED <<taskVars, instVars, proxies, known, queue, answer, told, panicked>>

Answered == req # None /\ req.sent /\ answer # None

(* Mutant of Remember: every port is entered into udp_endpoints. *)
RememberAsUdp(it, p) == known' = [known EXCEPT !["udp"][<<p, it.endp.sid>>] = it.endp]

(* Mutant of Remember: entry().or_insert(), a port keeps its first endpoint. *)
RememberFirst(it, p) ==
  known' = [known EXCEPT ![it.proto][<<p, it.endp.sid>>] = IF @ = None THEN it.endp ELSE @]

(* udp_endpoints.insert, tcp_endpoints.insert *)
Remember(it, p) == known' = [known EXCEPT ![it.proto][<<p, it.endp.sid>>] = it.endp]

(* A creation succeeded: note the port, go on with the next one or be done. *)
CreateAnswered ==
  /\ Answered /\ req.op = "create" /\ answer.ok
  /\ Remember(Head(req.todo), answer.port)
  /\ told' = [told EXCEPT ![answer.inst] = TRUE]
  /\ req' = IF Len(req.todo) = 1 THEN None
            ELSE [req EXCEPT !.todo = Tail(@), !.sent = FALSE]
  /\ answer' = None
  /\ UNCHANGED <<taskVars, instVars, proxies, queue, panicked>>

(* A creation failed, which fails the request; or a deletion was answered, *)
(* and neither its outcome nor udp_endpoints, tcp_endpoints matter.        *)
RequestOver ==
  /\ Answered /\ (req.op = "create" => ~answer.ok)
  /\ req' = None /\ answer' = None
  /\ UNCHANGED <<taskVars, instVars, proxies, known, queue, told, panicked>>

(* The HTTP layer drops the request; nobody awaits what it sent. *)
Cancel ==
  /\ req # None
  /\ req' = None /\ answer' = None
  /\ queue' = [n \in 1..Len(queue) |-> [queue[n] EXCEPT !.live = FALSE]]
  /\ UNCHANGED <<taskVars, instVars, proxies, known, told, panicked>>

-----------------------------------------------------------------------------
(* The actor *)

First == Head(queue)

Respond(a) ==
  /\ answer' = IF First.live THEN a ELSE answer
  /\ queue' = Tail(queue)

Take(op) == queue # <<>> /\ First.op = op

Entry == proxies[First.item.proto][First.item.endp]

(* create_*_proxy_impl: the endpoint has a task already. *)
CreateOccupied ==
  /\ Take("create") /\ Entry # None
  /\ Respond([ok |-> TRUE, inst |-> Entry, port |-> port[Entry]])
  /\ UNCHANGED <<taskVars, instVars, proxies, known, req, told, panicked>>

(* A task identity nobody refers to. *)
Free(i) ==
  /\ phase[i] = "gone"
  /\ \A q \in Proto, e \in Endpoint : proxies[q][e] # i
  /\ answer # None => answer.inst # i

Bound(q, p) == \E i \in Inst : phase[i] # "gone" /\ proto[i] = q /\ port[i] = p

(* create_*_proxy_impl: a task i is spawned with a socket on port p. *)
CreateVacant(i, p) ==
  /\ Take("create") /\ Entry = None
  /\ Free(i) /\ ~Bound(First.item.proto, p)
  /\ phase' = [phase EXCEPT ![i] = "serving"]
  /\ killed' = [killed EXCEPT ![i] = FALSE]
  /\ reported' = [reported EXCEPT ![i] = FALSE]
  /\ proto' = [proto EXCEPT ![i] = First.item.proto]
  /\ endp' = [endp EXCEPT ![i] = First.item.endp]
  /\ port' = [port EXCEPT ![i] = p]
  /\ proxies' = [proxies EXCEPT ![First.item.proto][First.item.endp] = i]
  /\ told' = [told EXCEPT ![i] = FALSE]
  /\ Respond([ok |-> TRUE, inst |-> i, port |-> p])
  /\ UNCHANGED <<known, req, panicked>>

Refusal == [ok |-> FALSE, inst |-> None, port |-> None]

(* The address does not resolve or the socket does not bind. *)
CreateFails ==
  /\ Take("create") /\ Entry = None
  /\ Respond(Refusal)
  /\ UNCHANGED <<taskVars, instVars, proxies, known, req, told, panicked>>

(* delete_*_proxy_impl finds the entry: remove and kill. *)
Evict ==
  /\ Entry # None
  /\ proxies' = [proxies EXCEPT ![First.item.proto][First.item.endp] = None]
  /\ Kill(Entry)

NoEntry == Entry = None /\ UNCHANGED <<taskVars, proxies>>

(* DeleteUdpProxy, DeleteTcpProxy; whether there was an entry is not used. *)
HandleDelete ==
  /\ Take("delete")
  /\ Evict \/ NoEntry
  /\ Respond(Refusal)
  /\ UNCHANGED <<instVars, known, req, told, panicked>>

(* Mutant of HandleEnded: waits for the entry to be there. *)
HandleEndedWaits ==
  /\ Take("ended")
  /\ Evict
  /\ queue' = Tail(queue)
  /\ UNCHANGED <<instVars, known, req, answer, told, panicked>>

(* UdpEndpointEnded, TcpEndpointEnded: whichever task has the entry goes. *)
HandleEnded ==
  /\ Take("ended")
  /\ Evict \/ NoEntry
  /\ queue' = Tail(queue)
  /\ UNCHANGED <<instVars, known, req, answer, told, panicked>>

Actor ==
  \/ CreateOccupied \/ CreateFails
  \/ \E i \in Inst, p \in Port : CreateVacant(i, p)
  \/ HandleDelete \/ HandleEnded

-----------------------------------------------------------------------------
(* The endpoint tasks *)

EndpointStops(i) ==
  Stop(i) /\ UNCHANGED <<instVars, proxies, known, queue, req, answer, told, panicked>>

(* Mutant of EndpointReports: the report is not sent when there is no room. *)
EndpointReportsIfRoom(i) ==
  /\ Report(i)
  /\ queue' = IF Len(queue) = QCap THEN queue
              ELSE Append(queue, [op |-> "ended", live |-> FALSE,
                                  item |-> [proto |-> proto[i], endp |-> endp[i]]])
  /\ UNCHANGED <<instVars, proxies, known, req, answer, told, panicked>>

(* msg_tx.send(EndpointEnded) waits for room, then the task is gone. *)
EndpointReports(i) ==
  /\ Report(i)
  /\ Len(queue) < QCap
  /\ queue' = Append(queue, [op |-> "ended", live |-> FALSE,
                             item |-> [proto |-> proto[i], endp |-> endp[i]]])
  /\ UNCHANGED <<instVars, proxies, known, req, answer, told, panicked>>

EndpointAborted(i) ==
  Abort(i) /\ UNCHANGED <<instVars, proxies, known, queue, req, answer, told, panicked>>

(* ProxyTcpClient::new unwraps the resolution of the target: a tcp endpoint *)
(* whose target no longer resolves panics, and reports nothing.             *)
TcpEndpointPanics(i) ==
  /\ proto[i] = "tcp" /\ Panic(i)
  /\ panicked' = panicked \cup {endp[i].sid}
  /\ UNCHANGED <<instVars, proxies, known, queue, req, answer, told>>

Next ==
  \/ \E s \in Session, t \in Target : \E tcps \in TcpLists(s) : Allocate(s, t, tcps)
  \/ \E k \in Key : Delete(k)
  \/ SendRequest \/ ParseFails \/ CreateAnswered \/ RequestOver \/ Cancel
  \/ Actor
  \/ \E i \in Inst : \/ EndpointStops(i) \/ EndpointReports(i)
                     \/ EndpointAborted(i) \/ TcpEndpointPanics(i)

Spec == Init /\ [][Next]_vars

(* The actor handles what it is sent, the lock's holder goes on when it    *)
(* can, a task waiting for room in the channel gets it in turn, and the    *)
(* runtime carries out aborts.  Nothing is assumed of requests, timeouts,  *)
(* the ends of endpoints or failures.                                      *)
FairSpec ==
  /\ Spec
  /\ WF_vars(Actor)
  /\ SF_vars(SendRequest) /\ WF_vars(ParseFails) /\ WF_vars(CreateAnswered \/ RequestOver)
  /\ \A i \in Inst : SF_vars(EndpointReports(i)) /\ WF_vars(EndpointAborted(i))

-----------------------------------------------------------------------------
(* Properties *)

(* The tasks that end with a report: all but the tcp tasks that panicked. *)
Orderly(i) == proto[i] = "udp" \/ reported[i]

(* A task that is gone without being deleted has its EndpointEnded message *)
(* ahead of any request sent from now on, so an entry for a dead port      *)
(* never stays and a later allocation cannot be answered from it; the tcp  *)
(* tasks that panicked are the only exception (run() of both endpoints     *)
(* reports as its last step).                                              *)
EndedEntriesReported ==
  \A q \in Proto, e \in Endpoint :
    LET i == proxies[q][e]
    IN  i # None /\ phase[i] = "gone" /\ Orderly(i)
          => \E n \in 1..Len(queue) : /\ queue[n].op = "ended"
                                      /\ queue[n].item = [proto |-> q, endp |-> e]

(* The endpoints whose port and session nothing but they can be known by:  *)
(* the entry of a panicked tcp task stays, allocations go on being         *)
(* answered from it, and its port may be another tcp endpoint's by then.   *)
Unambiguous(i) == proto[i] = "udp" \/ endp[i].sid \notin panicked

(* While an endpoint serves whose port an allocation was told, the manager *)
(* still knows it by that port and session, and as what it is: neither     *)
(* reuse of the port, nor dropped requests whose messages are carried out  *)
(* later, nor other allocations of the session take its place              *)
(* (create_udp_proxy_internal, create_tcp_proxy_internal; DELETE looks it  *)
(* up there).  For tcp this ends with the first panic in the session.      *)
ToldStaysKnown ==
  \A i \in Inst :
    told[i] /\ phase[i] = "serving" /\ ~killed[i] /\ Unambiguous(i)
      => known[proto[i]][<<port[i], endp[i].sid>>] = endp[i]

(* A tcp endpoint that DELETE does not get to: its port and session are    *)
(* also those of a udp entry, which is found first, and which per-session  *)
(* mode never removes, however long its endpoint has been gone.            *)
Shadowed(i) == proto[i] = "tcp" /\ known["udp"][<<port[i], endp[i].sid>>] # None

(* When DELETE of a port and session is answered, no endpoint that was     *)
(* told that port goes on serving, however many endpoints, of whatever     *)
(* target, the session had on that port before, with two exceptions: tcp   *)
(* endpoints behind a udp entry of the same port number, for which DELETE  *)
(* is answered and does nothing (see DeletingEnds), and the tcp endpoints  *)
(* of a session that had a panic (delete_udp_proxy, delete_tcp_proxy and   *)
(* what they send to the actor).                                           *)
DeletedIsKilled ==
  Answered /\ req.op = "delete"
    => \A i \in Inst :
         told[i] /\ <<port[i], endp[i].sid>> = req.key /\ Unambiguous(i) /\ ~Shadowed(i)
           => killed[i] \/ phase[i] # "serving"

(* "deleted tcp endpoint" and StatusCode::OK (it_should_pass in            *)
(* tests/integration_test.rs): when nothing is allocated any more and      *)
(* DELETE of a port and session is answered again and again, an endpoint   *)
(* that was told that port does not go on serving.                         *)
DeletingEnds ==
  \A i \in Inst, k \in Key :
    /\ <>[](req # None => req.op = "delete")
    /\ []<>(Answered /\ req.op = "delete" /\ req.key = k)
    => []<>~(/\ told[i] /\ <<port[i], endp[i].sid>> = k /\ Unambiguous(i)
             /\ phase[i] = "serving" /\ ~killed[i])

(* Liveness: every request that takes the lock gives it back, although the *)
(* actor's channel is shared with the endpoints' reports and is bounded.   *)
RequestsFinish == req # None ~> req = None

HasEntry(i) == \E q \in Proto, e \in Endpoint : proxies[q][e] = i

(* A task that ended on its own, and did not panic, is removed from the    *)
(* manager's table.                                                        *)
EndedEntriesRemoved ==
  \A i \in Inst :
    HasEntry(i) /\ phase[i] = "gone" /\ Orderly(i) ~> ~HasEntry(i) \/ phase[i] # "gone"

(* "A dedicated port per session, closed when idle or deleted"             *)
(* (UdpProxyMode::PerSession): a serving udp endpoint is killed only on a  *)
(* request to delete it.                                                   *)
KilledOnlyWhenDeleted ==
  [][\A i \in Inst :
       proto[i] = "udp" /\ phase[i] = "serving" /\ ~killed[i] /\ killed'[i]
         => First.op = "delete"]_vars
=============================================================================
