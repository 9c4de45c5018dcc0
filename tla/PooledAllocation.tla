-------------------------- MODULE PooledAllocation ---------------------------
(***************************************************************************)
(* Allocation and deletion in pooled mode: create_pooled_udp_proxy and     *)
(* delete_pooled_udp_proxy of src/proxy.rs, and add_route, remove_session  *)
(* of src/proxy/udp_pooled.rs.                                             *)
(*                                                                         *)
(* A request holds the manager's write lock, picks a pooled socket or      *)
(* looks one up, posts a control message to the socket's task over a       *)
(* bounded channel and awaits the acknowledgement.  The HTTP layer drops a *)
(* request at whatever await it is in; a message already sent is still     *)
(* carried out.  Nothing in pooled mode idles out, so what a dropped       *)
(* request leaves behind stays until a later request removes it.           *)
(*                                                                         *)
(* The task of a socket appears as its two tables (module RouteTable) and  *)
(* its channel; its flows are the matter of PooledUdpEndpoint.             *)
(***************************************************************************)
EXTENDS RouteTable, Sequences

CONSTANTS
  N,         \* udp_pool.len(); with_udp_pool guarantees one (module UdpPool)
  QCap       \* capacity of a socket's control channel (100 in the code)

Pool == 0..(N - 1)

VARIABLES
  next,      \* next_pooled % udp_pool.len()
  known,     \* the keys of udp_endpoints: (pooled socket, session)
  sess,      \* `sessions` of each socket's task
  routes,    \* `routes` of each socket's task
  queue,     \* the control channel of each socket; .live: its sender waits
  req,       \* the request holding the lock
  acked,     \* whether the acknowledgement is in its oneshot channel
  told,      \* the ufrag an answered allocation was told for (socket, session)
  gone,      \* the (socket, session) a DELETE was answered for
  lost       \* the (socket, session) whose request was dropped half way

history == <<told, gone, lost>>
vars == <<next, known, sess, routes, queue, req, acked, history>>

Key == Pool \X Session
Msg == [op : {"add", "remove"}, sid : Session, ufrag : Ufrag \cup {None},
        target : Target \cup {None}, live : BOOLEAN]
Request == [op : {"add", "remove"}, key : Key, ufrag : Ufrag \cup {None},
            target : Target \cup {None}, at : {"send", "await", "tcp"}]

ASSUME AllocationAssumption ==
  N \in Nat \ {0} /\ QCap \in Nat \ {0} /\ None \notin Request

AllocationTypeOK ==
  /\ next \in Pool
  /\ known \subseteq Key
  /\ sess \in [Pool -> Map(Session, Ufrag)]
  /\ routes \in [Pool -> Map(Ufrag, Target)]
  /\ queue \in [Pool -> Seq(Msg)] /\ \A k \in Pool : Len(queue[k]) <= QCap
  /\ req \in Request \cup {None}
  /\ acked \in BOOLEAN
  /\ told \in Map(Key, Ufrag)
  /\ gone \subseteq Key /\ lost \subseteq Key

Init ==
  /\ next = 0
  /\ known = {}
  /\ sess = [k \in Pool |-> EmptyMap(Session)]
  /\ routes = [k \in Pool |-> EmptyMap(Ufrag)]
  /\ queue = [k \in Pool |-> <<>>]
  /\ req = None
  /\ acked = FALSE
  /\ told = EmptyMap(Key) /\ gone = {} /\ lost = {}

-----------------------------------------------------------------------------
(* Requests *)

(* create_proxy takes the lock; the ufrag is there and the target resolves *)
(* (otherwise nothing changes).  The counter moves on even if it fails.    *)
Allocate(s, u, t) ==
  /\ req = None
  /\ req' = [op |-> "add", key |-> <<next, s>>, ufrag |-> u, target |-> t, at |-> "send"]
  /\ next' = (next + 1) % N
  /\ UNCHANGED <<known, sess, routes, queue, acked, history>>

(* delete_pooled_udp_proxy takes the lock: udp_endpoints forgets the key   *)
(* before the socket is told.  An unknown key changes nothing.             *)
Delete(key) ==
  /\ req = None
  /\ key \in known
  /\ known' = known \ {key}
  /\ req' = [op |-> "remove", key |-> key, ufrag |-> None, target |-> None, at |-> "send"]
  /\ told' = [told EXCEPT ![key] = None]
  /\ UNCHANGED <<next, sess, routes, queue, acked, gone, lost>>

Posted == [op |-> req.op, sid |-> req.key[2], ufrag |-> req.ufrag,
           target |-> req.target, live |-> TRUE]

(* Mutant of Send: does not wait for room. *)
SendUnbounded ==
  /\ req # None /\ req.at = "send"
  /\ queue' = [queue EXCEPT ![req.key[1]] = Append(@, Posted)]
  /\ req' = [req EXCEPT !.at = "await"]
  /\ told' = [told EXCEPT ![req.key] = None] /\ gone' = gone \ {req.key}
  /\ UNCHANGED <<next, known, sess, routes, acked, lost>>

(* Mutant of Send: takes the message being sent for the acknowledgement. *)
SendUnacknowledged ==
  /\ req # None /\ req.at = "send" /\ Len(queue[req.key[1]]) < QCap
  /\ queue' = [queue EXCEPT ![req.key[1]] = Append(@, [Posted EXCEPT !.live = FALSE])]
  /\ req' = [req EXCEPT !.at = "await"]
  /\ acked' = TRUE
  /\ told' = [told EXCEPT ![req.key] = None] /\ gone' = gone \ {req.key}
  /\ UNCHANGED <<next, known, sess, routes, lost>>

(* control_tx.send(...) completes: there is room. *)
Send ==
  /\ req # None /\ req.at = "send" /\ Len(queue[req.key[1]]) < QCap
  /\ queue' = [queue EXCEPT ![req.key[1]] = Append(@, Posted)]
  /\ req' = [req EXCEPT !.at = "await"]
  /\ told' = [told EXCEPT ![req.key] = None] /\ gone' = gone \ {req.key}
  /\ UNCHANGED <<next, known, sess, routes, acked, lost>>

Acknowledged == req # None /\ req.at = "await" /\ acked

(* Mutant of RouteAdded: udp_endpoints is left for the end of create_proxy. *)
RouteAddedUnknown ==
  /\ Acknowledged /\ req.op = "add"
  /\ req' = [req EXCEPT !.at = "tcp"]
  /\ acked' = FALSE
  /\ lost' = lost \ {req.key}
  /\ UNCHANGED <<next, known, sess, routes, queue, told, gone>>

(* add_route returns: udp_endpoints.insert, and on with the tcp ports. *)
RouteAdded ==
  /\ Acknowledged /\ req.op = "add"
  /\ known' = known \cup {req.key}
  /\ req' = [req EXCEPT !.at = "tcp"]
  /\ acked' = FALSE
  /\ lost' = lost \ {req.key}
  /\ UNCHANGED <<next, sess, routes, queue, told, gone>>

(* The tcp ports are there, or not asked for: the allocation is answered. *)
AllocationAnswered ==
  /\ req # None /\ req.at = "tcp"
  /\ req' = None
  /\ told' = [told EXCEPT ![req.key] = req.ufrag]
  /\ UNCHANGED <<next, known, sess, routes, queue, acked, gone, lost>>

(* A tcp port does not parse or is not created: the allocation fails, and  *)
(* the route stays.                                                        *)
AllocationFails ==
  /\ req # None /\ req.at = "tcp"
  /\ req' = None
  /\ UNCHANGED <<next, known, sess, routes, queue, acked, history>>

(* remove_session returns: DELETE is answered. *)
DeleteAnswered ==
  /\ Acknowledged /\ req.op = "remove"
  /\ req' = None
  /\ acked' = FALSE
  /\ gone' = gone \cup {req.key} /\ lost' = lost \ {req.key}
  /\ UNCHANGED <<next, known, sess, routes, queue, told>>

(* A request that is dropped now leaves a session behind it: its AddRoute  *)
(* is sent, or udp_endpoints has forgotten what it was to remove.          *)
HalfDone == (req.op = "add" => req.at = "await") /\ req.key \notin known

(* The HTTP layer drops the request; nobody awaits what it sent. *)
Cancel ==
  /\ req # None
  /\ req' = None
  /\ acked' = FALSE
  /\ queue' = [k \in Pool |->
                 [n \in 1..Len(queue[k]) |-> [queue[k][n] EXCEPT !.live = FALSE]]]
  /\ lost' = IF HalfDone THEN lost \cup {req.key} ELSE lost
  /\ UNCHANGED <<next, known, sess, routes, told, gone>>

-----------------------------------------------------------------------------
(* The task of pooled socket k takes a control message. *)

Applied(k, m) ==
  IF m.op = "add" THEN AddRoute(sess[k], routes[k], m.sid, m.ufrag, m.target)
  ELSE RemoveSession(sess[k], routes[k], m.sid)

(* Mutant of OnControl: gets no further than a message whose sender is gone. *)
OnControlAwaited(k) ==
  /\ queue[k] # <<>> /\ Head(queue[k]).live
  /\ LET tables == Applied(k, Head(queue[k]))
     IN  /\ sess' = [sess EXCEPT ![k] = tables.sessions]
         /\ routes' = [routes EXCEPT ![k] = tables.routes]
  /\ queue' = [queue EXCEPT ![k] = Tail(@)]
  /\ acked' = (acked \/ Head(queue[k]).live)
  /\ UNCHANGED <<next, known, req, history>>

(* on_control: the tables change, then the sender is answered if it waits. *)
OnControl(k) ==
  /\ queue[k] # <<>>
  /\ LET tables == Applied(k, Head(queue[k]))
     IN  /\ sess' = [sess EXCEPT ![k] = tables.sessions]
         /\ routes' = [routes EXCEPT ![k] = tables.routes]
  /\ queue' = [queue EXCEPT ![k] = Tail(@)]
  /\ acked' = (acked \/ Head(queue[k]).live)
  /\ UNCHANGED <<next, known, req, history>>

Next ==
  \/ \E s \in Session, u \in Ufrag, t \in Target : Allocate(s, u, t)
  \/ \E key \in Key : Delete(key)
  \/ Send \/ RouteAdded \/ AllocationAnswered \/ AllocationFails
  \/ DeleteAnswered \/ Cancel
  \/ \E k \in Pool : OnControl(k)

Spec == Init /\ [][Next]_vars

(* The sockets' tasks take what they are sent (PooledUdpEndpoint!LoopReturns), *)
(* and the lock's holder goes on when it can.  A request may fail or be        *)
(* dropped, and need not be made.                                              *)
FairSpec ==
  /\ Spec
  /\ \A k \in Pool : WF_vars(OnControl(k))
  /\ WF_vars(Send) /\ WF_vars(RouteAdded \/ DeleteAnswered)
  /\ WF_vars(AllocationAnswered \/ AllocationFails)

-----------------------------------------------------------------------------
(* Properties *)

(* "acknowledged, so the route is live before the allocation is answered"  *)
(* (add_route): when create_proxy is past add_route, the ufrag leads to    *)
(* the target asked for; and until the session is allocated or deleted on  *)
(* that socket again, whatever dropped requests and other sessions do, its *)
(* ufrag keeps a route and udp_endpoints knows where.                      *)
AllocatedIsLive ==
  /\ req # None /\ req.at = "tcp"
       => /\ sess[req.key[1]][req.key[2]] = req.ufrag
          /\ routes[req.key[1]][req.ufrag] = req.target
  /\ \A key \in Key :
       told[key] # None => /\ sess[key[1]][key[2]] = told[key]
                           /\ routes[key[1]][told[key]] # None
                           /\ key \in known

(* Once DELETE of a port and session is answered the session has no ufrag  *)
(* on that socket, and no AddRoute that a dropped request left in the      *)
(* channel brings it back (remove_session awaits its acknowledgement).     *)
DeletedStaysGone == \A key \in gone : sess[key[1]][key[2]] = None

(* A session routed by a pooled socket can be deleted by its port, or is   *)
(* in the hands of the current request, or a request for it was dropped    *)
(* half way and none has completed since: failures, the tcp part's         *)
(* included, leave no route that DELETE cannot find.                       *)
OnlyDroppedRequestsLeak ==
  \A key \in Key :
    sess[key[1]][key[2]] # None
      => \/ key \in known \cup lost
         \/ req # None /\ req.key = key

(* Liveness: every request gives the lock back, although it waits for room *)
(* in a bounded channel and for an answer while it holds it.               *)
RequestsFinish == req # None ~> req = None
=============================================================================
