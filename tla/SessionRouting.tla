--------------------------- MODULE SessionRouting ----------------------------
(***************************************************************************)
(* What a pooled inbound socket promises, without tasks, channels or       *)
(* sockets.  Sessions are bound to ufrags, ufrags in use have one target,  *)
(* and a client address may have an open flow, pinned to the ufrag and the *)
(* target it was opened with.                                              *)
(*                                                                         *)
(* PooledUdpEndpoint implements this specification; the refinement is in   *)
(* that module.                                                            *)
(***************************************************************************)
EXTENDS ProxyBase

VARIABLES
  sessions,  \* session id -> ufrag
  routes,    \* ufrag -> target
  flows      \* client address -> [ufrag, target]

vars == <<sessions, routes, flows>>

Flow == [ufrag : Ufrag, target : Target]

Init ==
  /\ sessions = EmptyMap(Session)
  /\ routes = EmptyMap(Ufrag)
  /\ flows = EmptyMap(Addr)

(* The ufrags some session is bound to. *)
Used == {u \in Ufrag : \E s \in Session : sessions[s] = u}

(* A flow survives a change of the routes exactly when its ufrag still has *)
(* the target the flow was opened with.                                    *)
KeepRoutedFlows ==
  flows' = [a \in Addr |->
              IF flows[a] # None /\ routes'[flows[a].ufrag] # flows[a].target
              THEN None ELSE flows[a]]

(* Session s now uses ufrag u, which now leads to t. *)
Bind(s, u, t) ==
  /\ sessions' = [sessions EXCEPT ![s] = u]
  /\ routes' = [v \in Ufrag |->
                  IF v = u THEN t ELSE IF v \in Used' THEN routes[v] ELSE None]
  /\ KeepRoutedFlows

(* Session s is over; only the ufrags still in use keep their target. *)
Unbind(s) ==
  /\ sessions' = [sessions EXCEPT ![s] = None]
  /\ routes' = [v \in Ufrag |-> IF v \in Used' THEN routes[v] ELSE None]
  /\ KeepRoutedFlows

(* A client that presents a routed ufrag opens a flow to its target. *)
Open(a, u) ==
  /\ flows[a] = None
  /\ routes[u] # None
  /\ flows' = [flows EXCEPT ![a] = [ufrag |-> u, target |-> routes[u]]]
  /\ UNCHANGED <<sessions, routes>>

(* A flow ends: idle, failed, or found dead. *)
Close(a) ==
  /\ flows[a] # None
  /\ flows' = [flows EXCEPT ![a] = None]
  /\ UNCHANGED <<sessions, routes>>

(* The socket is given up, and everything with it. *)
Reset ==
  /\ sessions' = EmptyMap(Session)
  /\ routes' = EmptyMap(Ufrag)
  /\ flows' = EmptyMap(Addr)

Next ==
  \/ \E s \in Session, u \in Ufrag, t \in Target : Bind(s, u, t)
  \/ \E s \in Session : Unbind(s)
  \/ \E a \in Addr, u \in Ufrag : Open(a, u)
  \/ \E a \in Addr : Close(a)
  \/ Reset

Spec == Init /\ [][Next]_vars
=============================================================================
