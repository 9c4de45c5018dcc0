----------------------------- MODULE RouteTable ------------------------------
(***************************************************************************)
(* PooledUdpEndpoint::on_control and forget_ufrag_if_unused as functions   *)
(* of the two maps they update: `sess` is self.sessions (session id to     *)
(* ufrag) and `rts` is self.routes (ufrag to target).  The third result,   *)
(* `dropped`, is the set of ufrags handed to drop_clients on the way: the  *)
(* owner of the clients removes every flow of those ufrags.                *)
(***************************************************************************)
EXTENDS ProxyBase

(* self.sessions.values().any(|u| u == ufrag) *)
InUse(sess, u) == \E s \in Session : sess[s] = u

(* Mutant of Forgotten: forgets the ufrag even when another session has it. *)
ForgottenAlways(sess, u) == {u}

(* The ufrags forget_ufrag_if_unused(u) removes from the routes. *)
Forgotten(sess, u) == IF InUse(sess, u) THEN {} ELSE {u}

(* Mutant of Rerouted: a rerouted ufrag keeps its flows. *)
ReroutedNever(rts, u, t) == {}

(* The ufrags whose flows are dropped because AddRoute changed their target. *)
Rerouted(rts, u, t) == IF rts[u] \in {None, t} THEN {} ELSE {u}

(* The ufrags released because session s moves from another ufrag to u. *)
Replaced(sess, s, u) ==
  IF sess[s] \in {None, u} THEN {}
  ELSE Forgotten([sess EXCEPT ![s] = u], sess[s])

Without(rts, U) == [v \in Ufrag |-> IF v \in U THEN None ELSE rts[v]]

(* PooledUdpMsg::AddRoute { session_id: s, ufrag: u, target: t } *)
AddRoute(sess, rts, s, u, t) ==
  [sessions |-> [sess EXCEPT ![s] = u],
   routes   |-> Without([rts EXCEPT ![u] = t], Replaced(sess, s, u)),
   dropped  |-> Rerouted(rts, u, t) \cup Replaced(sess, s, u)]

(* PooledUdpMsg::RemoveSession { session_id: s }; unknown sessions are a no-op. *)
RemoveSession(sess, rts, s) ==
  LET left == [sess EXCEPT ![s] = None]
      gone == IF sess[s] = None THEN {} ELSE Forgotten(left, sess[s])
  IN  [sessions |-> left, routes |-> Without(rts, gone), dropped |-> gone]
=============================================================================
