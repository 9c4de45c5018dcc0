----------------------------- MODULE ProxyLemmas -----------------------------
(***************************************************************************)
(* Lemmas about the operators the proofs share: the tables of a pooled     *)
(* socket (module RouteTable), for any sets of sessions, ufrags and        *)
(* targets, and first-in first-out channels as sequences.                  *)
(***************************************************************************)
EXTENDS RouteTable, SequenceTheorems, TLAPS

-----------------------------------------------------------------------------
(* The route table *)

(* What on_control needs of the tables it installs: they are tables, a     *)
(* ufrag has a target exactly while a session uses it, and a ufrag with a  *)
(* target keeps it exactly when its flows are kept.                        *)
GoodTable(sess, rts, tb) ==
  /\ tb.sessions \in Map(Session, Ufrag)
  /\ tb.routes \in Map(Ufrag, Target)
  /\ \A v \in Ufrag : tb.routes[v] # None <=> InUse(tb.sessions, v)
  /\ \A v \in Ufrag : rts[v] # None => (v \in tb.dropped <=> tb.routes[v] # rts[v])

(* AddRoute keeps the table in order, whether the ufrag is new, shared or  *)
(* rerouted and wherever the session was before.                           *)
LEMMA AddRouteGood ==
  ASSUME NEW sess \in Map(Session, Ufrag), NEW rts \in Map(Ufrag, Target),
         \A v \in Ufrag : rts[v] # None <=> InUse(sess, v),
         NEW s \in Session, NEW u \in Ufrag, NEW t \in Target
  PROVE  GoodTable(sess, rts, AddRoute(sess, rts, s, u, t))
<1> DEFINE tb == AddRoute(sess, rts, s, u, t)
           sess2 == [sess EXCEPT ![s] = u]
<1>1. /\ tb.sessions = sess2
      /\ tb.routes = Without([rts EXCEPT ![u] = t], Replaced(sess, s, u))
      /\ tb.dropped = Rerouted(rts, u, t) \cup Replaced(sess, s, u)
  BY DEF AddRoute
<1>2. sess2 \in Map(Session, Ufrag) /\ sess2[s] = u
         /\ \A x \in Session : x # s => sess2[x] = sess[x]
  BY DEF Map
<1>3. \A v \in Ufrag : v \in Replaced(sess, s, u) <=>
         v = sess[s] /\ v # u /\ ~InUse(sess2, v)
  BY BaseAssumption DEF Replaced, Forgotten, Map
<1>4. \A v \in Ufrag :
        tb.routes[v] = IF v \in Replaced(sess, s, u) THEN None
                       ELSE IF v = u THEN t ELSE rts[v]
  BY <1>1 DEF Without, Map
<1>5. tb.routes \in Map(Ufrag, Target)
  BY <1>1, BaseAssumption DEF Without, Map
<1>6. ASSUME NEW v \in Ufrag PROVE tb.routes[v] # None <=> InUse(sess2, v)
  <2>1. CASE v = u
    BY <2>1, <1>2, <1>3, <1>4, BaseAssumption DEF InUse
  <2>2. CASE v # u /\ sess[s] = v
    BY <2>2, <1>2, <1>3, <1>4 DEF InUse
  <2>3. CASE v # u /\ sess[s] # v
    <3>1. InUse(sess2, v) <=> InUse(sess, v)
      BY <2>3, <1>2 DEF InUse
    <3> QED BY <2>3, <3>1, <1>3, <1>4
  <2> QED BY <2>1, <2>2, <2>3
<1>7. ASSUME NEW v \in Ufrag, rts[v] # None
      PROVE  v \in tb.dropped <=> tb.routes[v] # rts[v]
  BY <1>7, <1>1, <1>3, <1>4 DEF Rerouted
<1> QED
  BY <1>1, <1>2, <1>5, <1>6, <1>7 DEF GoodTable

(* RemoveSession keeps the table in order, known session or not. *)
LEMMA RemoveSessionGood ==
  ASSUME NEW sess \in Map(Session, Ufrag), NEW rts \in Map(Ufrag, Target),
         \A v \in Ufrag : rts[v] # None <=> InUse(sess, v),
         NEW s \in Session
  PROVE  GoodTable(sess, rts, RemoveSession(sess, rts, s))
<1> DEFINE tb == RemoveSession(sess, rts, s)
           left == [sess EXCEPT ![s] = None]
           gone == IF sess[s] = None THEN {} ELSE Forgotten(left, sess[s])
<1>1. tb.sessions = left /\ tb.routes = Without(rts, gone) /\ tb.dropped = gone
  BY DEF RemoveSession
<1>2. left \in Map(Session, Ufrag) /\ left[s] = None
         /\ \A x \in Session : x # s => left[x] = sess[x]
  BY DEF Map
<1>3. \A v \in Ufrag : v \in gone <=> v = sess[s] /\ ~InUse(left, v)
  BY BaseAssumption DEF Forgotten
<1>4. \A v \in Ufrag : tb.routes[v] = IF v \in gone THEN None ELSE rts[v]
  BY <1>1 DEF Without
<1>5. tb.routes \in Map(Ufrag, Target)
  BY <1>1 DEF Without, Map
<1>6. ASSUME NEW v \in Ufrag PROVE tb.routes[v] # None <=> InUse(left, v)
  <2>1. CASE sess[s] = v
    BY <2>1, <1>2, <1>3, <1>4 DEF InUse
  <2>2. CASE sess[s] # v
    <3>1. InUse(left, v) <=> InUse(sess, v)
      BY <2>2, <1>2, BaseAssumption DEF InUse
    <3> QED BY <2>2, <3>1, <1>3, <1>4
  <2> QED BY <2>1, <2>2
<1>7. \A v \in Ufrag : rts[v] # None => (v \in tb.dropped <=> tb.routes[v] # rts[v])
  BY <1>1, <1>4
<1> QED
  BY <1>1, <1>2, <1>5, <1>6, <1>7 DEF GoodTable

(* What AddRoute does for its own session, its ufrag and everyone else. *)
LEMMA AddRouteAdds ==
  ASSUME NEW sess \in Map(Session, Ufrag), NEW rts \in Map(Ufrag, Target),
         NEW s \in Session, NEW u \in Ufrag, NEW t \in Target
  PROVE  LET tb == AddRoute(sess, rts, s, u, t)
         IN  /\ tb.sessions[s] = u
             /\ tb.routes[u] = t
             /\ \A x \in Session : x # s => tb.sessions[x] = sess[x]
<1>1. u \notin Replaced(sess, s, u)
  BY DEF Replaced, Forgotten, Map
<1> QED
  BY <1>1 DEF AddRoute, Without, Map

(* What RemoveSession does for its own session and everyone else. *)
LEMMA RemoveSessionRemoves ==
  ASSUME NEW sess \in Map(Session, Ufrag), NEW rts \in Map(Ufrag, Target),
         NEW s \in Session
  PROVE  LET tb == RemoveSession(sess, rts, s)
         IN  /\ tb.sessions[s] = None
             /\ \A x \in Session : x # s => tb.sessions[x] = sess[x]
  BY DEF RemoveSession, Map

(* What is left of a table when session s was bound to u and u leads to t, *)
(* and when s was unbound: the ufrags still in use, with their targets.    *)
TableBound(sess, rts, s, u, t, tb) ==
  /\ tb.sessions = [sess EXCEPT ![s] = u]
  /\ tb.routes = [v \in Ufrag |-> IF v = u THEN t
                     ELSE IF InUse(tb.sessions, v) THEN rts[v] ELSE None]

TableUnbound(sess, rts, s, tb) ==
  /\ tb.sessions = [sess EXCEPT ![s] = None]
  /\ tb.routes = [v \in Ufrag |-> IF InUse(tb.sessions, v) THEN rts[v] ELSE None]

(* AddRoute binds, and forgets exactly the ufrag the session was the last  *)
(* to use.                                                                 *)
LEMMA AddRouteRoutes ==
  ASSUME NEW sess \in Map(Session, Ufrag), NEW rts \in Map(Ufrag, Target),
         \A v \in Ufrag : rts[v] # None <=> InUse(sess, v),
         NEW s \in Session, NEW u \in Ufrag, NEW t \in Target
  PROVE  TableBound(sess, rts, s, u, t, AddRoute(sess, rts, s, u, t))
<1> DEFINE tb == AddRoute(sess, rts, s, u, t)
<1>1. tb.sessions = [sess EXCEPT ![s] = u]
  BY DEF AddRoute
<1>2. tb.routes = [v \in Ufrag |-> IF v \in Replaced(sess, s, u) THEN None
                                  ELSE [rts EXCEPT ![u] = t][v]]
  BY DEF AddRoute, Without
<1>3. ASSUME NEW v \in Ufrag, v # u
      PROVE  (IF v \in Replaced(sess, s, u) THEN None ELSE rts[v])
               = IF InUse(tb.sessions, v) THEN rts[v] ELSE None
  <2>1. CASE sess[s] = v
    BY <1>1, <1>3, <2>1, BaseAssumption DEF Replaced, Forgotten
  <2>2. CASE sess[s] # v
    <3>1. InUse(tb.sessions, v) <=> InUse(sess, v)
      BY <1>1, <1>3, <2>2 DEF InUse, Map
    <3>2. v \notin Replaced(sess, s, u)
      BY <2>2 DEF Replaced, Forgotten
    <3> QED BY <3>1, <3>2
  <2> QED BY <2>1, <2>2
<1>4. u \notin Replaced(sess, s, u)
  BY DEF Replaced, Forgotten
<1>5. ASSUME NEW v \in Ufrag
      PROVE  (IF v \in Replaced(sess, s, u) THEN None ELSE [rts EXCEPT ![u] = t][v])
               = IF v = u THEN t ELSE IF InUse(tb.sessions, v) THEN rts[v] ELSE None
  BY <1>3, <1>4 DEF Map
<1> HIDE DEF tb
<1>6. tb.routes = [v \in Ufrag |-> IF v = u THEN t
                     ELSE IF InUse(tb.sessions, v) THEN rts[v] ELSE None]
  BY <1>2, <1>5, Zenon
<1>7. TableBound(sess, rts, s, u, t, tb)
  BY <1>1, <1>6 DEF TableBound
<1> QED
  BY <1>7 DEF tb

(* RemoveSession unbinds. *)
LEMMA RemoveSessionRoutes ==
  ASSUME NEW sess \in Map(Session, Ufrag), NEW rts \in Map(Ufrag, Target),
         \A v \in Ufrag : rts[v] # None <=> InUse(sess, v),
         NEW s \in Session
  PROVE  TableUnbound(sess, rts, s, RemoveSession(sess, rts, s))
<1> DEFINE tb == RemoveSession(sess, rts, s)
           gone == IF sess[s] = None THEN {} ELSE Forgotten(tb.sessions, sess[s])
<1>1. tb.sessions = [sess EXCEPT ![s] = None]
  BY DEF RemoveSession
<1>2. tb.routes = [v \in Ufrag |-> IF v \in gone THEN None ELSE rts[v]]
  BY <1>1 DEF RemoveSession, Without
<1>3. ASSUME NEW v \in Ufrag
      PROVE  (IF v \in gone THEN None ELSE rts[v])
               = IF InUse(tb.sessions, v) THEN rts[v] ELSE None
  <2>1. CASE sess[s] = v
    BY <2>1, BaseAssumption DEF Forgotten
  <2>2. CASE sess[s] # v
    <3>1. InUse(tb.sessions, v) <=> InUse(sess, v)
      BY <1>1, <2>2, BaseAssumption DEF InUse, Map
    <3>2. v \notin gone
      BY <2>2 DEF Forgotten
    <3> QED BY <3>1, <3>2
  <2> QED BY <2>1, <2>2
<1> QED
  BY <1>1, <1>2, <1>3 DEF TableUnbound

-----------------------------------------------------------------------------
(* Channels *)

(* Sender::send puts a message behind the others. *)
LEMMA Posting ==
  ASSUME NEW S, NEW q \in Seq(S), NEW m \in S
  PROVE  /\ Append(q, m) \in Seq(S) /\ Len(q) \in Nat
         /\ Len(Append(q, m)) = Len(q) + 1
         /\ \A n \in 1..(Len(q) + 1) : Append(q, m)[n] = IF n = Len(q) + 1 THEN m ELSE q[n]
  BY AppendProperties, LenProperties

(* Receiver::recv takes the first one. *)
LEMMA Taking ==
  ASSUME NEW S, NEW q \in Seq(S), q # <<>>
  PROVE  /\ Head(q) = q[1] /\ q[1] \in S /\ Len(q) \in Nat /\ Len(q) >= 1
         /\ Tail(q) \in Seq(S) /\ Len(Tail(q)) = Len(q) - 1
         /\ \A n \in 1..(Len(q) - 1) : Tail(q)[n] = q[n + 1]
<1>1. Len(q) \in Nat /\ Len(q) # 0
  BY LenProperties, EmptySeq
<1> QED
  BY <1>1, HeadTailProperties, ElementOfSeq

(* Message a is in channel q. *)
Among(q, a) == \E n \in 1..Len(q) : q[n] = a

(* What is in a channel after a send. *)
LEMMA AmongAppend ==
  ASSUME NEW S, NEW q \in Seq(S), NEW b \in S
  PROVE  /\ Append(q, b) \in Seq(S) /\ Len(q) \in Nat /\ Len(Append(q, b)) = Len(q) + 1
         /\ \A a : Among(Append(q, b), a) <=> Among(q, a) \/ a = b
<1>1. /\ Append(q, b) \in Seq(S) /\ Len(q) \in Nat /\ Len(Append(q, b)) = Len(q) + 1
      /\ \A n \in 1..Len(q) : Append(q, b)[n] = q[n]
      /\ Append(q, b)[Len(q) + 1] = b
  BY AppendProperties, LenProperties
<1>2. \A n \in 1..(Len(q) + 1) : n = Len(q) + 1 \/ n \in 1..Len(q)
  BY <1>1
<1>3. \A n \in 1..Len(q) : n \in 1..(Len(q) + 1)
  BY <1>1
<1>4. Len(q) + 1 \in 1..(Len(q) + 1)
  BY <1>1
<1> QED
  BY <1>1, <1>2, <1>3, <1>4 DEF Among

(* What is in a channel after a receive: the other messages still are. *)
LEMMA AmongTail ==
  ASSUME NEW S, NEW q \in Seq(S), q # <<>>
  PROVE  /\ Head(q) \in S /\ Among(q, Head(q))
         /\ Tail(q) \in Seq(S) /\ Len(q) \in Nat /\ Len(Tail(q)) = Len(q) - 1
         /\ Tail(q) # q
         /\ \A a : Among(Tail(q), a) => Among(q, a)
         /\ \A a : Among(q, a) /\ a # Head(q) => Among(Tail(q), a)
<1>1. /\ Head(q) \in S /\ Head(q) = q[1] /\ Tail(q) \in Seq(S)
      /\ Len(q) \in Nat /\ Len(q) >= 1 /\ Len(Tail(q)) = Len(q) - 1
      /\ \A n \in 1..Len(Tail(q)) : Tail(q)[n] = q[n + 1]
  BY HeadTailProperties, EmptySeq, LenProperties
<1>2. Tail(q) # q
  <2>1. \A n \in Nat : n # n - 1
    OBVIOUS
  <2>2. Len(Tail(q)) = Len(q) - 1 /\ Len(q) \in Nat
    BY <1>1
  <2> QED BY <2>1, <2>2, Zenon
<1>3. Among(q, Head(q))
  BY <1>1 DEF Among
<1>4. \A a : Among(Tail(q), a) => Among(q, a)
  <2>1. \A n \in 1..Len(Tail(q)) : n + 1 \in 1..Len(q)
    BY <1>1
  <2> QED BY <1>1, <2>1 DEF Among
<1>5. ASSUME NEW a, Among(q, a), a # Head(q) PROVE Among(Tail(q), a)
  <2>1. PICK n \in 1..Len(q) : q[n] = a
    BY <1>5 DEF Among
  <2>2. n # 1 /\ n - 1 \in 1..Len(Tail(q)) /\ (n - 1) + 1 = n
    BY <1>1, <1>5, <2>1
  <2> QED BY <1>1, <2>1, <2>2 DEF Among
<1> QED
  BY <1>1, <1>2, <1>3, <1>4, <1>5
=============================================================================
