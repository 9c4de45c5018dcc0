-------------------------- MODULE AllocationProofs ---------------------------
(***************************************************************************)
(* Proofs about PooledAllocation, for any number of pooled sockets and any *)
(* channel capacity, sessions, ufrags and targets.                         *)
(*                                                                         *)
(* The argument: at most one message over all channels has a waiting       *)
(* sender, the request that holds the lock, and it is the last of its      *)
(* channel.  When it is acknowledged the channel is therefore empty, and   *)
(* nothing a dropped request left behind can still undo its effect.        *)
(***************************************************************************)
EXTENDS PooledAllocation, ProxyLemmas

(* Channel k holds a message, or an AddRoute, for session s. *)
Pending(k, s) == \E n \in 1..Len(queue[k]) : queue[k][n].sid = s

PendingAdd(k, s) ==
  \E n \in 1..Len(queue[k]) : queue[k][n].sid = s /\ queue[k][n].op = "add"

(* A request or message to add names a ufrag and a target. *)
WellFormed(x) == x.op = "add" => x.ufrag \in Ufrag /\ x.target \in Target

Awaiting == req # None /\ req.at = "await"

(* What a request has found and done by the await it is in. *)
RequestOK ==
  /\ req # None => /\ WellFormed(req)
                   /\ req.at = "tcp" => req.op = "add" /\ req.key \in known
                   /\ req.op = "remove" => req.key \notin known
  /\ \A k \in Pool : \A n \in 1..Len(queue[k]) : WellFormed(queue[k][n])

(* The only live message is that of the current request, and the last of   *)
(* its channel; it is there until it is acknowledged.                      *)
OneWaits ==
  /\ acked => Awaiting
  /\ Awaiting /\ ~acked => /\ Len(queue[req.key[1]]) > 0
                           /\ queue[req.key[1]][Len(queue[req.key[1]])].live
  /\ \A k \in Pool : \A n \in 1..Len(queue[k]) :
       queue[k][n].live => /\ Awaiting /\ ~acked
                           /\ k = req.key[1] /\ n = Len(queue[k])
                           /\ queue[k][n] = Posted

(* The tables are as the request wants them once it was acknowledged, and  *)
(* its channel is empty.                                                   *)
EffectSeen ==
  Acknowledged \/ (req # None /\ req.at = "tcp")
    => /\ queue[req.key[1]] = <<>>
       /\ req.op = "add" => /\ sess[req.key[1]][req.key[2]] = req.ufrag
                            /\ routes[req.key[1]][req.ufrag] = req.target
       /\ req.op = "remove" => sess[req.key[1]][req.key[2]] = None

(* A ufrag has a target exactly while a session uses it. *)
TablesMatch ==
  \A k \in Pool, v \in Ufrag : routes[k][v] # None <=> InUse(sess[k], v)

(* Nothing in a channel is about a session that was told its ufrag. *)
ToldUndisturbed ==
  \A key \in Key :
    told[key] # None => /\ sess[key[1]][key[2]] = told[key]
                        /\ key \in known
                        /\ ~Pending(key[1], key[2])

(* Nothing in a channel brings a deleted session back. *)
GoneUndisturbed ==
  \A key \in gone : sess[key[1]][key[2]] = None /\ ~PendingAdd(key[1], key[2])

(* A session that is routed or is going to be can be deleted, or its       *)
(* current request is half done, or an earlier one was dropped half done.  *)
Accounted ==
  \A key \in Key :
    sess[key[1]][key[2]] # None \/ PendingAdd(key[1], key[2])
      => \/ key \in known \cup lost
         \/ req # None /\ req.key = key /\ (req.op = "remove" \/ req.at = "await")

(* The inductive invariant. *)
AllocationInv ==
  /\ AllocationTypeOK
  /\ RequestOK
  /\ OneWaits
  /\ EffectSeen
  /\ TablesMatch
  /\ ToldUndisturbed
  /\ GoneUndisturbed
  /\ Accounted

-----------------------------------------------------------------------------
(* Keys and requests *)

(* A key is its socket and its session. *)
LEMMA KeyParts ==
  /\ \A key \in Key : key[1] \in Pool /\ key[2] \in Session
  /\ \A a, b \in Key : a[1] = b[1] /\ a[2] = b[2] => a = b
  BY DEF Key

(* The request and the message it posts are well typed. *)
LEMMA RequestParts ==
  ASSUME AllocationInv, req # None
  PROVE  /\ req \in Request /\ req.key \in Key
         /\ req.key[1] \in Pool /\ req.key[2] \in Session
         /\ req.op \in {"add", "remove"}
         /\ req.op = "add" => req.ufrag \in Ufrag /\ req.target \in Target
         /\ Posted \in Msg
         /\ Posted.op = req.op /\ Posted.sid = req.key[2] /\ Posted.live
         /\ Posted.ufrag = req.ufrag /\ Posted.target = req.target
         /\ queue[req.key[1]] \in Seq(Msg)
<1>1. req \in Request /\ req.key \in Key
  BY DEF AllocationInv, AllocationTypeOK, Request
<1>2. req.key[1] \in Pool /\ req.key[2] \in Session
  BY <1>1, KeyParts
<1> QED
  BY <1>1, <1>2 DEF AllocationInv, AllocationTypeOK, Request, RequestOK, WellFormed, Posted, Msg

-----------------------------------------------------------------------------
(* The inductive step, one lemma per kind of step *)

(* A freshly started pool is in order. *)
LEMMA InitInv == Init => AllocationInv
<1> SUFFICES ASSUME Init PROVE AllocationInv
  OBVIOUS
<1> USE DEF Init, EmptyMap
<1>1. \A k \in Pool : queue[k] = <<>> /\ Len(queue[k]) = 0
  OBVIOUS
<1>2. AllocationTypeOK
  <2>1. queue \in [Pool -> Seq(Msg)]
    BY EmptySeq
  <2>2. next \in Pool /\ \A k \in Pool : Len(queue[k]) <= QCap
    BY <1>1, AllocationAssumption DEF Pool
  <2> QED BY <2>1, <2>2 DEF AllocationTypeOK, Map
<1>3. RequestOK /\ OneWaits /\ EffectSeen
  BY <1>1 DEF RequestOK, OneWaits, EffectSeen, Acknowledged, Awaiting
<1>4. TablesMatch
  BY BaseAssumption DEF TablesMatch, InUse
<1>5. ToldUndisturbed /\ GoneUndisturbed /\ Accounted
  BY <1>1, KeyParts DEF ToldUndisturbed, GoneUndisturbed, Accounted, PendingAdd
<1> QED
  BY <1>2, <1>3, <1>4, <1>5 DEF AllocationInv

(* create_proxy takes the lock. *)
LEMMA AllocateInv ==
  ASSUME AllocationInv, NEW s \in Session, NEW u \in Ufrag, NEW t \in Target,
         Allocate(s, u, t)
  PROVE  AllocationInv'
<1> USE DEF AllocationInv, Allocate, history
<1>1. next' \in Pool
  BY AllocationAssumption DEF AllocationTypeOK, Pool
<1>2. /\ req' \in Request /\ req' # None /\ req'.at = "send" /\ req'.op = "add"
      /\ req'.ufrag \in Ufrag /\ req'.target \in Target
  BY AllocationAssumption DEF AllocationTypeOK, Request, Key
<1>3. AllocationTypeOK'
  BY <1>1, <1>2 DEF AllocationTypeOK
<1>4. RequestOK'
  BY <1>2 DEF RequestOK, WellFormed
<1>5. ~acked /\ \A k \in Pool : \A n \in 1..Len(queue[k]) : ~queue[k][n].live
  BY DEF OneWaits, Awaiting
<1>6. OneWaits' /\ EffectSeen'
  BY <1>2, <1>5 DEF OneWaits, Awaiting, EffectSeen, Acknowledged
<1>7. TablesMatch' /\ ToldUndisturbed' /\ GoneUndisturbed'
  BY DEF TablesMatch, InUse, ToldUndisturbed, GoneUndisturbed, Pending, PendingAdd
<1>8. Accounted'
  BY DEF Accounted, PendingAdd
<1> QED
  BY <1>3, <1>4, <1>6, <1>7, <1>8

(* delete_pooled_udp_proxy takes the lock and forgets the key. *)
LEMMA DeleteInv ==
  ASSUME AllocationInv, NEW key \in Key, Delete(key)
  PROVE  AllocationInv'
<1> USE DEF AllocationInv, Delete
<1>2. /\ req' \in Request /\ req' # None /\ req'.at = "send" /\ req'.op = "remove"
      /\ req'.key = key
  BY AllocationAssumption DEF Request
<1>3. AllocationTypeOK'
  BY <1>2 DEF AllocationTypeOK, Map
<1>4. RequestOK'
  BY <1>2 DEF RequestOK, WellFormed
<1>5. ~acked /\ \A k \in Pool : \A n \in 1..Len(queue[k]) : ~queue[k][n].live
  BY DEF OneWaits, Awaiting
<1>6. OneWaits' /\ EffectSeen'
  BY <1>2, <1>5 DEF OneWaits, Awaiting, EffectSeen, Acknowledged
<1>7. TablesMatch' /\ GoneUndisturbed'
  BY DEF TablesMatch, InUse, GoneUndisturbed, PendingAdd
<1>8. ToldUndisturbed'
  BY DEF ToldUndisturbed, Pending, AllocationTypeOK, Map
<1>9. Accounted'
  BY <1>2 DEF Accounted, PendingAdd
<1> QED
  BY <1>3, <1>4, <1>6, <1>7, <1>8, <1>9

(* control_tx.send completes: the message is the last of its channel. *)
LEMMA SendInv == ASSUME AllocationInv, Send PROVE AllocationInv'
<1> USE DEF AllocationInv
<1> DEFINE k0 == req.key[1]
           q == queue[k0]
<1>1. req # None /\ req.at = "send" /\ Len(q) < QCap /\ ~acked
  BY DEF Send, OneWaits, Awaiting
<1>2. /\ req' \in Request /\ req' # None /\ req'.at = "await" /\ req'.op = req.op
      /\ req'.key = req.key /\ req'.ufrag = req.ufrag /\ req'.target = req.target
  BY <1>1, RequestParts, AllocationAssumption DEF Send, Request
<1>3. Posted' = Posted
  BY <1>2 DEF Posted
<1>4. /\ q \in Seq(Msg) /\ k0 \in Pool /\ Posted \in Msg
      /\ Posted.op = req.op /\ Posted.sid = req.key[2] /\ Posted.live
      /\ Posted.ufrag = req.ufrag /\ Posted.target = req.target
  BY <1>1, RequestParts
<1>5. /\ queue'[k0] \in Seq(Msg) /\ Len(q) \in Nat /\ Len(queue'[k0]) = Len(q) + 1
      /\ \A n \in 1..(Len(q) + 1) : queue'[k0][n] = IF n = Len(q) + 1 THEN Posted ELSE q[n]
      /\ \A k \in Pool : k # k0 => queue'[k] = queue[k]
      /\ queue' \in [Pool -> Seq(Msg)]
  BY <1>4, Posting DEF Send, AllocationTypeOK
<1>6. AllocationTypeOK'
  BY <1>1, <1>2, <1>5, AllocationAssumption, RequestParts DEF Send, AllocationTypeOK, Map
<1>7. RequestOK'
  BY <1>1, <1>2, <1>4, <1>5 DEF Send, RequestOK, WellFormed
<1>8. \A k \in Pool : \A n \in 1..Len(queue[k]) : ~queue[k][n].live
  BY <1>1 DEF OneWaits, Awaiting
<1>9. OneWaits' /\ EffectSeen'
  <2>1. acked' = FALSE
    BY <1>1 DEF Send, AllocationTypeOK
  <2>2. Awaiting' /\ ~Acknowledged'
    BY <1>2, <2>1 DEF Awaiting, Acknowledged
  <2>3. ASSUME NEW k \in Pool, NEW n \in 1..Len(queue'[k]), queue'[k][n].live
        PROVE  k = k0 /\ n = Len(queue'[k]) /\ queue'[k][n] = Posted
    BY <2>3, <1>4, <1>5, <1>8
  <2>4. Len(queue'[k0]) > 0 /\ queue'[k0][Len(queue'[k0])].live
    BY <1>4, <1>5
  <2>5. OneWaits'
    BY <1>2, <1>3, <2>1, <2>2, <2>3, <2>4 DEF OneWaits
  <2>6. EffectSeen'
    BY <1>2, <2>2 DEF EffectSeen
  <2> QED BY <2>5, <2>6
<1>10. TablesMatch'
  BY DEF Send, TablesMatch, InUse
<1>11. \A key \in Key : key # req.key =>
         (Pending(key[1], key[2])' => Pending(key[1], key[2]))
         /\ (PendingAdd(key[1], key[2])' => PendingAdd(key[1], key[2]))
  <2> SUFFICES ASSUME NEW key \in Key, key # req.key,
                      NEW n \in 1..Len(queue'[key[1]]), queue'[key[1]][n].sid = key[2]
               PROVE  n \in 1..Len(queue[key[1]]) /\ queue'[key[1]][n] = queue[key[1]][n]
    BY DEF Pending, PendingAdd
  <2>1. key[1] \in Pool /\ ~(key[1] = k0 /\ key[2] = req.key[2])
    BY <1>1, RequestParts, KeyParts
  <2> QED BY <1>4, <1>5, <2>1
<1>12. ToldUndisturbed' /\ GoneUndisturbed'
  <2>1. \A key \in Key : told'[key] = IF key = req.key THEN None ELSE told[key]
    BY DEF Send, AllocationTypeOK, Map
  <2>2. ToldUndisturbed'
    BY <1>11, <2>1 DEF Send, ToldUndisturbed
  <2>3. GoneUndisturbed'
    BY <1>11 DEF Send, GoneUndisturbed, AllocationTypeOK
  <2> QED BY <2>2, <2>3
<1>13. Accounted'
  BY <1>2, <1>11 DEF Send, Accounted
<1> QED
  BY <1>6, <1>7, <1>9, <1>10, <1>12, <1>13

(* An acknowledged request holds an empty channel. *)
LEMMA NothingPending ==
  ASSUME AllocationInv, Acknowledged \/ (req # None /\ req.at = "tcp")
  PROVE  ~Pending(req.key[1], req.key[2]) /\ ~PendingAdd(req.key[1], req.key[2])
<1>1. queue[req.key[1]] = <<>> /\ Len(queue[req.key[1]]) = 0
  BY EmptySeq DEF AllocationInv, EffectSeen
<1> QED
  BY <1>1 DEF Pending, PendingAdd

(* add_route returns: udp_endpoints knows the key. *)
LEMMA RouteAddedInv == ASSUME AllocationInv, RouteAdded PROVE AllocationInv'
<1> USE DEF AllocationInv, RouteAdded, Acknowledged
<1>1. /\ req' \in Request /\ req' # None /\ req'.at = "tcp" /\ req'.op = "add"
      /\ req'.key = req.key /\ req'.ufrag = req.ufrag /\ req'.target = req.target
  BY RequestParts, AllocationAssumption DEF Request
<1>2. AllocationTypeOK'
  BY <1>1, RequestParts DEF AllocationTypeOK
<1>3. RequestOK'
  BY <1>1 DEF RequestOK, WellFormed
<1>4. OneWaits'
  BY <1>1 DEF OneWaits, Awaiting
<1>5. EffectSeen' /\ TablesMatch'
  BY <1>1 DEF EffectSeen, TablesMatch, InUse
<1>6. ToldUndisturbed' /\ GoneUndisturbed'
  BY DEF ToldUndisturbed, GoneUndisturbed, Pending, PendingAdd
<1>7. Accounted'
  BY <1>1 DEF Accounted, PendingAdd
<1> QED
  BY <1>2, <1>3, <1>4, <1>5, <1>6, <1>7

(* create_proxy returns, with an answer or with an error of the tcp part. *)
LEMMA AllocationOverInv ==
  ASSUME AllocationInv, AllocationAnswered \/ AllocationFails
  PROVE  AllocationInv'
<1> USE DEF AllocationInv, AllocationAnswered, AllocationFails, history
<1>1. /\ req # None /\ req.at = "tcp" /\ req.op = "add" /\ req.key \in known /\ req' = None
      /\ ~acked /\ req.key \in Key /\ req.ufrag \in Ufrag
      /\ sess[req.key[1]][req.key[2]] = req.ufrag
  BY RequestParts DEF RequestOK, OneWaits, Awaiting, EffectSeen
<1>2. AllocationTypeOK' /\ RequestOK'
  BY <1>1 DEF AllocationTypeOK, Map, RequestOK
<1>3. OneWaits' /\ EffectSeen' /\ TablesMatch'
  BY <1>1 DEF OneWaits, Awaiting, EffectSeen, Acknowledged, TablesMatch, InUse
<1>4. \A key \in Key : Pending(key[1], key[2])' = Pending(key[1], key[2])
  BY DEF Pending
<1>5. ToldUndisturbed'
  BY <1>1, <1>4, NothingPending DEF ToldUndisturbed, AllocationTypeOK, Map
<1>6. GoneUndisturbed'
  BY DEF GoneUndisturbed, PendingAdd
<1>7. Accounted'
  BY <1>1 DEF Accounted, PendingAdd
<1> QED
  BY <1>2, <1>3, <1>5, <1>6, <1>7

(* remove_session returns and DELETE is answered. *)
LEMMA DeleteAnsweredInv == ASSUME AllocationInv, DeleteAnswered PROVE AllocationInv'
<1> USE DEF AllocationInv, DeleteAnswered
<1>1. /\ Acknowledged /\ req # None /\ req.op = "remove" /\ req' = None /\ req.key \in Key
      /\ sess[req.key[1]][req.key[2]] = None
  BY RequestParts DEF Acknowledged, EffectSeen
<1>2. AllocationTypeOK' /\ RequestOK'
  BY <1>1 DEF AllocationTypeOK, RequestOK
<1>3. OneWaits' /\ EffectSeen' /\ TablesMatch'
  BY <1>1 DEF OneWaits, Awaiting, EffectSeen, Acknowledged, TablesMatch, InUse
<1>4. ToldUndisturbed'
  BY DEF ToldUndisturbed, Pending
<1>5. \A key \in Key : PendingAdd(key[1], key[2])' = PendingAdd(key[1], key[2])
  BY DEF PendingAdd
<1>6. GoneUndisturbed' /\ Accounted'
  BY <1>1, <1>5, NothingPending DEF GoneUndisturbed, Accounted, AllocationTypeOK
<1> QED
  BY <1>2, <1>3, <1>4, <1>6

(* What Cancel makes of a channel: the same messages, nobody waiting. *)
Unheard(q) == [n \in 1..Len(q) |-> [q[n] EXCEPT !.live = FALSE]]

LEMMA Unawaited ==
  ASSUME NEW q \in Seq(Msg), NEW r, r = Unheard(q)
  PROVE  /\ r \in Seq(Msg) /\ Len(r) = Len(q)
         /\ \A n \in 1..Len(q) :
              /\ r[n].op = q[n].op /\ r[n].sid = q[n].sid
              /\ r[n].ufrag = q[n].ufrag /\ r[n].target = q[n].target
              /\ ~r[n].live
<1>1. Len(q) \in Nat /\ \A n \in 1..Len(q) : q[n] \in Msg
  BY LenProperties, ElementOfSeq
<1>2. ASSUME NEW n \in 1..Len(q)
      PROVE  /\ r[n] \in Msg /\ r[n].op = q[n].op /\ r[n].sid = q[n].sid
             /\ r[n].ufrag = q[n].ufrag /\ r[n].target = q[n].target /\ ~r[n].live
  BY <1>1 DEF Msg, Unheard
<1>3. r \in [1..Len(q) -> Msg]
  BY <1>2 DEF Unheard
<1>4. r \in Seq(Msg)
  BY <1>1, <1>3, SeqDef
<1>5. Len(r) \in Nat /\ 1..Len(r) = 1..Len(q)
  BY <1>3, <1>4, LenProperties
<1>6. Len(r) = Len(q)
  BY <1>1, <1>5
<1> QED
  BY <1>2, <1>4, <1>6

(* The HTTP layer drops the request at any of its awaits. *)
LEMMA CancelInv == ASSUME AllocationInv, Cancel PROVE AllocationInv'
<1> USE DEF AllocationInv
<1>1. req # None /\ req' = None /\ acked' = FALSE /\ req.key \in Key
  BY RequestParts DEF Cancel
<1>10. UNCHANGED <<next, known, sess, routes, told, gone>>
  BY DEF Cancel
<1>2. ASSUME NEW k \in Pool
      PROVE  /\ queue'[k] \in Seq(Msg) /\ Len(queue'[k]) = Len(queue[k])
             /\ \A n \in 1..Len(queue[k]) :
                  /\ queue'[k][n].op = queue[k][n].op /\ queue'[k][n].sid = queue[k][n].sid
                  /\ queue'[k][n].ufrag = queue[k][n].ufrag
                  /\ queue'[k][n].target = queue[k][n].target
                  /\ ~queue'[k][n].live
  <2>1. queue[k] \in Seq(Msg)
    BY DEF AllocationTypeOK
  <2>2. queue'[k] = Unheard(queue[k])
    BY DEF Cancel, Unheard
  <2> QED BY <2>1, <2>2, Unawaited
<1>3. AllocationTypeOK'
  <2>1. queue' \in [Pool -> Seq(Msg)] /\ \A k \in Pool : Len(queue'[k]) <= QCap
    <3>1. queue' = [k \in Pool |-> queue'[k]]
      BY DEF Cancel
    <3> QED BY <1>2, <3>1 DEF AllocationTypeOK
  <2>2. lost' \subseteq Key
    BY <1>1 DEF Cancel, AllocationTypeOK
  <2> QED BY <1>10, <1>1, <2>1, <2>2 DEF AllocationTypeOK
<1>4. RequestOK'
  BY <1>10, <1>1, <1>2 DEF RequestOK, WellFormed
<1>5. OneWaits' /\ EffectSeen'
  BY <1>1, <1>2 DEF OneWaits, EffectSeen, Awaiting, Acknowledged
<1>6. TablesMatch'
  BY <1>10 DEF TablesMatch, InUse
<1>7. \A key \in Key :
        /\ Pending(key[1], key[2])' => Pending(key[1], key[2])
        /\ PendingAdd(key[1], key[2])' => PendingAdd(key[1], key[2])
  BY <1>2, KeyParts DEF Pending, PendingAdd
<1>8. ToldUndisturbed' /\ GoneUndisturbed'
  BY <1>10, <1>7 DEF ToldUndisturbed, GoneUndisturbed, AllocationTypeOK
<1>9. Accounted'
  <2> SUFFICES ASSUME NEW key \in Key,
                      sess[key[1]][key[2]] # None \/ PendingAdd(key[1], key[2])
               PROVE  key \in known \cup lost'
    BY <1>10, <1>7 DEF Accounted
  <2>1. CASE key \in known \cup lost
    BY <2>1 DEF Cancel
  <2>2. CASE key \notin known \cup lost
    <3>1. req.key = key /\ (req.op = "remove" \/ req.at = "await")
      BY <2>2 DEF Accounted
    <3>2. HalfDone
      BY <2>2, <3>1 DEF HalfDone
    <3> QED BY <3>1, <3>2 DEF Cancel
  <2> QED BY <2>1, <2>2
<1> QED
  BY <1>3, <1>4, <1>5, <1>6, <1>8, <1>9

(* What on_control makes of the tables of socket k. *)
LEMMA AppliedTables ==
  ASSUME AllocationInv, NEW k \in Pool, NEW m \in Msg, WellFormed(m)
  PROVE  LET tb == Applied(k, m)
         IN  /\ tb.sessions \in Map(Session, Ufrag) /\ tb.routes \in Map(Ufrag, Target)
             /\ \A v \in Ufrag : tb.routes[v] # None <=> InUse(tb.sessions, v)
             /\ \A x \in Session : x # m.sid => tb.sessions[x] = sess[k][x]
             /\ m.op = "add" => tb.sessions[m.sid] = m.ufrag /\ tb.routes[m.ufrag] = m.target
             /\ m.op = "remove" => tb.sessions[m.sid] = None
<1>1. /\ sess[k] \in Map(Session, Ufrag) /\ routes[k] \in Map(Ufrag, Target)
      /\ \A v \in Ufrag : routes[k][v] # None <=> InUse(sess[k], v)
  BY DEF AllocationInv, AllocationTypeOK, TablesMatch
<1>2. m.sid \in Session /\ m.op \in {"add", "remove"}
  BY DEF Msg
<1>3. CASE m.op = "add"
  <2>1. m.ufrag \in Ufrag /\ m.target \in Target
    BY <1>3 DEF WellFormed
  <2>2. Applied(k, m) = AddRoute(sess[k], routes[k], m.sid, m.ufrag, m.target)
    BY <1>3 DEF Applied
  <2>3. GoodTable(sess[k], routes[k], Applied(k, m))
    BY <1>1, <1>2, <2>1, <2>2, AddRouteGood
  <2> QED BY <1>1, <1>2, <1>3, <2>1, <2>2, <2>3, AddRouteAdds DEF GoodTable
<1>4. CASE m.op = "remove"
  <2>1. Applied(k, m) = RemoveSession(sess[k], routes[k], m.sid)
    BY <1>4 DEF Applied
  <2>2. GoodTable(sess[k], routes[k], Applied(k, m))
    BY <1>1, <1>2, <2>1, RemoveSessionGood
  <2> QED BY <1>1, <1>2, <1>4, <2>1, <2>2, RemoveSessionRemoves DEF GoodTable
<1> QED
  BY <1>2, <1>3, <1>4

(* on_control: the socket's task carries out the first message of its      *)
(* channel, whether its sender still waits or was dropped.                 *)
LEMMA OnControlInv ==
  ASSUME AllocationInv, NEW k \in Pool, OnControl(k)
  PROVE  AllocationInv'
<1> USE DEF AllocationInv
<1> DEFINE q == queue[k]
           m == q[1]
           tb == Applied(k, m)
<1>1. /\ q \in Seq(Msg) /\ q # <<>> /\ m \in Msg /\ Head(q) = m
      /\ Len(q) \in Nat /\ Len(q) >= 1 /\ 1 \in 1..Len(q)
  BY Taking DEF OnControl, AllocationTypeOK
<1>2. /\ queue'[k] \in Seq(Msg) /\ Len(queue'[k]) = Len(q) - 1
      /\ \A n \in 1..(Len(q) - 1) : queue'[k][n] = q[n + 1]
      /\ \A j \in Pool : j # k => queue'[j] = queue[j]
      /\ queue' \in [Pool -> Seq(Msg)]
  BY <1>1, Taking DEF OnControl, AllocationTypeOK
<1>15. \A n \in 1..Len(queue'[k]) : n + 1 \in 1..Len(q) /\ queue'[k][n] = q[n + 1]
  BY <1>1, <1>2
<1>3. WellFormed(m) /\ m.sid \in Session /\ m.op \in {"add", "remove"} /\ m.live \in BOOLEAN
  BY <1>1 DEF RequestOK, Msg
<1>4. /\ tb.sessions \in Map(Session, Ufrag) /\ tb.routes \in Map(Ufrag, Target)
      /\ \A v \in Ufrag : tb.routes[v] # None <=> InUse(tb.sessions, v)
      /\ \A x \in Session : x # m.sid => tb.sessions[x] = sess[k][x]
      /\ m.op = "add" => tb.sessions[m.sid] = m.ufrag /\ tb.routes[m.ufrag] = m.target
      /\ m.op = "remove" => tb.sessions[m.sid] = None
  BY <1>1, <1>3, AppliedTables
<1>5. /\ sess'[k] = tb.sessions /\ routes'[k] = tb.routes
      /\ \A j \in Pool : j # k => sess'[j] = sess[j] /\ routes'[j] = routes[j]
      /\ sess' \in [Pool -> Map(Session, Ufrag)] /\ routes' \in [Pool -> Map(Ufrag, Target)]
  BY <1>1, <1>4 DEF OnControl, AllocationTypeOK
<1>6. acked' = (acked \/ m.live) /\ UNCHANGED <<next, known, req, told, gone, lost>>
  BY <1>1 DEF OnControl, history
<1>7. AllocationTypeOK'
  <2>1. \A j \in Pool : Len(queue'[j]) <= QCap
    <3>1. Len(q) <= QCap /\ QCap \in Nat
      BY AllocationAssumption DEF AllocationTypeOK
    <3>2. Len(queue'[k]) <= QCap
      BY <1>1, <1>2, <3>1
    <3> QED BY <1>2, <3>2 DEF AllocationTypeOK
  <2>2. acked' \in BOOLEAN
    BY <1>3, <1>6 DEF AllocationTypeOK
  <2> QED BY <1>2, <1>5, <1>6, <2>1, <2>2 DEF AllocationTypeOK
<1>8. RequestOK'
  BY <1>2, <1>6, <1>15 DEF RequestOK, WellFormed
<1>9. OneWaits' /\ EffectSeen'
  <2>1. CASE m.live
    <3>1. /\ Awaiting /\ ~acked /\ k = req.key[1] /\ Len(q) = 1 /\ m = Posted
      BY <1>1, <2>1 DEF OneWaits
    <3>2. /\ req # None /\ req.op \in {"add", "remove"}
          /\ Posted.op = req.op /\ Posted.sid = req.key[2]
          /\ Posted.ufrag = req.ufrag /\ Posted.target = req.target
      BY <3>1, RequestParts DEF Awaiting
    <3>3. queue'[k] = <<>> /\ Len(queue'[k]) = 0
      BY <1>2, <3>1, EmptySeq
    <3>4. \A j \in Pool : \A n \in 1..Len(queue'[j]) : ~queue'[j][n].live
      BY <1>2, <3>1, <3>3 DEF OneWaits
    <3>5. OneWaits'
      <4>1. acked' /\ Awaiting'
        BY <1>6, <2>1, <3>1 DEF Awaiting
      <4> QED BY <3>4, <4>1 DEF OneWaits
    <3>6. EffectSeen'
      BY <1>4, <1>5, <1>6, <3>1, <3>2, <3>3 DEF EffectSeen
    <3> QED BY <3>5, <3>6
  <2>2. CASE ~m.live
    <3>1. acked' = acked
      BY <1>6, <2>2 DEF AllocationTypeOK
    <3>2. ASSUME NEW j \in Pool, NEW n \in 1..Len(queue'[j]), queue'[j][n].live
          PROVE  /\ Awaiting /\ ~acked /\ j = req.key[1] /\ n = Len(queue'[j])
                 /\ queue'[j][n] = Posted
      <4>1. CASE j # k
        BY <1>2, <3>2, <4>1 DEF OneWaits
      <4>2. CASE j = k
        <5>1. n + 1 \in 1..Len(q) /\ queue'[k][n] = q[n + 1] /\ n \in Nat
          BY <1>15, <4>2
        <5>2. /\ Awaiting /\ ~acked /\ k = req.key[1] /\ n + 1 = Len(q) /\ q[n + 1] = Posted
          BY <3>2, <4>2, <5>1 DEF OneWaits
        <5> QED BY <1>1, <1>2, <4>2, <5>1, <5>2
      <4> QED BY <4>1, <4>2
    <3>3. ASSUME Awaiting, ~acked
          PROVE  /\ Len(queue'[req.key[1]]) > 0
                 /\ queue'[req.key[1]][Len(queue'[req.key[1]])].live
      <4>1. req.key[1] \in Pool
        BY <3>3, RequestParts DEF Awaiting
      <4>2. CASE req.key[1] # k
        BY <1>2, <3>3, <4>1, <4>2 DEF OneWaits
      <4>3. CASE req.key[1] = k
        <5>1. q[Len(q)].live
          BY <3>3, <4>3 DEF OneWaits
        <5>2. Len(q) # 1
          BY <1>1, <2>2, <5>1
        <5>3. Len(queue'[k]) > 0 /\ Len(queue'[k]) + 1 = Len(q)
          <6>1. Len(q) \in Nat /\ Len(q) >= 1 /\ Len(queue'[k]) = Len(q) - 1
            BY <1>1, <1>2
          <6> HIDE DEF q
          <6> QED BY <5>2, <6>1
        <5>4. Len(queue'[k]) \in 1..Len(queue'[k])
          BY <1>2, <5>3, LenProperties
        <5>5. queue'[k][Len(queue'[k])] = q[Len(q)]
          BY <1>15, <5>3, <5>4
        <5> QED BY <4>3, <5>1, <5>3, <5>5
      <4> QED BY <4>2, <4>3
    <3>4. OneWaits'
      <4>1. Posted' = Posted /\ Awaiting' = Awaiting
        BY <1>6 DEF Posted, Awaiting
      <4> QED BY <1>6, <3>1, <3>2, <3>3, <4>1 DEF OneWaits
    <3>5. EffectSeen'
      <4> SUFFICES ASSUME Acknowledged \/ (req # None /\ req.at = "tcp")
                   PROVE  EffectSeen'
        BY <1>6, <3>1 DEF EffectSeen, Acknowledged
      <4>1. req.key[1] \in Pool
        BY RequestParts DEF Acknowledged
      <4>2. req.key[1] # k
        BY <1>1 DEF EffectSeen
      <4> QED BY <1>2, <1>5, <1>6, <4>1, <4>2 DEF EffectSeen
    <3> QED BY <3>4, <3>5
  <2> QED BY <1>3, <2>1, <2>2
<1>10. TablesMatch'
  BY <1>4, <1>5 DEF TablesMatch, InUse
<1>11. ASSUME NEW key \in Key
       PROVE  /\ Pending(key[1], key[2])' => Pending(key[1], key[2])
              /\ PendingAdd(key[1], key[2])' => PendingAdd(key[1], key[2])
              /\ \/ sess'[key[1]][key[2]] = sess[key[1]][key[2]]
                 \/ /\ Pending(key[1], key[2])
                    /\ sess'[key[1]][key[2]] # None => PendingAdd(key[1], key[2])
  <2>1. key[1] \in Pool /\ key[2] \in Session
    BY KeyParts
  <2>2. CASE key[1] # k
    BY <1>2, <1>5, <2>1, <2>2 DEF Pending, PendingAdd
  <2>3. CASE key[1] = k
    <3>2. /\ Pending(key[1], key[2])' => Pending(key[1], key[2])
          /\ PendingAdd(key[1], key[2])' => PendingAdd(key[1], key[2])
      BY <1>15, <2>3 DEF Pending, PendingAdd
    <3>3. CASE key[2] # m.sid
      BY <1>4, <1>5, <2>1, <2>3, <3>2, <3>3
    <3>4. CASE key[2] = m.sid
      <4>2. Pending(key[1], key[2]) /\ (m.op = "add" => PendingAdd(key[1], key[2]))
        BY <1>1, <2>3, <3>4 DEF Pending, PendingAdd
      <4>3. sess'[key[1]][key[2]] # None => m.op = "add"
        BY <1>3, <1>4, <1>5, <2>3, <3>4
      <4> QED BY <3>2, <4>2, <4>3
    <3> QED BY <3>3, <3>4
  <2> QED BY <2>2, <2>3
<1>12. ToldUndisturbed'
  BY <1>6, <1>11 DEF ToldUndisturbed
<1>13. GoneUndisturbed'
  BY <1>6, <1>11 DEF GoneUndisturbed, AllocationTypeOK
<1>14. Accounted'
  BY <1>6, <1>11 DEF Accounted
<1> QED
  BY <1>7, <1>8, <1>9, <1>10, <1>12, <1>13, <1>14

(* Every step of a request, of the HTTP layer or of a socket's task keeps  *)
(* the invariant.                                                          *)
LEMMA NextInv == AllocationInv /\ [Next]_vars => AllocationInv'
<1> SUFFICES ASSUME AllocationInv, [Next]_vars PROVE AllocationInv'
  OBVIOUS
<1>1. CASE \E s \in Session, u \in Ufrag, t \in Target : Allocate(s, u, t)
  BY <1>1, AllocateInv
<1>2. CASE \E key \in Key : Delete(key)
  BY <1>2, DeleteInv
<1>3. CASE Send \/ RouteAdded \/ DeleteAnswered \/ Cancel
  BY <1>3, SendInv, RouteAddedInv, DeleteAnsweredInv, CancelInv
<1>4. CASE AllocationAnswered \/ AllocationFails
  BY <1>4, AllocationOverInv
<1>5. CASE \E k \in Pool : OnControl(k)
  BY <1>5, OnControlInv
<1>6. CASE UNCHANGED vars
  <2> USE <1>6 DEF AllocationInv, vars, history
  <2>1. AllocationTypeOK' /\ RequestOK' /\ TablesMatch'
    BY DEF AllocationTypeOK, RequestOK, TablesMatch, InUse
  <2>2. OneWaits' /\ EffectSeen'
    BY DEF OneWaits, Awaiting, Posted, EffectSeen, Acknowledged
  <2>3. ToldUndisturbed' /\ GoneUndisturbed' /\ Accounted'
    BY DEF ToldUndisturbed, GoneUndisturbed, Accounted, Pending, PendingAdd
  <2> QED BY <2>1, <2>2, <2>3
<1> QED
  BY <1>1, <1>2, <1>3, <1>4, <1>5, <1>6 DEF Next

-----------------------------------------------------------------------------
(* The theorems *)

(* The inductive invariant holds in every reachable state. *)
THEOREM Invariance == Spec => []AllocationInv
  BY InitInv, NextInv, PTL DEF Spec

(* Every variable keeps its type; in particular no control channel ever    *)
(* holds more than its capacity (control_tx.send waits).                   *)
THEOREM TypeCorrect == Spec => []AllocationTypeOK
<1>1. AllocationInv => AllocationTypeOK
  BY DEF AllocationInv
<1> QED
  BY <1>1, Invariance, PTL

(* add_route: an answered allocation has its route, and keeps it whatever  *)
(* dropped requests and other sessions do.                                 *)
THEOREM Allocated == Spec => []AllocatedIsLive
<1>1. AllocationInv => AllocatedIsLive
  <2> SUFFICES ASSUME AllocationInv PROVE AllocatedIsLive
    OBVIOUS
  <2>1. ASSUME req # None, req.at = "tcp"
        PROVE  /\ sess[req.key[1]][req.key[2]] = req.ufrag
               /\ routes[req.key[1]][req.ufrag] = req.target
    BY <2>1 DEF AllocationInv, EffectSeen, RequestOK
  <2>2. ASSUME NEW key \in Key, told[key] # None
        PROVE  /\ sess[key[1]][key[2]] = told[key]
               /\ routes[key[1]][told[key]] # None
               /\ key \in known
    <3>1. key[1] \in Pool /\ key[2] \in Session /\ told[key] \in Ufrag
      BY <2>2, KeyParts DEF AllocationInv, AllocationTypeOK, Map
    <3>2. sess[key[1]][key[2]] = told[key] /\ key \in known
      BY <2>2 DEF AllocationInv, ToldUndisturbed
    <3> QED BY <3>1, <3>2 DEF AllocationInv, TablesMatch, InUse
  <2> QED BY <2>1, <2>2 DEF AllocatedIsLive
<1> QED
  BY <1>1, Invariance, PTL

(* remove_session: a session whose DELETE was answered stays gone; no      *)
(* AddRoute of a dropped request is still in the channel.                  *)
THEOREM Deleted == Spec => []DeletedStaysGone
<1>1. AllocationInv => DeletedStaysGone
  BY DEF AllocationInv, GoneUndisturbed, DeletedStaysGone
<1> QED
  BY <1>1, Invariance, PTL

(* create_pooled_udp_proxy and delete_pooled_udp_proxy: only requests      *)
(* dropped half way leave a route that DELETE cannot find.                 *)
THEOREM LeaksAreDropped == Spec => []OnlyDroppedRequestsLeak
<1>1. AllocationInv => OnlyDroppedRequestsLeak
  BY DEF AllocationInv, Accounted, OnlyDroppedRequestsLeak
<1> QED
  BY <1>1, Invariance, PTL

(* A request that awaits its acknowledgement (ack_rx.await, under the      *)
(* write lock) has its message in the channel of the socket it asked, and  *)
(* it is the last there: nothing sent later is handled before it, and no   *)
(* other message anywhere has a sender that waits.                         *)
AckDue ==
  Awaiting /\ ~acked =>
    LET k == req.key[1]
    IN  /\ queue[k] # <<>> /\ queue[k][Len(queue[k])] = Posted
        /\ \A j \in Pool : \A n \in 1..Len(queue[j]) :
             queue[j][n].live => j = k /\ n = Len(queue[k])

(* The safety half of RequestsFinish: no request holds the lock while the  *)
(* message it waits for is not there.                                      *)
THEOREM AckIsDue == Spec => []AckDue
<1>1. AllocationInv => AckDue
  <2> SUFFICES ASSUME AllocationInv, Awaiting, ~acked PROVE AckDue
    BY DEF AckDue
  <2> DEFINE q == queue[req.key[1]]
  <2>1. req.key[1] \in Pool /\ q \in Seq(Msg)
    BY RequestParts DEF Awaiting
  <2>2. Len(q) > 0 /\ q[Len(q)].live /\ Len(q) \in Nat
    BY <2>1, LenProperties DEF AllocationInv, OneWaits
  <2>3. Len(q) \in 1..Len(q) /\ q # <<>>
    BY <2>1, <2>2, EmptySeq
  <2>4. q[Len(q)] = Posted
    BY <2>1, <2>2, <2>3 DEF AllocationInv, OneWaits
  <2> QED BY <2>3, <2>4 DEF AckDue, AllocationInv, OneWaits
<1> QED
  BY <1>1, Invariance, PTL

-----------------------------------------------------------------------------
(* Every pooled socket keeps its promise *)

(* The tables of socket k as an instance of SessionRouting, the promise of *)
(* a pooled socket that PooledUdpProofs shows of the task with its flows;  *)
(* this module leaves the flows out, so none is ever open.                 *)
Socket(k) == INSTANCE SessionRouting WITH
  sessions <- sess[k], routes <- routes[k], flows <- EmptyMap(Addr)

(* A fresh pool has fresh tables on every socket. *)
LEMMA SocketInit == \A k \in Pool : Init => Socket(k)!Init
  BY DEF Init, Socket!Init, EmptyMap, Socket!EmptyMap

(* Requests and the HTTP layer touch no table; a task binds or unbinds one *)
(* session of its own socket, also when the sender is gone.                *)
LEMMA SocketNext ==
  ASSUME NEW k \in Pool, AllocationInv, [Next]_vars
  PROVE  [Socket(k)!Next]_(Socket(k)!vars)
<1>1. CASE UNCHANGED <<sess[k], routes[k]>>
  BY <1>1 DEF Socket!vars, EmptyMap
<1>2. CASE OnControl(k)
  <2> DEFINE q == queue[k]
             m == q[1]
             tb == Applied(k, m)
  <2>1. /\ m \in Msg /\ Head(q) = m /\ WellFormed(m)
        /\ m.sid \in Session /\ m.op \in {"add", "remove"}
    <3>1. m \in Msg /\ Head(q) = m /\ 1 \in 1..Len(q)
      BY <1>2, Taking DEF OnControl, AllocationInv, AllocationTypeOK
    <3> QED BY <3>1 DEF AllocationInv, RequestOK, Msg
  <2>2. sess'[k] = tb.sessions /\ routes'[k] = tb.routes
    BY <1>2, <2>1 DEF OnControl, AllocationInv, AllocationTypeOK
  <2>3. /\ sess[k] \in Map(Session, Ufrag) /\ routes[k] \in Map(Ufrag, Target)
        /\ \A v \in Ufrag : routes[k][v] # None <=> InUse(sess[k], v)
    BY DEF AllocationInv, AllocationTypeOK, TablesMatch
  <2>4. \A v \in Ufrag : v \in Socket(k)!Used' <=> InUse(sess'[k], v)
    BY DEF Socket!Used, InUse
  <2>5. Socket(k)!KeepRoutedFlows
    BY DEF Socket!KeepRoutedFlows, EmptyMap
  <2>6. CASE m.op = "add"
    <3>1. m.ufrag \in Ufrag /\ m.target \in Target
      BY <2>1, <2>6 DEF WellFormed
    <3>2. tb = AddRoute(sess[k], routes[k], m.sid, m.ufrag, m.target)
      BY <2>6 DEF Applied
    <3>3. TableBound(sess[k], routes[k], m.sid, m.ufrag, m.target, tb)
      BY <2>1, <2>3, <3>1, <3>2, AddRouteRoutes
    <3>4. Socket(k)!Bind(m.sid, m.ufrag, m.target)
      BY <2>2, <2>4, <2>5, <3>3 DEF Socket!Bind, TableBound
    <3> QED BY <2>1, <3>1, <3>4 DEF Socket!Next
  <2>7. CASE m.op = "remove"
    <3>1. tb = RemoveSession(sess[k], routes[k], m.sid)
      BY <2>7 DEF Applied
    <3>2. TableUnbound(sess[k], routes[k], m.sid, tb)
      BY <2>1, <2>3, <3>1, RemoveSessionRoutes
    <3>3. Socket(k)!Unbind(m.sid)
      BY <2>2, <2>4, <2>5, <3>2 DEF Socket!Unbind, TableUnbound
    <3> QED BY <2>1, <3>3 DEF Socket!Next
  <2> QED BY <2>1, <2>6, <2>7
<1>3. CASE \E j \in Pool : j # k /\ OnControl(j)
  <2>1. UNCHANGED <<sess[k], routes[k]>>
    BY <1>3 DEF OnControl, AllocationInv, AllocationTypeOK
  <2> QED BY <1>1, <2>1
<1>4. CASE UNCHANGED <<sess, routes>>
  BY <1>1, <1>4
<1>5. (\E j \in Pool : OnControl(j)) \/ UNCHANGED <<sess, routes>>
  BY DEF Next, vars, Allocate, Delete, Send, RouteAdded, AllocationAnswered,
         AllocationFails, DeleteAnswered, Cancel
<1> QED
  BY <1>2, <1>3, <1>4, <1>5

(* Whatever requests are made, dropped or fail, the tables of each pooled  *)
(* socket change by binding or unbinding one session at a time: a ufrag    *)
(* keeps its target while a session of that socket uses it.                *)
THEOREM SocketsRoute == ASSUME NEW k \in Pool PROVE Spec => Socket(k)!Spec
<1>1. Init => Socket(k)!Init
  BY SocketInit
<1>2. AllocationInv /\ [Next]_vars => [Socket(k)!Next]_(Socket(k)!vars)
  BY SocketNext
<1> QED
  BY <1>1, <1>2, Invariance, PTL DEF Spec, Socket!Spec
=============================================================================
