---------------------------- MODULE ManagerProofs ----------------------------
(***************************************************************************)
(* Proofs about ProxyManager, for any numbers of sessions, targets, ports  *)
(* and endpoint tasks, any number of tcp ports in an allocation and any    *)
(* capacity of the actor's channel.                                        *)
(*                                                                         *)
(* The argument: two tasks that are not gone never have the same port, so  *)
(* only a task that is gone, and whose entry is still there, could take    *)
(* the place of another in `known`.  The report of such a task is in the   *)
(* channel, and was there before the allocation that was told the port     *)
(* could end; requests hold the lock one after the other, so the report is *)
(* ahead of everything the next one sends.                                 *)
(***************************************************************************)
EXTENDS ProxyManager, ProxyLemmas

Alive(i) == phase[i] # "gone"

Name(q, e) == [proto |-> q, endp |-> e]

(* The report of an endpoint is in channel q. *)
Noted(q, it) == \E n \in 1..Len(q) : q[n].op = "ended" /\ q[n].item = it

(* It is, and ahead of what the request holding the lock sent. *)
Ahead(q, it) ==
  \E n \in 1..Len(q) : /\ q[n].op = "ended" /\ q[n].item = it
                       /\ \A m \in 1..Len(q) : q[m].live => n < m

(* The request that holds the lock has something to do. *)
RequestOK ==
  req # None => req.todo # <<>> /\ (req.sent => req.todo[1] # None)

(* A message somebody waits for is what the request sent, and it is not    *)
(* answered yet.                                                           *)
LiveOK ==
  \A n \in 1..Len(queue) : queue[n].live =>
    /\ req # None /\ req.sent /\ answer = None
    /\ queue[n].op = req.op /\ queue[n].item = req.todo[1]
    /\ \A m \in 1..Len(queue) : queue[m].live => m = n

(* An answer is for the request, and describes the task it names. *)
AnswerOK ==
  answer # None =>
    /\ req # None /\ req.sent
    /\ answer.ok => LET i == answer.inst
                    IN  /\ i \in Inst /\ answer.port \in Port
                        /\ proto[i] = req.todo[1].proto /\ endp[i] = req.todo[1].endp
                        /\ port[i] = answer.port

(* A task in the table is what its entry says, and was not killed. *)
EntriesOK ==
  \A q \in Proto, e \in Endpoint :
    LET i == proxies[q][e]
    IN  i # None => proto[i] = q /\ endp[i] = e /\ port[i] \in Port /\ ~killed[i]

(* A task that is not gone has a port of its own, has not reported, and is *)
(* in the table unless it was killed.                                      *)
TasksOK ==
  /\ \A i \in Inst : Alive(i) =>
       /\ proto[i] \in Proto /\ endp[i] \in Endpoint /\ port[i] \in Port
       /\ ~reported[i]
       /\ ~killed[i] => proxies[proto[i]][endp[i]] = i
  /\ \A i, j \in Inst :
       Alive(i) /\ Alive(j) /\ proto[i] = proto[j] /\ port[i] = port[j] => i = j

(* An entry whose task panicked is one of a session noted for it. *)
PanicsNoted ==
  \A q \in Proto, e \in Endpoint :
    LET i == proxies[q][e]
    IN  i # None /\ phase[i] = "gone" /\ ~Orderly(i) => e.sid \in panicked

(* A dead entry that once had the port of a task an allocation was told is *)
(* removed before the present request is handled.                          *)
StaleAhead ==
  \A i, j \in Inst, q \in Proto, e \in Endpoint :
    /\ told[i] /\ Alive(i) /\ proto[i] = q
    /\ proxies[q][e] = j /\ phase[j] = "gone" /\ Orderly(j) /\ port[i] = port[j]
    => Ahead(queue, Name(q, e))

(* An answer never has the port of another endpoint that was told it. *)
AnswerFresh ==
  answer # None /\ answer.ok =>
    LET j == answer.inst
    IN  \A i \in Inst :
          /\ i # j /\ told[i] /\ Alive(i) /\ Unambiguous(i)
          /\ proto[i] = proto[j] /\ endp[i].sid = endp[j].sid
          => port[i] # port[j]

(* The task a request wants deleted, while it is there and not killed. *)
Wanted(i) ==
  /\ req # None /\ req.op = "delete"
  /\ told[i] /\ <<port[i], endp[i].sid>> = req.key /\ Unambiguous(i) /\ ~Shadowed(i)
  /\ phase[i] = "serving" /\ ~killed[i]

(* A deletion names the task to delete, and once it is answered none is    *)
(* left.                                                                   *)
DeletionOK ==
  \A i \in Inst : Wanted(i) =>
    req.todo[1] = Name(proto[i], endp[i]) /\ answer = None

(* The inductive invariant. *)
ManagerInv ==
  /\ ManagerTypeOK
  /\ RequestOK
  /\ LiveOK
  /\ AnswerOK
  /\ EntriesOK
  /\ TasksOK
  /\ EndedEntriesReported
  /\ PanicsNoted
  /\ StaleAhead
  /\ AnswerFresh
  /\ ToldStaysKnown
  /\ DeletionOK

-----------------------------------------------------------------------------
(* The actor's channel *)

(* A message is about one endpoint. *)
LEMMA Names ==
  /\ \A it \in Item : /\ it.proto \in Proto /\ it.endp \in Endpoint
                      /\ it = Name(it.proto, it.endp)
  /\ \A q \in Proto, e \in Endpoint :
       /\ Name(q, e) \in Item /\ Name(q, e).proto = q /\ Name(q, e).endp = e
  BY DEF Item, Name

(* A send keeps the reports, and their places. *)
LEMMA SendKeeps ==
  ASSUME NEW q \in Seq(Msg), NEW m \in Msg
  PROVE  /\ Append(q, m) \in Seq(Msg) /\ Len(q) \in Nat /\ Len(Append(q, m)) = Len(q) + 1
         /\ \A n \in 1..(Len(q) + 1) : Append(q, m)[n] = IF n = Len(q) + 1 THEN m ELSE q[n]
         /\ \A it : Noted(q, it) => Noted(Append(q, m), it)
         /\ \A it : Ahead(q, it) => Ahead(Append(q, m), it)
         /\ m.op = "ended" => Noted(Append(q, m), m.item)
<1>1. /\ Append(q, m) \in Seq(Msg) /\ Len(q) \in Nat /\ Len(Append(q, m)) = Len(q) + 1
      /\ \A n \in 1..(Len(q) + 1) : Append(q, m)[n] = IF n = Len(q) + 1 THEN m ELSE q[n]
  BY Posting
<1> DEFINE p == Append(q, m)
<1> HIDE DEF p
<1>2. /\ Len(p) = Len(q) + 1 /\ p[Len(q) + 1] = m /\ Len(q) + 1 \in 1..Len(p)
      /\ \A n \in 1..Len(q) : n \in 1..Len(p) /\ p[n] = q[n]
      /\ \A n \in 1..Len(p) : n = Len(q) + 1 \/ n \in 1..Len(q)
  BY <1>1 DEF p
<1>3. \A it : Noted(q, it) => Noted(p, it)
  BY <1>2 DEF Noted
<1>4. ASSUME NEW it, Ahead(q, it) PROVE Ahead(p, it)
  <2>1. PICK n \in 1..Len(q) : /\ q[n].op = "ended" /\ q[n].item = it
                               /\ \A k \in 1..Len(q) : q[k].live => n < k
    BY <1>4 DEF Ahead
  <2>2. n < Len(q) + 1
    BY <1>1, <2>1
  <2> QED BY <1>2, <2>1, <2>2 DEF Ahead
<1>5. m.op = "ended" => Noted(p, m.item)
  BY <1>2 DEF Noted
<1> QED
  BY <1>1, <1>3, <1>4, <1>5 DEF p

(* A receive takes one message, and the others move up. *)
LEMMA TakeKeeps ==
  ASSUME NEW q \in Seq(Msg), q # <<>>
  PROVE  /\ Head(q) = q[1] /\ q[1] \in Msg /\ Len(q) \in Nat /\ 1 \in 1..Len(q)
         /\ Tail(q) \in Seq(Msg) /\ Len(Tail(q)) = Len(q) - 1
         /\ \A n \in 1..Len(Tail(q)) : n + 1 \in 1..Len(q) /\ Tail(q)[n] = q[n + 1]
         /\ \A it : Noted(q, it) => Noted(Tail(q), it) \/ (q[1].op = "ended" /\ q[1].item = it)
         /\ \A it : Ahead(q, it) => Ahead(Tail(q), it) \/ (q[1].op = "ended" /\ q[1].item = it)
         /\ \A it : Ahead(q, it) => ~q[1].live
<1> DEFINE p == Tail(q)
<1>1. /\ Head(q) = q[1] /\ q[1] \in Msg /\ Len(q) \in Nat /\ Len(q) >= 1
      /\ p \in Seq(Msg) /\ Len(p) = Len(q) - 1
      /\ \A n \in 1..(Len(q) - 1) : p[n] = q[n + 1]
  BY Taking
<1> HIDE DEF p
<1>2. /\ 1 \in 1..Len(q)
      /\ \A n \in 1..Len(p) : n + 1 \in 1..Len(q) /\ p[n] = q[n + 1]
      /\ \A n \in 1..Len(q) : n # 1 => n - 1 \in 1..Len(p) /\ p[n - 1] = q[n]
  BY <1>1
<1>3. \A it : Noted(q, it) => Noted(p, it) \/ (q[1].op = "ended" /\ q[1].item = it)
  BY <1>2 DEF Noted
<1>4. ASSUME NEW it, Ahead(q, it)
      PROVE  /\ Ahead(p, it) \/ (q[1].op = "ended" /\ q[1].item = it)
             /\ ~q[1].live
  <2>1. PICK n \in 1..Len(q) : /\ q[n].op = "ended" /\ q[n].item = it
                               /\ \A k \in 1..Len(q) : q[k].live => n < k
    BY <1>4 DEF Ahead
  <2>2. ~q[1].live
    BY <1>2, <2>1
  <2>3. CASE n # 1
    <3>1. n - 1 \in 1..Len(p) /\ p[n - 1] = q[n]
      BY <1>2, <2>3
    <3>2. ASSUME NEW k \in 1..Len(p), p[k].live PROVE n - 1 < k
      <4>1. k + 1 \in 1..Len(q) /\ p[k] = q[k + 1]
        BY <1>2
      <4>2. n < k + 1
        BY <2>1, <3>2, <4>1
      <4> QED BY <1>1, <4>2
    <3> QED BY <2>1, <2>2, <3>1, <3>2 DEF Ahead
  <2> QED BY <2>1, <2>2, <2>3
<1> QED
  BY <1>1, <1>2, <1>3, <1>4 DEF p

(* A channel nobody waits on: every report is ahead of any answer. *)
LEMMA NotedAhead ==
  ASSUME NEW q, \A n \in 1..Len(q) : ~q[n].live, NEW it, Noted(q, it)
  PROVE  Ahead(q, it)
  BY DEF Noted, Ahead

(* A dropped request leaves its messages, and nobody to answer. *)
LEMMA DropKeeps ==
  ASSUME NEW q \in Seq(Msg), NEW d,
         d = [n \in 1..Len(q) |-> [q[n] EXCEPT !.live = FALSE]]
  PROVE  /\ d \in Seq(Msg) /\ Len(d) = Len(q)
         /\ \A n \in 1..Len(d) : ~d[n].live
         /\ \A it : Noted(q, it) => Noted(d, it)
<1>1. Len(q) \in Nat /\ \A n \in 1..Len(q) : q[n] \in Msg
  BY LenProperties, ElementOfSeq
<1>2. \A n \in 1..Len(q) : /\ d[n] \in Msg /\ ~d[n].live
                           /\ d[n].op = q[n].op /\ d[n].item = q[n].item
  BY <1>1 DEF Msg
<1>3. d \in [1..Len(q) -> Msg]
  BY <1>2
<1>4. d \in Seq(Msg) /\ Len(d) = Len(q)
  BY <1>1, <1>3, SeqDef, LenProperties
<1> QED
  BY <1>2, <1>4 DEF Noted

-----------------------------------------------------------------------------
(* What a step keeps when it leaves the tasks and their table alone *)

(* The invariant reads as it did. *)
LEMMA TasksSame ==
  ASSUME ManagerInv, UNCHANGED <<taskVars, instVars, proxies, panicked>>
  PROVE  /\ EntriesOK' /\ TasksOK' /\ PanicsNoted'
         /\ phase' \in [Inst -> Phase] /\ killed' \in [Inst -> BOOLEAN]
         /\ reported' \in [Inst -> BOOLEAN]
         /\ proto' \in [Inst -> Proto \cup {None}] /\ endp' \in Map(Inst, Endpoint)
         /\ port' \in Map(Inst, Port)
         /\ proxies' \in [Proto -> Map(Endpoint, Inst)]
         /\ panicked' \subseteq Session
<1> USE DEF taskVars, instVars, ManagerInv
<1>1. EntriesOK' /\ TasksOK'
  BY DEF EntriesOK, TasksOK, Alive
<1>2. PanicsNoted'
  BY DEF PanicsNoted, Orderly
<1> QED
  BY <1>1, <1>2 DEF ManagerTypeOK, TaskTypeOK

(* Reports that stay in the channel go on standing for their entries. *)
LEMMA NotesKept ==
  ASSUME ManagerInv, UNCHANGED <<taskVars, instVars, proxies>>,
         \A q \in Proto, e \in Endpoint :
           proxies[q][e] # None /\ Noted(queue, Name(q, e)) => Noted(queue', Name(q, e))
  PROVE  EndedEntriesReported'
  BY DEF taskVars, instVars, ManagerInv, EndedEntriesReported, Orderly, Noted, Name

LEMMA StaleKept ==
  ASSUME ManagerInv, UNCHANGED <<taskVars, instVars, proxies, told>>,
         \A q \in Proto, e \in Endpoint :
           proxies[q][e] # None /\ Ahead(queue, Name(q, e)) => Ahead(queue', Name(q, e))
  PROVE  StaleAhead'
<1> SUFFICES ASSUME NEW i \in Inst, NEW j \in Inst, NEW q \in Proto, NEW e \in Endpoint,
                    (/\ told[i] /\ Alive(i) /\ proto[i] = q
                     /\ proxies[q][e] = j /\ phase[j] = "gone" /\ Orderly(j)
                     /\ port[i] = port[j])'
             PROVE  Ahead(queue', Name(q, e))
  BY DEF StaleAhead, Name
<1>1. /\ told[i] /\ Alive(i) /\ proto[i] = q
      /\ proxies[q][e] = j /\ phase[j] = "gone" /\ Orderly(j) /\ port[i] = port[j]
  BY DEF taskVars, instVars, Alive, Orderly
<1>2. j # None
  BY ManagerAssumption
<1> QED
  BY <1>1, <1>2 DEF ManagerInv, StaleAhead

(* What was told stays known. *)
LEMMA ToldKept ==
  ASSUME ManagerInv, UNCHANGED <<taskVars, instVars, known, told, panicked>>
  PROVE  ToldStaysKnown'
  BY DEF taskVars, instVars, ManagerInv, ToldStaysKnown, Unambiguous

(* The answer in the oneshot is still about the same request. *)
LEMMA FreshKept ==
  ASSUME ManagerInv, UNCHANGED <<taskVars, instVars, told, panicked, answer>>
  PROVE  AnswerFresh'
  BY DEF taskVars, instVars, ManagerInv, AnswerFresh, Unambiguous, Alive

-----------------------------------------------------------------------------
(* Requests *)

(* Without a request nobody waits for an answer. *)
LEMMA Unwatched ==
  ASSUME ManagerInv, req = None \/ ~req.sent \/ answer # None
  PROVE  /\ \A n \in 1..Len(queue) : ~queue[n].live
         /\ req = None \/ ~req.sent => answer = None
  BY DEF ManagerInv, LiveOK, AnswerOK

(* The request changes while nobody waits, and nothing else does. *)
LEMMA RequestInv ==
  ASSUME ManagerInv,
         UNCHANGED <<taskVars, instVars, proxies, known, queue, told, panicked>>,
         req = None \/ ~req.sent \/ answer # None,
         answer' = None, req' \in Request \cup {None}, RequestOK',
         \A i \in Inst : Wanted(i)' => req'.todo[1] = Name(proto[i], endp[i])
  PROVE  ManagerInv'
<1>1. \A n \in 1..Len(queue) : ~queue[n].live
  BY Unwatched
<1>2. ManagerTypeOK'
  BY TasksSame DEF ManagerInv, ManagerTypeOK, TaskTypeOK
<1>3. LiveOK' /\ AnswerOK' /\ AnswerFresh'
  BY <1>1 DEF LiveOK, AnswerOK, AnswerFresh
<1>4. EndedEntriesReported' /\ StaleAhead' /\ ToldStaysKnown'
  BY NotesKept, StaleKept, ToldKept
<1>5. DeletionOK'
  BY DEF DeletionOK, instVars
<1> QED
  BY <1>2, <1>3, <1>4, <1>5, TasksSame DEF ManagerInv

(* A list of creations is a list of items. *)
LEMMA TodoLists ==
  ASSUME NEW s \in Session, NEW t \in Target, NEW tcps \in TcpLists(s)
  PROVE  LET todo == <<[proto |-> "udp", endp |-> [sid |-> s, target |-> t]]>> \o tcps
         IN  todo \in Seq(Item \cup {None}) /\ todo # <<>>
<1> DEFINE it == [proto |-> "udp", endp |-> [sid |-> s, target |-> t]]
           one == <<it>>
<1>1. it \in Item
  BY DEF Item, Proto, Endpoint
<1>2. one \in Seq(Item \cup {None}) /\ Len(one) = 1
  BY <1>1
<1>3. PICK n \in 0..MaxTcp :
        tcps \in [1..n -> {[proto |-> "tcp", endp |-> [sid |-> s, target |-> u]] : u \in Target} \cup {None}]
  BY DEF TcpLists
<1>4. {[proto |-> "tcp", endp |-> [sid |-> s, target |-> u]] : u \in Target} \subseteq Item
  BY DEF Item, Proto, Endpoint
<1>5. n \in Nat /\ tcps \in [1..n -> Item \cup {None}]
  BY <1>3, <1>4, ManagerAssumption
<1>6. tcps \in Seq(Item \cup {None}) /\ Len(tcps) \in Nat
  BY <1>5, SeqDef, LenProperties
<1> HIDE DEF one
<1>7. one \o tcps \in Seq(Item \cup {None}) /\ Len(one \o tcps) = 1 + Len(tcps)
  BY <1>2, <1>6, ConcatProperties
<1>8. one \o tcps # <<>>
  BY <1>6, <1>7, EmptySeq
<1> QED
  BY <1>7, <1>8 DEF one

(* create_proxy takes the lock. *)
LEMMA AllocateInv ==
  ASSUME ManagerInv, NEW s \in Session, NEW t \in Target, NEW tcps \in TcpLists(s),
         Allocate(s, t, tcps)
  PROVE  ManagerInv'
<1> DEFINE todo == <<[proto |-> "udp", endp |-> [sid |-> s, target |-> t]]>> \o tcps
<1>1. todo \in Seq(Item \cup {None}) /\ todo # <<>>
  BY TodoLists
<1>2. /\ req = None /\ req' = [op |-> "create", key |-> None, sent |-> FALSE, todo |-> todo]
      /\ UNCHANGED <<taskVars, instVars, proxies, known, queue, answer, told, panicked>>
  BY DEF Allocate
<1> HIDE DEF todo
<1>3. answer' = None
  BY <1>2, Unwatched
<1>4. req' \in Request /\ req'.op = "create" /\ ~req'.sent /\ req'.todo = todo
  BY <1>1, <1>2 DEF Request
<1>5. RequestOK' /\ \A i \in Inst : ~Wanted(i)'
  BY <1>1, <1>4 DEF RequestOK, Wanted
<1> QED
  BY <1>2, <1>3, <1>4, <1>5, RequestInv

(* delete_proxy takes the lock: what it looks up is what was told. *)
LEMMA DeleteInv ==
  ASSUME ManagerInv, NEW k \in Key, Delete(k)
  PROVE  ManagerInv'
<1> DEFINE q == DeletedProto(k)
           e == known[q][k]
<1>1. q \in Proto /\ e \in Endpoint /\ e # None
  BY DEF DeletedProto, Proto, Delete, ManagerInv, ManagerTypeOK, Map
<1>2. q = IF known["udp"][k] # None THEN "udp" ELSE "tcp"
  BY DEF DeletedProto
<1>3. /\ req = None
      /\ req' = [op |-> "delete", key |-> k, sent |-> FALSE, todo |-> <<Name(q, e)>>]
      /\ UNCHANGED <<taskVars, instVars, proxies, known, queue, answer, told, panicked>>
  BY DEF Delete, Name
<1> HIDE DEF q, e
<1>4. answer' = None
  BY <1>3, Unwatched
<1>5. <<Name(q, e)>> \in Seq(Item \cup {None}) /\ <<Name(q, e)>> # <<>> /\ <<Name(q, e)>>[1] = Name(q, e)
  BY <1>1, Names
<1>6. /\ req' \in Request /\ req'.op = "delete" /\ ~req'.sent /\ req'.key = k
      /\ req'.todo = <<Name(q, e)>>
  BY <1>3, <1>5 DEF Request
<1>7. RequestOK'
  BY <1>5, <1>6 DEF RequestOK
<1>8. ASSUME NEW i \in Inst, Wanted(i)'
      PROVE  req'.todo[1] = Name(proto[i], endp[i])
  <2>1. /\ told[i] /\ <<port[i], endp[i].sid>> = k /\ Unambiguous(i)
        /\ ~Shadowed(i) /\ phase[i] = "serving" /\ ~killed[i]
    BY <1>3, <1>6, <1>8 DEF Wanted, Unambiguous, Shadowed, taskVars, instVars
  <2>2. known[proto[i]][k] = endp[i]
    BY <2>1 DEF ManagerInv, ToldStaysKnown
  <2>3. endp[i] \in Endpoint /\ endp[i] # None
    BY <2>1, ManagerAssumption DEF ManagerInv, TasksOK, Alive
  <2>4. proto[i] = q
    <3>1. proto[i] \in {"udp", "tcp"}
      BY <2>1 DEF ManagerInv, TasksOK, Alive, Proto
    <3>2. CASE proto[i] = "udp"
      BY <1>2, <2>2, <2>3, <3>2
    <3>3. CASE proto[i] = "tcp"
      BY <1>2, <2>1, <3>3 DEF Shadowed
    <3> QED BY <3>1, <3>2, <3>3
  <2> QED BY <1>5, <1>6, <2>2, <2>4 DEF e
<1> QED
  BY <1>3, <1>4, <1>6, <1>7, <1>8, RequestInv

(* The request is over, without or with an answer. *)
LEMMA RequestEndsInv ==
  ASSUME ManagerInv, ParseFails \/ RequestOver
  PROVE  ManagerInv'
<1>1. /\ req = None \/ ~req.sent \/ answer # None
      /\ req' = None /\ answer' = None
      /\ UNCHANGED <<taskVars, instVars, proxies, known, queue, told, panicked>>
  <2>1. CASE ParseFails
    BY <2>1, Unwatched DEF ParseFails
  <2>2. CASE RequestOver
    BY <2>2 DEF RequestOver, Answered
  <2> QED BY <2>1, <2>2
<1>2. RequestOK' /\ \A i \in Inst : ~Wanted(i)'
  BY <1>1 DEF RequestOK, Wanted
<1> QED
  BY <1>1, <1>2, RequestInv

(* What the request holding the lock is made of. *)
LEMMA RequestParts ==
  ASSUME ManagerInv, req # None
  PROVE  /\ req \in Request /\ req.op \in {"create", "delete"} /\ req.sent \in BOOLEAN
         /\ req.todo \in Seq(Item \cup {None}) /\ req.todo # <<>>
         /\ Head(req.todo) = req.todo[1] /\ req.todo[1] \in Item \cup {None}
         /\ req.sent => req.todo[1] \in Item
<1>1. /\ req \in Request /\ req.op \in {"create", "delete"} /\ req.sent \in BOOLEAN
      /\ req.todo \in Seq(Item \cup {None})
  BY DEF ManagerInv, ManagerTypeOK, Request
<1>2. req.todo # <<>> /\ (req.sent => req.todo[1] # None)
  BY DEF ManagerInv, RequestOK
<1>3. Head(req.todo) = req.todo[1] /\ req.todo[1] \in Item \cup {None}
  BY <1>1, <1>2, Taking
<1> QED
  BY <1>1, <1>2, <1>3

(* self.tx.send(...) of a request. *)
LEMMA SendRequestInv == ASSUME ManagerInv, SendRequest PROVE ManagerInv'
<1> DEFINE m == [op |-> req.op, item |-> req.todo[1], live |-> TRUE]
<1>1. /\ req # None /\ ~req.sent /\ req.todo[1] \in Item /\ req.todo[1] # None
      /\ Len(queue) < QCap
      /\ queue' = Append(queue, m) /\ req' = [req EXCEPT !.sent = TRUE]
      /\ UNCHANGED <<taskVars, instVars, proxies, known, answer, told, panicked>>
  BY RequestParts DEF SendRequest
<1>2. m \in Msg /\ m.live /\ m.op = req.op /\ m.item = req.todo[1] /\ queue \in Seq(Msg)
  BY <1>1, RequestParts DEF Msg, ManagerInv, ManagerTypeOK
<1> HIDE DEF m
<1>3. /\ queue' \in Seq(Msg) /\ Len(queue) \in Nat /\ Len(queue') = Len(queue) + 1
      /\ \A n \in 1..(Len(queue) + 1) : queue'[n] = IF n = Len(queue) + 1 THEN m ELSE queue[n]
      /\ \A it : Noted(queue, it) => Noted(queue', it)
      /\ \A it : Ahead(queue, it) => Ahead(queue', it)
  BY <1>1, <1>2, SendKeeps
<1>4. Len(queue') <= QCap
  BY <1>1, <1>3, ManagerAssumption
<1>5. /\ req' \in Request /\ req' # None /\ req'.sent /\ req'.op = req.op
      /\ req'.todo = req.todo /\ req'.key = req.key
  BY <1>1, RequestParts, ManagerAssumption DEF Request
<1>6. answer = None /\ answer' = None /\ \A n \in 1..Len(queue) : ~queue[n].live
  BY <1>1, Unwatched
<1>7. ManagerTypeOK'
  BY <1>1, <1>3, <1>4, <1>5, TasksSame DEF ManagerInv, ManagerTypeOK, TaskTypeOK
<1>8. RequestOK'
  BY <1>1, <1>5, RequestParts DEF RequestOK
<1>9. LiveOK'
  <2>1. \A n \in 1..Len(queue') : queue'[n].live => n = Len(queue) + 1 /\ queue'[n] = m
    BY <1>3, <1>6
  <2> QED BY <1>2, <1>5, <1>6, <2>1 DEF LiveOK
<1>10. AnswerOK' /\ AnswerFresh'
  BY <1>6 DEF AnswerOK, AnswerFresh
<1>11. EndedEntriesReported' /\ StaleAhead' /\ ToldStaysKnown'
  BY <1>1, <1>3, NotesKept, StaleKept, ToldKept
<1>12. DeletionOK'
  <2>1. \A i \in Inst : Wanted(i)' => Wanted(i)
    BY <1>1, <1>5 DEF Wanted, Unambiguous, Shadowed, taskVars, instVars
  <2> QED BY <1>1, <1>5, <1>6, <2>1 DEF DeletionOK, ManagerInv, instVars
<1> QED
  BY <1>1, <1>7, <1>8, <1>9, <1>10, <1>11, <1>12, TasksSame DEF ManagerInv

(* The HTTP layer drops the request. *)
LEMMA CancelInv == ASSUME ManagerInv, Cancel PROVE ManagerInv'
<1>1. /\ req' = None /\ answer' = None
      /\ queue' = [n \in 1..Len(queue) |-> [queue[n] EXCEPT !.live = FALSE]]
      /\ UNCHANGED <<taskVars, instVars, proxies, known, told, panicked>>
  BY DEF Cancel
<1>2. queue \in Seq(Msg) /\ Len(queue) <= QCap
  BY DEF ManagerInv, ManagerTypeOK
<1>3. /\ queue' \in Seq(Msg) /\ Len(queue') = Len(queue)
      /\ \A n \in 1..Len(queue') : ~queue'[n].live
      /\ \A it : Noted(queue, it) => Noted(queue', it)
  BY <1>1, <1>2, DropKeeps
<1>4. \A it : Ahead(queue, it) => Ahead(queue', it)
  <2>1. \A it : Ahead(queue, it) => Noted(queue, it)
    BY DEF Ahead, Noted
  <2> QED BY <1>3, <2>1, NotedAhead
<1>5. ManagerTypeOK'
  BY <1>1, <1>2, <1>3, TasksSame DEF ManagerInv, ManagerTypeOK, TaskTypeOK
<1>6. RequestOK' /\ LiveOK' /\ AnswerOK' /\ AnswerFresh' /\ DeletionOK'
  BY <1>1, <1>3 DEF RequestOK, LiveOK, AnswerOK, AnswerFresh, DeletionOK, Wanted
<1>7. EndedEntriesReported' /\ StaleAhead' /\ ToldStaysKnown'
  BY <1>1, <1>3, <1>4, NotesKept, StaleKept, ToldKept
<1> QED
  BY <1>1, <1>5, <1>6, <1>7, TasksSame DEF ManagerInv

(* A creation succeeded: the port enters `known`, and takes nobody's place *)
(* there that was told it.                                                 *)
LEMMA CreateAnsweredInv == ASSUME ManagerInv, CreateAnswered PROVE ManagerInv'
<1> DEFINE it == req.todo[1]
           j == answer.inst
           p == answer.port
           k == <<p, it.endp.sid>>
<1>1. /\ req # None /\ req.sent /\ req.op = "create" /\ answer # None /\ answer.ok
      /\ answer' = None
      /\ UNCHANGED <<taskVars, instVars, proxies, queue, panicked>>
  BY DEF CreateAnswered, Answered
<1>2. /\ it \in Item /\ Head(req.todo) = it /\ it.proto \in Proto /\ it.endp \in Endpoint
      /\ it.endp.sid \in Session
  BY <1>1, RequestParts, Names DEF Endpoint
<1>3. /\ j \in Inst /\ p \in Port /\ proto[j] = it.proto /\ endp[j] = it.endp /\ port[j] = p
      /\ k \in Key
  BY <1>1, <1>2 DEF ManagerInv, AnswerOK, Key
<1>4. /\ known' \in [Proto -> Map(Key, Endpoint)]
      /\ \A q \in Proto, x \in Key :
           known'[q][x] = IF q = it.proto /\ x = k THEN it.endp ELSE known[q][x]
  <2>1. known' = [known EXCEPT ![it.proto][k] = it.endp]
    BY <1>2 DEF CreateAnswered, Remember
  <2>2. known \in [Proto -> Map(Key, Endpoint)]
    BY DEF ManagerInv, ManagerTypeOK
  <2> HIDE DEF k, it
  <2> QED BY <1>2, <1>3, <2>1, <2>2 DEF Map
<1>5. told' \in [Inst -> BOOLEAN] /\ \A i \in Inst : told'[i] = (told[i] \/ i = j)
  BY <1>3 DEF CreateAnswered, ManagerInv, ManagerTypeOK
<1>6. /\ req' \in Request \cup {None} /\ (req' # None => req'.op = "create" /\ ~req'.sent)
      /\ RequestOK'
  <2>1. CASE Len(req.todo) = 1
    BY <2>1 DEF CreateAnswered, RequestOK
  <2>2. CASE Len(req.todo) # 1
    <3>1. req' = [req EXCEPT !.todo = Tail(req.todo), !.sent = FALSE]
      BY <2>2 DEF CreateAnswered
    <3>2. /\ Tail(req.todo) \in Seq(Item \cup {None})
          /\ Len(req.todo) \in Nat /\ Len(req.todo) >= 1 /\ Len(Tail(req.todo)) = Len(req.todo) - 1
      BY <1>1, RequestParts, Taking
    <3>3. Tail(req.todo) # <<>>
      <4>1. Len(Tail(req.todo)) # 0
        BY <2>2, <3>2
      <4>2. Len(<<>>) = 0
        BY EmptySeq
      <4> QED BY <4>1, <4>2, Zenon
    <3>4. req' \in Request /\ req'.op = "create" /\ ~req'.sent /\ req'.todo = Tail(req.todo)
      BY <1>1, <3>1, <3>2, RequestParts DEF Request
    <3> QED BY <3>3, <3>4 DEF RequestOK
  <2> QED BY <2>1, <2>2
<1>7. \A n \in 1..Len(queue) : ~queue[n].live
  BY <1>1, Unwatched
<1> HIDE DEF it, j, p, k
<1>8. ManagerTypeOK'
  BY <1>1, <1>4, <1>5, <1>6, TasksSame DEF ManagerInv, ManagerTypeOK, TaskTypeOK
<1>9. LiveOK' /\ AnswerOK' /\ AnswerFresh'
  BY <1>1, <1>7 DEF LiveOK, AnswerOK, AnswerFresh
<1>10. DeletionOK'
  BY <1>6 DEF DeletionOK, Wanted
<1>11. EndedEntriesReported'
  BY <1>1, NotesKept
<1>12. StaleAhead'
  <2>1. ASSUME NEW q \in Proto, NEW e \in Endpoint, NEW i \in Inst,
               proxies[q][e] = i, phase[i] = "gone", Orderly(i)
        PROVE  Ahead(queue, Name(q, e))
    <3>1. Noted(queue, Name(q, e))
      BY <2>1, ManagerAssumption DEF ManagerInv, EndedEntriesReported, Noted, Name
    <3> QED BY <1>7, <3>1, NotedAhead
  <2>2. queue' = queue /\ proxies' = proxies /\ phase' = phase /\ \A i : Orderly(i)' = Orderly(i)
    BY <1>1 DEF Orderly, taskVars, instVars
  <2> HIDE DEF Orderly
  <2> QED BY <2>1, <2>2 DEF StaleAhead, Name
<1>13. ToldStaysKnown'
  <2>1. SUFFICES ASSUME NEW i \in Inst, told'[i], phase[i] = "serving", ~killed[i], Unambiguous(i)
                 PROVE  known'[proto[i]][<<port[i], endp[i].sid>>] = endp[i]
    BY <1>1 DEF ToldStaysKnown, Unambiguous, taskVars, instVars
  <2>2. /\ proto[i] \in Proto /\ endp[i] \in Endpoint /\ port[i] \in Port
        /\ <<port[i], endp[i].sid>> \in Key
    BY <2>1 DEF ManagerInv, TasksOK, Alive, Key, Endpoint
  <2>3. CASE i = j
    BY <1>3, <1>4, <2>2, <2>3 DEF k
  <2>4. CASE i # j
    <3>1. told[i] /\ Alive(i)
      BY <1>5, <2>1, <2>4 DEF Alive
    <3>2. known[proto[i]][<<port[i], endp[i].sid>>] = endp[i]
      BY <2>1, <3>1 DEF ManagerInv, ToldStaysKnown
    <3>3. ~(proto[i] = proto[j] /\ endp[i].sid = endp[j].sid /\ port[i] = port[j])
      BY <1>1, <2>1, <2>4, <3>1 DEF ManagerInv, AnswerFresh, j
    <3>4. ~(proto[i] = it.proto /\ <<port[i], endp[i].sid>> = k)
      BY <1>3, <3>3 DEF k
    <3> QED BY <1>4, <2>2, <3>2, <3>4
  <2> QED BY <2>3, <2>4
<1> QED
  BY <1>1, <1>6, <1>8, <1>9, <1>10, <1>11, <1>12, <1>13, TasksSame DEF ManagerInv

-----------------------------------------------------------------------------
(* The actor *)

(* What the message being handled says, and of whom. *)
LEMMA FirstParts ==
  ASSUME ManagerInv, queue # <<>>
  PROVE  /\ First = queue[1] /\ First \in Msg /\ First.item \in Item
         /\ First.item.proto \in Proto /\ First.item.endp \in Endpoint
         /\ First.item = Name(First.item.proto, First.item.endp)
         /\ Entry # None => /\ Entry \in Inst /\ proto[Entry] = First.item.proto
                            /\ endp[Entry] = First.item.endp /\ port[Entry] \in Port
                            /\ ~killed[Entry]
         /\ First.live => /\ req # None /\ req.sent /\ answer = None
                          /\ First.op = req.op /\ First.item = req.todo[1]
                          /\ First.op # "ended"
<1>1. queue \in Seq(Msg)
  BY DEF ManagerInv, ManagerTypeOK
<1>2. First = queue[1] /\ First \in Msg /\ 1 \in 1..Len(queue)
  BY <1>1, TakeKeeps DEF First
<1>3. /\ First.item \in Item /\ First.item.proto \in Proto /\ First.item.endp \in Endpoint
      /\ First.item = Name(First.item.proto, First.item.endp)
  BY <1>2, Names DEF Msg
<1>4. Entry # None => /\ Entry \in Inst /\ proto[Entry] = First.item.proto
                      /\ endp[Entry] = First.item.endp /\ port[Entry] \in Port
                      /\ ~killed[Entry]
  BY <1>3 DEF Entry, ManagerInv, ManagerTypeOK, EntriesOK, Map
<1>5. First.live => /\ req # None /\ req.sent /\ answer = None
                    /\ First.op = req.op /\ First.item = req.todo[1]
  BY <1>2 DEF ManagerInv, LiveOK
<1>6. First.live => First.op # "ended"
  BY <1>5, RequestParts
<1> QED
  BY <1>2, <1>3, <1>4, <1>5, <1>6

(* Taking it: the other messages are still there. *)
LEMMA TakeFirst ==
  ASSUME ManagerInv, queue # <<>>, queue' = Tail(queue), UNCHANGED req,
         answer' = answer \/ First.live
  PROVE  /\ queue' \in Seq(Msg) /\ Len(queue') <= QCap /\ LiveOK'
         /\ \A it : Noted(queue, it) =>
              Noted(queue', it) \/ (First.op = "ended" /\ First.item = it)
         /\ \A it : Ahead(queue, it) =>
              Ahead(queue', it) \/ (First.op = "ended" /\ First.item = it)
         /\ \A it : Ahead(queue, it) => ~First.live
<1>1. queue \in Seq(Msg) /\ Len(queue) <= QCap
  BY DEF ManagerInv, ManagerTypeOK
<1>2. /\ First = queue[1] /\ Len(queue) \in Nat /\ 1 \in 1..Len(queue)
      /\ queue' \in Seq(Msg) /\ Len(queue') = Len(queue) - 1
      /\ \A n \in 1..Len(queue') : n + 1 \in 1..Len(queue) /\ queue'[n] = queue[n + 1]
      /\ \A it : Noted(queue, it) =>
           Noted(queue', it) \/ (First.op = "ended" /\ First.item = it)
      /\ \A it : Ahead(queue, it) =>
           Ahead(queue', it) \/ (First.op = "ended" /\ First.item = it)
      /\ \A it : Ahead(queue, it) => ~First.live
  BY <1>1, TakeKeeps DEF First
<1>3. Len(queue') <= QCap
  BY <1>1, <1>2, ManagerAssumption
<1>4. LiveOK'
  <2>1. SUFFICES ASSUME NEW n \in 1..Len(queue'), queue'[n].live
                 PROVE  /\ req # None /\ req.sent /\ answer' = None
                        /\ queue'[n].op = req.op /\ queue'[n].item = req.todo[1]
                        /\ \A m \in 1..Len(queue') : queue'[m].live => m = n
    BY DEF LiveOK
  <2>2. n + 1 \in 1..Len(queue) /\ queue'[n] = queue[n + 1] /\ queue[n + 1].live
    BY <1>2, <2>1
  <2>3. /\ req # None /\ req.sent /\ answer = None
        /\ queue[n + 1].op = req.op /\ queue[n + 1].item = req.todo[1]
        /\ \A m \in 1..Len(queue) : queue[m].live => m = n + 1
    BY <2>2 DEF ManagerInv, LiveOK
  <2>4. ~First.live
    <3>1. 1 # n + 1
      BY <1>2
    <3> QED BY <1>2, <2>3, <3>1
  <2>5. \A m \in 1..Len(queue') : queue'[m].live => m = n
    BY <1>2, <2>3
  <2> QED BY <2>2, <2>3, <2>4, <2>5
<1> QED
  BY <1>2, <1>3, <1>4

(* A message is handled that changes no task: it may be answered, if the   *)
(* answer is in order.                                                     *)
LEMMA AnswerInv ==
  ASSUME ManagerInv, queue # <<>>, queue' = Tail(queue),
         UNCHANGED <<taskVars, instVars, proxies, known, req, told, panicked>>,
         First.op # "ended" \/ Entry = None,
         \/ answer' = answer
         \/ /\ First.live /\ answer' \in Answer /\ AnswerOK' /\ AnswerFresh'
            /\ \A i \in Inst : ~Wanted(i)
  PROVE  ManagerInv'
<1>1. /\ queue' \in Seq(Msg) /\ Len(queue') <= QCap /\ LiveOK'
      /\ \A it : Noted(queue, it) =>
           Noted(queue', it) \/ (First.op = "ended" /\ First.item = it)
      /\ \A it : Ahead(queue, it) =>
           Ahead(queue', it) \/ (First.op = "ended" /\ First.item = it)
  BY TakeFirst
<1>2. ASSUME NEW q \in Proto, NEW e \in Endpoint, proxies[q][e] # None
      PROVE  ~(First.op = "ended" /\ First.item = Name(q, e))
  <2>1. First.item = Name(q, e) => First.item.proto = q /\ First.item.endp = e
    BY Names
  <2> QED BY <1>2, <2>1 DEF Entry
<1>3. EndedEntriesReported' /\ StaleAhead' /\ ToldStaysKnown'
  BY <1>1, <1>2, NotesKept, StaleKept, ToldKept
<1>4. answer' \in Answer \cup {None} /\ AnswerOK' /\ AnswerFresh'
  <2>1. CASE answer' = answer
    BY <2>1, FreshKept DEF ManagerInv, ManagerTypeOK, AnswerOK, instVars
  <2>2. CASE First.live /\ answer' \in Answer /\ AnswerOK' /\ AnswerFresh'
    BY <2>2
  <2> QED BY <2>1, <2>2
<1>5. ManagerTypeOK'
  BY <1>1, <1>4, TasksSame DEF ManagerInv, ManagerTypeOK, TaskTypeOK
<1>6. RequestOK'
  BY DEF ManagerInv, RequestOK
<1>7. DeletionOK'
  <2>1. \A i \in Inst : Wanted(i)' => Wanted(i)
    BY DEF Wanted, Unambiguous, Shadowed, taskVars, instVars
  <2> QED BY <2>1 DEF ManagerInv, DeletionOK, instVars
<1> QED
  BY <1>1, <1>3, <1>4, <1>5, <1>6, <1>7, TasksSame DEF ManagerInv

(* A creation that fails. *)
LEMMA RefusalOK ==
  ASSUME ManagerInv, queue # <<>>, First.live, UNCHANGED req, answer' = Refusal
  PROVE  answer' \in Answer /\ AnswerOK' /\ AnswerFresh'
<1>1. answer' \in Answer /\ ~answer'.ok
  BY DEF Refusal, Answer
<1> QED
  BY <1>1, FirstParts DEF AnswerOK, AnswerFresh

LEMMA CreateFailsInv == ASSUME ManagerInv, CreateFails PROVE ManagerInv'
<1>1. /\ queue # <<>> /\ queue' = Tail(queue) /\ First.op = "create"
      /\ UNCHANGED <<taskVars, instVars, proxies, known, req, told, panicked>>
      /\ answer' = IF First.live THEN Refusal ELSE answer
  BY DEF CreateFails, Take, Respond
<1>2. First.live => \A i \in Inst : ~Wanted(i)
  BY <1>1, FirstParts DEF Wanted
<1> QED
  BY <1>1, <1>2, RefusalOK, AnswerInv

(* A creation answered from an entry.  If its task is gone the port may be *)
(* another's by now, but not that of an endpoint an allocation was told:   *)
(* the report of the dead task would have been handled first.              *)
LEMMA CreateOccupiedInv == ASSUME ManagerInv, CreateOccupied PROVE ManagerInv'
<1> DEFINE j == Entry
           a == [ok |-> TRUE, inst |-> j, port |-> port[j]]
<1>1. /\ queue # <<>> /\ queue' = Tail(queue) /\ First.op = "create" /\ j # None
      /\ UNCHANGED <<taskVars, instVars, proxies, known, req, told, panicked>>
      /\ answer' = IF First.live THEN a ELSE answer
  BY DEF CreateOccupied, Take, Respond
<1>2. First.live => \A i \in Inst : ~Wanted(i)
  BY <1>1, FirstParts DEF Wanted
<1>3. ASSUME First.live
      PROVE  answer' \in Answer /\ AnswerOK' /\ AnswerFresh'
  <2>1. /\ j \in Inst /\ proto[j] = First.item.proto /\ endp[j] = First.item.endp
        /\ port[j] \in Port /\ First.item = req.todo[1] /\ req # None /\ req.sent
        /\ proto[j] \in Proto /\ endp[j] \in Endpoint
        /\ First.item = Name(proto[j], endp[j])
    BY <1>1, <1>3, FirstParts
  <2>2. proxies[proto[j]][endp[j]] = j
    BY <2>1 DEF Entry
  <2> HIDE DEF j
  <2>3. answer' = a /\ a \in Answer /\ a.ok /\ a.inst = j /\ a.port = port[j]
    BY <1>1, <1>3, <2>1 DEF Answer
  <2>4. AnswerOK'
    BY <1>1, <2>1, <2>3 DEF AnswerOK, instVars
  <2>5. ASSUME NEW i \in Inst, i # j, told[i], Alive(i), Unambiguous(i),
               proto[i] = proto[j], endp[i].sid = endp[j].sid, port[i] = port[j]
        PROVE  FALSE
    <3>1. phase[j] = "gone"
      BY <2>1, <2>5 DEF ManagerInv, TasksOK, Alive
    <3>2. CASE Orderly(j)
      <4>1. Ahead(queue, Name(proto[j], endp[j]))
        BY <2>1, <2>2, <2>5, <3>1, <3>2 DEF ManagerInv, StaleAhead
      <4> QED BY <1>1, <1>3, <4>1, TakeFirst
    <3>3. CASE ~Orderly(j)
      <4>1. endp[j].sid \in panicked /\ proto[j] # "udp"
        BY <2>1, <2>2, <3>1, <3>3, ManagerAssumption DEF ManagerInv, PanicsNoted, Orderly
      <4> QED BY <2>5, <4>1 DEF Unambiguous
    <3> QED BY <3>2, <3>3
  <2>6. AnswerFresh'
    BY <1>1, <2>3, <2>5 DEF AnswerFresh, Alive, Unambiguous, taskVars, instVars
  <2> QED BY <2>3, <2>4, <2>6
<1> HIDE DEF j, a
<1> QED
  BY <1>1, <1>2, <1>3, AnswerInv

(* An entry is removed and its task killed, for a deletion or for a report. *)
LEMMA EvictInv ==
  ASSUME ManagerInv, queue # <<>>, queue' = Tail(queue), Evict,
         UNCHANGED <<instVars, known, req, told, panicked>>,
         answer' = answer \/ (First.live /\ answer' = Refusal)
  PROVE  ManagerInv'
<1> DEFINE c == Entry
           q0 == First.item.proto
           e0 == First.item.endp
<1>1. /\ q0 \in Proto /\ e0 \in Endpoint /\ First.item = Name(q0, e0)
      /\ c # None /\ c \in Inst /\ proto[c] = q0 /\ endp[c] = e0 /\ proxies[q0][e0] = c
  BY FirstParts DEF Evict, Entry
<1>2. /\ killed' \in [Inst -> BOOLEAN] /\ \A i \in Inst : killed'[i] = (killed[i] \/ i = c)
      /\ UNCHANGED <<phase, reported>>
  BY <1>1 DEF Evict, Kill, ManagerInv, ManagerTypeOK, TaskTypeOK
<1>3. /\ proxies' \in [Proto -> Map(Endpoint, Inst)]
      /\ \A q \in Proto, e \in Endpoint :
           proxies'[q][e] = IF q = q0 /\ e = e0 THEN None ELSE proxies[q][e]
  <2>1. proxies' = [proxies EXCEPT ![q0][e0] = None] /\ proxies \in [Proto -> Map(Endpoint, Inst)]
    BY DEF Evict, ManagerInv, ManagerTypeOK
  <2> HIDE DEF q0, e0
  <2> QED BY <1>1, <2>1 DEF Map
<1>4. /\ queue' \in Seq(Msg) /\ Len(queue') <= QCap /\ LiveOK'
      /\ \A it : Noted(queue, it) =>
           Noted(queue', it) \/ (First.op = "ended" /\ First.item = it)
      /\ \A it : Ahead(queue, it) =>
           Ahead(queue', it) \/ (First.op = "ended" /\ First.item = it)
  BY TakeFirst
<1> HIDE DEF c, q0, e0
<1>5. ASSUME NEW q \in Proto, NEW e \in Endpoint, proxies'[q][e] # None
      PROVE  /\ proxies'[q][e] = proxies[q][e] /\ proxies[q][e] # c
             /\ ~(q = q0 /\ e = e0) /\ First.item # Name(q, e)
  <2>1. ~(q = q0 /\ e = e0) /\ proxies'[q][e] = proxies[q][e]
    BY <1>3, <1>5
  <2>2. proto[proxies[q][e]] = q /\ endp[proxies[q][e]] = e
    BY <1>5, <2>1 DEF ManagerInv, EntriesOK
  <2>3. First.item # Name(q, e)
    BY <1>1, <2>1, Names
  <2> QED BY <1>1, <2>1, <2>2, <2>3
<1>6. \A q \in Proto, e \in Endpoint : proxies'[q][e] # None => proxies'[q][e] \in Inst
  BY <1>3 DEF Map
<1>7. EntriesOK'
  BY <1>2, <1>5, <1>6 DEF ManagerInv, EntriesOK, instVars
<1>8. TasksOK'
  <2>1. ASSUME NEW i \in Inst, Alive(i), ~killed'[i]
        PROVE  proxies'[proto[i]][endp[i]] = i
    <3>1. i # c /\ ~killed[i]
      BY <1>2, <2>1
    <3>2. /\ proto[i] \in Proto /\ endp[i] \in Endpoint /\ proxies[proto[i]][endp[i]] = i
      BY <2>1, <3>1 DEF ManagerInv, TasksOK
    <3> QED BY <1>1, <1>3, <3>1, <3>2
  <2> QED BY <1>2, <2>1 DEF ManagerInv, TasksOK, Alive, instVars
<1>9. EndedEntriesReported'
  <2>1. SUFFICES ASSUME NEW q \in Proto, NEW e \in Endpoint, proxies'[q][e] # None,
                        phase[proxies'[q][e]] = "gone", Orderly(proxies'[q][e])
                 PROVE  Noted(queue', Name(q, e))
    BY <1>2 DEF EndedEntriesReported, Orderly, instVars, Noted, Name
  <2>2. Noted(queue, Name(q, e))
    BY <1>5, <2>1 DEF ManagerInv, EndedEntriesReported, Noted, Name
  <2> QED BY <1>4, <1>5, <2>1, <2>2
<1>10. PanicsNoted'
  BY <1>2, <1>5 DEF ManagerInv, PanicsNoted, Orderly, instVars
<1>11. StaleAhead'
  <2>1. SUFFICES ASSUME NEW i \in Inst, NEW j \in Inst, NEW q \in Proto, NEW e \in Endpoint,
                        told[i], Alive(i), proto[i] = q, proxies'[q][e] = j,
                        phase[j] = "gone", Orderly(j), port[i] = port[j]
                 PROVE  Ahead(queue', Name(q, e))
    BY <1>2 DEF StaleAhead, Orderly, Alive, instVars, Name
  <2>2. proxies'[q][e] # None
    BY <2>1, ManagerAssumption
  <2>3. Ahead(queue, Name(q, e))
    BY <1>5, <2>1, <2>2 DEF ManagerInv, StaleAhead
  <2> QED BY <1>4, <1>5, <2>2, <2>3
<1>12. answer' \in Answer \cup {None} /\ AnswerOK' /\ AnswerFresh'
  <2>1. CASE answer' = answer
    BY <1>2, <2>1
    DEF ManagerInv, ManagerTypeOK, AnswerOK, AnswerFresh, Alive, Unambiguous, instVars
  <2>2. CASE First.live /\ answer' = Refusal
    BY <2>2, RefusalOK
  <2> QED BY <2>1, <2>2
<1>13. ManagerTypeOK'
  BY <1>2, <1>3, <1>4, <1>12 DEF ManagerInv, ManagerTypeOK, TaskTypeOK, instVars
<1>14. RequestOK' /\ ToldStaysKnown'
  BY <1>2 DEF ManagerInv, RequestOK, ToldStaysKnown, Unambiguous, instVars
<1>15. DeletionOK'
  <2>1. SUFFICES ASSUME NEW i \in Inst, Wanted(i)'
                 PROVE  req.todo[1] = Name(proto[i], endp[i]) /\ answer' = None
    BY DEF DeletionOK, instVars, Name
  <2>2. Wanted(i) /\ i # c
    BY <1>2, <2>1 DEF Wanted, Unambiguous, Shadowed, instVars
  <2>3. req.todo[1] = Name(proto[i], endp[i]) /\ answer = None
    BY <2>2 DEF ManagerInv, DeletionOK
  <2>4. /\ proto[i] \in Proto /\ endp[i] \in Endpoint /\ proxies[proto[i]][endp[i]] = i
    BY <2>2 DEF ManagerInv, TasksOK, Alive, Wanted
  <2>5. ~First.live
    <3>1. SUFFICES ASSUME First.live PROVE FALSE
      OBVIOUS
    <3>2. Name(q0, e0) = Name(proto[i], endp[i])
      BY <1>1, <2>3, <3>1, FirstParts
    <3>3. q0 = proto[i] /\ e0 = endp[i]
      BY <1>1, <2>4, <3>2, Names
    <3> QED BY <1>1, <2>2, <2>4, <3>3
  <2> QED BY <2>3, <2>5
<1> QED
  BY <1>4, <1>7, <1>8, <1>9, <1>10, <1>11, <1>12, <1>13, <1>14, <1>15 DEF ManagerInv

(* DeleteUdpProxy, DeleteTcpProxy *)
LEMMA HandleDeleteInv == ASSUME ManagerInv, HandleDelete PROVE ManagerInv'
<1>1. /\ queue # <<>> /\ queue' = Tail(queue) /\ First.op = "delete"
      /\ UNCHANGED <<instVars, known, req, told, panicked>>
      /\ answer' = IF First.live THEN Refusal ELSE answer
      /\ Evict \/ NoEntry
  BY DEF HandleDelete, Take, Respond
<1>2. CASE Evict
  BY <1>1, <1>2, EvictInv
<1>3. CASE NoEntry
  <2>1. Entry = None /\ UNCHANGED <<taskVars, proxies>>
    BY <1>3 DEF NoEntry
  <2>2. ASSUME First.live, NEW i \in Inst, Wanted(i) PROVE FALSE
    <3>1. First.item = Name(proto[i], endp[i])
      BY <1>1, <2>2, FirstParts DEF ManagerInv, DeletionOK
    <3>2. /\ proto[i] \in Proto /\ endp[i] \in Endpoint /\ proxies[proto[i]][endp[i]] = i
      BY <2>2 DEF ManagerInv, TasksOK, Alive, Wanted
    <3>3. Entry = i
      BY <3>1, <3>2, Names DEF Entry
    <3> QED BY <2>1, <3>3, ManagerAssumption
  <2> QED BY <1>1, <2>1, <2>2, RefusalOK, AnswerInv
<1> QED
  BY <1>1, <1>2, <1>3

(* UdpEndpointEnded, TcpEndpointEnded *)
LEMMA HandleEndedInv == ASSUME ManagerInv, HandleEnded PROVE ManagerInv'
<1>1. /\ queue # <<>> /\ queue' = Tail(queue)
      /\ UNCHANGED <<instVars, known, req, answer, told, panicked>>
      /\ Evict \/ NoEntry
  BY DEF HandleEnded, Take
<1>2. CASE Evict
  BY <1>1, <1>2, EvictInv
<1>3. CASE NoEntry
  BY <1>1, <1>3, AnswerInv DEF NoEntry
<1> QED
  BY <1>1, <1>2, <1>3

(* A task is spawned on a port nothing is bound to. *)
LEMMA CreateVacantInv ==
  ASSUME ManagerInv, NEW i \in Inst, NEW p \in Port, CreateVacant(i, p)
  PROVE  ManagerInv'
<1> DEFINE q0 == First.item.proto
           e0 == First.item.endp
           a == [ok |-> TRUE, inst |-> i, port |-> p]
<1>1. /\ queue # <<>> /\ queue' = Tail(queue) /\ First.op = "create" /\ Entry = None
      /\ Free(i) /\ ~Bound(q0, p) /\ UNCHANGED <<known, req, panicked>>
      /\ answer' = IF First.live THEN a ELSE answer
  BY DEF CreateVacant, Take, Respond
<1>2. /\ q0 \in Proto /\ e0 \in Endpoint /\ proxies[q0][e0] = None
  BY <1>1, FirstParts DEF Entry
<1>3. /\ phase'[i] = "serving" /\ ~killed'[i] /\ ~reported'[i] /\ ~told'[i]
      /\ proto'[i] = q0 /\ endp'[i] = e0 /\ port'[i] = p
      /\ \A j \in Inst : j # i => /\ phase'[j] = phase[j] /\ killed'[j] = killed[j]
                                  /\ reported'[j] = reported[j] /\ told'[j] = told[j]
                                  /\ proto'[j] = proto[j] /\ endp'[j] = endp[j]
                                  /\ port'[j] = port[j]
  BY DEF CreateVacant, ManagerInv, ManagerTypeOK, TaskTypeOK, Map
<1>4. /\ phase' \in [Inst -> Phase] /\ killed' \in [Inst -> BOOLEAN]
      /\ reported' \in [Inst -> BOOLEAN] /\ told' \in [Inst -> BOOLEAN]
      /\ proto' \in [Inst -> Proto \cup {None}] /\ endp' \in Map(Inst, Endpoint)
      /\ port' \in Map(Inst, Port)
  BY <1>2 DEF CreateVacant, ManagerInv, ManagerTypeOK, TaskTypeOK, Map, Phase
<1>5. /\ proxies' \in [Proto -> Map(Endpoint, Inst)]
      /\ \A q \in Proto, e \in Endpoint :
           proxies'[q][e] = IF q = q0 /\ e = e0 THEN i ELSE proxies[q][e]
  <2>1. proxies' = [proxies EXCEPT ![q0][e0] = i] /\ proxies \in [Proto -> Map(Endpoint, Inst)]
    BY DEF CreateVacant, ManagerInv, ManagerTypeOK
  <2> HIDE DEF q0, e0
  <2> QED BY <1>2, <2>1 DEF Map
<1>6. /\ queue' \in Seq(Msg) /\ Len(queue') <= QCap /\ LiveOK'
      /\ \A it : Noted(queue, it) => Noted(queue', it)
      /\ \A it : Ahead(queue, it) => Ahead(queue', it)
  BY <1>1, TakeFirst
<1>7. /\ phase[i] = "gone" /\ (answer # None => answer.inst # i)
      /\ \A q \in Proto, e \in Endpoint : proxies[q][e] # i
  BY <1>1 DEF Free
<1>8. \A j \in Inst : Alive(j) => ~(proto[j] = q0 /\ port[j] = p)
  BY <1>1 DEF Bound, Alive
<1>9. First.live => /\ req # None /\ req.sent /\ req.op = "create"
                    /\ req.todo[1].proto = q0 /\ req.todo[1].endp = e0
  BY <1>1, FirstParts
<1> HIDE DEF q0, e0
<1>10. ASSUME NEW q \in Proto, NEW e \in Endpoint, ~(q = q0 /\ e = e0), proxies'[q][e] # None
       PROVE  /\ proxies'[q][e] = proxies[q][e] /\ proxies[q][e] # i /\ proxies[q][e] \in Inst
  BY <1>5, <1>7, <1>10 DEF Map
<1>11. EntriesOK'
  <2>1. ASSUME NEW q \in Proto, NEW e \in Endpoint, NEW j \in Inst, proxies'[q][e] = j
        PROVE  proto'[j] = q /\ endp'[j] = e /\ port'[j] \in Port /\ ~killed'[j]
    <3>1. CASE q = q0 /\ e = e0
      BY <1>2, <1>3, <1>5, <2>1, <3>1
    <3>2. CASE ~(q = q0 /\ e = e0)
      BY <1>3, <1>10, <2>1, <3>2, ManagerAssumption DEF ManagerInv, EntriesOK
    <3> QED BY <3>1, <3>2
  <2>2. \A q \in Proto, e \in Endpoint : proxies'[q][e] # None => proxies'[q][e] \in Inst
    BY <1>5 DEF Map
  <2> QED BY <2>1, <2>2 DEF EntriesOK
<1>12. TasksOK'
  <2>1. ASSUME NEW j \in Inst, Alive(j)'
        PROVE  /\ proto'[j] \in Proto /\ endp'[j] \in Endpoint /\ port'[j] \in Port
               /\ ~reported'[j]
               /\ ~killed'[j] => proxies'[proto'[j]][endp'[j]] = j
    <3>1. CASE j = i
      BY <1>2, <1>3, <1>5, <3>1
    <3>2. CASE j # i
      <4>1. /\ proto[j] \in Proto /\ endp[j] \in Endpoint /\ port[j] \in Port /\ ~reported[j]
            /\ ~killed[j] => proxies[proto[j]][endp[j]] = j
        BY <1>3, <2>1, <3>2 DEF ManagerInv, TasksOK, Alive
      <4>2. ~killed[j] => ~(proto[j] = q0 /\ endp[j] = e0)
        BY <1>2, <4>1, ManagerAssumption
      <4> QED BY <1>3, <1>5, <3>2, <4>1, <4>2
    <3> QED BY <3>1, <3>2
  <2>2. ASSUME NEW j \in Inst, NEW k \in Inst, Alive(j)', Alive(k)',
               proto'[j] = proto'[k], port'[j] = port'[k]
        PROVE  j = k
    BY <1>3, <1>8, <2>2 DEF ManagerInv, TasksOK, Alive
  <2> QED BY <2>1, <2>2 DEF TasksOK
<1>13. EndedEntriesReported'
  <2>1. SUFFICES ASSUME NEW q \in Proto, NEW e \in Endpoint, proxies'[q][e] # None,
                        phase'[proxies'[q][e]] = "gone", Orderly(proxies[q][e])'
                 PROVE  Noted(queue', Name(q, e))
    BY DEF EndedEntriesReported, Noted, Name
  <2>2. ~(q = q0 /\ e = e0)
    BY <1>3, <1>5, <2>1
  <2>3. Noted(queue, Name(q, e))
    BY <1>3, <1>10, <2>1, <2>2 DEF ManagerInv, EndedEntriesReported, Orderly, Noted, Name
  <2> QED BY <1>6, <2>3
<1>14. PanicsNoted'
  <2>1. SUFFICES ASSUME NEW q \in Proto, NEW e \in Endpoint, proxies'[q][e] # None,
                        phase'[proxies'[q][e]] = "gone", ~Orderly(proxies[q][e])'
                 PROVE  e.sid \in panicked
    BY <1>1 DEF PanicsNoted
  <2>2. ~(q = q0 /\ e = e0)
    BY <1>3, <1>5, <2>1
  <2> QED BY <1>3, <1>10, <2>1, <2>2 DEF ManagerInv, PanicsNoted, Orderly
<1>15. StaleAhead'
  <2>1. SUFFICES ASSUME NEW k \in Inst, NEW j \in Inst, NEW q \in Proto, NEW e \in Endpoint,
                        told'[k], Alive(k)', proto'[k] = q, proxies'[q][e] = j,
                        phase'[j] = "gone", Orderly(j)', port'[k] = port'[j]
                 PROVE  Ahead(queue', Name(q, e))
    BY DEF StaleAhead, Name
  <2>2. k # i /\ j # i /\ ~(q = q0 /\ e = e0) /\ proxies'[q][e] # None
    BY <1>3, <1>5, <2>1, ManagerAssumption
  <2>3. Ahead(queue, Name(q, e))
    BY <1>3, <1>10, <2>1, <2>2 DEF ManagerInv, StaleAhead, Orderly, Alive
  <2> QED BY <1>6, <2>3
<1>16. answer' \in Answer \cup {None} /\ AnswerOK' /\ AnswerFresh'
  <2>1. CASE First.live
    <3>1. answer' = a /\ a \in Answer /\ a.ok /\ a.inst = i /\ a.port = p
      BY <1>1, <2>1 DEF Answer
    <3>2. AnswerOK'
      BY <1>1, <1>3, <1>9, <2>1, <3>1 DEF AnswerOK
    <3>3. AnswerFresh'
      BY <1>3, <1>8, <3>1 DEF AnswerFresh, Alive
    <3> QED BY <3>1, <3>2, <3>3
  <2>2. CASE ~First.live
    <3>1. answer' = answer /\ answer \in Answer \cup {None}
      BY <1>1, <2>2 DEF ManagerInv, ManagerTypeOK
    <3>2. AnswerOK'
      BY <1>1, <1>3, <1>7, <3>1 DEF ManagerInv, AnswerOK
    <3>3. answer # None /\ answer.ok => answer.inst \in Inst /\ answer.inst # i
      BY <1>7 DEF ManagerInv, AnswerOK
    <3>4. AnswerFresh'
      BY <1>1, <1>3, <3>1, <3>3 DEF ManagerInv, AnswerFresh, Alive, Unambiguous
    <3> QED BY <3>1, <3>2, <3>4
  <2> QED BY <2>1, <2>2
<1>17. ManagerTypeOK'
  BY <1>1, <1>4, <1>5, <1>6, <1>16 DEF ManagerInv, ManagerTypeOK, TaskTypeOK
<1>18. RequestOK' /\ ToldStaysKnown'
  <2>1. RequestOK'
    BY <1>1 DEF ManagerInv, RequestOK
  <2>2. ASSUME NEW j \in Inst, told'[j], phase'[j] = "serving", ~killed'[j], Unambiguous(j)'
        PROVE  known[proto'[j]][<<port'[j], endp'[j].sid>>] = endp'[j]
    <3>1. j # i
      BY <1>3, <2>2
    <3>2. told[j] /\ phase[j] = "serving" /\ ~killed[j] /\ Unambiguous(j)
      BY <1>1, <1>3, <2>2, <3>1 DEF Unambiguous
    <3> QED BY <1>3, <3>1, <3>2 DEF ManagerInv, ToldStaysKnown
  <2> QED BY <1>1, <2>1, <2>2 DEF ToldStaysKnown
<1>19. DeletionOK'
  <2>1. SUFFICES ASSUME NEW j \in Inst, Wanted(j)'
                 PROVE  req'.todo[1] = Name(proto[j], endp[j])' /\ answer' = None
    BY DEF DeletionOK
  <2>2. j # i /\ Wanted(j)
    BY <1>1, <1>3, <2>1 DEF Wanted, Unambiguous, Shadowed
  <2>3. ~First.live
    BY <1>9, <2>2 DEF Wanted
  <2>4. req.todo[1] = Name(proto[j], endp[j]) /\ answer = None
    BY <2>2 DEF ManagerInv, DeletionOK
  <2> QED BY <1>1, <1>3, <2>2, <2>3, <2>4 DEF Name
<1> QED
  BY <1>6, <1>11, <1>12, <1>13, <1>14, <1>15, <1>16, <1>17, <1>18, <1>19 DEF ManagerInv

-----------------------------------------------------------------------------
(* The endpoint tasks *)

(* A task gets one step further, and the invariant holds if its end is     *)
(* accounted for: reported, ordered, or noted as a panic.                  *)
LEMMA TaskStepInv ==
  ASSUME ManagerInv, NEW i \in Inst, NEW ph \in {"ending", "gone"},
         phase[i] # "gone", phase' = [phase EXCEPT ![i] = ph],
         UNCHANGED <<killed, instVars, proxies, known, req, answer, told>>,
         reported' \in [Inst -> BOOLEAN],
         \A j \in Inst : j # i \/ ph # "gone" => reported'[j] = reported[j],
         queue' \in Seq(Msg), Len(queue') <= QCap, LiveOK',
         panicked \subseteq panicked', panicked' \subseteq Session,
         \A it : Noted(queue, it) => Noted(queue', it),
         \A it : Ahead(queue, it) => Ahead(queue', it),
         ph = "gone" /\ ~killed[i] =>
           \/ reported'[i] /\ Noted(queue', Name(proto[i], endp[i]))
           \/ proto[i] # "udp" /\ ~reported'[i] /\ endp[i].sid \in panicked'
  PROVE  ManagerInv'
<1>1. \A j \in Inst : phase'[j] = IF j = i THEN ph ELSE phase[j]
  BY DEF ManagerInv, ManagerTypeOK, TaskTypeOK
<1>2. UNCHANGED <<proto, endp, port>>
  BY DEF instVars
<1>3. ManagerTypeOK'
  BY <1>2 DEF ManagerInv, ManagerTypeOK, TaskTypeOK, Phase
<1>4. RequestOK' /\ EntriesOK'
  BY <1>2 DEF ManagerInv, RequestOK, EntriesOK
<1>5. TasksOK'
  BY <1>1, <1>2 DEF ManagerInv, TasksOK, Alive
<1>6. AnswerOK'
  BY <1>2 DEF ManagerInv, AnswerOK
<1>7. AnswerFresh' /\ ToldStaysKnown'
  BY <1>1, <1>2 DEF ManagerInv, AnswerOK, AnswerFresh, ToldStaysKnown, Alive, Unambiguous
<1>8. DeletionOK'
  <2>1. \A j \in Inst : Wanted(j)' => Wanted(j)
    BY <1>1, <1>2 DEF Wanted, Unambiguous, Shadowed
  <2> QED BY <1>2, <2>1 DEF ManagerInv, DeletionOK, Name
<1>9. \A q \in Proto, e \in Endpoint : proxies[q][e] # None => proxies[q][e] \in Inst
  BY DEF ManagerInv, ManagerTypeOK, Map
<1>10. EndedEntriesReported'
  <2>1. SUFFICES ASSUME NEW q \in Proto, NEW e \in Endpoint, NEW j \in Inst,
                        proxies[q][e] = j, phase'[j] = "gone", Orderly(j)'
                 PROVE  Noted(queue', Name(q, e))
    BY <1>9 DEF EndedEntriesReported, Noted, Name
  <2>2. proto[j] = q /\ endp[j] = e /\ ~killed[j]
    BY <2>1, ManagerAssumption DEF ManagerInv, EntriesOK
  <2>3. CASE j = i
    BY <1>1, <1>2, <2>1, <2>2, <2>3 DEF Orderly
  <2>4. CASE j # i
    <3>1. phase[j] = "gone" /\ Orderly(j)
      BY <1>1, <1>2, <2>1, <2>4 DEF Orderly
    <3>2. Noted(queue, Name(q, e))
      BY <2>1, <3>1, ManagerAssumption DEF ManagerInv, EndedEntriesReported, Noted, Name
    <3> QED BY <3>2
  <2> QED BY <2>3, <2>4
<1>11. PanicsNoted'
  <2>1. SUFFICES ASSUME NEW q \in Proto, NEW e \in Endpoint, NEW j \in Inst,
                        proxies[q][e] = j, phase'[j] = "gone", ~Orderly(j)'
                 PROVE  e.sid \in panicked'
    BY <1>9 DEF PanicsNoted
  <2>2. endp[j] = e /\ ~killed[j]
    BY <2>1, ManagerAssumption DEF ManagerInv, EntriesOK
  <2>3. CASE j = i
    BY <1>1, <1>2, <2>1, <2>2, <2>3 DEF Orderly
  <2>4. CASE j # i
    BY <1>1, <1>2, <2>1, <2>4, ManagerAssumption DEF ManagerInv, PanicsNoted, Orderly
  <2> QED BY <2>3, <2>4
<1>12. StaleAhead'
  <2>1. SUFFICES ASSUME NEW k \in Inst, NEW j \in Inst, NEW q \in Proto, NEW e \in Endpoint,
                        told[k], Alive(k)', proto[k] = q, proxies[q][e] = j,
                        phase'[j] = "gone", Orderly(j)', port[k] = port[j]
                 PROVE  Ahead(queue', Name(q, e))
    BY <1>2 DEF StaleAhead, Name
  <2>2. Alive(k) /\ k # j
    BY <1>1, <2>1 DEF Alive
  <2>3. j # i
    <3>1. proto[j] = q
      BY <2>1, ManagerAssumption DEF ManagerInv, EntriesOK
    <3> QED BY <2>1, <2>2, <3>1 DEF ManagerInv, TasksOK, Alive
  <2>4. Ahead(queue, Name(q, e))
    BY <1>1, <1>2, <2>1, <2>2, <2>3 DEF ManagerInv, StaleAhead, Orderly
  <2> QED BY <2>4
<1> QED
  BY <1>3, <1>4, <1>5, <1>6, <1>7, <1>8, <1>10, <1>11, <1>12 DEF ManagerInv

(* The loop of an endpoint breaks, the runtime drops a killed task, or a   *)
(* tcp task panics: nothing is sent.                                       *)
LEMMA QuietEndInv ==
  ASSUME ManagerInv, NEW i \in Inst,
         EndpointStops(i) \/ EndpointAborted(i) \/ TcpEndpointPanics(i)
  PROVE  ManagerInv'
<1>1. /\ UNCHANGED <<killed, reported, instVars, proxies, known, queue, req, answer, told>>
      /\ queue \in Seq(Msg) /\ Len(queue) <= QCap
      /\ reported \in [Inst -> BOOLEAN] /\ panicked \subseteq Session
  BY DEF EndpointStops, EndpointAborted, TcpEndpointPanics, Stop, Abort, Panic,
         ManagerInv, ManagerTypeOK, TaskTypeOK
<1>2. LiveOK'
  BY <1>1 DEF ManagerInv, LiveOK
<1>3. CASE EndpointStops(i)
  <2>1. /\ phase[i] # "gone" /\ phase' = [phase EXCEPT ![i] = "ending"] /\ panicked' = panicked
    BY <1>3 DEF EndpointStops, Stop
  <2> QED BY <1>1, <1>2, <2>1, TaskStepInv
<1>4. CASE EndpointAborted(i)
  <2>1. /\ phase[i] # "gone" /\ phase' = [phase EXCEPT ![i] = "gone"] /\ panicked' = panicked
        /\ killed[i]
    BY <1>4 DEF EndpointAborted, Abort
  <2> QED BY <1>1, <1>2, <2>1, TaskStepInv
<1>5. CASE TcpEndpointPanics(i)
  <2>1. /\ phase[i] # "gone" /\ phase' = [phase EXCEPT ![i] = "gone"]
        /\ panicked' = panicked \cup {endp[i].sid} /\ proto[i] # "udp"
    BY <1>5 DEF TcpEndpointPanics, Panic
  <2>2. endp[i].sid \in Session /\ ~reported[i]
    BY <2>1 DEF ManagerInv, TasksOK, Alive, Endpoint
  <2> QED BY <1>1, <1>2, <2>1, <2>2, TaskStepInv
<1> QED
  BY <1>3, <1>4, <1>5

(* An endpoint reports its end, and is gone. *)
LEMMA ReportsInv ==
  ASSUME ManagerInv, NEW i \in Inst, EndpointReports(i)
  PROVE  ManagerInv'
<1> DEFINE m == [op |-> "ended", live |-> FALSE, item |-> Name(proto[i], endp[i])]
<1>1. /\ phase[i] # "gone" /\ phase' = [phase EXCEPT ![i] = "gone"]
      /\ UNCHANGED <<killed, instVars, proxies, known, req, answer, told, panicked>>
      /\ reported' = [reported EXCEPT ![i] = TRUE]
      /\ Len(queue) < QCap /\ queue' = Append(queue, m)
      /\ queue \in Seq(Msg) /\ panicked \subseteq Session
      /\ reported \in [Inst -> BOOLEAN]
  BY DEF EndpointReports, Report, Name, ManagerInv, ManagerTypeOK, TaskTypeOK
<1>2. m \in Msg /\ m.op = "ended" /\ ~m.live /\ m.item = Name(proto[i], endp[i])
  <2>1. proto[i] \in Proto /\ endp[i] \in Endpoint
    BY <1>1 DEF ManagerInv, TasksOK, Alive
  <2>2. Name(proto[i], endp[i]) \in Item
    BY <2>1, Names
  <2> QED BY <2>2 DEF Msg
<1> HIDE DEF m
<1>3. /\ queue' \in Seq(Msg) /\ Len(queue) \in Nat /\ Len(queue') = Len(queue) + 1
      /\ \A n \in 1..(Len(queue) + 1) : queue'[n] = IF n = Len(queue) + 1 THEN m ELSE queue[n]
      /\ \A it : Noted(queue, it) => Noted(queue', it)
      /\ \A it : Ahead(queue, it) => Ahead(queue', it)
      /\ Noted(queue', Name(proto[i], endp[i]))
  BY <1>1, <1>2, SendKeeps
<1>4. Len(queue') <= QCap
  BY <1>1, <1>3, ManagerAssumption
<1>5. LiveOK'
  <2>1. \A n \in 1..Len(queue') : queue'[n].live => n \in 1..Len(queue) /\ queue'[n] = queue[n]
    BY <1>2, <1>3
  <2> QED BY <1>1, <2>1 DEF ManagerInv, LiveOK
<1> QED
  BY <1>1, <1>3, <1>4, <1>5, TaskStepInv

-----------------------------------------------------------------------------
(* The theorems *)

(* A manager that was just started is in order. *)
LEMMA InitInv == Init => ManagerInv
<1> SUFFICES ASSUME Init PROVE ManagerInv
  OBVIOUS
<1> USE DEF Init, EmptyMap
<1>1. queue \in Seq(Msg) /\ Len(queue) = 0 /\ 0 <= QCap
  BY EmptySeq, ManagerAssumption
<1>2. TaskTypeOK
  BY DEF TaskTypeOK, Phase
<1>3. ManagerTypeOK
  BY <1>1, <1>2 DEF ManagerTypeOK, Map
<1>4. \A q \in Proto, e \in Endpoint : proxies[q][e] = None
  OBVIOUS
<1>5. RequestOK /\ LiveOK /\ AnswerOK /\ AnswerFresh /\ DeletionOK
  BY <1>1 DEF RequestOK, LiveOK, AnswerOK, AnswerFresh, DeletionOK, Wanted
<1>6. EntriesOK /\ TasksOK /\ EndedEntriesReported /\ PanicsNoted
  BY <1>4 DEF EntriesOK, TasksOK, Alive, EndedEntriesReported, PanicsNoted
<1>7. StaleAhead /\ ToldStaysKnown
  BY DEF StaleAhead, ToldStaysKnown
<1> QED
  BY <1>3, <1>5, <1>6, <1>7 DEF ManagerInv

(* Every step of a request, the actor, a task or the runtime keeps the     *)
(* invariant.                                                              *)
LEMMA NextInv == ManagerInv /\ [Next]_vars => ManagerInv'
<1> SUFFICES ASSUME ManagerInv, [Next]_vars PROVE ManagerInv'
  OBVIOUS
<1>1. CASE \E s \in Session, t \in Target : \E tcps \in TcpLists(s) : Allocate(s, t, tcps)
  BY <1>1, AllocateInv
<1>2. CASE \E k \in Key : Delete(k)
  BY <1>2, DeleteInv
<1>3. CASE SendRequest \/ ParseFails \/ CreateAnswered \/ RequestOver \/ Cancel
  BY <1>3, SendRequestInv, RequestEndsInv, CreateAnsweredInv, CancelInv
<1>4. CASE Actor
  BY <1>4, CreateOccupiedInv, CreateFailsInv, CreateVacantInv, HandleDeleteInv, HandleEndedInv
  DEF Actor
<1>5. CASE \E i \in Inst : \/ EndpointStops(i) \/ EndpointReports(i)
                           \/ EndpointAborted(i) \/ TcpEndpointPanics(i)
  BY <1>5, QuietEndInv, ReportsInv
<1>6. CASE UNCHANGED vars
  <2> USE <1>6 DEF vars
  <2>1. ManagerTypeOK'
    BY TasksSame DEF ManagerInv, ManagerTypeOK, TaskTypeOK
  <2>2. RequestOK' /\ LiveOK' /\ AnswerOK'
    BY DEF ManagerInv, RequestOK, LiveOK, AnswerOK, instVars
  <2>3. EndedEntriesReported' /\ StaleAhead' /\ ToldStaysKnown' /\ AnswerFresh'
    BY NotesKept, StaleKept, ToldKept, FreshKept
  <2>4. DeletionOK'
    BY DEF ManagerInv, DeletionOK, Wanted, Unambiguous, Shadowed, Name, taskVars, instVars
  <2> QED BY <2>1, <2>2, <2>3, <2>4, TasksSame DEF ManagerInv
<1> QED
  BY <1>1, <1>2, <1>3, <1>4, <1>5, <1>6 DEF Next

(* The inductive invariant holds in every reachable state. *)
THEOREM Invariance == Spec => []ManagerInv
  BY InitInv, NextInv, PTL DEF Spec

(* Every variable keeps its type, and the actor's channel its bound. *)
THEOREM TypeCorrect == Spec => []ManagerTypeOK
<1>1. ManagerInv => ManagerTypeOK
  BY DEF ManagerInv
<1> QED
  BY <1>1, Invariance, PTL

(* run() of both endpoints and the actor: an entry whose task is gone, and *)
(* did not panic, has its EndpointEnded message in the channel.            *)
THEOREM EndedReported == Spec => []EndedEntriesReported
<1>1. ManagerInv => EndedEntriesReported
  BY DEF ManagerInv
<1> QED
  BY <1>1, Invariance, PTL

(* create_udp_proxy_internal, create_tcp_proxy_internal: what an           *)
(* allocation was told is what the manager knows, while it serves.         *)
THEOREM ToldKnown == Spec => []ToldStaysKnown
<1>1. ManagerInv => ToldStaysKnown
  BY DEF ManagerInv
<1> QED
  BY <1>1, Invariance, PTL

(* delete_udp_proxy, delete_tcp_proxy: an answered deletion has left no    *)
(* endpoint serving that was told the port, but for tcp endpoints behind a *)
(* udp entry of the same port number, or of a session that had a panic.    *)
THEOREM DeletedKilled == Spec => []DeletedIsKilled
<1>1. ManagerInv => DeletedIsKilled
  <2> SUFFICES ASSUME ManagerInv, Answered, req.op = "delete", NEW i \in Inst,
                      told[i], <<port[i], endp[i].sid>> = req.key, Unambiguous(i),
                      ~Shadowed(i), phase[i] = "serving", ~killed[i]
               PROVE  FALSE
    BY DEF DeletedIsKilled
  <2>1. Wanted(i)
    BY DEF Answered, Wanted
  <2> QED BY <2>1 DEF ManagerInv, DeletionOK, Answered
<1> QED
  BY <1>1, Invariance, PTL

-----------------------------------------------------------------------------
(* Nobody waits in vain *)

Live(q) == \E n \in 1..Len(q) : q[n].live

(* A request that has sent its message and has no answer yet still has it  *)
(* in the actor's channel (resp_rx.await under the write lock): what it    *)
(* waits for is ahead of it, whatever reports and dropped requests share   *)
(* the channel with it.                                                    *)
AnswerDue == req # None /\ req.sent /\ answer = None => Live(queue)

(* The actor either answers the message it takes or leaves the other one   *)
(* in the channel.                                                         *)
LEMMA ActorAnswers ==
  ASSUME ManagerInv, AnswerDue, Actor
  PROVE  AnswerDue'
<1>1. /\ queue # <<>> /\ queue' = Tail(queue) /\ UNCHANGED req
      /\ First.live /\ First.op # "ended" => answer' # None
      /\ ~First.live => answer' = answer
  <2>1. None \notin Answer
    BY ManagerAssumption
  <2>2. Refusal \in Answer
    BY DEF Refusal, Answer
  <2>3. CASE CreateOccupied
    <3>1. queue # <<>> /\ Entry # None
      BY <2>3 DEF CreateOccupied, Take
    <3>2. [ok |-> TRUE, inst |-> Entry, port |-> port[Entry]] \in Answer
      BY <3>1, FirstParts DEF Answer
    <3> QED BY <2>1, <2>3, <3>1, <3>2 DEF CreateOccupied, Respond
  <2>4. CASE \E i \in Inst, p \in Port : CreateVacant(i, p)
    <3>1. PICK i \in Inst, p \in Port : CreateVacant(i, p)
      BY <2>4
    <3>2. [ok |-> TRUE, inst |-> i, port |-> p] \in Answer
      BY DEF Answer
    <3> QED BY <2>1, <3>1, <3>2 DEF CreateVacant, Take, Respond
  <2>5. CASE CreateFails \/ HandleDelete
    BY <2>1, <2>2, <2>5 DEF CreateFails, HandleDelete, Take, Respond
  <2>6. CASE HandleEnded
    BY <2>6 DEF HandleEnded, Take
  <2> QED BY <2>3, <2>4, <2>5, <2>6 DEF Actor
<1>2. CASE First.live
  BY <1>1, <1>2, FirstParts DEF AnswerDue
<1>3. CASE ~First.live
  <2>1. SUFFICES ASSUME req # None, req.sent, answer = None PROVE Live(queue')
    BY <1>1, <1>3 DEF AnswerDue
  <2>2. PICK n \in 1..Len(queue) : queue[n].live
    BY <2>1 DEF AnswerDue, Live
  <2>3. /\ queue \in Seq(Msg) /\ First = queue[1]
    BY <1>1, FirstParts DEF ManagerInv, ManagerTypeOK
  <2>4. /\ Len(queue) \in Nat /\ Len(queue') = Len(queue) - 1
        /\ \A k \in 1..(Len(queue) - 1) : queue'[k] = queue[k + 1]
    BY <1>1, <2>3, Taking
  <2>5. n # 1
    BY <1>3, <2>2, <2>3
  <2>6. n - 1 \in 1..Len(queue') /\ queue'[n - 1] = queue[n]
    BY <2>4, <2>5
  <2> QED BY <2>2, <2>6 DEF Live
<1> QED
  BY <1>1, <1>2, <1>3, FirstParts DEF Msg

(* No step takes the message away without an answer. *)
LEMMA NextDue == ManagerInv /\ AnswerDue /\ [Next]_vars => AnswerDue'
<1> SUFFICES ASSUME ManagerInv, AnswerDue, [Next]_vars PROVE AnswerDue'
  OBVIOUS
<1>1. CASE \/ \E s \in Session, t \in Target : \E tcps \in TcpLists(s) : Allocate(s, t, tcps)
           \/ \E k \in Key : Delete(k)
           \/ ParseFails \/ RequestOver \/ Cancel
  <2>1. req' = None \/ ~req'.sent
    <3>1. CASE \/ \E s \in Session, t \in Target : \E tcps \in TcpLists(s) : Allocate(s, t, tcps)
               \/ \E k \in Key : Delete(k)
      <4>1. PICK op, key, todo :
               req' = [op |-> op, key |-> key, sent |-> FALSE, todo |-> todo]
        BY <3>1 DEF Allocate, Delete
      <4> QED BY <4>1
    <3>2. CASE ParseFails \/ RequestOver \/ Cancel
      BY <3>2 DEF ParseFails, RequestOver, Cancel
    <3> QED BY <1>1, <3>1, <3>2
  <2> QED BY <2>1 DEF AnswerDue
<1>2. CASE CreateAnswered
  <2>1. req' = None \/ ~req'.sent
    <3>1. req \in Request
      BY <1>2, RequestParts DEF CreateAnswered, Answered
    <3> QED BY <1>2, <3>1 DEF CreateAnswered, Request
  <2> QED BY <2>1 DEF AnswerDue
<1>3. CASE SendRequest
  <2> DEFINE m == [op |-> req.op, item |-> req.todo[1], live |-> TRUE]
  <2>1. queue' = Append(queue, m) /\ m \in Msg /\ m.live /\ queue \in Seq(Msg)
    BY <1>3, RequestParts DEF SendRequest, Msg, ManagerInv, ManagerTypeOK
  <2> HIDE DEF m
  <2>2. Len(queue') \in 1..Len(queue') /\ queue'[Len(queue')] = m
    BY <2>1, Posting
  <2> QED BY <2>1, <2>2 DEF AnswerDue, Live
<1>4. CASE Actor
  BY <1>4, ActorAnswers
<1>5. CASE \E i \in Inst : EndpointReports(i)
  <2>1. PICK i \in Inst : EndpointReports(i)
    BY <1>5
  <2> DEFINE m == [op |-> "ended", live |-> FALSE, item |-> Name(proto[i], endp[i])]
  <2>2. m \in Msg
    <3>1. proto[i] \in Proto /\ endp[i] \in Endpoint
      BY <2>1 DEF EndpointReports, Report, ManagerInv, TasksOK, Alive
    <3>2. Name(proto[i], endp[i]) \in Item
      BY <3>1, Names
    <3> QED BY <3>2 DEF Msg
  <2>3. queue' = Append(queue, m) /\ UNCHANGED <<req, answer>> /\ queue \in Seq(Msg)
    BY <2>1 DEF EndpointReports, Name, ManagerInv, ManagerTypeOK
  <2> HIDE DEF m
  <2>4. \A n \in 1..Len(queue) : n \in 1..Len(queue') /\ queue'[n] = queue[n]
    BY <2>2, <2>3, Posting
  <2> QED BY <2>3, <2>4 DEF AnswerDue, Live
<1>6. CASE \/ \E i \in Inst : EndpointStops(i) \/ EndpointAborted(i) \/ TcpEndpointPanics(i)
           \/ UNCHANGED vars
  <2>1. UNCHANGED <<req, answer, queue>>
    BY <1>6 DEF EndpointStops, EndpointAborted, TcpEndpointPanics, vars
  <2> QED BY <2>1 DEF AnswerDue, Live
<1> QED
  BY <1>1, <1>2, <1>3, <1>4, <1>5, <1>6 DEF Next

(* The safety half of RequestsFinish: a request never holds the lock while *)
(* waiting for an answer to a message that is no longer there.             *)
THEOREM AnswerIsDue == Spec => []AnswerDue
<1>1. Init => AnswerDue
  BY DEF Init, AnswerDue
<1> QED
  BY <1>1, NextDue, Invariance, PTL DEF Spec

-----------------------------------------------------------------------------
(* Who is killed, and who can be *)

(* No serving endpoint is out of the actor's reach: unless it was killed   *)
(* already, the table has it under its own name, where DELETE and its own  *)
(* report look.  In particular an endpoint has one such task at most.      *)
NoOrphan ==
  \A i \in Inst : phase[i] # "gone" /\ ~killed[i] => proxies[proto[i]][endp[i]] = i

(* create_*_proxy_impl, delete_*_proxy_impl: overwriting or removing an    *)
(* entry never loses a running task.                                       *)
THEOREM NothingOrphaned == Spec => []NoOrphan
<1>1. ManagerInv => NoOrphan
  BY DEF ManagerInv, TasksOK, Alive, NoOrphan
<1> QED
  BY <1>1, Invariance, PTL

(* A task is killed only while the actor handles a deletion or a report    *)
(* that names its endpoint: requests and reports of other endpoints, or of *)
(* the same session over the other protocol, never hit it.  (A report may  *)
(* be that of its predecessor; see KilledOnlyWhenDeleted.)                 *)
KilledByName ==
  [][\A i \in Inst :
       ~killed[i] /\ killed'[i]
         => /\ queue # <<>> /\ First.op \in {"delete", "ended"}
            /\ First.item = Name(proto[i], endp[i])]_vars

(* delete_*_proxy_impl looks an entry up by name, and kills nothing but    *)
(* the task that was created under that name.                              *)
THEOREM OnlyNamedIsKilled == Spec => KilledByName
<1>1. ManagerInv /\ [Next]_vars =>
        [\A i \in Inst :
           ~killed[i] /\ killed'[i]
             => /\ queue # <<>> /\ First.op \in {"delete", "ended"}
                /\ First.item = Name(proto[i], endp[i])]_vars
  <2> SUFFICES ASSUME ManagerInv, Next, NEW i \in Inst, ~killed[i], killed'[i]
               PROVE  /\ queue # <<>> /\ First.op \in {"delete", "ended"}
                      /\ First.item = Name(proto[i], endp[i])
    OBVIOUS
  <2>1. CASE HandleDelete \/ HandleEnded
    <3>1. queue # <<>> /\ First.op \in {"delete", "ended"} /\ (Evict \/ NoEntry)
      BY <2>1 DEF HandleDelete, HandleEnded, Take
    <3>2. Evict
      BY <3>1 DEF NoEntry, taskVars
    <3>3. Entry # None /\ Entry = i
      BY <3>2 DEF Evict, Kill, ManagerInv, ManagerTypeOK, TaskTypeOK
    <3>4. First.item = Name(proto[i], endp[i])
      BY <3>1, <3>3, FirstParts
    <3> QED BY <3>1, <3>4
  <2>2. CASE \E j \in Inst, p \in Port : CreateVacant(j, p)
    BY <2>2 DEF CreateVacant, ManagerInv, ManagerTypeOK, TaskTypeOK
  <2>3. CASE ~(HandleDelete \/ HandleEnded) /\ ~\E j \in Inst, p \in Port : CreateVacant(j, p)
    <3>1. UNCHANGED killed
      BY <2>3 DEF Next, Actor, Allocate, Delete, SendRequest, ParseFails, CreateAnswered,
         RequestOver, Cancel, CreateOccupied, CreateFails, EndpointStops, EndpointReports,
         EndpointAborted, TcpEndpointPanics, Stop, Report, Abort, Panic, taskVars
    <3> QED BY <3>1
  <2> QED BY <2>1, <2>2, <2>3
<1> QED
  BY <1>1, Invariance, PTL DEF Spec, KilledByName
=============================================================================
