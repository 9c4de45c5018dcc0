-------------------------- MODULE TcpEndpointProofs --------------------------
(***************************************************************************)
(* Proofs about TcpEndpoint, for any numbers of addresses and connections  *)
(* and any channel capacity.                                               *)
(*                                                                         *)
(* The argument: an entry of `clients` is removed only by a report for its *)
(* address, and while run() is between accept and insert no report is      *)
(* handled, so the report of a connection that ends that early is still in *)
(* the channel when its entry appears.  An address that was not accepted   *)
(* too early has one connection that is not over, the one of its entry,    *)
(* and no report in the channel.                                           *)
(***************************************************************************)
EXTENDS TcpEndpoint, ProxyLemmas

(* The local variables of run(), by where it stands. *)
LoopOK ==
  /\ from # None <=> pc \in {"connect", "insert"}
  /\ fresh # None <=> pc = "insert"
  /\ pc = "ended" => ended = <<>> /\ \A a \in Addr : clients[a] = None

(* A connection has the address it is entered under, and is entered once. *)
OwnAddress ==
  /\ \A c \in Conn : conn[c] # "done" => caddr[c] \in Addr
  /\ \A a \in Addr : clients[a] # None => caddr[clients[a]] = a
  /\ fresh # None => caddr[fresh] = from /\ \A a \in Addr : clients[a] # fresh

(* A connection that ended before it was inserted has reported already. *)
FreshReported == fresh # None /\ conn[fresh] = "done" => Reported(from)

(* An endpoint without a client never had one. *)
NeverHadClients ==
  pc \in {"select", "connect"} /\ (\A a \in Addr : clients[a] = None)
    => \A c \in Conn : caddr[c] = None

(* A connection from an address not accepted too early is the one entered  *)
(* for it, or about to be, and no report for the address is in the channel. *)
Sole ==
  pc # "ended" =>
    \A c \in Conn : conn[c] # "done" /\ caddr[c] \notin reused
      => (fresh = c \/ clients[caddr[c]] = c) /\ ~Reported(caddr[c])

(* From accept to insert such an address has no other connection. *)
SoleFresh ==
  /\ pc = "connect" /\ from \notin reused => ~Unfinished(from)
  /\ pc = "insert" /\ from \notin reused
       => \A c \in Conn : conn[c] # "done" /\ caddr[c] = from => c = fresh

(* The inductive invariant. *)
TcpInv ==
  /\ TcpTypeOK
  /\ LoopOK
  /\ OwnAddress
  /\ FreshReported
  /\ EndedConnsReported
  /\ NeverHadClients
  /\ Sole
  /\ SoleFresh

-----------------------------------------------------------------------------
(* The inductive step, one lemma per kind of step *)

(* A freshly bound listener is in order. *)
LEMMA InitInv == Init => TcpInv
<1> SUFFICES ASSUME Init PROVE TcpInv
  OBVIOUS
<1> USE DEF Init, EmptyMap
<1>1. ended \in Seq(Addr) /\ Len(ended) <= EndCap
  BY EmptySeq, TcpAssumption
<1>2. TcpTypeOK
  BY <1>1, TcpAssumption DEF TcpTypeOK, Map
<1>3. LoopOK /\ OwnAddress /\ FreshReported /\ EndedConnsReported /\ NeverHadClients
  BY DEF LoopOK, OwnAddress, FreshReported, EndedConnsReported, NeverHadClients
<1>4. Sole /\ SoleFresh
  BY DEF Sole, SoleFresh
<1> QED
  BY <1>2, <1>3, <1>4 DEF TcpInv

(* accept() yields a connection. *)
LEMMA AcceptInv ==
  ASSUME TcpInv, NEW a \in Addr, Accept(a)
  PROVE  TcpInv'
<1> USE DEF TcpInv, Accept
<1>1. TcpTypeOK'
  BY DEF TcpTypeOK
<1>2. LoopOK' /\ OwnAddress'
  BY BaseAssumption DEF LoopOK, OwnAddress
<1>3. FreshReported' /\ EndedConnsReported' /\ NeverHadClients'
  BY DEF LoopOK, FreshReported, EndedConnsReported, NeverHadClients, Reported
<1>4. Sole'
  BY DEF Sole, Reported
<1>5. SoleFresh'
  BY DEF SoleFresh, Unfinished, Reported
<1> QED
  BY <1>1, <1>2, <1>3, <1>4, <1>5

(* The loop goes on or breaks without a connection having been made. *)
LEMMA LoopOnlyInv ==
  ASSUME TcpInv, AcceptFailsOrIdle \/ ConnectFails \/ Kill
  PROVE  TcpInv'
<1> USE DEF TcpInv, AcceptFailsOrIdle, ConnectFails, Kill
<1>1. TcpTypeOK' /\ LoopOK' /\ OwnAddress'
  BY DEF TcpTypeOK, LoopOK, OwnAddress
<1>2. FreshReported' /\ EndedConnsReported' /\ NeverHadClients'
  BY DEF LoopOK, FreshReported, EndedConnsReported, NeverHadClients, Reported
<1>3. Sole' /\ SoleFresh'
  BY DEF LoopOK, Sole, SoleFresh, Unfinished, Reported
<1> QED
  BY <1>1, <1>2, <1>3

(* The connection's task is spawned. *)
LEMMA ConnectInv ==
  ASSUME TcpInv, NEW c \in Conn, Connect(c)
  PROVE  TcpInv'
<1> USE DEF TcpInv, Connect
<1>1. from \in Addr /\ fresh = None
  BY DEF TcpTypeOK, LoopOK
<1>2. /\ conn'[c] = "running" /\ caddr'[c] = from
      /\ \A d \in Conn : d # c => conn'[d] = conn[d] /\ caddr'[d] = caddr[d]
  BY DEF TcpTypeOK, Map
<1>3. TcpTypeOK'
  BY <1>1 DEF TcpTypeOK, Map
<1>4. LoopOK'
  BY TcpAssumption DEF LoopOK
<1>5. clients \in Map(Addr, Conn) /\ \A a \in Addr : clients[a] # None => clients[a] \in Conn
  BY DEF TcpTypeOK, Map
<1>6. OwnAddress'
  BY <1>1, <1>2, <1>5 DEF OwnAddress
<1>7. FreshReported' /\ NeverHadClients'
  BY <1>2 DEF FreshReported, NeverHadClients
<1>8. EndedConnsReported'
  BY <1>2, <1>5 DEF EndedConnsReported, Reported
<1>9. Sole'
  <2>1. \A d \in Conn : d # None
    BY TcpAssumption
  <2>2. ASSUME NEW d \in Conn, d # c, conn'[d] # "done", caddr'[d] \notin reused'
        PROVE  clients'[caddr'[d]] = d /\ ~Reported(caddr[d])'
    BY <1>1, <1>2, <2>1, <2>2 DEF Sole, Reported
  <2>3. caddr'[c] \notin reused' => ~Reported(caddr[c])'
    BY <1>2 DEF SoleFresh, Unfinished, Reported
  <2> QED BY <2>2, <2>3 DEF Sole
<1>10. SoleFresh'
  BY <1>2 DEF SoleFresh, Unfinished
<1> QED
  BY <1>3, <1>4, <1>6, <1>7, <1>8, <1>9, <1>10

(* clients.insert: the entry may be that of a connection that is over. *)
LEMMA InsertInv == ASSUME TcpInv, Insert PROVE TcpInv'
<1> USE DEF TcpInv, Insert
<1>1. from \in Addr /\ fresh \in Conn /\ fresh # None
  BY DEF TcpTypeOK, LoopOK
<1>2. /\ clients'[from] = fresh
      /\ \A a \in Addr : a # from => clients'[a] = clients[a]
  BY <1>1 DEF TcpTypeOK, Map
<1>3. TcpTypeOK' /\ LoopOK'
  BY <1>1 DEF TcpTypeOK, LoopOK, Map
<1>4. OwnAddress'
  BY <1>1, <1>2 DEF OwnAddress
<1>5. FreshReported' /\ NeverHadClients'
  BY <1>1, <1>2 DEF FreshReported, NeverHadClients
<1>6. EndedConnsReported'
  BY <1>1, <1>2 DEF EndedConnsReported, FreshReported, Reported
<1>7. Sole'
  BY <1>1, <1>2 DEF OwnAddress, Sole, SoleFresh, Reported
<1>8. SoleFresh'
  BY DEF SoleFresh
<1> QED
  BY <1>3, <1>4, <1>5, <1>6, <1>7, <1>8

(* run() is over, however it ended. *)
LEMMA OverInv ==
  ASSUME TcpInv, Over, aborted' \in BOOLEAN, sentEnd' \in BOOLEAN
  PROVE  TcpInv'
<1> USE DEF TcpInv, Over, EmptyMap
<1>1. ended' \in Seq(Addr) /\ Len(ended') = 0
  BY EmptySeq
<1>2. TcpTypeOK'
  BY <1>1, TcpAssumption DEF TcpTypeOK, Map
<1>3. LoopOK' /\ OwnAddress' /\ FreshReported' /\ EndedConnsReported' /\ NeverHadClients'
  BY DEF LoopOK, OwnAddress, FreshReported, EndedConnsReported, NeverHadClients
<1>4. Sole' /\ SoleFresh'
  BY DEF Sole, SoleFresh
<1> QED
  BY <1>2, <1>3, <1>4

(* A report is handled: whichever connection its address has goes. *)
LEMMA ClientEndedInv == ASSUME TcpInv, OnClientEnded PROVE TcpInv'
<1> USE DEF TcpInv
<1> DEFINE b == Head(ended)
<1>1. /\ pc = "select" /\ fresh = None /\ fresh' = None /\ from' = None /\ from = None
      /\ UNCHANGED <<aborted, sentEnd, conn, caddr, reused>>
      /\ pc' \in {"select", "ending"}
  BY DEF OnClientEnded, LoopOK
<1>2. /\ b \in Addr /\ Reported(b) /\ ended' \in Seq(Addr) /\ Len(ended') <= EndCap
      /\ \A a : Reported(a)' => Reported(a)
      /\ \A a : Reported(a) /\ a # b => Reported(a)'
  <2>1. ended \in Seq(Addr) /\ ended # <<>> /\ ended' = Tail(ended) /\ Len(ended) <= EndCap
    BY DEF TcpTypeOK, OnClientEnded
  <2>2. /\ b \in Addr /\ Among(ended, b) /\ ended' \in Seq(Addr)
        /\ Len(ended) \in Nat /\ Len(ended') = Len(ended) - 1
        /\ \A a : Among(ended', a) => Among(ended, a)
        /\ \A a : Among(ended, a) /\ a # b => Among(ended', a)
    BY <2>1, AmongTail
  <2>3. Len(ended') <= EndCap
    BY <2>1, <2>2, TcpAssumption
  <2> QED BY <2>2, <2>3 DEF Among, Reported
<1>3. /\ clients' \in Map(Addr, Conn) /\ clients'[b] = None
      /\ \A a \in Addr : a # b => clients'[a] = clients[a]
  BY <1>2 DEF OnClientEnded, TcpTypeOK, Map
<1>4. pc' = "select" => \E a \in Addr : clients'[a] # None
  BY DEF OnClientEnded
<1> HIDE DEF b
<1>5. TcpTypeOK' /\ LoopOK'
  BY <1>1, <1>2, <1>3 DEF TcpTypeOK, LoopOK
<1>6. OwnAddress' /\ FreshReported' /\ NeverHadClients'
  BY <1>1, <1>3, <1>4 DEF OwnAddress, FreshReported, NeverHadClients
<1>7. EndedConnsReported'
  BY <1>1, <1>2, <1>3 DEF EndedConnsReported
<1>8. Sole'
  BY <1>1, <1>2, <1>3 DEF Sole, OwnAddress
<1>9. SoleFresh'
  BY <1>1 DEF SoleFresh
<1> QED
  BY <1>5, <1>6, <1>7, <1>8, <1>9

(* A connection's loop breaks. *)
LEMMA ConnStopsInv ==
  ASSUME TcpInv, NEW c \in Conn, ConnStops(c)
  PROVE  TcpInv'
<1> USE DEF TcpInv, ConnStops, ownVars
<1>1. \A d \in Conn : conn'[d] = IF d = c THEN "reporting" ELSE conn[d]
  BY DEF TcpTypeOK
<1>2. TcpTypeOK' /\ LoopOK'
  BY DEF TcpTypeOK, LoopOK
<1>3. OwnAddress' /\ NeverHadClients'
  BY <1>1 DEF OwnAddress, NeverHadClients
<1>4. fresh # None => fresh \in Conn
  BY DEF TcpTypeOK
<1>5. \A a \in Addr : clients[a] # None => clients[a] \in Conn
  BY DEF TcpTypeOK, Map
<1>6. FreshReported' /\ EndedConnsReported'
  BY <1>1, <1>4, <1>5 DEF FreshReported, EndedConnsReported, Reported
<1>7. Sole' /\ SoleFresh'
  BY <1>1 DEF Sole, SoleFresh, Unfinished, Reported
<1> QED
  BY <1>2, <1>3, <1>6, <1>7

(* A connection reports its end, or finds its endpoint gone. *)
LEMMA ConnReportsInv ==
  ASSUME TcpInv, NEW c \in Conn, ConnReports(c)
  PROVE  TcpInv'
<1> USE DEF TcpInv
<1>1. /\ conn[c] = "reporting" /\ UNCHANGED <<ownVars, caddr, reused>>
      /\ \A d \in Conn : conn'[d] = IF d = c THEN "done" ELSE conn[d]
      /\ conn' \in [Conn -> {"running", "reporting", "done"}]
  BY DEF ConnReports, TcpTypeOK
<1> USE DEF ownVars
<1>2. caddr[c] \in Addr
  BY <1>1 DEF OwnAddress
<1>3. /\ fresh # None => fresh \in Conn
      /\ \A a \in Addr : clients[a] # None => clients[a] \in Conn
  BY DEF TcpTypeOK, Map
<1>4. CASE pc = "ended"
  <2>1. ended' = ended /\ fresh = None
    BY <1>4 DEF ConnReports, LoopOK
  <2> QED BY <1>1, <1>4, <2>1
      DEF TcpTypeOK, LoopOK, OwnAddress, FreshReported, EndedConnsReported, NeverHadClients,
          Sole, SoleFresh
<1>5. CASE pc # "ended"
  <2>1. /\ ended' \in Seq(Addr) /\ Len(ended') <= EndCap
        /\ \A a : Reported(a)' <=> Reported(a) \/ a = caddr[c]
    <3>1. ended \in Seq(Addr) /\ Len(ended) < EndCap /\ ended' = Append(ended, caddr[c])
      BY <1>5 DEF TcpTypeOK, ConnReports
    <3>2. /\ ended' \in Seq(Addr) /\ Len(ended) \in Nat /\ Len(ended') = Len(ended) + 1
          /\ \A a : Among(ended', a) <=> Among(ended, a) \/ a = caddr[c]
      BY <1>2, <3>1, AmongAppend
    <3>3. Len(ended') <= EndCap
      BY <3>1, <3>2, TcpAssumption
    <3> QED BY <3>2, <3>3 DEF Among, Reported
  <2>2. TcpTypeOK' /\ LoopOK'
    BY <1>1, <1>5, <2>1 DEF TcpTypeOK, LoopOK
  <2>3. OwnAddress' /\ NeverHadClients'
    BY <1>1 DEF OwnAddress, NeverHadClients
  <2>4. FreshReported' /\ EndedConnsReported'
    BY <1>1, <1>3, <2>1 DEF FreshReported, EndedConnsReported, OwnAddress
  <2>5. ASSUME NEW d \in Conn, conn[d] # "done", d # c, caddr[d] = caddr[c]
        PROVE  caddr[d] \in reused
    <3>1. SUFFICES ASSUME caddr[d] \notin reused PROVE FALSE
      OBVIOUS
    <3>2. /\ fresh = d \/ clients[caddr[d]] = d
          /\ fresh = c \/ clients[caddr[d]] = c
      BY <1>1, <1>5, <2>5, <3>1 DEF Sole
    <3>3. fresh \in {c, d} /\ pc = "insert" /\ caddr[d] = from
      BY <2>5, <3>2, TcpAssumption DEF LoopOK, OwnAddress
    <3> QED BY <1>1, <2>5, <3>1, <3>3 DEF SoleFresh
  <2>6. Sole'
    BY <1>1, <2>1, <2>5 DEF Sole
  <2>7. SoleFresh'
    BY <1>1, <2>1 DEF SoleFresh, Unfinished
  <2> QED BY <2>2, <2>3, <2>4, <2>6, <2>7
<1> QED
  BY <1>4, <1>5

(* Every step of the endpoint, its connections or the runtime keeps the    *)
(* invariant.                                                              *)
LEMMA NextInv == TcpInv /\ [Next]_vars => TcpInv'
<1> SUFFICES ASSUME TcpInv, [Next]_vars PROVE TcpInv'
  OBVIOUS
<1>1. CASE \E a \in Addr : Accept(a)
  BY <1>1, AcceptInv
<1>2. CASE AcceptFailsOrIdle \/ ConnectFails \/ Kill
  BY <1>2, LoopOnlyInv
<1>3. CASE \E c \in Conn : Connect(c)
  BY <1>3, ConnectInv
<1>4. CASE Insert \/ OnClientEnded
  BY <1>4, InsertInv, ClientEndedInv
<1>5. CASE ConnectPanics \/ ReportEnd \/ Aborted
  <2>1. Over /\ aborted' \in BOOLEAN /\ sentEnd' \in BOOLEAN
    BY <1>5 DEF ConnectPanics, ReportEnd, Aborted, TcpInv, TcpTypeOK
  <2> QED BY <2>1, OverInv
<1>6. CASE \E c \in Conn : ConnStops(c) \/ ConnReports(c)
  BY <1>6, ConnStopsInv, ConnReportsInv
<1>7. CASE UNCHANGED vars
  <2> USE <1>7 DEF TcpInv, vars, ownVars
  <2>1. TcpTypeOK' /\ LoopOK' /\ OwnAddress' /\ NeverHadClients'
    BY DEF TcpTypeOK, LoopOK, OwnAddress, NeverHadClients
  <2>2. FreshReported' /\ EndedConnsReported' /\ Sole' /\ SoleFresh'
    BY DEF FreshReported, EndedConnsReported, Sole, SoleFresh, Unfinished, Reported
  <2> QED BY <2>1, <2>2
<1> QED
  BY <1>1, <1>2, <1>3, <1>4, <1>5, <1>6, <1>7 DEF Next, OnAccept

-----------------------------------------------------------------------------
(* The theorems *)

(* The inductive invariant holds in every reachable state. *)
THEOREM Invariance == Spec => []TcpInv
  BY InitInv, NextInv, PTL DEF Spec

(* Every variable keeps its type, and the channel of reports its bound. *)
THEOREM TypeCorrect == Spec => []TcpTypeOK
<1>1. TcpInv => TcpTypeOK
  BY DEF TcpInv
<1> QED
  BY <1>1, Invariance, PTL

(* ProxyTcpClient::run and run(): an entry whose connection is over has    *)
(* its ClientEnded report on the way, even if it ended before its insert.  *)
THEOREM EndedReported == Spec => []EndedConnsReported
<1>1. TcpInv => EndedConnsReported
  BY DEF TcpInv
<1> QED
  BY <1>1, Invariance, PTL

(* What ClosesWhenUnused says of a state and of a step. *)
UnusedIsNew ==
  pc = "select" /\ (\A a \in Addr : clients[a] = None) => \A c \in Conn : caddr[c] = None

ClosesUnused ==
  pc = "select" /\ ended # <<>> /\ ended' = Tail(ended) /\ pc' = "ending"
    => \A c \in Conn : conn[c] = "running" => caddr[c] \in reused

(* The report that closes the listener is for the last entry, and an       *)
(* address with a running connection of its own has no report.             *)
LEMMA NextCloses == TcpInv /\ [Next]_vars => ClosesUnused
<1> SUFFICES ASSUME TcpInv, [Next]_vars, pc = "select", ended # <<>>,
                    ended' = Tail(ended), pc' = "ending",
                    NEW c \in Conn, conn[c] = "running", caddr[c] \notin reused
             PROVE  FALSE
  BY DEF ClosesUnused
<1>1. ended \in Seq(Addr) /\ ended' # ended /\ Among(ended, Head(ended))
  BY AmongTail DEF TcpInv, TcpTypeOK
<1>2. OnClientEnded
  BY <1>1 DEF Next, vars, ownVars, Accept, AcceptFailsOrIdle, OnAccept, Connect, Insert,
              ConnectFails, ConnectPanics, ReportEnd, Kill, Aborted, Over, ConnStops, ConnReports
<1>3. fresh = None /\ c # None
  BY TcpAssumption DEF TcpInv, LoopOK
<1>4. /\ caddr[c] \in Addr /\ clients[caddr[c]] = c /\ ~Reported(caddr[c])
  BY <1>3 DEF TcpInv, OwnAddress, Sole
<1>5. clients'[caddr[c]] = None
  BY <1>2, <1>4 DEF OnClientEnded
<1>6. caddr[c] = Head(ended)
  BY <1>2, <1>3, <1>4, <1>5 DEF OnClientEnded, TcpInv, TcpTypeOK, Map
<1> QED
  BY <1>1, <1>4, <1>6 DEF Reported, Among

(* run(), the ClientEnded branch: the listener closes for lack of clients  *)
(* when it has none, and only then.                                        *)
THEOREM Closes == Spec => ClosesWhenUnused
<1>1. TcpInv => UnusedIsNew
  BY DEF TcpInv, NeverHadClients, UnusedIsNew
<1>2. TcpInv /\ [Next]_vars => [ClosesUnused]_vars
  BY NextCloses
<1>3. Spec => []UnusedIsNew /\ [][ClosesUnused]_vars
  BY <1>1, <1>2, Invariance, PTL DEF Spec
<1> QED
  BY <1>3 DEF ClosesWhenUnused, UnusedIsNew, ClosesUnused

-----------------------------------------------------------------------------
(* The endpoint is an EndpointTask *)

(* What the manager sees of `pc`, as the refinement mapping defines it. *)
PhaseOf == CASE pc = "ending" -> "ending"
             [] pc = "ended" -> "gone"
             [] OTHER -> "serving"

(* The steps of one task, in terms of the endpoint's own variables. *)
LEMMA TaskSteps ==
  /\ PhaseOf = "serving" /\ PhaseOf' = "ending" /\ UNCHANGED <<aborted, sentEnd>>
       => ET!Stop(0)
  /\ PhaseOf = "ending" /\ PhaseOf' = "gone" /\ sentEnd' = TRUE /\ UNCHANGED aborted
       => ET!Report(0)
  /\ aborted' = TRUE /\ PhaseOf' = PhaseOf /\ UNCHANGED sentEnd => ET!Kill(0)
  /\ aborted /\ PhaseOf # "gone" /\ PhaseOf' = "gone" /\ UNCHANGED <<aborted, sentEnd>>
       => ET!Abort(0)
  /\ PhaseOf = "serving" /\ PhaseOf' = "gone" /\ UNCHANGED <<aborted, sentEnd>>
       => ET!Panic(0)
  /\ PhaseOf' = PhaseOf /\ UNCHANGED <<aborted, sentEnd>> => UNCHANGED ET!taskVars
  BY DEF ET!Stop, ET!Report, ET!Kill, ET!Abort, ET!Panic, ET!taskVars, PhaseOf

(* Every step is one of the task's, or invisible to the manager. *)
LEMMA NextRefines == TcpInv /\ [Next]_vars => [ET!FragileTaskNext]_(ET!taskVars)
<1> SUFFICES ASSUME TcpInv, [Next]_vars
             PROVE  \/ \E i \in {0} : \/ ET!Stop(i) \/ ET!Report(i) \/ ET!Kill(i)
                                     \/ ET!Abort(i) \/ ET!Panic(i)
                    \/ UNCHANGED ET!taskVars
  BY DEF ET!FragileTaskNext, ET!TaskNext
<1> USE DEF PhaseOf
<1>1. CASE AcceptFailsOrIdle
  BY <1>1, TaskSteps DEF AcceptFailsOrIdle
<1>2. CASE OnClientEnded
  BY <1>2, TaskSteps DEF OnClientEnded
<1>3. CASE ReportEnd
  BY <1>3, TaskSteps DEF ReportEnd, Over
<1>4. CASE Kill
  BY <1>4, TaskSteps DEF Kill
<1>5. CASE Aborted
  BY <1>5, TaskSteps DEF Aborted, Over
<1>6. CASE ConnectPanics
  BY <1>6, TaskSteps DEF ConnectPanics, Over
<1>7. CASE (\E a \in Addr : Accept(a)) \/ (\E c \in Conn : Connect(c)) \/ Insert \/ ConnectFails
  BY <1>7, TaskSteps DEF Accept, Connect, Insert, ConnectFails
<1>8. CASE \/ \E c \in Conn : ConnStops(c) \/ ConnReports(c)
           \/ UNCHANGED vars
  BY <1>8, TaskSteps DEF ConnStops, ConnReports, vars, ownVars
<1> QED
  BY <1>1, <1>2, <1>3, <1>4, <1>5, <1>6, <1>7, <1>8 DEF Next, OnAccept

(* Seen by its manager the tcp endpoint is a task that serves until its    *)
(* loop ends, reports that once and as its last step, may be killed at any *)
(* time, and may panic: the safety part of LifecycleSpec.                  *)
THEOREM Lifecycle == Spec => ET!FragileTaskSafety
<1>1. Init => ET!TaskInit
  BY DEF Init, ET!TaskInit
<1> QED
  BY <1>1, NextRefines, Invariance, PTL DEF Spec, ET!FragileTaskSafety
=============================================================================
