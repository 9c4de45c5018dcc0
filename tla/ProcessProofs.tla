---------------------------- MODULE ProcessProofs ----------------------------
(***************************************************************************)
(* Proofs about Process: the startup of the udp pool for any port range    *)
(* and pool size, and the registration for any maximum of attempts.        *)
(*                                                                         *)
(* The argument: with a base port the sockets bound so far lie below the   *)
(* next one to try, and an ephemeral one is none of them.  Nothing enters  *)
(* the message channel, or leaves "connecting", before startup succeeded,  *)
(* and startup succeeds with a pool only if it bound a socket.             *)
(***************************************************************************)
EXTENDS Process, SequenceTheorems, TLAPS

(* The ports bound so far lie below the next one to try. *)
PortsSoFar ==
  base # 0 => \A n \in 1..Len(pool) : pool[n] >= base /\ pool[n] < base + i

(* A pool that was handed to main is not empty. *)
PooledHasSockets == status = "pooled" => pool # <<>>

(* The services run only after a successful startup. *)
ServicesAfterStartup == phase # "connecting" \/ chan # <<>> => Started

(* The agent goes on only while it may try again. *)
AttemptsLeft == ~exited => attempts <= max_attempt

(* The inductive invariant. *)
ProcessInv ==
  /\ ProcessTypeOK
  /\ PortsSoFar
  /\ PoolPorts
  /\ PooledHasSockets
  /\ ServicesAfterStartup
  /\ AttemptsLeft
  /\ DeregistrationKept

-----------------------------------------------------------------------------
(* The operators of the model *)

(* A counter that does not reach its limit does not wrap. *)
LEMMA NoWrap == ASSUME NEW n \in Nat, NEW m \in Nat, n < m PROVE n % m = n
  OBVIOUS

(* A counter keeps its width. *)
LEMMA Wraps == ASSUME NEW n \in Nat, NEW m \in Nat \ {0} PROVE n % m \in 0..(m - 1)
  OBVIOUS

(* The port asked for is base_port + i, or any when base_port is 0. *)
LEMMA AskedPort ==
  ASSUME ProcessTypeOK, ~OutOfRange
  PROVE  /\ base # 0 => Candidates = {base + i}
         /\ base = 0 => Candidates = Port \ ToSet(pool)
<1>1. base \in Nat /\ i \in Nat /\ MaxPort \in Nat
  BY PoolAssumption DEF ProcessTypeOK, PoolTypeOK
<1>2. CASE base # 0
  <2>1. base + i \in Nat /\ base + i # 0 /\ base + i < MaxPort + 1
    BY <1>1, <1>2 DEF OutOfRange
  <2>2. (base + i) % (MaxPort + 1) = base + i
    BY <1>1, <2>1, NoWrap
  <2>3. Asked = base + i
    BY <1>2, <2>2 DEF Asked
  <2> QED BY <1>2, <2>1, <2>3 DEF Candidates
<1>3. CASE base = 0
  BY <1>3 DEF Asked, SharesPort, Candidates
<1> QED
  BY <1>2, <1>3

(* What a send and a receive do to the message channel. *)
LEMMA SendMessage ==
  ASSUME NEW q \in Seq(Message), NEW m \in Message
  PROVE  /\ Append(q, m) \in Seq(Message)
         /\ Contains(Append(q, m), m)
         /\ \A x : Contains(q, x) => Contains(Append(q, m), x)
<1>1. /\ Append(q, m) \in Seq(Message) /\ Len(q) \in Nat
      /\ Len(Append(q, m)) = Len(q) + 1
      /\ Append(q, m)[Len(q) + 1] = m
      /\ \A n \in 1..Len(q) : Append(q, m)[n] = q[n]
  BY AppendProperties, LenProperties
<1>2. /\ Len(q) + 1 \in 1..Len(Append(q, m))
      /\ \A n \in 1..Len(q) : n \in 1..Len(Append(q, m))
  BY <1>1
<1> QED
  BY <1>1, <1>2 DEF Contains

LEMMA TakeMessage ==
  ASSUME NEW q \in Seq(Message), q # <<>>
  PROVE  /\ Head(q) \in Message /\ Tail(q) \in Seq(Message)
         /\ \A x : Contains(q, x) => x = Head(q) \/ Contains(Tail(q), x)
<1>1. /\ Head(q) = q[1] /\ Head(q) \in Message /\ Tail(q) \in Seq(Message)
      /\ Len(q) \in Nat /\ Len(Tail(q)) = Len(q) - 1
      /\ \A n \in 1..Len(Tail(q)) : Tail(q)[n] = q[n + 1]
  BY HeadTailProperties, EmptySeq, LenProperties
<1>2. ASSUME NEW x, Contains(q, x), x # Head(q) PROVE Contains(Tail(q), x)
  <2>1. PICK n \in 1..Len(q) : q[n] = x
    BY <1>2 DEF Contains
  <2>2. n # 1 /\ n - 1 \in 1..Len(Tail(q)) /\ (n - 1) + 1 = n
    BY <1>1, <1>2, <2>1
  <2> QED BY <1>1, <2>1, <2>2 DEF Contains
<1> QED
  BY <1>1, <1>2

-----------------------------------------------------------------------------
(* The inductive step *)

(* A process that was just started is in order. *)
LEMMA InitInv == Init => ProcessInv
<1> SUFFICES ASSUME Init PROVE ProcessInv
  OBVIOUS
<1> USE DEF Init, PoolInit, RegInit
<1>1. pool \in Seq(Port) /\ Len(pool) = 0 /\ chan \in Seq(Message)
  BY EmptySeq
<1>2. 0 \in 0..size /\ 0 \in 0..(AttemptLimit - 1) /\ 0 <= max_attempt
  BY PoolAssumption, AttemptAssumption
<1>3. ProcessTypeOK
  <2>1. PoolTypeOK
    BY <1>1, <1>2 DEF PoolTypeOK
  <2>2. RegistrationTypeOK
    BY <1>1, <1>2 DEF RegistrationTypeOK
  <2> QED BY <2>1, <2>2 DEF ProcessTypeOK
<1>4. PortsSoFar /\ PoolPorts
  BY <1>1 DEF PortsSoFar, PoolPorts
<1>5. PooledHasSockets /\ ServicesAfterStartup /\ AttemptsLeft /\ DeregistrationKept
  BY <1>2 DEF PooledHasSockets, ServicesAfterStartup, AttemptsLeft, DeregistrationKept
<1> QED
  BY <1>3, <1>4, <1>5 DEF ProcessInv

(* A socket binds: its port is a new one and, with a base port, the        *)
(* highest so far.                                                         *)
LEMMA BindInv ==
  ASSUME ProcessInv, UNCHANGED regVars, NEW p \in Port, Bind(p)
  PROVE  ProcessInv'
<1> USE DEF ProcessInv
<1>1. /\ status = "binding" /\ i < size /\ ~OutOfRange /\ p \in Candidates
      /\ pool' = Append(pool, p) /\ i' = i + 1 /\ UNCHANGED <<size, base, status>>
  BY DEF Bind, Binding
<1>2. /\ pool \in Seq(Port) /\ size \in Nat /\ base \in Nat /\ i \in Nat /\ Len(pool) <= i
  BY PoolAssumption DEF ProcessTypeOK, PoolTypeOK
<1>3. /\ pool' \in Seq(Port) /\ Len(pool) \in Nat /\ Len(pool') = Len(pool) + 1
      /\ \A n \in 1..Len(pool) : pool'[n] = pool[n] /\ pool[n] \in Port /\ pool[n] \in Nat
      /\ pool'[Len(pool) + 1] = p /\ p \in Nat
      /\ \A n \in 1..Len(pool') : n \in 1..Len(pool) \/ n = Len(pool) + 1
  <2>1. Len(pool) \in Nat /\ \A n \in 1..Len(pool) : pool[n] \in Port
    BY <1>2, LenProperties, ElementOfSeq
  <2>2. /\ pool' \in Seq(Port) /\ Len(pool') = Len(pool) + 1
        /\ \A n \in 1..Len(pool) : pool'[n] = pool[n]
        /\ pool'[Len(pool) + 1] = p
    BY <1>1, <1>2, AppendProperties
  <2> QED BY <2>1, <2>2 DEF Port
<1>4. \A n \in 1..Len(pool) : pool[n] # p /\ (base # 0 => pool[n] < p)
  <2>1. CASE base # 0
    <3>1. p = base + i
      BY <1>1, <2>1, AskedPort
    <3>2. \A n \in 1..Len(pool) : pool[n] < base + i
      BY <2>1 DEF PortsSoFar
    <3> QED BY <1>2, <1>3, <3>1, <3>2
  <2>2. CASE base = 0
    <3>1. p \notin ToSet(pool)
      BY <1>1, <2>2, AskedPort
    <3>2. DOMAIN pool = 1..Len(pool)
      BY <1>2, LenProperties
    <3> QED BY <2>2, <3>1, <3>2 DEF ToSet
  <2> QED BY <2>1, <2>2
<1>5. base # 0 => p >= base /\ p < base + i'
  BY <1>1, <1>2, AskedPort
<1>6. PortsSoFar'
  BY <1>1, <1>2, <1>3, <1>5 DEF PortsSoFar
<1>7. i' \in 0..size /\ Len(pool') <= i'
  BY <1>1, <1>2, <1>3
<1>8. ProcessTypeOK'
  BY <1>1, <1>3, <1>7 DEF ProcessTypeOK, PoolTypeOK, RegistrationTypeOK, regVars
<1>9. PoolPorts'
  <2>1. ASSUME NEW m \in 1..Len(pool'), NEW n \in 1..Len(pool'), m # n
        PROVE  pool'[m] # pool'[n] /\ (base # 0 /\ m < n => pool'[m] < pool'[n])
    <3>1. CASE m \in 1..Len(pool) /\ n \in 1..Len(pool)
      BY <1>3, <2>1, <3>1 DEF PoolPorts
    <3>2. CASE m \in 1..Len(pool) /\ n = Len(pool) + 1
      BY <1>3, <1>4, <3>2
    <3>3. CASE m = Len(pool) + 1 /\ n \in 1..Len(pool)
      <4>1. ~(m < n)
        BY <1>3, <3>3
      <4> QED BY <1>3, <1>4, <3>3, <4>1
    <3> QED BY <1>3, <2>1, <3>1, <3>2, <3>3
  <2>2. ASSUME base # 0, NEW n \in 1..Len(pool')
        PROVE  pool'[n] \in base..(base + size - 1) \cap Port
    <3>1. pool'[n] \in Port /\ pool'[n] \in Nat
      BY <1>3
    <3>2. pool'[n] >= base /\ pool'[n] < base + i'
      BY <1>1, <1>6, <2>2 DEF PortsSoFar
    <3> QED BY <1>2, <1>7, <3>1, <3>2
  <2> QED BY <1>1, <2>1, <2>2 DEF PoolPorts
<1>10. PooledHasSockets' /\ ServicesAfterStartup' /\ AttemptsLeft' /\ DeregistrationKept'
  BY <1>1 DEF PooledHasSockets, ServicesAfterStartup, AttemptsLeft, DeregistrationKept,
              Started, regVars
<1> QED
  BY <1>6, <1>8, <1>9, <1>10

(* The other steps of with_udp_pool. *)
LEMMA StartupInv ==
  ASSUME ProcessInv, UNCHANGED regVars, ExceedsRange \/ BindFails \/ Finish
  PROVE  ProcessInv'
<1> USE DEF ProcessInv
<1>1. /\ UNCHANGED <<size, base, pool>> /\ status = "binding"
      /\ i' \in 0..size /\ i' >= i
      /\ status' \in {"binding", "pooled", "per_session", "failed"}
      /\ status' = "pooled" => pool # <<>>
  <2>1. CASE ExceedsRange
    BY <2>1 DEF ExceedsRange, Binding, ProcessTypeOK, PoolTypeOK
  <2>2. CASE BindFails
    BY <2>2, PoolAssumption DEF BindFails, Binding, ProcessTypeOK, PoolTypeOK
  <2>3. CASE Finish
    <3>1. UNCHANGED <<size, base, i, pool>> /\ status = "binding" /\ status' = Outcome
      BY <2>3 DEF Finish
    <3>2. size \in Nat /\ i \in 0..size
      BY PoolAssumption DEF ProcessTypeOK, PoolTypeOK
    <3>3. /\ Outcome \in {"pooled", "per_session", "failed"}
          /\ Outcome = "pooled" => pool # <<>>
      BY <3>2 DEF Outcome
    <3> QED BY <3>1, <3>2, <3>3
  <2> QED BY <2>1, <2>2, <2>3
<1>2. size \in Nat /\ base \in Nat /\ i \in Nat /\ pool \in Seq(Port) /\ Len(pool) <= i
  BY PoolAssumption DEF ProcessTypeOK, PoolTypeOK
<1>3. Len(pool) \in Nat /\ \A n \in 1..Len(pool) : pool[n] \in Nat
  <2>1. Len(pool) \in Nat /\ \A n \in 1..Len(pool) : pool[n] \in Port
    BY <1>2, LenProperties, ElementOfSeq
  <2> QED BY <2>1 DEF Port
<1>4. Len(pool) <= i'
  BY <1>1, <1>2, <1>3
<1>5. ProcessTypeOK'
  BY <1>1, <1>4 DEF ProcessTypeOK, PoolTypeOK, RegistrationTypeOK, regVars
<1>6. PortsSoFar'
  BY <1>1, <1>2, <1>3 DEF PortsSoFar
<1>7. PoolPorts'
  BY <1>1 DEF PoolPorts
<1>8. PooledHasSockets' /\ ServicesAfterStartup' /\ AttemptsLeft' /\ DeregistrationKept'
  BY <1>1 DEF PooledHasSockets, ServicesAfterStartup, AttemptsLeft, DeregistrationKept,
              Started, regVars
<1> QED
  BY <1>5, <1>6, <1>7, <1>8

(* Steps that leave the pool alone. *)
LEMMA PoolKept ==
  ASSUME ProcessInv, UNCHANGED poolVars
  PROVE  PoolTypeOK' /\ PortsSoFar' /\ PoolPorts' /\ PooledHasSockets'
  BY DEF ProcessInv, ProcessTypeOK, PoolTypeOK, PortsSoFar, PoolPorts, PooledHasSockets, poolVars

(* The process ends: by a failed startup, a signal, the drain or a service. *)
LEMMA ExitInv ==
  ASSUME ProcessInv, UNCHANGED poolVars,
         exited' = TRUE, UNCHANGED <<max_attempt, phase, attempts, chan, outgoing, signal, heard, cut>>
  PROVE  ProcessInv'
  BY PoolKept DEF ProcessInv, ProcessTypeOK, RegistrationTypeOK, ServicesAfterStartup,
                  AttemptsLeft, DeregistrationKept, Started, poolVars

(* An attempt is over: what forward() held is lost with it, which `cut`    *)
(* notes, and the channel is not.                                          *)
LEMMA AttemptOverInv ==
  ASSUME ProcessInv, Started, UNCHANGED poolVars, ~exited, AttemptOver
  PROVE  ProcessInv'
<1> USE DEF ProcessInv
<1>1. attempts + 1 \in Nat /\ max_attempt \in Nat
  BY AttemptAssumption DEF ProcessTypeOK, RegistrationTypeOK
<1>2. attempts' \in 0..(AttemptLimit - 1)
  BY <1>1, AttemptAssumption, Wraps DEF AttemptOver
<1>3. exited' \in BOOLEAN /\ (~exited' => attempts' <= max_attempt)
  <2>1. exited' = (attempts' > max_attempt) /\ (attempts' > max_attempt \/ attempts' <= max_attempt)
    BY <1>1, <1>2, AttemptAssumption DEF AttemptOver
  <2>2. CASE attempts' > max_attempt
    BY <2>1, <2>2
  <2>3. CASE attempts' <= max_attempt
    <3>1. exited' \in BOOLEAN
      BY <2>1
    <3> QED BY <2>3, <3>1
  <2> QED BY <2>1, <2>2, <2>3
<1>4. /\ phase' = "sleeping" /\ outgoing' = "none" /\ cut' \in BOOLEAN
      /\ cut \/ outgoing = "deregister" => cut'
      /\ UNCHANGED <<max_attempt, chan, signal, heard>>
  BY DEF AttemptOver, ProcessTypeOK, RegistrationTypeOK
<1>5. ProcessTypeOK'
  BY <1>2, <1>3, <1>4, PoolKept DEF ProcessTypeOK, RegistrationTypeOK
<1>6. ServicesAfterStartup' /\ AttemptsLeft' /\ DeregistrationKept'
  BY <1>3, <1>4 DEF ServicesAfterStartup, AttemptsLeft, DeregistrationKept, Started, poolVars
<1> QED
  BY <1>5, <1>6, PoolKept

(* Connecting, waiting, and delivering. *)
LEMMA AgentInv ==
  ASSUME ProcessInv, Started, UNCHANGED poolVars, Register \/ Retry \/ Deliver
  PROVE  ProcessInv'
<1> USE DEF ProcessInv
<1>1. /\ UNCHANGED <<max_attempt, attempts, chan, signal, exited, cut>>
      /\ phase' \in {"connecting", "up", "sleeping"} /\ outgoing' \in Message \cup {"none"}
      /\ heard' \in BOOLEAN /\ (heard \/ outgoing = "deregister" => heard' \/ outgoing' = "deregister")
  BY DEF Register, Retry, Deliver, ProcessTypeOK, RegistrationTypeOK
<1>2. ProcessTypeOK'
  BY <1>1, PoolKept DEF ProcessTypeOK, RegistrationTypeOK
<1>3. ServicesAfterStartup' /\ AttemptsLeft' /\ DeregistrationKept'
  BY <1>1 DEF ServicesAfterStartup, AttemptsLeft, DeregistrationKept, Started, poolVars
<1> QED
  BY <1>2, <1>3, PoolKept

(* Load reports and the deregistration enter the channel. *)
LEMMA SendInv ==
  ASSUME ProcessInv, Started, UNCHANGED poolVars, Heartbeat \/ Signal
  PROVE  ProcessInv'
<1> USE DEF ProcessInv
<1>1. PICK m \in Message : /\ chan' = Append(chan, m)
                           /\ signal' = signal \/ (signal' = "drain" /\ m = "deregister")
  BY DEF Heartbeat, Signal, Message
<1>2. UNCHANGED <<max_attempt, phase, attempts, outgoing, exited, heard, cut>>
  BY DEF Heartbeat, Signal
<1>3. chan \in Seq(Message) /\ signal \in {"none", "drain"}
  BY DEF ProcessTypeOK, RegistrationTypeOK
<1>4. /\ chan' \in Seq(Message) /\ Contains(chan', m)
      /\ \A x : Contains(chan, x) => Contains(chan', x)
  BY <1>1, <1>3, SendMessage
<1>5. ProcessTypeOK'
  BY <1>1, <1>2, <1>3, <1>4, PoolKept DEF ProcessTypeOK, RegistrationTypeOK
<1>6. ServicesAfterStartup' /\ AttemptsLeft'
  BY <1>2 DEF ServicesAfterStartup, AttemptsLeft, Started, poolVars
<1>7. DeregistrationKept'
  BY <1>1, <1>2, <1>4 DEF DeregistrationKept
<1> QED
  BY <1>5, <1>6, <1>7, PoolKept

(* forward() takes a message. *)
LEMMA TakeInv ==
  ASSUME ProcessInv, Started, UNCHANGED poolVars, Take
  PROVE  ProcessInv'
<1> USE DEF ProcessInv
<1>1. /\ outgoing = "none" /\ chan # <<>> /\ outgoing' = Head(chan) /\ chan' = Tail(chan)
      /\ UNCHANGED <<max_attempt, phase, attempts, signal, exited, heard, cut>>
  BY DEF Take
<1>2. chan \in Seq(Message)
  BY DEF ProcessTypeOK, RegistrationTypeOK
<1>3. /\ outgoing' \in Message /\ chan' \in Seq(Message)
      /\ \A x : Contains(chan, x) => x = outgoing' \/ Contains(chan', x)
  BY <1>1, <1>2, TakeMessage
<1>4. ProcessTypeOK'
  BY <1>1, <1>3, PoolKept DEF ProcessTypeOK, RegistrationTypeOK
<1>5. ServicesAfterStartup' /\ AttemptsLeft'
  BY <1>1 DEF ServicesAfterStartup, AttemptsLeft, Started, poolVars
<1>6. DeregistrationKept'
  BY <1>1, <1>3 DEF DeregistrationKept
<1> QED
  BY <1>4, <1>5, <1>6, PoolKept

(* Every step of startup, the services or a signal keeps the invariant. *)
LEMMA NextInv == ProcessInv /\ [Next]_vars => ProcessInv'
<1> SUFFICES ASSUME ProcessInv, [Next]_vars PROVE ProcessInv'
  OBVIOUS
<1>1. CASE Startup
  BY <1>1, BindInv, StartupInv DEF Startup, WithUdpPool
<1>2. CASE StartupFails \/ EarlySignal
  BY <1>2, ExitInv DEF StartupFails, EarlySignal
<1>3. CASE Service(Serve)
  <2>1. Started /\ Serve /\ UNCHANGED poolVars
    BY <1>3 DEF Service
  <2>2. CASE Register \/ Retry \/ Deliver
    BY <2>1, <2>2, AgentInv
  <2>3. CASE ConnectFails \/ Disconnect
    BY <2>1, <2>3, AttemptOverInv DEF ConnectFails, Disconnect
  <2>4. CASE Heartbeat \/ Signal
    BY <2>1, <2>4, SendInv
  <2>5. CASE Take
    BY <2>1, <2>5, TakeInv
  <2>6. CASE DrainOver \/ ServiceFails
    BY <2>1, <2>6, ExitInv DEF DrainOver, ServiceFails
  <2> QED BY <2>1, <2>2, <2>3, <2>4, <2>5, <2>6 DEF Serve
<1>4. CASE UNCHANGED vars
  BY <1>4, PoolKept DEF ProcessInv, ProcessTypeOK, RegistrationTypeOK, ServicesAfterStartup,
     AttemptsLeft, DeregistrationKept, Started, vars, poolVars, regVars
<1> QED
  BY <1>1, <1>2, <1>3, <1>4 DEF Next

-----------------------------------------------------------------------------
(* The theorems *)

(* The inductive invariant holds in every reachable state. *)
THEOREM Invariance == Spec => []ProcessInv
  BY InitInv, NextInv, PTL DEF Spec

(* Every variable keeps its type; cur_attempt keeps the width of a u16. *)
THEOREM TypeCorrect == Spec => []ProcessTypeOK
<1>1. ProcessInv => ProcessTypeOK
  BY DEF ProcessInv
<1> QED
  BY <1>1, Invariance, PTL

(* with_udp_pool and bind: the ports of the pool differ, and with a base   *)
(* port they are consecutive ones of the range.                            *)
THEOREM PortsDiffer == Spec => []PoolPorts
<1>1. ProcessInv => PoolPorts
  BY DEF ProcessInv
<1> QED
  BY <1>1, Invariance, PTL

(* main: only a proxy that can serve is heard of. *)
THEOREM ServesWhenRegistered == Spec => []RegisteredCanServe
<1>1. ProcessInv => RegisteredCanServe
  BY DEF ProcessInv, PooledHasSockets, ServicesAfterStartup, Started, RegisteredCanServe
<1> QED
  BY <1>1, Invariance, PTL

(* RegisterAgent::run and SignalHandler::run: the deregistration is lost   *)
(* only with the connection that carried it.                               *)
THEOREM Deregisters == Spec => []DeregistrationKept
<1>1. ProcessInv => DeregistrationKept
  BY DEF ProcessInv
<1> QED
  BY <1>1, Invariance, PTL

(* RegisterAgent::run: for every maximum but the largest u16 each end of an *)
(* attempt, and nothing else, moves cur_attempt on by one, up or down the   *)
(* connection may have been, and while the agent goes on it does not pass   *)
(* the maximum.  This is why the agent does not try for ever; with the      *)
(* largest u16 the count starts again at 0.                                 *)
THEOREM AttemptsAreCounted ==
  Spec => /\ [](~exited => attempts <= max_attempt)
          /\ [][max_attempt + 1 < AttemptLimit =>
                  IF phase # "sleeping" /\ phase' = "sleeping"
                  THEN attempts' = attempts + 1 ELSE attempts' = attempts]_vars
<1> DEFINE Counted ==
      max_attempt + 1 < AttemptLimit =>
        IF phase # "sleeping" /\ phase' = "sleeping"
        THEN attempts' = attempts + 1 ELSE attempts' = attempts
<1>1. ProcessInv => (~exited => attempts <= max_attempt)
  BY DEF ProcessInv, AttemptsLeft
<1>2. ProcessInv /\ [Next]_vars => [Counted]_vars
  <2> SUFFICES ASSUME ProcessInv, Next, max_attempt + 1 < AttemptLimit
               PROVE  IF phase # "sleeping" /\ phase' = "sleeping"
                      THEN attempts' = attempts + 1 ELSE attempts' = attempts
    OBVIOUS
  <2>1. CASE ~exited /\ phase # "sleeping" /\ AttemptOver
    <3>1. attempts + 1 \in Nat /\ attempts + 1 < AttemptLimit
      BY <2>1, AttemptAssumption
      DEF ProcessInv, AttemptsLeft, ProcessTypeOK, RegistrationTypeOK
    <3>2. attempts' = attempts + 1
      BY <2>1, <3>1, AttemptAssumption, NoWrap DEF AttemptOver
    <3> QED BY <2>1, <3>2 DEF AttemptOver
  <2>2. CASE ~(ConnectFails \/ Disconnect)
    <3>1. attempts' = attempts /\ (phase' = "sleeping" => phase = "sleeping")
      BY <2>2 DEF Next, Startup, StartupFails, EarlySignal, Service, Serve, Register, Retry,
         Heartbeat, Take, Deliver, Signal, DrainOver, ServiceFails, regVars
    <3> QED BY <3>1
  <2> QED BY <2>1, <2>2 DEF ConnectFails, Disconnect
<1> QED
  BY <1>1, <1>2, Invariance, PTL DEF Spec
=============================================================================
