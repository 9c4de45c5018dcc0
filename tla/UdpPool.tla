------------------------------- MODULE UdpPool -------------------------------
(***************************************************************************)
(* Startup of the udp side: ProxyManager::with_udp_pool of src/proxy.rs    *)
(* and PooledUdpEndpointHandler::bind of src/proxy/udp_pooled.rs, for any  *)
(* configured pool size and base port.  Sockets are bound one by one; a    *)
(* socket that does not bind is skipped.  Module Process goes on from here. *)
(***************************************************************************)
EXTENDS Naturals, SequencesExt

CONSTANTS
  MaxPort,   \* the largest port number (65535 in the code)
  MaxSize    \* largest pool size considered (a bound of the model)

ASSUME PoolAssumption == MaxPort \in Nat \ {0} /\ MaxSize \in Nat

Port == 1..MaxPort

VARIABLES
  size,      \* pool_size
  base,      \* base_port; 0 for ephemeral ports
  i,         \* loop counter
  pool,      \* the local ports of udp_pool
  status     \* "binding", then "pooled", "per_session" or "failed"

poolVars == <<size, base, i, pool, status>>

PoolTypeOK ==
  /\ size \in 0..MaxSize
  /\ base \in 0..MaxPort
  /\ i \in 0..size
  /\ pool \in Seq(Port) /\ Len(pool) <= i
  /\ status \in {"binding", "pooled", "per_session", "failed"}

PoolInit ==
  /\ size \in 0..MaxSize
  /\ base \in 0..MaxPort
  /\ i = 0
  /\ pool = <<>>
  /\ status = "binding"

(* Mutant of Binding: one round too many. *)
BindingOnceMore == status = "binding" /\ i <= size

(* The loop has another socket to bind. *)
Binding == status = "binding" /\ i < size

(* Mutant of OutOfRange: wrapping_add. *)
OutOfRangeNever == FALSE

(* base_port.checked_add(i) has no result. *)
OutOfRange == base # 0 /\ base + i > MaxPort

(* The port to bind, in the width of a port; 0 for any. *)
Asked == IF base = 0 THEN 0 ELSE (base + i) % (MaxPort + 1)

(* The socket sets SO_REUSEPORT. *)
SharesPort == Asked # 0

(* The local ports the system may give to the socket: the one asked for,   *)
(* or an ephemeral one, which another socket may only have if both share.  *)
Candidates ==
  IF Asked # 0 THEN {Asked}
  ELSE IF SharesPort THEN Port ELSE Port \ ToSet(pool)

(* The port range is exceeded: the whole startup fails. *)
ExceedsRange ==
  /\ Binding /\ OutOfRange
  /\ status' = "failed"
  /\ UNCHANGED <<size, base, i, pool>>

(* bind(port) succeeds. *)
Bind(p) ==
  /\ Binding /\ ~OutOfRange
  /\ p \in Candidates
  /\ pool' = Append(pool, p)
  /\ i' = i + 1
  /\ UNCHANGED <<size, base, status>>

(* bind(port) fails; the socket is skipped. *)
BindFails ==
  /\ Binding /\ ~OutOfRange
  /\ i' = i + 1
  /\ UNCHANGED <<size, base, pool, status>>

Outcome ==
  CASE size = 0 -> "per_session"
    [] size > 0 /\ pool = <<>> -> "failed"
    [] OTHER -> "pooled"

(* The loop is over. *)
Finish ==
  /\ status = "binding" /\ i = size
  /\ status' = Outcome
  /\ UNCHANGED <<size, base, i, pool>>

WithUdpPool == ExceedsRange \/ (\E p \in Port : Bind(p)) \/ BindFails \/ Finish

-----------------------------------------------------------------------------
(* Properties *)

(* No two pooled sockets have the same local port, so that DELETE, which   *)
(* looks a socket up by its port, finds the one that was handed out: "An   *)
(* ephemeral one must not set it: the kernel may then hand out a port      *)
(* already held by another pooled socket of this uid" (bind).  With a base *)
(* port the pool lies in base_port .. base_port + size - 1, in order and   *)
(* within the port range, whichever sockets fail ("the pool takes          *)
(* consecutive ports", UDP_POOL_BASE_PORT).                                *)
PoolPorts ==
  /\ \A m, n \in 1..Len(pool) : m # n => pool[m] # pool[n]
  /\ base # 0 => /\ \A n \in 1..Len(pool) : pool[n] \in base..(base + size - 1) \cap Port
                 /\ \A m, n \in 1..Len(pool) : m < n => pool[m] < pool[n]
=============================================================================
