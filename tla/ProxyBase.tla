------------------------------ MODULE ProxyBase ------------------------------
(***************************************************************************)
(* The vocabulary shared by the modules that model rrr-proxy.  Names,      *)
(* addresses and datagrams are opaque: the code only ever compares them.   *)
(***************************************************************************)
EXTENDS Naturals

CONSTANTS
  Addr,      \* socket addresses of clients (std::net::SocketAddr)
  Target,    \* socket addresses of media servers, already resolved
  Session,   \* session ids of the allocation API
  Ufrag,     \* ICE ufrags: the keys of the pooled routing table
  None       \* the absent value of an Option or of a map lookup

ASSUME BaseAssumption == None \notin Addr \cup Target \cup Session \cup Ufrag

(* A map with keys in K and values in V; None where a key is absent. *)
Map(K, V) == [K -> V \cup {None}]

EmptyMap(K) == [k \in K |-> None]
=============================================================================
