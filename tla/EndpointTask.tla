---------------------------- MODULE EndpointTask -----------------------------
(***************************************************************************)
(* The life of per-session endpoint tasks as the ProxyManager sees it.     *)
(* An endpoint serves until its loop ends, reports EndpointEnded to the    *)
(* manager once, and is gone.  The manager may kill it at any time; the    *)
(* abort is asynchronous, so a killed task may still end and report.       *)
(* UdpEndpoint and, with panics, TcpEndpoint implement this; ProxyManager  *)
(* builds on it.                                                           *)
(***************************************************************************)
EXTENDS ProxyBase

CONSTANT Inst     \* identities of endpoint tasks

VARIABLES
  phase,          \* "serving", "ending" (loop over, to report) or "gone"
  killed,         \* whether endpoint_handle.abort() was called
  reported        \* whether EndpointEnded was sent

taskVars == <<phase, killed, reported>>

Phase == {"serving", "ending", "gone"}

TaskTypeOK ==
  /\ phase \in [Inst -> Phase]
  /\ killed \in [Inst -> BOOLEAN]
  /\ reported \in [Inst -> BOOLEAN]

(* The loop breaks. *)
Stop(i) ==
  /\ phase[i] = "serving"
  /\ phase' = [phase EXCEPT ![i] = "ending"]
  /\ UNCHANGED <<killed, reported>>

(* msg_tx.send(EndpointEnded) completes and run() returns. *)
Report(i) ==
  /\ phase[i] = "ending"
  /\ phase' = [phase EXCEPT ![i] = "gone"]
  /\ reported' = [reported EXCEPT ![i] = TRUE]
  /\ UNCHANGED killed

(* kill(): the runtime is told to abort the task. *)
Kill(i) ==
  /\ killed' = [killed EXCEPT ![i] = TRUE]
  /\ UNCHANGED <<phase, reported>>

(* The runtime drops a killed task. *)
Abort(i) ==
  /\ killed[i] /\ phase[i] # "gone"
  /\ phase' = [phase EXCEPT ![i] = "gone"]
  /\ UNCHANGED <<killed, reported>>

(* The task panics: it is gone, and reports nothing. *)
Panic(i) ==
  /\ phase[i] = "serving"
  /\ phase' = [phase EXCEPT ![i] = "gone"]
  /\ UNCHANGED <<killed, reported>>

TaskInit ==
  /\ phase = [i \in Inst |-> "serving"]
  /\ killed = [i \in Inst |-> FALSE]
  /\ reported = [i \in Inst |-> FALSE]

TaskNext == \E i \in Inst : Stop(i) \/ Report(i) \/ Kill(i) \/ Abort(i)

TaskSafety == TaskInit /\ [][TaskNext]_taskVars

TaskSpec ==
  /\ TaskSafety
  /\ \A i \in Inst : WF_taskVars(Report(i)) /\ WF_taskVars(Abort(i))

(* Tasks that may also panic: the tcp endpoints. *)
FragileTaskNext == TaskNext \/ \E i \in Inst : Panic(i)

FragileTaskSafety == TaskInit /\ [][FragileTaskNext]_taskVars

FragileTaskSpec ==
  /\ FragileTaskSafety
  /\ \A i \in Inst : WF_taskVars(Report(i)) /\ WF_taskVars(Abort(i))
=============================================================================
