------------------------------- MODULE Process -------------------------------
(***************************************************************************)
(* The process as main() of src/main.rs runs it: with_udp_pool first       *)
(* (module UdpPool), and when that succeeds the four services under one    *)
(* try_join! (module Registration).  Signals are caught only from then on. *)
(***************************************************************************)
EXTENDS UdpPool, Registration

vars == <<poolVars, regVars>>

Init == PoolInit /\ RegInit

(* Mutant of Started: a failed startup is only logged. *)
StartedAnyhow == status # "binding"

(* with_udp_pool(...)? returned a manager. *)
Started == status \in {"pooled", "per_session"}

Startup == ~exited /\ WithUdpPool /\ UNCHANGED regVars

(* main returns the error of with_udp_pool. *)
StartupFails ==
  /\ ~exited /\ status = "failed"
  /\ exited' = TRUE
  /\ UNCHANGED <<poolVars, max_attempt, phase, attempts, chan, outgoing, signal, heard, cut>>

(* A signal before Signals::new ends the process at once. *)
EarlySignal ==
  /\ ~exited /\ status = "binding"
  /\ exited' = TRUE
  /\ UNCHANGED <<poolVars, max_attempt, phase, attempts, chan, outgoing, signal, heard, cut>>

(* A step of one of the services. *)
Service(Step) == Started /\ Step /\ UNCHANGED poolVars

Next == Startup \/ StartupFails \/ EarlySignal \/ Service(Serve)

Spec == Init /\ [][Next]_vars

(* Startup does not await anything, and the two sleeps end.  Nothing is    *)
(* assumed of the server, of signals or of the services; neither           *)
(* connect_async nor the write of the registration has a timeout, so an    *)
(* attempt may also go on for ever.                                        *)
FairSpec ==
  /\ Spec
  /\ WF_vars(Startup) /\ WF_vars(StartupFails)
  /\ WF_vars(Service(Retry)) /\ WF_vars(Service(DrainOver))

-----------------------------------------------------------------------------
(* Properties *)

ProcessTypeOK == PoolTypeOK /\ RegistrationTypeOK

(* The control server hears of a proxy only when it can serve: one that    *)
(* has registered, or queued anything for the control server, runs with a  *)
(* dedicated port per session or has a pooled socket to hand out (the      *)
(* order of main and the `?` after with_udp_pool).                         *)
RegisteredCanServe ==
  phase # "connecting" \/ chan # <<>>
    => status = "per_session" \/ (status = "pooled" /\ pool # <<>>)

(* An attempt that the server never answers. *)
Hangs == [](Started /\ phase = "connecting")

(* From startup on, a proxy that is not registered gets registered or      *)
(* ends, unless the server leaves an attempt without an answer for ever:   *)
(* it does not go from one attempt to the next without end (main,          *)
(* RegisterAgent::run with its maximum of attempts).  Nor does one whose   *)
(* connections keep ending go on for ever: cur_attempt is not reset by a   *)
(* successful registration, so a server that keeps closing ends the proxy  *)
(* as surely as one that cannot be reached.  Both hold for every maximum   *)
(* but the largest u16, which the counter cannot exceed.                   *)
RegistersOrEnds ==
  max_attempt + 1 < AttemptLimit
    => /\ phase # "up" ~> phase = "up" \/ exited \/ Hangs
       /\ []<>(phase = "sleeping") => <>exited
=============================================================================
