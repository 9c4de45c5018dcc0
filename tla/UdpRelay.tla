------------------------------- MODULE UdpRelay ------------------------------
(***************************************************************************)
(* The relay tasks of src/proxy/udp_client.rs: one ProxyClient task per    *)
(* client address, spawned by allocate_handler and owned through a         *)
(* ProxyClientHandler by either a pooled or a per-session endpoint.        *)
(*                                                                         *)
(* A relay copies datagrams from its target back to its client, reads the  *)
(* DataSent notices its owner posts on its control channel, and stops on a *)
(* socket error or when idle.  When it stops it closes the control channel *)
(* and then reports ClientEnded{addr} on the owner's bounded channel.      *)
(* The owner, the relays and the runtime's abort run concurrently; an      *)
(* action is what a task does between two points where another task can    *)
(* observe it.                                                             *)
(*                                                                         *)
(* Abstracted: payloads, metrics, and the clock.  The idle timer may fire  *)
(* at any time.  Copying a reply changes no state here and has no action.  *)
(***************************************************************************)
EXTENDS ProxyBase, Sequences

CONSTANTS
  Relay,     \* identities of relay tasks; bounds how many exist at once
  CtlCap,    \* capacity of a relay's control channel (10 in the code)
  EndCap     \* capacity of the owner's ClientEnded channel (10 in the code)

ASSUME RelayAssumption ==
  /\ None \notin Relay
  /\ CtlCap \in Nat \ {0}
  /\ EndCap \in Nat \ {0}

VARIABLES
  task,      \* the relay's task: where it is in ProxyClient::run
  held,      \* whether a ProxyClientHandler for it exists
  raddr,     \* the client address it serves (ProxyClient.addr)
  rtarget,   \* the target its socket is connected to
  ctl,       \* number of DataSent messages in its control channel
  rxOpen,    \* whether control_rx is open: ~rxOpen is Sender::is_closed()
  ended      \* the owner's client_rx: addresses of ClientEnded messages

relayVars == <<task, held, raddr, rtarget, ctl, rxOpen, ended>>

TaskState == {"running", "reporting", "exiting", "done"}

RelayTypeOK ==
  /\ task \in [Relay -> TaskState]
  /\ held \in [Relay -> BOOLEAN]
  /\ raddr \in Map(Relay, Addr)
  /\ rtarget \in Map(Relay, Target)
  /\ ctl \in [Relay -> 0..CtlCap]
  /\ rxOpen \in [Relay -> BOOLEAN]
  /\ ended \in Seq(Addr)
  /\ Len(ended) <= EndCap

RelayInit ==
  /\ task = [r \in Relay |-> "done"]
  /\ held = [r \in Relay |-> FALSE]
  /\ raddr = EmptyMap(Relay)
  /\ rtarget = EmptyMap(Relay)
  /\ ctl = [r \in Relay |-> 0]
  /\ rxOpen = [r \in Relay |-> FALSE]
  /\ ended = <<>>

-----------------------------------------------------------------------------
(* What an owner does to its relays. *)

Free(r) == task[r] = "done" /\ ~held[r]

(* allocate_handler succeeds: bind, connect to t, spawn the task. *)
Spawn(r, a, t, keep) ==
  /\ Free(r)
  /\ task' = [task EXCEPT ![r] = "running"]
  /\ held' = [held EXCEPT ![r] = keep]
  /\ raddr' = [raddr EXCEPT ![r] = a]
  /\ rtarget' = [rtarget EXCEPT ![r] = t]
  /\ ctl' = [ctl EXCEPT ![r] = 0]
  /\ rxOpen' = [rxOpen EXCEPT ![r] = TRUE]
  /\ UNCHANGED ended

(* Mutant of PostDataSent: does not wait for room. *)
PostDataSentUnbounded(r) ==
  /\ rxOpen[r]
  /\ ctl' = [ctl EXCEPT ![r] = @ + 1]
  /\ UNCHANGED <<task, held, raddr, rtarget, rxOpen, ended>>

(* sender.send(DataSent) of ProxyClient::send completes: there is room. *)
PostDataSent(r) ==
  /\ rxOpen[r] /\ ctl[r] < CtlCap
  /\ ctl' = [ctl EXCEPT ![r] = @ + 1]
  /\ UNCHANGED <<task, held, raddr, rtarget, rxOpen, ended>>

(* Dropping the handlers of the relays in R aborts their tasks: ~held[r]   *)
(* with a live task is a task the runtime has been told to abort.          *)
DropHandlers(R) == held' = [r \in Relay |-> held[r] /\ r \notin R]

-----------------------------------------------------------------------------
(* What a relay task does.  An aborted task may still finish the poll it   *)
(* is in, so these steps do not require held[r].                           *)

(* control_rx.recv() yields a DataSent. *)
RelayConsume(r) ==
  /\ task[r] = "running" /\ ctl[r] > 0
  /\ ctl' = [ctl EXCEPT ![r] = @ - 1]
  /\ UNCHANGED <<task, held, raddr, rtarget, rxOpen, ended>>

(* Mutant of RelayStop: reports the end without closing control_rx first. *)
RelayStopUnclosed(r) ==
  /\ task[r] = "running"
  /\ task' = [task EXCEPT ![r] = "reporting"]
  /\ UNCHANGED <<held, raddr, rtarget, ctl, rxOpen, ended>>

(* The loop ends (idle, recv error or send_to error) and closes control_rx. *)
RelayStop(r) ==
  /\ task[r] = "running"
  /\ task' = [task EXCEPT ![r] = "reporting"]
  /\ rxOpen' = [rxOpen EXCEPT ![r] = FALSE]
  /\ UNCHANGED <<held, raddr, rtarget, ctl, ended>>

(* Mutant of RelayReport: the report is lost when it does not fit. *)
RelayReportLost(r, up) ==
  /\ task[r] = "reporting"
  /\ ended' = IF up /\ Len(ended) < EndCap THEN Append(ended, raddr[r]) ELSE ended
  /\ task' = [task EXCEPT ![r] = "exiting"]
  /\ UNCHANGED <<held, raddr, rtarget, ctl, rxOpen>>

(* msg_tx.send(ClientEnded) completes: it waits for room in the owner's    *)
(* channel, and fails at once when the owner is gone (up is FALSE).        *)
RelayReport(r, up) ==
  /\ task[r] = "reporting"
  /\ up => Len(ended) < EndCap
  /\ ended' = IF up THEN Append(ended, raddr[r]) ELSE ended
  /\ task' = [task EXCEPT ![r] = "exiting"]
  /\ UNCHANGED <<held, raddr, rtarget, ctl, rxOpen>>

(* The task is gone and with it control_rx. *)
Gone(r) ==
  /\ task' = [task EXCEPT ![r] = "done"]
  /\ rxOpen' = [rxOpen EXCEPT ![r] = FALSE]
  /\ ctl' = [ctl EXCEPT ![r] = 0]
  /\ UNCHANGED <<held, raddr, rtarget, ended>>

(* run() returns. *)
RelayExit(r) == task[r] = "exiting" /\ Gone(r)

(* Mutant of RelayAborted: dropping a handler leaves its task alone. *)
RelayAbortedNever(r) == task[r] = "done" /\ ~held[r] /\ Gone(r)

(* The runtime drops a task whose handler was dropped. *)
RelayAborted(r) == task[r] # "done" /\ ~held[r] /\ Gone(r)

RelayStep(r, up) ==
  \/ RelayConsume(r)
  \/ RelayStop(r)
  \/ RelayReport(r, up)
  \/ RelayExit(r)
  \/ RelayAborted(r)
=============================================================================
