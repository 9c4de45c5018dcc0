---------------------------- MODULE Registration -----------------------------
(***************************************************************************)
(* Registration with the control server, heartbeats and shutdown:          *)
(* src/manager/register.rs and the try_join of src/main.rs.                *)
(*                                                                         *)
(* RegisterAgent::run connects, registers, and then forwards what is in a  *)
(* message channel until the connection ends; the heartbeat fills the      *)
(* channel as long as there is an attempt under way.  Every end of an      *)
(* attempt counts towards the maximum, also that of a connection that was  *)
(* up for long.  A signal puts a deregistration behind the load reports in *)
(* the channel and ends the process after the drain delay.  The process    *)
(* ends as soon as one of its services does.  Module Process puts the      *)
(* startup before all of this.                                             *)
(***************************************************************************)
EXTENDS Naturals, SequencesExt

CONSTANTS
  AttemptLimit, \* the values of a u16, in which attempts are counted (2^16)
  MaxQueued     \* load reports in the channel at most (a bound of the model)

ASSUME AttemptAssumption == AttemptLimit \in Nat \ {0}

VARIABLES
  max_attempt,  \* MAX_REGISTRATION_ATTEMPTS, any u16; does not change
  phase,        \* of the agent: "connecting", "up" (registered), "sleeping"
  attempts,     \* cur_attempt
  chan,         \* the channel of messages for the control server
  outgoing,     \* the message forward() has taken and not yet sent, or "none"
  signal,       \* "none" or "drain": whether a signal was caught
  exited,       \* whether the process is over
  heard,        \* whether the control server received the deregistration
  cut           \* whether a connection ended holding it (for the properties)

regVars == <<max_attempt, phase, attempts, chan, outgoing, signal, exited, heard, cut>>

Message == {"load", "deregister"}

RegistrationTypeOK ==
  /\ phase \in {"connecting", "up", "sleeping"}
  /\ max_attempt \in 0..(AttemptLimit - 1)
  /\ attempts \in 0..(AttemptLimit - 1)
  /\ chan \in Seq(Message)
  /\ outgoing \in Message \cup {"none"}
  /\ signal \in {"none", "drain"}
  /\ exited \in BOOLEAN /\ heard \in BOOLEAN /\ cut \in BOOLEAN

RegInit ==
  /\ max_attempt \in 0..(AttemptLimit - 1)
  /\ phase = "connecting"
  /\ attempts = 0
  /\ chan = <<>>
  /\ outgoing = "none"
  /\ signal = "none"
  /\ exited = FALSE /\ heard = FALSE /\ cut = FALSE

-----------------------------------------------------------------------------
(* RegisterAgent::run *)

(* connect_async succeeds and the registration is written. *)
Register ==
  /\ ~exited /\ phase = "connecting"
  /\ phase' = "up"
  /\ UNCHANGED <<max_attempt, attempts, chan, outgoing, signal, exited, heard, cut>>

(* Mutant of AttemptOver: the maximum is not looked at. *)
AttemptOverForever ==
  /\ attempts' = (attempts + 1) % AttemptLimit
  /\ phase' = "sleeping" /\ outgoing' = "none"
  /\ cut' = (cut \/ outgoing = "deregister")
  /\ UNCHANGED <<max_attempt, chan, signal, exited, heard>>

(* Mutant of AttemptOver: the next attempt gets a new channel. *)
AttemptOverAfresh ==
  /\ attempts' = (attempts + 1) % AttemptLimit
  /\ phase' = "sleeping" /\ outgoing' = "none" /\ chan' = <<>>
  /\ exited' = (attempts' > max_attempt)
  /\ cut' = (cut \/ outgoing = "deregister")
  /\ UNCHANGED <<max_attempt, signal, heard>>

(* try_join! fails: what forward() held is dropped with it, the attempt is *)
(* counted, and one too many ends the agent and the process.  The count    *)
(* wraps, as it does in a release build.                                   *)
AttemptOver ==
  /\ attempts' = (attempts + 1) % AttemptLimit
  /\ phase' = "sleeping" /\ outgoing' = "none"
  /\ exited' = (attempts' > max_attempt)
  /\ cut' = (cut \/ outgoing = "deregister")
  /\ UNCHANGED <<max_attempt, chan, signal, heard>>

(* The server cannot be reached, or the registration not written. *)
ConnectFails == ~exited /\ phase = "connecting" /\ AttemptOver

(* The server or the network ends the connection. *)
Disconnect == ~exited /\ phase = "up" /\ AttemptOver

(* The sleep between two attempts is over. *)
Retry ==
  /\ ~exited /\ phase = "sleeping"
  /\ phase' = "connecting"
  /\ UNCHANGED <<max_attempt, attempts, chan, outgoing, signal, exited, heard, cut>>

(* A load report; the heartbeat runs beside connect, not between attempts. *)
Heartbeat ==
  /\ ~exited /\ phase \in {"connecting", "up"} /\ Len(chan) < MaxQueued
  /\ chan' = Append(chan, "load")
  /\ UNCHANGED <<max_attempt, phase, attempts, outgoing, signal, exited, heard, cut>>

(* forward() takes the next message from the channel. *)
Take ==
  /\ ~exited /\ phase = "up" /\ outgoing = "none" /\ chan # <<>>
  /\ outgoing' = Head(chan) /\ chan' = Tail(chan)
  /\ UNCHANGED <<max_attempt, phase, attempts, signal, exited, heard, cut>>

(* It is written to the websocket; as far as the proxy can tell, delivered. *)
Deliver ==
  /\ ~exited /\ phase = "up" /\ outgoing # "none"
  /\ heard' = (heard \/ outgoing = "deregister")
  /\ outgoing' = "none"
  /\ UNCHANGED <<max_attempt, phase, attempts, chan, signal, exited, cut>>

-----------------------------------------------------------------------------
(* SignalHandler::run and main *)

(* SIGTERM or SIGINT; later ones are not looked at. *)
Signal ==
  /\ ~exited /\ signal = "none"
  /\ signal' = "drain"
  /\ chan' = Append(chan, "deregister")
  /\ UNCHANGED <<max_attempt, phase, attempts, outgoing, exited, heard, cut>>

(* The drain delay is over. *)
DrainOver ==
  /\ ~exited /\ signal = "drain"
  /\ exited' = TRUE
  /\ UNCHANGED <<max_attempt, phase, attempts, chan, outgoing, signal, heard, cut>>

(* The metrics or the allocation service fails. *)
ServiceFails ==
  /\ ~exited
  /\ exited' = TRUE
  /\ UNCHANGED <<max_attempt, phase, attempts, chan, outgoing, signal, heard, cut>>

Serve ==
  \/ Register \/ ConnectFails \/ Disconnect \/ Retry
  \/ Heartbeat \/ Take \/ Deliver
  \/ Signal \/ DrainOver \/ ServiceFails

-----------------------------------------------------------------------------
(* Properties *)

(* After a signal the deregistration is in the channel, on its way, with   *)
(* the server, or was on its way on a connection that ended: waiting for a *)
(* connection, reconnecting, and load reports before it do not lose it     *)
(* (the channel outlives the attempts of RegisterAgent::run).              *)
DeregistrationKept ==
  signal = "drain"
    => Contains(chan, "deregister") \/ outgoing = "deregister" \/ heard \/ cut

=============================================================================
