------------------------------ MODULE TcpRelay -------------------------------
(***************************************************************************)
(* The copying loop of one tcp connection (ProxyTcpClient::run of          *)
(* src/proxy/tcp_clients.rs), in both directions at once.  run() selects   *)
(* between two read_and_write futures and a timer; whichever completes     *)
(* first, the other future is dropped, and with it what it had read and    *)
(* not yet written.                                                        *)
(*                                                                         *)
(* A future reads, then waits until the receiving stream is writable, then *)
(* writes once.  When the stream is writable at once all of that happens   *)
(* in one poll.  `canRead` and `canWrite` are the readiness tokio has      *)
(* cached: set by the system's events, cleared when a try fails with       *)
(* WouldBlock.  The bytes of a stream are numbered 1, 2, ...               *)
(***************************************************************************)
EXTENDS Naturals, Sequences, FiniteSetsExt

CONSTANTS
  MaxBytes,  \* bytes each peer sends at most (a bound of the model)
  BufSize,   \* size of bufi and bufo (4096 in the code)
  SndCap     \* room in a stream's send buffer, of the system

ASSUME RelaySizes == MaxBytes \in Nat /\ BufSize \in Nat \ {0} /\ SndCap \in Nat \ {0}

Dir == {"up", "down"}         \* client to server, server to client

VARIABLES
  running,   \* whether the loop goes on
  sent,      \* how many bytes the peer at the source has sent
  fin,       \* whether it has closed its side
  read,      \* how many of them were read
  canRead,   \* cached readiness of the source
  buf,       \* read, and waiting for the receiving stream
  out,       \* the bytes given to the receiving stream
  unsent,    \* how many of those its send buffer still holds
  canWrite,  \* cached readiness of the receiving stream
  pressed    \* whether a write ever met a full or nearly full send buffer
             \* (for the properties)

source == <<sent, fin>>
vars == <<running, source, read, canRead, buf, out, unsent, canWrite, pressed>>

Init ==
  /\ running = TRUE
  /\ sent = [d \in Dir |-> 0] /\ fin = [d \in Dir |-> FALSE]
  /\ read = [d \in Dir |-> 0]
  /\ canRead = [d \in Dir |-> TRUE]
  /\ buf = [d \in Dir |-> <<>>]
  /\ out = [d \in Dir |-> <<>>]
  /\ unsent = [d \in Dir |-> 0]
  /\ canWrite = [d \in Dir |-> TRUE]
  /\ pressed = [d \in Dir |-> FALSE]

-----------------------------------------------------------------------------
(* The peers and the system *)

PeerSends(d) ==
  /\ sent[d] < MaxBytes /\ ~fin[d]
  /\ \E n \in (sent[d] + 1)..MaxBytes : sent' = [sent EXCEPT ![d] = n]
  /\ canRead' = [canRead EXCEPT ![d] = TRUE]
  /\ UNCHANGED <<running, fin, read, buf, out, unsent, canWrite, pressed>>

PeerCloses(d) ==
  /\ ~fin[d]
  /\ fin' = [fin EXCEPT ![d] = TRUE]
  /\ canRead' = [canRead EXCEPT ![d] = TRUE]
  /\ UNCHANGED <<running, sent, read, buf, out, unsent, canWrite, pressed>>

(* The receiver takes bytes out of the send buffer. *)
Drain(d) ==
  /\ unsent[d] > 0
  /\ unsent' = [unsent EXCEPT ![d] = @ - 1]
  /\ UNCHANGED <<running, source, read, canRead, buf, out, canWrite, pressed>>

(* The system says that the receiving stream is writable again. *)
WritableEvent(d) ==
  /\ ~canWrite[d] /\ unsent[d] < SndCap
  /\ canWrite' = [canWrite EXCEPT ![d] = TRUE]
  /\ UNCHANGED <<running, source, read, canRead, buf, out, unsent, pressed>>

-----------------------------------------------------------------------------
(* read_and_write *)

Room(d) == SndCap - unsent[d]
Reading(d) == running /\ buf[d] = <<>> /\ canRead[d]

(* How many bytes try_read yields. *)
ReadSize(d) == Min({BufSize, sent[d] - read[d]})

(* The bytes it yields. *)
Chunk(d) == [i \in 1..ReadSize(d) |-> read[d] + i]

(* A future completes: both are dropped, and what the other one had read. *)
Restart == buf' = [d \in Dir |-> <<>>]

(* Mutant of WriteOnce: goes on with the whole buffer after a partial write. *)
WriteOnceAgain(d, bytes) ==
  LET n == Min({Len(bytes), Room(d)})
  IN  /\ out' = [out EXCEPT ![d] = @ \o SubSeq(bytes, 1, n)]
      /\ unsent' = [unsent EXCEPT ![d] = @ + n]
      /\ pressed' = [pressed EXCEPT ![d] = @ \/ n < Len(bytes)]
      /\ IF n < Len(bytes) THEN buf' = [buf EXCEPT ![d] = bytes] ELSE Restart

(* try_write takes what there is room for, and the rest is forgotten. *)
WriteOnce(d, bytes) ==
  LET n == Min({Len(bytes), Room(d)})
  IN  /\ out' = [out EXCEPT ![d] = @ \o SubSeq(bytes, 1, n)]
      /\ unsent' = [unsent EXCEPT ![d] = @ + n]
      /\ pressed' = [pressed EXCEPT ![d] = @ \/ n < Len(bytes)]
      /\ Restart

(* Mutant of ReadAndWrite: the write is left to a later poll. *)
ReadThenYield(d) ==
  /\ Reading(d) /\ ReadSize(d) > 0 /\ canWrite[d] /\ Room(d) > 0
  /\ read' = [read EXCEPT ![d] = @ + ReadSize(d)]
  /\ buf' = [buf EXCEPT ![d] = Chunk(d)]
  /\ UNCHANGED <<running, source, canRead, canWrite, out, unsent, pressed>>

(* The receiving stream is writable: read and write in one poll. *)
ReadAndWrite(d) ==
  /\ Reading(d) /\ ReadSize(d) > 0 /\ canWrite[d] /\ Room(d) > 0
  /\ read' = [read EXCEPT ![d] = @ + ReadSize(d)]
  /\ WriteOnce(d, Chunk(d))
  /\ UNCHANGED <<running, source, canRead, canWrite>>

(* It is not: the future waits with what it has read. *)
ReadAndWait(d) ==
  /\ Reading(d) /\ ReadSize(d) > 0 /\ (canWrite[d] => Room(d) = 0)
  /\ read' = [read EXCEPT ![d] = @ + ReadSize(d)]
  /\ buf' = [buf EXCEPT ![d] = Chunk(d)]
  /\ canWrite' = [canWrite EXCEPT ![d] = FALSE]
  /\ pressed' = [pressed EXCEPT ![d] = TRUE]
  /\ UNCHANGED <<running, source, canRead, out, unsent>>

(* The stream becomes writable while the future waits. *)
WriteLater(d) ==
  /\ running /\ buf[d] # <<>> /\ canWrite[d] /\ Room(d) > 0
  /\ WriteOnce(d, buf[d])
  /\ UNCHANGED <<running, source, read, canRead, canWrite>>

(* try_read fails with WouldBlock, which completes the future as well. *)
ReadNothing(d) ==
  /\ Reading(d) /\ read[d] = sent[d] /\ ~fin[d]
  /\ canRead' = [canRead EXCEPT ![d] = FALSE]
  /\ Restart
  /\ UNCHANGED <<running, source, read, out, unsent, canWrite, pressed>>

(* The loop breaks; what the futures held is lost. *)
Break ==
  /\ running
  /\ running' = FALSE
  /\ Restart
  /\ UNCHANGED <<source, read, canRead, out, unsent, canWrite, pressed>>

(* Mutant of EndOfStream: a read of no bytes is no error. *)
EndOfStreamIgnored(d) ==
  /\ Reading(d) /\ read[d] = sent[d] /\ fin[d]
  /\ Restart
  /\ UNCHANGED <<running, source, read, canRead, out, unsent, canWrite, pressed>>

(* try_read yields 0 bytes. *)
EndOfStream(d) == Reading(d) /\ read[d] = sent[d] /\ fin[d] /\ Break

(* Nothing that run() waits for is there. *)
Silent ==
  \A d \in Dir : IF buf[d] = <<>> THEN ~canRead[d] ELSE ~canWrite[d] \/ Room(d) = 0

(* The timer fires, or a stream fails. *)
TimeoutOrError == Break

Copy(d) ==
  \/ ReadAndWrite(d) \/ ReadAndWait(d)
  \/ WriteLater(d) \/ ReadNothing(d) \/ EndOfStream(d)

Next ==
  \/ \E d \in Dir : \/ PeerSends(d) \/ PeerCloses(d)
                    \/ Drain(d) \/ WritableEvent(d)
                    \/ Copy(d)
  \/ TimeoutOrError

Spec == Init /\ [][Next]_vars

(* The task is polled when a stream is ready, the system reports room, and *)
(* a lasting silence fires the timer.  Nothing is assumed of the peers.    *)
FairSpec ==
  /\ Spec
  /\ \A d \in Dir : SF_vars(Copy(d)) /\ WF_vars(WritableEvent(d))
  /\ WF_vars(Silent /\ TimeoutOrError)

-----------------------------------------------------------------------------
(* Properties *)

(* What reaches a receiver is in the order sent, and nothing reaches it    *)
(* twice, although futures are dropped between read and write and writes   *)
(* may be partial.                                                         *)
InOrderOnce ==
  \A d \in Dir : \A i, j \in 1..Len(out[d]) : i < j => out[d][i] < out[d][j]

(* select! loses no byte as long as the receiver keeps up: whatever the    *)
(* loop has read it has written, unless a write met a send buffer without  *)
(* enough room.  In particular neither the other direction's traffic, nor  *)
(* reads that find nothing, nor the end of the loop drop what was read.    *)
LossOnlyUnderPressure ==
  \A d \in Dir : ~pressed[d] => out[d] = [i \in 1..read[d] |-> i]

(* A connection one of whose peers has closed comes to its end, whether or *)
(* not the other peer takes its bytes, or ever sends or closes.            *)
ClosedPeerEndsRelay == \A d \in Dir : fin[d] ~> ~running

(* What the tests say of the proxy, that a server reads what the client    *)
(* wrote ("not ping", tests/integration_test.rs): what a receiver has been *)
(* given is a prefix of what was sent.                                     *)
StreamIntact == \A d \in Dir : out[d] = [i \in 1..Len(out[d]) |-> i]
=============================================================================
