----------------------------- MODULE ByteProofs ------------------------------
(***************************************************************************)
(* Proofs about the two places where the proxy handles bytes: TcpRelay,    *)
(* for streams of any length, any size of the buffers of run() and any     *)
(* room in the send buffers of the system, and Stun, for packets of any    *)
(* length.                                                                 *)
(*                                                                         *)
(* TcpRelay: what a future holds are the last bytes that were read, and    *)
(* what was written lies before them, so whether it is written or dropped, *)
(* the next write continues behind the last one.  A future holds bytes     *)
(* across polls only after a write met a full send buffer.                 *)
(*                                                                         *)
(* Stun: the walk is always at the start of an attribute, and every        *)
(* attribute before it is complete, is no USERNAME and ends at or before   *)
(* it.  Starts is the smallest set that follows the attributes, so the     *)
(* offsets the walk jumps over, or never reaches, start none.              *)
(***************************************************************************)
EXTENDS TcpRelay, Stun, SequenceTheorems, WellFoundedInduction, TLAPS

-----------------------------------------------------------------------------
(* TcpRelay: the invariant *)

RelayTypeOK ==
  /\ sent \in [Dir -> Nat] /\ read \in [Dir -> Nat]
  /\ buf \in [Dir -> Seq(Nat)] /\ out \in [Dir -> Seq(Nat)]
  /\ unsent \in [Dir -> 0..SndCap]
  /\ pressed \in [Dir -> BOOLEAN]

(* A future of direction d holds the last bytes read, the stream it writes *)
(* to was given only bytes before them, and it holds them because there    *)
(* was no room.                                                            *)
Holds(d) ==
  /\ read[d] <= sent[d]
  /\ Len(buf[d]) <= read[d]
  /\ \A n \in 1..Len(buf[d]) : buf[d][n] = (read[d] - Len(buf[d])) + n
  /\ \A n \in 1..Len(out[d]) : out[d][n] <= read[d] - Len(buf[d])
  /\ buf[d] # <<>> => pressed[d]

(* The inductive invariant. *)
RelayInv ==
  /\ RelayTypeOK
  /\ \A d \in Dir : Holds(d)
  /\ InOrderOnce
  /\ LossOnlyUnderPressure

(* What the arguments say of a sequence of bytes: it is in order, it is     *)
(* bounded by byte r, it starts behind byte r, it is every byte up to r.   *)
Increasing(q) == \A m, n \in 1..Len(q) : m < n => q[m] < q[n]
UpTo(q, r) == \A k \in 1..Len(q) : q[k] <= r
After(q, r) == \A k \in 1..Len(q) : q[k] = r + k
Every(q, r) == q = [k \in 1..r |-> k]

-----------------------------------------------------------------------------
(* TcpRelay: the operators of the model *)

(* The smaller of two. *)
LEMMA MinOfTwo ==
  ASSUME NEW a \in Int, NEW b \in Int
  PROVE  Min({a, b}) = IF a <= b THEN a ELSE b
<1>1. CASE a <= b
  <2>1. \A x \in {a, b} : (\A y \in {a, b} : x <= y) <=> x = a
    BY <1>1
  <2> QED BY <1>1, <2>1 DEF Min
<1>2. CASE ~(a <= b)
  <2>1. \A x \in {a, b} : (\A y \in {a, b} : x <= y) <=> x = b
    BY <1>2
  <2> QED BY <1>2, <2>1 DEF Min
<1> QED
  BY <1>1, <1>2

(* A write, whole or partial, of bytes behind those written before. *)
LEMMA Written ==
  ASSUME NEW q \in Seq(Nat), NEW bytes \in Seq(Nat), NEW r \in Nat,
         After(bytes, r), UpTo(q, r), Increasing(q),
         NEW n \in 0..Len(bytes), NEW o, o = q \o SubSeq(bytes, 1, n)
  PROVE  /\ o \in Seq(Nat) /\ UpTo(o, r + Len(bytes)) /\ Increasing(o)
         /\ Every(q, r) /\ n = Len(bytes) => Every(o, r + n)
<1> USE DEF After, UpTo, Every
<1> DEFINE p == SubSeq(bytes, 1, n)
<1>1. /\ Len(bytes) \in Nat /\ n \in Nat /\ n <= Len(bytes) /\ Len(q) \in Nat
      /\ \A k \in 1..Len(bytes) : bytes[k] \in Nat
      /\ \A k \in 1..Len(q) : q[k] \in Nat
  BY LenProperties, ElementOfSeq
<1>2. /\ p \in Seq(Nat) /\ Len(p) = n
      /\ \A k \in 1..n : p[k] = bytes[k]
  <2>1. \A k \in 1..n : bytes[k] \in Nat /\ (1 + k) - 1 = k
    BY <1>1
  <2>2. /\ p \in Seq(Nat) /\ Len(p) = IF 1 <= n THEN n - 1 + 1 ELSE 0
        /\ \A k \in 1..(n - 1 + 1) : p[k] = bytes[1 + k - 1]
    BY <1>1, <2>1, SubSeqProperties
  <2>3. n - 1 + 1 = n /\ (~(1 <= n) => n = 0)
    BY <1>1
  <2> HIDE DEF p
  <2> QED BY <1>1, <2>1, <2>2, <2>3
<1>3. \A k \in 1..n : p[k] = r + k
  BY <1>1, <1>2
<1> HIDE DEF p
<1>4. /\ o \in Seq(Nat) /\ Len(o) = Len(q) + n
      /\ \A k \in 1..(Len(q) + n) : o[k] = IF k <= Len(q) THEN q[k] ELSE p[k - Len(q)]
  BY <1>2, ConcatProperties DEF p
<1>5. \A k \in 1..Len(o) : /\ k <= Len(q) => k \in 1..Len(q) /\ o[k] = q[k]
                           /\ k > Len(q) => k - Len(q) \in 1..n /\ o[k] = r + (k - Len(q))
  BY <1>1, <1>3, <1>4
<1>6. ASSUME NEW k \in 1..Len(o)
      PROVE  o[k] <= r + Len(bytes)
  <2>1. CASE k <= Len(q)
    <3>1. o[k] \in Nat /\ o[k] <= r
      BY <1>1, <1>5, <2>1
    <3> QED BY <1>1, <3>1
  <2>2. CASE k > Len(q)
    <3>1. o[k] = r + (k - Len(q)) /\ k - Len(q) \in 1..n
      BY <1>5, <2>2
    <3> QED BY <1>1, <3>1
  <2>3. k <= Len(q) \/ k > Len(q)
    BY <1>1
  <2> QED BY <2>1, <2>2, <2>3
<1>7. ASSUME NEW k \in 1..Len(o), NEW l \in 1..Len(o), k < l
      PROVE  o[k] < o[l]
  <2>1. CASE l <= Len(q)
    BY <1>1, <1>4, <1>5, <1>7, <2>1 DEF Increasing
  <2>2. CASE k <= Len(q) /\ l > Len(q)
    <3>1. o[k] = q[k] /\ q[k] <= r /\ q[k] \in Nat /\ o[l] = r + (l - Len(q)) /\ l - Len(q) \in 1..n
      BY <1>1, <1>5, <2>2
    <3>2. \A x \in 1..n, y \in Nat : y <= r => y < r + x
      BY <1>1
    <3> QED BY <3>1, <3>2
  <2>3. CASE k > Len(q) /\ l > Len(q)
    <3>1. o[k] = r + (k - Len(q)) /\ o[l] = r + (l - Len(q))
      BY <1>5, <2>3
    <3> QED BY <1>1, <1>4, <1>7, <3>1
  <2>4. l <= Len(q) \/ (k <= Len(q) /\ l > Len(q)) \/ (k > Len(q) /\ l > Len(q))
    BY <1>1
  <2> QED BY <2>1, <2>2, <2>3, <2>4
<1>8. ASSUME q = [k \in 1..r |-> k], n = Len(bytes)
      PROVE  o = [k \in 1..(r + n) |-> k]
  <2>1. Len(q) = r
    BY <1>8, LenProperties
  <2>2. Len(o) = r + n
    BY <1>4, <2>1
  <2>3. \A k \in 1..(r + n) : o[k] = k
    <3>1. SUFFICES ASSUME NEW k \in 1..(r + n) PROVE o[k] = k
      OBVIOUS
    <3>2. CASE k <= r
      BY <1>1, <1>5, <1>8, <2>1, <2>2, <3>2
    <3>3. CASE k > r
      <4>1. k \in 1..Len(o) /\ k > Len(q)
        BY <2>1, <2>2, <3>3
      <4>2. o[k] = r + (k - Len(q))
        BY <1>5, <4>1
      <4>3. r + (k - r) = k
        OBVIOUS
      <4> QED BY <2>1, <4>2, <4>3
    <3>4. k <= r \/ k > r
      OBVIOUS
    <3> QED BY <3>2, <3>3, <3>4
  <2>4. o = [k \in 1..Len(o) |-> o[k]]
    BY <1>4, LenProperties
  <2> QED BY <2>2, <2>3, <2>4
<1> QED
  BY <1>4, <1>6, <1>7, <1>8 DEF Increasing

(* What try_read yields: bytes that follow those read before. *)
LEMMA ChunkFollows ==
  ASSUME RelayInv, NEW d \in Dir
  PROVE  /\ ReadSize(d) \in Nat /\ read[d] + ReadSize(d) <= sent[d]
         /\ Chunk(d) \in Seq(Nat) /\ Len(Chunk(d)) = ReadSize(d)
         /\ \A n \in 1..ReadSize(d) : Chunk(d)[n] = read[d] + n
<1>1. read[d] \in Nat /\ sent[d] \in Nat /\ read[d] <= sent[d] /\ BufSize \in Nat
  BY RelaySizes DEF RelayInv, RelayTypeOK, Holds
<1>2. ReadSize(d) = IF BufSize <= sent[d] - read[d] THEN BufSize ELSE sent[d] - read[d]
  BY <1>1, MinOfTwo DEF ReadSize
<1>3. ReadSize(d) \in Nat /\ read[d] + ReadSize(d) <= sent[d]
  BY <1>1, <1>2
<1> HIDE DEF ReadSize
<1>4. Chunk(d) \in [1..ReadSize(d) -> Nat] /\ \A n \in 1..ReadSize(d) : Chunk(d)[n] = read[d] + n
  BY <1>1, <1>3 DEF Chunk
<1>5. Chunk(d) \in Seq(Nat) /\ Len(Chunk(d)) = ReadSize(d)
  BY <1>3, <1>4, SeqDef, LenProperties
<1> QED
  BY <1>3, <1>4, <1>5

-----------------------------------------------------------------------------
(* TcpRelay: the inductive step *)

(* What the invariant says of one direction. *)
DirOK(d) ==
  /\ Holds(d)
  /\ Increasing(out[d])
  /\ ~pressed[d] => out[d] = [n \in 1..read[d] |-> n]

LEMMA ByDirection ==
  /\ RelayInv <=> RelayTypeOK /\ \A d \in Dir : DirOK(d)
  /\ RelayTypeOK' /\ (\A d \in Dir : DirOK(d)') => RelayInv'
  BY DEF RelayInv, DirOK, InOrderOnce, LossOnlyUnderPressure, Increasing

(* A relay that was just started is in order. *)
LEMMA InitInv == Init => RelayInv
<1> SUFFICES ASSUME Init PROVE RelayTypeOK /\ \A d \in Dir : DirOK(d)
  BY ByDirection
<1>1. /\ <<>> \in Seq(Nat) /\ Len(<<>>) = 0 /\ 0 \in 0..SndCap
  BY EmptySeq, RelaySizes
<1>2. RelayTypeOK
  BY <1>1 DEF Init, RelayTypeOK
<1>3. ASSUME NEW d \in Dir PROVE DirOK(d)
  <2>1. sent[d] = 0 /\ read[d] = 0 /\ buf[d] = <<>> /\ out[d] = <<>>
    BY DEF Init
  <2>2. Holds(d) /\ Increasing(out[d])
    BY <1>1, <2>1 DEF Holds, Increasing
  <2>3. out[d] = [n \in 1..read[d] |-> n]
    BY <2>1
  <2> QED BY <2>2, <2>3 DEF DirOK
<1> QED
  BY <1>2, <1>3

(* A direction whose bytes stay where they are, or whose future is dropped. *)
LEMMA SameDirection ==
  ASSUME RelayInv, NEW d \in Dir,
         sent'[d] \in Nat, sent'[d] >= sent[d], read'[d] = read[d], out'[d] = out[d],
         pressed'[d] = pressed[d], buf'[d] = buf[d] \/ buf'[d] = <<>>
  PROVE  DirOK(d)'
<1>1. DirOK(d)
  BY ByDirection
<1>2. /\ sent[d] \in Nat /\ read[d] \in Nat /\ buf[d] \in Seq(Nat) /\ out[d] \in Seq(Nat)
  BY DEF RelayInv, RelayTypeOK
<1>3. Len(buf[d]) \in Nat /\ \A n \in 1..Len(out[d]) : out[d][n] \in Nat
  BY <1>2, LenProperties, ElementOfSeq
<1>4. read'[d] <= sent'[d]
  BY <1>1, <1>2 DEF DirOK, Holds
<1>5. Holds(d)'
  <2>1. CASE buf'[d] = buf[d]
    BY <1>1, <1>4, <2>1 DEF DirOK, Holds
  <2>2. CASE buf'[d] = <<>>
    <3>1. Len(buf'[d]) = 0
      BY <2>2, EmptySeq
    <3>2. \A n \in 1..Len(out[d]) : out[d][n] <= read[d] - 0
      BY <1>1, <1>2, <1>3 DEF DirOK, Holds
    <3>3. 0 <= read[d] /\ \A n \in 1..0 : FALSE
      BY <1>2
    <3> QED BY <1>4, <2>2, <3>1, <3>2, <3>3 DEF Holds
  <2> QED BY <2>1, <2>2
<1> QED
  BY <1>1, <1>5 DEF DirOK, Increasing

(* Steps that write nothing. *)
LEMMA QuietInv ==
  ASSUME RelayInv, UNCHANGED <<read, out, pressed>>,
         sent' \in [Dir -> Nat], \A d \in Dir : sent'[d] >= sent[d],
         unsent' \in [Dir -> 0..SndCap],
         UNCHANGED buf \/ Restart
  PROVE  RelayInv'
<1>1. buf' \in [Dir -> Seq(Nat)] /\ \A d \in Dir : buf'[d] = buf[d] \/ buf'[d] = <<>>
  BY EmptySeq DEF Restart, RelayInv, RelayTypeOK
<1>2. RelayTypeOK'
  BY <1>1 DEF RelayInv, RelayTypeOK
<1>3. \A d \in Dir : DirOK(d)'
  BY <1>1, SameDirection
<1> QED
  BY <1>2, <1>3, ByDirection

LEMMA QuietSteps ==
  ASSUME RelayInv, NEW d \in Dir,
         \/ PeerSends(d) \/ PeerCloses(d) \/ Drain(d) \/ WritableEvent(d)
         \/ ReadNothing(d) \/ EndOfStream(d) \/ TimeoutOrError
  PROVE  RelayInv'
<1>1. /\ sent \in [Dir -> Nat] /\ unsent \in [Dir -> 0..SndCap]
      /\ \A c \in Dir : sent[c] >= sent[c]
  BY DEF RelayInv, RelayTypeOK
<1>2. CASE PeerSends(d)
  <2>1. PICK n \in (sent[d] + 1)..MaxBytes : sent' = [sent EXCEPT ![d] = n]
    BY <1>2 DEF PeerSends
  <2>2. n \in Nat /\ n >= sent[d]
    BY <1>1, RelaySizes
  <2>3. sent' \in [Dir -> Nat] /\ \A c \in Dir : sent'[c] >= sent[c]
    BY <1>1, <2>1, <2>2
  <2> QED BY <1>1, <1>2, <2>3, QuietInv DEF PeerSends
<1>3. CASE Drain(d)
  <2>1. unsent' \in [Dir -> 0..SndCap]
    <3>1. unsent[d] \in 0..SndCap /\ unsent[d] > 0
      BY <1>1, <1>3 DEF Drain
    <3>2. unsent[d] - 1 \in 0..SndCap
      BY <3>1, RelaySizes
    <3> QED BY <1>1, <1>3, <3>2 DEF Drain
  <2> QED BY <1>1, <1>3, <2>1, QuietInv DEF Drain, source
<1>4. CASE PeerCloses(d) \/ WritableEvent(d)
  BY <1>1, <1>4, QuietInv DEF PeerCloses, WritableEvent, source
<1>5. CASE ReadNothing(d) \/ EndOfStream(d) \/ TimeoutOrError
  BY <1>1, <1>5, QuietInv DEF ReadNothing, EndOfStream, TimeoutOrError, Break, source
<1> QED
  BY <1>2, <1>3, <1>4, <1>5

(* try_write of the bytes that follow byte r, of which all before were     *)
(* written or dropped.                                                     *)
LEMMA WriteInv ==
  ASSUME RelayInv, NEW d \in Dir, NEW bytes \in Seq(Nat), NEW r \in Nat,
         WriteOnce(d, bytes), Room(d) > 0, UNCHANGED sent,
         read' = [read EXCEPT ![d] = r + Len(bytes)],
         r + Len(bytes) <= sent[d],
         \A n \in 1..Len(bytes) : bytes[n] = r + n,
         \A n \in 1..Len(out[d]) : out[d][n] <= r,
         ~pressed[d] => r = read[d]
  PROVE  RelayInv'
<1> DEFINE n == Min({Len(bytes), Room(d)})
<1>1. /\ sent[d] \in Nat /\ read[d] \in Nat /\ out[d] \in Seq(Nat)
      /\ unsent[d] \in 0..SndCap /\ SndCap \in Nat /\ Len(bytes) \in Nat
  BY RelaySizes, LenProperties DEF RelayInv, RelayTypeOK
<1>2. /\ out' = [out EXCEPT ![d] = out[d] \o SubSeq(bytes, 1, n)]
      /\ unsent' = [unsent EXCEPT ![d] = unsent[d] + n]
      /\ pressed' = [pressed EXCEPT ![d] = pressed[d] \/ n < Len(bytes)]
      /\ buf' = [c \in Dir |-> <<>>]
  BY DEF WriteOnce, Restart
<1>3. n \in 0..Len(bytes) /\ n <= Room(d)
  <2>1. Room(d) \in Nat
    BY <1>1 DEF Room
  <2>2. n = IF Len(bytes) <= Room(d) THEN Len(bytes) ELSE Room(d)
    <3>1. Len(bytes) \in Int /\ Room(d) \in Int
      BY <1>1, <2>1
    <3> QED BY <3>1, MinOfTwo, Zenon
  <2> HIDE DEF n, Room
  <2> QED BY <1>1, <2>1, <2>2
<1>4. unsent[d] + n \in 0..SndCap
  BY <1>1, <1>3 DEF Room
<1> HIDE DEF n
<1>5. Increasing(out[d]) /\ (~pressed[d] => out[d] = [k \in 1..read[d] |-> k])
  BY ByDirection DEF DirOK
<1>6. /\ out'[d] \in Seq(Nat) /\ Increasing(out'[d])
      /\ \A k \in 1..Len(out'[d]) : out'[d][k] <= r + Len(bytes)
      /\ out[d] = [k \in 1..r |-> k] /\ n = Len(bytes) => out'[d] = [k \in 1..(r + n) |-> k]
  <2>1. out'[d] = out[d] \o SubSeq(bytes, 1, n)
    BY <1>2 DEF RelayInv, RelayTypeOK
  <2>2. After(bytes, r) /\ UpTo(out[d], r)
    BY DEF After, UpTo
  <2>3. /\ out'[d] \in Seq(Nat) /\ UpTo(out'[d], r + Len(bytes)) /\ Increasing(out'[d])
        /\ Every(out[d], r) /\ n = Len(bytes) => Every(out'[d], r + n)
    BY <1>1, <1>3, <1>5, <2>1, <2>2, Written, Zenon
  <2> QED BY <2>3 DEF UpTo, Every
<1>7. RelayTypeOK'
  <2>1. /\ out' \in [Dir -> Seq(Nat)]
    <3>1. out[d] \o SubSeq(bytes, 1, n) \in Seq(Nat)
      BY <1>2, <1>6 DEF RelayInv, RelayTypeOK
    <3> QED BY <1>2, <3>1 DEF RelayInv, RelayTypeOK
  <2>2. unsent' \in [Dir -> 0..SndCap] /\ pressed' \in [Dir -> BOOLEAN]
    BY <1>2, <1>4 DEF RelayInv, RelayTypeOK
  <2>3. buf' \in [Dir -> Seq(Nat)] /\ read' \in [Dir -> Nat] /\ sent' \in [Dir -> Nat]
    BY <1>1, <1>2, EmptySeq DEF RelayInv, RelayTypeOK
  <2> QED BY <2>1, <2>2, <2>3 DEF RelayTypeOK
<1>8. DirOK(d)'
  <2>1. read'[d] = r + Len(bytes) /\ buf'[d] = <<>> /\ Len(buf'[d]) = 0 /\ sent'[d] = sent[d]
    BY <1>1, <1>2, EmptySeq DEF RelayInv, RelayTypeOK
  <2>2. Holds(d)'
    <3>1. read'[d] \in Nat /\ read'[d] - 0 = read'[d] /\ 0 <= read'[d] /\ \A k \in 1..0 : FALSE
      BY <1>1, <2>1
    <3> QED BY <1>6, <2>1, <3>1 DEF Holds
  <2>3. ~pressed'[d] => out'[d] = [k \in 1..read'[d] |-> k]
    <3>1. ~pressed'[d] => ~pressed[d] /\ ~(n < Len(bytes))
      BY <1>2 DEF RelayInv, RelayTypeOK
    <3>2. ~(n < Len(bytes)) => n = Len(bytes)
      BY <1>1, <1>3
    <3> QED BY <1>5, <1>6, <2>1, <3>1, <3>2
  <2> QED BY <1>6, <2>2, <2>3 DEF DirOK, Increasing
<1>9. ASSUME NEW c \in Dir, c # d PROVE DirOK(c)'
  <2>1. /\ sent'[c] \in Nat /\ sent'[c] >= sent[c] /\ read'[c] = read[c] /\ out'[c] = out[c]
        /\ pressed'[c] = pressed[c] /\ buf'[c] = <<>>
    BY <1>2, <1>9 DEF RelayInv, RelayTypeOK
  <2> QED BY <2>1, SameDirection
<1> QED
  BY <1>7, <1>8, <1>9, ByDirection

(* read_and_write in one poll. *)
LEMMA ReadAndWriteInv ==
  ASSUME RelayInv, NEW d \in Dir, ReadAndWrite(d)
  PROVE  RelayInv'
<1>1. /\ buf[d] = <<>> /\ Room(d) > 0 /\ read' = [read EXCEPT ![d] = read[d] + ReadSize(d)]
      /\ WriteOnce(d, Chunk(d)) /\ UNCHANGED sent
  BY DEF ReadAndWrite, Reading, source
<1>2. read[d] \in Nat /\ Holds(d) /\ Len(buf[d]) = 0
  BY <1>1, EmptySeq DEF RelayInv, RelayTypeOK
<1>3. \A n \in 1..Len(out[d]) : out[d][n] <= read[d]
  <2>1. read[d] - 0 = read[d]
    BY <1>2
  <2> QED BY <1>2, <2>1 DEF Holds
<1> QED
  BY <1>1, <1>2, <1>3, ChunkFollows, WriteInv

(* The stream became writable while the future waited. *)
LEMMA WriteLaterInv ==
  ASSUME RelayInv, NEW d \in Dir, WriteLater(d)
  PROVE  RelayInv'
<1> DEFINE r == read[d] - Len(buf[d])
<1>1. /\ buf[d] # <<>> /\ Room(d) > 0 /\ WriteOnce(d, buf[d]) /\ UNCHANGED <<sent, read>>
  BY DEF WriteLater, source
<1>2. /\ read \in [Dir -> Nat] /\ buf[d] \in Seq(Nat) /\ Len(buf[d]) \in Nat /\ Holds(d)
  BY LenProperties DEF RelayInv, RelayTypeOK
<1>3. r \in Nat /\ r + Len(buf[d]) = read[d]
  BY <1>2 DEF Holds
<1>4. read' = [read EXCEPT ![d] = r + Len(buf[d])]
  BY <1>1, <1>2, <1>3
<1>5. /\ \A n \in 1..Len(buf[d]) : buf[d][n] = r + n
      /\ \A n \in 1..Len(out[d]) : out[d][n] <= r
      /\ pressed[d] /\ r + Len(buf[d]) <= sent[d]
  BY <1>1, <1>2, <1>3 DEF Holds
<1> HIDE DEF r
<1> QED
  BY <1>1, <1>2, <1>3, <1>4, <1>5, WriteInv

(* The receiving stream has no room: the future waits. *)
LEMMA ReadAndWaitInv ==
  ASSUME RelayInv, NEW d \in Dir, ReadAndWait(d)
  PROVE  RelayInv'
<1>1. /\ buf[d] = <<>>
      /\ read' = [read EXCEPT ![d] = read[d] + ReadSize(d)]
      /\ buf' = [buf EXCEPT ![d] = Chunk(d)]
      /\ pressed' = [pressed EXCEPT ![d] = TRUE]
      /\ UNCHANGED <<sent, out, unsent>>
  BY DEF ReadAndWait, Reading, source
<1>2. /\ ReadSize(d) \in Nat /\ read[d] + ReadSize(d) <= sent[d]
      /\ Chunk(d) \in Seq(Nat) /\ Len(Chunk(d)) = ReadSize(d)
      /\ \A n \in 1..ReadSize(d) : Chunk(d)[n] = read[d] + n
  BY ChunkFollows
<1>3. read[d] \in Nat /\ DirOK(d) /\ Len(buf[d]) = 0
  BY <1>1, ByDirection, EmptySeq DEF RelayInv, RelayTypeOK
<1>4. RelayTypeOK'
  BY <1>1, <1>2, <1>3 DEF RelayInv, RelayTypeOK
<1>5. DirOK(d)'
  <2>1. /\ read'[d] = read[d] + ReadSize(d) /\ buf'[d] = Chunk(d) /\ pressed'[d]
        /\ sent'[d] = sent[d] /\ out'[d] = out[d]
    BY <1>1 DEF RelayInv, RelayTypeOK
  <2>2. /\ read[d] - 0 = read[d] /\ read'[d] - Len(buf'[d]) = read[d] /\ Len(buf'[d]) <= read'[d]
    BY <1>2, <1>3, <2>1
  <2>3. Holds(d)'
    BY <1>2, <1>3, <2>1, <2>2 DEF DirOK, Holds
  <2> QED BY <1>3, <2>1, <2>3 DEF DirOK, Increasing
<1>6. ASSUME NEW c \in Dir, c # d PROVE DirOK(c)'
  <2>1. /\ sent'[c] \in Nat /\ sent'[c] >= sent[c] /\ read'[c] = read[c] /\ out'[c] = out[c]
        /\ pressed'[c] = pressed[c] /\ buf'[c] = buf[c]
    BY <1>1, <1>6 DEF RelayInv, RelayTypeOK
  <2> QED BY <2>1, SameDirection
<1> QED
  BY <1>4, <1>5, <1>6, ByDirection

(* Every step of the peers, the system or the loop keeps the invariant. *)
LEMMA NextInv == RelayInv /\ [Next]_vars => RelayInv'
<1> SUFFICES ASSUME RelayInv, [Next]_vars PROVE RelayInv'
  OBVIOUS
<1>1. CASE \E d \in Dir : ReadAndWrite(d) \/ WriteLater(d) \/ ReadAndWait(d)
  BY <1>1, ReadAndWriteInv, WriteLaterInv, ReadAndWaitInv
<1>2. CASE \E d \in Dir : \/ PeerSends(d) \/ PeerCloses(d) \/ Drain(d) \/ WritableEvent(d)
                          \/ ReadNothing(d) \/ EndOfStream(d)
  BY <1>2, QuietSteps
<1>3. CASE TimeoutOrError
  <2>1. "up" \in Dir
    BY DEF Dir
  <2> QED BY <1>3, <2>1, QuietSteps
<1>4. CASE UNCHANGED vars
  <2>1. /\ sent \in [Dir -> Nat] /\ unsent \in [Dir -> 0..SndCap]
        /\ \A d \in Dir : sent[d] >= sent[d]
    BY DEF RelayInv, RelayTypeOK
  <2> QED BY <1>4, <2>1, QuietInv DEF vars, source
<1> QED
  BY <1>1, <1>2, <1>3, <1>4 DEF Next, Copy

-----------------------------------------------------------------------------
(* TcpRelay: the theorems *)

(* The inductive invariant holds in every reachable state. *)
THEOREM RelayInvariance == Spec => []RelayInv
  BY InitInv, NextInv, PTL DEF Spec

(* ProxyTcpClient::run: bytes reach the receiver in order and none twice,  *)
(* whatever futures select! drops and however little a write takes.        *)
THEOREM InOrder == Spec => []InOrderOnce
<1>1. RelayInv => InOrderOnce
  BY DEF RelayInv
<1> QED
  BY <1>1, RelayInvariance, PTL

(* read_and_write: bytes are lost only after a write met a send buffer     *)
(* without enough room.                                                    *)
THEOREM NoLoss == Spec => []LossOnlyUnderPressure
<1>1. RelayInv => LossOnlyUnderPressure
  BY DEF RelayInv
<1> QED
  BY <1>1, RelayInvariance, PTL

-----------------------------------------------------------------------------
(* Stun: the invariant *)

StunTypeOK ==
  /\ attrs \in Seq(Byte) /\ off \in Nat
  /\ at \in {"header", "attrs", "returned"}

(* The walk is at the start of an attribute, or at the end, and those it   *)
(* has passed are complete and no USERNAME.                                *)
Passed(p) == HasHeader(p) /\ AttrType(p) # ATTR_USERNAME /\ NextOf(p) <= off

WalkOK ==
  at = "attrs" => /\ HeaderOK /\ off \in Starts
                  /\ \A p \in Starts : p < off => Passed(p)

(* The inductive invariant. *)
StunInv == StunTypeOK /\ WalkOK /\ UfragIsReference

-----------------------------------------------------------------------------
(* Stun: the parts of a value *)

NatLess == {pair \in Nat \X Nat : pair[1] < pair[2]}

(* A set of natural numbers has a smallest one. *)
LEMMA Smallest ==
  ASSUME NEW T, T \subseteq Nat, T # {}
  PROVE  Min(T) \in T /\ \A k \in T : Min(T) <= k
<1>1. IsWellFoundedOn(NatLess, Nat)
  BY NatLessThanWellFounded DEF OpToRel, NatLess
<1>2. PICK m \in T : \A k \in T : ~(<<k, m>> \in NatLess)
  BY <1>1, WFMin
<1>3. ASSUME NEW k \in T PROVE m <= k
  <2>1. k \in Nat /\ m \in Nat
    OBVIOUS
  <2>2. k < m => <<k, m>> \in NatLess
    BY <2>1 DEF NatLess
  <2> QED BY <1>2, <2>1, <2>2
<1> QED
  BY <1>3 DEF Min

(* The smallest is the one that is not larger than any other. *)
LEMMA IsSmallest ==
  ASSUME NEW T, T \subseteq Nat, NEW m \in T, \A k \in T : m <= k
  PROVE  Min(T) = m
<1>1. Min(T) \in T /\ Min(T) <= m
  BY Smallest
<1>2. m <= Min(T) /\ m \in Nat /\ Min(T) \in Nat
  BY <1>1
<1> QED
  BY <1>1, <1>2

(* What is before the first colon. *)
LEMMA FirstPart ==
  ASSUME NEW v \in Seq(Byte)
  PROVE  \E n \in 0..Len(v) :
           /\ BeforeColon(v) = SubSeq(v, 1, n)
           /\ \A k \in 1..n : v[k] # Colon
           /\ n < Len(v) => v[n + 1] = Colon
<1> DEFINE colons == {n \in 1..Len(v) : v[n] = Colon}
<1>1. Len(v) \in Nat
  BY LenProperties
<1>2. CASE colons = {}
  <2>1. BeforeColon(v) = SubSeq(v, 1, Len(v))
    BY <1>2, SubSeqFull DEF BeforeColon
  <2> QED BY <1>1, <1>2, <2>1
<1>3. CASE colons # {}
  <2>1. Min(colons) \in colons /\ \A k \in colons : Min(colons) <= k
    <3>1. colons \subseteq Nat
      BY <1>1
    <3> QED BY <1>3, <3>1, Smallest
  <2>2. BeforeColon(v) = SubSeq(v, 1, Min(colons) - 1)
    BY <1>3 DEF BeforeColon
  <2> DEFINE n == Min(colons) - 1
  <2>3. Min(colons) \in 1..Len(v) /\ v[Min(colons)] = Colon
    BY <2>1
  <2>4. n \in 0..Len(v) /\ n + 1 = Min(colons)
    BY <1>1, <2>3
  <2>5. ASSUME NEW k \in 1..n PROVE v[k] # Colon
    <3>1. k \in 1..Len(v) /\ ~(Min(colons) <= k)
      BY <1>1, <2>3, <2>4
    <3> QED BY <2>1, <3>1
  <2> QED BY <2>2, <2>3, <2>4, <2>5
<1> QED
  BY <1>2, <1>3

(* A prefix of a sequence. *)
LEMMA Prefix ==
  ASSUME NEW v \in Seq(Byte), NEW n \in 0..Len(v)
  PROVE  /\ Len(SubSeq(v, 1, n)) = n
         /\ \A k \in 1..n : SubSeq(v, 1, n)[k] = v[k]
<1>1. Len(v) \in Nat /\ n \in Int /\ \A k \in 1..n : v[k] \in Byte
  BY LenProperties, ElementOfSeq
<1>2. /\ Len(SubSeq(v, 1, n)) = IF 1 <= n THEN n - 1 + 1 ELSE 0
      /\ \A k \in 1..(n - 1 + 1) : SubSeq(v, 1, n)[k] = v[1 + k - 1]
  BY <1>1, SubSeqProperties
<1>3. n - 1 + 1 = n /\ (~(1 <= n) => n = 0) /\ \A k \in 1..n : 1 + k - 1 = k
  BY <1>1
<1> QED
  BY <1>2, <1>3

(* The reference and the code agree on a value. *)
LEMMA OneUfrag ==
  ASSUME NEW v \in Seq(Byte)
  PROVE  Ufrags(v) = IF ValidUtf8(BeforeColon(v)) THEN {BeforeColon(v)} ELSE {}
<1>1. PICK n \in 0..Len(v) : /\ BeforeColon(v) = SubSeq(v, 1, n)
                             /\ \A k \in 1..n : v[k] # Colon
                             /\ n < Len(v) => v[n + 1] = Colon
  BY FirstPart
<1>2. Len(v) \in Nat
  BY LenProperties
<1>3. IsUfrag(SubSeq(v, 1, n), v)
  BY <1>1, <1>2, Prefix DEF IsUfrag
<1>4. ASSUME NEW m \in 0..Len(v), IsUfrag(SubSeq(v, 1, m), v)
      PROVE  m = n
  <2>1. /\ \A k \in 1..m : v[k] # Colon
        /\ m < Len(v) => v[m + 1] = Colon
    BY <1>4, Prefix DEF IsUfrag
  <2>2. ~(m < n)
    <3>1. m < n => m + 1 \in 1..n /\ m < Len(v)
      BY <1>2
    <3> QED BY <1>1, <2>1, <3>1
  <2>3. ~(n < m)
    <3>1. n < m => n + 1 \in 1..m /\ n < Len(v)
      BY <1>2
    <3> QED BY <1>1, <2>1, <3>1
  <2> QED BY <1>2, <2>2, <2>3
<1>5. \A u : u \in Ufrags(v) <=> u = BeforeColon(v) /\ ValidUtf8(u)
  BY <1>1, <1>3, <1>4 DEF Ufrags
<1> QED
  BY <1>5

-----------------------------------------------------------------------------
(* Stun: the attributes *)

(* An attribute's fields are numbers, and the code's padding leads to the  *)
(* next multiple of 4 behind the value.                                    *)
LEMMA Padding ==
  ASSUME attrs \in Seq(Byte), NEW o \in Nat, o % 4 = 0, HasHeader(o)
  PROVE  /\ AttrLen(o) \in Nat /\ NextOf(o) = Skip(o)
         /\ Skip(o) \in Nat /\ Skip(o) % 4 = 0 /\ Skip(o) >= o + 4 + AttrLen(o)
<1>1. AttrLen(o) \in Nat
  <2>1. Len(attrs) \in Nat
    BY LenProperties
  <2>2. o + 2 + 1 \in 1..Len(attrs) /\ o + 2 + 2 \in 1..Len(attrs)
    BY <2>1 DEF HasHeader, ATTR_HEADER_LEN
  <2>3. attrs[o + 2 + 1] \in Byte /\ attrs[o + 2 + 2] \in Byte
    BY <2>2, ElementOfSeq
  <2>4. \A x, y \in Byte : 256 * x + y \in Nat
    BY DEF Byte
  <2> QED BY <2>3, <2>4 DEF AttrLen, U16
<1> DEFINE l == AttrLen(o)
<1> HIDE DEF l
<1>2. Skip(o) = o + 4 + 4 * ((l + 3) \div 4) /\ l \in Nat
  BY <1>1 DEF Skip, ATTR_HEADER_LEN, l
<1>3. \E n \in 0..3 : o + 4 + l + n = Skip(o) /\ (o + 4 + l + n) % 4 = 0
  BY <1>2
<1>4. \A n \in 0..3 : (o + 4 + l + n) % 4 = 0 => o + 4 + l + n = Skip(o)
  BY <1>2
<1>5. NextOf(o) = Skip(o)
  BY <1>3, <1>4 DEF NextOf, l
<1>6. Skip(o) \in Nat /\ Skip(o) % 4 = 0 /\ Skip(o) >= o + 4 + l
  BY <1>2, <1>3
<1> QED
  BY <1>1, <1>5, <1>6 DEF l

LEMMA OffsetsAre ==
  ASSUME attrs \in Seq(Byte)
  PROVE  \A o : o \in Offsets <=> o \in Nat /\ o % 4 = 0 /\ o <= Len(attrs)
<1>1. Len(attrs) \in Nat
  BY LenProperties
<1>2. ASSUME NEW o \in Offsets
      PROVE  o \in Nat /\ o % 4 = 0 /\ o <= Len(attrs)
  <2>1. PICK n \in 0..(Len(attrs) \div 4) : o = 4 * n
    BY DEF Offsets
  <2> QED BY <1>1, <2>1
<1>3. ASSUME NEW o \in Nat, o % 4 = 0, o <= Len(attrs)
      PROVE  o \in Offsets
  <2>1. o \div 4 \in 0..(Len(attrs) \div 4) /\ o = 4 * (o \div 4)
    BY <1>1, <1>3
  <2> QED BY <2>1 DEF Offsets
<1> QED
  BY <1>2, <1>3

(* Starts is the smallest set that follows the attributes. *)
LEMMA StartsSmallest ==
  ASSUME attrs \in Seq(Byte)
  PROVE  /\ Starts \subseteq Offsets /\ FollowsAttrs(Starts)
         /\ \A S \in SUBSET Offsets : FollowsAttrs(S) => Starts \subseteq S
<1>1. 0 \in Offsets
  <2>1. Len(attrs) \in Nat
    BY LenProperties
  <2> QED BY <2>1, OffsetsAre
<1>2. 0 \in Starts
  BY <1>1 DEF Starts, FollowsAttrs
<1>3. ASSUME NEW o \in Starts, HasHeader(o), NextOf(o) \in Offsets
      PROVE  NextOf(o) \in Starts
  BY <1>3 DEF Starts, FollowsAttrs
<1>4. FollowsAttrs(Starts)
  BY <1>2, <1>3 DEF FollowsAttrs
<1> QED
  BY <1>4 DEF Starts

(* No attribute starts between the one the walk is at and the next, and    *)
(* none behind the last.                                                   *)
LEMMA NoneSkipped ==
  ASSUME StunTypeOK, WalkOK, at = "attrs", NEW p \in Starts, p > off
  PROVE  HasHeader(off) /\ Skip(off) \in Offsets /\ p >= Skip(off)
<1> SUFFICES ASSUME HasHeader(off) /\ Skip(off) \in Offsets => p < Skip(off)
             PROVE  FALSE
  <2>1. p \in Nat
    BY StartsSmallest, OffsetsAre DEF StunTypeOK
  <2>2. Skip(off) \in Offsets => Skip(off) \in Nat
    BY OffsetsAre DEF StunTypeOK
  <2> QED BY <2>1, <2>2
<1> DEFINE S == {q \in Starts : q <= off \/ (HasHeader(off) /\ Skip(off) \in Offsets /\ q >= Skip(off))}
<1>1. /\ attrs \in Seq(Byte) /\ off \in Starts /\ off \in Nat
      /\ \A q \in Starts : q < off => Passed(q)
  BY DEF StunTypeOK, WalkOK
<1>2. \A q \in Starts : q \in Nat /\ q % 4 = 0 /\ q \in Offsets
  BY <1>1, StartsSmallest, OffsetsAre
<1>3. FollowsAttrs(S)
  <2>1. 0 \in S
    BY <1>1, StartsSmallest DEF FollowsAttrs
  <2>2. ASSUME NEW q \in S, HasHeader(q), NextOf(q) \in Offsets
        PROVE  NextOf(q) \in S
    <3>1. q \in Starts /\ NextOf(q) \in Starts
      BY <1>1, <2>2, StartsSmallest DEF FollowsAttrs
    <3>2. /\ NextOf(q) = Skip(q) /\ AttrLen(q) \in Nat /\ Skip(q) \in Nat
          /\ Skip(q) >= q + 4 + AttrLen(q) /\ q \in Nat
      BY <1>1, <1>2, <2>2, <3>1, Padding
    <3>3. CASE q < off
      BY <1>1, <3>1, <3>3 DEF Passed
    <3>4. CASE q = off
      BY <2>2, <3>1, <3>2, <3>4
    <3>5. CASE q > off
      <4>1. HasHeader(off) /\ Skip(off) \in Offsets /\ q >= Skip(off)
        BY <1>1, <3>2, <3>5
      <4>2. Skip(off) \in Nat
        BY <1>1, <4>1, OffsetsAre
      <4>3. NextOf(q) >= Skip(off)
        BY <3>2, <4>1, <4>2
      <4> QED BY <3>1, <4>1, <4>3
    <3> QED BY <1>1, <3>2, <3>3, <3>4, <3>5
  <2> QED BY <2>1, <2>2 DEF FollowsAttrs
<1>4. S \in SUBSET Offsets
  BY <1>2
<1>5. p \in S
  BY <1>1, <1>3, <1>4, StartsSmallest
<1>6. p \in Nat /\ (Skip(off) \in Offsets => Skip(off) \in Nat)
  BY <1>1, <1>2, OffsetsAre
<1> QED
  BY <1>1, <1>5, <1>6

-----------------------------------------------------------------------------
(* Stun: the inductive step *)

LEMMA StunInitInv == StunInit => StunInv
  BY EmptySeq DEF StunInit, StunInv, StunTypeOK, WalkOK, UfragIsReference

(* A packet that is still being built. *)
LEMMA PacketInv == ASSUME StunInv, Packet PROVE StunInv'
<1>1. attrs' \in Seq(Byte)
  <2>1. attrs \in Seq(Byte) /\ Len(attrs) \in Nat /\ \A k \in 1..Len(attrs) : attrs[k] \in Byte
    BY LenProperties, ElementOfSeq DEF StunInv, StunTypeOK
  <2>2. CASE \E w \in Word : AddWord(w)
    <3>1. PICK w \in Word : attrs' = attrs \o w
      BY <2>2 DEF AddWord
    <3> QED BY <2>1, <3>1, StunAssumption, ConcatProperties
  <2>3. CASE \E n \in 1..4 : Truncate(n)
    <3>1. PICK n \in 1..4 : attrs' = SubSeq(attrs, 1, Len(attrs) - n)
      BY <2>3 DEF Truncate
    <3>2. Len(attrs) - n \in Int /\ \A k \in 1..(Len(attrs) - n) : attrs[k] \in Byte
      BY <2>1
    <3> QED BY <3>1, <3>2, SubSeqProperties
  <2>4. CASE Spoil
    BY <2>1, <2>4 DEF Spoil
  <2> QED BY <2>2, <2>3, <2>4 DEF Packet
<1> QED
  BY <1>1 DEF Packet, StunInv, StunTypeOK, WalkOK, UfragIsReference

(* The reference depends on the packet alone. *)
LEMMA SamePacket ==
  ASSUME UNCHANGED packet
  PROVE  /\ Reference' = Reference /\ HeaderOK' = HeaderOK /\ Starts' = Starts
         /\ \A o : /\ HasHeader(o)' = HasHeader(o) /\ AttrType(o)' = AttrType(o)
                   /\ NextOf(o)' = NextOf(o)
  BY DEF packet, Reference, HeaderOK, Usernames, Starts, FollowsAttrs, Offsets, NextOf,
         HasHeader, ValueFits, Value, AttrType, AttrLen, U16

(* The value of an attribute is a sequence of bytes. *)
LEMMA ValueBytes ==
  ASSUME StunTypeOK, HasHeader(off), off % 4 = 0, ValueFits(off)
  PROVE  Value(off) \in Seq(Byte)
<1>1. /\ attrs \in Seq(Byte) /\ Len(attrs) \in Nat /\ off \in Nat /\ AttrLen(off) \in Nat
      /\ \A k \in 1..Len(attrs) : attrs[k] \in Byte
  BY LenProperties, ElementOfSeq, Padding DEF StunTypeOK
<1> DEFINE m == off + 4 + 1
           n == off + 4 + AttrLen(off)
<1>2. m \in Int /\ n \in Int /\ \A k \in m..n : attrs[k] \in Byte
  BY <1>1 DEF ValueFits, ATTR_HEADER_LEN
<1> HIDE DEF m, n
<1>3. SubSeq(attrs, m, n) \in Seq(Byte)
  BY <1>2, SubSeqProperties
<1> QED
  BY <1>3 DEF Value, ATTR_HEADER_LEN, m, n

(* The header is refused. *)
LEMMA BadHeaderInv == ASSUME StunInv, BadHeader PROVE StunInv'
<1>1. Reference = None
  BY DEF BadHeader, Reference
<1>2. Reference' = None /\ ufrag' = None
  BY <1>1, SamePacket DEF BadHeader, Return
<1> QED
  BY <1>2 DEF BadHeader, Return, StunInv, StunTypeOK, WalkOK, UfragIsReference, packet

(* The walk begins. *)
LEMMA GoodHeaderInv == ASSUME StunInv, GoodHeader PROVE StunInv'
<1>1. off' = 0 /\ 0 \in Starts /\ \A p \in Starts : p \in Nat
  BY StartsSmallest, OffsetsAre DEF GoodHeader, StunInv, StunTypeOK, FollowsAttrs
<1>2. off' \in Starts' /\ HeaderOK' /\ \A p \in Starts' : ~(p < off')
  BY <1>1, SamePacket DEF GoodHeader
<1> QED
  BY <1>1, <1>2 DEF GoodHeader, StunInv, StunTypeOK, WalkOK, UfragIsReference, packet

(* The first USERNAME is found. *)
LEMMA FoundUsernameInv == ASSUME StunInv, FoundUsername PROVE StunInv'
<1>1. /\ StunTypeOK /\ WalkOK /\ at = "attrs" /\ off \in Starts /\ HeaderOK
      /\ HasHeader(off) /\ ValueFits(off) /\ AttrType(off) = ATTR_USERNAME
  BY DEF StunInv, WalkOK, FoundUsername
<1>2. \A p \in Starts : p \in Nat /\ p % 4 = 0
  BY <1>1, StartsSmallest, OffsetsAre DEF StunTypeOK
<1>3. off \in Usernames /\ Usernames \subseteq Nat
  BY <1>1, <1>2 DEF Usernames
<1>4. ASSUME NEW p \in Usernames PROVE off <= p
  <2>1. p \in Nat /\ off \in Nat /\ ~(p < off)
    BY <1>1, <1>2 DEF Usernames, WalkOK, Passed
  <2> QED BY <2>1
<1>5. Min(Usernames) = off
  BY <1>3, <1>4, IsSmallest
<1>6. Value(off) \in Seq(Byte)
  BY <1>1, <1>2, ValueBytes
<1>7. Reference = UsernameUfrag(Value(off))
  BY <1>1, <1>3, <1>5, <1>6, OneUfrag DEF Reference, UsernameUfrag
<1>8. ufrag' = Reference'
  BY <1>7, SamePacket DEF FoundUsername, Return
<1> QED
  BY <1>8 DEF FoundUsername, Return, StunInv, StunTypeOK, WalkOK, UfragIsReference, packet

(* The walk ends without one. *)
LEMMA NoUsernameInv == ASSUME StunInv, NoUsername PROVE StunInv'
<1>1. /\ StunTypeOK /\ WalkOK /\ at = "attrs" /\ off \in Starts /\ off \in Nat
      /\ attrs \in Seq(Byte) /\ Len(attrs) \in Nat
  BY LenProperties DEF StunInv, StunTypeOK, WalkOK, NoUsername
<1>2. \A p \in Starts : p \in Nat /\ p % 4 = 0
  BY <1>1, StartsSmallest, OffsetsAre
<1>3. ~(HasHeader(off) /\ Skip(off) \in Offsets)
  <2>1. SUFFICES ASSUME HasHeader(off), Skip(off) \in Offsets PROVE FALSE
    OBVIOUS
  <2>2. /\ Skip(off) <= Len(attrs) /\ Skip(off) \in Nat /\ AttrLen(off) \in Nat
        /\ Skip(off) >= off + 4 + AttrLen(off)
    BY <1>1, <1>2, <2>1, OffsetsAre, Padding
  <2>3. ValueFits(off)
    BY <1>1, <2>2 DEF ValueFits, ATTR_HEADER_LEN
  <2> QED BY <1>1, <2>1, <2>2, <2>3 DEF NoUsername
<1>4. \A p \in Starts : p <= off
  <2>1. \A p \in Starts : ~(p > off)
    BY <1>1, <1>3, NoneSkipped
  <2> QED BY <1>1, <1>2, <2>1
<1>5. Usernames \subseteq {off}
  <2>1. ASSUME NEW p \in Usernames PROVE p = off
    <3>1. p \in Starts /\ p \in Nat /\ p <= off /\ ~(p < off)
      BY <1>1, <1>2, <1>4 DEF Usernames, WalkOK, Passed
    <3> QED BY <1>1, <3>1
  <2> QED BY <2>1
<1>6. Reference = None
  <2>1. CASE Usernames = {}
    BY <2>1 DEF Reference
  <2>2. CASE Usernames = {off}
    <3>1. Min(Usernames) = off
      <4>1. off \in Usernames /\ Usernames \subseteq Nat /\ \A k \in Usernames : off <= k
        BY <1>1, <2>2
      <4> QED BY <4>1, IsSmallest
    <3>2. ~ValueFits(off)
      BY <2>2 DEF Usernames, NoUsername
    <3> QED BY <3>1, <3>2 DEF Reference
  <2> QED BY <1>5, <2>1, <2>2
<1>7. ufrag' = Reference'
  BY <1>6, SamePacket DEF NoUsername, Return
<1> QED
  BY <1>7 DEF NoUsername, Return, StunInv, StunTypeOK, WalkOK, UfragIsReference, packet

(* The walk goes on to the next attribute. *)
LEMMA NextAttributeInv == ASSUME StunInv, NextAttribute PROVE StunInv'
<1>1. /\ StunTypeOK /\ WalkOK /\ at = "attrs" /\ off \in Starts /\ off \in Nat /\ HeaderOK
      /\ attrs \in Seq(Byte) /\ Len(attrs) \in Nat
      /\ HasHeader(off) /\ AttrType(off) # ATTR_USERNAME
      /\ off' = Skip(off) /\ Skip(off) <= Len(attrs)
  BY LenProperties DEF StunInv, StunTypeOK, WalkOK, NextAttribute
<1>2. \A p \in Starts : p \in Nat /\ p % 4 = 0
  BY <1>1, StartsSmallest, OffsetsAre
<1>3. /\ NextOf(off) = Skip(off) /\ Skip(off) \in Nat /\ Skip(off) % 4 = 0
      /\ Skip(off) >= off + 4 + AttrLen(off) /\ AttrLen(off) \in Nat
  BY <1>1, <1>2, Padding
<1>4. Skip(off) \in Starts
  <2>1. Skip(off) \in Offsets
    BY <1>1, <1>3, OffsetsAre
  <2> QED BY <1>1, <1>3, <2>1, StartsSmallest DEF FollowsAttrs
<1>5. ASSUME NEW p \in Starts, p < Skip(off)
      PROVE  HasHeader(p) /\ AttrType(p) # ATTR_USERNAME /\ NextOf(p) <= Skip(off)
  <2>1. p \in Nat
    BY <1>2
  <2>2. CASE p < off
    <3>1. HasHeader(p) /\ AttrType(p) # ATTR_USERNAME /\ NextOf(p) <= off
      BY <1>1, <2>2 DEF WalkOK, Passed
    <3>2. NextOf(p) = Skip(p) /\ Skip(p) \in Nat
      BY <1>1, <1>2, <3>1, Padding
    <3> QED BY <1>1, <1>3, <3>1, <3>2
  <2>3. CASE p = off
    BY <1>1, <1>3, <2>3
  <2>4. ~(p > off)
    BY <1>1, <1>3, <1>5, <2>1, NoneSkipped
  <2> QED BY <1>1, <2>1, <2>2, <2>3, <2>4
<1>6. UNCHANGED <<packet, at, ufrag>>
  BY DEF NextAttribute
<1>7. WalkOK'
  BY <1>1, <1>4, <1>5, <1>6, SamePacket DEF WalkOK, Passed
<1> QED
  BY <1>1, <1>3, <1>6, <1>7 DEF StunInv, StunTypeOK, UfragIsReference, packet

LEMMA StunNextInv == StunInv /\ [StunNext]_stunVars => StunInv'
<1> SUFFICES ASSUME StunInv, [StunNext]_stunVars PROVE StunInv'
  OBVIOUS
<1>1. CASE Packet
  BY <1>1, PacketInv
<1>2. CASE local_ufrag
  BY <1>2, BadHeaderInv, GoodHeaderInv, NoUsernameInv, FoundUsernameInv, NextAttributeInv
     DEF local_ufrag
<1>3. CASE UNCHANGED stunVars
  <2>1. UNCHANGED packet /\ UNCHANGED <<at, off, ufrag>>
    BY <1>3 DEF stunVars
  <2>2. StunTypeOK'
    BY <2>1 DEF StunInv, StunTypeOK, packet
  <2>3. WalkOK'
    BY <2>1, SamePacket DEF StunInv, WalkOK, Passed
  <2>4. UfragIsReference'
    BY <2>1, SamePacket DEF StunInv, UfragIsReference
  <2> QED BY <2>2, <2>3, <2>4 DEF StunInv
<1> QED
  BY <1>1, <1>2, <1>3 DEF StunNext

-----------------------------------------------------------------------------
(* Stun: the theorems *)

(* The inductive invariant holds in every reachable state. *)
THEOREM StunInvariance == StunSpec => []StunInv
  BY StunInitInv, StunNextInv, PTL DEF StunSpec

(* local_ufrag returns what the reference says, for every packet: the part *)
(* before the colon of the first USERNAME, or None.                        *)
THEOREM UfragCorrect == StunSpec => []UfragIsReference
<1>1. StunInv => UfragIsReference
  BY DEF StunInv
<1> QED
  BY <1>1, StunInvariance, PTL

(* Every iteration of the while loop returns, or moves on by a header at   *)
(* least and stays within the packet, so it has at most one iteration for  *)
(* every four bytes, whatever the lengths in the packet say.               *)
WalkAdvances ==
  [][at = "attrs" => \/ at' = "returned"
                     \/ at' = "attrs" /\ off' >= off + 4 /\ off' <= Len(attrs)]_stunVars

THEOREM WalkIsBounded == StunSpec => WalkAdvances
<1>1. ASSUME StunInv, [StunNext]_stunVars, ~UNCHANGED stunVars, at = "attrs"
      PROVE  at' = "returned" \/ (at' = "attrs" /\ off' >= off + 4 /\ off' <= Len(attrs))
  <2>1. CASE NoUsername \/ FoundUsername
    BY <2>1 DEF NoUsername, FoundUsername, Return
  <2>2. CASE NextAttribute
    <3>1. /\ attrs \in Seq(Byte) /\ off \in Nat /\ off \in Starts /\ HasHeader(off)
          /\ off' = Skip(off) /\ Skip(off) <= Len(attrs) /\ at' = "attrs"
      BY <1>1, <2>2 DEF StunInv, StunTypeOK, WalkOK, NextAttribute
    <3>2. AttrLen(off) \in Nat /\ Skip(off) \in Nat /\ Skip(off) >= off + 4 + AttrLen(off)
      BY <3>1, StartsSmallest, OffsetsAre, Padding
    <3> QED BY <3>1, <3>2
  <2> QED BY <1>1, <2>1, <2>2 DEF StunNext, Packet, local_ufrag, BadHeader, GoodHeader
<1> QED
  BY <1>1, StunInvariance, PTL DEF StunSpec, WalkAdvances
=============================================================================
