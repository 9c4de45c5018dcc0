-------------------------------- MODULE Stun ---------------------------------
(***************************************************************************)
(* local_ufrag of src/proxy/stun.rs, on packets that are built one 32-bit  *)
(* word at a time and may then be truncated or have a bad header.  A       *)
(* packet is what the header checks see of its first 20 bytes, and the     *)
(* bytes of its attributes.  The empty ufrag stands for None: local_ufrag  *)
(* never returns an empty one otherwise.                                   *)
(***************************************************************************)
EXTENDS Integers, FiniteSetsExt, Sequences

CONSTANTS
  Word,      \* the words packets are built from: sequences of 4 bytes
  MaxWords   \* words of attributes at most (a bound of the model)

Byte == 0..255

ASSUME StunAssumption == \A w \in Word : w \in Seq(Byte) /\ Len(w) = 4

VARIABLES
  hdr,       \* "ok", or the first header check that fails
  msgLen,    \* the message length in the header
  attrs,     \* the bytes after the header
  at,        \* the parser: "header", "attrs" (in the while loop) or "returned"
  off,       \* where in the packet the slice `attrs` of the code begins
  ufrag      \* what was returned

packet == <<hdr, msgLen, attrs>>
stunVars == <<packet, at, off, ufrag>>

None == <<>>
ATTR_HEADER_LEN == 4
ATTR_USERNAME == 6
Colon == 58

-----------------------------------------------------------------------------
(* The packets *)

StunInit ==
  /\ hdr = "ok" /\ msgLen = 0 /\ attrs = <<>>
  /\ at = "header" /\ off = 0 /\ ufrag = None

AddWord(w) ==
  /\ hdr = "ok" /\ msgLen = Len(attrs) /\ Len(attrs) % 4 = 0 /\ Len(attrs) < 4 * MaxWords
  /\ attrs' = attrs \o w
  /\ msgLen' = msgLen + 4
  /\ UNCHANGED hdr

(* Bytes are missing at the end, and the header knows it or not. *)
Truncate(n) ==
  /\ hdr = "ok" /\ msgLen = Len(attrs) /\ n < Len(attrs)
  /\ attrs' = SubSeq(attrs, 1, Len(attrs) - n)
  /\ msgLen' \in {msgLen, msgLen - n}
  /\ UNCHANGED hdr

(* A packet that is no binding request at all. *)
Spoil ==
  /\ hdr = "ok"
  /\ hdr' \in {"short", "no_cookie", "other_type"}
  /\ UNCHANGED <<msgLen, attrs>>

Packet ==
  /\ at = "header"
  /\ (\E w \in Word : AddWord(w)) \/ (\E n \in 1..4 : Truncate(n)) \/ Spoil
  /\ UNCHANGED <<at, off, ufrag>>

-----------------------------------------------------------------------------
(* The parser *)

U16(o) == 256 * attrs[o + 1] + attrs[o + 2]
AttrType(o) == U16(o)
AttrLen(o) == U16(o + 2)

(* while attrs.len() >= ATTR_HEADER_LEN *)
HasHeader(o) == o + ATTR_HEADER_LEN <= Len(attrs)

(* attrs.get(ATTR_HEADER_LEN..ATTR_HEADER_LEN + attr_len), if it is there *)
ValueFits(o) == o + ATTR_HEADER_LEN + AttrLen(o) <= Len(attrs)
Value(o) == SubSeq(attrs, o + ATTR_HEADER_LEN + 1, o + ATTR_HEADER_LEN + AttrLen(o))

(* std::str::from_utf8 accepts it; sequences of at most two bytes, the only *)
(* ones the words contain.                                                  *)
Lead(b) == b \in 194..223
Continuation(b) == b \in 128..191
ValidUtf8(s) ==
  \A n \in 1..Len(s) :
    \/ s[n] < 128
    \/ Lead(s[n]) /\ n < Len(s) /\ Continuation(s[n + 1])
    \/ Continuation(s[n]) /\ n > 1 /\ Lead(s[n - 1])

(* value.split(|b| *b == b':').next() *)
BeforeColon(v) ==
  LET colons == {n \in 1..Len(v) : v[n] = Colon}
  IN  IF colons = {} THEN v ELSE SubSeq(v, 1, Min(colons) - 1)

UsernameUfrag(v) == IF ValidUtf8(BeforeColon(v)) THEN BeforeColon(v) ELSE None

(* Mutant of Skip: values are not padded. *)
SkipUnpadded(o) == o + ATTR_HEADER_LEN + AttrLen(o)

(* The offset of the next attribute: padded_len == (attr_len + 3) & !3 *)
Skip(o) == o + ATTR_HEADER_LEN + 4 * ((AttrLen(o) + 3) \div 4)

Return(u) == at' = "returned" /\ ufrag' = u /\ UNCHANGED <<packet, off>>

(* The checks of length, magic cookie, message type and message length. *)
HeaderOK == hdr = "ok" /\ msgLen % 4 = 0 /\ msgLen = Len(attrs)

BadHeader == at = "header" /\ ~HeaderOK /\ Return(None)

GoodHeader ==
  /\ at = "header" /\ HeaderOK
  /\ at' = "attrs" /\ off' = 0
  /\ UNCHANGED <<packet, ufrag>>

(* The loop ends, or a `?` in it: the value, or the padding, is cut off. *)
NoUsername ==
  /\ at = "attrs"
  /\ HasHeader(off) /\ ValueFits(off)
       => AttrType(off) # ATTR_USERNAME /\ Skip(off) > Len(attrs)
  /\ Return(None)

FoundUsername ==
  /\ at = "attrs" /\ HasHeader(off) /\ ValueFits(off)
  /\ AttrType(off) = ATTR_USERNAME
  /\ Return(UsernameUfrag(Value(off)))

NextAttribute ==
  /\ at = "attrs" /\ HasHeader(off) /\ ValueFits(off)
  /\ AttrType(off) # ATTR_USERNAME /\ Skip(off) <= Len(attrs)
  /\ off' = Skip(off)
  /\ UNCHANGED <<packet, at, ufrag>>

local_ufrag == BadHeader \/ GoodHeader \/ NoUsername \/ FoundUsername \/ NextAttribute

StunNext == Packet \/ local_ufrag

StunSpec == StunInit /\ [][StunNext]_stunVars

-----------------------------------------------------------------------------
(* What the parser should compute *)

Offsets == {4 * n : n \in 0..(Len(attrs) \div 4)}
NextOf(o) == CHOOSE p \in {o + 4 + AttrLen(o) + n : n \in 0..3} : p % 4 = 0

(* S has 0, and after each attribute that starts in it the next one. *)
FollowsAttrs(S) ==
  /\ 0 \in S
  /\ \A o \in S : HasHeader(o) /\ NextOf(o) \in Offsets => NextOf(o) \in S

(* The offsets at which attributes start: the smallest such set. *)
Starts == {o \in Offsets : \A S \in SUBSET Offsets : FollowsAttrs(S) => o \in S}

Usernames == {o \in Starts : HasHeader(o) /\ AttrType(o) = ATTR_USERNAME}

(* u is the part of v before the colon, or all of it if there is none. *)
IsUfrag(u, v) ==
  /\ \A n \in 1..Len(u) : v[n] = u[n] /\ u[n] # Colon
  /\ Len(u) < Len(v) => v[Len(u) + 1] = Colon

Ufrags(v) == {u \in {SubSeq(v, 1, n) : n \in 0..Len(v)} : IsUfrag(u, v) /\ ValidUtf8(u)}

Reference ==
  IF HeaderOK /\ Usernames # {} /\ ValueFits(Min(Usernames))
     /\ Ufrags(Value(Min(Usernames))) # {}
  THEN CHOOSE u \in Ufrags(Value(Min(Usernames))) : TRUE
  ELSE None

(* local_ufrag returns the part before the colon of the value of the first *)
(* USERNAME attribute, found by following the attributes' padded lengths,  *)
(* when it lies within the packet and is valid UTF-8, and None otherwise,  *)
(* whatever lengths, values that look like headers and truncation.         *)
UfragIsReference == at = "returned" => ufrag = Reference
=============================================================================
