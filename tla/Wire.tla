-------------------------------- MODULE Wire --------------------------------
(***************************************************************************)
(* The frames of the serial link, as msg.h lays them out and ioslink-hub.c *)
(* reads them: two magic bytes, sender, target, the length in two bytes,   *)
(* the payload, and the exclusive or of all that as a check byte.  The     *)
(* width of a byte, the magic bytes and the longest payload are            *)
(* parameters, so that small instances have every kind of frame.           *)
(***************************************************************************)
EXTENDS Naturals, Sequences, SequencesExt

CONSTANTS
  ByteBits,     \* 8
  Magic0,       \* MSG_MAGIC0, 0x1D
  Magic1,       \* MSG_MAGIC1, 0x05
  MaxNodes,     \* MSG_MAX_NODES, 8
  MaxPayload    \* MSG_MAX_PAYLOAD, 512

ByteValues == 2 ^ ByteBits
Byte == 0 .. ByteValues - 1
AllOnes == ByteValues - 1      \* 0xFF: no node id yet, and the hub's BROADCAST
HdrLen == 6                    \* sizeof(MsgHeader), packed
MaxFrame == HdrLen + MaxPayload + 1

ASSUME WireAssumption ==
  /\ ByteBits \in Nat /\ ByteValues \in Nat
  /\ Magic0 \in Byte /\ Magic1 \in Byte /\ Magic0 # Magic1
  /\ MaxNodes \in Nat /\ MaxNodes < AllOnes
  /\ MaxPayload \in Nat \ {0} /\ MaxPayload < ByteValues * ByteValues

\* a ^ b on bytes, bit by bit.
XorTable == [a, b \in Byte |->
  MapThenSumSet(LAMBDA k : 2 ^ k * ((a \div 2 ^ k + b \div 2 ^ k) % 2), 0 .. ByteBits - 1)]
Xor(a, b) == XorTable[a, b]

Checksum(bytes) == FoldLeft(Xor, 0, bytes)

\* The length field of a header, low byte first.
LengthOf(hdr) == hdr[5] + ByteValues * hdr[6]

\* What msg_send puts in front of a payload, and the whole frame.
Header(sender, target, length) ==
  <<Magic0, Magic1, sender, target, length % ByteValues, length \div ByteValues>>
Frame(sender, target, payload) ==
  LET body == Header(sender, target, Len(payload)) \o payload
  IN  Append(body, Checksum(body))

\* How many frames of the shortest length a broken one can take with it.
MaxLost == (MaxFrame - 2 + HdrLen + 1) \div (HdrLen + 2)
=============================================================================
