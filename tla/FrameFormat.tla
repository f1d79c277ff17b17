---------------------------- MODULE FrameFormat ----------------------------
(***************************************************************************)
(* The telemetry frame of smls_frame.h and the encoder that writes it.     *)
(*                                                                         *)
(* A byte string is a sequence of elements of Byte. A frame is a header    *)
(* of HeaderLen bytes whose first byte is Magic, then the payload, then    *)
(* one checksum byte. What the header carries besides the magic byte and   *)
(* the payload length (type, timestamp_us, sequence) is opaque to the      *)
(* parser: PayloadLen reads the length field, MakeHeader writes a header   *)
(* whose remaining fields are the tag the sender chose.                    *)
(***************************************************************************)
EXTENDS Integers, Sequences

CONSTANTS
  Byte,              \* values of a uint8_t that the instance tells apart
  Magic,             \* FRAME_MAGIC
  HeaderLen,         \* sizeof(frame_header_t)
  MaxPayload,        \* FRAME_MAX_PAYLOAD
  PayloadLen(_),     \* the payload_len field of a header
  Checksum(_)        \* frame_checksum over a byte string

ASSUME SizesAssumption ==
  /\ HeaderLen \in Nat \ {0}
  /\ MaxPayload \in Nat \ {0}
  /\ Magic \in Byte

ASSUME PayloadLenAssumption ==
  \A h \in [1 .. HeaderLen -> Byte] : PayloadLen(h) \in Nat

-----------------------------------------------------------------------------

\* frame_size of smls_frame.h, used as `total` by encoder and parser.
FrameSize(len) == HeaderLen + len + 1

\* sizeof(frame_t): the parser's buffer holds exactly one largest frame.
BufSize == FrameSize(MaxPayload)

\* What memmove to the front, and memcpy of the front, leave of an array.
Drop(s, n) == SubSeq(s, n + 1, Len(s))
Take(s, n) == SubSeq(s, 1, n)

\* The payload length the first HeaderLen bytes of b claim.
ClaimedLen(b) == PayloadLen(Take(b, HeaderLen))

HasHeader(b) == Len(b) >= HeaderLen
GoodHeader(b) == b[1] = Magic /\ ClaimedLen(b) \in 1 .. MaxPayload
HasFrame(b) == Len(b) >= FrameSize(ClaimedLen(b))

\* Faulty variant: the checksum is not compared.
GoodChecksumUnchecked(b) == TRUE

GoodChecksum(b) ==
  LET total == FrameSize(ClaimedLen(b))
  IN  b[total] = Checksum(Take(b, total - 1))

\* A frame that passes every test of the parser starts at the first byte
\* of b and has arrived completely.
FrameAtFront(b) ==
  HasHeader(b) /\ GoodHeader(b) /\ HasFrame(b) /\ GoodChecksum(b)

=============================================================================
