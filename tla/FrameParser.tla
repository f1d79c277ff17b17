---------------------------- MODULE FrameParser ----------------------------
(***************************************************************************)
(* smls_frame_parser.c: a stream parser over a buffer of sizeof(frame_t)   *)
(* bytes. One action per call: Input appends a chunk, Get tries to extract *)
(* a frame. buffer holds parser->buffer[0 .. index-1], so that index is    *)
(* Len(buffer). The parser has no lock and is called from one thread: a    *)
(* call is one step. FrameParserLoop refines these actions into the        *)
(* iterations of the loops inside them.                                    *)
(*                                                                         *)
(* The history variables relate the buffer to the stream it came from:     *)
(* stream position p is the place of byte p + 1 of fed.                    *)
(***************************************************************************)
EXTENDS FrameFormat

CONSTANTS
  MaxChunk,          \* bound: bytes given to one call of Input
  StreamLen          \* bound: bytes fed in one behaviour

ASSUME BoundsAssumption == MaxChunk \in Nat \ {0} /\ StreamLen \in Nat

VARIABLES
  buffer,            \* parser->buffer up to parser->index
  result,            \* what the last call of get returned
  fed,               \* history: every byte given to Input
  base,              \* history: bytes that have left the front of buffer
  overrun,           \* history: positions Input dropped for lack of space
  out                \* history: the frames returned, [at |-> p, bytes |-> b]

vars == <<buffer, result, fed, base, overrun, out>>

Chunk == UNION {[1 .. n -> Byte] : n \in 1 .. MaxChunk}

-----------------------------------------------------------------------------

\* smls_frame_parser_init
Init ==
  /\ buffer = <<>>
  /\ result = 0
  /\ fed = <<>>
  /\ base = 0
  /\ overrun = {}
  /\ out = <<>>

\* Faulty variant: no test for a full buffer.
InputUnchecked(chunk) ==
  /\ Len(fed) + Len(chunk) <= StreamLen
  /\ buffer' = buffer \o chunk
  /\ fed' = fed \o chunk
  /\ UNCHANGED <<result, base, overrun, out>>

\* smls_frame_parser_input: byte by byte, each byte that finds the buffer
\* full first pushes the oldest one out, so the newest BufSize bytes remain.
Input(chunk) ==
  LET all     == buffer \o chunk
      dropped == IF Len(all) > BufSize THEN Len(all) - BufSize ELSE 0
  IN  /\ Len(fed) + Len(chunk) <= StreamLen
      /\ buffer' = Drop(all, dropped)
      /\ fed' = fed \o chunk
      /\ base' = base + dropped
      /\ overrun' = overrun \cup (base .. base + dropped - 1)
      /\ UNCHANGED <<result, out>>

\* Faulty variant: a frame that is still arriving counts as a false one.
FalseSyncImpatient(b) == HasHeader(b) /\ ~FrameAtFront(b)

\* The three tests of smls_frame_parser_get that throw one byte away: no
\* magic byte, a length no frame has, a checksum that does not match.
FalseSync(b) ==
  /\ HasHeader(b)
  /\ GoodHeader(b) => HasFrame(b) /\ ~GoodChecksum(b)

\* The loop stops at the first byte that is not a false sync.
ScansOver(b, n) ==
  /\ \A k \in 0 .. n - 1 : FalseSync(Drop(b, k))
  /\ ~FalseSync(Drop(b, n))

\* smls_frame_parser_get returns 0: too few bytes for a header, or for the
\* frame the header announces.
GetNothing(n) ==
  LET rest == Drop(buffer, n)
  IN  /\ ScansOver(buffer, n)
      /\ ~FrameAtFront(rest)
      /\ buffer' = rest
      /\ base' = base + n
      /\ result' = 0
      /\ UNCHANGED <<fed, overrun, out>>

\* Faulty variant: the frame is copied out but stays in the buffer.
GetFrameKept(n) ==
  LET rest == Drop(buffer, n)
  IN  /\ ScansOver(buffer, n)
      /\ FrameAtFront(rest)
      /\ buffer' = rest
      /\ base' = base + n
      /\ out' = Append(out, [at |-> base + n, bytes |-> Take(rest, FrameSize(ClaimedLen(rest)))])
      /\ result' = 1
      /\ UNCHANGED <<fed, overrun>>

\* Faulty variant: the checksum byte is not consumed with its frame.
GetFrameLeavesChecksum(n) ==
  LET rest  == Drop(buffer, n)
      total == FrameSize(ClaimedLen(rest))
  IN  /\ ScansOver(buffer, n)
      /\ FrameAtFront(rest)
      /\ buffer' = Drop(rest, total - 1)
      /\ base' = base + n + total
      /\ out' = Append(out, [at |-> base + n, bytes |-> Take(rest, total)])
      /\ result' = 1
      /\ UNCHANGED <<fed, overrun>>

\* smls_frame_parser_get returns 1: a frame is copied out and consumed.
GetFrame(n) ==
  LET rest  == Drop(buffer, n)
      total == FrameSize(ClaimedLen(rest))
  IN  /\ ScansOver(buffer, n)
      /\ FrameAtFront(rest)
      /\ buffer' = Drop(rest, total)
      /\ base' = base + n + total
      /\ out' = Append(out, [at |-> base + n, bytes |-> Take(rest, total)])
      /\ result' = 1
      /\ UNCHANGED <<fed, overrun>>

Get == \E n \in 0 .. Len(buffer) : GetNothing(n) \/ GetFrame(n)

Next == (\E chunk \in Chunk : Input(chunk)) \/ Get

Spec == Init /\ [][Next]_vars

-----------------------------------------------------------------------------

TypeOK ==
  /\ buffer \in Seq(Byte) /\ Len(buffer) <= BufSize
  /\ result \in {0, 1}
  /\ fed \in Seq(Byte)
  /\ base \in Nat
  /\ overrun \subseteq 0 .. base - 1
  /\ out \in Seq([at : Nat, bytes : Seq(Byte)])

\* The buffer is exactly the part of the stream that has not been dropped,
\* discarded or returned: sliding it with memmove loses and repeats nothing.
BufferIsStreamSuffix ==
  /\ base <= Len(fed)
  /\ buffer = Drop(fed, base)

Extent(f) == f.at .. f.at + Len(f.bytes) - 1

\* Every frame returned is a well-formed frame that stood in the stream,
\* byte for byte, where the history says: none is made up or patched.
ReturnedFramesWereSent ==
  \A i \in DOMAIN out :
    LET f == out[i]
    IN  /\ FrameAtFront(f.bytes)
        /\ Len(f.bytes) = FrameSize(ClaimedLen(f.bytes))
        /\ f.at + Len(f.bytes) <= base
        /\ f.bytes = SubSeq(fed, f.at + 1, f.at + Len(f.bytes))

\* Frames come out in stream order and no byte serves two frames: nothing is
\* returned twice, whatever the caller's rhythm of Input and Get.
ReturnedInOrder ==
  \A i, j \in DOMAIN out :
    i < j => out[i].at + Len(out[i].bytes) <= out[j].at

\* "Never skips valid frames" (smls_frame_parser.c), as far as the code goes:
\* a frame of the stream that the parser has moved past was returned, unless
\* it starts inside a frame that was returned or its first byte fell to an
\* overflow of the buffer.
NoFrameSkipped ==
  \A p \in 0 .. base - 1 :
    FrameAtFront(Drop(fed, p)) =>
      \/ p \in overrun
      \/ \E i \in DOMAIN out : p \in Extent(out[i])

=============================================================================
