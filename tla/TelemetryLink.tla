--------------------------- MODULE TelemetryLink ---------------------------
(***************************************************************************)
(* Encoder, byte stream and parser together, the way the telemetry tests   *)
(* wire them: a sender encodes frames onto a stream (transport agnostic,   *)
(* smls_frame.h), the line may add noise bytes between frames and damage a *)
(* byte of a frame, and a receiver feeds the stream to the parser in       *)
(* chunks of any size, calling get until it returns 0 after each chunk.    *)
(***************************************************************************)
EXTENDS FrameParser, FiniteSets

CONSTANTS
  MakeHeader(_, _),  \* the header of a tag (type, sequence, timestamp) and a length
  SendLen,           \* payload lengths the sender tries
  PayloadByte,       \* the bytes of its payloads
  NoiseByte,         \* the bytes noise consists of
  MaxFrames,         \* bound: frames sent in one behaviour
  MaxNoise,          \* bound: noise bytes in one behaviour
  MaxDamage,         \* bound: damaged bytes in one behaviour
  DamageAt           \* places in a frame where damage strikes

ASSUME HeaderAssumption ==
  \A tag \in 0 .. MaxFrames - 1, len \in 0 .. MaxPayload :
    LET h == MakeHeader(tag, len)
    IN  h \in [1 .. HeaderLen -> Byte] /\ h[1] = Magic /\ PayloadLen(h) = len

ASSUME LinkAssumption ==
  /\ MaxFrames \in Nat /\ MaxNoise \in Nat /\ MaxDamage \in Nat
  /\ SendLen \subseteq Nat
  /\ PayloadByte \subseteq Byte /\ NoiseByte \subseteq Byte
  /\ DamageAt \subseteq Nat \ {0}

\* smls_frame_checksum is the exclusive or of the bytes: a byte itself, and
\* different for two strings that differ in one byte.
ASSUME ChecksumAssumption ==
  \A n \in HeaderLen .. HeaderLen + MaxPayload : \A s \in [1 .. n -> Byte] :
    /\ Checksum(s) \in Byte
    /\ \A k \in 1 .. n : \A b \in Byte \ {s[k]} :
         Checksum([s EXCEPT ![k] = b]) # Checksum(s)

\* Damage strikes outside the length field.
ASSUME DamageAssumption ==
  \A h \in [1 .. HeaderLen -> Byte], k \in DamageAt \cap (1 .. HeaderLen), b \in Byte :
    PayloadLen([h EXCEPT ![k] = b]) = PayloadLen(h)

VARIABLES
  wire,              \* bytes sent and not yet read by the receiver
  phase,             \* the receiver "read"s the next chunk or "drain"s frames
  noise,             \* number of noise bytes so far
  sent,              \* history: the frames encoded, [at |-> p, bytes |-> b]
  damaged            \* history: {<<frame, byte>>} of what the line changed

linkVars == <<wire, phase, noise, sent, damaged>>
allVars == <<vars, linkVars>>

-----------------------------------------------------------------------------

\* Faulty variant: the checksum leaves out the payload.
EncodeHeaderSum(tag, payload) ==
  Append(MakeHeader(tag, Len(payload)) \o payload, Checksum(MakeHeader(tag, Len(payload))))

\* smls_frame_encode beyond its argument checks. A NULL payload with len > 0
\* leaves in the frame what the output buffer held: some payload or other.
Encode(tag, payload) ==
  LET body == MakeHeader(tag, Len(payload)) \o payload
  IN  Append(body, Checksum(body))

LinkInit ==
  /\ Init
  /\ wire = <<>>
  /\ phase = "read"
  /\ noise = 0
  /\ sent = <<>>
  /\ damaged = {}

\* Stream position of the next byte put on the wire.
WireEnd == Len(fed) + Len(wire)

\* Faulty variant: the payload is copied into the caller's frame_t, however
\* long it is.
SendUnchecked(payload) ==
  /\ Len(sent) < MaxFrames
  /\ LET frame == Encode(Len(sent), payload)
     IN  /\ WireEnd + Len(frame) <= StreamLen
         /\ wire' = wire \o frame
         /\ sent' = Append(sent, [at |-> WireEnd, bytes |-> frame])
  /\ UNCHANGED <<vars, phase, noise, damaged>>

\* A payload that is too long makes the encoder return -2: nothing is sent.
Send(payload) ==
  /\ Len(sent) < MaxFrames
  /\ Len(payload) <= MaxPayload
  /\ LET frame == Encode(Len(sent), payload)
     IN  /\ WireEnd + Len(frame) <= StreamLen
         /\ wire' = wire \o frame
         /\ sent' = Append(sent, [at |-> WireEnd, bytes |-> frame])
  /\ UNCHANGED <<vars, phase, noise, damaged>>

Noise(b) ==
  /\ noise < MaxNoise
  /\ WireEnd < StreamLen
  /\ noise' = noise + 1
  /\ wire' = Append(wire, b)
  /\ UNCHANGED <<vars, phase, sent, damaged>>

\* Byte k of frame i is still on the wire and arrives as b.
Damage(i, k, b) ==
  LET w == sent[i].at + k - Len(fed)
  IN  /\ Cardinality(damaged) < MaxDamage
      /\ k <= Len(sent[i].bytes)
      /\ w \in DOMAIN wire
      /\ b # wire[w]
      /\ wire' = [wire EXCEPT ![w] = b]
      /\ damaged' = damaged \cup {<<i, k>>}
      /\ UNCHANGED <<vars, phase, noise, sent>>

Read(n) ==
  /\ phase = "read"
  /\ n <= Len(wire)
  /\ Input(Take(wire, n))
  /\ wire' = Drop(wire, n)
  /\ phase' = "drain"
  /\ UNCHANGED <<noise, sent, damaged>>

\* The receiver asks for frames until it is told there is none.
Drain ==
  /\ phase = "drain"
  /\ Get
  /\ phase' = IF result' = 1 THEN "drain" ELSE "read"
  /\ UNCHANGED <<wire, noise, sent, damaged>>

Payloads == UNION {[1 .. n -> PayloadByte] : n \in SendLen}

Line ==
  \/ \E payload \in Payloads : Send(payload)
  \/ \E b \in NoiseByte : Noise(b)
  \/ \E i \in DOMAIN sent, k \in DamageAt, b \in Byte : Damage(i, k, b)

Receive == Drain \/ \E n \in 1 .. MaxChunk : Read(n)

LinkNext == Line \/ Receive

LinkSpec == LinkInit /\ [][LinkNext]_allVars

-----------------------------------------------------------------------------

\* The bytes on the line are bytes, and every frame of the encoder fits the
\* frame_t of its caller: a header, a payload or none, and the checksum.
LinkTypeOK ==
  /\ TypeOK
  /\ wire \in Seq(Byte)
  /\ phase \in {"read", "drain"}
  /\ noise \in 0 .. MaxNoise
  /\ sent \in Seq([at : Nat, bytes : Seq(Byte)]) /\ Len(sent) <= MaxFrames
  /\ \A i \in DOMAIN sent : Len(sent[i].bytes) \in HeaderLen + 1 .. BufSize
  /\ damaged \subseteq (DOMAIN sent) \X DamageAt

Received(i) == i \in DOMAIN sent /\ \E j \in DOMAIN out : out[j] = sent[i]

\* "zero loss, zero reordering, zero fake frame" (parser_encoder_test.c): what
\* the receiver has from an undamaged line is at every moment the frames sent,
\* from the first on, each taken from its own place in the stream.
ReceivedIsPrefixOfSent ==
  damaged = {} =>
    /\ Len(out) <= Len(sent)
    /\ out = Take(sent, Len(out))

\* No frame lies around in the parser: once the receiver has drained it, every
\* frame it has been given completely has been returned. This needs payloads
\* that are not empty: the encoder makes frames of length 0, the parser
\* discards them.
DrainedMeansDelivered ==
  phase = "read" /\ damaged = {} =>
    \A i \in DOMAIN sent :
      sent[i].at + Len(sent[i].bytes) <= Len(fed) => Received(i)

\* No byte but the first of a frame looks like a frame start.
MagicOnlyAtStarts ==
  LET stream == fed \o wire
  IN  \A p \in DOMAIN stream :
        stream[p] = Magic => \E i \in DOMAIN sent : sent[i].at = p - 1

Intact(i) == \A hit \in damaged : hit[1] # i

\* Damage outside the length field is contained: it costs the frame it hits
\* and no other. The parser finds its way back to the next frame at once, and
\* what it returns in between are intact frames only. This needs a stream
\* without stray magic bytes: after one, the parser takes whatever follows for
\* a header, and only the one-byte checksum tells.
DamageIsContained ==
  MagicOnlyAtStarts =>
    /\ \A j \in DOMAIN out : \E i \in DOMAIN sent : Intact(i) /\ out[j] = sent[i]
    /\ phase = "read" =>
         \A i \in DOMAIN sent :
           Intact(i) /\ sent[i].at + Len(sent[i].bytes) <= Len(fed) => Received(i)

=============================================================================
