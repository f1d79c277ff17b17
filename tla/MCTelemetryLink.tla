-------------------------- MODULE MCTelemetryLink --------------------------
(***************************************************************************)
(* Two-bit bytes and a header of three bytes: magic, tag, payload length.  *)
(* 3 is the magic byte, and appears in payloads and checksums too. The     *)
(* length field is a byte too, so that a length of four would read 0.      *)
(***************************************************************************)
EXTENDS TelemetryLink, Bitwise, SequencesExt

MCPayloadLen(h) == h[3]
MCMakeHeader(tag, len) == <<Magic, tag, len % 4>>
XorChecksum(s) == FoldLeft(^^, 0, s)
=============================================================================
