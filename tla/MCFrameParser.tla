--------------------------- MODULE MCFrameParser ---------------------------
(***************************************************************************)
(* Two-bit bytes and a header of two bytes, magic and length: 1 and 2 are  *)
(* payload lengths, 0 and 3 are not, and 3 is the magic byte, so payload,  *)
(* length field and checksum can all look like the start of a frame.       *)
(***************************************************************************)
EXTENDS FrameParser, Bitwise, SequencesExt

MCPayloadLen(h) == h[2]

\* frame_checksum: exclusive or of all bytes.
XorChecksum(s) == FoldLeft(^^, 0, s)
=============================================================================
