------------------------- MODULE MCFrameParserLoop -------------------------
\* Bytes and frames as in MCFrameParser.
EXTENDS FrameParserLoop, Bitwise, SequencesExt

MCPayloadLen(h) == h[2]
XorChecksum(s) == FoldLeft(^^, 0, s)
=============================================================================
