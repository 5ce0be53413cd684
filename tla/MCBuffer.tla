------------------------------ MODULE MCBuffer ------------------------------
(* Model values and bounds for Buffer: byte strings of at most MaxChunk.   *)
EXTENDS Buffer, SequencesExt

CONSTANT MaxChunk

ByteStrings == BoundedSeq(Byte, MaxChunk)
=============================================================================
