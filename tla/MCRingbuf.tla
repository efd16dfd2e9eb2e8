------------------------------ MODULE MCRingbuf ------------------------------
(* Small instances of Ringbuf: two bytes and every chunk of at most       *)
(* MaxChunk of them. *)
EXTENDS Ringbuf

CONSTANT MaxChunk

ShortChunks == UNION {[1 .. n -> Byte] : n \in 0 .. MaxChunk}
=============================================================================
