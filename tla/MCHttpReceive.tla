---------------------------- MODULE MCHttpReceive ----------------------------
(* HttpReceive with a two-letter alphabet, a buffer that starts at two     *)
(* cells, so that a chunk of two bytes already needs a realloc, and every  *)
(* body of up to MaxBody bytes.                                            *)
EXTENDS HttpReceive, SequencesExt

CONSTANTS a, b, MaxBody

MCByte == {a, b}
MCBodies == BoundedSeq(MCByte, MaxBody)
MCInitialSize == 2
=============================================================================
