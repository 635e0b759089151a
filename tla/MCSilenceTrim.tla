---------------------------- MODULE MCSilenceTrim ----------------------------
(* SilenceTrim on every stream of up to MaxLen samples from a few values:  *)
(* blocks of five, so that a run of four fits in a block and one of eight  *)
(* lies across two.  One -9 makes a block loud; zeros and ones alone do    *)
(* not.                                                                    *)
EXTENDS SilenceTrim

CONSTANTS MaxLen, Values

Streams == UNION {[1 .. n -> Values] : n \in 0 .. MaxLen}

FewValues == {-9, 0, 1}
=============================================================================
