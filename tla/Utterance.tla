------------------------------ MODULE Utterance ------------------------------
(***************************************************************************)
(* Utterances as sequences of frames (TRUE: voiced, FALSE: silent), and    *)
(* when one is over by the comments at xbusiness_vad.c:138 and :140, which *)
(* is not what the comparisons at xbusiness_vad.c:153-155 say.             *)
(***************************************************************************)
EXTENDS Naturals, Sequences, FiniteSets

CONSTANTS
  SilBuffers,     \* _num_of_sil_buffers
  TotalBuffers,   \* _num_of_total_buffers
  MaxFrames       \* bound: frames of one utterance

ASSUME VadAssumption ==
  SilBuffers \in Nat /\ TotalBuffers \in Nat /\ MaxFrames \in Nat

VoicedFrames(h) == {i \in 1 .. Len(h) : h[i]}

Voiced(h) == Cardinality(VoicedFrames(h))

(* k is the length of the silence h ends with.                             *)
IsTrailingSilence(h, k) ==
  /\ k \in 0 .. Len(h)
  /\ \A i \in Len(h) - k + 1 .. Len(h) : ~h[i]
  /\ k = Len(h) \/ h[Len(h) - k]

(* The end of an utterance is due: somebody has spoken, SilBuffers silent  *)
(* frames in a row are enough ("the number of consecutive silent frames    *)
(* needed", :138), and together with the voiced frames they are not fewer  *)
(* than TotalBuffers ("not fewer than 6 frames in all", :140).             *)
Due(h) ==
  /\ Voiced(h) > 0
  /\ \E k \in 0 .. Len(h) : /\ IsTrailingSilence(h, k)
                            /\ k >= SilBuffers
                            /\ k + Voiced(h) >= TotalBuffers

First(h, n) == SubSeq(h, 1, n)

(* The end was due one frame ago, and the last frame is silent.            *)
DueOneFrameAgo(h) ==
  h # << >> /\ ~h[Len(h)] /\ Due(First(h, Len(h) - 1))
=============================================================================
