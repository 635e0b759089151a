--------------------------------- MODULE Vad ---------------------------------
(***************************************************************************)
(* The real-time endpoint detector of src/src/xbusiness_vad.c: a handle    *)
(* with two counters, xvpr_vad_is_speaking that a caller feeds with one    *)
(* frame after the other, and xvpr_vad_reset_vad.                          *)
(*                                                                         *)
(* xvpr_vad_create_vad returns the address of a local variable.  The       *)
(* handle is NULL, which compilers make of it, or points into a frame that *)
(* is dead: sil and voice are what that memory holds, and whatever uses    *)
(* the stack writes over it.                                               *)
(***************************************************************************)
EXTENDS Utterance, Samples

CONSTANTS
  Frames,          \* the frames a caller has: sequences of 16-bit samples
  VoiceThreshold,  \* _voice_threshold
  SizeMax,         \* SIZE_MAX: 2^64 - 1
  Garbage          \* what other frames leave in the memory of the counters

ASSUME DetectorAssumption ==
  /\ Frames \subseteq Seq(Sample)
  /\ VoiceThreshold \in 0 .. 32766
  /\ SizeMax \in Nat /\ MaxFrames <= SizeMax
  /\ Garbage \subseteq 0 .. SizeMax

VARIABLES
  handle,    \* "none" before it is created, then "null" or "frame"
  sil,       \* handle->total_sil_buffers
  voice,     \* handle->total_voice_buffers
  pc,        \* "out", or what xvpr_vad_is_speaking does next, or "dead"
  mean,      \* its local variable
  answer,    \* what it returned; NoAnswer: it has not
  heard,     \* history: how the frames of the current utterance sound
  known      \* history: the counters were set by a reset or an end, nobody
             \* has written over them since, and no frame was at full scale

vars == <<handle, sil, voice, pc, mean, answer, heard, known>>

(* What the code returns, false and true, and NoAnswer.                    *)
Ended    == 0
GoesOn   == 1
NoAnswer == 2
-----------------------------------------------------------------------------
(* How a frame sounds, told by its samples: its mean, cut to an integer,   *)
(* exceeds the threshold.                                                  *)
Loud(f) == f # << >> /\ AbsSum(f) >= (VoiceThreshold + 1) * Len(f)

FullScale(f) == f # << >> /\ \A i \in 1 .. Len(f) : f[i] = -32768

(* Variant: the sum is kept in a short, too.                               *)
BufferMeansOfShortSum(f) ==
  IF f = << >> THEN {0}
  ELSE {(((AbsSum(f) + 32768) % 65536) - 32768) \div Len(f)}

(* get_buffer_mean: the mean, cut to an integer.  A mean of 32768, that of *)
(* a frame at full scale, does not fit the short: the conversion is        *)
(* undefined, and builds wrap or saturate.                                 *)
BufferMeans(f) ==
  IF f = << >> THEN {0}
  ELSE LET m == AbsSum(f) \div Len(f)
       IN  IF m > 32767 THEN {-32768, 32767} ELSE {m}

Init ==
  /\ handle = "none"
  /\ sil \in Garbage
  /\ voice \in Garbage
  /\ pc = "out"
  /\ mean = 0
  /\ answer = NoAnswer
  /\ heard = << >>
  /\ known = FALSE

(* xvpr_vad_create_vad sets none of the counters.                          *)
CreateVad ==
  /\ handle = "none"
  /\ handle' \in {"null", "frame"}
  /\ UNCHANGED <<sil, voice, pc, mean, answer, heard, known>>

(* A frame of another function lies where the counters are: that of        *)
(* get_buffer_mean, that of xvpr_vad_is_speaking itself, or whatever the   *)
(* caller calls between a reset and the next frame, or two frames.         *)
Overwrite ==
  /\ handle = "frame"
  /\ pc # "dead"
  /\ sil' \in Garbage \cup {sil}
  /\ voice' \in Garbage \cup {voice}
  /\ known' = FALSE
  /\ UNCHANGED <<handle, pc, mean, answer, heard>>

(* A function writes through the handle and dies: it is NULL, or the       *)
(* counters lie where the function keeps its return address.               *)
Die ==
  /\ handle # "none"
  /\ pc \in {"out", "count"}
  /\ pc' = "dead"
  /\ UNCHANGED <<handle, sil, voice, mean, answer, heard, known>>

(* xvpr_vad_is_speaking is called and weighs its frame.                    *)
IsSpeaking(f) ==
  /\ handle # "none"
  /\ pc = "out"
  /\ Len(heard) < MaxFrames
  /\ mean' \in BufferMeans(f)
  /\ pc' = "count"
  /\ answer' = NoAnswer
  /\ heard' = Append(heard, Loud(f))
  /\ known' = (known /\ ~FullScale(f))
  /\ UNCHANGED <<handle, sil, voice>>

(* Variant: a voiced frame takes back one silent frame.                    *)
SilAfterTakenBack(v) == IF v THEN sil - 1 ELSE (sil + 1) % (SizeMax + 1)

(* The counters after a frame, before the decision.                        *)
SilAfter(v)   == IF v THEN 0 ELSE (sil + 1) % (SizeMax + 1)
VoiceAfter(v) == IF v THEN (voice + 1) % (SizeMax + 1) ELSE voice

Count ==
  /\ pc = "count"
  /\ handle = "frame"
  /\ sil' = SilAfter(mean > VoiceThreshold)
  /\ voice' = VoiceAfter(mean > VoiceThreshold)
  /\ mean' = 0
  /\ pc' = "decide"
  /\ UNCHANGED <<handle, answer, heard, known>>

(* Variants: a silence needs no speech before it; and silence alone must   *)
(* exceed both bounds.                                                     *)
StopsSilence(s, n) == s > SilBuffers /\ (s + n) % (SizeMax + 1) > TotalBuffers

StopsSpeakingLate(s, n) == s > SilBuffers /\ s > TotalBuffers /\ n > 0

StopsSpeaking(s, n) ==
  s > SilBuffers /\ (s + n) % (SizeMax + 1) > TotalBuffers /\ n > 0

AnnounceEnd ==
  /\ pc = "decide"
  /\ StopsSpeaking(sil, voice)
  /\ sil' = 0
  /\ voice' = 0
  /\ answer' = Ended
  /\ pc' = "out"
  /\ heard' = << >>
  /\ known' = TRUE
  /\ UNCHANGED <<handle, mean>>

GoOn ==
  /\ pc = "decide"
  /\ ~StopsSpeaking(sil, voice)
  /\ answer' = GoesOn
  /\ pc' = "out"
  /\ UNCHANGED <<handle, sil, voice, mean, heard, known>>

ResetVad ==
  /\ handle = "frame"
  /\ pc = "out"
  /\ sil' = 0
  /\ voice' = 0
  /\ heard' = << >>
  /\ known' = TRUE
  /\ UNCHANGED <<handle, pc, mean, answer>>

Next == \/ CreateVad \/ ResetVad \/ Overwrite \/ Die
        \/ \E f \in Frames : IsSpeaking(f)
        \/ Count \/ AnnounceEnd \/ GoOn

Spec == Init /\ [][Next]_vars
-----------------------------------------------------------------------------
TypeOK ==
  /\ handle \in {"none", "null", "frame"}
  /\ sil \in 0 .. SizeMax
  /\ voice \in 0 .. SizeMax
  /\ pc \in {"out", "count", "decide", "dead"}
  /\ mean \in Sample
  /\ answer \in {Ended, GoesOn, NoAnswer}
  /\ heard \in Seq(BOOLEAN) /\ Len(heard) <= MaxFrames
  /\ known \in BOOLEAN

(* Two counters stand for the whole history: since the latest reset or     *)
(* announced end, and as long as nobody writes over them,                  *)
(* total_voice_buffers is the number of frames that sound voiced and       *)
(* total_sil_buffers the length of the silence at the end.  Only frames at *)
(* full scale may be taken for silence.                                    *)
CountersAreTheHistory ==
  known /\ pc \in {"decide", "out"} =>
    /\ voice = Voiced(heard)
    /\ IsTrailingSilence(heard, sil)

(* The comparisons at xbusiness_vad.c:153-154 are stricter than the        *)
(* comments beside the numbers.  What that comes to, and no worse: the     *)
(* detector sits on an end that is due for one frame.  Only a voiced frame *)
(* takes an end back that was due.                                         *)
EndIsOneFrameLate ==
  known /\ pc = "out" =>
    \A i \in 1 .. Len(heard) - 1 : Due(First(heard, i)) => heard[i + 1]

(* An answer of 0 is the announcement of an end, 1 says that the speaker   *)
(* goes on: the opposite of what xbusiness_vpr.h:282 says of them ("0      *)
(* still speaking, 1 stopped speaking").  As long as the counters are      *)
(* known, 0 is returned on exactly the frames that are one behind a due    *)
(* end.                                                                    *)
AnswerIsTheEnd ==
  [][known /\ pc = "decide" /\ pc' = "out"
       => (answer' = Ended <=> DueOneFrameAgo(heard))]_vars

(* The comments at xbusiness_vad.c:138 and :140: three silent frames in a  *)
(* row and six frames in all are needed for an end to be announced.  Said  *)
(* of every announcement, whatever has become of the memory, and of frames *)
(* at full scale, too.                                                     *)
EndsAreHeard ==
  [][pc = "decide" /\ pc' = "out" /\ answer' = Ended => Due(heard)]_vars
=============================================================================
