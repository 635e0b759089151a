----------------------------- MODULE SilenceTrim -----------------------------
(***************************************************************************)
(* xvpr_vad_detect_valid_speech of src/src/xbusiness_vad.c: the input is   *)
(* cut into blocks, blocks that are not loud enough are dropped, and from  *)
(* the others the samples that stand still.  The function has one loop for *)
(* the full blocks and a copy of it for the rest; both are the same        *)
(* actions here, on a block of another length.                             *)
(*                                                                         *)
(* win_buf and the output are the sequences of the samples written so far: *)
(* j is Len(win), out_length is Len(out).                                  *)
(***************************************************************************)
EXTENDS Samples

CONSTANTS
  BlockLen,    \* VOC_BLOCK_LEN: 800 in the code
  MinEng,      \* MIN_VOC_ENG: 350 in the code
  Inputs       \* the streams that callers pass

ASSUME TrimAssumption ==
  /\ BlockLen \in Nat \ {0}
  /\ MinEng \in Nat
  /\ Inputs \subseteq Seq(Sample)

VARIABLES
  input,     \* the stream
  block,     \* what malloc returned for the output: "memory" or "null"
  phase,     \* "enter", "weigh", "scan", "done"; "dead" after a crash
  start,     \* where the current block begins
  k,         \* how many samples of the block have been looked at
  win, p,    \* win_buf up to j, and where to go back to
  old,       \* <<old1, old2, old3>>
  out        \* the output

vars == <<input, block, phase, start, k, win, p, old, out>>
-----------------------------------------------------------------------------
Length == Len(input)

(* The samples of the current block: BlockLen of them, or the rest.        *)
Size == IF start + BlockLen <= Length THEN BlockLen ELSE Length - start

Current == SubSeq(input, start + 1, start + Size)

(* eng > MIN_VOC_ENG * (samples of the block)                              *)
Loud(b) == AbsSum(b) > MinEng * Len(b)

Zeros == <<0, 0, 0>>

Init ==
  /\ input \in Inputs
  /\ block = "null"
  /\ phase = "enter"
  /\ start = 0 /\ k = 0 /\ p = 0
  /\ win = << >>
  /\ old = Zeros
  /\ out = << >>

(* malloc; its result is not looked at.                                    *)
Allocate ==
  /\ phase = "enter"
  /\ block' \in {"memory", "null"}
  /\ phase' = "weigh"
  /\ UNCHANGED <<input, start, k, win, p, old, out>>

(* Variant: the block buffer is not emptied.                               *)
BeginScanFull ==
  /\ phase' = "scan"
  /\ k' = 0 /\ p' = 0
  /\ old' = Zeros
  /\ UNCHANGED win

(* j = p = 0; old1 = old2 = old3 = 0;                                      *)
BeginScan ==
  /\ phase' = "scan"
  /\ k' = 0 /\ p' = 0
  /\ win' = << >>
  /\ old' = Zeros

WeighLoud ==
  /\ phase = "weigh"
  /\ Loud(Current)
  /\ BeginScan
  /\ UNCHANGED <<input, block, start, out>>

(* Variant: the next block is looked for where this one began.             *)
WeighQuietAgain ==
  /\ phase = "weigh"
  /\ ~Loud(Current)
  /\ IF Size < BlockLen THEN phase' = "done" ELSE phase' = phase
  /\ UNCHANGED <<input, block, start, k, win, p, old, out>>

(* A quiet block: on to the next one; the rest is the last, even if it is  *)
(* empty.                                                                  *)
WeighQuiet ==
  /\ phase = "weigh"
  /\ ~Loud(Current)
  /\ IF Size < BlockLen
     THEN phase' = "done" /\ start' = start
     ELSE phase' = phase /\ start' = start + BlockLen
  /\ UNCHANGED <<input, block, k, win, p, old, out>>

(* Variants: back by two samples, and by three from before the sample.     *)
BackTo2(j) == j - 2
BackToBefore(j) == j - 4

(* p = j - 3                                                               *)
BackTo(j) == j - 3

(* A sample that is the fourth of its kind in a row takes the three before *)
(* it back, and further ones of its kind are left out.                     *)
ScanSample ==
  /\ phase = "scan"
  /\ k < Size
  /\ LET cur == Current[k + 1]
     IN  /\ IF old = <<cur, cur, cur>>
            THEN /\ win' = IF p >= 0 THEN SubSeq(win, 1, p) ELSE win
                 /\ p' = p
            ELSE /\ win' = Append(win, cur)
                 /\ p' = BackTo(Len(win) + 1)
         /\ old' = <<cur, old[1], old[2]>>
  /\ k' = k + 1
  /\ UNCHANGED <<input, block, phase, start, out>>

(* memcpy(cur_ptr, win_buf, ...) at the end of a loud block.               *)
Copy ==
  /\ phase = "scan"
  /\ k = Size
  /\ IF block = "null" /\ win # << >>
     THEN /\ phase' = "dead"
          /\ UNCHANGED <<start, out>>
     ELSE /\ out' = out \o win
          /\ IF Size < BlockLen
             THEN phase' = "done" /\ start' = start
             ELSE phase' = "weigh" /\ start' = start + BlockLen
  /\ UNCHANGED <<input, block, k, win, p, old>>

Next == Allocate \/ WeighLoud \/ WeighQuiet \/ ScanSample \/ Copy

Spec == Init /\ [][Next]_vars /\ WF_vars(Next)
-----------------------------------------------------------------------------
TypeOK ==
  /\ input \in Inputs
  /\ block \in {"memory", "null"}
  /\ phase \in {"enter", "weigh", "scan", "done", "dead"}
  /\ start \in 0 .. Length
  /\ k \in 0 .. BlockLen
  /\ win \in Seq(Sample)
  /\ p \in -2 .. BlockLen
  /\ old \in Sample \X Sample \X Sample
  /\ out \in Seq(Sample)

(* The output never outgrows the input it was allocated for, nor a block   *)
(* win_buf, and going back never goes behind what was written.             *)
Fits ==
  /\ phase = "scan" =>
       /\ start + k <= Length
       /\ Len(win) <= k
       /\ p <= Len(win)
       /\ Len(out) + Len(win) <= start + k
  /\ Len(out) <= Length

(* The samples that detect_valid_speech is to keep of a block: those that  *)
(* are in no run of four equal ones, with three zeros before the block.    *)
StandsStill(b, i) ==
  LET c == Zeros \o b
  IN  \E a \in i .. i + 3 :
        /\ a + 3 <= Len(c)
        /\ \A d \in 1 .. 3 : c[a + d] = c[a]

KeptOf(b) ==
  LET kept[n \in 0 .. Len(b)] ==
        IF n = 0 THEN << >>
        ELSE IF StandsStill(b, n) THEN kept[n - 1]
        ELSE Append(kept[n - 1], b[n])
  IN  kept[Len(b)]

SpeechOf(s) ==
  LET n == Len(s) \div BlockLen
      Block(i) == SubSeq(s, i * BlockLen + 1,
                         IF i < n THEN (i + 1) * BlockLen ELSE Len(s))
      speech[i \in 0 .. n] ==
        (IF i = 0 THEN << >> ELSE speech[i - 1])
          \o (IF Loud(Block(i)) THEN KeptOf(Block(i)) ELSE << >>)
  IN  speech[n]

(* One pass that writes and takes back is the filter: what is returned is  *)
(* the loud blocks without the runs of four and more equal samples, and    *)
(* without the zeros a block begins with.                                  *)
ReturnsTheSpeech == phase = "done" => out = SpeechOf(input)

(* The function returns, unless malloc gave it nothing to write to.        *)
Returns == phase = "enter" ~> phase = "done" \/ (phase = "dead" /\ block = "null")
=============================================================================
