------------------------------- MODULE Samples -------------------------------
(* Sums over frames of 16-bit samples, as src/src/xbusiness_vad.c forms    *)
(* them: the absolute values are ints, so that of -32768 is 32768.         *)
EXTENDS Integers, Sequences

Sample == -32768 .. 32767

Abs(x) == IF x < 0 THEN -x ELSE x

(* sum += abs(f[i]), for every sample of f                                 *)
AbsSum(f) == LET sum[n \in 0 .. Len(f)] ==
                   IF n = 0 THEN 0 ELSE sum[n - 1] + Abs(f[n])
             IN  sum[Len(f)]
=============================================================================
