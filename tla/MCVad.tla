-------------------------------- MODULE MCVad --------------------------------
(* Vad on frames around the threshold: silent and voiced ones, negative    *)
(* samples, a mean that is cut, no sample, nearly full scale and full      *)
(* scale; garbage that makes the counters wrap around.                     *)
EXTENDS Vad

MCFrames == {<<350>>, <<-351>>, <<350, 351>>, <<0, 703>>, << >>,
             <<-32768, 32767>>, <<-32768>>}
MCGarbage == {0, 4, SizeMax}
=============================================================================
