---------------------------- MODULE MCGlobalState ----------------------------
(* GlobalParams, and GlobalState in it, with three threads and an array of *)
(* four characters.                                                        *)
EXTENDS GlobalParams

CONSTANTS t1, t2, t3, x, y

Threads == {t1, t2, t3}

MCParamSize == [key \in TextParams |-> 4]
MCDefault == <<x, x>>
MCValues == {<<y>>, <<y, x, y>>}
=============================================================================
