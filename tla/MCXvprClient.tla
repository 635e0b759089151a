---------------------------- MODULE MCXvprClient ----------------------------
(* Instances of XvprClient: one thread, or two with a name each in one     *)
(* group, and the functions each configuration is about.                   *)
EXTENDS XvprClient, TLC

CONSTANTS t1, t2, g1, n1, n2, r1, r2

OneThread == t1 :> {<<g1, n1>>}
OnePersonEach == (t1 :> {<<g1, n1>>}) @@ (t2 :> {<<g1, n2>>})
=============================================================================
