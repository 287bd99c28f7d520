------------------------------- MODULE MCPool --------------------------------
(* Instances of PayloadPool. *)
EXTENDS PayloadPool

CONSTANTS t1, t2, t3, r1, r2, f1, d1, d2, w1, w2
=============================================================================
