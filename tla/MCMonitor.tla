------------------------------ MODULE MCMonitor ------------------------------
(* Instances of Monitor. *)
EXTENDS Monitor

CONSTANTS r1, r2, d1
=============================================================================
