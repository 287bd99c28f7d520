------------------------------ MODULE MCBridge ------------------------------
(***************************************************************************)
(* Instances of DdsBridge for TLC: p1 and p2 have no route, p3 has one to  *)
(* p1 alone; with NoRoutes nobody has.                                     *)
(***************************************************************************)
EXTENDS DdsBridge, TLC

CONSTANTS p1, p2, p3

RouteOfP3 == p3 :> {p1}
NoRoutes == <<>>
=============================================================================
