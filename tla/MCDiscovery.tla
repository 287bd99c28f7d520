---------------------------- MODULE MCDiscovery ----------------------------
(***************************************************************************)
(* An instance of DiscoveryDatabase for TLC: each endpoint is seen by one  *)
(* participant.                                                            *)
(***************************************************************************)
EXTENDS DiscoveryDatabase

CONSTANTS p1, p2, g1, g2

SeenOnce == {<<p1, g1>>, <<p2, g2>>}
=============================================================================
