------------------------------ MODULE MCTrack ------------------------------
(***************************************************************************)
(* Instances of Track for TLC.  w1 and w2 are two writer objects of one    *)
(* participant (a writer recreated after its removal), w3 the writer of    *)
(* another.                                                                *)
(***************************************************************************)
EXTENDS Track, TLC

CONSTANTS c1, c2, s1, s2, k1, k2, w1, w2, w3, p1, p2

MCWriterParticipant == (w1 :> p1) @@ (w2 :> p1) @@ (w3 :> p2)

\* The two sources run the same code, and so do the two pool threads.
SourcePoolSymmetry == Permutations({s1, s2}) \cup Permutations({k1, k2})
=============================================================================
