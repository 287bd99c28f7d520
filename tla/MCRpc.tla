-------------------------------- MODULE MCRpc --------------------------------
(* Instances of RpcBridge. *)
EXTENDS RpcBridge, TLC

CONSTANTS s1, s2, q1, q2, t1, t2

\* q1 comes from the domain of participant 1, q2 from that of participant 2.
MCClientAt == [q \in Requests |-> IF q = q2 THEN 2 ELSE 1]

\* Server s1 is reached through every participant, s2 through participant 1 only.
MCContacts == {<<1, s1>>, <<2, s1>>, <<1, s2>>, <<3, s1>>}
\* The threads of the pool are interchangeable.
Threads == Permutations(Pool)
=============================================================================
