------------------------------- MODULE MCPipe -------------------------------
(***************************************************************************)
(* Instances of DdsPipe for TLC: g1 and g2 are readers of topic t1 in the  *)
(* networks of p1 and p2, g3 a second one in that of p1; g4 is a server    *)
(* and g5 a client of service s1 in the network of p1.  t2 is builtin.     *)
(***************************************************************************)
EXTENDS DdsPipe

CONSTANTS p1, p2, g1, g2, g3, g4, g5, t1, t2, s1

MCSees == {pair \in {<<p1, g1>>, <<p2, g2>>, <<p1, g3>>, <<p1, g4>>, <<p1, g5>>} : pair[2] \in Guids}
MCTopicOf == [g \in Guids |-> IF g \in {g4, g5} THEN s1 ELSE t1]
MCTriggers == Guids
MCServers == Guids \cap {g4}

\* A filter for the first topic, one for every topic and service, one for the requests.
MCMatches == [f \in Filters |-> CASE f = "t1" -> {t1} \cap Topics
                                [] f = "all" -> Topics \cup Halves
                                [] f = "requests" -> Services \X {"request"}]
NoList == [allowlist |-> {}, blocklist |-> {}]
Blocking(f) == [allowlist |-> {}, blocklist |-> {f}]
TopicReloads ==
  {NoList, Blocking("t1"), [allowlist |-> {"t1"}, blocklist |-> {}],
   [allowlist |-> {"t1", "all"}, blocklist |-> {"t1"}], Blocking("all")}
ServiceReloads == {NoList, Blocking("requests")}
=============================================================================
