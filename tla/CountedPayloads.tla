--------------------------- MODULE CountedPayloads ---------------------------
(***************************************************************************)
(* What a PayloadPool promises to those who hold payloads: a payload that  *)
(* somebody holds stays in memory, and one that nobody holds is given back.*)
(***************************************************************************)
CONSTANTS
  Slots,   \* the Payload objects: cache changes and routed data
  Blocks,  \* pieces of memory
  Nothing  \* what an empty Payload object holds

VARIABLES
  holds,  \* the block of each slot
  live    \* blocks in memory

vars == <<holds, live>>

Holders(b) == {h \in Slots : holds[h] = b}

Init == holds = [h \in Slots |-> Nothing] /\ live = {}

\* A payload is reserved.
Reserve(h, b) ==
  /\ holds[h] = Nothing
  /\ b \notin live
  /\ live' = live \cup {b}
  /\ holds' = [holds EXCEPT ![h] = b]

\* A second slot comes to hold the block of the first, and nothing is copied.
Refer(g, h) ==
  /\ holds[g] # Nothing /\ holds[h] = Nothing
  /\ holds' = [holds EXCEPT ![h] = holds[g]]
  /\ UNCHANGED live

\* A slot lets go of its block, which is given back if it was the last, or soon will.
Drop(h) ==
  /\ holds[h] # Nothing
  /\ holds' = [holds EXCEPT ![h] = Nothing]
  /\ \/ UNCHANGED live
     \/ Holders(holds[h]) = {h} /\ live' = live \ {holds[h]}

GiveBack(b) ==
  /\ b \in live /\ Holders(b) = {}
  /\ live' = live \ {b}
  /\ UNCHANGED holds

Next ==
  \/ \E h \in Slots, b \in Blocks : Reserve(h, b)
  \/ \E g, h \in Slots : Refer(g, h)
  \/ \E h \in Slots : Drop(h)
  \/ \E b \in Blocks : GiveBack(b)

SafePayloads == Init /\ [][Next]_vars
=============================================================================
