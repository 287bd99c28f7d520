----------------------------- MODULE PayloadPool -----------------------------
(***************************************************************************)
(* The payload pools: the memory that reader changes, routed data and      *)
(* writer changes share.  A FastPayloadPool counts the references of a     *)
(* block in an atomic word before it, a MapPayloadPool in a map under a    *)
(* mutex, a CopyPayloadPool gives every Payload object a block of its own. *)
(*                                                                         *)
(* The threads that receive, route, write and acknowledge call the pool at *)
(* once; a Payload object is used by one of them at a time.                *)
(***************************************************************************)
EXTENDS Naturals, FiniteSets

CONSTANTS
  Kinds,     \* the pools to look at: "fast", "map", "copy"
  Threads,   \* threads that call the pool
  Received,  \* cache changes of readers
  Foreign,   \* those of them whose payload belongs to another pool
  Data,      \* RtpsPayloadData objects in transmission
  Sent,      \* cache changes of writers
  MaxBlocks  \* bound: blocks reserved

Slots == Received \cup Data \cup Sent
Blocks == 1..MaxBlocks
Nothing == 0

ASSUME PoolAssumption ==
  /\ Kinds \subseteq {"fast", "map", "copy"}
  /\ Foreign \subseteq Received
  /\ Received \cap Data = {} /\ Received \cap Sent = {} /\ Data \cap Sent = {}
  /\ IsFiniteSet(Slots)
  /\ MaxBlocks \in Nat

VARIABLES
  kind,      \* which pool this is
  holds,     \* the block each Payload object refers to
  count,     \* the references each block counts
  freed,     \* how often each block has been given back
  reserved,  \* reserve_count_
  released,  \* release_count_
  at         \* where a thread is in release_payload, and the block

countVars == <<count, freed>>
totals == <<reserved, released>>
vars == <<kind, holds, countVars, totals, at>>

Idle == <<>>
Testing(t) == at[t] # Idle

Live == {b \in 1..reserved : freed[b] = 0}

Init ==
  /\ kind \in Kinds
  /\ holds = [h \in Slots |-> Nothing]
  /\ count = [b \in Blocks |-> 0]
  /\ freed = [b \in Blocks |-> 0]
  /\ reserved = 0 /\ released = 0
  /\ at = [t \in Threads |-> Idle]

-----------------------------------------------------------------------------
\* get_payload(size) of any pool, into Payload object h.  A size of 0 is refused, and
\* changes nothing.
Reserve(h) ==
  /\ holds[h] = Nothing
  /\ reserved < MaxBlocks
  /\ reserved' = reserved + 1
  /\ holds' = [holds EXCEPT ![h] = reserved + 1]
  /\ count' = [count EXCEPT ![reserved + 1] = 1]
  /\ UNCHANGED <<kind, freed, released, at>>

\* Mutant: a reference is not counted.
ReferUncounted(g, h) ==
  /\ holds[g] # Nothing /\ holds[h] = Nothing
  /\ holds' = [holds EXCEPT ![h] = holds[g]]
  /\ UNCHANGED <<kind, countVars, totals, at>>

\* get_payload(src, owner, target) of a fast or map pool that owns the payload.
Refer(g, h) ==
  /\ holds[g] # Nothing /\ holds[h] = Nothing
  /\ count' = [count EXCEPT ![holds[g]] = @ + 1]
  /\ holds' = [holds EXCEPT ![h] = holds[g]]
  /\ UNCHANGED <<kind, freed, totals, at>>

\* The same of a copy pool: another block is reserved and the bytes are copied.
Copy(g, h) == holds[g] # Nothing /\ Reserve(h)

Get(g, h) == IF kind = "copy" THEN Copy(g, h) ELSE Refer(g, h)

\* A cache change reaches a reader.  A foreign one holds no block of this pool.
Receive(h) == h \in Received \ Foreign /\ Reserve(h)

\* CommonReader::fill_received_data_: the data refers to the change, or to a copy of it
\* if its owner is another pool.
Take(g, h) ==
  /\ g \in Received /\ h \in Data
  /\ IF g \in Foreign THEN Reserve(h) ELSE Get(g, h)

\* CommonWriter::fill_to_send_data_, PayloadPoolMediator::get_payload
Write(g, h) == g \in Data /\ h \in Sent /\ Get(g, h)

-----------------------------------------------------------------------------
(* release_payload: the change is removed from its reader, the data is      *)
(* destroyed, the change is acknowledged or pushed out of a full history.   *)

\* Mutant: add_release_payload_ is forgotten.
FreeUncounted(b) ==
  /\ freed' = [freed EXCEPT ![b] = @ + 1]
  /\ UNCHANGED released

\* Block b is given back.
Free(b) ==
  /\ freed' = [freed EXCEPT ![b] = @ + 1]
  /\ released' = released + 1

LetGo(h) == holds' = [holds EXCEPT ![h] = Nothing]

\* Mutant: no pool releases in one step.
NotAtOnce == FALSE

\* MapPayloadPool::release_payload holds reserved_payloads_mutex_; the blocks of a copy
\* pool are not shared.
AtOnce == kind # "fast"

ReleaseAtOnce(h) ==
  /\ AtOnce
  /\ holds[h] # Nothing
  /\ LetGo(h)
  /\ count' = [count EXCEPT ![holds[h]] = @ - 1]
  /\ IF count[holds[h]] = 1 THEN Free(holds[h]) ELSE UNCHANGED <<freed, released>>
  /\ UNCHANGED <<kind, reserved, at>>

\* FastPayloadPool::release_payload takes the reference away in one atomic step ...
TakeAway(t, h) ==
  /\ ~AtOnce
  /\ ~Testing(t)
  /\ holds[h] # Nothing
  /\ LetGo(h)
  /\ count' = [count EXCEPT ![holds[h]] = @ - 1]
  /\ at' = [at EXCEPT ![t] = <<holds[h]>>]
  /\ UNCHANGED <<kind, freed, totals>>

Block(t) == at[t][1]

\* Mutant: the block is given back when one reference is left.
IsAlmostZero(b) == count[b] <= 1

\* Mutant: the word is read before the reference is taken away.
IsNeverZero(b) == FALSE

\* ... and reads the word in another.  Memory that was given back may hold anything.
IsZero(b) == count[b] = 0
MayReadZero(b) == freed[b] > 0 \/ IsZero(b)
MayReadMore(b) == freed[b] > 0 \/ ~IsZero(b)

TestFree(t) ==
  /\ Testing(t)
  /\ MayReadZero(Block(t))
  /\ Free(Block(t))
  /\ at' = [at EXCEPT ![t] = Idle]
  /\ UNCHANGED <<kind, holds, count, reserved>>

TestKeep(t) ==
  /\ Testing(t)
  /\ MayReadMore(Block(t))
  /\ at' = [at EXCEPT ![t] = Idle]
  /\ UNCHANGED <<kind, holds, countVars, totals>>

-----------------------------------------------------------------------------
Step ==
  \/ \E h \in Slots : Receive(h) \/ ReleaseAtOnce(h)
  \/ \E g, h \in Slots : Take(g, h) \/ Write(g, h)
  \/ \E t \in Threads : TestFree(t) \/ TestKeep(t) \/ \E h \in Slots : TakeAway(t, h)

\* A block that is given back twice is the end: the program is lost.
Lost == \E b \in Blocks : freed[b] > 1

Next == ~Lost /\ Step

\* A thread that has begun to release a payload finishes.
Fairness == \A t \in Threads : WF_vars(~Lost /\ (TestFree(t) \/ TestKeep(t)))

Spec == Init /\ [][Next]_vars
FairSpec == Spec /\ Fairness

-----------------------------------------------------------------------------
(* Properties *)

\* Every variable keeps its type.
TypeOK ==
  /\ kind \in Kinds
  /\ holds \in [Slots -> Blocks \cup {Nothing}]
  /\ count \in [Blocks -> Nat]
  /\ freed \in [Blocks -> Nat]
  /\ reserved \in 0..MaxBlocks /\ released \in Nat
  /\ at \in [Threads -> {Idle} \cup {<<b>> : b \in Blocks}]

Holders(b) == {h \in Slots : holds[h] = b}

\* The count of a block is the number of Payload objects that refer to it, whatever the
\* threads are doing: references are added and taken away in single atomic steps.
CountIsHolders == \A b \in Blocks : count[b] = Cardinality(Holders(b))

\* Memory that a reader change, a routed data or a writer change refers to is never given
\* back, whichever of the three is released first and on whichever thread.
HeldIsLive == \A h \in Slots : holds[h] # Nothing => holds[h] \in Live

\* is_clean() when nobody holds a payload and no release is in course: what was reserved
\* has been given back, once, the destructor of the pool has nothing to complain about and
\* add_release_payload_ does not throw.  (Two threads of a fast pool may both read zero.)
CleanWhenEmpty ==
  /\ \A h \in Slots : holds[h] = Nothing
  /\ \A t \in Threads : ~Testing(t)
  /\ kind = "fast" => ~Lost
  => reserved = released

\* The counter is "checked and modified in a single atomic operation", so that no two
\* threads take themselves for the last.
OneIsLast == ~Lost

\* A block nobody holds any more is given back: one of the threads that let go of it
\* last reads zero.
LastOneFrees ==
  \A b \in Blocks : b \in Live /\ Holders(b) = {} ~> b \notin Live \/ Lost

\* A pool, whatever its kind and its threads, keeps the promise of a pool.
Promise == INSTANCE CountedPayloads WITH live <- Live
KeepsPromise == Promise!SafePayloads
=============================================================================
