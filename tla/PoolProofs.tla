----------------------------- MODULE PoolProofs ------------------------------
(***************************************************************************)
(* Theorems about PayloadPool, for any numbers of threads, changes, data   *)
(* and blocks, and for each of the three pools: the count of a block is    *)
(* the number of those who hold it, no block is given back while it is     *)
(* held, and so every pool keeps the promise of CountedPayloads.           *)
(***************************************************************************)
EXTENDS PayloadPool, FiniteSetTheorems, TLAPS

\* A block that has not been reserved yet is held by nobody and was never given back.
FreshIsLoose ==
  \A b \in Blocks : b > reserved => Holders(b) = {} /\ freed[b] = 0

\* Nobody holds a block that has been given back.
FreedIsLoose == \A b \in Blocks : freed[b] > 0 => Holders(b) = {}

\* What a thread is releasing has been reserved.
TestsReserved == \A t \in Threads : Testing(t) => Block(t) \in Blocks /\ Block(t) <= reserved

PoolInv == TypeOK /\ CountIsHolders /\ FreshIsLoose /\ FreedIsLoose /\ TestsReserved

-----------------------------------------------------------------------------
(* Who holds what, before and after a step.                                *)

\* The holders of a block are finitely many, so that counting them makes sense.
LEMMA HoldersFinite ==
  ASSUME NEW b
  PROVE  IsFiniteSet(Holders(b)) /\ Cardinality(Holders(b)) \in Nat
<1>1. Holders(b) \subseteq Slots /\ IsFiniteSet(Slots)
  BY PoolAssumption DEF Holders
<1>2. QED
  BY <1>1, FS_Subset, FS_CardinalityType

\* A block nobody holds has no holder to count, and the other way round.
LEMMA NobodyIsZero ==
  ASSUME NEW b
  PROVE  Cardinality(Holders(b)) = 0 <=> Holders(b) = {}
BY HoldersFinite, FS_EmptySet

\* When an empty Payload object comes to refer to a block, that block has one more
\* holder, and the others keep theirs.
LEMMA Gained ==
  ASSUME NEW h \in Slots, NEW b \in Blocks, NEW c \in Blocks,
         holds \in [Slots -> Blocks \cup {Nothing}],
         holds[h] = Nothing,
         holds' = [holds EXCEPT ![h] = b]
  PROVE  /\ Holders(c)' = IF c = b THEN Holders(b) \cup {h} ELSE Holders(c)
         /\ Cardinality(Holders(c)') = Cardinality(Holders(c)) + (IF c = b THEN 1 ELSE 0)
<1>1. b # Nothing /\ c # Nothing
  BY PoolAssumption DEF Blocks, Nothing
<1>2. Holders(c)' = IF c = b THEN Holders(b) \cup {h} ELSE Holders(c)
  BY <1>1 DEF Holders
<1>3. h \notin Holders(b)
  BY <1>1 DEF Holders
<1>4. Cardinality(Holders(b) \cup {h}) = Cardinality(Holders(b)) + 1
  BY <1>3, HoldersFinite, FS_AddElement
<1>5. Cardinality(Holders(c)) \in Nat
  BY HoldersFinite
<1>6. QED
  BY <1>2, <1>4, <1>5

\* When a Payload object lets go of its block, that block has one holder less, and the
\* others keep theirs.
LEMMA LetGone ==
  ASSUME NEW h \in Slots, NEW c \in Blocks,
         holds \in [Slots -> Blocks \cup {Nothing}],
         holds[h] # Nothing,
         LetGo(h)
  PROVE  /\ Holders(c)' = IF c = holds[h] THEN Holders(c) \ {h} ELSE Holders(c)
         /\ Cardinality(Holders(c)') = Cardinality(Holders(c)) - (IF c = holds[h] THEN 1 ELSE 0)
         /\ Cardinality(Holders(holds[h])) > 0
<1>1. c # Nothing
  BY PoolAssumption DEF Blocks, Nothing
<1>2. Holders(c)' = IF c = holds[h] THEN Holders(c) \ {h} ELSE Holders(c)
  BY <1>1 DEF Holders, LetGo
<1>3. h \in Holders(holds[h])
  BY DEF Holders
<1>4. Cardinality(Holders(holds[h]) \ {h}) = Cardinality(Holders(holds[h])) - 1
  BY <1>3, HoldersFinite, FS_RemoveElement
<1>5. Cardinality(Holders(holds[h])) > 0
  BY <1>3, HoldersFinite, NobodyIsZero
<1>6. Cardinality(Holders(c)) \in Nat
  BY HoldersFinite
<1>7. QED
  BY <1>2, <1>4, <1>5, <1>6

-----------------------------------------------------------------------------
(* The invariant                                                           *)

\* The pool starts empty.
LEMMA PoolInitially == Init => PoolInv
<1> SUFFICES ASSUME Init PROVE PoolInv
  OBVIOUS
<1>1. TypeOK
  BY PoolAssumption DEF Init, TypeOK, Blocks
<1>2. \A b \in Blocks : Holders(b) = {}
  BY PoolAssumption DEF Init, Holders, Blocks, Nothing
<1>3. CountIsHolders
  BY <1>2, FS_EmptySet DEF CountIsHolders, Init
<1>4. FreshIsLoose /\ FreedIsLoose /\ TestsReserved
  BY <1>2 DEF FreshIsLoose, FreedIsLoose, TestsReserved, Testing, Init
<1>5. QED
  BY <1>1, <1>3, <1>4 DEF PoolInv

\* A block that is held is reserved, counted and not given back.
LEMMA HeldBlock ==
  ASSUME PoolInv, NEW h \in Slots, holds[h] # Nothing
  PROVE  /\ holds[h] \in Blocks /\ holds[h] <= reserved
         /\ freed[holds[h]] = 0
         /\ count[holds[h]] > 0
<1>1. holds[h] \in Blocks
  BY DEF PoolInv, TypeOK
<1>2. h \in Holders(holds[h])
  BY DEF Holders
<1>3. holds[h] \in Nat /\ reserved \in Nat /\ freed[holds[h]] \in Nat
  BY <1>1, PoolAssumption DEF PoolInv, TypeOK, Blocks
<1>4. holds[h] <= reserved
  BY <1>1, <1>2, <1>3 DEF PoolInv, FreshIsLoose
<1>5. freed[holds[h]] = 0
  BY <1>1, <1>2, <1>3 DEF PoolInv, FreedIsLoose
<1>6. count[holds[h]] > 0
  BY <1>1, <1>2, HoldersFinite, NobodyIsZero DEF PoolInv, CountIsHolders
<1>7. QED
  BY <1>1, <1>4, <1>5, <1>6

\* get_payload(size) keeps the invariant.
LEMMA ReserveKeeps ==
  ASSUME PoolInv, NEW h \in Slots, Reserve(h)
  PROVE  PoolInv'
<1> DEFINE n == reserved + 1
<1>1. n \in Blocks /\ reserved \in Nat
  BY PoolAssumption DEF PoolInv, TypeOK, Reserve, Blocks
<1>2. Holders(n) = {} /\ freed[n] = 0
  BY <1>1 DEF PoolInv, FreshIsLoose
<1>3. count[n] = 0
  BY <1>1, <1>2, NobodyIsZero DEF PoolInv, CountIsHolders
<1>4. \A c \in Blocks :
        /\ Holders(c)' = IF c = n THEN Holders(n) \cup {h} ELSE Holders(c)
        /\ Cardinality(Holders(c)') = Cardinality(Holders(c)) + (IF c = n THEN 1 ELSE 0)
  BY <1>1, Gained DEF PoolInv, TypeOK, Reserve
<1>5. TypeOK'
  BY <1>1, PoolAssumption DEF PoolInv, TypeOK, Reserve, Blocks
<1>6. CountIsHolders'
  BY <1>1, <1>3, <1>4 DEF PoolInv, TypeOK, CountIsHolders, Reserve
<1>7. FreshIsLoose'
  BY <1>1, <1>4 DEF PoolInv, FreshIsLoose, Reserve, Blocks
<1>8. FreedIsLoose'
  BY <1>1, <1>2, <1>4 DEF PoolInv, FreedIsLoose, Reserve
<1>9. TestsReserved'
  BY <1>1 DEF PoolInv, TestsReserved, Testing, Block, Reserve, Blocks
<1>10. QED
  BY <1>5, <1>6, <1>7, <1>8, <1>9 DEF PoolInv

\* A second reference to a block keeps the invariant.
LEMMA ReferKeeps ==
  ASSUME PoolInv, NEW g \in Slots, NEW h \in Slots, Refer(g, h)
  PROVE  PoolInv'
<1> DEFINE b == holds[g]
<1>1. b \in Blocks /\ b <= reserved /\ freed[b] = 0
  BY HeldBlock DEF Refer
<1>2. \A c \in Blocks :
        /\ Holders(c)' = IF c = b THEN Holders(b) \cup {h} ELSE Holders(c)
        /\ Cardinality(Holders(c)') = Cardinality(Holders(c)) + (IF c = b THEN 1 ELSE 0)
  BY <1>1, Gained DEF PoolInv, TypeOK, Refer, totals
<1>3. TypeOK'
  BY <1>1 DEF PoolInv, TypeOK, Refer, totals
<1>4. CountIsHolders'
  BY <1>1, <1>2 DEF PoolInv, TypeOK, CountIsHolders, Refer, totals
<1>5. FreshIsLoose'
  <2>1. UNCHANGED <<freed, reserved>>
    BY DEF Refer, totals
  <2>2. ASSUME NEW c \in Blocks, c > reserved
        PROVE  Holders(c)' = {} /\ freed[c] = 0
    <3>1. c # b
      BY <1>1, <2>2, PoolAssumption DEF Blocks, PoolInv, TypeOK
    <3> QED
      BY <1>2, <2>2, <3>1 DEF PoolInv, FreshIsLoose
  <2> QED
    BY <2>1, <2>2 DEF FreshIsLoose
<1>6. FreedIsLoose'
  BY <1>1, <1>2 DEF PoolInv, FreedIsLoose, Refer, totals
<1>7. TestsReserved'
  BY DEF PoolInv, TestsReserved, Testing, Block, Refer, totals
<1>8. QED
  BY <1>3, <1>4, <1>5, <1>6, <1>7 DEF PoolInv

\* release_payload of a map or copy pool keeps the invariant.
LEMMA ReleaseKeeps ==
  ASSUME PoolInv, NEW h \in Slots, ReleaseAtOnce(h)
  PROVE  PoolInv'
<1> DEFINE b == holds[h]
<1>1. b \in Blocks /\ b <= reserved /\ freed[b] = 0 /\ count[b] > 0
  BY HeldBlock DEF ReleaseAtOnce
<1>2. \A c \in Blocks :
        /\ Holders(c)' = IF c = b THEN Holders(c) \ {h} ELSE Holders(c)
        /\ Cardinality(Holders(c)') = Cardinality(Holders(c)) - (IF c = b THEN 1 ELSE 0)
  BY LetGone DEF PoolInv, TypeOK, ReleaseAtOnce
<1>3. \A c \in Blocks : c = b /\ count[c] = 1 => Holders(c)' = {}
  <2> SUFFICES ASSUME NEW c \in Blocks, c = b, count[c] = 1 PROVE Holders(c)' = {}
    OBVIOUS
  <2>1. /\ Holders(c)' = Holders(c) \ {h}
        /\ Cardinality(Holders(c)') = Cardinality(Holders(c)) - 1
    BY <1>2
  <2>2. Cardinality(Holders(c)') = 0
    BY <2>1 DEF PoolInv, CountIsHolders
  <2>3. IsFiniteSet(Holders(c)')
    BY <2>1, HoldersFinite, FS_Subset
  <2>4. QED
    BY <2>2, <2>3, FS_EmptySet
<1>4. /\ count' = [count EXCEPT ![b] = @ - 1]
      /\ reserved' = reserved /\ at' = at /\ kind' = kind
      /\ freed' = IF count[b] = 1 THEN [freed EXCEPT ![b] = @ + 1] ELSE freed
      /\ released' = IF count[b] = 1 THEN released + 1 ELSE released
  BY DEF ReleaseAtOnce, Free
<1>5. TypeOK'
  BY <1>1, <1>4 DEF PoolInv, TypeOK, ReleaseAtOnce, LetGo
<1>6. CountIsHolders'
  BY <1>1, <1>2, <1>4 DEF PoolInv, TypeOK, CountIsHolders
<1>7. FreshIsLoose'
  BY <1>1, <1>2, <1>4, PoolAssumption DEF PoolInv, TypeOK, FreshIsLoose, Blocks
<1>8. FreedIsLoose'
  BY <1>1, <1>2, <1>3, <1>4, PoolAssumption DEF PoolInv, TypeOK, FreedIsLoose
<1>9. TestsReserved'
  BY <1>4 DEF PoolInv, TestsReserved, Testing, Block
<1>10. QED
  BY <1>5, <1>6, <1>7, <1>8, <1>9 DEF PoolInv

\* The first half of release_payload of a fast pool keeps the invariant.
LEMMA TakeAwayKeeps ==
  ASSUME PoolInv, NEW t \in Threads, NEW h \in Slots, TakeAway(t, h)
  PROVE  PoolInv'
<1> DEFINE b == holds[h]
<1>1. b \in Blocks /\ b <= reserved /\ freed[b] = 0 /\ count[b] > 0
  BY HeldBlock DEF TakeAway
<1>2. \A c \in Blocks :
        /\ Holders(c)' = IF c = b THEN Holders(c) \ {h} ELSE Holders(c)
        /\ Cardinality(Holders(c)') = Cardinality(Holders(c)) - (IF c = b THEN 1 ELSE 0)
  BY LetGone DEF PoolInv, TypeOK, TakeAway, totals
<1>3. TypeOK'
  BY <1>1 DEF PoolInv, TypeOK, TakeAway, LetGo, totals
<1>4. CountIsHolders'
  BY <1>1, <1>2 DEF PoolInv, TypeOK, CountIsHolders, TakeAway, totals
<1>5. FreshIsLoose'
  BY <1>1, <1>2 DEF PoolInv, FreshIsLoose, TakeAway, totals
<1>6. FreedIsLoose'
  BY <1>1, <1>2 DEF PoolInv, FreedIsLoose, TakeAway, totals
<1>7. TestsReserved'
  BY <1>1 DEF PoolInv, TypeOK, TestsReserved, Testing, Block, TakeAway, totals
<1>8. QED
  BY <1>3, <1>4, <1>5, <1>6, <1>7 DEF PoolInv

\* A thread that reads zero reads it of a block that nobody holds: zero references, or
\* memory that another thread has given back already.
LEMMA ZeroIsLoose ==
  ASSUME PoolInv, NEW t \in Threads, Testing(t), MayReadZero(Block(t))
  PROVE  Block(t) \in Blocks /\ Block(t) <= reserved /\ Holders(Block(t)) = {}
<1>1. Block(t) \in Blocks /\ Block(t) <= reserved
  BY DEF PoolInv, TestsReserved
<1>2. CASE freed[Block(t)] > 0
  BY <1>1, <1>2 DEF PoolInv, FreedIsLoose
<1>3. CASE IsZero(Block(t))
  BY <1>1, <1>3, NobodyIsZero DEF PoolInv, CountIsHolders, IsZero
<1>4. QED
  BY <1>1, <1>2, <1>3 DEF MayReadZero

\* The second half of release_payload of a fast pool keeps the invariant.
LEMMA TestFreeKeeps ==
  ASSUME PoolInv, NEW t \in Threads, TestFree(t)
  PROVE  PoolInv'
<1> DEFINE b == Block(t)
<1>1. b \in Blocks /\ b <= reserved /\ Holders(b) = {}
  BY ZeroIsLoose DEF TestFree
<1>2. /\ freed' = [freed EXCEPT ![b] = @ + 1]
      /\ released' = released + 1
      /\ at' = [at EXCEPT ![t] = Idle]
      /\ kind' = kind /\ holds' = holds /\ count' = count /\ reserved' = reserved
  BY DEF TestFree, Free
<1>3. \A c : Holders(c)' = Holders(c)
  BY <1>2 DEF Holders
<1>4. TypeOK'
  BY <1>1, <1>2 DEF PoolInv, TypeOK
<1>5. CountIsHolders'
  BY <1>2, <1>3 DEF PoolInv, CountIsHolders
<1>6. FreshIsLoose'
  BY <1>1, <1>2, <1>3, PoolAssumption DEF PoolInv, TypeOK, FreshIsLoose, Blocks
<1>7. FreedIsLoose'
  BY <1>1, <1>2, <1>3 DEF PoolInv, TypeOK, FreedIsLoose
<1>8. TestsReserved'
  BY <1>2 DEF PoolInv, TypeOK, TestsReserved, Testing, Block
<1>9. QED
  BY <1>4, <1>5, <1>6, <1>7, <1>8 DEF PoolInv

\* A thread that reads more than zero keeps the invariant.
LEMMA TestKeepKeeps ==
  ASSUME PoolInv, NEW t \in Threads, TestKeep(t)
  PROVE  PoolInv'
<1>1. \A c : Holders(c)' = Holders(c)
  BY DEF TestKeep, Holders
<1>2. TypeOK' /\ CountIsHolders' /\ FreshIsLoose' /\ FreedIsLoose'
  BY <1>1 DEF PoolInv, TypeOK, CountIsHolders, FreshIsLoose, FreedIsLoose, TestKeep,
              countVars, totals
<1>3. TestsReserved'
  BY DEF PoolInv, TypeOK, TestsReserved, Testing, Block, TestKeep, countVars, totals
<1>4. QED
  BY <1>2, <1>3 DEF PoolInv

-----------------------------------------------------------------------------
(* The steps of the pool are few: what receiving, taking and writing do is  *)
(* to reserve a block or to refer to one.                                  *)

\* Every step reserves, refers, releases or looks at the count.
LEMMA StepCases ==
  ASSUME Next
  PROVE  \/ \E h \in Slots : Reserve(h)
         \/ \E g, h \in Slots : Refer(g, h)
         \/ \E h \in Slots : ReleaseAtOnce(h)
         \/ \E t \in Threads, h \in Slots : TakeAway(t, h)
         \/ \E t \in Threads : TestFree(t)
         \/ \E t \in Threads : TestKeep(t)
BY DEF Next, Step, Receive, Take, Write, Get, Copy

\* A step of the pool keeps the invariant, and so does a step that leaves it alone.
LEMMA PoolStep == PoolInv /\ [Next]_vars => PoolInv'
<1> SUFFICES ASSUME PoolInv, [Next]_vars PROVE PoolInv'
  OBVIOUS
<1>1. CASE Next
  BY <1>1, StepCases, ReserveKeeps, ReferKeeps, ReleaseKeeps, TakeAwayKeeps, TestFreeKeeps,
     TestKeepKeeps
<1>2. CASE UNCHANGED vars
  <2>1. \A c : Holders(c)' = Holders(c)
    BY <1>2 DEF vars, Holders
  <2>2. QED
    BY <1>2, <2>1 DEF vars, countVars, totals, PoolInv, TypeOK, CountIsHolders,
                      FreshIsLoose, FreedIsLoose, TestsReserved, Testing, Block
<1>3. QED
  BY <1>1, <1>2

\* The invariant holds throughout.
LEMMA PoolInvariant == Spec => []PoolInv
BY PoolInitially, PoolStep, PTL DEF Spec

\* Every variable of a pool keeps its type: no count of references goes below zero.
THEOREM PoolTypeCorrect == Spec => []TypeOK
BY PoolInvariant, PTL DEF PoolInv

\* The reference count of a block is always the number of Payload objects that refer to
\* it, however get_payload and release_payload interleave.
THEOREM CountCorrect == Spec => []CountIsHolders
BY PoolInvariant, PTL DEF PoolInv

\* The invariant leaves no held block outside the memory in use.
LEMMA HeldIsLiveIn == PoolInv => HeldIsLive
<1> SUFFICES ASSUME PoolInv, NEW h \in Slots, holds[h] # Nothing PROVE holds[h] \in Live
  BY DEF HeldIsLive
<1>1. QED
  BY HeldBlock, PoolAssumption DEF Live, Blocks, PoolInv, TypeOK

\* Memory that a reader change, a routed data or a writer change refers to is never
\* given back, whichever of them is released first and on whichever thread.
THEOREM HeldCorrect == Spec => []HeldIsLive
BY PoolInvariant, HeldIsLiveIn, PTL

-----------------------------------------------------------------------------
(* What is reserved is released                                            *)

GivenBack == {b \in Blocks : freed[b] > 0}

\* As long as no block is given back twice, add_release_payload_ counts the blocks that
\* were given back.
ReleasesCounted == ~Lost => released = Cardinality(GivenBack)

\* Only a fast pool has threads between the two halves of release_payload, and only there
\* can a block be given back twice.
OnlyFastTests == kind # "fast" => ~Lost /\ \A t \in Threads : ~Testing(t)

\* A block to which no reference is left has been given back, or the thread that took the
\* last one away is about to read the word.
Tested(b) == \E t \in Threads : at[t] = <<b>>
UncountedIsTested ==
  \A b \in Blocks : b <= reserved /\ count[b] = 0 => freed[b] > 0 \/ Tested(b)

CleanInv == ReleasesCounted /\ OnlyFastTests /\ UncountedIsTested

\* An empty pool has released nothing.
LEMMA CleanInitially == Init => CleanInv
<1> SUFFICES ASSUME Init PROVE CleanInv
  OBVIOUS
<1>1. \A b \in Blocks : freed[b] = 0 /\ ~(b <= reserved)
  BY PoolAssumption DEF Init, Blocks
<1>2. GivenBack = {} /\ ~Lost
  BY <1>1 DEF GivenBack, Lost
<1>3. ReleasesCounted
  BY <1>2, FS_EmptySet DEF ReleasesCounted, Init
<1>4. OnlyFastTests /\ UncountedIsTested
  BY <1>1, <1>2 DEF OnlyFastTests, UncountedIsTested, Testing, Init
<1>5. QED
  BY <1>3, <1>4 DEF CleanInv

\* The blocks that were given back are finitely many.
LEMMA GivenBackFinite == IsFiniteSet(GivenBack) /\ Cardinality(GivenBack) \in Nat
<1>1. IsFiniteSet(Blocks)
  BY PoolAssumption, FS_Interval DEF Blocks
<1>2. IsFiniteSet(GivenBack)
  BY <1>1, FS_Subset DEF GivenBack
<1>3. QED
  BY <1>2, FS_CardinalityType

\* A step that gives nothing back leaves the counts of what was given back.
LEMMA NothingFreed ==
  ASSUME CleanInv, freed' = freed, released' = released
  PROVE  ReleasesCounted' /\ (Lost' <=> Lost)
BY DEF CleanInv, ReleasesCounted, GivenBack, Lost

\* A step that gives one block back counts it, unless that was the second time.
LEMMA OneFreed ==
  ASSUME PoolInv, CleanInv, ~Lost, NEW b \in Blocks, Free(b)
  PROVE  ReleasesCounted' /\ (freed[b] = 0 => ~Lost')
<1>1. /\ freed \in [Blocks -> Nat] /\ freed' = [freed EXCEPT ![b] = @ + 1]
      /\ released' = Cardinality(GivenBack) + 1
  BY DEF PoolInv, TypeOK, Free, CleanInv, ReleasesCounted
<1>2. \A c \in Blocks : freed[c] = 0 \/ freed[c] = 1
  BY <1>1 DEF Lost
<1>3. CASE freed[b] = 0
  <2>1. GivenBack' = GivenBack \cup {b} /\ b \notin GivenBack
    BY <1>1, <1>3 DEF GivenBack
  <2>2. Cardinality(GivenBack') = Cardinality(GivenBack) + 1
    BY <2>1, GivenBackFinite, FS_AddElement
  <2>3. ~Lost'
    BY <1>1, <1>2, <1>3 DEF Lost
  <2>4. QED
    BY <1>1, <2>2, <2>3 DEF ReleasesCounted
<1>4. CASE freed[b] = 1
  BY <1>1, <1>4 DEF ReleasesCounted, Lost
<1>5. QED
  BY <1>2, <1>3, <1>4

\* get_payload, of a new block or of one in use, keeps what is released counted.
LEMMA GetsKeepClean ==
  ASSUME PoolInv, CleanInv, NEW h \in Slots, Reserve(h) \/ \E g \in Slots : Refer(g, h)
  PROVE  CleanInv'
<1>1. kind' = kind /\ at' = at /\ freed' = freed /\ released' = released
  BY DEF Reserve, Refer, totals
<1>2. ReleasesCounted' /\ OnlyFastTests'
  BY <1>1, NothingFreed DEF CleanInv, OnlyFastTests, Testing
<1>3. UncountedIsTested'
  <2> SUFFICES ASSUME NEW c \in Blocks, c <= reserved', count'[c] = 0
               PROVE  freed[c] > 0 \/ Tested(c)
    BY <1>1 DEF UncountedIsTested, Tested
  <2>1. count \in [Blocks -> Nat] /\ reserved \in Nat /\ c \in Nat
    BY PoolAssumption DEF PoolInv, TypeOK, Blocks
  <2>2. c <= reserved /\ count[c] = 0
    <3>1. CASE Reserve(h)
      BY <2>1, <3>1 DEF Reserve
    <3>2. CASE \E g \in Slots : Refer(g, h)
      <4>1. PICK g \in Slots : Refer(g, h)
        BY <3>2
      <4>2. holds[g] \in Blocks /\ count[holds[g]] > 0
        BY <4>1, HeldBlock DEF Refer
      <4>3. QED
        BY <2>1, <4>1, <4>2 DEF Refer, totals
    <3>3. QED
      BY <3>1, <3>2
  <2>3. QED
    BY <2>2 DEF CleanInv, UncountedIsTested
<1>4. QED
  BY <1>2, <1>3 DEF CleanInv

\* release_payload of a map or copy pool gives the block back with the last reference.
LEMMA ReleaseKeepsClean ==
  ASSUME PoolInv, CleanInv, ~Lost, NEW h \in Slots, ReleaseAtOnce(h)
  PROVE  CleanInv'
<1> DEFINE b == holds[h]
<1>1. b \in Blocks /\ freed[b] = 0 /\ count[b] > 0
  BY HeldBlock DEF ReleaseAtOnce
<1>2. /\ kind' = kind /\ at' = at /\ reserved' = reserved
      /\ count' = [count EXCEPT ![b] = @ - 1]
  BY DEF ReleaseAtOnce
<1>3. CASE count[b] = 1
  <2>1. Free(b)
    BY <1>3 DEF ReleaseAtOnce
  <2>2. ReleasesCounted' /\ ~Lost'
    BY <1>1, <2>1, OneFreed
  <2>3. OnlyFastTests'
    BY <1>2, <2>2 DEF CleanInv, OnlyFastTests, Testing
  <2>4. freed' = [freed EXCEPT ![b] = @ + 1]
    BY <2>1 DEF Free
  <2>5. UncountedIsTested'
    <3> SUFFICES ASSUME NEW c \in Blocks, c <= reserved, count'[c] = 0
                 PROVE  freed'[c] > 0 \/ Tested(c)
      BY <1>2 DEF UncountedIsTested, Tested
    <3>1. CASE c = b
      BY <1>1, <2>4, <3>1 DEF PoolInv, TypeOK
    <3>2. CASE c # b
      BY <1>2, <2>4, <3>2 DEF PoolInv, TypeOK, CleanInv, UncountedIsTested
    <3>3. QED
      BY <3>1, <3>2
  <2>6. QED
    BY <2>2, <2>3, <2>5 DEF CleanInv
<1>4. CASE count[b] # 1
  <2>1. freed' = freed /\ released' = released
    BY <1>4 DEF ReleaseAtOnce
  <2>2. ReleasesCounted' /\ OnlyFastTests'
    BY <1>2, <2>1, NothingFreed DEF CleanInv, OnlyFastTests, Testing
  <2>3. UncountedIsTested'
    <3> SUFFICES ASSUME NEW c \in Blocks, c <= reserved, count'[c] = 0
                 PROVE  freed[c] > 0 \/ Tested(c)
      BY <1>2, <2>1 DEF UncountedIsTested, Tested
    <3>1. c # b /\ count[c] = 0
      BY <1>1, <1>2, <1>4 DEF PoolInv, TypeOK
    <3>2. QED
      BY <3>1 DEF CleanInv, UncountedIsTested
  <2>4. QED
    BY <2>2, <2>3 DEF CleanInv
<1>5. QED
  BY <1>3, <1>4

\* Taking a reference away leaves the thread to test the word.
LEMMA TakeAwayKeepsClean ==
  ASSUME PoolInv, CleanInv, NEW t \in Threads, NEW h \in Slots, TakeAway(t, h)
  PROVE  CleanInv'
<1> DEFINE b == holds[h]
<1>1. b \in Blocks
  BY HeldBlock DEF TakeAway
<1>2. /\ kind = "fast" /\ kind' = kind /\ at[t] = Idle
      /\ at' = [at EXCEPT ![t] = <<b>>] /\ count' = [count EXCEPT ![b] = @ - 1]
      /\ freed' = freed /\ released' = released /\ reserved' = reserved
  BY DEF TakeAway, AtOnce, Testing, totals
<1>3. ReleasesCounted' /\ OnlyFastTests'
  BY <1>2, NothingFreed DEF OnlyFastTests
<1>4. UncountedIsTested'
  <2> SUFFICES ASSUME NEW c \in Blocks, c <= reserved, count'[c] = 0, ~(freed[c] > 0)
               PROVE  \E u \in Threads : at'[u] = <<c>>
    BY <1>2 DEF UncountedIsTested, Tested
  <2>1. CASE c = b
    BY <1>2, <2>1 DEF PoolInv, TypeOK
  <2>2. CASE c # b
    <3>1. count[c] = 0
      BY <1>2, <2>2 DEF PoolInv, TypeOK
    <3>2. PICK u \in Threads : at[u] = <<c>>
      BY <3>1 DEF CleanInv, UncountedIsTested, Tested
    <3>3. u # t
      <4>1. <<c>> # <<>>
        OBVIOUS
      <4>2. QED
        BY <1>2, <3>2, <4>1 DEF Idle
    <3>4. QED
      BY <1>2, <3>2, <3>3 DEF PoolInv, TypeOK
  <2>3. QED
    BY <2>1, <2>2
<1>5. QED
  BY <1>3, <1>4 DEF CleanInv

\* The thread that has tested the word of a block has given it back, or it was not the last.
LEMMA TestKeepsClean ==
  ASSUME PoolInv, CleanInv, ~Lost, NEW t \in Threads, TestFree(t) \/ TestKeep(t)
  PROVE  CleanInv'
<1> DEFINE b == Block(t)
<1>1. Testing(t) /\ kind = "fast" /\ kind' = kind
  BY DEF TestFree, TestKeep, CleanInv, OnlyFastTests
<1>2. b \in Blocks /\ at[t] = <<b>>
  <2>1. at[t] \in {<<c>> : c \in Blocks}
    BY <1>1 DEF PoolInv, TypeOK, Testing
  <2>2. QED
    BY <2>1 DEF Block
<1>3. OnlyFastTests'
  BY <1>1 DEF OnlyFastTests
<1>4. at' = [at EXCEPT ![t] = Idle] /\ count' = count /\ reserved' = reserved
  BY DEF TestFree, TestKeep, countVars, totals
<1>5. \A c \in Blocks : c # b /\ Tested(c) => Tested(c)'
  BY <1>2, <1>4 DEF PoolInv, TypeOK, Tested
<1>6. CASE TestFree(t)
  <2>1. Free(b)
    BY <1>6 DEF TestFree
  <2>2. ReleasesCounted'
    BY <1>2, <2>1, OneFreed
  <2>3. freed' = [freed EXCEPT ![b] = @ + 1]
    BY <2>1 DEF Free
  <2>4. UncountedIsTested'
    <3> SUFFICES ASSUME NEW c \in Blocks, c <= reserved, count[c] = 0
                 PROVE  freed'[c] > 0 \/ Tested(c)'
      BY <1>4 DEF UncountedIsTested
    <3>1. CASE c = b
      BY <1>2, <2>3, <3>1 DEF PoolInv, TypeOK
    <3>2. CASE c # b
      BY <1>5, <2>3, <3>2 DEF PoolInv, TypeOK, CleanInv, UncountedIsTested
    <3>3. QED
      BY <3>1, <3>2
  <2>5. QED
    BY <1>3, <2>2, <2>4 DEF CleanInv
<1>7. CASE TestKeep(t)
  <2>1. freed' = freed /\ released' = released /\ (freed[b] > 0 \/ count[b] # 0)
    BY <1>7 DEF TestKeep, MayReadMore, IsZero, countVars, totals
  <2>2. ReleasesCounted'
    BY <2>1, NothingFreed
  <2>3. UncountedIsTested'
    BY <1>2, <1>4, <1>5, <2>1 DEF CleanInv, UncountedIsTested
  <2>4. QED
    BY <1>3, <2>2, <2>3 DEF CleanInv
<1>8. QED
  BY <1>6, <1>7

\* No step of the pool, and no step elsewhere, breaks the invariant.
LEMMA CleanStep == PoolInv /\ CleanInv /\ [Next]_vars => CleanInv'
<1> SUFFICES ASSUME PoolInv, CleanInv, [Next]_vars PROVE CleanInv'
  OBVIOUS
<1>1. CASE Next
  <2>1. ~Lost
    BY <1>1 DEF Next
  <2>2. QED
    BY <1>1, <2>1, StepCases, GetsKeepClean, ReleaseKeepsClean, TakeAwayKeepsClean, TestKeepsClean
<1>2. CASE UNCHANGED vars
  BY <1>2 DEF vars, countVars, totals, CleanInv, ReleasesCounted, GivenBack, Lost, OnlyFastTests,
              UncountedIsTested, Tested, Testing
<1>3. QED
  BY <1>1, <1>2

\* When nobody holds a payload and no thread releases one, all blocks have been given back.
LEMMA CleanIn == PoolInv /\ CleanInv => CleanWhenEmpty
<1> SUFFICES ASSUME PoolInv, CleanInv,
                    \A h \in Slots : holds[h] = Nothing,
                    \A t \in Threads : ~Testing(t),
                    kind = "fast" => ~Lost
             PROVE  reserved = released
  BY DEF CleanWhenEmpty
<1>1. ~Lost
  BY DEF CleanInv, OnlyFastTests
<1>2. reserved \in Nat /\ reserved <= MaxBlocks /\ MaxBlocks \in Nat
  BY PoolAssumption DEF PoolInv, TypeOK
<1>3. \A b \in Blocks : count[b] = 0
  <2> SUFFICES ASSUME NEW b \in Blocks PROVE count[b] = 0
    OBVIOUS
  <2>1. b # Nothing
    BY PoolAssumption DEF Blocks, Nothing
  <2>2. Holders(b) = {}
    BY <2>1 DEF Holders
  <2>3. QED
    BY <2>2, NobodyIsZero DEF PoolInv, CountIsHolders
<1>4. \A b \in Blocks : b <= reserved => freed[b] > 0
  BY <1>3 DEF CleanInv, UncountedIsTested, Tested, Testing, Idle
<1>5. \A b \in Blocks : b > reserved => ~(freed[b] > 0)
  BY DEF PoolInv, FreshIsLoose
<1>6. GivenBack = 1..reserved
  BY <1>2, <1>4, <1>5 DEF GivenBack, Blocks
<1>7. Cardinality(1..reserved) = reserved
  BY <1>2, FS_Interval
<1>8. QED
  BY <1>1, <1>6, <1>7 DEF CleanInv, ReleasesCounted

\* When every Payload object is empty and no release is in course, each block that was
\* reserved has been given back, once: the destructor of the pool finds is_clean().
THEOREM CleanCorrect == Spec => []CleanWhenEmpty
<1>1. Init => CleanInv
  BY CleanInitially
<1>2. PoolInv /\ CleanInv /\ [Next]_vars => CleanInv'
  BY CleanStep
<1>3. PoolInv /\ CleanInv => CleanWhenEmpty
  BY CleanIn
<1>4. QED
  BY <1>1, <1>2, <1>3, PoolInvariant, PTL DEF Spec

-----------------------------------------------------------------------------
(* The refinement                                                          *)

\* An empty pool is an empty pool of counted payloads.
LEMMA PromiseInitially == Init => Promise!Init
BY DEF Init, Promise!Init, Live

\* A reserved block enters the memory in use.
LEMMA ReservePromised ==
  ASSUME PoolInv, NEW h \in Slots, Reserve(h)
  PROVE  \E b \in Blocks : Promise!Reserve(h, b)
<1> DEFINE n == reserved + 1
<1>1. n \in Blocks /\ reserved \in Nat /\ freed[n] = 0
  BY PoolAssumption DEF PoolInv, TypeOK, FreshIsLoose, Reserve, Blocks
<1>2. n \notin Live
  BY <1>1 DEF Live
<1>3. Live' = Live \cup {n}
  BY <1>1 DEF Live, Reserve
<1>4. Promise!Reserve(h, n)
  BY <1>2, <1>3 DEF Promise!Reserve, Reserve
<1>5. QED
  BY <1>1, <1>4

\* A second reference leaves the memory in use as it is.
LEMMA ReferPromised ==
  ASSUME NEW g \in Slots, NEW h \in Slots, Refer(g, h)
  PROVE  Promise!Refer(g, h)
BY DEF Refer, Promise!Refer, Live, totals

\* A map or copy pool gives a block back with the last reference to it.
LEMMA ReleasePromised ==
  ASSUME PoolInv, NEW h \in Slots, ReleaseAtOnce(h)
  PROVE  Promise!Drop(h)
<1> DEFINE b == holds[h]
<1>1. b \in Blocks /\ b <= reserved /\ freed[b] = 0 /\ b # Nothing
  BY HeldBlock DEF ReleaseAtOnce
<1>2. holds' = [holds EXCEPT ![h] = Nothing]
  BY DEF ReleaseAtOnce, LetGo
<1>3. CASE count[b] = 1
  <2>1. Cardinality(Holders(b)) = 1 /\ h \in Holders(b)
    BY <1>1, <1>3 DEF PoolInv, CountIsHolders, Holders
  <2>2. Cardinality(Holders(b) \ {h}) = 0 /\ IsFiniteSet(Holders(b) \ {h})
    BY <2>1, HoldersFinite, FS_RemoveElement
  <2>3. Holders(b) = {h}
    BY <2>1, <2>2, FS_EmptySet
  <2>4. freed' = [freed EXCEPT ![b] = @ + 1] /\ reserved' = reserved
    BY <1>3 DEF ReleaseAtOnce, Free
  <2>5. \A c \in 1..reserved : c \in Blocks
    BY PoolAssumption DEF PoolInv, TypeOK, Blocks
  <2>6. Live' = Live \ {b}
    BY <1>1, <2>4, <2>5 DEF Live, PoolInv, TypeOK
  <2>7. Promise!Holders(b) = {h}
    BY <2>3 DEF Promise!Holders, Holders
  <2>8. QED
    BY <1>1, <1>2, <2>6, <2>7 DEF Promise!Drop
<1>4. CASE count[b] # 1
  <2>1. Live' = Live
    BY <1>4 DEF Live, ReleaseAtOnce
  <2>2. QED
    BY <1>1, <1>2, <2>1 DEF Promise!Drop
<1>5. QED
  BY <1>3, <1>4

\* A fast pool takes a reference away first.
LEMMA TakeAwayPromised ==
  ASSUME NEW t \in Threads, NEW h \in Slots, TakeAway(t, h)
  PROVE  Promise!Drop(h)
BY DEF TakeAway, LetGo, Promise!Drop, Live, totals

\* It gives the block back when it reads zero; if the block is gone already, nothing that
\* is held is touched.
LEMMA TestFreePromised ==
  ASSUME PoolInv, NEW t \in Threads, TestFree(t)
  PROVE  (\E b \in Blocks : Promise!GiveBack(b)) \/ UNCHANGED Promise!vars
<1> DEFINE b == Block(t)
<1>1. b \in Blocks /\ b <= reserved /\ Holders(b) = {}
  BY ZeroIsLoose DEF TestFree
<1>2. freed' = [freed EXCEPT ![b] = @ + 1] /\ holds' = holds /\ reserved' = reserved
  BY DEF TestFree, Free
<1>3. \A c \in 1..reserved : c \in Blocks
  BY PoolAssumption DEF PoolInv, TypeOK, Blocks
<1>4. freed \in [Blocks -> Nat] /\ reserved \in Nat /\ b \in 1..reserved
  BY <1>1, PoolAssumption DEF PoolInv, TypeOK, Blocks
<1>5. CASE freed[b] = 0
  <2>1. b \in Live /\ Live' = Live \ {b}
    BY <1>1, <1>2, <1>3, <1>4, <1>5 DEF Live
  <2>2. Promise!Holders(b) = {}
    BY <1>1 DEF Promise!Holders, Holders
  <2>3. Promise!GiveBack(b)
    BY <1>2, <2>1, <2>2 DEF Promise!GiveBack
  <2>4. QED
    BY <1>1, <2>3
<1>6. CASE freed[b] # 0
  <2>1. Live' = Live
    BY <1>1, <1>2, <1>3, <1>4, <1>6 DEF Live
  <2>2. QED
    BY <1>2, <2>1 DEF Promise!vars
<1>7. QED
  BY <1>5, <1>6

\* Every step of a pool is a step of the pool of counted payloads, or leaves it alone.
LEMMA PromiseStep == PoolInv /\ [Next]_vars => [Promise!Next]_Promise!vars
<1> SUFFICES ASSUME PoolInv, [Next]_vars PROVE [Promise!Next]_Promise!vars
  OBVIOUS
<1>1. CASE \E h \in Slots : Reserve(h)
  BY <1>1, ReservePromised DEF Promise!Next
<1>2. CASE \E g, h \in Slots : Refer(g, h)
  BY <1>2, ReferPromised DEF Promise!Next
<1>3. CASE \E h \in Slots : ReleaseAtOnce(h)
  BY <1>3, ReleasePromised DEF Promise!Next
<1>4. CASE \E t \in Threads, h \in Slots : TakeAway(t, h)
  BY <1>4, TakeAwayPromised DEF Promise!Next
<1>5. CASE \E t \in Threads : TestFree(t)
  BY <1>5, TestFreePromised DEF Promise!Next
<1>6. CASE \E t \in Threads : TestKeep(t)
  BY <1>6 DEF TestKeep, countVars, totals, Live, Promise!vars
<1>7. CASE UNCHANGED vars
  BY <1>7 DEF vars, countVars, totals, Live, Promise!vars
<1>8. QED
  BY <1>1, <1>2, <1>3, <1>4, <1>5, <1>6, <1>7, StepCases

\* Each of the three pools, with any number of threads in get_payload and
\* release_payload, does what a pool of counted payloads may do: what is held stays in
\* memory, and what is given back was held by nobody.
THEOREM PromiseCorrect == Spec => KeepsPromise
<1>1. Init => Promise!Init
  BY PromiseInitially
<1>2. PoolInv /\ [Next]_vars => [Promise!Next]_Promise!vars
  BY PromiseStep
<1>3. QED
  BY <1>1, <1>2, PoolInvariant, PTL DEF Spec, KeepsPromise, Promise!SafePayloads
=============================================================================
