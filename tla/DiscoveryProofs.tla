--------------------------- MODULE DiscoveryProofs ---------------------------
(***************************************************************************)
(* Proofs about DiscoveryDatabase, for any participants, endpoints and     *)
(* number of pushes: its type, the end of the callbacks, and that it       *)
(* catches up with the network and leaves no callback out.                 *)
(***************************************************************************)
EXTENDS DiscoveryDatabase, TLAPS

(* The thread works on an operation of the queue from the change of the    *)
(* database to the end of the callback, so there is a head to take away.   *)
AtWorkHasItem == worker \in {"notify", "calling"} => front # <<>>

(* The callbacks are registered only outside the second half of stop(), and *)
(* a callback runs only while they are: clear_all_callbacks() waits for it. *)
RegisteredUntilCleared == registered => stopper \in {"idle", "clear"}
CallsWhileRegistered == worker = "calling" => registered

DatabaseInv ==
  /\ DatabaseTypeOK
  /\ AtWorkHasItem
  /\ RegisteredUntilCleared
  /\ CallsWhileRegistered

-----------------------------------------------------------------------------
(* Facts about the data *)

\* What is appended to a queue and taken from it: the queue stays one of operations.
LEMMA QueueType ==
  /\ \A s \in Seq(Operation), op \in Operation : Append(s, op) \in Seq(Operation)
  /\ \A s \in Seq(Operation) : s # <<>> => Head(s) \in Operation /\ Tail(s) \in Seq(Operation)
  /\ <<>> \in Seq(Operation)
<1>1. \A s \in Seq(Operation), op \in Operation : Append(s, op) \in Seq(Operation)
  OBVIOUS
<1>2. \A s \in Seq(Operation) : s # <<>> => Head(s) \in Operation /\ Tail(s) \in Seq(Operation)
  OBVIOUS
<1>. QED
  BY <1>1, <1>2

\* Applying an operation leaves a database of entities of the known endpoints.
LEMMA AppliedType ==
  ASSUME DatabaseTypeOK, NEW op \in Operation
  PROVE  /\ DOMAIN Applied(op) \subseteq Guids
         /\ \A g \in DOMAIN Applied(op) : Applied(op)[g] \in Entity
<1>1. op.guid \in Guids /\ op.entity \in Entity
  BY DEF Operation
<1>2. CASE op.kind = "erase"
  BY <1>2 DEF DatabaseTypeOK, Applied, Without
<1>3. CASE op.kind # "erase"
  BY <1>1, <1>3 DEF DatabaseTypeOK, Applied, Put
<1>. QED
  BY <1>2, <1>3

-----------------------------------------------------------------------------
(* One step of the database *)

\* A push by the listener of any participant, whatever it says, keeps the invariant.
LEMMA PushKeeps ==
  ASSUME DatabaseInv, NEW p \in Participants, NEW g \in Guids,
         NEW kind \in {"add", "update", "erase"}, NEW alive \in BOOLEAN,
         Push(kind, p, g, alive),
         seen' \subseteq Participants \X Guids, lost' \subseteq Participants \X Guids
  PROVE  DatabaseInv'
<1>. DEFINE op == [kind |-> kind, guid |-> g, entity |-> [by |-> p, active |-> alive]]
<1>1. op \in Operation
  BY DEF Operation, Entity
<1>2. back' \in Seq(Operation)
  BY <1>1, QueueType DEF Push, DatabaseInv, DatabaseTypeOK
<1>3. signals' \in Nat /\ pushes' \in Nat
  BY DEF Push, DatabaseInv, DatabaseTypeOK
<1>4. DatabaseTypeOK'
  BY <1>2, <1>3 DEF Push, DatabaseInv, DatabaseTypeOK, controlVars
<1>. QED
  BY <1>4 DEF Push, DatabaseInv, AtWorkHasItem, RegisteredUntilCleared, CallsWhileRegistered,
     controlVars

\* Every step of a listener keeps the invariant.
LEMMA ListenerKeeps ==
  ASSUME DatabaseInv, Listener
  PROVE  DatabaseInv'
<1>1. PICK p \in Participants, g \in Guids :
        Discovered(p, g) \/ ChangedQos(p, g) \/ Removed(p, g) \/ Erased(p, g)
  BY DEF Listener
<1>2. seen \subseteq Participants \X Guids /\ lost \subseteq Participants \X Guids
      /\ <<p, g>> \in Participants \X Guids
  BY DEF DatabaseInv, DatabaseTypeOK
<1>3. CASE Discovered(p, g)
  BY <1>2, <1>3, PushKeeps DEF Discovered
<1>4. CASE ChangedQos(p, g)
  BY <1>2, <1>4, PushKeeps DEF ChangedQos
<1>5. CASE Removed(p, g)
  BY <1>2, <1>5, PushKeeps DEF Removed, ActiveOnceRemoved
<1>6. CASE Erased(p, g)
  BY <1>2, <1>6, PushKeeps DEF Erased
<1>. QED
  BY <1>1, <1>3, <1>4, <1>5, <1>6

\* Every step of the queue processing thread keeps the invariant, as does a notification.
LEMMA WorkerKeeps ==
  ASSUME DatabaseInv, Signal \/ WorkerStep \/ WorkerReturn
  PROVE  DatabaseInv'
<1>. USE DEF DatabaseInv, queueVars, controlVars, networkVars
<1>1. CASE Signal
  BY <1>1 DEF Signal, NotifyOne, DatabaseTypeOK, AtWorkHasItem, RegisteredUntilCleared,
     CallsWhileRegistered, WorkerSteps
<1>2. CASE WorkerTest \/ WorkerDone
  BY <1>2 DEF WorkerTest, WorkerDone, DatabaseTypeOK, AtWorkHasItem, RegisteredUntilCleared,
     CallsWhileRegistered, WorkerSteps
<1>3. CASE WorkerSwap
  BY <1>3 DEF WorkerSwap, DatabaseTypeOK, AtWorkHasItem, RegisteredUntilCleared,
     CallsWhileRegistered, WorkerSteps
<1>4. CASE WorkerRefuse
  <2>1. front' \in Seq(Operation)
    BY <1>4, QueueType DEF WorkerRefuse, DatabaseTypeOK
  <2>. QED
    BY <1>4, <2>1 DEF WorkerRefuse, DatabaseTypeOK, AtWorkHasItem, RegisteredUntilCleared,
       CallsWhileRegistered
<1>5. CASE WorkerReplace
  <2>1. front' \in Seq(Operation) /\ Head(front) \in Operation
    BY <1>5, QueueType DEF WorkerReplace, DatabaseTypeOK
  <2>2. DOMAIN entities' \subseteq Guids /\ \A g \in DOMAIN entities' : entities'[g] \in Entity
    BY <1>5, <2>1, AppliedType DEF WorkerReplace
  <2>. QED
    BY <1>5, <2>1, <2>2 DEF WorkerReplace, DatabaseTypeOK, AtWorkHasItem,
       RegisteredUntilCleared, CallsWhileRegistered
<1>6. CASE WorkerApply
  <2>1. Head(front) \in Operation
    BY <1>6, QueueType DEF WorkerApply, DatabaseTypeOK
  <2>2. DOMAIN entities' \subseteq Guids /\ \A g \in DOMAIN entities' : entities'[g] \in Entity
    BY <1>6, <2>1, AppliedType DEF WorkerApply
  <2>. QED
    BY <1>6, <2>2 DEF WorkerApply, DatabaseTypeOK, AtWorkHasItem,
       RegisteredUntilCleared, CallsWhileRegistered, WorkerSteps
<1>7. CASE WorkerCall
  BY <1>7 DEF WorkerCall, DatabaseTypeOK, AtWorkHasItem, RegisteredUntilCleared,
     CallsWhileRegistered, WorkerSteps
<1>8. CASE WorkerNobody
  <2>1. front' \in Seq(Operation)
    BY <1>8, QueueType DEF WorkerNobody, DatabaseTypeOK, AtWorkHasItem
  <2>. QED
    BY <1>8, <2>1 DEF WorkerNobody, DatabaseTypeOK, AtWorkHasItem, RegisteredUntilCleared,
       CallsWhileRegistered, WorkerSteps
<1>9. CASE WorkerReturn
  <2>1. front' \in Seq(Operation) /\ Head(front) \in Operation
    BY <1>9, QueueType DEF WorkerReturn, DatabaseTypeOK, AtWorkHasItem
  <2>2. told' \subseteq Guids
    BY <1>9, <2>1 DEF WorkerReturn, DatabaseTypeOK, Reported, Operation
  <2>. QED
    BY <1>9, <2>1, <2>2 DEF WorkerReturn, DatabaseTypeOK, AtWorkHasItem,
       RegisteredUntilCleared, CallsWhileRegistered, WorkerSteps
<1>. QED
  BY <1>1, <1>2, <1>3, <1>4, <1>5, <1>6, <1>7, <1>8, <1>9 DEF WorkerStep

\* Every step of start() and stop() keeps the invariant: StopClear is the step that waits.
LEMMA StopperKeeps ==
  ASSUME DatabaseInv, Start \/ Stop \/ StopStep
  PROVE  DatabaseInv'
<1>. USE DEF DatabaseInv, queueVars, networkVars, DatabaseTypeOK, AtWorkHasItem,
             RegisteredUntilCleared, CallsWhileRegistered
<1>1. CASE Start
  BY <1>1 DEF Start, WorkerSteps
<1>2. CASE Stop
  BY <1>2 DEF Stop, StopperSteps
<1>3. CASE StopClear
  BY <1>3 DEF StopClear, CallbacksMutexFree, StopperSteps
<1>4. CASE StopRaise
  BY <1>4 DEF StopRaise, StopperSteps
<1>5. CASE StopWake
  BY <1>5 DEF StopWake, NotifyOne, StopperSteps, WorkerSteps
<1>6. CASE StopJoin
  BY <1>6 DEF StopJoin, StopperSteps, WorkerSteps
<1>. QED
  BY <1>1, <1>2, <1>3, <1>4, <1>5, <1>6 DEF StopStep

\* A fresh database satisfies the invariant.
LEMMA DatabaseStarts ==
  ASSUME DatabaseInit
  PROVE  DatabaseInv
<1>1. DOMAIN entities = {}
  BY DEF DatabaseInit
<1>2. DatabaseTypeOK
  BY <1>1, QueueType DEF DatabaseInit, DatabaseTypeOK, WorkerSteps, StopperSteps
<1>. QED
  BY <1>2 DEF DatabaseInit, DatabaseInv, AtWorkHasItem, RegisteredUntilCleared,
     CallsWhileRegistered

\* No step of the database, and no step elsewhere, breaks the invariant.
LEMMA DatabaseStepKeeps ==
  ASSUME DatabaseInv, [DatabaseNext]_databaseVars
  PROVE  DatabaseInv'
<1>1. CASE UNCHANGED databaseVars
  BY <1>1 DEF databaseVars, queueVars, controlVars, networkVars, DatabaseInv, DatabaseTypeOK,
     AtWorkHasItem, RegisteredUntilCleared, CallsWhileRegistered
<1>. QED
  BY <1>1, ListenerKeeps, WorkerKeeps, StopperKeeps DEF DatabaseNext

-----------------------------------------------------------------------------
(* The theorems *)

\* The invariant holds of every behaviour of the database.
LEMMA DatabaseInvariant == DatabaseSpec => []DatabaseInv
  BY DatabaseStarts, DatabaseStepKeeps, PTL DEF DatabaseSpec

\* Every reachable state of the DiscoveryDatabase is well typed; in particular the thread
\* never takes the head of an empty queue.
THEOREM DatabaseTypeCorrect == DatabaseSpec => []DatabaseTypeOK
<1>1. DatabaseInv => DatabaseTypeOK
  BY DEF DatabaseInv
<1>. QED
  BY <1>1, DatabaseInvariant, PTL

\* Once clear_all_callbacks() has returned, stop() goes on with no callback running and
\* none starting: the callbacks reach no DdsPipe that is being destroyed.
THEOREM NoCallbackCorrect == DatabaseSpec => []NoCallbackWhileDestroyed
<1>1. DatabaseInv => NoCallbackWhileDestroyed
  BY DEF DatabaseInv, RegisteredUntilCleared, CallsWhileRegistered, NoCallbackWhileDestroyed
<1>. QED
  BY <1>1, DatabaseInvariant, PTL
-----------------------------------------------------------------------------
(* The database and the network, for the endpoints that one participant     *)
(* may discover                                                            *)

Single ==
  {g \in Guids :
     \A p, q \in Participants : <<p, g>> \in Sees /\ <<q, g>> \in Sees => p = q}

\* What an operation says of its endpoint, and the set of active endpoints after it, in a
\* history where an endpoint is updated only while it is discovered.
Saying(op) == op.kind # "erase" /\ op.entity.active
After(A, op) ==
  {g \in Single : IF g = op.guid THEN Saying(op) ELSE g \in A}
Sensible(A, op) ==
  /\ op.kind = "add" => op.entity.active
  /\ op.kind = "update" /\ op.entity.active /\ op.guid \in Single => op.guid \in A

\* The operations of queue q lead, one after the other, from the active endpoints A to B.
LeadsTo(A, q, B) ==
  \E h \in [0..Len(q) -> SUBSET Guids] :
    /\ h[0] = A /\ h[Len(q)] = B
    /\ \A i \in 1..Len(q) : Sensible(h[i - 1], q[i]) /\ h[i] = After(h[i - 1], q[i])

\* What is still to be applied: the head is taken from the queue after its callback.
AtWork == worker \in {"notify", "calling"}
Pending == IF AtWork THEN Tail(front) \o back ELSE front \o back

ActiveGuids == {g \in Guids : ActiveIn(g)}
SeenGuids == {g \in Guids : \E p \in Participants : <<p, g>> \in seen}

\* What is pending makes of the database what the network is.
SwapsWhenEmpty == worker \in {"none", "test", "asleep", "swap", "ended"} => front = <<>>
SeenIsSees == seen \subseteq Sees
PendingCatchesUp == LeadsTo(ActiveGuids \cap Single, Pending, SeenGuids \cap Single)
MirrorInv == SwapsWhenEmpty /\ SeenIsSees /\ PendingCatchesUp

\* An operation at the end of the queue is the last to be applied ...
LEMMA LeadsAppend ==
  ASSUME NEW A, NEW B, NEW q \in Seq(Operation), NEW op \in Operation,
         LeadsTo(A, q, B), Sensible(B, op)
  PROVE  LeadsTo(A, Append(q, op), After(B, op))
<1> DEFINE n == Len(q)
           r == Append(q, op)
<1>1. PICK h \in [0..n -> SUBSET Guids] :
        /\ h[0] = A /\ h[n] = B
        /\ \A i \in 1..n : Sensible(h[i - 1], q[i]) /\ h[i] = After(h[i - 1], q[i])
  BY DEF LeadsTo
<1> DEFINE k == [i \in 0..(n + 1) |-> IF i = n + 1 THEN After(B, op) ELSE h[i]]
<1>2. n \in Nat /\ Len(r) = n + 1 /\ r[n + 1] = op /\ \A i \in 1..n : r[i] = q[i]
  OBVIOUS
<1>3. After(B, op) \in SUBSET Guids
  BY DEF After, Single
<1>4. k \in [0..(n + 1) -> SUBSET Guids]
  BY <1>1, <1>2, <1>3
<1>5. k[0] = A /\ k[n + 1] = After(B, op) /\ k[n] = B /\ \A i \in 0..n : k[i] = h[i]
  BY <1>1, <1>2
<1> HIDE DEF k, r, n
<1>6. \A i \in 1..(n + 1) : Sensible(k[i - 1], r[i]) /\ k[i] = After(k[i - 1], r[i])
  <2> SUFFICES ASSUME NEW i \in 1..(n + 1)
               PROVE  Sensible(k[i - 1], r[i]) /\ k[i] = After(k[i - 1], r[i])
    OBVIOUS
  <2>1. CASE i = n + 1
    <3>1. i - 1 = n
      BY <1>2, <2>1
    <3>2. QED
      BY <1>2, <1>5, <2>1, <3>1
  <2>2. CASE i # n + 1
    <3>1. i \in 1..n /\ i \in 0..n /\ i - 1 \in 0..n
      BY <1>2, <2>2
    <3>2. k[i] = h[i] /\ k[i - 1] = h[i - 1] /\ r[i] = q[i]
      BY <1>2, <1>5, <3>1
    <3>3. QED
      BY <1>1, <3>1, <3>2
  <2>3. QED
    BY <2>1, <2>2
<1>7. QED
  BY <1>2, <1>4, <1>5, <1>6 DEF LeadsTo, r

\* ... and the one at the head the first.
LEMMA LeadsTail ==
  ASSUME NEW A, NEW B, NEW q \in Seq(Operation), q # <<>>, LeadsTo(A, q, B)
  PROVE  Sensible(A, Head(q)) /\ LeadsTo(After(A, Head(q)), Tail(q), B)
<1> DEFINE n == Len(q)
           r == Tail(q)
<1>1. PICK h \in [0..n -> SUBSET Guids] :
        /\ h[0] = A /\ h[n] = B
        /\ \A i \in 1..n : Sensible(h[i - 1], q[i]) /\ h[i] = After(h[i - 1], q[i])
  BY DEF LeadsTo
<1>2. /\ n \in Nat /\ n >= 1 /\ Head(q) = q[1]
      /\ Len(r) = n - 1 /\ \A i \in 1..(n - 1) : r[i] = q[i + 1]
  OBVIOUS
<1> DEFINE k == [i \in 0..(n - 1) |-> h[i + 1]]
<1>3. k \in [0..(n - 1) -> SUBSET Guids]
  BY <1>1, <1>2
<1>4. \A i \in 0..(n - 1) : k[i] = h[i + 1]
  OBVIOUS
<1> HIDE DEF k, r, n
<1>5. Sensible(A, Head(q)) /\ h[1] = After(A, Head(q))
  <2>1. 1 \in 1..n /\ 1 - 1 = 0
    BY <1>2
  <2>2. QED
    BY <1>1, <1>2, <2>1
<1>6. k[0] = After(A, Head(q)) /\ k[n - 1] = B
  <2>1. 0 \in 0..(n - 1) /\ n - 1 \in 0..(n - 1) /\ 0 + 1 = 1 /\ (n - 1) + 1 = n
    BY <1>2
  <2>2. QED
    BY <1>1, <1>4, <1>5, <2>1
<1>7. \A i \in 1..(n - 1) : Sensible(k[i - 1], r[i]) /\ k[i] = After(k[i - 1], r[i])
  <2> SUFFICES ASSUME NEW i \in 1..(n - 1)
               PROVE  Sensible(k[i - 1], r[i]) /\ k[i] = After(k[i - 1], r[i])
    OBVIOUS
  <2>1. /\ i + 1 \in 1..n /\ i \in 0..(n - 1) /\ i - 1 \in 0..(n - 1)
        /\ (i + 1) - 1 = i /\ (i - 1) + 1 = i
    BY <1>2
  <2>2. k[i] = h[i + 1] /\ k[i - 1] = h[i] /\ r[i] = q[i + 1]
    BY <1>2, <1>4, <2>1
  <2>3. QED
    BY <1>1, <2>1, <2>2
<1>8. QED
  BY <1>2, <1>3, <1>5, <1>6, <1>7 DEF LeadsTo, r

\* With nothing pending there is nothing to catch up.
LEMMA LeadsNowhere ==
  ASSUME NEW A, A \in SUBSET Guids, NEW B
  PROVE  LeadsTo(A, <<>>, B) <=> A = B
<1>1. Len(<<>>) = 0 /\ 0..0 = {0} /\ 1..0 = {}
  OBVIOUS
<1>2. ASSUME A = B PROVE LeadsTo(A, <<>>, B)
  <2> DEFINE h == [i \in 0..0 |-> A]
  <2>1. h \in [0..Len(<<>>) -> SUBSET Guids] /\ h[0] = A
    BY <1>1
  <2>2. QED
    BY <1>1, <1>2, <2>1 DEF LeadsTo
<1>3. ASSUME LeadsTo(A, <<>>, B) PROVE A = B
  BY <1>1, <1>3 DEF LeadsTo
<1>4. QED
  BY <1>2, <1>3

\* How the two sides of the queue make up what is pending.
LEMMA QueueSides ==
  ASSUME NEW f \in Seq(Operation), NEW b \in Seq(Operation)
  PROVE  /\ f \o b \in Seq(Operation)
         /\ \A op \in Operation : f \o Append(b, op) = Append(f \o b, op)
         /\ <<>> \o b = b /\ b \o <<>> = b
         /\ f # <<>> => /\ Tail(f) \in Seq(Operation) /\ f \o b # <<>>
                        /\ Head(f \o b) = Head(f) /\ Tail(f \o b) = Tail(f) \o b
<1>1. f \o b \in Seq(Operation) /\ <<>> \o b = b /\ b \o <<>> = b
  OBVIOUS
<1>2. \A op \in Operation : f \o Append(b, op) = Append(f \o b, op)
  OBVIOUS
<1>3. ASSUME f # <<>>
      PROVE  /\ Tail(f) \in Seq(Operation) /\ f \o b # <<>>
             /\ Head(f \o b) = Head(f)
  BY <1>3
<1>4. ASSUME f # <<>> PROVE Tail(f \o b) = Tail(f) \o b
  BY <1>4
<1>5. QED
  BY <1>1, <1>2, <1>3, <1>4

\* What is pending is a queue of operations; a push adds its operation at the end.
LEMMA PendingType ==
  ASSUME DatabaseInv
  PROVE  /\ Pending \in Seq(Operation)
         /\ ActiveGuids \in SUBSET Guids
BY QueueSides DEF DatabaseInv, DatabaseTypeOK, Pending, AtWork, AtWorkHasItem, ActiveGuids

\* A push adds its operation at the end of what is pending.
LEMMA PendingAppend ==
  ASSUME DatabaseInv, NEW op \in Operation, back' = Append(back, op),
         front' = front, worker' = worker
  PROVE  Pending' = Append(Pending, op)
<1>1. front \in Seq(Operation) /\ back \in Seq(Operation) /\ (AtWork => front # <<>>)
  BY DEF DatabaseInv, DatabaseTypeOK, AtWorkHasItem, AtWork
<1>2. front \o Append(back, op) = Append(front \o back, op)
  BY <1>1, QueueSides
<1>3. AtWork => Tail(front) \o Append(back, op) = Append(Tail(front) \o back, op)
  BY <1>1, QueueSides
<1>4. AtWork' = AtWork
  BY DEF AtWork
<1>5. QED
  BY <1>2, <1>3, <1>4 DEF Pending

\* The thread takes what is pending from its head, one operation when it applies it and
\* none in its other steps.
LEMMA PendingSteps ==
  ASSUME DatabaseInv, SwapsWhenEmpty, Signal \/ WorkerStep \/ WorkerReturn
  PROVE  \/ Pending' = Pending /\ entities' = entities
         \/ /\ Pending # <<>> /\ Head(Pending) = Head(front) /\ Head(front) \in Operation
            /\ Pending' = Tail(Pending)
            /\ entities' = IF Refused(Head(front)) THEN entities ELSE Applied(Head(front))
<1>1. front \in Seq(Operation) /\ back \in Seq(Operation) /\ (AtWork => front # <<>>)
  BY DEF DatabaseInv, DatabaseTypeOK, AtWorkHasItem, AtWork
<1>2. CASE Signal \/ WorkerTest \/ WorkerDone \/ WorkerCall
  BY <1>2 DEF Signal, NotifyOne, WorkerTest, WorkerDone, WorkerCall, Pending, AtWork, queueVars
<1>3. CASE WorkerSwap
  <2>1. front = <<>> /\ front' = back /\ back' = <<>> /\ worker' = "loop" /\ worker = "swap"
        /\ entities' = entities
    BY <1>3 DEF WorkerSwap, SwapsWhenEmpty
  <2>2. QED
    BY <1>1, <2>1, QueueSides DEF Pending, AtWork
<1>4. CASE WorkerNobody \/ WorkerReturn
  <2>1. /\ AtWork /\ worker' = "loop" /\ front' = Tail(front) /\ back' = back
        /\ entities' = entities
    BY <1>4 DEF WorkerNobody, WorkerReturn, AtWork
  <2>2. QED
    BY <2>1 DEF Pending, AtWork
<1>5. ASSUME worker = "loop", front # <<>>, Pending' = Tail(front) \o back
      PROVE  /\ Pending # <<>> /\ Head(Pending) = Head(front) /\ Head(front) \in Operation
             /\ Pending' = Tail(Pending)
  BY <1>1, <1>5, QueueSides, QueueType DEF Pending, AtWork
<1>6. CASE WorkerRefuse \/ WorkerReplace
  <2>1. /\ worker = "loop" /\ worker' = "loop" /\ front # <<>> /\ front' = Tail(front)
        /\ back' = back
        /\ entities' = IF Refused(Head(front)) THEN entities ELSE Applied(Head(front))
    BY <1>6 DEF WorkerRefuse, WorkerReplace
  <2>2. Pending' = Tail(front) \o back
    BY <2>1 DEF Pending, AtWork
  <2>3. QED
    BY <1>5, <2>1, <2>2
<1>7. CASE WorkerApply
  <2>1. /\ worker = "loop" /\ worker' = "notify" /\ front # <<>> /\ front' = front
        /\ back' = back
        /\ entities' = IF Refused(Head(front)) THEN entities ELSE Applied(Head(front))
    BY <1>7 DEF WorkerApply, queueVars
  <2>2. Pending' = Tail(front) \o back
    BY <2>1 DEF Pending, AtWork
  <2>3. QED
    BY <1>5, <2>1, <2>2
<1>8. QED
  BY <1>2, <1>3, <1>4, <1>6, <1>7 DEF WorkerStep

\* The push of a listener says of its endpoint what the listener has seen.
LEMMA PushCatchesUp ==
  ASSUME DatabaseInv, MirrorInv, NEW p \in Participants, NEW g \in Guids,
         NEW kind \in {"add", "update", "erase"}, NEW alive \in BOOLEAN,
         Push(kind, p, g, alive),
         seen' \subseteq Sees,
         kind = "add" => alive,
         kind = "update" /\ alive => g \in SeenGuids,
         \A f \in Single :
           f \in SeenGuids' <=> IF f = g THEN kind # "erase" /\ alive ELSE f \in SeenGuids
  PROVE  MirrorInv'
<1> DEFINE op == [kind |-> kind, guid |-> g, entity |-> [by |-> p, active |-> alive]]
<1>1. op \in Operation
  BY DEF Operation, Entity
<1>2. /\ Sensible(SeenGuids \cap Single, op)
      /\ SeenGuids' \cap Single = After(SeenGuids \cap Single, op)
  BY DEF Sensible, After, Saying
<1>3. /\ worker' = worker /\ front' = front /\ entities' = entities
      /\ back' = Append(back, op)
  BY DEF Push, controlVars
<1> HIDE DEF op
<1>4. Pending' = Append(Pending, op)
  BY <1>1, <1>3, PendingAppend
<1>5. ActiveGuids' = ActiveGuids
  BY <1>3 DEF ActiveGuids, ActiveIn, Known
<1>6. LeadsTo(ActiveGuids \cap Single, Append(Pending, op), After(SeenGuids \cap Single, op))
  BY <1>1, <1>2, LeadsAppend, PendingType DEF MirrorInv, PendingCatchesUp
<1>7. PendingCatchesUp'
  BY <1>2, <1>4, <1>5, <1>6 DEF PendingCatchesUp
<1>8. SwapsWhenEmpty' /\ SeenIsSees'
  BY <1>3 DEF MirrorInv, SwapsWhenEmpty, SeenIsSees
<1>9. QED
  BY <1>7, <1>8 DEF MirrorInv

\* Every step of a listener keeps what is pending up to date.
LEMMA ListenerCatchesUp ==
  ASSUME DatabaseInv, MirrorInv, Listener
  PROVE  MirrorInv'
<1>1. PICK p \in Participants, g \in Guids :
        Discovered(p, g) \/ ChangedQos(p, g) \/ Removed(p, g) \/ Erased(p, g)
  BY DEF Listener
<1>2. seen \subseteq Sees
  BY DEF MirrorInv, SeenIsSees
<1>3. CASE Discovered(p, g)
  <2>1. seen' = seen \cup {<<p, g>>} /\ <<p, g>> \in Sees
    BY <1>3 DEF Discovered
  <2>2. SeenGuids' = SeenGuids \cup {g}
    BY <2>1 DEF SeenGuids
  <2>3. Push("add", p, g, TRUE)
    BY <1>3 DEF Discovered
  <2>4. QED
    BY <1>2, <2>1, <2>2, <2>3, PushCatchesUp
<1>4. CASE ChangedQos(p, g)
  <2>1. seen' = seen /\ <<p, g>> \in seen /\ Push("update", p, g, TRUE)
    BY <1>4 DEF ChangedQos
  <2>2. g \in SeenGuids /\ SeenGuids' = SeenGuids \cup {g}
    BY <2>1 DEF SeenGuids
  <2>3. QED
    BY <1>2, <2>1, <2>2, PushCatchesUp
<1>5. ASSUME <<p, g>> \in Sees, seen' = seen \ {<<p, g>>}
      PROVE  /\ \A f \in Single : f \in SeenGuids' <=> f # g /\ f \in SeenGuids
             /\ seen' \subseteq Sees
  <2>1. g \in Single => \A q \in Participants : <<q, g>> \in Sees => q = p
    BY <1>5 DEF Single
  <2>2. g \in Single => \A q \in Participants : <<q, g>> \notin seen'
    BY <1>2, <1>5, <2>1
  <2>3. \A q \in Participants, f \in Guids : f # g => (<<q, f>> \in seen' <=> <<q, f>> \in seen)
    BY <1>5
  <2>4. QED
    BY <1>2, <1>5, <2>2, <2>3 DEF SeenGuids, Single
<1>6. CASE Removed(p, g)
  <2>1. <<p, g>> \in Sees /\ seen' = seen \ {<<p, g>>} /\ Push("update", p, g, FALSE)
    BY <1>2, <1>6 DEF Removed, ActiveOnceRemoved
  <2>2. QED
    BY <1>5, <2>1, PushCatchesUp
<1>7. CASE Erased(p, g)
  <2>1. <<p, g>> \in Sees /\ seen' = seen \ {<<p, g>>} /\ Push("erase", p, g, TRUE)
    BY <1>7 DEF Erased
  <2>2. QED
    BY <1>5, <2>1, PushCatchesUp
<1>8. QED
  BY <1>1, <1>3, <1>4, <1>6, <1>7

\* To apply an operation, or to refuse it, makes its endpoint what the operation says.
LEMMA AppliedSays ==
  ASSUME NEW op \in Operation, Sensible(ActiveGuids \cap Single, op),
         entities' = IF Refused(op) THEN entities ELSE Applied(op)
  PROVE  ActiveGuids' \cap Single = After(ActiveGuids \cap Single, op)
<1>1. op.guid \in Guids /\ op.kind \in {"add", "update", "erase"}
  BY DEF Operation
<1>2. op.guid \in ActiveGuids <=> ActiveIn(op.guid)
  BY <1>1 DEF ActiveGuids
<1>3. CASE Refused(op)
  <2>1. ActiveGuids' = ActiveGuids
    BY <1>3 DEF ActiveGuids, ActiveIn, Known
  <2>2. op.guid \in Single => (Saying(op) <=> ActiveIn(op.guid))
    BY <1>1, <1>2, <1>3 DEF Refused, Saying, Sensible, ActiveIn
  <2>3. QED
    BY <1>2, <2>1, <2>2 DEF After
<1>4. CASE ~Refused(op) /\ op.kind = "erase"
  <2>1. DOMAIN entities' = DOMAIN entities \ {op.guid}
        /\ \A g \in DOMAIN entities' : entities'[g] = entities[g]
    BY <1>4 DEF Applied, Without
  <2>2. QED
    BY <1>4, <2>1 DEF ActiveGuids, ActiveIn, Known, After, Saying, Single
<1>5. CASE ~Refused(op) /\ op.kind # "erase"
  <2>1. /\ DOMAIN entities' = DOMAIN entities \cup {op.guid}
        /\ entities'[op.guid] = op.entity
        /\ \A g \in DOMAIN entities : g # op.guid => entities'[g] = entities[g]
    BY <1>5 DEF Applied, Put
  <2>2. \A g \in Guids : ActiveIn(g)' <=> (IF g = op.guid THEN op.entity.active ELSE ActiveIn(g))
    BY <2>1 DEF ActiveIn, Known
  <2>3. QED
    BY <1>1, <1>5, <2>2 DEF ActiveGuids, After, Saying, Single
<1>6. QED
  BY <1>3, <1>4, <1>5

\* The thread works what is pending off in order.
LEMMA WorkerCatchesUp ==
  ASSUME DatabaseInv, MirrorInv, Signal \/ WorkerStep \/ WorkerReturn
  PROVE  MirrorInv'
<1>1. SwapsWhenEmpty'
  BY DEF MirrorInv, SwapsWhenEmpty, Signal, NotifyOne, WorkerStep, WorkerReturn, WorkerTest,
     WorkerSwap, WorkerDone, WorkerRefuse, WorkerReplace, WorkerApply, WorkerCall,
     WorkerNobody, queueVars
<1>2. seen' = seen /\ SeenGuids' = SeenGuids
  BY DEF Signal, WorkerStep, WorkerReturn, WorkerTest, WorkerSwap, WorkerDone, WorkerRefuse,
         WorkerReplace, WorkerApply, WorkerCall, WorkerNobody, networkVars, SeenGuids
<1>3. ASSUME Pending' = Pending, entities' = entities
      PROVE  PendingCatchesUp'
  BY <1>2, <1>3 DEF MirrorInv, PendingCatchesUp, ActiveGuids, ActiveIn, Known
<1>4. ASSUME Pending # <<>>, Head(Pending) = Head(front), Head(front) \in Operation,
             Pending' = Tail(Pending),
             entities' = IF Refused(Head(front)) THEN entities ELSE Applied(Head(front))
      PROVE  PendingCatchesUp'
  <2>1. /\ Sensible(ActiveGuids \cap Single, Head(front))
        /\ LeadsTo(After(ActiveGuids \cap Single, Head(front)), Tail(Pending),
                   SeenGuids \cap Single)
    BY <1>4, LeadsTail, PendingType DEF MirrorInv, PendingCatchesUp
  <2>2. ActiveGuids' \cap Single = After(ActiveGuids \cap Single, Head(front))
    BY <1>4, <2>1, AppliedSays
  <2>3. QED
    BY <1>2, <1>4, <2>1, <2>2 DEF PendingCatchesUp
<1>5. PendingCatchesUp'
  <2>1. SwapsWhenEmpty
    BY DEF MirrorInv
  <2>2. QED
    BY <1>3, <1>4, <2>1, PendingSteps
<1>6. QED
  BY <1>1, <1>2, <1>5 DEF MirrorInv, SeenIsSees

\* start() finds no thread: stop() has joined the last.
JoinedBeforeStart == ~started /\ stopper = "idle" => worker = "none"

LEMMA JoinedKeeps ==
  ASSUME JoinedBeforeStart, [DatabaseNext]_databaseVars
  PROVE  JoinedBeforeStart'
<1>. USE DEF JoinedBeforeStart
<1>1. CASE Listener
  BY <1>1 DEF Listener, Discovered, ChangedQos, Removed, Erased, Push, controlVars
<1>2. CASE Signal
  BY <1>2 DEF Signal, NotifyOne, controlVars
<1>3. CASE WorkerStep \/ WorkerReturn
  BY <1>3 DEF WorkerStep, WorkerReturn, WorkerTest, WorkerSwap, WorkerDone, WorkerRefuse,
     WorkerReplace, WorkerApply, WorkerCall, WorkerNobody, controlVars
<1>4. CASE Start \/ Stop \/ StopStep
  BY <1>4 DEF Start, Stop, StopStep, StopClear, StopRaise, StopWake, StopJoin
<1>5. CASE UNCHANGED databaseVars
  BY <1>5 DEF databaseVars, controlVars
<1>6. QED
  BY <1>1, <1>2, <1>3, <1>4, <1>5 DEF DatabaseNext

\* start() and stop() leave the operations and the endpoints alone.
LEMMA StopperCatchesUp ==
  ASSUME JoinedBeforeStart, MirrorInv, Start \/ Stop \/ StopStep
  PROVE  MirrorInv'
<1>1. front' = front /\ back' = back /\ entities' = entities /\ seen' = seen
  BY DEF Start, Stop, StopStep, StopClear, StopRaise, StopWake, StopJoin, queueVars, networkVars
<1>2. AtWork' = AtWork
  BY DEF JoinedBeforeStart, AtWork, Start, Stop, StopStep, StopClear, StopRaise, StopWake,
     StopJoin, NotifyOne
<1>3. SwapsWhenEmpty'
  BY <1>1 DEF JoinedBeforeStart, MirrorInv, SwapsWhenEmpty, Start, Stop, StopStep, StopClear,
     StopRaise, StopWake, StopJoin, NotifyOne
<1>4. PendingCatchesUp' /\ SeenIsSees'
  BY <1>1, <1>2 DEF MirrorInv, PendingCatchesUp, SeenIsSees, Pending, ActiveGuids, SeenGuids,
     ActiveIn, Known
<1>5. QED
  BY <1>3, <1>4 DEF MirrorInv

\* A fresh database is that of a network nobody has seen yet.
LEMMA MirrorStarts ==
  ASSUME DatabaseInit
  PROVE  MirrorInv /\ JoinedBeforeStart
<1>1. ActiveGuids = {} /\ SeenGuids = {}
  BY DEF DatabaseInit, ActiveGuids, SeenGuids, ActiveIn, Known
<1>2. Pending = <<>>
  <2>1. front = <<>> /\ back = <<>> /\ ~AtWork
    BY DEF DatabaseInit, AtWork
  <2>2. QED
    BY <2>1, QueueType, QueueSides DEF Pending
<1>3. PendingCatchesUp
  BY <1>1, <1>2, LeadsNowhere DEF PendingCatchesUp
<1>4. QED
  BY <1>3 DEF DatabaseInit, MirrorInv, SwapsWhenEmpty, SeenIsSees, JoinedBeforeStart

\* No step of the database, and no step elsewhere, loses track of the network.
LEMMA MirrorStepKeeps ==
  ASSUME DatabaseInv, JoinedBeforeStart, MirrorInv, [DatabaseNext]_databaseVars
  PROVE  MirrorInv'
<1>1. CASE UNCHANGED databaseVars
  BY <1>1 DEF databaseVars, queueVars, controlVars, networkVars, MirrorInv, SwapsWhenEmpty,
     SeenIsSees, PendingCatchesUp, Pending, AtWork, ActiveGuids, SeenGuids, ActiveIn, Known
<1>. QED
  BY <1>1, ListenerCatchesUp, WorkerCatchesUp, StopperCatchesUp DEF DatabaseNext

\* With nothing pending, the database is what the network is.
SingleMirrored == Settled => \A g \in Single : ActiveIn(g) <=> g \in SeenGuids

LEMMA MirrorsIn ==
  ASSUME DatabaseInv, MirrorInv
  PROVE  SingleMirrored
<1> SUFFICES ASSUME Settled PROVE ActiveGuids \cap Single = SeenGuids \cap Single
  BY DEF SingleMirrored, ActiveGuids, Single
<1>1. Pending = <<>>
  <2>1. front = <<>> /\ back = <<>> /\ ~AtWork
    BY DEF Settled, AtWork
  <2>2. QED
    BY <2>1, QueueType, QueueSides DEF Pending
<1>2. QED
  BY <1>1, LeadsNowhere, PendingType DEF MirrorInv, PendingCatchesUp

\* The database catches up with the network: whatever the listeners have pushed, once it is
\* worked off an endpoint that one participant may discover is active if it is discovered.
THEOREM SingleMirroredCorrect == DatabaseSpec => []SingleMirrored
<1>1. DatabaseInit => MirrorInv /\ JoinedBeforeStart
  BY MirrorStarts
<1>2. DatabaseInv /\ JoinedBeforeStart /\ MirrorInv /\ [DatabaseNext]_databaseVars
      => MirrorInv' /\ JoinedBeforeStart'
  BY JoinedKeeps, MirrorStepKeeps
<1>3. DatabaseInv /\ MirrorInv => SingleMirrored
  BY MirrorsIn
<1>. QED
  BY <1>1, <1>2, <1>3, DatabaseInvariant, PTL DEF DatabaseSpec

\* The same of all endpoints, where each is of that kind.
THEOREM MirrorsNetworkCorrect ==
  ASSUME Single = Guids
  PROVE  DatabaseSpec => []MirrorsNetwork
<1>1. SingleMirrored => MirrorsNetwork
  BY DEF SingleMirrored, MirrorsNetwork, SeenGuids
<1>. QED
  BY <1>1, SingleMirroredCorrect, PTL

-----------------------------------------------------------------------------
(* The callbacks and the database, where it is not started again           *)

\* clear_all_callbacks() has been called.
Cleared == exiting \/ stopper \notin {"idle", "clear"}
ClearedForGood == stopper \in {"wake", "join"} => exiting
RegisteredMeansOpen == registered => ~exiting
RunsRegistered == worker # "none" => registered \/ Cleared

\* What is or will be inactive in the database has been lost by some participant.
LostGuids == {g \in Guids : \E p \in Participants : <<p, g>> \in lost}
Losing(op) == op.kind # "erase" /\ ~op.entity.active
LostIsSees == lost \subseteq Sees
LosingWasLost ==
  /\ \A i \in 1..Len(front) : Losing(front[i]) => front[i].guid \in LostGuids
  /\ \A i \in 1..Len(back) : Losing(back[i]) => back[i].guid \in LostGuids
InactiveWasLost == \A g \in DOMAIN entities : ~entities[g].active => g \in LostGuids

\* The callbacks have reported every endpoint as it is but the one at work, and but for
\* those that were lost.
InWork(g) == AtWork /\ g = Head(front).guid
WorkIsDone == AtWork => (Head(front).guid \in ActiveGuids <=> Saying(Head(front)))
ToldAsItIs ==
  Cleared \/ \A g \in Guids :
    ~InWork(g) => /\ g \in told => g \in ActiveGuids
                  /\ g \in ActiveGuids => g \in told \cup LostGuids

ControlInv == ClearedForGood /\ RegisteredMeansOpen /\ RunsRegistered
ToldInv == LostIsSees /\ LosingWasLost /\ InactiveWasLost /\ WorkIsDone /\ ToldAsItIs

\* stop() clears the callbacks for good.
LEMMA ControlKeeps ==
  ASSUME ~Restarts, DatabaseInv, ControlInv, [DatabaseNext]_databaseVars
  PROVE  ControlInv'
<1>. USE DEF ControlInv, ClearedForGood, RegisteredMeansOpen, RunsRegistered, Cleared
<1>1. CASE Listener
  BY <1>1 DEF Listener, Discovered, ChangedQos, Removed, Erased, Push, controlVars
<1>2. CASE Signal
  BY <1>2 DEF Signal, NotifyOne, controlVars
<1>3. CASE WorkerStep \/ WorkerReturn
  BY <1>3 DEF WorkerStep, WorkerReturn, WorkerTest, WorkerSwap, WorkerDone, WorkerRefuse,
     WorkerReplace, WorkerApply, WorkerCall, WorkerNobody, controlVars
<1>4. CASE Start
  BY <1>4 DEF Start
<1>5. CASE Stop \/ StopClear
  BY <1>5 DEF Stop, StopClear
<1>6. CASE StopRaise
  BY <1>6 DEF StopRaise, DatabaseInv, RegisteredUntilCleared
<1>7. CASE StopWake \/ StopJoin
  BY <1>7 DEF StopWake, StopJoin, NotifyOne
<1>8. CASE UNCHANGED databaseVars
  BY <1>8 DEF databaseVars, controlVars
<1>9. QED
  BY <1>1, <1>2, <1>3, <1>4, <1>5, <1>6, <1>7, <1>8 DEF DatabaseNext, StopStep

\* A step that changes neither the database nor what is reported keeps the callbacks right.
LEMMA ToldStays ==
  ASSUME ToldInv, lost' = lost, entities' = entities, told' = told,
         AtWork' <=> AtWork, AtWork => Head(front') = Head(front), Cleared => Cleared',
         LosingWasLost'
  PROVE  ToldInv'
<1>1. ActiveGuids' = ActiveGuids /\ LostGuids' = LostGuids
      /\ \A g : InWork(g)' <=> InWork(g)
  BY DEF ActiveGuids, ActiveIn, Known, LostGuids, InWork
<1>2. LostIsSees' /\ InactiveWasLost'
  BY <1>1 DEF ToldInv, LostIsSees, InactiveWasLost
<1>3. WorkIsDone' /\ ToldAsItIs'
  BY <1>1 DEF ToldInv, WorkIsDone, ToldAsItIs
<1>4. QED
  BY <1>2, <1>3 DEF ToldInv

\* Each side of the queue is a queue; its tail loses nothing that it does not lose.
LEMMA TailLoses ==
  ASSUME DatabaseInv, LosingWasLost, front # <<>>, front' = Tail(front), back' = back,
         lost' = lost
  PROVE  LosingWasLost'
<1>1. /\ front \in Seq(Operation) /\ Len(Tail(front)) = Len(front) - 1
      /\ \A i \in 1..Len(Tail(front)) : i + 1 \in 1..Len(front) /\ Tail(front)[i] = front[i + 1]
  BY DEF DatabaseInv, DatabaseTypeOK
<1>2. LostGuids' = LostGuids
  BY DEF LostGuids
<1>3. QED
  BY <1>1, <1>2 DEF LosingWasLost

\* A listener says that an endpoint is inactive when it has lost it.
LEMMA ListenerTells ==
  ASSUME DatabaseInv, MirrorInv, ToldInv, Listener
  PROVE  ToldInv'
<1>1. PICK p \in Participants, g \in Guids :
        Discovered(p, g) \/ ChangedQos(p, g) \/ Removed(p, g) \/ Erased(p, g)
  BY DEF Listener
<1>2. PICK op \in Operation : back' = Append(back, op) /\ (Losing(op) => <<p, g>> \in lost')
                              /\ op.guid = g
  <2>1. ASSUME NEW kind \in {"add", "update", "erase"}, NEW alive \in BOOLEAN,
               Push(kind, p, g, alive), kind # "erase" /\ ~alive => <<p, g>> \in lost'
        PROVE  \E op \in Operation :
                 back' = Append(back, op) /\ (Losing(op) => <<p, g>> \in lost') /\ op.guid = g
    <3> DEFINE op == [kind |-> kind, guid |-> g, entity |-> [by |-> p, active |-> alive]]
    <3>1. op \in Operation
      BY DEF Operation, Entity
    <3>2. back' = Append(back, op) /\ (Losing(op) => <<p, g>> \in lost') /\ op.guid = g
      BY <2>1 DEF Push, Losing
    <3>3. QED
      BY <3>1, <3>2
  <2>2. CASE Discovered(p, g)
    BY <2>1, <2>2 DEF Discovered
  <2>3. CASE ChangedQos(p, g)
    BY <2>1, <2>3 DEF ChangedQos
  <2>4. CASE Removed(p, g)
    BY <2>1, <2>4 DEF Removed, ActiveOnceRemoved
  <2>5. CASE Erased(p, g)
    BY <2>1, <2>5 DEF Erased
  <2>6. QED
    BY <1>1, <2>2, <2>3, <2>4, <2>5
<1>3. /\ entities' = entities /\ front' = front /\ worker' = worker /\ told' = told
      /\ exiting' = exiting /\ stopper' = stopper
  BY <1>1 DEF Discovered, ChangedQos, Removed, Erased, Push, controlVars
<1>4. lost \subseteq lost' /\ lost' \subseteq Sees
  BY <1>1 DEF Discovered, ChangedQos, Removed, Erased, MirrorInv, SeenIsSees, ToldInv, LostIsSees
<1>5. LostGuids \subseteq LostGuids'
  BY <1>4 DEF LostGuids
<1>6. ActiveGuids' = ActiveGuids /\ \A f : InWork(f)' <=> InWork(f)
  BY <1>3 DEF ActiveGuids, ActiveIn, Known, InWork, AtWork
<1>7. LosingWasLost'
  <2>1. \A i \in 1..Len(back') : Losing(back'[i]) => back'[i].guid \in LostGuids'
    <3>1. /\ back \in Seq(Operation) /\ Len(back') = Len(back) + 1 /\ back'[Len(back) + 1] = op
          /\ \A i \in 1..Len(back) : back'[i] = back[i]
      BY <1>2 DEF DatabaseInv, DatabaseTypeOK
    <3>2. Losing(op) => op.guid \in LostGuids'
      BY <1>2 DEF LostGuids
    <3>3. \A i \in 1..Len(back) : Losing(back[i]) => back[i].guid \in LostGuids'
      BY <1>5 DEF ToldInv, LosingWasLost
    <3>4. \A i \in 1..Len(back') : i = Len(back) + 1 \/ i \in 1..Len(back)
      BY <3>1
    <3>5. QED
      BY <3>1, <3>2, <3>3, <3>4
  <2>2. \A i \in 1..Len(front') : Losing(front'[i]) => front'[i].guid \in LostGuids'
    BY <1>3, <1>5 DEF ToldInv, LosingWasLost
  <2>3. QED
    BY <2>1, <2>2 DEF LosingWasLost
<1>8. LostIsSees' /\ InactiveWasLost'
  BY <1>3, <1>4, <1>5 DEF ToldInv, LostIsSees, InactiveWasLost
<1>9. WorkIsDone' /\ ToldAsItIs'
  BY <1>3, <1>5, <1>6 DEF ToldInv, WorkIsDone, ToldAsItIs, AtWork, Cleared
<1>10. QED
  BY <1>7, <1>8, <1>9 DEF ToldInv

\* The operation the thread takes next is one the listeners may push now.
LEMMA HeadSensible ==
  ASSUME DatabaseInv, MirrorInv, worker = "loop", front # <<>>
  PROVE  /\ Head(front) \in Operation /\ Head(front) = front[1] /\ 1 \in 1..Len(front)
         /\ Sensible(ActiveGuids \cap Single, Head(front))
<1>1. front \in Seq(Operation) /\ back \in Seq(Operation)
  BY DEF DatabaseInv, DatabaseTypeOK
<1>2. Pending # <<>> /\ Head(Pending) = Head(front)
  BY <1>1, QueueSides DEF Pending, AtWork
<1>3. Sensible(ActiveGuids \cap Single, Head(front))
  BY <1>2, LeadsTail, PendingType DEF MirrorInv, PendingCatchesUp
<1>4. QED
  BY <1>1, <1>3

\* What applying an operation does to the endpoints.
LEMMA AppliedOne ==
  ASSUME NEW op \in Operation, entities' = Applied(op)
  PROVE  /\ \A g : g # op.guid =>
              /\ g \in DOMAIN entities' <=> g \in DOMAIN entities
              /\ g \in DOMAIN entities => entities'[g] = entities[g]
         /\ \A g \in Guids : g # op.guid => (g \in ActiveGuids' <=> g \in ActiveGuids)
         /\ op.kind = "erase" => op.guid \notin DOMAIN entities'
         /\ op.kind # "erase" => op.guid \in DOMAIN entities' /\ entities'[op.guid] = op.entity
         /\ op.guid \in ActiveGuids' <=> Saying(op)
<1>0. op.guid \in Guids
  BY DEF Operation
<1>1. CASE op.kind = "erase"
  BY <1>0, <1>1 DEF Applied, Without, ActiveGuids, ActiveIn, Known, Saying
<1>2. CASE op.kind # "erase"
  BY <1>0, <1>2 DEF Applied, Put, ActiveGuids, ActiveIn, Known, Saying
<1>3. QED
  BY <1>1, <1>2

\* The thread reports what it applies; what it replaces in silence was lost.
LEMMA WorkerTells ==
  ASSUME DatabaseInv, MirrorInv, ControlInv, ToldInv, Signal \/ WorkerStep \/ WorkerReturn
  PROVE  ToldInv'
<1>1. lost' = lost /\ exiting' = exiting /\ stopper' = stopper
  BY DEF Signal, WorkerStep, WorkerReturn, WorkerTest, WorkerSwap, WorkerDone, WorkerRefuse,
         WorkerReplace, WorkerApply, WorkerCall, WorkerNobody, networkVars, controlVars
<1>2. LostGuids' = LostGuids /\ (Cleared' <=> Cleared) /\ LostIsSees'
  BY <1>1 DEF LostGuids, Cleared, ToldInv, LostIsSees
<1>3. CASE Signal \/ WorkerTest \/ WorkerDone \/ WorkerCall
  <2>1. /\ entities' = entities /\ told' = told /\ front' = front /\ back' = back
        /\ AtWork' <=> AtWork
    BY <1>3 DEF Signal, NotifyOne, WorkerTest, WorkerDone, WorkerCall, queueVars, AtWork
  <2>2. LosingWasLost'
    BY <1>2, <2>1 DEF ToldInv, LosingWasLost
  <2>3. QED
    BY <1>1, <1>2, <2>1, <2>2, ToldStays
<1>4. CASE WorkerSwap
  <2>1. /\ entities' = entities /\ told' = told /\ front' = back /\ back' = front
        /\ ~AtWork /\ ~AtWork'
    BY <1>4 DEF WorkerSwap, AtWork
  <2>2. LosingWasLost'
    BY <1>2, <2>1 DEF ToldInv, LosingWasLost
  <2>3. QED
    BY <1>1, <1>2, <2>1, <2>2, ToldStays
<1>5. CASE WorkerRefuse
  <2>1. /\ entities' = entities /\ told' = told /\ front # <<>> /\ front' = Tail(front)
        /\ back' = back /\ ~AtWork /\ ~AtWork'
    BY <1>5 DEF WorkerRefuse, AtWork
  <2>2. LosingWasLost'
    BY <1>1, <2>1, TailLoses DEF ToldInv
  <2>3. QED
    BY <1>1, <1>2, <2>1, <2>2, ToldStays
<1> DEFINE op == Head(front)
<1>6. ASSUME worker = "loop", front # <<>>, entities' = Applied(op)
      PROVE  InactiveWasLost'
  <2>1. op \in Operation /\ (Losing(op) => op.guid \in LostGuids)
    BY <1>6, HeadSensible DEF ToldInv, LosingWasLost
  <2>2. \A g \in DOMAIN entities' : ~entities'[g].active => g \in LostGuids
    BY <1>6, <2>1, AppliedOne DEF ToldInv, InactiveWasLost, Losing
  <2>3. QED
    BY <1>2, <2>2 DEF InactiveWasLost
<1>7. CASE WorkerReplace
  <2>1. /\ worker = "loop" /\ front # <<>> /\ entities' = Applied(op) /\ told' = told
        /\ front' = Tail(front) /\ back' = back /\ ~AtWork /\ ~AtWork'
        /\ ~Refused(op) /\ Silent(op)
    BY <1>7 DEF WorkerReplace, AtWork
  <2>2. op \in Operation /\ Sensible(ActiveGuids \cap Single, op)
    BY <2>1, HeadSensible
  <2>3. op.kind = "add" /\ Known(op.guid) /\ ~ActiveIn(op.guid) /\ op.entity.active
    BY <2>1, <2>2 DEF Silent, Refused, Sensible
  <2>4. op.guid \in LostGuids /\ op.guid \in ActiveGuids'
    BY <2>1, <2>2, <2>3, AppliedOne DEF ToldInv, InactiveWasLost, ActiveIn, Known, Saying
  <2>5. \A g \in Guids : g # op.guid => (g \in ActiveGuids' <=> g \in ActiveGuids)
    BY <2>1, <2>2, AppliedOne
  <2>6. LosingWasLost'
    BY <1>1, <2>1, TailLoses DEF ToldInv
  <2>7. WorkIsDone' /\ ToldAsItIs'
    BY <1>2, <2>1, <2>4, <2>5 DEF ToldInv, WorkIsDone, ToldAsItIs, InWork
  <2>8. QED
    BY <1>2, <1>6, <2>1, <2>6, <2>7 DEF ToldInv
<1>8. CASE WorkerApply
  <2>1. /\ worker = "loop" /\ front # <<>> /\ entities' = Applied(op) /\ told' = told
        /\ front' = front /\ back' = back /\ ~AtWork /\ AtWork'
    BY <1>8 DEF WorkerApply, AtWork, queueVars
  <2>2. op \in Operation
    BY <2>1, HeadSensible
  <2>3. /\ \A g \in Guids : g # op.guid => (g \in ActiveGuids' <=> g \in ActiveGuids)
        /\ op.guid \in ActiveGuids' <=> Saying(op)
    BY <2>1, <2>2, AppliedOne
  <2>4. LosingWasLost'
    BY <1>2, <2>1 DEF ToldInv, LosingWasLost
  <2>5. WorkIsDone'
    BY <2>1, <2>3 DEF WorkIsDone
  <2>6. ToldAsItIs'
    BY <1>2, <2>1, <2>3 DEF ToldInv, ToldAsItIs, InWork
  <2>7. QED
    BY <1>2, <1>6, <2>1, <2>4, <2>5, <2>6 DEF ToldInv
<1>9. CASE WorkerNobody
  <2>1. /\ AtWork /\ ~registered /\ worker # "none" /\ ~AtWork' /\ entities' = entities
        /\ front' = Tail(front) /\ back' = back
    BY <1>9 DEF WorkerNobody, AtWork
  <2>2. Cleared'
    BY <1>2, <2>1 DEF ControlInv, RunsRegistered
  <2>3. LosingWasLost'
    BY <1>1, <2>1, TailLoses DEF ToldInv, DatabaseInv, AtWorkHasItem, AtWork
  <2>4. InactiveWasLost' /\ WorkIsDone' /\ ToldAsItIs'
    BY <1>2, <2>1, <2>2 DEF ToldInv, InactiveWasLost, WorkIsDone, ToldAsItIs
  <2>5. QED
    BY <1>2, <2>3, <2>4 DEF ToldInv
<1>10. CASE WorkerReturn
  <2>1. /\ AtWork /\ ~AtWork' /\ entities' = entities
        /\ front' = Tail(front) /\ back' = back /\ told' = Reported(op)
    BY <1>10 DEF WorkerReturn, AtWork
  <2>2. LosingWasLost'
    BY <1>1, <2>1, TailLoses DEF ToldInv, DatabaseInv, AtWorkHasItem, AtWork
  <2>3. InactiveWasLost' /\ WorkIsDone'
    BY <1>2, <2>1 DEF ToldInv, InactiveWasLost, WorkIsDone
  <2>4. /\ \A g : g # op.guid => (g \in told' <=> g \in told)
        /\ op.guid \in told' <=> Saying(op)
    BY <2>1 DEF Reported, Saying
  <2>5. ActiveGuids' = ActiveGuids
    BY <2>1 DEF ActiveGuids, ActiveIn, Known
  <2>6. op.guid \in ActiveGuids <=> Saying(op)
    BY <2>1 DEF ToldInv, WorkIsDone
  <2>7. ToldAsItIs'
    BY <1>2, <2>1, <2>4, <2>5, <2>6 DEF ToldInv, ToldAsItIs, InWork
  <2>8. QED
    BY <1>2, <2>2, <2>3, <2>7 DEF ToldInv
<1>11. QED
  BY <1>3, <1>4, <1>5, <1>7, <1>8, <1>9, <1>10 DEF WorkerStep

\* start() finds no thread at work, and what stop() clears stays cleared.
LEMMA StopperTells ==
  ASSUME JoinedBeforeStart, ControlInv, ToldInv, Start \/ Stop \/ StopStep
  PROVE  ToldInv'
<1>1. /\ front' = front /\ back' = back /\ entities' = entities /\ lost' = lost
      /\ told' = told
  BY DEF Start, Stop, StopStep, StopClear, StopRaise, StopWake, StopJoin, queueVars, networkVars
<1>2. AtWork' <=> AtWork
  BY DEF JoinedBeforeStart, AtWork, Start, Stop, StopStep, StopClear, StopRaise, StopWake,
     StopJoin, NotifyOne
<1>3. Cleared => Cleared'
  BY DEF ControlInv, ClearedForGood, Cleared, Start, Stop, StopStep, StopClear, StopRaise,
     StopWake, StopJoin
<1>4. LosingWasLost'
  BY <1>1 DEF ToldInv, LosingWasLost, LostGuids
<1>5. QED
  BY <1>1, <1>2, <1>3, <1>4, ToldStays

\* Nothing has been reported of a fresh database.
LEMMA ToldStarts ==
  ASSUME DatabaseInit
  PROVE  ControlInv /\ ToldInv
<1>1. ControlInv
  BY DEF DatabaseInit, ControlInv, ClearedForGood, RegisteredMeansOpen, RunsRegistered
<1>2. Len(front) = 0 /\ Len(back) = 0 /\ DOMAIN entities = {}
  BY DEF DatabaseInit
<1>3. LosingWasLost /\ InactiveWasLost /\ LostIsSees
  BY <1>2 DEF LosingWasLost, InactiveWasLost, LostIsSees, DatabaseInit
<1>4. WorkIsDone /\ ToldAsItIs
  BY <1>2 DEF WorkIsDone, ToldAsItIs, AtWork, ActiveGuids, ActiveIn, Known, DatabaseInit
<1>5. QED
  BY <1>1, <1>3, <1>4 DEF ToldInv

\* No step of the database, and no step elsewhere, leaves a callback out.
LEMMA ToldStepKeeps ==
  ASSUME DatabaseInv, MirrorInv, JoinedBeforeStart, ControlInv, ToldInv,
         [DatabaseNext]_databaseVars
  PROVE  ToldInv'
<1>1. CASE UNCHANGED databaseVars
  <2>1. /\ front' = front /\ back' = back /\ entities' = entities /\ lost' = lost
        /\ told' = told /\ worker' = worker /\ exiting' = exiting /\ stopper' = stopper
    BY <1>1 DEF databaseVars, queueVars, networkVars, controlVars
  <2>2. LosingWasLost' /\ (AtWork' <=> AtWork) /\ (Cleared' <=> Cleared)
    BY <2>1 DEF ToldInv, LosingWasLost, LostGuids, AtWork, Cleared
  <2>3. QED
    BY <2>1, <2>2, ToldStays
<1>. QED
  BY <1>1, ListenerTells, WorkerTells, StopperTells DEF DatabaseNext

\* With nothing pending, an endpoint that is not both lost and seen is reported as it is.
SingleTold ==
  Settled /\ registered =>
    \A g \in Single :
      (\A p \in Participants : <<p, g>> \notin lost \cap seen) => (g \in told <=> ActiveIn(g))

LEMMA ToldIn ==
  ASSUME DatabaseInv, MirrorInv, ControlInv, ToldInv
  PROVE  SingleTold
<1> SUFFICES ASSUME Settled, registered, NEW g \in Single,
                    \A p \in Participants : <<p, g>> \notin lost \cap seen
             PROVE  g \in told <=> ActiveIn(g)
  BY DEF SingleTold
<1>1. ~Cleared /\ ~InWork(g)
  BY DEF Settled, InWork, AtWork, Cleared, ControlInv, RegisteredMeansOpen, DatabaseInv,
     RegisteredUntilCleared
<1>2. g \in Guids /\ (ActiveIn(g) => \E p \in Participants : <<p, g>> \in seen)
  BY MirrorsIn DEF SingleMirrored, SeenGuids, Single
<1>3. ActiveIn(g) => g \notin LostGuids
  BY <1>2 DEF LostGuids, Single, MirrorInv, SeenIsSees, ToldInv, LostIsSees
<1>4. QED
  BY <1>1, <1>2, <1>3 DEF ToldInv, ToldAsItIs, ActiveGuids

\* Whatever the listeners push and however the thread is woken, no callback is left out:
\* the registered callbacks have reported an endpoint that one participant may discover as it
\* is, unless it was lost and found again.
THEOREM SingleToldCorrect ==
  ASSUME ~Restarts
  PROVE  DatabaseSpec => []SingleTold
<1>1. DatabaseInit => MirrorInv /\ JoinedBeforeStart /\ ControlInv /\ ToldInv
  BY MirrorStarts, ToldStarts
<1>2. DatabaseInv /\ JoinedBeforeStart /\ MirrorInv /\ ControlInv /\ ToldInv
        /\ [DatabaseNext]_databaseVars
      => MirrorInv' /\ JoinedBeforeStart' /\ ControlInv' /\ ToldInv'
  BY JoinedKeeps, MirrorStepKeeps, ControlKeeps, ToldStepKeeps
<1>3. DatabaseInv /\ MirrorInv /\ ControlInv /\ ToldInv => SingleTold
  BY ToldIn
<1>. QED
  BY <1>1, <1>2, <1>3, DatabaseInvariant, PTL DEF DatabaseSpec

\* The same of all endpoints, where each is of that kind.
THEOREM ToldEverythingCorrect ==
  ASSUME Single = Guids, ~Restarts
  PROVE  DatabaseSpec => []ToldEverything
<1>1. SingleTold => ToldEverything
  BY DEF SingleTold, ToldEverything
<1>. QED
  BY <1>1, SingleToldCorrect, PTL

-----------------------------------------------------------------------------
(* Endpoints that are lost for good                                        *)

\* An operation speaks of an endpoint for its discoverer, erases only what may be erased,
\* and adds only what is active.
Proper(op) ==
  /\ <<op.entity.by, op.guid>> \in Sees
  /\ op.kind = "erase" => op.guid \in Erasable
  /\ op.kind = "add" => op.entity.active
ProperInv ==
  /\ \A i \in 1..Len(front) : Proper(front[i])
  /\ \A i \in 1..Len(back) : Proper(back[i])
  /\ \A g \in DOMAIN entities : <<entities[g].by, g>> \in Sees

\* Queue q adds no endpoint of D, nor one that it says is lost before, of those that one
\* participant may discover.
InactiveGuids == {g \in Guids : Known(g) /\ ~entities[g].active}
AddsAreNew(q, D) ==
  \A j \in 1..Len(q) : q[j].kind = "add" /\ q[j].guid \in Single =>
    /\ q[j].guid \notin D
    /\ \A i \in 1..(j - 1) : Losing(q[i]) => q[i].guid # q[j].guid
NewInv == AddsAreNew(Pending, InactiveGuids)

\* What a listener pushes is proper, and it adds what has never been lost.
LEMMA PushIsProper ==
  ASSUME MirrorInv, Listener
  PROVE  \E op \in Operation :
           /\ Proper(op)
           /\ back' = Append(back, op)
           /\ op.kind = "add" /\ ~Rediscovers => <<op.entity.by, op.guid>> \notin lost
           /\ UNCHANGED <<entities, front, worker>>
<1>1. ASSUME NEW p \in Participants, NEW g \in Guids,
             NEW kind \in {"add", "update", "erase"}, NEW alive \in BOOLEAN,
             Push(kind, p, g, alive), <<p, g>> \in Sees,
             kind = "erase" => g \in Erasable,
             kind = "add" => alive /\ (~Rediscovers => <<p, g>> \notin lost)
      PROVE  \E op \in Operation :
               /\ Proper(op)
               /\ back' = Append(back, op)
               /\ op.kind = "add" /\ ~Rediscovers => <<op.entity.by, op.guid>> \notin lost
               /\ UNCHANGED <<entities, front, worker>>
  <2> DEFINE op == [kind |-> kind, guid |-> g, entity |-> [by |-> p, active |-> alive]]
  <2>1. op \in Operation /\ Proper(op)
    BY <1>1 DEF Operation, Entity, Proper
  <2>2. back' = Append(back, op) /\ UNCHANGED <<entities, front, worker>>
    BY <1>1 DEF Push
  <2>3. op.kind = "add" /\ ~Rediscovers => <<op.entity.by, op.guid>> \notin lost
    BY <1>1
  <2> QED
    BY <2>1, <2>2, <2>3
<1>2. PICK p \in Participants, g \in Guids :
        Discovered(p, g) \/ ChangedQos(p, g) \/ Removed(p, g) \/ Erased(p, g)
  BY DEF Listener
<1>3. seen \subseteq Sees
  BY DEF MirrorInv, SeenIsSees
<1>4. CASE Discovered(p, g)
  BY <1>1, <1>4 DEF Discovered
<1>5. CASE ChangedQos(p, g)
  BY <1>1, <1>3, <1>5 DEF ChangedQos
<1>6. CASE Removed(p, g)
  BY <1>1, <1>3, <1>6 DEF Removed, ActiveOnceRemoved
<1>7. CASE Erased(p, g)
  BY <1>1, <1>7 DEF Erased
<1> QED
  BY <1>2, <1>4, <1>5, <1>6, <1>7

\* The thread takes from a side what is proper, and leaves the rest.
LEMMA WorkerIsProper ==
  ASSUME DatabaseInv, ProperInv, Signal \/ WorkerStep \/ WorkerReturn
  PROVE  ProperInv'
<1>1. front \in Seq(Operation) /\ (AtWork => front # <<>>)
  BY DEF DatabaseInv, DatabaseTypeOK, AtWorkHasItem, AtWork
<1>2. ASSUME front # <<>>
      PROVE  /\ Head(front) = front[1] /\ 1 \in 1..Len(front) /\ Head(front) \in Operation
             /\ \A i \in 1..Len(Tail(front)) : i + 1 \in 1..Len(front) /\ Tail(front)[i] = front[i + 1]
  BY <1>1, <1>2
<1>3. CASE Signal \/ WorkerTest \/ WorkerDone \/ WorkerCall
  BY <1>3 DEF Signal, WorkerTest, WorkerDone, WorkerCall, queueVars, ProperInv
<1>4. CASE WorkerSwap
  BY <1>4 DEF WorkerSwap, ProperInv
<1>5. CASE WorkerRefuse \/ WorkerNobody \/ WorkerReturn
  <2>1. front # <<>> /\ front' = Tail(front) /\ back' = back /\ entities' = entities
    BY <1>1, <1>5 DEF WorkerRefuse, WorkerNobody, WorkerReturn, AtWork
  <2> QED
    BY <1>2, <2>1 DEF ProperInv
<1>6. ASSUME front # <<>>, entities' = Applied(Head(front))
      PROVE  \A g \in DOMAIN entities' : <<entities'[g].by, g>> \in Sees
  <2>1. Proper(Head(front)) /\ Head(front) \in Operation
    BY <1>2, <1>6 DEF ProperInv
  <2> QED
    BY <1>6, <2>1, AppliedOne DEF ProperInv, Proper
<1>7. CASE WorkerReplace
  <2>1. front # <<>> /\ front' = Tail(front) /\ back' = back /\ entities' = Applied(Head(front))
    BY <1>7 DEF WorkerReplace
  <2> QED
    BY <1>2, <1>6, <2>1 DEF ProperInv
<1>8. CASE WorkerApply
  <2>1. front # <<>> /\ front' = front /\ back' = back /\ entities' = Applied(Head(front))
    BY <1>8 DEF WorkerApply, queueVars
  <2> QED
    BY <1>6, <2>1 DEF ProperInv
<1> QED
  BY <1>3, <1>4, <1>5, <1>7, <1>8 DEF WorkerStep

\* The queue and the database stay proper.
LEMMA ProperKeeps ==
  ASSUME DatabaseInv, MirrorInv, ProperInv, [DatabaseNext]_databaseVars
  PROVE  ProperInv'
<1>1. CASE Listener
  <2>1. PICK op \in Operation : Proper(op) /\ back' = Append(back, op)
                                /\ UNCHANGED <<entities, front>>
    BY <1>1, PushIsProper
  <2>2. back \in Seq(Operation)
    BY DEF DatabaseInv, DatabaseTypeOK
  <2>3. \A i \in 1..Len(back') : back'[i] = op \/ (i \in 1..Len(back) /\ back'[i] = back[i])
    BY <2>1, <2>2
  <2> QED
    BY <2>1, <2>3 DEF ProperInv
<1>2. CASE Start \/ Stop \/ StopStep
  BY <1>2 DEF Start, Stop, StopStep, StopClear, StopRaise, StopWake, StopJoin, queueVars, ProperInv
<1>3. CASE UNCHANGED databaseVars
  BY <1>3 DEF databaseVars, queueVars, ProperInv
<1> QED
  BY <1>1, <1>2, <1>3, WorkerIsProper DEF DatabaseNext

\* An operation that is pushed adds nothing that is pending as lost ...
LEMMA NewAppend ==
  ASSUME NEW q \in Seq(Operation), NEW op \in Operation, NEW D, AddsAreNew(q, D),
         op.kind = "add" /\ op.guid \in Single =>
           op.guid \notin D /\ \A i \in 1..Len(q) : Losing(q[i]) => q[i].guid # op.guid
  PROVE  AddsAreNew(Append(q, op), D)
<1> DEFINE r == Append(q, op)
<1>1. /\ Len(q) \in Nat /\ Len(r) = Len(q) + 1 /\ r[Len(q) + 1] = op
      /\ \A i \in 1..Len(q) : r[i] = q[i]
  OBVIOUS
<1> HIDE DEF r
<1> SUFFICES ASSUME NEW j \in 1..Len(r), r[j].kind = "add", r[j].guid \in Single
             PROVE  /\ r[j].guid \notin D
                    /\ \A i \in 1..(j - 1) : Losing(r[i]) => r[i].guid # r[j].guid
  BY DEF AddsAreNew, r
<1>2. \A i \in 1..(j - 1) : i \in 1..Len(q)
  BY <1>1
<1>3. CASE j = Len(q) + 1
  BY <1>1, <1>2, <1>3
<1>4. CASE j # Len(q) + 1
  <2>1. j \in 1..Len(q)
    BY <1>1, <1>4
  <2> QED
    BY <1>1, <1>2, <2>1 DEF AddsAreNew
<1> QED
  BY <1>3, <1>4

\* ... and with the head gone, the rest adds nothing that the head has lost.
LEMMA NewTail ==
  ASSUME NEW q \in Seq(Operation), q # <<>>, NEW D, AddsAreNew(q, D),
         NEW E, \A g \in E : g \in D \/ (Losing(Head(q)) /\ g = Head(q).guid)
  PROVE  /\ AddsAreNew(Tail(q), E)
         /\ Head(q).kind = "add" /\ Head(q).guid \in Single => Head(q).guid \notin D
<1> DEFINE r == Tail(q)
<1>1. /\ Len(q) \in Nat /\ 1 \in 1..Len(q) /\ Head(q) = q[1]
      /\ Len(r) = Len(q) - 1 /\ \A i \in 1..Len(r) : r[i] = q[i + 1]
  OBVIOUS
<1>2. Head(q).kind = "add" /\ Head(q).guid \in Single => Head(q).guid \notin D
  BY <1>1 DEF AddsAreNew
<1> HIDE DEF r
<1>3. ASSUME NEW j \in 1..Len(r), r[j].kind = "add", r[j].guid \in Single
      PROVE  /\ r[j].guid \notin E
             /\ \A i \in 1..(j - 1) : Losing(r[i]) => r[i].guid # r[j].guid
  <2>1. j + 1 \in 1..Len(q) /\ r[j] = q[j + 1] /\ (j + 1) - 1 = j /\ 1 \in 1..j
    BY <1>1
  <2>2. /\ r[j].guid \notin D
        /\ \A i \in 1..j : Losing(q[i]) => q[i].guid # r[j].guid
    BY <1>3, <2>1 DEF AddsAreNew
  <2>3. r[j].guid \notin E
    BY <1>1, <2>1, <2>2
  <2>4. \A i \in 1..(j - 1) : i \in 1..Len(r) /\ i + 1 \in 1..j /\ r[i] = q[i + 1]
    BY <1>1, <2>1
  <2> QED
    BY <2>2, <2>3, <2>4
<1>4. AddsAreNew(r, E)
  BY <1>3 DEF AddsAreNew
<1> QED
  BY <1>2, <1>4 DEF r

\* What is pending is on one of the sides of the queue.
LEMMA PendingOnASide ==
  ASSUME DatabaseInv, NEW i \in 1..Len(Pending)
  PROVE  \/ \E j \in 1..Len(front) : Pending[i] = front[j]
         \/ \E j \in 1..Len(back) : Pending[i] = back[j]
<1>1. front \in Seq(Operation) /\ back \in Seq(Operation) /\ (AtWork => front # <<>>)
  BY DEF DatabaseInv, DatabaseTypeOK, AtWorkHasItem, AtWork
<1>2. ASSUME NEW f \in Seq(Operation), NEW b \in Seq(Operation), NEW k \in 1..Len(f \o b)
      PROVE  \/ k \in 1..Len(f) /\ (f \o b)[k] = f[k]
             \/ k - Len(f) \in 1..Len(b) /\ (f \o b)[k] = b[k - Len(f)]
  BY <1>2
<1>3. CASE ~AtWork
  BY <1>1, <1>2, <1>3 DEF Pending
<1>4. CASE AtWork
  <2>1. /\ Tail(front) \in Seq(Operation)
        /\ \A j \in 1..Len(Tail(front)) : j + 1 \in 1..Len(front) /\ Tail(front)[j] = front[j + 1]
    BY <1>1, <1>4
  <2>2. Pending = Tail(front) \o back
    BY <1>4 DEF Pending
  <2> QED
    BY <1>1, <1>2, <2>1, <2>2
<1> QED
  BY <1>3, <1>4

\* An endpoint that a listener adds has not been lost, and nothing pending says it was.
LEMMA ListenerAddsNew ==
  ASSUME ~Rediscovers, DatabaseInv, MirrorInv, ToldInv, NewInv, Listener
  PROVE  NewInv'
<1>1. PICK op \in Operation :
        /\ Proper(op)
        /\ back' = Append(back, op)
        /\ op.kind = "add" => <<op.entity.by, op.guid>> \notin lost
        /\ UNCHANGED <<entities, front, worker>>
  BY PushIsProper
<1>2. ASSUME op.kind = "add", op.guid \in Single
      PROVE  op.guid \notin LostGuids
  <2>1. op.entity.by \in Participants
    BY DEF Operation, Entity
  <2>2. \A p \in Participants : <<p, op.guid>> \in Sees => p = op.entity.by
    BY <1>1, <1>2, <2>1 DEF Single, Proper
  <2>3. lost \subseteq Sees
    BY DEF ToldInv, LostIsSees
  <2> QED
    BY <1>1, <1>2, <2>2, <2>3 DEF LostGuids
<1>3. \A i \in 1..Len(Pending) : Losing(Pending[i]) => Pending[i].guid \in LostGuids
  BY PendingOnASide DEF ToldInv, LosingWasLost
<1>4. InactiveGuids \subseteq LostGuids
  BY DEF ToldInv, InactiveWasLost, InactiveGuids, Known
<1>5. op.kind = "add" /\ op.guid \in Single =>
        /\ op.guid \notin InactiveGuids
        /\ \A i \in 1..Len(Pending) : Losing(Pending[i]) => Pending[i].guid # op.guid
  BY <1>2, <1>3, <1>4
<1>6. AddsAreNew(Append(Pending, op), InactiveGuids)
  BY <1>5, NewAppend, PendingType DEF NewInv
<1>7. Pending' = Append(Pending, op)
  BY <1>1, PendingAppend
<1>8. InactiveGuids' = InactiveGuids
  BY <1>1 DEF InactiveGuids, Known
<1> QED
  BY <1>6, <1>7, <1>8 DEF NewInv

\* Where lost endpoints stay lost, no endpoint is added after it was lost.
LEMMA NewKeeps ==
  ASSUME ~Rediscovers, DatabaseInv, JoinedBeforeStart, MirrorInv, ToldInv,
         NewInv, [DatabaseNext]_databaseVars
  PROVE  NewInv'
<1>1. ASSUME Pending' = Pending, entities' = entities
      PROVE  NewInv'
  <2>1. InactiveGuids' = InactiveGuids
    BY <1>1 DEF InactiveGuids, Known
  <2> QED
    BY <1>1, <2>1 DEF NewInv
<1>2. ASSUME Pending # <<>>, Head(front) \in Operation, Head(Pending) = Head(front),
             Pending' = Tail(Pending),
             entities' = IF Refused(Head(front)) THEN entities ELSE Applied(Head(front))
      PROVE  NewInv'
  <2> DEFINE op == Head(front)
  <2>1. \A g \in InactiveGuids' : g \in InactiveGuids \/ (Losing(op) /\ g = op.guid)
    <3>1. CASE Refused(op)
      BY <1>2, <3>1 DEF InactiveGuids, Known
    <3>2. CASE ~Refused(op)
      <4>1. entities' = Applied(op)
        BY <1>2, <3>2
      <4>2. /\ \A g : g # op.guid =>
                  /\ g \in DOMAIN entities' <=> g \in DOMAIN entities
                  /\ g \in DOMAIN entities => entities'[g] = entities[g]
            /\ op.kind = "erase" => op.guid \notin DOMAIN entities'
            /\ op.kind # "erase" => entities'[op.guid] = op.entity
        BY <1>2, <4>1, AppliedOne
      <4> QED
        BY <4>2 DEF InactiveGuids, Known, Losing
    <3> QED
      BY <3>1, <3>2
  <2>2. AddsAreNew(Tail(Pending), InactiveGuids')
    BY <1>2, <2>1, NewTail, PendingType DEF NewInv
  <2> QED
    BY <1>2, <2>2 DEF NewInv
<1>3. CASE Signal \/ WorkerStep \/ WorkerReturn
  <2>1. SwapsWhenEmpty
    BY DEF MirrorInv
  <2> QED
    BY <1>1, <1>2, <1>3, <2>1, PendingSteps
<1>4. CASE Start \/ Stop \/ StopStep
  <2>1. front' = front /\ back' = back /\ entities' = entities
    BY <1>4 DEF Start, Stop, StopStep, StopClear, StopRaise, StopWake, StopJoin, queueVars
  <2>2. AtWork' = AtWork
    BY <1>4 DEF JoinedBeforeStart, AtWork, Start, Stop, StopStep, StopClear, StopRaise,
       StopWake, StopJoin, NotifyOne
  <2> QED
    BY <1>1, <2>1, <2>2 DEF Pending
<1>5. CASE UNCHANGED databaseVars
  BY <1>1, <1>5 DEF databaseVars, queueVars, Pending, AtWork
<1> QED
  BY <1>3, <1>4, <1>5, ListenerAddsNew DEF DatabaseNext

\* The database of a participant that has found nothing yet.
LEMMA OrderStarts ==
  ASSUME DatabaseInit
  PROVE  ProperInv /\ NewInv
<1>1. Len(front) = 0 /\ Len(back) = 0 /\ DOMAIN entities = {}
  BY DEF DatabaseInit
<1>2. Pending = <<>>
  <2>1. front = <<>> /\ back = <<>> /\ ~AtWork
    BY DEF DatabaseInit, AtWork
  <2> QED
    BY <2>1, QueueType, QueueSides DEF Pending
<1> QED
  BY <1>1, <1>2 DEF ProperInv, NewInv, AddsAreNew

\* No such endpoint is replaced in silence.
LEMMA NotReplaced ==
  ASSUME DatabaseInv, MirrorInv, NewInv, WorkerReplace
  PROVE  Head(front) \in Operation /\ Head(front).guid \notin Single
<1>1. worker = "loop" /\ front # <<>> /\ ~Refused(Head(front)) /\ Silent(Head(front))
  BY DEF WorkerReplace
<1>2. /\ front \in Seq(Operation) /\ back \in Seq(Operation) /\ Head(front) \in Operation
      /\ Pending = front \o back /\ Pending # <<>> /\ Head(Pending) = Head(front)
  BY <1>1, QueueSides, QueueType DEF DatabaseInv, DatabaseTypeOK, Pending, AtWork
<1>3. Head(front).kind = "add" /\ Head(front).guid \in Single =>
        Head(front).guid \notin InactiveGuids
  <2>1. Pending \in Seq(Operation) /\ AddsAreNew(Pending, InactiveGuids)
    BY PendingType DEF NewInv
  <2> QED
    BY <1>2, <2>1, NewTail
<1> QED
  BY <1>1, <1>2, <1>3 DEF Refused, Silent, InactiveGuids, ActiveIn, Known, Operation

\* All that is known of the queue, the callbacks and the endpoints together.
HistoryInv ==
  /\ DatabaseInv /\ JoinedBeforeStart /\ ControlInv
  /\ MirrorInv /\ ToldInv /\ ProperInv /\ NewInv

LEMMA HistoryStarts ==
  ASSUME DatabaseInit
  PROVE  HistoryInv
BY DatabaseStarts, MirrorStarts, ToldStarts, OrderStarts DEF HistoryInv

LEMMA HistoryKeeps ==
  ASSUME ~Rediscovers, ~Restarts, HistoryInv, [DatabaseNext]_databaseVars
  PROVE  HistoryInv'
BY DatabaseStepKeeps, JoinedKeeps, ControlKeeps, MirrorStepKeeps, ToldStepKeeps, ProperKeeps,
   NewKeeps DEF HistoryInv

\* Where the network does not find again what it has lost, process_queue_ calls back for
\* every change of an endpoint that one participant may discover: it never replaces it in
\* silence.
THEOREM NothingInSilence ==
  ASSUME ~Rediscovers, ~Restarts
  PROVE  DatabaseSpec => [][WorkerReplace => Head(front).guid \notin Single]_databaseVars
<1>1. DatabaseInit => HistoryInv
  BY HistoryStarts
<1>2. HistoryInv /\ [DatabaseNext]_databaseVars => HistoryInv'
  BY HistoryKeeps
<1>3. HistoryInv => (WorkerReplace => Head(front).guid \notin Single)
  BY NotReplaced DEF HistoryInv
<1> QED
  BY <1>1, <1>2, <1>3, PTL DEF DatabaseSpec
=============================================================================
