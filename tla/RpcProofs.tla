------------------------------ MODULE RpcProofs ------------------------------
(***************************************************************************)
(* Theorems about RpcBridge, for any participants, servers, requests and   *)
(* threads: there is one task per raised flag, no waiting data is without  *)
(* one, and nothing is transmitted once disable() has returned; a reply    *)
(* finds the entry of its request, and each client gets its own reply, and *)
(* once per participant.                                                   *)
(***************************************************************************)
EXTENDS RpcBridge, FiniteSetTheorems, WellFoundedInduction, TLAPS

\* What a thread of the pool carries: nothing, or a record with the place and the reader
\* of a task.
Shaped(j) ==
  /\ j = [x \in DOMAIN j |-> j[x]]
  /\ \/ j = Idle
     \/ {"at", "reader"} \subseteq DOMAIN j /\ j.at # "idle" /\ j.reader \in Readers

RpcTypes ==
  /\ enabled \in BOOLEAN
  /\ caller \in [at : {"idle", "writers", "readers", "wait"}, left : SUBSET Readers]
  /\ readerOn \subseteq Readers
  /\ raised \subseteq Readers
  /\ tasks \in [Readers -> Nat]
  /\ unread = [r \in Readers |-> unread[r]]
  /\ job = [t \in Pool |-> job[t]]
  /\ \A t \in Pool : Shaped(job[t])

\* While enable() is in course the bridge is enabled.
EnabledInside == caller.at \in {"writers", "readers"} => enabled

\* A bridge that is off has its readers off.
ReadersOff == enabled \/ caller.at = "wait" \/ readerOn = {}

\* A thread that runs a task of a bridge that is off has not gone past the head of its loop.
LoopsWhenOff ==
  enabled \/ caller.at = "wait" \/ \A t \in Pool : job[t] = Idle \/ job[t].at = "loop"

RpcInv ==
  /\ RpcTypes /\ EnabledInside /\ ReadersOff /\ LoopsWhenOff
  /\ FlagMatchesTask /\ WaitingHasTask

-----------------------------------------------------------------------------
(* Tasks and their runners                                                 *)

\* The runners of a reader are finitely many.
LEMMA RunnersFinite ==
  ASSUME NEW r
  PROVE  IsFiniteSet(Runners(r)) /\ Cardinality(Runners(r)) \in Nat
<1>1. Runners(r) \subseteq Pool /\ IsFiniteSet(Pool)
  BY RpcAssumption DEF Runners, Busy
<1>2. QED
  BY <1>1, FS_Subset, FS_CardinalityType

\* A job has a reader and a place.
LEMMA HasReader ==
  ASSUME NEW j, Shaped(j), j # Idle
  PROVE  j.reader \in Readers /\ j.at # "idle"
BY DEF Shaped

\* Thread t goes on with the task it runs.
GoesOn(t) ==
  /\ job[t] # Idle /\ job'[t] # Idle
  /\ Shaped(job'[t])
  /\ job'[t].reader = job[t].reader
  /\ job' = [job EXCEPT ![t] = job'[t]]

\* A thread that goes on with its task leaves the runners of every reader as they are.
LEMMA SameRunners ==
  ASSUME RpcTypes, NEW t \in Pool, GoesOn(t), NEW r
  PROVE  Runners(r)' = Runners(r)
BY DEF RpcTypes, GoesOn, Runners, Busy

\* While a thread runs a task of a reader, the flag of the reader is up.
LEMMA RunnerIsRaised ==
  ASSUME RpcInv, NEW t \in Pool, job[t] # Idle
  PROVE  job[t].reader \in Readers /\ job[t].reader \in raised
<1> DEFINE r == job[t].reader
<1>1. r \in Readers
  BY HasReader DEF RpcInv, RpcTypes
<1>2. Runners(r) # {}
  BY DEF Runners, Busy
<1>3. Cardinality(Runners(r)) > 0
  BY <1>2, RunnersFinite, FS_EmptySet
<1>4. QED
  BY <1>1, <1>3, RunnersFinite DEF RpcInv, RpcTypes, FlagMatchesTask

\* A thread that goes on past the head of its loop, in a bridge that is on, or goes back
\* to it, keeps the invariant, whatever it takes from its reader.
LEMMA GoingOnKeeps ==
  ASSUME RpcInv, NEW t \in Pool, GoesOn(t),
         UNCHANGED <<enabled, caller, readerOn, raised, tasks>>,
         unread' = [r \in Readers |-> unread'[r]],
         \A r \in Readers \ {job[t].reader} : unread'[r] = unread[r],
         job'[t].at = "loop" \/ job[t].at # "loop" \/ enabled
  PROVE  RpcInv'
<1>1. RpcTypes'
  BY DEF RpcInv, RpcTypes, GoesOn
<1>2. EnabledInside' /\ ReadersOff'
  BY DEF RpcInv, EnabledInside, ReadersOff
<1>3. LoopsWhenOff'
  BY DEF RpcInv, RpcTypes, LoopsWhenOff, GoesOn
<1>4. FlagMatchesTask'
  <2>1. \A r \in Readers : Runners(r)' = Runners(r)
    BY SameRunners DEF RpcInv
  <2>2. QED
    BY <2>1 DEF RpcInv, FlagMatchesTask
<1>5. WaitingHasTask'
  BY RunnerIsRaised DEF RpcInv, RpcTypes, WaitingHasTask, GoesOn
<1>6. QED
  BY <1>1, <1>2, <1>3, <1>4, <1>5 DEF RpcInv

\* A step that leaves tasks, readers and jobs alone keeps the invariant, if it makes no
\* bridge of a disabled one but by enable() or disable().
LEMMA CallKeeps ==
  ASSUME RpcInv,
         UNCHANGED <<readerOn, raised, tasks, unread, job>>,
         enabled' \in BOOLEAN,
         caller' \in [at : {"idle", "writers", "readers", "wait"}, left : SUBSET Readers],
         caller'.at \in {"writers", "readers"} => enabled',
         enabled' \/ caller'.at = "wait" \/ (~enabled /\ caller.at # "wait"),
         enabled' => enabled \/ readerOn = {}
  PROVE  RpcInv'
<1>1. RpcTypes'
  BY DEF RpcInv, RpcTypes
<1>2. EnabledInside' /\ ReadersOff'
  BY DEF RpcInv, EnabledInside, ReadersOff
<1>3. LoopsWhenOff'
  BY DEF RpcInv, LoopsWhenOff
<1>4. FlagMatchesTask'
  BY DEF RpcInv, FlagMatchesTask, Runners, Busy
<1>5. WaitingHasTask'
  BY DEF RpcInv, WaitingHasTask
<1>6. QED
  BY <1>1, <1>2, <1>3, <1>4, <1>5 DEF RpcInv

\* A reader that announces data gets a task with its flag, or has one already.
LEMMA NotifyMatches ==
  ASSUME RpcInv, NEW r \in Readers, Notify(r), UNCHANGED job
  PROVE  /\ FlagMatchesTask'
         /\ raised' \subseteq Readers /\ tasks' \in [Readers -> Nat]
         /\ raised \subseteq raised'
         /\ enabled => r \in raised'
<1>1. \A s : Runners(s)' = Runners(s)
  BY DEF Runners, Busy
<1>2. \A s \in Readers : Cardinality(Runners(s)) \in Nat
  BY RunnersFinite
<1>3. raised' \subseteq Readers /\ tasks' \in [Readers -> Nat]
  BY DEF RpcInv, RpcTypes, Notify
<1>4. FlagMatchesTask'
  BY <1>1, <1>2 DEF RpcInv, RpcTypes, FlagMatchesTask, Notify, Emits
<1>5. QED
  BY <1>3, <1>4 DEF Notify

\* Data that arrives keeps the invariant.
LEMMA ArrivalKeeps ==
  ASSUME RpcInv, NEW r \in Readers, NEW item, Arrives(r, item),
         UNCHANGED <<enabled, caller, readerOn, job>>
  PROVE  RpcInv'
<1>1. /\ FlagMatchesTask'
      /\ raised' \subseteq Readers /\ tasks' \in [Readers -> Nat]
      /\ raised \subseteq raised'
      /\ r \in readerOn /\ enabled => r \in raised'
  <2>1. CASE r \in readerOn
    BY <2>1, NotifyMatches DEF Arrives
  <2>2. CASE r \notin readerOn
    <3>1. UNCHANGED <<raised, tasks, job>>
      BY <2>2 DEF Arrives, taskVars
    <3>2. QED
      BY <2>2, <3>1 DEF RpcInv, RpcTypes, FlagMatchesTask, Runners, Busy
  <2>3. QED
    BY <2>1, <2>2
<1>2. unread' = [unread EXCEPT ![r] = Append(@, item)]
  BY DEF Arrives
<1>3. RpcTypes'
  BY <1>1, <1>2 DEF RpcInv, RpcTypes
<1>4. EnabledInside' /\ ReadersOff' /\ LoopsWhenOff'
  BY DEF RpcInv, EnabledInside, ReadersOff, LoopsWhenOff
<1>5. WaitingHasTask'
  BY <1>1, <1>2 DEF RpcInv, RpcTypes, WaitingHasTask
<1>6. QED
  BY <1>1, <1>3, <1>4, <1>5 DEF RpcInv

-----------------------------------------------------------------------------
(* The steps of transmit_()                                                *)

USE DEF bridgeVars, endpointVars, taskVars, networkVars, historyVars, boundVars

\* A job at a place other than "idle" is that of a task.
LEMMA PlaceOfJob ==
  ASSUME RpcTypes, NEW t \in Pool, job[t].at # "idle"
  PROVE  job[t] # Idle /\ Shaped(job[t])
BY DEF RpcTypes, Idle

\* A job that keeps its reader and goes to another place is that of the same task.
LEMMA Moved ==
  ASSUME RpcTypes, NEW t \in Pool, job[t].at # "idle", NEW k,
         job' = [job EXCEPT ![t] = k],
         k = [x \in DOMAIN k |-> k[x]], {"at", "reader"} \subseteq DOMAIN k,
         k.at # "idle", k.reader = job[t].reader
  PROVE  GoesOn(t) /\ job'[t].at = k.at
<1>1. job'[t] = k
  BY DEF RpcTypes
<1>2. k # Idle
  BY DEF Idle
<1>3. job[t] # Idle /\ job[t].reader \in Readers
  BY PlaceOfJob, HasReader
<1>4. Shaped(k)
  BY <1>3 DEF Shaped
<1>5. QED
  BY <1>1, <1>2, <1>3, <1>4 DEF GoesOn

\* A thread that is past the head of its loop, and moves on there or back to it, keeps the
\* invariant.
LEMMA MovedKeeps ==
  ASSUME RpcInv, NEW t \in Pool, job[t].at \notin {"idle", "loop"}, NEW k,
         job' = [job EXCEPT ![t] = k],
         k = [x \in DOMAIN k |-> k[x]], {"at", "reader"} \subseteq DOMAIN k,
         k.at # "idle", k.reader = job[t].reader,
         UNCHANGED <<enabled, caller, readerOn, raised, tasks>>,
         unread' = [r \in Readers |-> unread'[r]],
         \A r \in Readers \ {job[t].reader} : unread'[r] = unread[r]
  PROVE  RpcInv'
<1>1. GoesOn(t)
  BY Moved DEF RpcInv
<1>2. QED
  BY <1>1, GoingOnKeeps

\* The record of a job that is somewhere has a place and a reader.
LEMMA JobRecord ==
  ASSUME RpcInv, NEW t \in Pool, job[t].at # "idle"
  PROVE  job[t] = [x \in DOMAIN job[t] |-> job[t][x]] /\ {"at", "reader"} \subseteq DOMAIN job[t]
BY PlaceOfJob DEF RpcInv, Shaped

\* Nothing is taken, and what waits is as it was.
LEMMA SameData ==
  ASSUME RpcInv, UNCHANGED unread, NEW s
  PROVE  /\ unread' = [r \in Readers |-> unread'[r]]
         /\ \A r \in Readers \ {s} : unread'[r] = unread[r]
BY DEF RpcInv, RpcTypes

\* A reply to somebody else, one without an entry, one written or failed, an entry
\* erased: the thread goes back to the head of its loop.
LEMMA AgainKeeps ==
  ASSUME RpcInv, NEW t \in Pool, Again(t), job[t].at \notin {"idle", "loop"},
         UNCHANGED <<enabled, caller, readerOn, raised, tasks, unread>>
  PROVE  RpcInv'
<1> DEFINE k == [at |-> "loop", reader |-> job[t].reader]
<1>1. job' = [job EXCEPT ![t] = k]
  BY DEF Again
<1>2. k = [x \in DOMAIN k |-> k[x]] /\ {"at", "reader"} \subseteq DOMAIN k
  OBVIOUS
<1>3. k.at # "idle" /\ k.reader = job[t].reader
  OBVIOUS
<1> HIDE DEF k
<1>4. QED
  BY <1>1, <1>2, <1>3, SameData, MovedKeeps

\* The loop over the registries goes on.
LEMMA BeyondKeeps ==
  ASSUME RpcInv, NEW t \in Pool, NEW p, Beyond(t, p), job[t].at \in {"route", "add"},
         UNCHANGED <<enabled, caller, readerOn, raised, tasks, unread>>
  PROVE  RpcInv'
<1> DEFINE k == [job[t] EXCEPT !.at = "route", !.left = {q \in job[t].left : q > p}]
<1>1. job' = [job EXCEPT ![t] = k]
  BY DEF Beyond, RpcInv, RpcTypes
<1>2. k = [x \in DOMAIN k |-> k[x]] /\ {"at", "reader"} \subseteq DOMAIN k
  BY JobRecord
<1>3. k.at # "idle" /\ k.reader = job[t].reader
  BY JobRecord
<1> HIDE DEF k
<1>4. QED
  BY <1>1, <1>2, <1>3, SameData, MovedKeeps

\* The write of a request.
LEMMA WriteKeeps ==
  ASSUME RpcInv, NEW t \in Pool, Write(t)
  PROVE  RpcInv'
<1> DEFINE p == Min(Routes(t))
           k1 == [job[t] EXCEPT !.at = "add", !.to = p, !.sent = sentSeq[p] + 1]
           k2 == [job[t] EXCEPT !.at = "add", !.to = p]
<1>1. job[t].at = "route" /\ UNCHANGED <<enabled, caller, readerOn, raised, tasks, unread>>
  BY DEF Write
<1>2. job' = [job EXCEPT ![t] = k1] \/ job' = [job EXCEPT ![t] = k2]
  BY DEF Write
<1>3. /\ k1 = [x \in DOMAIN k1 |-> k1[x]] /\ {"at", "reader"} \subseteq DOMAIN k1
      /\ k1.at # "idle" /\ k1.reader = job[t].reader
  BY <1>1, JobRecord
<1>4. /\ k2 = [x \in DOMAIN k2 |-> k2[x]] /\ {"at", "reader"} \subseteq DOMAIN k2
      /\ k2.at # "idle" /\ k2.reader = job[t].reader
  BY <1>1, JobRecord
<1> HIDE DEF k1, k2
<1>5. CASE job' = [job EXCEPT ![t] = k1]
  BY <1>1, <1>3, <1>5, SameData, MovedKeeps
<1>6. CASE job' = [job EXCEPT ![t] = k2]
  BY <1>1, <1>4, <1>6, SameData, MovedKeeps
<1>7. QED
  BY <1>2, <1>5, <1>6

\* A thread takes the data of its reader.
LEMMA TakeKeeps ==
  ASSUME RpcInv, NEW t \in Pool, Take(t)
  PROVE  RpcInv'
<1> DEFINE r == job[t].reader
           item == Head(unread[r])
           left == IF item.req \in IllFormed THEN {} ELSE Rtps
           k1 == [at |-> "route", reader |-> r, item |-> item, left |-> left,
                  to |-> 0, sent |-> 0]
           k2 == [at |-> "get", reader |-> r, item |-> item]
<1>1. /\ job[t].at = "take" /\ UNCHANGED <<enabled, caller, readerOn, raised, tasks>>
      /\ unread' = [unread EXCEPT ![r] = Tail(@)]
  BY DEF Take
<1>2. job' = [job EXCEPT ![t] = k1] \/ job' = [job EXCEPT ![t] = k2]
  BY DEF Take
<1>3. /\ unread' = [s \in Readers |-> unread'[s]]
      /\ \A s \in Readers \ {r} : unread'[s] = unread[s]
  BY <1>1 DEF RpcInv, RpcTypes
<1>4. /\ k1 = [x \in DOMAIN k1 |-> k1[x]] /\ {"at", "reader"} \subseteq DOMAIN k1
      /\ k1.at # "idle" /\ k1.reader = job[t].reader
  OBVIOUS
<1>5. /\ k2 = [x \in DOMAIN k2 |-> k2[x]] /\ {"at", "reader"} \subseteq DOMAIN k2
      /\ k2.at # "idle" /\ k2.reader = job[t].reader
  OBVIOUS
<1> HIDE DEF k1, k2
<1>6. CASE job' = [job EXCEPT ![t] = k1]
  BY <1>1, <1>3, <1>4, <1>6, MovedKeeps
<1>7. CASE job' = [job EXCEPT ![t] = k2]
  BY <1>1, <1>3, <1>5, <1>7, MovedKeeps
<1>8. QED
  BY <1>2, <1>6, <1>7

\* ServiceRegistry::get gives an entry, or none.
LEMMA GetKeeps ==
  ASSUME RpcInv, NEW t \in Pool, Get(t)
  PROVE  RpcInv'
<1>1. job[t].at = "get" /\ UNCHANGED <<enabled, caller, readerOn, raised, tasks, unread>>
  BY DEF Get
<1>2. CASE Again(t)
  BY <1>1, <1>2, AgainKeeps
<1>3. ASSUME NEW e,
             job' = [job EXCEPT ![t] = [at |-> "answer", reader |-> @.reader,
                                        item |-> @.item, client |-> e[2]]]
      PROVE  RpcInv'
  <2> DEFINE k == [at |-> "answer", reader |-> job[t].reader, item |-> job[t].item,
                   client |-> e[2]]
  <2>1. job' = [job EXCEPT ![t] = k]
    BY <1>3
  <2>2. /\ k = [x \in DOMAIN k |-> k[x]] /\ {"at", "reader"} \subseteq DOMAIN k
        /\ k.at # "idle" /\ k.reader = job[t].reader
    OBVIOUS
  <2> HIDE DEF k
  <2>3. QED
    BY <1>1, <2>1, <2>2, SameData, MovedKeeps
<1>4. QED
  BY <1>2, <1>3 DEF Get

\* The reply has been written.
LEMMA AnswerKeeps ==
  ASSUME RpcInv, NEW t \in Pool, Answer(t)
  PROVE  RpcInv'
<1> DEFINE k == [job[t] EXCEPT !.at = "erase"]
<1>1. job[t].at = "answer" /\ UNCHANGED <<enabled, caller, readerOn, raised, tasks, unread>>
  BY DEF Answer
<1>2. job' = [job EXCEPT ![t] = k]
  BY DEF Answer, Goto, RpcInv, RpcTypes
<1>3. /\ k = [x \in DOMAIN k |-> k[x]] /\ {"at", "reader"} \subseteq DOMAIN k
      /\ k.at # "idle" /\ k.reader = job[t].reader
  BY <1>1, JobRecord
<1> HIDE DEF k
<1>4. QED
  BY <1>1, <1>2, <1>3, SameData, MovedKeeps

\* A thread leaves the task of reader r when nothing is left in r, or the bridge is off,
\* and lowers the flag of r.
LEMMA LeavingKeeps ==
  ASSUME RpcInv, NEW t \in Pool, job[t] # Idle,
         ~enabled \/ unread[job[t].reader] = <<>>,
         job' = [job EXCEPT ![t] = Idle],
         raised' = raised \ {job[t].reader},
         UNCHANGED <<enabled, caller, readerOn, tasks, unread>>
  PROVE  RpcInv'
<1> PICK r : r = job[t].reader
  OBVIOUS
<1>1. r \in Readers /\ r \in raised
  BY RunnerIsRaised
<1>2. RpcTypes'
  <2>1. Shaped(Idle)
    BY DEF Shaped, Idle
  <2>2. QED
    BY <2>1 DEF RpcInv, RpcTypes
<1>3. EnabledInside' /\ ReadersOff' /\ LoopsWhenOff'
  BY DEF RpcInv, RpcTypes, EnabledInside, ReadersOff, LoopsWhenOff
<1>4. FlagMatchesTask'
  <2>1. Runners(r)' = Runners(r) \ {t} /\ t \in Runners(r)
    BY DEF RpcInv, RpcTypes, Runners, Busy
  <2>2. \A s \in Readers \ {r} : Runners(s)' = Runners(s)
    BY DEF RpcInv, RpcTypes, Runners, Busy
  <2>3. Cardinality(Runners(r)') = Cardinality(Runners(r)) - 1
    BY <2>1, RunnersFinite, FS_RemoveElement
  <2>4. r \notin raised' /\ \A s \in Readers \ {r} : s \in raised' <=> s \in raised
    OBVIOUS
  <2>5. tasks[r] + Cardinality(Runners(r)) = 1 /\ tasks[r] \in Nat
    BY <1>1 DEF RpcInv, RpcTypes, FlagMatchesTask
  <2>6. tasks'[r] + Cardinality(Runners(r)') = 0
    BY <2>3, <2>5, RunnersFinite
  <2>7. \A s \in Readers \ {r} :
          tasks'[s] + Cardinality(Runners(s)') = IF s \in raised' THEN 1 ELSE 0
    BY <2>2, <2>4 DEF RpcInv, FlagMatchesTask
  <2>8. QED
    BY <1>1, <2>4, <2>6, <2>7 DEF FlagMatchesTask
<1>5. WaitingHasTask'
  BY DEF RpcInv, WaitingHasTask
<1>6. QED
  BY <1>2, <1>3, <1>4, <1>5 DEF RpcInv

\* The head of the loop of transmit_().
LEMMA LoopKeeps ==
  ASSUME RpcInv, NEW t \in Pool, Loop(t)
  PROVE  RpcInv'
<1>1. job[t].at \in {"loop", "route"} /\ UNCHANGED <<enabled, caller, readerOn, tasks, unread>>
  BY DEF Loop, Routed
<1>2. job[t] # Idle
  BY <1>1 DEF Idle
<1>3. CASE enabled /\ unread[job[t].reader] # <<>>
  <2> DEFINE k == [job[t] EXCEPT !.at = "take"]
  <2>1. job' = [job EXCEPT ![t] = k] /\ UNCHANGED raised
    BY <1>3 DEF Loop, Goto, RpcInv, RpcTypes
  <2>2. /\ k = [x \in DOMAIN k |-> k[x]] /\ {"at", "reader"} \subseteq DOMAIN k
        /\ k.at # "idle" /\ k.reader = job[t].reader
    BY <1>1, JobRecord
  <2> HIDE DEF k
  <2>3. GoesOn(t)
    BY <1>1, <2>1, <2>2, Moved DEF RpcInv
  <2>4. QED
    BY <1>1, <1>3, <2>1, <2>3, SameData, GoingOnKeeps
<1>4. CASE ~(enabled /\ unread[job[t].reader] # <<>>)
  <2>1. job' = [job EXCEPT ![t] = Idle] /\ raised' = raised \ {job[t].reader}
    BY <1>4 DEF Loop
  <2>2. QED
    BY <1>1, <1>2, <1>4, <2>1, LeavingKeeps
<1>5. QED
  BY <1>3, <1>4

\* A thread of the pool starts a task that was queued.
LEMMA StartTaskKeeps ==
  ASSUME RpcInv, NEW t \in Pool, StartTask(t)
  PROVE  RpcInv'
<1>1. PICK r \in Readers :
        /\ tasks[r] > 0
        /\ tasks' = [tasks EXCEPT ![r] = @ - 1]
        /\ job' = [job EXCEPT ![t] = [at |-> "loop", reader |-> r]]
  BY DEF StartTask
<1>2. job[t] = Idle /\ UNCHANGED <<enabled, caller, readerOn, raised, unread>>
  BY DEF StartTask
<1> DEFINE k == [at |-> "loop", reader |-> r]
<1>3. Shaped(k) /\ k # Idle /\ k.at = "loop" /\ k.reader = r
  BY DEF Shaped, Idle
<1>4. job' = [job EXCEPT ![t] = k]
  BY <1>1
<1> HIDE DEF k
<1>5. RpcTypes'
  BY <1>1, <1>2, <1>3, <1>4 DEF RpcInv, RpcTypes
<1>6. EnabledInside' /\ ReadersOff' /\ LoopsWhenOff'
  BY <1>2, <1>3, <1>4 DEF RpcInv, RpcTypes, EnabledInside, ReadersOff, LoopsWhenOff
<1>7. FlagMatchesTask'
  <2>1. Runners(r)' = Runners(r) \cup {t} /\ t \notin Runners(r)
    BY <1>2, <1>3, <1>4 DEF RpcInv, RpcTypes, Runners, Busy
  <2>2. \A s \in Readers \ {r} : Runners(s)' = Runners(s)
    BY <1>2, <1>3, <1>4 DEF RpcInv, RpcTypes, Runners, Busy
  <2>3. Cardinality(Runners(r)') = Cardinality(Runners(r)) + 1
    BY <2>1, RunnersFinite, FS_AddElement
  <2>4. tasks'[r] + Cardinality(Runners(r)') = tasks[r] + Cardinality(Runners(r))
    BY <1>1, <2>3, RunnersFinite DEF RpcInv, RpcTypes
  <2>5. \A s \in Readers \ {r} : tasks'[s] = tasks[s]
    BY <1>1 DEF RpcInv, RpcTypes
  <2>6. QED
    BY <1>2, <2>2, <2>4, <2>5 DEF RpcInv, FlagMatchesTask
<1>8. WaitingHasTask'
  BY <1>2 DEF RpcInv, WaitingHasTask
<1>9. QED
  BY <1>5, <1>6, <1>7, <1>8 DEF RpcInv

\* A step of the pool keeps the invariant.
LEMMA PoolStepKeeps ==
  ASSUME RpcInv, NEW t \in Pool, PoolStep(t)
  PROVE  RpcInv'
<1>1. CASE StartTask(t)
  BY <1>1, StartTaskKeeps
<1>2. CASE Loop(t)
  BY <1>2, LoopKeeps
<1>3. CASE TakeNothing(t)
  <2>1. UNCHANGED <<enabled, caller, readerOn, raised, tasks, unread, job>>
    BY <1>3 DEF TakeNothing
  <2>2. QED
    BY <2>1 DEF RpcInv, RpcTypes, EnabledInside, ReadersOff, LoopsWhenOff,
               FlagMatchesTask, WaitingHasTask, Runners, Busy
<1>4. CASE Take(t)
  BY <1>4, TakeKeeps
<1>5. CASE Write(t)
  BY <1>5, WriteKeeps
<1>6. CASE WriteFails(t)
  BY <1>6, BeyondKeeps DEF WriteFails
<1>7. CASE Add(t)
  BY <1>7, BeyondKeeps DEF Add
<1>8. CASE IgnoreReply(t)
  BY <1>8, AgainKeeps DEF IgnoreReply
<1>9. CASE Get(t)
  BY <1>9, GetKeeps
<1>10. CASE Answer(t)
  BY <1>10, AnswerKeeps
<1>11. CASE AnswerFails(t)
  BY <1>11, AgainKeeps DEF AnswerFails
<1>12. CASE Erase(t)
  BY <1>12, AgainKeeps DEF Erase
<1>13. QED
  BY <1>1, <1>2, <1>3, <1>4, <1>5, <1>6, <1>7, <1>8, <1>9, <1>10, <1>11, <1>12 DEF PoolStep

-----------------------------------------------------------------------------
(* The calls of DdsPipe and the network                                    *)

\* BaseReader::enable announces what the reader kept.
LEMMA EnableReaderKeeps ==
  ASSUME RpcInv, EnableReader
  PROVE  RpcInv'
<1>1. PICK r \in caller.left :
        /\ readerOn' = readerOn \cup {r}
        /\ Notify(r)
        /\ caller' = [at |-> IF caller.left = {r} THEN "idle" ELSE "readers",
                      left |-> caller.left \ {r}]
  BY DEF EnableReader
<1>2. caller.at = "readers" /\ enabled /\ UNCHANGED <<enabled, unread, job>>
  BY DEF EnableReader, RpcInv, EnabledInside
<1>3. r \in Readers
  BY DEF RpcInv, RpcTypes
<1>4. /\ FlagMatchesTask'
      /\ raised' \subseteq Readers /\ tasks' \in [Readers -> Nat]
      /\ raised \subseteq raised' /\ r \in raised'
  BY <1>1, <1>2, <1>3, NotifyMatches
<1>5. RpcTypes'
  BY <1>1, <1>2, <1>3, <1>4 DEF RpcInv, RpcTypes
<1>6. EnabledInside' /\ ReadersOff' /\ LoopsWhenOff'
  BY <1>2 DEF EnabledInside, ReadersOff, LoopsWhenOff
<1>7. WaitingHasTask'
  BY <1>1, <1>2, <1>4 DEF RpcInv, WaitingHasTask
<1>8. QED
  BY <1>4, <1>5, <1>6, <1>7 DEF RpcInv

\* disable() goes on when no thread transmits.
LEMMA DisableRestKeeps ==
  ASSUME RpcInv, DisableRest
  PROVE  RpcInv'
<1>1. /\ caller.at = "wait" /\ Busy = {} /\ readerOn' = {}
      /\ caller' = [caller EXCEPT !.at = "idle"]
      /\ UNCHANGED <<enabled, raised, tasks, unread, job>>
  BY DEF DisableRest
<1>2. RpcTypes'
  BY <1>1 DEF RpcInv, RpcTypes
<1>3. EnabledInside' /\ ReadersOff' /\ WaitingHasTask'
  BY <1>1 DEF RpcInv, RpcTypes, EnabledInside, ReadersOff, WaitingHasTask
<1>4. LoopsWhenOff'
  BY <1>1 DEF LoopsWhenOff, Busy
<1>5. FlagMatchesTask'
  BY <1>1 DEF RpcInv, FlagMatchesTask, Runners, Busy
<1>6. QED
  BY <1>2, <1>3, <1>4, <1>5 DEF RpcInv

\* The other calls of DdsPipe leave tasks and readers alone.
LEMMA CallsKeep ==
  ASSUME RpcInv,
         \/ EnableStart \/ InitFails \/ Disable \/ EnableWriters
         \/ \E p \in Participants, s \in Servers : Discovered(p, s) \/ Removed(p, s)
  PROVE  RpcInv'
<1>0. /\ enabled \in BOOLEAN
      /\ caller \in [at : {"idle", "writers", "readers", "wait"}, left : SUBSET Readers]
      /\ caller.at \in {"writers", "readers"} => enabled
      /\ ReadersOff
  BY DEF RpcInv, RpcTypes, EnabledInside
<1>1. CASE EnableStart
  <2>1. /\ ~enabled /\ caller.at = "idle" /\ enabled' = TRUE
        /\ caller' = [at |-> "writers", left |-> Readers]
        /\ UNCHANGED <<readerOn, raised, tasks, unread, job>>
    BY <1>1 DEF EnableStart, MayCall
  <2>2. readerOn = {}
    BY <1>0, <2>1 DEF ReadersOff
  <2>3. QED
    BY <2>1, <2>2, CallKeeps
<1>2. CASE InitFails \/ \E p \in Participants, s \in Servers : Discovered(p, s)
  <2>1. UNCHANGED <<enabled, caller, readerOn, raised, tasks, unread, job>>
    BY <1>2 DEF InitFails, Discovered
  <2>2. QED
    BY <2>1 DEF RpcInv, RpcTypes, EnabledInside, ReadersOff, LoopsWhenOff,
               FlagMatchesTask, WaitingHasTask, Runners, Busy
<1>3. ASSUME caller.at = "idle", enabled, Stop,
             UNCHANGED <<readerOn, raised, tasks, unread, job>>
      PROVE  RpcInv'
  <2>1. enabled' = FALSE /\ caller'.at = "wait"
        /\ caller' \in [at : {"idle", "writers", "readers", "wait"}, left : SUBSET Readers]
    BY <1>0, <1>3 DEF Stop
  <2>2. QED
    BY <1>3, <2>1, CallKeeps
<1>4. CASE Disable
  BY <1>3, <1>4 DEF Disable, MayCall
<1>5. CASE EnableWriters
  <2>1. /\ caller.at = "writers" /\ enabled /\ caller'.at = "readers"
        /\ caller' \in [at : {"idle", "writers", "readers", "wait"}, left : SUBSET Readers]
        /\ UNCHANGED <<enabled, readerOn, raised, tasks, unread, job>>
    BY <1>0, <1>5 DEF EnableWriters
  <2>2. QED
    BY <1>0, <2>1, CallKeeps
<1>6. ASSUME NEW p \in Participants, NEW s \in Servers, Removed(p, s)
      PROVE  RpcInv'
  <2>1. caller.at = "idle" /\ UNCHANGED <<readerOn, raised, tasks, unread, job>>
    BY <1>6 DEF Removed, MayCall
  <2>2. CASE enabled /\ Stop
    BY <1>3, <2>1, <2>2
  <2>3. CASE UNCHANGED <<enabled, caller>>
    BY <2>1, <2>3 DEF RpcInv, RpcTypes, EnabledInside, ReadersOff, LoopsWhenOff,
                      FlagMatchesTask, WaitingHasTask, Runners, Busy
  <2>4. QED
    BY <1>6, <2>2, <2>3 DEF Removed
<1>7. QED
  BY <1>1, <1>2, <1>4, <1>5, <1>6

\* A request or a reply reaches a reader.
LEMMA NetworkKeeps ==
  ASSUME RpcInv,
         \/ \E q \in Requests : ClientSends(q)
         \/ \E s \in Servers, c \in copies, p \in Rtps : ServerReplies(s, c, p)
  PROVE  RpcInv'
<1>1. ASSUME NEW q \in Requests, ClientSends(q)
      PROVE  RpcInv'
  <2>1. <<"request", ClientAt[q]>> \in Readers
    BY RpcAssumption DEF Readers
  <2>2. QED
    BY <1>1, <2>1, ArrivalKeeps DEF ClientSends
<1>2. ASSUME NEW s \in Servers, NEW c, NEW p \in Rtps, ServerReplies(s, c, p)
      PROVE  RpcInv'
  <2>1. <<"reply", p>> \in Readers
    BY DEF Readers
  <2>2. QED
    BY <1>2, <2>1, ArrivalKeeps DEF ServerReplies
<1>3. QED
  BY <1>1, <1>2

-----------------------------------------------------------------------------

LEMMA RpcInitially == Init => RpcInv
<1> SUFFICES ASSUME Init PROVE RpcInv
  OBVIOUS
<1>1. RpcTypes
  BY DEF Init, RpcTypes, Shaped, Idle
<1>2. EnabledInside /\ ReadersOff /\ LoopsWhenOff /\ WaitingHasTask
  BY DEF Init, EnabledInside, ReadersOff, LoopsWhenOff, WaitingHasTask
<1>3. FlagMatchesTask
  <2>1. \A r \in Readers : Runners(r) = {}
    BY DEF Init, Runners, Busy
  <2>2. QED
    BY <2>1, RunnersFinite, FS_EmptySet DEF Init, FlagMatchesTask
<1>4. QED
  BY <1>1, <1>2, <1>3 DEF RpcInv

LEMMA RpcStep == RpcInv /\ [Next]_vars => RpcInv'
<1> SUFFICES ASSUME RpcInv, [Next]_vars PROVE RpcInv'
  OBVIOUS
<1>1. CASE UNCHANGED vars
  BY <1>1 DEF vars, RpcInv, RpcTypes, EnabledInside, ReadersOff, LoopsWhenOff,
              FlagMatchesTask, WaitingHasTask, Runners, Busy
<1>2. CASE Next
  BY <1>2, CallsKeep, EnableReaderKeeps, DisableRestKeeps, NetworkKeeps, PoolStepKeeps
     DEF Next, Step, CallStep
<1>3. QED
  BY <1>1, <1>2

THEOREM RpcInvariant == Spec => []RpcInv
BY RpcInitially, RpcStep, PTL DEF Spec

\* tasks_map_ says of each reader whether a task of it is queued or running, and there is
\* never more than one: no two threads run transmit_() for one reader.
THEOREM FlagCorrect == Spec => []FlagMatchesTask
BY RpcInvariant, PTL DEF RpcInv

\* Data in an enabled reader of an enabled bridge always has a task that will see it.
THEOREM WaitingCorrect == Spec => []WaitingHasTask
BY RpcInvariant, PTL DEF RpcInv

\* Once disable() has returned nothing is taken or written until enable().
THEOREM RpcQuietCorrect == Spec => []QuietWhenOff
<1>1. RpcInv => QuietWhenOff
  BY DEF RpcInv, LoopsWhenOff, QuietWhenOff, Busy
<1>2. QED
  BY <1>1, RpcInvariant, PTL

-----------------------------------------------------------------------------
(* Requests and replies: what the bridge has written, what it remembers of   *)
(* it, and what a thread carries.                                            *)

RequestReaders == {r \in Readers : Kind(r) = "request"}
ReplyReaders == {r \in Readers : Kind(r) = "reply"}
Items(r) == IF Kind(r) = "request" THEN [req : Requests] ELSE Replies

\* What a thread of the pool may carry at each place.  The request it has routed is with it
\* until it takes the next.
RoutingJobs ==
  [at : {"route", "add", "take"}, reader : RequestReaders, item : [req : Requests],
   left : SUBSET Rtps, to : Rtps \cup {0}, sent : Nat]
GetJobs == [at : {"get"}, reader : ReplyReaders, item : Replies]
ReplyingJobs ==
  [at : {"answer", "erase"}, reader : ReplyReaders, item : Replies, client : Requests]
Jobs == {Idle} \cup [at : {"loop", "take"}, reader : Readers]
          \cup RoutingJobs \cup GetJobs \cup ReplyingJobs

DataTypes ==
  /\ job \in [Pool -> Jobs]
  /\ \A r \in Readers : unread[r] \in Seq(Items(r))
  /\ entries \in [Rtps -> SUBSET (Nat \X Requests)]
  /\ sentSeq \in [Rtps -> Nat]
  /\ copies \subseteq Replies
  /\ answered \in [Rtps \X Requests \X Requests -> Nat]
  /\ missed \subseteq Rtps \X Requests

\* A task that is about to take has something to take.
TakesWhatIsThere ==
  \A t \in Pool : job[t].at = "take" => unread[job[t].reader] # <<>>

Copy(p, n, q) == [via |-> p, seq |-> n, req |-> q]

\* The threads that have written a request through participant p and have its number
\* still to register, and those that deal with a reply from there.
Adding(t, p, n, q) ==
  job[t].at = "add" /\ job[t].to = p /\ job[t].sent = n /\ job[t].item.req = q
Replying(t, p) == job[t].at \in {"answer", "erase"} /\ At(job[t].reader) = p

\* A writer numbers what it writes.
Numbered ==
  /\ \A c \in copies : c.seq <= sentSeq[c.via]
  /\ \A c, d \in copies : c.via = d.via /\ c.seq = d.seq => c = d

\* What came back was sent.
RepliesAreToCopies ==
  /\ \A r \in ReplyReaders : \A i \in 1..Len(unread[r]) : unread[r][i] \in copies
  /\ \A t \in Pool : job[t].at \in {"get", "answer", "erase"} => job[t].item \in copies

\* What is registered, or about to be, was sent, by a writer without limit.
RegisteredWasSent ==
  /\ \A p \in Rtps \ Limited : \A e \in entries[p] : Copy(p, e[1], e[2]) \in copies
  /\ \A t \in Pool : job[t].at = "add" =>
       /\ job[t].to \in Rtps
       /\ job[t].to \notin Limited => Copy(job[t].to, job[t].sent, job[t].item.req) \in copies

\* A reply is for the client whose request it answers, and it is written before its entry
\* is erased.
ReplyHasClient ==
  \A t \in Pool : \A p \in Rtps : Replying(t, p) =>
    /\ job[t].item.via = p
    /\ p \notin Limited => job[t].client = job[t].item.req
    /\ job[t].at = "erase" => \/ answered[<<p, job[t].client, job[t].item.req>>] > 0
                              \/ ClientAt[job[t].client] \in Limited

\* A copy is registered, or about to be, or there is a reason why it is not.
Remembered ==
  \A c \in copies : c.via \notin Limited =>
    \/ <<c.seq, c.req>> \in entries[c.via]
    \/ \E t \in Pool : Adding(t, c.via, c.seq, c.req)
    \/ <<c.via, c.req>> \in evicted
    \/ answered[<<c.via, c.req, c.req>>] > 0
    \/ ClientAt[c.req] \in Limited

LogInv ==
  /\ DataTypes /\ Numbered /\ RepliesAreToCopies /\ RegisteredWasSent
  /\ ReplyHasClient /\ Remembered /\ RepliesFindTheirRequest

-----------------------------------------------------------------------------
(* Facts about the data *)

Less == {xy \in Nat \X Nat : xy[1] < xy[2]}

LEMMA LeastOfNat ==
  ASSUME NEW S \in SUBSET Nat, S # {}
  PROVE  \E x \in S : \A y \in S : x <= y
<1>1. IsWellFoundedOn(Less, Nat)
  BY NatLessThanWellFounded, Zenon DEF OpToRel, Less
<1>2. \E x \in S : \A y \in S : ~ (<<y, x>> \in Less)
  BY <1>1, WFMin
<1>3. \A x, y \in Nat : ~(<<y, x>> \in Less) => x <= y
  BY DEF Less
<1>4. QED
  BY <1>2, <1>3

\* What is left of a sequence, and what it becomes.
LEMMA TailOf ==
  ASSUME NEW S, NEW s \in Seq(S), s # <<>>
  PROVE  /\ Head(s) = s[1] /\ Head(s) \in S /\ 1 \in 1..Len(s)
         /\ Tail(s) \in Seq(S) /\ Len(Tail(s)) = Len(s) - 1
         /\ \A i \in 1..Len(Tail(s)) : i + 1 \in 1..Len(s) /\ Tail(s)[i] = s[i + 1]
OBVIOUS

LEMMA AppendOf ==
  ASSUME NEW S, NEW s \in Seq(S), NEW x \in S
  PROVE  /\ Append(s, x) \in Seq(S) /\ Append(s, x) # <<>>
         /\ Len(Append(s, x)) = Len(s) + 1 /\ Len(s) \in Nat
         /\ \A i \in 1..Len(s) : Append(s, x)[i] = s[i]
         /\ Append(s, x)[Len(s) + 1] = x
OBVIOUS

\* What a thread carries, by its place.
LEMMA JobAt ==
  ASSUME DataTypes, NEW t \in Pool
  PROVE  /\ job[t].at \in {"route", "add"} => job[t] \in RoutingJobs
         /\ job[t].at = "get" => job[t] \in GetJobs
         /\ job[t].at \in {"answer", "erase"} => job[t] \in ReplyingJobs
         /\ job[t] = Idle \/ job[t].reader \in Readers
BY DEF DataTypes, Jobs, Idle, RoutingJobs, GetJobs, ReplyingJobs, RequestReaders, ReplyReaders

LEMMA JobAtLoop ==
  ASSUME DataTypes, NEW t \in Pool, job[t].at = "loop"
  PROVE  job[t] \in [at : {"loop", "take"}, reader : Readers]
<1>1. job[t] \in Jobs
  BY DEF DataTypes
<1>2. job[t] # Idle /\ job[t] \notin RoutingJobs /\ job[t] \notin GetJobs
      /\ job[t] \notin ReplyingJobs
  BY DEF Idle, RoutingJobs, GetJobs, ReplyingJobs
<1>3. QED
  BY <1>1, <1>2 DEF Jobs

LEMMA ReaderAt == ASSUME NEW r \in Readers PROVE At(r) \in Rtps
BY DEF Readers, At

\* The registry that comes next in the loop over service_registries_.
LEMMA NextRoute ==
  ASSUME DataTypes, NEW t \in Pool, job[t].at = "route", Routes(t) # {}
  PROVE  /\ Min(Routes(t)) \in job[t].left
         /\ Min(Routes(t)) \in Rtps
         /\ Min(Routes(t)) \in Nat
         /\ \A q \in Routes(t) : Min(Routes(t)) <= q
<1>1. job[t].left \subseteq Rtps
  BY JobAt DEF RoutingJobs
<1>2. Routes(t) \subseteq Nat /\ Routes(t) \subseteq job[t].left
  BY <1>1, RpcAssumption DEF Routes
<1>3. Min(Routes(t)) \in Routes(t) /\ \A q \in Routes(t) : Min(Routes(t)) <= q
  BY <1>2, LeastOfNat DEF Min
<1>4. QED
  BY <1>1, <1>2, <1>3

LEMMA OldestIsEntry ==
  ASSUME NEW es \in SUBSET (Nat \X Requests), es # {}
  PROVE  Oldest(es) \in es
<1>1. PICK n \in {e[1] : e \in es} : \A m \in {e[1] : e \in es} : n <= m
  <2>1. {e[1] : e \in es} \in SUBSET Nat /\ {e[1] : e \in es} # {}
    OBVIOUS
  <2>2. QED
    BY <2>1, LeastOfNat
<1>2. \E e \in es : \A f \in es : e[1] <= f[1]
  BY <1>1
<1>3. QED
  BY <1>2 DEF Oldest

-----------------------------------------------------------------------------
(* One runner each *)

\* No two threads run tasks of one reader.
LEMMA OneRunner ==
  ASSUME RpcInv, NEW t \in Pool, NEW u \in Pool, job[t] # Idle, job[u] # Idle,
         job[t].reader = job[u].reader
  PROVE  t = u
<1> SUFFICES ASSUME t # u PROVE FALSE
  OBVIOUS
<1> DEFINE r == job[t].reader
<1>1. r \in Readers /\ r \in raised
  BY RunnerIsRaised
<1>2. {t, u} \subseteq Runners(r)
  BY DEF Runners, Busy
<1>3. IsFiniteSet(Runners(r)) /\ Cardinality(Runners(r)) \in Nat
  BY RunnersFinite
<1>4. Cardinality({t, u}) <= Cardinality(Runners(r))
  BY <1>2, <1>3, FS_Subset
<1>5. Cardinality({t, u}) = 2
  <2>1. IsFiniteSet({t}) /\ Cardinality({t}) = 1
    BY FS_Singleton
  <2>2. {t} \cup {u} = {t, u} /\ u \notin {t}
    OBVIOUS
  <2>3. Cardinality({t} \cup {u}) = Cardinality({t}) + 1
    BY <2>1, <2>2, FS_AddElement, Zenon
  <2> QED
    BY <2>1, <2>2, <2>3
<1>6. tasks[r] \in Nat /\ tasks[r] + Cardinality(Runners(r)) = 1
  BY <1>1 DEF RpcInv, RpcTypes, FlagMatchesTask
<1> QED
  BY <1>3, <1>4, <1>5, <1>6

-----------------------------------------------------------------------------
(* Replies find their requests *)

LEMMA LogStart == Init => LogInv /\ TakesWhatIsThere
<1> SUFFICES ASSUME Init PROVE LogInv /\ TakesWhatIsThere
  OBVIOUS
<1>1. copies = {} /\ missed = {} /\ \A t \in Pool : job[t] = Idle
  BY DEF Init
<1>2. \A r \in Readers : unread[r] = <<>>
  BY DEF Init
<1>3. \A S : <<>> \in Seq(S)
  OBVIOUS
<1>4. DataTypes
  <2>1. job \in [Pool -> Jobs]
    BY DEF Init, Jobs
  <2>2. /\ entries \in [Rtps -> SUBSET (Nat \X Requests)]
        /\ sentSeq \in [Rtps -> Nat]
        /\ answered \in [Rtps \X Requests \X Requests -> Nat]
    BY DEF Init
  <2>3. \A r \in Readers : unread[r] \in Seq(Items(r))
    BY <1>2, <1>3
  <2>4. QED
    BY <1>1, <2>1, <2>2, <2>3 DEF DataTypes
<1>5. RepliesAreToCopies
  BY <1>1, <1>2 DEF RepliesAreToCopies, ReplyReaders, Idle
<1>6. RegisteredWasSent /\ ReplyHasClient /\ TakesWhatIsThere
  BY <1>1 DEF Init, RegisteredWasSent, ReplyHasClient, Replying, Idle, TakesWhatIsThere
<1>7. QED
  BY <1>1, <1>4, <1>5, <1>6 DEF LogInv, Numbered, Remembered, RepliesFindTheirRequest

\* A step that leaves what was written and what is remembered alone, in which threads
\* carry what they did, or nothing to register or to write.
LEMMA LogBack ==
  ASSUME LogInv, NEW t \in Pool, job[t].at # "add", NEW k \in Jobs,
         k.at \in {"idle", "loop", "take", "route", "get"},
         k.at = "get" => k.item \in copies,
         job' = [job EXCEPT ![t] = k],
         \A r \in Readers : unread'[r] \in Seq(Items(r)),
         \A r \in ReplyReaders : \A i \in 1..Len(unread'[r]) : unread'[r][i] \in copies,
         UNCHANGED <<entries, copies, sentSeq, historyVars>>
  PROVE  LogInv'
<1> USE DEF LogInv, historyVars
<1>1. job' \in [Pool -> Jobs] /\ job'[t] = k /\ \A u \in Pool \ {t} : job'[u] = job[u]
  BY DEF DataTypes
<1>2. DataTypes' /\ Numbered' /\ RepliesFindTheirRequest'
  BY <1>1 DEF DataTypes, Numbered, RepliesFindTheirRequest
<1>3. RepliesAreToCopies' /\ RegisteredWasSent' /\ ReplyHasClient'
  BY <1>1 DEF RepliesAreToCopies, RegisteredWasSent, ReplyHasClient, Replying
<1>4. Remembered'
  BY <1>1 DEF Remembered, Adding
<1>5. QED
  BY <1>2, <1>3, <1>4

\* The same when no thread moves.
LEMMA LogStays ==
  ASSUME LogInv,
         \A r \in Readers : unread'[r] \in Seq(Items(r)),
         \A r \in ReplyReaders : \A i \in 1..Len(unread'[r]) : unread'[r][i] \in copies,
         UNCHANGED <<job, entries, copies, sentSeq, historyVars>>
  PROVE  LogInv'
BY DEF LogInv, historyVars, DataTypes, Numbered, RepliesAreToCopies, RegisteredWasSent,
       ReplyHasClient, Replying, Remembered, Adding, RepliesFindTheirRequest

LEMMA UnreadNow ==
  ASSUME LogInv
  PROVE  /\ \A r \in Readers : unread[r] \in Seq(Items(r))
         /\ \A r \in ReplyReaders : \A i \in 1..Len(unread[r]) : unread[r][i] \in copies
BY DEF LogInv, DataTypes, RepliesAreToCopies

\* Data that arrives is a request, or a reply to something that was sent.
LEMMA LogArrival ==
  ASSUME LogInv, RpcTypes, NEW r \in Readers, NEW item \in Items(r),
         unread' = [unread EXCEPT ![r] = Append(@, item)],
         r \in ReplyReaders => item \in copies,
         UNCHANGED <<job, entries, copies, sentSeq, historyVars>>
  PROVE  LogInv'
<1>1. \A s \in Readers : unread'[s] = IF s = r THEN Append(unread[s], item) ELSE unread[s]
  BY DEF RpcTypes
<1>2. Append(unread[r], item) \in Seq(Items(r))
  BY UnreadNow, AppendOf
<1>3. ASSUME r \in ReplyReaders, NEW i \in 1..Len(Append(unread[r], item))
      PROVE  Append(unread[r], item)[i] \in copies
  <2>1. /\ Len(Append(unread[r], item)) = Len(unread[r]) + 1 /\ Len(unread[r]) \in Nat
        /\ \A j \in 1..Len(unread[r]) : Append(unread[r], item)[j] = unread[r][j]
        /\ Append(unread[r], item)[Len(unread[r]) + 1] = item
    BY UnreadNow, AppendOf
  <2>2. i \in 1..Len(unread[r]) \/ i = Len(unread[r]) + 1
    BY <2>1
  <2> QED
    BY <1>3, <2>1, <2>2, UnreadNow
<1>4. \A s \in Readers : unread'[s] \in Seq(Items(s))
  BY <1>1, <1>2, UnreadNow
<1>5. \A s \in ReplyReaders : \A i \in 1..Len(unread'[s]) : unread'[s][i] \in copies
  BY <1>1, <1>3, UnreadNow DEF ReplyReaders
<1> QED
  BY <1>4, <1>5, LogStays

\* What is taken is taken from the front.
LEMMA LogTake ==
  ASSUME LogInv, RpcTypes, TakesWhatIsThere, NEW t \in Pool, Take(t)
  PROVE  LogInv'
<1> DEFINE r == job[t].reader
           item == Head(unread[r])
           left == IF item.req \in IllFormed THEN {} ELSE Rtps
           k1 == [at |-> "route", reader |-> r, item |-> item, left |-> left,
                  to |-> 0, sent |-> 0]
           k2 == [at |-> "get", reader |-> r, item |-> item]
           k == IF Kind(r) = "request" THEN k1 ELSE k2
<1>1. /\ job[t].at = "take"
      /\ unread' = [unread EXCEPT ![r] = Tail(@)]
      /\ job' = [job EXCEPT ![t] = k]
      /\ UNCHANGED <<entries, copies, sentSeq, historyVars>>
  BY DEF Take, networkVars
<1>2. r \in Readers /\ unread[r] # <<>> /\ unread[r] \in Seq(Items(r))
  BY <1>1, JobAt, UnreadNow DEF TakesWhatIsThere, Idle, LogInv
<1>3. /\ item = unread[r][1] /\ item \in Items(r) /\ 1 \in 1..Len(unread[r])
      /\ Tail(unread[r]) \in Seq(Items(r))
      /\ \A i \in 1..Len(Tail(unread[r])) :
           i + 1 \in 1..Len(unread[r]) /\ Tail(unread[r])[i] = unread[r][i + 1]
  BY <1>2, TailOf
<1>4. r \in ReplyReaders => item \in copies
  BY <1>3, UnreadNow
<1>5. k \in Jobs /\ k.at \in {"route", "get"} /\ (k.at = "get" => k.item \in copies)
  <2>1. CASE Kind(r) = "request"
    <3>1. r \in RequestReaders /\ item \in [req : Requests]
      BY <1>2, <1>3, <2>1 DEF RequestReaders, Items
    <3>2. k1 \in RoutingJobs
      BY <3>1 DEF RoutingJobs
    <3>3. k = k1 /\ k1.at = "route"
      BY <2>1
    <3> QED
      BY <3>2, <3>3 DEF Jobs
  <2>2. CASE Kind(r) # "request"
    <3>1. r \in ReplyReaders /\ item \in Replies
      BY <1>2, <1>3, <2>2 DEF ReplyReaders, Items, Readers, Kind
    <3>2. k2 \in GetJobs
      BY <3>1 DEF GetJobs
    <3>3. k = k2 /\ k2.at = "get" /\ k2.item = item
      BY <2>2
    <3> QED
      BY <1>4, <3>1, <3>2, <3>3 DEF Jobs
  <2> QED
    BY <2>1, <2>2
<1> HIDE DEF k
<1>6. \A s \in Readers : unread'[s] = IF s = r THEN Tail(unread[s]) ELSE unread[s]
  BY <1>1 DEF RpcTypes
<1>7. \A s \in Readers : unread'[s] \in Seq(Items(s))
  BY <1>3, <1>6, UnreadNow
<1>8. \A s \in ReplyReaders : \A i \in 1..Len(unread'[s]) : unread'[s][i] \in copies
  <2> SUFFICES ASSUME NEW s \in ReplyReaders, NEW i \in 1..Len(unread'[s])
               PROVE  unread'[s][i] \in copies
    OBVIOUS
  <2>1. s \in Readers
    BY DEF ReplyReaders
  <2>2. CASE s = r
    <3>1. i \in 1..Len(Tail(unread[r])) /\ unread'[s] = Tail(unread[r])
      BY <1>6, <2>1, <2>2
    <3>2. i + 1 \in 1..Len(unread[r]) /\ unread'[s][i] = unread[r][i + 1]
      BY <1>3, <3>1
    <3> QED
      BY <2>2, <3>2, UnreadNow
  <2>3. CASE s # r
    BY <1>6, <2>1, <2>3, UnreadNow
  <2> QED
    BY <2>2, <2>3
<1> QED
  BY <1>1, <1>5, <1>7, <1>8, LogBack

\* A request that is written gets the next number of its writer, unless a limited writer
\* drops it.
LEMMA LogWrite ==
  ASSUME LogInv, NEW t \in Pool, Write(t)
  PROVE  LogInv'
<1> USE DEF LogInv, historyVars
<1> DEFINE p == Min(Routes(t))
           n == sentSeq[p] + 1
           q == job[t].item.req
<1>1. job[t].at = "route" /\ job[t] \in RoutingJobs /\ p \in Rtps /\ q \in Requests
  BY NextRoute, JobAt DEF Write, RoutingJobs
<1>2. n \in Nat /\ sentSeq[p] \in Nat
  BY <1>1 DEF DataTypes
<1> HIDE DEF p
<1>3. UNCHANGED <<unread, entries, historyVars>>
  BY DEF Write
<1>4. CASE /\ sentSeq' = [sentSeq EXCEPT ![p] = n]
           /\ copies' = copies \cup {Copy(p, n, q)}
           /\ job' = [job EXCEPT ![t] = [@ EXCEPT !.at = "add", !.to = p, !.sent = n]]
  <2> DEFINE k == [job[t] EXCEPT !.at = "add", !.to = p, !.sent = n]
  <2>1. k \in RoutingJobs /\ k.at = "add" /\ k.to = p /\ k.sent = n /\ k.item.req = q
    BY <1>1, <1>2 DEF RoutingJobs
  <2> HIDE DEF k
  <2>2. job' \in [Pool -> Jobs] /\ job'[t] = k /\ \A u \in Pool \ {t} : job'[u] = job[u]
    BY <1>4, <2>1 DEF DataTypes, Jobs, k
  <2>3. Copy(p, n, q) \in Replies
    BY <1>1, <1>2 DEF Copy, Replies
  <2>4. /\ sentSeq' \in [Rtps -> Nat] /\ sentSeq'[p] = n
        /\ \A x \in Rtps : sentSeq[x] \in Nat /\ sentSeq[x] <= sentSeq'[x]
    BY <1>1, <1>2, <1>4 DEF DataTypes
  <2>5. DataTypes'
    BY <1>3, <1>4, <2>2, <2>3, <2>4 DEF DataTypes
  <2>6. Numbered'
    <3>1. \A c \in copies : c.via \in Rtps /\ c.seq \in Nat
      BY DEF DataTypes, Replies
    <3>2. \A c \in copies : c.seq <= sentSeq'[c.via]
      BY <2>4, <3>1 DEF Numbered
    <3>3. \A c \in copies : c.via = p => c.seq # n
      BY <1>2, <3>1 DEF Numbered
    <3>4. Copy(p, n, q).via = p /\ Copy(p, n, q).seq = n
      BY DEF Copy
    <3> QED
      BY <1>2, <1>4, <2>4, <3>2, <3>3, <3>4 DEF Numbered
  <2>7. RepliesAreToCopies'
    BY <1>3, <1>4, <2>1, <2>2 DEF RepliesAreToCopies
  <2>8. RegisteredWasSent'
    BY <1>1, <1>3, <1>4, <2>1, <2>2 DEF RegisteredWasSent
  <2>9. ReplyHasClient' /\ RepliesFindTheirRequest'
    BY <1>3, <2>1, <2>2 DEF ReplyHasClient, Replying, RepliesFindTheirRequest
  <2>10. ASSUME NEW c \in copies', c.via \notin Limited
         PROVE  \/ <<c.seq, c.req>> \in entries'[c.via]
                \/ \E u \in Pool : Adding(u, c.via, c.seq, c.req)'
                \/ <<c.via, c.req>> \in evicted'
                \/ answered'[<<c.via, c.req, c.req>>] > 0
                \/ ClientAt[c.req] \in Limited
    <3>1. CASE c \in copies
      BY <1>1, <1>3, <2>2, <2>10, <3>1 DEF Remembered, Adding
    <3>2. CASE c = Copy(p, n, q)
      BY <2>1, <2>2, <3>2 DEF Adding, Copy
    <3> QED
      BY <1>4, <3>1, <3>2
  <2>11. Remembered'
    BY <2>10 DEF Remembered
  <2> QED
    BY <2>5, <2>6, <2>7, <2>8, <2>9, <2>11
<1>5. CASE /\ p \in Limited
           /\ job' = [job EXCEPT ![t] = [@ EXCEPT !.at = "add", !.to = p]]
           /\ UNCHANGED <<sentSeq, copies>>
  <2> DEFINE k == [job[t] EXCEPT !.at = "add", !.to = p]
  <2>1. k \in RoutingJobs /\ k.at = "add" /\ k.to = p
    BY <1>1 DEF RoutingJobs
  <2> HIDE DEF k
  <2>2. job' \in [Pool -> Jobs] /\ job'[t] = k /\ \A u \in Pool \ {t} : job'[u] = job[u]
    BY <1>5, <2>1 DEF DataTypes, Jobs, k
  <2>3. DataTypes' /\ Numbered' /\ RepliesFindTheirRequest'
    BY <1>3, <1>5, <2>2 DEF DataTypes, Numbered, RepliesFindTheirRequest
  <2>4. RepliesAreToCopies' /\ ReplyHasClient'
    BY <1>3, <1>5, <2>1, <2>2 DEF RepliesAreToCopies, ReplyHasClient, Replying
  <2>5. RegisteredWasSent'
    BY <1>1, <1>3, <1>5, <2>1, <2>2 DEF RegisteredWasSent
  <2>6. Remembered'
    BY <1>1, <1>3, <1>5, <2>2 DEF Remembered, Adding
  <2> QED
    BY <2>3, <2>4, <2>5, <2>6
<1>6. QED
  BY <1>4, <1>5 DEF Write, p, Copy

\* What add() does to the registry: its entry comes, and another may go and is evicted.
LEMMA Registers ==
  ASSUME DataTypes, RegisteredWasSent, NEW t \in Pool, Add(t)
  PROVE  LET p == job[t].to
             n == job[t].sent
             q == job[t].item.req
             grown == entries[p] \cup {<<n, q>>}
         IN  /\ p \in Rtps /\ n \in Nat /\ q \in Requests
             /\ entries' \in [Rtps -> SUBSET (Nat \X Requests)]
             /\ \A x \in Rtps \ {p} : entries'[x] = entries[x]
             /\ entries'[p] \subseteq grown
             /\ evicted \subseteq evicted'
             /\ \A e \in grown : e \in entries'[p] \/ <<p, e[2]>> \in evicted' \/ Known(p, n)
             /\ \E k \in RoutingJobs :
                  /\ k.at = "route" /\ k.item = job[t].item /\ k.reader = job[t].reader
                  /\ \A x \in k.left : x \in job[t].left /\ x > p
                  /\ job' = [job EXCEPT ![t] = k]
<1> DEFINE p == job[t].to
           n == job[t].sent
           q == job[t].item.req
           grown == entries[p] \cup {<<n, q>>}
           k == [job[t] EXCEPT !.at = "route", !.left = {x \in @ : x > p}]
<1>1. /\ job[t].at = "add" /\ job[t] \in RoutingJobs /\ p \in Rtps /\ n \in Nat /\ q \in Requests
  BY JobAt DEF Add, RegisteredWasSent, RoutingJobs
<1>3. /\ k \in RoutingJobs /\ k.at = "route" /\ k.item = job[t].item /\ k.reader = job[t].reader
      /\ \A x \in k.left : x \in job[t].left /\ x > p
  BY <1>1 DEF RoutingJobs
<1>4. job' = [job EXCEPT ![t] = k]
  BY <1>1 DEF Add, Beyond, DataTypes
<1> HIDE DEF k
<1>6. grown \in SUBSET (Nat \X Requests) /\ grown # {}
  <2>1. entries[p] \in SUBSET (Nat \X Requests) /\ <<n, q>> \in Nat \X Requests
    BY <1>1 DEF DataTypes
  <2> QED
    BY <2>1
<1>7. /\ entries' \in [Rtps -> SUBSET (Nat \X Requests)]
      /\ \A x \in Rtps \ {p} : entries'[x] = entries[x]
      /\ entries'[p] \subseteq grown
      /\ evicted \subseteq evicted'
      /\ \A e \in grown : e \in entries'[p] \/ <<p, e[2]>> \in evicted' \/ Known(p, n)
  <2> DEFINE new == IF Full(grown) THEN grown \ {Oldest(grown)} ELSE grown
  <2>1. CASE Known(p, n)
    BY <1>1, <2>1 DEF Add, DataTypes
  <2>2. CASE ~Known(p, n)
    <3>1. /\ entries' = [entries EXCEPT ![p] = new]
          /\ evicted' = IF Full(grown) THEN evicted \cup {<<p, Oldest(grown)[2]>>} ELSE evicted
      BY <2>2 DEF Add
    <3>2. new \subseteq grown /\ \A e \in grown : e \in new \/ (Full(grown) /\ e = Oldest(grown))
      OBVIOUS
    <3> HIDE DEF new, grown
    <3>3. new \in SUBSET (Nat \X Requests)
      BY <1>6, <3>2
    <3>4. entries'[p] = new /\ \A x \in Rtps \ {p} : entries'[x] = entries[x]
      BY <1>1, <3>1 DEF DataTypes
    <3>5. entries' \in [Rtps -> SUBSET (Nat \X Requests)]
      BY <1>1, <3>1, <3>3 DEF DataTypes
    <3>6. evicted \subseteq evicted' /\ (Full(grown) => <<p, Oldest(grown)[2]>> \in evicted')
      BY <3>1
    <3> QED
      BY <3>2, <3>4, <3>5, <3>6
  <2> QED
    BY <2>1, <2>2
<1> HIDE DEF grown
<1> QED
  BY <1>1, <1>3, <1>4, <1>7 DEF grown

\* An entry that is added stays, or another is evicted.
LEMMA LogAdd ==
  ASSUME LogInv, NEW t \in Pool, Add(t)
  PROVE  LogInv'
<1> USE DEF LogInv
<1> DEFINE p == job[t].to
           n == job[t].sent
           q == job[t].item.req
           grown == entries[p] \cup {<<n, q>>}
<1>1. /\ job[t].at = "add" /\ p \in Rtps /\ n \in Nat /\ q \in Requests
      /\ p \notin Limited => Copy(p, n, q) \in copies
  BY Registers DEF Add, RegisteredWasSent
<1>2. UNCHANGED <<unread, copies, sentSeq, answered, missed>>
  BY DEF Add, networkVars
<1>3. PICK k \in RoutingJobs : k.at = "route" /\ job' = [job EXCEPT ![t] = k]
  BY Registers
<1>5. job' \in [Pool -> Jobs] /\ job'[t] = k /\ \A u \in Pool \ {t} : job'[u] = job[u]
  BY <1>3 DEF DataTypes, Jobs
<1>7. /\ entries' \in [Rtps -> SUBSET (Nat \X Requests)]
      /\ \A x \in Rtps \ {p} : entries'[x] = entries[x]
      /\ entries'[p] \subseteq grown
      /\ evicted \subseteq evicted'
      /\ \A e \in grown : e \in entries'[p] \/ <<p, e[2]>> \in evicted' \/ Known(p, n)
  BY Registers
<1>9. DataTypes' /\ Numbered'
  BY <1>2, <1>5, <1>7 DEF DataTypes, Numbered
<1>10. RepliesAreToCopies' /\ ReplyHasClient' /\ RepliesFindTheirRequest'
  BY <1>2, <1>3, <1>5, <1>7 DEF RepliesAreToCopies, ReplyHasClient, Replying, RepliesFindTheirRequest
<1>11. RegisteredWasSent'
  <2>1. \A e \in grown : p \notin Limited => Copy(p, e[1], e[2]) \in copies
    BY <1>1 DEF RegisteredWasSent
  <2> QED
    BY <1>1, <1>2, <1>3, <1>5, <1>7, <2>1 DEF RegisteredWasSent
<1>12. ASSUME NEW c \in copies, c.via \notin Limited
       PROVE  \/ <<c.seq, c.req>> \in entries'[c.via]
              \/ \E u \in Pool : Adding(u, c.via, c.seq, c.req)'
              \/ <<c.via, c.req>> \in evicted'
              \/ answered'[<<c.via, c.req, c.req>>] > 0
              \/ ClientAt[c.req] \in Limited
  <2>1. c.via \in Rtps
    BY DEF DataTypes, Replies
  <2>2. CASE Known(p, n)
    <3>1. entries' = entries /\ evicted' = evicted
      BY <2>2 DEF Add
    <3>2. ASSUME Adding(t, c.via, c.seq, c.req)
          PROVE  <<c.seq, c.req>> \in entries[c.via]
      <4>1. c.via = p /\ c.seq = n /\ c.req = q
        BY <3>2 DEF Adding
      <4>2. PICK e \in entries[p] : e[1] = n
        BY <2>2 DEF Known
      <4>3. Copy(p, e[1], e[2]) \in copies
        BY <1>1, <1>12, <4>1 DEF RegisteredWasSent
      <4>4. Copy(p, e[1], e[2]) = c
        BY <4>1, <4>2, <4>3 DEF Numbered, Copy
      <4>5. e[2] = c.req
        BY <4>4 DEF Copy
      <4>6. e = <<e[1], e[2]>>
        BY <1>1 DEF DataTypes
      <4> QED
        BY <4>1, <4>2, <4>5, <4>6
    <3>3. \A u \in Pool \ {t} : Adding(u, c.via, c.seq, c.req) => Adding(u, c.via, c.seq, c.req)'
      BY <1>5 DEF Adding
    <3> QED
      BY <1>2, <1>12, <3>1, <3>2, <3>3 DEF Remembered
  <2>3. CASE ~Known(p, n)
    <3>1. ASSUME <<c.seq, c.req>> \in grown, c.via = p
          PROVE  <<c.seq, c.req>> \in entries'[c.via] \/ <<c.via, c.req>> \in evicted'
      BY <1>7, <2>3, <3>1
    <3>2. ASSUME <<c.seq, c.req>> \in entries[c.via]
          PROVE  <<c.seq, c.req>> \in entries'[c.via] \/ <<c.via, c.req>> \in evicted'
      BY <1>7, <2>1, <3>1, <3>2
    <3>3. ASSUME NEW u \in Pool, Adding(u, c.via, c.seq, c.req)
          PROVE  \/ Adding(u, c.via, c.seq, c.req)'
                 \/ <<c.seq, c.req>> \in entries'[c.via] \/ <<c.via, c.req>> \in evicted'
      BY <1>5, <3>1, <3>3 DEF Adding
    <3> QED
      BY <1>2, <1>7, <1>12, <3>2, <3>3 DEF Remembered
  <2> QED
    BY <2>2, <2>3
<1>13. Remembered'
  BY <1>2, <1>12 DEF Remembered
<1> QED
  BY <1>9, <1>10, <1>11, <1>13

\* A reply that is looked up has its entry, of its own request, or a reason.
LEMMA LogGet ==
  ASSUME LogInv, NEW t \in Pool, Get(t)
  PROVE  LogInv'
<1> USE DEF LogInv
<1> DEFINE p == At(job[t].reader)
           item == job[t].item
<1>1. /\ job[t].at = "get" /\ job[t] \in GetJobs /\ p \in Rtps /\ job[t].reader \in ReplyReaders
      /\ item \in Replies /\ item \in copies /\ item.via = p
  BY JobAt, ReaderAt DEF Get, ForThisClient, RepliesAreToCopies, GetJobs, ReplyReaders
<1>2. UNCHANGED <<unread, entries, copies, sentSeq, answered, evicted>>
  BY DEF Get, networkVars
<1>3. ASSUME NEW e \in entries[p], e[1] = item.seq, UNCHANGED missed,
             job' = [job EXCEPT ![t] = [at |-> "answer", reader |-> @.reader,
                                        item |-> @.item, client |-> e[2]]]
      PROVE  LogInv'
  <2> DEFINE k == [at |-> "answer", reader |-> job[t].reader, item |-> item, client |-> e[2]]
  <2>1. /\ k \in ReplyingJobs /\ k.at = "answer" /\ At(k.reader) = p /\ k.item = item
        /\ k.client = e[2]
    BY <1>1 DEF ReplyingJobs, DataTypes
  <2> HIDE DEF k
  <2>2. job' \in [Pool -> Jobs] /\ job'[t] = k /\ \A u \in Pool \ {t} : job'[u] = job[u]
    BY <1>3, <2>1 DEF DataTypes, Jobs, k
  <2>3. p \notin Limited => e[2] = item.req
    <3> SUFFICES ASSUME p \notin Limited PROVE e[2] = item.req
      OBVIOUS
    <3>1. Copy(p, e[1], e[2]) \in copies
      BY <1>1 DEF RegisteredWasSent
    <3>2. Copy(p, e[1], e[2]) = item
      BY <1>1, <1>3, <3>1 DEF Numbered, Copy
    <3> QED
      BY <3>2 DEF Copy
  <2>4. DataTypes' /\ Numbered' /\ RepliesFindTheirRequest'
    BY <1>2, <1>3, <2>2 DEF DataTypes, Numbered, RepliesFindTheirRequest
  <2>5. RepliesAreToCopies' /\ RegisteredWasSent'
    BY <1>1, <1>2, <2>1, <2>2 DEF RepliesAreToCopies, RegisteredWasSent
  <2>6. ReplyHasClient'
    BY <1>1, <1>2, <2>1, <2>2, <2>3 DEF ReplyHasClient, Replying
  <2>7. Remembered'
    BY <1>1, <1>2, <2>2 DEF Remembered, Adding
  <2> QED
    BY <2>4, <2>5, <2>6, <2>7
<1>4. ASSUME ~Known(p, item.seq), missed' = missed \cup {<<p, item.req>>}, Again(t), RegistryFree(p)
      PROVE  LogInv'
  <2> DEFINE k == [at |-> "loop", reader |-> job[t].reader]
  <2>1. k \in Jobs /\ k.at = "loop"
    BY <1>1 DEF Jobs, ReplyReaders
  <2> HIDE DEF k
  <2>2. job' \in [Pool -> Jobs] /\ job'[t] = k /\ \A u \in Pool \ {t} : job'[u] = job[u]
    BY <1>4, <2>1 DEF Again, DataTypes, k
  <2>3. DataTypes' /\ Numbered'
    <3>1. <<p, item.req>> \in Rtps \X Requests
      BY <1>1 DEF Replies
    <3> QED
      BY <1>2, <1>4, <2>2, <3>1 DEF DataTypes, Numbered
  <2>4. RepliesAreToCopies' /\ RegisteredWasSent' /\ ReplyHasClient'
    BY <1>2, <2>1, <2>2 DEF RepliesAreToCopies, RegisteredWasSent, ReplyHasClient, Replying
  <2>5. Remembered'
    BY <1>1, <1>2, <2>2 DEF Remembered, Adding
  <2>6. \/ <<p, item.req>> \in evicted
        \/ answered[<<p, item.req, item.req>>] > 0
        \/ {p, ClientAt[item.req]} \cap Limited # {}
    <3> SUFFICES ASSUME p \notin Limited
                 PROVE  \/ <<p, item.req>> \in evicted
                        \/ answered[<<p, item.req, item.req>>] > 0
                        \/ ClientAt[item.req] \in Limited
      OBVIOUS
    <3>1. <<item.seq, item.req>> \notin entries[p]
      BY <1>4 DEF Known
    <3>2. \A u \in Pool : ~Adding(u, p, item.seq, item.req)
      BY <1>4 DEF RegistryFree, Adding
    <3> QED
      BY <1>1, <3>1, <3>2 DEF Remembered
  <2>7. RepliesFindTheirRequest'
    <3> DEFINE x == <<p, item.req>>
    <3>1. x[1] = p /\ x[2] = item.req
      OBVIOUS
    <3>2. \A y \in missed' : y \in missed \/ y = x
      BY <1>4
    <3>3. \/ x \in evicted
          \/ answered[<<x[1], x[2], x[2]>>] > 0
          \/ {x[1], ClientAt[x[2]]} \cap Limited # {}
      BY <2>6, <3>1
    <3> HIDE DEF x
    <3> QED
      BY <1>2, <3>2, <3>3 DEF RepliesFindTheirRequest
  <2> QED
    BY <2>3, <2>4, <2>5, <2>7
<1>5. QED
  BY <1>3, <1>4 DEF Get

\* What is answered stays answered.
LEMMA LogAnswer ==
  ASSUME LogInv, NEW t \in Pool, Answer(t)
  PROVE  LogInv'
<1> USE DEF LogInv
<1> DEFINE p == At(job[t].reader)
           x == <<p, job[t].client, job[t].item.req>>
           k == [job[t] EXCEPT !.at = "erase"]
<1>1. /\ job[t].at = "answer" /\ job[t] \in ReplyingJobs /\ p \in Rtps
      /\ job[t].client \in Requests /\ job[t].item.req \in Requests
  BY JobAt, ReaderAt DEF Answer, ReplyingJobs, ReplyReaders, Replies
<1>2. UNCHANGED <<unread, entries, copies, sentSeq, missed, evicted>>
  BY DEF Answer, networkVars
<1>3. /\ k \in ReplyingJobs /\ k.at = "erase" /\ k.reader = job[t].reader
      /\ k.item = job[t].item /\ k.client = job[t].client
  BY <1>1 DEF ReplyingJobs
<1> HIDE DEF k
<1>4. job' \in [Pool -> Jobs] /\ job'[t] = k /\ \A u \in Pool \ {t} : job'[u] = job[u]
  BY <1>3 DEF Answer, Goto, DataTypes, Jobs, k
<1>5. /\ answered' \in [Rtps \X Requests \X Requests -> Nat]
      /\ \A y \in Rtps \X Requests \X Requests : answered[y] > 0 => answered'[y] > 0
      /\ answered'[x] > 0 \/ ClientAt[job[t].client] \in Limited
  <2>1. x \in Rtps \X Requests \X Requests /\ answered[x] \in Nat
    BY <1>1 DEF DataTypes
  <2>2. CASE answered' = [answered EXCEPT ![x] = @ + 1]
    <3> HIDE DEF x
    <3>1. answered'[x] = answered[x] + 1
      BY <2>1, <2>2 DEF DataTypes
    <3>2. \A y \in Rtps \X Requests \X Requests : y # x => answered'[y] = answered[y]
      BY <2>2 DEF DataTypes
    <3>3. answered' \in [Rtps \X Requests \X Requests -> Nat]
      BY <2>1, <2>2 DEF DataTypes
    <3> QED
      BY <2>1, <3>1, <3>2, <3>3
  <2>3. CASE ClientAt[job[t].client] \in Limited /\ UNCHANGED answered
    BY <2>3 DEF DataTypes
  <2> QED
    BY <2>2, <2>3 DEF Answer
<1>6. DataTypes' /\ Numbered'
  BY <1>2, <1>4, <1>5 DEF DataTypes, Numbered
<1>7. RepliesAreToCopies' /\ RegisteredWasSent'
  BY <1>1, <1>2, <1>3, <1>4 DEF RepliesAreToCopies, RegisteredWasSent
<1>8. ReplyHasClient'
  <2> SUFFICES ASSUME NEW u \in Pool, NEW o \in Rtps, Replying(u, o)'
               PROVE  /\ job'[u].item.via = o
                      /\ o \notin Limited => job'[u].client = job'[u].item.req
                      /\ job'[u].at = "erase" =>
                           \/ answered'[<<o, job'[u].client, job'[u].item.req>>] > 0
                           \/ ClientAt[job'[u].client] \in Limited
    BY DEF ReplyHasClient
  <2>1. CASE u = t
    BY <1>1, <1>3, <1>4, <1>5, <2>1 DEF ReplyHasClient, Replying
  <2>2. CASE u # t
    <3>1. job'[u] = job[u] /\ Replying(u, o)
      BY <1>4, <2>2 DEF Replying
    <3>2. job[u].client \in Requests /\ job[u].item.req \in Requests
      BY <3>1, JobAt DEF Replying, ReplyingJobs, Replies
    <3> QED
      BY <1>5, <3>1, <3>2 DEF ReplyHasClient
  <2> QED
    BY <2>1, <2>2
<1>9. Remembered'
  <2>1. \A c \in copies : c.via \in Rtps /\ c.req \in Requests
    BY DEF DataTypes, Replies
  <2>2. \A u \in Pool : \A o, n, q : Adding(u, o, n, q) => Adding(u, o, n, q)'
    BY <1>1, <1>4 DEF Adding
  <2>3. \A c \in copies : answered[<<c.via, c.req, c.req>>] > 0 => answered'[<<c.via, c.req, c.req>>] > 0
    BY <1>5, <2>1
  <2> QED
    BY <1>2, <2>2, <2>3 DEF Remembered
<1>10. RepliesFindTheirRequest'
  <2>1. \A y \in missed : y[1] \in Rtps /\ y[2] \in Requests
    BY DEF DataTypes
  <2> QED
    BY <1>2, <1>5, <2>1 DEF RepliesFindTheirRequest
<1> QED
  BY <1>6, <1>7, <1>8, <1>9, <1>10

\* The entry that goes is that of the request just answered.
LEMMA LogErase ==
  ASSUME LogInv, NEW t \in Pool, Erase(t)
  PROVE  LogInv'
<1> USE DEF LogInv
<1> DEFINE p == At(job[t].reader)
           item == job[t].item
           k == [at |-> "loop", reader |-> job[t].reader]
<1>1. /\ job[t].at = "erase" /\ job[t] \in ReplyingJobs /\ p \in Rtps
      /\ item \in copies /\ item \in Replies /\ item.via = p /\ job[t].reader \in Readers
      /\ p \notin Limited => \/ answered[<<p, item.req, item.req>>] > 0
                             \/ ClientAt[item.req] \in Limited
  BY JobAt, ReaderAt DEF Erase, ReplyingJobs, ReplyReaders, RepliesAreToCopies,
                         ReplyHasClient, Replying
<1>2. UNCHANGED <<unread, copies, sentSeq, answered, missed, evicted>>
  BY DEF Erase, networkVars, historyVars
<1>3. k \in Jobs /\ k.at = "loop"
  BY <1>1 DEF Jobs
<1> HIDE DEF k
<1>4. job' \in [Pool -> Jobs] /\ job'[t] = k /\ \A u \in Pool \ {t} : job'[u] = job[u]
  BY <1>3 DEF Erase, Again, DataTypes, k
<1>5. /\ entries' \in [Rtps -> SUBSET (Nat \X Requests)]
      /\ \A o \in Rtps : entries'[o] \subseteq entries[o]
      /\ \A o \in Rtps \ {p} : entries'[o] = entries[o]
      /\ \A e \in entries[p] : e[1] # item.seq => e \in entries'[p]
  BY <1>1 DEF Erase, DataTypes
<1>6. DataTypes' /\ Numbered' /\ RepliesFindTheirRequest'
  BY <1>2, <1>4, <1>5 DEF DataTypes, Numbered, RepliesFindTheirRequest
<1>7. RepliesAreToCopies' /\ ReplyHasClient'
  BY <1>2, <1>3, <1>4 DEF RepliesAreToCopies, ReplyHasClient, Replying
<1>8. RegisteredWasSent'
  BY <1>2, <1>3, <1>4, <1>5 DEF RegisteredWasSent
<1>9. ASSUME NEW c \in copies, c.via \notin Limited
      PROVE  \/ <<c.seq, c.req>> \in entries'[c.via]
             \/ \E u \in Pool : Adding(u, c.via, c.seq, c.req)'
             \/ <<c.via, c.req>> \in evicted'
             \/ answered'[<<c.via, c.req, c.req>>] > 0
             \/ ClientAt[c.req] \in Limited
  <2>1. c.via \in Rtps
    BY DEF DataTypes, Replies
  <2>2. CASE c.via = p /\ c.seq = item.seq
    <3>1. c = item
      BY <1>1, <2>2 DEF Numbered
    <3> QED
      BY <1>1, <1>2, <1>9, <3>1
  <2>3. CASE c.via # p \/ c.seq # item.seq
    <3>1. <<c.seq, c.req>> \in entries[c.via] => <<c.seq, c.req>> \in entries'[c.via]
      BY <1>5, <2>1, <2>3
    <3>2. \A u \in Pool : Adding(u, c.via, c.seq, c.req) => Adding(u, c.via, c.seq, c.req)'
      BY <1>1, <1>4 DEF Adding
    <3> QED
      BY <1>2, <1>9, <3>1, <3>2 DEF Remembered
  <2> QED
    BY <2>2, <2>3
<1>10. Remembered'
  BY <1>2, <1>9 DEF Remembered
<1> QED
  BY <1>6, <1>7, <1>8, <1>10

\* What the network does is that an item arrives at a reader: a request, or a reply to
\* what was written.
LEMMA Arrivals ==
  ASSUME DataTypes,
         \/ \E q \in Requests : ClientSends(q)
         \/ \E s \in Servers, c \in copies, p \in Rtps : ServerReplies(s, c, p)
  PROVE  \E r \in Readers : \E item \in Items(r) :
           /\ unread' = [unread EXCEPT ![r] = Append(@, item)]
           /\ r \in ReplyReaders => item \in copies
           /\ UNCHANGED <<job, entries, copies, sentSeq, historyVars>>
<1>1. ASSUME NEW q \in Requests, ClientSends(q)
      PROVE  \E r \in Readers : \E item \in Items(r) :
               /\ unread' = [unread EXCEPT ![r] = Append(@, item)]
               /\ r \in ReplyReaders => item \in copies
               /\ UNCHANGED <<job, entries, copies, sentSeq, historyVars>>
  <2> DEFINE r == <<"request", ClientAt[q]>>
  <2>1. r \in Readers /\ r \notin ReplyReaders /\ Kind(r) = "request"
    BY RpcAssumption DEF Readers, ReplyReaders, Kind
  <2>2. [req |-> q] \in Items(r)
    BY <2>1 DEF Items
  <2>3. /\ unread' = [unread EXCEPT ![r] = Append(@, [req |-> q])]
        /\ UNCHANGED <<job, entries, copies, sentSeq, historyVars>>
    BY <1>1 DEF ClientSends, Arrives
  <2> HIDE DEF r
  <2> QED
    BY <2>1, <2>2, <2>3
<1>2. ASSUME NEW s \in Servers, NEW c \in copies, NEW p \in Rtps, ServerReplies(s, c, p)
      PROVE  \E r \in Readers : \E item \in Items(r) :
               /\ unread' = [unread EXCEPT ![r] = Append(@, item)]
               /\ r \in ReplyReaders => item \in copies
               /\ UNCHANGED <<job, entries, copies, sentSeq, historyVars>>
  <2> DEFINE r == <<"reply", p>>
  <2>1. r \in Readers /\ Kind(r) = "reply"
    BY DEF Readers, Kind
  <2>2. c \in Items(r)
    BY <2>1 DEF Items, DataTypes
  <2>3. /\ unread' = [unread EXCEPT ![r] = Append(@, c)]
        /\ UNCHANGED <<job, entries, copies, sentSeq, historyVars>>
    BY <1>2 DEF ServerReplies, Arrives
  <2> HIDE DEF r
  <2> QED
    BY <2>1, <2>2, <2>3
<1> QED
  BY <1>1, <1>2

\* Steps in which a thread only moves.
LEMMA Moves ==
  ASSUME DataTypes, NEW t \in Pool,
         StartTask(t) \/ Loop(t) \/ IgnoreReply(t) \/ AnswerFails(t) \/ WriteFails(t)
  PROVE  /\ job[t].at \notin {"add", "erase"}
         /\ UNCHANGED <<unread, entries, copies, asked, sentSeq, historyVars>>
         /\ \E k \in Jobs : /\ k.at \in {"idle", "loop", "take", "route"}
                            /\ k.at = "take" => unread[k.reader] # <<>>
                            /\ k.at = "route" => /\ job[t].at = "route"
                                                 /\ k.item = job[t].item
                                                 /\ k.reader = job[t].reader
                                                 /\ k.left \subseteq job[t].left
                            /\ job' = [job EXCEPT ![t] = k]
<1> DEFINE Goes(k) ==
      /\ k.at \in {"idle", "loop", "take", "route"}
      /\ k.at = "take" => unread[k.reader] # <<>>
      /\ k.at = "route" => /\ job[t].at = "route"
                           /\ k.item = job[t].item
                           /\ k.reader = job[t].reader
                           /\ k.left \subseteq job[t].left
      /\ job' = [job EXCEPT ![t] = k]
<1>1. job[t].at \notin {"add", "erase"}
  BY DEF StartTask, Loop, Routed, IgnoreReply, AnswerFails, WriteFails, Idle
<1>2. UNCHANGED <<unread, entries, copies, asked, sentSeq, historyVars>>
  BY DEF StartTask, Loop, IgnoreReply, AnswerFails, WriteFails, networkVars
<1>3. \A r \in Readers : /\ [at |-> "loop", reader |-> r] \in Jobs
                         /\ [at |-> "take", reader |-> r] \in Jobs
  BY DEF Jobs
<1>4. job[t] # Idle => job[t].reader \in Readers
  BY JobAt
<1>5. CASE StartTask(t)
  <2>1. PICK r \in Readers : job' = [job EXCEPT ![t] = [at |-> "loop", reader |-> r]]
    BY <1>5 DEF StartTask
  <2>2. Goes([at |-> "loop", reader |-> r])
    BY <2>1
  <2> QED
    BY <1>1, <1>2, <1>3, <2>2
<1>6. CASE Loop(t)
  <2>1. CASE enabled /\ unread[job[t].reader] # <<>>
    <3> DEFINE k == [job[t] EXCEPT !.at = "take"]
    <3>1. job[t].at \in {"loop", "route"} /\ job' = [job EXCEPT ![t] = k]
      BY <1>6, <2>1 DEF Loop, Routed, Goto, DataTypes
    <3>2. k \in Jobs /\ k.at = "take" /\ k.reader = job[t].reader
      <4>1. job[t] \in [at : {"loop", "take"}, reader : Readers] \/ job[t] \in RoutingJobs
        <5> HIDE DEF k
        <5> QED
          BY <3>1, JobAt, JobAtLoop
      <4>2. CASE job[t] \in [at : {"loop", "take"}, reader : Readers]
        BY <4>2 DEF Jobs
      <4>3. CASE job[t] \in RoutingJobs
        <5>1. k \in RoutingJobs /\ k.at = "take" /\ k.reader = job[t].reader
          BY <4>3 DEF RoutingJobs
        <5> QED
          BY <5>1 DEF Jobs
      <4> QED
        BY <4>1, <4>2, <4>3
    <3> HIDE DEF k
    <3>3. Goes(k)
      BY <2>1, <3>1, <3>2
    <3> QED
      BY <1>1, <1>2, <3>2, <3>3
  <2>2. CASE ~(enabled /\ unread[job[t].reader] # <<>>)
    <3>1. Idle \in Jobs /\ Goes(Idle)
      BY <1>6, <2>2 DEF Loop, Jobs, Idle
    <3> QED
      BY <1>1, <1>2, <3>1
  <2> QED
    BY <2>1, <2>2
<1>7. CASE IgnoreReply(t) \/ AnswerFails(t)
  <2>1. job[t] # Idle /\ job' = [job EXCEPT ![t] = [at |-> "loop", reader |-> job[t].reader]]
    BY <1>7 DEF IgnoreReply, AnswerFails, Again, Idle, DataTypes
  <2>2. Goes([at |-> "loop", reader |-> job[t].reader])
    BY <2>1
  <2> QED
    BY <1>1, <1>2, <1>3, <1>4, <2>1, <2>2
<1>8. CASE WriteFails(t)
  <2> DEFINE p == Min(Routes(t))
             k == [job[t] EXCEPT !.at = "route", !.left = {x \in @ : x > p}]
  <2>1. job[t].at = "route" /\ job[t] \in RoutingJobs
    BY <1>8, JobAt DEF WriteFails
  <2> HIDE DEF p
  <2>2. k \in RoutingJobs /\ Goes(k)
    BY <1>8, <2>1 DEF WriteFails, Beyond, DataTypes, RoutingJobs, p
  <2> HIDE DEF k
  <2>3. k \in Jobs
    BY <2>2 DEF Jobs
  <2> QED
    BY <1>1, <1>2, <2>2, <2>3
<1> QED
  BY <1>5, <1>6, <1>7, <1>8

\* What a thread takes is there: it was when the thread looked, and no other thread takes
\* from the same reader.
LEMMA TakesKept ==
  ASSUME RpcInv, LogInv, TakesWhatIsThere, [Next]_vars
  PROVE  TakesWhatIsThere'
<1> USE DEF LogInv
<1>1. CASE job' = job /\ unread' = unread
  BY <1>1 DEF TakesWhatIsThere
<1>2. CASE \/ \E q \in Requests : ClientSends(q)
           \/ \E s \in Servers, c \in copies, p \in Rtps : ServerReplies(s, c, p)
  <2>0. PICK r \in Readers : \E item \in Items(r) :
          unread' = [unread EXCEPT ![r] = Append(@, item)] /\ job' = job
    BY <1>2, Arrivals
  <2>1. PICK item \in Items(r) :
          unread' = [unread EXCEPT ![r] = Append(@, item)] /\ job' = job
    BY <2>0
  <2>2. unread'[r] = Append(unread[r], item) /\ \A s \in Readers \ {r} : unread'[s] = unread[s]
    BY <2>1 DEF RpcInv, RpcTypes
  <2>3. unread'[r] # <<>>
    <3>1. unread[r] \in Seq(Items(r))
      BY DEF DataTypes
    <3>2. Append(unread[r], item) # <<>>
      BY <3>1, AppendOf
    <3> QED
      BY <2>2, <3>2
  <2>4. \A t \in Pool : job[t].at = "take" => job[t].reader \in Readers
    BY JobAt DEF Idle
  <2> QED
    BY <2>1, <2>2, <2>3, <2>4 DEF TakesWhatIsThere
<1>3. ASSUME NEW t \in Pool,
             StartTask(t) \/ Loop(t) \/ IgnoreReply(t) \/ AnswerFails(t) \/ WriteFails(t)
      PROVE  TakesWhatIsThere'
  <2>1. PICK k \in Jobs : /\ k.at = "take" => unread[k.reader] # <<>>
                          /\ job' = [job EXCEPT ![t] = k]
                          /\ unread' = unread
    BY <1>3, Moves
  <2> QED
    BY <2>1 DEF TakesWhatIsThere, DataTypes
<1>4. ASSUME NEW t \in Pool, Write(t) \/ Add(t) \/ Get(t) \/ Answer(t) \/ Erase(t)
      PROVE  TakesWhatIsThere'
  <2>1. unread' = unread /\ \A u \in Pool \ {t} : job'[u] = job[u]
    BY <1>4 DEF Write, Add, Get, Answer, Erase, Goto, Again, Beyond, DataTypes
  <2>2. job'[t].at # "take"
    <3>1. /\ job[t].at \in {"route", "add"} => job[t] \in RoutingJobs
          /\ job[t].at \in {"answer"} => job[t] \in ReplyingJobs
      BY JobAt
    <3>2. CASE Write(t)
      <4> DEFINE p == Min(Routes(t))
                 n == sentSeq[p] + 1
      <4>1. /\ job[t] \in RoutingJobs
            /\ \/ job' = [job EXCEPT ![t] = [@ EXCEPT !.at = "add", !.to = p, !.sent = n]]
               \/ job' = [job EXCEPT ![t] = [@ EXCEPT !.at = "add", !.to = p]]
        BY <3>1, <3>2 DEF Write
      <4> HIDE DEF p, n
      <4>2. \/ job'[t] = [job[t] EXCEPT !.at = "add", !.to = p, !.sent = n]
            \/ job'[t] = [job[t] EXCEPT !.at = "add", !.to = p]
        BY <4>1 DEF DataTypes
      <4> QED
        BY <4>1, <4>2 DEF RoutingJobs
    <3>3. CASE Add(t)
      BY <3>1, <3>3 DEF Add, Beyond, DataTypes, RoutingJobs
    <3>4. CASE Answer(t)
      BY <3>1, <3>4 DEF Answer, Goto, DataTypes, ReplyingJobs
    <3>5. CASE Get(t) \/ Erase(t)
      BY <3>5 DEF Get, Erase, Again, DataTypes
    <3> QED
      BY <1>4, <3>2, <3>3, <3>4, <3>5
  <2> QED
    BY <2>1, <2>2 DEF TakesWhatIsThere
<1>5. ASSUME NEW t \in Pool, Take(t)
      PROVE  TakesWhatIsThere'
  <2> DEFINE r == job[t].reader
  <2>1. /\ job[t].at = "take" /\ job'[t].at # "take"
        /\ unread' = [unread EXCEPT ![r] = Tail(@)]
        /\ \A u \in Pool \ {t} : job'[u] = job[u]
    BY <1>5 DEF Take, DataTypes
  <2>2. ASSUME NEW u \in Pool \ {t}, job[u].at = "take"
        PROVE  job[u].reader # r /\ job[u].reader \in Readers
    BY <2>1, <2>2, OneRunner, JobAt DEF Idle
  <2>3. \A s \in Readers \ {r} : unread'[s] = unread[s]
    BY <2>1 DEF RpcInv, RpcTypes
  <2> QED
    BY <2>1, <2>2, <2>3 DEF TakesWhatIsThere
<1>6. CASE \/ EnableStart \/ InitFails \/ Disable \/ CallStep
           \/ \E p \in Participants, s \in Servers : Discovered(p, s) \/ Removed(p, s)
           \/ \E t \in Pool : TakeNothing(t)
           \/ UNCHANGED vars
  BY <1>1, <1>6 DEF EnableStart, InitFails, Disable, CallStep, EnableWriters, EnableReader,
                    DisableRest, Discovered, Removed, TakeNothing, vars
<1> QED
  BY <1>2, <1>3, <1>4, <1>5, <1>6 DEF Next, Step, PoolStep

LEMMA LogStep ==
  ASSUME RpcInv, LogInv, TakesWhatIsThere, [Next]_vars
  PROVE  LogInv'
<1>1. CASE \/ EnableStart \/ InitFails \/ Disable \/ CallStep
           \/ \E p \in Participants, s \in Servers : Discovered(p, s) \/ Removed(p, s)
           \/ \E t \in Pool : TakeNothing(t)
           \/ UNCHANGED vars
  <2>1. UNCHANGED <<job, unread, entries, copies, sentSeq, historyVars>>
    BY <1>1 DEF EnableStart, InitFails, Disable, CallStep, EnableWriters, EnableReader,
                DisableRest, Discovered, Removed, TakeNothing, vars, networkVars
  <2> QED
    BY <2>1, UnreadNow, LogStays
<1>2. CASE \/ \E q \in Requests : ClientSends(q)
           \/ \E s \in Servers, c \in copies, p \in Rtps : ServerReplies(s, c, p)
  <2>0. PICK r \in Readers : \E item \in Items(r) :
          /\ unread' = [unread EXCEPT ![r] = Append(@, item)]
          /\ r \in ReplyReaders => item \in copies
          /\ UNCHANGED <<job, entries, copies, sentSeq, historyVars>>
    BY <1>2, Arrivals DEF LogInv
  <2>1. PICK item \in Items(r) :
          /\ unread' = [unread EXCEPT ![r] = Append(@, item)]
          /\ r \in ReplyReaders => item \in copies
          /\ UNCHANGED <<job, entries, copies, sentSeq, historyVars>>
    BY <2>0
  <2> QED
    BY <2>1, LogArrival DEF RpcInv
<1>3. ASSUME NEW t \in Pool,
             StartTask(t) \/ Loop(t) \/ IgnoreReply(t) \/ AnswerFails(t) \/ WriteFails(t)
      PROVE  LogInv'
  <2>1. /\ job[t].at # "add"
        /\ UNCHANGED <<unread, entries, copies, asked, sentSeq, historyVars>>
        /\ \E k \in Jobs : k.at \in {"idle", "loop", "take", "route"} /\ job' = [job EXCEPT ![t] = k]
    BY <1>3, Moves DEF LogInv
  <2>2. PICK k \in Jobs : k.at \in {"idle", "loop", "take", "route"} /\ job' = [job EXCEPT ![t] = k]
    BY <2>1
  <2>3. /\ \A r \in Readers : unread'[r] \in Seq(Items(r))
        /\ \A r \in ReplyReaders : \A i \in 1..Len(unread'[r]) : unread'[r][i] \in copies
    BY <2>1, UnreadNow
  <2> QED
    BY <2>1, <2>2, <2>3, LogBack
<1> QED
  BY <1>1, <1>2, <1>3, LogTake, LogWrite, LogAdd, LogGet, LogAnswer, LogErase
     DEF Next, Step, PoolStep, RpcInv

LEMMA LogInvariant == Spec => [](RpcInv /\ LogInv /\ TakesWhatIsThere)
<1>1. Init => RpcInv /\ LogInv /\ TakesWhatIsThere
  BY RpcInitially, LogStart
<1>2. RpcInv /\ LogInv /\ TakesWhatIsThere /\ [Next]_vars
        => RpcInv' /\ LogInv' /\ TakesWhatIsThere'
  BY RpcStep, LogStep, TakesKept
<1> QED
  BY <1>1, <1>2, PTL DEF Spec

\* A reply is not lost for want of its entry, for any number of participants and threads: a
\* request is registered before its reply can be looked up, since the mutex of the registry
\* is held from the write to the add.
THEOREM RepliesCorrect == Spec => []RepliesFindTheirRequest
BY LogInvariant, PTL DEF LogInv

-----------------------------------------------------------------------------
(* Each request goes through a participant once                              *)

Routing(t, q) == job[t].at \in {"route", "add"} /\ job[t].item.req = q

Waits(q) == \E r \in RequestReaders : \E i \in 1..Len(unread[r]) : unread[r][i].req = q

\* A request waits once, in the reader of the participant its client is at.
Queued ==
  \A r \in RequestReaders : \A i \in 1..Len(unread[r]) :
    /\ unread[r][i].req \in asked
    /\ ClientAt[unread[r][i].req] = At(r)
    /\ \A j \in 1..Len(unread[r]) : unread[r][i].req = unread[r][j].req => i = j

\* A request that is being routed waits no more, and has not gone through the participants
\* that are left.
RoutedOnce ==
  \A t \in Pool, q \in Requests : Routing(t, q) =>
    /\ q \in asked /\ ~Waits(q) /\ At(job[t].reader) = ClientAt[q]
    /\ \A c \in copies : c.req = q =>
         c.via \notin job[t].left \/ (job[t].at = "add" /\ c.via <= job[t].to)

CopiesOnce ==
  /\ \A c \in copies : c.req \in asked /\ ~Waits(c.req)
  /\ \A c, d \in copies : c.via = d.via /\ c.req = d.req => c = d

SentOnce == asked \subseteq Requests /\ Queued /\ RoutedOnce /\ CopiesOnce

\* Readers of a kind differ in their participants.
LEMMA SameReader ==
  /\ \A r, s \in RequestReaders : At(r) = At(s) => r = s
  /\ \A r, s \in ReplyReaders : At(r) = At(s) => r = s
BY DEF RequestReaders, ReplyReaders, Readers, Kind, At

LEMMA SentStart == Init => SentOnce
<1> SUFFICES ASSUME Init PROVE SentOnce
  OBVIOUS
<1>1. asked = {} /\ copies = {} /\ \A t \in Pool : job[t] = Idle
  BY DEF Init
<1>2. \A r \in RequestReaders : unread[r] = <<>>
  BY DEF Init, RequestReaders
<1> QED
  BY <1>1, <1>2 DEF SentOnce, Queued, RoutedOnce, Routing, CopiesOnce, Idle

\* Steps in which nobody asks or writes, and threads route what they did, through fewer
\* participants.
LEMMA SentFrame ==
  ASSUME DataTypes, SentOnce, UNCHANGED <<asked, copies>>,
         \A r \in RequestReaders : unread'[r] = unread[r],
         \A t \in Pool :
           \/ job'[t] = job[t]
           \/ job'[t].at \notin {"route", "add"}
           \/ /\ job'[t].at = "route" /\ job[t].at \in {"route", "add"}
              /\ job'[t].item = job[t].item /\ job'[t].reader = job[t].reader
              /\ \A x \in job'[t].left : x \in job[t].left /\ (job[t].at = "add" => x > job[t].to)
  PROVE  SentOnce'
<1>1. Queued'
  BY DEF SentOnce, Queued
<1>2. \A q : Waits(q)' <=> Waits(q)
  BY DEF Waits
<1>3. CopiesOnce'
  BY <1>2 DEF SentOnce, CopiesOnce
<1>4. ASSUME NEW t \in Pool, NEW q \in Requests, Routing(t, q)'
      PROVE  /\ q \in asked /\ ~Waits(q) /\ At(job'[t].reader) = ClientAt[q]
             /\ \A c \in copies : c.req = q =>
                  c.via \notin job'[t].left \/ (job'[t].at = "add" /\ c.via <= job'[t].to)
  <2>1. CASE job'[t] = job[t]
    BY <1>4, <2>1 DEF SentOnce, RoutedOnce, Routing
  <2>2. CASE job'[t] # job[t]
    <3>1. /\ job'[t].at = "route" /\ job[t].at \in {"route", "add"}
          /\ job'[t].item = job[t].item /\ job'[t].reader = job[t].reader
          /\ \A x \in job'[t].left : x \in job[t].left /\ (job[t].at = "add" => x > job[t].to)
      BY <1>4, <2>2 DEF Routing
    <3>2. Routing(t, q)
      BY <1>4, <3>1 DEF Routing
    <3>3. \A c \in copies : c.via \in Nat
      BY RpcAssumption DEF DataTypes, Replies
    <3>4. job[t].to \in Nat
      <4>1. job[t] \in RoutingJobs
        BY <3>1, JobAt
      <4>2. job[t].to \in Rtps \cup {0}
        BY <4>1 DEF RoutingJobs
      <4>3. 0 \in Nat /\ Rtps \subseteq Nat
        BY RpcAssumption
      <4> QED
        BY <4>2, <4>3, Zenon
    <3>5. ASSUME NEW c \in copies, c.req = q
          PROVE  c.via \notin job'[t].left
      <4>1. c.via \notin job[t].left \/ (job[t].at = "add" /\ c.via <= job[t].to)
        BY <3>2, <3>5 DEF SentOnce, RoutedOnce
      <4>2. ~(c.via <= job[t].to /\ c.via > job[t].to)
        BY <3>3, <3>4
      <4> QED
        BY <3>1, <4>1, <4>2
    <3> QED
      BY <3>1, <3>2, <3>5 DEF SentOnce, RoutedOnce
  <2> QED
    BY <2>1, <2>2
<1>5. RoutedOnce'
  BY <1>2, <1>4 DEF RoutedOnce
<1> QED
  BY <1>1, <1>3, <1>5 DEF SentOnce

\* A client asks once.
LEMMA SentAsk ==
  ASSUME DataTypes, SentOnce, RpcTypes, NEW q \in Requests, ClientSends(q)
  PROVE  SentOnce'
<1> DEFINE r == <<"request", ClientAt[q]>>
           item == [req |-> q]
<1>1. r \in RequestReaders /\ r \in Readers /\ At(r) = ClientAt[q] /\ item \in Items(r)
  BY RpcAssumption DEF Readers, RequestReaders, Kind, At, Items
<1>2. /\ q \notin asked /\ asked' = asked \cup {q} /\ UNCHANGED <<job, copies>>
      /\ unread' = [unread EXCEPT ![r] = Append(@, item)]
  BY DEF ClientSends, Arrives
<1> DEFINE n == Len(unread[r]) + 1
<1>3. /\ Len(unread[r]) \in Nat /\ Len(Append(unread[r], item)) = n
      /\ \A i \in 1..Len(unread[r]) : Append(unread[r], item)[i] = unread[r][i]
      /\ Append(unread[r], item)[n] = item
  BY <1>1, AppendOf DEF DataTypes
<1> HIDE DEF r, n
<1>4. /\ Len(unread'[r]) = n /\ unread'[r][n] = item
      /\ \A i \in 1..Len(unread[r]) : unread'[r][i] = unread[r][i]
      /\ \A s \in RequestReaders : s # r => unread'[s] = unread[s]
  BY <1>1, <1>2, <1>3 DEF RpcTypes, RequestReaders
<1>5. item.req = q
  OBVIOUS
<1> HIDE DEF item
<1>6. \A i \in 1..n : i \in 1..Len(unread[r]) \/ i = n
  BY <1>3 DEF n
<1>7. ~Waits(q)
  BY <1>2 DEF Waits, SentOnce, Queued
<1>8. \A x : Waits(x)' => Waits(x) \/ x = q
  <2> SUFFICES ASSUME NEW x, NEW s \in RequestReaders, NEW i \in 1..Len(unread'[s]),
                      unread'[s][i].req = x, x # q
               PROVE  Waits(x)
    BY DEF Waits
  <2>1. CASE s = r
    BY <1>1, <1>4, <1>5, <1>6, <2>1 DEF Waits
  <2>2. CASE s # r
    BY <1>4, <2>2 DEF Waits
  <2> QED
    BY <2>1, <2>2
<1>9. Queued'
  <2> SUFFICES ASSUME NEW s \in RequestReaders, NEW i \in 1..Len(unread'[s])
               PROVE  /\ unread'[s][i].req \in asked'
                      /\ ClientAt[unread'[s][i].req] = At(s)
                      /\ \A j \in 1..Len(unread'[s]) : unread'[s][i].req = unread'[s][j].req => i = j
    BY DEF Queued
  <2>1. CASE s # r
    BY <1>2, <1>4, <2>1 DEF SentOnce, Queued
  <2>2. CASE s = r
    <3>1. \A j \in 1..Len(unread'[s]) : j \in 1..Len(unread[r]) \/ j = n
      BY <1>4, <1>6, <2>2
    <3>2. \A j \in 1..Len(unread[r]) : unread[r][j].req # q /\ unread'[s][j] = unread[r][j]
      BY <1>1, <1>4, <1>7, <2>2 DEF Waits
    <3>3. unread'[s][n].req = q
      BY <1>4, <1>5, <2>2
    <3>4. CASE i = n
      BY <1>1, <1>2, <2>2, <3>1, <3>2, <3>3, <3>4
    <3>5. CASE i \in 1..Len(unread[r])
      BY <1>1, <1>2, <2>2, <3>1, <3>2, <3>3, <3>5 DEF SentOnce, Queued
    <3> QED
      BY <3>1, <3>4, <3>5
  <2> QED
    BY <2>1, <2>2
<1>10. RoutedOnce'
  BY <1>2, <1>8 DEF SentOnce, RoutedOnce, Routing
<1>11. CopiesOnce'
  BY <1>2, <1>8 DEF SentOnce, CopiesOnce
<1> QED
  BY <1>2, <1>9, <1>10, <1>11 DEF SentOnce

\* A request that is taken was not routed before.
LEMMA SentTake ==
  ASSUME RpcInv, LogInv, TakesWhatIsThere, SentOnce, NEW t \in Pool, Take(t),
         Kind(job[t].reader) = "request"
  PROVE  SentOnce'
<1> DEFINE r == job[t].reader
           s == unread[r]
           k == [at |-> "route", reader |-> r, item |-> Head(s),
                 left |-> IF Head(s).req \in IllFormed THEN {} ELSE Rtps, to |-> 0, sent |-> 0]
<1>1. /\ job[t].at = "take" /\ UNCHANGED <<asked, copies>>
      /\ unread' = [unread EXCEPT ![r] = Tail(@)]
      /\ job' = [job EXCEPT ![t] = k]
  BY DEF Take, networkVars
<1>2. r \in RequestReaders /\ r \in Readers /\ s # <<>> /\ s \in Seq([req : Requests])
  <2>1. r \in Readers /\ s # <<>>
    BY <1>1, JobAt DEF TakesWhatIsThere, Idle, LogInv
  <2>2. s \in Seq(Items(r)) /\ Items(r) = [req : Requests]
    BY <2>1, UnreadNow DEF Items
  <2> QED
    BY <2>1, <2>2 DEF RequestReaders
<1>3. /\ Head(s) = s[1] /\ Head(s) \in [req : Requests] /\ 1 \in 1..Len(s)
      /\ \A i \in 1..Len(Tail(s)) : i + 1 \in 1..Len(s) /\ Tail(s)[i] = s[i + 1]
  BY <1>2, TailOf
<1>4. unread'[r] = Tail(s) /\ \A u \in RequestReaders : u # r => unread'[u] = unread[u]
  BY <1>1, <1>2 DEF RpcInv, RpcTypes, RequestReaders
<1>5. /\ job'[t] = k /\ \A u \in Pool \ {t} : job'[u] = job[u]
      /\ k.at = "route" /\ k.reader = r /\ k.item = s[1]
  BY <1>1, <1>3 DEF LogInv, DataTypes
<1> HIDE DEF k
<1> DEFINE q == s[1].req
<1>6. q \in Requests /\ q \in asked /\ Waits(q) /\ ClientAt[q] = At(r)
  BY <1>2, <1>3 DEF Waits, SentOnce, Queued
<1>7. \A x : Waits(x)' => Waits(x) /\ x # q
  <2> SUFFICES ASSUME NEW x, Waits(x)'
               PROVE  Waits(x) /\ x # q
    OBVIOUS
  <2>0. PICK u \in RequestReaders : \E i \in 1..Len(unread'[u]) : unread'[u][i].req = x
    BY DEF Waits
  <2>. PICK i \in 1..Len(unread'[u]) : unread'[u][i].req = x
    BY <2>0
  <2>1. CASE u = r
    <3>1. i + 1 \in 1..Len(s) /\ s[i + 1].req = x
      BY <1>3, <1>4, <2>1
    <3>2. i + 1 # 1
      OBVIOUS
    <3> QED
      BY <1>2, <1>3, <3>1, <3>2 DEF Waits, SentOnce, Queued
  <2>2. CASE u # r
    <3>1. i \in 1..Len(unread[u]) /\ unread[u][i].req = x
      BY <1>4, <2>2
    <3>2. ClientAt[x] = At(u) /\ At(u) # At(r)
      BY <1>2, <2>2, <3>1, SameReader DEF SentOnce, Queued
    <3> QED
      BY <1>6, <3>1, <3>2 DEF Waits
  <2> QED
    BY <2>1, <2>2
<1>8. Queued'
  <2>0. asked' = asked
    BY <1>1
  <2> SUFFICES ASSUME NEW u \in RequestReaders, NEW i \in 1..Len(unread'[u])
               PROVE  /\ unread'[u][i].req \in asked
                      /\ ClientAt[unread'[u][i].req] = At(u)
                      /\ \A j \in 1..Len(unread'[u]) : unread'[u][i].req = unread'[u][j].req => i = j
    BY <2>0 DEF Queued
  <2>1. CASE u # r
    BY <1>4, <2>1 DEF SentOnce, Queued
  <2>2. CASE u = r
    <3>1. i + 1 \in 1..Len(s) /\ unread'[u][i] = s[i + 1]
      BY <1>3, <1>4, <2>2
    <3>2. /\ s[i + 1].req \in asked /\ ClientAt[s[i + 1].req] = At(r)
          /\ \A j \in 1..Len(s) : s[i + 1].req = s[j].req => i + 1 = j
      BY <1>2, <3>1 DEF SentOnce, Queued
    <3>3. ASSUME NEW j \in 1..Len(unread'[u]), unread'[u][i].req = unread'[u][j].req
          PROVE  i = j
      <4>1. j + 1 \in 1..Len(s) /\ unread'[u][j] = s[j + 1]
        BY <1>3, <1>4, <2>2
      <4>2. i + 1 = j + 1
        BY <3>1, <3>2, <3>3, <4>1
      <4> QED
        BY <4>2
    <3> QED
      BY <2>2, <3>1, <3>2, <3>3
  <2> QED
    BY <2>1, <2>2
<1>9. CopiesOnce'
  BY <1>1, <1>7 DEF SentOnce, CopiesOnce
<1>10. RoutedOnce'
  <2> SUFFICES ASSUME NEW u \in Pool, NEW x \in Requests, Routing(u, x)'
               PROVE  /\ x \in asked /\ ~Waits(x)' /\ At(job'[u].reader) = ClientAt[x]
                      /\ \A c \in copies : c.req = x =>
                           c.via \notin job'[u].left \/ (job'[u].at = "add" /\ c.via <= job'[u].to)
    BY <1>1 DEF RoutedOnce
  <2>1. CASE u = t
    <3>1. x = q
      BY <1>5, <2>1 DEF Routing
    <3>2. \A c \in copies : c.req # q
      BY <1>6 DEF SentOnce, CopiesOnce
    <3> QED
      BY <1>5, <1>6, <1>7, <2>1, <3>1, <3>2
  <2>2. CASE u # t
    BY <1>5, <1>7, <2>2 DEF SentOnce, RoutedOnce, Routing
  <2> QED
    BY <2>1, <2>2
<1> QED
  BY <1>1, <1>8, <1>9, <1>10 DEF SentOnce

\* A request is written to the next of the participants that are left.
LEMMA SentWrite ==
  ASSUME RpcInv, LogInv, SentOnce, NEW t \in Pool, Write(t)
  PROVE  SentOnce'
<1> DEFINE p == Min(Routes(t))
           n == sentSeq[p] + 1
           q == job[t].item.req
<1>1. /\ job[t].at = "route" /\ job[t] \in RoutingJobs /\ q \in Requests
      /\ p \in Rtps /\ p \in job[t].left /\ p \in Nat
  BY NextRoute, JobAt DEF Write, RoutingJobs, LogInv
<1>2. UNCHANGED <<unread, asked>>
  BY DEF Write
<1>3. /\ copies' \subseteq copies \cup {Copy(p, n, q)}
      /\ copies \subseteq copies'
      /\ \/ job' = [job EXCEPT ![t] = [@ EXCEPT !.at = "add", !.to = p, !.sent = n]]
         \/ job' = [job EXCEPT ![t] = [@ EXCEPT !.at = "add", !.to = p]]
  BY DEF Write, Copy
<1> HIDE DEF p, n
<1>4. /\ \A u \in Pool \ {t} : job'[u] = job[u]
      /\ \/ job'[t] = [job[t] EXCEPT !.at = "add", !.to = p, !.sent = n]
         \/ job'[t] = [job[t] EXCEPT !.at = "add", !.to = p]
  BY <1>3 DEF LogInv, DataTypes
<1>5. /\ job'[t].at = "add" /\ job'[t].to = p /\ job'[t].item = job[t].item
      /\ job'[t].left = job[t].left /\ job'[t].reader = job[t].reader
  BY <1>1, <1>4 DEF RoutingJobs
<1>6. Copy(p, n, q).via = p /\ Copy(p, n, q).req = q
  BY DEF Copy
<1>7. /\ q \in asked /\ ~Waits(q) /\ At(job[t].reader) = ClientAt[q]
      /\ \A c \in copies : c.req = q => c.via \notin job[t].left
  BY <1>1 DEF SentOnce, RoutedOnce, Routing
<1>8. Queued' /\ \A x : Waits(x)' <=> Waits(x)
  BY <1>2 DEF SentOnce, Queued, Waits
<1>9. CopiesOnce'
  BY <1>1, <1>2, <1>3, <1>6, <1>7, <1>8 DEF SentOnce, CopiesOnce
<1>10. RoutedOnce'
  <2> SUFFICES ASSUME NEW u \in Pool, NEW x \in Requests, Routing(u, x)'
               PROVE  /\ x \in asked /\ ~Waits(x) /\ At(job'[u].reader) = ClientAt[x]
                      /\ \A c \in copies' : c.req = x =>
                           c.via \notin job'[u].left \/ (job'[u].at = "add" /\ c.via <= job'[u].to)
    BY <1>2, <1>8 DEF RoutedOnce
  <2>1. CASE u = t
    <3>1. x = q
      BY <1>5, <2>1 DEF Routing
    <3> QED
      BY <1>1, <1>3, <1>5, <1>6, <1>7, <2>1, <3>1
  <2>2. CASE u # t
    <3>1. job'[u] = job[u] /\ Routing(u, x)
      BY <1>4, <2>2 DEF Routing
    <3>2. x # q
      <4> SUFFICES ASSUME x = q PROVE FALSE
        OBVIOUS
      <4>1. job[u].reader \in RequestReaders /\ job[t].reader \in RequestReaders
        BY <1>1, <3>1, JobAt DEF Routing, RoutingJobs, LogInv
      <4>2. At(job[u].reader) = At(job[t].reader)
        BY <1>7, <3>1 DEF SentOnce, RoutedOnce
      <4>3. job[u].reader = job[t].reader
        BY <4>1, <4>2, SameReader
      <4>4. job[u] # Idle /\ job[t] # Idle
        BY <1>1, <3>1 DEF Routing, Idle
      <4> QED
        BY <2>2, <4>3, <4>4, OneRunner
    <3> QED
      BY <1>3, <1>6, <3>1, <3>2 DEF SentOnce, RoutedOnce
  <2> QED
    BY <2>1, <2>2
<1> QED
  BY <1>2, <1>8, <1>9, <1>10 DEF SentOnce

-----------------------------------------------------------------------------
(* Each client gets the reply to its request, once per participant           *)

\* The mutex of a registry is held by one thread.
OneAdds ==
  \A t, u \in Pool : job[t].at = "add" /\ job[u].at = "add" /\ job[t].to = job[u].to => t = u

\* Until its number is registered nobody deals with a reply to a request.
AddedFirst ==
  \A t \in Pool : \A p \in Rtps \ Limited, q \in Requests :
    job[t].at = "add" /\ job[t].to = p /\ job[t].item.req = q =>
      /\ \A e \in entries[p] : e[2] # q
      /\ \A u \in Pool : Replying(u, p) => job[u].client # q
      /\ answered[<<p, q, q>>] = 0

\* A request that was answered was sent, and its entry is about to be erased if it is there.
ErasedNext ==
  \A p \in Rtps \ Limited, q \in Requests : answered[<<p, q, q>>] > 0 =>
    /\ \E c \in copies : c.via = p /\ c.req = q
    /\ \A e \in entries[p] : e[2] = q =>
         \E t \in Pool : job[t].at = "erase" /\ Replying(t, p) /\ job[t].client = q

\* A reply is written for the first time.
FirstReply ==
  \A t \in Pool : \A p \in Rtps \ Limited :
    job[t].at = "answer" /\ Replying(t, p) => answered[<<p, job[t].client, job[t].client>>] = 0

AnsweredOnce ==
  OneAdds /\ AddedFirst /\ ErasedNext /\ FirstReply /\ EachClientItsReply

LEMMA AnsweredStart == Init => AnsweredOnce
<1> SUFFICES ASSUME Init PROVE AnsweredOnce
  OBVIOUS
<1>1. \A t \in Pool : job[t] = Idle
  BY DEF Init
<1>2. \A p \in Rtps, q, a \in Requests : answered[<<p, q, a>>] = 0
  BY DEF Init
<1> QED
  BY <1>1, <1>2 DEF AnsweredOnce, OneAdds, AddedFirst, ErasedNext, FirstReply,
                    EachClientItsReply, Idle, Replying

\* Steps that touch neither entries nor answers, in which no thread begins to register or to
\* reply, or was about to erase.
LEMMA AnsweredFrame ==
  ASSUME AnsweredOnce, UNCHANGED <<entries, answered>>, copies \subseteq copies',
         \A t \in Pool : \/ job'[t] = job[t]
                         \/ job[t].at # "erase" /\ job'[t].at \notin {"add", "answer", "erase"}
  PROVE  AnsweredOnce'
<1> USE DEF AnsweredOnce
<1>1. OneAdds' /\ EachClientItsReply'
  BY DEF OneAdds, EachClientItsReply
<1>2. AddedFirst' /\ FirstReply'
  BY DEF AddedFirst, FirstReply, Replying
<1>3. ErasedNext'
  BY DEF ErasedNext, Replying
<1> QED
  BY <1>1, <1>2, <1>3

\* Nobody has dealt yet with a reply to a request that is being written.
LEMMA AnsweredWrite ==
  ASSUME RpcInv, LogInv, SentOnce, AnsweredOnce, NEW t \in Pool, Write(t)
  PROVE  AnsweredOnce'
<1> USE DEF AnsweredOnce
<1> DEFINE p == Min(Routes(t))
           n == sentSeq[p] + 1
           q == job[t].item.req
<1>1. /\ job[t].at = "route" /\ job[t] \in RoutingJobs /\ q \in Requests
      /\ p \in Rtps /\ p \in job[t].left
  BY NextRoute, JobAt DEF Write, RoutingJobs, LogInv
<1>2. UNCHANGED <<entries, answered>> /\ copies \subseteq copies' /\ RegistryFree(p)
  BY DEF Write, historyVars
<1>3. \/ job' = [job EXCEPT ![t] = [@ EXCEPT !.at = "add", !.to = p, !.sent = n]]
      \/ job' = [job EXCEPT ![t] = [@ EXCEPT !.at = "add", !.to = p]]
  BY DEF Write
<1> HIDE DEF p, n
<1>4. /\ \A u \in Pool \ {t} : job'[u] = job[u]
      /\ \/ job'[t] = [job[t] EXCEPT !.at = "add", !.to = p, !.sent = n]
         \/ job'[t] = [job[t] EXCEPT !.at = "add", !.to = p]
  BY <1>3 DEF LogInv, DataTypes
<1>5. job'[t].at = "add" /\ job'[t].to = p /\ job'[t].item = job[t].item
  BY <1>1, <1>4 DEF RoutingJobs
<1>6. \A c \in copies : ~(c.via = p /\ c.req = q)
  BY <1>1 DEF SentOnce, RoutedOnce, Routing
<1>7. OneAdds'
  BY <1>2, <1>4, <1>5 DEF OneAdds, RegistryFree
<1>8. FirstReply' /\ EachClientItsReply'
  BY <1>2, <1>4, <1>5 DEF FirstReply, Replying, EachClientItsReply
<1>9. ErasedNext'
  BY <1>1, <1>2, <1>4 DEF ErasedNext, Replying
<1>10. ASSUME p \notin Limited
       PROVE  /\ \A e \in entries[p] : e[2] # q
              /\ \A u \in Pool : Replying(u, p) => job[u].client # q
              /\ answered[<<p, q, q>>] = 0
  <2>1. ASSUME NEW e \in entries[p] PROVE e[2] # q
    <3>1. Copy(p, e[1], e[2]) \in copies
      BY <1>1, <1>10 DEF LogInv, RegisteredWasSent
    <3> QED
      BY <1>6, <3>1 DEF Copy
  <2>2. ASSUME NEW u \in Pool, Replying(u, p) PROVE job[u].client # q
    <3>1. job[u].item.via = p /\ job[u].client = job[u].item.req
      BY <1>1, <1>10, <2>2 DEF LogInv, ReplyHasClient
    <3>2. job[u].item \in copies
      BY <2>2 DEF LogInv, RepliesAreToCopies, Replying
    <3> QED
      BY <1>6, <3>1, <3>2
  <2>3. answered[<<p, q, q>>] \in Nat
    BY <1>1 DEF LogInv, DataTypes
  <2>4. ~(answered[<<p, q, q>>] > 0)
    BY <1>1, <1>6, <1>10 DEF ErasedNext
  <2> QED
    BY <2>1, <2>2, <2>3, <2>4
<1>11. AddedFirst'
  <2> SUFFICES ASSUME NEW u \in Pool, NEW o \in Rtps \ Limited, NEW x \in Requests,
                      job'[u].at = "add", job'[u].to = o, job'[u].item.req = x
               PROVE  /\ \A e \in entries[o] : e[2] # x
                      /\ \A v \in Pool : Replying(v, o)' => job'[v].client # x
                      /\ answered[<<o, x, x>>] = 0
    BY <1>2 DEF AddedFirst
  <2>1. \A v \in Pool : Replying(v, o)' => Replying(v, o) /\ job'[v] = job[v]
    BY <1>4, <1>5 DEF Replying
  <2>2. CASE u = t
    BY <1>5, <1>10, <2>1, <2>2
  <2>3. CASE u # t
    BY <1>4, <2>1, <2>3 DEF AddedFirst
  <2> QED
    BY <2>2, <2>3
<1> QED
  BY <1>7, <1>8, <1>9, <1>11

\* The request whose entry is added was not answered.
LEMMA AnsweredAdd ==
  ASSUME LogInv, AnsweredOnce, NEW t \in Pool, Add(t)
  PROVE  AnsweredOnce'
<1> USE DEF AnsweredOnce
<1> DEFINE p == job[t].to
           n == job[t].sent
           q == job[t].item.req
           grown == entries[p] \cup {<<n, q>>}
<1>1. job[t].at = "add" /\ UNCHANGED <<copies, answered>>
  BY DEF Add, networkVars
<1>2. /\ p \in Rtps /\ q \in Requests
      /\ \A x \in Rtps \ {p} : entries'[x] = entries[x]
      /\ entries'[p] \subseteq grown
      /\ \E k \in RoutingJobs : k.at = "route" /\ job' = [job EXCEPT ![t] = k]
  BY Registers DEF LogInv
<1>3. job'[t].at = "route" /\ \A u \in Pool \ {t} : job'[u] = job[u]
  BY <1>2 DEF LogInv, DataTypes
<1>4. OneAdds' /\ FirstReply' /\ EachClientItsReply'
  BY <1>1, <1>3 DEF OneAdds, FirstReply, Replying, EachClientItsReply
<1>5. AddedFirst'
  <2> SUFFICES ASSUME NEW u \in Pool, NEW o \in Rtps \ Limited, NEW x \in Requests,
                      job'[u].at = "add", job'[u].to = o, job'[u].item.req = x
               PROVE  /\ \A e \in entries'[o] : e[2] # x
                      /\ \A v \in Pool : Replying(v, o)' => job'[v].client # x
                      /\ answered'[<<o, x, x>>] = 0
    BY DEF AddedFirst
  <2>1. u # t /\ job'[u] = job[u] /\ o # p
    BY <1>1, <1>3 DEF OneAdds
  <2>2. \A v \in Pool : Replying(v, o)' => Replying(v, o) /\ job'[v] = job[v]
    BY <1>3 DEF Replying
  <2> QED
    BY <1>1, <1>2, <2>1, <2>2 DEF AddedFirst
<1>6. ErasedNext'
  <2> SUFFICES ASSUME NEW o \in Rtps \ Limited, NEW x \in Requests, answered[<<o, x, x>>] > 0
               PROVE  /\ \E c \in copies : c.via = o /\ c.req = x
                      /\ \A e \in entries'[o] : e[2] = x =>
                           \E u \in Pool : /\ job'[u].at = "erase" /\ Replying(u, o)'
                                           /\ job'[u].client = x
    BY <1>1 DEF ErasedNext
  <2>1. \E c \in copies : c.via = o /\ c.req = x
    BY DEF ErasedNext
  <2>2. ASSUME NEW e \in entries'[o], e[2] = x
        PROVE  e \in entries[o]
    <3>1. CASE o # p
      BY <1>2, <3>1
    <3>2. CASE o = p
      <4>1. x # q
        BY <1>1, <1>2, <3>2 DEF AddedFirst
      <4> QED
        BY <1>2, <2>2, <3>2, <4>1
    <3> QED
      BY <3>1, <3>2
  <2>3. \A u \in Pool : job[u].at = "erase" => job'[u] = job[u]
    BY <1>1, <1>3
  <2>4. ASSUME NEW e \in entries'[o], e[2] = x
        PROVE  \E u \in Pool : job'[u].at = "erase" /\ Replying(u, o)' /\ job'[u].client = x
    <3>1. PICK u \in Pool : job[u].at = "erase" /\ Replying(u, o) /\ job[u].client = x
      BY <2>2, <2>4 DEF ErasedNext
    <3> QED
      BY <2>3, <3>1 DEF Replying
  <2> QED
    BY <2>1, <2>4
<1> QED
  BY <1>4, <1>5, <1>6

\* Threads that deal with replies from one participant are one.
LEMMA OneReplies ==
  ASSUME RpcInv, LogInv, NEW t \in Pool, NEW u \in Pool,
         job[t].at \in {"get", "answer", "erase"}, job[u].at \in {"get", "answer", "erase"},
         At(job[t].reader) = At(job[u].reader)
  PROVE  t = u
<1>1. job[t].reader \in ReplyReaders /\ job[u].reader \in ReplyReaders
  BY JobAt DEF LogInv, GetJobs, ReplyingJobs
<1> QED
  BY <1>1, SameReader, OneRunner DEF Idle

\* A reply that finds an entry is the first: the one that answered would be about to erase
\* the entry, in the task of the same reader.
LEMMA AnsweredGet ==
  ASSUME RpcInv, LogInv, AnsweredOnce, NEW t \in Pool, Get(t)
  PROVE  AnsweredOnce'
<1> USE DEF AnsweredOnce
<1> DEFINE p == At(job[t].reader)
<1>1. job[t].at = "get" /\ p \in Rtps /\ RegistryFree(p) /\ UNCHANGED <<entries, copies, answered>>
  BY JobAt, ReaderAt DEF Get, LogInv, Idle, networkVars
<1>2. CASE Again(t)
  <2>1. job'[t].at = "loop" /\ \A u \in Pool \ {t} : job'[u] = job[u]
    BY <1>2 DEF Again, LogInv, DataTypes
  <2> QED
    BY <1>1, <2>1, AnsweredFrame
<1>3. ASSUME NEW e \in entries[p],
             job' = [job EXCEPT ![t] = [at |-> "answer", reader |-> @.reader,
                                        item |-> @.item, client |-> e[2]]]
      PROVE  AnsweredOnce'
  <2>1. /\ job'[t].at = "answer" /\ At(job'[t].reader) = p /\ job'[t].client = e[2]
        /\ \A u \in Pool \ {t} : job'[u] = job[u]
    BY <1>3 DEF LogInv, DataTypes
  <2>2. OneAdds' /\ EachClientItsReply'
    BY <1>1, <2>1 DEF OneAdds, EachClientItsReply
  <2>3. AddedFirst'
    BY <1>1, <2>1 DEF AddedFirst, Replying, RegistryFree
  <2>4. ErasedNext'
    BY <1>1, <2>1 DEF ErasedNext, Replying
  <2>5. p \notin Limited => answered[<<p, e[2], e[2]>>] = 0
    <3> SUFFICES ASSUME p \notin Limited, answered[<<p, e[2], e[2]>>] # 0 PROVE FALSE
      OBVIOUS
    <3>1. e[2] \in Requests
      BY <1>1, <1>3 DEF LogInv, DataTypes
    <3>2. answered[<<p, e[2], e[2]>>] > 0
      BY <1>1, <3>1 DEF LogInv, DataTypes
    <3>3. PICK u \in Pool : job[u].at = "erase" /\ Replying(u, p)
      BY <1>1, <1>3, <3>1, <3>2 DEF ErasedNext
    <3>4. u = t
      BY <1>1, <3>3, OneReplies DEF Replying
    <3> QED
      BY <1>1, <3>3, <3>4
  <2>6. FirstReply'
    BY <1>1, <2>1, <2>5 DEF FirstReply, Replying
  <2> QED
    BY <2>2, <2>3, <2>4, <2>6
<1> QED
  BY <1>2, <1>3 DEF Get

LEMMA AnsweredAnswer ==
  ASSUME RpcInv, LogInv, AnsweredOnce, NEW t \in Pool, Answer(t)
  PROVE  AnsweredOnce'
<1> USE DEF AnsweredOnce
<1> DEFINE p == At(job[t].reader)
           q == job[t].client
           a == job[t].item.req
           k == [job[t] EXCEPT !.at = "erase"]
<1>1. /\ job[t].at = "answer" /\ job[t] \in ReplyingJobs /\ p \in Rtps
      /\ q \in Requests /\ a \in Requests
      /\ job[t].item \in copies /\ job[t].item.via = p
      /\ p \notin Limited => q = a
  BY JobAt, ReaderAt DEF Answer, LogInv, ReplyingJobs, ReplyReaders, Replies,
                         RepliesAreToCopies, ReplyHasClient, Replying
<1>2. UNCHANGED <<entries, copies>> /\ job' = [job EXCEPT ![t] = k]
  BY DEF Answer, Goto, networkVars, LogInv, DataTypes
<1>3. /\ k.at = "erase" /\ k.reader = job[t].reader /\ k.item = job[t].item
      /\ k.client = job[t].client
  BY <1>1 DEF ReplyingJobs
<1> HIDE DEF k
<1>4. job'[t] = k /\ \A u \in Pool \ {t} : job'[u] = job[u]
  BY <1>2 DEF LogInv, DataTypes
<1>5. /\ \A y \in Rtps \X Requests \X Requests : y # <<p, q, a>> => answered'[y] = answered[y]
      /\ answered'[<<p, q, a>>] \in {answered[<<p, q, a>>], answered[<<p, q, a>>] + 1}
  <2>1. <<p, q, a>> \in Rtps \X Requests \X Requests
    BY <1>1
  <2> QED
    BY <2>1 DEF Answer, LogInv, DataTypes
<1>6. OneAdds'
  BY <1>1, <1>3, <1>4 DEF OneAdds
<1>7. \A u \in Pool, o \in Rtps : Replying(u, o)' <=> Replying(u, o)
  BY <1>1, <1>3, <1>4 DEF Replying
<1>8. Replying(t, p) /\ \A u \in Pool : job'[u].at # "erase" /\ Replying(u, p) => u = t
  BY <1>1, <1>4, OneReplies DEF Replying
<1>9. p \notin Limited => answered[<<p, q, q>>] = 0 /\ answered'[<<p, q, q>>] <= 1
  BY <1>1, <1>5, <1>8 DEF FirstReply
<1>10. \A o \in Rtps \ Limited, x \in Requests :
         (o # p \/ x # q) => answered'[<<o, x, x>>] = answered[<<o, x, x>>]
  <2> SUFFICES ASSUME NEW o \in Rtps \ Limited, NEW x \in Requests, o # p \/ x # q
               PROVE  answered'[<<o, x, x>>] = answered[<<o, x, x>>]
    OBVIOUS
  <2>1. <<o, x, x>> \in Rtps \X Requests \X Requests /\ <<o, x, x>> # <<p, q, a>>
    OBVIOUS
  <2> QED
    BY <1>5, <2>1
<1>11. AddedFirst'
  <2> SUFFICES ASSUME NEW u \in Pool, NEW o \in Rtps \ Limited, NEW x \in Requests,
                      job'[u].at = "add", job'[u].to = o, job'[u].item.req = x
               PROVE  /\ \A e \in entries'[o] : e[2] # x
                      /\ \A v \in Pool : Replying(v, o)' => job'[v].client # x
                      /\ answered'[<<o, x, x>>] = 0
    BY DEF AddedFirst
  <2>1. job'[u] = job[u]
    BY <1>3, <1>4
  <2>2. /\ \A e \in entries[o] : e[2] # x
        /\ \A v \in Pool : Replying(v, o) => job[v].client # x
        /\ answered[<<o, x, x>>] = 0
    BY <2>1 DEF AddedFirst
  <2>3. \A v \in Pool : job'[v].client = job[v].client
    BY <1>3, <1>4
  <2>4. o # p \/ x # q
    BY <1>8, <2>2
  <2> QED
    BY <1>2, <1>7, <1>10, <2>2, <2>3, <2>4
<1>12. ErasedNext'
  <2> SUFFICES ASSUME NEW o \in Rtps \ Limited, NEW x \in Requests, answered'[<<o, x, x>>] > 0
               PROVE  /\ \E c \in copies : c.via = o /\ c.req = x
                      /\ \A e \in entries[o] : e[2] = x =>
                           \E u \in Pool : /\ job'[u].at = "erase" /\ Replying(u, o)'
                                           /\ job'[u].client = x
    BY <1>2 DEF ErasedNext
  <2>1. CASE o = p /\ x = q
    <3>1. \E c \in copies : c.via = o /\ c.req = x
      BY <1>1, <2>1
    <3>2. job'[t].at = "erase" /\ Replying(t, o)' /\ job'[t].client = x
      BY <1>3, <1>4, <1>7, <1>8, <2>1
    <3> QED
      BY <3>1, <3>2
  <2>2. CASE o # p \/ x # q
    <3>1. answered[<<o, x, x>>] > 0
      BY <1>10, <2>2
    <3>2. \A u \in Pool : job[u].at = "erase" => job'[u] = job[u]
      BY <1>1, <1>4
    <3>3. \E c \in copies : c.via = o /\ c.req = x
      BY <3>1 DEF ErasedNext
    <3>4. ASSUME NEW e \in entries[o], e[2] = x
          PROVE  \E u \in Pool : job'[u].at = "erase" /\ Replying(u, o)' /\ job'[u].client = x
      <4>1. PICK u \in Pool : job[u].at = "erase" /\ Replying(u, o) /\ job[u].client = x
        BY <3>1, <3>4 DEF ErasedNext
      <4> QED
        BY <1>7, <3>2, <4>1
    <3> QED
      BY <3>3, <3>4
  <2> QED
    BY <2>1, <2>2
<1>13. FirstReply'
  <2> SUFFICES ASSUME NEW u \in Pool, NEW o \in Rtps \ Limited, job'[u].at = "answer", Replying(u, o)'
               PROVE  answered'[<<o, job'[u].client, job'[u].client>>] = 0
    BY DEF FirstReply
  <2>1. u # t /\ job'[u] = job[u] /\ Replying(u, o)
    BY <1>3, <1>4, <1>7
  <2>2. o # p
    BY <1>8, <2>1
  <2>3. job[u].client \in Requests
    BY <2>1, JobAt DEF LogInv, ReplyingJobs
  <2> QED
    BY <1>10, <2>1, <2>2, <2>3 DEF FirstReply
<1>14. EachClientItsReply'
  <2> SUFFICES ASSUME NEW o \in Rtps \ Limited, NEW x \in Requests, NEW y \in Requests
               PROVE  answered'[<<o, x, y>>] <= IF x = y THEN 1 ELSE 0
    BY DEF EachClientItsReply
  <2>1. CASE <<o, x, y>> = <<p, q, a>>
    <3>1. o = p /\ x = q /\ y = a
      BY <2>1
    <3> QED
      BY <1>1, <1>9, <3>1
  <2>2. CASE <<o, x, y>> # <<p, q, a>>
    BY <1>5, <2>2 DEF EachClientItsReply
  <2> QED
    BY <2>1, <2>2
<1> QED
  BY <1>6, <1>11, <1>12, <1>13, <1>14

LEMMA AnsweredErase ==
  ASSUME RpcInv, LogInv, SentOnce, AnsweredOnce, NEW t \in Pool, Erase(t)
  PROVE  AnsweredOnce'
<1> USE DEF AnsweredOnce
<1> DEFINE p == At(job[t].reader)
           item == job[t].item
<1>1. /\ job[t].at = "erase" /\ p \in Rtps /\ item \in copies /\ item.via = p
      /\ p \notin Limited => job[t].client = item.req
      /\ UNCHANGED <<copies, answered>>
  <2>1. job[t].at = "erase" /\ UNCHANGED <<copies, answered>>
    BY DEF Erase, networkVars, historyVars
  <2>2. p \in Rtps /\ item \in copies
    BY <2>1, JobAt, ReaderAt DEF LogInv, Idle, RepliesAreToCopies
  <2>3. item.via = p /\ (p \notin Limited => job[t].client = item.req)
    BY <2>1, <2>2 DEF LogInv, ReplyHasClient, Replying
  <2> QED
    BY <2>1, <2>2, <2>3
<1>2. job'[t].at = "loop" /\ \A u \in Pool \ {t} : job'[u] = job[u]
  BY DEF Erase, Again, LogInv, DataTypes
<1>3. /\ \A o \in Rtps : entries'[o] \subseteq entries[o]
      /\ \A e \in entries'[p] : e[1] # item.seq
  BY <1>1 DEF Erase, LogInv, DataTypes
<1>4. OneAdds' /\ EachClientItsReply'
  BY <1>1, <1>2 DEF OneAdds, EachClientItsReply
<1>5. AddedFirst' /\ FirstReply'
  BY <1>1, <1>2, <1>3 DEF AddedFirst, FirstReply, Replying
<1>6. ASSUME NEW o \in Rtps \ Limited, NEW x \in Requests, answered[<<o, x, x>>] > 0,
             NEW e \in entries'[o], e[2] = x
      PROVE  \E u \in Pool : job'[u].at = "erase" /\ Replying(u, o)' /\ job'[u].client = x
  <2>1. PICK u \in Pool : job[u].at = "erase" /\ Replying(u, o) /\ job[u].client = x
    BY <1>3, <1>6 DEF ErasedNext
  <2>2. u # t
    <3> SUFFICES ASSUME u = t PROVE FALSE
      OBVIOUS
    <3>1. o = p /\ x = item.req
      BY <1>1, <2>1 DEF Replying
    <3>2. Copy(p, e[1], e[2]) \in copies
      BY <1>3, <1>6, <3>1 DEF LogInv, RegisteredWasSent
    <3>3. Copy(p, e[1], e[2]) = item
      BY <1>1, <1>6, <3>1, <3>2 DEF SentOnce, CopiesOnce, Copy
    <3> QED
      BY <1>3, <1>6, <3>1, <3>3 DEF Copy
  <2> QED
    BY <1>2, <2>1, <2>2 DEF Replying
<1>7. ErasedNext'
  BY <1>1, <1>6 DEF ErasedNext
<1> QED
  BY <1>4, <1>5, <1>7

LEMMA OnceStep ==
  ASSUME RpcInv, LogInv, TakesWhatIsThere, SentOnce, AnsweredOnce, [Next]_vars
  PROVE  SentOnce' /\ AnsweredOnce'
<1> USE DEF LogInv
<1>0. \A r \in RequestReaders : r \in Readers /\ r \notin ReplyReaders /\ Kind(r) = "request"
  BY DEF RequestReaders, ReplyReaders
<1>1. CASE \/ EnableStart \/ InitFails \/ Disable \/ CallStep
           \/ \E p \in Participants, s \in Servers : Discovered(p, s) \/ Removed(p, s)
           \/ \E t \in Pool : TakeNothing(t)
           \/ UNCHANGED vars
  <2>1. UNCHANGED <<job, unread, entries, copies, asked, answered>>
    BY <1>1 DEF EnableStart, InitFails, Disable, CallStep, EnableWriters, EnableReader,
                DisableRest, Discovered, Removed, TakeNothing, vars, networkVars, historyVars
  <2> QED
    BY <2>1, SentFrame, AnsweredFrame
<1>2. ASSUME NEW q \in Requests, ClientSends(q)
      PROVE  SentOnce' /\ AnsweredOnce'
  <2>1. UNCHANGED <<job, entries, copies, answered>>
    BY <1>2 DEF ClientSends, historyVars
  <2> QED
    BY <1>2, <2>1, SentAsk, AnsweredFrame DEF RpcInv
<1>3. ASSUME NEW s \in Servers, NEW c \in copies, NEW p \in Rtps, ServerReplies(s, c, p)
      PROVE  SentOnce' /\ AnsweredOnce'
  <2>1. UNCHANGED <<job, entries, copies, asked, answered>>
    BY <1>3 DEF ServerReplies, historyVars
  <2>2. unread' = [unread EXCEPT ![<<"reply", p>>] = Append(@, c)]
    BY <1>3 DEF ServerReplies, Arrives
  <2>3. \A r \in RequestReaders : unread'[r] = unread[r]
    BY <1>0, <2>2 DEF RpcInv, RpcTypes, Kind
  <2> QED
    BY <2>1, <2>3, SentFrame, AnsweredFrame
<1>4. ASSUME NEW t \in Pool,
             StartTask(t) \/ Loop(t) \/ IgnoreReply(t) \/ AnswerFails(t) \/ WriteFails(t)
      PROVE  SentOnce' /\ AnsweredOnce'
  <2>1. /\ job[t].at \notin {"add", "erase"}
        /\ UNCHANGED <<unread, entries, copies, asked, answered>>
    BY <1>4, Moves DEF historyVars
  <2>2. PICK k \in Jobs : /\ k.at \in {"idle", "loop", "take", "route"}
                          /\ k.at = "route" => /\ job[t].at = "route"
                                               /\ k.item = job[t].item
                                               /\ k.reader = job[t].reader
                                               /\ k.left \subseteq job[t].left
                          /\ job' = [job EXCEPT ![t] = k]
    BY <1>4, Moves
  <2>3. job'[t] = k /\ \A u \in Pool \ {t} : job'[u] = job[u]
    BY <2>2 DEF DataTypes
  <2>4. \A u \in Pool :
          \/ job'[u] = job[u]
          \/ job'[u].at \notin {"route", "add"}
          \/ /\ job'[u].at = "route" /\ job[u].at \in {"route", "add"}
             /\ job'[u].item = job[u].item /\ job'[u].reader = job[u].reader
             /\ \A x \in job'[u].left : x \in job[u].left /\ (job[u].at = "add" => x > job[u].to)
    BY <2>1, <2>2, <2>3
  <2>5. \A u \in Pool : \/ job'[u] = job[u]
                        \/ job[u].at # "erase" /\ job'[u].at \notin {"add", "answer", "erase"}
    BY <2>1, <2>2, <2>3
  <2> QED
    BY <1>0, <2>1, <2>4, <2>5, SentFrame, AnsweredFrame
<1>5. ASSUME NEW t \in Pool, Take(t)
      PROVE  SentOnce' /\ AnsweredOnce'
  <2> DEFINE r == job[t].reader
  <2>1. /\ job[t].at = "take" /\ job'[t].at \in {"route", "get"}
        /\ Kind(r) # "request" => job'[t].at = "get"
        /\ unread' = [unread EXCEPT ![r] = Tail(@)]
        /\ \A u \in Pool \ {t} : job'[u] = job[u]
        /\ UNCHANGED <<entries, copies, asked, answered>>
    BY <1>5 DEF Take, DataTypes, networkVars, historyVars
  <2>2. AnsweredOnce'
    BY <2>1, AnsweredFrame
  <2>3. CASE Kind(r) # "request"
    <3>1. \A s \in RequestReaders : unread'[s] = unread[s]
      BY <1>0, <2>1, <2>3 DEF RpcInv, RpcTypes
    <3> QED
      BY <2>1, <2>2, <2>3, <3>1, SentFrame
  <2> QED
    BY <1>5, <2>2, <2>3, SentTake
<1>6. ASSUME NEW t \in Pool, Write(t)
      PROVE  SentOnce' /\ AnsweredOnce'
  BY <1>6, SentWrite, AnsweredWrite
<1>7. ASSUME NEW t \in Pool, Add(t)
      PROVE  SentOnce' /\ AnsweredOnce'
  <2>1. job[t].at = "add" /\ UNCHANGED <<unread, copies, asked>>
    BY <1>7 DEF Add, networkVars
  <2>2. PICK k \in RoutingJobs :
          /\ k.at = "route" /\ k.item = job[t].item /\ k.reader = job[t].reader
          /\ \A x \in k.left : x \in job[t].left /\ x > job[t].to
          /\ job' = [job EXCEPT ![t] = k]
    BY <1>7, Registers
  <2>3. job'[t] = k /\ \A u \in Pool \ {t} : job'[u] = job[u]
    BY <2>2 DEF DataTypes
  <2>4. SentOnce'
    BY <1>0, <2>1, <2>2, <2>3, SentFrame
  <2> QED
    BY <1>7, <2>4, AnsweredAdd
<1>8. ASSUME NEW t \in Pool, Get(t) \/ Answer(t) \/ Erase(t)
      PROVE  SentOnce' /\ AnsweredOnce'
  <2>1. UNCHANGED <<unread, copies, asked>> /\ \A u \in Pool \ {t} : job'[u] = job[u]
    BY <1>8 DEF Get, Answer, Erase, Goto, Again, DataTypes, networkVars
  <2>2. job'[t].at \notin {"route", "add"}
    <3>1. CASE Answer(t)
      <4>1. job[t] \in ReplyingJobs /\ job' = [job EXCEPT ![t].at = "erase"]
        BY <3>1, JobAt DEF Answer, Goto
      <4> QED
        BY <4>1 DEF DataTypes, ReplyingJobs
    <3>2. CASE Get(t) \/ Erase(t)
      BY <3>2 DEF Get, Erase, Again, DataTypes
    <3> QED
      BY <1>8, <3>1, <3>2
  <2>3. SentOnce'
    BY <1>0, <2>1, <2>2, SentFrame
  <2> QED
    BY <1>8, <2>3, AnsweredGet, AnsweredAnswer, AnsweredErase
<1> QED
  BY <1>1, <1>2, <1>3, <1>4, <1>5, <1>6, <1>7, <1>8 DEF Next, Step, PoolStep

LEMMA OnceInvariant ==
  Spec => [](RpcInv /\ LogInv /\ TakesWhatIsThere /\ SentOnce /\ AnsweredOnce)
<1>1. Init => RpcInv /\ LogInv /\ TakesWhatIsThere /\ SentOnce /\ AnsweredOnce
  BY RpcInitially, LogStart, SentStart, AnsweredStart
<1>2. RpcInv /\ LogInv /\ TakesWhatIsThere /\ SentOnce /\ AnsweredOnce /\ [Next]_vars
        => RpcInv' /\ LogInv' /\ TakesWhatIsThere' /\ SentOnce' /\ AnsweredOnce'
  BY RpcStep, LogStep, TakesKept, OnceStep
<1> QED
  BY <1>1, <1>2, PTL DEF Spec

\* What answers a request is a reply to it, and one per participant it went through, for any
\* number of servers, requests and threads: once a reply is written, the next finds no entry,
\* since replies of one participant are dealt with one after the other.
THEOREM EachClientCorrect == Spec => []EachClientItsReply
BY OnceInvariant, PTL DEF AnsweredOnce

-----------------------------------------------------------------------------
(* Types *)

\* A registry has room for the entry that comes next.
RoomLeft ==
  \A p \in Rtps : IsFiniteSet(entries[p]) /\ Cardinality(entries[p]) < MaxEntries

RestTypes ==
  /\ init \in BOOLEAN /\ crashed \in BOOLEAN /\ writersOn \in BOOLEAN
  /\ servers \subseteq Contacts
  /\ registered \subseteq Rtps
  /\ replied \subseteq Servers \X Replies \X Rtps
  /\ evicted \subseteq Rtps \X Requests
  /\ RoomLeft

LEMMA RestStart == Init => RestTypes
<1> SUFFICES ASSUME Init PROVE RestTypes
  OBVIOUS
<1>1. RoomLeft
  BY FS_EmptySet, RpcAssumption DEF Init, RoomLeft
<1> QED
  BY <1>1 DEF Init, RestTypes

LEMMA RoomKept ==
  ASSUME DataTypes, RegisteredWasSent, RoomLeft, NEW t \in Pool, Add(t)
  PROVE  RoomLeft' /\ (evicted \subseteq Rtps \X Requests => evicted' \subseteq Rtps \X Requests)
<1> DEFINE p == job[t].to
           entry == <<job[t].sent, job[t].item.req>>
           grown == entries[p] \cup {entry}
<1>1. p \in Rtps /\ grown \in SUBSET (Nat \X Requests) /\ grown # {}
  <2>1. p \in Rtps /\ entry \in Nat \X Requests
    BY Registers
  <2> QED
    BY <2>1 DEF DataTypes
<1> HIDE DEF entry
<1>2. Oldest(grown) \in grown /\ Oldest(grown)[2] \in Requests
  BY <1>1, OldestIsEntry
<1>3. IsFiniteSet(entries[p]) /\ Cardinality(entries[p]) \in Nat /\ Cardinality(entries[p]) < MaxEntries
  BY <1>1, FS_CardinalityType DEF RoomLeft
<1>4. /\ IsFiniteSet(grown) /\ Cardinality(grown) \in Nat
      /\ Cardinality(grown) <= Cardinality(entries[p]) + 1
  <2>1. IsFiniteSet(grown) /\ Cardinality(grown)
          = IF entry \in entries[p] THEN Cardinality(entries[p]) ELSE Cardinality(entries[p]) + 1
    BY <1>3, FS_AddElement
  <2> HIDE DEF grown
  <2> QED
    BY <1>3, <2>1
<1> DEFINE rest == grown \ {Oldest(grown)}
<1> HIDE DEF grown
<1>5. IsFiniteSet(rest) /\ Cardinality(rest) = Cardinality(grown) - 1
  BY <1>2, <1>4, FS_RemoveElement
<1>6. \/ UNCHANGED <<entries, evicted>>
      \/ /\ entries' = [entries EXCEPT ![p] = IF Full(grown) THEN rest ELSE grown]
         /\ evicted' = IF Full(grown) THEN evicted \cup {<<p, Oldest(grown)[2]>>} ELSE evicted
  BY DEF Add, grown, entry
<1>7. MaxEntries \in Nat \ {0}
  BY RpcAssumption
<1>8. RoomLeft'
  <2>1. CASE UNCHANGED entries
    BY <2>1 DEF RoomLeft
  <2>2. CASE entries' = [entries EXCEPT ![p] = IF Full(grown) THEN rest ELSE grown]
    <3> DEFINE new == IF Full(grown) THEN rest ELSE grown
    <3>1. IsFiniteSet(new) /\ Cardinality(new) < MaxEntries
      BY <1>3, <1>4, <1>5, <1>7 DEF Full
    <3> HIDE DEF new
    <3>2. entries' = [entries EXCEPT ![p] = new]
      BY <2>2 DEF new
    <3>3. \A o \in Rtps : entries'[o] = IF o = p THEN new ELSE entries[o]
      BY <3>2 DEF DataTypes
    <3> QED
      BY <3>1, <3>3 DEF RoomLeft
  <2> QED
    BY <1>6, <2>1, <2>2
<1>9. evicted \subseteq Rtps \X Requests => evicted' \subseteq Rtps \X Requests
  BY <1>1, <1>2, <1>6
<1> QED
  BY <1>8, <1>9

LEMMA RestStep ==
  ASSUME LogInv, RestTypes, [Next]_vars
  PROVE  RestTypes'
<1> USE DEF RestTypes
<1>1. CASE UNCHANGED vars
  BY <1>1 DEF vars, bridgeVars, endpointVars, networkVars, historyVars, RoomLeft
<1>2. CASE EnableStart \/ InitFails \/ Disable \/ CallStep
  BY <1>2 DEF EnableStart, InitFails, Disable, CallStep, EnableWriters, EnableReader,
              DisableRest, bridgeVars, endpointVars, networkVars, historyVars, RoomLeft
<1>3. ASSUME NEW p \in Participants, NEW s \in Servers, <<p, s>> \in Contacts,
             Discovered(p, s) \/ Removed(p, s)
      PROVE  RestTypes'
  BY <1>3 DEF Discovered, Removed, endpointVars, networkVars, historyVars, RoomLeft
<1>4. ASSUME NEW q \in Requests, ClientSends(q) PROVE RestTypes'
  BY <1>4 DEF ClientSends, bridgeVars, endpointVars, historyVars, RoomLeft
<1>5. ASSUME NEW s \in Servers, NEW c \in copies, NEW p \in Rtps, ServerReplies(s, c, p)
      PROVE  RestTypes'
  <2>1. <<s, c, p>> \in Servers \X Replies \X Rtps
    BY DEF LogInv, DataTypes
  <2> QED
    BY <1>5, <2>1 DEF ServerReplies, bridgeVars, endpointVars, historyVars, RoomLeft
<1>6. ASSUME NEW t \in Pool, PoolStep(t) PROVE RestTypes'
  <2>1. /\ UNCHANGED <<init, writersOn, servers, registered, replied>> /\ crashed' \in BOOLEAN
    BY <1>6 DEF PoolStep, StartTask, Loop, TakeNothing, Take, Write, WriteFails, Add, IgnoreReply,
                Get, Answer, AnswerFails, Erase, bridgeVars, endpointVars, networkVars
  <2>2. CASE Add(t)
    BY <2>1, <2>2, RoomKept DEF LogInv
  <2>3. CASE Erase(t)
    <3>1. evicted' = evicted
      BY <2>3 DEF Erase, historyVars
    <3>2. \A p \in Rtps : entries'[p] \subseteq entries[p]
      BY <2>3 DEF Erase, LogInv, DataTypes
    <3>3. \A p \in Rtps : IsFiniteSet(entries'[p]) /\ Cardinality(entries'[p]) < MaxEntries
      <4> SUFFICES ASSUME NEW p \in Rtps
                   PROVE  IsFiniteSet(entries'[p]) /\ Cardinality(entries'[p]) < MaxEntries
        OBVIOUS
      <4>1. IsFiniteSet(entries[p]) /\ Cardinality(entries[p]) < MaxEntries
        BY DEF RoomLeft
      <4>2. IsFiniteSet(entries'[p]) /\ Cardinality(entries'[p]) <= Cardinality(entries[p])
        BY <3>2, <4>1, FS_Subset
      <4>3. /\ Cardinality(entries[p]) \in Nat /\ Cardinality(entries'[p]) \in Nat
            /\ MaxEntries \in Nat
        BY <4>1, <4>2, FS_CardinalityType, RpcAssumption
      <4> QED
        BY <4>1, <4>2, <4>3
    <3> QED
      BY <2>1, <3>1, <3>3 DEF RoomLeft
  <2>4. CASE ~Add(t) /\ ~Erase(t)
    <3>1. UNCHANGED <<entries, evicted>>
      BY <1>6, <2>4 DEF PoolStep, StartTask, Loop, TakeNothing, Take, Write, WriteFails,
                        IgnoreReply, Get, Answer, AnswerFails, historyVars
    <3> QED
      BY <2>1, <3>1 DEF RoomLeft
  <2> QED
    BY <2>2, <2>3, <2>4
<1> QED
  BY <1>1, <1>2, <1>3, <1>4, <1>5, <1>6 DEF Next, Step

\* Every reachable state of a bridge and its registries is well typed; a registry never
\* holds as many entries as it may.
THEOREM RpcTypeCorrect == Spec => []TypeOK
<1>1. Init => RestTypes
  BY RestStart
<1>2. LogInv /\ RestTypes /\ [Next]_vars => RestTypes'
  BY RestStep
<1>3. RpcInv /\ LogInv /\ SentOnce /\ RestTypes => TypeOK
  <2> SUFFICES ASSUME RpcInv, LogInv, SentOnce, RestTypes PROVE TypeOK
    OBVIOUS
  <2>1. \A p \in Rtps : /\ unread[<<"request", p>>] \in Seq([req : Requests])
                        /\ unread[<<"reply", p>>] \in Seq(Replies)
    <3> SUFFICES ASSUME NEW p \in Rtps
                 PROVE  /\ unread[<<"request", p>>] \in Seq([req : Requests])
                        /\ unread[<<"reply", p>>] \in Seq(Replies)
      OBVIOUS
    <3>1. <<"request", p>> \in Readers /\ <<"reply", p>> \in Readers
      BY DEF Readers
    <3>2. Items(<<"request", p>>) = [req : Requests] /\ Items(<<"reply", p>>) = Replies
      BY DEF Items, Kind
    <3> QED
      BY <3>1, <3>2, UnreadNow
  <2>2. \A t \in Pool : job[t].at \in Places
    BY DEF LogInv, DataTypes, Jobs, RoutingJobs, GetJobs, ReplyingJobs, Idle, Places
  <2>3. \A p \in Rtps : entries[p] \subseteq Nat \X Requests /\ Cardinality(entries[p]) < MaxEntries
    BY DEF LogInv, DataTypes, RestTypes, RoomLeft
  <2>4. /\ sentSeq \in [Rtps -> Nat] /\ copies \subseteq Replies
        /\ answered \in [Rtps \X Requests \X Requests -> Nat]
        /\ missed \subseteq Rtps \X Requests
    BY DEF LogInv, DataTypes
  <2>5. asked \subseteq Requests
    BY DEF SentOnce
  <2> QED
    BY <2>1, <2>2, <2>3, <2>4, <2>5 DEF RpcInv, RpcTypes, RestTypes, TypeOK
<1> QED
  BY OnceInvariant, <1>1, <1>2, <1>3, PTL DEF Spec
=============================================================================
