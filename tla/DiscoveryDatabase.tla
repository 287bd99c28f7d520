------------------------- MODULE DiscoveryDatabase -------------------------
(***************************************************************************)
(* The DiscoveryDatabase and the listeners that feed it.  The listener of  *)
(* each participant turns what it learns of remote endpoints into          *)
(* operations on a queue; one thread takes them from the queue, changes    *)
(* the database and calls back whoever registered (the DdsPipe).           *)
(*                                                                         *)
(* The thread is modelled from lock to lock: worker names the place where  *)
(* it stands.  The queue is a DBQueue of cpp_utils: back receives while    *)
(* front is worked off, and Swap exchanges them.                           *)
(***************************************************************************)
EXTENDS Integers, Sequences

CONSTANTS
  Participants,  \* participants whose listeners feed the database
  Guids,         \* remote endpoints
  Sees,          \* pairs <<p, g>>: participant p may discover endpoint g
  Rediscovers,   \* whether an endpoint may be discovered again once lost
  Erasable,      \* endpoints somebody erases with erase_endpoint(); no listener does
  Restarts,      \* whether start() may be called after stop()
  MaxPushes      \* bound: operations pushed in a behaviour

ASSUME DatabaseAssumption ==
  /\ Sees \subseteq Participants \X Guids
  /\ Rediscovers \in BOOLEAN
  /\ Erasable \subseteq Guids
  /\ Restarts \in BOOLEAN
  /\ MaxPushes \in Nat

Entity == [by : Participants, active : BOOLEAN]
Operation == [kind : {"add", "update", "erase"}, guid : Guids, entity : Entity]

VARIABLES
  entities,    \* entities_: a function whose domain is the guids it holds
  back,        \* entities_to_process_, the side that receives
  front,       \* entities_to_process_, the side being processed
  signals,     \* notify_one calls of pushes that are still to be made
  worker,      \* where the queue processing thread is
  registered,  \* whether the callbacks of the DdsPipe are registered
  started,     \* enabled_
  exiting,     \* exit_
  stopper,     \* where the thread that calls start() and stop() is
  seen,        \* history: the pairs <<p, g>> that are currently discovered
  lost,        \* history: the pairs that have been lost
  pushes,      \* number of operations pushed
  told         \* history: the endpoints the callbacks last reported as active

queueVars == <<back, front, signals>>
networkVars == <<seen, lost, pushes>>
controlVars == <<registered, started, exiting, stopper>>
databaseVars == <<entities, queueVars, worker, controlVars, networkVars, told>>

WorkerSteps == {"none", "test", "asleep", "swap", "loop", "notify", "calling", "ended"}
StopperSteps == {"idle", "clear", "raise", "wake", "join"}

DatabaseInit ==
  /\ entities = <<>>
  /\ back = <<>>
  /\ front = <<>>
  /\ signals = 0
  /\ worker = "none"
  /\ registered = FALSE
  /\ started = FALSE
  /\ exiting = FALSE
  /\ stopper = "idle"
  /\ seen = {}
  /\ lost = {}
  /\ pushes = 0
  /\ told = {}

-----------------------------------------------------------------------------
(* The listeners of the participants.  Each ends in push_item_to_queue_,   *)
(* which pushes under the mutex of the condition variable and notifies     *)
(* after it has released it.                                               *)

Push(kind, p, g, alive) ==
  /\ pushes < MaxPushes
  /\ pushes' = pushes + 1
  /\ back' = Append(back, [kind |-> kind, guid |-> g, entity |-> [by |-> p, active |-> alive]])
  /\ signals' = signals + 1
  /\ UNCHANGED <<entities, front, worker, controlVars, told>>

Discovered(p, g) ==
  /\ <<p, g>> \in Sees \ seen
  /\ <<p, g>> \in lost => Rediscovers
  /\ seen' = seen \cup {<<p, g>>}
  /\ Push("add", p, g, TRUE)
  /\ UNCHANGED lost

ChangedQos(p, g) ==
  /\ <<p, g>> \in seen
  /\ Push("update", p, g, TRUE)
  /\ UNCHANGED <<seen, lost>>

\* Mutant: a lost endpoint is updated and stays active.
StillActive == TRUE

\* What the listener sets Endpoint::active to when the endpoint is removed.
ActiveOnceRemoved == FALSE

Removed(p, g) ==
  /\ <<p, g>> \in seen
  /\ seen' = seen \ {<<p, g>>}
  /\ lost' = lost \cup {<<p, g>>}
  /\ Push("update", p, g, ActiveOnceRemoved)

\* Nothing in src/ calls erase_endpoint(), but it is public: whoever calls it speaks for
\* the listener of p, and may erase an endpoint the database does not hold.
Erased(p, g) ==
  /\ g \in Erasable
  /\ <<p, g>> \in Sees
  /\ seen' = seen \ {<<p, g>>}
  /\ lost' = lost \cup ({<<p, g>>} \cap seen)
  /\ Push("erase", p, g, TRUE)

\* Mutant: push_item_to_queue_ does not notify.
NotifyNobody == UNCHANGED worker

\* One waiting thread is woken, if there is one.
NotifyOne == worker' = IF worker = "asleep" THEN "test" ELSE worker

\* Mutant: a notification for which nothing was pushed.
SignalUnpaired ==
  /\ signals' = signals - 1
  /\ NotifyOne
  /\ UNCHANGED <<entities, back, front, controlVars, networkVars, told>>

Signal ==
  /\ signals > 0
  /\ signals' = signals - 1
  /\ NotifyOne
  /\ UNCHANGED <<entities, back, front, controlVars, networkVars, told>>

-----------------------------------------------------------------------------
(* queue_processing_thread_routine_                                        *)

WorkerTest ==
  /\ worker = "test"
  /\ worker' = IF exiting THEN "ended"
               ELSE IF back = <<>> /\ front = <<>> THEN "asleep" ELSE "swap"
  /\ UNCHANGED <<entities, queueVars, controlVars, networkVars, told>>

WorkerSwap ==
  /\ worker = "swap"
  /\ front' = back
  /\ back' = front
  /\ worker' = "loop"
  /\ UNCHANGED <<entities, signals, controlVars, networkVars, told>>

WorkerDone ==
  /\ worker = "loop"
  /\ front = <<>>
  /\ worker' = "test"
  /\ UNCHANGED <<entities, queueVars, controlVars, networkVars, told>>

Known(g) == g \in DOMAIN entities
ActiveIn(g) == Known(g) /\ entities[g].active

\* InconsistencyException: process_queue_ logs it and goes on.
Refused(op) ==
  IF op.kind = "add" THEN ActiveIn(op.guid) ELSE ~Known(op.guid)

\* Mutant: an update calls nobody back.
SilentIfKnown(op) == op.kind # "erase" /\ Known(op.guid)

\* An inactive endpoint that is added again is replaced without a callback.
Silent(op) == op.kind = "add" /\ Known(op.guid)

Put(f, k, v) == [x \in DOMAIN f \cup {k} |-> IF x = k THEN v ELSE f[x]]
Without(f, k) == [x \in DOMAIN f \ {k} |-> f[x]]

Applied(op) ==
  IF op.kind = "erase" THEN Without(entities, op.guid)
  ELSE Put(entities, op.guid, op.entity)

WorkerRefuse ==
  /\ worker = "loop"
  /\ front # <<>>
  /\ Refused(Head(front))
  /\ front' = Tail(front)
  /\ UNCHANGED <<entities, back, signals, worker, controlVars, networkVars, told>>

WorkerReplace ==
  /\ worker = "loop"
  /\ front # <<>>
  /\ ~Refused(Head(front)) /\ Silent(Head(front))
  /\ entities' = Applied(Head(front))
  /\ front' = Tail(front)
  /\ UNCHANGED <<back, signals, worker, controlVars, networkVars, told>>

WorkerApply ==
  /\ worker = "loop"
  /\ front # <<>>
  /\ ~Refused(Head(front)) /\ ~Silent(Head(front))
  /\ entities' = Applied(Head(front))
  /\ worker' = "notify"
  /\ UNCHANGED <<queueVars, controlVars, networkVars, told>>

\* The callbacks are called with callbacks_mutex_ held.
WorkerCall ==
  /\ worker = "notify"
  /\ registered
  /\ worker' = "calling"
  /\ UNCHANGED <<entities, queueVars, controlVars, networkVars, told>>

WorkerNobody ==
  /\ worker = "notify"
  /\ ~registered
  /\ worker' = "loop"
  /\ front' = Tail(front)
  /\ UNCHANGED <<entities, back, signals, controlVars, networkVars, told>>

Reported(op) ==
  IF op.kind # "erase" /\ op.entity.active THEN told \cup {op.guid} ELSE told \ {op.guid}

WorkerReturn ==
  /\ worker = "calling"
  /\ told' = Reported(Head(front))
  /\ worker' = "loop"
  /\ front' = Tail(front)
  /\ UNCHANGED <<entities, back, signals, controlVars, networkVars>>

-----------------------------------------------------------------------------
(* start() and stop(), called from the constructor and the destructor of    *)
(* the DdsPipe.  Its constructor registers the callbacks before start().    *)

Start ==
  /\ stopper = "idle"
  /\ ~started
  /\ exiting => Restarts
  /\ registered' = TRUE
  /\ started' = TRUE
  /\ worker' = "test"
  /\ UNCHANGED <<entities, queueVars, exiting, stopper, networkVars, told>>

Stop ==
  /\ stopper = "idle"
  /\ started
  /\ stopper' = "clear"
  /\ UNCHANGED <<entities, queueVars, worker, registered, started, exiting, networkVars, told>>

\* Mutant: clear_all_callbacks does not take callbacks_mutex_.
NoCallbacksMutex == TRUE

CallbacksMutexFree == worker # "calling"

StopClear ==
  /\ stopper = "clear"
  /\ CallbacksMutexFree
  /\ registered' = FALSE
  /\ stopper' = "raise"
  /\ UNCHANGED <<entities, queueVars, worker, started, exiting, networkVars, told>>

StopRaise ==
  /\ stopper = "raise"
  /\ exiting' = TRUE
  /\ stopper' = "wake"
  /\ UNCHANGED <<entities, queueVars, worker, registered, started, networkVars, told>>

\* Mutant: stop() raises exit_ and joins, without notifying.
StopSilently ==
  /\ stopper = "wake"
  /\ started' = FALSE
  /\ stopper' = "join"
  /\ UNCHANGED <<entities, queueVars, worker, registered, exiting, networkVars, told>>

StopWake ==
  /\ stopper = "wake"
  /\ NotifyOne
  /\ started' = FALSE
  /\ stopper' = "join"
  /\ UNCHANGED <<entities, queueVars, registered, exiting, networkVars, told>>

StopJoin ==
  /\ stopper = "join"
  /\ worker = "ended"
  /\ worker' = "none"
  /\ stopper' = "idle"
  /\ UNCHANGED <<entities, queueVars, registered, started, exiting, networkVars, told>>

-----------------------------------------------------------------------------
Listener == \E p \in Participants, g \in Guids :
  Discovered(p, g) \/ ChangedQos(p, g) \/ Removed(p, g) \/ Erased(p, g)

\* The steps of the thread but for the one that ends a callback.
WorkerStep ==
  \/ WorkerTest \/ WorkerSwap \/ WorkerDone
  \/ WorkerRefuse \/ WorkerReplace \/ WorkerApply
  \/ WorkerCall \/ WorkerNobody

StopStep == StopClear \/ StopRaise \/ StopWake \/ StopJoin

DatabaseNext ==
  \/ Listener \/ Signal
  \/ WorkerStep \/ WorkerReturn
  \/ Start \/ Stop \/ StopStep

\* The operating system runs the listeners that have pushed, the thread of the queue,
\* and a stop() that was called.
DatabaseFairness ==
  /\ WF_databaseVars(Signal)
  /\ WF_databaseVars(WorkerStep \/ WorkerReturn)
  /\ WF_databaseVars(StopStep)

DatabaseSpec == DatabaseInit /\ [][DatabaseNext]_databaseVars
FairDatabaseSpec == DatabaseSpec /\ DatabaseFairness

-----------------------------------------------------------------------------
(* Properties *)

\* Every variable keeps its type.
DatabaseTypeOK ==
  /\ DOMAIN entities \subseteq Guids
  /\ \A g \in DOMAIN entities : entities[g] \in Entity
  /\ back \in Seq(Operation)
  /\ front \in Seq(Operation)
  /\ signals \in Nat
  /\ worker \in WorkerSteps
  /\ registered \in BOOLEAN
  /\ started \in BOOLEAN
  /\ exiting \in BOOLEAN
  /\ stopper \in StopperSteps
  /\ seen \subseteq Participants \X Guids
  /\ lost \subseteq Participants \X Guids
  /\ pushes \in Nat
  /\ told \subseteq Guids

\* The thread has worked off everything the listeners have pushed.
Settled == back = <<>> /\ front = <<>> /\ worker \in {"test", "asleep"}

\* Once the queue is worked off, the active endpoints of the database are those that
\* some participant currently discovers.
MirrorsNetwork ==
  Settled => \A g \in Guids : ActiveIn(g) <=> \E p \in Participants : <<p, g>> \in seen

\* Once the queue is worked off, the callbacks have reported every endpoint as it is,
\* but for those that were lost and found again.
ToldEverything ==
  Settled /\ registered =>
    \A g \in Guids :
      (\A p \in Participants : <<p, g>> \notin lost \cap seen) => (g \in told <=> ActiveIn(g))

\* Once the queue is worked off, a callback has been called for every active endpoint.
ToldDiscovered == Settled /\ registered => \A g \in Guids : ActiveIn(g) => g \in told

\* After clear_all_callbacks() no callback runs, and so none reaches a DdsPipe that goes
\* on with its destruction.
NoCallbackWhileDestroyed == worker = "calling" => registered /\ stopper \in {"idle", "clear"}

\* What is pushed to a started database is taken from the queue, or stop() is called:
\* no notify_one comes too early to be heard.
PushedIsProcessed == started /\ back # <<>> ~> back = <<>> \/ stopper # "idle"

\* stop() joins the thread, wherever the thread is when it is called.
StopReturns == stopper # "idle" ~> stopper = "idle"
=============================================================================
