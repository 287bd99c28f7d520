------------------------------- MODULE Track -------------------------------
(***************************************************************************)
(* One Track of a DdsBridge: the IReader of a participant, the IWriters of *)
(* the participants it forwards to, and the task of the shared             *)
(* SlotThreadPool that moves samples from the former to the latter.        *)
(*                                                                         *)
(* Four kinds of thread meet here.  Controllers call the public operations *)
(* (enable, disable, add_writer, remove_writer, the destructor); Sources   *)
(* are the threads on which a sample reaches the reader and its listener   *)
(* runs; Pool threads execute transmit_().  Each atomic access of the code *)
(* that another thread can observe is one step, and pc[t] says where       *)
(* thread t is.  A mutex is free when no thread is at a step its critical  *)
(* section covers.                                                         *)
(***************************************************************************)
EXTENDS Integers, Sequences

CONSTANTS
  Controllers,       \* threads that call the public operations
  Sources,           \* threads that deliver samples to the reader
  Pool,              \* threads of the SlotThreadPool
  Writers,           \* IWriter objects
  WriterParticipant, \* the participant each writer object belongs to
  InitWriters,       \* writers the Track is constructed with
  Ops,               \* operations the controllers call
  ReaderKind,        \* "internal", "rtps" or "dds": the IReader used
  Reliable,          \* whether the topic is reliable, which an InternalReader ignores
  Corrupt,           \* samples is_data_correct_ refuses (rtps readers only)
  StatusModulus,     \* 2^32: data_available_status_ is an unsigned int
  MaxReceived,       \* bound: samples that arrive in a behaviour
  MaxTasks           \* bound: enable() is called with at most this many tasks queued

Samples == 1..MaxReceived
Threads == Controllers \cup Sources \cup Pool

ASSUME TrackAssumption ==
  /\ Controllers \cap Sources = {}
  /\ Controllers \cap Pool = {}
  /\ Sources \cap Pool = {}
  /\ InitWriters \subseteq Writers
  /\ \A v, w \in InitWriters : WriterParticipant[v] = WriterParticipant[w] => v = w
  /\ Ops \subseteq {"enable", "disable", "add", "remove", "destroy"}
  /\ ReaderKind \in {"internal", "rtps", "dds"}
  /\ Reliable \in BOOLEAN
  /\ MaxReceived \in Nat
  /\ Corrupt \subseteq Samples
  /\ ReaderKind # "rtps" => Corrupt = {}
  /\ StatusModulus \in Nat /\ StatusModulus > 3
  /\ MaxTasks \in Nat

VARIABLES
  enabled,      \* Track::enabled_
  exiting,      \* Track::exit_
  status,       \* Track::data_available_status_
  writers,      \* the objects in Track::writers_
  writerOn,     \* the writers whose BaseWriter::enabled_ is true
  readerOn,     \* BaseReader::enabled_
  callbackSet,  \* BaseReader::on_data_available_lambda_set_
  queue,        \* samples waiting in the reader
  tasks,        \* emissions of transmit_task_id_ no pool thread has started
  destroying,   \* ~Track() is running or has run
  pc,           \* where each thread is
  todo,         \* writers a thread has still to visit in its current loop
  item,         \* the sample a pool thread has taken, 0 if none
  received,     \* number of samples that have arrived
  late,         \* history: samples that arrived while the reader was disabled
  expected,     \* history: samples taken while the writer was in the Track
  delivered     \* history: samples written, per writer

controlVars == <<enabled, exiting, destroying, callbackSet>>
endpointVars == <<writers, writerOn, readerOn>>
localVars == <<todo, item>>
historyVars == <<late, expected, delivered>>
vars == <<controlVars, status, endpointVars, queue, tasks, pc, localVars,
          received, historyVars>>

Callback == {"cb_check", "cb_add", "cb_emit"}
Transmitting == {"tx_check", "tx_mark", "tx_take", "tx_sub", "tx_write"}

ControllerSteps == {"idle", "reset", "writers_on", "drain", "wait_tx", "reader_off",
                    "writers_off", "add", "remove", "unset", "exit", "gone"} \cup Callback
SourceSteps == {"idle", "undefined"} \cup Callback
PoolSteps == {"idle", "tx_lock", "undefined"} \cup Transmitting

At(t, step) == pc[t] = step
Goto(t, step) == pc' = [pc EXCEPT ![t] = step]

\* track_mutex_ is held for the whole of every public operation.
TrackMutexFree == \A c \in Controllers : At(c, "idle")

\* Mutant: transmit_() runs without on_transmission_mutex_.
NoTxMutex == TRUE

\* on_transmission_mutex_ is held for the whole loop of transmit_().
TxMutexFree == \A k \in Pool : pc[k] \notin Transmitting

\* BaseReader::mutex_ is held by BaseReader::enable while enable_nts_ runs.
ReaderMutexFree == \A c \in Controllers : pc[c] \notin {"drain"} \cup Callback

\* The lock of the samples (data_to_send_ of an InternalReader, the RTPS reader
\* mutex otherwise) is held while the listener runs the callback.  enable_nts_ of
\* a dds reader calls it without that lock.
SampleLockFree ==
  /\ \A s \in Sources : pc[s] \notin Callback
  /\ ReaderKind # "dds" => \A c \in Controllers : pc[c] \notin Callback

Destroyed == \E c \in Controllers : At(c, "gone")

Init ==
  /\ enabled = FALSE
  /\ exiting = FALSE
  /\ status = 0
  /\ writers = InitWriters
  /\ writerOn = {}
  /\ readerOn = FALSE
  /\ callbackSet = TRUE
  /\ queue = <<>>
  /\ tasks = 0
  /\ destroying = FALSE
  /\ pc = [t \in Threads |-> "idle"]
  /\ todo = [t \in Threads |-> {}]
  /\ item = [k \in Pool |-> 0]
  /\ received = 0
  /\ late = {}
  /\ expected = [w \in Writers |-> <<>>]
  /\ delivered = [w \in Writers |-> <<>>]

-----------------------------------------------------------------------------
(* Track::enable *)

EnableStart(c) ==
  /\ "enable" \in Ops
  /\ tasks <= MaxTasks
  /\ TrackMutexFree
  /\ ~enabled
  /\ enabled' = TRUE
  /\ Goto(c, "reset")
  /\ UNCHANGED <<exiting, destroying, callbackSet, status, endpointVars, queue, tasks,
                 localVars, received, historyVars>>

EnableReset(c) ==
  /\ At(c, "reset")
  /\ status' = 0
  /\ todo' = [todo EXCEPT ![c] = writers]
  /\ Goto(c, "writers_on")
  /\ UNCHANGED <<controlVars, endpointVars, queue, tasks, item, received, historyVars>>

EnableWriter(c) ==
  /\ At(c, "writers_on")
  /\ \E w \in todo[c] :
       /\ writerOn' = writerOn \cup {w}
       /\ todo' = [todo EXCEPT ![c] = @ \ {w}]
  /\ UNCHANGED <<controlVars, status, writers, readerOn, queue, tasks, pc, item,
                 received, historyVars>>

EnableReader(c) ==
  /\ At(c, "writers_on")
  /\ todo[c] = {}
  /\ ReaderMutexFree
  /\ readerOn' = TRUE
  /\ Goto(c, "drain")
  /\ UNCHANGED <<controlVars, status, writers, writerOn, queue, tasks, localVars,
                 received, historyVars>>

\* Mutant: enable_nts_ does not look at what the reader kept.
AnnouncesNothing == FALSE

\* enable_nts_ of the reader: whether it announces samples kept while disabled.
AnnouncesKept == IF ReaderKind = "internal" THEN queue # <<>> ELSE Reliable

EnableDrain(c) ==
  /\ At(c, "drain")
  /\ ReaderKind = "dds" \/ SampleLockFree
  /\ Goto(c, IF AnnouncesKept THEN "cb_check" ELSE "idle")
  /\ UNCHANGED <<controlVars, status, endpointVars, queue, tasks, localVars,
                 received, historyVars>>

-----------------------------------------------------------------------------
(* Track::disable, also the first part of ~Track *)

Stop(c) ==
  /\ enabled' = FALSE
  /\ Goto(c, "wait_tx")

DisableStart(c) ==
  /\ "disable" \in Ops
  /\ TrackMutexFree
  /\ enabled
  /\ Stop(c)
  /\ UNCHANGED <<exiting, destroying, callbackSet, status, endpointVars, queue, tasks,
                 localVars, received, historyVars>>

\* Mutant: disable() goes on while a transmission is in course.
DisableNoWait(c) ==
  /\ At(c, "wait_tx")
  /\ Goto(c, "reader_off")
  /\ UNCHANGED <<controlVars, status, endpointVars, queue, tasks, localVars,
                 received, historyVars>>

DisableWait(c) ==
  /\ At(c, "wait_tx")
  /\ TxMutexFree
  /\ Goto(c, "reader_off")
  /\ UNCHANGED <<controlVars, status, endpointVars, queue, tasks, localVars,
                 received, historyVars>>

DisableReader(c) ==
  /\ At(c, "reader_off")
  /\ ReaderMutexFree
  /\ readerOn' = FALSE
  /\ todo' = [todo EXCEPT ![c] = writers]
  /\ Goto(c, "writers_off")
  /\ UNCHANGED <<controlVars, status, writers, writerOn, queue, tasks, item,
                 received, historyVars>>

DisableWriter(c) ==
  /\ At(c, "writers_off")
  /\ \E w \in todo[c] :
       /\ writerOn' = writerOn \ {w}
       /\ todo' = [todo EXCEPT ![c] = @ \ {w}]
  /\ UNCHANGED <<controlVars, status, writers, readerOn, queue, tasks, pc, item,
                 received, historyVars>>

DisableDone(c) ==
  /\ At(c, "writers_off")
  /\ todo[c] = {}
  /\ Goto(c, IF destroying THEN "unset" ELSE "idle")
  /\ UNCHANGED <<controlVars, status, endpointVars, queue, tasks, localVars,
                 received, historyVars>>

-----------------------------------------------------------------------------
(* Track::add_writer and Track::remove_writer: both take track_mutex_ and   *)
(* then wait for on_transmission_mutex_.                                   *)

AddStart(c) ==
  /\ "add" \in Ops
  /\ TrackMutexFree
  /\ \E w \in Writers : todo' = [todo EXCEPT ![c] = {w}]
  /\ Goto(c, "add")
  /\ UNCHANGED <<controlVars, status, endpointVars, queue, tasks, item, received,
                 historyVars>>

SameParticipant(v, w) == WriterParticipant[v] = WriterParticipant[w]

\* Mutant: the writer is added as it is.
LeftAsItIs(c) == writerOn

\* The writer is enabled if the Track is.
Opened(c) == IF enabled THEN writerOn \cup todo[c] ELSE writerOn

AddFinish(c) ==
  /\ At(c, "add")
  /\ TxMutexFree
  /\ writers' = {v \in writers : \A w \in todo[c] : ~SameParticipant(v, w)} \cup todo[c]
  /\ writerOn' = Opened(c)
  /\ todo' = [todo EXCEPT ![c] = {}]
  /\ Goto(c, "idle")
  /\ UNCHANGED <<controlVars, status, readerOn, queue, tasks, item, received,
                 historyVars>>

RemoveStart(c) ==
  /\ "remove" \in Ops
  /\ TrackMutexFree
  /\ \E w \in Writers :
       todo' = [todo EXCEPT ![c] = {v \in Writers : SameParticipant(v, w)}]
  /\ Goto(c, "remove")
  /\ UNCHANGED <<controlVars, status, endpointVars, queue, tasks, item, received,
                 historyVars>>

RemoveFinish(c) ==
  /\ At(c, "remove")
  /\ TxMutexFree
  /\ writers' = writers \ todo[c]
  /\ todo' = [todo EXCEPT ![c] = {}]
  /\ Goto(c, "idle")
  /\ UNCHANGED <<controlVars, status, writerOn, readerOn, queue, tasks, item,
                 received, historyVars>>

-----------------------------------------------------------------------------
(* ~Track: disable(), unset the reader's callback, raise exit_.  No public  *)
(* operation may run during or after it (C++ object lifetime).             *)

DestroyStart(c) ==
  /\ "destroy" \in Ops
  /\ TrackMutexFree
  /\ destroying' = TRUE
  /\ IF enabled THEN Stop(c) ELSE Goto(c, "unset") /\ UNCHANGED enabled
  /\ UNCHANGED <<exiting, callbackSet, status, endpointVars, queue, tasks, localVars,
                 received, historyVars>>

DestroyUnset(c) ==
  /\ At(c, "unset")
  /\ ReaderMutexFree
  /\ callbackSet' = FALSE
  /\ Goto(c, "exit")
  /\ UNCHANGED <<enabled, exiting, destroying, status, endpointVars, queue, tasks,
                 localVars, received, historyVars>>

DestroyExit(c) ==
  /\ At(c, "exit")
  /\ exiting' = TRUE
  /\ Goto(c, "gone")
  /\ UNCHANGED <<enabled, destroying, callbackSet, status, endpointVars, queue, tasks,
                 localVars, received, historyVars>>

\* A thread that is still inside the Track, or about to enter it, touches memory
\* that has been released.  Either the old bytes are still there, and the ordinary
\* steps describe what it does, or the program is lost.
TouchDestroyed(t) ==
  /\ Destroyed
  /\ t \in Pool \cup Sources
  /\ pc[t] \in Callback \cup Transmitting \cup {"tx_lock"}
  /\ Goto(t, "undefined")
  /\ UNCHANGED <<controlVars, status, endpointVars, queue, tasks, localVars,
                 received, historyVars>>

-----------------------------------------------------------------------------
(* A sample reaches the reader and its listener runs.                      *)

\* Mutant: a disabled best-effort reader keeps what it receives.
KeepsAll == TRUE

\* Whether the reader keeps a sample that arrives now.
Keeps == ReaderKind = "rtps" => readerOn \/ Reliable

\* Whether its listener calls on_data_available_ for it.
Announces == callbackSet /\ (ReaderKind = "rtps" => readerOn)

Arrive(s) ==
  /\ received < MaxReceived
  /\ At(s, "idle")
  /\ SampleLockFree
  /\ received' = received + 1
  /\ late' = IF readerOn THEN late ELSE late \cup {received + 1}
  /\ queue' = IF Keeps THEN Append(queue, received + 1) ELSE queue
  /\ Goto(s, IF Announces THEN "cb_check" ELSE "idle")
  /\ UNCHANGED <<controlVars, status, endpointVars, tasks, localVars, expected,
                 delivered>>

(* Track::data_available_, run by a source or by the controller that enables *)
(* the reader.  Its end releases whatever mutexes thread t held.             *)

\* Mutant: the callback takes track_mutex_ to read enabled_.
CbCheckLocked(t) ==
  /\ At(t, "cb_check")
  /\ TrackMutexFree
  /\ Goto(t, IF enabled THEN "cb_add" ELSE "idle")
  /\ UNCHANGED <<controlVars, status, endpointVars, queue, tasks, localVars,
                 received, historyVars>>

CbCheck(t) ==
  /\ At(t, "cb_check")
  /\ Goto(t, IF enabled THEN "cb_add" ELSE "idle")
  /\ UNCHANGED <<controlVars, status, endpointVars, queue, tasks, localVars,
                 received, historyVars>>

CbAdd(t) ==
  /\ At(t, "cb_add")
  /\ status' = (status + 2) % StatusModulus
  /\ Goto(t, IF status = 0 THEN "cb_emit" ELSE "idle")
  /\ UNCHANGED <<controlVars, endpointVars, queue, tasks, localVars, received,
                 historyVars>>

CbEmit(t) ==
  /\ At(t, "cb_emit")
  /\ tasks' = tasks + 1
  /\ Goto(t, "idle")
  /\ UNCHANGED <<controlVars, status, endpointVars, queue, localVars, received,
                 historyVars>>

-----------------------------------------------------------------------------
(* Track::transmit_ on a thread of the pool.                               *)

RunTask(k) ==
  /\ At(k, "idle")
  /\ tasks > 0
  /\ tasks' = tasks - 1
  /\ Goto(k, "tx_lock")
  /\ UNCHANGED <<controlVars, status, endpointVars, queue, localVars, received,
                 historyVars>>

TxLock(k) ==
  /\ At(k, "tx_lock")
  /\ TxMutexFree
  /\ Goto(k, "tx_check")
  /\ UNCHANGED <<controlVars, status, endpointVars, queue, tasks, localVars,
                 received, historyVars>>

\* Mutant: the loop only looks at exit_.
RunsUntilExit == ~exiting

ShouldTransmit == ~exiting /\ enabled

TxCheck(k) ==
  /\ At(k, "tx_check")
  /\ Goto(k, IF ShouldTransmit THEN "tx_mark" ELSE "idle")
  /\ UNCHANGED <<controlVars, status, endpointVars, queue, tasks, localVars,
                 received, historyVars>>

TxMark(k) ==
  /\ At(k, "tx_mark")
  /\ status' = 1
  /\ Goto(k, "tx_take")
  /\ UNCHANGED <<controlVars, endpointVars, queue, tasks, localVars, received,
                 historyVars>>

\* BaseReader::take of a disabled reader fails, and the loop tries again.
TxTakeDisabled(k) ==
  /\ At(k, "tx_take")
  /\ ReaderMutexFree
  /\ ~readerOn
  /\ Goto(k, "tx_check")
  /\ UNCHANGED <<controlVars, status, endpointVars, queue, tasks, localVars,
                 received, historyVars>>

TxTakeEmpty(k) ==
  /\ At(k, "tx_take")
  /\ ReaderMutexFree /\ SampleLockFree
  /\ readerOn
  /\ queue = <<>>
  /\ Goto(k, "tx_sub")
  /\ UNCHANGED <<controlVars, status, endpointVars, queue, tasks, localVars,
                 received, historyVars>>

TxTakeCorrupt(k) ==
  /\ At(k, "tx_take")
  /\ ReaderMutexFree /\ SampleLockFree
  /\ readerOn
  /\ queue # <<>>
  /\ Head(queue) \in Corrupt
  /\ queue' = Tail(queue)
  /\ Goto(k, "tx_check")
  /\ UNCHANGED <<controlVars, status, endpointVars, tasks, localVars, received,
                 historyVars>>

TxTake(k) ==
  /\ At(k, "tx_take")
  /\ ReaderMutexFree /\ SampleLockFree
  /\ readerOn
  /\ queue # <<>>
  /\ Head(queue) \notin Corrupt
  /\ queue' = Tail(queue)
  /\ item' = [item EXCEPT ![k] = Head(queue)]
  /\ todo' = [todo EXCEPT ![k] = writers]
  /\ expected' = [w \in Writers |-> IF w \in writers THEN Append(expected[w], Head(queue))
                                    ELSE expected[w]]
  /\ Goto(k, "tx_write")
  /\ UNCHANGED <<controlVars, status, endpointVars, tasks, received, late, delivered>>

\* BaseWriter::write fails on a disabled writer: the sample is skipped for it.
TxWrite(k) ==
  /\ At(k, "tx_write")
  /\ \E w \in todo[k] :
       /\ delivered' = IF w \in writerOn
                       THEN [delivered EXCEPT ![w] = Append(@, item[k])]
                       ELSE delivered
       /\ todo' = [todo EXCEPT ![k] = @ \ {w}]
  /\ UNCHANGED <<controlVars, status, endpointVars, queue, tasks, pc, item, received,
                 late, expected>>

TxWritten(k) ==
  /\ At(k, "tx_write")
  /\ todo[k] = {}
  /\ item' = [item EXCEPT ![k] = 0]
  /\ Goto(k, "tx_check")
  /\ UNCHANGED <<controlVars, status, endpointVars, queue, tasks, todo, received,
                 historyVars>>

\* Mutant: the task ends whatever the listener has added.
NothingOrMore == TRUE

\* Mutant: the status is a signed integer.
OneLessSigned == status - 1

NothingAdded == status = 1
OneLess == (status + StatusModulus - 1) % StatusModulus

TxSub(k) ==
  /\ At(k, "tx_sub")
  /\ status' = OneLess
  /\ Goto(k, IF NothingAdded THEN "idle" ELSE "tx_check")
  /\ UNCHANGED <<controlVars, endpointVars, queue, tasks, localVars, received,
                 historyVars>>

-----------------------------------------------------------------------------
\* The calls a controller may make; nothing obliges it to make one.
Call(c) ==
  \/ EnableStart(c) \/ DisableStart(c) \/ AddStart(c) \/ RemoveStart(c)
  \/ DestroyStart(c)

\* The rest of a call, once made.
ControllerStep(c) ==
  \/ EnableReset(c) \/ EnableWriter(c) \/ EnableReader(c) \/ EnableDrain(c)
  \/ DisableWait(c) \/ DisableReader(c) \/ DisableWriter(c) \/ DisableDone(c)
  \/ AddFinish(c) \/ RemoveFinish(c)
  \/ DestroyUnset(c) \/ DestroyExit(c)

CallbackStep(t) == CbCheck(t) \/ CbAdd(t) \/ CbEmit(t)

PoolStep(k) ==
  \/ RunTask(k) \/ TxLock(k) \/ TxCheck(k) \/ TxMark(k)
  \/ TxTakeDisabled(k) \/ TxTakeEmpty(k) \/ TxTakeCorrupt(k) \/ TxTake(k)
  \/ TxWrite(k) \/ TxWritten(k) \/ TxSub(k)

Next ==
  \/ \E c \in Controllers : Call(c) \/ ControllerStep(c) \/ CallbackStep(c)
  \/ \E s \in Sources : Arrive(s) \/ CallbackStep(s)
  \/ \E k \in Pool : PoolStep(k)
  \/ \E t \in Pool \cup Sources : TouchDestroyed(t)

\* The operating system runs every thread that can run, and the pool runs every
\* task that was emitted; calls and arrivals may stop at any time.
Fairness ==
  /\ \A c \in Controllers : WF_vars(ControllerStep(c) \/ CallbackStep(c))
  /\ \A s \in Sources : WF_vars(CallbackStep(s))
  /\ \A k \in Pool : WF_vars(PoolStep(k))

Spec == Init /\ [][Next]_vars
FairSpec == Spec /\ Fairness

-----------------------------------------------------------------------------
(* Properties *)

\* Every variable of the Track, its reader, its writers and its threads keeps its
\* type; in particular data_available_status_ stays an unsigned integer.
TypeOK ==
  /\ enabled \in BOOLEAN
  /\ exiting \in BOOLEAN
  /\ destroying \in BOOLEAN
  /\ callbackSet \in BOOLEAN
  /\ status \in 0..(StatusModulus - 1)
  /\ writers \subseteq Writers
  /\ writerOn \subseteq Writers
  /\ readerOn \in BOOLEAN
  /\ queue \in Seq(Nat)
  /\ tasks \in Nat
  /\ pc \in [Threads -> ControllerSteps \cup SourceSteps \cup PoolSteps]
  /\ \A c \in Controllers : pc[c] \in ControllerSteps
  /\ \A s \in Sources : pc[s] \in SourceSteps
  /\ \A k \in Pool : pc[k] \in PoolSteps
  /\ todo \in [Threads -> SUBSET Writers]
  /\ item \in [Pool -> Nat]
  /\ received \in Nat
  /\ late \subseteq Nat
  /\ expected \in [Writers -> Seq(Nat)]
  /\ delivered \in [Writers -> Seq(Nat)]

\* transmit_() never calls write() on a disabled writer: enable() enables the
\* writers before the reader, add_writer() enables the writer it adds, and disable()
\* waits for the transmission in course before it disables them.
WritersReadyWhenUsed ==
  \A k \in Pool : At(k, "tx_write") => todo[k] \subseteq writerOn

\* Once disable() has waited for on_transmission_mutex_, no thread of the pool
\* takes or writes a sample until the Track is enabled again.
QuietWhenDisabled ==
  (\E k \in Pool : pc[k] \in Transmitting \ {"tx_check"})
    => enabled \/ \E c \in Controllers : At(c, "wait_tx")

\* A controller is between enabled_ = true and the end of enable().
Enabling ==
  \E c \in Controllers : pc[c] \in {"reset", "writers_on", "drain"} \cup Callback

\* Somebody will look at the reader's samples: a task is queued or running, or a
\* callback that will emit one, or raise the status under a running one, is on its way.
Awake ==
  \/ tasks > 0
  \/ \E k \in Pool : pc[k] \in {"tx_lock"} \cup Transmitting
  \/ \E s \in Sources : pc[s] \in Callback

\* No wake-up is lost: while an enabled Track holds samples, a transmission is
\* pending.  It is what the three values of data_available_status_ are for.
NoLostWakeup == enabled /\ ~Enabling /\ queue # <<>> => Awake

InHand(w) ==
  IF \E k \in Pool : At(k, "tx_write") /\ w \in todo[k]
  THEN <<item[CHOOSE k \in Pool : At(k, "tx_write") /\ w \in todo[k]]>>
  ELSE <<>>

Increasing(s) == \A i, j \in 1..Len(s) : i < j => s[i] < s[j]

\* Every sample taken while a writer is in the Track is written to it, once, in the
\* order of arrival, whatever the tasks and the changes of writers_ in between.
ForwardedInOrder ==
  \A w \in Writers :
    /\ expected[w] = delivered[w] \o InHand(w)
    /\ Increasing(expected[w] \o queue)

\* What reaches the RTPS reader of a best-effort topic while it is disabled is never
\* forwarded (onNewCacheChangeAdded removes it), however often the Track is enabled later.
DiscardsWhileDisabled ==
  ReaderKind = "rtps" /\ ~Reliable =>
    \A w \in Writers : \A i \in 1..Len(delivered[w]) : delivered[w][i] \notin late

\* A sample that waits in an enabled Track is taken, or the Track is disabled.
WaitingIsTaken ==
  \A m \in Samples :
    (enabled /\ \E i \in 1..Len(queue) : queue[i] = m)
      ~> (~enabled \/ \A i \in 1..Len(queue) : queue[i] # m)

\* enable() and disable() return, though a transmit_() that runs before the reader
\* is enabled keeps retrying, and one that runs on keeps finding samples.
CallsReturn == \A c \in Controllers : ~At(c, "idle") ~> At(c, "idle")

-----------------------------------------------------------------------------
(* The Track implements a Relay.                                           *)

Phase ==
  IF enabled THEN "on"
  ELSE IF \E c \in Controllers : At(c, "wait_tx") THEN "stopping" ELSE "off"

Flight ==
  IF \E k \in Pool : At(k, "tx_write")
  THEN LET k == CHOOSE k \in Pool : At(k, "tx_write")
       IN  [item |-> item[k], to |-> todo[k]]
  ELSE [item |-> 0, to |-> {}]

Abstract == INSTANCE Relay WITH
  phase <- Phase, targets <- writers, backlog <- queue, flight <- Flight, out <- delivered

\* Threads, tasks, mutexes and data_available_status_ are an implementation of one
\* sample in flight at a time, which lands, and of a backlog that is worked off.
ImplementsRelay == Abstract!FairRelay
ImplementsSafeRelay == Abstract!SafeRelay
=============================================================================
